--------------------------- MODULE MCStateRestore ---------------------------
(* Two packages, two jobs; rigs as VoiceRig leaves them. *)
EXTENDS StateRestore, TLC

CONSTANTS anders, bo, one, two, c1, c2

MCInputs == (1 :> {c1, c2}) @@ (2 :> {c1})
MCVoices == (1 :> anders) @@ (2 :> bo)

Disk(library, rig, d, s1, s2, clips) ==
  [data |-> [m \in Members |->
      CASE m \in Packages -> library[m[2]]
        [] m = Record(1) -> s1
        [] m = Record(2) -> s2
        [] OTHER -> IF m[2] \in clips THEN "clip" ELSE Absent],
   modelrig |-> rig, default |-> d]

Pair(x, y) == (anders :> x) @@ (bo :> y)
\* A promoted package, a package of ModelRig's only, a paused job, an interrupted one.
MCOld == {
  Disk(Pair(one, Absent), Pair(one, two), anders, "running", "succeeded", {1}),
  Disk(Pair(Absent, two), Pair(Absent, one), bo, "queued", "failed", {1}),
  Disk(Pair(Absent, two), Pair(Absent, Absent), Absent, "needs_speaker", "cancelling", {1, 2})}
\* A fresh machine, one where only ModelRig has been used, two where VoiceRig has.
MCNew == {
  Disk(Pair(Absent, Absent), Pair(Absent, Absent), Absent, Absent, Absent, {}),
  Disk(Pair(Absent, Absent), Pair(Absent, one), bo, Absent, Absent, {}),
  Disk(Pair(two, two), Pair(Absent, two), bo, Absent, "queued", {2}),
  Disk(Pair(Absent, Absent), Pair(Absent, one), bo, "needs_speaker", Absent, {1})}
=============================================================================
