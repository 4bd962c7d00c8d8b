----------------------------- MODULE VoiceStore -----------------------------
(***************************************************************************)
(* The two directories of .mrvoice files and the marker of the default     *)
(* voice: profiles/package.py (build_package), profiles/migration.py,      *)
(* profiles/library.py, modelrig/client.py (install_local) and the         *)
(* requests of app/main.py, app/tts_api.py and app/jobs.py that call them. *)
(*                                                                         *)
(* Builds take the build gate. Every other request runs on a thread of its *)
(* own with no lock at all: what protects a reader is that a file is       *)
(* written beside its place and moved there with os.replace. A step is one *)
(* file operation. Any of them may raise OSError; on Windows one on a file *)
(* that somebody has open does, elsewhere it succeeds, and the model       *)
(* allows both.                                                            *)
(***************************************************************************)
EXTENDS Naturals, Sequences, FiniteSets

CONSTANTS
  Threads,
  Names,     \* file names of packages
  Voices,    \* voice ids
  RefsOf,    \* the reference clips of a voice, its primary reference first
  AltName,   \* the name an import falls back to: slugify(name)-id[-8:]
  Recorded,  \* the voices that are built here; the others come by import
  Does,      \* the requests a thread makes: a kind and a name each
  Asked,     \* the reference indices that promotions ask for
  None,      \* no file, no name
  Nobody     \* the gate is free; nobody is writing a file

Dirs == {"library", "modelrig"}
Kinds == {"build", "promote", "install", "import", "delete"}
References == UNION {{RefsOf[v][i] : i \in 1..Len(RefsOf[v])} : v \in Voices}

ASSUME StoreAssumption ==
  /\ \A v \in Voices : RefsOf[v] \in Seq(References) /\ RefsOf[v] # <<>>
  /\ AltName \in [Voices -> Names]
  /\ Does \in [Threads -> SUBSET (Kinds \X Names)]
  /\ Asked \subseteq Nat \ {0} /\ Recorded \subseteq Voices
  /\ None \notin Names /\ Nobody \notin Threads

VARIABLES
  shelf,      \* shelf[d][n]: the package file n of directory d
  temp,       \* temp[d][n]: its sibling n.tmp, which build_package writes
  default,    \* the name in default.txt
  marker,     \* the name in default.txt.tmp
  gate,       \* the thread holding the build gate
  thread,     \* what each request is doing
  torn        \* history: names whose deletion crossed an installation or was cut short, until
              \* they are installed again

files == <<shelf, temp, default, marker>>
vars == <<files, gate, thread, torn>>

\* A package: who speaks, the references stored (the primary one first) and the reference
\* its conditioning.pt was computed from.
Packages == [voice : Voices, refs : Seq(References) \ {<<>>}, cond : References]
NoPackage == [voice |-> None, refs |-> <<>>, cond |-> None]
Fresh(v) == [voice |-> v, refs |-> RefsOf[v], cond |-> RefsOf[v][1]]
Conditioned(p) == p.cond = p.refs[1]

\* A file is whole once nobody is writing it. One whose writer died stays as it is.
File(p, t) == [pkg |-> p, by |-> t]
NoFile == File(NoPackage, Nobody)
Lost == "lost"
Exists(f) == f.pkg # NoPackage
Whole(f) == Exists(f) /\ f.by = Nobody

Idle == [pc |-> "idle", kind |-> "none", dir |-> "library", name |-> None, pkg |-> NoPackage,
         index |-> 0, from |-> None, voice |-> None, steady |-> TRUE, ok |-> TRUE]
Writing == {"clear", "open", "fill", "check", "swap", "cleanup"}

\* Mutant: the stored order is kept, whichever reference was chosen.
PromotedInPlace(p, i, ref) == [p EXCEPT !.cond = ref]

\* Mutant: the chosen reference is skipped one position too early.
PromotedTwice(p, i, ref) ==
  [voice |-> p.voice,
   refs |-> [j \in 1..Len(p.refs) |-> IF j = 1 THEN p.refs[i]
                                      ELSE IF j < i THEN p.refs[j - 1] ELSE p.refs[j]],
   cond |-> ref]

\* Mutant: only what comes after the chosen reference is stored.
PromotedAway(p, i, ref) ==
  [voice |-> p.voice, refs |-> [j \in 1..(Len(p.refs) - i) |-> p.refs[i + j]], cond |-> ref]

\* rebuild_package_for_engine: the chosen reference first, the others after it in order.
Promoted(p, i, ref) ==
  [voice |-> p.voice,
   refs |-> [j \in 1..Len(p.refs) |-> IF j = 1 THEN p.refs[i]
                                      ELSE IF j <= i THEN p.refs[j - 1] ELSE p.refs[j]],
   cond |-> ref]

Installing(d, n) == [Idle EXCEPT !.pc = "copy", !.kind = "install", !.dir = d, !.name = n]

Goto(t, pc) == thread' = [thread EXCEPT ![t].pc = pc]
End(t) == thread' = [thread EXCEPT ![t] = Idle]

\* A file of ModelRig's directory is replaced or removed: the promotions that have read it
\* are no longer working on what they read.
Unsteady(n) == [u \in Threads |-> IF thread[u].kind = "promote" /\ thread[u].name = n
                                  THEN [thread[u] EXCEPT !.steady = FALSE] ELSE thread[u]]

Init ==
  /\ shelf = [d \in Dirs |-> [n \in Names |-> NoFile]]
  /\ temp = [d \in Dirs |-> [n \in Names |-> NoFile]]
  /\ default = None
  /\ marker = None
  /\ gate = Nobody
  /\ thread = [t \in Threads |-> Idle]
  /\ torn = {}

-----------------------------------------------------------------------------
(* build_package, called by a build for the library and by a promotion for *)
(* ModelRig's directory. The name of its temporary file is fixed.          *)

\* temp.unlink, before the try: what a crash or a failed clean-up left is removed.
Clear(t) ==
  LET me == thread[t] IN
  /\ me.pc = "clear"
  /\ temp' = [temp EXCEPT ![me.dir][me.name] = NoFile]
  /\ Goto(t, "open")
  /\ UNCHANGED <<shelf, default, marker, gate, torn>>

\* zipfile.ZipFile(temp, "w"). If another request has opened the name since it was cleared,
\* both write to one file, and what they write may collide for good.
Open(t) ==
  LET me == thread[t]
      owner == temp[me.dir][me.name].by IN
  /\ me.pc = "open"
  /\ \E by \in {t} \cup (IF owner \in Threads THEN {Lost} ELSE {}) :
       temp' = [temp EXCEPT ![me.dir][me.name] = File(me.pkg, by)]
  /\ Goto(t, "fill")
  /\ UNCHANGED <<shelf, default, marker, gate, torn>>

\* The last byte is written, wherever the file is by now.
Fill(t) ==
  LET Done(f) == IF f.by = t THEN File(f.pkg, Nobody) ELSE f IN
  /\ thread[t].pc = "fill"
  /\ shelf' = [d \in Dirs |-> [n \in Names |-> Done(shelf[d][n])]]
  /\ temp' = [d \in Dirs |-> [n \in Names |-> Done(temp[d][n])]]
  /\ Goto(t, "check")
  /\ UNCHANGED <<default, marker, gate, torn>>

\* validate_package(temp) reads whatever the temporary name leads to.
Check(t) ==
  LET me == thread[t] IN
  /\ me.pc = "check"
  /\ IF Whole(temp[me.dir][me.name])
     THEN Goto(t, "swap")
     ELSE thread' = [thread EXCEPT ![t].pc = "cleanup", ![t].ok = FALSE]
  /\ UNCHANGED <<files, gate, torn>>

\* os.replace(temp, output)
Swap(t) ==
  LET me == thread[t]
      f == temp[me.dir][me.name]
      others == IF me.dir = "modelrig" THEN Unsteady(me.name) ELSE thread IN
  /\ me.pc = "swap"
  /\ IF Exists(f)
     THEN /\ shelf' = [shelf EXCEPT ![me.dir][me.name] = f]
          /\ temp' = [temp EXCEPT ![me.dir][me.name] = NoFile]
          /\ thread' = [others EXCEPT ![t].pc = "cleanup", ![t].pkg = NoPackage]
     ELSE /\ thread' = [thread EXCEPT ![t].pc = "cleanup", ![t].ok = FALSE]
          /\ UNCHANGED <<shelf, temp>>
  /\ UNCHANGED <<default, marker, gate, torn>>

\* The finally clause; its unlink may fail, which ends the request with an error and leaves
\* the file. A build then lets go of the gate, and its voice is installed if the request
\* asked for that; a promotion validates the package and answers.
Cleanup(t) ==
  LET me == thread[t]
      left == temp[me.dir][me.name] IN
  /\ me.pc = "cleanup"
  /\ gate' = IF me.kind = "build" THEN Nobody ELSE gate
  /\ \/ temp' = [temp EXCEPT ![me.dir][me.name] = NoFile] /\ End(t)
     \/ /\ me.kind = "build" /\ me.ok
        /\ temp' = [temp EXCEPT ![me.dir][me.name] = NoFile]
        /\ thread' = [thread EXCEPT ![t] = Installing("library", me.name)]
     \/ Exists(left) /\ UNCHANGED temp /\ End(t)
  /\ UNCHANGED <<shelf, default, marker, torn>>

-----------------------------------------------------------------------------
(* Builds *)

\* Mutant: the gate is not waited for.
BeginBuildAnyway(t, n) ==
  /\ <<"build", n>> \in Does[t] /\ thread[t].pc = "idle"
  /\ thread' = [thread EXCEPT ![t] = [Idle EXCEPT !.pc = "work", !.kind = "build", !.name = n]]
  /\ gate' = t
  /\ UNCHANGED <<files, torn>>

\* _acquire_build_gate. The gate covers the whole pipeline up to the package.
BeginBuild(t, n) ==
  /\ gate = Nobody /\ gate' = t
  /\ <<"build", n>> \in Does[t] /\ thread[t].pc = "idle"
  /\ thread' = [thread EXCEPT ![t] = [Idle EXCEPT !.pc = "work", !.kind = "build", !.name = n]]
  /\ UNCHANGED <<files, torn>>

\* The pipeline has the three artifacts of a new voice.
Artifacts(t, v) ==
  /\ thread[t].pc = "work"
  /\ thread' = [thread EXCEPT ![t].pc = "clear", ![t].pkg = Fresh(v)]
  /\ UNCHANGED <<files, gate, torn>>

-----------------------------------------------------------------------------
(* tts_promote_rost_reference *)

\* resolve_package finds a file by its name, by the default marker or because it is the only one.
BeginPromote(t, n, i) ==
  /\ <<"promote", n>> \in Does[t] /\ thread[t].pc = "idle"
  /\ Whole(shelf["modelrig"][n])
  /\ thread' = [thread EXCEPT ![t] = [Idle EXCEPT !.pc = "extract", !.kind = "promote",
                 !.dir = "modelrig", !.name = n, !.index = i]]
  /\ UNCHANGED <<files, gate, torn>>

\* _extract_reference; the artifacts are then generated from this clip, which can take long.
Extract(t) ==
  LET me == thread[t]
      p == shelf["modelrig"][me.name].pkg IN
  /\ me.pc = "extract"
  /\ IF Whole(shelf["modelrig"][me.name]) /\ me.index <= Len(p.refs)
     THEN thread' = [thread EXCEPT ![t].pc = "identify", ![t].from = p.refs[me.index],
                                   ![t].steady = TRUE]
     ELSE End(t)
  /\ UNCHANGED <<files, gate, torn>>

\* rebuild_package_for_engine: validate_package(source) tells who speaks.
Identify(t) ==
  LET f == shelf["modelrig"][thread[t].name] IN
  /\ thread[t].pc = "identify"
  /\ IF Whole(f)
     THEN thread' = [thread EXCEPT ![t].pc = "rebuild", ![t].voice = f.pkg.voice]
     ELSE End(t)
  /\ UNCHANGED <<files, gate, torn>>

\* It then opens the package for the clips and applies the index once more.
Rebuild(t) ==
  LET me == thread[t]
      f == shelf["modelrig"][me.name] IN
  /\ me.pc = "rebuild"
  /\ IF Whole(f) /\ me.index <= Len(f.pkg.refs)
     THEN thread' = [thread EXCEPT ![t].pc = "clear", ![t].index = 0, ![t].from = None,
            ![t].voice = None,
            ![t].pkg = Promoted([f.pkg EXCEPT !.voice = me.voice], me.index, me.from)]
     ELSE End(t)
  /\ UNCHANGED <<files, gate, torn>>

-----------------------------------------------------------------------------
(* install_local, called by set_default, repair_modelrig and after a build *)

\* find_package prefers the library's file and validates what it finds.
BeginInstall(t, n) ==
  LET d == IF Exists(shelf["library"][n]) THEN "library" ELSE "modelrig" IN
  /\ <<"install", n>> \in Does[t] /\ thread[t].pc = "idle"
  /\ Whole(shelf[d][n])
  /\ thread' = [thread EXCEPT ![t] = Installing(d, n)]
  /\ UNCHANGED <<files, gate, torn>>

\* shutil.copy2 to a temporary file of its own: it copies what the path leads to now.
Copy(t) ==
  LET me == thread[t]
      f == shelf[me.dir][me.name] IN
  /\ me.pc = "copy"
  /\ IF Exists(f)
     THEN thread' = [thread EXCEPT ![t].pc = "place", ![t].pkg = f.pkg, ![t].ok = Whole(f)]
     ELSE End(t)
  /\ UNCHANGED <<files, gate, torn>>

\* os.replace(temp_path, destination)
Place(t) ==
  LET me == thread[t] IN
  /\ me.pc = "place"
  /\ shelf' = [shelf EXCEPT !["modelrig"][me.name] =
                 File(me.pkg, IF me.ok THEN Nobody ELSE Lost)]
  /\ thread' = [Unsteady(me.name) EXCEPT ![t].pc = "mark", ![t].pkg = NoPackage]
  /\ torn' = torn \ {me.name}
  /\ UNCHANGED <<temp, default, marker, gate>>

\* default.txt.tmp has one name for everybody.
Mark(t) ==
  /\ thread[t].pc = "mark"
  /\ marker' = thread[t].name
  /\ Goto(t, "commit")
  /\ UNCHANGED <<shelf, temp, default, gate, torn>>

\* os.replace(marker_tmp, voices / "default.txt")
Commit(t) ==
  /\ thread[t].pc = "commit"
  /\ IF marker # None
     THEN default' = marker /\ marker' = None /\ Goto(t, "confirm")
     ELSE End(t) /\ UNCHANGED <<default, marker>>
  /\ UNCHANGED <<shelf, temp, gate, torn>>

\* The voice is installed; set_default lists the voices once more and answers.
Confirm(t) ==
  /\ thread[t].pc = "confirm"
  /\ End(t)
  /\ UNCHANGED <<files, gate, torn>>

-----------------------------------------------------------------------------
(* import_package *)

\* A file of that name with another voice in it is left alone.
BeginImport(t, n, v) ==
  LET f == shelf["library"][n]
      target == IF Whole(f) /\ f.pkg.voice # v THEN AltName[v] ELSE n IN
  /\ <<"import", n>> \in Does[t] /\ thread[t].pc = "idle"
  /\ thread' = [thread EXCEPT ![t] = [Idle EXCEPT !.pc = "shelve", !.kind = "import",
                 !.name = target, !.pkg = Fresh(v)]]
  /\ UNCHANGED <<files, gate, torn>>

\* Copied to a temporary file of its own, validated and moved; make_default installs it.
Shelve(t) ==
  LET me == thread[t] IN
  /\ me.pc = "shelve"
  /\ shelf' = [shelf EXCEPT !["library"][me.name] = File(me.pkg, Nobody)]
  /\ \/ End(t)
     \/ thread' = [thread EXCEPT ![t] = Installing("library", me.name)]
  /\ UNCHANGED <<temp, default, marker, gate, torn>>

-----------------------------------------------------------------------------
(* delete_voice *)

BeginDelete(t, n) ==
  /\ <<"delete", n>> \in Does[t] /\ thread[t].pc = "idle"
  /\ thread' = [thread EXCEPT ![t] = [Idle EXCEPT !.pc = "unlink", !.kind = "delete",
                 !.name = n]]
  /\ UNCHANGED <<files, gate, torn>>

UnlinkLibrary(t) ==
  /\ thread[t].pc = "unlink"
  /\ shelf' = [shelf EXCEPT !["library"][thread[t].name] = NoFile]
  /\ thread' = [thread EXCEPT ![t].pc = "unlink2"]
  /\ UNCHANGED <<temp, default, marker, gate, torn>>

\* Somebody may just be about to make this voice the default.
BeingMarked(n) ==
  \/ marker = n /\ \E t \in Threads : thread[t].pc = "commit"
  \/ \E t \in Threads : thread[t].name = n /\ thread[t].pc \in {"mark", "commit"}

UnlinkModelRig(t) ==
  LET n == thread[t].name IN
  /\ thread[t].pc = "unlink2"
  /\ shelf' = [shelf EXCEPT !["modelrig"][n] = NoFile]
  /\ thread' = [Unsteady(n) EXCEPT ![t].pc = "compare"]
  /\ torn' = IF BeingMarked(n) THEN torn \cup {n} ELSE torn
  /\ UNCHANGED <<temp, default, marker, gate>>

\* Mutant: the marker is left to the next set_default.
CompareNot(t) ==
  /\ thread[t].pc = "compare"
  /\ End(t)
  /\ UNCHANGED <<files, gate, torn>>

\* default_package_name() == safe
Compare(t) ==
  /\ thread[t].pc = "compare"
  /\ IF default = thread[t].name THEN Goto(t, "unmark") ELSE End(t)
  /\ UNCHANGED <<files, gate, torn>>

\* marker.unlink
Unmark(t) ==
  /\ thread[t].pc = "unmark"
  /\ default' = None
  /\ End(t)
  /\ UNCHANGED <<shelf, temp, marker, gate, torn>>

-----------------------------------------------------------------------------
(* Failures *)

Deleting(t) == thread[t].pc \in {"compare", "unmark"}

\* What a dead writer leaves is never finished.
Orphaned(f, dead) == IF f.by \in dead THEN File(f.pkg, Lost) ELSE f
Abandon(dead) ==
  /\ shelf' = [d \in Dirs |-> [n \in Names |-> Orphaned(shelf[d][n], dead)]]
  /\ temp' = [d \in Dirs |-> [n \in Names |-> Orphaned(temp[d][n], dead)]]

\* OSError: once build_package is in its try statement it goes through the finally clause,
\* everything else just ends.
Fail(t) ==
  LET me == thread[t] IN
  /\ me.pc \notin {"idle", "cleanup", "confirm"}
  /\ Abandon({t})
  /\ IF me.pc \in Writing \ {"clear"}
     THEN /\ thread' = [thread EXCEPT ![t].pc = "cleanup", ![t].ok = FALSE]
          /\ UNCHANGED gate
     ELSE /\ End(t)
          /\ gate' = IF gate = t THEN Nobody ELSE gate
  /\ torn' = IF Deleting(t) THEN torn \cup {me.name} ELSE torn
  /\ UNCHANGED <<default, marker>>

\* The process ends at any step. Whatever is written by then stays on the disk: packages, the
\* temporary files beside them, default.txt.tmp.
Crash ==
  /\ \E t \in Threads : thread[t].pc # "idle"
  /\ Abandon(Threads)
  /\ thread' = [t \in Threads |-> Idle]
  /\ gate' = Nobody
  /\ torn' = torn \cup {thread[t].name : t \in {u \in Threads : Deleting(u)}}
  /\ UNCHANGED <<default, marker>>

Step(t) ==
  \/ \E n \in Names : BeginBuild(t, n) \/ BeginInstall(t, n) \/ BeginDelete(t, n)
  \/ \E n \in Names, i \in Asked : BeginPromote(t, n, i)
  \/ \E n \in Names, v \in Voices \ Recorded : BeginImport(t, n, v)
  \/ \E v \in Recorded : Artifacts(t, v)
  \/ Clear(t) \/ Open(t) \/ Fill(t) \/ Check(t) \/ Swap(t) \/ Cleanup(t)
  \/ Extract(t) \/ Identify(t) \/ Rebuild(t)
  \/ Copy(t) \/ Place(t) \/ Mark(t) \/ Commit(t) \/ Confirm(t)
  \/ Shelve(t)
  \/ UnlinkLibrary(t) \/ UnlinkModelRig(t) \/ Compare(t) \/ Unmark(t)
  \/ Fail(t)

Next == Crash \/ \E t \in Threads : Step(t)

Spec == Init /\ [][Next]_vars

-----------------------------------------------------------------------------
(* Properties *)

\* The types of the files, the marker, the gate and the requests.
FilesOf(P) == [pkg : P, by : Threads \cup {Nobody, Lost}] \cup {NoFile}
Pcs == {"idle", "work", "extract", "identify", "rebuild", "copy", "place", "mark", "commit", "confirm",
        "shelve", "unlink", "unlink2", "compare", "unmark"} \cup Writing
Requests ==
  [pc : Pcs, kind : Kinds \cup {"none"}, dir : Dirs, name : Names \cup {None},
   pkg : Packages \cup {NoPackage}, index : Asked \cup {0}, from : References \cup {None},
   voice : Voices \cup {None}, steady : BOOLEAN, ok : BOOLEAN]
TypeOK ==
  /\ shelf \in [Dirs -> [Names -> FilesOf(Packages)]]
  /\ temp \in [Dirs -> [Names -> FilesOf(Packages)]]
  /\ default \in Names \cup {None} /\ marker \in Names \cup {None}
  /\ gate \in Threads \cup {Nobody}
  /\ thread \in [Threads -> Requests]
  /\ torn \in SUBSET Names

\* However builds, imports, deletions and failures interleave, every file of the library is a
\* finished package, and its conditioning was computed from its own primary reference: the
\* gate keeps two builds off one temporary file, promotions never write here, and what a
\* crash or a failed clean-up left beside a package is never taken for one.
LibraryIsSound ==
  \A n \in Names : LET f == shelf["library"][n] IN
    Exists(f) => Whole(f) /\ Conditioned(f.pkg)

\* No sequence of promotions, installations and failures loses or doubles a reference clip or
\* mixes two voices: each package holds the clips some voice was built with, in some order
\* (rebuild_package_for_engine: "every other stored reference remains available"). In the
\* library that voice is the package's own; a promotion whose package is replaced between
\* its two reads may write the name of the one beside the clips of the other.
ClipsOf(p, v) ==
  /\ Len(p.refs) = Len(RefsOf[v])
  /\ \A i \in 1..Len(p.refs) : \E j \in 1..Len(p.refs) : p.refs[j] = RefsOf[v][i]
ReferencesKept ==
  \A n \in Names :
    /\ Exists(shelf["library"][n]) =>
         ClipsOf(shelf["library"][n].pkg, shelf["library"][n].pkg.voice)
    /\ Exists(shelf["modelrig"][n]) =>
         \E v \in Voices : ClipsOf(shelf["modelrig"][n].pkg, v)

\* A promotion whose package nobody replaced since it took its clip writes a package whose
\* conditioning fits its new primary reference.
PromotionsAgree ==
  \A t \in Threads :
    thread[t].kind = "promote" /\ thread[t].pc \in Writing \ {"cleanup"} /\ thread[t].steady
      => Conditioned(thread[t].pkg)

\* The default marker names a package that is there, or that is just being deleted. Only a
\* voice deleted while it was being made the default, or whose deletion was cut short, may
\* leave a marker that leads nowhere, and only until the voice is installed again.
DefaultIsInstalled ==
  default \notin torn \cup {None} =>
    \/ Exists(shelf["modelrig"][default])
    \/ \E t \in Threads : thread[t].name = default /\ Deleting(t)

\* docs/MRVOICE_SPEC.md: the primary reference is the one conditioning.pt was generated from.
\* It fails for two promotions of one package, which both apply their index to the order the
\* other one changes.
PrimaryIsConditioned ==
  \A n \in Names : LET f == shelf["modelrig"][n] IN Whole(f) => Conditioned(f.pkg)

=============================================================================
