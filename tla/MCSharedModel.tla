--------------------------- MODULE MCSharedModel ---------------------------
(***************************************************************************)
(* Small instances of SharedModel, all of one voice: a package for the     *)
(* general model, one from an older revision of it, its promotion to the   *)
(* Danish model, a second promotion with another reference, and a package  *)
(* for an engine that VoiceRig does not run.                               *)
(***************************************************************************)
EXTENDS SharedModel, TLC

CONSTANTS t1, t2, built, old, promoted, again, foreign

Engine == built :> "v3" @@ old :> "v3-old" @@ promoted :> "roest" @@ again :> "roest"
          @@ foreign :> "foreign"
MCVoiceOf == [v \in Versions |-> "anna"]
MCBuiltFor == [v \in Versions |-> Engine[v]]
Symmetry == Permutations({t1, t2}) \cup Permutations({promoted, again})
=============================================================================
