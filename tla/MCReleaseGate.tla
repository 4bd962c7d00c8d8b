--------------------------- MODULE MCReleaseGate ---------------------------
(* Two commits, two names of voices. *)
EXTENDS ReleaseGate, TLC

CONSTANT acceptance

Symmetry == Permutations(Revisions)
=============================================================================
