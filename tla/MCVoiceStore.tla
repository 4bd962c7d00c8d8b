---------------------------- MODULE MCVoiceStore ----------------------------
(* Two names, two voices, one of them with a second reference. *)
EXTENDS VoiceStore, TLC

CONSTANTS t1, t2, t3, anders, bo, va, vb, a1, a2, b1

MCRefs == (va :> <<a1, a2>>) @@ (vb :> <<b1>>)
MCAlt == (va :> anders) @@ (vb :> bo)
Shared ==
  (t1 :> ({"build", "promote", "install"} \X {anders})) @@
  (t2 :> ({"build", "import", "delete"} \X {anders}))
\* One thread fills the directories first.
Promotions ==
  (t1 :> {"promote"} \X {anders}) @@ (t2 :> {"build", "promote"} \X {anders})
=============================================================================
