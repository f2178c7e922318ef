---------------------------- MODULE MCSystemRun ----------------------------
(***************************************************************************)
(* Instances of SystemRun.  NotifiedSystem is what the template is meant   *)
(* for: its methods return a value, so that the tests find them.           *)
(***************************************************************************)
EXTENDS SystemRun

NotifiedSystem == [post |-> "value", notify |-> "value"]

BothSystems == {SpriteRenderSystem, NotifiedSystem}
=============================================================================
