--------------------------- MODULE SpritePoolSpec ---------------------------
(***************************************************************************)
(* What the sprite pool promises: a frame shows the sprites that are near  *)
(* the view, in the pool's order, as the pool was when the camera last     *)
(* moved.                                                                  *)
(***************************************************************************)
EXTENDS Sprites

VARIABLES
    pool,      \* the sprites of the last update
    centre,    \* the centre of the last frame's view
    shown      \* the sprites of the last frame

Init == pool = <<>> /\ centre = NoCentre /\ shown = <<>>

Update == pool' \in Pools /\ UNCHANGED <<centre, shown>>

Show == \E v \in View : /\ v.centre # centre
                        /\ centre' = v.centre
                        /\ shown' = Visible(pool, v)
                        /\ UNCHANGED pool

Spec == Init /\ [][Update \/ Show]_<<pool, centre, shown>>
=============================================================================
