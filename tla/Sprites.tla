------------------------------- MODULE Sprites -------------------------------
(***************************************************************************)
(* Sprites on one axis, and which of them a view shows.                    *)
(***************************************************************************)
EXTENDS Integers, Sequences

CONSTANTS Position,    \* coordinates
          View,        \* what the camera sees: [centre, radius]
          MaxSprites,  \* the largest pool
          NoCentre     \* no frame was drawn yet

ASSUME SpritesAssumption ==
    /\ Position \subseteq Int
    /\ View \subseteq [centre : Int, radius : Nat]
    /\ MaxSprites \in Nat
    /\ NoCentre \notin Int

Pools == UNION {[1 .. n -> Position] : n \in 0 .. MaxSprites}

Distance(p, q) == IF p <= q THEN q - p ELSE p - q

(* distance(position, centerPoint) <= screenRadius + 1.2f, in whole units. *)
Near(p, v) == Distance(p, v.centre) <= v.radius + 1

(* The loop over the sprites, in their order: chosen[i] after i turns. *)
Visible(sprites, v) ==
    LET chosen[i \in 0 .. Len(sprites)] ==
            IF i = 0 THEN <<>>
            ELSE IF Near(sprites[i], v) THEN Append(chosen[i - 1], sprites[i])
                                        ELSE chosen[i - 1]
    IN  chosen[Len(sprites)]

Centres == {v.centre : v \in View}
=============================================================================
