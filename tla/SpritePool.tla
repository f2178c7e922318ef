----------------------------- MODULE SpritePool -----------------------------
(***************************************************************************)
(* SpritePool (src/graphics/SpritePool.cpp): update copies the sprites,    *)
(* render chooses the visible ones into a vector that has storage and no   *)
(* elements, uploads that storage and draws.  A frame for an unmoved       *)
(* camera draws what was uploaded before.                                  *)
(***************************************************************************)
EXTENDS Sprites

CONSTANT Garbage    \* what storage holds that nothing was written to

ASSUME GarbageAssumption == Garbage \notin Position

NotYet == -1    \* unsigned(-1)

VARIABLES
    unsortedBuffer,     \* the sprites of the last update
    sortedBuffer,       \* the storage of this vector; its size is zero
    spriteCount,
    visibleSprites,
    prevCenterPoint,
    tbo,                \* the data of the texture buffer
    camera              \* the centre of the last frame's view, for the properties

poolVars == <<unsortedBuffer, sortedBuffer, spriteCount, visibleSprites, prevCenterPoint, tbo>>
vars == <<poolVars, camera>>

(* SpritePool::SpritePool and SpritePool::init. *)
Init ==
    /\ unsortedBuffer = <<>>
    /\ sortedBuffer = <<>>
    /\ spriteCount = 0
    /\ visibleSprites = NotYet
    /\ prevCenterPoint \in Centres    \* not initialised
    /\ tbo = <<Garbage>>
    /\ camera = NoCentre

(* vector::reserve moves to new storage when it grows; no element is copied, *)
(* there is none.                                                            *)
Reserved(n) ==
    IF n <= Len(sortedBuffer) THEN sortedBuffer ELSE [i \in 1 .. n |-> Garbage]

(* Variant: a smaller pool is not counted. *)
UpdateGrowing ==
    \E sprites \in Pools :
        /\ sortedBuffer' = Reserved(Len(sprites))
        /\ spriteCount' = IF spriteCount < Len(sprites) THEN Len(sprites) ELSE spriteCount
        /\ unsortedBuffer' = sprites
        /\ UNCHANGED <<visibleSprites, prevCenterPoint, tbo, camera>>

(* Variant: storage is reserved by the first update only. *)
UpdateReservingOnce ==
    \E sprites \in Pools :
        /\ sortedBuffer' = IF spriteCount = 0 THEN Reserved(Len(sprites)) ELSE sortedBuffer
        /\ spriteCount' = Len(sprites)
        /\ unsortedBuffer' = sprites
        /\ UNCHANGED <<visibleSprites, prevCenterPoint, tbo, camera>>

Update ==
    \E sprites \in Pools :
        /\ sortedBuffer' = IF spriteCount # Len(sprites) THEN Reserved(Len(sprites))
                                                         ELSE sortedBuffer
        /\ spriteCount' = Len(sprites)
        /\ unsortedBuffer' = sprites
        /\ UNCHANGED <<visibleSprites, prevCenterPoint, tbo, camera>>

(* Lines 67-86, when the sprites in chosen are written from the start of     *)
(* sortedBuffer's storage: spriteCount elements of it are uploaded.          *)
Upload(v, chosen) ==
    /\ prevCenterPoint' = v.centre
    /\ visibleSprites' = Len(chosen)
    /\ sortedBuffer' = [i \in DOMAIN sortedBuffer |->
                          IF i <= Len(chosen) THEN chosen[i] ELSE sortedBuffer[i]]
    /\ tbo' = SubSeq(sortedBuffer', 1, spriteCount)
    /\ UNCHANGED <<unsortedBuffer, spriteCount>>

(* Variant: the index counts every sprite. *)
RenderWithGaps ==
    \E v \in View :
        /\ camera' = v.centre
        /\ IF visibleSprites = NotYet \/ v.centre # prevCenterPoint
           THEN Upload(v, [i \in DOMAIN unsortedBuffer |->
                             IF Near(unsortedBuffer[i], v) THEN unsortedBuffer[i]
                                                           ELSE sortedBuffer[i]])
           ELSE UNCHANGED poolVars

(* Variant: the sprites are chosen once. *)
RenderOnce ==
    \E v \in View :
        /\ camera' = v.centre
        /\ IF visibleSprites = NotYet THEN Upload(v, Visible(unsortedBuffer, v))
                                      ELSE UNCHANGED poolVars

Render ==
    \E v \in View :
        /\ camera' = v.centre
        /\ IF visibleSprites = NotYet \/ v.centre # prevCenterPoint
           THEN Upload(v, Visible(unsortedBuffer, v))
           ELSE UNCHANGED poolVars

Next == Update \/ Render

Spec == Init /\ [][Next]_vars

-----------------------------------------------------------------------------
TypeOK ==
    /\ unsortedBuffer \in Pools
    /\ sortedBuffer \in Seq(Position \cup {Garbage})
    /\ spriteCount = Len(unsortedBuffer)
    /\ visibleSprites \in NotYet .. MaxSprites
    /\ prevCenterPoint \in Centres
    /\ tbo \in Seq(Position \cup {Garbage})
    /\ camera \in Centres \cup {NoCentre}

(* The writes to sortedBuffer, which has no elements, stay in the storage it *)
(* reserved however the pool grows and shrinks; so do the reads of upload;   *)
(* and no more instances are drawn than were uploaded, although the count    *)
(* drawn is that of an older pool.                                           *)
WithinStorage ==
    /\ Len(unsortedBuffer) <= Len(sortedBuffer)
    /\ visibleSprites <= Len(tbo)

(* What the last frame drew. *)
Drawn == [i \in 1 .. visibleSprites |-> IF i <= Len(tbo) THEN tbo[i] ELSE Garbage]

(* No frame draws storage that no sprite was written to: not what reserve    *)
(* left behind when it moved, nor what lies behind the visible sprites.      *)
NoGarbageDrawn == \A i \in DOMAIN Drawn : Drawn[i] # Garbage

(* The buffers and the cached count together do what SpritePoolSpec says:    *)
(* every frame after the camera moved shows what is visible, in order.       *)
Abstract == INSTANCE SpritePoolSpec
                WITH pool <- unsortedBuffer, centre <- camera, shown <- Drawn
ImplementsSpritePool == Abstract!Spec
=============================================================================
