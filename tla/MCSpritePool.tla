---------------------------- MODULE MCSpritePool ----------------------------
(***************************************************************************)
(* Two places far apart, and views that show one of them or both.           *)
(***************************************************************************)
EXTENDS SpritePool

Places == {0, 3}
Views  == [centre : {0, 3}, radius : {0, 2}]
=============================================================================
