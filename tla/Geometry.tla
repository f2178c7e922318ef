------------------------------ MODULE Geometry ------------------------------
(***************************************************************************)
(* Rectangles (math/Types.h) and bounding boxes (math/AABB.h).  A          *)
(* coordinate is an integer: nothing here but centerPoint does more than   *)
(* compare and choose, so only the order of the floats matters.            *)
(***************************************************************************)
EXTENDS Integers

Point == [x : Int, y : Int]
Rect  == [top_left : Point, bottom_right : Point]

(* The coordinate system that Rect and AABB document: y points upwards. *)
Documented(r) ==
    /\ r.top_left.x <= r.bottom_right.x
    /\ r.top_left.y >= r.bottom_right.y

(* The order in which Window::run fills screenBounds: the corner of viewport *)
(* (0, 0), which OpenGL puts at the bottom, comes first.                     *)
FromScreen(r) ==
    /\ r.top_left.x <= r.bottom_right.x
    /\ r.top_left.y <= r.bottom_right.y

(* Rect::containes *)
Containes(r, p) ==
    /\ p.x >= r.top_left.x /\ p.x <= r.bottom_right.x
    /\ p.y >= r.top_left.y /\ p.y <= r.bottom_right.y

(* The half-open ranges of AABB's tests: left and top edges belong to a box. *)
WithinX(a, x) == x >= a.top_left.x /\ x < a.bottom_right.x
WithinY(a, y) == y <= a.top_left.y /\ y > a.bottom_right.y

Contains(a, b) ==
    /\ WithinX(a, b.top_left.x) /\ WithinX(a, b.bottom_right.x)
    /\ WithinY(a, b.top_left.y) /\ WithinY(a, b.bottom_right.y)

Overlaps(a, b) ==
    /\ WithinX(a, b.top_left.x) \/ WithinX(a, b.bottom_right.x)
    /\ WithinY(a, b.top_left.y) \/ WithinY(a, b.bottom_right.y)

Lesser(m, n)  == IF n < m THEN n ELSE m
Greater(m, n) == IF m < n THEN n ELSE m

Grow(a, b) ==
    [top_left     |-> [x |-> Lesser(a.top_left.x, b.top_left.x),
                       y |-> Greater(a.top_left.y, b.top_left.y)],
     bottom_right |-> [x |-> Greater(a.bottom_right.x, b.bottom_right.x),
                       y |-> Lesser(a.bottom_right.y, b.bottom_right.y)]]

-----------------------------------------------------------------------------
(* What the operations are about: the points of a closed box. *)
In(p, a) ==
    /\ a.top_left.x <= p.x /\ p.x <= a.bottom_right.x
    /\ a.bottom_right.y <= p.y /\ p.y <= a.top_left.y

Encloses(a, b) ==
    /\ a.top_left.x <= b.top_left.x /\ b.bottom_right.x <= a.bottom_right.x
    /\ a.bottom_right.y <= b.bottom_right.y /\ b.top_left.y <= a.top_left.y
=============================================================================
