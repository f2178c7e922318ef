---------------------------- MODULE TileMapView ----------------------------
(***************************************************************************)
(* TileMap::init and render (src/graphics/TileMap.cpp): the vertices of a  *)
(* map and the indices of the quads that a view draws.  Coordinates are    *)
(* whole multiples of 1/Unit of a tile.  Tiles and rows count from 0, row  *)
(* 0 on top, as in the map that init is given.                             *)
(***************************************************************************)
EXTENDS Geometry, Sequences

CONSTANTS
    Unit,        \* steps of a coordinate in one tile
    Columns,     \* width and height of the map, which is a rectangle
    Rows

NonEmptyMap == Unit \in Nat \ {0} /\ Columns \in Nat \ {0} /\ Rows \in Nat \ {0}

max_index == Columns * Rows * 4

(* The edges of tile <<column, row>>: init starts at y = map.size(). *)
Left(t) == t[1] * Unit
Top(t)  == (Rows - t[2]) * Unit
Tile    == (0 .. Columns - 1) \X (0 .. Rows - 1)

(* init pushes the four vertices of a tile one after the other. *)
FirstVertex(t) == (t[2] * Columns + t[1]) * 4

(* int(v): towards zero. *)
Truncate(v) == IF v >= 0 THEN v \div Unit ELSE -((-v) \div Unit)

(* How often the loops for (y = top; y <= bottom; ++y) and                   *)
(* for (x = left; x < right; ++x) turn.                                      *)
RowCount(bounds) ==
    IF bounds.top_left.y > bounds.bottom_right.y THEN 0
    ELSE (bounds.bottom_right.y - bounds.top_left.y) \div Unit + 1
ColumnCount(bounds) ==
    IF bounds.top_left.x >= bounds.bottom_right.x THEN 0
    ELSE (bounds.bottom_right.x - bounds.top_left.x - 1) \div Unit + 1

Base(bounds) ==
    ((Rows - Truncate(bounds.top_left.y)) * Columns + Truncate(bounds.top_left.x)) * 4

(* The value of index in turn row of the outer and col of the inner loop. *)
Index(bounds, row, col) == Base(bounds) - row * (Columns * 4) + col * 4

(* GLushort *)
Short(i) == i % 65536

(* A quad off the map is drawn as nothing, to keep the buffer's size. *)
Quad(i) ==
    IF i >= 0 /\ i < max_index
    THEN <<Short(i), Short(i + 1), Short(i + 2), Short(i + 2), Short(i + 3), Short(i)>>
    ELSE <<0, 0, 0, 0, 0, 0>>

(* The quads that render draws. *)
DrawnQuads(bounds) ==
    {Quad(Index(bounds, row, col)) :
        row \in 0 .. RowCount(bounds) - 1, col \in 0 .. ColumnCount(bounds) - 1}

(* A view and a tile have more than an edge in common. *)
Sees(bounds, t) ==
    /\ Left(t) < bounds.bottom_right.x /\ Left(t) + Unit > bounds.top_left.x
    /\ Top(t) > bounds.top_left.y /\ Top(t) - Unit < bounds.bottom_right.y
=============================================================================
