--------------------------- MODULE Drawing_proofs ---------------------------
(***************************************************************************)
(* Proofs about what is drawn: the boxes of Geometry, the quads of         *)
(* TileMapView, and SpritePool for any pool, any views and any number of   *)
(* frames.                                                                 *)
(***************************************************************************)
EXTENDS SpritePool, TileMapView, SequenceTheorems, WellFoundedInduction, TLAPS

-----------------------------------------------------------------------------
(* Boxes and rectangles, with all coordinates. *)

(* Enclosing a box is the same as holding all of its points. *)
LEMMA EnclosesIsHoldingEveryPoint ==
    ASSUME NEW a \in Rect, NEW b \in Rect, Documented(b)
    PROVE  Encloses(a, b) <=> \A p \in Point : In(p, b) => In(p, a)
<1>1. ASSUME Encloses(a, b) PROVE \A p \in Point : In(p, b) => In(p, a)
  BY <1>1 DEF Rect, Point, Encloses, In
<1>2. ASSUME \A p \in Point : In(p, b) => In(p, a) PROVE Encloses(a, b)
  <2>1. b.top_left \in Point /\ b.bottom_right \in Point
    BY DEF Rect
  <2>2. In(b.top_left, b) /\ In(b.bottom_right, b)
    BY DEF Rect, Point, Documented, In
  <2>3. In(b.top_left, a) /\ In(b.bottom_right, a)
    BY <1>2, <2>1, <2>2
  <2> QED
    BY <2>3 DEF Rect, Point, In, Encloses
<1> QED
  BY <1>1, <1>2

(* AABB::grow returns a box of the documented form, which holds both boxes   *)
(* and is within every box that does: the least bounding box.                *)
THEOREM GrowIsTheLeastBox ==
    ASSUME NEW a \in Rect, NEW b \in Rect, Documented(a), Documented(b)
    PROVE  /\ Grow(a, b) \in Rect /\ Documented(Grow(a, b))
           /\ Encloses(Grow(a, b), a) /\ Encloses(Grow(a, b), b)
           /\ \A c \in Rect : Encloses(c, a) /\ Encloses(c, b) => Encloses(c, Grow(a, b))
BY DEF Rect, Point, Documented, Encloses, Grow, Lesser, Greater

(* AABB::overlaps never reports two boxes that share no point. *)
THEOREM OverlapsIsSound ==
    ASSUME NEW a \in Rect, NEW b \in Rect, Documented(a), Documented(b), Overlaps(a, b)
    PROVE  \E p \in Point : In(p, a) /\ In(p, b)
<1>1. PICK x \in {b.top_left.x, b.bottom_right.x} : WithinX(a, x)
  BY DEF Overlaps
<1>2. PICK y \in {b.top_left.y, b.bottom_right.y} : WithinY(a, y)
  BY DEF Overlaps
<1>3. [x |-> x, y |-> y] \in Point
  BY DEF Rect, Point
<1>4. In([x |-> x, y |-> y], a) /\ In([x |-> x, y |-> y], b)
  BY <1>1, <1>2 DEF Rect, Point, Documented, WithinX, WithinY, In
<1> QED
  BY <1>3, <1>4

(* It looks only at the corners of the other box: two boxes that cross, or   *)
(* a box inside the other one, seen from inside, are missed.                 *)
THEOREM OverlapsMissesEnclosing ==
    ASSUME NEW a \in Rect, NEW b \in Rect, Documented(a),
           b.top_left.x < a.top_left.x, a.bottom_right.x <= b.bottom_right.x
    PROVE  ~ Overlaps(a, b)
BY DEF Rect, Point, Documented, Overlaps, WithinX

(* AABB::contains is half-open on both corners, so it is strictly stronger   *)
(* than holding every point of the other box: no box contains itself, and    *)
(* the box that grow returns never contains both of its arguments.           *)
THEOREM ContainsExcludesTheFarEdge ==
    ASSUME NEW a \in Rect, NEW b \in Rect, Documented(a), Documented(b)
    PROVE  /\ Contains(a, b) => Encloses(a, b) /\ Overlaps(a, b)
           /\ ~ Contains(a, a)
           /\ ~ (Contains(Grow(a, b), a) /\ Contains(Grow(a, b), b))
BY DEF Rect, Point, Documented, Contains, Overlaps, Encloses, WithinX, WithinY, Grow,
       Lesser, Greater

(* Rect::containes tests y upwards from top_left.  On a rectangle of the     *)
(* documented form it finds no point unless the rectangle is flat; on one in *)
(* the order of Window::run's screenBounds it finds exactly the points       *)
(* between the corners.                                                      *)
THEOREM ContainesWantsScreenOrder ==
    ASSUME NEW r \in Rect, NEW p \in Point
    PROVE  /\ Documented(r) /\ Containes(r, p) => r.top_left.y = r.bottom_right.y
           /\ FromScreen(r) =>
                 (Containes(r, p) <=>
                    In(p, [top_left     |-> [x |-> r.top_left.x, y |-> r.bottom_right.y],
                           bottom_right |-> [x |-> r.bottom_right.x, y |-> r.top_left.y]]))
BY DEF Rect, Point, Documented, FromScreen, Containes, In

-----------------------------------------------------------------------------
(* What TileMap::render draws, for every map and every view. *)

(* Truncation gives a whole tile. *)
LEMMA TruncateType ==
    ASSUME NonEmptyMap, NEW v \in Int
    PROVE  Truncate(v) \in Int
BY SMTT(30) DEF Truncate, NonEmptyMap

(* The counts of the loops are whole, and the first index is that of a tile. *)
LEMMA CountTypes ==
    ASSUME NonEmptyMap, NEW bounds \in Rect
    PROVE  /\ RowCount(bounds) \in Int /\ ColumnCount(bounds) \in Int
           /\ Base(bounds) \in Int /\ Base(bounds) % 4 = 0
<1>1. /\ bounds.top_left.x \in Int /\ bounds.top_left.y \in Int
      /\ bounds.bottom_right.x \in Int /\ bounds.bottom_right.y \in Int
  BY DEF Rect, Point
<1>2. RowCount(bounds) \in Int /\ ColumnCount(bounds) \in Int
  BY <1>1 DEF RowCount, ColumnCount, NonEmptyMap
<1> DEFINE first == (Rows - Truncate(bounds.top_left.y)) * Columns
                      + Truncate(bounds.top_left.x)
<1>3. first \in Int
  BY <1>1, TruncateType DEF NonEmptyMap
<1>4. Base(bounds) = first * 4
  BY DEF Base
<1> HIDE DEF first
<1> QED
  BY <1>2, <1>3, <1>4

(* The largest index of a map with tiles is a multiple of four. *)
LEMMA MapSize ==
    ASSUME NonEmptyMap
    PROVE  max_index \in Nat /\ max_index >= 4 /\ max_index % 4 = 0
<1> DEFINE n == Columns * Rows
<1>1. n \in Nat /\ n >= 1
  BY DEF NonEmptyMap
<1>2. max_index = n * 4
  BY DEF max_index
<1> HIDE DEF n
<1> QED
  BY <1>1, <1>2

(* Every index is that of a vertex of the map, and the six of a quad are     *)
(* those of a single tile, whatever the view, also where a row of the view   *)
(* runs over the edge of the map or an index does not fit a GLushort.        *)
LEMMA QuadIsATile ==
    ASSUME NonEmptyMap, NEW i \in Int, i % 4 = 0
    PROVE  \E v \in 0 .. max_index - 4 :
              v % 4 = 0 /\ \A k \in 1 .. 6 : Quad(i)[k] \in v .. v + 3
<1>1. CASE i >= 0 /\ i < max_index
  <2> DEFINE v == i % 65536
  <2>1. v \in Nat /\ v <= i /\ v % 4 = 0 /\ v <= 65532
    BY <1>1
  <2>2. v \in 0 .. max_index - 4
    BY <1>1, <2>1, MapSize
  <2>3. /\ Short(i) = v /\ Short(i + 1) = v + 1 /\ Short(i + 2) = v + 2
        /\ Short(i + 3) = v + 3
    BY <1>1, <2>1 DEF Short
  <2>4. Quad(i) = <<v, v + 1, v + 2, v + 2, v + 3, v>>
    BY <1>1, <2>3 DEF Quad
  <2> HIDE DEF v
  <2>5. \A k \in 1 .. 6 : Quad(i)[k] \in v .. v + 3
    BY <2>1, <2>4
  <2> QED
    BY <2>1, <2>2, <2>5
<1>2. CASE ~ (i >= 0 /\ i < max_index)
  <2>1. Quad(i) = <<0, 0, 0, 0, 0, 0>>
    BY <1>2 DEF Quad
  <2>2. 0 \in 0 .. max_index - 4
    BY MapSize
  <2>3. \A k \in 1 .. 6 : Quad(i)[k] \in 0 .. 0 + 3
    BY <2>1
  <2> QED
    BY <2>2, <2>3
<1> QED
  BY <1>1, <1>2

(* Whatever the view, each quad that is drawn is that of a tile of the map. *)
THEOREM QuadsAreTilesOfTheMap ==
    ASSUME NonEmptyMap, NEW bounds \in Rect, NEW q \in DrawnQuads(bounds)
    PROVE  \E v \in 0 .. max_index - 4 :
              v % 4 = 0 /\ \A k \in 1 .. 6 : q[k] \in v .. v + 3
<1>1. PICK row \in 0 .. RowCount(bounds) - 1, col \in 0 .. ColumnCount(bounds) - 1 :
          q = Quad(Index(bounds, row, col))
  BY DEF DrawnQuads
<1>2. row \in Int /\ col \in Int
  BY CountTypes
<1> DEFINE down == row * Columns
<1>3. down \in Int
  BY <1>2 DEF NonEmptyMap
<1>4. Index(bounds, row, col) = Base(bounds) - down * 4 + col * 4
  BY <1>2 DEF Index, NonEmptyMap
<1> HIDE DEF down
<1>5. Index(bounds, row, col) \in Int /\ Index(bounds, row, col) % 4 = 0
  BY <1>2, <1>3, <1>4, CountTypes
<1> QED
  BY <1>1, <1>5, QuadIsATile

-----------------------------------------------------------------------------
(* A view whose edges lie on edges of tiles, right of the left edge of the   *)
(* map and above its lower one.                                              *)
WholeTiles(left, low, right, high) ==
    [top_left     |-> [x |-> left * Unit, y |-> low * Unit],
     bottom_right |-> [x |-> right * Unit, y |-> high * Unit]]

(* Dividing whole tiles, or one less, by the size of a tile. *)
LEMMA UnitQuotient ==
    ASSUME NonEmptyMap, NEW n \in Nat
    PROVE  /\ (n * Unit) \div Unit = n
           /\ n > 0 => (n * Unit - 1) \div Unit = n - 1
BY SMTT(60) DEF NonEmptyMap

(* Tiles are ordered as their coordinates are. *)
LEMMA UnitOrder ==
    ASSUME NonEmptyMap, NEW m \in Int, NEW n \in Int, m * Unit < n * Unit
    PROVE  m < n
BY SMTT(60) DEF NonEmptyMap

(* The index of every vertex of the map fits a GLushort (TileMap.cpp:92): a  *)
(* map of at most 128 by 128 tiles.                                          *)
IndicesFit == Columns * Rows <= 16384

(* The two triangles over the four vertices that init pushed for a tile. *)
OwnQuad(t) ==
    LET v == FirstVertex(t) IN <<v, v + 1, v + 2, v + 2, v + 3, v>>

(* A tile's vertices are vertices of the map. *)
LEMMA FirstVertexInMap ==
    ASSUME NonEmptyMap, NEW t \in Tile
    PROVE  FirstVertex(t) \in Nat /\ FirstVertex(t) + 4 <= max_index
<1>1. /\ t[1] \in Nat /\ t[2] \in Nat /\ t[1] <= Columns - 1 /\ t[2] <= Rows - 1
      /\ Columns \in Nat \ {0} /\ Rows \in Nat \ {0}
  BY DEF Tile, NonEmptyMap
<1> DEFINE above == t[2] * Columns
           all == Columns * Rows
           last == (Rows - 1) * Columns
<1>2. last = all - Columns /\ all \in Nat /\ above \in Nat
  BY <1>1
<1>3. above <= last
  <2>1. (Rows - 1 - t[2]) * Columns >= 0
    BY <1>1
  <2>2. (Rows - 1 - t[2]) * Columns = last - above
    BY <1>1
  <2>3. last \in Int
    BY <1>1
  <2> QED
    BY <1>2, <2>1, <2>2, <2>3
<1>4. FirstVertex(t) = (above + t[1]) * 4 /\ max_index = all * 4
  BY DEF FirstVertex, max_index
<1> HIDE DEF above, all, last
<1> QED
  BY <1>1, <1>2, <1>3, <1>4

(* On a map whose indices fit, a tile's first index draws the tile itself. *)
LEMMA QuadIsItsOwn ==
    ASSUME NonEmptyMap, IndicesFit, NEW t \in Tile
    PROVE  Quad(FirstVertex(t)) = OwnQuad(t)
<1> DEFINE v == FirstVertex(t)
<1>1. v \in Nat /\ v + 4 <= max_index
  BY FirstVertexInMap
<1>2. max_index \in Nat /\ max_index <= 65536
  <2> DEFINE n == Columns * Rows
  <2>1. n \in Nat /\ n <= 16384
    BY DEF NonEmptyMap, IndicesFit
  <2>2. max_index = n * 4
    BY DEF max_index
  <2> HIDE DEF n
  <2> QED
    BY <2>1, <2>2
<1> HIDE DEF v
<1>3. v >= 0 /\ v < max_index /\ v + 3 < 65536
  BY <1>1, <1>2
<1>4. Short(v) = v /\ Short(v + 1) = v + 1 /\ Short(v + 2) = v + 2 /\ Short(v + 3) = v + 3
  BY <1>1, <1>3 DEF Short
<1>5. Quad(v) = <<v, v + 1, v + 2, v + 2, v + 3, v>>
  BY <1>3, <1>4 DEF Quad
<1> QED
  BY <1>5 DEF OwnQuad, v

(* On a map whose indices fit a GLushort, render draws every tile that such  *)
(* a view sees, over its own four vertices.  (The row it starts with is one  *)
(* below the view; a view between two tiles therefore lacks its top row, and *)
(* its last column: the loops count the view's extent, not the tiles that it *)
(* touches.  On a larger map an index wraps, and a tile from the 16385th on  *)
(* is drawn as an earlier one.)                                              *)
THEOREM WholeTileViewsAreComplete ==
    ASSUME NonEmptyMap, IndicesFit,
           NEW left \in Nat, NEW low \in Nat, NEW right \in Nat, NEW high \in Nat,
           left < right, low < high,
           NEW t \in Tile, Sees(WholeTiles(left, low, right, high), t)
    PROVE  OwnQuad(t) \in DrawnQuads(WholeTiles(left, low, right, high))
<1> DEFINE bounds == WholeTiles(left, low, right, high)
           row == Rows - t[2] - low
           col == t[1] - left
<1>1. /\ t[1] \in Nat /\ t[2] \in Nat /\ t[1] <= Columns - 1 /\ t[2] <= Rows - 1
  BY DEF Tile, NonEmptyMap
<1>2. Unit \in Nat \ {0} /\ Columns \in Nat \ {0} /\ Rows \in Nat \ {0}
  BY DEF NonEmptyMap
<1>3. /\ bounds.top_left.x = left * Unit /\ bounds.top_left.y = low * Unit
      /\ bounds.bottom_right.x = right * Unit /\ bounds.bottom_right.y = high * Unit
  BY DEF WholeTiles
<1> HIDE DEF bounds
<1>4. /\ t[1] < right /\ left < t[1] + 1
      /\ low < Rows - t[2] /\ Rows - t[2] - 1 < high
  <2>1. /\ t[1] * Unit < right * Unit
        /\ left * Unit < t[1] * Unit + Unit
        /\ low * Unit < (Rows - t[2]) * Unit
        /\ (Rows - t[2]) * Unit - Unit < high * Unit
    BY <1>1, <1>2, <1>3 DEF Sees, Left, Top, bounds, WholeTiles
  <2>2. /\ t[1] * Unit + Unit = (t[1] + 1) * Unit
        /\ (Rows - t[2]) * Unit - Unit = (Rows - t[2] - 1) * Unit
    BY <1>1, <1>2
  <2> QED
    BY <2>1, <2>2, <1>1, <1>2, UnitOrder
<1>5. Truncate(low * Unit) = low /\ Truncate(left * Unit) = left
  <2>1. low * Unit >= 0 /\ left * Unit >= 0
    BY <1>2
  <2> QED
    BY <2>1, UnitQuotient DEF Truncate
<1>6. RowCount(bounds) = high - low + 1
  <2>1. ~ low * Unit > high * Unit /\ high * Unit - low * Unit = (high - low) * Unit
    BY <1>2
  <2> QED
    BY <1>3, <2>1, UnitQuotient DEF RowCount
<1>7. ColumnCount(bounds) = right - left
  <2>1. left * Unit < right * Unit /\ right * Unit - left * Unit = (right - left) * Unit
    BY <1>2
  <2>2. right - left \in Nat /\ right - left > 0
    OBVIOUS
  <2>3. ((right - left) * Unit - 1) \div Unit = right - left - 1
    BY <2>2, UnitQuotient
  <2> QED
    BY <1>2, <1>3, <2>1, <2>2, <2>3 DEF ColumnCount
<1>8. row \in 0 .. RowCount(bounds) - 1 /\ col \in 0 .. ColumnCount(bounds) - 1
  BY <1>1, <1>2, <1>4, <1>6, <1>7
<1>9. Index(bounds, row, col) = FirstVertex(t)
  <2>1. Base(bounds) = ((Rows - low) * Columns + left) * 4
    BY <1>3, <1>5 DEF Base
  <2>2. (Rows - low) * Columns - row * Columns = t[2] * Columns
    BY <1>1, <1>2
  <2>3. row * (Columns * 4) = (row * Columns) * 4
    BY <1>1, <1>2
  <2> QED
    BY <1>1, <1>2, <2>1, <2>2, <2>3 DEF Index, FirstVertex
<1> HIDE DEF row, col
<1>10. Quad(FirstVertex(t)) \in DrawnQuads(bounds)
  BY <1>8, <1>9 DEF DrawnQuads
<1> QED
  BY <1>10, QuadIsItsOwn DEF bounds

-----------------------------------------------------------------------------
(* Induction on the turns of a loop. *)

LessThan == {p \in Nat \X Nat : p[1] < p[2]}

(* The order of the naturals, as a relation, is well founded. *)
LEMMA LessThanWellFounded == IsWellFoundedOn(LessThan, Nat)
<1>1. LessThan = OpToRel(<, Nat)
  BY DEF LessThan, OpToRel
<1> QED
  BY <1>1, NatLessThanWellFounded

(* A set of naturals that is not empty has a least member. *)
LEMMA Least ==
  ASSUME NEW T, T \subseteq Nat, T # {}
  PROVE  \E m \in T : \A k \in T : m <= k
<1>1. PICK m \in T : \A k \in T : <<k, m>> \notin LessThan
  BY LessThanWellFounded, WFMin
<1>2. ASSUME NEW k \in T, k < m
      PROVE  FALSE
  <2>1. k \in Nat /\ m \in Nat
    OBVIOUS
  <2>2. <<k, m>> \in LessThan
    BY <1>2, <2>1 DEF LessThan
  <2> QED
    BY <1>1, <2>2
<1> QED
  BY <1>2

(* Induction on the turns 0 .. N of a loop. *)
LEMMA Reaches ==
  ASSUME NEW N \in Nat, NEW S, 0 \in S,
         \A n \in 0 .. N : n < N /\ n \in S => n + 1 \in S
  PROVE  \A n \in 0 .. N : n \in S
<1> SUFFICES ASSUME (0 .. N) \ S # {}
             PROVE  FALSE
  OBVIOUS
<1>0. (0 .. N) \ S \subseteq Nat
  OBVIOUS
<1>1. PICK m \in (0 .. N) \ S : \A k \in (0 .. N) \ S : m <= k
  BY <1>0, Least
<1>2. m # 0 /\ m - 1 \in 0 .. N /\ m - 1 < N /\ (m - 1) + 1 = m
  BY <1>1
<1>3. m - 1 \in S
  BY <1>1, <1>2
<1> QED
  BY <1>1, <1>2, <1>3

-----------------------------------------------------------------------------
(* The choice of visible sprites. *)

Turn(sprites, v, i, c) == IF Near(sprites[i], v) THEN Append(c, sprites[i]) ELSE c

Chooses(w, sprites, v, N) ==
    w = [i \in 0 .. N |-> IF i = 0 THEN <<>> ELSE Turn(sprites, v, i, w[i - 1])]

(* The recursive function exists: it grows by one turn at a time. *)
LEMMA ChoiceExists ==
  ASSUME NEW sprites, NEW v, NEW N \in Nat
  PROVE  \E w : Chooses(w, sprites, v, N)
<1> DEFINE S == {n \in 0 .. N : \E w : Chooses(w, sprites, v, n)}
<1>1. 0 \in S
  <2> DEFINE w == [n \in 0 .. 0 |-> <<>>]
  <2>1. Chooses(w, sprites, v, 0)
    BY DEF Chooses
  <2> QED
    BY <2>1
<1>2. ASSUME NEW n \in 0 .. N, n < N, n \in S
      PROVE  n + 1 \in S
  <2>1. PICK w : Chooses(w, sprites, v, n)
    BY <1>2
  <2> DEFINE u == [k \in 0 .. n + 1 |-> IF k <= n THEN w[k]
                                                  ELSE Turn(sprites, v, n + 1, w[n])]
  <2>2. ASSUME NEW k \in 0 .. n + 1
        PROVE  u[k] = IF k = 0 THEN <<>> ELSE Turn(sprites, v, k, u[k - 1])
    <3>1. CASE k = 0
      BY <2>1, <3>1 DEF Chooses
    <3>2. CASE k # 0 /\ k <= n
      <4>1. k - 1 \in 0 .. n + 1 /\ k - 1 <= n /\ k \in 0 .. n
        BY <3>2
      <4>2. u[k - 1] = w[k - 1] /\ u[k] = w[k]
        BY <3>2, <4>1
      <4>3. w[k] = Turn(sprites, v, k, w[k - 1])
        BY <2>1, <3>2, <4>1 DEF Chooses
      <4> QED
        BY <3>2, <4>2, <4>3
    <3>3. CASE k = n + 1
      <4>1. u[k] = Turn(sprites, v, k, w[n]) /\ u[k - 1] = w[n] /\ k # 0
        BY <3>3
      <4> QED
        BY <4>1
    <3> QED
      BY <3>1, <3>2, <3>3
  <2>3. Chooses(u, sprites, v, n + 1)
    BY <2>2 DEF Chooses
  <2> QED
    BY <1>2, <2>3
<1> HIDE DEF S
<1>3. \A n \in 0 .. N : n \in S
  BY <1>1, <1>2, Reaches
<1> QED
  BY <1>3 DEF S

(* Visible is what the loop has chosen after its last turn. *)
LEMMA VisibleIsAChoice ==
  ASSUME NEW sprites, NEW v, Len(sprites) \in Nat
  PROVE  \E w : Chooses(w, sprites, v, Len(sprites)) /\ Visible(sprites, v) = w[Len(sprites)]
<1> DEFINE N == Len(sprites)
           W == CHOOSE w : Chooses(w, sprites, v, N)
<1>1. Chooses(W, sprites, v, N)
  BY ChoiceExists
<1>2. Visible(sprites, v) = W[N]
  BY Zenon DEF Visible, Chooses, Turn
<1> QED
  BY <1>1, <1>2

(* f lists the near ones among the first n sprites, in their order, and c    *)
(* holds the sprites that it lists.                                          *)
Lists(f, sprites, v, n, c) ==
    /\ f \in [1 .. Len(c) -> 1 .. n]
    /\ \A k \in 1 .. Len(c) : c[k] = sprites[f[k]] /\ Near(sprites[f[k]], v)
    /\ \A k, l \in 1 .. Len(c) : k < l => f[k] < f[l]
    /\ \A i \in 1 .. n : Near(sprites[i], v) => \E k \in 1 .. Len(c) : f[k] = i

Selected(sprites, v, n, c) ==
    /\ c \in Seq(Position)
    /\ Len(c) <= n
    /\ \E f : Lists(f, sprites, v, n, c)

(* One turn of the loop takes the next sprite if it is near. *)
LEMMA TurnSelects ==
  ASSUME NEW sprites \in Seq(Position), NEW v, NEW n \in Nat, n < Len(sprites), NEW c,
         Selected(sprites, v, n, c)
  PROVE  Selected(sprites, v, n + 1, Turn(sprites, v, n + 1, c))
<1>1. PICK f : Lists(f, sprites, v, n, c)
  BY DEF Selected
<1>2. c \in Seq(Position) /\ Len(c) \in Nat /\ Len(c) <= n
  BY DEF Selected
<1>3. CASE ~ Near(sprites[n + 1], v)
  <2>1. Turn(sprites, v, n + 1, c) = c
    BY <1>3 DEF Turn
  <2>2. \A i \in 1 .. n + 1 : Near(sprites[i], v) => i \in 1 .. n
    BY <1>3
  <2>3. f \in [1 .. Len(c) -> 1 .. n + 1]
    BY <1>1 DEF Lists
  <2>4. Lists(f, sprites, v, n + 1, c)
    BY <1>1, <2>2, <2>3 DEF Lists
  <2> QED
    BY <1>2, <2>1, <2>4 DEF Selected
<1>4. CASE Near(sprites[n + 1], v)
  <2> DEFINE d == Append(c, sprites[n + 1])
             m == Len(c) + 1
             g == [k \in 1 .. m |-> IF k <= Len(c) THEN f[k] ELSE n + 1]
  <2>1. Turn(sprites, v, n + 1, c) = d
    BY <1>4 DEF Turn
  <2>2. sprites[n + 1] \in Position
    BY ElementOfSeq
  <2>3. d \in Seq(Position) /\ Len(d) = m /\ m \in Nat /\ m <= n + 1
    BY <1>2, <2>2, AppendProperties
  <2>4. (\A k \in 1 .. Len(c) : d[k] = c[k]) /\ d[m] = sprites[n + 1]
    BY <1>2, <2>2, AppendProperties
  <2>5. /\ \A k \in 1 .. m : k \in 1 .. Len(c) \/ k = m
        /\ \A k \in 1 .. Len(c) : k \in 1 .. m /\ k <= Len(c)
        /\ m \in 1 .. m /\ ~ (m <= Len(c)) /\ n + 1 \in 1 .. n + 1
    BY <1>2
  <2>6. \A k \in 1 .. Len(c) : f[k] \in 1 .. n /\ f[k] \in 1 .. n + 1
    <3>1. f \in [1 .. Len(c) -> 1 .. n]
      BY <1>1 DEF Lists
    <3>2. \A k \in 1 .. Len(c) : f[k] \in 1 .. n
      BY <3>1
    <3> QED
      BY <3>2
  <2>7. (\A k \in 1 .. Len(c) : g[k] = f[k] /\ f[k] \in 1 .. n) /\ g[m] = n + 1
    BY <2>5, <2>6
  <2>8. g \in [1 .. m -> 1 .. n + 1]
    BY <2>5, <2>6
  <2> HIDE DEF d, m, g
  <2>9. \A k \in 1 .. m : d[k] = sprites[g[k]] /\ Near(sprites[g[k]], v)
    BY <1>1, <1>4, <2>4, <2>5, <2>7 DEF Lists
  <2>10. ASSUME NEW k \in 1 .. m, NEW l \in 1 .. m, k < l
        PROVE  g[k] < g[l]
    <3>1. k \in 1 .. Len(c)
      BY <1>2, <2>3, <2>5, <2>10 DEF m
    <3>2. CASE l \in 1 .. Len(c)
      BY <1>1, <2>7, <2>10, <3>1, <3>2 DEF Lists
    <3>3. CASE l = m
      BY <2>7, <3>1, <3>3
    <3> QED
      BY <2>5, <3>2, <3>3
  <2>11. ASSUME NEW i \in 1 .. n + 1, Near(sprites[i], v)
         PROVE  \E k \in 1 .. m : g[k] = i
    <3>1. CASE i = n + 1
      BY <2>5, <2>7, <3>1
    <3>2. CASE i # n + 1
      <4>1. i \in 1 .. n
        BY <3>2
      <4>2. PICK k \in 1 .. Len(c) : f[k] = i
        BY <1>1, <2>11, <4>1 DEF Lists
      <4>3. k \in 1 .. m
        BY <1>2 DEF m
      <4> QED
        BY <2>7, <4>2, <4>3
    <3> QED
      BY <3>1, <3>2
  <2>12. Lists(g, sprites, v, n + 1, d)
    BY <2>3, <2>8, <2>9, <2>10, <2>11 DEF Lists
  <2> QED
    BY <2>1, <2>3, <2>12 DEF Selected
<1> QED
  BY <1>3, <1>4

(* SpritePool::render's loop writes the near sprites of the pool, all of     *)
(* them, each once and in the pool's order.                                  *)
THEOREM VisibleSelectsTheNear ==
  ASSUME NEW sprites \in Seq(Position), NEW v
  PROVE  Selected(sprites, v, Len(sprites), Visible(sprites, v))
<1> DEFINE N == Len(sprites)
<1>1. N \in Nat
  BY LenProperties
<1>2. PICK w : Chooses(w, sprites, v, N) /\ Visible(sprites, v) = w[N]
  BY <1>1, VisibleIsAChoice
<1> DEFINE S == {n \in 0 .. N : Selected(sprites, v, n, w[n])}
<1>3. 0 \in S
  <2>1. w[0] = <<>>
    BY <1>1, <1>2 DEF Chooses
  <2>2. <<>> \in Seq(Position) /\ Len(<<>>) = 0
    BY EmptySeq
  <2>3. [k \in 1 .. 0 |-> 0] \in [1 .. 0 -> 1 .. 0]
    OBVIOUS
  <2>4. Lists([k \in 1 .. 0 |-> 0], sprites, v, 0, <<>>)
    BY <2>2, <2>3 DEF Lists
  <2>5. Selected(sprites, v, 0, <<>>)
    BY <2>2, <2>4 DEF Selected
  <2> QED
    BY <1>1, <2>1, <2>5
<1>4. ASSUME NEW n \in 0 .. N, n < N, n \in S
      PROVE  n + 1 \in S
  <2>1. n \in Nat /\ n + 1 \in 0 .. N /\ n + 1 # 0 /\ (n + 1) - 1 = n
    BY <1>1, <1>4
  <2>2. w[n + 1] = Turn(sprites, v, n + 1, w[n])
    BY <1>2, <2>1 DEF Chooses
  <2>3. Selected(sprites, v, n + 1, w[n + 1])
    BY <1>4, <2>1, <2>2, TurnSelects
  <2> QED
    BY <2>1, <2>3
<1> HIDE DEF S
<1>5. \A n \in 0 .. N : n \in S
  BY <1>1, <1>3, <1>4, Reaches
<1>6. Selected(sprites, v, N, w[N])
  BY <1>1, <1>5 DEF S
<1> QED
  BY <1>2, <1>6

-----------------------------------------------------------------------------
(* The pool's buffers. *)

(* A pool is a sequence of at most MaxSprites positions. *)
LEMMA PoolFacts ==
  ASSUME NEW sprites \in Pools
  PROVE  sprites \in Seq(Position) /\ Len(sprites) \in 0 .. MaxSprites
<1>1. PICK n \in 0 .. MaxSprites : sprites \in [1 .. n -> Position]
  BY DEF Pools
<1>2. n \in Nat
  BY SpritesAssumption
<1> QED
  BY <1>1, <1>2, SeqDef, LenProperties

(* No more sprites are chosen than the pool has. *)
LEMMA VisibleFacts ==
  ASSUME NEW sprites \in Pools, NEW v
  PROVE  /\ Visible(sprites, v) \in Seq(Position)
         /\ Len(Visible(sprites, v)) \in 0 .. Len(sprites)
<1>1. sprites \in Seq(Position) /\ Len(sprites) \in Nat
  BY PoolFacts, LenProperties
<1>2. Selected(sprites, v, Len(sprites), Visible(sprites, v))
  BY <1>1, VisibleSelectsTheNear
<1> QED
  BY <1>1, <1>2, LenProperties DEF Selected

(* The last frame's centre is the one its sprites were chosen for. *)
CameraKnown ==
    /\ visibleSprites = NotYet => camera = NoCentre
    /\ visibleSprites # NotYet => camera = prevCenterPoint

PoolInv == TypeOK /\ WithinStorage /\ NoGarbageDrawn /\ CameraKnown

(* What is drawn lies within the uploaded data. *)
LEMMA DrawnIsUploaded ==
  ASSUME TypeOK, WithinStorage
  PROVE  Drawn = [i \in 1 .. visibleSprites |-> tbo[i]]
<1>1. visibleSprites \in Int /\ Len(tbo) \in Nat /\ visibleSprites <= Len(tbo)
  BY SpritesAssumption, LenProperties DEF TypeOK, WithinStorage, NotYet
<1>2. \A i \in 1 .. visibleSprites : i <= Len(tbo)
  BY <1>1
<1> QED
  BY <1>2 DEF Drawn

(* PoolInv holds of the new pool. *)
LEMMA InitPool == Init => PoolInv
<1> SUFFICES ASSUME Init
             PROVE  PoolInv
  OBVIOUS
<1>1. <<>> \in Pools
  <2>1. 0 \in 0 .. MaxSprites /\ <<>> \in [1 .. 0 -> Position]
    BY SpritesAssumption, EmptySeq
  <2> QED
    BY <2>1 DEF Pools
<1>2. /\ <<>> \in Seq(Position \cup {Garbage}) /\ Len(<<>>) = 0
      /\ <<Garbage>> \in Seq(Position \cup {Garbage}) /\ Len(<<Garbage>>) = 1
  OBVIOUS
<1>3. NotYet \in NotYet .. MaxSprites
  BY SpritesAssumption DEF NotYet
<1>4. TypeOK
  BY <1>1, <1>2, <1>3 DEF Init, TypeOK
<1>5. WithinStorage
  BY <1>2 DEF Init, WithinStorage, NotYet
<1>6. NoGarbageDrawn
  BY DEF Init, NoGarbageDrawn, Drawn, NotYet
<1> QED
  BY <1>4, <1>5, <1>6 DEF Init, PoolInv, CameraKnown

(* reserve leaves storage for as many sprites as it was asked for. *)
LEMMA ReservedFacts ==
  ASSUME TypeOK, NEW n \in Nat
  PROVE  Reserved(n) \in Seq(Position \cup {Garbage}) /\ n <= Len(Reserved(n))
<1>1. CASE n <= Len(sortedBuffer)
  BY <1>1 DEF Reserved, TypeOK
<1>2. CASE ~ (n <= Len(sortedBuffer))
  <2> DEFINE s == [i \in 1 .. n |-> Garbage]
  <2>1. s \in [1 .. n -> Position \cup {Garbage}]
    OBVIOUS
  <2>2. s \in Seq(Position \cup {Garbage}) /\ Len(s) = n
    BY <2>1, SeqDef, LenProperties
  <2> QED
    BY <1>2, <2>2 DEF Reserved
<1> QED
  BY <1>1, <1>2

(* update keeps PoolInv, whether it reserves or not. *)
LEMMA UpdateKeeps ==
  ASSUME PoolInv, Update
  PROVE  PoolInv'
<1> USE DEF PoolInv
<1>1. PICK sprites \in Pools :
         /\ sortedBuffer' = IF spriteCount # Len(sprites) THEN Reserved(Len(sprites))
                                                          ELSE sortedBuffer
         /\ spriteCount' = Len(sprites)
         /\ unsortedBuffer' = sprites
         /\ UNCHANGED <<visibleSprites, prevCenterPoint, tbo, camera>>
  BY DEF Update
<1>2. Len(sprites) \in Nat
  BY PoolFacts, LenProperties
<1>3. sortedBuffer' \in Seq(Position \cup {Garbage}) /\ Len(sprites) <= Len(sortedBuffer')
  <2>1. CASE spriteCount # Len(sprites)
    BY <1>1, <1>2, <2>1, ReservedFacts
  <2>2. CASE spriteCount = Len(sprites)
    BY <1>1, <2>2 DEF TypeOK, WithinStorage
  <2> QED
    BY <2>1, <2>2
<1>4. TypeOK'
  BY <1>1, <1>3 DEF TypeOK
<1>5. WithinStorage' /\ NoGarbageDrawn' /\ CameraKnown'
  BY <1>1, <1>3 DEF WithinStorage, NoGarbageDrawn, Drawn, CameraKnown
<1> QED
  BY <1>4, <1>5

(* After an upload the storage begins with the chosen sprites, and they are  *)
(* what is drawn.                                                            *)
LEMMA UploadDraws ==
  ASSUME PoolInv, NEW v \in View, Upload(v, Visible(unsortedBuffer, v)), camera' = v.centre
  PROVE  PoolInv' /\ Drawn' = Visible(unsortedBuffer, v)
<1> DEFINE chosen == Visible(unsortedBuffer, v)
           n == Len(sortedBuffer)
           c == Len(chosen)
<1>1. /\ chosen \in Seq(Position) /\ c \in 0 .. spriteCount
      /\ unsortedBuffer \in Pools /\ spriteCount = Len(unsortedBuffer)
  BY VisibleFacts DEF PoolInv, TypeOK
<1>2. /\ spriteCount \in 0 .. MaxSprites /\ MaxSprites \in Nat /\ n \in Nat
      /\ spriteCount <= n /\ DOMAIN sortedBuffer = 1 .. n
      /\ sortedBuffer \in Seq(Position \cup {Garbage})
  BY <1>1, PoolFacts, LenProperties, SpritesAssumption DEF PoolInv, TypeOK, WithinStorage
<1>3. /\ prevCenterPoint' = v.centre
      /\ visibleSprites' = c
      /\ sortedBuffer' = [i \in 1 .. n |-> IF i <= c THEN chosen[i] ELSE sortedBuffer[i]]
      /\ tbo' = SubSeq(sortedBuffer', 1, spriteCount)
      /\ UNCHANGED <<unsortedBuffer, spriteCount>>
  BY <1>2 DEF Upload
<1>4. \A i \in 1 .. c : i \in 1 .. n /\ i \in 1 .. spriteCount /\ i <= c /\ chosen[i] \in Position
  BY <1>1, <1>2, ElementOfSeq
<1> HIDE DEF chosen, n, c
<1>5. c \in Nat /\ c <= spriteCount
  BY <1>1, <1>2
<1>6. \A i \in 1 .. n : (IF i <= c THEN chosen[i] ELSE sortedBuffer[i]) \in Position \cup {Garbage}
  <2> TAKE i \in 1 .. n
  <2>1. CASE i <= c
    <3>1. i \in 1 .. c
      BY <1>5, <2>1
    <3> QED
      BY <1>4, <2>1, <3>1
  <2>2. CASE ~ (i <= c)
    BY <1>2, <2>2, ElementOfSeq DEF n
  <2> QED
    BY <2>1, <2>2
<1>7. sortedBuffer' \in [1 .. n -> Position \cup {Garbage}]
  BY <1>3, <1>6
<1>8. sortedBuffer' \in Seq(Position \cup {Garbage}) /\ Len(sortedBuffer') = n
  BY <1>2, <1>7, SeqDef, LenProperties
<1>9. /\ tbo' \in Seq(Position \cup {Garbage}) /\ Len(tbo') = spriteCount
      /\ \A i \in 1 .. spriteCount : tbo'[i] = sortedBuffer'[i]
  <2> DEFINE s == sortedBuffer'
             k == spriteCount
  <2>1. s \in Seq(Position \cup {Garbage}) /\ k \in Nat /\ k <= Len(s)
    BY <1>2, <1>8
  <2> HIDE DEF s, k
  <2>2. /\ SubSeq(s, 1, k) \in Seq(Position \cup {Garbage})
        /\ Len(SubSeq(s, 1, k)) = k
        /\ \A i \in 1 .. k : SubSeq(s, 1, k)[i] = s[i]
    BY <2>1
  <2> QED
    BY <1>3, <2>2 DEF s, k
<1>10. \A i \in 1 .. c : tbo'[i] = chosen[i]
  BY <1>3, <1>4, <1>9
<1>11. TypeOK'
  <2>1. v.centre \in Centres
    BY DEF Centres
  <2>2. c \in NotYet .. MaxSprites
    BY <1>2, <1>5 DEF NotYet
  <2> QED
    BY <1>1, <1>3, <1>8, <1>9, <2>1, <2>2 DEF TypeOK
<1>12. WithinStorage'
  BY <1>1, <1>2, <1>3, <1>5, <1>8, <1>9 DEF WithinStorage
<1>13. Drawn' = [i \in 1 .. c |-> chosen[i]]
  <2>1. \A i \in 1 .. c : i <= Len(tbo')
    BY <1>2, <1>5, <1>9
  <2> QED
    BY <1>3, <1>10, <2>1 DEF Drawn
<1>14. chosen = [i \in 1 .. c |-> chosen[i]]
  BY <1>1, LenProperties DEF c
<1>15. NoGarbageDrawn'
  BY <1>4, <1>13, GarbageAssumption DEF NoGarbageDrawn
<1>16. CameraKnown'
  BY <1>3, <1>5 DEF CameraKnown, NotYet
<1> QED
  BY <1>11, <1>12, <1>13, <1>14, <1>15, <1>16 DEF PoolInv, chosen

(* A frame for an unmoved camera changes nothing at all. *)
LEMMA UnmovedFrame ==
  ASSUME PoolInv, NEW v \in View, camera' = v.centre, UNCHANGED poolVars,
         visibleSprites # NotYet, v.centre = prevCenterPoint
  PROVE  UNCHANGED vars
BY DEF PoolInv, CameraKnown, vars

(* PoolInv is inductive. *)
LEMMA PoolStep ==
  ASSUME PoolInv, [Next]_vars
  PROVE  PoolInv'
<1>1. ASSUME UNCHANGED vars
      PROVE  PoolInv'
  <2>1. UNCHANGED <<unsortedBuffer, sortedBuffer, spriteCount, visibleSprites,
                    prevCenterPoint, tbo, camera>>
    BY <1>1 DEF vars, poolVars
  <2> QED
    BY <2>1 DEF PoolInv, TypeOK, WithinStorage, NoGarbageDrawn, Drawn, CameraKnown
<1>2. CASE Update
  BY <1>2, UpdateKeeps
<1>3. CASE Render
  <2>1. PICK v \in View :
           /\ camera' = v.centre
           /\ IF visibleSprites = NotYet \/ v.centre # prevCenterPoint
              THEN Upload(v, Visible(unsortedBuffer, v))
              ELSE UNCHANGED poolVars
    BY <1>3 DEF Render
  <2>2. CASE visibleSprites = NotYet \/ v.centre # prevCenterPoint
    BY <2>1, <2>2, UploadDraws
  <2>3. CASE ~ (visibleSprites = NotYet \/ v.centre # prevCenterPoint)
    BY <1>1, <2>1, <2>3, UnmovedFrame
  <2> QED
    BY <2>2, <2>3
<1> QED
  BY <1>1, <1>2, <1>3 DEF Next

(* PoolInv holds in every state of the pool. *)
LEMMA PoolInvariant == Spec => []PoolInv
  BY InitPool, PoolStep, PTL DEF Spec

(* For any pools and views: the buffers of the pool hold positions or what   *)
(* reserve left behind, and the counts are those of a pool.                  *)
THEOREM TypeCorrect == Spec => []TypeOK
<1>1. PoolInv => TypeOK
  BY DEF PoolInv
<1> QED
  BY <1>1, PoolInvariant, PTL

(* However the pool grows, shrinks and is drawn: writes and reads stay in    *)
(* the storage that reserve left (SpritePool.cpp:54 and 73), and no more is  *)
(* drawn than was uploaded.                                                  *)
THEOREM AlwaysWithinStorage == Spec => []WithinStorage
<1>1. PoolInv => WithinStorage
  BY DEF PoolInv
<1> QED
  BY <1>1, PoolInvariant, PTL

(* No frame draws storage that no sprite was written to. *)
THEOREM GarbageIsNeverDrawn == Spec => []NoGarbageDrawn
<1>1. PoolInv => NoGarbageDrawn
  BY DEF PoolInv
<1> QED
  BY <1>1, PoolInvariant, PTL

(* The buffers, the cached count and the remembered centre implement the     *)
(* abstract pool: every frame shows the near sprites of the pool, in order,  *)
(* as the pool was when the camera last moved.                               *)
THEOREM PoolImplementsItsSpecification == Spec => ImplementsSpritePool
<1>1. Init => Abstract!Init
  <2> SUFFICES ASSUME Init
               PROVE  Abstract!Init
    OBVIOUS
  <2>1. Drawn = <<>>
    <3>1. 1 .. visibleSprites = {}
      BY DEF Init, NotYet
    <3> QED
      BY <3>1 DEF Drawn
  <2> QED
    BY <2>1 DEF Init, Abstract!Init
<1>2. Abstract!Pools = Pools
  BY DEF Abstract!Pools, Pools
<1>3. ASSUME NEW pool, NEW v
      PROVE  Abstract!Visible(pool, v) = Visible(pool, v)
  BY Zenon DEF Abstract!Visible, Visible, Abstract!Near, Near, Abstract!Distance, Distance
<1>4. PoolInv /\ [Next]_vars =>
        [Abstract!Update \/ Abstract!Show]_<<unsortedBuffer, camera, Drawn>>
  <2> SUFFICES ASSUME PoolInv, [Next]_vars
               PROVE  [Abstract!Update \/ Abstract!Show]_<<unsortedBuffer, camera, Drawn>>
    OBVIOUS
  <2>1. ASSUME UNCHANGED vars
        PROVE  UNCHANGED <<unsortedBuffer, camera, Drawn>>
    BY <2>1 DEF vars, poolVars, Drawn
  <2>2. CASE Update
    <3>1. unsortedBuffer' \in Pools /\ UNCHANGED <<camera, tbo, visibleSprites>>
      BY <2>2 DEF Update
    <3>2. UNCHANGED Drawn
      BY <3>1 DEF Drawn
    <3> QED
      BY <1>2, <3>1, <3>2 DEF Abstract!Update
  <2>3. CASE Render
    <3>1. PICK v \in View :
             /\ camera' = v.centre
             /\ IF visibleSprites = NotYet \/ v.centre # prevCenterPoint
                THEN Upload(v, Visible(unsortedBuffer, v))
                ELSE UNCHANGED poolVars
      BY <2>3 DEF Render
    <3>2. CASE visibleSprites = NotYet \/ v.centre # prevCenterPoint
      <4>1. Upload(v, Visible(unsortedBuffer, v))
        BY <3>1, <3>2
      <4>2. Drawn' = Visible(unsortedBuffer, v)
        BY <3>1, <4>1, UploadDraws
      <4>3. UNCHANGED unsortedBuffer
        BY <4>1 DEF Upload
      <4>4. v.centre # camera
        <5>1. v.centre \in Int
          BY SpritesAssumption
        <5> QED
          BY <3>2, <5>1, SpritesAssumption DEF PoolInv, CameraKnown
      <4>5. Abstract!Show
        BY <1>3, <3>1, <4>2, <4>3, <4>4 DEF Abstract!Show
      <4> QED
        BY <4>5
    <3>3. CASE ~ (visibleSprites = NotYet \/ v.centre # prevCenterPoint)
      BY <2>1, <3>1, <3>3, UnmovedFrame
    <3> QED
      BY <3>2, <3>3
  <2> QED
    BY <2>1, <2>2, <2>3 DEF Next
<1> QED
  BY <1>1, <1>4, PoolInvariant, PTL DEF Spec, ImplementsSpritePool, Abstract!Spec
=============================================================================
