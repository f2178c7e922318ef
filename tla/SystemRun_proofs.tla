-------------------------- MODULE SystemRun_proofs --------------------------
(***************************************************************************)
(* Proofs about SystemRun for any entities, system and number of runs.     *)
(* The recursive functions, set_difference's loop and the removal of       *)
(* culled sprites, are reasoned about by induction on the turns of a loop, *)
(* which Reaches states for sets of numbers.                               *)
(***************************************************************************)
EXTENDS SystemRun, FiniteSetTheorems, SequenceTheorems, WellFoundedInduction, TLAPS

LessThan == {p \in Nat \X Nat : p[1] < p[2]}

(* The order of the naturals, as a relation, is well founded. *)
LEMMA LessThanWellFounded == IsWellFoundedOn(LessThan, Nat)
<1>1. LessThan = OpToRel(<, Nat)
  BY DEF LessThan, OpToRel
<1> QED
  BY <1>1, NatLessThanWellFounded

(* A set of naturals that is not empty has a least member. *)
LEMMA Least ==
  ASSUME NEW T, T \subseteq Nat, T # {}
  PROVE  \E m \in T : \A k \in T : m <= k
<1>1. PICK m \in T : \A k \in T : <<k, m>> \notin LessThan
  BY LessThanWellFounded, WFMin
<1>2. ASSUME NEW k \in T, k < m
      PROVE  FALSE
  <2>1. k \in Nat /\ m \in Nat
    OBVIOUS
  <2>2. <<k, m>> \in LessThan
    BY <1>2, <2>1 DEF LessThan
  <2> QED
    BY <1>1, <2>2
<1> QED
  BY <1>2

(* Induction on the turns 0 .. N of a loop. *)
LEMMA Reaches ==
  ASSUME NEW N \in Nat, NEW S, 0 \in S,
         \A n \in 0 .. N : n < N /\ n \in S => n + 1 \in S
  PROVE  \A n \in 0 .. N : n \in S
<1> SUFFICES ASSUME (0 .. N) \ S # {}
             PROVE  FALSE
  OBVIOUS
<1>0. (0 .. N) \ S \subseteq Nat
  OBVIOUS
<1>1. PICK m \in (0 .. N) \ S : \A k \in (0 .. N) \ S : m <= k
  BY <1>0, Least
<1>2. m # 0 /\ m - 1 \in 0 .. N /\ m - 1 < N /\ (m - 1) + 1 = m
  BY <1>1
<1>3. m - 1 \in S
  BY <1>1, <1>2
<1> QED
  BY <1>1, <1>2, <1>3

-----------------------------------------------------------------------------
(* set_difference *)

Walks(w, a, b, N) ==
    w = [n \in 0 .. N |-> IF n = 0 THEN [i |-> 1, j |-> 1, out |-> <<>>]
                                   ELSE Advance(a, b, w[n - 1])]

(* A walk begins at the front of both vectors and takes one turn at a time. *)
Turns(w, a, b, N) ==
    /\ w[0] = [i |-> 1, j |-> 1, out |-> <<>>]
    /\ \A n \in 0 .. N : n + 1 \in 0 .. N => w[n + 1] = Advance(a, b, w[n])

(* That is what the recursive definition says. *)
LEMMA WalkTurns ==
  ASSUME NEW a, NEW b, NEW N \in Nat, NEW w, Walks(w, a, b, N)
  PROVE  Turns(w, a, b, N)
<1>1. 0 \in 0 .. N /\ \A n \in 0 .. N : n + 1 # 0 /\ (n + 1) - 1 = n
  OBVIOUS
<1>2. w[0] = [i |-> 1, j |-> 1, out |-> <<>>]
  BY <1>1 DEF Walks
<1>3. \A n \in 0 .. N : n + 1 \in 0 .. N => w[n + 1] = Advance(a, b, w[n])
  BY <1>1 DEF Walks
<1> QED
  BY <1>2, <1>3 DEF Turns

(* The recursive function exists: it grows by one turn at a time. *)
LEMMA WalkExists ==
  ASSUME NEW a, NEW b, NEW N \in Nat
  PROVE  \E w : Walks(w, a, b, N)
<1> DEFINE S == {n \in 0 .. N : \E w : Walks(w, a, b, n)}
<1>1. 0 \in S
  <2> DEFINE w == [n \in 0 .. 0 |-> [i |-> 1, j |-> 1, out |-> <<>>]]
  <2>1. Walks(w, a, b, 0)
    BY DEF Walks
  <2> QED
    BY <2>1
<1>2. ASSUME NEW n \in 0 .. N, n < N, n \in S
      PROVE  n + 1 \in S
  <2>1. PICK w : Walks(w, a, b, n)
    BY <1>2
  <2> DEFINE v == [k \in 0 .. n + 1 |-> IF k <= n THEN w[k] ELSE Advance(a, b, w[n])]
  <2>2. ASSUME NEW k \in 0 .. n + 1
        PROVE  v[k] = IF k = 0 THEN [i |-> 1, j |-> 1, out |-> <<>>]
                               ELSE Advance(a, b, v[k - 1])
    <3>1. CASE k = 0
      BY <2>1, <3>1 DEF Walks
    <3>2. CASE k # 0 /\ k <= n
      <4>1. k - 1 \in 0 .. n + 1 /\ k - 1 <= n /\ k \in 0 .. n
        BY <3>2
      <4>2. v[k - 1] = w[k - 1] /\ v[k] = w[k]
        BY <3>2, <4>1
      <4>3. w[k] = Advance(a, b, w[k - 1])
        BY <2>1, <3>2, <4>1 DEF Walks
      <4> QED
        BY <3>2, <4>2, <4>3
    <3>3. CASE k = n + 1
      <4>1. v[k] = Advance(a, b, w[n]) /\ v[k - 1] = w[n] /\ k # 0
        BY <3>3
      <4> QED
        BY <4>1
    <3> QED
      BY <3>1, <3>2, <3>3
  <2>3. Walks(v, a, b, n + 1)
    BY <2>2 DEF Walks
  <2> QED
    BY <1>2, <2>3
<1> HIDE DEF S
<1>3. \A n \in 0 .. N : n \in S
  BY <1>1, <1>2, Reaches
<1> QED
  BY <1>3 DEF S

(* SetDifference is what the walk has taken, and the rest of a. *)
LEMMA DifferenceIsAWalk ==
  ASSUME NEW a, NEW b, Len(a) + Len(b) \in Nat
  PROVE  LET N == Len(a) + Len(b)
         IN  \E w : /\ Walks(w, a, b, N)
                    /\ SetDifference(a, b) = w[N].out \o SubSeq(a, w[N].i, Len(a))
<1> DEFINE N == Len(a) + Len(b)
           W == CHOOSE w : Walks(w, a, b, N)
<1>1. Walks(W, a, b, N)
  BY WalkExists
<1>2. SetDifference(a, b) = W[N].out \o SubSeq(a, W[N].i, Len(a))
  BY Zenon DEF SetDifference, Walks
<1> QED
  BY <1>1, <1>2

(* What the loop has established after each turn, sorted input or not: all   *)
(* it has passed of a is copied or occurs in b.                              *)
WalkInv(a, b, E, s) ==
    /\ s.i \in 1 .. Len(a) + 1 /\ s.j \in 1 .. Len(b) + 1
    /\ s.out \in Seq(E)
    /\ ToSet(s.out) \subseteq ToSet(a)
    /\ \A k \in 1 .. s.i - 1 : a[k] \in ToSet(s.out) \cup ToSet(b)

(* ToSet of a sequence is its elements. *)
LEMMA InToSet ==
  ASSUME NEW E, NEW s \in Seq(E)
  PROVE  /\ ToSet(s) \subseteq E
         /\ \A k \in 1 .. Len(s) : s[k] \in ToSet(s) /\ s[k] \in E
         /\ \A e \in ToSet(s) : \E k \in 1 .. Len(s) : e = s[k]
BY DEF ToSet

(* Append adds its element to the set of a sequence. *)
LEMMA AppendedSet ==
  ASSUME NEW E, NEW s \in Seq(E), NEW e \in E
  PROVE  Append(s, e) \in Seq(E) /\ ToSet(Append(s, e)) = ToSet(s) \cup {e}
<1>1. Append(s, e) \in Seq(E) /\ Len(Append(s, e)) = Len(s) + 1
  OBVIOUS
<1>2. \A k \in 1 .. Len(s) : Append(s, e)[k] = s[k]
  OBVIOUS
<1>3. Append(s, e)[Len(s) + 1] = e
  OBVIOUS
<1> QED
  BY <1>1, <1>2, <1>3 DEF ToSet

(* The set of a concatenation is the union of the sets. *)
LEMMA ConcatenatedSet ==
  ASSUME NEW E, NEW s \in Seq(E), NEW t \in Seq(E)
  PROVE  s \o t \in Seq(E) /\ ToSet(s \o t) = ToSet(s) \cup ToSet(t)
<1>1. s \o t \in Seq(E) /\ Len(s \o t) = Len(s) + Len(t)
  OBVIOUS
<1>2. \A k \in 1 .. Len(s) : (s \o t)[k] = s[k]
  OBVIOUS
<1>3. \A k \in 1 .. Len(t) : (s \o t)[Len(s) + k] = t[k]
  OBVIOUS
<1>4. \A k \in 1 .. Len(s) + Len(t) :
         k \in 1 .. Len(s) \/ (k - Len(s) \in 1 .. Len(t) /\ Len(s) + (k - Len(s)) = k)
  OBVIOUS
<1>5. ToSet(s \o t) \subseteq ToSet(s) \cup ToSet(t)
  BY <1>1, <1>2, <1>3, <1>4 DEF ToSet
<1>6. ToSet(s) \subseteq ToSet(s \o t)
  BY <1>1, <1>2 DEF ToSet
<1>7. \A k \in 1 .. Len(t) : Len(s) + k \in 1 .. Len(s \o t)
  BY <1>1
<1>8. ToSet(t) \subseteq ToSet(s \o t)
  <2> SUFFICES ASSUME NEW k \in 1 .. Len(t)
               PROVE  t[k] \in ToSet(s \o t)
    BY InToSet
  <2> QED
    BY <1>1, <1>3, <1>7, InToSet
<1> QED
  BY <1>1, <1>5, <1>6, <1>8

(* One turn of set_difference's loop, by the comparison of the two elements. *)
LEMMA AdvanceCases ==
  ASSUME NEW a, NEW b, NEW s, ~ (s.i > Len(a) \/ s.j > Len(b)),
         a[s.i] \in Nat, b[s.j] \in Nat
  PROVE  LET t == Advance(a, b, s) IN
         /\ a[s.i] < b[s.j] => t.i = s.i + 1 /\ t.j = s.j /\ t.out = Append(s.out, a[s.i])
         /\ a[s.i] = b[s.j] => t.i = s.i + 1 /\ t.j = s.j + 1 /\ t.out = s.out
         /\ b[s.j] < a[s.i] => t.i = s.i /\ t.j = s.j + 1 /\ t.out = s.out
<1> DEFINE x == a[s.i]
           y == b[s.j]
           t == Advance(a, b, s)
<1>1. t = [i   |-> IF x <= y THEN s.i + 1 ELSE s.i,
           j   |-> IF y <= x THEN s.j + 1 ELSE s.j,
           out |-> IF x < y THEN Append(s.out, x) ELSE s.out]
  BY DEF Advance
<1>2. x \in Nat /\ y \in Nat
  OBVIOUS
<1> HIDE DEF x, y, t
<1>3. /\ x < y => x <= y /\ ~ (y <= x)
      /\ x = y => x <= y /\ y <= x /\ ~ (x < y)
      /\ y < x => ~ (x <= y) /\ y <= x /\ ~ (x < y)
  BY <1>2
<1>4. /\ x < y => t.i = s.i + 1 /\ t.j = s.j /\ t.out = Append(s.out, x)
      /\ x = y => t.i = s.i + 1 /\ t.j = s.j + 1 /\ t.out = s.out
      /\ y < x => t.i = s.i /\ t.j = s.j + 1 /\ t.out = s.out
  BY <1>1, <1>3
<1> QED
  BY <1>4 DEF x, y, t

(* One step of the walk keeps WalkInv. *)
LEMMA AdvanceKeepsWalkInv ==
  ASSUME NEW E, E \subseteq Nat, NEW a \in Seq(E), NEW b \in Seq(E),
         NEW s, WalkInv(a, b, E, s)
  PROVE  WalkInv(a, b, E, Advance(a, b, s))
<1> DEFINE t == Advance(a, b, s)
<1> SUFFICES WalkInv(a, b, E, t)
  OBVIOUS
<1>1. CASE s.i > Len(a) \/ s.j > Len(b)
  BY <1>1 DEF Advance
<1>2. CASE ~ (s.i > Len(a) \/ s.j > Len(b))
  <2>1. s.i \in 1 .. Len(a) /\ s.j \in 1 .. Len(b)
    BY <1>2 DEF WalkInv
  <2>2. a[s.i] \in E /\ b[s.j] \in E /\ a[s.i] \in Nat /\ b[s.j] \in Nat
    BY <2>1, InToSet
  <2>3. a[s.i] \in ToSet(a) /\ b[s.j] \in ToSet(b)
    BY <2>1, InToSet
  <2>4. CASE a[s.i] < b[s.j]
    <3>1. t.i = s.i + 1 /\ t.j = s.j /\ t.out = Append(s.out, a[s.i])
      BY <1>2, <2>2, <2>4, AdvanceCases
    <3>2. t.out \in Seq(E) /\ ToSet(t.out) = ToSet(s.out) \cup {a[s.i]}
      BY <2>2, <3>1, AppendedSet DEF WalkInv
    <3>3. \A k \in 1 .. t.i - 1 : k \in 1 .. s.i - 1 \/ k = s.i
      BY <2>1, <3>1
    <3> HIDE DEF t
    <3> QED
      BY <2>1, <2>3, <3>1, <3>2, <3>3 DEF WalkInv
  <2>5. CASE a[s.i] = b[s.j]
    <3>1. t.i = s.i + 1 /\ t.j = s.j + 1 /\ t.out = s.out
      BY <1>2, <2>2, <2>5, AdvanceCases
    <3>2. \A k \in 1 .. t.i - 1 : k \in 1 .. s.i - 1 \/ k = s.i
      BY <2>1, <3>1
    <3> HIDE DEF t
    <3> QED
      <4>1. t.i \in 1 .. Len(a) + 1 /\ t.j \in 1 .. Len(b) + 1
        BY <2>1, <3>1
      <4>2. \A k \in 1 .. s.i - 1 : a[k] \in ToSet(t.out) \cup ToSet(b)
        BY <3>1 DEF WalkInv
      <4>3. a[s.i] \in ToSet(b)
        BY <2>3, <2>5
      <4>4. \A k \in 1 .. t.i - 1 : a[k] \in ToSet(t.out) \cup ToSet(b)
        BY <3>2, <4>2, <4>3
      <4> QED
        BY <3>1, <4>1, <4>4 DEF WalkInv
  <2>6. CASE b[s.j] < a[s.i]
    <3>1. t.i = s.i /\ t.j = s.j + 1 /\ t.out = s.out
      BY <1>2, <2>2, <2>6, AdvanceCases
    <3> HIDE DEF t
    <3> QED
      BY <2>1, <3>1 DEF WalkInv
  <2> QED
    BY <2>2, <2>4, <2>5, <2>6
<1> QED
  BY <1>1, <1>2

(* Of two vectors in any order, set_difference returns only elements of the  *)
(* first, and all of those that the second lacks.                            *)
LEMMA DifferenceCovers ==
  ASSUME NEW E, E \subseteq Nat, NEW a \in Seq(E), NEW b \in Seq(E)
  PROVE  /\ SetDifference(a, b) \in Seq(E)
         /\ ToSet(SetDifference(a, b)) \subseteq ToSet(a)
         /\ ToSet(a) \ ToSet(b) \subseteq ToSet(SetDifference(a, b))
<1> DEFINE N == Len(a) + Len(b)
<1>1. N \in Nat
  OBVIOUS
<1>2. PICK w : /\ Walks(w, a, b, N)
               /\ SetDifference(a, b) = w[N].out \o SubSeq(a, w[N].i, Len(a))
  BY <1>1, DifferenceIsAWalk
<1>w. Turns(w, a, b, N)
  BY <1>1, <1>2, WalkTurns
<1> DEFINE S == {n \in 0 .. N : WalkInv(a, b, E, w[n])}
<1>3. 0 \in S
  <2>1. w[0] = [i |-> 1, j |-> 1, out |-> <<>>]
    BY <1>w DEF Turns
  <2>2. WalkInv(a, b, E, [i |-> 1, j |-> 1, out |-> <<>>])
    BY DEF WalkInv, ToSet
  <2> QED
    BY <1>1, <2>1, <2>2
<1>4. ASSUME NEW n \in 0 .. N, n < N, n \in S
      PROVE  n + 1 \in S
  <2>1. n + 1 \in 0 .. N /\ n + 1 # 0 /\ (n + 1) - 1 = n
    BY <1>1, <1>4
  <2>2. w[n + 1] = Advance(a, b, w[n])
    BY <1>w, <2>1 DEF Turns
  <2> QED
    BY <1>4, <2>1, <2>2, AdvanceKeepsWalkInv
<1>5. N \in S
  <2> HIDE DEF S, N
  <2>1. \A n \in 0 .. N : n < N /\ n \in S => n + 1 \in S
    BY <1>4
  <2>2. \A n \in 0 .. N : n \in S
    BY <1>1, <1>3, <2>1, Reaches
  <2> QED
    BY <1>1, <2>2
<1> DEFINE s == w[N]
           rest == SubSeq(a, s.i, Len(a))
<1>6. WalkInv(a, b, E, s)
  BY <1>5
<1> HIDE DEF s, S, N
<1>7. /\ rest \in Seq(E) /\ Len(rest) = Len(a) + 1 - s.i
      /\ \A k \in 1 .. Len(rest) : rest[k] = a[s.i + k - 1]
  BY <1>6 DEF WalkInv
<1>8. ToSet(rest) \subseteq ToSet(a)
  <2> HIDE DEF rest
  <2>0. Len(a) \in Nat /\ s.i \in 1 .. Len(a) + 1 /\ Len(rest) = Len(a) + 1 - s.i
    BY <1>6, <1>7 DEF WalkInv
  <2>1. \A k \in 1 .. Len(rest) : s.i + k - 1 \in 1 .. Len(a)
    BY <2>0
  <2> QED
    BY <1>7, <2>1 DEF ToSet
<1>9. \A k \in s.i .. Len(a) : a[k] \in ToSet(rest)
  <2> HIDE DEF rest
  <2>0. Len(a) \in Nat /\ s.i \in 1 .. Len(a) + 1 /\ Len(rest) = Len(a) + 1 - s.i
    BY <1>6, <1>7 DEF WalkInv
  <2>1. \A k \in s.i .. Len(a) : k - s.i + 1 \in 1 .. Len(rest) /\ s.i + (k - s.i + 1) - 1 = k
    BY <2>0
  <2> SUFFICES ASSUME NEW k \in s.i .. Len(a)
               PROVE  a[k] \in ToSet(rest)
    OBVIOUS
  <2>2. rest[k - s.i + 1] = a[k]
    BY <1>7, <2>1
  <2> QED
    BY <1>7, <2>1, <2>2, InToSet
<1> HIDE DEF rest
<1>10. SetDifference(a, b) = s.out \o rest
  BY <1>2 DEF s, rest, N
<1>11. /\ SetDifference(a, b) \in Seq(E)
       /\ ToSet(SetDifference(a, b)) = ToSet(s.out) \cup ToSet(rest)
  BY <1>6, <1>7, <1>10, ConcatenatedSet DEF WalkInv
<1>12. \A k \in 1 .. Len(a) : k \in 1 .. s.i - 1 \/ k \in s.i .. Len(a)
  BY <1>6 DEF WalkInv
<1>13. ToSet(a) \subseteq ToSet(s.out) \cup ToSet(b) \cup ToSet(rest)
  BY <1>6, <1>9, <1>12 DEF ToSet, WalkInv
<1> QED
  BY <1>6, <1>8, <1>11, <1>13 DEF WalkInv

-----------------------------------------------------------------------------
(* How often set_difference(a, b) and set_difference(b, a) leave an element  *)
(* out.                                                                      *)

(* An element occurs finitely often in a sequence. *)
LEMMA CountType ==
  ASSUME NEW E, NEW s \in Seq(E), NEW e
  PROVE  IsFiniteSet({k \in DOMAIN s : s[k] = e}) /\ Count(s, e) \in Nat
<1>1. IsFiniteSet(1 .. Len(s))
  BY FS_Interval
<1>2. IsFiniteSet({k \in DOMAIN s : s[k] = e})
  BY <1>1, FS_Subset
<1> QED
  BY <1>2, FS_CardinalityType DEF Count

(* Append adds one occurrence of its element. *)
LEMMA CountAppended ==
  ASSUME NEW E, NEW s \in Seq(E), NEW x \in E, NEW e
  PROVE  Count(Append(s, x), e) = Count(s, e) + (IF x = e THEN 1 ELSE 0)
<1> DEFINE K == {k \in DOMAIN s : s[k] = e}
           L == {k \in DOMAIN Append(s, x) : Append(s, x)[k] = e}
<1>1. IsFiniteSet(K) /\ Cardinality(K) \in Nat
  BY CountType, FS_CardinalityType
<1>2. /\ DOMAIN s = 1 .. Len(s) /\ DOMAIN Append(s, x) = 1 .. Len(s) + 1
      /\ \A k \in 1 .. Len(s) : Append(s, x)[k] = s[k]
      /\ Append(s, x)[Len(s) + 1] = x
      /\ Len(s) \in Nat
  OBVIOUS
<1>3. Len(s) + 1 \notin K
  BY <1>2
<1>4. CASE x = e
  <2>1. L = K \cup {Len(s) + 1}
    BY <1>2, <1>4
  <2> QED
    BY <1>1, <1>3, <1>4, <2>1, FS_AddElement DEF Count
<1>5. CASE x # e
  <2>1. L = K
    BY <1>2, <1>5
  <2>2. Count(Append(s, x), e) = Count(s, e)
    BY <2>1 DEF Count
  <2>3. Count(s, e) \in Nat
    BY CountType
  <2> QED
    BY <1>5, <2>2, <2>3
<1> QED
  BY <1>4, <1>5

(* Occurrences add up over a concatenation. *)
LEMMA CountConcatenated ==
  ASSUME NEW E, NEW s \in Seq(E), NEW t \in Seq(E), NEW e
  PROVE  Count(s \o t, e) = Count(s, e) + Count(t, e)
<1> DEFINE st == s \o t
           K  == {k \in DOMAIN s : s[k] = e}
           L  == {k \in DOMAIN t : t[k] = e}
           M  == {k \in (Len(s) + 1) .. (Len(s) + Len(t)) : st[k] = e}
           f  == [k \in L |-> Len(s) + k]
<1>1. /\ Len(s) \in Nat /\ Len(t) \in Nat
      /\ DOMAIN s = 1 .. Len(s) /\ DOMAIN t = 1 .. Len(t)
      /\ DOMAIN st = 1 .. Len(s) + Len(t)
  OBVIOUS
<1>2. \A k \in 1 .. Len(s) : st[k] = s[k]
  OBVIOUS
<1>3. \A k \in 1 .. Len(t) : st[Len(s) + k] = t[k]
  OBVIOUS
<1> HIDE DEF st
<1>4. IsFiniteSet(K) /\ IsFiniteSet(L) /\ Cardinality(K) \in Nat /\ Cardinality(L) \in Nat
  BY CountType, FS_CardinalityType
<1>5. f \in Bijection(L, M)
  <2>1. f \in [L -> M]
    BY <1>1, <1>3
  <2>2. \A j, k \in L : f[j] = f[k] => j = k
    BY <1>1
  <2>3. \A m \in M : \E k \in L : f[k] = m
    <3> SUFFICES ASSUME NEW m \in M
                 PROVE  m - Len(s) \in L /\ f[m - Len(s)] = m
      OBVIOUS
    <3>1. m - Len(s) \in 1 .. Len(t) /\ Len(s) + (m - Len(s)) = m
      BY <1>1
    <3>2. t[m - Len(s)] = e
      BY <1>3, <3>1
    <3> QED
      BY <1>1, <3>1, <3>2
  <2> HIDE DEF f, L, M
  <2> QED
    BY <2>1, <2>2, <2>3, Zenon DEF Bijection, Injection, Surjection, IsInjective
<1>6. IsFiniteSet(M) /\ Cardinality(M) = Cardinality(L)
  <2> HIDE DEF L, M, f
  <2>1. ExistsBijection(L, M)
    BY <1>5 DEF ExistsBijection
  <2> QED
    BY <1>4, <2>1, FS_Bijection
<1>7. {k \in DOMAIN st : st[k] = e} = K \cup M
  BY <1>1, <1>2
<1>8. K \cap M = {}
  BY <1>1
<1>9. Cardinality(K \cup M) = Cardinality(K) + Cardinality(M)
  <2> HIDE DEF K, L, M
  <2>1. Cardinality(K \cup M) = Cardinality(K) + Cardinality(M) - Cardinality(K \cap M)
    BY <1>4, <1>6, FS_Union
  <2>2. Cardinality(K \cap M) = 0
    BY <1>8, FS_EmptySet
  <2> QED
    BY <1>4, <1>6, <2>1, <2>2
<1> QED
  BY <1>6, <1>7, <1>9 DEF Count, st

(* What the loop has passed of s. *)
Passed(s, i) == SubSeq(s, 1, i - 1)

(* One more element passed is appended to those passed. *)
LEMMA PassedMore ==
  ASSUME NEW E, NEW s \in Seq(E), NEW i \in 1 .. Len(s)
  PROVE  Passed(s, i) \in Seq(E) /\ Passed(s, i + 1) = Append(Passed(s, i), s[i])
BY DEF Passed

(* A sequence is what was passed and what was not. *)
LEMMA PassedAndRest ==
  ASSUME NEW E, NEW s \in Seq(E), NEW i \in 1 .. Len(s) + 1
  PROVE  /\ Passed(s, i) \in Seq(E) /\ SubSeq(s, i, Len(s)) \in Seq(E)
         /\ s = Passed(s, i) \o SubSeq(s, i, Len(s))
<1>1. Passed(s, i) \in Seq(E) /\ SubSeq(s, i, Len(s)) \in Seq(E)
  BY DEF Passed
<1>2. /\ 1 \in 1 .. Len(s) + 1 /\ i - 1 \in 1 - 1 .. Len(s) /\ Len(s) \in i - 1 .. Len(s)
      /\ (i - 1) + 1 = i
  OBVIOUS
<1>3. SubSeq(s, 1, i - 1) \o SubSeq(s, (i - 1) + 1, Len(s)) = SubSeq(s, 1, Len(s))
  BY <1>2, ConcatAdjacentSubSeq
<1> QED
  BY <1>1, <1>2, <1>3, SubSeqFull DEF Passed

(* Two walks over the same vectors, each the mirror of the other: what the   *)
(* one has passed and not copied is what the other has.                      *)
Mirrored(a, b, e, s, t) ==
    /\ t.i = s.j /\ t.j = s.i
    /\ Count(Passed(a, s.i), e) - Count(s.out, e) = Count(Passed(b, t.i), e) - Count(t.out, e)

(* The walks over (a, b) and over (b, a) stay at the same place. *)
LEMMA AdvanceKeepsMirrored ==
  ASSUME NEW E, E \subseteq Nat, NEW a \in Seq(E), NEW b \in Seq(E), NEW e,
         NEW s, WalkInv(a, b, E, s), NEW t, WalkInv(b, a, E, t), Mirrored(a, b, e, s, t)
  PROVE  Mirrored(a, b, e, Advance(a, b, s), Advance(b, a, t))
<1> DEFINE u == Advance(a, b, s)
           v == Advance(b, a, t)
           i == s.i
           j == s.j
<1> SUFFICES Mirrored(a, b, e, u, v)
  OBVIOUS
<1>1. CASE i > Len(a) \/ j > Len(b)
  BY <1>1 DEF Advance, Mirrored
<1>2. CASE ~ (i > Len(a) \/ j > Len(b))
  <2>1. i \in 1 .. Len(a) /\ j \in 1 .. Len(b) /\ t.i = j /\ t.j = i
    BY <1>2 DEF WalkInv, Mirrored
  <2>2. a[i] \in E /\ b[j] \in E /\ a[i] \in Nat /\ b[j] \in Nat
    BY <2>1, InToSet
  <2>3. s.out \in Seq(E) /\ t.out \in Seq(E)
    BY DEF WalkInv
  <2>4. /\ Count(Passed(a, i), e) \in Nat /\ Count(Passed(b, j), e) \in Nat
        /\ Count(s.out, e) \in Nat /\ Count(t.out, e) \in Nat
    BY <2>1, <2>3, PassedMore, CountType
  <2>5. /\ Count(Passed(a, i + 1), e) = Count(Passed(a, i), e) + (IF a[i] = e THEN 1 ELSE 0)
        /\ Count(Passed(b, j + 1), e) = Count(Passed(b, j), e) + (IF b[j] = e THEN 1 ELSE 0)
    <3>1. Passed(a, i) \in Seq(E) /\ Passed(a, i + 1) = Append(Passed(a, i), a[i])
      BY <2>1, PassedMore
    <3>2. Passed(b, j) \in Seq(E) /\ Passed(b, j + 1) = Append(Passed(b, j), b[j])
      BY <2>1, PassedMore
    <3> HIDE DEF i, j
    <3>3. Count(Append(Passed(a, i), a[i]), e)
            = Count(Passed(a, i), e) + (IF a[i] = e THEN 1 ELSE 0)
      BY <2>2, <3>1, CountAppended
    <3>4. Count(Append(Passed(b, j), b[j]), e)
            = Count(Passed(b, j), e) + (IF b[j] = e THEN 1 ELSE 0)
      BY <2>2, <3>2, CountAppended
    <3> QED
      BY <3>1, <3>2, <3>3, <3>4
  <2>6. Count(Passed(a, i), e) - Count(s.out, e) = Count(Passed(b, j), e) - Count(t.out, e)
    BY <2>1 DEF Mirrored
  <2>7. CASE a[i] < b[j]
    <3>1. u.i = i + 1 /\ u.j = j /\ u.out = Append(s.out, a[i])
      BY <1>2, <2>2, <2>7, AdvanceCases
    <3>2. v.i = j /\ v.j = i + 1 /\ v.out = t.out
      <4>1. /\ ~ (t.i > Len(b) \/ t.j > Len(a)) /\ ~ (b[t.i] < a[t.j]) /\ a[t.j] < b[t.i]
            /\ b[t.i] \in Nat /\ a[t.j] \in Nat
        BY <1>2, <2>1, <2>2, <2>7
      <4>2. v.i = t.i /\ v.j = t.j + 1 /\ v.out = t.out
        BY <4>1, AdvanceCases
      <4> HIDE DEF v
      <4> QED
        BY <2>1, <4>2
    <3>3. Count(u.out, e) = Count(s.out, e) + (IF a[i] = e THEN 1 ELSE 0)
      BY <2>2, <2>3, <3>1, CountAppended
    <3> HIDE DEF u, v, i, j
    <3> QED
      BY <2>4, <2>5, <2>6, <3>1, <3>2, <3>3 DEF Mirrored
  <2>8. CASE a[i] = b[j]
    <3>1. u.i = i + 1 /\ u.j = j + 1 /\ u.out = s.out
      BY <1>2, <2>2, <2>8, AdvanceCases
    <3>2. v.i = j + 1 /\ v.j = i + 1 /\ v.out = t.out
      <4>1. /\ ~ (t.i > Len(b) \/ t.j > Len(a)) /\ b[t.i] = a[t.j]
            /\ b[t.i] \in Nat /\ a[t.j] \in Nat
        BY <1>2, <2>1, <2>2, <2>8
      <4>2. v.i = t.i + 1 /\ v.j = t.j + 1 /\ v.out = t.out
        BY <4>1, AdvanceCases
      <4> HIDE DEF v
      <4> QED
        BY <2>1, <4>2
    <3> HIDE DEF u, v, i, j
    <3> QED
      BY <2>4, <2>5, <2>6, <2>8, <3>1, <3>2 DEF Mirrored
  <2>9. CASE b[j] < a[i]
    <3>1. u.i = i /\ u.j = j + 1 /\ u.out = s.out
      BY <1>2, <2>2, <2>9, AdvanceCases
    <3>2. v.i = j + 1 /\ v.j = i /\ v.out = Append(t.out, b[j])
      <4>1. /\ ~ (t.i > Len(b) \/ t.j > Len(a)) /\ b[t.i] < a[t.j]
            /\ b[t.i] \in Nat /\ a[t.j] \in Nat
        BY <1>2, <2>1, <2>2, <2>9
      <4>2. v.i = t.i + 1 /\ v.j = t.j
        BY <4>1, AdvanceCases
      <4>3. v.out = Append(t.out, b[t.i])
        BY <4>1, AdvanceCases
      <4> HIDE DEF v
      <4> QED
        BY <2>1, <4>2, <4>3
    <3>3. Count(v.out, e) = Count(t.out, e) + (IF b[j] = e THEN 1 ELSE 0)
      BY <2>2, <2>3, <3>2, CountAppended
    <3> HIDE DEF u, v, i, j
    <3> QED
      BY <2>4, <2>5, <2>6, <3>1, <3>2, <3>3 DEF Mirrored
  <2> HIDE DEF i, j
  <2> QED
    BY <2>2, <2>7, <2>8, <2>9
<1> QED
  BY <1>1, <1>2

(* What the loop has not passed is copied. *)
LEMMA CountOfWalk ==
  ASSUME NEW E, NEW a \in Seq(E), NEW b, NEW e, NEW s, WalkInv(a, b, E, s)
  PROVE  /\ Count(a, e) \in Nat /\ Count(s.out, e) \in Nat
         /\ Count(Passed(a, s.i), e) \in Nat
         /\ Count(s.out \o SubSeq(a, s.i, Len(a)), e) \in Nat
         /\ Count(a, e) - Count(s.out \o SubSeq(a, s.i, Len(a)), e)
              = Count(Passed(a, s.i), e) - Count(s.out, e)
<1> DEFINE rest == SubSeq(a, s.i, Len(a))
<1>1. s.i \in 1 .. Len(a) + 1 /\ s.out \in Seq(E)
  BY DEF WalkInv
<1>2. Passed(a, s.i) \in Seq(E) /\ rest \in Seq(E) /\ a = Passed(a, s.i) \o rest
  BY <1>1, PassedAndRest
<1> HIDE DEF rest
<1>3. Count(a, e) = Count(Passed(a, s.i), e) + Count(rest, e)
  <2> DEFINE front == Passed(a, s.i)
  <2>1. front \in Seq(E) /\ rest \in Seq(E) /\ a = front \o rest
    BY <1>2
  <2> HIDE DEF front
  <2>2. Count(front \o rest, e) = Count(front, e) + Count(rest, e)
    BY <2>1, CountConcatenated
  <2>3. Count(a, e) = Count(front, e) + Count(rest, e)
    BY <2>1, <2>2, Zenon
  <2> QED
    BY <2>3 DEF front
<1>4. Count(s.out \o rest, e) = Count(s.out, e) + Count(rest, e)
  BY <1>1, <1>2, CountConcatenated
<1>5. /\ Count(Passed(a, s.i), e) \in Nat /\ Count(rest, e) \in Nat
      /\ Count(s.out, e) \in Nat
  BY <1>1, <1>2, CountType
<1>6. /\ Count(a, e) \in Nat /\ Count(s.out \o rest, e) \in Nat
      /\ Count(a, e) - Count(s.out \o rest, e) = Count(Passed(a, s.i), e) - Count(s.out, e)
  BY <1>3, <1>4, <1>5
<1> QED
  BY <1>5, <1>6 DEF rest

(* Both differences leave the same occurrences of an element. *)
LEMMA DifferencesBalance ==
  ASSUME NEW E, E \subseteq Nat, NEW a \in Seq(E), NEW b \in Seq(E), NEW e
  PROVE  Count(a, e) - Count(SetDifference(a, b), e)
           = Count(b, e) - Count(SetDifference(b, a), e)
<1> DEFINE N == Len(a) + Len(b)
<1>1. N \in Nat /\ Len(b) + Len(a) = N
  OBVIOUS
<1>2. PICK w : /\ Walks(w, a, b, N)
               /\ SetDifference(a, b) = w[N].out \o SubSeq(a, w[N].i, Len(a))
  BY <1>1, DifferenceIsAWalk
<1>3. PICK v : /\ Walks(v, b, a, N)
               /\ SetDifference(b, a) = v[N].out \o SubSeq(b, v[N].i, Len(b))
  BY <1>1, DifferenceIsAWalk
<1> DEFINE Inv(n) == /\ WalkInv(a, b, E, w[n]) /\ WalkInv(b, a, E, v[n])
                     /\ Mirrored(a, b, e, w[n], v[n])
           S == {n \in 0 .. N : Inv(n)}
<1> HIDE DEF N
<1>w. Turns(w, a, b, N)
  BY <1>1, <1>2, WalkTurns
<1>v. Turns(v, b, a, N)
  BY <1>1, <1>3, WalkTurns
<1>4. 0 \in S
  <2> DEFINE start == [i |-> 1, j |-> 1, out |-> <<>>]
  <2>1. w[0] = start /\ v[0] = start
    BY <1>w, <1>v DEF Turns
  <2>2. WalkInv(a, b, E, start) /\ WalkInv(b, a, E, start)
    BY DEF WalkInv, ToSet
  <2>3. Passed(a, 1) = <<>> /\ Passed(b, 1) = <<>>
    BY DEF Passed
  <2>4. Mirrored(a, b, e, start, start)
    BY <2>3 DEF Mirrored
  <2> QED
    BY <1>1, <2>1, <2>2, <2>4
<1>5. ASSUME NEW n \in 0 .. N, n < N, n \in S
      PROVE  n + 1 \in S
  <2>1. n + 1 \in 0 .. N /\ n + 1 # 0 /\ (n + 1) - 1 = n
    BY <1>1, <1>5
  <2>2. w[n + 1] = Advance(a, b, w[n]) /\ v[n + 1] = Advance(b, a, v[n])
    BY <1>w, <1>v, <2>1 DEF Turns
  <2>3. Inv(n)
    BY <1>5
  <2>4. WalkInv(a, b, E, w[n + 1]) /\ WalkInv(b, a, E, v[n + 1])
    BY <2>2, <2>3, AdvanceKeepsWalkInv
  <2>5. Mirrored(a, b, e, w[n + 1], v[n + 1])
    BY <2>2, <2>3, AdvanceKeepsMirrored
  <2> QED
    BY <2>1, <2>4, <2>5
<1>6. Inv(N)
  <2> HIDE DEF S
  <2>1. \A n \in 0 .. N : n < N /\ n \in S => n + 1 \in S
    BY <1>5
  <2>2. \A n \in 0 .. N : n \in S
    BY <1>1, <1>4, <2>1, Reaches
  <2>3. N \in S
    BY <1>1, <2>2
  <2> QED
    BY <2>3 DEF S
<1>7. Count(a, e) - Count(SetDifference(a, b), e)
        = Count(Passed(a, w[N].i), e) - Count(w[N].out, e)
  BY <1>2, <1>6, CountOfWalk
<1>8. Count(b, e) - Count(SetDifference(b, a), e)
        = Count(Passed(b, v[N].i), e) - Count(v[N].out, e)
  BY <1>3, <1>6, CountOfWalk
<1> QED
  BY <1>6, <1>7, <1>8 DEF Mirrored

-----------------------------------------------------------------------------
(* submitSprites *)

(* What a length lacks of whole groups is less than a group. *)
LEMMA WholeGroups ==
  ASSUME NEW len \in Nat, NEW G \in Nat \ {0}
  PROVE  /\ (-len) % G \in 0 .. G - 1
         /\ \E groups \in 0 .. len + ((-len) % G) : len + ((-len) % G) = groups * G
<1> DEFINE r == (-len) % G
           q == -((-len) \div G)
<1>1. r \in 0 .. G - 1 /\ q \in Int /\ -len = G * ((-len) \div G) + r /\ (-len) \div G \in Int
  OBVIOUS
<1>2. q * G = -(G * ((-len) \div G))
  BY <1>1
<1>3. len + r = q * G
  BY <1>1, <1>2
<1> HIDE DEF q, r
<1>4. q \in 0 .. len + r
  <2>1. len + r \in Nat
    BY <1>1
  <2>2. ~ (q < 0)
    <3> SUFFICES ASSUME q < 0 PROVE FALSE
      OBVIOUS
    <3>1. q * G < 0
      BY <1>1
    <3> QED
      BY <1>3, <2>1, <3>1
  <2>3. q <= q * G
    BY <1>1, <2>2
  <2> QED
    BY <1>1, <1>3, <2>1, <2>2, <2>3
<1> QED
  BY <1>1, <1>3, <1>4 DEF r

(* Padding adds null objects after the elements of a sequence. *)
LEMMA PadType ==
  ASSUME NEW E, NEW s \in Seq(E)
  PROVE  /\ Pad(s) \in Seq(E \cup {NullObject})
         /\ Len(Pad(s)) \in Nat /\ Len(s) <= Len(Pad(s))
         /\ Len(Pad(s)) \in Len(s) .. Len(s) + GroupSize - 1
         /\ \E groups \in 0 .. Len(Pad(s)) : Len(Pad(s)) = groups * GroupSize
         /\ \A i \in 1 .. Len(Pad(s)) : Pad(s)[i] = IF i <= Len(s) THEN s[i] ELSE NullObject
<1> DEFINE n == (-Len(s)) % GroupSize
           nulls == [i \in 1 .. n |-> NullObject]
<1>0. Len(s) \in Nat
  OBVIOUS
<1>1. /\ n \in 0 .. GroupSize - 1
      /\ \E groups \in 0 .. Len(s) + n : Len(s) + n = groups * GroupSize
  BY <1>0, GroupSizeAssumption, WholeGroups
<1>n. n \in Nat
  BY <1>1, GroupSizeAssumption
<1> HIDE DEF n
<1>2. nulls \in Seq(E \cup {NullObject}) /\ Len(nulls) = n
  BY <1>n
<1>3. s \in Seq(E \cup {NullObject})
  OBVIOUS
<1>4. Pad(s) = s \o nulls
  BY DEF Pad, n
<1>5. /\ s \o nulls \in Seq(E \cup {NullObject})
      /\ Len(s \o nulls) = Len(s) + n
  <2> HIDE DEF nulls
  <2> QED
    BY <1>2, <1>3
<1>6. ASSUME NEW i \in 1 .. Len(s) + n
      PROVE  (s \o nulls)[i] = IF i <= Len(s) THEN s[i] ELSE NullObject
  BY <1>n, <1>2, <1>3
<1>7. /\ Len(s) + n \in Nat /\ Len(s) <= Len(s) + n
      /\ Len(s) + n \in Len(s) .. Len(s) + GroupSize - 1
  <2>1. Len(s) \in Nat
    OBVIOUS
  <2> QED
    BY <1>1, <1>n, <2>1, GroupSizeAssumption
<1> HIDE DEF nulls
<1> QED
  BY <1>1, <1>4, <1>5, <1>6, <1>7

(* No mask reaches culling_results, so nothing is removed. *)
LEMMA NothingIsCulled ==
  ASSUME NEW E, NEW p \in Seq(E), NEW q
  PROVE  SubmitSprites(p, q) = [positions |-> Pad(p), instances |-> q]
<1> DEFINE culled == CullingResults(Len(Pad(p)))
           both   == [positions |-> Pad(p), instances |-> q]
           Step(f, i) == IF i = 0 THEN both
                         ELSE IF culled[i] = 0 THEN f[i - 1]
                         ELSE [positions |-> SwapRemove(f[i - 1].positions, i),
                               instances |-> SwapRemove(f[i - 1].instances, i)]
           Removal(f) == f = [i \in 0 .. Len(p) |-> Step(f, i)]
           after == CHOOSE f : Removal(f)
<1>1. \A i \in 1 .. Len(p) : culled[i] = 0
  <2>1. Len(Pad(p)) \in Nat /\ Len(p) <= Len(Pad(p))
    BY PadType
  <2>2. \A i \in 1 .. Len(p) : i \in 1 .. Len(Pad(p))
    BY <2>1
  <2> QED
    BY <2>2 DEF CullingResults
<1> HIDE DEF culled, both
<1>2. \E f : Removal(f)
  <2> DEFINE g == [i \in 0 .. Len(p) |-> both]
  <2>1. \A i \in 0 .. Len(p) : Step(g, i) = both
    BY <1>1
  <2>2. Removal(g)
    BY <2>1
  <2> QED
    BY <2>2
<1>3. Removal(after)
  BY <1>2
<1> HIDE DEF after
<1> DEFINE S == {i \in 0 .. Len(p) : after[i] = both}
<1>4. 0 \in S
  BY <1>3
<1>5. \A i \in 0 .. Len(p) : i < Len(p) /\ i \in S => i + 1 \in S
  <2> SUFFICES ASSUME NEW i \in 0 .. Len(p), i < Len(p), i \in S
               PROVE  i + 1 \in S
    OBVIOUS
  <2>1. i + 1 \in 1 .. Len(p) /\ i + 1 \in 0 .. Len(p) /\ (i + 1) - 1 = i
    OBVIOUS
  <2>2. after[i + 1] = after[i]
    BY <1>1, <1>3, <2>1
  <2> QED
    BY <2>1, <2>2
<1>6. Len(p) \in S
  <2> HIDE DEF S
  <2>1. Len(p) \in Nat
    OBVIOUS
  <2>2. \A i \in 0 .. Len(p) : i \in S
    BY <1>4, <1>5, <2>1, Reaches
  <2> QED
    BY <2>1, <2>2
<1>7. SubmitSprites(p, q) = after[Len(p)]
  BY Zenon DEF SubmitSprites, RemoveCulled, after, culled, both
<1> QED
  BY <1>6, <1>7 DEF both

-----------------------------------------------------------------------------
(* The system *)

(* A view lists entities, each once. *)
LEMMA ViewOfMembers ==
  ASSUME members \subseteq Entity, NEW view \in SetToSeqs(members)
  PROVE  /\ view \in Seq(Entity)
         /\ ToSet(view) \subseteq Entity
         /\ Cardinality(ToSet(view)) = Len(view)
<1> DEFINE n == Cardinality(members)
<1>1. n \in Nat
  BY EntityAssumption, FS_Subset, FS_CardinalityType
<1>2. /\ view \in [1 .. n -> members]
      /\ \A i, j \in 1 .. n : i # j => view[i] # view[j]
  BY DEF SetToSeqs
<1> HIDE DEF n
<1>3. view \in Seq(Entity) /\ Len(view) = n /\ DOMAIN view = 1 .. n
  BY <1>1, <1>2
<1>4. ToSet(view) \subseteq Entity
  BY <1>3, InToSet
<1>5. view \in Bijection(1 .. n, ToSet(view))
  BY <1>2, <1>3, Zenon DEF Bijection, Injection, Surjection, IsInjective, ToSet
<1>6. ExistsBijection(1 .. n, ToSet(view))
  BY <1>5 DEF ExistsBijection
<1>7. IsFiniteSet(1 .. n) /\ Cardinality(1 .. n) = n
  BY <1>1, FS_Interval
<1>8. Cardinality(ToSet(view)) = n
  BY <1>6, <1>7, FS_Bijection
<1> QED
  BY <1>3, <1>4, <1>8

(* A system that posts has nothing gathered between runs; one that does not  *)
(* never reaches the renderer; an observer holds only what runs have seen.   *)
SystemInv ==
    /\ TypeOK
    /\ HasMethod(this.post) => spheres = <<>>
    /\ ~ HasMethod(this.post) => ~ last.submitted /\ ~ crashed
    /\ followed \subseteq ToSet(liveEntities)
    /\ NewAddedGoneDropped
    /\ ReportsBalance
    /\ FrameShowsTheRun

(* SystemInv holds before the first run. *)
LEMMA InitSystem == Init => SystemInv
<1> SUFFICES ASSUME Init PROVE SystemInv
  OBVIOUS
<1>1. TypeOK
  <2>1. <<>> \in Seq(Entity) /\ 0 \in 0 .. MaxRuns
    BY MaxRunsAssumption
  <2> QED
    BY <2>1, Zenon DEF Init, TypeOK
<1>2. ToSet(<<>>) = {}
  BY DEF ToSet
<1>3. FrameShowsTheRun
  <2>1. ~ last.submitted
    BY DEF Init, NoRun
  <2> QED
    BY <2>1 DEF FrameShowsTheRun
<1> QED
  BY <1>1, <1>2, <1>3 DEF SystemInv, Init, NoRun, NewAddedGoneDropped,
                            ReportsBalance

(* A run of the system keeps SystemInv. *)
LEMMA RunKeepsSystem ==
  ASSUME SystemInv, NEW view \in SetToSeqs(members), Run(view)
  PROVE  SystemInv'
<1> DEFINE notifies == HasMethod(this.notify) /\ notificationsEnabled
           found    == FindAddedAndRemovedEntities(view)
           gathered == [spheres |-> spheres \o view, instances |-> instances \o view]
           posts    == HasMethod(this.post)
           frame    == SubmitSprites(gathered.spheres, gathered.instances)
<1>1. /\ view \in Seq(Entity) /\ ToSet(view) \subseteq Entity
      /\ Cardinality(ToSet(view)) = Len(view)
  BY ViewOfMembers DEF SystemInv, TypeOK
<1>2. /\ liveEntities \in Seq(Entity) /\ spheres \in Seq(Entity) /\ instances = spheres
      /\ followed \subseteq ToSet(liveEntities) /\ followed \subseteq Entity
  BY DEF SystemInv, TypeOK
<1>3. /\ SetDifference(view, liveEntities) \in Seq(Entity)
      /\ ToSet(SetDifference(view, liveEntities)) \subseteq ToSet(view)
      /\ ToSet(view) \ ToSet(liveEntities) \subseteq ToSet(SetDifference(view, liveEntities))
      /\ ToSet(liveEntities) \ ToSet(view) \subseteq ToSet(SetDifference(liveEntities, view))
  BY <1>1, <1>2, DifferenceCovers, EntityAssumption
<1>4. /\ liveEntities \o view \in Seq(Entity) /\ spheres \o view \in Seq(Entity)
      /\ ToSet(liveEntities \o view) = ToSet(liveEntities) \cup ToSet(view)
  BY <1>1, <1>2, ConcatenatedSet
<1>5. /\ found.added = SetDifference(view, liveEntities)
      /\ found.removed = SetDifference(liveEntities, view)
      /\ found.live = liveEntities \o view
  BY DEF FindAddedAndRemovedEntities
<1>6. /\ runs < MaxRuns /\ runs' = runs + 1
      /\ UNCHANGED <<this, members, notificationsEnabled>>
      /\ last'.view = view /\ last'.before = liveEntities /\ last'.notified = notifies
      /\ notifies => last'.added = found.added /\ last'.removed = found.removed
      /\ last'.submitted = posts /\ last'.frame = IF posts THEN frame ELSE NoFrame
  BY DEF Run
<1>7. IF notifies
      THEN /\ liveEntities' = found.live
           /\ followed' = (followed \ ToSet(found.removed)) \cup ToSet(found.added)
      ELSE UNCHANGED <<liveEntities, followed>>
  BY DEF Run, Notify
<1>8. IF posts
      THEN /\ spheres' = <<>> /\ instances' = <<>>
           /\ crashed' \in BOOLEAN
      ELSE /\ spheres' = spheres \o view /\ instances' = instances \o view
           /\ UNCHANGED crashed
  BY DEF Run, Post
<1> HIDE DEF notifies, found, posts, frame
<1>9. /\ liveEntities' \in Seq(Entity) /\ followed' \subseteq Entity
      /\ followed' \subseteq ToSet(liveEntities')
      /\ notifies => /\ ToSet(view) \ ToSet(liveEntities) \subseteq followed'
                     /\ followed' \subseteq ToSet(view)
  BY <1>1, <1>2, <1>3, <1>4, <1>5, <1>7
<1>10. TypeOK'
  <2>1. spheres' \in Seq(Entity) /\ instances' = spheres' /\ crashed' \in BOOLEAN
    <3>1. crashed' \in BOOLEAN
      BY <1>8, Zenon DEF SystemInv, TypeOK
    <3>2. CASE posts
      BY <1>8, <3>1, <3>2
    <3>3. CASE ~ posts
      BY <1>2, <1>4, <1>8, <3>1, <3>3
    <3> QED
      BY <3>2, <3>3
  <2>2. runs' \in 0 .. MaxRuns
    BY <1>6, MaxRunsAssumption DEF SystemInv, TypeOK
  <2> QED
    BY <1>6, <1>9, <2>1, <2>2 DEF SystemInv, TypeOK
<1>11. FrameShowsTheRun'
  <2>1. CASE posts
    <3>1. spheres \o view = view /\ instances \o view = view
      BY <1>1, <1>2, <2>1 DEF SystemInv, posts
    <3>2. frame = [positions |-> Pad(view), instances |-> view]
      BY <1>1, <3>1, NothingIsCulled DEF frame
    <3>3. last'.frame.positions = Pad(view) /\ last'.frame.instances = view
      BY <1>6, <2>1, <3>2
    <3>4. /\ Pad(view) \in Seq(Entity \cup {NullObject})
          /\ Len(Pad(view)) \in Len(view) .. Len(view) + GroupSize - 1
          /\ \E groups \in 0 .. Len(Pad(view)) : Len(Pad(view)) = groups * GroupSize
          /\ \A i \in 1 .. Len(Pad(view)) :
                Pad(view)[i] = IF i <= Len(view) THEN view[i] ELSE NullObject
      BY <1>1, PadType
    <3>5. DOMAIN Pad(view) = 1 .. Len(Pad(view))
      BY <3>4
    <3>6. last'.view = view
      BY <1>6
    <3> QED
      BY <3>3, <3>4, <3>5, <3>6 DEF FrameShowsTheRun
  <2>2. CASE ~ posts
    BY <1>6, <2>2 DEF FrameShowsTheRun
  <2> QED
    BY <2>1, <2>2
<1>12. NewAddedGoneDropped'
  BY <1>3, <1>5, <1>6, <1>9 DEF NewAddedGoneDropped
<1>13. ReportsBalance'
  <2> SUFFICES ASSUME notifies, NEW e \in Entity
               PROVE  Count(view, e) - Count(SetDifference(view, liveEntities), e)
                        = Count(liveEntities, e) - Count(SetDifference(liveEntities, view), e)
    BY <1>5, <1>6 DEF ReportsBalance
  <2> QED
    BY <1>1, <1>2, DifferencesBalance, EntityAssumption
<1>14. /\ HasMethod(this.post)' => spheres' = <<>>
       /\ ~ HasMethod(this.post)' => ~ last'.submitted /\ ~ crashed'
  BY <1>6, <1>8 DEF SystemInv, posts
<1> QED
  BY <1>9, <1>10, <1>11, <1>12, <1>13, <1>14 DEF SystemInv

(* SystemInv is inductive. *)
LEMMA NextKeepsSystem == SystemInv /\ [Next]_vars => SystemInv'
<1> SUFFICES ASSUME SystemInv, [Next]_vars
             PROVE  SystemInv'
  OBVIOUS
<1>1. ASSUME NEW view \in SetToSeqs(members), Run(view)
      PROVE  SystemInv'
  BY <1>1, RunKeepsSystem
<1>2. CASE ChangeMembers
  BY <1>2 DEF ChangeMembers, Assign, Unassign, SystemInv, TypeOK, NewAddedGoneDropped,
              ReportsBalance, FrameShowsTheRun
<1>3. CASE EnableNotifications
  BY <1>3 DEF EnableNotifications, SystemInv, TypeOK, NewAddedGoneDropped,
              ReportsBalance, FrameShowsTheRun
<1>4. CASE UNCHANGED vars
  BY <1>4 DEF vars, SystemInv, TypeOK, NewAddedGoneDropped, ReportsBalance,
              FrameShowsTheRun
<1> QED
  BY <1>1, <1>2, <1>3, <1>4 DEF Next

(* SystemInv holds in every state of the system. *)
LEMMA SystemInvariant == Spec => []SystemInv
<1>1. Init => SystemInv
  BY InitSystem
<1>2. SystemInv /\ [Next]_vars => SystemInv'
  BY NextKeepsSystem
<1> QED
  BY <1>1, <1>2, PTL DEF Spec

(* The vectors that update fills always stay in step (System.h:79-111).      *)
THEOREM TypeCorrect == Spec => []TypeOK
<1>1. SystemInv => TypeOK
  BY DEF SystemInv
<1> QED
  BY <1>1, SystemInvariant, PTL

(* For any entities in any order (System.h:132-134): an entity that no       *)
(* earlier run with notifications saw is ADDED, and who follows the reports  *)
(* holds no entity that is gone.                                             *)
THEOREM NewAreAddedGoneAreDropped == Spec => []NewAddedGoneDropped
<1>1. SystemInv => NewAddedGoneDropped
  BY DEF SystemInv
<1> QED
  BY <1>1, SystemInvariant, PTL

(* Two runs over one entity leave it twice in liveEntities (System.h:135).   *)
(* The third reports it REMOVED, and not ADDED, although it never left: who  *)
(* follows the reports loses it.                                             *)
THEOREM StayingEntityIsReportedRemoved ==
  ASSUME NEW e \in Entity, liveEntities = <<e, e>>, Run(<<e>>),
         HasMethod(this.notify), notificationsEnabled
  PROVE  last'.removed = <<e>> /\ last'.added = <<>> /\ e \notin followed'
<1>1. e \in Nat
  BY EntityAssumption
<1>2. SubSeq(<<e>>, 2, 1) = <<>> /\ SubSeq(<<e, e>>, 2, 2) = <<e>>
  <2>1. <<e>> \in Seq(Nat) /\ Len(<<e>>) = 1 /\ <<e, e>> \in Seq(Nat) /\ Len(<<e, e>>) = 2
    BY <1>1
  <2>2. SubSeq(<<e>>, 2, 1) = <<>>
    BY <2>1
  <2>3. SubSeq(<<e, e>>, 2, 2) = <<e>>
    <3> DEFINE tail == SubSeq(<<e, e>>, 2, 2)
    <3>1. tail \in Seq(Nat) /\ Len(tail) = 1 /\ tail[1] = <<e, e>>[2]
      BY <2>1
    <3>2. <<e, e>>[2] = e
      OBVIOUS
    <3> HIDE DEF tail
    <3>3. tail = <<e>>
      BY <3>1, <3>2
    <3> QED
      BY <3>3 DEF tail
  <2> QED
    BY <2>2, <2>3
<1>l. Len(<<e>>) + Len(<<e, e>>) = 3 /\ Len(<<e, e>>) + Len(<<e>>) = 3 /\ 3 \in Nat
      /\ Len(<<e>>) = 1 /\ Len(<<e, e>>) = 2
  OBVIOUS
<1>3. SetDifference(<<e>>, <<e, e>>) = <<>>
  <2>1. PICK w : /\ Walks(w, <<e>>, <<e, e>>, 3)
                 /\ SetDifference(<<e>>, <<e, e>>) = w[3].out \o SubSeq(<<e>>, w[3].i, 1)
    BY <1>l, DifferenceIsAWalk
  <2>2. Turns(w, <<e>>, <<e, e>>, 3)
    BY <2>1, WalkTurns
  <2>3. w[1] = [i |-> 2, j |-> 2, out |-> <<>>]
    BY <1>1, <2>2 DEF Turns, Advance
  <2>4. w[2] = w[1] /\ w[3] = w[2]
    BY <2>2, <2>3 DEF Turns, Advance
  <2> QED
    BY <1>2, <2>1, <2>3, <2>4
<1>4. SetDifference(<<e, e>>, <<e>>) = <<e>>
  <2>1. PICK w : /\ Walks(w, <<e, e>>, <<e>>, 3)
                 /\ SetDifference(<<e, e>>, <<e>>) = w[3].out \o SubSeq(<<e, e>>, w[3].i, 2)
    BY <1>l, DifferenceIsAWalk
  <2>2. Turns(w, <<e, e>>, <<e>>, 3)
    BY <2>1, WalkTurns
  <2>3. w[1] = [i |-> 2, j |-> 2, out |-> <<>>]
    BY <1>1, <2>2 DEF Turns, Advance
  <2>4. w[2] = w[1] /\ w[3] = w[2]
    BY <2>2, <2>3 DEF Turns, Advance
  <2> QED
    BY <1>2, <2>1, <2>3, <2>4
<1>5. last'.removed = <<e>> /\ last'.added = <<>>
  BY <1>3, <1>4 DEF Run, FindAddedAndRemovedEntities
<1>6. followed' = (followed \ ToSet(<<e>>)) \cup ToSet(<<>>)
  BY <1>3, <1>4 DEF Run, Notify, FindAddedAndRemovedEntities
<1>7. ToSet(<<e>>) = {e} /\ ToSet(<<>>) = {}
  BY DEF ToSet
<1> QED
  BY <1>5, <1>6, <1>7

(* For any entities in any order: what one report leaves out of the view,    *)
(* the other leaves out of the entities of earlier runs.                     *)
THEOREM ReportsAlwaysBalance == Spec => []ReportsBalance
<1>1. SystemInv => ReportsBalance
  BY DEF SystemInv
<1> QED
  BY <1>1, SystemInvariant, PTL

(* For any size of a group and any number of entities: a submission holds    *)
(* the sprites of its own run, in step with their spheres.                   *)
THEOREM FramesShowTheirRun == Spec => []FrameShowsTheRun
<1>1. SystemInv => FrameShowsTheRun
  BY DEF SystemInv
<1> QED
  BY <1>1, SystemInvariant, PTL

(* A system whose post returns nothing, as sprite_render_system's does, is   *)
(* taken for one without (System.h:48): it never submits a sprite, and what  *)
(* its update gathers is never reset (sprite_render.h:37) but grows with     *)
(* every run.                                                                *)
THEOREM VoidPostIsNeverCalled ==
    Spec => /\ [](this.post = "void" => ~ last.submitted)
            /\ [][this.post = "void" => Len(spheres) <= Len(spheres')]_vars
<1>1. SystemInv => (this.post = "void" => ~ last.submitted)
  BY DEF SystemInv, HasMethod
<1>2. SystemInv /\ [Next]_vars => [this.post = "void" => Len(spheres) <= Len(spheres')]_vars
  <2> SUFFICES ASSUME SystemInv, Next, this.post = "void"
               PROVE  Len(spheres) <= Len(spheres')
    OBVIOUS
  <2>1. spheres \in Seq(Entity)
    BY DEF SystemInv, TypeOK
  <2>2. ASSUME NEW view \in SetToSeqs(members), Run(view)
        PROVE  Len(spheres) <= Len(spheres')
    <3>1. view \in Seq(Entity)
      BY ViewOfMembers DEF SystemInv, TypeOK
    <3>2. spheres' = spheres \o view
      BY <2>2 DEF Run, HasMethod
    <3> QED
      BY <2>1, <3>1, <3>2
  <2>3. CASE ChangeMembers
    BY <2>1, <2>3 DEF ChangeMembers
  <2>4. CASE EnableNotifications
    BY <2>1, <2>4 DEF EnableNotifications
  <2> QED
    BY <2>2, <2>3, <2>4 DEF Next
<1> QED
  BY <1>1, <1>2, SystemInvariant, PTL DEF Spec
=============================================================================
