--------------------------- MODULE TryLock_proofs ---------------------------
(***************************************************************************)
(* Proofs about TryLock, for any number of threads below the number of     *)
(* counter values.                                                         *)
(***************************************************************************)
EXTENDS TryLock, FiniteSetTheorems, TLAPS

(* Modular increment and decrement away from the ends of the range. *)
LEMMA Increment ==
    ASSUME NEW n \in Nat, NEW m \in Nat, n + 1 < m
    PROVE  (n + 1) % m = n + 1
BY SMT

(* Decrementing a positive counter does not wrap. *)
LEMMA Decrement ==
    ASSUME NEW n \in Nat, NEW m \in Nat, 0 < n, n < m
    PROVE  (n + m - 1) % m = n - 1
BY SMT

(* Entering and leaving use() changes the number of busy threads by one. *)
LEMMA BusyFinite ==
    /\ IsFiniteSet(Busy)
    /\ Cardinality(Busy) \in Nat
    /\ Cardinality(Busy) <= Cardinality(Thread)
<1>1. Busy \subseteq Thread
  BY DEF Busy
<1> QED
  BY <1>1, ModulusAssumption, FS_Subset, FS_CardinalityType

(* A thread that enters is one more busy thread. *)
LEMMA BusyGrows ==
    ASSUME NEW t \in Thread, pc \in [Thread -> {"idle", "fn", "leave"}],
           pc[t] = "idle", NEW v \in {"fn", "leave"},
           pc' = [pc EXCEPT ![t] = v]
    PROVE  Cardinality(Busy') = Cardinality(Busy) + 1
<1>1. Busy' = Busy \cup {t} /\ t \notin Busy
  BY DEF Busy
<1> QED
  BY <1>1, BusyFinite, FS_AddElement

(* A thread that leaves is one busy thread less. *)
LEMMA BusyShrinks ==
    ASSUME NEW t \in Thread, pc \in [Thread -> {"idle", "fn", "leave"}],
           pc[t] # "idle", pc' = [pc EXCEPT ![t] = "idle"]
    PROVE  /\ Cardinality(Busy') = Cardinality(Busy) - 1
           /\ Cardinality(Busy) > 0
<1>1. Busy' = Busy \ {t} /\ t \in Busy
  BY DEF Busy
<1>2. Cardinality(Busy) # 0
  BY <1>1, BusyFinite, FS_EmptySet
<1> QED
  BY <1>1, <1>2, BusyFinite, FS_RemoveElement

-----------------------------------------------------------------------------
(* LockInv is inductive. *)
LEMMA TryKeepsLockInv ==
    ASSUME LockInv, NEW t \in Thread, Try(t)
    PROVE  LockInv'
<1> USE ModulusAssumption
<1> DEFINE v == IF counter = 0 THEN "fn" ELSE "leave"
<1>1. /\ pc \in [Thread -> {"idle", "fn", "leave"}]
      /\ pc[t] = "idle" /\ v \in {"fn", "leave"}
      /\ pc' = [pc EXCEPT ![t] = v]
      /\ leaked' = leaked /\ leaked \in Nat /\ leaked <= 1
      /\ counter = Cardinality(Busy) + leaked
      /\ counter \in Nat
  BY DEF LockInv, TypeOK, CounterAccounts, Try
<1>2. Cardinality(Busy') = Cardinality(Busy) + 1
  BY <1>1, BusyGrows
<1>3. Cardinality(Busy) <= Cardinality(Thread) - 1
  <2>1. Busy' \subseteq Thread
    BY DEF Busy
  <2>2. Cardinality(Busy') <= Cardinality(Thread)
    BY <2>1, FS_Subset
  <2> QED
    BY <1>2, <2>2, BusyFinite, FS_CardinalityType
<1>4. counter + 1 < Modulus
  BY <1>1, <1>3, BusyFinite, FS_CardinalityType
<1>5. counter' = counter + 1
  BY <1>1, <1>4, Increment DEF Try
<1>6. CounterAccounts'
  BY <1>1, <1>2, <1>5, BusyFinite DEF CounterAccounts
<1>7. TypeOK'
  BY <1>1, <1>4, <1>5 DEF LockInv, TypeOK, Try
<1>8. CASE counter = 0
  <2>1. Cardinality(Busy) = 0 /\ leaked = 0
    BY <1>1, <1>8, BusyFinite
  <2>2. Busy = {}
    BY <2>1, BusyFinite, FS_EmptySet
  <2>3. Using' \subseteq {t}
    BY <1>1, <2>2 DEF Using, Busy
  <2> QED
    BY <1>1, <1>6, <1>7, <2>1, <2>3 DEF LockInv, MutualExclusion
<1>9. CASE counter # 0
  <2>1. Using' = Using
    BY <1>1, <1>9 DEF Using
  <2> QED
    BY <1>1, <1>6, <1>7, <2>1 DEF LockInv, MutualExclusion
<1> QED
  BY <1>8, <1>9

(* The return of the function under the lock keeps LockInv. *)
LEMMA FnReturnsKeepsLockInv ==
    ASSUME LockInv, NEW t \in Thread, FnReturns(t)
    PROVE  LockInv'
<1>1. Busy' = Busy
  BY DEF LockInv, TypeOK, FnReturns, Busy
<1>2. Using' \subseteq Using
  BY DEF LockInv, TypeOK, FnReturns, Using
<1>3. counter' = counter /\ leaked' = leaked
  BY DEF FnReturns
<1>4. TypeOK'
  BY DEF LockInv, TypeOK, FnReturns
<1> QED
  BY <1>1, <1>2, <1>3, <1>4 DEF LockInv, CounterAccounts, MutualExclusion

(* Its exception, which leaks the count, keeps LockInv. *)
LEMMA FnThrowsKeepsLockInv ==
    ASSUME LockInv, NEW t \in Thread, FnThrows(t)
    PROVE  LockInv'
<1>1. /\ Cardinality(Busy') = Cardinality(Busy) - 1
      /\ Cardinality(Busy) > 0
  BY BusyShrinks DEF LockInv, TypeOK, FnThrows
<1>2. t \in Using /\ Using' \subseteq Using \ {t}
  BY DEF LockInv, TypeOK, FnThrows, Using
<1>3. Using' = {}
  BY <1>2 DEF LockInv, MutualExclusion
<1>4. leaked = 0
  BY <1>2 DEF LockInv, CounterAccounts, TypeOK
<1>5. counter' = counter /\ leaked' = 1
  BY <1>4 DEF FnThrows
<1>6. TypeOK'
  BY <1>5 DEF LockInv, TypeOK, FnThrows
<1>7. CounterAccounts'
  BY <1>1, <1>4, <1>5, BusyFinite DEF LockInv, CounterAccounts
<1> QED
  BY <1>3, <1>6, <1>7 DEF LockInv, MutualExclusion

(* The decrement keeps LockInv. *)
LEMMA LeaveKeepsLockInv ==
    ASSUME LockInv, NEW t \in Thread, Leave(t)
    PROVE  LockInv'
<1> USE ModulusAssumption
<1>1. /\ Cardinality(Busy') = Cardinality(Busy) - 1
      /\ Cardinality(Busy) > 0
  BY BusyShrinks DEF LockInv, TypeOK, Leave
<1>2. Using' = Using
  BY DEF LockInv, TypeOK, Leave, Using
<1>3. counter \in Nat /\ 0 < counter /\ counter < Modulus
  BY <1>1, BusyFinite DEF LockInv, TypeOK, CounterAccounts
<1>4. counter' = counter - 1 /\ leaked' = leaked
  BY <1>3, Decrement DEF Leave
<1>5. TypeOK'
  BY <1>3, <1>4 DEF LockInv, TypeOK, Leave
<1>6. CounterAccounts'
  BY <1>1, <1>4, BusyFinite DEF LockInv, CounterAccounts, TypeOK
<1> QED
  BY <1>2, <1>4, <1>5, <1>6 DEF LockInv, MutualExclusion

(* LockInv holds of a new lock. *)
LEMMA LockInvInit == Init => LockInv
<1> SUFFICES ASSUME Init PROVE LockInv
  OBVIOUS
<1>1. Busy = {} /\ Using = {}
  BY DEF Init, Busy, Using
<1>2. Cardinality(Busy) = 0
  BY <1>1, FS_EmptySet
<1>3. TypeOK
  BY ModulusAssumption, FS_CardinalityType DEF Init, TypeOK
<1> QED
  BY <1>1, <1>2, <1>3 DEF Init, LockInv, CounterAccounts, MutualExclusion

(* LockInv is inductive. *)
LEMMA LockInvNext == LockInv /\ [Next]_vars => LockInv'
<1> SUFFICES ASSUME LockInv, [Next]_vars PROVE LockInv'
  OBVIOUS
<1>1. ASSUME NEW t \in Thread, Try(t) PROVE LockInv'
  BY <1>1, TryKeepsLockInv
<1>2. ASSUME NEW t \in Thread, FnReturns(t) PROVE LockInv'
  BY <1>2, FnReturnsKeepsLockInv
<1>3. ASSUME NEW t \in Thread, FnThrows(t) PROVE LockInv'
  BY <1>3, FnThrowsKeepsLockInv
<1>4. ASSUME NEW t \in Thread, Leave(t) PROVE LockInv'
  BY <1>4, LeaveKeepsLockInv
<1>5. CASE UNCHANGED vars
  BY <1>5 DEF vars, LockInv, TypeOK, CounterAccounts, MutualExclusion, Busy, Using
<1> QED
  BY <1>1, <1>2, <1>3, <1>4, <1>5 DEF Next

(* At most one thread runs its function under a Lock, for any number of       *)
(* threads the 32-bit counter can count, even after a function has thrown.    *)
THEOREM MutualExclusionHolds == Spec => []MutualExclusion
<1>1. LockInv => MutualExclusion
  BY DEF LockInv
<1> QED
  BY <1>1, LockInvInit, LockInvNext, PTL DEF Spec

(* The counter never drifts: it is the number of threads inside use() plus at *)
(* most one increment that a throwing function left.                          *)
THEOREM CounterNeverDrifts == Spec => []CounterAccounts
<1>1. LockInv => CounterAccounts
  BY DEF LockInv
<1> QED
  BY <1>1, LockInvInit, LockInvNext, PTL DEF Spec

(* Lock::use implements the abstract try-lock: in particular nobody gets in   *)
(* once a function has thrown.                                                *)
THEOREM LockRefinesTryLock == Spec => ImplementsTryLock
<1>1. Init => Abstract!Init
  BY DEF Init, Abstract!Init, Using
<1>2. LockInv /\ [Next]_vars => [Abstract!Next]_<<Using, leaked > 0>>
  <2> SUFFICES ASSUME LockInv, [Next]_vars
               PROVE  Abstract!Next \/ (Using' = Using /\ (leaked > 0)' = (leaked > 0))
    OBVIOUS
  <2>1. ASSUME NEW t \in Thread, Try(t), counter = 0
        PROVE  Abstract!Acquire(t)
    <3>1. Cardinality(Busy) = 0 /\ leaked = 0
      BY <2>1, BusyFinite DEF LockInv, CounterAccounts, TypeOK
    <3>2. Busy = {}
      BY <3>1, BusyFinite, FS_EmptySet
    <3>3. Using = {} /\ Using' = {t}
      BY <2>1, <3>2 DEF LockInv, TypeOK, Try, Busy, Using
    <3> QED
      BY <2>1, <3>1, <3>3 DEF Abstract!Acquire, Try
  <2>2. ASSUME NEW t \in Thread, Try(t), counter # 0
        PROVE  Using' = Using /\ leaked' = leaked
    BY <2>2 DEF LockInv, TypeOK, Try, Using
  <2>3. ASSUME NEW t \in Thread, FnReturns(t)
        PROVE  Abstract!Release(t)
    <3>1. t \in Using /\ Using' = Using \ {t} /\ leaked' = leaked
      BY <2>3 DEF LockInv, TypeOK, FnReturns, Using
    <3>2. Using = {t}
      BY <3>1 DEF LockInv, MutualExclusion
    <3> QED
      BY <3>1, <3>2 DEF Abstract!Release
  <2>4. ASSUME NEW t \in Thread, FnThrows(t)
        PROVE  Abstract!Break(t)
    <3>1. t \in Using /\ Using' = Using \ {t} /\ leaked' = leaked + 1 /\ leaked \in Nat
      BY <2>4 DEF LockInv, TypeOK, FnThrows, Using
    <3>2. Using = {t}
      BY <3>1 DEF LockInv, MutualExclusion
    <3> QED
      BY <3>1, <3>2 DEF Abstract!Break
  <2>5. ASSUME NEW t \in Thread, Leave(t)
        PROVE  Using' = Using /\ leaked' = leaked
    BY <2>5 DEF LockInv, TypeOK, Leave, Using
  <2>6. CASE UNCHANGED vars
    BY <2>6 DEF vars, Using
  <2> QED
    BY <2>1, <2>2, <2>3, <2>4, <2>5, <2>6 DEF Next, Abstract!Next
<1> QED
  BY <1>1, <1>2, LockInvInit, LockInvNext, PTL
  DEF Spec, ImplementsTryLock, Abstract!Spec

=============================================================================
