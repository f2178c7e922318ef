------------------------------ MODULE TryLock ------------------------------
(***************************************************************************)
(* Lock::use (include/lib.h:28-41), a lock that is only ever tried: a      *)
(* thread that increments the counter from zero runs its function, any     *)
(* other gives up, and both take their increment back.  Every access to    *)
(* the counter is one atomic step; the counter wraps around.               *)
(***************************************************************************)
EXTENDS Naturals, FiniteSets

CONSTANTS Thread,
          Modulus    \* 2^32: values of std::atomic_uint

(* Threads are fewer than counter values; the 1 is the increment a function  *)
(* that throws leaves behind.                                                *)
ASSUME ModulusAssumption ==
    /\ IsFiniteSet(Thread)
    /\ Modulus \in Nat
    /\ Cardinality(Thread) + 1 < Modulus

VARIABLES
    counter,   \* Lock::counter
    pc,        \* where a thread is in use()
    used,      \* the local variable `used`
    leaked     \* increments that no fetch_sub will undo

vars == <<counter, pc, used, leaked>>

(* The class leaves counter uninitialised; this is a Lock of static storage  *)
(* duration, which is zero.                                                  *)
Init ==
    /\ counter = 0
    /\ pc = [t \in Thread |-> "idle"]
    /\ used = [t \in Thread |-> FALSE]
    /\ leaked = 0

(* Variant: off by one. *)
TryOffByOne(t) ==
    /\ pc[t] = "idle"
    /\ counter' = (counter + 1) % Modulus
    /\ pc' = [pc EXCEPT ![t] = IF counter <= 1 THEN "fn" ELSE "leave"]
    /\ used' = [used EXCEPT ![t] = FALSE]
    /\ UNCHANGED leaked

(* Lines 33-34. *)
Try(t) ==
    /\ pc[t] = "idle"
    /\ counter' = (counter + 1) % Modulus
    /\ pc' = [pc EXCEPT ![t] = IF counter = 0 THEN "fn" ELSE "leave"]
    /\ used' = [used EXCEPT ![t] = FALSE]
    /\ UNCHANGED leaked

(* Lines 35-36: the function returns... *)
FnReturns(t) ==
    /\ pc[t] = "fn"
    /\ pc' = [pc EXCEPT ![t] = "leave"]
    /\ used' = [used EXCEPT ![t] = TRUE]
    /\ UNCHANGED <<counter, leaked>>

(* ... or throws, past the fetch_sub. *)
FnThrows(t) ==
    /\ pc[t] = "fn"
    /\ pc' = [pc EXCEPT ![t] = "idle"]
    /\ leaked' = leaked + 1
    /\ UNCHANGED <<counter, used>>

(* Variants: only a thread that used the lock takes its increment back; the   *)
(* counter is cleared instead; a thread that did not use the lock spins until *)
(* the others are gone.                                                       *)
LeaveIfUsed(t) ==
    /\ pc[t] = "leave"
    /\ counter' = IF used[t] THEN (counter + Modulus - 1) % Modulus ELSE counter
    /\ pc' = [pc EXCEPT ![t] = "idle"]
    /\ UNCHANGED <<used, leaked>>

LeaveClearing(t) ==
    /\ pc[t] = "leave"
    /\ counter' = 0
    /\ pc' = [pc EXCEPT ![t] = "idle"]
    /\ UNCHANGED <<used, leaked>>

LeaveWhenFree(t) ==
    /\ pc[t] = "leave"
    /\ IF used[t] \/ counter = 1
       THEN /\ counter' = (counter + Modulus - 1) % Modulus
            /\ pc' = [pc EXCEPT ![t] = "idle"]
       ELSE UNCHANGED <<counter, pc>>
    /\ UNCHANGED <<used, leaked>>

(* Lines 38-39. *)
Leave(t) ==
    /\ pc[t] = "leave"
    /\ counter' = (counter + Modulus - 1) % Modulus
    /\ pc' = [pc EXCEPT ![t] = "idle"]
    /\ UNCHANGED <<used, leaked>>

Next == \E t \in Thread : Try(t) \/ FnReturns(t) \/ FnThrows(t) \/ Leave(t)

(* A thread that is inside use() is scheduled and its function ends. *)
Fairness ==
    \A t \in Thread : WF_vars(FnReturns(t) \/ FnThrows(t)) /\ WF_vars(Leave(t))

Spec == Init /\ [][Next]_vars /\ Fairness

-----------------------------------------------------------------------------
Busy == {t \in Thread : pc[t] # "idle"}
Using == {t \in Thread : pc[t] = "fn"}

TypeOK ==
    /\ counter \in 0 .. Modulus - 1
    /\ pc \in [Thread -> {"idle", "fn", "leave"}]
    /\ used \in [Thread -> BOOLEAN]
    /\ leaked \in Nat

(* No two threads run their functions under the lock at once (lines 34-38). *)
MutualExclusion == \A s, t \in Using : s = t

(* The counter is what the threads inside use() have added, plus the one      *)
(* increment that at most one throwing function leaves: however the threads   *)
(* interleave, the counter does not drift and, once everybody has left, the    *)
(* lock is free or lost for good.                                             *)
CounterAccounts ==
    /\ counter = Cardinality(Busy) + leaked
    /\ leaked <= 1

(* Lock::use is a try-lock that a throwing function breaks. *)
Abstract == INSTANCE TryLockSpec WITH owner <- Using, broken <- (leaked > 0)
ImplementsTryLock == Abstract!Spec

(* use() never blocks: whoever calls it gets out again, whatever the others   *)
(* do, also after a function has thrown.                                      *)
EveryCallReturns == \A t \in Thread : pc[t] # "idle" ~> pc[t] = "idle"

(* The inductive invariant behind MutualExclusion: while a thread runs its    *)
(* function nobody has leaked an increment.                                   *)
LockInv ==
    /\ TypeOK
    /\ CounterAccounts
    /\ MutualExclusion
    /\ leaked = 1 => Using = {}
=============================================================================
