----------------------------- MODULE TryLockSpec -----------------------------
(***************************************************************************)
(* What Lock::use (include/lib.h:28-41) promises: at most one thread runs  *)
(* the function it was given, and when the function throws, the lock is    *)
(* lost: nobody runs a function under it any more.                         *)
(***************************************************************************)
CONSTANT Thread

VARIABLES owner,    \* threads running their function under the lock
          broken    \* a function has thrown

Init == owner = {} /\ broken = FALSE

Acquire(t) == owner = {} /\ ~ broken /\ owner' = {t} /\ UNCHANGED broken
Release(t) == owner = {t} /\ owner' = {} /\ UNCHANGED broken
Break(t)   == owner = {t} /\ owner' = {} /\ broken' = TRUE

Next == \E t \in Thread : Acquire(t) \/ Release(t) \/ Break(t)

Spec == Init /\ [][Next]_<<owner, broken>>
=============================================================================
