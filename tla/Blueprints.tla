----------------------------- MODULE Blueprints -----------------------------
(***************************************************************************)
(* Entity blueprints, the data the loader builds and instantiate consumes  *)
(* (EntityBlueprint, include/ecs/Loader.h:11-14), and the few operators on *)
(* functions and sequences both modules use.                               *)
(***************************************************************************)
EXTENDS Naturals, Sequences

CONSTANTS Component,   \* component types a prototype can hold
          Value,       \* component data
          NoValue      \* "the prototype does not hold this component"

(* An EnTT prototype: for every component the data it was set with. *)
Prototype == [Component -> Value \cup {NoValue}]

(* A blueprint: its prototype and the cells of its children, in order. *)
Blueprint == [prototype : Prototype, children : Seq(Nat \ {0})]

(* Blueprints live in the cells of a heap.  A blueprint owns its children,   *)
(* which are complete before it is: they are in earlier cells.               *)
WellFormed(heap) ==
    /\ heap \in Seq(Blueprint)
    /\ \A b \in DOMAIN heap : \A i \in DOMAIN heap[b].children :
          heap[b].children[i] \in 1 .. b - 1

Put(f, x, v) == [y \in DOMAIN f \cup {x} |-> IF y = x THEN v ELSE f[y]]
Pop(s) == SubSeq(s, 1, Len(s) - 1)
Top(s) == s[Len(s)]
Members(s) == {s[i] : i \in DOMAIN s}
=============================================================================
