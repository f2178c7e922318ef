------------------------ MODULE EntityFactory_proofs ------------------------
(***************************************************************************)
(* Proofs about EntityFactory, for every heap of blueprints, every set of  *)
(* components and any number of entities: the types, the hierarchy that    *)
(* Parent and Children form, and that instantiate builds its blueprint.    *)
(***************************************************************************)
EXTENDS EntityFactory, SequenceTheorems, TLAPS

(* Pop removes the last element and keeps the others; Top is that element. *)
LEMMA PopFacts ==
    ASSUME NEW S, NEW s \in Seq(S), s # <<>>
    PROVE  /\ Len(s) \in Nat \ {0}
           /\ Pop(s) \in Seq(S)
           /\ Len(Pop(s)) = Len(s) - 1
           /\ \A i \in 1 .. Len(s) - 1 : Pop(s)[i] = s[i]
           /\ Top(s) \in S
<1>1. Len(s) \in Nat \ {0}
  BY EmptySeq
<1>2. \A i \in 1 .. Len(s) : s[i] \in S
  BY ElementOfSeq
<1> DEFINE n == Len(s) - 1
<1>3. n \in Nat
  BY <1>1
<1> HIDE DEF n
<1>4. Len(SubSeq(s, 1, n)) = n
  BY <1>3
<1>5. Len(Pop(s)) = Len(s) - 1
  BY <1>4 DEF Pop, n
<1>6. /\ Pop(s) \in Seq(S)
      /\ \A i \in 1 .. Len(s) - 1 : Pop(s)[i] = s[i]
  BY <1>1 DEF Pop
<1> QED
  BY <1>1, <1>2, <1>5, <1>6 DEF Top

-----------------------------------------------------------------------------
(* Type correctness. *)

(* What the type invariant says of an active call. *)
LEMMA CallFacts ==
    ASSUME TypeOK
    PROVE  /\ Len(calls) \in Nat
           /\ DOMAIN calls = 1 .. Len(calls)
           /\ \A k \in 1 .. Len(calls) :
                 /\ calls[k] \in Call
                 /\ calls[k].entity \in 0 .. created - 1
                 /\ calls[k].children \in Seq(0 .. created - 1)
<1>1. /\ Len(calls) \in Nat
      /\ DOMAIN calls = 1 .. Len(calls)
      /\ \A k \in 1 .. Len(calls) : calls[k] \in Call
  BY ElementOfSeq, LenProperties DEF TypeOK
<1>2. ASSUME NEW k \in 1 .. Len(calls)
      PROVE  calls[k].entity \in 0 .. created - 1
  <2>1. calls[k].entity \in Nat
    BY <1>1 DEF Call
  <2> QED
    BY <1>1, <2>1 DEF TypeOK
<1> QED
  BY <1>1, <1>2 DEF TypeOK

(* A call's first half (lines 259-263) keeps every variable in its type. *)
LEMMA EnterType ==
    ASSUME TypeOK, NEW b \in DOMAIN blueprints, Enter(b)
    PROVE  TypeOK'
<1>1. /\ created \in Nat
      /\ created' = created + 1
      /\ 0 .. created - 1 \subseteq 0 .. created' - 1
      /\ created \in 0 .. created' - 1
  BY DEF TypeOK, Enter
<1>2. WellFormed(blueprints)' /\ blueprints' = blueprints
  BY DEF TypeOK, Enter
<1>3. /\ DOMAIN componentsOf' \subseteq 0 .. created' - 1
      /\ \A e \in DOMAIN componentsOf' : componentsOf'[e] \in Prototype
  <2>1. blueprints[b].prototype \in Prototype
    <3>1. blueprints[b] \in Blueprint
      BY ElementOfSeq DEF TypeOK, WellFormed
    <3> QED
      BY <3>1 DEF Blueprint
  <2>2. componentsOf' = Put(componentsOf, created, blueprints[b].prototype)
    BY DEF Enter
  <2>3. /\ DOMAIN componentsOf' = DOMAIN componentsOf \cup {created}
        /\ componentsOf'[created] = blueprints[b].prototype
        /\ \A e \in DOMAIN componentsOf :
              e # created => componentsOf'[e] = componentsOf[e]
    BY <2>2 DEF Put
  <2> QED
    BY <1>1, <2>1, <2>3 DEF TypeOK
<1>4. /\ DOMAIN timeAware' \subseteq {TimeAwareTarget}
      /\ \A e \in DOMAIN timeAware' : timeAware'[e] \in Nat
      /\ alive' \in BOOLEAN
  <2> DEFINE new == Put(timeAware, TimeAwareTarget, DefaultTimeScale)
  <2>1. /\ DOMAIN new = DOMAIN timeAware \cup {TimeAwareTarget}
        /\ new[TimeAwareTarget] = DefaultTimeScale
    BY DEF Put
  <2>2. timeAware' = timeAware \/ timeAware' = new
    BY DEF Enter, GiveTimeAware
  <2>3. DOMAIN timeAware' \subseteq {TimeAwareTarget}
    BY <2>1, <2>2 DEF TypeOK
  <2>4. \A e \in DOMAIN timeAware' : timeAware'[e] \in Nat
    BY <2>1, <2>2, <2>3 DEF TypeOK, DefaultTimeScale
  <2>5. alive' \in BOOLEAN
    BY DEF TypeOK, Enter, GiveTimeAware
  <2> QED
    BY <2>3, <2>4, <2>5
<1>5. /\ DOMAIN parentOf' \subseteq 0 .. created' - 1
      /\ \A e \in DOMAIN parentOf' : parentOf'[e] \in 0 .. created' - 1
      /\ DOMAIN childrenOf' \subseteq 0 .. created' - 1
      /\ \A e \in DOMAIN childrenOf' : childrenOf'[e] \in Seq(0 .. created' - 1)
  BY <1>1 DEF TypeOK, Enter
<1>6. calls' \in Seq(Call)
      /\ \A k \in DOMAIN calls' :
          /\ calls'[k].blueprint \in DOMAIN blueprints'
          /\ calls'[k].entity < created'
          /\ calls'[k].children \in Seq(0 .. created' - 1)
  <2> DEFINE new == [blueprint |-> b, entity |-> created, children |-> <<>>]
  <2>1. calls' = Append(calls, new)
    BY DEF Enter
  <2>2. b \in Nat \ {0} /\ Len(blueprints[b].children) \in Nat
    BY DEF TypeOK, WellFormed, Blueprint
  <2>3. new \in Call
    BY <1>1, <2>2 DEF Call
  <2>4. calls' \in Seq(Call)
    BY <2>1, <2>3 DEF TypeOK
  <2>5. ASSUME NEW k \in DOMAIN calls'
        PROVE  /\ calls'[k].blueprint \in DOMAIN blueprints
               /\ calls'[k].entity < created'
               /\ calls'[k].children \in Seq(0 .. created' - 1)
    <3>1. CASE k = Len(calls) + 1
      <4>1. calls'[k] = new
        BY <2>1, <3>1 DEF TypeOK
      <4> QED
        BY <1>1, <2>2, <4>1
    <3>2. CASE k \in DOMAIN calls
      <4>1. calls'[k] = calls[k]
        BY <2>1, <3>2 DEF TypeOK
      <4>2. calls[k].entity < created'
        BY <1>1, <3>2, CallFacts
      <4> QED
        BY <1>1, <3>2, <4>1, <4>2 DEF TypeOK
    <3> QED
      BY <2>1, <3>1, <3>2 DEF TypeOK
  <2> QED
    BY <1>2, <2>4, <2>5
<1> QED
  BY <1>1, <1>2, <1>3, <1>4, <1>5, <1>6 DEF TypeOK

(* The stack after the return of a nested call: the caller is the innermost   *)
(* call and has collected one child more.                                     *)
LEMMA ReturnChildStack ==
    ASSUME TypeOK, ReturnChild, NEW n, n = Len(calls)
    PROVE  /\ n \in Nat /\ n > 1
           /\ calls' \in Seq(Call)
           /\ Len(calls') = n - 1
           /\ DOMAIN calls' = 1 .. n - 1
           /\ \A k \in 1 .. n - 2 : calls'[k] = calls[k]
           /\ calls'[n - 1].blueprint = calls[n - 1].blueprint
           /\ calls'[n - 1].entity = calls[n - 1].entity
           /\ calls'[n - 1].children = Append(calls[n - 1].children, calls[n].entity)
           /\ childrenOf' = Put(childrenOf, calls[n].entity, calls[n].children)
           /\ parentOf' = Put(parentOf, calls[n].entity, calls[n - 1].entity)
<1>1. /\ n \in Nat /\ n > 1
      /\ calls[n] \in Call
      /\ calls[n - 1] \in Call
  BY CallFacts DEF ReturnChild
<1>2. /\ calls \in Seq(Call) /\ calls # <<>>
  BY <1>1 DEF TypeOK
<1>3. /\ Pop(calls) \in Seq(Call)
      /\ Len(Pop(calls)) = n - 1
      /\ \A i \in 1 .. n - 1 : Pop(calls)[i] = calls[i]
  BY <1>1, <1>2, PopFacts
<1>4. Pop(calls) # <<>>
  BY <1>1, <1>3
<1>5. /\ Pop(Pop(calls)) \in Seq(Call)
      /\ Len(Pop(Pop(calls))) = n - 2
      /\ \A i \in 1 .. n - 2 : Pop(Pop(calls))[i] = calls[i]
  <2>1. /\ Pop(Pop(calls)) \in Seq(Call)
        /\ Len(Pop(Pop(calls))) = (n - 1) - 1
        /\ \A i \in 1 .. (n - 1) - 1 : Pop(Pop(calls))[i] = Pop(calls)[i]
    BY <1>3, <1>4, PopFacts
  <2> QED
    BY <1>1, <1>3, <2>1
<1>6. Top(calls) = calls[n] /\ Top(Pop(calls)) = calls[n - 1]
  BY <1>1, <1>3 DEF Top
<1> DEFINE caller == [calls[n - 1] EXCEPT !.children = Append(@, calls[n].entity)]
<1>7. calls' = Append(Pop(Pop(calls)), caller)
  BY <1>6 DEF ReturnChild
<1>8. /\ caller \in Call
      /\ caller.blueprint = calls[n - 1].blueprint
      /\ caller.entity = calls[n - 1].entity
      /\ caller.children = Append(calls[n - 1].children, calls[n].entity)
  <2>1. /\ calls[n].entity \in Nat
        /\ calls[n - 1].children \in Seq(Nat)
    BY <1>1 DEF Call
  <2>2. Append(calls[n - 1].children, calls[n].entity) \in Seq(Nat)
    BY <2>1
  <2> QED
    BY <1>1, <2>2 DEF Call
<1> HIDE DEF caller
<1>9. /\ calls' \in Seq(Call)
      /\ Len(calls') = n - 1
      /\ calls'[n - 1] = caller
      /\ \A k \in 1 .. n - 2 : calls'[k] = calls[k]
  <2>1. /\ calls' \in Seq(Call)
        /\ Len(calls') = (n - 2) + 1
        /\ calls'[(n - 2) + 1] = caller
        /\ \A k \in 1 .. n - 2 : calls'[k] = Pop(Pop(calls))[k]
    BY <1>5, <1>7, <1>8, AppendProperties
  <2> QED
    BY <1>1, <1>5, <2>1
<1>10. DOMAIN calls' = 1 .. n - 1
  BY <1>9, LenProperties
<1>11. /\ childrenOf' = Put(childrenOf, calls[n].entity, calls[n].children)
       /\ parentOf' = Put(parentOf, calls[n].entity, calls[n - 1].entity)
  BY <1>6 DEF ReturnChild
<1> QED
  BY <1>1, <1>8, <1>9, <1>10, <1>11


(* Both kinds of return (lines 266-270) keep every variable in its type. *)
LEMMA ReturnChildType ==
    ASSUME TypeOK, ReturnChild
    PROVE  TypeOK'
<1> DEFINE n == Len(calls)
<1>1. /\ n \in Nat /\ n > 1
      /\ calls' \in Seq(Call)
      /\ DOMAIN calls' = 1 .. n - 1
      /\ \A k \in 1 .. n - 2 : calls'[k] = calls[k]
      /\ calls'[n - 1].blueprint = calls[n - 1].blueprint
      /\ calls'[n - 1].entity = calls[n - 1].entity
      /\ calls'[n - 1].children = Append(calls[n - 1].children, calls[n].entity)
      /\ childrenOf' = Put(childrenOf, calls[n].entity, calls[n].children)
      /\ parentOf' = Put(parentOf, calls[n].entity, calls[n - 1].entity)
  BY ReturnChildStack
<1>2. \A k \in 1 .. n : /\ calls[k].blueprint \in DOMAIN blueprints
                       /\ calls[k].entity \in 0 .. created - 1
                       /\ calls[k].children \in Seq(0 .. created - 1)
  BY CallFacts DEF TypeOK
<1>3. /\ blueprints' = blueprints /\ created' = created
      /\ componentsOf' = componentsOf /\ timeAware' = timeAware
      /\ alive' = alive
  BY DEF ReturnChild
<1> HIDE DEF n
<1>4. /\ DOMAIN childrenOf' \subseteq 0 .. created - 1
      /\ \A e \in DOMAIN childrenOf' : childrenOf'[e] \in Seq(0 .. created - 1)
  <2>1. n \in 1 .. n
    BY <1>1
  <2> QED
    BY <1>1, <1>2, <2>1 DEF TypeOK, Put
<1>5. /\ DOMAIN parentOf' \subseteq 0 .. created - 1
      /\ \A e \in DOMAIN parentOf' : parentOf'[e] \in 0 .. created - 1
  <2>1. n \in 1 .. n /\ n - 1 \in 1 .. n
    BY <1>1
  <2> QED
    BY <1>1, <1>2, <2>1 DEF TypeOK, Put
<1>6. ASSUME NEW k \in DOMAIN calls'
      PROVE  /\ calls'[k].blueprint \in DOMAIN blueprints
             /\ calls'[k].entity < created
             /\ calls'[k].children \in Seq(0 .. created - 1)
  <2>1. CASE k = n - 1
    <3>1. n \in 1 .. n /\ n - 1 \in 1 .. n /\ created \in Nat
      BY <1>1 DEF TypeOK
    <3>2. Append(calls[n - 1].children, calls[n].entity) \in Seq(0 .. created - 1)
      BY <1>2, <3>1
    <3>3. /\ calls[n - 1].blueprint \in DOMAIN blueprints
          /\ calls[n - 1].entity \in 0 .. created - 1
      BY <1>2, <3>1
    <3>4. calls[n - 1].entity < created
      BY <3>1, <3>3
    <3> QED
      BY <1>1, <2>1, <3>2, <3>3, <3>4
  <2>2. CASE k \in 1 .. n - 2
    <3>1. k \in 1 .. n /\ created \in Nat
      BY <1>1, <2>2 DEF TypeOK
    <3>2. /\ calls[k].blueprint \in DOMAIN blueprints
          /\ calls[k].entity \in 0 .. created - 1
          /\ calls[k].children \in Seq(0 .. created - 1)
      BY <1>2, <3>1
    <3>3. calls[k].entity < created
      BY <3>1, <3>2
    <3> QED
      BY <1>1, <2>2, <3>2, <3>3
  <2> QED
    BY <1>1, <2>1, <2>2
<1> QED
  BY <1>1, <1>3, <1>4, <1>5, <1>6 DEF TypeOK

(* The end of a call from the loader keeps every variable in its type. *)
LEMMA ReturnRootType ==
    ASSUME TypeOK, ReturnRoot
    PROVE  TypeOK'
<1>1. /\ Top(calls).entity \in 0 .. created - 1
      /\ Top(calls).children \in Seq(0 .. created - 1)
  BY CallFacts DEF ReturnRoot, Top
<1>2. /\ DOMAIN childrenOf' \subseteq 0 .. created - 1
      /\ \A e \in DOMAIN childrenOf' : childrenOf'[e] \in Seq(0 .. created - 1)
  BY <1>1 DEF TypeOK, ReturnRoot, Put
<1>3. calls' \in Seq(Call) /\ DOMAIN calls' = {}
  BY DEF ReturnRoot
<1> QED
  BY <1>2, <1>3 DEF TypeOK, ReturnRoot

(* The loader's own steps between two calls. *)
LEMMA LoaderStepType ==
    ASSUME TypeOK, LoaderStep
    PROVE  TypeOK'
<1>1. /\ created \in Nat /\ created' \in Nat
      /\ 0 .. created - 1 \subseteq 0 .. created' - 1
  BY DEF TypeOK, LoaderStep
<1>2. WellFormed(blueprints')
  BY ForestsAssumption DEF LoaderStep
<1>3. \A e \in DOMAIN childrenOf : childrenOf[e] \in Seq(0 .. created' - 1)
  BY <1>1, SeqMonotonic DEF TypeOK
<1>4. calls' = <<>> /\ calls' \in Seq(Call) /\ DOMAIN calls' = {}
  BY DEF LoaderStep
<1> QED
  BY <1>1, <1>2, <1>3, <1>4 DEF TypeOK, LoaderStep, WellFormed

(* The child a call is about to instantiate (line 265) is a cell of the heap. *)
LEMMA NextChild ==
    ASSUME TypeOK, InstantiateChild
    PROVE  LET call == Top(calls)
           IN  /\ Len(calls) \in 1 .. Len(calls)
               /\ blueprints[call.blueprint].children[Len(call.children) + 1]
                      \in DOMAIN blueprints
<1> DEFINE call == Top(calls)
           cell == blueprints[call.blueprint]
           i == Len(call.children) + 1
<1>1. Len(calls) \in 1 .. Len(calls) /\ call = calls[Len(calls)]
  BY EmptySeq DEF TypeOK, InstantiateChild, Top
<1>2. /\ call.blueprint \in DOMAIN blueprints
      /\ Len(call.children) \in Nat
  BY <1>1, CallFacts DEF TypeOK
<1>3. cell \in Blueprint
  BY <1>2, ElementOfSeq DEF TypeOK, WellFormed
<1>4. i \in 1 .. Len(cell.children) /\ DOMAIN cell.children = 1 .. Len(cell.children)
  BY <1>2, <1>3 DEF Blueprint, InstantiateChild, ChildrenLeft
<1>5. cell.children[i] \in 1 .. call.blueprint - 1
  BY <1>2, <1>4 DEF TypeOK, WellFormed
<1>6. DOMAIN blueprints = 1 .. Len(blueprints) /\ Len(blueprints) \in Nat
  BY DEF TypeOK, WellFormed
<1> QED
  BY <1>1, <1>2, <1>5, <1>6

(* Every state of the factory has the types of TypeOK; in particular the      *)
(* recursion of instantiate only ever follows children that are blueprints.   *)
THEOREM TypeCorrect == Spec => []TypeOK
<1>1. Init => TypeOK
  <2>1. ASSUME Init PROVE TypeOK
    <3>1. WellFormed(blueprints)
      BY <2>1, ForestsAssumption DEF Init
    <3> QED
      BY <2>1, <3>1 DEF Init, FactoryInit, TypeOK
  <2> QED BY <2>1
<1>2. TypeOK /\ [Next]_factoryVars => TypeOK'
  <2> SUFFICES ASSUME TypeOK, [Next]_factoryVars PROVE TypeOK'
    OBVIOUS
  <2>1. ASSUME NEW b \in DOMAIN blueprints, InstantiateRoot(b) PROVE TypeOK'
    BY <2>1, EnterType DEF InstantiateRoot
  <2>2. CASE InstantiateChild
    BY <2>2, NextChild, EnterType DEF InstantiateChild
  <2>3. CASE ReturnChild
    BY <2>3, ReturnChildType
  <2>4. CASE ReturnRoot
    BY <2>4, ReturnRootType
  <2>5. CASE LoaderStep
    BY <2>5, LoaderStepType
  <2>6. CASE UNCHANGED factoryVars
    BY <2>6 DEF factoryVars, registry, TypeOK, WellFormed
  <2> QED
    BY <2>1, <2>2, <2>3, <2>4, <2>5, <2>6 DEF Next
<1> QED
  BY <1>1, <1>2, PTL DEF Spec


-----------------------------------------------------------------------------
(* The hierarchy: every step preserves HierarchyInv. *)

(* A new call works on an entity that is newer than every other one. *)
LEMMA EnterHierarchy ==
    ASSUME HierarchyInv, NEW b \in DOMAIN blueprints, Enter(b)
    PROVE  HierarchyInv'
<1> DEFINE n == Len(calls)
           new == [blueprint |-> b, entity |-> created, children |-> <<>>]
<1>1. TypeOK /\ TypeOK'
  BY EnterType DEF HierarchyInv
<1>2. /\ n \in Nat /\ created \in Nat
      /\ DOMAIN calls = 1 .. n
      /\ \A k \in 1 .. n : calls[k].entity \in 0 .. created - 1
      /\ \A k \in 1 .. n : calls[k].children \in Seq(0 .. created - 1)
  BY <1>1, CallFacts DEF TypeOK
<1>3. /\ DOMAIN calls' = 1 .. n + 1
      /\ \A k \in 1 .. n : calls'[k] = calls[k]
      /\ calls'[n + 1] = new
  BY <1>1 DEF TypeOK, Enter
<1>4. parentOf' = parentOf /\ childrenOf' = childrenOf
  BY DEF Enter
<1>5. created \notin DOMAIN childrenOf /\ created \notin DOMAIN parentOf
  BY <1>1, <1>2 DEF TypeOK
<1>6. new.entity = created /\ new.children = <<>> /\ DOMAIN new.children = {}
  OBVIOUS
<1> HIDE DEF n, new
<1>7. ActiveEntitiesFresh'
  <2> SUFFICES ASSUME NEW k \in 1 .. n + 1
               PROVE  /\ calls'[k].entity \notin DOMAIN childrenOf
                      /\ calls'[k].entity \notin DOMAIN parentOf
                      /\ \A m \in 1 .. n + 1 :
                            k < m => calls'[k].entity < calls'[m].entity
    BY <1>3, <1>4 DEF ActiveEntitiesFresh
  <2>1. CASE k = n + 1
    BY <1>2, <1>3, <1>5, <1>6, <2>1
  <2>2. CASE k \in 1 .. n
    <3>1. /\ calls[k].entity \notin DOMAIN childrenOf
          /\ calls[k].entity \notin DOMAIN parentOf
          /\ \A m \in 1 .. n : k < m => calls[k].entity < calls[m].entity
      BY <1>2, <2>2 DEF HierarchyInv, ActiveEntitiesFresh
    <3>2. calls[k].entity < created
      BY <1>2, <2>2
    <3>3. ASSUME NEW m \in 1 .. n + 1, k < m
          PROVE  calls[k].entity < calls'[m].entity
      <4>1. CASE m = n + 1
        BY <1>3, <1>6, <3>2, <4>1
      <4>2. CASE m \in 1 .. n
        BY <1>3, <3>1, <3>3, <4>2
      <4>3. n \in Nat
        BY <1>2
      <4>4. m \in 1 .. n \/ m = n + 1
        BY <4>3
      <4> QED
        BY <4>1, <4>2, <4>4
    <3> QED
      BY <1>3, <2>2, <3>1, <3>3
  <2>3. n \in Nat
    BY <1>2
  <2>4. k \in 1 .. n \/ k = n + 1
    BY <2>3
  <2> QED
    BY <2>1, <2>2, <2>4
<1>8. CollectedChildren'
  <2> SUFFICES ASSUME NEW k \in 1 .. n + 1, NEW i \in DOMAIN calls'[k].children
               PROVE  /\ calls'[k].children[i] \in DOMAIN parentOf
                      /\ parentOf[calls'[k].children[i]] = calls'[k].entity
                      /\ \A j \in DOMAIN calls'[k].children :
                            i < j => calls'[k].children[i] < calls'[k].children[j]
                      /\ \A m \in 1 .. n + 1 :
                            k < m => calls'[k].children[i] < calls'[m].entity
    BY <1>3, <1>4 DEF CollectedChildren
  <2>1. k \in 1 .. n /\ calls'[k] = calls[k]
    BY <1>2, <1>3, <1>6
  <2>2. /\ calls[k].children[i] \in DOMAIN parentOf
        /\ parentOf[calls[k].children[i]] = calls[k].entity
        /\ \A j \in DOMAIN calls[k].children :
              i < j => calls[k].children[i] < calls[k].children[j]
        /\ \A m \in 1 .. n : k < m => calls[k].children[i] < calls[m].entity
    BY <1>2, <2>1 DEF HierarchyInv, CollectedChildren
  <2>3. calls[k].children[i] < created
    <3>1. calls[k].children[i] \in 0 .. created - 1
      BY <1>1, <2>2 DEF TypeOK
    <3> QED
      BY <1>2, <3>1
  <2>4. ASSUME NEW m \in 1 .. n + 1, k < m
        PROVE  calls[k].children[i] < calls'[m].entity
    <3>1. CASE m = n + 1
      BY <1>3, <1>6, <2>3, <3>1
    <3>2. CASE m \in 1 .. n
      BY <1>3, <2>2, <2>4, <3>2
    <3>3. n \in Nat
      BY <1>2
    <3>4. m \in 1 .. n \/ m = n + 1
      BY <3>3
    <3> QED
      BY <3>1, <3>2, <3>4
  <2> QED
    BY <2>1, <2>2, <2>4
<1>9. ChildrenHaveParent' /\ HierarchyIsForest'
  BY <1>4 DEF HierarchyInv, ChildrenHaveParent, HierarchyIsForest
<1>10. ParentHasChild'
  <2> SUFFICES ASSUME NEW c \in DOMAIN parentOf
               PROVE  \/ /\ parentOf[c] \in DOMAIN childrenOf
                         /\ \E i \in DOMAIN childrenOf[parentOf[c]] :
                               childrenOf[parentOf[c]][i] = c
                      \/ \E m \in 1 .. n + 1 :
                            /\ calls'[m].entity = parentOf[c]
                            /\ \E i \in DOMAIN calls'[m].children :
                                  calls'[m].children[i] = c
    BY <1>3, <1>4 DEF ParentHasChild
  <2>1. \A k \in 1 .. n : k \in 1 .. n + 1 /\ calls'[k] = calls[k]
    BY <1>2, <1>3
  <2>2. CASE /\ parentOf[c] \in DOMAIN childrenOf
             /\ \E i \in DOMAIN childrenOf[parentOf[c]] :
                   childrenOf[parentOf[c]][i] = c
    BY <2>2
  <2>3. CASE \E k \in DOMAIN calls :
                /\ calls[k].entity = parentOf[c]
                /\ \E i \in DOMAIN calls[k].children : calls[k].children[i] = c
    <3>1. PICK k \in 1 .. n :
                /\ calls[k].entity = parentOf[c]
                /\ \E i \in DOMAIN calls[k].children : calls[k].children[i] = c
      BY <1>2, <2>3
    <3> QED
      BY <2>1, <3>1
  <2> QED
    BY <2>2, <2>3 DEF HierarchyInv, ParentHasChild
<1> QED
  BY <1>1, <1>7, <1>8, <1>9, <1>10 DEF HierarchyInv


(* The innermost call hands its entity to its caller: Children of the entity, *)
(* Parent of the entity and the caller's list change together.                *)
LEMMA ReturnChildHierarchy ==
    ASSUME HierarchyInv, ReturnChild
    PROVE  HierarchyInv'
<1> DEFINE n == Len(calls)
           e == calls[n].entity
           p == calls[n - 1].entity
           old == calls[n - 1].children
           new == Append(old, e)
<1>1. TypeOK /\ TypeOK'
  BY ReturnChildType DEF HierarchyInv
<1>2. /\ n \in Nat /\ n > 1
      /\ DOMAIN calls' = 1 .. n - 1
      /\ \A k \in 1 .. n - 2 : calls'[k] = calls[k]
      /\ calls'[n - 1].entity = p
      /\ calls'[n - 1].children = new
      /\ childrenOf' = Put(childrenOf, e, calls[n].children)
      /\ parentOf' = Put(parentOf, e, p)
  BY <1>1, ReturnChildStack
<1>3. /\ created \in Nat
      /\ DOMAIN calls = 1 .. n
      /\ n \in 1 .. n /\ n - 1 \in 1 .. n
      /\ \A k \in 1 .. n : calls[k].entity \in 0 .. created - 1
      /\ \A k \in 1 .. n : calls[k].children \in Seq(0 .. created - 1)
  <2>1. n \in 1 .. n /\ n - 1 \in 1 .. n
    BY <1>2
  <2> QED
    BY <1>1, <2>1, CallFacts DEF TypeOK
<1>4. \A k \in 1 .. n :
         /\ calls[k].entity \notin DOMAIN childrenOf
         /\ calls[k].entity \notin DOMAIN parentOf
         /\ \A m \in 1 .. n : k < m => calls[k].entity < calls[m].entity
  BY <1>3 DEF HierarchyInv, ActiveEntitiesFresh
<1>5. \A k \in 1 .. n : \A i \in DOMAIN calls[k].children :
         /\ calls[k].children[i] \in DOMAIN parentOf
         /\ parentOf[calls[k].children[i]] = calls[k].entity
         /\ \A j \in DOMAIN calls[k].children :
               i < j => calls[k].children[i] < calls[k].children[j]
         /\ \A m \in 1 .. n : k < m => calls[k].children[i] < calls[m].entity
  BY <1>3 DEF HierarchyInv, CollectedChildren
<1>6. /\ e \notin DOMAIN childrenOf /\ e \notin DOMAIN parentOf
      /\ p < e
  <2>1. n - 1 < n
    BY <1>2
  <2> QED
    BY <1>3, <1>4, <2>1
<1>7. /\ DOMAIN parentOf' = DOMAIN parentOf \cup {e}
      /\ parentOf'[e] = p
      /\ \A c \in DOMAIN parentOf : c # e /\ parentOf'[c] = parentOf[c]
  BY <1>2, <1>6 DEF Put
<1>8. /\ DOMAIN childrenOf' = DOMAIN childrenOf \cup {e}
      /\ childrenOf'[e] = calls[n].children
      /\ \A c \in DOMAIN childrenOf : c # e /\ childrenOf'[c] = childrenOf[c]
  BY <1>2, <1>6 DEF Put
<1>9. /\ DOMAIN old = 1 .. Len(old) /\ Len(old) \in Nat
      /\ DOMAIN new = 1 .. Len(old) + 1
      /\ \A i \in DOMAIN old : new[i] = old[i]
      /\ new[Len(old) + 1] = e
  <2>1. old \in Seq(0 .. created - 1) /\ e \in 0 .. created - 1
    BY <1>3
  <2> QED
    BY <2>1
<1>10. \A k \in 1 .. n - 1 : k \in 1 .. n /\ calls'[k].entity = calls[k].entity
  BY <1>2
<1> HIDE DEF n, e, p, old, new
<1>11. ActiveEntitiesFresh'
  <2> SUFFICES ASSUME NEW k \in 1 .. n - 1
               PROVE  /\ calls[k].entity \notin DOMAIN childrenOf'
                      /\ calls[k].entity \notin DOMAIN parentOf'
                      /\ \A m \in 1 .. n - 1 :
                            k < m => calls[k].entity < calls[m].entity
    BY <1>2, <1>10 DEF ActiveEntitiesFresh
  <2>1. calls[k].entity < e
    BY <1>2, <1>3, <1>4 DEF e
  <2>2. calls[k].entity # e
    BY <1>3, <1>10, <2>1
  <2> QED
    BY <1>4, <1>7, <1>8, <1>10, <2>2
<1>12. CollectedChildren'
  <2> SUFFICES ASSUME NEW k \in 1 .. n - 1, NEW i \in DOMAIN calls'[k].children
               PROVE  /\ calls'[k].children[i] \in DOMAIN parentOf'
                      /\ parentOf'[calls'[k].children[i]] = calls[k].entity
                      /\ \A j \in DOMAIN calls'[k].children :
                            i < j => calls'[k].children[i] < calls'[k].children[j]
                      /\ \A m \in 1 .. n - 1 :
                            k < m => calls'[k].children[i] < calls[m].entity
    BY <1>2, <1>10 DEF CollectedChildren
  <2>1. CASE k \in 1 .. n - 2
    BY <1>2, <1>5, <1>7, <1>10, <2>1
  <2>2. CASE k = n - 1
    <3>1. \A j \in DOMAIN old : /\ old[j] \in DOMAIN parentOf
                               /\ parentOf[old[j]] = p
                               /\ old[j] < e
                               /\ \A m \in DOMAIN old : j < m => old[j] < old[m]
      BY <1>2, <1>3, <1>5 DEF old, e, p
    <3>2. calls'[k].children = new /\ calls[k].entity = p
      BY <1>2, <2>2 DEF p
    <3>3. /\ new[i] \in DOMAIN parentOf'
          /\ parentOf'[new[i]] = p
      BY <1>7, <1>9, <3>1, <3>2
    <3>4. ASSUME NEW j \in DOMAIN new, i < j
          PROVE  new[i] < new[j]
      BY <1>9, <3>1, <3>2, <3>4
    <3> QED
      BY <1>2, <2>2, <3>2, <3>3, <3>4
  <2>3. n \in Nat
    BY <1>2
  <2>4. k \in 1 .. n - 2 \/ k = n - 1
    BY <2>3
  <2> QED
    BY <2>1, <2>2, <2>4
<1>13. ChildrenHaveParent'
  <2> SUFFICES ASSUME NEW q \in DOMAIN childrenOf', NEW i \in DOMAIN childrenOf'[q]
               PROVE  /\ childrenOf'[q][i] \in DOMAIN parentOf'
                      /\ parentOf'[childrenOf'[q][i]] = q
    BY DEF ChildrenHaveParent
  <2>1. CASE q = e
    BY <1>3, <1>5, <1>7, <1>8, <2>1 DEF e
  <2>2. CASE q \in DOMAIN childrenOf
    BY <1>7, <1>8, <2>2 DEF HierarchyInv, ChildrenHaveParent
  <2> QED
    BY <1>8, <2>1, <2>2
<1>14. HierarchyIsForest'
  <2>1. \A c \in DOMAIN parentOf' : parentOf'[c] < c
    BY <1>6, <1>7 DEF HierarchyInv, HierarchyIsForest
  <2>2. ASSUME NEW q \in DOMAIN childrenOf',
               NEW i \in DOMAIN childrenOf'[q], NEW j \in DOMAIN childrenOf'[q],
               i < j
        PROVE  childrenOf'[q][i] < childrenOf'[q][j]
    <3>1. CASE q = e
      BY <1>3, <1>5, <1>8, <2>2, <3>1
    <3>2. CASE q \in DOMAIN childrenOf
      BY <1>8, <2>2, <3>2 DEF HierarchyInv, HierarchyIsForest
    <3> QED
      BY <1>8, <3>1, <3>2
  <2> QED
    BY <2>1, <2>2 DEF HierarchyIsForest
<1>15. ParentHasChild'
  <2> DEFINE Up(c) == \/ /\ parentOf'[c] \in DOMAIN childrenOf'
                         /\ \E i \in DOMAIN childrenOf'[parentOf'[c]] :
                               childrenOf'[parentOf'[c]][i] = c
                      \/ \E k \in DOMAIN calls' :
                            /\ calls'[k].entity = parentOf'[c]
                            /\ \E i \in DOMAIN calls'[k].children :
                                  calls'[k].children[i] = c
  <2>1. Up(e)
    <3>1. n - 1 \in DOMAIN calls' /\ calls'[n - 1].entity = parentOf'[e]
      BY <1>2, <1>7
    <3>2. Len(old) + 1 \in DOMAIN calls'[n - 1].children
          /\ calls'[n - 1].children[Len(old) + 1] = e
      BY <1>2, <1>9
    <3> QED
      BY <3>1, <3>2
  <2>2. ASSUME NEW c \in DOMAIN parentOf PROVE Up(c)
    <3>1. parentOf'[c] = parentOf[c]
      BY <1>7
    <3>2. CASE /\ parentOf[c] \in DOMAIN childrenOf
               /\ \E i \in DOMAIN childrenOf[parentOf[c]] :
                     childrenOf[parentOf[c]][i] = c
      BY <1>8, <3>1, <3>2
    <3>3. ASSUME NEW k \in 1 .. n, calls[k].entity = parentOf[c],
                 NEW i \in DOMAIN calls[k].children, calls[k].children[i] = c
          PROVE  Up(c)
      <4>1. CASE k = n
        BY <1>8, <3>1, <3>3, <4>1 DEF e
      <4>2. CASE k = n - 1
        <5>1. i \in DOMAIN old /\ old[i] = c
          BY <3>3, <4>2 DEF old
        <5>2. i \in DOMAIN new /\ new[i] = c
          BY <1>9, <5>1
        <5>3. n - 1 \in DOMAIN calls' /\ calls'[n - 1].entity = parentOf'[c]
          BY <1>2, <3>1, <3>3, <4>2 DEF p
        <5> QED
          BY <1>2, <5>2, <5>3
      <4>3. CASE k \in 1 .. n - 2
        <5>1. k \in DOMAIN calls' /\ calls'[k] = calls[k]
          BY <1>2, <4>3
        <5> QED
          BY <3>1, <3>3, <5>1
      <4> QED
        BY <1>2, <4>1, <4>2, <4>3
    <3> QED
      BY <1>3, <3>2, <3>3 DEF HierarchyInv, ParentHasChild
  <2> QED
    BY <1>7, <2>1, <2>2 DEF ParentHasChild
<1> QED
  BY <1>1, <1>11, <1>12, <1>13, <1>14, <1>15 DEF HierarchyInv


(* The outermost call returns: its collected children become Children. *)
LEMMA ReturnRootHierarchy ==
    ASSUME HierarchyInv, ReturnRoot
    PROVE  HierarchyInv'
<1> DEFINE e == calls[1].entity
<1>1. TypeOK /\ TypeOK'
  BY ReturnRootType DEF HierarchyInv
<1>2. /\ DOMAIN calls = 1 .. 1
      /\ DOMAIN calls' = {}
      /\ parentOf' = parentOf
      /\ childrenOf' = Put(childrenOf, e, calls[1].children)
  BY <1>1, CallFacts DEF ReturnRoot, Top
<1>3. e \notin DOMAIN childrenOf
  BY <1>2 DEF HierarchyInv, ActiveEntitiesFresh
<1>4. \A i \in DOMAIN calls[1].children :
         /\ calls[1].children[i] \in DOMAIN parentOf
         /\ parentOf[calls[1].children[i]] = e
         /\ \A j \in DOMAIN calls[1].children :
               i < j => calls[1].children[i] < calls[1].children[j]
  BY <1>2 DEF HierarchyInv, CollectedChildren
<1>5. /\ DOMAIN childrenOf' = DOMAIN childrenOf \cup {e}
      /\ childrenOf'[e] = calls[1].children
      /\ \A c \in DOMAIN childrenOf : c # e /\ childrenOf'[c] = childrenOf[c]
  BY <1>2, <1>3 DEF Put
<1>6. \A k \in DOMAIN calls : calls[k].entity = e /\ calls[k].children = calls[1].children
  BY <1>2
<1> HIDE DEF e
<1>7. ActiveEntitiesFresh' /\ CollectedChildren'
  BY <1>2 DEF ActiveEntitiesFresh, CollectedChildren
<1>8. ChildrenHaveParent'
  BY <1>2, <1>4, <1>5 DEF HierarchyInv, ChildrenHaveParent
<1>9. HierarchyIsForest'
  BY <1>2, <1>4, <1>5 DEF HierarchyInv, HierarchyIsForest
<1>10. ParentHasChild'
  <2> SUFFICES ASSUME NEW c \in DOMAIN parentOf
               PROVE  /\ parentOf[c] \in DOMAIN childrenOf'
                      /\ \E i \in DOMAIN childrenOf'[parentOf[c]] :
                            childrenOf'[parentOf[c]][i] = c
    BY <1>2 DEF ParentHasChild
  <2>1. CASE /\ parentOf[c] \in DOMAIN childrenOf
             /\ \E i \in DOMAIN childrenOf[parentOf[c]] :
                   childrenOf[parentOf[c]][i] = c
    BY <1>5, <2>1
  <2>2. CASE \E k \in DOMAIN calls :
                /\ calls[k].entity = parentOf[c]
                /\ \E i \in DOMAIN calls[k].children : calls[k].children[i] = c
    BY <1>5, <1>6, <2>2
  <2> QED
    BY <2>1, <2>2 DEF HierarchyInv, ParentHasChild
<1> QED
  BY <1>1, <1>7, <1>8, <1>9, <1>10 DEF HierarchyInv

(* HierarchyInv is inductive. *)
THEOREM HierarchyInductive == Spec => []HierarchyInv
<1>1. Init => HierarchyInv
  <2> SUFFICES ASSUME Init PROVE HierarchyInv
    OBVIOUS
  <2>1. TypeOK
    <3>1. WellFormed(blueprints)
      BY ForestsAssumption DEF Init
    <3> QED
      BY <3>1 DEF Init, FactoryInit, TypeOK
  <2>2. DOMAIN calls = {} /\ DOMAIN parentOf = {} /\ DOMAIN childrenOf = {}
    BY DEF Init, FactoryInit
  <2> QED
    BY <2>1, <2>2 DEF HierarchyInv, ActiveEntitiesFresh, CollectedChildren,
                      ChildrenHaveParent, ParentHasChild, HierarchyIsForest
<1>2. HierarchyInv /\ [Next]_factoryVars => HierarchyInv'
  <2> SUFFICES ASSUME HierarchyInv, [Next]_factoryVars PROVE HierarchyInv'
    OBVIOUS
  <2>1. ASSUME NEW b \in DOMAIN blueprints, InstantiateRoot(b) PROVE HierarchyInv'
    BY <2>1, EnterHierarchy DEF InstantiateRoot
  <2>2. CASE InstantiateChild
    BY <2>2, NextChild, EnterHierarchy DEF InstantiateChild, HierarchyInv
  <2>3. CASE ReturnChild
    BY <2>3, ReturnChildHierarchy
  <2>4. CASE ReturnRoot
    BY <2>4, ReturnRootHierarchy
  <2>5. CASE LoaderStep
    <3>1. TypeOK'
      BY <2>5, LoaderStepType DEF HierarchyInv
    <3>2. parentOf' = parentOf /\ childrenOf' = childrenOf /\ calls' = calls
      BY <2>5 DEF LoaderStep
    <3> QED
      BY <3>1, <3>2 DEF HierarchyInv, ActiveEntitiesFresh, CollectedChildren,
                        ChildrenHaveParent, ParentHasChild, HierarchyIsForest
  <2>6. CASE UNCHANGED factoryVars
    BY <2>6 DEF factoryVars, registry, TypeOK, WellFormed, HierarchyInv,
                ActiveEntitiesFresh, CollectedChildren, ChildrenHaveParent,
                ParentHasChild, HierarchyIsForest
  <2> QED
    BY <2>1, <2>2, <2>3, <2>4, <2>5, <2>6 DEF Next
<1> QED
  BY <1>1, <1>2, PTL DEF Spec

(* Between two calls of instantiate, Parent and Children describe the same    *)
(* tree, whatever blueprints were instantiated before (Loader.cpp:264-269).   *)
THEOREM HierarchyAlwaysConsistent == Spec => []HierarchyConsistent
<1>1. HierarchyInv => HierarchyConsistent
  <2> SUFFICES ASSUME HierarchyInv, calls = <<>>,
                      NEW p \in DOMAIN childrenOf \cup {parentOf[c] : c \in DOMAIN parentOf}
               PROVE  /\ p \in DOMAIN childrenOf
                      /\ Members(childrenOf[p]) =
                             {c \in DOMAIN parentOf : parentOf[c] = p}
    BY DEF HierarchyConsistent
  <2>1. DOMAIN calls = {}
    OBVIOUS
  <2>2. \A c \in DOMAIN parentOf :
            /\ parentOf[c] \in DOMAIN childrenOf
            /\ \E i \in DOMAIN childrenOf[parentOf[c]] :
                  childrenOf[parentOf[c]][i] = c
    BY <2>1 DEF HierarchyInv, ParentHasChild
  <2>3. p \in DOMAIN childrenOf
    BY <2>2
  <2>4. \A c \in Members(childrenOf[p]) : c \in DOMAIN parentOf /\ parentOf[c] = p
    BY <2>3 DEF HierarchyInv, ChildrenHaveParent, Members
  <2>5. \A c \in DOMAIN parentOf : parentOf[c] = p => c \in Members(childrenOf[p])
    BY <2>2 DEF Members
  <2> QED
    BY <2>3, <2>4, <2>5
<1> QED
  BY <1>1, HierarchyInductive, PTL

(* The hierarchy is a forest at every moment. *)
THEOREM HierarchyAlwaysForest == Spec => []HierarchyIsForest
<1>1. HierarchyInv => HierarchyIsForest
  BY DEF HierarchyInv
<1> QED
  BY <1>1, HierarchyInductive, PTL

(* No step gives an entity a second Parent or Children component: the         *)
(* precondition of registry.assign holds at lines 266 and 269.                *)
THEOREM HierarchyWrittenOnce == Spec => HierarchyNeverRewritten
<1>1. HierarchyInv /\ [Next]_factoryVars => [AssignedOnce]_factoryVars
  <2> SUFFICES ASSUME HierarchyInv, Next PROVE AssignedOnce
    OBVIOUS
  <2>1. CASE ReturnChild
    <3> DEFINE n == Len(calls)
    <3>1. /\ n \in Nat /\ n > 1
          /\ childrenOf' = Put(childrenOf, calls[n].entity, calls[n].children)
          /\ parentOf' = Put(parentOf, calls[n].entity, calls[n - 1].entity)
      BY <2>1, ReturnChildStack DEF HierarchyInv
    <3>2. n \in DOMAIN calls
      BY <3>1, CallFacts DEF HierarchyInv
    <3>3. /\ calls[n].entity \notin DOMAIN childrenOf
          /\ calls[n].entity \notin DOMAIN parentOf
      BY <3>2 DEF HierarchyInv, ActiveEntitiesFresh
    <3> HIDE DEF n
    <3> QED
      BY <3>1, <3>3 DEF AssignedOnce, Put
  <2>2. CASE ReturnRoot
    <3>1. 1 \in DOMAIN calls /\ Top(calls) = calls[1]
      BY <2>2, CallFacts DEF HierarchyInv, ReturnRoot, Top
    <3>2. calls[1].entity \notin DOMAIN childrenOf
      BY <3>1 DEF HierarchyInv, ActiveEntitiesFresh
    <3>3. /\ childrenOf' = Put(childrenOf, calls[1].entity, calls[1].children)
          /\ parentOf' = parentOf
      BY <2>2, <3>1 DEF ReturnRoot
    <3> QED
      BY <3>2, <3>3 DEF AssignedOnce, Put
  <2>3. CASE \/ \E b \in DOMAIN blueprints : InstantiateRoot(b)
             \/ InstantiateChild
             \/ LoaderStep
    BY <2>3 DEF AssignedOnce, InstantiateRoot, InstantiateChild, Enter, LoaderStep
  <2> QED
    BY <2>1, <2>2, <2>3 DEF Next
<1> QED
  BY <1>1, HierarchyInductive, PTL DEF Spec, HierarchyNeverRewritten

-----------------------------------------------------------------------------
(* What instantiate builds.  src says of which blueprint each entity that the *)
(* call has created is an instance.                                           *)

(* The entities kids are instances of the children of blueprint b, in order. *)
Copied(src, kids, b) ==
    \A i \in DOMAIN kids :
        kids[i] \in DOMAIN src /\ src[kids[i]] = blueprints[b].children[i]

(* Entity e has its components, all its children, and its place in the tree. *)
HasPrototype(src, e) ==
    e \in DOMAIN componentsOf /\ componentsOf[e] = blueprints[src[e]].prototype
HasChildren(src, e) ==
    /\ e \in DOMAIN childrenOf
    /\ Len(childrenOf[e]) = Len(blueprints[src[e]].children)
    /\ Copied(src, childrenOf[e], src[e])
HasParent(src, e) == e \in DOMAIN parentOf /\ parentOf[e] \in DOMAIN src

(* Since root was created, the registry has grown by a copy of the tree of   *)
(* blueprint b, root first, and by nothing else.                             *)
IsInstance(root, b) ==
    \E src \in [root .. created - 1 -> DOMAIN blueprints] :
        /\ root \in DOMAIN src /\ src[root] = b
        /\ \A e \in DOMAIN src :
              /\ HasPrototype(src, e) /\ HasChildren(src, e)
              /\ e # root => HasParent(src, e)

(* While the call runs: the calls within it are on the way through their     *)
(* blueprints' children, and what is not theirs is complete.                 *)
OnTheWay(src, k) ==
    LET cell == blueprints[calls[k].blueprint]
    IN  /\ calls[k].entity \in DOMAIN src /\ src[calls[k].entity] = calls[k].blueprint
        /\ Copied(src, calls[k].children, calls[k].blueprint)
        /\ Len(calls[k].children) <= Len(cell.children)
        /\ k < Len(calls) => /\ Len(calls[k].children) < Len(cell.children)
                             /\ calls[k + 1].blueprint = cell.children[Len(calls[k].children) + 1]
Active(e) == \E k \in DOMAIN calls : calls[k].entity = e
Building(src) ==
    /\ src \in [calls[1].entity .. created - 1 -> DOMAIN blueprints]
    /\ \A k \in DOMAIN calls : OnTheWay(src, k)
    /\ \A e \in DOMAIN src : HasPrototype(src, e)
    /\ \A e \in DOMAIN src : Active(e) \/ (HasChildren(src, e) /\ HasParent(src, e))

InstanceInv ==
    /\ HierarchyInv
    /\ calls # <<>> => \E src : Building(src)

(* The outermost call has created the root, and all that is newer. *)
LEMMA RootBuilding ==
    ASSUME HierarchyInv, calls = <<>>, NEW b \in DOMAIN blueprints, Enter(b)
    PROVE  \E src : Building(src)'
<1>0. PICK c : c = created
  OBVIOUS
<1>1. PICK src : src = [e \in {c} |-> b]
  OBVIOUS
<1>2. PICK new : new = [blueprint |-> b, entity |-> c, children |-> <<>>]
  OBVIOUS
<1>3. c \in Nat /\ created' = c + 1 /\ c .. created' - 1 = {c}
  BY <1>0 DEF HierarchyInv, TypeOK, Enter
<1>4. calls' = <<new>> /\ Len(calls') = 1 /\ calls'[1] = new /\ DOMAIN calls' = {1}
  BY <1>0, <1>2 DEF Enter
<1>5. new.blueprint = b /\ new.entity = c /\ new.children = <<>>
  BY <1>2
<1>6. blueprints' = blueprints
  BY DEF Enter
<1>7. c \in DOMAIN componentsOf' /\ componentsOf'[c] = blueprints[b].prototype
  BY <1>0 DEF Enter, Put
<1>8. /\ DOMAIN src = {c} /\ src[c] = b
      /\ src \in [calls'[1].entity .. created' - 1 -> DOMAIN blueprints']
  BY <1>1, <1>3, <1>4, <1>5, <1>6
<1>9. ASSUME NEW k \in DOMAIN calls' PROVE OnTheWay(src, k)'
  <2>1. Len(<<>>) = 0 /\ DOMAIN <<>> = {}
    OBVIOUS
  <2>2. Len(blueprints[b].children) \in Nat
    <3>1. blueprints[b] \in Blueprint
      BY ElementOfSeq DEF HierarchyInv, TypeOK, WellFormed
    <3> QED BY <3>1 DEF Blueprint
  <2>3. Copied(src, <<>>, b)'
    BY <2>1 DEF Copied
  <2>4. 0 <= Len(blueprints[b].children) /\ ~ (1 < 1)
    BY <2>2
  <2>5. k = 1
    BY <1>4
  <2> QED BY <1>4, <1>5, <1>6, <1>8, <2>1, <2>3, <2>4, <2>5 DEF OnTheWay
<1>10. Active(c)'
  BY <1>4, <1>5 DEF Active
<1>11. \A e \in DOMAIN src : HasPrototype(src, e)'
  BY <1>6, <1>7, <1>8 DEF HasPrototype
<1>12. Building(src)'
  BY <1>8, <1>9, <1>10, <1>11 DEF Building
<1> QED BY <1>12

(* A call within it creates one entity more. *)
LEMMA ChildBuilding ==
    ASSUME HierarchyInv, NEW src, Building(src), InstantiateChild
    PROVE  \E t : Building(t)'
<1>1. PICK n : n = Len(calls)
  OBVIOUS
<1>2. PICK c : c = created
  OBVIOUS
<1>3. PICK first : first = calls[1].entity
  OBVIOUS
<1>4. PICK b : b = blueprints[calls[n].blueprint].children[Len(calls[n].children) + 1]
  OBVIOUS
<1>5. PICK new : new = [blueprint |-> b, entity |-> c, children |-> <<>>]
  OBVIOUS
<1>6. PICK t : t = [e \in first .. c |-> IF e = c THEN b ELSE src[e]]
  OBVIOUS
<1>7. /\ TypeOK /\ n \in Nat \ {0} /\ DOMAIN calls = 1 .. n /\ Top(calls) = calls[n]
  BY <1>1, CallFacts, EmptySeq DEF HierarchyInv, TypeOK, InstantiateChild, Top
<1>8. /\ b \in DOMAIN blueprints /\ Enter(b)
      /\ Len(calls[n].children) < Len(blueprints[calls[n].blueprint].children)
  BY <1>4, <1>7, NextChild DEF InstantiateChild, ChildrenLeft
<1>9. /\ c \in Nat /\ created' = c + 1 /\ created' - 1 = c
      /\ blueprints' = blueprints /\ childrenOf' = childrenOf /\ parentOf' = parentOf
      /\ calls' = Append(calls, new)
      /\ componentsOf' = Put(componentsOf, c, blueprints[b].prototype)
  BY <1>2, <1>5, <1>7, <1>8 DEF Enter, TypeOK
<1>10. /\ first \in 0 .. c - 1 /\ \A k \in 1 .. n : calls[k] \in Call
  BY <1>1, <1>2, <1>3, <1>7, CallFacts
<1>11. new.blueprint = b /\ new.entity = c /\ new.children = <<>>
  BY <1>5
<1>12. DOMAIN src = first .. c - 1 /\ src \in [first .. c - 1 -> DOMAIN blueprints]
  BY <1>2, <1>3 DEF Building
<1>13. /\ Len(calls') = n + 1 /\ DOMAIN calls' = 1 .. n + 1 /\ calls'[n + 1] = new
       /\ \A k \in 1 .. n : calls'[k] = calls[k]
  <2>1. calls \in Seq(Call) /\ new \in Call
    <3>1. b \in Nat \ {0}
      BY <1>7, <1>8 DEF TypeOK, WellFormed
    <3>2. <<>> \in Seq(Nat)
      OBVIOUS
    <3> QED BY <1>5, <1>7, <1>9, <3>1, <3>2 DEF TypeOK, Call
  <2> QED BY <1>1, <1>9, <2>1, AppendProperties
<1>14. /\ DOMAIN t = first .. c /\ t[c] = b /\ c \in DOMAIN t
       /\ \A e \in DOMAIN src : e \in DOMAIN t /\ t[e] = src[e]
       /\ \A e \in DOMAIN t : e = c \/ (e \in DOMAIN src /\ e # c)
  <2>1. c \in first .. c /\ \A e \in first .. c - 1 : e \in first .. c /\ e # c
    BY <1>9, <1>10
  <2>2. \A e \in first .. c : e = c \/ (e \in first .. c - 1 /\ e # c)
    BY <1>9, <1>10
  <2> QED BY <1>6, <1>12, <2>1, <2>2
<1>15. t \in [calls'[1].entity .. created' - 1 -> DOMAIN blueprints']
  <2>1. calls'[1].entity = first
    BY <1>3, <1>7, <1>13
  <2>2. \A e \in DOMAIN t : t[e] \in DOMAIN blueprints
    BY <1>8, <1>12, <1>14
  <2>3. t = [e \in DOMAIN t |-> t[e]]
    BY <1>6
  <2> QED BY <1>9, <1>14, <2>1, <2>2, <2>3
<1>16. ASSUME NEW kids, NEW d, Copied(src, kids, d) PROVE Copied(t, kids, d)'
  BY <1>9, <1>14, <1>16 DEF Copied
<1>17. ASSUME NEW k \in DOMAIN calls' PROVE OnTheWay(t, k)'
  <2>1. CASE k \in 1 .. n
    <3>1. PICK f : f = calls[k]
      OBVIOUS
    <3>2. OnTheWay(src, k) /\ calls'[k] = f
      BY <1>7, <1>13, <2>1, <3>1 DEF Building
    <3>3. /\ f.entity \in DOMAIN t /\ t[f.entity] = f.blueprint
          /\ Copied(src, f.children, f.blueprint)
          /\ Len(f.children) <= Len(blueprints[f.blueprint].children)
      BY <1>14, <3>1, <3>2 DEF OnTheWay
    <3>4. Copied(t, f.children, f.blueprint)'
      BY <1>16, <3>3
    <3>5. /\ Len(f.children) < Len(blueprints[f.blueprint].children)
          /\ calls'[k + 1].blueprint = blueprints[f.blueprint].children[Len(f.children) + 1]
      <4>1. CASE k = n
        BY <1>4, <1>8, <1>11, <1>13, <3>1, <4>1
      <4>2. CASE k # n
        <5>1. k + 1 \in 1 .. n /\ k < n
          BY <1>7, <2>1, <4>2
        <5> QED BY <1>1, <1>13, <3>1, <3>2, <5>1 DEF OnTheWay
      <4> QED BY <4>1, <4>2
    <3> QED BY <1>9, <3>2, <3>3, <3>4, <3>5 DEF OnTheWay
  <2>2. CASE k = n + 1
    <3>1. Len(<<>>) = 0 /\ DOMAIN <<>> = {}
      OBVIOUS
    <3>2. Len(blueprints[b].children) \in Nat
      <4>1. blueprints[b] \in Blueprint
        BY <1>7, <1>8, ElementOfSeq DEF TypeOK, WellFormed
      <4> QED BY <4>1 DEF Blueprint
    <3>3. Copied(t, <<>>, b)'
      BY <3>1 DEF Copied
    <3>4. 0 <= Len(blueprints[b].children) /\ ~ (n + 1 < n + 1)
      BY <1>7, <3>2
    <3> QED BY <1>9, <1>11, <1>13, <1>14, <2>2, <3>1, <3>3, <3>4 DEF OnTheWay
  <2> QED BY <1>7, <1>13, <2>1, <2>2
<1>18. ASSUME NEW e \in DOMAIN t PROVE HasPrototype(t, e)'
  <2>1. CASE e = c
    BY <1>9, <1>14, <2>1 DEF HasPrototype, Put
  <2>2. CASE e \in DOMAIN src /\ e # c
    <3>1. HasPrototype(src, e)
      BY <2>2 DEF Building
    <3> QED BY <1>9, <1>14, <2>2, <3>1 DEF HasPrototype, Put
  <2> QED BY <1>14, <2>1, <2>2
<1>19. ASSUME NEW e \in DOMAIN t
       PROVE  Active(e)' \/ (HasChildren(t, e)' /\ HasParent(t, e)')
  <2>1. CASE e = c
    <3>1. n + 1 \in DOMAIN calls'
      BY <1>7, <1>13
    <3> QED BY <1>11, <1>13, <2>1, <3>1 DEF Active
  <2>2. CASE e \in DOMAIN src /\ Active(e)
    <3>1. PICK k \in 1 .. n : calls[k].entity = e
      BY <1>7, <2>2 DEF Active
    <3>2. k \in DOMAIN calls' /\ calls'[k].entity = e
      BY <1>7, <1>13, <3>1
    <3> QED BY <3>2 DEF Active
  <2>3. CASE e \in DOMAIN src /\ ~ Active(e)
    <3>1. HasChildren(src, e) /\ HasParent(src, e) /\ t[e] = src[e]
      BY <1>14, <2>3 DEF Building
    <3>2. PICK kids : kids = childrenOf[e]
      OBVIOUS
    <3>3. Copied(t, kids, src[e])'
      BY <1>16, <3>1, <3>2 DEF HasChildren
    <3>4. HasChildren(t, e)'
      BY <1>9, <3>1, <3>2, <3>3 DEF HasChildren
    <3>5. HasParent(t, e)'
      BY <1>9, <1>14, <3>1 DEF HasParent
    <3> QED BY <3>4, <3>5
  <2> QED BY <1>14, <2>1, <2>2, <2>3
<1>20. Building(t)'
  BY <1>15, <1>17, <1>18, <1>19 DEF Building
<1> QED BY <1>20

(* An inner call hands its entity, now complete, to its caller. *)
LEMMA ReturnChildBuilding ==
    ASSUME HierarchyInv, NEW src, Building(src), ReturnChild
    PROVE  Building(src)'
<1>1. PICK n : n = Len(calls)
  OBVIOUS
<1>2. PICK e : e = calls[n].entity
  OBVIOUS
<1>3. PICK p : p = calls[n - 1]
  OBVIOUS
<1>4. PICK kids : kids = calls[n].children
  OBVIOUS
<1>5. PICK grown : grown = Append(p.children, e)
  OBVIOUS
<1>6. /\ TypeOK /\ n \in Nat /\ n > 1 /\ Len(calls') = n - 1
      /\ DOMAIN calls' = 1 .. n - 1
      /\ \A k \in 1 .. n - 2 : calls'[k] = calls[k]
      /\ calls'[n - 1].blueprint = p.blueprint
      /\ calls'[n - 1].entity = p.entity
      /\ calls'[n - 1].children = grown
      /\ childrenOf' = Put(childrenOf, e, kids)
      /\ parentOf' = Put(parentOf, e, p.entity)
  BY <1>1, <1>2, <1>3, <1>4, <1>5, ReturnChildStack DEF HierarchyInv
<1>7. /\ created' = created /\ blueprints' = blueprints /\ componentsOf' = componentsOf
      /\ ~ ChildrenLeft(calls[n])
  BY <1>1 DEF ReturnChild, Top
<1>8. /\ DOMAIN calls = 1 .. n /\ n \in 1 .. n /\ n - 1 \in 1 .. n
      /\ n - 1 < n /\ (n - 1) + 1 = n
      /\ \A k \in 1 .. n : calls[k].entity \in 0 .. created - 1
      /\ p.children \in Seq(0 .. created - 1) /\ kids \in Seq(0 .. created - 1)
      /\ calls[n].blueprint \in DOMAIN blueprints
  <2>1. n \in 1 .. n /\ n - 1 \in 1 .. n /\ n - 1 < n /\ (n - 1) + 1 = n
    BY <1>6
  <2> QED BY <1>1, <1>3, <1>4, <1>6, <2>1, CallFacts DEF TypeOK
<1>9. OnTheWay(src, n) /\ OnTheWay(src, n - 1)
  BY <1>8 DEF Building
<1>10. /\ e \in DOMAIN src /\ src[e] = calls[n].blueprint
       /\ Copied(src, kids, src[e])
       /\ Len(kids) = Len(blueprints[src[e]].children)
  <2>1. Len(blueprints[calls[n].blueprint].children) \in Nat
    <3>1. blueprints[calls[n].blueprint] \in Blueprint
      BY <1>6, <1>8, ElementOfSeq DEF TypeOK, WellFormed
    <3> QED BY <3>1 DEF Blueprint
  <2>2. Len(kids) \in Nat
    BY <1>8
  <2> QED BY <1>2, <1>4, <1>7, <1>9, <2>1, <2>2 DEF OnTheWay, ChildrenLeft
<1>11. /\ p.entity \in DOMAIN src /\ src[p.entity] = p.blueprint
       /\ Copied(src, p.children, p.blueprint)
       /\ Len(p.children) < Len(blueprints[p.blueprint].children)
       /\ src[e] = blueprints[p.blueprint].children[Len(p.children) + 1]
  BY <1>1, <1>3, <1>8, <1>9, <1>10 DEF OnTheWay
<1>12. /\ e \notin DOMAIN childrenOf /\ e \notin DOMAIN parentOf
  BY <1>2, <1>8 DEF HierarchyInv, ActiveEntitiesFresh
<1>13. /\ DOMAIN grown = 1 .. Len(p.children) + 1
       /\ DOMAIN p.children = 1 .. Len(p.children) /\ Len(p.children) \in Nat
       /\ Len(grown) = Len(p.children) + 1
       /\ \A i \in DOMAIN p.children : grown[i] = p.children[i]
       /\ grown[Len(p.children) + 1] = e
  <2>1. e \in 0 .. created - 1
    BY <1>2, <1>8
  <2> QED BY <1>5, <1>8, <2>1
<1>14. ASSUME NEW s, NEW d, Copied(src, s, d) PROVE Copied(src, s, d)'
  BY <1>7, <1>14 DEF Copied
<1>15. Copied(src, grown, p.blueprint)'
  <2>1. ASSUME NEW i \in DOMAIN grown
        PROVE  grown[i] \in DOMAIN src /\ src[grown[i]] = blueprints[p.blueprint].children[i]
    <3>1. CASE i = Len(p.children) + 1
      BY <1>10, <1>11, <1>13, <3>1
    <3>2. CASE i \in DOMAIN p.children
      BY <1>11, <1>13, <3>2 DEF Copied
    <3>3. i = Len(p.children) + 1 \/ i \in DOMAIN p.children
      BY <1>13
    <3> QED BY <3>1, <3>2, <3>3
  <2> QED BY <1>7, <2>1 DEF Copied
<1>16. src \in [calls'[1].entity .. created' - 1 -> DOMAIN blueprints']
  <2>1. calls'[1].entity = calls[1].entity
    <3>1. CASE n = 2
      BY <1>3, <1>6, <3>1
    <3>2. CASE n > 2
      BY <1>6, <3>2
    <3> QED BY <1>6, <3>1, <3>2
  <2> QED BY <1>7, <2>1 DEF Building
<1>17. ASSUME NEW k \in DOMAIN calls' PROVE OnTheWay(src, k)'
  <2>1. CASE k = n - 1
    <3>1. Len(grown) <= Len(blueprints[p.blueprint].children)
      <4>1. Len(blueprints[p.blueprint].children) \in Nat
        <5>1. p.blueprint \in DOMAIN blueprints
          BY <1>3, <1>6, <1>8 DEF TypeOK
        <5>2. blueprints[p.blueprint] \in Blueprint
          BY <1>6, <5>1, ElementOfSeq DEF TypeOK, WellFormed
        <5> QED BY <5>2 DEF Blueprint
      <4> QED BY <1>11, <1>13, <4>1
    <3>2. ~ (k < Len(calls'))
      BY <1>6, <2>1
    <3> QED BY <1>6, <1>7, <1>11, <1>15, <2>1, <3>1, <3>2 DEF OnTheWay
  <2>2. CASE k \in 1 .. n - 2
    <3>1. PICK f : f = calls[k]
      OBVIOUS
    <3>2. /\ k \in 1 .. n /\ k < n /\ k + 1 \in 1 .. n - 1
          /\ (k + 1 \in 1 .. n - 2 \/ k + 1 = n - 1)
      BY <1>6, <2>2
    <3>3. OnTheWay(src, k) /\ calls'[k] = f
      BY <1>6, <1>8, <2>2, <3>1, <3>2 DEF Building
    <3>4. /\ f.entity \in DOMAIN src /\ src[f.entity] = f.blueprint
          /\ Copied(src, f.children, f.blueprint)
          /\ Len(f.children) < Len(blueprints[f.blueprint].children)
          /\ Len(f.children) <= Len(blueprints[f.blueprint].children)
          /\ calls[k + 1].blueprint = blueprints[f.blueprint].children[Len(f.children) + 1]
      BY <1>1, <3>1, <3>2, <3>3 DEF OnTheWay
    <3>5. Copied(src, f.children, f.blueprint)'
      BY <1>14, <3>4
    <3>6. calls'[k + 1].blueprint = calls[k + 1].blueprint
      BY <1>3, <1>6, <3>2
    <3> QED BY <1>7, <3>3, <3>4, <3>5, <3>6 DEF OnTheWay
  <2>3. k = n - 1 \/ k \in 1 .. n - 2
    BY <1>6
  <2> QED BY <2>1, <2>2, <2>3
<1>18. ASSUME NEW x \in DOMAIN src PROVE HasPrototype(src, x)'
  BY <1>7, <1>18 DEF Building, HasPrototype
<1>19. ASSUME NEW x \in DOMAIN src
       PROVE  Active(x)' \/ (HasChildren(src, x)' /\ HasParent(src, x)')
  <2>1. CASE x = e
    <3>1. Copied(src, kids, src[e])'
      BY <1>10, <1>14
    <3>2. /\ e \in DOMAIN childrenOf' /\ childrenOf'[e] = kids
          /\ e \in DOMAIN parentOf' /\ parentOf'[e] = p.entity
      BY <1>6 DEF Put
    <3>3. HasChildren(src, e)'
      BY <1>7, <1>10, <3>1, <3>2 DEF HasChildren
    <3>4. HasParent(src, e)'
      BY <1>11, <3>2 DEF HasParent
    <3> QED BY <2>1, <3>3, <3>4
  <2>2. CASE x # e /\ Active(x)
    <3>1. PICK k \in 1 .. n : calls[k].entity = x
      BY <1>8, <2>2 DEF Active
    <3>2. k \in 1 .. n - 2 \/ k = n - 1
      BY <1>2, <1>6, <2>2, <3>1
    <3>3. k \in DOMAIN calls' /\ calls'[k].entity = x
      BY <1>3, <1>6, <3>1, <3>2
    <3> QED BY <3>3 DEF Active
  <2>3. CASE x # e /\ ~ Active(x)
    <3>1. HasChildren(src, x) /\ HasParent(src, x)
      BY <2>3 DEF Building
    <3>2. PICK s : s = childrenOf[x]
      OBVIOUS
    <3>3. Copied(src, s, src[x])'
      BY <1>14, <3>1, <3>2 DEF HasChildren
    <3>4. /\ x \in DOMAIN childrenOf' /\ childrenOf'[x] = s
          /\ x \in DOMAIN parentOf' /\ parentOf'[x] = parentOf[x]
      BY <1>6, <2>3, <3>1, <3>2 DEF Put, HasChildren, HasParent
    <3>5. HasChildren(src, x)'
      BY <1>7, <3>1, <3>2, <3>3, <3>4 DEF HasChildren
    <3>6. HasParent(src, x)'
      BY <3>1, <3>4 DEF HasParent
    <3> QED BY <3>5, <3>6
  <2> QED BY <2>1, <2>2, <2>3
<1> QED
  BY <1>16, <1>17, <1>18, <1>19 DEF Building

(* What one call of the loader has made when it returns: the entities it has  *)
(* created are a copy of the tree of its blueprint.                            *)
BuildsInstance ==
    ReturnRoot => \E root \in {calls[1].entity}, b \in {calls[1].blueprint} :
                      IsInstance(root, b)'

(* The outermost call returns: its entity is the root of what was built. *)
LEMMA ReturnRootBuilds ==
    ASSUME HierarchyInv, NEW src, Building(src), ReturnRoot
    PROVE  BuildsInstance
<1>1. PICK root : root = calls[1].entity
  OBVIOUS
<1>2. PICK b : b = calls[1].blueprint
  OBVIOUS
<1>3. PICK kids : kids = calls[1].children
  OBVIOUS
<1>4. /\ TypeOK /\ DOMAIN calls = 1 .. 1 /\ Len(calls) = 1
      /\ childrenOf' = Put(childrenOf, root, kids)
      /\ parentOf' = parentOf /\ created' = created
      /\ blueprints' = blueprints /\ componentsOf' = componentsOf
      /\ ~ ChildrenLeft(calls[1])
  BY <1>1, <1>3, CallFacts DEF HierarchyInv, ReturnRoot, Top
<1>5. /\ OnTheWay(src, 1)
      /\ kids \in Seq(0 .. created - 1) /\ b \in DOMAIN blueprints
  BY <1>2, <1>3, <1>4, CallFacts DEF Building, TypeOK
<1>6. /\ root \in DOMAIN src /\ src[root] = b
      /\ Copied(src, kids, b) /\ Len(kids) = Len(blueprints[b].children)
  <2>1. Len(blueprints[b].children) \in Nat
    <3>1. blueprints[b] \in Blueprint
      BY <1>4, <1>5, ElementOfSeq DEF TypeOK, WellFormed
    <3> QED BY <3>1 DEF Blueprint
  <2>2. Len(kids) \in Nat
    BY <1>5
  <2> QED BY <1>1, <1>2, <1>3, <1>4, <1>5, <2>1, <2>2 DEF OnTheWay, ChildrenLeft
<1>7. ASSUME NEW s, NEW d, Copied(src, s, d) PROVE Copied(src, s, d)'
  BY <1>4, <1>7 DEF Copied
<1>8. src \in [root .. created' - 1 -> DOMAIN blueprints']
  BY <1>1, <1>4 DEF Building
<1>9. ASSUME NEW e \in DOMAIN src
      PROVE  /\ HasPrototype(src, e)' /\ HasChildren(src, e)'
             /\ e # root => HasParent(src, e)'
  <2>1. HasPrototype(src, e)'
    BY <1>4, <1>9 DEF Building, HasPrototype
  <2>2. CASE e = root
    <3>1. root \in DOMAIN childrenOf' /\ childrenOf'[root] = kids
      BY <1>4 DEF Put
    <3>2. Copied(src, kids, b)'
      BY <1>6, <1>7
    <3>3. HasChildren(src, root)'
      BY <1>4, <1>6, <3>1, <3>2 DEF HasChildren
    <3> QED BY <2>1, <2>2, <3>3
  <2>3. CASE e # root
    <3>1. ~ Active(e)
      BY <1>1, <1>4, <2>3 DEF Active
    <3>2. HasChildren(src, e) /\ HasParent(src, e)
      BY <3>1 DEF Building
    <3>3. PICK s : s = childrenOf[e]
      OBVIOUS
    <3>4. Copied(src, s, src[e])'
      BY <1>7, <3>2, <3>3 DEF HasChildren
    <3>5. e \in DOMAIN childrenOf' /\ childrenOf'[e] = s
      BY <1>4, <2>3, <3>2, <3>3 DEF Put, HasChildren
    <3>6. HasChildren(src, e)'
      BY <1>4, <3>2, <3>3, <3>4, <3>5 DEF HasChildren
    <3>7. HasParent(src, e)'
      BY <1>4, <3>2 DEF HasParent
    <3> QED BY <2>1, <3>6, <3>7
  <2> QED BY <2>2, <2>3
<1>10. IsInstance(root, b)'
  BY <1>6, <1>8, <1>9 DEF IsInstance
<1> QED
  BY <1>1, <1>2, <1>10 DEF BuildsInstance

(* InstanceInv is inductive, given that HierarchyInv is. *)
THEOREM InstanceInductive == Spec => []InstanceInv
<1>1. Init => InstanceInv \/ ~ HierarchyInv
  BY DEF Init, FactoryInit, InstanceInv
<1>2. InstanceInv /\ HierarchyInv' /\ [Next]_factoryVars => InstanceInv'
  <2> SUFFICES ASSUME InstanceInv, HierarchyInv', [Next]_factoryVars, calls' # <<>>
               PROVE  \E src : Building(src)'
    BY DEF InstanceInv
  <2>1. ASSUME NEW b \in DOMAIN blueprints, InstantiateRoot(b)
        PROVE  \E src : Building(src)'
    BY <2>1, RootBuilding DEF InstantiateRoot, InstanceInv
  <2>2. CASE InstantiateChild
    <3>1. PICK src : Building(src)
      BY <2>2 DEF InstanceInv, InstantiateChild
    <3> QED BY <2>2, <3>1, ChildBuilding DEF InstanceInv
  <2>3. CASE ReturnChild
    <3>1. PICK src : Building(src)
      <4>1. calls # <<>>
        BY <2>3 DEF ReturnChild
      <4> QED BY <4>1 DEF InstanceInv
    <3> QED BY <2>3, <3>1, ReturnChildBuilding DEF InstanceInv
  <2>4. CASE ReturnRoot
    BY <2>4 DEF ReturnRoot
  <2>5. CASE LoaderStep
    BY <2>5 DEF LoaderStep
  <2>6. CASE UNCHANGED factoryVars
    <3>1. PICK src : Building(src)
      BY <2>6 DEF InstanceInv, factoryVars
    <3>2. Building(src)'
      BY <2>6, <3>1 DEF factoryVars, registry, Building, OnTheWay, Active,
                        HasPrototype, HasChildren, HasParent, Copied
    <3> QED BY <3>2
  <2> QED
    BY <2>1, <2>2, <2>3, <2>4, <2>5, <2>6 DEF Next
<1> QED
  BY <1>1, <1>2, HierarchyInductive, PTL DEF Spec

(* instantiate builds what its blueprint describes (Loader.cpp:257-271):       *)
(* whenever a call from the loader returns, the entities created since it      *)
(* began are exactly an image of the blueprint's tree - each with the          *)
(* components of its blueprint's prototype and with its children in the order  *)
(* of that blueprint's children, and each but the first with a Parent among    *)
(* them - for every heap of blueprints and at any depth.                       *)
THEOREM InstantiateBuildsItsBlueprint == Spec => [][BuildsInstance]_factoryVars
<1>1. InstanceInv /\ [Next]_factoryVars => [BuildsInstance]_factoryVars
  <2> SUFFICES ASSUME InstanceInv, ReturnRoot PROVE BuildsInstance
    BY DEF BuildsInstance
  <2>1. PICK src : Building(src)
    <3>1. calls # <<>>
      BY DEF ReturnRoot
    <3> QED BY <3>1 DEF InstanceInv
  <2> QED BY <2>1, ReturnRootBuilds DEF InstanceInv
<1> QED
  BY <1>1, InstanceInductive, PTL DEF Spec

=============================================================================
