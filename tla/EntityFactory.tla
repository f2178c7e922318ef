---------------------------- MODULE EntityFactory ----------------------------
(***************************************************************************)
(* EntityLoader::instantiate (src/ecs/Loader.cpp:257-271): the recursive   *)
(* creation of registry entities from a blueprint tree, on the EnTT        *)
(* registry it writes to.                                                  *)
(*                                                                         *)
(* A blueprint (EntityBlueprint, include/ecs/Loader.h:11-14) is a cell of  *)
(* the heap `blueprints`: its prototype maps every component to the data   *)
(* it was set with, its children are the numbers of other cells.  The      *)
(* recursion is the explicit stack `calls`, one frame per active call.     *)
(* What the loader does between two top-level calls, create bare entities  *)
(* and build other blueprints, is LoaderStep.  A prototype keeps its        *)
(* components in an entity of its own, which it destroys when it goes: its  *)
(* id is never given again, EnTT reuses the index with another version.     *)
(***************************************************************************)
EXTENDS Blueprints

CONSTANT Forests   \* the blueprint heaps the loader may build

VARIABLES
    blueprints,    \* heap of EntityBlueprint: cell -> [prototype, children]
    created,       \* entities created so far, prototypes' own ones included:
                   \* their ids are 0 .. created-1
    componentsOf,  \* instantiated entity -> its components
    timeAware,     \* entity -> timeScale of its TimeAware component
    parentOf,      \* entity -> its Parent component
    childrenOf,    \* entity -> its Children component
    calls,         \* active instantiate calls, the innermost last
    alive          \* the process has not been aborted by a failed assertion

registry == <<created, componentsOf, timeAware, parentOf, childrenOf>>
factoryVars == <<blueprints, registry, calls, alive>>

Call == [blueprint : Nat \ {0}, entity : Nat, children : Seq(Nat)]

ASSUME ForestsAssumption == \A heap \in Forests : WellFormed(heap)

FactoryInit ==
    /\ created = 0
    /\ componentsOf = <<>>
    /\ timeAware = <<>>
    /\ parentOf = <<>>
    /\ childrenOf = <<>>
    /\ calls = <<>>
    /\ alive = TRUE

Init == FactoryInit /\ blueprints \in Forests

-----------------------------------------------------------------------------
(* Lines 260-262.  registry.assign<TimeAware>(1.0f) takes its first argument *)
(* for the entity: it gives entity 1 a value-initialised TimeAware.  When    *)
(* entity 1 does not exist (yet, or any more: it may be a prototype's), or   *)
(* has the component already, EnTT's precondition is violated: an assertion  *)
(* stops the process, or, with assertions compiled out, the component is     *)
(* stored all the same.  Which ids are those of prototypes still in use is   *)
(* not kept, so both outcomes are open unless entity 1 was instantiated.     *)
TimeAwareTarget == 1
DefaultTimeScale == 0

GiveTimeAware(entity) ==
    IF entity \in DOMAIN timeAware
    THEN UNCHANGED <<timeAware, alive>>
    ELSE \/ /\ timeAware' = Put(timeAware, TimeAwareTarget, DefaultTimeScale)
            /\ UNCHANGED alive
         \/ /\ \/ TimeAwareTarget \notin DOMAIN componentsOf \cup {entity}
               \/ TimeAwareTarget \in DOMAIN timeAware
            /\ alive' = FALSE
            /\ UNCHANGED timeAware

(* Variant: the call works with the id after the one create() returned. *)
EnterNextId(b) ==
    /\ created' = created + 1
    /\ componentsOf' = Put(componentsOf, created, blueprints[b].prototype)
    /\ GiveTimeAware(created)
    /\ calls' = Append(calls, [blueprint |-> b, entity |-> created + 1,
                               children |-> <<>>])
    /\ UNCHANGED <<blueprints, parentOf, childrenOf>>

(* Lines 259-263: the body of a call up to the loop over the children.  The  *)
(* prototype's create() makes a fresh entity with the prototype's components. *)
Enter(b) ==
    /\ created' = created + 1
    /\ componentsOf' = Put(componentsOf, created, blueprints[b].prototype)
    /\ GiveTimeAware(created)
    /\ calls' = Append(calls, [blueprint |-> b, entity |-> created,
                               children |-> <<>>])
    /\ UNCHANGED <<blueprints, parentOf, childrenOf>>

ChildrenLeft(call) ==
    Len(call.children) < Len(blueprints[call.blueprint].children)

(* A call from the loader (lines 65 and 216). *)
InstantiateRoot(b) ==
    /\ alive
    /\ calls = <<>>
    /\ b \in DOMAIN blueprints
    /\ Enter(b)

(* Lines 264-265: the recursive call for the next child blueprint. *)
InstantiateChild ==
    /\ alive
    /\ calls # <<>>
    /\ ChildrenLeft(Top(calls))
    /\ LET call == Top(calls)
       IN  Enter(blueprints[call.blueprint].children[Len(call.children) + 1])

(* Variants: the Parent is not assigned; Parent and child are swapped; the    *)
(* Children of the caller are assigned inside the loop.                       *)
ReturnChildNoParent ==
    /\ alive /\ Len(calls) > 1 /\ ~ ChildrenLeft(Top(calls))
    /\ childrenOf' = Put(childrenOf, Top(calls).entity, Top(calls).children)
    /\ calls' = Append(Pop(Pop(calls)), [Top(Pop(calls)) EXCEPT
                          !.children = Append(@, Top(calls).entity)])
    /\ UNCHANGED <<blueprints, created, componentsOf, timeAware, parentOf, alive>>

ReturnChildSwapped ==
    /\ alive /\ Len(calls) > 1 /\ ~ ChildrenLeft(Top(calls))
    /\ childrenOf' = Put(childrenOf, Top(calls).entity, Top(calls).children)
    /\ parentOf' = Put(parentOf, Top(Pop(calls)).entity, Top(calls).entity)
    /\ calls' = Append(Pop(Pop(calls)), [Top(Pop(calls)) EXCEPT
                          !.children = Append(@, Top(calls).entity)])
    /\ UNCHANGED <<blueprints, created, componentsOf, timeAware, alive>>

ReturnChildEager ==
    /\ alive /\ Len(calls) > 1 /\ ~ ChildrenLeft(Top(calls))
    /\ LET call   == Top(calls)
           caller == Top(Pop(calls))
           kids   == Append(caller.children, call.entity)
       IN  /\ childrenOf' = Put(Put(childrenOf, call.entity, call.children),
                                caller.entity, kids)
           /\ parentOf' = Put(parentOf, call.entity, caller.entity)
           /\ calls' = Append(Pop(Pop(calls)), [caller EXCEPT !.children = kids])
    /\ UNCHANGED <<blueprints, created, componentsOf, timeAware, alive>>

(* Lines 269-270 of the innermost call, then 266-267 of its caller. *)
ReturnChild ==
    /\ alive
    /\ Len(calls) > 1
    /\ ~ ChildrenLeft(Top(calls))
    /\ LET call   == Top(calls)
           caller == Top(Pop(calls))
       IN  /\ childrenOf' = Put(childrenOf, call.entity, call.children)
           /\ parentOf' = Put(parentOf, call.entity, caller.entity)
           /\ calls' = Append(Pop(Pop(calls)),
                              [caller EXCEPT !.children = Append(@, call.entity)])
    /\ UNCHANGED <<blueprints, created, componentsOf, timeAware, alive>>

(* Lines 269-270 of a call made by the loader, which drops the entity id. *)
ReturnRoot ==
    /\ alive
    /\ Len(calls) = 1
    /\ ~ ChildrenLeft(Top(calls))
    /\ childrenOf' = Put(childrenOf, Top(calls).entity, Top(calls).children)
    /\ calls' = <<>>
    /\ UNCHANGED <<blueprints, created, componentsOf, timeAware, parentOf, alive>>

Instantiating == InstantiateChild \/ ReturnChild \/ ReturnRoot

(* Between two calls the loader creates bare entities (line 110), builds     *)
(* other blueprints with the entities of their prototypes (lines 112, 223,   *)
(* 251), or brings the process down (line 253 on an empty vector).           *)
LoaderStep ==
    /\ alive
    /\ calls = <<>>
    /\ created' \in created .. created + 2
    /\ blueprints' \in Forests
    /\ alive' \in BOOLEAN
    /\ UNCHANGED <<componentsOf, timeAware, parentOf, childrenOf, calls>>

Next ==
    \/ \E b \in DOMAIN blueprints : InstantiateRoot(b)
    \/ InstantiateChild
    \/ ReturnChild
    \/ ReturnRoot
    \/ LoaderStep

Spec == Init /\ [][Next]_factoryVars

-----------------------------------------------------------------------------
(* Every variable has its type; the heap is the one thing whose type says    *)
(* more: children are cells that were built before their parent.             *)
TypeOK ==
    /\ WellFormed(blueprints)
    /\ created \in Nat
    /\ DOMAIN componentsOf \subseteq 0 .. created - 1
    /\ \A e \in DOMAIN componentsOf : componentsOf[e] \in Prototype
    /\ DOMAIN timeAware \subseteq {TimeAwareTarget}
    /\ \A e \in DOMAIN timeAware : timeAware[e] \in Nat
    /\ DOMAIN parentOf \subseteq 0 .. created - 1
    /\ \A e \in DOMAIN parentOf : parentOf[e] \in 0 .. created - 1
    /\ DOMAIN childrenOf \subseteq 0 .. created - 1
    /\ \A e \in DOMAIN childrenOf : childrenOf[e] \in Seq(0 .. created - 1)
    /\ calls \in Seq(Call)
    /\ \A k \in DOMAIN calls :
          /\ calls[k].blueprint \in DOMAIN blueprints
          /\ calls[k].entity < created
          /\ calls[k].children \in Seq(0 .. created - 1)
    /\ alive \in BOOLEAN

(* Whenever no instantiate call is active, the Parent and the Children       *)
(* components written by lines 266-269 describe the same tree: an entity's    *)
(* Children are exactly the entities whose Parent it is.                      *)
HierarchyConsistent ==
    calls = <<>> =>
        \A p \in DOMAIN childrenOf \cup {parentOf[c] : c \in DOMAIN parentOf} :
            /\ p \in DOMAIN childrenOf
            /\ Members(childrenOf[p]) =
                   {c \in DOMAIN parentOf : parentOf[c] = p}

(* The hierarchy is a forest whose edges go from older to newer entities, and *)
(* no entity is listed twice among the Children of its parent, at every       *)
(* moment of the recursion (lines 264-268).                                   *)
HierarchyIsForest ==
    /\ \A c \in DOMAIN parentOf : parentOf[c] < c
    /\ \A p \in DOMAIN childrenOf : \A i, j \in DOMAIN childrenOf[p] :
          i < j => childrenOf[p][i] < childrenOf[p][j]

(* registry.assign requires that the entity does not have the component yet:  *)
(* Parent and Children (lines 266 and 269) are assigned at most once, so a     *)
(* component an entity has is never replaced or lost.                          *)
AssignedOnce ==
    /\ \A e \in DOMAIN parentOf :
          e \in DOMAIN parentOf' /\ parentOf'[e] = parentOf[e]
    /\ \A e \in DOMAIN childrenOf :
          e \in DOMAIN childrenOf' /\ childrenOf'[e] = childrenOf[e]

HierarchyNeverRewritten == [][AssignedOnce]_factoryVars

-----------------------------------------------------------------------------
(* The inductive strengthening of the two invariants: what the active calls   *)
(* have done so far.                                                          *)

(* Active calls work on distinct, ever newer entities that have no hierarchy  *)
(* component yet.                                                             *)
ActiveEntitiesFresh ==
    \A k \in DOMAIN calls :
        /\ calls[k].entity \notin DOMAIN childrenOf
        /\ calls[k].entity \notin DOMAIN parentOf
        /\ \A m \in DOMAIN calls : k < m => calls[k].entity < calls[m].entity

(* The children collected by an active call have it as Parent, in the order   *)
(* of their creation, and are older than the entities of the inner calls.     *)
CollectedChildren ==
    \A k \in DOMAIN calls : \A i \in DOMAIN calls[k].children :
        /\ calls[k].children[i] \in DOMAIN parentOf
        /\ parentOf[calls[k].children[i]] = calls[k].entity
        /\ \A j \in DOMAIN calls[k].children :
              i < j => calls[k].children[i] < calls[k].children[j]
        /\ \A m \in DOMAIN calls :
              k < m => calls[k].children[i] < calls[m].entity

(* Down: the Children of an entity have it as Parent. *)
ChildrenHaveParent ==
    \A p \in DOMAIN childrenOf : \A i \in DOMAIN childrenOf[p] :
        /\ childrenOf[p][i] \in DOMAIN parentOf
        /\ parentOf[childrenOf[p][i]] = p

(* Up: an entity with a Parent is among its Children, or among the children   *)
(* an active call has collected for it.                                       *)
ParentHasChild ==
    \A c \in DOMAIN parentOf :
        \/ /\ parentOf[c] \in DOMAIN childrenOf
           /\ \E i \in DOMAIN childrenOf[parentOf[c]] :
                 childrenOf[parentOf[c]][i] = c
        \/ \E k \in DOMAIN calls :
              /\ calls[k].entity = parentOf[c]
              /\ \E i \in DOMAIN calls[k].children : calls[k].children[i] = c

HierarchyInv ==
    /\ TypeOK
    /\ ActiveEntitiesFresh
    /\ CollectedChildren
    /\ ChildrenHaveParent
    /\ ParentHasChild
    /\ HierarchyIsForest

=============================================================================
