--------------------------- MODULE MCEntityFactory ---------------------------
(* EntityFactory on every blueprint heap of three cells with at most two     *)
(* children each, instantiated in any order and any number of times until    *)
(* MaxEntities entities exist.                                               *)
EXTENDS EntityFactory

CONSTANT MaxEntities   \* no root call and no bare entity from here on

MCChildren(b) ==
    {<<>>} \cup {<<i>> : i \in 1 .. b - 1}
           \cup {<<i, j>> : i \in 1 .. b - 1, j \in 1 .. b - 1}

MCPrototype(v) == [c \in Component |-> v]

MCForests ==
    {<<[prototype |-> MCPrototype(NoValue), children |-> <<>>],
       [prototype |-> MCPrototype(v), children |-> k2],
       [prototype |-> MCPrototype(v), children |-> k3]>> :
        v \in Value, k2 \in MCChildren(2), k3 \in MCChildren(3)}

MCNext ==
    \/ created < MaxEntities /\ \E b \in DOMAIN blueprints : InstantiateRoot(b)
    \/ InstantiateChild
    \/ ReturnChild
    \/ ReturnRoot
    \/ created < MaxEntities /\ LoaderStep

MCSpec == Init /\ [][MCNext]_factoryVars
=============================================================================
