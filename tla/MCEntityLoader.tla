--------------------------- MODULE MCEntityLoader ---------------------------
(***************************************************************************)
(* EntityLoader on a family of small documents, and a reference: what the  *)
(* registry holds in the end, computed from the document alone.  The       *)
(* reference states the loader's rules, which depart from docs.md in three *)
(* places; each is an operator of its own and is named there.              *)
(*                                                                         *)
(* Documents: a scene file with two nodes nA and nB, nA with a child nC;    *)
(* a template file with root nT; and a second scene with the node nB.      *)
(* Every node takes every type, and at most one key of one node is missing *)
(* or malformed.                                                           *)
(***************************************************************************)
EXTENDS EntityLoader, TLC

CONSTANTS nA, nB, nC, nT,               \* nodes
          scene1, scene2, tmpl,     \* files
          own, shared               \* components

Intact == [n \in Node |-> [k \in Key |-> "asked"]]

Flawed ==
    {Intact} \cup
    {[Intact EXCEPT ![n][k] = state] :
        n \in Node, k \in Key, state \in {"absent", "other"}}

Document(types, keys, copies, files) ==
    [scenes     |-> <<scene1, scene2>>,
     readable   |-> files,
     scene      |-> scene1 :> <<nA, nB>> @@ scene2 :> <<nB>> @@ tmpl :> <<>>,
     template   |-> scene1 :> NoNode @@ scene2 :> NoNode @@ tmpl :> nT,
     name       |-> nA :> "x" @@ nB :> "y" @@ nC :> "y" @@ nT :> "z",
     type       |-> types,
     key        |-> keys,
     children   |-> nA :> <<nC>> @@ nB :> <<>> @@ nC :> <<>> @@ nT :> <<>>,
     components |-> [n \in Node |-> IF n = nC THEN {own, shared} ELSE {own}],
     defaults   |-> [n \in Node |-> {shared}],
     source     |-> [n \in Node |-> tmpl],
     instances  |-> [n \in Node |-> copies]]

Types(as, bs, cs, ts) ==
    {nA :> x @@ nB :> y @@ nC :> z @@ nT :> w : x \in as, y \in bs, z \in cs, w \in ts}

MCDocuments ==
    LET three == {"group", "entity", "template"}
        types == Types(three, {"entity", "template", "other"}, three,
                       {"entity", "template", "group"})
    IN  {Document(types1, keys, 2, File) : types1 \in types, keys \in Flawed}
        \cup {Document(types1, Intact, 0, File) : types1 \in types}
        \cup {Document(types1, Intact, 1, files) :
                 types1 \in types, files \in {{scene1, scene2}, {scene2, tmpl}}}

-----------------------------------------------------------------------------
(* The reference.  Tree: an entity with its components and its children.     *)
Tree(prototype, kids) == [prototype |-> prototype, kids |-> kids]

(* First departure: docs.md:100 and 121 call the comment optional and show    *)
(* entities without children; the loader raises an exception for a key that   *)
(* is absent (the run loader_shipped_scene).                                  *)
Missing(n, keys) ==
    \E k \in keys \cup (IF DebugBuild THEN {"comment"} ELSE {}) : Lacks(n, k)

(* The node loads without an exception... *)
RECURSIVE Loads(_)
Loads(n) ==
    LET kids == Asked(n, "children") =>
                    \A i \in DOMAIN yaml.children[n] : Loads(yaml.children[n][i])
    IN  CASE yaml.type[n] = "other"    -> TRUE
          [] yaml.type[n] = "entity"   -> ~ Missing(n, {"components", "children"}) /\ kids
          [] yaml.type[n] = "group"    ->
                /\ ~ Missing(n, {"children"}) /\ kids
                /\ Asked(n, "children") => ~ Lacks(n, "defaults")
          [] yaml.type[n] = "template" ->
                \/ yaml.key[n]["source"] = "other"
                \/ /\ ~ Missing(n, {"source", "children", "instances"})
                   /\ yaml.source[n] \in yaml.readable
                   /\ kids

(* Second departure: docs.md:164 has the entity of the source file in place   *)
(* of the template node; the loader has one without components and with the   *)
(* children of the template node only (the run loader_template_source).       *)
TemplateTree(kids) == Tree(Empty, kids)

(* ... and stands for these trees in the scene. *)
RECURSIVE Trees(_), AllTrees(_)
AllTrees(nodes) ==
    IF nodes = <<>> THEN <<>> ELSE Trees(Head(nodes)) \o AllTrees(Tail(nodes))
Trees(n) ==
    LET kids == IF Asked(n, "children") THEN AllTrees(yaml.children[n]) ELSE <<>>
        WithDefaults(tree) ==
            IF Asked(n, "defaults")
            THEN [tree EXCEPT !.prototype =
                     [x \in Component |-> IF x \in yaml.defaults[n] THEN n ELSE @[x]]]
            ELSE tree
    IN  CASE yaml.type[n] = "other"    -> <<>>
          [] yaml.type[n] = "entity"   -> <<Tree(OwnComponents(n), kids)>>
          [] yaml.type[n] = "group"    -> [i \in DOMAIN kids |-> WithDefaults(kids[i])]
          [] yaml.type[n] = "template" ->
                <<TemplateTree(IF Asked(n, "source") THEN kids ELSE <<>>)>>

(* The trees instantiated on the way, until the first exception. *)
RECURSIVE Copies(_), AllCopies(_)
AllCopies(nodes) ==
    IF nodes = <<>> THEN <<>>
    ELSE Copies(Head(nodes)) \o
         (IF Loads(Head(nodes)) THEN AllCopies(Tail(nodes)) ELSE <<>>)
Copies(n) ==
    LET kids == IF Asked(n, "children") THEN AllCopies(yaml.children[n]) ELSE <<>>
    IN  CASE yaml.type[n] = "entity" /\ ~ Missing(n, {"components", "children"}) -> kids
          [] yaml.type[n] = "group" /\ ~ Missing(n, {"children"}) -> kids
          [] yaml.type[n] = "template" /\ Asked(n, "source") /\ ~ Missing(n, {})
             /\ yaml.source[n] \in yaml.readable ->
                Copies(TemplateRoot(n)) \o kids \o
                (IF Loads(n) /\ Asked(n, "instances")
                 THEN [i \in 1 .. yaml.instances[n] |-> Trees(n)[1]] ELSE <<>>)
          [] OTHER -> <<>>

(* Third departure: docs.md:165 has one tree for each instance listed and     *)
(* none for the template node itself; the loader has both, Copies and Trees,  *)
(* so that n instances are n + 1 trees.                                       *)
SceneTrees(f) ==
    AllCopies(yaml.scene[f]) \o
    (IF \A i \in DOMAIN yaml.scene[f] : Loads(yaml.scene[f][i])
     THEN AllTrees(yaml.scene[f]) ELSE <<>>)

RECURSIVE ScenesTrees(_)
ScenesTrees(files) ==
    IF files = <<>> THEN <<>> ELSE SceneTrees(Head(files)) \o ScenesTrees(Tail(files))

(* What the registry holds: the tree below an entity, and the roots in the   *)
(* order of their creation.                                                  *)
RECURSIVE Below(_)
Below(e) == Tree(componentsOf[e],
                 [i \in DOMAIN childrenOf[e] |-> Below(childrenOf[e][i])])

RECURSIVE Roots(_)
Roots(n) ==
    IF n = created THEN <<>>
    ELSE (IF n \in DOMAIN childrenOf \ DOMAIN parentOf THEN <<Below(n)>> ELSE <<>>)
         \o Roots(n + 1)

=============================================================================
