---------------------------- MODULE EntityLoader ----------------------------
(***************************************************************************)
(* EntityLoader::load and the functions it is made of                      *)
(* (src/ecs/Loader.cpp:36-255): scene and template files become            *)
(* blueprints, blueprints become entities (EntityFactory).                 *)
(*                                                                         *)
(* The mutually recursive functions are frames of `stack`, the innermost   *)
(* last; `ret` is what the function that just ended hands to its caller: a *)
(* vector of blueprints, or an exception on its way to the next            *)
(* Config::make_parser, whose catch (...) swallows it                      *)
(* (include/util/Config.h:57-61).  A const YAML::Node returns an invalid   *)
(* node for a key it does not have, and asking an invalid node for its     *)
(* type throws: that is how a missing key becomes an exception.            *)
(***************************************************************************)
EXTENDS Blueprints

CONSTANTS
    Node,         \* YAML nodes of all files, the component data among them
    File,         \* files
    Name,         \* node names
    NoName,       \* "no name yet"
    Documents,    \* the file contents to load (see DocumentType)
    DebugBuild,   \* DEBUG_BUILD is defined: "comment" is read as well
    MaxDepth      \* bound: a template nested deeper overflows the C++ stack

NoNode == NoValue

ASSUME LoaderAssumption ==
    /\ Node \subseteq Value
    /\ DebugBuild \in BOOLEAN
    /\ MaxDepth \in Nat

VARIABLES
    yaml,       \* the files
    pending,    \* load(): scene files still to be loaded
    stack,      \* active loader functions, the innermost last
    ret,        \* result of the function that just ended
    entities,   \* EntityLoader::entities: node name -> entity
    phase,      \* load() is running, has returned, or has thrown
    blueprints, created, componentsOf, timeAware, parentOf, childrenOf, calls,
    alive

loaderVars == <<yaml, pending, stack, ret, entities, phase>>
registryVars == <<componentsOf, timeAware, parentOf, childrenOf>>
vars == <<loaderVars, blueprints, created, registryVars, calls, alive>>

Factory == INSTANCE EntityFactory
           WITH Forests <- {heap \in Seq(Blueprint) : WellFormed(heap)}

(* Keys of a node.  A key is absent, has a value of the kind the code asks   *)
(* for (a map, a sequence or a scalar), or a value of another kind.          *)
Key == {"comment", "components", "children", "defaults", "source", "instances"}
KeyState == {"absent", "asked", "other"}

(* type "other": no type, an unknown type, or a node that is not a map. *)
NodeType == {"group", "entity", "template", "other"}

DocumentType ==
    [scenes     : Seq(File),                  \* game.scenes[].source
     readable   : SUBSET File,                \* opens and is valid YAML
     scene      : [File -> Seq(Node)],        \* nodes of the file's "scene" map
     template   : [File -> Node \cup {NoNode}],  \* its "template" map, if any
     name       : [Node -> Name],
     type       : [Node -> NodeType],
     key        : [Node -> [Key -> KeyState]],
     children   : [Node -> Seq(Node)],
     components : [Node -> SUBSET Component],
     defaults   : [Node -> SUBSET Component],
     source     : [Node -> File],
     instances  : [Node -> Nat]]

ASSUME DocumentsAssumption == Documents \subseteq DocumentType

Function == {"sceneFile", "scene", "entity", "group", "template", "templateFile"}

Frame == [fn   : Function,
          node : Node \cup {NoNode},
          name : Name \cup {NoName},
          pc   : {"enter", "file", "children", "instances"},
          todo : Seq(Node),          \* scene: nodes still to be visited
          out  : Seq(Nat \ {0}),     \* blueprints collected, or to instantiate
          left : Nat]                \* template: instances still to be made

Result == [tag : {"none", "value", "thrown"}, blueprints : Seq(Nat \ {0})]

NoResult == [tag |-> "none", blueprints |-> <<>>]
Thrown == [tag |-> "thrown", blueprints |-> <<>>]
Returned(bs) == [tag |-> "value", blueprints |-> bs]

Invoke(fn, node, name, todo) ==
    [fn |-> fn, node |-> node, name |-> name, pc |-> "enter",
     todo |-> todo, out |-> <<>>, left |-> 0]

Init ==
    /\ yaml \in Documents
    /\ pending = yaml.scenes
    /\ stack = <<>>
    /\ ret = NoResult
    /\ entities = <<>>
    /\ phase = "loading"
    /\ blueprints = <<>>
    /\ Factory!FactoryInit

-----------------------------------------------------------------------------
(* Control: which function runs next, and how it calls, returns and throws.  *)

Running == alive /\ phase = "loading" /\ calls = <<>>

(* The innermost function is fn; it was just called or is in a loop, has the *)
(* result of a call, or gets an exception.                                   *)
In(fn)      == Running /\ stack # <<>> /\ Top(stack).fn = fn /\ ret.tag = "none"
Resumed(fn) == Running /\ stack # <<>> /\ Top(stack).fn = fn /\ ret.tag = "value"
Threw(fn)   == Running /\ stack # <<>> /\ Top(stack).fn = fn /\ ret.tag = "thrown"

Caller == Top(stack)
CallFrom(frame, callee) ==
    stack' = Append(Append(Pop(stack), frame), callee) /\ ret' = NoResult
Continue(frame) == stack' = Append(Pop(stack), frame) /\ ret' = NoResult
Return(bs) == stack' = Pop(stack) /\ ret' = Returned(bs)
Throw == stack' = Pop(stack) /\ ret' = Thrown

Lacks(n, k) == yaml.key[n][k] = "absent"
Asked(n, k) == yaml.key[n][k] = "asked"
LacksComment(n) == DebugBuild /\ Lacks(n, "comment")

(* The prototype with the data of node n for the components cs. *)
Holding(n, cs) == [c \in Component |-> IF c \in cs THEN n ELSE NoValue]
Empty == Holding(NoNode, {})
OwnComponents(n) ==
    Holding(n, IF Asked(n, "components") THEN yaml.components[n] ELSE {})

NewBlueprint(prototype, children) ==
    blueprints' = Append(blueprints, [prototype |-> prototype, children |-> children])
NewCell == Len(blueprints) + 1

UnchangedWorld == UNCHANGED <<yaml, entities, phase, registryVars, calls>>

-----------------------------------------------------------------------------
(* load (lines 36-58) and loadScene(file) (lines 60-71). *)

LoadNextScene ==
    /\ Running /\ stack = <<>> /\ pending # <<>>
    /\ Head(pending) \in yaml.readable
    /\ pending' = Tail(pending)
    /\ stack' = <<Invoke("sceneFile", NoNode, NoName, <<>>),
                  Invoke("scene", NoNode, NoName, yaml.scene[Head(pending)])>>
    /\ UNCHANGED <<ret, blueprints, created, alive>> /\ UnchangedWorld

(* The file is read and parsed outside the parser: nothing catches. *)
LoadUnreadableScene ==
    /\ Running /\ stack = <<>> /\ pending # <<>>
    /\ Head(pending) \notin yaml.readable
    /\ phase' = "threw"
    /\ UNCHANGED <<yaml, pending, stack, ret, entities, blueprints, created,
                   registryVars, calls, alive>>

(* Variant: load returns once the last scene file was opened. *)
LoadDoneEarly ==
    /\ Running /\ pending = <<>>
    /\ phase' = "done"
    /\ UNCHANGED <<yaml, pending, stack, ret, entities, blueprints, created,
                   registryVars, calls, alive>>

LoadDone ==
    /\ Running /\ stack = <<>> /\ pending = <<>>
    /\ phase' = "done"
    /\ UNCHANGED <<yaml, pending, stack, ret, entities, blueprints, created,
                   registryVars, calls, alive>>

SceneLoaded ==
    /\ Resumed("sceneFile")
    /\ Continue([Caller EXCEPT !.out = ret.blueprints])
    /\ UNCHANGED <<pending, blueprints, created, alive>> /\ UnchangedWorld

(* Variant: the parser lets the exception through. *)
SceneRethrown ==
    /\ Threw("sceneFile")
    /\ stack' = <<>> /\ ret' = NoResult
    /\ phase' = "threw"
    /\ UNCHANGED <<yaml, pending, entities, blueprints, created, registryVars,
                   calls, alive>>

(* An exception from anywhere below: the parser drops it, and with it every *)
(* blueprint of the scene.                                                  *)
SceneSwallowed ==
    /\ Threw("sceneFile")
    /\ stack' = Pop(stack) /\ ret' = NoResult
    /\ UNCHANGED <<pending, blueprints, created, alive>> /\ UnchangedWorld

InstantiateScene ==
    /\ In("sceneFile") /\ Caller.out # <<>>
    /\ Continue([Caller EXCEPT !.out = Tail(@)])
    /\ Factory!InstantiateRoot(Head(Caller.out))
    /\ UNCHANGED <<yaml, pending, entities, phase>>

SceneFileDone ==
    /\ In("sceneFile") /\ Caller.out = <<>>
    /\ stack' = Pop(stack) /\ ret' = NoResult
    /\ UNCHANGED <<pending, blueprints, created, alive>> /\ UnchangedWorld

-----------------------------------------------------------------------------
(* loadScene(node) (lines 73-106). *)

VisitNode ==
    /\ In("scene") /\ Caller.todo # <<>>
    /\ LET n    == Head(Caller.todo)
           rest == [Caller EXCEPT !.todo = Tail(@)]
       IN  IF yaml.type[n] = "other"
           THEN Continue(rest)
           ELSE CallFrom(rest, Invoke(yaml.type[n], n, yaml.name[n], <<>>))
    /\ UNCHANGED <<pending, blueprints, created, alive>> /\ UnchangedWorld

SceneCollect ==
    /\ Resumed("scene")
    /\ Continue([Caller EXCEPT !.out = @ \o ret.blueprints])
    /\ UNCHANGED <<pending, blueprints, created, alive>> /\ UnchangedWorld

SceneReturn ==
    /\ In("scene") /\ Caller.todo = <<>>
    /\ Return(Caller.out)
    /\ UNCHANGED <<pending, blueprints, created, alive>> /\ UnchangedWorld

-----------------------------------------------------------------------------
(* loadEntity (lines 108-148): a registry entity is created and named first; *)
(* the entity of the blueprint is another one, created by instantiate.       *)

(* Variant: the map takes the last entity of a name (operator[]). *)
Overwrite(name) == entities' = Put(entities, name, created)

(* The map keeps the first entity of a name (emplace). *)
Emplace(name) ==
    entities' = IF name \in DOMAIN entities THEN entities
                ELSE Put(entities, name, created)

(* entt::DefaultPrototype(registry) creates an entity of its own. *)
NewPrototype == created' = created + 1

(* registry.create() and the prototype (lines 110-112), and a variant that   *)
(* names an entity nobody creates.                                           *)
CreateUnowned == UNCHANGED created
Create == created' = created + 2

LoadEntity ==
    /\ In("entity")
    /\ Create
    /\ Emplace(Caller.name)
    /\ LET n == Caller.node
       IN  \/ /\ LacksComment(n) \/ Lacks(n, "components") \/ Lacks(n, "children")
              /\ Throw
              /\ UNCHANGED blueprints
           \/ /\ ~ (LacksComment(n) \/ Lacks(n, "components"))
              /\ Asked(n, "children")
              /\ CallFrom(Caller, Invoke("scene", NoNode, NoName, yaml.children[n]))
              /\ UNCHANGED blueprints
           \/ /\ ~ (LacksComment(n) \/ Lacks(n, "components"))
              /\ yaml.key[n]["children"] = "other"
              /\ NewBlueprint(OwnComponents(n), <<>>)
              /\ Return(<<NewCell>>)
    /\ UNCHANGED <<yaml, pending, phase, registryVars, calls, alive>>

(* Variant: the blueprint is put among its own children. *)
EntityOwnChild ==
    /\ Resumed("entity")
    /\ NewBlueprint(OwnComponents(Caller.node), Append(ret.blueprints, NewCell))
    /\ Return(<<NewCell>>)
    /\ UNCHANGED <<pending, created, alive>> /\ UnchangedWorld

EntityChildrenLoaded ==
    /\ Resumed("entity")
    /\ NewBlueprint(OwnComponents(Caller.node), ret.blueprints)
    /\ Return(<<NewCell>>)
    /\ UNCHANGED <<pending, created, alive>> /\ UnchangedWorld

-----------------------------------------------------------------------------
(* loadGroup (lines 150-185). *)

LoadGroup ==
    /\ In("group")
    /\ LET n == Caller.node
       IN  \/ /\ LacksComment(n) \/ Lacks(n, "children")
              /\ Throw
           \/ /\ ~ LacksComment(n) /\ Asked(n, "children")
              /\ CallFrom(Caller, Invoke("scene", NoNode, NoName, yaml.children[n]))
           \/ /\ ~ LacksComment(n) /\ yaml.key[n]["children"] = "other"
              /\ Return(<<>>)
    /\ UNCHANGED <<pending, blueprints, created, alive>> /\ UnchangedWorld


(* Lines 166-182: the defaults are set on the prototypes of the group's      *)
(* blueprints, over whatever the member set itself.                          *)
SetDefaults(n, bs) ==
    [b \in DOMAIN blueprints |->
        IF b \in Members(bs)
        THEN [blueprints[b] EXCEPT !.prototype =
                 [c \in Component |-> IF c \in yaml.defaults[n] THEN n ELSE @[c]]]
        ELSE blueprints[b]]

GroupChildrenLoaded ==
    /\ Resumed("group")
    /\ LET n == Caller.node
       IN  \/ /\ Lacks(n, "defaults")
              /\ Throw
              /\ UNCHANGED blueprints
           \/ /\ ~ Lacks(n, "defaults")
              /\ blueprints' = IF Asked(n, "defaults")
                               THEN SetDefaults(n, ret.blueprints) ELSE blueprints
              /\ Return(ret.blueprints)
    /\ UNCHANGED <<pending, created, alive>> /\ UnchangedWorld

-----------------------------------------------------------------------------
(* loadTemplate(name, node) (lines 187-225). *)

LoadTemplate ==
    /\ In("template") /\ Caller.pc = "enter"
    /\ LET n == Caller.node
       IN  \/ /\ \/ Lacks(n, "source")
                 \/ Asked(n, "source") /\ LacksComment(n)
              /\ Throw
              /\ UNCHANGED <<blueprints, created, alive>>
           \/ /\ Asked(n, "source") /\ ~ LacksComment(n)
              /\ Len(stack) < MaxDepth
              /\ CallFrom([Caller EXCEPT !.pc = "file"],
                          Invoke("templateFile", n, Caller.name, <<>>))
              /\ UNCHANGED <<blueprints, created, alive>>
           \/ /\ Asked(n, "source") /\ ~ LacksComment(n)
              /\ Len(stack) >= MaxDepth
              /\ alive' = FALSE
              /\ UNCHANGED <<stack, ret, blueprints, created>>
           \/ /\ yaml.key[n]["source"] = "other"
              /\ NewBlueprint(Empty, <<>>)
              /\ NewPrototype
              /\ Return(<<NewCell>>)
              /\ UNCHANGED alive
    /\ UNCHANGED pending /\ UnchangedWorld

(* Lines 211-218 up to the loop over the instances. *)
StartInstances(n, b) ==
    IF Lacks(n, "instances") THEN Throw
    ELSE Continue([Caller EXCEPT
             !.pc = "instances", !.out = <<b>>,
             !.left = IF Asked(n, "instances") THEN yaml.instances[n] ELSE 0])

(* Line 205: the blueprint of the source file is there, now the children. *)
TemplateFileLoaded ==
    /\ Resumed("template") /\ Caller.pc = "file"
    /\ LET n == Caller.node
           b == Head(ret.blueprints)
       IN  \/ /\ Lacks(n, "children")
              /\ Throw
           \/ /\ Asked(n, "children")
              /\ CallFrom([Caller EXCEPT !.pc = "children", !.out = <<b>>],
                          Invoke("scene", NoNode, NoName, yaml.children[n]))
           \/ /\ yaml.key[n]["children"] = "other"
              /\ StartInstances(n, b)
    /\ UNCHANGED <<pending, blueprints, created, alive>> /\ UnchangedWorld

(* Lines 207-208: the children are appended to those of the blueprint. *)
TemplateChildrenLoaded ==
    /\ Resumed("template") /\ Caller.pc = "children"
    /\ LET source == blueprints[Head(Caller.out)]
       IN  NewBlueprint(source.prototype, source.children \o ret.blueprints)
    /\ StartInstances(Caller.node, NewCell)
    /\ UNCHANGED <<pending, created, alive>> /\ UnchangedWorld

(* Line 216: an instance is made while the scene is still being loaded. *)
InstantiateTemplate ==
    /\ In("template") /\ Caller.pc = "instances" /\ Caller.left > 0
    /\ Continue([Caller EXCEPT !.left = @ - 1])
    /\ Factory!InstantiateRoot(Head(Caller.out))
    /\ UNCHANGED <<yaml, pending, entities, phase>>

TemplateReturn ==
    /\ In("template") /\ Caller.pc = "instances" /\ Caller.left = 0
    /\ Return(Caller.out)
    /\ UNCHANGED <<pending, blueprints, created, alive>> /\ UnchangedWorld

-----------------------------------------------------------------------------
(* loadTemplate(file, name) (lines 227-255). *)

TemplateRoot(n) == yaml.template[yaml.source[n]]
HasTemplate(n) ==
    TemplateRoot(n) # NoNode /\ yaml.type[TemplateRoot(n)] \in {"entity", "template"}

LoadTemplateFile ==
    /\ In("templateFile")
    /\ LET n == Caller.node
       IN  \/ /\ yaml.source[n] \notin yaml.readable
              /\ Throw
           \/ /\ yaml.source[n] \in yaml.readable /\ HasTemplate(n)
              /\ CallFrom(Caller, Invoke(yaml.type[TemplateRoot(n)], TemplateRoot(n),
                                         Caller.name, <<>>))
    /\ UNCHANGED <<pending, blueprints, created, alive>> /\ UnchangedWorld

(* Lines 249-251: a blueprint was loaded, so an empty one is returned. *)
TemplateFileParsed ==
    /\ Resumed("templateFile")
    /\ NewBlueprint(Empty, <<>>)
    /\ NewPrototype
    /\ Return(<<NewCell>>)
    /\ UNCHANGED <<pending, alive>> /\ UnchangedWorld

(* Line 253: none was loaded, so the first element of an empty vector is     *)
(* moved from: a read through a null pointer.                                *)
TemplateFileCrash ==
    /\ \/ /\ In("templateFile")
          /\ yaml.source[Caller.node] \in yaml.readable
          /\ ~ HasTemplate(Caller.node)
       \/ Threw("templateFile")
    /\ alive' = FALSE
    /\ UNCHANGED <<pending, stack, ret, blueprints, created>> /\ UnchangedWorld

(* A function without a parser of its own lets an exception through. *)
Unwind ==
    /\ \E fn \in {"scene", "entity", "group", "template"} : Threw(fn)
    /\ Throw
    /\ UNCHANGED <<pending, blueprints, created, alive>> /\ UnchangedWorld

(* instantiate at work (EntityFactory). *)
FactoryStep ==
    /\ Factory!Instantiating
    /\ UNCHANGED loaderVars

Next ==
    \/ LoadNextScene \/ LoadUnreadableScene \/ LoadDone
    \/ SceneLoaded \/ SceneSwallowed \/ InstantiateScene \/ SceneFileDone
    \/ VisitNode \/ SceneCollect \/ SceneReturn
    \/ LoadEntity \/ EntityChildrenLoaded
    \/ LoadGroup \/ GroupChildrenLoaded
    \/ LoadTemplate \/ TemplateFileLoaded \/ TemplateChildrenLoaded
    \/ InstantiateTemplate \/ TemplateReturn
    \/ LoadTemplateFile \/ TemplateFileParsed \/ TemplateFileCrash
    \/ Unwind \/ FactoryStep

(* One thread runs the loader; the process is scheduled. *)
Spec == Init /\ [][Next]_vars /\ WF_vars(Next)

-----------------------------------------------------------------------------
Cell == 1 .. Len(blueprints)

(* Every variable has its type; results and frames only name blueprints that *)
(* exist, and the frames nest as the calls in the source do.                 *)
TypeOK ==
    /\ yaml \in DocumentType
    /\ pending \in Seq(File)
    /\ stack \in Seq(Frame)
    /\ ret \in Result
    /\ \A k \in DOMAIN stack : Members(stack[k].out) \subseteq Cell
    /\ Members(ret.blueprints) \subseteq Cell
    /\ \A k \in DOMAIN stack : (stack[k].fn = "sceneFile") = (k = 1)
    /\ DOMAIN entities \subseteq Name
    /\ \A n \in DOMAIN entities : entities[n] \in Nat
    /\ phase \in {"loading", "done", "threw"}
    /\ phase # "loading" => stack = <<>> /\ calls = <<>>
    /\ blueprints \in Seq(Blueprint)
    /\ created \in Nat
    /\ alive \in BOOLEAN

(* The loader only ever touches the registry as EntityFactory allows:        *)
(* complete, acyclic blueprints go into instantiate, and nothing else runs   *)
(* while it does (Loader.cpp:65 and 216).                                     *)
ImplementsFactory == Factory!Spec

(* EntityLoader::entities maps a name to the entity loadEntity created        *)
(* (line 111), which is never one that instantiate created: a name never      *)
(* leads to an entity with components or with a place in the hierarchy.       *)
NamedEntitiesAreBare ==
    \A n \in DOMAIN entities :
        /\ entities[n] \notin DOMAIN componentsOf
        /\ entities[n] \notin DOMAIN parentOf
        /\ entities[n] \notin DOMAIN childrenOf

(* emplace keeps the first entity of a name (line 111), across scenes,        *)
(* templates and scenes that were dropped.                                    *)
NamesNeverRebound ==
    [][\A n \in DOMAIN entities :
          n \in DOMAIN entities' /\ entities'[n] = entities[n]]_vars

(* load comes to an end (lines 54-57): the process dies, or every scene has   *)
(* been loaded, or the exception of the first unreadable scene file leaves    *)
(* it.  No exception from inside a scene does, and no scene is left out.       *)
Terminates ==
    <>(\/ ~ alive
       \/ phase = "done" /\ Members(yaml.scenes) \subseteq yaml.readable
       \/ phase = "threw" /\ pending # <<>> /\ Head(pending) \notin yaml.readable)

=============================================================================
