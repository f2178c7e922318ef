------------------------ MODULE EntityLoader_proofs ------------------------
(***************************************************************************)
(* Proofs about EntityLoader, for all documents, all files and any depth   *)
(* of nesting: the loader never names a blueprint that does not exist, it  *)
(* uses the factory as EntityFactory says, so what EntityFactory_proofs    *)
(* shows of the hierarchy holds of every scene that is loaded, and its     *)
(* names never lead to an entity of that hierarchy.                        *)
(***************************************************************************)
EXTENDS EntityLoader, SequenceTheorems, TLAPS

(* Pop removes the last element and keeps the others; Top is that element. *)
LEMMA PopFacts ==
    ASSUME NEW S, NEW s \in Seq(S), s # <<>>
    PROVE  /\ Len(s) \in Nat \ {0}
           /\ DOMAIN s = 1 .. Len(s)
           /\ Pop(s) \in Seq(S)
           /\ Len(Pop(s)) = Len(s) - 1
           /\ \A i \in 1 .. Len(s) - 1 : Pop(s)[i] = s[i]
           /\ Top(s) \in S
           /\ Len(s) \in DOMAIN s
<1>1. Len(s) \in Nat \ {0} /\ DOMAIN s = 1 .. Len(s) /\ Len(s) \in DOMAIN s
  BY EmptySeq, LenProperties
<1>2. \A i \in 1 .. Len(s) : s[i] \in S
  BY ElementOfSeq
<1> DEFINE n == Len(s) - 1
<1>3. n \in Nat
  BY <1>1
<1> HIDE DEF n
<1>4. Len(SubSeq(s, 1, n)) = n
  BY <1>3
<1>5. Len(Pop(s)) = Len(s) - 1
  BY <1>4 DEF Pop, n
<1>6. /\ Pop(s) \in Seq(S)
      /\ \A i \in 1 .. Len(s) - 1 : Pop(s)[i] = s[i]
  BY <1>1 DEF Pop
<1> QED
  BY <1>1, <1>2, <1>5, <1>6 DEF Top

-----------------------------------------------------------------------------
(* The inductive invariant: what the active functions may rely on. *)

(* loadTemplate waits for the blueprint of its source file (line 205). *)
AtFile(frame) == frame.fn = "template" /\ frame.pc = "file"

(* A frame with n blueprints on the heap.  The functions that are given a    *)
(* node have one, with its name; a template that waits for its children      *)
(* keeps the blueprint of its file.                                          *)
FrameOK(frame, n) ==
    /\ frame \in Frame
    /\ Members(frame.out) \subseteq 1 .. n
    /\ frame.fn \notin {"sceneFile", "scene"} => frame.node \in Node /\ frame.name \in Name
    /\ frame.fn = "template" /\ frame.pc = "children" => frame.out # <<>>

(* The outermost function, and no other, loads a scene file; a template      *)
(* that waits for its file has called the function that loads it.            *)
StackOK(frames, n) ==
    /\ frames \in Seq(Frame)
    /\ \A k \in DOMAIN frames : FrameOK(frames[k], n)
    /\ \A k \in DOMAIN frames : (frames[k].fn = "sceneFile") = (k = 1)
    /\ \A k \in DOMAIN frames :
          k < Len(frames) /\ AtFile(frames[k]) => frames[k + 1].fn = "templateFile"

(* A result names blueprints on the heap, and at least one if a template     *)
(* waits for its file: line 205 reads it without asking.                     *)
ResultOK(result, frames, n) ==
    /\ result \in Result
    /\ Members(result.blueprints) \subseteq 1 .. n
    /\ result.tag = "value" /\ frames # <<>> /\ AtFile(Top(frames)) =>
          result.blueprints # <<>>

ControlOK ==
    /\ StackOK(stack, Len(blueprints))
    /\ ResultOK(ret, stack, Len(blueprints))

NamesOK ==
    /\ DOMAIN entities \subseteq Name
    /\ \A n \in DOMAIN entities : entities[n] \in Nat

LoaderInv ==
    /\ yaml \in DocumentType
    /\ pending \in Seq(File)
    /\ ControlOK
    /\ NamesOK
    /\ phase \in {"loading", "done", "threw"}
    /\ phase # "loading" => stack = <<>> /\ calls = <<>>
    /\ WellFormed(blueprints)
    /\ created \in Nat
    /\ alive \in BOOLEAN

-----------------------------------------------------------------------------
(* The stack operations. *)

(* A frame stays as it is when blueprints are added. *)
LEMMA FrameKept ==
    ASSUME NEW m \in Nat, NEW n \in Nat, m <= n, NEW frame, FrameOK(frame, m)
    PROVE  FrameOK(frame, n)
BY DEF FrameOK

(* What the invariant says of the innermost frame. *)
LEMMA CallerFacts ==
    ASSUME NEW n \in Nat, StackOK(stack, n), stack # <<>>
    PROVE  /\ FrameOK(Caller, n) /\ Caller = stack[Len(stack)]
           /\ Len(stack) \in Nat \ {0} /\ Len(stack) \in DOMAIN stack
           /\ (Caller.fn = "sceneFile") = (Len(stack) = 1)
<1>1. stack \in Seq(Frame)
  BY DEF StackOK
<1>2. Len(stack) \in Nat \ {0} /\ Len(stack) \in DOMAIN stack /\ Caller = stack[Len(stack)]
  BY <1>1, PopFacts DEF Caller, Top
<1> QED
  BY <1>2 DEF StackOK

(* A return keeps the stack in order. *)
LEMMA PopKeeps ==
    ASSUME NEW m \in Nat, NEW n \in Nat, m <= n, StackOK(stack, m), stack # <<>>
    PROVE  StackOK(Pop(stack), n)
<1> DEFINE t == Pop(stack)
<1>1. /\ stack \in Seq(Frame) /\ Len(stack) \in Nat \ {0}
      /\ DOMAIN stack = 1 .. Len(stack)
      /\ t \in Seq(Frame) /\ Len(t) = Len(stack) - 1
      /\ \A k \in 1 .. Len(stack) - 1 : t[k] = stack[k]
  BY PopFacts DEF StackOK
<1> HIDE DEF t
<1>2. DOMAIN t = 1 .. Len(stack) - 1
  BY <1>1, LenProperties
<1>3. ASSUME NEW k \in DOMAIN t
      PROVE  FrameOK(t[k], n) /\ (t[k].fn = "sceneFile") = (k = 1)
  <2>1. t[k] = stack[k] /\ k \in DOMAIN stack
    BY <1>1, <1>2
  <2>2. FrameOK(stack[k], m) /\ (stack[k].fn = "sceneFile") = (k = 1)
    BY <2>1 DEF StackOK
  <2> QED
    BY <2>1, <2>2, FrameKept
<1>4. ASSUME NEW k \in DOMAIN t, k < Len(t), AtFile(t[k])
      PROVE  t[k + 1].fn = "templateFile"
  <2>1. /\ t[k] = stack[k] /\ t[k + 1] = stack[k + 1]
        /\ k \in DOMAIN stack /\ k < Len(stack)
    BY <1>1, <1>2, <1>4
  <2> QED
    BY <1>4, <2>1 DEF StackOK
<1>5. StackOK(t, n)
  BY <1>1, <1>3, <1>4 DEF StackOK
<1> QED
  BY <1>5 DEF t

(* So does a call: a function other than that of a scene file, and the one   *)
(* of a template file if a template waits for it.                            *)
LEMMA PushKeeps ==
    ASSUME NEW n \in Nat, NEW frames, StackOK(frames, n), NEW frame, FrameOK(frame, n),
           (frame.fn = "sceneFile") = (frames = <<>>),
           frames # <<>> /\ AtFile(Top(frames)) => frame.fn = "templateFile"
    PROVE  StackOK(Append(frames, frame), n)
<1> DEFINE t == Append(frames, frame)
<1>1. frames \in Seq(Frame) /\ frame \in Frame
  BY DEF StackOK, FrameOK
<1>2. /\ Len(frames) \in Nat /\ DOMAIN frames = 1 .. Len(frames)
      /\ t \in Seq(Frame) /\ Len(t) = Len(frames) + 1 /\ DOMAIN t = 1 .. Len(frames) + 1
      /\ \A k \in 1 .. Len(frames) : t[k] = frames[k]
      /\ t[Len(frames) + 1] = frame
      /\ (frames = <<>>) = (Len(frames) = 0)
  BY <1>1, AppendProperties, LenProperties, EmptySeq
<1> HIDE DEF t
<1>3. ASSUME NEW k \in DOMAIN t
      PROVE  FrameOK(t[k], n) /\ (t[k].fn = "sceneFile") = (k = 1)
  <2>1. CASE k = Len(frames) + 1
    BY <1>2, <2>1
  <2>2. CASE k \in DOMAIN frames
    BY <1>2, <2>2 DEF StackOK
  <2> QED
    BY <1>2, <2>1, <2>2
<1>4. ASSUME NEW k \in DOMAIN t, k < Len(t), AtFile(t[k])
      PROVE  t[k + 1].fn = "templateFile"
  <2>1. k \in DOMAIN frames /\ t[k] = frames[k]
    BY <1>2, <1>4
  <2>2. CASE k = Len(frames)
    BY <1>2, <1>4, <2>1, <2>2 DEF Top
  <2>3. CASE k < Len(frames)
    <3>1. t[k + 1] = frames[k + 1]
      BY <1>2, <2>1, <2>3
    <3> QED
      BY <1>4, <2>1, <2>3, <3>1 DEF StackOK
  <2> QED
    BY <1>2, <2>1, <2>2, <2>3
<1>5. StackOK(t, n)
  BY <1>2, <1>3, <1>4 DEF StackOK
<1> QED
  BY <1>5 DEF t

(* The caller of the innermost function waits for a file only if that one    *)
(* loads it.                                                                 *)
LEMMA WaitsForFile ==
    ASSUME NEW n \in Nat, StackOK(stack, n), stack # <<>>,
           Pop(stack) # <<>>, AtFile(Top(Pop(stack)))
    PROVE  Caller.fn = "templateFile"
<1> DEFINE t == Pop(stack)
<1>1. /\ stack \in Seq(Frame) /\ Len(stack) \in Nat \ {0}
      /\ DOMAIN stack = 1 .. Len(stack)
      /\ t \in Seq(Frame) /\ Len(t) = Len(stack) - 1
      /\ \A k \in 1 .. Len(stack) - 1 : t[k] = stack[k]
  BY PopFacts DEF StackOK
<1>2. Len(t) \in Nat \ {0} /\ Top(t) = t[Len(t)]
  BY <1>1, EmptySeq DEF Top
<1>3. /\ Len(t) \in DOMAIN stack /\ Len(t) < Len(stack)
      /\ Top(t) = stack[Len(t)] /\ Len(t) + 1 = Len(stack)
  BY <1>1, <1>2
<1>4. stack[Len(t) + 1].fn = "templateFile"
  BY <1>3 DEF StackOK
<1> QED
  BY <1>3, <1>4 DEF Caller, Top

(* So does a frame in the place of the innermost one, of the same function. *)
LEMMA ReplaceKeeps ==
    ASSUME NEW m \in Nat, NEW n \in Nat, m <= n, StackOK(stack, m), stack # <<>>,
           NEW frame, FrameOK(frame, n), frame.fn = Caller.fn
    PROVE  StackOK(Append(Pop(stack), frame), n)
<1>1. StackOK(Pop(stack), n)
  BY PopKeeps
<1>2. /\ stack \in Seq(Frame) /\ Len(stack) \in Nat \ {0}
      /\ Pop(stack) \in Seq(Frame) /\ Len(Pop(stack)) = Len(stack) - 1
  BY PopFacts DEF StackOK
<1>3. (Pop(stack) = <<>>) = (Len(stack) = 1)
  <2>1. Pop(stack) = <<>> <=> Len(Pop(stack)) = 0
    BY <1>2, EmptySeq
  <2>2. Len(stack) - 1 = 0 <=> Len(stack) = 1
    BY <1>2
  <2> QED
    BY <1>2, <2>1, <2>2, Zenon
<1>4. (frame.fn = "sceneFile") = (Pop(stack) = <<>>)
  BY <1>3, CallerFacts
<1>5. Pop(stack) # <<>> /\ AtFile(Top(Pop(stack))) => frame.fn = "templateFile"
  BY WaitsForFile
<1> QED
  BY <1>1, <1>4, <1>5, PushKeeps

(* The heap never shrinks. *)
HeapGrows ==
    /\ Len(blueprints) \in Nat
    /\ Len(blueprints') \in Nat
    /\ Len(blueprints) <= Len(blueprints')

(* The empty results name no blueprint. *)
LEMMA EmptyResults ==
    ASSUME NEW frames, NEW n
    PROVE  ResultOK(NoResult, frames, n) /\ ResultOK(Thrown, frames, n)
BY DEF ResultOK, Result, NoResult, Thrown, Members

(* A call keeps the control in order. *)
LEMMA CallKeeps ==
    ASSUME ControlOK, HeapGrows, stack # <<>>,
           NEW frame, FrameOK(frame, Len(blueprints')), frame.fn = Caller.fn,
           NEW callee, FrameOK(callee, Len(blueprints')), callee.fn # "sceneFile",
           AtFile(frame) => callee.fn = "templateFile",
           CallFrom(frame, callee)
    PROVE  ControlOK'
<1> DEFINE n == Len(blueprints')
           t == Append(Pop(stack), frame)
<1>1. n \in Nat /\ StackOK(t, n)
  BY ReplaceKeeps DEF ControlOK, HeapGrows
<1>2. Pop(stack) \in Seq(Frame) /\ frame \in Frame
  BY PopFacts DEF ControlOK, StackOK, FrameOK
<1>3. t # <<>> /\ Top(t) = frame
  BY <1>2, AppendProperties, EmptySeq DEF Top
<1> HIDE DEF t, n
<1>4. StackOK(Append(t, callee), n)
  BY <1>1, <1>3, PushKeeps DEF n
<1>5. stack' = Append(t, callee) /\ ret' = NoResult
  BY DEF CallFrom, t
<1> QED
  BY <1>4, <1>5, EmptyResults DEF ControlOK, n

(* Going on with the innermost function does. *)
LEMMA ContinueKeeps ==
    ASSUME ControlOK, HeapGrows, stack # <<>>,
           NEW frame, FrameOK(frame, Len(blueprints')), frame.fn = Caller.fn,
           Continue(frame)
    PROVE  ControlOK'
<1>1. StackOK(Append(Pop(stack), frame), Len(blueprints'))
  BY ReplaceKeeps DEF ControlOK, HeapGrows
<1> QED
  BY <1>1, EmptyResults DEF ControlOK, Continue

(* Returning blueprints on the heap does. *)
LEMMA ReturnKeeps ==
    ASSUME ControlOK, HeapGrows, stack # <<>>,
           NEW bs \in Seq(Nat \ {0}), Members(bs) \subseteq 1 .. Len(blueprints'),
           bs # <<>> \/ Caller.fn # "templateFile",
           Return(bs)
    PROVE  ControlOK'
<1>1. StackOK(Pop(stack), Len(blueprints'))
  BY PopKeeps DEF ControlOK, HeapGrows
<1>2. Pop(stack) # <<>> /\ AtFile(Top(Pop(stack))) => bs # <<>>
  BY WaitsForFile DEF ControlOK, HeapGrows
<1>3. ret' = Returned(bs) /\ stack' = Pop(stack)
  BY DEF Return
<1>4. Returned(bs) \in Result /\ Returned(bs).blueprints = bs
  BY DEF Returned, Result
<1>5. ResultOK(Returned(bs), Pop(stack), Len(blueprints'))
  BY <1>2, <1>4 DEF ResultOK
<1> QED
  BY <1>1, <1>3, <1>5 DEF ControlOK

(* Ending without a result does. *)
LEMMA PopsToNothing ==
    ASSUME ControlOK, HeapGrows, stack # <<>>,
           stack' = Pop(stack), ret' \in {NoResult, Thrown}
    PROVE  ControlOK'
<1>1. StackOK(Pop(stack), Len(blueprints'))
  BY PopKeeps DEF ControlOK, HeapGrows
<1> QED
  BY <1>1, EmptyResults DEF ControlOK

(* So does everything that leaves it alone. *)
LEMMA ControlUnchanged ==
    ASSUME ControlOK, UNCHANGED <<stack, ret, blueprints>>
    PROVE  ControlOK'
BY DEF ControlOK

-----------------------------------------------------------------------------
(* The heap of blueprints. *)

(* The heap that stays the same has not shrunk. *)
LEMMA HeapUnchanged ==
    ASSUME LoaderInv, UNCHANGED blueprints
    PROVE  /\ HeapGrows /\ WellFormed(blueprints)'
           /\ Len(blueprints') = Len(blueprints)
<1>1. blueprints \in Seq(Blueprint)
  BY DEF LoaderInv, WellFormed
<1>2. Len(blueprints) \in Nat
  BY <1>1, LenProperties
<1> QED
  BY <1>2 DEF LoaderInv, HeapGrows

(* What a node sets is a prototype. *)
LEMMA HoldingIsAPrototype ==
    ASSUME NEW n \in Node \cup {NoNode}, NEW cs
    PROVE  Holding(n, cs) \in Prototype
BY LoaderAssumption DEF Holding, Prototype, NoNode

(* An empty prototype and that of a node's own components are prototypes. *)
LEMMA PrototypesHeld ==
    ASSUME NEW n \in Node
    PROVE  Empty \in Prototype /\ OwnComponents(n) \in Prototype
BY HoldingIsAPrototype DEF Empty, OwnComponents

(* A blueprint of cells that exist goes into the next cell. *)
LEMMA NewBlueprintKeeps ==
    ASSUME LoaderInv, NEW prototype \in Prototype,
           NEW children \in Seq(Nat \ {0}), Members(children) \subseteq Cell,
           NewBlueprint(prototype, children)
    PROVE  /\ HeapGrows /\ WellFormed(blueprints)'
           /\ Len(blueprints') = Len(blueprints) + 1
           /\ <<NewCell>> \in Seq(Nat \ {0}) /\ <<NewCell>> # <<>>
           /\ Members(<<NewCell>>) \subseteq 1 .. Len(blueprints')
           /\ NewCell \in 1 .. Len(blueprints')
<1> DEFINE new == [prototype |-> prototype, children |-> children]
           heap == Append(blueprints, new)
<1>1. blueprints \in Seq(Blueprint) /\ new \in Blueprint
  BY DEF LoaderInv, WellFormed, Blueprint
<1>2. /\ Len(blueprints) \in Nat /\ DOMAIN blueprints = 1 .. Len(blueprints)
      /\ heap \in Seq(Blueprint) /\ Len(heap) = Len(blueprints) + 1
      /\ DOMAIN heap = 1 .. Len(blueprints) + 1
      /\ \A b \in 1 .. Len(blueprints) : heap[b] = blueprints[b]
      /\ heap[Len(blueprints) + 1] = new
  BY <1>1, AppendProperties, LenProperties
<1>3. new.children = children
  OBVIOUS
<1> HIDE DEF heap, new
<1>4. ASSUME NEW b \in DOMAIN heap, NEW i \in DOMAIN heap[b].children
      PROVE  heap[b].children[i] \in 1 .. b - 1
  <2>1. CASE b = Len(blueprints) + 1
    <3>1. heap[b].children = children
      BY <1>2, <1>3, <2>1
    <3>2. children[i] \in Members(children)
      BY <3>1 DEF Members
    <3>3. b - 1 = Len(blueprints)
      BY <1>2, <2>1
    <3> QED
      BY <3>1, <3>2, <3>3 DEF Cell
  <2>2. CASE b \in DOMAIN blueprints
    BY <1>2, <2>2 DEF LoaderInv, WellFormed
  <2> QED
    BY <1>2, <2>1, <2>2
<1>5. blueprints' = heap
  BY DEF NewBlueprint, heap, new
<1>6. WellFormed(blueprints)'
  BY <1>2, <1>4, <1>5 DEF WellFormed
<1>7. NewCell \in Nat \ {0} /\ NewCell = Len(blueprints) + 1
  BY <1>2 DEF NewCell
<1>8. Members(<<NewCell>>) = {NewCell}
  BY DEF Members
<1> QED
  BY <1>2, <1>5, <1>6, <1>7, <1>8 DEF HeapGrows

(* Defaults change prototypes only. *)
LEMMA SetDefaultsKeeps ==
    ASSUME LoaderInv, NEW n \in Node, NEW bs, blueprints' = SetDefaults(n, bs)
    PROVE  /\ HeapGrows /\ WellFormed(blueprints)'
           /\ Len(blueprints') = Len(blueprints)
<1> DEFINE heap == SetDefaults(n, bs)
<1>1. /\ blueprints \in Seq(Blueprint) /\ Len(blueprints) \in Nat
      /\ DOMAIN blueprints = 1 .. Len(blueprints)
  BY LenProperties DEF LoaderInv, WellFormed
<1>2. DOMAIN heap = 1 .. Len(blueprints)
  BY <1>1 DEF SetDefaults
<1>3. ASSUME NEW b \in 1 .. Len(blueprints)
      PROVE  heap[b] \in Blueprint /\ heap[b].children = blueprints[b].children
  <2>1. /\ blueprints[b] \in Blueprint /\ blueprints[b].prototype \in Prototype
        /\ blueprints[b].children \in Seq(Nat \ {0})
    <3>1. blueprints[b] \in Blueprint
      BY <1>1, ElementOfSeq
    <3> QED
      BY <3>1 DEF Blueprint
  <2> DEFINE proto == [c \in Component |->
                          IF c \in yaml.defaults[n] THEN n ELSE blueprints[b].prototype[c]]
             new   == [blueprints[b] EXCEPT !.prototype = proto]
  <2>2. proto \in Prototype
    BY <2>1, LoaderAssumption DEF Prototype
  <2> HIDE DEF proto
  <2>3. new \in Blueprint /\ new.children = blueprints[b].children
    BY <2>1, <2>2 DEF Blueprint
  <2>4. heap[b] = new \/ heap[b] = blueprints[b]
    BY <1>1, <1>2 DEF SetDefaults, proto
  <2> QED
    BY <2>1, <2>3, <2>4
<1> HIDE DEF heap
<1>4. heap \in Seq(Blueprint) /\ Len(heap) = Len(blueprints)
  <2>1. heap = [b \in 1 .. Len(blueprints) |-> heap[b]]
    BY <1>1, <1>2 DEF heap, SetDefaults
  <2>2. heap \in [1 .. Len(blueprints) -> Blueprint]
    BY <1>3, <2>1
  <2> QED
    BY <1>1, <2>2, SeqDef, LenProperties
<1>5. blueprints' = heap
  BY DEF heap
<1>6. WellFormed(heap)
  <2>1. ASSUME NEW b \in DOMAIN heap, NEW i \in DOMAIN heap[b].children
        PROVE  heap[b].children[i] \in 1 .. b - 1
    BY <1>1, <1>2, <1>3, <2>1 DEF LoaderInv, WellFormed
  <2> QED
    BY <1>4, <2>1 DEF WellFormed
<1> QED
  BY <1>1, <1>4, <1>5, <1>6 DEF HeapGrows, WellFormed

-----------------------------------------------------------------------------
(* The functions. *)

(* A step that only changes the control, the heap and the registry. *)
LEMMA QuietStep ==
    ASSUME LoaderInv, Running, ControlOK', WellFormed(blueprints)',
           UNCHANGED <<yaml, pending, entities, phase>>,
           created' \in Nat, alive' \in BOOLEAN
    PROVE  LoaderInv'
BY DEF LoaderInv, Running, NamesOK

(* The innermost function, when one is active. *)
LEMMA ActiveFacts ==
    ASSUME LoaderInv, stack # <<>>
    PROVE  /\ Len(blueprints) \in Nat /\ Cell = 1 .. Len(blueprints)
           /\ FrameOK(Caller, Len(blueprints))
           /\ Caller.todo \in Seq(Node) /\ Caller.out \in Seq(Nat \ {0})
           /\ Caller.left \in Nat /\ Caller.fn \in Function
           /\ Members(Caller.out) \subseteq Cell
           /\ ret \in Result /\ ret.blueprints \in Seq(Nat \ {0})
           /\ Members(ret.blueprints) \subseteq Cell
           /\ Caller.fn \notin {"sceneFile", "scene"} =>
                 Caller.node \in Node /\ Caller.name \in Name
<1>1. Len(blueprints) \in Nat
  BY HeapUnchanged, LenProperties DEF LoaderInv, WellFormed
<1>2. FrameOK(Caller, Len(blueprints))
  BY <1>1, CallerFacts DEF LoaderInv, ControlOK
<1>3. ret \in Result /\ Members(ret.blueprints) \subseteq Cell
  BY DEF LoaderInv, ControlOK, ResultOK, Cell
<1>4. Caller \in Frame /\ Members(Caller.out) \subseteq Cell
  BY <1>2 DEF FrameOK, Cell
<1>5. /\ Caller.todo \in Seq(Node) /\ Caller.out \in Seq(Nat \ {0})
      /\ Caller.left \in Nat /\ Caller.fn \in Function
  BY <1>4 DEF Frame
<1>6. ret.blueprints \in Seq(Nat \ {0})
  BY <1>3 DEF Result
<1> QED
  BY <1>1, <1>2, <1>3, <1>4, <1>5, <1>6 DEF FrameOK, Cell

(* A function that was just called. *)
LEMMA InvokedFrame ==
    ASSUME NEW n \in Nat, NEW fn \in Function,
           NEW node \in Node \cup {NoNode}, NEW name \in Name \cup {NoName},
           fn \notin {"sceneFile", "scene"} => node \in Node /\ name \in Name,
           NEW todo \in Seq(Node)
    PROVE  /\ FrameOK(Invoke(fn, node, name, todo), n)
           /\ Invoke(fn, node, name, todo).fn = fn
           /\ ~ AtFile(Invoke(fn, node, name, todo))
<1> DEFINE frame == Invoke(fn, node, name, todo)
<1>1. /\ frame.fn = fn /\ frame.node = node /\ frame.name = name
      /\ frame.pc = "enter" /\ frame.out = <<>>
  BY DEF Invoke
<1>2. frame \in Frame
  BY DEF Invoke, Frame
<1>3. Members(<<>>) = {}
  BY DEF Members
<1> QED
  BY <1>1, <1>2, <1>3 DEF FrameOK, AtFile

(* The functions that are called without a node. *)
LEMMA InvokedScene ==
    ASSUME NEW n \in Nat, NEW fn \in {"sceneFile", "scene"}, NEW todo \in Seq(Node)
    PROVE  /\ FrameOK(Invoke(fn, NoNode, NoName, todo), n)
           /\ Invoke(fn, NoNode, NoName, todo).fn = fn
           /\ ~ AtFile(Invoke(fn, NoNode, NoName, todo))
<1>1. fn \in Function /\ ~ (fn \notin {"sceneFile", "scene"})
  BY DEF Function
<1>2. NoNode \in Node \cup {NoNode} /\ NoName \in Name \cup {NoName}
  OBVIOUS
<1> QED
  BY <1>1, <1>2, InvokedFrame

(* The functions that are called with a node. *)
LEMMA InvokedNode ==
    ASSUME NEW n \in Nat, NEW fn \in {"entity", "group", "template", "templateFile"},
           NEW node \in Node, NEW name \in Name
    PROVE  /\ FrameOK(Invoke(fn, node, name, <<>>), n)
           /\ Invoke(fn, node, name, <<>>).fn = fn
<1>1. fn \in Function /\ <<>> \in Seq(Node)
  BY DEF Function
<1>2. node \in Node \cup {NoNode} /\ name \in Name \cup {NoName}
  OBVIOUS
<1> QED
  BY <1>1, <1>2, InvokedFrame

(* What the documents hold. *)
LEMMA YamlTypes ==
    ASSUME LoaderInv
    PROVE  /\ yaml.scenes \in Seq(File)
           /\ \A f \in File : yaml.scene[f] \in Seq(Node)
           /\ \A f \in File : yaml.template[f] \in Node \cup {NoNode}
           /\ \A n \in Node : /\ yaml.name[n] \in Name /\ yaml.type[n] \in NodeType
                              /\ yaml.children[n] \in Seq(Node)
                              /\ yaml.source[n] \in File /\ yaml.instances[n] \in Nat
BY DEF LoaderInv, DocumentType

(* load begins with the next scene file. *)
LEMMA LoadNextSceneKeeps ==
    ASSUME LoaderInv, LoadNextScene
    PROVE  LoaderInv'
<1> DEFINE f == Head(pending)
           outer == Invoke("sceneFile", NoNode, NoName, <<>>)
           inner == Invoke("scene", NoNode, NoName, yaml.scene[f])
           n == Len(blueprints)
<1>1. f \in File /\ Tail(pending) \in Seq(File)
  BY HeadTailProperties DEF LoaderInv, LoadNextScene
<1>2. n \in Nat
  BY HeapUnchanged DEF LoadNextScene, HeapGrows
<1>3. /\ FrameOK(outer, n) /\ outer.fn = "sceneFile" /\ ~ AtFile(outer)
      /\ FrameOK(inner, n) /\ inner.fn = "scene" /\ ~ AtFile(inner)
  <2>1. <<>> \in Seq(Node) /\ yaml.scene[f] \in Seq(Node)
    BY <1>1, YamlTypes
  <2> QED
    BY <1>2, <2>1, InvokedScene
<1>4. stack = <<>> /\ stack' = <<outer, inner>>
  BY DEF LoadNextScene
<1> HIDE DEF outer, inner, f
<1>5. StackOK(<<outer, inner>>, n)
  BY <1>3 DEF StackOK, FrameOK
<1>6. ControlOK'
  <2>1. Top(<<outer, inner>>) = inner
    BY DEF Top
  <2>2. ret' = ret /\ blueprints' = blueprints
    BY DEF LoadNextScene
  <2>3. ResultOK(ret, <<outer, inner>>, n)
    BY <1>3, <2>1 DEF ControlOK, LoaderInv, ResultOK
  <2> QED
    BY <1>4, <1>5, <2>2, <2>3 DEF ControlOK
<1> QED
  BY <1>1, <1>6 DEF LoadNextScene, UnchangedWorld, LoaderInv, NamesOK, Running, f

(* load returns, or the exception of a file that cannot be read leaves it. *)
LEMMA LoadEnds ==
    ASSUME LoaderInv, LoadUnreadableScene \/ LoadDone
    PROVE  LoaderInv'
<1>1. /\ UNCHANGED <<yaml, pending, stack, ret, entities, blueprints, created, calls, alive>>
      /\ stack = <<>> /\ calls = <<>> /\ phase' \in {"threw", "done"}
  BY DEF LoadUnreadableScene, LoadDone, Running
<1>2. ControlOK'
  BY <1>1, ControlUnchanged DEF LoaderInv
<1> QED
  BY <1>1, <1>2 DEF LoaderInv, NamesOK

(* The same frame with other blueprints collected. *)
LEMMA FrameWithOut ==
    ASSUME NEW n \in Nat, NEW frame, FrameOK(frame, n),
           NEW out \in Seq(Nat \ {0}), Members(out) \subseteq 1 .. n,
           frame.fn # "template"
    PROVE  /\ FrameOK([frame EXCEPT !.out = out], n)
           /\ [frame EXCEPT !.out = out].fn = frame.fn
BY DEF FrameOK, Frame

(* The same frame with fewer nodes to visit. *)
LEMMA FrameWithTodo ==
    ASSUME NEW n \in Nat, NEW frame, FrameOK(frame, n), NEW todo \in Seq(Node)
    PROVE  /\ FrameOK([frame EXCEPT !.todo = todo], n)
           /\ [frame EXCEPT !.todo = todo].fn = frame.fn
           /\ AtFile([frame EXCEPT !.todo = todo]) <=> AtFile(frame)
BY DEF FrameOK, Frame, AtFile

(* The same frame with fewer instances to make. *)
LEMMA FrameWithLeft ==
    ASSUME NEW n \in Nat, NEW frame, FrameOK(frame, n), NEW left \in Nat
    PROVE  /\ FrameOK([frame EXCEPT !.left = left], n)
           /\ [frame EXCEPT !.left = left].fn = frame.fn
BY DEF FrameOK, Frame

(* The frame of a template that waits for its file. *)
LEMMA FrameAtFile ==
    ASSUME NEW n \in Nat, NEW frame, FrameOK(frame, n)
    PROVE  /\ FrameOK([frame EXCEPT !.pc = "file"], n)
           /\ [frame EXCEPT !.pc = "file"].fn = frame.fn
BY DEF FrameOK, Frame

(* The frame of a template that waits for its children, with a blueprint. *)
LEMMA FrameAtChildren ==
    ASSUME NEW n \in Nat, NEW frame, FrameOK(frame, n), NEW b \in 1 .. n
    PROVE  /\ FrameOK([frame EXCEPT !.pc = "children", !.out = <<b>>], n)
           /\ [frame EXCEPT !.pc = "children", !.out = <<b>>].fn = frame.fn
           /\ ~ AtFile([frame EXCEPT !.pc = "children", !.out = <<b>>])
<1>1. <<b>> \in Seq(Nat \ {0}) /\ <<b>> # <<>> /\ Members(<<b>>) \subseteq 1 .. n
  BY DEF Members
<1> DEFINE out == <<b>>
<1> HIDE DEF out
<1>2. /\ FrameOK([frame EXCEPT !.pc = "children", !.out = out], n)
      /\ [frame EXCEPT !.pc = "children", !.out = out].fn = frame.fn
      /\ ~ AtFile([frame EXCEPT !.pc = "children", !.out = out])
  BY <1>1 DEF FrameOK, Frame, AtFile, out
<1> QED
  BY <1>2 DEF out

(* The rest of a list has no other members. *)
LEMMA TailMembers ==
    ASSUME NEW S, NEW s \in Seq(S), s # <<>>
    PROVE  /\ Head(s) \in S /\ Head(s) \in Members(s)
           /\ Tail(s) \in Seq(S) /\ Members(Tail(s)) \subseteq Members(s)
<1>1. /\ Len(s) \in Nat \ {0} /\ DOMAIN s = 1 .. Len(s)
      /\ Head(s) = s[1] /\ 1 \in DOMAIN s
  BY EmptySeq, LenProperties
<1>2. /\ Head(s) \in S /\ Tail(s) \in Seq(S) /\ Len(Tail(s)) = Len(s) - 1
      /\ \A i \in 1 .. Len(Tail(s)) : Tail(s)[i] = s[i + 1]
  BY HeadTailProperties
<1>3. DOMAIN Tail(s) = 1 .. Len(s) - 1
  BY <1>1, <1>2, LenProperties
<1> QED
  BY <1>1, <1>2, <1>3 DEF Members

(* A concatenation has the members of both. *)
LEMMA ConcatMembers ==
    ASSUME NEW S, NEW s \in Seq(S), NEW t \in Seq(S)
    PROVE  s \o t \in Seq(S) /\ Members(s \o t) \subseteq Members(s) \cup Members(t)
<1>1. /\ s \o t \in Seq(S) /\ Len(s) \in Nat /\ Len(t) \in Nat
      /\ DOMAIN s = 1 .. Len(s) /\ DOMAIN t = 1 .. Len(t)
      /\ DOMAIN (s \o t) = 1 .. Len(s) + Len(t)
  BY LenProperties, ConcatProperties
<1>2. \A i \in 1 .. Len(s) + Len(t) :
         (s \o t)[i] = IF i <= Len(s) THEN s[i] ELSE t[i - Len(s)]
  BY ConcatProperties
<1>3. ASSUME NEW i \in 1 .. Len(s) + Len(t)
      PROVE  (s \o t)[i] \in Members(s) \cup Members(t)
  <2>1. CASE i <= Len(s)
    BY <1>1, <1>2, <2>1 DEF Members
  <2>2. CASE ~ i <= Len(s)
    <3>1. i - Len(s) \in DOMAIN t
      BY <1>1, <2>2
    <3> QED
      BY <1>1, <1>2, <2>2, <3>1 DEF Members
  <2> QED
    BY <2>1, <2>2
<1> QED
  BY <1>1, <1>3 DEF Members

(* A call of the factory leaves the heap alone. *)
LEMMA RootEntered ==
    ASSUME LoaderInv, NEW b, Factory!InstantiateRoot(b)
    PROVE  /\ UNCHANGED blueprints /\ b \in DOMAIN blueprints
           /\ created' = created + 1 /\ created' \in Nat /\ alive' \in BOOLEAN
<1>1. Factory!Enter(b) /\ b \in DOMAIN blueprints
  BY DEF Factory!InstantiateRoot
<1>2. UNCHANGED blueprints /\ created' = created + 1
  BY <1>1 DEF Factory!Enter
<1>3. alive' \in BOOLEAN
  BY <1>1 DEF Factory!Enter, Factory!GiveTimeAware, LoaderInv
<1> QED
  BY <1>1, <1>2, <1>3 DEF LoaderInv

(* loadScene of a file. *)
LEMMA SceneFileKeeps ==
    ASSUME LoaderInv, SceneLoaded \/ SceneSwallowed \/ InstantiateScene \/ SceneFileDone
    PROVE  LoaderInv'
<1>1. CASE SceneLoaded
  <2>1. /\ Running /\ stack # <<>> /\ Caller.fn = "sceneFile"
        /\ Continue([Caller EXCEPT !.out = ret.blueprints])
        /\ UNCHANGED <<yaml, pending, entities, phase, blueprints, created, alive>>
    BY <1>1 DEF SceneLoaded, Resumed, UnchangedWorld, Caller
  <2>2. HeapGrows /\ WellFormed(blueprints)' /\ Len(blueprints') = Len(blueprints)
    BY <2>1, HeapUnchanged
  <2>3. /\ FrameOK([Caller EXCEPT !.out = ret.blueprints], Len(blueprints'))
        /\ [Caller EXCEPT !.out = ret.blueprints].fn = Caller.fn
    BY <2>1, <2>2, ActiveFacts, FrameWithOut
  <2>4. ControlOK'
    BY <2>1, <2>2, <2>3, ContinueKeeps DEF LoaderInv
  <2> QED
    BY <2>1, <2>2, <2>4, QuietStep DEF LoaderInv
<1>2. CASE SceneSwallowed \/ SceneFileDone
  <2>1. /\ Running /\ stack # <<>> /\ stack' = Pop(stack) /\ ret' \in {NoResult, Thrown}
        /\ UNCHANGED <<yaml, pending, entities, phase, blueprints, created, alive>>
    BY <1>2 DEF SceneSwallowed, SceneFileDone, Threw, In, UnchangedWorld
  <2>2. HeapGrows /\ WellFormed(blueprints)'
    BY <2>1, HeapUnchanged
  <2>3. ControlOK'
    BY <2>1, <2>2, PopsToNothing DEF LoaderInv
  <2> QED
    BY <2>1, <2>2, <2>3, QuietStep DEF LoaderInv
<1>3. CASE InstantiateScene
  <2>1. /\ Running /\ stack # <<>> /\ Caller.fn = "sceneFile" /\ Caller.out # <<>>
        /\ Continue([Caller EXCEPT !.out = Tail(Caller.out)])
        /\ Factory!InstantiateRoot(Head(Caller.out))
        /\ UNCHANGED <<yaml, pending, entities, phase>>
    BY <1>3 DEF InstantiateScene, In, Caller
  <2>2. UNCHANGED blueprints /\ created' \in Nat /\ alive' \in BOOLEAN
    BY <2>1, RootEntered
  <2>3. HeapGrows /\ WellFormed(blueprints)' /\ Len(blueprints') = Len(blueprints)
    BY <2>2, HeapUnchanged
  <2>4. /\ Tail(Caller.out) \in Seq(Nat \ {0})
        /\ Members(Tail(Caller.out)) \subseteq 1 .. Len(blueprints')
    BY <2>1, <2>3, ActiveFacts, TailMembers
  <2>5. /\ FrameOK([Caller EXCEPT !.out = Tail(Caller.out)], Len(blueprints'))
        /\ [Caller EXCEPT !.out = Tail(Caller.out)].fn = Caller.fn
    BY <2>1, <2>3, <2>4, ActiveFacts, FrameWithOut
  <2>6. ControlOK'
    BY <2>1, <2>3, <2>5, ContinueKeeps DEF LoaderInv
  <2> QED
    BY <2>1, <2>2, <2>3, <2>6, QuietStep
<1> QED
  BY <1>1, <1>2, <1>3

(* loadScene of a map of nodes. *)
LEMMA SceneKeeps ==
    ASSUME LoaderInv, VisitNode \/ SceneCollect \/ SceneReturn
    PROVE  LoaderInv'
<1>1. /\ Running /\ stack # <<>> /\ Caller.fn = "scene"
      /\ UNCHANGED <<yaml, pending, entities, phase, blueprints, created, alive>>
  BY DEF VisitNode, SceneCollect, SceneReturn, In, Resumed, UnchangedWorld, Caller
<1>2. /\ HeapGrows /\ WellFormed(blueprints)' /\ Len(blueprints') = Len(blueprints)
      /\ Len(blueprints') \in Nat
  BY <1>1, HeapUnchanged DEF HeapGrows
<1>3. /\ FrameOK(Caller, Len(blueprints')) /\ Caller.todo \in Seq(Node)
      /\ Caller.out \in Seq(Nat \ {0}) /\ Members(Caller.out) \subseteq 1 .. Len(blueprints')
      /\ ret.blueprints \in Seq(Nat \ {0})
      /\ Members(ret.blueprints) \subseteq 1 .. Len(blueprints')
  BY <1>1, <1>2, ActiveFacts
<1>4. CASE VisitNode
  <2> DEFINE n    == Head(Caller.todo)
             rest == [Caller EXCEPT !.todo = Tail(Caller.todo)]
             fn   == yaml.type[n]
             callee == Invoke(fn, n, yaml.name[n], <<>>)
  <2>1. n \in Node /\ Tail(Caller.todo) \in Seq(Node)
    BY <1>3, <1>4, TailMembers DEF VisitNode
  <2>2. FrameOK(rest, Len(blueprints')) /\ rest.fn = Caller.fn /\ ~ AtFile(rest)
    BY <1>1, <1>2, <1>3, <2>1, FrameWithTodo DEF AtFile
  <2>3. \/ Continue(rest)
        \/ fn # "other" /\ CallFrom(rest, callee)
    BY <1>4 DEF VisitNode
  <2>4. fn # "other" => /\ FrameOK(callee, Len(blueprints')) /\ callee.fn = fn
                        /\ fn # "sceneFile"
    <3>1. fn \in NodeType /\ yaml.name[n] \in Name
      BY <2>1, YamlTypes
    <3> HIDE DEF fn, n
    <3>2. ASSUME fn # "other"
          PROVE  fn \in {"entity", "group", "template", "templateFile"}
      BY <3>1, <3>2 DEF NodeType
    <3> QED
      BY <1>2, <2>1, <3>1, <3>2, InvokedNode
  <2> HIDE DEF n, rest, fn, callee
  <2>5. ControlOK'
    <3>1. CASE Continue(rest)
      BY <1>1, <1>2, <2>2, <3>1, ContinueKeeps DEF LoaderInv
    <3>2. CASE fn # "other" /\ CallFrom(rest, callee)
      BY <1>1, <1>2, <2>2, <2>4, <3>2, CallKeeps DEF LoaderInv
    <3> QED
      BY <2>3, <3>1, <3>2
  <2> QED
    BY <1>1, <1>2, <2>5, QuietStep DEF LoaderInv
<1>5. CASE SceneCollect
  <2> DEFINE out == Caller.out \o ret.blueprints
  <2>1. Continue([Caller EXCEPT !.out = out])
    BY <1>5 DEF SceneCollect
  <2>2. out \in Seq(Nat \ {0}) /\ Members(out) \subseteq 1 .. Len(blueprints')
    <3>1. /\ out \in Seq(Nat \ {0})
          /\ Members(out) \subseteq Members(Caller.out) \cup Members(ret.blueprints)
      BY <1>3, ConcatMembers
    <3> QED
      BY <1>3, <3>1
  <2> HIDE DEF out
  <2>3. /\ FrameOK([Caller EXCEPT !.out = out], Len(blueprints'))
        /\ [Caller EXCEPT !.out = out].fn = Caller.fn
    BY <1>1, <1>2, <1>3, <2>2, FrameWithOut
  <2>4. ControlOK'
    BY <1>1, <1>2, <2>1, <2>3, ContinueKeeps DEF LoaderInv
  <2> QED
    BY <1>1, <1>2, <2>4, QuietStep DEF LoaderInv
<1>6. CASE SceneReturn
  <2>1. Return(Caller.out)
    BY <1>6 DEF SceneReturn
  <2>2. ControlOK'
    BY <1>1, <1>2, <1>3, <2>1, ReturnKeeps DEF LoaderInv
  <2> QED
    BY <1>1, <1>2, <2>2, QuietStep DEF LoaderInv
<1> QED
  BY <1>4, <1>5, <1>6

(* A function that ends with a new blueprint. *)
LEMMA ReturnsNewKeeps ==
    ASSUME LoaderInv, stack # <<>>, NEW prototype \in Prototype,
           NEW children \in Seq(Nat \ {0}), Members(children) \subseteq Cell,
           NewBlueprint(prototype, children), Return(<<NewCell>>)
    PROVE  ControlOK' /\ WellFormed(blueprints)'
<1>1. /\ HeapGrows /\ WellFormed(blueprints)'
      /\ <<NewCell>> \in Seq(Nat \ {0}) /\ <<NewCell>> # <<>>
      /\ Members(<<NewCell>>) \subseteq 1 .. Len(blueprints')
  BY NewBlueprintKeeps
<1> QED
  BY <1>1, ReturnKeeps DEF LoaderInv

(* A function that throws. *)
LEMMA ThrowsKeeps ==
    ASSUME LoaderInv, stack # <<>>, Throw, UNCHANGED blueprints
    PROVE  ControlOK' /\ WellFormed(blueprints)'
<1>1. HeapGrows /\ WellFormed(blueprints)'
  BY HeapUnchanged
<1> QED
  BY <1>1, PopsToNothing DEF LoaderInv, Throw

(* A function that calls loadScene for the children of its node. *)
LEMMA CallsSceneKeeps ==
    ASSUME LoaderInv, stack # <<>>, UNCHANGED blueprints, NEW n \in Node,
           NEW frame, FrameOK(frame, Len(blueprints)), frame.fn = Caller.fn, ~ AtFile(frame),
           CallFrom(frame, Invoke("scene", NoNode, NoName, yaml.children[n]))
    PROVE  ControlOK' /\ WellFormed(blueprints)'
<1> DEFINE callee == Invoke("scene", NoNode, NoName, yaml.children[n])
<1>1. HeapGrows /\ WellFormed(blueprints)' /\ Len(blueprints') = Len(blueprints)
  BY HeapUnchanged
<1>2. FrameOK(callee, Len(blueprints')) /\ callee.fn = "scene"
  <2>1. yaml.children[n] \in Seq(Node)
    BY YamlTypes
  <2> QED
    BY <1>1, <2>1, InvokedScene DEF HeapGrows
<1>3. CallFrom(frame, callee)
  OBVIOUS
<1> HIDE DEF callee
<1> QED
  BY <1>1, <1>2, <1>3, CallKeeps DEF LoaderInv

(* loadEntity. *)
LEMMA LoadEntityKeeps ==
    ASSUME LoaderInv, LoadEntity
    PROVE  LoaderInv'
<1> DEFINE n == Caller.node
           callee == Invoke("scene", NoNode, NoName, yaml.children[n])
<1>1. /\ Running /\ stack # <<>> /\ Caller.fn = "entity"
      /\ created' = created + 2 /\ Emplace(Caller.name)
      /\ UNCHANGED <<yaml, pending, phase, calls, alive>>
  BY DEF LoadEntity, In, Create, Caller
<1>2. /\ Len(blueprints) \in Nat /\ FrameOK(Caller, Len(blueprints))
      /\ n \in Node /\ Caller.name \in Name
  BY <1>1, ActiveFacts
<1>3. NamesOK'
  <2>1. entities' = entities \/ entities' = Put(entities, Caller.name, created)
    BY <1>1 DEF Emplace
  <2>2. CASE entities' = entities
    BY <2>2 DEF LoaderInv, NamesOK
  <2>3. CASE entities' = Put(entities, Caller.name, created)
    <3>1. created \in Nat
      BY DEF LoaderInv
    <3> QED
      BY <1>2, <2>3, <3>1 DEF LoaderInv, NamesOK, Put
  <2> QED
    BY <2>1, <2>2, <2>3
<1>4. \/ Throw /\ UNCHANGED blueprints
      \/ CallFrom(Caller, callee) /\ UNCHANGED blueprints
      \/ NewBlueprint(OwnComponents(n), <<>>) /\ Return(<<NewCell>>)
  BY DEF LoadEntity
<1>5. ControlOK' /\ WellFormed(blueprints)'
  <2>1. CASE Throw /\ UNCHANGED blueprints
    BY <1>1, <2>1, ThrowsKeeps
  <2>2. CASE CallFrom(Caller, callee) /\ UNCHANGED blueprints
    <3>1. ~ AtFile(Caller)
      BY <1>1 DEF AtFile
    <3> QED
      BY <1>1, <1>2, <2>2, <3>1, CallsSceneKeeps
  <2>3. CASE NewBlueprint(OwnComponents(n), <<>>) /\ Return(<<NewCell>>)
    <3>1. OwnComponents(n) \in Prototype /\ <<>> \in Seq(Nat \ {0}) /\ Members(<<>>) \subseteq Cell
      BY <1>2, PrototypesHeld DEF Members
    <3> QED
      BY <1>1, <2>3, <3>1, ReturnsNewKeeps
  <2> QED
    BY <1>4, <2>1, <2>2, <2>3
<1> QED
  BY <1>1, <1>3, <1>5 DEF LoaderInv, Running

(* The rest of loadEntity, with the blueprints of the children. *)
LEMMA EntityChildrenKeeps ==
    ASSUME LoaderInv, EntityChildrenLoaded
    PROVE  LoaderInv'
<1>1. /\ Running /\ stack # <<>> /\ Caller.fn = "entity"
      /\ NewBlueprint(OwnComponents(Caller.node), ret.blueprints) /\ Return(<<NewCell>>)
      /\ UNCHANGED <<yaml, pending, entities, phase, created, alive>>
  BY DEF EntityChildrenLoaded, Resumed, UnchangedWorld, Caller
<1>2. /\ Caller.node \in Node /\ ret.blueprints \in Seq(Nat \ {0})
      /\ Members(ret.blueprints) \subseteq Cell
  BY <1>1, ActiveFacts
<1>3. OwnComponents(Caller.node) \in Prototype
  BY <1>2, PrototypesHeld
<1>4. ControlOK' /\ WellFormed(blueprints)'
  BY <1>1, <1>2, <1>3, ReturnsNewKeeps
<1> QED
  BY <1>1, <1>4, QuietStep DEF LoaderInv

(* loadGroup. *)
LEMMA GroupKeeps ==
    ASSUME LoaderInv, LoadGroup \/ GroupChildrenLoaded
    PROVE  LoaderInv'
<1> DEFINE n == Caller.node
<1>1. /\ Running /\ stack # <<>> /\ Caller.fn = "group"
      /\ UNCHANGED <<yaml, pending, entities, phase, created, alive>>
  BY DEF LoadGroup, GroupChildrenLoaded, In, Resumed, UnchangedWorld, Caller
<1>2. /\ Len(blueprints) \in Nat /\ FrameOK(Caller, Len(blueprints)) /\ n \in Node
      /\ ret.blueprints \in Seq(Nat \ {0}) /\ Members(ret.blueprints) \subseteq 1 .. Len(blueprints)
  BY <1>1, ActiveFacts
<1>3. \/ Throw /\ UNCHANGED blueprints
      \/ /\ CallFrom(Caller, Invoke("scene", NoNode, NoName, yaml.children[n]))
         /\ UNCHANGED blueprints
      \/ Return(<<>>) /\ UNCHANGED blueprints
      \/ /\ blueprints' = SetDefaults(n, ret.blueprints) \/ UNCHANGED blueprints
         /\ Return(ret.blueprints)
  BY DEF LoadGroup, GroupChildrenLoaded
<1>4. ControlOK' /\ WellFormed(blueprints)'
  <2>1. CASE Throw /\ UNCHANGED blueprints
    BY <1>1, <2>1, ThrowsKeeps
  <2>2. CASE /\ CallFrom(Caller, Invoke("scene", NoNode, NoName, yaml.children[n]))
             /\ UNCHANGED blueprints
    <3>1. ~ AtFile(Caller)
      BY <1>1 DEF AtFile
    <3> QED
      BY <1>1, <1>2, <2>2, <3>1, CallsSceneKeeps
  <2>3. CASE Return(<<>>) /\ UNCHANGED blueprints
    <3>1. HeapGrows /\ WellFormed(blueprints)'
      BY <2>3, HeapUnchanged
    <3>2. <<>> \in Seq(Nat \ {0}) /\ Members(<<>>) \subseteq 1 .. Len(blueprints')
      BY DEF Members
    <3> QED
      BY <1>1, <2>3, <3>1, <3>2, ReturnKeeps DEF LoaderInv
  <2>4. CASE /\ blueprints' = SetDefaults(n, ret.blueprints) \/ UNCHANGED blueprints
             /\ Return(ret.blueprints)
    <3>1. HeapGrows /\ WellFormed(blueprints)' /\ Len(blueprints') = Len(blueprints)
      BY <1>2, <2>4, SetDefaultsKeeps, HeapUnchanged
    <3>2. Members(ret.blueprints) \subseteq 1 .. Len(blueprints')
      BY <1>2, <3>1
    <3> QED
      BY <1>1, <1>2, <2>4, <3>1, <3>2, ReturnKeeps DEF LoaderInv
  <2> QED
    BY <1>3, <2>1, <2>2, <2>3, <2>4
<1> QED
  BY <1>1, <1>4, QuietStep DEF LoaderInv

(* loadTemplate of a node, up to the call for its file. *)
LEMMA LoadTemplateKeeps ==
    ASSUME LoaderInv, LoadTemplate
    PROVE  LoaderInv'
<1> DEFINE n == Caller.node
           frame == [Caller EXCEPT !.pc = "file"]
           callee == Invoke("templateFile", n, Caller.name, <<>>)
<1>1. /\ Running /\ stack # <<>> /\ Caller.fn = "template"
      /\ UNCHANGED <<yaml, pending, entities, phase>>
      /\ created' \in {created, created + 1}
  BY DEF LoadTemplate, NewPrototype, In, UnchangedWorld, Caller
<1>2. /\ Len(blueprints) \in Nat /\ FrameOK(Caller, Len(blueprints))
      /\ n \in Node /\ Caller.name \in Name
  BY <1>1, ActiveFacts
<1>3. \/ Throw /\ UNCHANGED <<blueprints, alive>>
      \/ CallFrom(frame, callee) /\ UNCHANGED <<blueprints, alive>>
      \/ UNCHANGED <<stack, ret, blueprints>> /\ alive' = FALSE
      \/ NewBlueprint(Empty, <<>>) /\ Return(<<NewCell>>) /\ UNCHANGED alive
  BY DEF LoadTemplate
<1>4. alive' \in BOOLEAN
  BY <1>3 DEF LoaderInv
<1>5. ControlOK' /\ WellFormed(blueprints)'
  <2>1. CASE Throw /\ UNCHANGED <<blueprints, alive>>
    BY <1>1, <2>1, ThrowsKeeps
  <2>2. CASE CallFrom(frame, callee) /\ UNCHANGED <<blueprints, alive>>
    <3>1. HeapGrows /\ WellFormed(blueprints)' /\ Len(blueprints') = Len(blueprints)
      BY <2>2, HeapUnchanged
    <3>2. FrameOK(frame, Len(blueprints')) /\ frame.fn = Caller.fn
      BY <1>2, <3>1, FrameAtFile
    <3>3. FrameOK(callee, Len(blueprints')) /\ callee.fn = "templateFile"
      BY <1>2, <3>1, InvokedNode
    <3> HIDE DEF frame, callee
    <3> QED
      BY <1>1, <2>2, <3>1, <3>2, <3>3, CallKeeps DEF LoaderInv
  <2>3. CASE UNCHANGED <<stack, ret, blueprints>>
    BY <2>3, ControlUnchanged DEF LoaderInv
  <2>4. CASE NewBlueprint(Empty, <<>>) /\ Return(<<NewCell>>)
    <3>1. Empty \in Prototype /\ <<>> \in Seq(Nat \ {0}) /\ Members(<<>>) \subseteq Cell
      BY <1>2, PrototypesHeld DEF Members
    <3> QED
      BY <1>1, <2>4, <3>1, ReturnsNewKeeps
  <2> QED
    BY <1>3, <2>1, <2>2, <2>3, <2>4
<1> QED
  BY <1>1, <1>4, <1>5, QuietStep DEF LoaderInv

(* The loop over the instances, of a blueprint on the heap. *)
LEMMA StartInstancesKeeps ==
    ASSUME LoaderInv, stack # <<>>, HeapGrows, NEW n \in Node,
           NEW b \in 1 .. Len(blueprints'), StartInstances(n, b)
    PROVE  ControlOK'
<1> DEFINE count == IF Asked(n, "instances") THEN yaml.instances[n] ELSE 0
           frame == [Caller EXCEPT !.pc = "instances", !.out = <<b>>, !.left = count]
<1>1. Throw \/ Continue(frame)
  BY DEF StartInstances
<1>2. count \in Nat
  BY YamlTypes
<1>3. FrameOK(Caller, Len(blueprints')) /\ Len(blueprints') \in Nat
  BY ActiveFacts, FrameKept DEF HeapGrows
<1> HIDE DEF count
<1>4. FrameOK(frame, Len(blueprints')) /\ frame.fn = Caller.fn
  <2> DEFINE out == <<b>>
             m == Len(blueprints')
  <2>1. m \in Nat /\ b \in 1 .. m /\ FrameOK(Caller, m)
    BY <1>3
  <2> HIDE DEF m
  <2>2. out \in Seq(Nat \ {0}) /\ out # <<>> /\ Members(out) \subseteq 1 .. m
    BY <2>1 DEF Members
  <2>3. frame = [Caller EXCEPT !.pc = "instances", !.out = out, !.left = count]
    OBVIOUS
  <2> HIDE DEF out, frame
  <2>4. FrameOK(frame, m) /\ frame.fn = Caller.fn
    BY <1>2, <2>1, <2>2, <2>3 DEF FrameOK, Frame
  <2> QED
    BY <2>4 DEF m
<1> HIDE DEF frame
<1>5. CASE Throw
  BY <1>5, PopsToNothing DEF LoaderInv, Throw
<1>6. CASE Continue(frame)
  BY <1>4, <1>6, ContinueKeeps DEF LoaderInv
<1> QED
  BY <1>1, <1>5, <1>6

(* The blueprint of the file is there. *)
LEMMA TemplateFileLoadedKeeps ==
    ASSUME LoaderInv, TemplateFileLoaded
    PROVE  LoaderInv'
<1> DEFINE n == Caller.node
           b == Head(ret.blueprints)
           frame == [Caller EXCEPT !.pc = "children", !.out = <<b>>]
<1>1. /\ Running /\ stack # <<>> /\ Caller.fn = "template" /\ Caller.pc = "file"
      /\ ret.tag = "value"
      /\ UNCHANGED <<yaml, pending, entities, phase, blueprints, created, alive>>
  BY DEF TemplateFileLoaded, Resumed, UnchangedWorld, Caller
<1>2. /\ Len(blueprints) \in Nat /\ FrameOK(Caller, Len(blueprints)) /\ n \in Node
      /\ ret.blueprints \in Seq(Nat \ {0}) /\ Members(ret.blueprints) \subseteq 1 .. Len(blueprints)
  BY <1>1, ActiveFacts
<1>3. b \in 1 .. Len(blueprints)
  <2>1. AtFile(Top(stack))
    BY <1>1 DEF AtFile, Caller
  <2>2. ret.blueprints # <<>>
    BY <1>1, <2>1 DEF LoaderInv, ControlOK, ResultOK
  <2> QED
    BY <1>2, <2>2, TailMembers
<1>4. \/ Throw
      \/ CallFrom(frame, Invoke("scene", NoNode, NoName, yaml.children[n]))
      \/ StartInstances(n, b)
  BY DEF TemplateFileLoaded
<1>5. HeapGrows /\ WellFormed(blueprints)' /\ Len(blueprints') = Len(blueprints)
  BY <1>1, HeapUnchanged
<1> HIDE DEF b
<1>6. ControlOK'
  <2>1. CASE Throw
    BY <1>1, <2>1, ThrowsKeeps
  <2>2. CASE CallFrom(frame, Invoke("scene", NoNode, NoName, yaml.children[n]))
    <3>1. FrameOK(frame, Len(blueprints)) /\ frame.fn = Caller.fn /\ ~ AtFile(frame)
      BY <1>2, <1>3, FrameAtChildren
    <3> HIDE DEF frame
    <3> QED
      BY <1>1, <1>2, <2>2, <3>1, CallsSceneKeeps
  <2>3. CASE StartInstances(n, b)
    BY <1>1, <1>2, <1>3, <1>5, <2>3, StartInstancesKeeps
  <2> QED
    BY <1>4, <2>1, <2>2, <2>3
<1> QED
  BY <1>1, <1>5, <1>6, QuietStep DEF LoaderInv

(* So are the blueprints of the children. *)
LEMMA TemplateChildrenKeeps ==
    ASSUME LoaderInv, TemplateChildrenLoaded
    PROVE  LoaderInv'
<1> DEFINE n == Caller.node
           b == Head(Caller.out)
           source == blueprints[b]
           kids == source.children \o ret.blueprints
<1>1. /\ Running /\ stack # <<>> /\ Caller.fn = "template" /\ Caller.pc = "children"
      /\ NewBlueprint(source.prototype, kids) /\ StartInstances(n, NewCell)
      /\ UNCHANGED <<yaml, pending, entities, phase, created, alive>>
  BY DEF TemplateChildrenLoaded, Resumed, UnchangedWorld, Caller
<1>2. /\ Len(blueprints) \in Nat /\ FrameOK(Caller, Len(blueprints)) /\ n \in Node
      /\ Caller.out \in Seq(Nat \ {0}) /\ Members(Caller.out) \subseteq 1 .. Len(blueprints)
      /\ ret.blueprints \in Seq(Nat \ {0}) /\ Members(ret.blueprints) \subseteq 1 .. Len(blueprints)
  BY <1>1, ActiveFacts
<1>3. b \in 1 .. Len(blueprints)
  <2>1. Caller.out # <<>>
    BY <1>1, <1>2 DEF FrameOK
  <2> QED
    BY <1>2, <2>1, TailMembers
<1> HIDE DEF b
<1>4. /\ source.prototype \in Prototype /\ source.children \in Seq(Nat \ {0})
      /\ Members(source.children) \subseteq 1 .. Len(blueprints)
  <2>1. blueprints \in Seq(Blueprint) /\ DOMAIN blueprints = 1 .. Len(blueprints)
    BY LenProperties DEF LoaderInv, WellFormed
  <2>2. source \in Blueprint
    BY <1>3, <2>1, ElementOfSeq
  <2>3. source.prototype \in Prototype /\ source.children \in Seq(Nat \ {0})
    BY <2>2 DEF Blueprint
  <2>4. \A i \in DOMAIN source.children : source.children[i] \in 1 .. b - 1
    BY <1>3, <2>1 DEF LoaderInv, WellFormed
  <2>5. \A i \in DOMAIN source.children : source.children[i] \in 1 .. Len(blueprints)
    BY <1>2, <1>3, <2>4
  <2> QED
    BY <2>3, <2>5 DEF Members
<1> HIDE DEF source
<1>5. kids \in Seq(Nat \ {0}) /\ Members(kids) \subseteq Cell
  <2>1. /\ kids \in Seq(Nat \ {0})
        /\ Members(kids) \subseteq Members(source.children) \cup Members(ret.blueprints)
    BY <1>2, <1>4, ConcatMembers
  <2> QED
    BY <1>2, <1>4, <2>1 DEF Cell
<1> HIDE DEF kids
<1>6. HeapGrows /\ WellFormed(blueprints)' /\ NewCell \in 1 .. Len(blueprints')
  BY <1>1, <1>4, <1>5, NewBlueprintKeeps
<1>7. ControlOK'
  BY <1>1, <1>2, <1>6, StartInstancesKeeps
<1> QED
  BY <1>1, <1>6, <1>7, QuietStep DEF LoaderInv

(* The loop over the instances (lines 215-217). *)
LEMMA InstancesKeeps ==
    ASSUME LoaderInv, InstantiateTemplate \/ TemplateReturn
    PROVE  LoaderInv'
<1>1. /\ Running /\ stack # <<>> /\ Caller.fn = "template"
      /\ UNCHANGED <<yaml, pending, entities, phase>>
  BY DEF InstantiateTemplate, TemplateReturn, In, UnchangedWorld, Caller
<1>2. /\ Len(blueprints) \in Nat /\ FrameOK(Caller, Len(blueprints)) /\ Caller.left \in Nat
      /\ Caller.out \in Seq(Nat \ {0}) /\ Members(Caller.out) \subseteq 1 .. Len(blueprints)
  BY <1>1, ActiveFacts
<1>3. CASE InstantiateTemplate
  <2> DEFINE frame == [Caller EXCEPT !.left = Caller.left - 1]
  <2>1. /\ Continue(frame) /\ Caller.left > 0
        /\ Factory!InstantiateRoot(Head(Caller.out))
    BY <1>3 DEF InstantiateTemplate
  <2>2. UNCHANGED blueprints /\ created' \in Nat /\ alive' \in BOOLEAN
    BY <2>1, RootEntered
  <2>3. HeapGrows /\ WellFormed(blueprints)' /\ Len(blueprints') = Len(blueprints)
    BY <2>2, HeapUnchanged
  <2>4. Caller.left - 1 \in Nat
    BY <1>2, <2>1
  <2>5. FrameOK(frame, Len(blueprints')) /\ frame.fn = Caller.fn
    BY <1>2, <2>3, <2>4, FrameWithLeft
  <2> HIDE DEF frame
  <2>6. ControlOK'
    BY <1>1, <2>1, <2>3, <2>5, ContinueKeeps DEF LoaderInv
  <2> QED
    BY <1>1, <2>2, <2>3, <2>6, QuietStep
<1>4. CASE TemplateReturn
  <2>1. Return(Caller.out) /\ UNCHANGED <<blueprints, created, alive>>
    BY <1>4 DEF TemplateReturn
  <2>2. HeapGrows /\ WellFormed(blueprints)' /\ Len(blueprints') = Len(blueprints)
    BY <2>1, HeapUnchanged
  <2>3. ControlOK'
    BY <1>1, <1>2, <2>1, <2>2, ReturnKeeps DEF LoaderInv
  <2> QED
    BY <1>1, <2>1, <2>2, <2>3, QuietStep DEF LoaderInv
<1> QED
  BY <1>3, <1>4

(* loadTemplate of a file. *)
LEMMA TemplateFileKeeps ==
    ASSUME LoaderInv, LoadTemplateFile \/ TemplateFileParsed \/ TemplateFileCrash
    PROVE  LoaderInv'
<1> DEFINE n == Caller.node
<1>0. created \in Nat /\ created + 1 \in Nat
  BY DEF LoaderInv
<1>1. /\ Running /\ stack # <<>> /\ Caller.fn = "templateFile"
      /\ UNCHANGED <<yaml, pending, entities, phase>>
      /\ created' \in {created, created + 1}
  BY DEF LoadTemplateFile, TemplateFileParsed, TemplateFileCrash, NewPrototype, In, Threw, Resumed,
         UnchangedWorld, Caller
<1>2. /\ Len(blueprints) \in Nat /\ FrameOK(Caller, Len(blueprints))
      /\ n \in Node /\ Caller.name \in Name
  BY <1>1, ActiveFacts
<1>3. CASE LoadTemplateFile
  <2> DEFINE root == TemplateRoot(n)
             fn == yaml.type[root]
             callee == Invoke(fn, root, Caller.name, <<>>)
  <2>1. \/ Throw
        \/ HasTemplate(n) /\ CallFrom(Caller, callee)
    BY <1>3 DEF LoadTemplateFile
  <2>2. UNCHANGED <<blueprints, alive>>
    BY <1>3 DEF LoadTemplateFile
  <2>3. HeapGrows /\ WellFormed(blueprints)' /\ Len(blueprints') = Len(blueprints)
    BY <2>2, HeapUnchanged
  <2>4. ASSUME HasTemplate(n)
        PROVE  /\ FrameOK(callee, Len(blueprints')) /\ callee.fn = fn
               /\ fn # "sceneFile"
    <3>1. yaml.source[n] \in File
      BY <1>2, YamlTypes
    <3>2. root \in Node \cup {NoNode} /\ root # NoNode
      BY <2>4, <3>1, YamlTypes DEF TemplateRoot, HasTemplate
    <3>3. fn \in {"entity", "template"}
      BY <2>4 DEF HasTemplate
    <3> HIDE DEF root, fn
    <3> QED
      BY <1>2, <2>3, <3>2, <3>3, InvokedNode
  <2> HIDE DEF fn, callee, root
  <2>5. ControlOK'
    <3>1. CASE Throw
      BY <1>1, <2>2, <3>1, ThrowsKeeps
    <3>2. CASE HasTemplate(n) /\ CallFrom(Caller, callee)
      <4>1. ~ AtFile(Caller)
        BY <1>1 DEF AtFile
      <4> QED
        BY <1>1, <1>2, <2>3, <2>4, <3>2, <4>1, CallKeeps DEF LoaderInv
    <3> QED
      BY <2>1, <3>1, <3>2
  <2> QED
    BY <1>1, <2>2, <2>3, <2>5, QuietStep DEF LoaderInv
<1>4. CASE TemplateFileParsed
  <2>1. NewBlueprint(Empty, <<>>) /\ Return(<<NewCell>>) /\ UNCHANGED alive
    BY <1>4 DEF TemplateFileParsed
  <2>2. Empty \in Prototype /\ <<>> \in Seq(Nat \ {0}) /\ Members(<<>>) \subseteq Cell
    BY <1>2, PrototypesHeld DEF Members
  <2>3. ControlOK' /\ WellFormed(blueprints)'
    BY <1>1, <2>1, <2>2, ReturnsNewKeeps
  <2> QED
    BY <1>1, <2>1, <2>3, QuietStep DEF LoaderInv
<1>5. CASE TemplateFileCrash
  <2>1. UNCHANGED <<stack, ret, blueprints>> /\ alive' = FALSE
    BY <1>5 DEF TemplateFileCrash
  <2>2. ControlOK' /\ WellFormed(blueprints)'
    BY <2>1, ControlUnchanged DEF LoaderInv
  <2> QED
    BY <1>0, <1>1, <2>1, <2>2, QuietStep
<1> QED
  BY <1>3, <1>4, <1>5

(* An exception on its way. *)
LEMMA UnwindKeeps ==
    ASSUME LoaderInv, Unwind
    PROVE  LoaderInv'
<1>1. /\ Running /\ stack # <<>> /\ Throw
      /\ UNCHANGED <<yaml, pending, entities, phase, blueprints, created, alive>>
  BY DEF Unwind, Threw, UnchangedWorld
<1>2. ControlOK' /\ WellFormed(blueprints)'
  BY <1>1, ThrowsKeeps
<1> QED
  BY <1>1, <1>2, QuietStep DEF LoaderInv

(* instantiate at work: it leaves the heap alone, and load is running. *)
LEMMA InstantiatingFacts ==
    ASSUME LoaderInv, Factory!Instantiating
    PROVE  /\ UNCHANGED blueprints /\ calls # <<>>
           /\ created' \in {created, created + 1} /\ alive' \in BOOLEAN
<1>1. CASE Factory!InstantiateChild
  <2>1. PICK b : Factory!Enter(b)
    BY <1>1 DEF Factory!InstantiateChild
  <2>2. alive' \in BOOLEAN
    BY <2>1 DEF Factory!Enter, Factory!GiveTimeAware, LoaderInv
  <2> QED
    BY <1>1, <2>1, <2>2 DEF Factory!InstantiateChild, Factory!Enter
<1>2. CASE Factory!ReturnChild \/ Factory!ReturnRoot
  <2>1. UNCHANGED <<blueprints, created, alive>> /\ Len(calls) # 0
    BY <1>2 DEF Factory!ReturnChild, Factory!ReturnRoot
  <2>2. Len(<<>>) = 0
    OBVIOUS
  <2> QED
    BY <2>1, <2>2 DEF LoaderInv
<1> QED
  BY <1>1, <1>2 DEF Factory!Instantiating

(* So LoaderInv is kept by what instantiate does. *)
LEMMA FactoryKeeps ==
    ASSUME LoaderInv, FactoryStep
    PROVE  LoaderInv'
<1>1. /\ UNCHANGED <<yaml, pending, stack, ret, entities, phase>>
      /\ UNCHANGED blueprints /\ calls # <<>>
      /\ created' \in Nat /\ alive' \in BOOLEAN
  BY InstantiatingFacts DEF FactoryStep, loaderVars, LoaderInv
<1>2. ControlOK' /\ WellFormed(blueprints)'
  BY <1>1, ControlUnchanged DEF LoaderInv
<1> QED
  BY <1>1, <1>2 DEF LoaderInv, NamesOK

-----------------------------------------------------------------------------
(* Type correctness. *)

(* LoaderInv holds before load. *)
LEMMA InitLoader == Init => LoaderInv
<1> SUFFICES ASSUME Init
             PROVE  LoaderInv
  OBVIOUS
<1>1. /\ yaml \in DocumentType /\ pending = yaml.scenes /\ stack = <<>> /\ ret = NoResult
      /\ entities = <<>> /\ phase = "loading" /\ blueprints = <<>>
      /\ created = 0 /\ alive = TRUE /\ calls = <<>>
  BY DocumentsAssumption DEF Init, Factory!FactoryInit
<1>2. pending \in Seq(File)
  BY <1>1 DEF DocumentType
<1>3. StackOK(<<>>, Len(blueprints))
  BY DEF StackOK
<1>4. ControlOK
  BY <1>1, <1>3, EmptyResults DEF ControlOK
<1>5. WellFormed(<<>>)
  BY DEF WellFormed
<1> QED
  BY <1>1, <1>2, <1>4, <1>5 DEF LoaderInv, NamesOK

(* LoaderInv is inductive. *)
LEMMA LoaderStepKeeps ==
    ASSUME LoaderInv, [Next]_vars
    PROVE  LoaderInv'
<1>1. CASE UNCHANGED vars
  <2>1. /\ UNCHANGED <<yaml, pending, stack, ret, entities, phase, blueprints, created>>
        /\ UNCHANGED <<calls, alive>>
    BY <1>1 DEF vars, loaderVars
  <2>2. ControlOK'
    BY <2>1, ControlUnchanged DEF LoaderInv
  <2> QED
    BY <2>1, <2>2 DEF LoaderInv, NamesOK
<1>2. CASE LoadNextScene \/ LoadUnreadableScene \/ LoadDone
  BY <1>2, LoadNextSceneKeeps, LoadEnds
<1>3. CASE SceneLoaded \/ SceneSwallowed \/ InstantiateScene \/ SceneFileDone
  BY <1>3, SceneFileKeeps
<1>4. CASE VisitNode \/ SceneCollect \/ SceneReturn
  BY <1>4, SceneKeeps
<1>5. CASE LoadEntity \/ EntityChildrenLoaded
  BY <1>5, LoadEntityKeeps, EntityChildrenKeeps
<1>6. CASE LoadGroup \/ GroupChildrenLoaded
  BY <1>6, GroupKeeps
<1>7. CASE LoadTemplate \/ TemplateFileLoaded \/ TemplateChildrenLoaded
  BY <1>7, LoadTemplateKeeps, TemplateFileLoadedKeeps, TemplateChildrenKeeps
<1>8. CASE InstantiateTemplate \/ TemplateReturn
  BY <1>8, InstancesKeeps
<1>9. CASE LoadTemplateFile \/ TemplateFileParsed \/ TemplateFileCrash
  BY <1>9, TemplateFileKeeps
<1>10. CASE Unwind \/ FactoryStep
  BY <1>10, UnwindKeeps, FactoryKeeps
<1> QED
  BY <1>1, <1>2, <1>3, <1>4, <1>5, <1>6, <1>7, <1>8, <1>9, <1>10 DEF Next

(* LoaderInv holds at every moment of load. *)
LEMMA LoaderInvariant == Spec => []LoaderInv
  BY InitLoader, LoaderStepKeeps, PTL DEF Spec

(* For any documents: every variable keeps its type; frames and results only *)
(* name blueprints that exist, the first element of a result that line 205   *)
(* takes among them; and load returns, or throws, only when every function   *)
(* it called has ended.                                                      *)
THEOREM TypeCorrect == Spec => []TypeOK
<1>1. LoaderInv => TypeOK
  <2> SUFFICES ASSUME LoaderInv
               PROVE  TypeOK
    OBVIOUS
  <2>1. /\ stack \in Seq(Frame) /\ ret \in Result
        /\ \A k \in DOMAIN stack : Members(stack[k].out) \subseteq Cell
        /\ Members(ret.blueprints) \subseteq Cell
        /\ \A k \in DOMAIN stack : (stack[k].fn = "sceneFile") = (k = 1)
    BY DEF LoaderInv, ControlOK, StackOK, ResultOK, FrameOK, Cell
  <2> QED
    BY <2>1 DEF TypeOK, LoaderInv, NamesOK, WellFormed
<1> QED
  BY <1>1, LoaderInvariant, PTL

-----------------------------------------------------------------------------
(* Names. *)

(* Only loadEntity names an entity, with emplace. *)
LEMMA NamingSteps ==
    ASSUME [Next]_vars
    PROVE  \/ UNCHANGED entities
           \/ entities' = Put(entities, Caller.name, created) /\ Caller.name \notin DOMAIN entities
              /\ LoadEntity
<1>1. CASE LoadEntity
  BY <1>1 DEF LoadEntity, Emplace
<1>2. CASE LoadNextScene \/ LoadUnreadableScene \/ LoadDone \/ SceneLoaded \/ SceneSwallowed
           \/ InstantiateScene \/ SceneFileDone \/ VisitNode \/ SceneCollect \/ SceneReturn
  BY <1>2 DEF LoadNextScene, LoadUnreadableScene, LoadDone, SceneLoaded, SceneSwallowed,
              InstantiateScene, SceneFileDone, VisitNode, SceneCollect, SceneReturn,
              UnchangedWorld
<1>3. CASE EntityChildrenLoaded \/ LoadGroup \/ GroupChildrenLoaded \/ LoadTemplate
           \/ TemplateFileLoaded \/ TemplateChildrenLoaded \/ InstantiateTemplate
           \/ TemplateReturn \/ LoadTemplateFile \/ TemplateFileParsed \/ TemplateFileCrash
           \/ Unwind \/ FactoryStep
  BY <1>3 DEF EntityChildrenLoaded, LoadGroup, GroupChildrenLoaded, LoadTemplate,
              TemplateFileLoaded, TemplateChildrenLoaded, InstantiateTemplate,
              TemplateReturn, LoadTemplateFile, TemplateFileParsed, TemplateFileCrash,
              Unwind, FactoryStep, UnchangedWorld, loaderVars
<1>4. CASE UNCHANGED vars
  BY <1>4 DEF vars, loaderVars
<1> QED
  BY <1>1, <1>2, <1>3, <1>4 DEF Next

(* A name, once it leads to an entity, leads to that entity for good: not    *)
(* another node of the name, nor a scene that is dropped, changes it.        *)
THEOREM NamesKeepTheirEntities == Spec => NamesNeverRebound
<1>1. [Next]_vars =>
        [\A n \in DOMAIN entities :
            n \in DOMAIN entities' /\ entities'[n] = entities[n]]_vars
  <2> SUFFICES ASSUME [Next]_vars, NEW n \in DOMAIN entities
               PROVE  n \in DOMAIN entities' /\ entities'[n] = entities[n]
    OBVIOUS
  <2>1. CASE UNCHANGED entities
    BY <2>1
  <2>2. CASE entities' = Put(entities, Caller.name, created) /\ Caller.name \notin DOMAIN entities
    BY <2>2 DEF Put
  <2> QED
    BY <2>1, <2>2, NamingSteps
<1> QED
  BY <1>1, PTL DEF Spec, NamesNeverRebound

-----------------------------------------------------------------------------
(* The loader uses the factory as EntityFactory says. *)

(* A step is one of the factory's, or it only creates a bare entity or builds *)
(* blueprints while no instantiate call is active.                            *)
LEMMA StepsOfTheLoader ==
    ASSUME LoaderInv, Next
    PROVE  \/ \E b : Factory!InstantiateRoot(b)
           \/ Factory!Instantiating
           \/ Running /\ created' \in created .. created + 2 /\ UNCHANGED <<registryVars, calls>>
<1> DEFINE quiet == Running /\ created' \in created .. created + 2
                    /\ UNCHANGED <<registryVars, calls>>
<1>0. created \in Nat
  BY DEF LoaderInv
<1>1. CASE LoadNextScene \/ LoadUnreadableScene \/ LoadDone
  <2>1. quiet
    BY <1>0, <1>1 DEF LoadNextScene, LoadUnreadableScene, LoadDone, UnchangedWorld
  <2> QED
    BY <2>1
<1>2. CASE SceneLoaded \/ SceneSwallowed \/ SceneFileDone \/ VisitNode \/ SceneCollect
           \/ SceneReturn
  <2>1. quiet
    BY <1>0, <1>2 DEF SceneLoaded, SceneSwallowed, SceneFileDone, VisitNode, SceneCollect,
                SceneReturn, UnchangedWorld, In, Resumed, Threw
  <2> QED
    BY <2>1
<1>3. CASE LoadEntity \/ EntityChildrenLoaded \/ LoadGroup \/ GroupChildrenLoaded
  <2>1. quiet
    BY <1>0, <1>3 DEF LoadEntity, EntityChildrenLoaded, LoadGroup, GroupChildrenLoaded, Create,
                UnchangedWorld, In, Resumed
  <2> QED
    BY <2>1
<1>4. CASE LoadTemplate \/ TemplateFileLoaded \/ TemplateChildrenLoaded \/ TemplateReturn
  <2>1. quiet
    BY <1>0, <1>4 DEF LoadTemplate, NewPrototype, TemplateFileLoaded, TemplateChildrenLoaded, TemplateReturn,
                UnchangedWorld, In, Resumed
  <2> QED
    BY <2>1
<1>5. CASE LoadTemplateFile \/ TemplateFileParsed \/ TemplateFileCrash \/ Unwind
  <2>1. quiet
    BY <1>0, <1>5 DEF LoadTemplateFile, NewPrototype, TemplateFileParsed, TemplateFileCrash, Unwind,
                UnchangedWorld, In, Resumed, Threw
  <2> QED
    BY <2>1
<1>6. CASE InstantiateScene \/ InstantiateTemplate
  BY <1>6 DEF InstantiateScene, InstantiateTemplate
<1>7. CASE FactoryStep
  BY <1>7 DEF FactoryStep
<1> QED
  BY <1>1, <1>2, <1>3, <1>4, <1>5, <1>6, <1>7 DEF Next

(* Every step of the loader is a step of the factory's specification. *)
LEMMA StepsOfTheFactory ==
    ASSUME LoaderInv, LoaderInv', [Next]_vars
    PROVE  [Factory!Next]_(Factory!factoryVars)
<1>1. CASE \E b : Factory!InstantiateRoot(b)
  <2>1. PICK b : Factory!InstantiateRoot(b)
    BY <1>1
  <2>2. b \in DOMAIN blueprints
    BY <2>1 DEF Factory!InstantiateRoot
  <2> QED
    BY <2>1, <2>2 DEF Factory!Next
<1>2. CASE Factory!Instantiating
  BY <1>2 DEF Factory!Instantiating, Factory!Next
<1>3. CASE Running /\ created' \in created .. created + 2 /\ UNCHANGED <<registryVars, calls>>
  <2>1. blueprints' \in {heap \in Seq(Blueprint) : WellFormed(heap)}
    BY DEF LoaderInv, WellFormed
  <2>2. alive' \in BOOLEAN
    BY DEF LoaderInv
  <2>3. alive /\ calls = <<>> /\ created' \in created .. created + 2
        /\ UNCHANGED <<componentsOf, timeAware, parentOf, childrenOf, calls>>
    BY <1>3 DEF Running, registryVars
  <2>4. Factory!LoaderStep
    BY <2>1, <2>2, <2>3 DEF Factory!LoaderStep
  <2> QED
    BY <2>4 DEF Factory!Next
<1>4. CASE UNCHANGED vars
  BY <1>4 DEF vars, registryVars, Factory!factoryVars, Factory!registry
<1> QED
  BY <1>1, <1>2, <1>3, <1>4, StepsOfTheLoader

(* The loader implements EntityFactory: complete, acyclic blueprints go into *)
(* instantiate, and nothing else touches the registry while it runs.         *)
THEOREM LoaderImplementsFactory == Spec => ImplementsFactory
<1>1. Init => Factory!Init
  <2>1. Init => blueprints \in {heap \in Seq(Blueprint) : WellFormed(heap)}
    BY InitLoader DEF LoaderInv, WellFormed
  <2> QED
    BY <2>1 DEF Init, Factory!Init
<1>2. LoaderInv /\ LoaderInv' /\ [Next]_vars => [Factory!Next]_(Factory!factoryVars)
  BY StepsOfTheFactory
<1> QED
  BY <1>1, <1>2, LoaderInvariant, PTL DEF Spec, ImplementsFactory, Factory!Spec

-----------------------------------------------------------------------------
(* So what is proved of the factory holds of the loader.  Proved is the      *)
(* instance of EntityFactory_proofs with the loader's variables; its          *)
(* definitions are those of Factory.                                         *)

Proved == INSTANCE EntityFactory_proofs
          WITH Forests <- {heap \in Seq(Blueprint) : WellFormed(heap)}

(* What EntityFactory assumes of its heaps. *)
LEMMA HeapsWellFormed ==
    \A heap \in {h \in Seq(Blueprint) : WellFormed(h)} : Proved!WellFormed(heap)
BY DEF WellFormed, Proved!WellFormed, Blueprint, Proved!Blueprint, Prototype, Proved!Prototype

(* Factory and Proved have the same specification. *)
LEMMA SameSpecification == Factory!Spec => Proved!Spec
<1> USE DEF Factory!Put, Proved!Put, Factory!Top, Proved!Top, Factory!Pop, Proved!Pop,
            Factory!Enter, Proved!Enter, Factory!GiveTimeAware, Proved!GiveTimeAware,
            Factory!ChildrenLeft, Proved!ChildrenLeft,
            Factory!TimeAwareTarget, Proved!TimeAwareTarget,
            Factory!DefaultTimeScale, Proved!DefaultTimeScale
<1>1. Factory!Init => Proved!Init
  BY DEF Factory!Init, Proved!Init, Factory!FactoryInit, Proved!FactoryInit
<1>2. ASSUME NEW b PROVE Factory!InstantiateRoot(b) = Proved!InstantiateRoot(b)
  BY DEF Factory!InstantiateRoot, Proved!InstantiateRoot
<1>3. Factory!InstantiateChild = Proved!InstantiateChild
  BY DEF Factory!InstantiateChild, Proved!InstantiateChild
<1>4. Factory!ReturnChild = Proved!ReturnChild
  BY DEF Factory!ReturnChild, Proved!ReturnChild
<1>5. Factory!ReturnRoot = Proved!ReturnRoot
  BY DEF Factory!ReturnRoot, Proved!ReturnRoot
<1>6. Factory!LoaderStep = Proved!LoaderStep
  BY DEF Factory!LoaderStep, Proved!LoaderStep
<1>7. [Factory!Next]_(Factory!factoryVars) => [Proved!Next]_(Proved!factoryVars)
  <2>1. Factory!Next => Proved!Next
    BY <1>2, <1>3, <1>4, <1>5, <1>6 DEF Factory!Next, Proved!Next
  <2>2. Factory!factoryVars = Proved!factoryVars
    BY DEF Factory!factoryVars, Proved!factoryVars, Factory!registry, Proved!registry
  <2>3. UNCHANGED Factory!factoryVars => UNCHANGED Proved!factoryVars
    BY DEF Factory!factoryVars, Proved!factoryVars, Factory!registry, Proved!registry
  <2> QED
    BY <2>1, <2>3
<1> QED
  BY <1>1, <1>7, PTL DEF Factory!Spec, Proved!Spec

(* In every scene that is loaded, whenever no instantiate call is active,    *)
(* Parent and Children describe the same tree.                               *)
THEOREM LoadedHierarchyConsistent == Spec => []Factory!HierarchyConsistent
<1>1. Proved!HierarchyConsistent => Factory!HierarchyConsistent
  BY DEF Factory!HierarchyConsistent, Proved!HierarchyConsistent, Factory!Members, Proved!Members
<1>2. Proved!Spec => []Proved!HierarchyConsistent
  BY HeapsWellFormed, Proved!HierarchyAlwaysConsistent
<1> QED
  BY <1>1, <1>2, LoaderImplementsFactory, SameSpecification, PTL DEF ImplementsFactory

(* And it is a forest, at every moment. *)
THEOREM LoadedHierarchyIsForest == Spec => []Factory!HierarchyIsForest
<1>1. Proved!HierarchyIsForest => Factory!HierarchyIsForest
  BY DEF Factory!HierarchyIsForest, Proved!HierarchyIsForest
<1>2. Proved!Spec => []Proved!HierarchyIsForest
  BY HeapsWellFormed, Proved!HierarchyAlwaysForest
<1> QED
  BY <1>1, <1>2, LoaderImplementsFactory, SameSpecification, PTL DEF ImplementsFactory

(* Nor is what it says of an entity ever replaced: Parent and Children are    *)
(* assigned at most once in all the scenes.                                   *)
THEOREM LoadedHierarchyWrittenOnce == Spec => Factory!HierarchyNeverRewritten
<1>1. [Proved!AssignedOnce]_(Proved!factoryVars) => [Factory!AssignedOnce]_(Factory!factoryVars)
  BY DEF Factory!AssignedOnce, Proved!AssignedOnce, Factory!factoryVars, Proved!factoryVars,
         Factory!registry, Proved!registry
<1>2. Proved!Spec => Proved!HierarchyNeverRewritten
  BY HeapsWellFormed, Proved!HierarchyWrittenOnce
<1> QED
  BY <1>1, <1>2, LoaderImplementsFactory, SameSpecification, PTL
     DEF ImplementsFactory, Factory!HierarchyNeverRewritten, Proved!HierarchyNeverRewritten

(* What an instantiate call has built when it returns to the loader. *)
LoadBuildsInstance ==
    Factory!ReturnRoot =>
        \E root \in {calls[1].entity}, b \in {calls[1].blueprint} : Proved!IsInstance(root, b)'

(* And what the loader hands to instantiate is what the registry gets: each   *)
(* call from loadScene or loadTemplate (Loader.cpp:65 and 216) leaves a       *)
(* copy of its blueprint's tree, with every component of the prototypes and   *)
(* the children in their order, and no other entity.                          *)
THEOREM LoadedInstancesAreCopies == Spec => [][LoadBuildsInstance]_(Factory!factoryVars)
<1>1. [Proved!BuildsInstance]_(Proved!factoryVars) => [LoadBuildsInstance]_(Factory!factoryVars)
  <2>1. Factory!ReturnRoot = Proved!ReturnRoot
    BY DEF Factory!ReturnRoot, Proved!ReturnRoot, Factory!Put, Proved!Put, Factory!Top, Proved!Top,
           Factory!ChildrenLeft, Proved!ChildrenLeft
  <2>2. Proved!BuildsInstance => LoadBuildsInstance
    BY <2>1 DEF Proved!BuildsInstance, LoadBuildsInstance
  <2>3. UNCHANGED Proved!factoryVars => UNCHANGED Factory!factoryVars
    BY DEF Factory!factoryVars, Proved!factoryVars, Factory!registry, Proved!registry
  <2> QED BY <2>2, <2>3
<1>2. Proved!Spec => [][Proved!BuildsInstance]_(Proved!factoryVars)
  BY HeapsWellFormed, Proved!InstantiateBuildsItsBlueprint
<1> QED
  BY <1>1, <1>2, LoaderImplementsFactory, SameSpecification, PTL DEF ImplementsFactory

-----------------------------------------------------------------------------
(* Names lead to bare entities. *)

(* What has components or a place in the hierarchy was created. *)
RegistryOK ==
    /\ DOMAIN componentsOf \subseteq 0 .. created - 1
    /\ DOMAIN parentOf \subseteq 0 .. created - 1
    /\ DOMAIN childrenOf \subseteq 0 .. created - 1
    /\ calls \in Seq(Factory!Call)

(* By the type invariant of EntityFactory. *)
LEMMA RegistryTypes == Spec => []RegistryOK
<1>1. Proved!TypeOK => RegistryOK
  BY DEF Proved!TypeOK, RegistryOK, Factory!Call, Proved!Call
<1>2. Proved!Spec => []Proved!TypeOK
  BY HeapsWellFormed, Proved!TypeCorrect
<1> QED
  BY <1>1, <1>2, LoaderImplementsFactory, SameSpecification, PTL DEF ImplementsFactory

(* The strengthening: a named entity was created, and it is not the entity   *)
(* of an active call, which will get its place when the call ends.           *)
Bare(e) ==
    /\ e \in Nat /\ e < created
    /\ e \notin DOMAIN componentsOf
    /\ e \notin DOMAIN parentOf
    /\ e \notin DOMAIN childrenOf
    /\ \A k \in DOMAIN calls : calls[k].entity # e

BareInv == \A n \in DOMAIN entities : Bare(entities[n])

(* An entity that a call creates is another one. *)
LEMMA EnterKeepsBare ==
    ASSUME LoaderInv, RegistryOK, NEW b, Factory!Enter(b), NEW e, Bare(e)
    PROVE  Bare(e)'
<1> DEFINE new == [blueprint |-> b, entity |-> created, children |-> <<>>]
<1>1. /\ created \in Nat /\ created' = created + 1 /\ calls' = Append(calls, new)
      /\ componentsOf' = Factory!Put(componentsOf, created, blueprints[b].prototype)
      /\ UNCHANGED <<parentOf, childrenOf>>
  BY DEF Factory!Enter, LoaderInv
<1>2. new.entity = created
  OBVIOUS
<1> HIDE DEF new
<1>3. /\ calls \in Seq(Factory!Call) /\ Len(calls) \in Nat /\ DOMAIN calls = 1 .. Len(calls)
  BY LenProperties DEF RegistryOK
<1>4. /\ DOMAIN calls' = 1 .. Len(calls) + 1
      /\ \A k \in 1 .. Len(calls) : calls'[k] = calls[k]
      /\ calls'[Len(calls) + 1] = new
  BY <1>1, <1>3
<1>5. ASSUME NEW k \in DOMAIN calls'
      PROVE  calls'[k].entity # e
  <2>1. CASE k = Len(calls) + 1
    BY <1>1, <1>2, <1>4, <2>1 DEF Bare
  <2>2. CASE k \in DOMAIN calls
    BY <1>3, <1>4, <2>2 DEF Bare
  <2> QED
    BY <1>3, <1>4, <2>1, <2>2
<1>6. DOMAIN componentsOf' = DOMAIN componentsOf \cup {created}
  BY <1>1 DEF Factory!Put
<1> QED
  BY <1>1, <1>5, <1>6 DEF Bare

(* The place in the hierarchy goes to the entity of the call that ends. *)
LEMMA ReturnKeepsBare ==
    ASSUME LoaderInv, RegistryOK, Factory!ReturnChild \/ Factory!ReturnRoot, NEW e, Bare(e)
    PROVE  Bare(e)'
<1>1. /\ calls \in Seq(Factory!Call) /\ Len(calls) \in Nat \ {0}
      /\ DOMAIN calls = 1 .. Len(calls)
  BY LenProperties DEF RegistryOK, Factory!ReturnChild, Factory!ReturnRoot
<1>2. Factory!Top(calls) = calls[Len(calls)] /\ Factory!Top(calls).entity # e
  BY <1>1 DEF Factory!Top, Bare
<1>3. UNCHANGED <<created, componentsOf>>
  BY DEF Factory!ReturnChild, Factory!ReturnRoot
<1>4. /\ DOMAIN childrenOf' = DOMAIN childrenOf \cup {Factory!Top(calls).entity}
      /\ DOMAIN parentOf' \subseteq DOMAIN parentOf \cup {Factory!Top(calls).entity}
  BY DEF Factory!ReturnChild, Factory!ReturnRoot, Factory!Put
<1>5. \A k \in DOMAIN calls' : calls'[k].entity # e
  <2>1. CASE Factory!ReturnRoot
    BY <2>1 DEF Factory!ReturnRoot
  <2>2. CASE Factory!ReturnChild
    <3> DEFINE outer == Pop(calls)
               rest == Pop(outer)
               caller == Top(outer)
               new == [caller EXCEPT !.children =
                          Append(caller.children, Factory!Top(calls).entity)]
    <3>1. calls' = Append(rest, new) /\ Len(calls) > 1
      BY <2>2 DEF Factory!ReturnChild, Factory!Pop, Factory!Top, Pop, Top
    <3>2. /\ outer \in Seq(Factory!Call) /\ Len(outer) = Len(calls) - 1
          /\ \A i \in 1 .. Len(calls) - 1 : outer[i] = calls[i]
      BY <1>1, <3>1, PopFacts, EmptySeq
    <3>3. outer # <<>>
      BY <1>1, <3>1, <3>2, EmptySeq
    <3> HIDE DEF outer
    <3> DEFINE n == Len(outer)
    <3>4. n \in Nat \ {0} /\ n = Len(calls) - 1
      BY <3>2, <3>3, PopFacts
    <3>5. /\ rest \in Seq(Factory!Call) /\ Len(rest) = n - 1
          /\ \A i \in 1 .. n - 1 : rest[i] = outer[i]
          /\ caller \in Factory!Call /\ caller = outer[n]
      BY <3>2, <3>3, PopFacts DEF Top
    <3> HIDE DEF rest, n
    <3>6. \A i \in 1 .. n : outer[i] = calls[i] /\ i \in DOMAIN calls
      BY <1>1, <3>2, <3>4
    <3>7. new.entity # e
      <4>1. new.entity = caller.entity
        BY <3>5 DEF Factory!Call
      <4>2. caller = calls[n] /\ n \in DOMAIN calls
        <5>1. n \in 1 .. n
          BY <3>4
        <5>2. outer[n] = calls[n] /\ n \in DOMAIN calls
          BY <3>6, <5>1
        <5> HIDE DEF caller
        <5> QED
          BY <3>5, <5>2
      <4> QED
        BY <4>1, <4>2 DEF Bare
    <3> HIDE DEF new, caller
    <3>8. /\ DOMAIN Append(rest, new) = 1 .. (n - 1) + 1
          /\ \A i \in 1 .. n - 1 : Append(rest, new)[i] = rest[i]
          /\ Append(rest, new)[(n - 1) + 1] = new
      BY <3>4, <3>5
    <3>9. /\ (n - 1) + 1 = n
          /\ \A k \in 1 .. n : k \in 1 .. n - 1 \/ k = n
          /\ \A k \in 1 .. n - 1 : k \in 1 .. n
      BY <3>4
    <3>10. ASSUME NEW k \in DOMAIN calls'
           PROVE  calls'[k].entity # e
      <4>1. CASE k = n
        BY <3>1, <3>7, <3>8, <3>9, <4>1
      <4>2. CASE k \in 1 .. n - 1
        <5>1. calls'[k] = calls[k] /\ k \in DOMAIN calls
          BY <3>1, <3>5, <3>6, <3>8, <3>9, <4>2
        <5> QED
          BY <5>1 DEF Bare
      <4> QED
        BY <3>1, <3>8, <3>9, <4>1, <4>2
    <3> QED
      BY <3>10
  <2> QED
    BY <2>1, <2>2
<1> QED
  BY <1>2, <1>3, <1>4, <1>5 DEF Bare

(* Creating entities and building blueprints gives nobody components. *)
LEMMA QuietKeepsBare ==
    ASSUME LoaderInv, created' \in created .. created + 2, UNCHANGED <<registryVars, calls>>,
           NEW e, Bare(e)
    PROVE  Bare(e)'
BY DEF LoaderInv, Bare, registryVars

(* BareInv is inductive. *)
LEMMA BareStep ==
    ASSUME LoaderInv, RegistryOK, BareInv, [Next]_vars
    PROVE  BareInv'
<1>1. ASSUME NEW e, Bare(e)
      PROVE  Bare(e)'
  <2>1. CASE UNCHANGED vars
    BY <1>1, <2>1 DEF vars, registryVars, Bare
  <2>2. CASE \E b : Factory!InstantiateRoot(b)
    BY <1>1, <2>2, EnterKeepsBare DEF Factory!InstantiateRoot
  <2>3. CASE Factory!InstantiateChild
    <3>1. PICK b : Factory!Enter(b)
      BY <2>3 DEF Factory!InstantiateChild
    <3> QED
      BY <1>1, <3>1, EnterKeepsBare
  <2>4. CASE Factory!ReturnChild \/ Factory!ReturnRoot
    BY <1>1, <2>4, ReturnKeepsBare
  <2>5. CASE /\ Running /\ created' \in created .. created + 2
             /\ UNCHANGED <<registryVars, calls>>
    BY <1>1, <2>5, QuietKeepsBare
  <2> QED
    BY <2>1, <2>2, <2>3, <2>4, <2>5, StepsOfTheLoader DEF Factory!Instantiating
<1>2. CASE UNCHANGED entities
  BY <1>1, <1>2 DEF BareInv
<1>3. CASE entities' = Put(entities, Caller.name, created) /\ LoadEntity
  <2>1. /\ created \in Nat /\ created' = created + 2 /\ calls = <<>>
        /\ UNCHANGED <<componentsOf, parentOf, childrenOf, calls>>
    BY <1>3 DEF LoadEntity, In, Running, Create, registryVars, LoaderInv
  <2>2. created \notin 0 .. created - 1
    BY <2>1
  <2>3. \A k \in DOMAIN calls' : calls'[k].entity # created
    BY <2>1
  <2>4. /\ created < created' /\ created \notin DOMAIN componentsOf'
        /\ created \notin DOMAIN parentOf' /\ created \notin DOMAIN childrenOf'
    BY <2>1, <2>2 DEF RegistryOK
  <2>5. ASSUME NEW n \in DOMAIN entities'
        PROVE  (entities'[n] = created) \/ (n \in DOMAIN entities /\ entities'[n] = entities[n])
    BY <1>3 DEF Put
  <2>6. ASSUME NEW n \in DOMAIN entities', entities'[n] = created
        PROVE  Bare(entities[n])'
    BY <2>1, <2>3, <2>4, <2>6 DEF Bare
  <2>7. ASSUME NEW n \in DOMAIN entities', n \in DOMAIN entities, entities'[n] = entities[n]
        PROVE  Bare(entities[n])'
    <3>1. Bare(entities[n])
      BY <2>7 DEF BareInv
    <3> QED
      BY <2>1, <2>3, <2>4, <2>7, <3>1 DEF Bare
  <2> QED
    BY <2>5, <2>6, <2>7 DEF BareInv
<1> QED
  BY <1>2, <1>3, NamingSteps

(* A name never leads to an entity with components or with a place in the    *)
(* hierarchy, whatever the documents: the entity that loadEntity registers   *)
(* under a node's name (line 111) is not the one made from its blueprint.    *)
THEOREM NamesLeadToBareEntities == Spec => []NamedEntitiesAreBare
<1>1. Init => BareInv
  BY DEF Init, BareInv
<1>2. LoaderInv /\ RegistryOK /\ BareInv /\ [Next]_vars => BareInv'
  BY BareStep
<1>3. BareInv => NamedEntitiesAreBare
  BY DEF BareInv, Bare, NamedEntitiesAreBare
<1> QED
  BY <1>1, <1>2, <1>3, LoaderInvariant, RegistryTypes, PTL DEF Spec

-----------------------------------------------------------------------------
(* How load ends. *)

(* The scene files that load is done with could be read; the others are      *)
(* pending.                                                                  *)
ReadSoFar == Members(yaml.scenes) \subseteq yaml.readable \cup Members(pending)

(* load returns when every scene file was read, and throws only what the     *)
(* first file that cannot be read makes it throw.                            *)
Outcome ==
    /\ phase = "done" => Members(yaml.scenes) \subseteq yaml.readable
    /\ phase = "threw" => pending # <<>> /\ Head(pending) \notin yaml.readable

(* Only load itself takes a scene file or ends. *)
LEMMA ScenesTaken ==
    ASSUME [Next]_vars
    PROVE  /\ UNCHANGED yaml
           /\ \/ LoadNextScene \/ LoadUnreadableScene \/ LoadDone
              \/ UNCHANGED <<pending, phase>>
<1>1. CASE LoadNextScene \/ LoadUnreadableScene \/ LoadDone
  BY <1>1 DEF LoadNextScene, LoadUnreadableScene, LoadDone, UnchangedWorld
<1>2. CASE SceneLoaded \/ SceneSwallowed \/ InstantiateScene \/ SceneFileDone \/ VisitNode
           \/ SceneCollect \/ SceneReturn \/ LoadEntity \/ EntityChildrenLoaded \/ LoadGroup
           \/ GroupChildrenLoaded
  BY <1>2 DEF SceneLoaded, SceneSwallowed, InstantiateScene, SceneFileDone, VisitNode,
              SceneCollect, SceneReturn, LoadEntity, EntityChildrenLoaded, LoadGroup,
              GroupChildrenLoaded, UnchangedWorld
<1>3. CASE LoadTemplate \/ TemplateFileLoaded \/ TemplateChildrenLoaded
           \/ InstantiateTemplate \/ TemplateReturn \/ LoadTemplateFile
           \/ TemplateFileParsed \/ TemplateFileCrash \/ Unwind \/ FactoryStep
  BY <1>3 DEF LoadTemplate, TemplateFileLoaded, TemplateChildrenLoaded,
              InstantiateTemplate, TemplateReturn, LoadTemplateFile, TemplateFileParsed,
              TemplateFileCrash, Unwind, FactoryStep, UnchangedWorld, loaderVars
<1>4. CASE UNCHANGED vars
  BY <1>4 DEF vars, loaderVars
<1> QED
  BY <1>1, <1>2, <1>3, <1>4 DEF Next

(* Whatever is wrong inside a scene, load returns only after every scene,    *)
(* and no exception but that of an unreadable scene file leaves it: the safe *)
(* part of Terminates.                                                       *)
THEOREM LoadEndsForAReason == Spec => []Outcome
<1> DEFINE I == ReadSoFar /\ Outcome
<1>1. Init => I
  BY DEF Init, ReadSoFar, Outcome
<1>2. ASSUME LoaderInv, I, [Next]_vars
      PROVE  I'
  <2>1. UNCHANGED yaml
    BY <1>2, ScenesTaken
  <2>2. CASE UNCHANGED <<pending, phase>>
    BY <1>2, <2>1, <2>2 DEF ReadSoFar, Outcome
  <2>3. CASE LoadNextScene
    <3>1. /\ pending # <<>> /\ Head(pending) \in yaml.readable /\ pending' = Tail(pending)
          /\ phase' = phase /\ phase = "loading"
      BY <2>3 DEF LoadNextScene, UnchangedWorld, Running
    <3>2. Members(pending) \subseteq {Head(pending)} \cup Members(Tail(pending))
      <4>1. pending \in Seq(File)
        BY <1>2 DEF LoaderInv
      <4>2. /\ Len(pending) \in Nat \ {0} /\ DOMAIN pending = 1 .. Len(pending)
            /\ Len(Tail(pending)) = Len(pending) - 1
            /\ DOMAIN Tail(pending) = 1 .. Len(pending) - 1
            /\ \A i \in 1 .. Len(pending) - 1 : Tail(pending)[i] = pending[i + 1]
            /\ Head(pending) = pending[1]
        BY <3>1, <4>1, EmptySeq, LenProperties
      <4>3. ASSUME NEW i \in DOMAIN pending, i # 1
            PROVE  i - 1 \in DOMAIN Tail(pending) /\ pending[i] = Tail(pending)[i - 1]
        BY <4>2, <4>3
      <4> QED
        BY <4>2, <4>3 DEF Members
    <3> QED
      BY <1>2, <2>1, <3>1, <3>2 DEF ReadSoFar, Outcome
  <2>4. CASE LoadUnreadableScene
    BY <1>2, <2>1, <2>4 DEF LoadUnreadableScene, ReadSoFar, Outcome
  <2>5. CASE LoadDone
    <3>1. pending = <<>> /\ phase' = "done" /\ pending' = pending
      BY <2>5 DEF LoadDone
    <3>2. Members(<<>>) = {}
      BY DEF Members
    <3> QED
      BY <1>2, <2>1, <3>1, <3>2 DEF ReadSoFar, Outcome
  <2> QED
    BY <1>2, <2>2, <2>3, <2>4, <2>5, ScenesTaken
<1>3. I => Outcome
  OBVIOUS
<1> HIDE DEF I
<1> QED
  BY <1>1, <1>2, <1>3, LoaderInvariant, PTL DEF Spec
=============================================================================
