------------------------- MODULE ConfigParser_proofs -------------------------
(***************************************************************************)
(* Proofs about ConfigParser, for every grammar and every document: the    *)
(* invariant ParserInv is preserved by the four things a closure can do    *)
(* (throw, raise an error, write, run another closure), and every action   *)
(* is one of them.                                                         *)
(*                                                                         *)
(* Then that a finished parse has had the effect that its grammar means    *)
(* (MeaningInv): the events of the parts that have ended, in each frame of *)
(* the stack, account for the outputs (Logged), the frames are a chain of  *)
(* calls (Nested), and the success flags of one_of say what the errors of  *)
(* the parts, and of the frames above, make of them (Flags).               *)
(***************************************************************************)
EXTENDS ParserMeaning, SequenceTheorems, WellFoundedInduction, TLAPS

(* Frames of the grammar and of the document. *)
Placed(f) == f.def \in DOMAIN input.grammar /\ f.node \in DOMAIN input.doc
Framed(s) == s \in Seq(Frame) /\ \A i \in DOMAIN s : Placed(s[i])

-----------------------------------------------------------------------------
(* What the constants promise of the input. *)
LEMMA InputFacts ==
    ASSUME ParserInv
    PROVE  /\ GrammarOK(input.grammar) /\ DocumentOK(input.doc)
           /\ DOMAIN input.grammar = 1 .. Len(input.grammar)
           /\ Len(input.grammar) \in Nat
           /\ \A d \in DOMAIN input.grammar : Def(d) \in Definition
<1>1. GrammarOK(input.grammar) /\ DocumentOK(input.doc)
  BY InputsAssumption DEF ParserInv
<1>2. input.grammar \in Seq(Definition)
  BY <1>1 DEF GrammarOK
<1>3. /\ DOMAIN input.grammar = 1 .. Len(input.grammar)
      /\ Len(input.grammar) \in Nat
  BY <1>2, LenProperties
<1>4. \A d \in DOMAIN input.grammar : Def(d) \in Definition
  BY <1>2, <1>3, ElementOfSeq DEF Def
<1> QED BY <1>1, <1>3, <1>4

(* The running closure is of the grammar and on a node of the document. *)
LEMMA TopFacts ==
    ASSUME ParserInv, stack # <<>>
    PROVE  /\ Len(stack) \in Nat \ {0} /\ DOMAIN stack = 1 .. Len(stack)
           /\ Len(stack) \in DOMAIN stack
           /\ Top \in Frame /\ Placed(Top) /\ Framed(stack)
<1>1. stack \in Seq(Frame) /\ \A i \in DOMAIN stack : Placed(stack[i])
  BY DEF ParserInv, TypeOK, Placed
<1>2. Len(stack) \in Nat /\ DOMAIN stack = 1 .. Len(stack) /\ Len(stack) # 0
  BY <1>1, LenProperties, EmptySeq
<1>3. Len(stack) \in DOMAIN stack
  BY <1>2
<1>4. Top \in Frame /\ Placed(Top)
  BY <1>1, <1>2, <1>3, ElementOfSeq DEF Top
<1> QED BY <1>1, <1>2, <1>3, <1>4 DEF Framed

(* A child that is left to run is a definition of the grammar. *)
LEMMA ChildFacts ==
    ASSUME ParserInv, ChildLeft
    PROVE  /\ stack # <<>>
           /\ Child \in DOMAIN input.grammar
           /\ Def(Child) \in Definition
<1>1. stack # <<>>
  BY DEF ChildLeft, Running
<1>2. Top \in Frame /\ Placed(Top)
  BY <1>1, TopFacts
<1>3. Top.next \in Nat \ {0} /\ Top.def \in DOMAIN input.grammar
  BY <1>2 DEF Frame, Placed
<1>4. Def(Top.def) \in Definition
  BY <1>3, InputFacts
<1>5. Def(Top.def).children \in Seq(Nat \ {0})
  BY <1>4 DEF Definition
<1>6. Top.next \in DOMAIN Def(Top.def).children
  <2>1. /\ Len(Def(Top.def).children) \in Nat
        /\ DOMAIN Def(Top.def).children = 1 .. Len(Def(Top.def).children)
    BY <1>5, LenProperties
  <2>2. Top.next <= Len(Def(Top.def).children)
    BY DEF ChildLeft
  <2> QED BY <1>3, <2>1, <2>2
<1>7. Child \in Top.def + 1 .. Len(input.grammar)
  BY <1>3, <1>6, InputFacts DEF Child, GrammarOK, Def
<1>8. Child \in DOMAIN input.grammar
  BY <1>3, <1>7, InputFacts
<1> QED BY <1>1, <1>8, InputFacts

(* The value of an attribute is a node of the document. *)
LEMMA AttrFacts ==
    ASSUME ParserInv, stack # <<>>, NEW k, Has(k)
    PROVE  Attr(k) \in DOMAIN input.doc /\ Node(Attr(k)).value \in Value
<1>1. Top.node \in DOMAIN input.doc
  BY TopFacts DEF Placed
<1>2. DocumentOK(input.doc)
  BY InputFacts
<1>3. Attr(k) \in Top.node + 1 .. Len(input.doc)
  BY <1>1, <1>2 DEF DocumentOK, Has, Attr, Node
<1>4. Attr(k) \in DOMAIN input.doc
  BY <1>1, <1>2, <1>3 DEF DocumentOK
<1> QED BY <1>2, <1>4 DEF DocumentOK, Node

-----------------------------------------------------------------------------
(* Going on to the next child changes nothing but next and ok. *)
LEMMA AdvancedFramed ==
    ASSUME ParserInv, stack # <<>>
    PROVE  Framed(Advanced) /\ Len(Advanced) = Len(stack) /\ DOMAIN Advanced = DOMAIN stack
<1> DEFINE n == Len(stack)
           g == [[stack[n] EXCEPT !.next = @ + 1] EXCEPT !.ok = TRUE]
<1>1. stack \in Seq(Frame) /\ n \in DOMAIN stack /\ n \in 1 .. Len(stack)
  BY TopFacts DEF Framed
<1>2. stack[n] \in Frame /\ Placed(stack[n])
  BY TopFacts DEF Top
<1>3. g \in Frame /\ g.def = stack[n].def /\ g.node = stack[n].node
  <2> DEFINE f == stack[n]
             h == [f EXCEPT !.next = @ + 1]
  <2>1. f \in Frame
    BY <1>2
  <2> HIDE DEF f
  <2>2. f.next + 1 \in Nat \ {0}
    BY <2>1 DEF Frame
  <2>3. h \in Frame /\ h.def = f.def /\ h.node = f.node
    BY <2>1, <2>2 DEF Frame
  <2> HIDE DEF h
  <2>4. [h EXCEPT !.ok = TRUE] \in Frame /\ [h EXCEPT !.ok = TRUE].def = h.def
        /\ [h EXCEPT !.ok = TRUE].node = h.node
    BY <2>3 DEF Frame
  <2> QED BY <2>3, <2>4 DEF f, h
<1>4. Advanced = [stack EXCEPT ![n] = g]
  BY <1>1 DEF Advanced
<1> HIDE DEF g
<1>5. /\ Advanced \in Seq(Frame) /\ Len(Advanced) = Len(stack)
      /\ DOMAIN Advanced = DOMAIN stack
      /\ \A i \in DOMAIN stack : Advanced[i] = IF i = n THEN g ELSE stack[i]
  BY <1>1, <1>3, <1>4, ExceptSeq
<1>6. \A i \in DOMAIN stack : Placed(stack[i])
  BY TopFacts DEF Framed
<1>7. \A i \in DOMAIN Advanced : Placed(Advanced[i])
  BY <1>2, <1>3, <1>5, <1>6 DEF Placed
<1> QED BY <1>5, <1>7 DEF Framed

(* So does the end of the innermost closures. *)
LEMMA PrefixFramed ==
    ASSUME NEW s, Framed(s), NEW i \in 0 .. Len(s)
    PROVE  Framed(SubSeq(s, 1, i))
<1>1. s \in Seq(Frame) /\ Len(s) \in Nat /\ DOMAIN s = 1 .. Len(s)
  BY LenProperties DEF Framed
<1>2. \A j \in 1 .. i : j \in DOMAIN s
  BY <1>1
<1>3. /\ SubSeq(s, 1, i) \in Seq(Frame)
      /\ DOMAIN SubSeq(s, 1, i) = 1 .. i
      /\ \A j \in 1 .. i : SubSeq(s, 1, i)[j] = s[j]
  BY <1>1
<1> QED BY <1>2, <1>3 DEF Framed

(* And so does the call of another closure. *)
LEMMA PushFramed ==
    ASSUME NEW s, Framed(s), NEW d \in DOMAIN input.grammar, NEW n \in DOMAIN input.doc,
           d \in Nat \ {0}, n \in Nat \ {0}, NEW b \in BOOLEAN
    PROVE  Framed(Append(s, Closure(d, n, b)))
<1> DEFINE f == Closure(d, n, b)
<1>1. f \in Frame /\ Placed(f)
  BY DEF Closure, Frame, Placed
<1> HIDE DEF f
<1>2. s \in Seq(Frame) /\ Len(s) \in Nat /\ DOMAIN s = 1 .. Len(s)
  BY LenProperties DEF Framed
<1>3. /\ Append(s, f) \in Seq(Frame)
      /\ DOMAIN Append(s, f) = 1 .. Len(s) + 1
      /\ \A i \in 1 .. Len(s) : Append(s, f)[i] = s[i]
      /\ Append(s, f)[Len(s) + 1] = f
  BY <1>1, <1>2, AppendProperties
<1>4. \A i \in 1 .. Len(s) + 1 : i \in 1 .. Len(s) \/ i = Len(s) + 1
  BY <1>2
<1>5. \A i \in DOMAIN Append(s, f) : Placed(Append(s, f)[i])
  BY <1>1, <1>2, <1>3, <1>4 DEF Framed
<1> QED BY <1>3, <1>5 DEF Framed, f

-----------------------------------------------------------------------------
(* The parts of ParserInv that a step may leave alone. *)
LEMMA OutputsStay ==
    ASSUME ParserInv, UNCHANGED <<input, out, list>>,
           Framed(stack'),
           reports' \in Seq(Error \X Key), MissingReportedOnlyByFn'
    PROVE  ParserInv'
<1>1. TypeOK'
  BY DEF ParserInv, TypeOK, Pushed, Def, Framed, Placed
<1>2. OutputsAreTaken'
  BY DEF ParserInv, OutputsAreTaken, TakenBy, Def
<1> QED BY <1>1, <1>2 DEF ParserInv

(* A step that reports nothing reports nothing new. *)
LEMMA ReportsStay ==
    ASSUME ParserInv, UNCHANGED <<input, reports>>
    PROVE  reports' \in Seq(Error \X Key) /\ MissingReportedOnlyByFn'
  BY DEF ParserInv, TypeOK, MissingReportedOnlyByFn, Def

(* An exception changes nothing but the stack. *)
LEMMA ThrowStep ==
    ASSUME ParserInv, stack # <<>>, Throw
    PROVE  ParserInv'
<1>1. PICK i \in DOMAIN stack : stack' = SubSeq(Advanced, 1, i)
  BY DEF Throw
<1>2. i \in 0 .. Len(Advanced)
  BY TopFacts, AdvancedFramed
<1>3. Framed(stack')
  <2>1. Framed(SubSeq(Advanced, 1, i))
    BY <1>2, AdvancedFramed, PrefixFramed
  <2> QED BY <1>1, <2>1
<1>4. UNCHANGED <<input, out, list, reports>>
  BY DEF Throw
<1> QED BY <1>3, <1>4, OutputsStay, ReportsStay

(* An error changes the stack, and is reported unless a callback stops it. *)
LEMMA RaiseStep ==
    ASSUME ParserInv, stack # <<>>, NEW err \in Error, NEW k \in Key, Raise(err, k),
           err = "AttributeMissing" =>
               \E d \in DOMAIN input.grammar : Def(d).kind = "fn" /\ Def(d).key = k
    PROVE  ParserInv'
<1>1. UNCHANGED <<input, out, list>>
  BY DEF Raise
<1>2. CASE Report(err, k)
  <2>1. Framed(stack')
    BY <1>2, AdvancedFramed DEF Report
  <2>2. reports \in Seq(Error \X Key) /\ <<err, k>> \in Error \X Key
    BY DEF ParserInv, TypeOK
  <2>3. /\ reports' \in Seq(Error \X Key)
        /\ DOMAIN reports = 1 .. Len(reports) /\ Len(reports) \in Nat
        /\ DOMAIN reports' = 1 .. Len(reports) + 1
        /\ \A i \in 1 .. Len(reports) : reports'[i] = reports[i]
        /\ reports'[Len(reports) + 1] = <<err, k>>
    BY <1>2, <2>2, AppendProperties, LenProperties DEF Report
  <2>4. MissingReportedOnlyByFn
    BY DEF ParserInv
  <2>5. MissingReportedOnlyByFn'
    <3> SUFFICES ASSUME NEW i \in DOMAIN reports', reports'[i][1] = "AttributeMissing"
                 PROVE  \E d \in DOMAIN input.grammar :
                            Def(d).kind = "fn" /\ Def(d).key = reports'[i][2]
      BY <1>1 DEF MissingReportedOnlyByFn, Def
    <3>1. CASE i \in 1 .. Len(reports)
      BY <2>3, <2>4, <3>1 DEF MissingReportedOnlyByFn
    <3>2. CASE i = Len(reports) + 1
      BY <2>3, <3>2
    <3> QED BY <2>3, <3>1, <3>2
  <2> QED BY <1>1, <2>1, <2>3, <2>5, OutputsStay
<1>3. CASE ~ Report(err, k)
  <2>1. UNCHANGED reports
    BY <1>3 DEF Raise
  <2>2. PICK i \in DOMAIN stack : stack' = [Advanced EXCEPT ![i].ok = FALSE]
    BY <1>3 DEF Raise
  <2>3. Framed(stack')
    <3> DEFINE a == Advanced
               g == [a[i] EXCEPT !.ok = FALSE]
    <3>1. Framed(a) /\ i \in DOMAIN a
      BY AdvancedFramed
    <3>2. stack' = [a EXCEPT ![i] = g]
      BY <2>2
    <3> HIDE DEF a
    <3>3. a \in Seq(Frame) /\ i \in 1 .. Len(a) /\ a[i] \in Frame
      BY <3>1, LenProperties, ElementOfSeq DEF Framed
    <3>4. g \in Frame /\ g.def = a[i].def /\ g.node = a[i].node
      BY <3>3 DEF Frame
    <3> HIDE DEF g
    <3>5. /\ stack' \in Seq(Frame) /\ DOMAIN stack' = DOMAIN a
          /\ \A j \in DOMAIN a : stack'[j] = IF j = i THEN g ELSE a[j]
      BY <3>2, <3>3, <3>4, ExceptSeq
    <3>6. \A j \in DOMAIN stack' : Placed(stack'[j])
      BY <3>1, <3>4, <3>5 DEF Framed, Placed
    <3> QED BY <3>5, <3>6 DEF Framed
  <2> QED BY <1>1, <2>1, <2>3, OutputsStay, ReportsStay
<1> QED BY <1>2, <1>3

(* A value that the definition takes is stored. *)
LEMMA WriteStep ==
    ASSUME ParserInv, stack # <<>>, NEW f \in Field, NEW v \in Value, TakenBy(f, v),
           Write(f, v)
    PROVE  ParserInv'
<1>1. UNCHANGED <<input, list, reports>> /\ stack' = Advanced /\ out' = [out EXCEPT ![f] = v]
  BY DEF Write
<1>2. Framed(stack')
  BY <1>1, AdvancedFramed
<1>3. out \in [Field -> Value \cup {Unset}]
  BY DEF ParserInv, TypeOK
<1>4. TypeOK'
  BY <1>1, <1>2, <1>3 DEF ParserInv, TypeOK, Pushed, Def, Framed, Placed
<1>5. \A g, w : TakenBy(g, w)' <=> TakenBy(g, w)
  BY <1>1 DEF TakenBy, Def
<1>6. OutputsAreTaken'
  BY <1>1, <1>3, <1>5 DEF ParserInv, OutputsAreTaken
<1> QED BY <1>1, <1>4, <1>6, ReportsStay DEF ParserInv

(* Another closure is run on a node of the document. *)
LEMMA EnterStep ==
    ASSUME ParserInv, ChildLeft, NEW n \in DOMAIN input.doc, Enter(n)
    PROVE  ParserInv'
<1>1. stack # <<>> /\ Child \in DOMAIN input.grammar
  BY ChildFacts
<1>2. Child \in Nat \ {0} /\ n \in Nat \ {0}
  BY <1>1, InputFacts DEF DocumentOK
<1>3. Framed(Append(Advanced, Closure(Child, n, FALSE)))
  BY <1>1, <1>2, AdvancedFramed, PushFramed
<1>4. UNCHANGED <<input, out, list, reports>> /\ Framed(stack')
  BY <1>3 DEF Enter
<1> QED BY <1>4, OutputsStay, ReportsStay

-----------------------------------------------------------------------------
(* A conversion raises one of two errors or stores what converts. *)
LEMMA ConvertStep ==
    ASSUME ParserInv, stack # <<>>, NEW c \in DOMAIN input.grammar,
           Def(c).kind \notin {"choice", "fn"},
           NEW n \in DOMAIN input.doc, NEW kind,
           NEW err \in Error, err # "AttributeMissing",
           Convert(Def(c), n, kind, err)
    PROVE  ParserInv'
<1> DEFINE d == Def(c)
<1>1. d \in Definition /\ Node(n).value \in Value
  BY InputFacts DEF DocumentOK, Node
<1>2. d.key \in Key /\ d.field \in Field
  BY <1>1 DEF Definition
<1>3. CASE Raise(err, d.key)
  BY <1>2, <1>3, RaiseStep
<1>4. CASE Raise("BadTypeConversion", d.key)
  <2>1. "BadTypeConversion" \in Error /\ "BadTypeConversion" # "AttributeMissing"
    BY DEF Error
  <2> QED BY <1>2, <1>4, <2>1, RaiseStep
<1>5. CASE Node(n).value \in d.converts /\ Write(d.field, Node(n).value)
  <2>1. TakenBy(d.field, Node(n).value)
    BY <1>5 DEF TakenBy
  <2> QED BY <1>1, <1>2, <1>5, <2>1, WriteStep
<1> QED BY <1>3, <1>4, <1>5 DEF Convert

(* choice and fn store only what they accept. *)
LEMMA AcceptedStep ==
    ASSUME ParserInv, stack # <<>>, NEW c \in DOMAIN input.grammar,
           NEW n \in DOMAIN input.doc,
           Node(n).value \in Def(c).converts, Node(n).value \in Def(c).accepts,
           Write(Def(c).field, Node(n).value)
    PROVE  ParserInv'
<1>1. Def(c) \in Definition /\ Node(n).value \in Value
  BY InputFacts DEF DocumentOK, Node
<1>2. Def(c).field \in Field
  BY <1>1 DEF Definition
<1>3. TakenBy(Def(c).field, Node(n).value)
  BY DEF TakenBy
<1> QED BY <1>1, <1>2, <1>3, WriteStep

(* An error that is not AttributeMissing, from a definition of the grammar. *)
LEMMA ErrorStep ==
    ASSUME ParserInv, stack # <<>>, NEW c \in DOMAIN input.grammar,
           NEW err \in Error, err # "AttributeMissing", Raise(err, Def(c).key)
    PROVE  ParserInv'
<1>1. Def(c).key \in Key
  BY InputFacts DEF Definition
<1> QED BY <1>1, RaiseStep

(* An item or a closure ends. *)
LEMMA PopFramed ==
    ASSUME ParserInv, stack # <<>>
    PROVE  Framed(SubSeq(stack, 1, Len(stack) - 1))
<1>1. Framed(stack) /\ Len(stack) - 1 \in 0 .. Len(stack)
  BY TopFacts
<1> QED BY <1>1, PrefixFramed

(* push_back(temp) keeps what out held; temp = {} unsets it. *)
LEMMA ItemDoneStep ==
    ASSUME ParserInv, ItemDone
    PROVE  ParserInv'
<1> DEFINE temp == Def(Top.def).temp
           e    == [f \in temp |-> out[f]]
<1>1. stack # <<>>
  BY DEF ItemDone, Running
<1>2. /\ UNCHANGED <<input, reports>> /\ list' = Append(list, e)
      /\ out' = [f \in Field |-> IF f \in temp THEN Unset ELSE out[f]]
      /\ stack' = SubSeq(stack, 1, Len(stack) - 1)
  BY DEF ItemDone
<1>3. Framed(stack')
  BY <1>1, <1>2, PopFramed
<1>4. Top.def \in DOMAIN input.grammar
  BY <1>1, TopFacts DEF Placed
<1>5. temp \subseteq Field
  BY <1>4, InputFacts DEF Definition
<1>6. out \in [Field -> Value \cup {Unset}] /\ list \in Seq(Pushed)
  BY DEF ParserInv, TypeOK
<1>7. e \in Pushed
  <2>1. e \in [temp -> Value \cup {Unset}]
    BY <1>5, <1>6
  <2> QED BY <1>4, <2>1 DEF Pushed
<1>8. DOMAIN e = temp /\ \A f \in temp : e[f] = out[f]
  OBVIOUS
<1> HIDE DEF e
<1>9. /\ list' \in Seq(Pushed)
      /\ DOMAIN list = 1 .. Len(list) /\ Len(list) \in Nat
      /\ DOMAIN list' = 1 .. Len(list) + 1
      /\ \A i \in 1 .. Len(list) : list'[i] = list[i]
      /\ list'[Len(list) + 1] = e
  BY <1>2, <1>6, <1>7, AppendProperties, LenProperties
<1> HIDE DEF temp
<1>10. out' \in [Field -> Value \cup {Unset}]
  BY <1>2, <1>6
<1>11. TypeOK'
  BY <1>2, <1>3, <1>9, <1>10 DEF ParserInv, TypeOK, Pushed, Def, Framed, Placed
<1>12. \A g, w : TakenBy(g, w)' <=> TakenBy(g, w)
  BY <1>2 DEF TakenBy, Def
<1>13. /\ \A f \in Field : out[f] # Unset => TakenBy(f, out[f])
       /\ \A i \in DOMAIN list : \A f \in DOMAIN list[i] :
             list[i][f] # Unset => TakenBy(f, list[i][f])
  BY DEF ParserInv, OutputsAreTaken
<1>14. \A f \in Field : out'[f] # Unset => TakenBy(f, out'[f])
  BY <1>2, <1>13
<1>15. \A i \in DOMAIN list' : \A f \in DOMAIN list'[i] :
          list'[i][f] # Unset => TakenBy(f, list'[i][f])
  <2> TAKE i \in DOMAIN list'
  <2>1. CASE i \in 1 .. Len(list)
    BY <1>9, <1>13, <2>1
  <2>2. CASE i = Len(list) + 1
    BY <1>5, <1>8, <1>9, <1>13, <2>2
  <2> QED BY <1>9, <2>1, <2>2
<1>16. OutputsAreTaken'
  BY <1>12, <1>14, <1>15 DEF OutputsAreTaken
<1> QED BY <1>2, <1>11, <1>16, ReportsStay DEF ParserInv

-----------------------------------------------------------------------------
(* The parse begins with nothing written and the root on the root node. *)
LEMMA InitEstablishes == Init => ParserInv
<1> SUFFICES ASSUME Init PROVE ParserInv
  OBVIOUS
<1>1. GrammarOK(input.grammar) /\ DocumentOK(input.doc)
  BY InputsAssumption DEF Init
<1>2. 1 \in DOMAIN input.grammar /\ 1 \in DOMAIN input.doc
  <2>1. 1 \in DOMAIN input.doc
    BY <1>1 DEF DocumentOK
  <2>2. input.grammar \in Seq(Definition) /\ Len(input.grammar) > 0
    BY <1>1 DEF GrammarOK
  <2>3. 1 \in DOMAIN input.grammar
    BY <2>2, LenProperties
  <2> QED BY <2>1, <2>3
<1> DEFINE f == Closure(1, 1, FALSE)
<1>3. f \in Frame /\ f.def = 1 /\ f.node = 1
  BY DEF Closure, Frame
<1> HIDE DEF f
<1>4. stack = <<f>> /\ stack \in Seq(Frame) /\ DOMAIN stack = 1 .. 1 /\ stack[1] = f
  <2>1. stack = <<f>>
    BY DEF Init, f
  <2> QED BY <1>3, <2>1
<1>5. \A i \in DOMAIN stack : stack[i].def = 1 /\ stack[i].node = 1
  BY <1>3, <1>4
<1>6. out = [g \in Field |-> Unset] /\ list = <<>> /\ reports = <<>>
  BY DEF Init
<1>7. TypeOK
  <2>1. \A i \in DOMAIN stack : /\ stack[i].def \in DOMAIN input.grammar
                               /\ stack[i].node \in DOMAIN input.doc
    BY <1>2, <1>5
  <2>2. out \in [Field -> Value \cup {Unset}]
    BY <1>6
  <2>3. list \in Seq(Pushed) /\ reports \in Seq(Error \X Key)
    BY <1>6, EmptySeq
  <2> QED BY <1>4, <2>1, <2>2, <2>3 DEF TypeOK
<1>8. OutputsAreTaken /\ MissingReportedOnlyByFn
  BY <1>6, EmptySeq DEF OutputsAreTaken, MissingReportedOnlyByFn
<1> QED BY <1>7, <1>8 DEF ParserInv, Init

(* Every action is one of the steps above. *)
LEMMA ParserStep ==
    ASSUME ParserInv, [Next]_vars
    PROVE  ParserInv'
<1>1. CASE Scalar
  <2> DEFINE d == Def(Child)
  <2>1. stack # <<>> /\ Child \in DOMAIN input.grammar /\ d.kind \notin {"choice", "fn"}
    BY <1>1, ChildFacts DEF Scalar
  <2>2. CASE ~ Has(d.key)
    BY <1>1, <2>1, <2>2, ThrowStep DEF Scalar
  <2>3. CASE Has(d.key)
    <3>1. Attr(d.key) \in DOMAIN input.doc
      BY <2>1, <2>3, AttrFacts
    <3>2. Convert(d, Attr(d.key), "scalar", "NotScalar")
      BY <1>1, <2>3 DEF Scalar
    <3>3. "NotScalar" \in Error /\ "NotScalar" # "AttributeMissing"
      BY DEF Error
    <3> QED BY <2>1, <3>1, <3>2, <3>3, ConvertStep
  <2> QED BY <2>2, <2>3
<1>2. CASE Sequence
  <2> DEFINE d == Def(Child)
  <2>1. stack # <<>> /\ Child \in DOMAIN input.grammar /\ d.kind \notin {"choice", "fn"}
    BY <1>2, ChildFacts DEF Sequence
  <2>2. CASE ~ Has(d.key)
    BY <1>2, <2>1, <2>2, ThrowStep DEF Sequence
  <2>3. CASE Has(d.key)
    <3>1. Attr(d.key) \in DOMAIN input.doc
      BY <2>1, <2>3, AttrFacts
    <3>2. Convert(d, Attr(d.key), "sequence", "NotSequence")
      BY <1>2, <2>3 DEF Sequence
    <3>3. "NotSequence" \in Error /\ "NotSequence" # "AttributeMissing"
      BY DEF Error
    <3> QED BY <2>1, <3>1, <3>2, <3>3, ConvertStep
  <2> QED BY <2>2, <2>3
<1>3. CASE Element
  <2>1. stack # <<>> /\ Child \in DOMAIN input.grammar /\ Def(Child).kind \notin {"choice", "fn"}
    BY <1>3, ChildFacts DEF Element
  <2>2. Top.node \in DOMAIN input.doc
    BY <2>1, TopFacts DEF Placed
  <2>3. Convert(Def(Child), Top.node, "sequence", "NotSequence")
    BY <1>3 DEF Element
  <2>4. "NotSequence" \in Error /\ "NotSequence" # "AttributeMissing"
    BY DEF Error
  <2> QED BY <2>1, <2>2, <2>3, <2>4, ConvertStep
<1>4. CASE Choice
  <2> DEFINE d == Def(Child)
             n == Attr(d.key)
  <2>1. stack # <<>> /\ Child \in DOMAIN input.grammar
    BY <1>4, ChildFacts DEF Choice
  <2>2. CASE Throw
    BY <2>1, <2>2, ThrowStep
  <2>3. CASE Raise("NotScalar", d.key)
    BY <2>1, <2>3, ErrorStep DEF Error
  <2>4. CASE Raise("BadTypeConversion", d.key)
    BY <2>1, <2>4, ErrorStep DEF Error
  <2>5. CASE Raise("InvalidValue", d.key)
    BY <2>1, <2>5, ErrorStep DEF Error
  <2>6. CASE /\ Has(d.key) /\ Node(n).value \in d.converts /\ Node(n).value \in d.accepts
             /\ Write(d.field, Node(n).value)
    <3>1. n \in DOMAIN input.doc
      BY <2>1, <2>6, AttrFacts
    <3> QED BY <2>1, <2>6, <3>1, AcceptedStep
  <2> QED BY <1>4, <2>2, <2>3, <2>4, <2>5, <2>6 DEF Choice
<1>5. CASE Fn
  <2> DEFINE d == Def(Child)
             n == Attr(d.key)
  <2>1. /\ stack # <<>> /\ Child \in DOMAIN input.grammar /\ d \in Definition
        /\ d.kind = "fn"
    BY <1>5, ChildFacts DEF Fn
  <2>2. CASE Throw
    BY <2>1, <2>2, ThrowStep
  <2>3. CASE Raise("AttributeMissing", d.key)
    <3>1. "AttributeMissing" \in Error /\ d.key \in Key
      BY <2>1 DEF Error, Definition
    <3>2. \E c \in DOMAIN input.grammar : Def(c).kind = "fn" /\ Def(c).key = d.key
      BY <2>1
    <3> QED BY <2>1, <2>3, <3>1, <3>2, RaiseStep
  <2>4. CASE Raise("InvalidValue", d.key)
    BY <2>1, <2>4, ErrorStep DEF Error
  <2>5. CASE /\ Has(d.key) /\ Node(n).value \in d.converts /\ Node(n).value \in d.accepts
             /\ Write(d.field, Node(n).value)
    <3>1. n \in DOMAIN input.doc
      BY <2>1, <2>5, AttrFacts
    <3> QED BY <2>1, <2>5, <3>1, AcceptedStep
  <2> QED BY <1>5, <2>2, <2>3, <2>4, <2>5 DEF Fn
<1>6. CASE EnterMap
  <2> DEFINE k == Def(Child).key
  <2>1. ChildLeft /\ stack # <<>> /\ Child \in DOMAIN input.grammar
    BY <1>6, ChildFacts DEF EnterMap
  <2>2. CASE Throw
    BY <2>1, <2>2, ThrowStep
  <2>3. CASE Raise("NotMap", k)
    BY <2>1, <2>3, ErrorStep DEF Error
  <2>4. CASE Has(k) /\ Enter(Attr(k))
    <3>1. Attr(k) \in DOMAIN input.doc
      BY <2>1, <2>4, AttrFacts
    <3> QED BY <2>1, <2>4, <3>1, EnterStep
  <2> QED BY <1>6, <2>2, <2>3, <2>4 DEF EnterMap
<1>7. CASE EnterEach
  <2> DEFINE k == Def(Child).key
  <2>1. ChildLeft /\ stack # <<>> /\ Child \in DOMAIN input.grammar
    BY <1>7, ChildFacts DEF EnterEach
  <2>2. CASE Throw
    BY <2>1, <2>2, ThrowStep
  <2>3. CASE Raise("NotSequence", k)
    BY <2>1, <2>3, ErrorStep DEF Error
  <2>4. CASE Has(k) /\ Enter(Attr(k))
    <3>1. Attr(k) \in DOMAIN input.doc
      BY <2>1, <2>4, AttrFacts
    <3> QED BY <2>1, <2>4, <3>1, EnterStep
  <2> QED BY <1>7, <2>2, <2>3, <2>4 DEF EnterEach
<1>8. CASE EnterWrapper
  <2>1. ChildLeft /\ Enter(Top.node)
    BY <1>8 DEF EnterWrapper
  <2>2. Top.node \in DOMAIN input.doc
    BY <2>1, ChildFacts, TopFacts DEF Placed
  <2> QED BY <2>1, <2>2, EnterStep
<1>9. CASE NextItem
  <2> DEFINE i == Top.next
             n == Node(Top.node).items[i]
  <2>1. stack # <<>> /\ i <= Len(Node(Top.node).items)
    BY <1>9 DEF NextItem, Running
  <2>2. Top \in Frame /\ Top.def \in DOMAIN input.grammar /\ Top.node \in DOMAIN input.doc
    BY <2>1, TopFacts DEF Placed
  <2>3. i \in Nat \ {0}
    BY <2>2 DEF Frame
  <2>4. DocumentOK(input.doc)
    BY InputFacts
  <2>5. i \in DOMAIN Node(Top.node).items
    BY <2>1, <2>2, <2>3, <2>4 DEF DocumentOK, Node
  <2>6. n \in Top.node + 1 .. Len(input.doc)
    BY <2>2, <2>4, <2>5 DEF DocumentOK, Node
  <2>7. n \in DOMAIN input.doc /\ n \in Nat \ {0}
    BY <2>2, <2>4, <2>6 DEF DocumentOK
  <2> HIDE DEF n
  <2>8. Top.def \in Nat \ {0}
    BY <2>2 DEF Frame
  <2>9. Framed(Append(Advanced, Closure(Top.def, n, TRUE)))
    BY <2>1, <2>2, <2>7, <2>8, AdvancedFramed, PushFramed
  <2>10. UNCHANGED <<input, out, list, reports>> /\ Framed(stack')
    BY <1>9, <2>9 DEF NextItem, n
  <2> QED BY <2>10, OutputsStay, ReportsStay
<1>10. CASE ItemDone
  BY <1>10, ItemDoneStep
<1>11. CASE Return
  <2>1. /\ stack # <<>> /\ stack' = SubSeq(stack, 1, Len(stack) - 1)
        /\ UNCHANGED <<input, out, list, reports>>
    BY <1>11 DEF Return, Running
  <2>2. Framed(stack')
    BY <2>1, PopFramed
  <2> QED BY <2>1, <2>2, OutputsStay, ReportsStay
<1>12. CASE UNCHANGED vars
  BY <1>12 DEF vars, ParserInv, TypeOK, Pushed, Def, OutputsAreTaken, TakenBy, MissingReportedOnlyByFn
<1> QED
  BY <1>1, <1>2, <1>3, <1>4, <1>5, <1>6, <1>7, <1>8, <1>9, <1>10, <1>11, <1>12 DEF Next

-----------------------------------------------------------------------------
(* ParserInv holds in every parse of every document by every grammar. *)
THEOREM ParserInvariant == Spec => []ParserInv
  BY InitEstablishes, ParserStep, PTL DEF Spec

(* The closures that run are always of the grammar, on nodes of the document. *)
THEOREM ParserTypes == Spec => []TypeOK
<1>1. ParserInv => TypeOK
  BY DEF ParserInv
<1> QED BY <1>1, ParserInvariant, PTL

(* Whatever the document, no output reference and no pushed element ever holds *)
(* a value that the definition writing it rejects.                             *)
THEOREM OutputsAlwaysTaken == Spec => []OutputsAreTaken
<1>1. ParserInv => OutputsAreTaken
  BY DEF ParserInv
<1> QED BY <1>1, ParserInvariant, PTL

(* Whatever the grammar, AttributeMissing is reported of no definition but fn. *)
THEOREM MissingOnlyFromFn == Spec => []MissingReportedOnlyByFn
<1>1. ParserInv => MissingReportedOnlyByFn
  BY DEF ParserInv
<1> QED BY <1>1, ParserInvariant, PTL

-----------------------------------------------------------------------------
(* The order of the natural numbers, as a relation. *)
LessThan == {p \in Nat \X Nat : p[1] < p[2]}

(* Induction on the numbers 0 .. N. *)
LEMMA Reaches ==
    ASSUME NEW N \in Nat, NEW S, 0 \in S,
           \A n \in 0 .. N : n < N /\ n \in S => n + 1 \in S
    PROVE  \A n \in 0 .. N : n \in S
<1> DEFINE T == (0 .. N) \ S
<1> SUFFICES ASSUME T # {}
             PROVE  FALSE
  OBVIOUS
<1>1. IsWellFoundedOn(LessThan, Nat)
  <2>1. LessThan = OpToRel(<, Nat)
    BY DEF LessThan, OpToRel
  <2> QED BY <2>1, NatLessThanWellFounded
<1>2. T \subseteq Nat
  OBVIOUS
<1>3. PICK m \in T : \A k \in T : <<k, m>> \notin LessThan
  BY <1>1, <1>2, WFMin
<1>4. m # 0 /\ m - 1 \in 0 .. N /\ m - 1 < N /\ (m - 1) + 1 = m
  OBVIOUS
<1>5. <<m - 1, m>> \in LessThan
  BY <1>4 DEF LessThan
<1>6. m - 1 \in S
  BY <1>3, <1>4, <1>5
<1> QED BY <1>4, <1>6

-----------------------------------------------------------------------------
(* The events of a sequence of effects. *)
Chains(f, effects, N) ==
    f = [j \in {0} \cup 1 .. N |-> IF j = 0 THEN <<>> ELSE f[j - 1] \o effects[j].events]

(* The recursive function of EventsOf exists. *)
LEMMA ChainExists ==
    ASSUME NEW effects, NEW N \in Nat
    PROVE  \E f : Chains(f, effects, N)
<1> DEFINE S == {n \in 0 .. N : \E f : Chains(f, effects, n)}
<1>1. 0 \in S
  <2> DEFINE f == [j \in {0} \cup 1 .. 0 |-> <<>>]
  <2>1. \A j \in {0} \cup 1 .. 0 : j = 0
    OBVIOUS
  <2>2. Chains(f, effects, 0)
    BY <2>1 DEF Chains
  <2> QED BY <2>2
<1>2. ASSUME NEW n \in 0 .. N, n < N, n \in S
      PROVE  n + 1 \in S
  <2>1. PICK f : Chains(f, effects, n)
    BY <1>2
  <2> DEFINE g == [j \in {0} \cup 1 .. n + 1 |->
                      IF j <= n THEN f[j] ELSE f[n] \o effects[n + 1].events]
  <2>2. ASSUME NEW j \in {0} \cup 1 .. n + 1
        PROVE  g[j] = IF j = 0 THEN <<>> ELSE g[j - 1] \o effects[j].events
    <3>1. CASE j = 0
      BY <2>1, <3>1 DEF Chains
    <3>2. CASE j # 0 /\ j <= n
      <4>1. j - 1 \in {0} \cup 1 .. n + 1 /\ j - 1 <= n /\ j \in {0} \cup 1 .. n
        BY <3>2
      <4>2. g[j - 1] = f[j - 1] /\ g[j] = f[j]
        BY <3>2, <4>1
      <4>3. f[j] = f[j - 1] \o effects[j].events
        BY <2>1, <3>2, <4>1 DEF Chains
      <4> QED BY <3>2, <4>2, <4>3
    <3>3. CASE j = n + 1
      <4>1. n \in {0} \cup 1 .. n + 1 /\ j - 1 = n /\ j # 0 /\ ~ (j <= n)
        BY <3>3
      <4>2. n <= n /\ j \in {0} \cup 1 .. n + 1
        OBVIOUS
      <4>3. g[j] = f[n] \o effects[n + 1].events
        BY <4>1, <4>2, Zenon
      <4>4. g[n] = f[n]
        BY <4>1, <4>2, Zenon
      <4> QED BY <3>3, <4>1, <4>3, <4>4
    <3> QED BY <3>1, <3>2, <3>3
  <2>3. Chains(g, effects, n + 1)
    BY <2>2 DEF Chains
  <2> QED BY <1>2, <2>3
<1> HIDE DEF S
<1>3. \A n \in 0 .. N : n \in S
  BY <1>1, <1>2, Reaches
<1> QED BY <1>3 DEF S

(* Each effect adds its events to those before it. *)
LEMMA EventsOfStep ==
    ASSUME NEW effects, NEW N \in Nat, DOMAIN effects = 1 .. N
    PROVE  /\ EventsOf(effects)[0] = <<>>
           /\ \A j \in 1 .. N : EventsOf(effects)[j] = EventsOf(effects)[j - 1] \o effects[j].events
<1> DEFINE C == CHOOSE f : Chains(f, effects, N)
<1>1. Chains(C, effects, N)
  BY ChainExists
<1>2. EventsOf(effects) = C
  BY Zenon DEF EventsOf, Chains
<1> HIDE DEF C
<1>3. C[0] = <<>>
  BY <1>1 DEF Chains
<1>4. \A j \in 1 .. N : C[j] = C[j - 1] \o effects[j].events
  <2> TAKE j \in 1 .. N
  <2>1. j \in {0} \cup 1 .. N /\ j # 0
    OBVIOUS
  <2> QED BY <1>1, <2>1 DEF Chains
<1> QED BY <1>2, <1>3, <1>4

-----------------------------------------------------------------------------
(* The state that events leave. *)
Replays(f, events, N) ==
    f = [i \in 0 .. N |-> IF i = 0 THEN Begin ELSE Apply(f[i - 1], events[i])]

(* The recursive function of Outcome exists. *)
LEMMA ReplayExists ==
    ASSUME NEW events, NEW N \in Nat
    PROVE  \E f : Replays(f, events, N)
<1> DEFINE S == {n \in 0 .. N : \E f : Replays(f, events, n)}
<1>1. 0 \in S
  <2> DEFINE f == [i \in 0 .. 0 |-> Begin]
  <2>1. Replays(f, events, 0)
    BY DEF Replays
  <2> QED BY <2>1
<1>2. ASSUME NEW n \in 0 .. N, n < N, n \in S
      PROVE  n + 1 \in S
  <2>1. PICK f : Replays(f, events, n)
    BY <1>2
  <2> DEFINE g == [i \in 0 .. n + 1 |-> IF i <= n THEN f[i] ELSE Apply(f[n], events[n + 1])]
  <2>2. ASSUME NEW i \in 0 .. n + 1
        PROVE  g[i] = IF i = 0 THEN Begin ELSE Apply(g[i - 1], events[i])
    <3>1. CASE i = 0
      BY <2>1, <3>1 DEF Replays
    <3>2. CASE i # 0 /\ i <= n
      <4>1. i - 1 \in 0 .. n + 1 /\ i - 1 <= n /\ i \in 0 .. n
        BY <3>2
      <4>2. g[i - 1] = f[i - 1] /\ g[i] = f[i]
        BY <3>2, <4>1
      <4>3. f[i] = Apply(f[i - 1], events[i])
        BY <2>1, <3>2, <4>1 DEF Replays
      <4> QED BY <3>2, <4>2, <4>3
    <3>3. CASE i = n + 1
      <4>1. n \in 0 .. n + 1 /\ i - 1 = n /\ i # 0 /\ ~ (i <= n)
        BY <3>3
      <4>2. g[i] = Apply(f[n], events[n + 1]) /\ g[n] = f[n]
        BY <4>1
      <4> QED BY <3>3, <4>1, <4>2
    <3> QED BY <3>1, <3>2, <3>3
  <2>3. Replays(g, events, n + 1)
    BY <2>2 DEF Replays
  <2> QED BY <1>2, <2>3
<1> HIDE DEF S
<1>3. \A n \in 0 .. N : n \in S
  BY <1>1, <1>2, Reaches
<1> QED BY <1>3 DEF S

(* Outcome is the last state of a replay. *)
LEMMA OutcomeReplays ==
    ASSUME NEW events, Len(events) \in Nat
    PROVE  \E f : Replays(f, events, Len(events)) /\ Outcome(events) = f[Len(events)]
<1> DEFINE C == CHOOSE f : Replays(f, events, Len(events))
<1>1. Replays(C, events, Len(events))
  BY ReplayExists
<1>2. Outcome(events) = C[Len(events)]
  BY Zenon DEF Outcome, Replays
<1> QED BY <1>1, <1>2

(* Nothing has happened before the first event. *)
LEMMA OutcomeEmpty == Outcome(<<>>) = Begin
<1>1. Len(<<>>) = 0
  OBVIOUS
<1>2. PICK f : Replays(f, <<>>, 0) /\ Outcome(<<>>) = f[0]
  BY <1>1, OutcomeReplays
<1> QED BY <1>2 DEF Replays

(* One more event is applied to what the others left. *)
LEMMA OutcomeAppend ==
    ASSUME NEW s \in Seq(Event), NEW ev \in Event
    PROVE  Outcome(Append(s, ev)) = Apply(Outcome(s), ev)
<1> DEFINE t == Append(s, ev)
           n == Len(s)
<1>1. /\ n \in Nat /\ Len(t) = n + 1 /\ t[n + 1] = ev
      /\ \A i \in 1 .. n : t[i] = s[i]
  OBVIOUS
<1> HIDE DEF t, n
<1>2. PICK f : Replays(f, s, n) /\ Outcome(s) = f[n]
  BY <1>1, OutcomeReplays DEF n
<1>3. PICK g : Replays(g, t, n + 1) /\ Outcome(t) = g[n + 1]
  <2>1. Len(t) \in Nat
    BY <1>1
  <2> QED BY <1>1, <2>1, OutcomeReplays
<1> DEFINE S == {i \in 0 .. n : f[i] = g[i]}
<1>4. 0 \in S
  BY <1>1, <1>2, <1>3 DEF Replays
<1>5. ASSUME NEW i \in 0 .. n, i < n, i \in S
      PROVE  i + 1 \in S
  <2>1. i + 1 \in 0 .. n /\ i + 1 \in 0 .. n + 1 /\ i + 1 # 0 /\ (i + 1) - 1 = i /\ i + 1 \in 1 .. n
    BY <1>1, <1>5
  <2>2. f[i + 1] = Apply(f[i], s[i + 1])
    BY <1>2, <2>1 DEF Replays
  <2>3. g[i + 1] = Apply(g[i], t[i + 1])
    BY <1>3, <2>1 DEF Replays
  <2> QED BY <1>1, <1>5, <2>1, <2>2, <2>3
<1> HIDE DEF S
<1>6. \A i \in 0 .. n : i \in S
  BY <1>1, <1>4, <1>5, Reaches
<1>7. f[n] = g[n]
  BY <1>1, <1>6 DEF S
<1>8. g[n + 1] = Apply(g[n], t[n + 1])
  <2>1. n + 1 \in 0 .. n + 1 /\ n + 1 # 0 /\ (n + 1) - 1 = n
    BY <1>1
  <2> QED BY <1>3, <2>1 DEF Replays
<1> QED BY <1>1, <1>2, <1>3, <1>7, <1>8 DEF t

-----------------------------------------------------------------------------
(* The meanings of the definitions behind the first k of a grammar. *)
Denotes(m, in, D) ==
    m = [d \in D |-> Closed(in.doc, in.grammar[d],
                            [i \in DOMAIN in.grammar[d].children |->
                                m[in.grammar[d].children[i]]])]

(* The recursive function of Meaning exists: children come later. *)
LEMMA MeaningExists ==
    ASSUME NEW in, GrammarOK(in.grammar)
    PROVE  \E m : Denotes(m, in, DOMAIN in.grammar)
<1> DEFINE g == in.grammar
           N == Len(in.grammar)
           S == {j \in 0 .. N : \E m : Denotes(m, in, N - j + 1 .. N)}
<1>1. N \in Nat /\ DOMAIN g = 1 .. N
  BY LenProperties DEF GrammarOK
<1>2. \A d \in 1 .. N : \A i \in DOMAIN g[d].children : g[d].children[i] \in d + 1 .. N
  BY <1>1 DEF GrammarOK
<1> HIDE DEF N
<1>3. 0 \in S
  <2> DEFINE m == [d \in {} |-> 0]
  <2>1. N - 0 + 1 .. N = {} /\ 0 \in 0 .. N
    BY <1>1
  <2>2. Denotes(m, in, {})
    BY DEF Denotes
  <2> QED BY <2>1, <2>2
<1>4. ASSUME NEW j \in 0 .. N, j < N, j \in S
      PROVE  j + 1 \in S
  <2> DEFINE k == N - j
             D == k + 1 .. N
             E == k .. N
  <2>1. k \in 1 .. N /\ N - (j + 1) + 1 = k /\ j + 1 \in 0 .. N
    BY <1>1, <1>4
  <2>2. PICK m : Denotes(m, in, D)
    BY <1>4
  <2> DEFINE sub(f, d) == [i \in DOMAIN g[d].children |-> f[g[d].children[i]]]
             new == [d \in E |-> IF d = k THEN Closed(in.doc, g[k], sub(m, k)) ELSE m[d]]
  <2> HIDE DEF k
  <2>3. E \subseteq 1 .. N /\ \A d \in E : d = k \/ d \in D
    BY <1>1, <2>1
  <2>4. \A d \in D : d # k /\ d \in E
    BY <1>1, <2>1
  <2>5. \A d \in D : new[d] = m[d]
    BY <2>4
  <2>6. \A d \in E : \A i \in DOMAIN g[d].children : g[d].children[i] \in D
    <3> TAKE d \in E
    <3> TAKE i \in DOMAIN g[d].children
    <3>1. g[d].children[i] \in d + 1 .. N
      BY <1>2, <2>3
    <3> QED BY <1>1, <2>1, <3>1
  <2> HIDE DEF D, E
  <2>7. \A d \in E : sub(new, d) = sub(m, d)
    <3> HIDE DEF new
    <3> QED BY <2>5, <2>6
  <2>8. \A d \in D : m[d] = Closed(in.doc, g[d], sub(m, d))
    BY <2>2 DEF Denotes
  <2>9. \A d \in E : new[d] = Closed(in.doc, g[d], sub(m, d))
    <3> HIDE DEF sub
    <3> QED BY <2>3, <2>4, <2>8
  <2>10. \A d \in E : new[d] = Closed(in.doc, g[d], sub(new, d))
    <3> HIDE DEF sub, new
    <3> QED BY <2>7, <2>9
  <2>11. new = [d \in E |-> new[d]]
    OBVIOUS
  <2>12. new = [d \in E |-> Closed(in.doc, g[d], sub(new, d))]
    <3> HIDE DEF sub, new
    <3> QED BY <2>10, <2>11
  <2>13. Denotes(new, in, E)
    <3> HIDE DEF new
    <3> QED BY <2>12 DEF Denotes
  <2>14. Denotes(new, in, N - (j + 1) + 1 .. N)
    <3> HIDE DEF new
    <3> QED BY <2>1, <2>13 DEF E
  <2> HIDE DEF new
  <2> QED BY <2>1, <2>14
<1>5. \A j \in 0 .. N : j \in S
  <2> HIDE DEF S
  <2> QED BY <1>1, <1>3, <1>4, Reaches
<1>6. N \in S /\ N - N + 1 .. N = DOMAIN g
  BY <1>1, <1>5
<1> QED BY <1>6

(* The meaning of a definition, from those of its children. *)
LEMMA MeaningStep ==
    ASSUME NEW in, GrammarOK(in.grammar), NEW d \in DOMAIN in.grammar
    PROVE  Meaning(in)[d] = Closed(in.doc, in.grammar[d],
                                   [i \in DOMAIN in.grammar[d].children |->
                                       Meaning(in)[in.grammar[d].children[i]]])
<1> DEFINE C == CHOOSE m : Denotes(m, in, DOMAIN in.grammar)
<1>1. Denotes(C, in, DOMAIN in.grammar)
  BY MeaningExists
<1>2. Meaning(in) = C
  BY Zenon DEF Meaning, Denotes
<1> HIDE DEF C
<1> QED BY <1>1, <1>2 DEF Denotes

-----------------------------------------------------------------------------
(* A function on 1 .. N is a sequence of length N. *)
LEMMA FunctionIsSeq ==
    ASSUME NEW S, NEW N \in Nat, NEW f \in [1 .. N -> S]
    PROVE  f \in Seq(S) /\ Len(f) = N /\ DOMAIN f = 1 .. N
  OBVIOUS

(* The events of typed effects are events. *)
LEMMA EventsOfType ==
    ASSUME NEW N \in Nat, NEW e \in [1 .. N -> Effect]
    PROVE  /\ \A j \in 0 .. N : EventsOf(e)[j] \in Seq(Event)
           /\ EventsOf(e)[0] = <<>>
           /\ \A j \in 1 .. N : EventsOf(e)[j] = EventsOf(e)[j - 1] \o e[j].events
<1>1. /\ EventsOf(e)[0] = <<>>
      /\ \A j \in 1 .. N : EventsOf(e)[j] = EventsOf(e)[j - 1] \o e[j].events
  BY EventsOfStep
<1> DEFINE v == EventsOf(e)
           S == {j \in 0 .. N : v[j] \in Seq(Event)}
<1> HIDE DEF v
<1>2. 0 \in S
  <2>1. v[0] = <<>>
    BY <1>1 DEF v
  <2>2. v[0] \in Seq(Event)
    BY <2>1, EmptySeq
  <2> QED BY <2>2
<1>3. ASSUME NEW j \in 0 .. N, j < N, j \in S
      PROVE  j + 1 \in S
  <2>1. j + 1 \in 1 .. N /\ (j + 1) - 1 = j /\ j + 1 \in 0 .. N
    BY <1>3
  <2>2. e[j + 1].events \in Seq(Event)
    BY <2>1 DEF Effect
  <2>3. v[j + 1] = v[j] \o e[j + 1].events
    BY <1>1, <2>1 DEF v
  <2>4. v[j + 1] \in Seq(Event)
    BY <1>3, <2>2, <2>3, ConcatProperties
  <2> QED BY <2>1, <2>4
<1> HIDE DEF S
<1>4. \A j \in 0 .. N : j \in S
  BY <1>2, <1>3, Reaches
<1>5. \A j \in 0 .. N : v[j] \in Seq(Event)
  BY <1>4 DEF S
<1> QED BY <1>1, <1>5 DEF v

(* So is what several have together. *)
LEMMA UptoType ==
    ASSUME NEW N \in Nat, NEW e \in [1 .. N -> Effect], NEW j \in 0 .. N
    PROVE  /\ Upto(e, j) \in Effect
           /\ ~ Upto(e, j).throws
           /\ Upto(e, j).raised = RaisedBy(e, j)
           /\ Upto(e, j).events = EventsOf(e)[j]
<1>1. EventsOf(e)[j] \in Seq(Event)
  BY EventsOfType
<1>2. RaisedBy(e, j) \subseteq Error
  <2>1. \A i \in 1 .. j : e[i].raised \subseteq Error
    BY DEF Effect
  <2> QED BY <2>1 DEF RaisedBy
<1> QED BY <1>1, <1>2 DEF Upto, Effect

(* Where one_of stops. *)
StopsAt(e, N, j) ==
    /\ j \in 0 .. N
    /\ j = N \/ (j # 0 /\ Settles(e[j]))
    /\ \A i \in 1 .. j - 1 : ~ Settles(e[i])

(* It stops somewhere. *)
LEMMA StopsSomewhere ==
    ASSUME NEW N \in Nat, NEW e
    PROVE  \E j \in 0 .. N : StopsAt(e, N, j)
<1> SUFFICES ASSUME \A j \in 0 .. N : ~ StopsAt(e, N, j)
             PROVE  FALSE
  OBVIOUS
<1> DEFINE S == {j \in 0 .. N : \A i \in 1 .. j : ~ Settles(e[i])}
<1>1. 0 \in S
  OBVIOUS
<1>2. ASSUME NEW j \in 0 .. N, j < N, j \in S
      PROVE  j + 1 \in S
  <2>1. j + 1 \in 0 .. N /\ j + 1 # 0 /\ (j + 1) - 1 = j
    BY <1>2
  <2>2. \A i \in 1 .. j : ~ Settles(e[i])
    BY <1>2
  <2>3. ~ Settles(e[j + 1])
    BY <2>1, <2>2 DEF StopsAt
  <2>4. \A i \in 1 .. j + 1 : i \in 1 .. j \/ i = j + 1
    BY <1>2
  <2>5. \A i \in 1 .. j + 1 : ~ Settles(e[i])
    BY <2>2, <2>3, <2>4
  <2> QED BY <2>1, <2>5
<1> HIDE DEF S
<1>3. N \in S
  BY <1>1, <1>2, Reaches
<1>4. N \in 0 .. N /\ \A i \in 1 .. N - 1 : i \in 1 .. N
  OBVIOUS
<1> QED BY <1>3, <1>4 DEF S, StopsAt

(* And Tried is the place. *)
LEMMA TriedIs ==
    ASSUME NEW N \in Nat, NEW e \in [1 .. N -> Effect]
    PROVE  /\ StopsAt(e, N, Tried(e))
           /\ \A j : StopsAt(e, N, j) => Tried(e) = j
<1>1. Len(e) = N /\ DOMAIN e = 1 .. N /\ {0} \cup DOMAIN e = 0 .. N
  BY FunctionIsSeq
<1>2. Tried(e) = CHOOSE j \in 0 .. N : StopsAt(e, N, j)
  BY <1>1 DEF Tried, StopsAt
<1>3. StopsAt(e, N, Tried(e))
  BY <1>2, StopsSomewhere
<1>4. ASSUME NEW i, NEW j, StopsAt(e, N, i), StopsAt(e, N, j), i < j
      PROVE  FALSE
  <2>1. i \in 0 .. N /\ j \in 0 .. N /\ i # N
    BY <1>4 DEF StopsAt
  <2>2. i # 0 /\ Settles(e[i])
    BY <1>4, <2>1 DEF StopsAt
  <2>3. i \in 1 .. j - 1
    BY <1>4, <2>1, <2>2
  <2> QED BY <1>4, <2>2, <2>3 DEF StopsAt
<1>5. ASSUME NEW j, StopsAt(e, N, j)
      PROVE  Tried(e) = j
  <2> DEFINE i == Tried(e)
  <2>1. i \in Nat /\ j \in Nat
    BY <1>3, <1>5 DEF StopsAt
  <2> HIDE DEF i
  <2>2. ~ (i < j) /\ ~ (j < i)
    BY <1>3, <1>4, <1>5 DEF i
  <2>3. i = j
    BY <2>1, <2>2
  <2> QED BY <2>3 DEF i
<1> QED BY <1>3, <1>5

-----------------------------------------------------------------------------
(* The effects of definitions are effects. *)
LEMMA LeafTypes ==
    ASSUME NEW def \in Definition, NEW err \in Error, NEW v \in Value, NEW s
    PROVE  /\ Throws \in Effect
           /\ Fails(err, def.key, s) \in Effect
           /\ Writes(def.field, v) \in Effect
<1>1. def.key \in Key /\ def.field \in Field
  BY DEF Definition
<1>2. Throws \in Effect
  BY EmptySeq DEF Throws, Effect
<1>3. Fails(err, def.key, s) \in Effect
  <2> DEFINE ev == [tag |-> "error", error |-> err, key |-> def.key]
  <2>1. ev \in Event
    BY <1>1 DEF Event
  <2> HIDE DEF ev
  <2>2. <<ev>> \in Seq(Event) /\ <<>> \in Seq(Event)
    BY <2>1
  <2> QED BY <2>2 DEF Fails, Effect, ev
<1>4. Writes(def.field, v) \in Effect
  <2> DEFINE ev == [tag |-> "write", field |-> def.field, value |-> v]
  <2>1. ev \in Event
    BY <1>1 DEF Event
  <2> HIDE DEF ev
  <2>2. <<ev>> \in Seq(Event)
    BY <2>1
  <2> QED BY <2>2 DEF Writes, Effect, ev
<1> QED BY <1>2, <1>3, <1>4

(* A conversion's, too. *)
LEMMA TypedType ==
    ASSUME NEW def \in Definition, NEW node, node.value \in Value, NEW kind,
           NEW err \in Error, NEW s
    PROVE  Typed(def, node, kind, err, s) \in Effect
<1>1. "BadTypeConversion" \in Error
  BY DEF Error
<1>2. /\ Fails(err, def.key, s) \in Effect /\ Writes(def.field, node.value) \in Effect
      /\ Fails("BadTypeConversion", def.key, s) \in Effect
  BY <1>1, LeafTypes
<1> QED BY <1>2 DEF Typed

(* sub holds the effects of the children of def on the nodes of doc. *)
SubOK(doc, def, sub) ==
    \A i \in DOMAIN def.children : \A x \in DOMAIN doc : \A s \in SUBSET Error :
        sub[i][x][s] \in Effect

(* The children of a definition, run on one node. *)
LEMMA OnType ==
    ASSUME NEW def \in Definition, NEW doc, NEW sub, SubOK(doc, def, sub),
           NEW x \in DOMAIN doc, NEW s \in SUBSET Error
    PROVE  /\ Len(def.children) \in Nat /\ DOMAIN def.children = 1 .. Len(def.children)
           /\ On(def, sub, x, s) \in [1 .. Len(def.children) -> Effect]
           /\ Len(On(def, sub, x, s)) = Len(def.children)
           /\ \A i \in DOMAIN def.children : On(def, sub, x, s)[i] = sub[i][x][s]
<1>1. def.children \in Seq(Nat \ {0})
  BY DEF Definition
<1>2. Len(def.children) \in Nat /\ DOMAIN def.children = 1 .. Len(def.children)
  BY <1>1, LenProperties
<1>3. On(def, sub, x, s) \in [1 .. Len(def.children) -> Effect]
  BY <1>2 DEF On, SubOK
<1>4. \A i \in DOMAIN def.children : On(def, sub, x, s)[i] = sub[i][x][s]
  BY DEF On
<1> QED BY <1>2, <1>3, <1>4, FunctionIsSeq

(* One item of an each. *)
LEMMA ItemType ==
    ASSUME NEW def \in Definition, NEW doc, NEW sub, SubOK(doc, def, sub),
           NEW x \in DOMAIN doc, NEW s \in SUBSET Error
    PROVE  LET N == Len(def.children)
               e == On(def, sub, x, s)
               ev == [tag |-> "push", temp |-> def.temp]
               i == Item(def, sub, x, s)
           IN  /\ ev \in Event /\ i \in Effect /\ ~ i.throws
               /\ i.raised = RaisedBy(e, N)
               /\ i.events = Append(EventsOf(e)[N], ev)
<1> DEFINE N == Len(def.children)
           e == On(def, sub, x, s)
           ev == [tag |-> "push", temp |-> def.temp]
           u == Upto(e, N)
<1>1. N \in Nat /\ e \in [1 .. N -> Effect] /\ Len(e) = N
  BY OnType
<1>2. ev \in Event
  BY DEF Event, Definition
<1> HIDE DEF N, e, ev
<1>3. /\ u \in Effect /\ ~ u.throws /\ u.raised = RaisedBy(e, N)
      /\ u.events = EventsOf(e)[N]
  BY <1>1, UptoType
<1>4. Item(def, sub, x, s) = [u EXCEPT !.events = Append(u.events, ev)]
  BY <1>1 DEF Item, InOrder, e, ev
<1> HIDE DEF u
<1>5. Append(u.events, ev) \in Seq(Event)
  BY <1>2, <1>3 DEF Effect
<1> DEFINE a == Append(u.events, ev)
           i == [u EXCEPT !.events = a]
<1>6. a \in Seq(Event)
  BY <1>5
<1> HIDE DEF a
<1>7. i \in Effect /\ i.throws = u.throws /\ i.raised = u.raised /\ i.events = a
  BY <1>3, <1>6 DEF Effect
<1> QED BY <1>2, <1>3, <1>4, <1>7 DEF N, e, ev, a

-----------------------------------------------------------------------------
(* The errors a callback stops, and what passes it. *)
LEMMA OutsideType ==
    ASSUME NEW e \in Effect, NEW kind
    PROVE  /\ Outside(e, kind) \in Effect
           /\ Outside(e, kind).throws = e.throws
           /\ Outside(e, kind).raised = e.raised \ Stopped(kind)
           /\ Outside(e, kind).events = e.events
<1> DEFINE r == e.raised \ Stopped(kind)
<1>1. r \subseteq Error
  BY DEF Effect
<1> HIDE DEF r
<1>2. /\ [e EXCEPT !.raised = r] \in Effect /\ [e EXCEPT !.raised = r].throws = e.throws
      /\ [e EXCEPT !.raised = r].raised = r /\ [e EXCEPT !.raised = r].events = e.events
  BY <1>1 DEF Effect
<1> QED BY <1>2 DEF Outside, r

(* Only errors are stopped. *)
LEMMA StoppedErrors ==
    ASSUME NEW kind
    PROVE  Stopped(kind) \subseteq Error
  BY DEF Stopped, TypeError, Error

(* A wrapper: all of its children in order, or those that one_of tries. *)
Wraps(kind, w, e, N) ==
    /\ w \in Effect
    /\ kind # "one_of" =>
          /\ ~ w.throws
          /\ w.raised = RaisedBy(e, N) \ Stopped(kind)
          /\ w.events = EventsOf(e)[N]
    /\ kind = "one_of" =>
          \A j : StopsAt(e, N, j) =>
             /\ w.throws = (j # 0 /\ e[j].throws)
             /\ w.raised = RaisedBy(e, j) \ Stopped(kind)
             /\ w.events = EventsOf(e)[j]

(* The effect of a wrapper is that of the children it runs. *)
LEMMA WrapperFacts ==
    ASSUME NEW def \in Definition, NEW doc, NEW sub, SubOK(doc, def, sub),
           NEW n \in DOMAIN doc, NEW s \in SUBSET Error
    PROVE  Wraps(def.kind, OfWrapper(def, sub, n, s),
                 On(def, sub, n, s \cup Stopped(def.kind)), Len(def.children))
<1> DEFINE N == Len(def.children)
           e == On(def, sub, n, s \cup Stopped(def.kind))
           j == Tried(e)
           w == OfWrapper(def, sub, n, s)
<1>1. N \in Nat /\ e \in [1 .. N -> Effect] /\ Len(e) = N
  BY OnType, StoppedErrors
<1> HIDE DEF e, N
<1>2. CASE def.kind # "one_of"
  <2>1. w = Outside(Upto(e, N), def.kind)
    BY <1>1, <1>2 DEF OfWrapper, InOrder, e
  <2>2. N \in 0 .. N
    BY <1>1
  <2> DEFINE u == Upto(e, N)
  <2>3. /\ u \in Effect /\ ~ u.throws /\ u.raised = RaisedBy(e, N)
        /\ u.events = EventsOf(e)[N]
    BY <1>1, <2>2, UptoType
  <2> HIDE DEF w, u
  <2>4. /\ w \in Effect /\ w.throws = u.throws /\ w.raised = u.raised \ Stopped(def.kind)
        /\ w.events = u.events
    BY <2>1, <2>3, OutsideType DEF u
  <2>5. /\ w \in Effect /\ ~ w.throws
        /\ w.raised = RaisedBy(e, N) \ Stopped(def.kind)
        /\ w.events = EventsOf(e)[N]
    BY <2>3, <2>4
  <2>6. Wraps(def.kind, w, e, N)
    BY <1>2, <2>5 DEF Wraps
  <2> QED BY <2>6 DEF e, N, w
<1>3. CASE def.kind = "one_of"
  <2> DEFINE u == Upto(e, j)
             b == (j # 0 /\ e[j].throws)
             t == [u EXCEPT !.throws = b]
  <2>1. w = Outside(t, def.kind)
    BY <1>3 DEF OfWrapper, e
  <2>2. StopsAt(e, N, j) /\ \A i : StopsAt(e, N, i) => j = i
    BY <1>1, TriedIs
  <2>3. j \in 0 .. N
    BY <2>2 DEF StopsAt
  <2> HIDE DEF j, w
  <2>4. /\ u \in Effect /\ u.raised = RaisedBy(e, j)
        /\ u.events = EventsOf(e)[j]
    BY <1>1, <2>3, UptoType
  <2>5. b \in BOOLEAN
    OBVIOUS
  <2> HIDE DEF u, b
  <2>6. t \in Effect /\ t.throws = b /\ t.raised = u.raised /\ t.events = u.events
    BY <2>4, <2>5 DEF Effect
  <2> HIDE DEF t
  <2>7. /\ w \in Effect /\ w.throws = b /\ w.raised = u.raised \ Stopped(def.kind)
        /\ w.events = u.events
    BY <2>1, <2>6, OutsideType
  <2>8. \A i : StopsAt(e, N, i) =>
            /\ w.throws = (i # 0 /\ e[i].throws)
            /\ w.raised = RaisedBy(e, i) \ Stopped(def.kind)
            /\ w.events = EventsOf(e)[i]
    BY <2>2, <2>4, <2>7 DEF b
  <2>9. Wraps(def.kind, w, e, N)
    BY <1>3, <2>7, <2>8 DEF Wraps
  <2> QED BY <2>9 DEF e, N, w
<1> QED BY <1>2, <1>3

(* The items of an each. *)
Items(doc, def, sub, m, s) == [i \in DOMAIN doc[m].items |-> Item(def, sub, doc[m].items[i], s)]

(* Each item of an each has an effect. *)
LEMMA ItemsType ==
    ASSUME NEW def \in Definition, NEW doc, DocumentOK(doc), NEW sub, SubOK(doc, def, sub),
           NEW m \in DOMAIN doc, NEW s \in SUBSET Error
    PROVE  /\ Len(doc[m].items) \in Nat /\ DOMAIN doc[m].items = 1 .. Len(doc[m].items)
           /\ Items(doc, def, sub, m, s) \in [1 .. Len(doc[m].items) -> Effect]
           /\ Len(Items(doc, def, sub, m, s)) = Len(doc[m].items)
           /\ \A i \in DOMAIN doc[m].items : doc[m].items[i] \in DOMAIN doc
<1>1. Len(doc[m].items) \in Nat /\ DOMAIN doc[m].items = 1 .. Len(doc[m].items)
  BY DEF DocumentOK
<1>2. \A i \in DOMAIN doc[m].items : doc[m].items[i] \in DOMAIN doc
  <2> TAKE i \in DOMAIN doc[m].items
  <2>1. doc[m].items[i] \in m + 1 .. Len(doc) /\ DOMAIN doc = 1 .. Len(doc) /\ Len(doc) \in Nat
    BY DEF DocumentOK
  <2> QED BY <2>1
<1>3. \A i \in DOMAIN doc[m].items : Item(def, sub, doc[m].items[i], s) \in Effect
  BY <1>2, ItemType
<1>4. Items(doc, def, sub, m, s) \in [1 .. Len(doc[m].items) -> Effect]
  BY <1>1, <1>3 DEF Items
<1> QED BY <1>1, <1>2, <1>4, FunctionIsSeq

(* A definition that has found its attribute. *)
LEMMA OfAttributeType ==
    ASSUME NEW def \in Definition, NEW doc, DocumentOK(doc), NEW sub, SubOK(doc, def, sub),
           NEW m \in DOMAIN doc, NEW s \in SUBSET Error,
           def.kind \in {"scalar", "sequence", "choice", "fn", "map", "each"}
    PROVE  OfAttribute(doc, def, sub, m, s) \in Effect
<1> DEFINE attr == doc[m]
           o == OfAttribute(doc, def, sub, m, s)
<1>1. attr.value \in Value
  BY DEF DocumentOK
<1>2. /\ "NotScalar" \in Error /\ "NotSequence" \in Error /\ "InvalidValue" \in Error
      /\ "NotMap" \in Error
  BY DEF Error
<1>3. /\ Fails("InvalidValue", def.key, s) \in Effect /\ Fails("NotMap", def.key, s) \in Effect
      /\ Fails("NotSequence", def.key, s) \in Effect /\ Throws \in Effect
      /\ Writes(def.field, attr.value) \in Effect
  BY <1>1, <1>2, LeafTypes
<1>4. /\ Typed(def, attr, "scalar", "NotScalar", s) \in Effect
      /\ Typed(def, attr, "sequence", "NotSequence", s) \in Effect
  BY <1>1, <1>2, TypedType
<1>5. InOrder(On(def, sub, m, s)) \in Effect
  <2>1. Len(def.children) \in 0 .. Len(def.children)
    BY OnType
  <2> QED BY <2>1, OnType, UptoType DEF InOrder
<1>6. InOrder(Items(doc, def, sub, m, s)) \in Effect
  <2>1. Len(attr.items) \in 0 .. Len(attr.items)
    BY ItemsType
  <2> QED BY <2>1, ItemsType, UptoType DEF InOrder
<1>7. CASE def.kind = "scalar"
  BY <1>4, <1>7 DEF OfAttribute
<1>8. CASE def.kind = "sequence"
  BY <1>4, <1>8 DEF OfAttribute
<1>9. CASE def.kind = "choice"
  BY <1>3, <1>4, <1>9 DEF OfAttribute
<1>10. CASE def.kind = "fn"
  BY <1>3, <1>10 DEF OfAttribute
<1>11. CASE def.kind = "map"
  BY <1>3, <1>5, <1>11 DEF OfAttribute
<1>12. CASE def.kind = "each"
  <2>1. o = IF attr.kind # "sequence" THEN Fails("NotSequence", def.key, s)
            ELSE InOrder(Items(doc, def, sub, m, s))
    BY <1>12 DEF OfAttribute, Items
  <2> QED BY <1>3, <1>6, <2>1
<1> QED BY <1>7, <1>8, <1>9, <1>10, <1>11, <1>12

(* Every definition. *)
LEMMA EffectOfType ==
    ASSUME NEW def \in Definition, NEW doc, DocumentOK(doc), NEW sub, SubOK(doc, def, sub),
           NEW n \in DOMAIN doc, NEW s \in SUBSET Error
    PROVE  EffectOf(doc, def, sub, n, s) \in Effect
<1>1. CASE def.kind \in {"parser", "optional", "attempt", "one_of"}
  <2>1. OfWrapper(def, sub, n, s) \in Effect
    BY WrapperFacts DEF Wraps
  <2> QED BY <1>1, <2>1 DEF EffectOf
<1>2. CASE def.kind = "element"
  <2>1. doc[n].value \in Value /\ "NotSequence" \in Error
    BY DEF DocumentOK, Error
  <2> QED BY <1>2, <2>1, TypedType DEF EffectOf
<1>3. CASE def.kind \in {"scalar", "sequence", "choice", "fn", "map", "each"}
  <2> DEFINE has == doc[n].kind = "map" /\ def.key \in DOMAIN doc[n].entries
             m == doc[n].entries[def.key]
  <2>1. CASE has
    <3>1. m \in n + 1 .. Len(doc) /\ DOMAIN doc = 1 .. Len(doc) /\ Len(doc) \in Nat
      BY <2>1 DEF DocumentOK
    <3>2. m \in DOMAIN doc
      BY <3>1
    <3>3. EffectOf(doc, def, sub, n, s) = OfAttribute(doc, def, sub, m, s)
      BY <1>3, <2>1 DEF EffectOf
    <3> HIDE DEF m
    <3> QED BY <1>3, <3>2, <3>3, OfAttributeType
  <2>2. CASE ~ has
    <3>1. "AttributeMissing" \in Error /\ doc[n].value \in Value
      BY DEF Error, DocumentOK
    <3>2. Fails("AttributeMissing", def.key, s) \in Effect /\ Throws \in Effect
      BY <3>1, LeafTypes
    <3> QED BY <1>3, <2>2, <3>2 DEF EffectOf
  <2> QED BY <2>1, <2>2
<1> QED BY <1>1, <1>2, <1>3 DEF Definition, Combinator, Leaf

(* So the meaning of a grammar gives an effect to every definition, node and  *)
(* set of errors.                                                             *)
LEMMA MeaningType ==
    ASSUME NEW in, GrammarOK(in.grammar), DocumentOK(in.doc)
    PROVE  \A d \in DOMAIN in.grammar : \A n \in DOMAIN in.doc : \A s \in SUBSET Error :
               Meaning(in)[d][n][s] \in Effect
<1> DEFINE g == in.grammar
           N == Len(in.grammar)
           M == Meaning(in)
           Good(d) == \A n \in DOMAIN in.doc : \A s \in SUBSET Error : M[d][n][s] \in Effect
           S == {j \in 0 .. N : \A d \in N - j + 1 .. N : Good(d)}
<1>1. N \in Nat /\ DOMAIN g = 1 .. N /\ \A d \in 1 .. N : g[d] \in Definition
  BY LenProperties, ElementOfSeq DEF GrammarOK
<1>2. \A d \in 1 .. N : \A i \in DOMAIN g[d].children : g[d].children[i] \in d + 1 .. N
  BY <1>1 DEF GrammarOK
<1> HIDE DEF N
<1>3. 0 \in S
  BY <1>1
<1>4. ASSUME NEW j \in 0 .. N, j < N, j \in S
      PROVE  j + 1 \in S
  <2> DEFINE k == N - j
             sub == [i \in DOMAIN g[k].children |-> M[g[k].children[i]]]
  <2>1. k \in 1 .. N /\ N - (j + 1) + 1 = k /\ j + 1 \in 0 .. N
    BY <1>1, <1>4
  <2>2. \A d \in k + 1 .. N : Good(d)
    BY <1>4
  <2>3. \A d \in k .. N : d = k \/ d \in k + 1 .. N
    BY <1>1, <2>1
  <2> HIDE DEF k
  <2>4. SubOK(in.doc, g[k], sub)
    <3>1. \A i \in DOMAIN g[k].children : Good(g[k].children[i]) /\ sub[i] = M[g[k].children[i]]
      BY <1>2, <2>1, <2>2
    <3> HIDE DEF sub, M
    <3> QED BY <3>1 DEF SubOK
  <2>5. M[k] = Closed(in.doc, g[k], sub)
    BY <1>1, <2>1, MeaningStep
  <2> HIDE DEF sub, M
  <2>6. Good(k)
    <3> TAKE n \in DOMAIN in.doc
    <3> TAKE s \in SUBSET Error
    <3>1. M[k][n][s] = EffectOf(in.doc, g[k], sub, n, s)
      BY <2>5 DEF Closed
    <3>2. EffectOf(in.doc, g[k], sub, n, s) \in Effect
      BY <1>1, <2>1, <2>4, EffectOfType
    <3> QED BY <3>1, <3>2
  <2>7. \A d \in k .. N : Good(d)
    <3> HIDE DEF Good
    <3> QED BY <2>2, <2>3, <2>6
  <2> HIDE DEF Good
  <2> QED BY <2>1, <2>7
<1>5. \A j \in 0 .. N : j \in S
  <2> HIDE DEF S
  <2> QED BY <1>1, <1>3, <1>4, Reaches
<1>6. \A d \in 1 .. N : Good(d)
  <2>1. N \in S /\ N - N + 1 = 1
    BY <1>1, <1>5
  <2> HIDE DEF Good
  <2> QED BY <2>1
<1> QED BY <1>1, <1>6

-----------------------------------------------------------------------------
(* A grammar and a document. *)
InputOK(in) == GrammarOK(in.grammar) /\ DocumentOK(in.doc)

(* Kind, of a given input. *)
Sort(in, f) == IF f.item THEN "parser" ELSE in.grammar[f.def].kind

(* The frames of a stack are of the grammar and of the document. *)
FramesOK(in, s) ==
    /\ s \in Seq(Frame)
    /\ \A i \in 1 .. Len(s) : s[i].def \in DOMAIN in.grammar /\ s[i].node \in DOMAIN in.doc

(* The errors that the callbacks of the first i frames stop. *)
Shield(in, s, i) == UNION {Stopped(Sort(in, s[j])) : j \in 1 .. i}

(* What a frame runs, one after the other. *)
SubOf(in, d) == [i \in DOMAIN in.grammar[d].children |-> Meaning(in)[in.grammar[d].children[i]]]
PartsOf(in, f, shield) ==
    IF Sort(in, f) = "each"
    THEN Items(in.doc, in.grammar[f.def], SubOf(in, f.def), f.node, shield)
    ELSE On(in.grammar[f.def], SubOf(in, f.def), f.node, shield)
Parts(in, s, i) == PartsOf(in, s[i], Shield(in, s, i))
PartCount(in, f) ==
    IF Sort(in, f) = "each" THEN Len(in.doc[f.node].items) ELSE Len(in.grammar[f.def].children)

(* How many of them have ended. *)
Done(s, i) == IF i = Len(s) THEN s[i].next - 1 ELSE s[i].next - 2

(* Frame p has called frame f, and waits for it. *)
Runs(in, c, n, x) ==
    LET d == in.grammar[c]
    IN  \/ d.kind \in {"one_of", "optional", "attempt"} /\ x = n
        \/ /\ d.kind \in {"map", "each"}
           /\ in.doc[n].kind = "map" /\ d.key \in DOMAIN in.doc[n].entries
           /\ x = in.doc[n].entries[d.key]
           /\ in.doc[x].kind = IF d.kind = "map" THEN "map" ELSE "sequence"
Calls(in, p, f) ==
    /\ p.next - 1 \in 1 .. PartCount(in, p)
    /\ IF f.item
       THEN /\ Sort(in, p) = "each" /\ f.def = p.def
            /\ f.node = in.doc[p.node].items[p.next - 1]
       ELSE /\ Sort(in, p) # "each"
            /\ f.def = in.grammar[p.def].children[p.next - 1]
            /\ Runs(in, f.def, p.node, f.node)

(* A stack: the root, and calls, each to a part that has not ended. *)
Nested(in, s) ==
    /\ FramesOK(in, s) /\ Len(s) # 0
    /\ s[1].def = 1 /\ s[1].node = 1 /\ ~ s[1].item
    /\ \A i \in 2 .. Len(s) : Calls(in, s[i - 1], s[i])
    /\ s[Len(s)].next - 1 \in 0 .. PartCount(in, s[Len(s)])

-----------------------------------------------------------------------------
(* The children of a definition are of the grammar, and have meanings. *)
LEMMA SubOfOK ==
    ASSUME NEW in, InputOK(in), NEW d \in DOMAIN in.grammar
    PROVE  /\ in.grammar[d] \in Definition
           /\ SubOK(in.doc, in.grammar[d], SubOf(in, d))
           /\ \A i \in DOMAIN in.grammar[d].children :
                 /\ in.grammar[d].children[i] \in DOMAIN in.grammar
                 /\ in.grammar[d].children[i] \in d + 1 .. Len(in.grammar)
                 /\ SubOf(in, d)[i] = Meaning(in)[in.grammar[d].children[i]]
<1> DEFINE g == in.grammar
           N == Len(in.grammar)
<1>1. N \in Nat /\ DOMAIN g = 1 .. N /\ g[d] \in Definition
  BY LenProperties, ElementOfSeq DEF InputOK, GrammarOK
<1>2. \A i \in DOMAIN g[d].children : g[d].children[i] \in d + 1 .. N
  BY DEF InputOK, GrammarOK
<1> HIDE DEF N
<1>3. \A i \in DOMAIN g[d].children : g[d].children[i] \in DOMAIN g
  BY <1>1, <1>2
<1>4. \A i \in DOMAIN g[d].children : SubOf(in, d)[i] = Meaning(in)[g[d].children[i]]
  BY DEF SubOf
<1>5. SubOK(in.doc, g[d], SubOf(in, d))
  <2>1. \A c \in DOMAIN g : \A n \in DOMAIN in.doc : \A s \in SUBSET Error :
            Meaning(in)[c][n][s] \in Effect
    BY MeaningType DEF InputOK
  <2> QED BY <1>3, <1>4, <2>1 DEF SubOK
<1> QED BY <1>1, <1>2, <1>3, <1>4, <1>5 DEF N

(* Nothing but errors is stopped. *)
LEMMA ShieldErrors ==
    ASSUME NEW in, NEW s, NEW i
    PROVE  Shield(in, s, i) \in SUBSET Error
  BY StoppedErrors DEF Shield

(* One frame more stops the errors that it names. *)
LEMMA ShieldStep ==
    ASSUME NEW in, NEW s, NEW i \in Nat, i # 0
    PROVE  /\ Shield(in, s, i) = Shield(in, s, i - 1) \cup Stopped(Sort(in, s[i]))
           /\ Shield(in, s, 0) = {}
<1>1. \A j \in 1 .. i : j \in 1 .. i - 1 \/ j = i
  OBVIOUS
<1>2. \A j \in 1 .. i - 1 : j \in 1 .. i
  OBVIOUS
<1>3. i \in 1 .. i
  OBVIOUS
<1>4. 1 .. 0 = {}
  OBVIOUS
<1> QED BY <1>1, <1>2, <1>3, <1>4 DEF Shield

(* The effects of what a frame runs. *)
LEMMA PartsType ==
    ASSUME NEW in, InputOK(in), NEW f, f.def \in DOMAIN in.grammar, f.node \in DOMAIN in.doc,
           NEW sh \in SUBSET Error
    PROVE  /\ PartCount(in, f) \in Nat
           /\ PartsOf(in, f, sh) \in [1 .. PartCount(in, f) -> Effect]
           /\ DOMAIN PartsOf(in, f, sh) = 1 .. PartCount(in, f)
<1> DEFINE d == in.grammar[f.def]
           sub == SubOf(in, f.def)
<1>1. d \in Definition /\ SubOK(in.doc, d, sub) /\ DocumentOK(in.doc)
  BY SubOfOK DEF InputOK
<1> HIDE DEF d, sub
<1>2. CASE Sort(in, f) = "each"
  <2>1. /\ PartsOf(in, f, sh) = Items(in.doc, d, sub, f.node, sh)
        /\ PartCount(in, f) = Len(in.doc[f.node].items)
    BY <1>2 DEF PartsOf, PartCount, d, sub
  <2> QED BY <1>1, <2>1, ItemsType
<1>3. CASE Sort(in, f) # "each"
  <2>1. /\ PartsOf(in, f, sh) = On(d, sub, f.node, sh)
        /\ PartCount(in, f) = Len(d.children)
    BY <1>3 DEF PartsOf, PartCount, d, sub
  <2> QED BY <1>1, <2>1, OnType
<1> QED BY <1>2, <1>3

(* Frames that run the same closures have the same parts. *)
Alike(f, g) == f.def = g.def /\ f.node = g.node /\ f.item = g.item
AlikeUpto(s, t, i) == \A j \in 1 .. i : Alike(s[j], t[j])

(* Such frames stop the same errors, and run the same parts. *)
LEMMA AlikeParts ==
    ASSUME NEW in, InputOK(in), NEW s, NEW t, NEW i \in Nat, AlikeUpto(s, t, i)
    PROVE  /\ \A j \in 1 .. i : Sort(in, t[j]) = Sort(in, s[j])
           /\ \A j \in 1 .. i : Shield(in, t, j) = Shield(in, s, j)
           /\ \A j \in 1 .. i : Parts(in, t, j) = Parts(in, s, j)
           /\ \A j \in 1 .. i : PartCount(in, t[j]) = PartCount(in, s[j])
<1>1. \A j \in 1 .. i : Sort(in, t[j]) = Sort(in, s[j])
  BY DEF AlikeUpto, Alike, Sort
<1>2. \A j \in 1 .. i : Shield(in, t, j) = Shield(in, s, j)
  <2> TAKE j \in 1 .. i
  <2>1. \A k \in 1 .. j : k \in 1 .. i
    OBVIOUS
  <2>2. {Stopped(Sort(in, t[k])) : k \in 1 .. j} = {Stopped(Sort(in, s[k])) : k \in 1 .. j}
    BY <1>1, <2>1
  <2> QED BY <2>2 DEF Shield
<1>3. \A j \in 1 .. i : Parts(in, t, j) = Parts(in, s, j)
  BY <1>1, <1>2 DEF Parts, PartsOf, AlikeUpto, Alike
<1>4. \A j \in 1 .. i : PartCount(in, t[j]) = PartCount(in, s[j])
  BY <1>1 DEF PartCount, AlikeUpto, Alike
<1> QED BY <1>1, <1>2, <1>3, <1>4

(* Calls looks at the caller's next and at what both run. *)
LEMMA AlikeCalls ==
    ASSUME NEW in, NEW p, NEW q, NEW f, NEW g, Alike(p, q), p.next = q.next, Alike(f, g),
           Calls(in, p, f)
    PROVE  Calls(in, q, g)
<1>1. Sort(in, q) = Sort(in, p) /\ PartCount(in, q) = PartCount(in, p)
  BY DEF Alike, Sort, PartCount
<1> QED BY <1>1 DEF Calls, Alike

(* One effect more. *)
LEMMA RaisedByStep ==
    ASSUME NEW e, NEW j \in Nat
    PROVE  /\ RaisedBy(e, 0) = {}
           /\ j # 0 => RaisedBy(e, j) = RaisedBy(e, j - 1) \cup e[j].raised
<1>1. 1 .. 0 = {}
  OBVIOUS
<1>2. RaisedBy(e, 0) = {}
  BY <1>1 DEF RaisedBy
<1>3. ASSUME j # 0 PROVE RaisedBy(e, j) = RaisedBy(e, j - 1) \cup e[j].raised
  <2>1. \A i \in 1 .. j : i \in 1 .. j - 1 \/ i = j
    BY <1>3
  <2>2. \A i \in 1 .. j - 1 : i \in 1 .. j
    BY <1>3
  <2>3. j \in 1 .. j
    BY <1>3
  <2> QED BY <2>1, <2>2, <2>3 DEF RaisedBy
<1> QED BY <1>2, <1>3

-----------------------------------------------------------------------------
(* The effect that the caller of frame i sees it have, once it ends. *)
Seen(in, s, i) ==
    IF i = 1 THEN Meaning(in)[1][1][{}] ELSE Parts(in, s, i - 1)[s[i - 1].next - 1]

(* Push events. *)
Push(in, f) == [tag |-> "push", temp |-> in.grammar[f.def].temp]

(* e is what N parts amount to for the caller of a frame. *)
Amounts(in, f, w, e, N) ==
    /\ w \in Effect
    /\ Sort(in, f) # "one_of" =>
          /\ ~ w.throws
          /\ w.raised = RaisedBy(e, N) \ Stopped(Sort(in, f))
          /\ w.events = IF f.item THEN Append(EventsOf(e)[N], Push(in, f)) ELSE EventsOf(e)[N]
    /\ Sort(in, f) = "one_of" =>
          \A j : StopsAt(e, N, j) =>
              /\ w.throws = (j # 0 /\ e[j].throws)
              /\ w.raised = RaisedBy(e, j) \ Stopped(Sort(in, f))
              /\ w.events = EventsOf(e)[j]

(* A wrapper, on the node of its caller. *)
LEMMA WrapperAmounts ==
    ASSUME NEW in, InputOK(in), NEW f, f.item = FALSE, f.def \in DOMAIN in.grammar, f.node \in DOMAIN in.doc,
           NEW sh \in SUBSET Error,
           in.grammar[f.def].kind \in {"parser", "optional", "attempt", "one_of"}
    PROVE  Amounts(in, f, EffectOf(in.doc, in.grammar[f.def], SubOf(in, f.def), f.node, sh),
                   PartsOf(in, f, sh \cup Stopped(Sort(in, f))), PartCount(in, f))
<1> DEFINE d == in.grammar[f.def]
           sub == SubOf(in, f.def)
           w == OfWrapper(d, sub, f.node, sh)
           e == On(d, sub, f.node, sh \cup Stopped(d.kind))
           N == Len(d.children)
<1>1. d \in Definition /\ SubOK(in.doc, d, sub)
  BY SubOfOK
<1>2. Sort(in, f) = d.kind /\ Sort(in, f) # "each"
  BY DEF Sort
<1>3. /\ PartsOf(in, f, sh \cup Stopped(Sort(in, f))) = e /\ PartCount(in, f) = N
  BY <1>2 DEF PartsOf, PartCount
<1>4. EffectOf(in.doc, d, sub, f.node, sh) = w
  BY DEF EffectOf
<1> HIDE DEF d, sub
<1>5. Wraps(d.kind, w, e, N)
  BY <1>1, WrapperFacts
<1> HIDE DEF w, e, N
<1>6. Amounts(in, f, w, e, N)
  BY <1>2, <1>5 DEF Amounts, Wraps
<1> QED BY <1>3, <1>4, <1>6 DEF d, sub

(* A map, or the items of an each. *)
LEMMA SectionAmounts ==
    ASSUME NEW in, InputOK(in), NEW f, f.item = FALSE, f.def \in DOMAIN in.grammar, f.node \in DOMAIN in.doc,
           NEW n \in DOMAIN in.doc, NEW sh \in SUBSET Error,
           in.grammar[f.def].kind \in {"map", "each"}, Runs(in, f.def, n, f.node)
    PROVE  Amounts(in, f, EffectOf(in.doc, in.grammar[f.def], SubOf(in, f.def), n, sh),
                   PartsOf(in, f, sh \cup Stopped(Sort(in, f))), PartCount(in, f))
<1> DEFINE d == in.grammar[f.def]
           sub == SubOf(in, f.def)
           w == EffectOf(in.doc, d, sub, n, sh)
           e == PartsOf(in, f, sh)
           N == PartCount(in, f)
<1>1. d \in Definition /\ SubOK(in.doc, d, sub)
  BY SubOfOK
<1>2. Sort(in, f) = d.kind /\ Stopped(Sort(in, f)) = {} /\ Sort(in, f) # "one_of"
  BY DEF Sort, Stopped
<1>3. sh \cup Stopped(Sort(in, f)) = sh
  BY <1>2
<1>4. N \in Nat /\ e \in [1 .. N -> Effect] /\ Len(e) = N
  <2>1. N \in Nat /\ e \in [1 .. N -> Effect]
    BY PartsType
  <2> QED BY <2>1, FunctionIsSeq
<1>5. w = InOrder(e)
  <2>1. /\ in.doc[n].kind = "map" /\ d.key \in DOMAIN in.doc[n].entries
        /\ f.node = in.doc[n].entries[d.key]
        /\ in.doc[f.node].kind = IF d.kind = "map" THEN "map" ELSE "sequence"
    BY DEF Runs
  <2>2. w = OfAttribute(in.doc, d, sub, f.node, sh)
    BY <2>1 DEF EffectOf
  <2>3. CASE d.kind = "map"
    <3>1. e = On(d, sub, f.node, sh)
      BY <1>2, <2>3 DEF PartsOf
    <3> QED BY <2>1, <2>2, <2>3, <3>1 DEF OfAttribute
  <2>4. CASE d.kind = "each"
    <3>1. e = Items(in.doc, d, sub, f.node, sh)
      BY <1>2, <2>4 DEF PartsOf
    <3>2. in.doc[f.node].kind = "sequence"
      BY <2>1, <2>4
    <3> HIDE DEF e
    <3> QED BY <2>2, <2>4, <3>1, <3>2 DEF OfAttribute, Items
  <2> QED BY <2>3, <2>4
<1> HIDE DEF w, e, N
<1>6. w = Upto(e, N) /\ N \in 0 .. N
  BY <1>4, <1>5 DEF InOrder
<1>7. w \in Effect /\ ~ w.throws /\ w.raised = RaisedBy(e, N) /\ w.events = EventsOf(e)[N]
  BY <1>4, <1>6, UptoType
<1>8. Amounts(in, f, w, e, N)
  BY <1>2, <1>7 DEF Amounts
<1> QED BY <1>3, <1>8 DEF w, e, N, d, sub

(* One item of an each. *)
LEMMA ItemAmounts ==
    ASSUME NEW in, InputOK(in), NEW f, f.item = TRUE, f.def \in DOMAIN in.grammar, f.node \in DOMAIN in.doc,
           NEW sh \in SUBSET Error
    PROVE  /\ Push(in, f) \in Event
           /\ Amounts(in, f, Item(in.grammar[f.def], SubOf(in, f.def), f.node, sh),
                      PartsOf(in, f, sh \cup Stopped(Sort(in, f))), PartCount(in, f))
<1> DEFINE d == in.grammar[f.def]
           sub == SubOf(in, f.def)
           w == Item(d, sub, f.node, sh)
           e == On(d, sub, f.node, sh)
           N == Len(d.children)
<1>1. d \in Definition /\ SubOK(in.doc, d, sub)
  BY SubOfOK
<1>2. Sort(in, f) = "parser" /\ Stopped(Sort(in, f)) = {} /\ Sort(in, f) # "one_of"
  BY DEF Sort, Stopped
<1>3. sh \cup Stopped(Sort(in, f)) = sh
  BY <1>2
<1>4. PartsOf(in, f, sh) = e /\ PartCount(in, f) = N
  BY <1>2 DEF PartsOf, PartCount
<1>5. Push(in, f) = [tag |-> "push", temp |-> d.temp]
  BY DEF Push
<1> HIDE DEF d, sub
<1>6. /\ Push(in, f) \in Event /\ w \in Effect /\ ~ w.throws
      /\ w.raised = RaisedBy(e, N)
      /\ w.events = Append(EventsOf(e)[N], Push(in, f))
  BY <1>1, <1>5, ItemType
<1> HIDE DEF w, e, N
<1>7. Amounts(in, f, w, e, N)
  BY <1>2, <1>6 DEF Amounts
<1> QED BY <1>3, <1>4, <1>6, <1>7 DEF w, d, sub

(* What a frame's parts amount to is what its caller sees. *)
LEMMA SeenAmounts ==
    ASSUME NEW in, InputOK(in), NEW s, Nested(in, s), NEW i \in 1 .. Len(s)
    PROVE  Amounts(in, s[i], Seen(in, s, i), Parts(in, s, i), PartCount(in, s[i]))
<1> DEFINE f == s[i]
           sh == Shield(in, s, i - 1)
           w == Seen(in, s, i)
<1>1. f.def \in DOMAIN in.grammar /\ f.node \in DOMAIN in.doc
  BY DEF Nested, FramesOK
<1>2. f.item \in BOOLEAN
  <2>1. f \in Frame
    BY ElementOfSeq DEF Nested, FramesOK
  <2> QED BY <2>1 DEF Frame
<1>3. Len(s) \in Nat
  BY LenProperties DEF Nested, FramesOK
<1>4. Parts(in, s, i) = PartsOf(in, f, sh \cup Stopped(Sort(in, f)))
  <2>1. i \in Nat /\ i # 0
    BY <1>3
  <2>2. Shield(in, s, i) = sh \cup Stopped(Sort(in, f))
    BY <2>1, ShieldStep
  <2> QED BY <2>2 DEF Parts
<1>5. sh \in SUBSET Error
  BY ShieldErrors
<1>6. in.grammar[f.def] \in Definition
  BY <1>1, SubOfOK
<1>7. CASE i = 1
  <2>1. f.def = 1 /\ f.node = 1 /\ f.item = FALSE
    BY <1>2, <1>7 DEF Nested
  <2>2. in.grammar[f.def].kind = "parser"
    BY <2>1 DEF InputOK, GrammarOK
  <2>3. sh = {}
    <3>1. i - 1 = 0 /\ 1 \in Nat /\ 1 # 0
      BY <1>7
    <3>2. Shield(in, s, 0) = {}
      BY <3>1, ShieldStep
    <3> QED BY <3>1, <3>2
  <2>4. w = Meaning(in)[1][1][{}]
    BY <1>7 DEF Seen
  <2>5. Meaning(in)[f.def] = Closed(in.doc, in.grammar[f.def], SubOf(in, f.def))
    BY <1>1, MeaningStep DEF InputOK, SubOf
  <2>6. w = EffectOf(in.doc, in.grammar[f.def], SubOf(in, f.def), f.node, sh)
    <3>1. w = Meaning(in)[f.def][f.node][sh]
      BY <2>1, <2>3, <2>4
    <3> HIDE DEF f, sh, w
    <3> QED BY <1>1, <1>5, <2>5, <3>1 DEF Closed, f
  <2> HIDE DEF f, sh, w
  <2>7. Amounts(in, f, EffectOf(in.doc, in.grammar[f.def], SubOf(in, f.def), f.node, sh),
                PartsOf(in, f, sh \cup Stopped(Sort(in, f))), PartCount(in, f))
    BY <1>1, <1>5, <2>1, <2>2, WrapperAmounts
  <2> QED BY <1>4, <2>6, <2>7 DEF f, w
<1>8. CASE i # 1
  <2> DEFINE p == s[i - 1]
             j == s[i - 1].next - 1
  <2>1. i \in 2 .. Len(s) /\ i - 1 \in 1 .. Len(s)
    BY <1>3, <1>8
  <2>2. Calls(in, p, f) /\ p.def \in DOMAIN in.grammar /\ p.node \in DOMAIN in.doc
    BY <2>1 DEF Nested, FramesOK
  <2>3. w = PartsOf(in, p, sh)[j]
    BY <1>8 DEF Seen, Parts
  <2> HIDE DEF f, sh, w, p
  <2>4. j \in 1 .. PartCount(in, p)
    BY <2>2 DEF Calls, p
  <2> HIDE DEF j
  <2>5. in.grammar[p.def] \in Definition /\ SubOK(in.doc, in.grammar[p.def], SubOf(in, p.def))
    BY <2>2, SubOfOK
  <2>6. CASE f.item = TRUE
    <3>1. /\ Sort(in, p) = "each" /\ f.def = p.def /\ f.node = in.doc[p.node].items[j]
      BY <2>2, <2>6 DEF Calls, p, j
    <3>2. PartsOf(in, p, sh) = Items(in.doc, in.grammar[p.def], SubOf(in, p.def), p.node, sh)
      BY <3>1 DEF PartsOf
    <3>3. j \in DOMAIN in.doc[p.node].items
      <4>1. PartCount(in, p) = Len(in.doc[p.node].items)
        BY <3>1 DEF PartCount
      <4> QED BY <2>2, <2>4, <4>1 DEF InputOK, DocumentOK
    <3>4. w = Item(in.grammar[f.def], SubOf(in, f.def), f.node, sh)
      BY <2>3, <3>1, <3>2, <3>3 DEF Items
    <3>5. Amounts(in, f, Item(in.grammar[f.def], SubOf(in, f.def), f.node, sh),
                  PartsOf(in, f, sh \cup Stopped(Sort(in, f))), PartCount(in, f))
      BY <1>1, <1>5, <2>6, ItemAmounts DEF f
    <3> QED BY <1>4, <3>4, <3>5 DEF f, w
  <2>7. CASE f.item = FALSE
    <3>1. /\ Sort(in, p) # "each" /\ f.def = in.grammar[p.def].children[j]
          /\ Runs(in, f.def, p.node, f.node)
      BY <2>2, <2>7 DEF Calls, p, j
    <3>2. PartsOf(in, p, sh) = On(in.grammar[p.def], SubOf(in, p.def), p.node, sh)
      BY <3>1 DEF PartsOf
    <3>3. j \in DOMAIN in.grammar[p.def].children
      <4>1. PartCount(in, p) = Len(in.grammar[p.def].children)
        BY <3>1 DEF PartCount
      <4>2. in.grammar[p.def].children \in Seq(Nat \ {0})
        BY <2>5 DEF Definition
      <4> QED BY <2>4, <4>1, <4>2, LenProperties
    <3>4. w = Meaning(in)[f.def][p.node][sh]
      <4>1. SubOf(in, p.def)[j] = Meaning(in)[f.def]
        BY <2>2, <3>1, <3>3, SubOfOK
      <4> QED BY <2>3, <3>2, <3>3, <4>1 DEF On
    <3>5. Meaning(in)[f.def] = Closed(in.doc, in.grammar[f.def], SubOf(in, f.def))
      BY <1>1, MeaningStep DEF InputOK, SubOf, f
    <3>6. w = EffectOf(in.doc, in.grammar[f.def], SubOf(in, f.def), p.node, sh)
      BY <1>5, <2>2, <3>4, <3>5 DEF Closed
    <3>7. CASE in.grammar[f.def].kind \in {"map", "each"}
      <4>1. Amounts(in, f, EffectOf(in.doc, in.grammar[f.def], SubOf(in, f.def), p.node, sh),
                    PartsOf(in, f, sh \cup Stopped(Sort(in, f))), PartCount(in, f))
        BY <1>1, <1>5, <2>2, <2>7, <3>1, <3>7, SectionAmounts DEF f
      <4> QED BY <1>4, <3>6, <4>1 DEF f, w
    <3>8. CASE in.grammar[f.def].kind \notin {"map", "each"}
      <4>1. in.grammar[f.def].kind \in {"one_of", "optional", "attempt"} /\ f.node = p.node
        BY <3>1, <3>8 DEF Runs
      <4>2. Amounts(in, f, EffectOf(in.doc, in.grammar[f.def], SubOf(in, f.def), f.node, sh),
                    PartsOf(in, f, sh \cup Stopped(Sort(in, f))), PartCount(in, f))
        BY <1>1, <1>5, <2>7, <4>1, WrapperAmounts DEF f
      <4> QED BY <1>4, <3>6, <4>1, <4>2 DEF f, w
    <3> QED BY <3>7, <3>8
  <2> QED BY <1>2, <2>6, <2>7 DEF f
<1> QED BY <1>7, <1>8

-----------------------------------------------------------------------------
(* The errors that the finished parts of frame i passed on, and those that    *)
(* have reached the caller of frame i.                                        *)
Raised(in, s, i) == RaisedBy(Parts(in, s, i), Done(s, i))
Passes(in, s, err, a, b) == \A m \in a .. b : err \notin Stopped(Sort(in, s[m]))
Escaping(in, s, i) ==
    {err \in Error : \E l \in i .. Len(s) : err \in Raised(in, s, l) /\ Passes(in, s, err, i, l)}

(* one_of's success flag. *)
Unsettled(e, j) == \A i \in 1 .. j : ~ Settles(e[i])
TopFlag(in, s) ==
    LET e == Parts(in, s, Len(s))
        d == Done(s, Len(s))
    IN  /\ Unsettled(e, d - 1)
        /\ s[Len(s)].ok <=> (d # 0 /\ Settles(e[d]))
        /\ d # 0 => ~ e[d].throws
LowFlag(in, s, i) ==
    /\ Unsettled(Parts(in, s, i), Done(s, i))
    /\ s[i].ok <=> (Escaping(in, s, i + 1) \cap TypeError = {})
Flags(in, s) ==
    /\ Sort(in, s[Len(s)]) = "one_of" => TopFlag(in, s)
    /\ \A i \in 1 .. Len(s) - 1 : Sort(in, s[i]) = "one_of" => LowFlag(in, s, i)

(* log[i]: what had been seen when frame i was called. *)
Logged(in, s, log) ==
    /\ log \in [1 .. Len(s) + 1 -> Seq(Event)]
    /\ log[1] = <<>>
    /\ \A i \in 1 .. Len(s) : log[i + 1] = log[i] \o EventsOf(Parts(in, s, i))[Done(s, i)]

-----------------------------------------------------------------------------
(* Every frame of a stack has a count of parts, some of which have ended; the *)
(* next one is what the frame it has called amounts to.                      *)
LEMMA NestedFacts ==
    ASSUME NEW in, InputOK(in), NEW s, Nested(in, s)
    PROVE  /\ s \in Seq(Frame) /\ Len(s) \in Nat \ {0} /\ DOMAIN s = 1 .. Len(s)
           /\ \A i \in 1 .. Len(s) :
                 /\ s[i] \in Frame
                 /\ PartCount(in, s[i]) \in Nat
                 /\ Parts(in, s, i) \in [1 .. PartCount(in, s[i]) -> Effect]
                 /\ Done(s, i) \in 0 .. PartCount(in, s[i])
           /\ \A i \in 1 .. Len(s) - 1 :
                 /\ s[i].next - 1 = Done(s, i) + 1 /\ Done(s, i) + 1 \in 1 .. PartCount(in, s[i])
                 /\ Seen(in, s, i + 1) = Parts(in, s, i)[Done(s, i) + 1]
           /\ Done(s, Len(s)) = s[Len(s)].next - 1
<1>1. s \in Seq(Frame) /\ Len(s) # 0
  BY DEF Nested, FramesOK
<1>2. Len(s) \in Nat \ {0} /\ DOMAIN s = 1 .. Len(s)
  BY <1>1, LenProperties
<1>3. \A i \in 1 .. Len(s) : s[i] \in Frame /\ s[i].next \in Nat
  <2>1. \A i \in 1 .. Len(s) : s[i] \in Frame
    BY <1>1, ElementOfSeq
  <2> QED BY <2>1 DEF Frame
<1>4. \A i \in 1 .. Len(s) : /\ PartCount(in, s[i]) \in Nat
                             /\ Parts(in, s, i) \in [1 .. PartCount(in, s[i]) -> Effect]
  <2> TAKE i \in 1 .. Len(s)
  <2>1. s[i].def \in DOMAIN in.grammar /\ s[i].node \in DOMAIN in.doc
    BY DEF Nested, FramesOK
  <2>2. Shield(in, s, i) \in SUBSET Error
    BY ShieldErrors
  <2> QED BY <2>1, <2>2, PartsType DEF Parts
<1>5. Done(s, Len(s)) = s[Len(s)].next - 1
  BY DEF Done
<1>6. s[Len(s)].next - 1 \in 0 .. PartCount(in, s[Len(s)])
  BY DEF Nested
<1> DEFINE k == Len(s)
<1>0. k \in Nat /\ k # 0
  BY <1>2
<1> HIDE DEF k
<1>7. ASSUME NEW i \in 1 .. k - 1
      PROVE  /\ s[i].next - 1 = Done(s, i) + 1 /\ Done(s, i) + 1 \in 1 .. PartCount(in, s[i])
             /\ Done(s, i) \in 0 .. PartCount(in, s[i])
             /\ Seen(in, s, i + 1) = Parts(in, s, i)[Done(s, i) + 1]
  <2>0. i \in 1 .. k /\ i # k /\ i + 1 \in 2 .. k /\ (i + 1) - 1 = i /\ i + 1 # 1
    BY <1>0
  <2>1. i \in 1 .. Len(s) /\ i # Len(s) /\ i + 1 \in 2 .. Len(s) /\ (i + 1) - 1 = i /\ i + 1 # 1
    BY <2>0 DEF k
  <2>2. Calls(in, s[i], s[i + 1])
    BY <2>1 DEF Nested
  <2>3. s[i].next - 1 \in 1 .. PartCount(in, s[i])
    BY <2>2 DEF Calls
  <2>4. Done(s, i) = s[i].next - 2 /\ s[i].next \in Nat /\ PartCount(in, s[i]) \in Nat
    BY <1>3, <1>4, <2>1 DEF Done
  <2>5. s[i].next - 1 = Done(s, i) + 1
    BY <2>4
  <2>6. Seen(in, s, i + 1) = Parts(in, s, i)[s[i].next - 1]
    BY <2>1 DEF Seen
  <2>7. Done(s, i) \in 0 .. PartCount(in, s[i])
    BY <2>3, <2>4
  <2> QED BY <2>3, <2>5, <2>6, <2>7
<1>8. \A i \in 1 .. k : i = k \/ i \in 1 .. k - 1
  BY <1>0
<1>9. \A i \in 1 .. Len(s) : Done(s, i) \in 0 .. PartCount(in, s[i])
  BY <1>5, <1>6, <1>7, <1>8 DEF k
<1> QED BY <1>1, <1>2, <1>3, <1>4, <1>5, <1>7, <1>9 DEF k

(* A frame's parts have passed on errors and nothing else. *)
LEMMA RaisedErrors ==
    ASSUME NEW in, InputOK(in), NEW s, Nested(in, s), NEW i \in 1 .. Len(s)
    PROVE  Raised(in, s, i) \subseteq Error
<1> DEFINE e == Parts(in, s, i)
           N == PartCount(in, s[i])
           d == Done(s, i)
<1>1. N \in Nat /\ e \in [1 .. N -> Effect] /\ d \in 0 .. N
  BY NestedFacts
<1> HIDE DEF e, N, d
<1>2. Upto(e, d) \in Effect /\ Upto(e, d).raised = RaisedBy(e, d)
  BY <1>1, UptoType
<1> QED BY <1>2 DEF Effect, Raised, e, d

(* The caller of a frame gets what the frame's parts raise, and what escapes  *)
(* the frame it has called, but for what the frame's callback stops.          *)
LEMMA EscapingStep ==
    ASSUME NEW in, InputOK(in), NEW s, Nested(in, s), NEW i \in 1 .. Len(s)
    PROVE  /\ Escaping(in, s, i) =
                 (Raised(in, s, i) \cup Escaping(in, s, i + 1)) \ Stopped(Sort(in, s[i]))
           /\ Escaping(in, s, Len(s) + 1) = {}
<1>1. Len(s) \in Nat
  BY NestedFacts
<1>2. Raised(in, s, i) \subseteq Error
  BY RaisedErrors
<1>3. Escaping(in, s, Len(s) + 1) = {}
  <2>1. Len(s) + 1 .. Len(s) = {}
    BY <1>1
  <2> QED BY <2>1 DEF Escaping
<1> DEFINE K == Stopped(Sort(in, s[i]))
<1>4. ASSUME NEW err \in Escaping(in, s, i)
      PROVE  err \in (Raised(in, s, i) \cup Escaping(in, s, i + 1)) \ K
  <2>1. PICK l \in i .. Len(s) : err \in Raised(in, s, l) /\ Passes(in, s, err, i, l)
    BY DEF Escaping
  <2>2. i \in i .. l /\ \A m \in i + 1 .. l : m \in i .. l
    BY <1>1
  <2>3. err \notin K
    BY <2>1, <2>2 DEF Passes
  <2>4. l = i \/ l \in i + 1 .. Len(s)
    BY <1>1
  <2>5. CASE l = i
    BY <2>1, <2>3, <2>5
  <2>6. CASE l \in i + 1 .. Len(s)
    <3>1. Passes(in, s, err, i + 1, l) /\ err \in Error
      BY <2>1, <2>2 DEF Passes, Escaping
    <3> QED BY <2>1, <2>3, <2>6, <3>1 DEF Escaping
  <2> QED BY <2>4, <2>5, <2>6
<1>5. ASSUME NEW err \in (Raised(in, s, i) \cup Escaping(in, s, i + 1)) \ K
      PROVE  err \in Escaping(in, s, i)
  <2>1. CASE err \in Raised(in, s, i)
    <3>1. i \in i .. Len(s) /\ \A m \in i .. i : m = i
      BY <1>1
    <3>2. Passes(in, s, err, i, i)
      BY <1>5, <3>1 DEF Passes
    <3> QED BY <1>2, <2>1, <3>1, <3>2 DEF Escaping
  <2>2. CASE err \in Escaping(in, s, i + 1)
    <3>1. PICK l \in i + 1 .. Len(s) : err \in Raised(in, s, l) /\ Passes(in, s, err, i + 1, l)
      BY <2>2 DEF Escaping
    <3>2. l \in i .. Len(s) /\ \A m \in i .. l : m = i \/ m \in i + 1 .. l
      BY <1>1
    <3>3. Passes(in, s, err, i, l)
      BY <1>5, <3>1, <3>2 DEF Passes
    <3> QED BY <2>2, <3>1, <3>2, <3>3 DEF Escaping
  <2> QED BY <1>5, <2>1, <2>2
<1> QED BY <1>3, <1>4, <1>5

(* One part more: its events, and its errors. *)
LEMMA OnePartMore ==
    ASSUME NEW N \in Nat, NEW e \in [1 .. N -> Effect], NEW j \in 1 .. N, NEW before \in Seq(Event)
    PROVE  /\ before \o EventsOf(e)[j] = (before \o EventsOf(e)[j - 1]) \o e[j].events
           /\ before \o EventsOf(e)[j] \in Seq(Event)
           /\ RaisedBy(e, j) = RaisedBy(e, j - 1) \cup e[j].raised
<1>1. /\ EventsOf(e)[j] = EventsOf(e)[j - 1] \o e[j].events
      /\ EventsOf(e)[j - 1] \in Seq(Event) /\ e[j].events \in Seq(Event)
      /\ EventsOf(e)[j] \in Seq(Event)
  <2>1. j - 1 \in 0 .. N /\ j \in 0 .. N
    OBVIOUS
  <2>2. e[j] \in Effect
    OBVIOUS
  <2> QED BY <2>1, <2>2, EventsOfType DEF Effect
<1>2. j \in Nat /\ j # 0
  OBVIOUS
<1>3. RaisedBy(e, j) = RaisedBy(e, j - 1) \cup e[j].raised
  BY <1>2, RaisedByStep
<1> DEFINE u == EventsOf(e)[j - 1]
           v == e[j].events
<1>4. u \in Seq(Event) /\ v \in Seq(Event)
  BY <1>1
<1> HIDE DEF u, v
<1>5. before \o (u \o v) = (before \o u) \o v /\ before \o (u \o v) \in Seq(Event)
  BY <1>4, ConcatAssociative, ConcatProperties
<1> QED BY <1>1, <1>3, <1>5 DEF u, v

-----------------------------------------------------------------------------
(* What frame i lets out reaches the callers below it as far as their         *)
(* callbacks let it.                                                          *)
LEMMA EscapingBelow ==
    ASSUME NEW in, InputOK(in), NEW s, Nested(in, s), NEW t, Nested(in, t),
           NEW i \in 1 .. Len(s), i \in 1 .. Len(t),
           \A j \in 1 .. i : Sort(in, t[j]) = Sort(in, s[j]),
           \A j \in 1 .. i - 1 : Raised(in, t, j) = Raised(in, s, j),
           NEW Y, Escaping(in, t, i) = Escaping(in, s, i) \cup Y
    PROVE  \A j \in 1 .. i :
               Escaping(in, t, j) = Escaping(in, s, j) \cup {y \in Y : Passes(in, s, y, j, i - 1)}
<1> DEFINE Is(j) == Escaping(in, t, j)
                    = Escaping(in, s, j) \cup {y \in Y : Passes(in, s, y, j, i - 1)}
           S == {m \in 0 .. i - 1 : Is(i - m)}
<1>1. i \in Nat /\ i # 0 /\ i - 1 \in Nat
  BY NestedFacts
<1>2. 0 \in S
  <2>1. i .. i - 1 = {}
    BY <1>1
  <2>2. {y \in Y : Passes(in, s, y, i, i - 1)} = Y
    BY <2>1 DEF Passes
  <2>3. i - 0 = i /\ 0 \in 0 .. i - 1
    BY <1>1
  <2> QED BY <2>2, <2>3
<1>3. ASSUME NEW m \in 0 .. i - 1, m < i - 1, m \in S
      PROVE  m + 1 \in S
  <2> DEFINE j == i - m - 1
  <2>1. /\ j \in 1 .. i - 1 /\ j \in 1 .. i /\ j + 1 = i - m /\ j = i - (m + 1)
        /\ m + 1 \in 0 .. i - 1 /\ j \in Nat
    BY <1>1, <1>3
  <2>2. j \in 1 .. Len(s) /\ j \in 1 .. Len(t)
    BY <2>1, NestedFacts
  <2> HIDE DEF j
  <2>3. Is(j + 1)
    BY <1>3, <2>1
  <2> DEFINE K == Stopped(Sort(in, s[j]))
  <2>4. Escaping(in, s, j) = (Raised(in, s, j) \cup Escaping(in, s, j + 1)) \ K
    BY <2>2, EscapingStep
  <2>5. Escaping(in, t, j) = (Raised(in, s, j) \cup Escaping(in, t, j + 1)) \ K
    <3>1. Escaping(in, t, j) = (Raised(in, t, j) \cup Escaping(in, t, j + 1)) \ Stopped(Sort(in, t[j]))
      BY <2>2, EscapingStep
    <3> QED BY <2>1, <3>1
  <2>6. \A y : Passes(in, s, y, j, i - 1) <=> y \notin K /\ Passes(in, s, y, j + 1, i - 1)
    <3>1. j \in j .. i - 1 /\ \A l \in j .. i - 1 : l = j \/ l \in j + 1 .. i - 1
      BY <1>1, <2>1
    <3>2. \A l \in j + 1 .. i - 1 : l \in j .. i - 1
      BY <1>1, <2>1
    <3> QED BY <3>1, <3>2 DEF Passes
  <2> HIDE DEF K
  <2>7. Is(j)
    BY <2>3, <2>4, <2>5, <2>6
  <2> QED BY <2>1, <2>7
<1>4. \A m \in 0 .. i - 1 : m \in S
  <2> HIDE DEF S
  <2> QED BY <1>1, <1>2, <1>3, Reaches
<1>5. ASSUME NEW j \in 1 .. i PROVE Is(j)
  <2>1. i - j \in 0 .. i - 1 /\ i - (i - j) = j
    BY <1>1
  <2>2. i - j \in S
    BY <1>4, <2>1
  <2> QED BY <2>1, <2>2
<1> QED BY <1>5

-----------------------------------------------------------------------------
(* A part of frame i ends, and with it the frames that ran above i.           *)
Ended(s, log, i, events) ==
    [j \in 1 .. i + 1 |-> IF j = i + 1 THEN log[i + 1] \o events ELSE log[j]]

(* What is left of the stack is still a chain of calls. *)
LEMMA EndNested ==
    ASSUME NEW in, InputOK(in), NEW s, Nested(in, s),
           NEW i \in 1 .. Len(s),
           NEW t, t \in Seq(Frame), Len(t) = i, AlikeUpto(s, t, i),
           \A j \in 1 .. i - 1 : t[j].next = s[j].next,
           t[i].next - 1 = Done(s, i) + 1, Done(s, i) + 1 \in 1 .. PartCount(in, s[i])
    PROVE  /\ Nested(in, t)
           /\ \A j \in 1 .. i : /\ Sort(in, t[j]) = Sort(in, s[j])
                                /\ Parts(in, t, j) = Parts(in, s, j)
           /\ \A j \in 1 .. i - 1 : Done(t, j) = Done(s, j)
           /\ Done(t, i) = Done(s, i) + 1
<1>1. i \in Nat /\ i # 0 /\ Len(s) \in Nat
  BY NestedFacts
<1>2. \A j \in 1 .. i : j \in 1 .. Len(s)
  BY <1>1
<1>3. /\ \A j \in 1 .. i : Sort(in, t[j]) = Sort(in, s[j])
      /\ \A j \in 1 .. i : Parts(in, t, j) = Parts(in, s, j)
      /\ \A j \in 1 .. i : PartCount(in, t[j]) = PartCount(in, s[j])
  BY <1>1, AlikeParts
<1>4. FramesOK(in, t)
  BY <1>2 DEF FramesOK, Nested, AlikeUpto, Alike
<1>5. 1 \in 1 .. i
  BY <1>1
<1>6. t[1].def = 1 /\ t[1].node = 1 /\ ~ t[1].item
  BY <1>5 DEF Nested, AlikeUpto, Alike
<1>7. \A j \in 2 .. i : Calls(in, t[j - 1], t[j])
  <2> TAKE j \in 2 .. i
  <2>1. j \in 1 .. i /\ j - 1 \in 1 .. i /\ j - 1 \in 1 .. i - 1 /\ j \in 2 .. Len(s)
    BY <1>1
  <2>2. Calls(in, s[j - 1], s[j])
    BY <2>1 DEF Nested
  <2> QED BY <2>1, <2>2, AlikeCalls DEF AlikeUpto
<1>8. t[i].next - 1 \in 0 .. PartCount(in, t[i])
  <2>1. PartCount(in, t[i]) = PartCount(in, s[i]) /\ PartCount(in, s[i]) \in Nat
    <3>1. i \in 1 .. i
      BY <1>1
    <3> QED BY <1>3, <3>1, NestedFacts
  <2> QED BY <2>1
<1>9. Nested(in, t)
  BY <1>1, <1>4, <1>6, <1>7, <1>8 DEF Nested
<1>10. \A j \in 1 .. i - 1 : Done(t, j) = Done(s, j)
  <2> TAKE j \in 1 .. i - 1
  <2>1. j # i /\ j # Len(s)
    BY <1>1
  <2> QED BY <2>1 DEF Done
<1>11. Done(t, i) = Done(s, i) + 1
  BY DEF Done
<1> QED BY <1>3, <1>9, <1>10, <1>11

(* The events of the part are added to what has been seen. *)
LEMMA EndLogged ==
    ASSUME NEW in, InputOK(in), NEW s, Nested(in, s), NEW log, Logged(in, s, log),
           NEW i \in 1 .. Len(s), Done(s, i) + 1 \in 1 .. PartCount(in, s[i]),
           NEW t, Len(t) = i,
           \A j \in 1 .. i : Parts(in, t, j) = Parts(in, s, j),
           \A j \in 1 .. i - 1 : Done(t, j) = Done(s, j),
           Done(t, i) = Done(s, i) + 1
    PROVE  Logged(in, t, Ended(s, log, i, Parts(in, s, i)[Done(s, i) + 1].events))
<1> DEFINE e == Parts(in, s, i)
           N == PartCount(in, s[i])
           d == Done(s, i) + 1
           new == Ended(s, log, i, e[d].events)
<1>1. i \in Nat /\ i # 0 /\ Len(s) \in Nat
  BY NestedFacts
<1>2. N \in Nat /\ e \in [1 .. N -> Effect] /\ d \in 1 .. N /\ d - 1 = Done(s, i)
  <2>1. N \in Nat /\ e \in [1 .. N -> Effect] /\ Done(s, i) \in 0 .. N
    BY NestedFacts
  <2> QED BY <2>1
<1>3. /\ log \in [1 .. Len(s) + 1 -> Seq(Event)] /\ log[1] = <<>>
      /\ \A j \in 1 .. Len(s) : log[j + 1] = log[j] \o EventsOf(Parts(in, s, j))[Done(s, j)]
  BY DEF Logged
<1> HIDE DEF N, d
<1>4. log[i] \in Seq(Event)
  <2>1. i \in 1 .. Len(s) + 1
    BY <1>1
  <2> QED BY <1>3, <2>1
<1>5. /\ log[i] \o EventsOf(e)[d] = (log[i] \o EventsOf(e)[d - 1]) \o e[d].events
      /\ log[i] \o EventsOf(e)[d] \in Seq(Event)
  <2> HIDE DEF e
  <2> QED BY <1>2, <1>4, OnePartMore
<1>6. log[i + 1] = log[i] \o EventsOf(e)[d - 1]
  BY <1>2, <1>3
<1>7. log[i + 1] \o e[d].events = log[i] \o EventsOf(e)[d]
  BY <1>5, <1>6
<1>8. new[i + 1] = log[i] \o EventsOf(e)[d]
  <2>1. i + 1 \in 1 .. i + 1
    BY <1>1
  <2> QED BY <1>7, <2>1 DEF Ended
<1>9. \A j \in 1 .. i : new[j] = log[j] /\ log[j] \in Seq(Event)
  <2> TAKE j \in 1 .. i
  <2>1. j \in 1 .. i + 1 /\ j # i + 1 /\ j \in 1 .. Len(s) + 1
    BY <1>1
  <2> QED BY <1>3, <2>1 DEF Ended
<1>10. new \in [1 .. i + 1 -> Seq(Event)]
  <2>1. \A j \in 1 .. i + 1 : j \in 1 .. i \/ j = i + 1
    BY <1>1
  <2>2. \A j \in 1 .. i + 1 : new[j] \in Seq(Event)
    BY <1>5, <1>8, <1>9, <2>1
  <2>3. new = [j \in 1 .. i + 1 |-> new[j]]
    BY DEF Ended
  <2> HIDE DEF new
  <2> QED BY <2>2, <2>3
<1>11. new[1] = <<>>
  <2>1. 1 \in 1 .. i
    BY <1>1
  <2> QED BY <1>3, <1>9, <2>1
<1> HIDE DEF new
<1>12. \A j \in 1 .. i : new[j + 1] = new[j] \o EventsOf(Parts(in, t, j))[Done(t, j)]
  <2> TAKE j \in 1 .. i
  <2>1. CASE j = i
    <3>1. EventsOf(Parts(in, t, j))[Done(t, j)] = EventsOf(e)[d]
      BY <2>1 DEF d
    <3> QED BY <1>8, <1>9, <2>1, <3>1
  <2>2. CASE j # i
    <3>1. j \in 1 .. i - 1 /\ j + 1 \in 1 .. i /\ j \in 1 .. Len(s)
      BY <1>1, <2>2
    <3> QED BY <1>3, <1>9, <3>1
  <2> QED BY <2>1, <2>2
<1>13. Logged(in, t, new)
  BY <1>10, <1>11, <1>12 DEF Logged
<1> QED BY <1>13 DEF new, d

-----------------------------------------------------------------------------
(* The errors Y, new to the caller of the part that ended, are noted by the   *)
(* one_of they reach.                                                         *)
Noted(in, s, t, i, Y) ==
    \A j \in 1 .. i - 1 : Sort(in, s[j]) = "one_of" =>
        (t[j].ok <=> s[j].ok /\ \A y \in Y \cap TypeError : ~ Passes(in, s, y, j + 1, i))

(* The success flags are again what the ended parts say. *)
LEMMA EndFlags ==
    ASSUME NEW in, InputOK(in), NEW s, Nested(in, s), Flags(in, s),
           NEW i \in 1 .. Len(s), Done(s, i) + 1 \in 1 .. PartCount(in, s[i]),
           NEW t, Len(t) = i, Nested(in, t),
           \A j \in 1 .. i : Sort(in, t[j]) = Sort(in, s[j]),
           \A j \in 1 .. i : Parts(in, t, j) = Parts(in, s, j),
           \A j \in 1 .. i - 1 : Done(t, j) = Done(s, j),
           Done(t, i) = Done(s, i) + 1,
           NEW e, e = Parts(in, s, i)[Done(s, i) + 1],
           NEW Y, Y \subseteq Error, e.raised = Escaping(in, s, i + 1) \cup Y,
           Noted(in, s, t, i, Y),
           Sort(in, s[i]) = "one_of" =>
               /\ ~ e.throws /\ (t[i].ok <=> Settles(e))
               /\ Unsettled(Parts(in, s, i), Done(s, i))
    PROVE  Flags(in, t)
<1> DEFINE K == Stopped(Sort(in, s[i]))
           P == Parts(in, s, i)
           d == Done(s, i)
<1>1. i \in Nat /\ i # 0 /\ Len(s) \in Nat
  BY NestedFacts
<1>2. i \in 1 .. i /\ i \in 1 .. Len(t)
  BY <1>1
<1>3. PartCount(in, s[i]) \in Nat /\ P \in [1 .. PartCount(in, s[i]) -> Effect] /\ d \in Nat
  <2>1. PartCount(in, s[i]) \in Nat /\ P \in [1 .. PartCount(in, s[i]) -> Effect]
        /\ d \in 0 .. PartCount(in, s[i])
    BY NestedFacts
  <2> QED BY <2>1
<1>4. Raised(in, t, i) = Raised(in, s, i) \cup e.raised
  <2>1. Raised(in, t, i) = RaisedBy(P, d + 1) /\ Raised(in, s, i) = RaisedBy(P, d) /\ e = P[d + 1]
    BY <1>2 DEF Raised
  <2>2. d + 1 \in Nat /\ d + 1 # 0 /\ (d + 1) - 1 = d
    BY <1>3
  <2> HIDE DEF P, d
  <2>3. RaisedBy(P, d + 1) = RaisedBy(P, (d + 1) - 1) \cup P[d + 1].raised
    BY <2>2, RaisedByStep
  <2> QED BY <2>1, <2>2, <2>3
<1>5. Escaping(in, t, i) = Escaping(in, s, i) \cup (Y \ K)
  <2>1. Escaping(in, s, i) = (Raised(in, s, i) \cup Escaping(in, s, i + 1)) \ K
    BY EscapingStep
  <2>2. /\ Escaping(in, t, i) = (Raised(in, t, i) \cup Escaping(in, t, i + 1)) \ Stopped(Sort(in, t[i]))
        /\ Escaping(in, t, i + 1) = {}
    BY <1>2, EscapingStep
  <2>3. Stopped(Sort(in, t[i])) = K
    BY <1>2
  <2> QED BY <1>4, <2>1, <2>2, <2>3
<1>6. \A j \in 1 .. i - 1 : Raised(in, t, j) = Raised(in, s, j)
  <2>1. \A j \in 1 .. i - 1 : j \in 1 .. i
    BY <1>1
  <2> QED BY <2>1 DEF Raised
<1>7. \A j \in 1 .. i :
          Escaping(in, t, j) = Escaping(in, s, j) \cup {y \in Y \ K : Passes(in, s, y, j, i - 1)}
  <2> HIDE DEF K
  <2> QED BY <1>2, <1>5, <1>6, EscapingBelow
<1>8. ASSUME NEW j \in 1 .. i - 1, Sort(in, t[j]) = "one_of"
      PROVE  LowFlag(in, t, j)
  <2>1. j \in 1 .. i /\ j + 1 \in 1 .. i /\ j \in 1 .. Len(s) - 1
    BY <1>1
  <2>2. LowFlag(in, s, j)
    BY <1>8, <2>1 DEF Flags
  <2>3. \A y : y \notin K /\ Passes(in, s, y, j + 1, i - 1) <=> Passes(in, s, y, j + 1, i)
    <3>1. i \in j + 1 .. i /\ \A m \in j + 1 .. i : m = i \/ m \in j + 1 .. i - 1
      BY <1>1, <2>1
    <3>2. \A m \in j + 1 .. i - 1 : m \in j + 1 .. i
      BY <1>1, <2>1
    <3> QED BY <3>1, <3>2 DEF Passes
  <2>4. Escaping(in, t, j + 1) = Escaping(in, s, j + 1) \cup {y \in Y \ K : Passes(in, s, y, j + 1, i - 1)}
    BY <1>7, <2>1
  <2>5. (Escaping(in, t, j + 1) \cap TypeError = {}) <=>
            /\ Escaping(in, s, j + 1) \cap TypeError = {}
            /\ \A y \in Y \cap TypeError : ~ Passes(in, s, y, j + 1, i)
    <3> HIDE DEF K
    <3> QED BY <2>3, <2>4
  <2>6. t[j].ok <=> s[j].ok /\ \A y \in Y \cap TypeError : ~ Passes(in, s, y, j + 1, i)
    BY <1>8, <2>1 DEF Noted
  <2>7. s[j].ok <=> (Escaping(in, s, j + 1) \cap TypeError = {})
    BY <2>2 DEF LowFlag
  <2>8. t[j].ok <=> (Escaping(in, t, j + 1) \cap TypeError = {})
    BY <2>5, <2>6, <2>7
  <2>9. Unsettled(Parts(in, t, j), Done(t, j))
    BY <2>1, <2>2 DEF LowFlag
  <2> QED BY <2>8, <2>9 DEF LowFlag
<1>9. ASSUME Sort(in, t[i]) = "one_of" PROVE TopFlag(in, t)
  <2>1. Parts(in, t, Len(t)) = P /\ Done(t, Len(t)) = d + 1 /\ d + 1 # 0 /\ (d + 1) - 1 = d
    BY <1>2, <1>3
  <2>2. ~ e.throws /\ (t[i].ok <=> Settles(e)) /\ Unsettled(P, d) /\ e = P[d + 1]
    BY <1>2, <1>9
  <2> HIDE DEF P, d
  <2> QED BY <2>1, <2>2 DEF TopFlag
<1> QED BY <1>8, <1>9 DEF Flags

(* The three together. *)
Good(in, s, log) == Nested(in, s) /\ Flags(in, s) /\ Logged(in, s, log)

(* The end of a part of frame i preserves all three. *)
LEMMA PartEnds ==
    ASSUME NEW in, InputOK(in), NEW s, NEW log, Good(in, s, log),
           NEW i \in 1 .. Len(s), Done(s, i) + 1 \in 1 .. PartCount(in, s[i]),
           NEW t, t \in Seq(Frame), Len(t) = i, AlikeUpto(s, t, i),
           \A j \in 1 .. i - 1 : t[j].next = s[j].next,
           t[i].next - 1 = Done(s, i) + 1,
           NEW e, e = Parts(in, s, i)[Done(s, i) + 1],
           NEW Y, Y \subseteq Error, e.raised = Escaping(in, s, i + 1) \cup Y,
           Noted(in, s, t, i, Y),
           Sort(in, s[i]) = "one_of" =>
               /\ ~ e.throws /\ (t[i].ok <=> Settles(e))
               /\ Unsettled(Parts(in, s, i), Done(s, i))
    PROVE  Good(in, t, Ended(s, log, i, e.events))
<1>1. Nested(in, s) /\ Flags(in, s) /\ Logged(in, s, log)
  BY DEF Good
<1>2. /\ Nested(in, t)
      /\ \A j \in 1 .. i : Sort(in, t[j]) = Sort(in, s[j])
      /\ \A j \in 1 .. i : Parts(in, t, j) = Parts(in, s, j)
      /\ \A j \in 1 .. i - 1 : Done(t, j) = Done(s, j)
      /\ Done(t, i) = Done(s, i) + 1
  BY <1>1, EndNested
<1>3. Logged(in, t, Ended(s, log, i, Parts(in, s, i)[Done(s, i) + 1].events))
  BY <1>1, <1>2, EndLogged
<1>4. Flags(in, t)
  BY <1>1, <1>2, EndFlags
<1> QED BY <1>2, <1>3, <1>4 DEF Good

-----------------------------------------------------------------------------
(* A one_of that goes on has seen none of its children settle. *)
LEMMA UnsettledTop ==
    ASSUME NEW in, InputOK(in), NEW s, Nested(in, s), Flags(in, s),
           Sort(in, s[Len(s)]) = "one_of", ~ s[Len(s)].ok
    PROVE  Unsettled(Parts(in, s, Len(s)), Done(s, Len(s)))
<1> DEFINE k == Len(s)
           e == Parts(in, s, k)
           d == Done(s, k)
<1>1. k \in 1 .. Len(s)
  BY NestedFacts
<1>2. d \in 0 .. PartCount(in, s[k]) /\ PartCount(in, s[k]) \in Nat
  BY <1>1, NestedFacts
<1>3. Unsettled(e, d - 1) /\ ~ (d # 0 /\ Settles(e[d]))
  BY DEF Flags, TopFlag
<1> HIDE DEF e, d
<1>4. \A i \in 1 .. d : (i \in 1 .. d - 1 \/ i = d) /\ d # 0
  BY <1>2
<1>5. Unsettled(e, d)
  BY <1>3, <1>4 DEF Unsettled
<1> QED BY <1>5 DEF e, d

(* A closure is called: its frame is pushed on the stack. *)
Called(s, log) ==
    [j \in 1 .. Len(s) + 2 |-> IF j = Len(s) + 2 THEN log[Len(s) + 1] ELSE log[j]]

(* The stack with the new frame is a chain of calls. *)
LEMMA CallNested ==
    ASSUME NEW in, InputOK(in), NEW s, Nested(in, s), NEW k, k = Len(s),
           NEW t, t \in Seq(Frame), Len(t) = k + 1, AlikeUpto(s, t, k),
           \A j \in 1 .. k - 1 : t[j].next = s[j].next,
           t[k].next = s[k].next + 1,
           t[k + 1].def \in DOMAIN in.grammar, t[k + 1].node \in DOMAIN in.doc,
           t[k + 1].next = 1, Calls(in, t[k], t[k + 1])
    PROVE  /\ Nested(in, t)
           /\ \A j \in 1 .. k : /\ Sort(in, t[j]) = Sort(in, s[j])
                                /\ Parts(in, t, j) = Parts(in, s, j)
                                /\ Done(t, j) = Done(s, j)
           /\ Done(t, k + 1) = 0
<1>1. k \in Nat /\ k # 0
  BY NestedFacts
<1>2. /\ \A j \in 1 .. k : Sort(in, t[j]) = Sort(in, s[j])
      /\ \A j \in 1 .. k : Parts(in, t, j) = Parts(in, s, j)
  BY <1>1, AlikeParts
<1>3. FramesOK(in, t)
  <2>1. \A j \in 1 .. k + 1 : j \in 1 .. k \/ j = k + 1
    BY <1>1
  <2>2. \A j \in 1 .. k : t[j].def \in DOMAIN in.grammar /\ t[j].node \in DOMAIN in.doc
    BY DEF Nested, FramesOK, AlikeUpto, Alike
  <2> QED BY <2>1, <2>2 DEF FramesOK
<1>4. t[1].def = 1 /\ t[1].node = 1 /\ ~ t[1].item
  <2>1. 1 \in 1 .. k
    BY <1>1
  <2> QED BY <2>1 DEF Nested, AlikeUpto, Alike
<1>5. \A j \in 2 .. k + 1 : Calls(in, t[j - 1], t[j])
  <2> TAKE j \in 2 .. k + 1
  <2>1. CASE j = k + 1
    <3>1. j - 1 = k
      BY <1>1, <2>1
    <3> QED BY <2>1, <3>1
  <2>2. CASE j # k + 1
    <3>1. j \in 1 .. k /\ j - 1 \in 1 .. k /\ j - 1 \in 1 .. k - 1 /\ j \in 2 .. Len(s)
      BY <1>1, <2>2
    <3>2. Calls(in, s[j - 1], s[j])
      BY <3>1 DEF Nested
    <3> QED BY <3>1, <3>2, AlikeCalls DEF AlikeUpto
  <2> QED BY <2>1, <2>2
<1>6. t[k + 1].next - 1 \in 0 .. PartCount(in, t[k + 1])
  <2>1. {} \in SUBSET Error
    OBVIOUS
  <2>2. PartCount(in, t[k + 1]) \in Nat
    BY <2>1, PartsType
  <2> QED BY <2>2
<1>7. Nested(in, t)
  BY <1>1, <1>3, <1>4, <1>5, <1>6 DEF Nested
<1>8. \A j \in 1 .. k : Done(t, j) = Done(s, j)
  <2> TAKE j \in 1 .. k
  <2>1. CASE j = k
    <3>1. s[k] \in Frame
      BY <2>1, NestedFacts
    <3>2. s[k].next \in Nat /\ j # k + 1
      BY <1>1, <3>1 DEF Frame
    <3> QED BY <2>1, <3>2 DEF Done
  <2>2. CASE j # k
    <3>1. j \in 1 .. k - 1 /\ j # k + 1
      BY <1>1, <2>2
    <3> QED BY <2>2, <3>1 DEF Done
  <2> QED BY <2>1, <2>2
<1>9. Done(t, k + 1) = 0
  BY DEF Done
<1> QED BY <1>2, <1>7, <1>8, <1>9

(* The first k frames have the same parts behind them. *)
AsFar(in, s, t, k) ==
    \A j \in 1 .. k : Parts(in, t, j) = Parts(in, s, j) /\ Done(t, j) = Done(s, j)

(* The new frame has seen nothing of its own yet. *)
LEMMA CallLogged ==
    ASSUME NEW in, InputOK(in), NEW s, Nested(in, s), NEW log, Logged(in, s, log),
           NEW k, k = Len(s), NEW t, Nested(in, t), Len(t) = k + 1,
           AsFar(in, s, t, k), Done(t, k + 1) = 0
    PROVE  Logged(in, t, Called(s, log)) /\ Called(s, log)[k + 2] = log[k + 1]
<1> DEFINE new == Called(s, log)
<1>1. k \in Nat /\ k # 0
  BY NestedFacts
<1>2. /\ log \in [1 .. k + 1 -> Seq(Event)] /\ log[1] = <<>>
      /\ \A j \in 1 .. k : log[j + 1] = log[j] \o EventsOf(Parts(in, s, j))[Done(s, j)]
  BY DEF Logged
<1>3. new[k + 2] = log[k + 1] /\ log[k + 1] \in Seq(Event)
  <2>1. k + 2 \in 1 .. k + 2 /\ k + 1 \in 1 .. k + 1
    BY <1>1
  <2> QED BY <1>2, <2>1 DEF Called
<1>4. \A j \in 1 .. k + 1 : new[j] = log[j] /\ log[j] \in Seq(Event)
  <2> TAKE j \in 1 .. k + 1
  <2>1. j \in 1 .. k + 2 /\ j # k + 2
    BY <1>1
  <2> QED BY <1>2, <2>1 DEF Called
<1>5. new \in [1 .. k + 2 -> Seq(Event)]
  <2>1. \A j \in 1 .. k + 2 : j \in 1 .. k + 1 \/ j = k + 2
    BY <1>1
  <2>2. \A j \in 1 .. k + 2 : new[j] \in Seq(Event)
    BY <1>3, <1>4, <2>1
  <2>3. new = [j \in 1 .. k + 2 |-> new[j]]
    BY DEF Called
  <2> HIDE DEF new
  <2> QED BY <2>2, <2>3
<1>6. new[1] = <<>>
  <2>1. 1 \in 1 .. k + 1
    BY <1>1
  <2> QED BY <1>2, <1>4, <2>1
<1> HIDE DEF new
<1>7. \A j \in 1 .. k + 1 : new[j + 1] = new[j] \o EventsOf(Parts(in, t, j))[Done(t, j)]
  <2> TAKE j \in 1 .. k + 1
  <2>1. CASE j = k + 1
    <3>1. j + 1 = k + 2 /\ j \in 1 .. Len(t)
      BY <1>1, <2>1
    <3>2. /\ PartCount(in, t[j]) \in Nat
          /\ Parts(in, t, j) \in [1 .. PartCount(in, t[j]) -> Effect]
      BY <3>1, NestedFacts
    <3>3. EventsOf(Parts(in, t, j))[0] = <<>>
      BY <3>2, EventsOfType
    <3>4. log[k + 1] \o <<>> = log[k + 1]
      BY <1>3, ConcatEmptySeq
    <3> QED BY <1>3, <1>4, <2>1, <3>1, <3>3, <3>4
  <2>2. CASE j # k + 1
    <3>1. j \in 1 .. k /\ j + 1 \in 1 .. k + 1
      BY <1>1, <2>2
    <3> QED BY <1>2, <1>4, <3>1 DEF AsFar
  <2> QED BY <2>1, <2>2
<1>8. (k + 1) + 1 = k + 2
  BY <1>1
<1>9. Logged(in, t, new)
  BY <1>5, <1>6, <1>7, <1>8 DEF Logged
<1> QED BY <1>3, <1>9 DEF new

(* The caller, no longer innermost, has its flag up: nothing has failed above. *)
LEMMA CallFlags ==
    ASSUME NEW in, InputOK(in), NEW s, Nested(in, s), Flags(in, s),
           NEW k, k = Len(s), NEW t, Nested(in, t), Len(t) = k + 1,
           \A j \in 1 .. k : Sort(in, t[j]) = Sort(in, s[j]),
           \A j \in 1 .. k : Parts(in, t, j) = Parts(in, s, j),
           \A j \in 1 .. k : Done(t, j) = Done(s, j),
           Done(t, k + 1) = 0,
           \A j \in 1 .. k - 1 : t[j].ok = s[j].ok, t[k].ok, ~ t[k + 1].ok,
           Sort(in, s[k]) = "one_of" => ~ s[k].ok
    PROVE  Flags(in, t)
<1>1. k \in Nat /\ k # 0 /\ k \in 1 .. k /\ k + 1 \in 1 .. k + 1 /\ k \in 1 .. k + 1
  BY NestedFacts
<1>2. \A j \in 1 .. k : Raised(in, t, j) = Raised(in, s, j)
  BY DEF Raised
<1>3. Escaping(in, t, k + 1) = {}
  <2>1. Raised(in, t, k + 1) = {}
    <3>1. 0 \in Nat
      OBVIOUS
    <3> QED BY <3>1, RaisedByStep DEF Raised
  <2>2. /\ Escaping(in, t, k + 1) = (Raised(in, t, k + 1) \cup Escaping(in, t, (k + 1) + 1))
                                    \ Stopped(Sort(in, t[k + 1]))
        /\ Escaping(in, t, (k + 1) + 1) = {}
    BY <1>1, EscapingStep
  <2> QED BY <2>1, <2>2
<1>4. Escaping(in, t, k) = Escaping(in, s, k) \cup {}
  <2>1. /\ Escaping(in, s, k) = (Raised(in, s, k) \cup Escaping(in, s, k + 1)) \ Stopped(Sort(in, s[k]))
        /\ Escaping(in, s, k + 1) = {}
    BY <1>1, EscapingStep
  <2>2. Escaping(in, t, k) = (Raised(in, t, k) \cup Escaping(in, t, k + 1)) \ Stopped(Sort(in, t[k]))
    BY <1>1, EscapingStep
  <2> QED BY <1>1, <1>2, <1>3, <2>1, <2>2
<1>5. \A j \in 1 .. k : Escaping(in, t, j) = Escaping(in, s, j)
  <2> DEFINE Y == {}
  <2>1. \A j \in 1 .. k - 1 : Raised(in, t, j) = Raised(in, s, j)
    BY <1>1, <1>2
  <2>2. Escaping(in, t, k) = Escaping(in, s, k) \cup Y
    BY <1>4
  <2>3. \A y : y \notin Y
    OBVIOUS
  <2> HIDE DEF Y
  <2>4. \A j \in 1 .. k :
            Escaping(in, t, j) = Escaping(in, s, j) \cup {y \in Y : Passes(in, s, y, j, k - 1)}
    BY <1>1, <2>1, <2>2, EscapingBelow
  <2> QED BY <2>3, <2>4
<1>6. ASSUME NEW j \in 1 .. k, Sort(in, t[j]) = "one_of"
      PROVE  LowFlag(in, t, j)
  <2>1. CASE j = k
    <3>1. Sort(in, s[k]) = "one_of"
      BY <1>6, <2>1
    <3>2. Unsettled(Parts(in, s, k), Done(s, k))
      BY <3>1, UnsettledTop
    <3> QED BY <1>1, <1>3, <2>1, <3>2 DEF LowFlag
  <2>2. CASE j # k
    <3>1. j \in 1 .. k - 1 /\ j + 1 \in 1 .. k
      BY <1>1, <2>2
    <3>2. LowFlag(in, s, j)
      BY <1>6, <3>1 DEF Flags
    <3> QED BY <1>5, <3>1, <3>2 DEF LowFlag
  <2> QED BY <2>1, <2>2
<1>7. TopFlag(in, t)
  <2>1. 1 .. 0 - 1 = {}
    OBVIOUS
  <2> QED BY <2>1 DEF TopFlag, Unsettled
<1>8. (k + 1) - 1 = k
  BY <1>1
<1> QED BY <1>6, <1>7, <1>8 DEF Flags

(* From s to t, the innermost of k frames calls a closure. *)
CallsOn(in, s, t, k) ==
    /\ t \in Seq(Frame) /\ Len(t) = k + 1 /\ AlikeUpto(s, t, k)
    /\ \A j \in 1 .. k - 1 : t[j].next = s[j].next /\ t[j].ok = s[j].ok
    /\ t[k].next = s[k].next + 1 /\ t[k].ok
    /\ t[k + 1].def \in DOMAIN in.grammar /\ t[k + 1].node \in DOMAIN in.doc
    /\ t[k + 1].next = 1 /\ ~ t[k + 1].ok /\ Calls(in, t[k], t[k + 1])
    /\ Sort(in, s[k]) = "one_of" => ~ s[k].ok

(* A call preserves all three. *)
LEMMA CallMade ==
    ASSUME NEW in, InputOK(in), NEW s, NEW log, Good(in, s, log), NEW k, k = Len(s),
           NEW t, CallsOn(in, s, t, k)
    PROVE  Good(in, t, Called(s, log)) /\ Called(s, log)[k + 2] = log[k + 1]
<1>1. Nested(in, s) /\ Flags(in, s) /\ Logged(in, s, log)
  BY DEF Good
<1>0. /\ t \in Seq(Frame) /\ Len(t) = k + 1 /\ AlikeUpto(s, t, k)
      /\ \A j \in 1 .. k - 1 : t[j].next = s[j].next
      /\ \A j \in 1 .. k - 1 : t[j].ok = s[j].ok
      /\ t[k].next = s[k].next + 1 /\ t[k].ok
      /\ t[k + 1].def \in DOMAIN in.grammar /\ t[k + 1].node \in DOMAIN in.doc
      /\ t[k + 1].next = 1 /\ ~ t[k + 1].ok /\ Calls(in, t[k], t[k + 1])
      /\ (Sort(in, s[k]) = "one_of" => ~ s[k].ok)
  BY DEF CallsOn
<1>2. /\ Nested(in, t)
      /\ \A j \in 1 .. k : Sort(in, t[j]) = Sort(in, s[j])
      /\ \A j \in 1 .. k : Parts(in, t, j) = Parts(in, s, j)
      /\ \A j \in 1 .. k : Done(t, j) = Done(s, j)
      /\ Done(t, k + 1) = 0
  BY <1>0, <1>1, CallNested
<1>3. Logged(in, t, Called(s, log)) /\ Called(s, log)[k + 2] = log[k + 1]
  <2>1. AsFar(in, s, t, k)
    BY <1>2 DEF AsFar
  <2>2. Nested(in, t) /\ Done(t, k + 1) = 0 /\ InputOK(in) /\ Len(t) = k + 1 /\ k = Len(s)
    BY <1>0, <1>2
  <2> QED BY ONLY <1>1, <2>1, <2>2, CallLogged
<1>4. Flags(in, t)
  BY <1>0, <1>1, <1>2, CallFlags
<1> QED BY <1>2, <1>3, <1>4 DEF Good

-----------------------------------------------------------------------------
(* Frame i sees the effect e of the frame it has called. *)
Returns(in, s, i, e) ==
    /\ i \in 1 .. Len(s) - 1
    /\ e = Seen(in, s, i + 1) /\ e.raised = Escaping(in, s, i + 1)
    /\ Sort(in, s[i]) = "one_of" => ~ e.throws

(* The innermost frames end: frame i + 1 has had the effect that frame i sees. *)
LEMMA CutTo ==
    ASSUME NEW in, InputOK(in), NEW s, NEW log, Good(in, s, log),
           NEW i, NEW e, Returns(in, s, i, e), NEW t, t = SubSeq(s, 1, i)
    PROVE  /\ Len(t) = i
           /\ Good(in, t, Ended(s, log, i, e.events))
<1>0. /\ i \in 1 .. Len(s) - 1 /\ e = Seen(in, s, i + 1) /\ e.raised = Escaping(in, s, i + 1)
      /\ (Sort(in, s[i]) = "one_of" => ~ e.throws)
  BY DEF Returns
<1>1. Nested(in, s) /\ Flags(in, s) /\ Logged(in, s, log)
  BY DEF Good
<1>2. s \in Seq(Frame) /\ Len(s) \in Nat
  BY <1>1, NestedFacts
<1> DEFINE k == Len(s)
<1>3. k \in Nat
  BY <1>2
<1> HIDE DEF k
<1>4. i \in 1 .. k /\ i \in Nat /\ i # 0 /\ i \in 1 .. k - 1
  BY <1>0, <1>3 DEF k
<1>5. i \in 1 .. Len(s) /\ i \in 1 .. Len(s) - 1
  BY <1>4 DEF k
<1>6. t \in Seq(Frame) /\ Len(t) = i /\ \A j \in 1 .. i : t[j] = s[j]
  BY <1>2, <1>5
<1>7. /\ s[i].next - 1 = Done(s, i) + 1 /\ Done(s, i) + 1 \in 1 .. PartCount(in, s[i])
      /\ e = Parts(in, s, i)[Done(s, i) + 1]
  BY <1>0, <1>1, <1>5, NestedFacts
<1>8. AlikeUpto(s, t, i)
  BY <1>6 DEF AlikeUpto, Alike
<1>9. /\ \A j \in 1 .. i - 1 : t[j].next = s[j].next
      /\ \A j \in 1 .. i - 1 : t[j].ok = s[j].ok
  <2>1. \A j \in 1 .. i - 1 : j \in 1 .. i
    BY <1>4
  <2> QED BY <1>6, <2>1
<1>10. t[i] = s[i]
  <2>1. i \in 1 .. i
    BY <1>4
  <2> QED BY <1>6, <2>1
<1> DEFINE Y == {}
<1>11. Y \subseteq Error /\ e.raised = Escaping(in, s, i + 1) \cup Y /\ Y \cap TypeError = {}
  BY <1>0
<1> HIDE DEF Y
<1>12. Noted(in, s, t, i, Y)
  BY <1>9, <1>11 DEF Noted
<1>13. Sort(in, s[i]) = "one_of" =>
           /\ ~ e.throws /\ (t[i].ok <=> Settles(e))
           /\ Unsettled(Parts(in, s, i), Done(s, i))
  <2> SUFFICES ASSUME Sort(in, s[i]) = "one_of"
               PROVE  /\ (t[i].ok <=> Settles(e))
                      /\ Unsettled(Parts(in, s, i), Done(s, i))
    BY <1>0
  <2>1. LowFlag(in, s, i)
    BY <1>1, <1>5 DEF Flags
  <2> QED BY <1>0, <1>10, <2>1 DEF LowFlag, Settles
<1>14. t[i].next - 1 = Done(s, i) + 1
  BY <1>7, <1>10
<1>15. Good(in, t, Ended(s, log, i, e.events))
  BY <1>5, <1>6, <1>7, <1>8, <1>9, <1>11, <1>12, <1>13, <1>14, PartEnds
<1> QED BY <1>6, <1>15

(* log before a frame's part, and after. *)
LEMMA LogFacts ==
    ASSUME NEW in, InputOK(in), NEW s, NEW log, Good(in, s, log), NEW j \in 1 .. Len(s)
    PROVE  /\ log[j] \in Seq(Event) /\ log[j + 1] \in Seq(Event)
           /\ log[j + 1] = log[j] \o EventsOf(Parts(in, s, j))[Done(s, j)]
           /\ log[1] = <<>>
<1>1. Nested(in, s) /\ Logged(in, s, log)
  BY DEF Good
<1>2. Len(s) \in Nat
  BY <1>1, NestedFacts
<1>3. j \in 1 .. Len(s) + 1 /\ j + 1 \in 1 .. Len(s) + 1
  BY <1>2
<1> QED BY <1>1, <1>3 DEF Logged

(* With the last of its events, the innermost frame leaves the log L. *)
EndsWith(in, s, log, k, L) == log[k] \o Seen(in, s, k).events = L

(* The innermost closure ends, having run all it had to run. *)
LEMMA TopEnds ==
    ASSUME NEW in, InputOK(in), NEW s, NEW log, Good(in, s, log), NEW k, k = Len(s),
           Done(s, k) = PartCount(in, s[k]) \/ (Sort(in, s[k]) = "one_of" /\ s[k].ok),
           NEW w, w = Seen(in, s, k)
    PROVE  /\ ~ w.throws /\ w.raised = Escaping(in, s, k)
           /\ ~ s[k].item => EndsWith(in, s, log, k, log[k + 1])
           /\ s[k].item => /\ EndsWith(in, s, log, k, Append(log[k + 1], Push(in, s[k])))
                           /\ Push(in, s[k]) \in Event
           /\ log[k + 1] \in Seq(Event)
<1> SUFFICES /\ ~ w.throws /\ w.raised = Escaping(in, s, k)
             /\ ~ s[k].item => log[k] \o w.events = log[k + 1]
             /\ s[k].item => /\ log[k] \o w.events = Append(log[k + 1], Push(in, s[k]))
                             /\ Push(in, s[k]) \in Event
             /\ log[k + 1] \in Seq(Event)
  BY DEF EndsWith
<1> DEFINE e == Parts(in, s, k)
           N == PartCount(in, s[k])
           d == Done(s, k)
           f == s[k]
<1>1. Nested(in, s) /\ Flags(in, s)
  BY DEF Good
<1>2. k \in 1 .. Len(s) /\ k \in Nat
  BY <1>1, NestedFacts
<1>3. N \in Nat /\ e \in [1 .. N -> Effect] /\ d \in 0 .. N /\ f \in Frame
  BY <1>1, <1>2, NestedFacts
<1>4. Amounts(in, f, w, e, N)
  BY <1>1, <1>2, SeenAmounts
<1>5. /\ log[k] \in Seq(Event) /\ log[k + 1] \in Seq(Event)
      /\ log[k + 1] = log[k] \o EventsOf(e)[d]
  BY <1>2, LogFacts
<1>6. Escaping(in, s, k) = RaisedBy(e, d) \ Stopped(Sort(in, f))
  <2>1. /\ Escaping(in, s, k) = (Raised(in, s, k) \cup Escaping(in, s, k + 1)) \ Stopped(Sort(in, f))
        /\ Escaping(in, s, k + 1) = {}
    BY <1>1, <1>2, EscapingStep
  <2> QED BY <2>1 DEF Raised
<1>7. f.item \in BOOLEAN
  BY <1>3 DEF Frame
<1>8. CASE Sort(in, f) # "one_of"
  <2>1. d = N
    BY <1>8
  <2>2. /\ ~ w.throws /\ w.raised = RaisedBy(e, d) \ Stopped(Sort(in, f))
        /\ w.events = IF f.item THEN Append(EventsOf(e)[d], Push(in, f)) ELSE EventsOf(e)[d]
    <3> HIDE DEF e, N, d, f
    <3> QED BY <1>4, <1>8, <2>1 DEF Amounts
  <2>3. CASE f.item
    <3>1. Push(in, f) \in Event
      <4>1. f.def \in DOMAIN in.grammar /\ f.node \in DOMAIN in.doc /\ f.item = TRUE
        BY <1>1, <1>2, <1>7, <2>3 DEF Nested, FramesOK
      <4>2. {} \in SUBSET Error
        OBVIOUS
      <4> HIDE DEF f
      <4> QED BY <4>1, <4>2, ItemAmounts
    <3>2. w.events = Append(EventsOf(e)[d], Push(in, f))
      BY <2>2, <2>3
    <3>3. EventsOf(e)[d] \in Seq(Event)
      <4> HIDE DEF e, N, d
      <4> QED BY <1>3, EventsOfType
    <3> DEFINE a == log[k]
               b == EventsOf(e)[d]
               ev == Push(in, f)
    <3>4. a \in Seq(Event) /\ b \in Seq(Event) /\ ev \in Event
      BY <1>5, <3>1, <3>3
    <3> HIDE DEF a, b, ev
    <3>5. a \o Append(b, ev) = Append(a \o b, ev)
      <4>1. /\ Len(a) \in Nat /\ Len(b) \in Nat /\ a \o b \in Seq(Event)
            /\ Len(a \o b) = Len(a) + Len(b)
            /\ Append(b, ev) \in Seq(Event) /\ Len(Append(b, ev)) = Len(b) + 1
        BY <3>4
      <4> DEFINE l == a \o Append(b, ev)
                 r == Append(a \o b, ev)
                 n == Len(a) + Len(b) + 1
      <4>2. l \in Seq(Event) /\ r \in Seq(Event) /\ Len(l) = n /\ Len(r) = n
        BY <3>4, <4>1
      <4>3. \A j \in 1 .. n : l[j] = r[j]
        BY <3>4, <4>1
      <4> HIDE DEF l, r, n
      <4>4. l = r
        BY <4>2, <4>3, SeqEqual
      <4> QED BY <4>4 DEF l, r
    <3> QED BY <1>5, <1>6, <2>2, <2>3, <3>1, <3>2, <3>5 DEF a, b, ev
  <2>4. CASE ~ f.item
    BY <1>5, <1>6, <2>2, <2>4
  <2> QED BY <2>3, <2>4
<1>9. CASE Sort(in, f) = "one_of"
  <2>1. /\ Unsettled(e, d - 1)
        /\ f.ok <=> (d # 0 /\ Settles(e[d]))
        /\ d # 0 => ~ e[d].throws
    BY <1>1, <1>9 DEF Flags, TopFlag
  <2>2. d = N \/ f.ok
    OBVIOUS
  <2>3. f.item = FALSE
    <3>1. CASE f.item = TRUE
      BY <1>9, <3>1 DEF Sort
    <3> QED BY <1>7, <3>1
  <2> HIDE DEF e, N, d, f
  <2>4. StopsAt(e, N, d)
    BY <1>3, <2>1, <2>2 DEF StopsAt, Unsettled
  <2>5. /\ w.throws = (d # 0 /\ e[d].throws)
        /\ w.raised = RaisedBy(e, d) \ Stopped(Sort(in, f))
        /\ w.events = EventsOf(e)[d]
    BY <1>4, <1>9, <2>4 DEF Amounts
  <2> QED BY <1>5, <1>6, <2>1, <2>3, <2>5 DEF f
<1> QED BY <1>8, <1>9

(* Frame j ends with an exception, after the events L. *)
Thrown(in, s, log, j, L) ==
    LET w == Seen(in, s, j)
    IN  /\ w.throws = TRUE /\ w.raised = Escaping(in, s, j)
        /\ log[j] \o w.events = L

(* An exception leaves one_of, and what the earlier children did stays. *)
LEMMA ThrowLeaves ==
    ASSUME NEW in, InputOK(in), NEW s, NEW log, Good(in, s, log), NEW j \in 1 .. Len(s),
           Sort(in, s[j]) = "one_of",
           Unsettled(Parts(in, s, j), Done(s, j)), Done(s, j) + 1 \in 1 .. PartCount(in, s[j]),
           NEW e, e = Parts(in, s, j)[Done(s, j) + 1], e.throws = TRUE,
           e.raised = Escaping(in, s, j + 1)
    PROVE  Thrown(in, s, log, j, log[j + 1] \o e.events)
<1> DEFINE w == Seen(in, s, j)
           P == Parts(in, s, j)
           N == PartCount(in, s[j])
           d == Done(s, j)
           m == d + 1
           f == s[j]
<1>1. Nested(in, s)
  BY DEF Good
<1>2. N \in Nat /\ P \in [1 .. N -> Effect] /\ d \in 0 .. N
  BY <1>1, NestedFacts
<1>3. Amounts(in, f, w, P, N)
  BY <1>1, SeenAmounts
<1>4. log[j] \in Seq(Event) /\ log[j + 1] = log[j] \o EventsOf(P)[d]
  BY LogFacts
<1>5. Escaping(in, s, j) = (RaisedBy(P, d) \cup Escaping(in, s, j + 1)) \ Stopped(Sort(in, f))
  BY <1>1, EscapingStep DEF Raised
<1> HIDE DEF P, N, d, f, w
<1>6. m \in 1 .. N /\ m # 0 /\ m - 1 = d /\ e = P[m] /\ m \in 0 .. N
  BY <1>2 DEF d, N, P
<1>7. Unsettled(P, d)
  BY DEF P, d
<1>8. StopsAt(P, N, m)
  <2>1. Settles(P[m])
    BY <1>6 DEF Settles
  <2> HIDE DEF m
  <2> QED BY <1>6, <1>7, <2>1 DEF StopsAt, Unsettled
<1> HIDE DEF m
<1>9. /\ w.throws = (m # 0 /\ P[m].throws)
      /\ w.raised = RaisedBy(P, m) \ Stopped(Sort(in, f))
      /\ w.events = EventsOf(P)[m]
  BY <1>3, <1>8 DEF Amounts, f
<1>10. /\ log[j] \o EventsOf(P)[m] = (log[j] \o EventsOf(P)[m - 1]) \o P[m].events
       /\ RaisedBy(P, m) = RaisedBy(P, m - 1) \cup P[m].raised
  BY <1>2, <1>4, <1>6, OnePartMore
<1>11. w.throws = TRUE
  BY <1>6, <1>9
<1>12. w.raised = Escaping(in, s, j)
  BY <1>5, <1>6, <1>9, <1>10
<1>13. log[j] \o w.events = log[j + 1] \o e.events
  BY <1>4, <1>6, <1>9, <1>10
<1> QED BY <1>11, <1>12, <1>13 DEF Thrown, w

(* The frames above i, up to the innermost, do not catch. *)
Uncaught(in, s, i) == i \in 1 .. Len(s) - 1 /\ \A j \in i + 1 .. Len(s) : Sort(in, s[j]) = "one_of"

(* It unwinds the stack to the innermost frame that is not one_of's. *)
LEMMA Unwound ==
    ASSUME NEW in, InputOK(in), NEW s, NEW log, Good(in, s, log), NEW k, k = Len(s),
           NEW i, Uncaught(in, s, i), ~ s[k].ok, Done(s, k) + 1 \in 1 .. PartCount(in, s[k]),
           Parts(in, s, k)[Done(s, k) + 1] = Throws
    PROVE  Thrown(in, s, log, i + 1, log[k + 1])
<1> DEFINE L == log[k + 1]
           S == {m \in 0 .. k - 1 - i : Thrown(in, s, log, k - m, L)}
<1>1. Nested(in, s) /\ Flags(in, s)
  BY DEF Good
<1>0. i \in 1 .. k - 1 /\ \A j \in i + 1 .. k : Sort(in, s[j]) = "one_of"
  BY DEF Uncaught
<1>2. k \in Nat /\ k # 0 /\ k \in 1 .. Len(s) /\ i \in Nat /\ k - 1 - i \in Nat
  BY <1>0, <1>1, NestedFacts
<1>3. Thrown(in, s, log, k, L)
  <2>1. Sort(in, s[k]) = "one_of"
    <3>1. k \in i + 1 .. k
      BY <1>0, <1>2
    <3> QED BY <1>0, <3>1
  <2>2. Unsettled(Parts(in, s, k), Done(s, k))
    BY <1>1, <2>1, UnsettledTop
  <2> DEFINE e == Throws
  <2>3. e.throws = TRUE /\ e.raised = {} /\ e.events = <<>>
    BY DEF Throws
  <2>4. Escaping(in, s, k + 1) = {}
    BY <1>1, <1>2, EscapingStep
  <2>5. e = Parts(in, s, k)[Done(s, k) + 1] /\ e.raised = Escaping(in, s, k + 1)
    BY <2>3, <2>4
  <2> HIDE DEF e
  <2>6. Thrown(in, s, log, k, log[k + 1] \o e.events)
    <3>1. InputOK(in) /\ Good(in, s, log) /\ Done(s, k) + 1 \in 1 .. PartCount(in, s[k])
      OBVIOUS
    <3> QED BY ONLY <1>2, <2>1, <2>2, <2>3, <2>5, <3>1, ThrowLeaves
  <2>7. log[k + 1] \in Seq(Event)
    BY <1>2, LogFacts
  <2>8. log[k + 1] \o <<>> = log[k + 1]
    BY <2>7, ConcatEmptySeq
  <2> QED BY <2>3, <2>6, <2>8
<1>4. 0 \in S
  <2>1. k - 0 = k /\ 0 \in 0 .. k - 1 - i
    BY <1>2
  <2> QED BY <1>3, <2>1
<1>5. ASSUME NEW m \in 0 .. k - 1 - i, m < k - 1 - i, m \in S
      PROVE  m + 1 \in S
  <2> DEFINE j == k - m - 1
  <2>1. /\ j \in 1 .. k - 1 /\ j \in i + 1 .. k /\ j + 1 = k - m /\ j = k - (m + 1)
        /\ m + 1 \in 0 .. k - 1 - i
    BY <1>0, <1>2, <1>5
  <2>2. j \in 1 .. Len(s) - 1 /\ j \in 1 .. Len(s)
    BY <1>2, <2>1
  <2> HIDE DEF j
  <2>3. Thrown(in, s, log, j + 1, L)
    BY <1>5, <2>1
  <2>4. Sort(in, s[j]) = "one_of"
    BY <1>0, <2>1
  <2>5. Unsettled(Parts(in, s, j), Done(s, j))
    BY <1>1, <2>2, <2>4 DEF Flags, LowFlag
  <2> DEFINE e == Seen(in, s, j + 1)
  <2>6. Done(s, j) + 1 \in 1 .. PartCount(in, s[j]) /\ e = Parts(in, s, j)[Done(s, j) + 1]
    <3>1. InputOK(in)
      OBVIOUS
    <3> QED BY ONLY <1>1, <2>2, <3>1, NestedFacts
  <2>7. e.throws = TRUE /\ e.raised = Escaping(in, s, j + 1) /\ log[j + 1] \o e.events = L
    BY <2>3 DEF Thrown
  <2> HIDE DEF e
  <2>8. Thrown(in, s, log, j, log[j + 1] \o e.events)
    <3>1. InputOK(in) /\ Good(in, s, log)
      OBVIOUS
    <3> QED BY ONLY <2>2, <2>4, <2>5, <2>6, <2>7, <3>1, ThrowLeaves
  <2>9. Thrown(in, s, log, j, L)
    BY <2>7, <2>8
  <2> QED BY <2>1, <2>9
<1>6. \A m \in 0 .. k - 1 - i : m \in S
  <2> HIDE DEF S
  <2> QED BY <1>2, <1>4, <1>5, Reaches
<1>7. Thrown(in, s, log, i + 1, L)
  <2>1. k - 1 - i \in 0 .. k - 1 - i /\ k - (k - 1 - i) = i + 1
    BY <1>2
  <2>2. k - 1 - i \in S
    BY <1>6, <2>1
  <2> QED BY <2>1, <2>2
<1> QED BY <1>7

-----------------------------------------------------------------------------
(* What the parse has done so far, and the events that explain it. *)
Results == [out |-> out, list |-> list, reports |-> reports]
Explained(in, s, st) ==
    \E log : Good(in, s, log) /\ Outcome(log[Len(s) + 1]) = st

(* A parse under way has had the effects of all that has ended in it. *)
MeaningInv ==
    /\ ParserInv /\ ParseMatchesMeaning
    /\ stack # <<>> => Explained(input, stack, Results)

-----------------------------------------------------------------------------
(* The two ways of saying which closure a frame is of, and what it stops. *)
LEMMA KindIsSort ==
    ASSUME NEW f
    PROVE  /\ Kind(f) = Sort(input, f)
           /\ \A err \in Error : Stops(f, err) <=> err \in Stopped(Sort(input, f))
<1>1. Kind(f) = Sort(input, f)
  BY DEF Kind, Sort, Def
<1> DEFINE K == Sort(input, f)
<1> HIDE DEF K
<1>2. \A err \in Error : err \in Stopped(K) <=>
          \/ K = "one_of" /\ err \in TypeError
          \/ K = "optional" /\ err = "AttributeMissing"
          \/ K = "attempt"
  BY DEF Stopped
<1> QED BY <1>1, <1>2 DEF Stops, K

(* An error is stopped by some running closure when it is in the shield. *)
LEMMA ShieldStops ==
    ASSUME ParserInv, stack # <<>>, NEW err \in Error
    PROVE  err \in Shield(input, stack, Len(stack)) <=> \E i \in DOMAIN stack : Stops(stack[i], err)
<1>1. DOMAIN stack = 1 .. Len(stack)
  BY TopFacts
<1>2. \A i \in DOMAIN stack : Stops(stack[i], err) <=> err \in Stopped(Sort(input, stack[i]))
  BY KindIsSort
<1> QED BY <1>1, <1>2 DEF Shield

(* The input that is parsed is a grammar and a document. *)
LEMMA InputIsOK ==
    ASSUME ParserInv
    PROVE  InputOK(input)
  BY InputFacts DEF InputOK

(* The step to the next child. *)
LEMMA AdvancedIs ==
    ASSUME ParserInv, stack # <<>>, NEW k, k = Len(stack)
    PROVE  /\ Advanced \in Seq(Frame) /\ Len(Advanced) = k
           /\ k \in Nat \ {0} /\ k \in 1 .. k
           /\ AlikeUpto(stack, Advanced, k)
           /\ \A j \in 1 .. k - 1 : Advanced[j] = stack[j]
           /\ Advanced[k].next = stack[k].next + 1 /\ Advanced[k].ok = TRUE
<1> DEFINE g == [[stack[k] EXCEPT !.next = @ + 1] EXCEPT !.ok = TRUE]
<1>1. stack \in Seq(Frame) /\ k \in Nat \ {0} /\ k \in 1 .. k /\ DOMAIN stack = 1 .. k
      /\ stack[k] \in Frame
  BY TopFacts DEF Framed, Top
<1>2. Advanced = [stack EXCEPT ![k] = g]
  BY <1>1 DEF Advanced
<1>3. /\ g.def = stack[k].def /\ g.node = stack[k].node /\ g.item = stack[k].item
      /\ g.next = stack[k].next + 1 /\ g.ok = TRUE
  BY <1>1 DEF Frame
<1> HIDE DEF g
<1>4. \A j \in 1 .. k : Advanced[j] = IF j = k THEN g ELSE stack[j]
  BY <1>1, <1>2
<1>5. Advanced \in Seq(Frame) /\ Len(Advanced) = k
  BY AdvancedFramed DEF Framed
<1>6. AlikeUpto(stack, Advanced, k)
  BY <1>3, <1>4 DEF AlikeUpto, Alike
<1>7. \A j \in 1 .. k - 1 : j \in 1 .. k /\ j # k
  BY <1>1
<1>8. \A j \in 1 .. k - 1 : Advanced[j] = stack[j]
  BY <1>4, <1>7
<1>9. Advanced[k] = g
  BY <1>1, <1>4
<1> QED BY <1>1, <1>3, <1>5, <1>6, <1>8, <1>9

(* The child that runs next: its place, and its meaning. *)
LEMMA ChildPart ==
    ASSUME ParserInv, ChildLeft, NEW k, k = Len(stack), Nested(input, stack)
    PROVE  /\ Done(stack, k) + 1 = Top.next /\ Done(stack, k) + 1 \in 1 .. PartCount(input, stack[k])
           /\ Sort(input, stack[k]) # "each"
           /\ (Sort(input, stack[k]) = "one_of" => ~ stack[k].ok)
           /\ Child = input.grammar[stack[k].def].children[Top.next]
           /\ Parts(input, stack, k)[Done(stack, k) + 1]
                 = EffectOf(input.doc, Def(Child), SubOf(input, Child), Top.node, Shield(input, stack, k))
<1> DEFINE f == stack[k]
           sh == Shield(input, stack, k)
           j == Top.next
           d == input.grammar[f.def]
<1>1. InputOK(input) /\ stack # <<>> /\ Child \in DOMAIN input.grammar
  BY InputIsOK, ChildFacts
<1>2. k \in Nat \ {0} /\ k \in 1 .. Len(stack)
  BY <1>1, TopFacts
<1>3. Top = f /\ f \in Frame /\ f.def \in DOMAIN input.grammar /\ f.node \in DOMAIN input.doc
  BY <1>1, TopFacts DEF Top, Placed
<1>4. Sort(input, f) \in Combinator \ {"each"}
  BY <1>3, KindIsSort DEF ChildLeft, Running
<1>5. (Sort(input, f) = "one_of" => ~ f.ok)
  BY <1>3, KindIsSort DEF ChildLeft
<1>6. j \in Nat \ {0} /\ Done(stack, k) + 1 = j
  <2>1. j \in Nat \ {0} /\ Done(stack, k) = j - 1
    BY <1>1, <1>3, NestedFacts DEF Frame
  <2> QED BY <2>1
<1>7. d.children \in Seq(Nat \ {0}) /\ j <= Len(d.children)
  <2>1. d \in Definition
    BY <1>1, <1>3, SubOfOK
  <2>2. j <= Len(d.children)
    BY <1>3 DEF ChildLeft, Def
  <2> QED BY <2>1, <2>2 DEF Definition
<1>8. PartCount(input, f) = Len(d.children)
  BY <1>4 DEF PartCount
<1>9. j \in 1 .. PartCount(input, f) /\ j \in DOMAIN d.children
  BY <1>6, <1>7, <1>8, LenProperties
<1>10. Child = d.children[j]
  BY <1>3 DEF Child, Def
<1>11. sh \in SUBSET Error
  BY ShieldErrors
<1>12. Parts(input, stack, k)[j] = Meaning(input)[Child][f.node][sh]
  <2>1. Parts(input, stack, k) = On(d, SubOf(input, f.def), f.node, sh)
    BY <1>4 DEF Parts, PartsOf
  <2>2. SubOf(input, f.def)[j] = Meaning(input)[Child]
    BY <1>1, <1>3, <1>9, <1>10, SubOfOK
  <2> HIDE DEF sh, j, f
  <2> QED BY <1>9, <2>1, <2>2 DEF On
<1>13. Meaning(input)[Child] = Closed(input.doc, Def(Child), SubOf(input, Child))
  BY <1>1, MeaningStep DEF InputOK, SubOf, Def
<1> HIDE DEF sh, f
<1>14. Meaning(input)[Child][f.node][sh] = EffectOf(input.doc, Def(Child), SubOf(input, Child), f.node, sh)
  BY <1>3, <1>11, <1>13 DEF Closed
<1> QED BY <1>3, <1>4, <1>5, <1>6, <1>9, <1>10, <1>12, <1>14 DEF f, sh

-----------------------------------------------------------------------------
(* From s to t, the innermost of k frames goes on, having seen the effect e. *)
GoesOn(in, s, t, k, e) ==
    /\ t \in Seq(Frame) /\ Len(t) = k /\ AlikeUpto(s, t, k)
    /\ \A j \in 1 .. k - 1 : t[j].next = s[j].next
    /\ t[k].next = s[k].next + 1
    /\ Noted(in, s, t, k, e.raised)
    /\ Sort(in, s[k]) = "one_of" => ~ e.throws /\ (t[k].ok <=> Settles(e))

(* A leaf has ended: the running closure notes it and goes on. *)
LEMMA LeafEnds ==
    ASSUME ParserInv, ChildLeft, NEW k, k = Len(stack), NEW log, Good(input, stack, log),
           NEW e, e = Parts(input, stack, k)[Done(stack, k) + 1],
           NEW t, GoesOn(input, stack, t, k, e)
    PROVE  /\ Good(input, t, Ended(stack, log, k, e.events))
           /\ log[k + 1] \in Seq(Event)
<1> DEFINE s == stack
           Y == e.raised
<1>1. InputOK(input) /\ stack # <<>> /\ Nested(input, s) /\ Flags(input, s)
  BY InputIsOK, ChildFacts DEF Good
<1>2. k \in 1 .. Len(s) /\ k \in Nat /\ k # 0
  BY <1>1, TopFacts
<1>3. /\ Done(s, k) + 1 \in 1 .. PartCount(input, s[k])
      /\ Done(s, k) + 1 = Top.next
      /\ (Sort(input, s[k]) = "one_of" => ~ s[k].ok)
  BY <1>1, ChildPart
<1>4. t[k].next - 1 = Done(s, k) + 1
  <2>1. Top = s[k] /\ Top \in Frame
    BY <1>1, TopFacts DEF Top
  <2> QED BY <1>3, <2>1 DEF Frame, GoesOn
<1>5. Y \subseteq Error /\ Escaping(input, s, k + 1) = {}
  <2>1. /\ PartCount(input, s[k]) \in Nat
        /\ Parts(input, s, k) \in [1 .. PartCount(input, s[k]) -> Effect]
    BY <1>1, <1>2, NestedFacts
  <2>2. e \in Effect
    BY <1>3, <2>1
  <2>3. Escaping(input, s, k + 1) = {}
    BY <1>1, <1>2, EscapingStep
  <2> QED BY <2>2, <2>3 DEF Effect
<1>6. e.raised = Escaping(input, s, k + 1) \cup Y
  BY <1>5
<1>7. Sort(input, s[k]) = "one_of" =>
          /\ ~ e.throws /\ (t[k].ok <=> Settles(e))
          /\ Unsettled(Parts(input, s, k), Done(s, k))
  BY <1>1, <1>3, UnsettledTop DEF GoesOn
<1>8. Noted(input, s, t, k, Y)
  BY DEF GoesOn
<1> HIDE DEF s, Y
<1>9. Good(input, t, Ended(s, log, k, e.events))
  <2>1. Good(input, s, log) /\ e = Parts(input, s, k)[Done(s, k) + 1] /\ t \in Seq(Frame)
        /\ Len(t) = k /\ AlikeUpto(s, t, k) /\ \A j \in 1 .. k - 1 : t[j].next = s[j].next
    BY DEF s, GoesOn
  <2> QED BY ONLY <1>1, <1>2, <1>3, <1>4, <1>5, <1>6, <1>7, <1>8, <2>1, PartEnds
<1>10. log[k + 1] \in Seq(Event)
  BY <1>1, <1>2, LogFacts DEF s
<1> QED BY <1>9, <1>10 DEF s

-----------------------------------------------------------------------------
(* The effect of the child that runs next. *)
ChildEffect == EffectOf(input.doc, Def(Child), SubOf(input, Child), Top.node,
                        Shield(input, stack, Len(stack)))

(* One event is seen. *)
LEMMA OneEvent ==
    ASSUME NEW l \in Seq(Event), NEW ev \in Event
    PROVE  Outcome(l \o <<ev>>) = Apply(Outcome(l), ev)
<1>1. l \o <<ev>> = Append(l, ev)
  BY AppendIsConcat
<1> QED BY <1>1, OutcomeAppend

(* A value is stored. *)
LEMMA WriteExplained ==
    ASSUME MeaningInv, ChildLeft, NEW f \in Field, NEW v \in Value,
           ChildEffect = Writes(f, v), Write(f, v)
    PROVE  Explained(input, stack', Results')
<1> DEFINE k == Len(stack)
           e == Writes(f, v)
           ev == [tag |-> "write", field |-> f, value |-> v]
           t == Advanced
<1>1. ParserInv /\ stack # <<>>
  BY ChildFacts DEF MeaningInv
<1>2. PICK log : Good(input, stack, log) /\ Outcome(log[k + 1]) = Results
  BY <1>1 DEF MeaningInv, Explained
<1>3. e = Parts(input, stack, k)[Done(stack, k) + 1]
  BY <1>1, <1>2, ChildPart DEF Good, ChildEffect
<1>4. e.throws = FALSE /\ e.raised = {} /\ e.events = <<ev>> /\ ev \in Event
  BY DEF Writes, Event
<1>5. /\ t \in Seq(Frame) /\ Len(t) = k /\ k \in Nat \ {0} /\ AlikeUpto(stack, t, k)
      /\ \A j \in 1 .. k - 1 : t[j] = stack[j]
      /\ t[k].next = stack[k].next + 1 /\ t[k].ok = TRUE
  BY <1>1, AdvancedIs
<1> HIDE DEF e, ev, t
<1>6. Noted(input, stack, t, k, e.raised)
  BY <1>4, <1>5 DEF Noted
<1>7. ~ e.throws /\ (t[k].ok <=> Settles(e))
  BY <1>4, <1>5 DEF Settles
<1> HIDE DEF k
<1>8. \A j \in 1 .. k - 1 : t[j].next = stack[j].next
  BY <1>5
<1>9. k = Len(stack)
  BY DEF k
<1>10. /\ Good(input, t, Ended(stack, log, k, e.events))
       /\ Ended(stack, log, k, e.events)[k + 1] = log[k + 1] \o e.events
       /\ log[k + 1] \in Seq(Event)
  <2>1. GoesOn(input, stack, t, k, e)
    BY <1>5, <1>6, <1>7, <1>8 DEF GoesOn
  <2>2. Good(input, t, Ended(stack, log, k, e.events)) /\ log[k + 1] \in Seq(Event)
    BY <1>1, <1>2, <1>3, <1>9, <2>1, LeafEnds
  <2>3. k + 1 \in 1 .. k + 1
    BY <1>5
  <2>4. Ended(stack, log, k, e.events)[k + 1] = log[k + 1] \o e.events
    BY <2>3 DEF Ended
  <2> QED BY <2>2, <2>4
<1>11. Outcome(log[k + 1] \o e.events) = Apply(Results, ev)
  BY <1>2, <1>4, <1>10, OneEvent
<1>12. Apply(Results, ev) = Results'
  <2>1. /\ out' = [out EXCEPT ![f] = v] /\ list' = list /\ reports' = reports
    BY DEF Write
  <2>2. ev.tag = "write" /\ ev.field = f /\ ev.value = v
    BY DEF ev
  <2>3. Apply(Results, ev) = [Results EXCEPT !.out = [Results.out EXCEPT ![f] = v]]
    BY <2>2 DEF Apply
  <2>4. Results.out = out
    BY DEF Results
  <2> QED BY <2>1, <2>3, <2>4 DEF Results
<1>13. stack' = t
  BY DEF Write, t
<1>14. Explained(input, t, Results')
  BY <1>5, <1>10, <1>11, <1>12 DEF Explained
<1> QED BY <1>13, <1>14

(* An error that no callback stops is reported. *)
LEMMA ReportExplained ==
    ASSUME MeaningInv, ChildLeft, NEW err \in Error, NEW key \in Key,
           ChildEffect = Fails(err, key, Shield(input, stack, Len(stack))),
           Report(err, key), UNCHANGED <<out, list>>
    PROVE  Explained(input, stack', Results')
<1> DEFINE k == Len(stack)
           sh == Shield(input, stack, k)
           e == Fails(err, key, sh)
           ev == [tag |-> "error", error |-> err, key |-> key]
           t == Advanced
<1>1. ParserInv /\ stack # <<>>
  BY ChildFacts DEF MeaningInv
<1>2. PICK log : Good(input, stack, log) /\ Outcome(log[k + 1]) = Results
  BY <1>1 DEF MeaningInv, Explained
<1>3. e = Parts(input, stack, k)[Done(stack, k) + 1]
  BY <1>1, <1>2, ChildPart DEF Good, ChildEffect
<1>4. err \notin sh /\ \A i \in 1 .. k : err \notin Stopped(Sort(input, stack[i]))
  <2>1. DOMAIN stack = 1 .. k
    BY <1>1, TopFacts
  <2>2. \A i \in DOMAIN stack : ~ Stops(stack[i], err)
    BY DEF Report
  <2>3. err \notin sh
    BY <1>1, <2>2, ShieldStops
  <2> QED BY <2>1, <2>2, <2>3, KindIsSort
<1>5. e.throws = FALSE /\ e.raised = {err} /\ e.events = <<ev>> /\ ev \in Event
  BY <1>4 DEF Fails, Event
<1>6. /\ t \in Seq(Frame) /\ Len(t) = k /\ k \in Nat \ {0} /\ k \in 1 .. k /\ AlikeUpto(stack, t, k)
      /\ \A j \in 1 .. k - 1 : t[j] = stack[j]
      /\ t[k].next = stack[k].next + 1 /\ t[k].ok = TRUE
  BY <1>1, AdvancedIs
<1> HIDE DEF e, ev, t, k
<1>7. \A i \in 1 .. k : Sort(input, stack[i]) = "one_of" => err \notin TypeError
  BY <1>4 DEF Stopped
<1>8. Noted(input, stack, t, k, e.raised)
  <2>1. \A j \in 1 .. k - 1 : j \in 1 .. k
    BY <1>6
  <2>2. \A j \in 1 .. k - 1 : Sort(input, stack[j]) = "one_of" => e.raised \cap TypeError = {}
    BY <1>5, <1>7, <2>1
  <2> QED BY <1>6, <2>2 DEF Noted
<1>9. Sort(input, stack[k]) = "one_of" => ~ e.throws /\ (t[k].ok <=> Settles(e))
  BY <1>5, <1>6, <1>7 DEF Settles
<1>10. \A j \in 1 .. k - 1 : t[j].next = stack[j].next
  BY <1>6
<1>11. k = Len(stack)
  BY DEF k
<1>12. /\ Good(input, t, Ended(stack, log, k, e.events))
       /\ Ended(stack, log, k, e.events)[k + 1] = log[k + 1] \o e.events
       /\ log[k + 1] \in Seq(Event)
  <2>1. GoesOn(input, stack, t, k, e)
    BY <1>6, <1>8, <1>9, <1>10 DEF GoesOn
  <2>2. Good(input, t, Ended(stack, log, k, e.events)) /\ log[k + 1] \in Seq(Event)
    BY <1>1, <1>2, <1>3, <1>11, <2>1, LeafEnds
  <2>3. k + 1 \in 1 .. k + 1
    BY <1>6
  <2>4. Ended(stack, log, k, e.events)[k + 1] = log[k + 1] \o e.events
    BY <2>3 DEF Ended
  <2> QED BY <2>2, <2>4
<1>13. Outcome(log[k + 1] \o e.events) = Apply(Results, ev)
  BY <1>2, <1>5, <1>12, OneEvent
<1>14. Apply(Results, ev) = Results'
  <2>1. /\ out' = out /\ list' = list /\ reports' = Append(reports, <<err, key>>)
    BY DEF Report
  <2>2. ev.tag = "error" /\ ev.error = err /\ ev.key = key
    BY DEF ev
  <2>3. Apply(Results, ev) = [Results EXCEPT !.reports = Append(Results.reports, <<err, key>>)]
    BY <2>2 DEF Apply
  <2>4. Results.reports = reports
    BY DEF Results
  <2> QED BY <2>1, <2>3, <2>4 DEF Results
<1>15. stack' = t
  BY DEF Report, t
<1>16. Explained(input, t, Results')
  BY <1>6, <1>12, <1>13, <1>14 DEF Explained
<1> QED BY <1>15, <1>16

(* An error that a callback stops is noted there, and seen nowhere else. *)
LEMMA StopExplained ==
    ASSUME MeaningInv, ChildLeft, NEW err \in Error, NEW key \in Key,
           ChildEffect = Fails(err, key, Shield(input, stack, Len(stack))),
           NEW i \in DOMAIN stack, Stops(stack[i], err),
           \A j \in DOMAIN stack : Stops(stack[j], err) => j <= i,
           stack' = [Advanced EXCEPT ![i].ok = FALSE], UNCHANGED <<out, list, reports>>
    PROVE  Explained(input, stack', Results')
<1> DEFINE k == Len(stack)
           sh == Shield(input, stack, k)
           e == Fails(err, key, sh)
           a == Advanced
           g == [a[i] EXCEPT !.ok = FALSE]
           t == [a EXCEPT ![i] = g]
           St(j) == err \in Stopped(Sort(input, stack[j]))
<1>1. ParserInv /\ stack # <<>>
  BY ChildFacts DEF MeaningInv
<1>2. PICK log : Good(input, stack, log) /\ Outcome(log[k + 1]) = Results
  BY <1>1 DEF MeaningInv, Explained
<1>3. e = Parts(input, stack, k)[Done(stack, k) + 1]
  BY <1>1, <1>2, ChildPart DEF Good, ChildEffect
<1>4. e.throws = FALSE /\ e.raised = {err} /\ e.events = <<>>
  <2>1. err \in sh
    BY <1>1, ShieldStops
  <2> QED BY <2>1 DEF Fails
<1>5. /\ a \in Seq(Frame) /\ Len(a) = k /\ k \in Nat \ {0} /\ k \in 1 .. k /\ AlikeUpto(stack, a, k)
      /\ \A j \in 1 .. k - 1 : a[j] = stack[j]
      /\ a[k].next = stack[k].next + 1 /\ a[k].ok = TRUE
  BY <1>1, AdvancedIs
<1>6. stack' = t
  OBVIOUS
<1>7. DOMAIN stack = 1 .. k
  BY <1>1, TopFacts
<1>8. i \in 1 .. k /\ St(i) /\ \A j \in 1 .. k : St(j) => j <= i
  BY <1>7, KindIsSort
<1> HIDE DEF e, a, k, sh
<1>9. a[i] \in Frame
  BY <1>5, <1>8
<1>10. /\ g \in Frame /\ g.ok = FALSE /\ g.next = a[i].next
       /\ g.def = a[i].def /\ g.node = a[i].node /\ g.item = a[i].item
  BY <1>9 DEF Frame
<1> HIDE DEF g
<1>11. /\ t \in Seq(Frame) /\ Len(t) = k
       /\ \A j \in 1 .. k : t[j] = IF j = i THEN g ELSE a[j]
  BY <1>5, <1>8, <1>10, ExceptSeq
<1> HIDE DEF t
<1>12. \A j \in 1 .. k : /\ t[j].next = a[j].next /\ Alike(stack[j], t[j])
                         /\ t[j].ok = IF j = i THEN FALSE ELSE a[j].ok
  BY <1>5, <1>10, <1>11 DEF AlikeUpto, Alike
<1>13. AlikeUpto(stack, t, k)
  BY <1>12 DEF AlikeUpto
<1>14. \A j \in 1 .. k - 1 : j \in 1 .. k /\ t[j].next = stack[j].next
  <2>1. \A j \in 1 .. k - 1 : j \in 1 .. k
    BY <1>5
  <2> QED BY <1>5, <1>12, <2>1
<1>15. t[k].next = stack[k].next + 1
  BY <1>5, <1>12
<1>16. \A j \in 1 .. k : Sort(input, stack[j]) = "one_of" => (St(j) <=> err \in TypeError)
  BY DEF Stopped
<1>17. Noted(input, stack, t, k, e.raised)
  <2> SUFFICES ASSUME NEW j \in 1 .. k - 1, Sort(input, stack[j]) = "one_of"
               PROVE  t[j].ok <=> stack[j].ok
                                  /\ \A y \in e.raised \cap TypeError : ~ Passes(input, stack, y, j + 1, k)
    BY DEF Noted
  <2>1. j \in 1 .. k /\ a[j] = stack[j] /\ (St(j) <=> err \in TypeError)
    BY <1>5, <1>14, <1>16
  <2>2. CASE j = i
    <3>1. err \in TypeError
      BY <1>8, <2>1, <2>2
    <3>2. \A m \in j + 1 .. k : m \in 1 .. k /\ ~ (m <= i)
      BY <1>5, <1>8, <2>2
    <3>3. Passes(input, stack, err, j + 1, k)
      BY <1>8, <3>2 DEF Passes
    <3>4. t[j].ok = FALSE
      BY <1>12, <2>1, <2>2
    <3> QED BY <1>4, <3>1, <3>3, <3>4
  <2>3. CASE j # i
    <3>1. t[j].ok = stack[j].ok
      BY <1>12, <2>1, <2>3
    <3>2. ASSUME err \in TypeError PROVE ~ Passes(input, stack, err, j + 1, k)
      <4>1. j <= i
        BY <1>8, <2>1, <3>2
      <4>2. i \in j + 1 .. k
        BY <1>5, <1>8, <2>1, <2>3, <4>1
      <4> QED BY <1>8, <4>2 DEF Passes
    <3> QED BY <1>4, <3>1, <3>2
  <2> QED BY <2>2, <2>3
<1>18. Sort(input, stack[k]) = "one_of" => ~ e.throws /\ (t[k].ok <=> Settles(e))
  <2> SUFFICES ASSUME Sort(input, stack[k]) = "one_of" PROVE t[k].ok <=> Settles(e)
    BY <1>4
  <2>1. Settles(e) <=> err \notin TypeError
    BY <1>4 DEF Settles
  <2>2. St(k) <=> err \in TypeError
    BY <1>5, <1>16
  <2>3. St(k) <=> k = i
    <3>1. ASSUME St(k) PROVE k = i
      BY <1>5, <1>8, <3>1
    <3> QED BY <1>8, <3>1
  <2>4. t[k].ok = IF k = i THEN FALSE ELSE TRUE
    BY <1>5, <1>12
  <2> QED BY <2>1, <2>2, <2>3, <2>4
<1>19. k = Len(stack)
  BY DEF k
<1>20. /\ Good(input, t, Ended(stack, log, k, e.events))
       /\ Ended(stack, log, k, e.events)[k + 1] = log[k + 1] \o e.events
       /\ log[k + 1] \in Seq(Event)
  <2>1. GoesOn(input, stack, t, k, e)
    BY <1>11, <1>13, <1>14, <1>15, <1>17, <1>18 DEF GoesOn
  <2>2. Good(input, t, Ended(stack, log, k, e.events)) /\ log[k + 1] \in Seq(Event)
    BY <1>1, <1>2, <1>3, <1>19, <2>1, LeafEnds
  <2>3. k + 1 \in 1 .. k + 1
    BY <1>5
  <2>4. Ended(stack, log, k, e.events)[k + 1] = log[k + 1] \o e.events
    BY <2>3 DEF Ended
  <2> QED BY <2>2, <2>4
<1>21. log[k + 1] \o e.events = log[k + 1]
  BY <1>4, <1>20, ConcatEmptySeq
<1>22. Results' = Results
  BY DEF Results
<1>23. Explained(input, t, Results')
  BY <1>2, <1>11, <1>20, <1>21, <1>22 DEF Explained
<1> QED BY <1>6, <1>23

-----------------------------------------------------------------------------
(* An exception ends the frames of one_of, and the frame that catches it goes *)
(* on as if its child had returned.                                           *)
LEMMA ThrowExplained ==
    ASSUME MeaningInv, ChildLeft, ChildEffect = Throws, Throw
    PROVE  Explained(input, stack', Results')
<1> DEFINE k == Len(stack)
           e == Throws
           a == Advanced
<1>1. ParserInv /\ stack # <<>> /\ InputOK(input)
  BY ChildFacts, InputIsOK DEF MeaningInv
<1>2. PICK log : Good(input, stack, log) /\ Outcome(log[k + 1]) = Results
  BY <1>1 DEF MeaningInv, Explained
<1>3. PICK i \in DOMAIN stack : /\ Catches(stack[i])
                               /\ \A j \in DOMAIN stack : Catches(stack[j]) => j <= i
                               /\ stack' = SubSeq(a, 1, i)
  BY DEF Throw
<1>4. /\ e = Parts(input, stack, k)[Done(stack, k) + 1]
      /\ Done(stack, k) + 1 \in 1 .. PartCount(input, stack[k])
      /\ (Sort(input, stack[k]) = "one_of" => ~ stack[k].ok)
  BY <1>1, <1>2, ChildPart DEF Good, ChildEffect
<1>5. e.throws = TRUE /\ e.raised = {} /\ e.events = <<>>
  BY DEF Throws
<1>6. /\ a \in Seq(Frame) /\ Len(a) = k /\ k \in Nat \ {0} /\ k \in 1 .. k /\ AlikeUpto(stack, a, k)
      /\ \A j \in 1 .. k - 1 : a[j] = stack[j]
      /\ a[k].next = stack[k].next + 1 /\ a[k].ok = TRUE
  BY <1>1, AdvancedIs
<1>7. DOMAIN stack = 1 .. k /\ stack \in Seq(Frame)
  BY <1>1, TopFacts DEF Framed
<1>8. /\ i \in 1 .. k /\ Sort(input, stack[i]) # "one_of"
      /\ \A j \in 1 .. k : Sort(input, stack[j]) # "one_of" => j <= i
  BY <1>3, <1>7, KindIsSort DEF Catches
<1>9. Results' = Results /\ k = Len(stack)
  BY DEF Results, Throw
<1>10. log[k + 1] \in Seq(Event)
  BY <1>1, <1>2, <1>6, LogFacts
<1> HIDE DEF e, a, k
<1>11. CASE i = k
  <2>1. stack' = a
    <3>1. SubSeq(a, 1, k) = a
      BY <1>6
    <3> QED BY <1>3, <1>11, <3>1
  <2>2. Noted(input, stack, a, k, e.raised)
    BY <1>5, <1>6 DEF Noted
  <2>3. GoesOn(input, stack, a, k, e)
    BY <1>6, <1>8, <1>11, <2>2 DEF GoesOn
  <2>4. /\ Good(input, a, Ended(stack, log, k, e.events))
        /\ Ended(stack, log, k, e.events)[k + 1] = log[k + 1] \o e.events
    <3>1. ParserInv /\ ChildLeft /\ Good(input, stack, log) /\ k = Len(stack)
          /\ e = Parts(input, stack, k)[Done(stack, k) + 1]
      BY <1>1, <1>2, <1>4, <1>9
    <3>2. Good(input, a, Ended(stack, log, k, e.events))
      BY <2>3, <3>1, LeafEnds
    <3>3. k + 1 \in 1 .. k + 1
      BY <1>6
    <3>4. Ended(stack, log, k, e.events)[k + 1] = log[k + 1] \o e.events
      BY <3>3 DEF Ended
    <3> QED BY <3>2, <3>4
  <2>5. log[k + 1] \o e.events = log[k + 1]
    BY <1>5, <1>10, ConcatEmptySeq
  <2>6. Explained(input, a, Results')
    BY <1>2, <1>6, <1>9, <2>4, <2>5 DEF Explained
  <2> QED BY <2>1, <2>6
<1>12. CASE i # k
  <2> DEFINE t == SubSeq(stack, 1, i)
             w == Seen(input, stack, i + 1)
  <2>1. i \in 1 .. k - 1
    BY <1>6, <1>8, <1>12
  <2>2. stack' = t
    <3>1. Len(stack) = k /\ \A j \in 1 .. i : a[j] = stack[j]
      BY <1>6, <1>9, <2>1
    <3>2. /\ SubSeq(a, 1, i) = [j \in 1 .. i |-> a[j]]
          /\ SubSeq(stack, 1, i) = [j \in 1 .. i |-> stack[j]]
      BY <1>6, <1>7, <2>1, <3>1
    <3>3. SubSeq(a, 1, i) = SubSeq(stack, 1, i)
      BY <3>1, <3>2
    <3> QED BY <1>3, <3>3
  <2>3. \A j \in i + 1 .. k : Sort(input, stack[j]) = "one_of"
    <3>1. \A j \in i + 1 .. k : j \in 1 .. k /\ ~ (j <= i)
      BY <1>6, <1>8
    <3> QED BY <1>8, <3>1
  <2>4. ~ stack[k].ok
    <3>1. k \in i + 1 .. k
      BY <1>6, <2>1
    <3> QED BY <1>4, <2>3, <3>1
  <2>5. w.raised = Escaping(input, stack, i + 1) /\ log[i + 1] \o w.events = log[k + 1]
    <3>1. Parts(input, stack, k)[Done(stack, k) + 1] = Throws
      BY <1>4 DEF e
    <3>2. Uncaught(input, stack, i)
      BY <1>9, <2>1, <2>3 DEF Uncaught
    <3>3. Thrown(input, stack, log, i + 1, log[k + 1])
      BY <1>1, <1>2, <1>4, <1>9, <2>4, <3>1, <3>2, Unwound
    <3> QED BY <3>3 DEF Thrown
  <2>6. i \in 1 .. Len(stack) - 1
    BY <1>9, <2>1
  <2>7. /\ Len(t) = i
        /\ Good(input, t, Ended(stack, log, i, w.events))
        /\ Ended(stack, log, i, w.events)[i + 1] = log[i + 1] \o w.events
    <3>1. Returns(input, stack, i, w)
      BY <1>8, <2>5, <2>6 DEF Returns
    <3>2. Len(t) = i /\ Good(input, t, Ended(stack, log, i, w.events))
      BY <1>1, <1>2, <3>1, CutTo
    <3>3. i + 1 \in 1 .. i + 1
      BY <2>1
    <3>4. Ended(stack, log, i, w.events)[i + 1] = log[i + 1] \o w.events
      BY <3>3 DEF Ended
    <3> QED BY <3>2, <3>4
  <2>8. Explained(input, t, Results')
    <3> HIDE DEF t, w
    <3> QED BY <1>2, <1>9, <2>5, <2>7 DEF Explained
  <2> QED BY <2>2, <2>8
<1> QED BY <1>11, <1>12

-----------------------------------------------------------------------------
(* A closure is called. *)
LEMMA PushExplained ==
    ASSUME MeaningInv, stack # <<>>, NEW d \in DOMAIN input.grammar, NEW n \in DOMAIN input.doc,
           NEW b \in BOOLEAN, d \in Nat \ {0}, n \in Nat \ {0},
           Top.next \in 1 .. PartCount(input, Top),
           Sort(input, Top) = "one_of" => ~ Top.ok,
           IF b THEN /\ Sort(input, Top) = "each" /\ d = Top.def
                     /\ n = input.doc[Top.node].items[Top.next]
                ELSE /\ Sort(input, Top) # "each"
                     /\ d = input.grammar[Top.def].children[Top.next]
                     /\ Runs(input, d, Top.node, n),
           stack' = Append(Advanced, Closure(d, n, b)), UNCHANGED <<out, list, reports>>
    PROVE  Explained(input, stack', Results')
<1> DEFINE k == Len(stack)
           a == Advanced
           f == Closure(d, n, b)
           t == Append(a, f)
<1>1. ParserInv /\ InputOK(input)
  BY InputIsOK DEF MeaningInv
<1>2. PICK log : Good(input, stack, log) /\ Outcome(log[k + 1]) = Results
  BY DEF MeaningInv, Explained
<1>3. /\ a \in Seq(Frame) /\ Len(a) = k /\ k \in Nat \ {0} /\ k \in 1 .. k /\ AlikeUpto(stack, a, k)
      /\ \A j \in 1 .. k - 1 : a[j] = stack[j]
      /\ a[k].next = stack[k].next + 1 /\ a[k].ok = TRUE
  BY <1>1, AdvancedIs
<1>4. /\ f \in Frame /\ f.def = d /\ f.node = n /\ f.item = b /\ f.next = 1 /\ f.ok = FALSE
  BY DEF Closure, Frame
<1>5. k = Len(stack) /\ Results' = Results /\ Top = stack[k] /\ Top \in Frame
  BY <1>1, TopFacts DEF Results, Top
<1> HIDE DEF a, f, k
<1>6. /\ t \in Seq(Frame) /\ Len(t) = k + 1
      /\ \A j \in 1 .. k : t[j] = a[j]
      /\ t[k + 1] = f
  BY <1>3, <1>4, AppendProperties
<1> HIDE DEF t
<1>7. \A j \in 1 .. k - 1 : j \in 1 .. k
  BY <1>3
<1>8. AlikeUpto(stack, t, k)
  BY <1>3, <1>6 DEF AlikeUpto
<1>9. \A j \in 1 .. k - 1 : t[j].next = stack[j].next /\ t[j].ok = stack[j].ok
  BY <1>3, <1>6, <1>7
<1>10. t[k] = a[k] /\ t[k].next = Top.next + 1 /\ t[k].ok = TRUE /\ Alike(Top, t[k])
  BY <1>3, <1>5, <1>6, <1>8 DEF AlikeUpto
<1>11. Calls(input, t[k], t[k + 1])
  <2> DEFINE p == t[k]
  <2>1. p.def = Top.def /\ p.node = Top.node /\ p.item = Top.item
    BY <1>10 DEF Alike
  <2>2. p.next - 1 = Top.next
    BY <1>5, <1>10 DEF Frame
  <2> HIDE DEF p
  <2>3. Sort(input, p) = Sort(input, Top) /\ PartCount(input, p) = PartCount(input, Top)
    BY <2>1 DEF Sort, PartCount
  <2>4. Calls(input, p, f)
    <3>1. p.next - 1 \in 1 .. PartCount(input, p)
      BY <2>2, <2>3
    <3>2. CASE b = TRUE
      BY <1>4, <2>1, <2>2, <2>3, <3>1, <3>2 DEF Calls
    <3>3. CASE b = FALSE
      BY <1>4, <2>1, <2>2, <2>3, <3>1, <3>3 DEF Calls
    <3> QED BY <3>2, <3>3
  <2> QED BY <1>6, <2>4 DEF p
<1>12. CallsOn(input, stack, t, k)
  BY <1>4, <1>5, <1>6, <1>8, <1>9, <1>10, <1>11 DEF CallsOn
<1>13. Good(input, t, Called(stack, log)) /\ Called(stack, log)[k + 2] = log[k + 1]
  BY <1>1, <1>2, <1>5, <1>12, CallMade
<1>14. Len(t) + 1 = k + 2
  BY <1>3, <1>6
<1>15. Explained(input, t, Results')
  BY <1>2, <1>5, <1>13, <1>14 DEF Explained
<1> QED BY <1>15 DEF t, a, f

-----------------------------------------------------------------------------
(* The innermost closure returns; if it is the root, the parse is over. *)
LEMMA ReturnExplained ==
    ASSUME MeaningInv, stack # <<>>, NEW k, k = Len(stack),
           NEW log, Good(input, stack, log),
           Done(stack, k) = PartCount(input, stack[k])
             \/ (Sort(input, stack[k]) = "one_of" /\ stack[k].ok),
           Outcome(log[k] \o Seen(input, stack, k).events) = Results',
           stack' = SubSeq(stack, 1, k - 1)
    PROVE  /\ stack' # <<>> => Explained(input, stack', Results')
           /\ stack' = <<>> => Outcome(Meaning(input)[1][1][{}].events) = Results'
<1> DEFINE w == Seen(input, stack, k)
<1>1. ParserInv /\ InputOK(input) /\ Nested(input, stack)
  BY InputIsOK DEF MeaningInv, Good
<1>2. stack \in Seq(Frame) /\ k \in Nat \ {0} /\ k \in 1 .. Len(stack)
  BY <1>1, NestedFacts
<1>3. ~ w.throws /\ w.raised = Escaping(input, stack, k)
  BY <1>1, TopEnds
<1>4. CASE k = 1
  <2>1. stack' = <<>>
    BY <1>2, <1>4
  <2>2. w = Meaning(input)[1][1][{}]
    BY <1>4 DEF Seen
  <2>3. log[1] = <<>>
    BY <1>1, <1>2, LogFacts
  <2>4. w.events \in Seq(Event)
    <3>1. w \in Effect
      BY <1>1, <1>2, SeenAmounts DEF Amounts
    <3> QED BY <3>1 DEF Effect
  <2>5. log[1] \o w.events = w.events
    BY <2>3, <2>4, ConcatEmptySeq
  <2> QED BY <1>4, <2>1, <2>2, <2>5
<1>5. CASE k # 1
  <2> DEFINE i == k - 1
             t == SubSeq(stack, 1, i)
  <2>1. i \in 1 .. Len(stack) - 1 /\ i + 1 = k
    BY <1>2, <1>5
  <2> HIDE DEF i
  <2>2. w = Seen(input, stack, i + 1) /\ w.raised = Escaping(input, stack, i + 1)
    BY <1>3, <2>1
  <2> HIDE DEF w
  <2>3. /\ Len(t) = i
        /\ Good(input, t, Ended(stack, log, i, w.events))
        /\ Ended(stack, log, i, w.events)[i + 1] = log[i + 1] \o w.events
    <3>1. Returns(input, stack, i, w)
      BY <1>3, <2>1, <2>2 DEF Returns
    <3>2. Len(t) = i /\ Good(input, t, Ended(stack, log, i, w.events))
      BY <1>1, <3>1, CutTo
    <3>3. i + 1 \in 1 .. i + 1
      BY <2>1
    <3>4. Ended(stack, log, i, w.events)[i + 1] = log[i + 1] \o w.events
      BY <3>3 DEF Ended
    <3> QED BY <3>2, <3>4
  <2> HIDE DEF t
  <2>4. Outcome(log[i + 1] \o w.events) = Results'
    BY <2>1 DEF w
  <2>5. Explained(input, t, Results')
    BY <2>3, <2>4 DEF Explained
  <2>6. stack' = t
    BY DEF t, i
  <2>7. t # <<>>
    BY <2>1, <2>3
  <2> QED BY <2>5, <2>6, <2>7
<1> QED BY <1>4, <1>5

-----------------------------------------------------------------------------
(* An error is reported, or stopped. *)
LEMMA RaiseExplained ==
    ASSUME MeaningInv, ChildLeft, NEW err \in Error,
           ChildEffect = Fails(err, Def(Child).key, Shield(input, stack, Len(stack))),
           Raise(err, Def(Child).key)
    PROVE  Explained(input, stack', Results')
<1>1. Def(Child).key \in Key
  BY ChildFacts DEF MeaningInv, Definition
<1>2. UNCHANGED <<out, list>>
  BY DEF Raise
<1>3. CASE Report(err, Def(Child).key)
  BY <1>1, <1>2, <1>3, ReportExplained
<1>4. CASE ~ Report(err, Def(Child).key)
  <2>1. UNCHANGED reports
    BY <1>4 DEF Raise
  <2>2. PICK i \in DOMAIN stack :
            /\ Stops(stack[i], err)
            /\ \A j \in DOMAIN stack : Stops(stack[j], err) => j <= i
            /\ stack' = [Advanced EXCEPT ![i].ok = FALSE]
    BY <1>4 DEF Raise
  <2> QED BY <1>1, <1>2, <2>1, <2>2, StopExplained
<1> QED BY <1>3, <1>4

(* A type test and a conversion. *)
LEMMA ConvertExplained ==
    ASSUME MeaningInv, ChildLeft, NEW n \in DOMAIN input.doc, NEW kind, NEW err \in Error,
           ChildEffect = Typed(Def(Child), Node(n), kind, err, Shield(input, stack, Len(stack))),
           Convert(Def(Child), n, kind, err)
    PROVE  Explained(input, stack', Results')
<1> DEFINE d == Def(Child)
           sh == Shield(input, stack, Len(stack))
<1>1. d \in Definition /\ Node(n).value \in Value
  BY ChildFacts, InputFacts DEF MeaningInv, DocumentOK, Node
<1>2. d.field \in Field
  BY <1>1 DEF Definition
<1>3. "BadTypeConversion" \in Error
  BY DEF Error
<1>4. CASE Node(n).kind # kind
  <2>1. ChildEffect = Fails(err, d.key, sh) /\ Raise(err, d.key)
    BY <1>4 DEF Typed, Convert
  <2> QED BY <2>1, RaiseExplained
<1>5. CASE Node(n).kind = kind /\ Node(n).value \notin d.converts
  <2>1. ChildEffect = Fails("BadTypeConversion", d.key, sh) /\ Raise("BadTypeConversion", d.key)
    BY <1>5 DEF Typed, Convert
  <2> QED BY <1>3, <2>1, RaiseExplained
<1>6. CASE Node(n).kind = kind /\ Node(n).value \in d.converts
  <2>1. ChildEffect = Writes(d.field, Node(n).value) /\ Write(d.field, Node(n).value)
    BY <1>6 DEF Typed, Convert
  <2> QED BY <1>1, <1>2, <2>1, WriteExplained
<1> QED BY <1>4, <1>5, <1>6

(* A definition that looks up an attribute. *)
LEMMA AttributeEffect ==
    ASSUME MeaningInv, ChildLeft,
           Def(Child).kind \in {"scalar", "sequence", "choice", "fn", "map", "each"}
    PROVE  LET k == Def(Child).key
               sh == Shield(input, stack, Len(stack))
           IN  /\ Has(k) => /\ Attr(k) \in DOMAIN input.doc
                            /\ ChildEffect = OfAttribute(input.doc, Def(Child), SubOf(input, Child), Attr(k), sh)
               /\ ~ Has(k) /\ (Def(Child).kind # "fn" \/ Node(Top.node).kind = "scalar") => ChildEffect = Throws
               /\ ~ Has(k) /\ Def(Child).kind = "fn" /\ Node(Top.node).kind # "scalar" =>
                     ChildEffect = Fails("AttributeMissing", k, sh)
<1> DEFINE k == Def(Child).key
           sh == Shield(input, stack, Len(stack))
<1>1. ParserInv /\ stack # <<>>
  BY ChildFacts DEF MeaningInv
<1>2. Has(k) => Attr(k) \in DOMAIN input.doc
  BY <1>1, AttrFacts
<1> HIDE DEF sh
<1>3. Has(k) => ChildEffect = OfAttribute(input.doc, Def(Child), SubOf(input, Child), Attr(k), sh)
  BY DEF ChildEffect, EffectOf, Has, Attr, Node, sh
<1>4. ~ Has(k) /\ (Def(Child).kind # "fn" \/ Node(Top.node).kind = "scalar") => ChildEffect = Throws
  BY DEF ChildEffect, EffectOf, Has, Node
<1>5. ~ Has(k) /\ Def(Child).kind = "fn" /\ Node(Top.node).kind # "scalar" =>
          ChildEffect = Fails("AttributeMissing", k, sh)
  BY DEF ChildEffect, EffectOf, Has, Node, sh
<1> QED BY <1>2, <1>3, <1>4, <1>5 DEF sh

(* A definition that runs others is called. *)
LEMMA EnterExplained ==
    ASSUME MeaningInv, ChildLeft, NEW n \in DOMAIN input.doc,
           Runs(input, Child, Top.node, n), Enter(n)
    PROVE  Explained(input, stack', Results')
<1> DEFINE k == Len(stack)
<1>1. ParserInv /\ stack # <<>> /\ Child \in DOMAIN input.grammar
  BY ChildFacts DEF MeaningInv
<1>2. Child \in Nat \ {0} /\ n \in Nat \ {0}
  BY <1>1, InputFacts DEF DocumentOK
<1>3. PICK log : Good(input, stack, log)
  BY <1>1 DEF MeaningInv, Explained
<1>4. Nested(input, stack) /\ Top = stack[k]
  BY <1>3 DEF Good, Top
<1>5. /\ Done(stack, k) + 1 = Top.next /\ Done(stack, k) + 1 \in 1 .. PartCount(input, stack[k])
      /\ Sort(input, stack[k]) # "each"
      /\ (Sort(input, stack[k]) = "one_of" => ~ stack[k].ok)
      /\ Child = input.grammar[stack[k].def].children[Top.next]
  BY <1>1, <1>4, ChildPart
<1> DEFINE c == Child
<1>6. stack' = Append(Advanced, Closure(c, n, FALSE)) /\ UNCHANGED <<out, list, reports>>
  BY DEF Enter
<1>7. /\ Top.next \in 1 .. PartCount(input, Top) /\ (Sort(input, Top) = "one_of" => ~ Top.ok)
      /\ Sort(input, Top) # "each" /\ c = input.grammar[Top.def].children[Top.next]
      /\ c \in DOMAIN input.grammar /\ c \in Nat \ {0} /\ Runs(input, c, Top.node, n)
  BY <1>1, <1>2, <1>4, <1>5
<1> HIDE DEF c
<1>8. FALSE \in BOOLEAN
  OBVIOUS
<1> QED BY <1>1, <1>2, <1>6, <1>7, <1>8, PushExplained

(* The next item of an each is parsed. *)
LEMMA NextItemExplained ==
    ASSUME MeaningInv, NextItem
    PROVE  Explained(input, stack', Results')
<1> DEFINE j == Top.next
           n == input.doc[Top.node].items[j]
           d == Top.def
<1>1. ParserInv /\ stack # <<>>
  BY DEF MeaningInv, NextItem, Running
<1>2. Top \in Frame /\ d \in DOMAIN input.grammar /\ Top.node \in DOMAIN input.doc
  BY <1>1, TopFacts DEF Placed
<1>3. Sort(input, Top) = "each" /\ j <= Len(input.doc[Top.node].items)
  BY KindIsSort DEF NextItem, Running, Node
<1>4. DocumentOK(input.doc)
  BY <1>1, InputFacts
<1>5. j \in Nat \ {0} /\ d \in Nat \ {0}
  BY <1>2 DEF Frame
<1>6. PartCount(input, Top) = Len(input.doc[Top.node].items)
  BY <1>3 DEF PartCount
<1>7. j \in 1 .. PartCount(input, Top) /\ j \in DOMAIN input.doc[Top.node].items
  BY <1>2, <1>3, <1>4, <1>5, <1>6 DEF DocumentOK
<1>8. n \in DOMAIN input.doc /\ n \in Nat \ {0}
  <2>1. n \in Top.node + 1 .. Len(input.doc) /\ DOMAIN input.doc = 1 .. Len(input.doc)
    BY <1>2, <1>4, <1>7 DEF DocumentOK
  <2> QED BY <1>2, <2>1
<1>9. stack' = Append(Advanced, Closure(d, n, TRUE)) /\ UNCHANGED <<out, list, reports>>
  BY DEF NextItem, Node
<1>10. Sort(input, Top) # "one_of" /\ d = Top.def /\ n = input.doc[Top.node].items[Top.next]
       /\ Top.next \in 1 .. PartCount(input, Top)
  BY <1>3, <1>7
<1> HIDE DEF n, d, j
<1>11. TRUE \in BOOLEAN
  OBVIOUS
<1> QED BY <1>1, <1>2, <1>3, <1>5, <1>8, <1>9, <1>10, <1>11, PushExplained

(* A closure with no child left returns. *)
LEMMA NothingLeft ==
    ASSUME ParserInv, stack # <<>>, NEW k, k = Len(stack), Nested(input, stack),
           \/ Running(Combinator \ {"each"}) /\ ~ ChildLeft
           \/ Running({"each"}) /\ Top.next > Len(Node(Top.node).items)
    PROVE  Done(stack, k) = PartCount(input, stack[k])
             \/ (Sort(input, stack[k]) = "one_of" /\ stack[k].ok)
<1> DEFINE f == stack[k]
           N == PartCount(input, f)
<1>1. InputOK(input) /\ k \in 1 .. Len(stack) /\ Top = f /\ Kind(f) = Sort(input, f)
  BY InputIsOK, TopFacts, KindIsSort DEF Top
<1>2. f \in Frame /\ N \in Nat /\ Done(stack, k) \in 0 .. N /\ Done(stack, k) = f.next - 1
  BY <1>1, NestedFacts
<1>3. f.next \in Nat
  BY <1>2 DEF Frame
<1>4. CASE Running(Combinator \ {"each"}) /\ ~ ChildLeft
  <2>1. N = Len(Def(f.def).children)
    BY <1>1, <1>4 DEF PartCount, Running, Def
  <2>2. ~ (f.next <= Len(Def(f.def).children)) \/ (Sort(input, f) = "one_of" /\ f.ok)
    BY <1>1, <1>4 DEF ChildLeft
  <2>3. CASE ~ (f.next <= N)
    BY <1>2, <1>3, <2>3
  <2> QED BY <2>1, <2>2, <2>3
<1>5. CASE Running({"each"}) /\ Top.next > Len(Node(Top.node).items)
  <2>1. N = Len(Node(f.node).items)
    BY <1>1, <1>5 DEF PartCount, Running, Node
  <2>2. f.next > N
    BY <1>1, <1>5, <2>1
  <2> QED BY <1>2, <1>3, <2>2
<1> QED BY <1>4, <1>5

(* A closure returns; its caller sees the effect it means, and the end of the  *)
(* root is the end of the parse.                                             *)
LEMMA ClosureReturns ==
    ASSUME MeaningInv, Return
    PROVE  /\ stack' # <<>> => Explained(input, stack', Results')
           /\ stack' = <<>> => Outcome(Meaning(input)[1][1][{}].events) = Results'
<1> DEFINE k == Len(stack)
<1>1. ParserInv /\ stack # <<>> /\ InputOK(input)
  BY InputIsOK DEF MeaningInv, Return, Running
<1>2. PICK log : Good(input, stack, log) /\ Outcome(log[k + 1]) = Results
  BY <1>1 DEF MeaningInv, Explained
<1>3. Nested(input, stack)
  BY <1>2 DEF Good
<1>4. Done(stack, k) = PartCount(input, stack[k])
        \/ (Sort(input, stack[k]) = "one_of" /\ stack[k].ok)
  BY <1>1, <1>3, NothingLeft DEF Return
<1>5. ~ stack[k].item
  <2>1. Top = stack[k] /\ Top \in Frame
    BY <1>1, TopFacts DEF Top
  <2>2. CASE Running({"each"})
    <3>1. Kind(Top) = "each"
      BY <2>2 DEF Running
    <3> QED BY <2>1, <3>1 DEF Kind
  <2>3. CASE ~ Top.item
    BY <2>1, <2>3
  <2> QED BY <2>2, <2>3 DEF Return
<1>6. log[k] \o Seen(input, stack, k).events = log[k + 1]
  <2>1. EndsWith(input, stack, log, k, log[k + 1])
    BY <1>1, <1>2, <1>4, <1>5, TopEnds
  <2> QED BY <2>1 DEF EndsWith
<1>7. stack' = SubSeq(stack, 1, k - 1) /\ Results' = Results
  BY DEF Return, Results
<1>8. Outcome(log[k] \o Seen(input, stack, k).events) = Results'
  BY <1>2, <1>6, <1>7
<1> QED BY <1>1, <1>2, <1>4, <1>7, <1>8, ReturnExplained

(* The end of an item pushes temp. *)
LEMMA ItemReturns ==
    ASSUME MeaningInv, ItemDone
    PROVE  /\ stack' # <<>> => Explained(input, stack', Results')
           /\ stack' = <<>> => Outcome(Meaning(input)[1][1][{}].events) = Results'
<1> DEFINE k == Len(stack)
           ev == Push(input, stack[k])
<1>1. ParserInv /\ stack # <<>> /\ InputOK(input)
  BY InputIsOK DEF MeaningInv, ItemDone, Running
<1>2. PICK log : Good(input, stack, log) /\ Outcome(log[k + 1]) = Results
  BY <1>1 DEF MeaningInv, Explained
<1>3. Nested(input, stack) /\ Top = stack[k] /\ stack[k].item
  BY <1>2 DEF Good, Top, ItemDone
<1>4. Done(stack, k) = PartCount(input, stack[k])
        \/ (Sort(input, stack[k]) = "one_of" /\ stack[k].ok)
  <2>1. Running(Combinator \ {"each"}) /\ ~ ChildLeft
    BY DEF ItemDone, Running, Combinator
  <2> QED BY <1>1, <1>3, <2>1, NothingLeft
<1>5. /\ log[k] \o Seen(input, stack, k).events = Append(log[k + 1], ev)
      /\ ev \in Event /\ log[k + 1] \in Seq(Event)
  <2>1. /\ EndsWith(input, stack, log, k, Append(log[k + 1], Push(input, stack[k])))
        /\ Push(input, stack[k]) \in Event /\ log[k + 1] \in Seq(Event)
    BY <1>1, <1>2, <1>3, <1>4, TopEnds
  <2> QED BY <2>1 DEF EndsWith
<1>6. Outcome(Append(log[k + 1], ev)) = Apply(Results, ev)
  BY <1>2, <1>5, OutcomeAppend
<1>7. Apply(Results, ev) = Results'
  <2> DEFINE temp == Def(Top.def).temp
  <2>1. /\ list' = Append(list, [f \in temp |-> out[f]])
        /\ out' = [f \in Field |-> IF f \in temp THEN Unset ELSE out[f]]
        /\ reports' = reports
    BY DEF ItemDone
  <2>2. ev.tag = "push" /\ ev.temp = temp
    BY <1>3 DEF Push, Def
  <2>3. Results.out = out /\ Results.list = list /\ Results.reports = reports
    BY DEF Results
  <2> HIDE DEF ev, temp
  <2>4. Apply(Results, ev) =
            [out     |-> [f \in Field |-> IF f \in ev.temp THEN Unset ELSE Results.out[f]],
             list    |-> Append(Results.list, [f \in ev.temp |-> Results.out[f]]),
             reports |-> Results.reports]
    BY <2>2 DEF Apply
  <2> QED BY <2>1, <2>2, <2>3, <2>4 DEF Results
<1>8. stack' = SubSeq(stack, 1, k - 1)
  BY DEF ItemDone
<1>9. Outcome(log[k] \o Seen(input, stack, k).events) = Results'
  BY <1>5, <1>6, <1>7
<1> QED BY <1>1, <1>2, <1>4, <1>8, <1>9, ReturnExplained

-----------------------------------------------------------------------------
(* Each definition without children, in the terms of its meaning. *)
LEMMA LeafExplained ==
    ASSUME MeaningInv, Scalar \/ Sequence \/ Element \/ Choice \/ Fn
    PROVE  Explained(input, stack', Results')
<1> DEFINE d == Def(Child)
           k == d.key
           m == Attr(k)
           sh == Shield(input, stack, Len(stack))
           sub == SubOf(input, Child)
<1>0. ChildLeft
  BY DEF Scalar, Sequence, Element, Choice, Fn
<1>1. /\ ParserInv /\ stack # <<>> /\ d \in Definition /\ d.field \in Field /\ k \in Key
  BY <1>0, ChildFacts DEF MeaningInv, Definition
<1>2. {"NotScalar", "NotSequence", "BadTypeConversion", "InvalidValue", "AttributeMissing"} \subseteq Error
  BY DEF Error
<1>3. Top.node \in DOMAIN input.doc
  BY <1>1, TopFacts DEF Placed
<1>4. CASE Scalar
  <2>1. d.kind = "scalar" /\ (Has(k) => Convert(d, m, "scalar", "NotScalar")) /\ (~ Has(k) => Throw)
    BY <1>4 DEF Scalar
  <2>2. /\ Has(k) => m \in DOMAIN input.doc /\ ChildEffect = OfAttribute(input.doc, d, sub, m, sh)
        /\ ~ Has(k) => ChildEffect = Throws
    BY <1>0, <2>1, AttributeEffect
  <2>3. CASE Has(k)
    <3>1. ChildEffect = Typed(d, Node(m), "scalar", "NotScalar", sh)
      BY <2>1, <2>2, <2>3 DEF OfAttribute, Node
    <3> QED BY <1>0, <1>2, <2>1, <2>2, <2>3, <3>1, ConvertExplained
  <2>4. CASE ~ Has(k)
    BY <1>0, <2>1, <2>2, <2>4, ThrowExplained
  <2> QED BY <2>3, <2>4
<1>5. CASE Sequence
  <2>1. /\ d.kind = "sequence" /\ (Has(k) => Convert(d, m, "sequence", "NotSequence"))
        /\ (~ Has(k) => Throw)
    BY <1>5 DEF Sequence
  <2>2. /\ Has(k) => m \in DOMAIN input.doc /\ ChildEffect = OfAttribute(input.doc, d, sub, m, sh)
        /\ ~ Has(k) => ChildEffect = Throws
    BY <1>0, <2>1, AttributeEffect
  <2>3. CASE Has(k)
    <3>1. ChildEffect = Typed(d, Node(m), "sequence", "NotSequence", sh)
      BY <2>1, <2>2, <2>3 DEF OfAttribute, Node
    <3> QED BY <1>0, <1>2, <2>1, <2>2, <2>3, <3>1, ConvertExplained
  <2>4. CASE ~ Has(k)
    BY <1>0, <2>1, <2>2, <2>4, ThrowExplained
  <2> QED BY <2>3, <2>4
<1>6. CASE Element
  <2>1. d.kind = "element" /\ Convert(d, Top.node, "sequence", "NotSequence")
    BY <1>6 DEF Element
  <2>2. ChildEffect = Typed(d, Node(Top.node), "sequence", "NotSequence", sh)
    BY <2>1 DEF ChildEffect, EffectOf, Node
  <2> QED BY <1>0, <1>2, <1>3, <2>1, <2>2, ConvertExplained
<1>7. CASE Choice
  <2>1. /\ d.kind = "choice"
        /\ \/ ~ Has(k) /\ Throw
           \/ Has(k) /\ Node(m).kind # "scalar" /\ Raise("NotScalar", k)
           \/ /\ Has(k) /\ Node(m).kind = "scalar"
              /\ IF Node(m).value \notin d.converts THEN Raise("BadTypeConversion", k)
                 ELSE IF Node(m).value \notin d.accepts THEN Raise("InvalidValue", k)
                 ELSE Write(d.field, Node(m).value)
    BY <1>7 DEF Choice
  <2>2. /\ Has(k) => m \in DOMAIN input.doc /\ ChildEffect = OfAttribute(input.doc, d, sub, m, sh)
        /\ ~ Has(k) => ChildEffect = Throws
    BY <1>0, <2>1, AttributeEffect
  <2>3. CASE ~ Has(k)
    BY <1>0, <2>1, <2>2, <2>3, ThrowExplained
  <2>4. CASE Has(k)
    <3>1. Node(m).value \in Value
      BY <1>1, <2>4, AttrFacts
    <3>2. ChildEffect = IF Node(m).kind = "scalar" /\ Node(m).value \in d.converts \ d.accepts
                        THEN Fails("InvalidValue", k, sh)
                        ELSE Typed(d, Node(m), "scalar", "NotScalar", sh)
      BY <2>1, <2>2, <2>4 DEF OfAttribute, Node
    <3>3. CASE Node(m).kind # "scalar"
      <4>1. ChildEffect = Fails("NotScalar", k, sh) /\ Raise("NotScalar", k)
        BY <2>1, <2>4, <3>2, <3>3 DEF Typed
      <4> QED BY <1>0, <1>2, <4>1, RaiseExplained
    <3>4. CASE Node(m).kind = "scalar" /\ Node(m).value \notin d.converts
      <4>1. ChildEffect = Fails("BadTypeConversion", k, sh) /\ Raise("BadTypeConversion", k)
        BY <2>1, <2>4, <3>2, <3>4 DEF Typed
      <4> QED BY <1>0, <1>2, <4>1, RaiseExplained
    <3>5. CASE Node(m).kind = "scalar" /\ Node(m).value \in d.converts \ d.accepts
      <4>1. ChildEffect = Fails("InvalidValue", k, sh) /\ Raise("InvalidValue", k)
        BY <2>1, <2>4, <3>2, <3>5
      <4> QED BY <1>0, <1>2, <4>1, RaiseExplained
    <3>6. CASE Node(m).kind = "scalar" /\ Node(m).value \in d.converts /\ Node(m).value \in d.accepts
      <4>1. ChildEffect = Writes(d.field, Node(m).value) /\ Write(d.field, Node(m).value)
        BY <2>1, <2>4, <3>2, <3>6 DEF Typed
      <4> QED BY <1>0, <1>1, <3>1, <4>1, WriteExplained
    <3> QED BY <3>3, <3>4, <3>5, <3>6
  <2> QED BY <2>3, <2>4
<1>8. CASE Fn
  <2>1. /\ d.kind = "fn"
        /\ \/ Node(Top.node).kind = "scalar" /\ Throw
           \/ Node(Top.node).kind # "scalar" /\ ~ Has(k) /\ Raise("AttributeMissing", k)
           \/ /\ Has(k)
              /\ IF Node(m).value \notin d.converts THEN Throw
                 ELSE IF Node(m).value \notin d.accepts THEN Raise("InvalidValue", k)
                 ELSE Write(d.field, Node(m).value)
    BY <1>8 DEF Fn
  <2>2. /\ Has(k) => m \in DOMAIN input.doc /\ ChildEffect = OfAttribute(input.doc, d, sub, m, sh)
        /\ ~ Has(k) /\ Node(Top.node).kind = "scalar" => ChildEffect = Throws
        /\ ~ Has(k) /\ Node(Top.node).kind # "scalar" => ChildEffect = Fails("AttributeMissing", k, sh)
        /\ Has(k) => Node(Top.node).kind # "scalar"
    BY <1>0, <2>1, AttributeEffect DEF Has
  <2>3. CASE ~ Has(k) /\ Node(Top.node).kind = "scalar"
    BY <1>0, <2>1, <2>2, <2>3, ThrowExplained
  <2>4. CASE ~ Has(k) /\ Node(Top.node).kind # "scalar"
    BY <1>0, <1>2, <2>1, <2>2, <2>4, RaiseExplained
  <2>5. CASE Has(k)
    <3>1. Node(m).value \in Value
      BY <1>1, <2>5, AttrFacts
    <3>2. ChildEffect = IF Node(m).value \notin d.converts THEN Throws
                        ELSE IF Node(m).value \in d.accepts THEN Writes(d.field, Node(m).value)
                        ELSE Fails("InvalidValue", k, sh)
      BY <2>1, <2>2, <2>5 DEF OfAttribute, Node
    <3>3. CASE Node(m).value \notin d.converts
      <4>1. ChildEffect = Throws /\ Throw
        BY <2>1, <2>2, <2>5, <3>2, <3>3
      <4> QED BY <1>0, <4>1, ThrowExplained
    <3>4. CASE Node(m).value \in d.converts /\ Node(m).value \notin d.accepts
      <4>1. ChildEffect = Fails("InvalidValue", k, sh) /\ Raise("InvalidValue", k)
        BY <2>1, <2>2, <2>5, <3>2, <3>4
      <4> QED BY <1>0, <1>2, <4>1, RaiseExplained
    <3>5. CASE Node(m).value \in d.converts /\ Node(m).value \in d.accepts
      <4>1. ChildEffect = Writes(d.field, Node(m).value) /\ Write(d.field, Node(m).value)
        BY <2>1, <2>2, <2>5, <3>2, <3>5
      <4> QED BY <1>0, <1>1, <3>1, <4>1, WriteExplained
    <3> QED BY <3>3, <3>4, <3>5
  <2> QED BY <2>3, <2>4, <2>5
<1> QED BY <1>4, <1>5, <1>6, <1>7, <1>8

(* The definitions that run others: the attribute they look up, then the call. *)
LEMMA CallExplained ==
    ASSUME MeaningInv, EnterMap \/ EnterEach \/ EnterWrapper
    PROVE  Explained(input, stack', Results')
<1> DEFINE d == Def(Child)
           k == d.key
           m == Attr(k)
           sh == Shield(input, stack, Len(stack))
           sub == SubOf(input, Child)
<1>0. ChildLeft
  BY DEF EnterMap, EnterEach, EnterWrapper
<1>1. ParserInv /\ stack # <<>>
  BY <1>0, ChildFacts DEF MeaningInv
<1>2. {"NotMap", "NotSequence"} \subseteq Error
  BY DEF Error
<1>3. Top.node \in DOMAIN input.doc
  BY <1>1, TopFacts DEF Placed
<1>4. CASE EnterWrapper
  <2>1. d.kind \in {"one_of", "optional", "attempt"} /\ Enter(Top.node)
    BY <1>4 DEF EnterWrapper
  <2>2. Runs(input, Child, Top.node, Top.node)
    BY <2>1 DEF Runs, Def
  <2> QED BY <1>0, <1>3, <2>1, <2>2, EnterExplained
<1>5. CASE EnterMap
  <2>1. /\ d.kind = "map"
        /\ IF ~ Has(k) THEN Throw
           ELSE IF Node(m).kind # "map" THEN Raise("NotMap", k)
           ELSE Enter(m)
    BY <1>5 DEF EnterMap
  <2>2. /\ Has(k) => m \in DOMAIN input.doc /\ ChildEffect = OfAttribute(input.doc, d, sub, m, sh)
        /\ ~ Has(k) => ChildEffect = Throws
    BY <1>0, <2>1, AttributeEffect
  <2>3. CASE ~ Has(k)
    BY <1>0, <2>1, <2>2, <2>3, ThrowExplained
  <2>4. CASE Has(k) /\ Node(m).kind # "map"
    <3>1. ChildEffect = Fails("NotMap", k, sh) /\ Raise("NotMap", k)
      BY <2>1, <2>2, <2>4 DEF OfAttribute, Node
    <3> QED BY <1>0, <1>2, <3>1, RaiseExplained
  <2>5. CASE Has(k) /\ Node(m).kind = "map"
    <3>1. Runs(input, Child, Top.node, m)
      BY <2>1, <2>5 DEF Runs, Def, Has, Attr, Node
    <3>2. m \in DOMAIN input.doc /\ Enter(m)
      BY <2>1, <2>2, <2>5
    <3> QED BY <1>0, <3>1, <3>2, EnterExplained
  <2> QED BY <2>3, <2>4, <2>5
<1>6. CASE EnterEach
  <2>1. /\ d.kind = "each"
        /\ IF ~ Has(k) THEN Throw
           ELSE IF Node(m).kind # "sequence" THEN Raise("NotSequence", k)
           ELSE Enter(m)
    BY <1>6 DEF EnterEach
  <2>2. /\ Has(k) => m \in DOMAIN input.doc /\ ChildEffect = OfAttribute(input.doc, d, sub, m, sh)
        /\ ~ Has(k) => ChildEffect = Throws
    BY <1>0, <2>1, AttributeEffect
  <2>3. CASE ~ Has(k)
    BY <1>0, <2>1, <2>2, <2>3, ThrowExplained
  <2>4. CASE Has(k) /\ Node(m).kind # "sequence"
    <3>1. ChildEffect = Fails("NotSequence", k, sh) /\ Raise("NotSequence", k)
      BY <2>1, <2>2, <2>4 DEF OfAttribute, Node
    <3> QED BY <1>0, <1>2, <3>1, RaiseExplained
  <2>5. CASE Has(k) /\ Node(m).kind = "sequence"
    <3>1. Runs(input, Child, Top.node, m)
      BY <2>1, <2>5 DEF Runs, Def, Has, Attr, Node
    <3>2. m \in DOMAIN input.doc /\ Enter(m)
      BY <2>1, <2>2, <2>5
    <3> QED BY <1>0, <3>1, <3>2, EnterExplained
  <2> QED BY <2>3, <2>4, <2>5
<1> QED BY <1>4, <1>5, <1>6

-----------------------------------------------------------------------------
(* At the start, the root is running and nothing has been seen. *)
LEMMA InitExplained == Init => MeaningInv
<1> SUFFICES ASSUME Init PROVE MeaningInv
  OBVIOUS
<1> DEFINE f == Closure(1, 1, FALSE)
           s == <<f>>
           log == [j \in 1 .. 2 |-> <<>>]
<1>1. ParserInv /\ stack = s /\ Results = Begin
  BY InitEstablishes DEF Init, Results, Begin
<1>2. InputOK(input)
  BY <1>1, InputIsOK
<1>3. f \in Frame /\ f.def = 1 /\ f.node = 1 /\ f.next = 1 /\ f.ok = FALSE /\ f.item = FALSE
  BY DEF Closure, Frame
<1>4. 1 \in DOMAIN input.grammar /\ 1 \in DOMAIN input.doc
  BY <1>1, <1>3, TopFacts DEF Placed, Top
<1> HIDE DEF f
<1>5. s \in Seq(Frame) /\ Len(s) = 1 /\ s[1] = f
  BY <1>3
<1>6. Sort(input, f) = "parser"
  BY <1>2, <1>3 DEF Sort, InputOK, GrammarOK
<1> HIDE DEF s
<1>7. PartCount(input, f) \in Nat
  <2>1. input.grammar[1] \in Definition
    BY <1>2, <1>4, SubOfOK
  <2> QED BY <1>3, <1>6, <2>1 DEF PartCount, Definition
<1>8. Nested(input, s)
  BY <1>3, <1>4, <1>5, <1>7 DEF Nested, FramesOK
<1>9. Flags(input, s)
  BY <1>5, <1>6 DEF Flags
<1>10. Logged(input, s, log)
  <2>1. Done(s, 1) = 0
    BY <1>3, <1>5 DEF Done
  <2>2. Parts(input, s, 1) \in [1 .. PartCount(input, f) -> Effect]
    BY <1>2, <1>5, <1>8, NestedFacts
  <2>3. EventsOf(Parts(input, s, 1))[0] = <<>>
    BY <1>7, <2>2, EventsOfStep
  <2>4. log[1] = <<>> /\ log[2] = <<>> /\ <<>> \o <<>> = <<>> /\ log \in [1 .. 2 -> Seq(Event)]
    OBVIOUS
  <2> HIDE DEF log
  <2>5. \A i \in 1 .. Len(s) : i = 1
    BY <1>5
  <2>6. log[1 + 1] = log[1] \o EventsOf(Parts(input, s, 1))[Done(s, 1)]
    BY <2>1, <2>3, <2>4
  <2> QED BY <1>5, <2>4, <2>5, <2>6 DEF Logged
<1>11. Outcome(log[Len(s) + 1]) = Results
  BY <1>1, <1>5, OutcomeEmpty
<1> HIDE DEF log
<1>12. Explained(input, s, Results)
  BY <1>8, <1>9, <1>10, <1>11 DEF Explained, Good
<1>13. stack # <<>>
  BY <1>1, <1>5
<1> QED BY <1>1, <1>12, <1>13 DEF MeaningInv, ParseMatchesMeaning

(* What explains a parse under way says that it is not over. *)
LEMMA ExplainedRuns ==
    ASSUME NEW in, InputOK(in), NEW s, NEW st, Explained(in, s, st)
    PROVE  s # <<>>
<1>1. PICK log : Good(in, s, log)
  BY DEF Explained
<1>2. Len(s) \in Nat \ {0}
  BY <1>1, NestedFacts DEF Good
<1> QED BY <1>2

(* Every step of a parse adds the effect of what ends with it. *)
LEMMA MeaningStays == MeaningInv /\ [Next]_vars => MeaningInv'
<1> SUFFICES ASSUME MeaningInv, [Next]_vars PROVE MeaningInv'
  OBVIOUS
<1>1. ParserInv'
  BY ParserStep DEF MeaningInv
<1>2. CASE Next
  <2>1. input' = input
    BY <1>2 DEF Next, Scalar, Sequence, Element, Choice, Fn, Convert, EnterMap, EnterEach, EnterWrapper,
                Enter, NextItem, ItemDone, Return, Throw, Raise, Write
  <2>2. /\ stack' # <<>> => Explained(input, stack', Results')
        /\ stack' = <<>> => Outcome(Meaning(input)[1][1][{}].events) = Results'
    <3>0. InputOK(input)
      BY InputIsOK DEF MeaningInv
    <3>1. CASE Scalar \/ Sequence \/ Element \/ Choice \/ Fn
      <4>1. Explained(input, stack', Results')
        BY <3>1, LeafExplained
      <4> QED BY <3>0, <4>1, ExplainedRuns
    <3>2. CASE EnterMap \/ EnterEach \/ EnterWrapper
      <4>1. Explained(input, stack', Results')
        BY <3>2, CallExplained
      <4> QED BY <3>0, <4>1, ExplainedRuns
    <3>3. CASE NextItem
      <4>1. Explained(input, stack', Results')
        BY <3>3, NextItemExplained
      <4> QED BY <3>0, <4>1, ExplainedRuns
    <3>4. CASE ItemDone
      BY <3>4, ItemReturns
    <3>5. CASE Return
      BY <3>5, ClosureReturns
    <3> QED BY <1>2, <3>1, <3>2, <3>3, <3>4, <3>5 DEF Next
  <2>3. ParseMatchesMeaning'
    BY <2>1, <2>2 DEF ParseMatchesMeaning, Results
  <2>4. (stack # <<>> => Explained(input, stack, Results))'
    BY <2>1, <2>2
  <2> QED BY <1>1, <2>3, <2>4 DEF MeaningInv
<1>3. CASE UNCHANGED vars
  <2>1. input' = input /\ stack' = stack /\ out' = out /\ list' = list /\ reports' = reports
    BY <1>3 DEF vars
  <2>2. Results' = Results
    BY <2>1 DEF Results
  <2> QED BY <1>1, <2>1, <2>2 DEF MeaningInv, ParseMatchesMeaning
<1> QED BY <1>2, <1>3

(* Whatever the grammar and the document, a finished parse has written, pushed *)
(* and reported exactly what the grammar means on the document, in order.      *)
THEOREM ParseMatchesItsMeaning == Spec => []ParseMatchesMeaning
<1>1. MeaningInv => ParseMatchesMeaning
  BY DEF MeaningInv
<1> QED BY <1>1, InitExplained, MeaningStays, PTL DEF Spec

-----------------------------------------------------------------------------
(* The closures that run at once are at most two for each definition: one, or *)
(* an each and the parse of its item.  The nesting of the document does not   *)
(* matter.                                                                    *)
DepthBound == Len(stack) <= 2 * Len(input.grammar)

(* A frame's place on the stack is bounded by its definition's in the grammar. *)
Placing(s, i) == i <= 2 * s[i].def - (IF s[i].item THEN 0 ELSE 1)

(* Each call goes to a later definition, or from an each to its item. *)
LEMMA NestedPlacing ==
    ASSUME NEW in, InputOK(in), NEW s, Nested(in, s), NEW i \in 1 .. Len(s)
    PROVE  Placing(s, i)
<1> DEFINE n == Len(s)
           S == {j \in 0 .. n - 1 : Placing(s, j + 1)}
<1>1. /\ n \in Nat \ {0} /\ s \in Seq(Frame) /\ \A j \in 1 .. n : s[j] \in Frame
  BY NestedFacts
<1>2. 0 \in S
  <2>1. s[1].def = 1 /\ s[1].item = FALSE
    BY <1>1 DEF Nested, Frame
  <2> QED BY <1>1, <2>1 DEF Placing
<1>3. ASSUME NEW j \in 0 .. n - 1, j < n - 1, j \in S PROVE j + 1 \in S
  <2> DEFINE p == s[j + 1]
             f == s[j + 2]
  <2>1. j + 1 \in 1 .. n /\ j + 2 \in 2 .. n /\ j + 2 \in 1 .. n /\ (j + 2) - 1 = j + 1 /\ j \in Nat
    BY <1>1, <1>3
  <2>2. p \in Frame /\ f \in Frame /\ Calls(in, p, f)
    BY <1>1, <2>1 DEF Nested
  <2>3. j + 1 <= 2 * p.def - (IF p.item THEN 0 ELSE 1)
    BY <1>3 DEF Placing
  <2>4. p.def \in DOMAIN in.grammar
    BY <2>1 DEF Nested, FramesOK
  <2> HIDE DEF p, f
  <2>5. j + 2 <= 2 * f.def - (IF f.item THEN 0 ELSE 1)
    <3>1. p.def \in Nat /\ f.def \in Nat
      BY <2>2 DEF Frame
    <3>2. CASE f.item
      <4>1. f.def = p.def /\ ~ p.item
        BY <2>2, <3>2 DEF Calls, Sort
      <4> QED BY <2>1, <2>3, <3>1, <3>2, <4>1
    <3>3. CASE ~ f.item
      <4> DEFINE ch == in.grammar[p.def].children
                 m == p.next - 1
      <4>1. f.def = ch[m] /\ m \in 1 .. Len(ch)
        BY <2>2, <3>3 DEF Calls, PartCount
      <4>2. ch \in Seq(Nat \ {0})
        <5>1. in.grammar[p.def] \in Definition
          BY <2>4, SubOfOK
        <5> QED BY <5>1 DEF Definition
      <4>3. m \in DOMAIN ch
        BY <4>1, <4>2, LenProperties
      <4>4. f.def \in p.def + 1 .. Len(in.grammar)
        BY <2>4, <4>1, <4>3, SubOfOK
      <4>5. f.def >= p.def + 1
        BY <3>1, <4>4
      <4> QED BY <2>1, <2>3, <3>1, <3>3, <4>5
    <3> QED BY <3>2, <3>3
  <2>6. (j + 1) + 1 = j + 2 /\ j + 1 \in 0 .. n - 1
    BY <1>1, <1>3, <2>1
  <2> QED BY <2>5, <2>6 DEF Placing, f
<1>4. n - 1 \in Nat /\ i - 1 \in 0 .. n - 1 /\ (i - 1) + 1 = i
  BY <1>1
<1> HIDE DEF S, n
<1>5. i - 1 \in S
  BY <1>2, <1>3, <1>4, Reaches
<1> QED BY <1>4, <1>5 DEF S

(* Whatever the document, the closures of Config.h recurse no deeper than twice *)
(* the size of the grammar.                                                    *)
THEOREM RecursionIsBounded == Spec => []DepthBound
<1>1. MeaningInv => DepthBound
  <2> SUFFICES ASSUME MeaningInv PROVE DepthBound
    OBVIOUS
  <2>1. InputOK(input) /\ Len(input.grammar) \in Nat
    BY InputIsOK, InputFacts DEF MeaningInv
  <2>2. CASE stack = <<>>
    BY <2>1, <2>2 DEF DepthBound
  <2>3. CASE stack # <<>>
    <3>1. Nested(input, stack)
      BY <2>3 DEF MeaningInv, Explained, Good
    <3>2. Len(stack) \in Nat \ {0} /\ Len(stack) \in 1 .. Len(stack)
      BY <2>1, <3>1, NestedFacts
    <3>3. Placing(stack, Len(stack))
      BY <2>1, <3>1, <3>2, NestedPlacing
    <3>4. Top.def \in 1 .. Len(input.grammar)
      BY <2>3, TopFacts, InputFacts DEF MeaningInv, Placed
    <3> QED BY <2>1, <3>2, <3>3, <3>4 DEF Placing, DepthBound, Top
  <2> QED BY <2>2, <2>3
<1> QED BY <1>1, InitExplained, MeaningStays, PTL DEF Spec

-----------------------------------------------------------------------------
(* A step that leaves the outer frames as they are, and either ends frame i and *)
(* all within it, or takes frame i, the innermost, to its next child, which it  *)
(* may call.                                                                    *)
Outer(s, t, i) == \A j \in 1 .. i - 1 : Alike(s[j], t[j]) /\ t[j].next = s[j].next
Moves(s, t, i) ==
    /\ Outer(s, t, i)
    /\ \/ Len(t) = i - 1
       \/ /\ i = Len(s) /\ Len(t) \in i .. i + 1
          /\ Alike(s[i], t[i]) /\ t[i].next = s[i].next + 1
          /\ Len(t) = i + 1 => t[i + 1].next = 1
MovesOn == \E i \in 1 .. Len(stack) : Moves(stack, stack', i)

(* An error is stopped: the running closure still goes on. *)
LEMMA StopMoves ==
    ASSUME ParserInv, stack # <<>>, NEW i \in DOMAIN stack, stack' = [Advanced EXCEPT ![i].ok = FALSE]
    PROVE  MovesOn
<1> DEFINE k == Len(stack)
           a == Advanced
           g == [a[i] EXCEPT !.ok = FALSE]
           t == [a EXCEPT ![i] = g]
<1>1. /\ a \in Seq(Frame) /\ Len(a) = k /\ k \in Nat \ {0} /\ k \in 1 .. k /\ AlikeUpto(stack, a, k)
      /\ \A j \in 1 .. k - 1 : a[j] = stack[j]
      /\ a[k].next = stack[k].next + 1
  BY AdvancedIs
<1>2. stack' = t /\ i \in 1 .. k
  BY TopFacts
<1> HIDE DEF a
<1>3. a[i] \in Frame
  BY <1>1, <1>2
<1>4. /\ g \in Frame /\ g.next = a[i].next
      /\ g.def = a[i].def /\ g.node = a[i].node /\ g.item = a[i].item
  BY <1>3 DEF Frame
<1> HIDE DEF g, k
<1>5. t \in Seq(Frame) /\ Len(t) = k /\ \A j \in 1 .. k : t[j] = IF j = i THEN g ELSE a[j]
  BY <1>1, <1>2, <1>4, ExceptSeq
<1> HIDE DEF t
<1>6. \A j \in 1 .. k : t[j].next = a[j].next /\ Alike(stack[j], t[j])
  BY <1>1, <1>4, <1>5 DEF AlikeUpto, Alike
<1>7. \A j \in 1 .. k - 1 : j \in 1 .. k
  BY <1>1
<1>8. Outer(stack, t, k)
  BY <1>1, <1>6, <1>7 DEF Outer
<1>9. Len(t) \in k .. k + 1 /\ Len(t) # k + 1
  BY <1>1, <1>5
<1>10. Moves(stack, t, k)
  BY <1>1, <1>6, <1>8, <1>9 DEF Moves, k
<1> QED BY <1>1, <1>2, <1>10 DEF MovesOn, k

(* The running closure goes on to its next child. *)
LEMMA AdvancedMoves ==
    ASSUME ParserInv, stack # <<>>, stack' = Advanced
    PROVE  MovesOn
<1> DEFINE k == Len(stack)
           t == Advanced
<1>1. /\ Len(t) = k /\ k \in Nat \ {0} /\ k \in 1 .. k /\ AlikeUpto(stack, t, k)
      /\ \A j \in 1 .. k - 1 : t[j] = stack[j]
      /\ t[k].next = stack[k].next + 1
  BY AdvancedIs
<1>2. stack' = t
  OBVIOUS
<1> HIDE DEF k, t
<1>3. \A j \in 1 .. k - 1 : j \in 1 .. k
  BY <1>1
<1>4. Outer(stack, t, k)
  BY <1>1, <1>3 DEF Outer, AlikeUpto
<1>5. Len(t) \in k .. k + 1 /\ Len(t) # k + 1 /\ Alike(stack[k], t[k])
  BY <1>1 DEF AlikeUpto
<1>6. Moves(stack, t, k)
  BY <1>1, <1>4, <1>5 DEF Moves, k
<1> QED BY <1>1, <1>2, <1>6 DEF MovesOn, k

(* The running closure calls another. *)
LEMMA CallMoves ==
    ASSUME ParserInv, stack # <<>>, NEW d, NEW n, NEW b,
           d \in Nat \ {0}, n \in Nat \ {0}, b \in BOOLEAN,
           stack' = Append(Advanced, Closure(d, n, b))
    PROVE  MovesOn
<1> DEFINE k == Len(stack)
           a == Advanced
           f == Closure(d, n, b)
           t == Append(a, f)
<1>1. /\ a \in Seq(Frame) /\ Len(a) = k /\ k \in Nat \ {0} /\ k \in 1 .. k /\ AlikeUpto(stack, a, k)
      /\ \A j \in 1 .. k - 1 : a[j] = stack[j]
      /\ a[k].next = stack[k].next + 1
  BY AdvancedIs
<1>2. f \in Frame /\ f.next = 1
  BY DEF Closure, Frame
<1>3. stack' = t
  OBVIOUS
<1> HIDE DEF k, a, f
<1>4. Len(t) = k + 1 /\ t[k + 1] = f /\ \A j \in 1 .. k : t[j] = a[j]
  BY <1>1, <1>2, AppendProperties
<1> HIDE DEF t
<1>5. \A j \in 1 .. k - 1 : j \in 1 .. k
  BY <1>1
<1>6. Outer(stack, t, k)
  BY <1>1, <1>4, <1>5 DEF Outer, AlikeUpto
<1>7. Len(t) \in k .. k + 1 /\ Alike(stack[k], t[k]) /\ t[k].next = stack[k].next + 1
  BY <1>1, <1>4 DEF AlikeUpto
<1>8. Moves(stack, t, k)
  BY <1>2, <1>4, <1>6, <1>7 DEF Moves, k
<1> QED BY <1>1, <1>3, <1>8 DEF MovesOn, k

(* What is left of the stack when the frames from i on end. *)
LEMMA CutMoves ==
    ASSUME ParserInv, stack # <<>>, NEW i \in 1 .. Len(stack), stack' = SubSeq(stack, 1, i - 1)
    PROVE  MovesOn
<1> DEFINE t == SubSeq(stack, 1, i - 1)
           k == Len(stack)
<1>1. stack \in Seq(Frame) /\ k \in Nat \ {0} /\ i \in 1 .. k
  BY TopFacts DEF Framed
<1>2. i - 1 \in 0 .. k
  BY <1>1
<1>3. Len(t) = i - 1 /\ \A j \in 1 .. i - 1 : t[j] = stack[j]
  BY <1>1, <1>2
<1>4. stack' = t
  OBVIOUS
<1> HIDE DEF t
<1>5. Outer(stack, t, i)
  BY <1>3 DEF Outer, Alike
<1>6. Moves(stack, t, i)
  BY <1>3, <1>5 DEF Moves
<1> QED BY <1>4, <1>6 DEF MovesOn

(* An exception ends what it leaves; what catches it goes on. *)
LEMMA ThrowMoves ==
    ASSUME ParserInv, stack # <<>>, Throw
    PROVE  MovesOn
<1> DEFINE k == Len(stack)
           a == Advanced
<1>1. PICK i \in DOMAIN stack : stack' = SubSeq(a, 1, i)
  BY DEF Throw
<1>2. /\ a \in Seq(Frame) /\ Len(a) = k /\ k \in Nat \ {0}
      /\ \A j \in 1 .. k - 1 : a[j] = stack[j]
  BY AdvancedIs
<1>3. stack \in Seq(Frame) /\ i \in 1 .. k /\ k = Len(stack)
  BY TopFacts DEF Framed
<1> HIDE DEF k
<1>4. CASE i = k
  <2>1. stack' = Advanced
    <3> HIDE DEF a
    <3>1. SubSeq(a, 1, k) = a
      BY <1>2
    <3>2. stack' = a
      BY <1>1, <1>4, <3>1
    <3> QED BY <3>2 DEF a
  <2> QED BY <2>1, AdvancedMoves
<1>5. CASE i # k
  <2> HIDE DEF a
  <2>1. i \in 1 .. k - 1 /\ \A j \in 1 .. i : a[j] = stack[j]
    BY <1>2, <1>3, <1>5
  <2>2. /\ SubSeq(a, 1, i) = [j \in 1 .. i |-> a[j]]
        /\ SubSeq(stack, 1, i) = [j \in 1 .. i |-> stack[j]]
    BY <1>2, <1>3, <2>1
  <2>3. SubSeq(a, 1, i) = SubSeq(stack, 1, i)
    BY <2>1, <2>2
  <2> DEFINE m == i + 1
  <2>4. m - 1 = i /\ m \in 1 .. Len(stack)
    BY <1>2, <1>3, <2>1
  <2> HIDE DEF m
  <2>5. stack' = SubSeq(stack, 1, m - 1)
    BY <1>1, <2>3, <2>4
  <2> QED BY <2>4, <2>5, CutMoves
<1> QED BY <1>4, <1>5

(* An error, reported or stopped. *)
LEMMA RaiseMoves ==
    ASSUME ParserInv, stack # <<>>, NEW err, NEW k, Raise(err, k)
    PROVE  MovesOn
<1>1. CASE stack' = Advanced
  BY <1>1, AdvancedMoves
<1>2. CASE \E i \in DOMAIN stack : stack' = [Advanced EXCEPT ![i].ok = FALSE]
  BY <1>2, StopMoves
<1> QED BY <1>1, <1>2 DEF Raise, Report

(* A conversion, with either result. *)
LEMMA ConvertMoves ==
    ASSUME ParserInv, stack # <<>>, NEW d, NEW n, NEW kind, NEW err, Convert(d, n, kind, err)
    PROVE  MovesOn
<1>1. CASE \E x, y : Raise(x, y)
  BY <1>1, RaiseMoves
<1>2. CASE \E x, y : Write(x, y)
  BY <1>2, AdvancedMoves DEF Write
<1> QED BY <1>1, <1>2 DEF Convert

(* No step of a parse goes back: a child or an item that has been run is never *)
(* run again by the closure that ran it, and a step either ends a closure or   *)
(* takes the running one forward.  Retrying a failed child is not such a step. *)
THEOREM EveryStepMovesOn == Spec => [][MovesOn]_vars
<1>1. ParserInv /\ [Next]_vars => [MovesOn]_vars
  <2> SUFFICES ASSUME ParserInv, Next PROVE MovesOn
    OBVIOUS
  <2>1. stack # <<>>
    BY DEF Next, Scalar, Sequence, Element, Choice, Fn, EnterMap, EnterEach, EnterWrapper,
           NextItem, ItemDone, Return, ChildLeft, Running
  <2>2. CASE Throw \/ \E x, y : Raise(x, y)
    BY <2>1, <2>2, ThrowMoves, RaiseMoves
  <2>3. CASE \E x, y : Write(x, y)
    BY <2>1, <2>3, AdvancedMoves DEF Write
  <2>4. CASE \E d, n, kind, err : Convert(d, n, kind, err)
    BY <2>1, <2>4, ConvertMoves
  <2>5. ASSUME ChildLeft, NEW n, n \in DOMAIN input.doc, Enter(n) PROVE MovesOn
    <3>1. Child \in Nat \ {0} /\ n \in Nat \ {0}
      BY <2>5, ChildFacts, InputFacts DEF DocumentOK
    <3>2. stack' = Append(Advanced, Closure(Child, n, FALSE)) /\ FALSE \in BOOLEAN
      BY <2>5 DEF Enter
    <3> QED BY <2>1, <3>1, <3>2, CallMoves
  <2>6. CASE Scalar \/ Sequence \/ Element
    BY <2>2, <2>4, <2>6 DEF Scalar, Sequence, Element
  <2>7. CASE Choice \/ Fn
    BY <2>2, <2>3, <2>7 DEF Choice, Fn
  <2>8. CASE EnterMap \/ EnterEach
    <3> DEFINE m == Attr(Def(Child).key)
    <3>1. ChildLeft /\ (Throw \/ (\E x, y : Raise(x, y)) \/ (Has(Def(Child).key) /\ Enter(m)))
      BY <2>8 DEF EnterMap, EnterEach
    <3>2. CASE Has(Def(Child).key) /\ Enter(m)
      <4>1. m \in DOMAIN input.doc
        BY <2>1, <3>2, AttrFacts
      <4> QED BY <2>5, <3>1, <3>2, <4>1
    <3> QED BY <2>2, <3>1, <3>2
  <2>9. CASE EnterWrapper
    <3>1. Top.node \in DOMAIN input.doc
      BY <2>1, TopFacts DEF Placed
    <3> QED BY <2>5, <2>9, <3>1 DEF EnterWrapper
  <2>10. CASE NextItem
    <3> DEFINE n == Node(Top.node).items[Top.next]
    <3>1. Top \in Frame /\ Top.node \in DOMAIN input.doc /\ DocumentOK(input.doc)
      BY <2>1, TopFacts, InputFacts DEF Placed
    <3>2. Top.next \in Nat \ {0} /\ Top.def \in Nat \ {0} /\ Top.next <= Len(Node(Top.node).items)
      BY <2>10, <3>1 DEF Frame, NextItem
    <3>3. Top.next \in DOMAIN Node(Top.node).items
      BY <3>1, <3>2 DEF DocumentOK, Node
    <3>4. n \in Top.node + 1 .. Len(input.doc) /\ Top.node \in Nat /\ Len(input.doc) \in Nat
      BY <3>1, <3>3 DEF DocumentOK, Node, Frame
    <3>5. n \in Nat \ {0}
      BY <3>4
    <3>6. stack' = Append(Advanced, Closure(Top.def, n, TRUE)) /\ TRUE \in BOOLEAN
      BY <2>10 DEF NextItem
    <3> HIDE DEF n
    <3> QED BY <2>1, <3>2, <3>5, <3>6, CallMoves
  <2>11. CASE ItemDone \/ Return
    <3>1. stack' = SubSeq(stack, 1, Len(stack) - 1)
      BY <2>11 DEF ItemDone, Return
    <3>2. Len(stack) \in 1 .. Len(stack)
      BY <2>1, TopFacts
    <3> QED BY <2>1, <3>1, <3>2, CutMoves
  <2> QED BY <2>6, <2>7, <2>8, <2>9, <2>10, <2>11 DEF Next
<1> QED BY <1>1, ParserInvariant, PTL DEF Spec
=============================================================================
