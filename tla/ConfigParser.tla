---------------------------- MODULE ConfigParser ----------------------------
(***************************************************************************)
(* The YAML configuration parser (include/util/Config.h).  A grammar is a  *)
(* tree of definitions, each a closure made by map, sequence, scalar and   *)
(* so on; running it on a document writes output references, passes errors *)
(* to an error callback, and throws.  Nested definitions wrap the error    *)
(* callback (one_of, optional, attempt) and catch exceptions (all but      *)
(* one_of).                                                                *)
(*                                                                         *)
(* The model is the call stack of a parse.  Grammars and documents are     *)
(* trees in a sequence, root first.  Reading a missing attribute gives a   *)
(* YAML node on which every type test throws (yaml-cpp's zombie node).     *)
(***************************************************************************)
EXTENDS Naturals, Sequences

CONSTANTS Key,        \* attribute names
          Value,      \* scalars, and sequences of scalars
          Field,      \* what the output references refer to
          Unset,      \* a field the parse has not written
          Inputs      \* the grammars and documents to run: [grammar, doc]

Combinator == {"parser", "map", "each", "one_of", "optional", "attempt"}
Leaf == {"scalar", "sequence", "element", "choice", "fn"}

(* converts: the values that node.as<T>() accepts; accepts: the keys of a    *)
(* choice, or what a callback takes.  Each pushes its temp fields on a list. *)
Definition ==
    [kind     : Combinator \cup Leaf,
     key      : Key,
     children : Seq(Nat \ {0}),
     field    : Field,
     temp     : SUBSET Field,
     converts : SUBSET Value,
     accepts  : SUBSET Value]

NodeKind == {"scalar", "sequence", "map", "null"}

Error == {"NotScalar", "NotSequence", "NotMap", "BadTypeConversion",
          "AttributeMissing", "InvalidValue"}

(* The errors that make one_of try its next definition (line 164). *)
TypeError == {"NotScalar", "NotSequence", "NotMap", "BadTypeConversion"}

(* Children name later definitions and nodes: both are trees. *)
GrammarOK(g) ==
    /\ g \in Seq(Definition) /\ Len(g) > 0 /\ g[1].kind = "parser"
    /\ \A d \in DOMAIN g : \A i \in DOMAIN g[d].children :
          g[d].children[i] \in d + 1 .. Len(g)

DocumentOK(doc) ==
    /\ Len(doc) \in Nat \ {0} /\ DOMAIN doc = 1 .. Len(doc)
    /\ \A n \in DOMAIN doc :
          /\ doc[n].kind \in NodeKind /\ doc[n].value \in Value
          /\ DOMAIN doc[n].entries \subseteq Key
          /\ \A k \in DOMAIN doc[n].entries : doc[n].entries[k] \in n + 1 .. Len(doc)
          /\ Len(doc[n].items) \in Nat /\ DOMAIN doc[n].items = 1 .. Len(doc[n].items)
          /\ \A i \in DOMAIN doc[n].items : doc[n].items[i] \in n + 1 .. Len(doc)

ASSUME InputsAssumption ==
    /\ Unset \notin Value
    /\ \A in \in Inputs : GrammarOK(in.grammar) /\ DocumentOK(in.doc)

VARIABLES
    input,     \* the grammar and the document
    stack,     \* the closures that are running, outermost first
    out,       \* the output references
    list,      \* the elements pushed by each
    reports    \* what reached the callback given to make_parser

vars == <<input, stack, out, list, reports>>

(* next: the child, or the sequence item, to run next; ok: one_of's success; *)
(* item: this is the parse of one item of an each.                           *)
Frame == [def : Nat \ {0}, node : Nat \ {0}, next : Nat \ {0},
          ok : BOOLEAN, item : BOOLEAN]

(* Variant: children are counted from zero. *)
ClosureFromZero(d, n, item) ==
    [def |-> d, node |-> n, next |-> 0, ok |-> FALSE, item |-> item]

Closure(d, n, item) == [def |-> d, node |-> n, next |-> 1, ok |-> FALSE, item |-> item]

Init ==
    /\ input \in Inputs
    /\ stack = <<Closure(1, 1, FALSE)>>
    /\ out = [f \in Field |-> Unset]
    /\ list = <<>>
    /\ reports = <<>>

-----------------------------------------------------------------------------
Def(d)  == input.grammar[d]
Node(n) == input.doc[n]
Top     == stack[Len(stack)]
Kind(f) == IF f.item THEN "parser" ELSE Def(f.def).kind

(* The running closure has a child left to run.  An item, like a map, runs  *)
(* its children with make_parser's loop.                                    *)
Running(kinds) == stack # <<>> /\ Kind(Top) \in kinds
ChildLeft ==
    /\ Running(Combinator \ {"each"})
    /\ Top.next <= Len(Def(Top.def).children)
    /\ ~ (Kind(Top) = "one_of" /\ Top.ok)
Child == Def(Top.def).children[Top.next]

(* The running closure goes on to its next child; one_of assumes success     *)
(* (line 175).                                                               *)
Advanced == [stack EXCEPT ![Len(stack)].next = @ + 1, ![Len(stack)].ok = TRUE]

(* input[name]: only a map has attributes; a scalar throws at once. *)
Has(k)  == Node(Top.node).kind = "map" /\ k \in DOMAIN Node(Top.node).entries
Attr(k) == Node(Top.node).entries[k]

(* An exception ends every closure up to the innermost that catches it. *)
Catches(f) == Kind(f) # "one_of"
Throw ==
    /\ \E i \in DOMAIN stack :
          /\ Catches(stack[i])
          /\ \A j \in DOMAIN stack : Catches(stack[j]) => j <= i
          /\ stack' = SubSeq(Advanced, 1, i)
    /\ UNCHANGED <<input, out, list, reports>>

(* An error goes to the innermost callback that does not pass it on: one_of  *)
(* notes that its definition failed, optional and attempt drop the error.    *)
Stops(f, err) ==
    \/ Kind(f) = "one_of" /\ err \in TypeError
    \/ Kind(f) = "optional" /\ err = "AttributeMissing"
    \/ Kind(f) = "attempt"

Report(err, k) ==
    /\ \A i \in DOMAIN stack : ~ Stops(stack[i], err)
    /\ stack' = Advanced
    /\ reports' = Append(reports, <<err, k>>)

(* Variant: an error that a callback stops runs the same child again. *)
RaiseRetry(err, k) ==
    /\ \/ Report(err, k)
       \/ /\ \E i \in DOMAIN stack : Stops(stack[i], err)
          /\ UNCHANGED <<stack, reports>>
    /\ UNCHANGED <<input, out, list>>

Raise(err, k) ==
    /\ \/ Report(err, k)
       \/ /\ \E i \in DOMAIN stack :
                /\ Stops(stack[i], err)
                /\ \A j \in DOMAIN stack : Stops(stack[j], err) => j <= i
                /\ stack' = [Advanced EXCEPT ![i].ok = FALSE]
          /\ UNCHANGED reports
    /\ UNCHANGED <<input, out, list>>

Write(f, v) ==
    /\ out' = [out EXCEPT ![f] = v]
    /\ stack' = Advanced
    /\ UNCHANGED <<input, list, reports>>

-----------------------------------------------------------------------------
(* Leaves.  Convert: node.as<T>() in a try block, after the type test. *)
Convert(d, n, kind, err) ==
    \/ /\ Node(n).kind # kind
       /\ Raise(err, d.key)
    \/ /\ Node(n).kind = kind
       /\ Node(n).value \notin d.converts
       /\ Raise("BadTypeConversion", d.key)
    \/ /\ Node(n).kind = kind
       /\ Node(n).value \in d.converts
       /\ Write(d.field, Node(n).value)

(* scalar, lines 304-318. *)
Scalar ==
    /\ ChildLeft /\ Def(Child).kind = "scalar"
    /\ LET d == Def(Child)
       IN  IF Has(d.key) THEN Convert(d, Attr(d.key), "scalar", "NotScalar") ELSE Throw

(* sequence with a name and an output, lines 336-350. *)
Sequence ==
    /\ ChildLeft /\ Def(Child).kind = "sequence"
    /\ LET d == Def(Child)
       IN  IF Has(d.key) THEN Convert(d, Attr(d.key), "sequence", "NotSequence") ELSE Throw

(* sequence without a name, lines 376-389. *)
Element ==
    /\ ChildLeft /\ Def(Child).kind = "element"
    /\ Convert(Def(Child), Top.node, "sequence", "NotSequence")

(* Variant: a value that is no option is stored all the same. *)
ChoiceOfAny ==
    /\ ChildLeft /\ Def(Child).kind = "choice"
    /\ LET d == Def(Child)
       IN  IF Has(d.key) THEN Convert(d, Attr(d.key), "scalar", "NotScalar") ELSE Throw

(* choice, lines 203-223. *)
Choice ==
    /\ ChildLeft /\ Def(Child).kind = "choice"
    /\ LET d == Def(Child)
           n == Attr(d.key)
       IN  \/ ~ Has(d.key) /\ Throw
           \/ Has(d.key) /\ Node(n).kind # "scalar" /\ Raise("NotScalar", d.key)
           \/ /\ Has(d.key) /\ Node(n).kind = "scalar"
              /\ IF Node(n).value \notin d.converts THEN Raise("BadTypeConversion", d.key)
                 ELSE IF Node(n).value \notin d.accepts THEN Raise("InvalidValue", d.key)
                 ELSE Write(d.field, Node(n).value)

(* fn, lines 127-139: the only definition that tests for a missing attribute. *)
(* The callback throws on what it cannot convert.                             *)
Fn ==
    /\ ChildLeft /\ Def(Child).kind = "fn"
    /\ LET d == Def(Child)
           n == Attr(d.key)
       IN  \/ Node(Top.node).kind = "scalar" /\ Throw
           \/ /\ Node(Top.node).kind # "scalar" /\ ~ Has(d.key)
              /\ Raise("AttributeMissing", d.key)
           \/ /\ Has(d.key)
              /\ IF Node(n).value \notin d.converts THEN Throw
                 ELSE IF Node(n).value \notin d.accepts THEN Raise("InvalidValue", d.key)
                 ELSE Write(d.field, Node(n).value)

-----------------------------------------------------------------------------
(* Definitions that run others. *)
Enter(n) ==
    /\ stack' = Append(Advanced, Closure(Child, n, FALSE))
    /\ UNCHANGED <<input, out, list, reports>>

(* map, lines 453-468. *)
EnterMap ==
    /\ ChildLeft /\ Def(Child).kind = "map"
    /\ LET k == Def(Child).key
       IN  IF ~ Has(k) THEN Throw
           ELSE IF Node(Attr(k)).kind # "map" THEN Raise("NotMap", k)
           ELSE Enter(Attr(k))

(* sequence with nested definitions, lines 417-436. *)
EnterEach ==
    /\ ChildLeft /\ Def(Child).kind = "each"
    /\ LET k == Def(Child).key
       IN  IF ~ Has(k) THEN Throw
           ELSE IF Node(Attr(k)).kind # "sequence" THEN Raise("NotSequence", k)
           ELSE Enter(Attr(k))

(* one_of, optional and attempt run their children on the same node. *)
EnterWrapper ==
    /\ ChildLeft /\ Def(Child).kind \in {"one_of", "optional", "attempt"}
    /\ Enter(Top.node)

NextItem ==
    /\ Running({"each"})
    /\ Top.next <= Len(Node(Top.node).items)
    /\ stack' = Append(Advanced, Closure(Top.def, Node(Top.node).items[Top.next], TRUE))
    /\ UNCHANGED <<input, out, list, reports>>

(* Variant: temp is not reset. *)
ItemDoneKeeping ==
    /\ Running({"parser"}) /\ Top.item /\ ~ ChildLeft
    /\ list' = Append(list, [f \in Def(Top.def).temp |-> out[f]])
    /\ stack' = SubSeq(stack, 1, Len(stack) - 1)
    /\ UNCHANGED <<input, out, reports>>

(* Lines 426-427: output.push_back(temp); temp = {}. *)
ItemDone ==
    /\ Running({"parser"}) /\ Top.item /\ ~ ChildLeft
    /\ LET temp == Def(Top.def).temp
       IN  /\ list' = Append(list, [f \in temp |-> out[f]])
           /\ out' = [f \in Field |-> IF f \in temp THEN Unset ELSE out[f]]
    /\ stack' = SubSeq(stack, 1, Len(stack) - 1)
    /\ UNCHANGED <<input, reports>>

Return ==
    /\ \/ Running(Combinator \ {"each"}) /\ ~ Top.item /\ ~ ChildLeft
       \/ Running({"each"}) /\ Top.next > Len(Node(Top.node).items)
    /\ stack' = SubSeq(stack, 1, Len(stack) - 1)
    /\ UNCHANGED <<input, out, list, reports>>

Next == \/ Scalar \/ Sequence \/ Element \/ Choice \/ Fn
        \/ EnterMap \/ EnterEach \/ EnterWrapper
        \/ NextItem \/ ItemDone \/ Return

Spec == Init /\ [][Next]_vars /\ WF_vars(Next)

-----------------------------------------------------------------------------
(* What each pushes: the temp of one of the grammar's definitions. *)
Pushed == UNION {[Def(d).temp -> Value \cup {Unset}] : d \in DOMAIN input.grammar}

(* The running closures are of the grammar and run on nodes of the document. *)
TypeOK ==
    /\ stack \in Seq(Frame)
    /\ \A i \in DOMAIN stack : /\ stack[i].def \in DOMAIN input.grammar
                              /\ stack[i].node \in DOMAIN input.doc
    /\ out \in [Field -> Value \cup {Unset}]
    /\ list \in Seq(Pushed)
    /\ reports \in Seq(Error \X Key)

(* Every value in an output reference, or in an element of a list, is one   *)
(* that a definition with that reference takes: the error paths of choice,  *)
(* scalar, sequence and fn store nothing.                                   *)
TakenBy(f, v) ==
    \E d \in DOMAIN input.grammar :
        /\ Def(d).field = f
        /\ v \in Def(d).converts
        /\ Def(d).kind \in {"choice", "fn"} => v \in Def(d).accepts

OutputsAreTaken ==
    /\ \A f \in Field : out[f] # Unset => TakenBy(f, out[f])
    /\ \A i \in DOMAIN list : \A f \in DOMAIN list[i] :
          list[i][f] # Unset => TakenBy(f, list[i][f])

(* Only fn ever reports a missing attribute.  Line 237 says that a scalar    *)
(* "will error with attribute-missing" unless it is optional: the code does  *)
(* not do that, a missing scalar is an exception which the nearest closure   *)
(* that catches swallows, and so is a missing choice, sequence or map.       *)
MissingReportedOnlyByFn ==
    \A i \in DOMAIN reports :
        reports[i][1] = "AttributeMissing" =>
            \E d \in DOMAIN input.grammar : Def(d).kind = "fn" /\ Def(d).key = reports[i][2]

(* The parse of every document ends: no closure runs twice on one node. *)
Terminates == <>(stack = <<>>)

(* What every step preserves. *)
ParserInv == input \in Inputs /\ TypeOK /\ OutputsAreTaken /\ MissingReportedOnlyByFn
=============================================================================
