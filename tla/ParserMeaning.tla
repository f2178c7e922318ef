---------------------------- MODULE ParserMeaning ----------------------------
(***************************************************************************)
(* What a grammar means on a document, by structure: a definition is a     *)
(* function of the node it is given and of the errors that the callback it *)
(* is given stops, and its value is an effect.  A finished parse must have *)
(* had the effect of its grammar's root (ParseMatchesMeaning).             *)
(***************************************************************************)
EXTENDS ConfigParser

(* What a parse can be seen to do: store a value, pass an error to the       *)
(* callback of make_parser, push temp and reset it.                          *)
Event == [tag : {"write"}, field : Field, value : Value]
         \cup [tag : {"error"}, error : Error, key : Key]
         \cup [tag : {"push"}, temp : SUBSET Field]

Begin == [out |-> [f \in Field |-> Unset], list |-> <<>>, reports |-> <<>>]

Apply(st, ev) ==
    CASE ev.tag = "write" -> [st EXCEPT !.out = [@ EXCEPT ![ev.field] = ev.value]]
      [] ev.tag = "error" -> [st EXCEPT !.reports = Append(@, <<ev.error, ev.key>>)]
      [] ev.tag = "push"  ->
            [out     |-> [f \in Field |-> IF f \in ev.temp THEN Unset ELSE st.out[f]],
             list    |-> Append(st.list, [f \in ev.temp |-> st.out[f]]),
             reports |-> st.reports]

(* The state in which a sequence of events leaves the outputs. *)
Outcome(events) ==
    LET after[i \in 0 .. Len(events)] ==
            IF i = 0 THEN Begin ELSE Apply(after[i - 1], events[i])
    IN  after[Len(events)]

-----------------------------------------------------------------------------
(* throws: an exception leaves the definition; raised: the errors it passes  *)
(* to its callback; events: what is seen of it.                              *)
Effect == [throws : BOOLEAN, raised : SUBSET Error, events : Seq(Event)]

Throws == [throws |-> TRUE, raised |-> {}, events |-> <<>>]
Fails(err, k, stopped) ==
    [throws |-> FALSE, raised |-> {err},
     events |-> IF err \in stopped THEN <<>>
                ELSE <<[tag |-> "error", error |-> err, key |-> k]>>]
Writes(f, v) ==
    [throws |-> FALSE, raised |-> {}, events |-> <<[tag |-> "write", field |-> f, value |-> v]>>]

(* The events of the first j of a sequence of effects. *)
EventsOf(effects) ==
    LET upto[j \in {0} \cup DOMAIN effects] ==
            IF j = 0 THEN <<>> ELSE upto[j - 1] \o effects[j].events
    IN  upto

(* The errors the first j pass on. *)
RaisedBy(effects, j) == UNION {effects[i].raised : i \in 1 .. j}

(* The first j, one after the other: an exception in one does not touch the  *)
(* others.                                                                   *)
Upto(effects, j) ==
    [throws |-> FALSE,
     raised |-> RaisedBy(effects, j),
     events |-> EventsOf(effects)[j]]
InOrder(effects) == Upto(effects, Len(effects))

(* one_of goes on while it sees type errors and no exception. *)
Settles(e) == e.throws \/ e.raised \cap TypeError = {}
Tried(effects) ==
    CHOOSE j \in {0} \cup DOMAIN effects :
        /\ j = Len(effects) \/ (j # 0 /\ Settles(effects[j]))
        /\ \A i \in 1 .. j - 1 : ~ Settles(effects[i])

(* The errors that the callback made by a definition stops. *)
Stopped(kind) ==
    IF kind = "one_of" THEN TypeError
    ELSE IF kind = "optional" THEN {"AttributeMissing"}
    ELSE IF kind = "attempt" THEN Error
    ELSE {}
Outside(e, kind) == [e EXCEPT !.raised = @ \ Stopped(kind)]

-----------------------------------------------------------------------------
(* sub[i][x][s]: the effect of child i on node x when the errors s are       *)
(* stopped.                                                                  *)
On(def, sub, x, s) == [i \in DOMAIN def.children |-> sub[i][x][s]]

Item(def, sub, x, s) ==
    LET e == InOrder(On(def, sub, x, s))
    IN  [e EXCEPT !.events = Append(@, [tag |-> "push", temp |-> def.temp])]

(* node.as<T>() after a type test. *)
Typed(def, node, kind, err, s) ==
    IF node.kind # kind THEN Fails(err, def.key, s)
    ELSE IF node.value \in def.converts THEN Writes(def.field, node.value)
    ELSE Fails("BadTypeConversion", def.key, s)

(* A definition that looks up an attribute, once it has found it. *)
OfAttribute(doc, def, sub, m, s) ==
    LET attr == doc[m]
    IN  CASE def.kind = "scalar"   -> Typed(def, attr, "scalar", "NotScalar", s)
          [] def.kind = "sequence" -> Typed(def, attr, "sequence", "NotSequence", s)
          [] def.kind = "choice"   ->
                IF attr.kind = "scalar" /\ attr.value \in def.converts \ def.accepts
                THEN Fails("InvalidValue", def.key, s)
                ELSE Typed(def, attr, "scalar", "NotScalar", s)
          [] def.kind = "fn"       ->
                IF attr.value \notin def.converts THEN Throws
                ELSE IF attr.value \in def.accepts THEN Writes(def.field, attr.value)
                ELSE Fails("InvalidValue", def.key, s)
          [] def.kind = "map"      ->
                IF attr.kind # "map" THEN Fails("NotMap", def.key, s)
                ELSE InOrder(On(def, sub, m, s))
          [] def.kind = "each"     ->
                IF attr.kind # "sequence" THEN Fails("NotSequence", def.key, s)
                ELSE InOrder([i \in DOMAIN attr.items |-> Item(def, sub, attr.items[i], s)])

(* A definition that runs others on the node it is given. *)
OfWrapper(def, sub, n, s) ==
    LET effects == On(def, sub, n, s \cup Stopped(def.kind))
        j == Tried(effects)
    IN  IF def.kind = "one_of"
        THEN Outside([Upto(effects, j) EXCEPT !.throws = (j # 0 /\ effects[j].throws)], "one_of")
        ELSE Outside(InOrder(effects), def.kind)

EffectOf(doc, def, sub, n, s) ==
    LET has == doc[n].kind = "map" /\ def.key \in DOMAIN doc[n].entries
    IN  IF def.kind \in {"parser", "optional", "attempt", "one_of"}
        THEN OfWrapper(def, sub, n, s)
        ELSE IF def.kind = "element" THEN Typed(def, doc[n], "sequence", "NotSequence", s)
        ELSE IF has THEN OfAttribute(doc, def, sub, doc[n].entries[def.key], s)
        ELSE IF def.kind = "fn" /\ doc[n].kind # "scalar"
        THEN Fails("AttributeMissing", def.key, s)
        ELSE Throws

(* The meaning of each definition of a grammar on each node of a document.   *)
Closed(doc, def, sub) ==
    [n \in DOMAIN doc |-> [s \in SUBSET Error |-> EffectOf(doc, def, sub, n, s)]]
Meaning(in) ==
    LET of[d \in DOMAIN in.grammar] ==
            Closed(in.doc, in.grammar[d],
                   [i \in DOMAIN in.grammar[d].children |-> of[in.grammar[d].children[i]]])
    IN  of

(* A finished parse has written, pushed and reported exactly what its grammar *)
(* means on its document, in order: an exception or an error in one           *)
(* definition changes nothing in its siblings, and the wrappers of error_cb   *)
(* (one_of, optional, attempt) drop the errors they name and no others.       *)
ParseMatchesMeaning ==
    stack = <<>> =>
        Outcome(Meaning(input)[1][1][{}].events) = [out |-> out, list |-> list, reports |-> reports]
=============================================================================
