--------------------------- MODULE MCConfigParser ---------------------------
(***************************************************************************)
(* The engine's own grammars, and two that exercise what the engine does   *)
(* not use, run on every document of a small shape.                        *)
(***************************************************************************)
EXTENDS ParserMeaning, Functions

MCKey == {"-", "graphics", "fullscreen", "debug", "resolution", "fsaa", "telemetry",
          "logging", "profiling", "game", "scenes", "name", "source", "scene", "rows"}
MCField == MCKey \cup {"width"}
MCValue == {"yes", "odd", "720p", "4x", "No", "Off", "pair", "-"}

Define(kind, key, children, field, temp, converts, accepts) ==
    [kind |-> kind, key |-> key, children |-> children, field |-> field,
     temp |-> temp, converts |-> converts, accepts |-> accepts]
make_parser(children) == Define("parser", "-", children, "-", {}, {}, {})
map(key, children)    == Define("map", key, children, "-", {}, {}, {})
Wrap(kind, children)  == Define(kind, "-", children, "-", {}, {}, {})
scalar(key, values)   == Define("scalar", key, <<>>, key, {}, values, {})
choice(key, options)  == Define("choice", key, <<>>, key, {}, MCValue, options)
sequence(key, field)  == Define("sequence", key, <<>>, field, {}, {"pair"}, {})

(* Window::open, src/window/Window.cpp:331-356. *)
Graphics ==
    <<make_parser(<<2>>), map("graphics", <<3, 4, 5, 8>>),
      scalar("fullscreen", {"yes"}), scalar("debug", {"yes"}),
      Wrap("one_of", <<6, 7>>), choice("resolution", {"720p"}),
      sequence("resolution", "width"), choice("fsaa", {"4x", "Off"})>>

(* Logging::init, src/util/Logging.cpp:22-27. *)
Telemetry ==
    <<make_parser(<<2>>), map("telemetry", <<3, 4>>), scalar("logging", MCValue),
      Wrap("optional", <<5>>), scalar("profiling", {"yes"})>>

(* EntityLoader::load, src/ecs/Loader.cpp:46-52. *)
Scenes ==
    <<make_parser(<<2>>), map("game", <<3>>),
      Define("each", "scenes", <<4, 5>>, "-", {"name", "source"}, {}, {}),
      scalar("name", {"yes"}), scalar("source", {"yes"})>>

(* A callback (as in EntityLoader::loadScene), rows of rows and attempts. *)
Custom ==
    <<make_parser(<<2, 3, 5, 8>>),
      Define("fn", "scene", <<>>, "scene", {}, {"yes", "4x"}, {"yes"}),
      Define("each", "rows", <<4>>, "-", {"width"}, {}, {}),
      Define("element", "-", <<>>, "width", {}, {"pair"}, {}),
      Wrap("attempt", <<6, 7>>), scalar("logging", {"yes"}),
      Wrap("one_of", <<9, 10>>),
      Wrap("optional", <<11>>), scalar("name", {"yes"}), scalar("source", {"yes"}),
      Define("fn", "debug", <<>>, "debug", {}, MCValue, {"yes"})>>

(* Wrappers in wrappers: the error callback of one_of wrapped again, and a    *)
(* one_of through which an exception of its one_of passes.                    *)
Wrapped ==
    <<make_parser(<<2>>), Wrap("optional", <<3, 8>>),
      Wrap("one_of", <<4, 5>>), scalar("name", {"yes"}),
      Wrap("optional", <<6, 7>>), Define("fn", "debug", <<>>, "debug", {}, {"yes", "4x"}, {"yes"}),
      scalar("source", {"yes"}),
      Wrap("one_of", <<9, 10>>), Wrap("one_of", <<11, 12>>), scalar("logging", {"yes"}),
      scalar("scene", {"yes"}), scalar("name", {"odd"})>>

-----------------------------------------------------------------------------
YamlOf(kind, value, entries, items) ==
    [kind |-> kind, value |-> value, entries |-> entries, items |-> items]
Scalars(vs) == {YamlOf("scalar", v, <<>>, <<>>) : v \in vs}
Pair(v) == YamlOf("sequence", v, <<>>, <<>>)
Empty == YamlOf("map", "-", <<>>, <<>>)
Null == YamlOf("null", "-", <<>>, <<>>)
Missing == YamlOf("null", "odd", <<>>, <<>>)

(* A node for each key, from index `first` on, unless it is Missing. *)
Keys(keys, nodes, first) ==
    LET at(k) == CHOOSE i \in DOMAIN keys : keys[i] = k
        here == {keys[i] : i \in {j \in DOMAIN keys : nodes[j] # Missing}}
    IN  YamlOf("map", "-", [k \in here |-> first + at(k) - 1], <<>>)

(* Documents that hold the keys, each with one of the choices, in a section. *)
Section(name, keys, choices) ==
    {<<Keys(<<name>>, <<Null>>, 2), Keys(keys, nodes, 3)>> \o nodes :
        nodes \in [DOMAIN keys -> choices]}
Flat(keys, choices) ==
    {<<Keys(keys, nodes, 2)>> \o nodes : nodes \in [DOMAIN keys -> choices]}
WithoutSection(name) ==
    {<<Keys(<<name>>, <<node>>, 2), node>> :
        node \in {Missing, Null, Empty} \cup Scalars({"odd"})}
    \cup {<<n>> : n \in Scalars({"odd"}) \cup {Null}}

(* A sequence of two items: each a scalar, or a map of the two keys. *)
Listed(section, name, keys, choices) ==
    LET item(nodes, first) == Keys(keys, nodes, first)
    IN  {<<Keys(<<section>>, <<Null>>, 2), Keys(<<name>>, <<Null>>, 3),
           YamlOf("sequence", "-", <<>>, <<4, 5>>), item(p, 6), q>> \o p :
            p \in [DOMAIN keys -> choices],
            q \in Scalars({"odd"}) \cup {Empty, item(<<Null, Missing>>, 6)}}

MCInputs ==
    [grammar : {Graphics},
     doc : Section("graphics", <<"fullscreen", "debug", "resolution", "fsaa">>,
                   Scalars({"yes", "720p", "4x"}) \cup {Pair("pair"), Pair("odd"), Missing})
           \cup WithoutSection("graphics")]
    \cup
    [grammar : {Telemetry},
     doc : Section("telemetry", <<"logging", "profiling">>,
                   Scalars({"yes", "odd"}) \cup {Empty, Null, Missing})]
    \cup
    [grammar : {Scenes},
     doc : Listed("game", "scenes", <<"name", "source">>,
                  Scalars({"yes", "odd"}) \cup {Null, Missing})
           \cup Section("game", <<"scenes">>, {Empty, Null, Missing, Pair("pair")})]
    \cup
    [grammar : {Custom},
     doc : {<<[d[1] EXCEPT !.entries = [k \in DOMAIN @ \cup {"rows"} |-> IF k = "rows" THEN 7 ELSE @[k]]], d[2], d[3], d[4], d[5], d[6],
              YamlOf("sequence", "-", <<>>, <<8, 9, 10>>),
              Pair("pair"), Null, Pair("odd")>> :
               d \in Flat(<<"scene", "logging", "name", "source", "debug">>,
                          Scalars({"yes", "odd", "4x"}) \cup {Missing})}]
    \cup
    [grammar : {Wrapped},
     doc : Flat(<<"scene", "logging", "name", "source", "debug">>,
                Scalars({"yes", "odd"}) \cup {Pair("pair"), Missing})]

-----------------------------------------------------------------------------
(* The nodes of the document below a node, itself included. *)
Below[n \in DOMAIN input.doc] ==
    {n} \cup UNION {Below[m] : m \in Range(Node(n).entries) \cup Range(Node(n).items)}

(* A node holds the value where a definition with that field reads it. *)
Supplies(n, f, v) ==
    \E d \in DOMAIN input.grammar :
        /\ Def(d).field = f
        /\ \/ Def(d).kind = "element" /\ Node(n).value = v
           \/ /\ Def(d).key \in DOMAIN Node(n).entries
              /\ Node(Node(n).entries[Def(d).key]).value = v

(* When an item of a sequence has been parsed, the element pushed for it     *)
(* holds values of that item only (Config.h:423-428): temp, which all items  *)
(* share, keeps nothing of an earlier item, also when an item lacks a field, *)
(* holds one that is rejected, or ends its parse with an exception.  The     *)
(* temp fields of these grammars are written by their own sequence alone.    *)
ItemsHoldTheirOwnValues ==
    Running({"each"}) /\ Top.next > 1 =>
        LET element == list[Len(list)]
            item    == Node(Top.node).items[Top.next - 1]
        IN  \A f \in DOMAIN element :
               element[f] # Unset => \E n \in Below[item] : Supplies(n, f, element[f])

=============================================================================
