----------------------------- MODULE ModelDocs -----------------------------
(***************************************************************************)
(* Small documents for the model-1 stream, the streams the other engines   *)
(* froze for one of them, and the rules a comparison may run under.        *)
(***************************************************************************)
EXTENDS Integers, Sequences, FiniteSets, TLC

CONSTANTS NaN, NegZero

DocAlphabet ==
  <<"\n", "\r", "$ANGBASE", "$AUNITS", "$BLIPMODE", "$CAMERADISPLAY", "$CECOLOR", "$CLAYER", "$EXTMAX",
    "$LIMMAX", ".", "/", "0", "1", "A", "B", "appid", "block_record", "dictionary", "dimstyle", "entity",
    "layer", "layout", "linetype", "object", "table", "textstyle", "ucs", "view", "vport", "vx",
    "xrecord", "|">>

Key(h, text) == [key |-> text, handle |-> h]

Dictionary(entries) == [class |-> "DICTIONARY", entries |-> entries, hard_owner |-> FALSE, cloning |-> 1]

XRecord(values) == [class |-> "XRECORD", cloning |-> 1, values |-> values]

LayoutAt(name, block) ==
  [class |-> "LAYOUT", name |-> name, tab |-> 1, limit |-> <<0, 1>>, elevation |-> 2, block |-> block]

Header ==
  [real |-> 1000, whole |-> 2, flag |-> TRUE, color |-> [rgb |-> FALSE, v |-> 256], text |-> <<"A">>,
   corner |-> <<1, 2, 3>>, limit |-> <<1, 2>>]

Layer(name) ==
  [name |-> name, frozen |-> FALSE, frozen_new |-> FALSE, locked |-> FALSE, off |-> FALSE,
   color |-> [rgb |-> FALSE, v |-> 7], linetype |-> <<"A">>]

Linetype(h, name, elements) ==
  [handle |-> h, name |-> name, description |-> <<>>, length |-> 3, elements |-> elements]

Textstyle(h, name) == [handle |-> h, name |-> name, font |-> <<"A">>, height |-> 0, annotative |-> FALSE]

Block(h, name, layout, entities) ==
  [handle |-> h, name |-> name, anonymous |-> FALSE, attributes |-> FALSE, xref |-> FALSE,
   base |-> <<0, 0, 0>>, path |-> <<>>, entities |-> entities, layout |-> layout]

Doc(rest) ==
  rest @@ [readable |-> TRUE, root |-> 0, header |-> Header, layers |-> <<>>, linetypes |-> <<>>,
           textstyles |-> <<>>, dimstyles |-> <<>>, blocks |-> <<>>, objects |-> [h \in {} |-> <<>>],
           extensions |-> <<>>, entities |-> <<>>, xdata |-> <<>>]

Table(kind, name) == [of |-> "table", kind |-> kind, name |-> name]

TheLayout(name) == [of |-> "layout", name |-> name]

Object(h) == [of |-> "object", handle |-> h]

Coded(code, form, v) == form :> v @@ [code |-> code, form |-> form]

Extended(node, appid) == [node |-> node, appid |-> appid, values |-> <<Coded(1000, "text", <<"A">>)>>]

\* A drawing with nothing in it but its root dictionary.
Bare == Doc([root |-> 1, objects |-> 1 :> Dictionary(<<>>)])

-----------------------------------------------------------------------------
(* Three dictionaries that name each other, themselves, an xrecord, a layout
   or nothing, and one of them perhaps the extension dictionary of a layer. *)

Roots == {<<Key(2, <<"B">>), Key(t, <<"A">>)>> : t \in {1, 3, 4, 9}}

Seconds ==
  {<<>>} \cup {<<Key(t, <<"A">>), Key(u, <<"B">>)>> : t \in {1, 2, 3, 4}, u \in {1, 3, 5}}

Thirds == {<<>>, <<Key(1, <<"A">>)>>, <<Key(2, <<"A">>)>>, <<Key(4, <<"A">>)>>}

Hung == {<<>>, <<[node |-> Table("layer", <<"0">>), handle |-> 3]>>,
         <<[node |-> Table("vx", <<"0">>), handle |-> 3], [node |-> TheLayout(<<"A">>), handle |-> 3]>>}

Graphs ==
  {Doc([root |-> r, layers |-> <<Layer(<<"0">>)>>, extensions |-> x,
        objects |-> (1 :> Dictionary(a)) @@ (2 :> Dictionary(b)) @@ (3 :> Dictionary(c)) @@
                    (4 :> XRecord(<<Coded(330, "handle", <<"1">>), Coded(1, "text", <<"A">>)>>)) @@
                    (5 :> LayoutAt(<<"A">>, 0)),
        xdata |-> <<Extended(Object(3), <<"A">>), Extended(Object(4), <<"A">>)>>]) :
     r \in {0, 1}, a \in Roots, b \in Seconds, c \in Thirds, x \in Hung}

-----------------------------------------------------------------------------
(* Each way a field is worked out. *)

Elements ==
  <<[length |-> 1, complex |-> "none"],
    [length |-> -1, complex |-> "shape", absolute |-> TRUE, number |-> 132, style |-> 21, offset |-> <<1, 0>>],
    [length |-> NegZero, complex |-> "text", absolute |-> FALSE, text |-> <<"A">>, style |-> 99, offset |-> <<0, 1>>]>>

Dimstyle(block) ==
  [name |-> <<"A">>, post |-> <<>>, scale |-> 1, color |-> [rgb |-> TRUE, v |-> 255], block |-> block,
   linetype |-> 11, annotative |-> TRUE]

Full(text, real) ==
  Doc([root |-> 1, header |-> [Header EXCEPT !.text = text, !.real = real, !.color.rgb = TRUE],
       layers |-> <<[Layer(<<"B">>) EXCEPT !.frozen = TRUE, !.off = TRUE],
                    [Layer(<<"A">>) EXCEPT !.frozen_new = TRUE, !.locked = TRUE, !.color.rgb = TRUE]>>,
       linetypes |-> <<Linetype(11, <<"A">>, Elements)>>,
       textstyles |-> <<Textstyle(21, <<"A">>), Textstyle(22, <<>>)>>,
       dimstyles |-> <<Dimstyle(31)>>,
       blocks |-> <<[Block(31, <<"B">>, 3, <<41>>) EXCEPT !.xref = TRUE, !.path = text],
                    [Block(32, <<"A">>, 0, <<>>) EXCEPT !.anonymous = TRUE, !.attributes = TRUE]>>,
       objects |-> (1 :> Dictionary(<<Key(2, <<"A">>), Key(3, <<"B">>)>>)) @@ (3 :> LayoutAt(<<"A">>, 31)) @@
                   (9 :> [class |-> "SCALE"]) @@
                   (2 :> XRecord(<<Coded(340, "handle", <<"1">>), Coded(10, "point", <<1, 2, 3>>),
                                   Coded(290, "flag", TRUE), Coded(40, "real", real), Coded(70, "whole", 3)>>)),
       entities |-> <<[handle |-> <<"1">>, xdata |-> <<[appid |-> <<"A">>, values |-> <<Coded(1, "text", text)>>]>>]>>,
       xdata |-> <<Extended(Table("textstyle", <<>>), <<"B">>), Extended(Object(2), <<"B">>),
                   Extended(Object(9), <<"B">>)>>])

Conversions == {Full(text, real) : text \in {<<"A">>, <<"A", "\r", "\n", "B", "\r">>}, real \in {1000, NegZero}}

(* What makes two records come to one key, and what cannot be written. *)

Two(key, node) ==
  Doc([root |-> 1, layers |-> <<Layer(<<"0">>)>>, extensions |-> <<[node |-> node, handle |-> 3]>>,
       objects |-> (1 :> Dictionary(<<Key(2, key)>>)) @@ (2 :> Dictionary(<<Key(4, <<"layer", "/", "0">>), Key(4, <<"A">>)>>)) @@
                   (3 :> Dictionary(<<>>)) @@ (4 :> Dictionary(<<>>)) @@ (5 :> LayoutAt(<<"A">>, 0))])

Clashes ==
  {Two(key, node) : key \in {<<"table">>, <<"A">>, <<>>, <<"A", "/", "B">>},
                    node \in {Table("layer", <<"0">>), TheLayout(<<"A">>)}}
  \cup {Doc([layers |-> <<Layer(<<"0">>), Layer(n)>>]) : n \in {<<"0">>, <<"1">>}}
  \cup {Doc([root |-> 1, objects |-> (1 :> Dictionary(<<Key(2, <<"A">>), Key(2, k)>>)) @@ (2 :> XRecord(<<>>))]) :
          k \in {<<"A">>, <<"B">>}}
  \cup {Doc([textstyles |-> <<Textstyle(21, <<>>), Textstyle(22, n)>>,
             xdata |-> <<Extended(Table("textstyle", <<>>), <<"A">>), Extended(Table("textstyle", n), <<"A">>)>>]) :
          n \in {<<>>, <<"A">>}}
  \cup {Doc([header |-> [Header EXCEPT !.corner = <<0, NaN, 0>>]]), Full(<<"A">>, NaN),
        Doc([linetypes |-> <<Linetype(11, <<"A">>, <<[length |-> NaN, complex |-> "none"]>>)>>])}

-----------------------------------------------------------------------------
(* One drawing that is compared: what acadrust reads of it, and what the other
   engines may have frozen. *)

Dash(length) == [length |-> length, complex |-> "none"]

Judged ==
  Doc([header |-> [Header EXCEPT !.text = <<"A", "\r">>], layers |-> <<Layer(<<"0">>), Layer(<<"1">>)>>,
       linetypes |-> <<Linetype(11, <<"A">>, <<Dash(1)>>)>>])

Rec(kind, name, values) == [kind |-> kind, name |-> name, values |-> values]

Val(type, v) == [t |-> type, v |-> v]

Var(name, type, v) == Rec("header", <<name>>, [value |-> Val(type, v)])

Variables(real, whole) ==
  <<Var("$ANGBASE", "double", real), whole, Var("$BLIPMODE", "int", 1), Var("$CAMERADISPLAY", "bool", TRUE),
    Var("$CECOLOR", "int", 256), Var("$CLAYER", "string", <<"A", "\n">>), Var("$EXTMAX", "point3", <<1, 2, 3>>),
    Var("$LIMMAX", "point2", <<1, 2>>)>>

Two_ == Var("$AUNITS", "int", 2)

FrozenLayer(name, color, on) ==
  Rec("layer", name, [flags |-> Val("int", 0), color |-> color, true_color |-> Val("int", -1),
                      on |-> on, linetype |-> Val("string", <<"A">>)])

Segment(length) ==
  [length |-> Val("double", length), flags |-> Val("int", 0), shape_number |-> Val("int", 0),
   offset |-> Val("point2", <<0, 0>>), text |-> Val("string", <<>>), style |-> Val("string", <<>>)]

FrozenType(lengths) ==
  Rec("linetype", <<"A">>, [description |-> Val("string", <<>>), pattern_length |-> Val("double", 3),
                            segments |-> Val("list", [n \in DOMAIN lengths |-> Segment(lengths[n])])])

Seven == Val("int", 7)

On == Val("bool", TRUE)

Gone == Val("null", 0)

TwoLayers(color, on) == <<FrozenLayer(<<"0">>, color, On), FrozenLayer(<<"1">>, Seven, on)>>

FrozenStreams ==
  {Variables(r, w) \o TwoLayers(Seven, On) \o <<FrozenType(<<1>>)>> :
     r \in {1000, 1001, 2000}, w \in {Two_, Var("$AUNITS", "double", 2)}}
  \cup {Variables(1000, Two_) \o ls \o <<FrozenType(<<1>>)>> :
          ls \in {TwoLayers(Val("int", 1), On), TwoLayers(Gone, On), TwoLayers(Gone, Val("bool", FALSE)),
                  <<FrozenLayer(<<"0">>, Seven, On)>>}}
  \cup {Variables(1000, Two_) \o TwoLayers(Seven, On) \o <<FrozenType(s)>> : s \in {<<2>>, <<1, 1>>, <<>>}}

AsRead == Variables(1000, Two_) \o TwoLayers(Seven, On) \o <<FrozenType(<<1>>)>>

Frozens ==
  UNION {{[oracle |-> s, ezdxf |-> AsRead], [oracle |-> AsRead, ezdxf |-> s], [oracle |-> s, ezdxf |-> s]} :
           s \in FrozenStreams}

Known(name, pairs) == [name |-> name, pairs |-> pairs, fixtures |-> {}]

Excluded(engine, name, pairs, fixtures) ==
  [engine |-> engine, name |-> name, pairs |-> pairs, fixtures |-> fixtures]

KnownRows ==
  {Known(<<"layer", "/", "*", ".", "color">>, {}),
   Known(<<"$AUNITS">>, {<<"ezdxf", "oracle">>}),
   Known(<<"linetype", "/", "*", ".", "segments">>, {}),
   [Known(<<"*", ".", "*", "length">>, {}) EXCEPT !.fixtures = {"twin"}],
   [Known(<<"$ANGBASE">>, {}) EXCEPT !.fixtures = {"another"}]}

ExcludedRows ==
  {Excluded("ezdxf", <<"layer", "/", "1">>, {}, {"twin"}),
   Excluded("acadrust", <<"layer", "/", "*", ".", "color">>, {}, {}),
   Excluded("oracle", <<"layer", "/", "*">>, {<<"oracle", "acadrust">>}, {}),
   Excluded("ezdxf", <<"layer", "/", "0", ".", "*">>, {}, {"another"})}

RuleSets ==
  {[known |-> k, excluded |-> e] : k \in {s \in SUBSET KnownRows : Cardinality(s) <= 1},
                                   e \in {s \in SUBSET ExcludedRows : Cardinality(s) <= 2}}

-----------------------------------------------------------------------------
(* All of it: what is read, what of it is compared or damaged, and what a
   comparison meets. *)

Unreadable == {[Bare EXCEPT !.readable = FALSE], [Judged EXCEPT !.readable = FALSE]}

WholeDoc == Full(<<"A">>, NegZero)

Compared == {Judged, WholeDoc, Full(<<"A">>, NaN), [Judged EXCEPT !.readable = FALSE]}

AllDocs == Graphs \cup Conversions \cup Clashes \cup Unreadable \cup Compared \cup {Bare}

Trial(f, r) == [frozen |-> f, rules |-> r]

NoRules == [known |-> {}, excluded |-> {}]

AllTrials ==
  [d \in Compared |->
     IF d = Judged THEN {Trial(f, r) : f \in Frozens, r \in RuleSets}
     ELSE {Trial([oracle |-> AsRead, ezdxf |-> s], NoRules) : s \in FrozenStreams}]

=============================================================================
