---------------------------- MODULE MCStepParams -----------------------------
(* A specification or two of every type of parameter, alone or with what   *)
(* it refers to; values of every kind, among them lists of lists, as deep  *)
(* as a condition; an input table of a text and a number column, another   *)
(* tab with them the other way round, and a third that comes to nothing.   *)
EXTENDS StepParams, TLC

P(id, type) == [id |-> id, type |-> type]
Of(p)       == [params |-> <<p>>]

Tabs2      == P("t", "tab")
Radio      == P("c", "radio") @@ [options |-> <<"x">>]
Menu       == P("m", "menu") @@ [options |-> <<"x", Separator, "y">>, default |-> "y"]
BadMenu    == P("m", "menu") @@ [options |-> <<"x">>, default |-> "z"]
LostMenu   == P("m", "menu") @@ [options |-> <<Separator, "x">>]
Col(tab)   == P("c", "column") @@ [column_types |-> {"number"}, tab_parameter |-> tab]
Cols(types) == P("cs", "multicolumn") @@ [column_types |-> types]
ListWith(p) == P("l", "list") @@ [child_parameters |-> <<p>>]
Secret     == P("s", "secret") @@ [service |-> "google"]
Gdrive     == P("g", "gdrivefile") @@ [secret_parameter |-> "s"]
Custom(d)  == [params |-> <<P("x", "custom")>>, schema |-> [x |-> d]]
JsonType(type) == [type |-> type]
JsonMap(d) == [type |-> "map", value_dtype |-> d]
JsonEnum(choices, default) == [type |-> "enum", choices |-> choices, default |-> default]

MCSpecs ==
  {Of(P("p", type)) : type \in {"string", "integer", "float", "checkbox", "timezone", "condition",
                                "multichartseries", "file", "tab", "multitab"}}
  \cup {Of(Menu), Of(BadMenu), Of(LostMenu), Of(ListWith(BadMenu)), Of(ListWith(Cols({"text", "number"}))),
        Of(ListWith(P("c", "column") @@ [tab_parameter |-> "q"])),
        [params |-> <<Tabs2, Col("t")>>], [params |-> <<P("t", "statictext"), Col("t")>>],
        [params |-> <<P("t", "string"), Col("t")>>],
        [params |-> <<Cols({"text"}), P("c", "column") @@ [column_types |-> {"number"}]>>],
        [params |-> <<Cols({"number"}), P("c", "column") @@ [column_types |-> {"timestamp", "number"}]>>],
        [params |-> <<Secret, Gdrive, P("b", "button")>>], [params |-> <<Gdrive>>],
        [params |-> <<Radio, P("n", "numberformat") @@ [visible_if |-> [id |-> "c", values |-> {"x"}]]>>],
        [params |-> <<Radio, P("n", "string") @@ [visible_if |-> [id |-> "c", values |-> {"z"}]]>>],
        [params |-> <<Radio, Radio>>],
        Custom(JsonMap(JsonType("string"))), Custom(JsonType("list") @@ [inner_dtype |-> JsonType("tab")]),
        Custom(JsonMap(JsonType("column") @@ [column_types |-> {"text"}])), Custom(JsonType("list")),
        Custom(JsonEnum({Text("x"), Null}, Null)), Custom(JsonMap(JsonEnum({Text("x")}, Text("y")))),
        Custom(JsonEnum({[list |-> <<>>]}, [list |-> <<>>])), Custom(JsonType("string") @@ [unknown |-> Null]),
        Custom(JsonType("dict") @@ [properties |-> [t |-> JsonType("tab"), b |-> JsonType("boolean")]])}

List(s) == [list |-> s]
Dict(f) == [dict |-> f]

Compare(operation, column, value) ==
  Dict([operation |-> Text(operation), column |-> column, value |-> Text(value), isRegex |-> [bool |-> FALSE]])

And(s) == Dict([operation |-> Text("and"), conditions |-> List(s)])

Basic == {Null, [bool |-> TRUE], [int |-> 0], [int |-> 4], [float |-> 4]}
         \cup {Text(s) : s \in {"", "A", "B", "bad", "x4", "true", "uuid", "UTC", "tab-1", "tab-2", "tab-9", "x", "y"}}

MCValues ==
  Basic
  \cup {List(<<v>>) : v \in Basic}
  \cup {List(<<Text("B"), Text("A")>>), List(<<Text("tab-2"), Text("tab-1"), Text("tab-2")>>), List(<<List(<<>>)>>)}
  \cup {Dict([column |-> c, color |-> Text("x")]) : c \in {Text("A"), Text("B")}}
  \cup {List(<<Dict([column |-> Text(s), color |-> Null])>>) : s \in {"A", "B"}}
  \cup {List(<<Dict([column |-> Text("C"), color |-> Text("")]), Dict([column |-> Text(s), color |-> Text("")])>>) : s \in {"A", "B"}}
  \cup {List(<<Dict([cs |-> List(<<Text("A"), Text("B"), Text("C")>>)]), Dict([cs |-> List(<<Text("A")>>)])>>),
        List(<<Dict([c |-> Text("A")])>>), Dict([id |-> Text("x"), url |-> Text("y")]),
        Dict([k |-> Text("A")]), Dict([k |-> Text("A"), j |-> Text("B")])}
  \cup {And(<<And(<<Compare(o, Text(s), t)>>)>>) :
          o \in Operations, s \in {"A", "B", "C"}, t \in {"x4", "2020-11-16"}}
  \cup {And(<<And(<<Compare("text_is", Text("B"), "x"), Compare("number_is_not", Text("A"), "x")>>),
              And(<<Compare("text_is", Text("A"), "x"), Compare("", Text(""), "")>>)>>),
        And(<<And(<<Compare("text_is", Null, "")>>)>>), And(<<Compare("text_is", Text("A"), "")>>),
        Dict([operation |-> List(<<>>), conditions |-> List(<<>>)])}

TabWith(slug, status) == [slug |-> slug, status |-> status, columns |-> [A |-> "number", B |-> "text"]]

MCContexts ==
  {[columns |-> [A |-> "text", B |-> "number"], files |-> files,
    tabs |-> <<TabWith("tab-1", "ok"), TabWith("tab-2", status)>>] :
     files \in {{}, {"uuid"}}, status \in {"ok", "none", "error"}}
=============================================================================
