----------------------------- MODULE CleanParams -----------------------------
(***************************************************************************)
(* What a module's render() or fetch() gets of its parameters: clean_value *)
(* of renderer/execute/renderprep.py and of fetcher/fetchprep.py, which    *)
(* were copied from one another.                                           *)
(*                                                                         *)
(* A context c is a record:                                                *)
(*   columns   the input table, column name -> type                        *)
(*   tabs      in the workflow's order, of [slug, status, columns]; status *)
(*             "none" is a tab not yet rendered                            *)
(*   files     the uuids with a row in the step and an object in S3        *)
(*   params    the step's params, the root of what is cleaned              *)
(*   fetch     is this fetchprep?                                          *)
(*                                                                         *)
(* Cleaning gives a record: the value, if nothing was raised; the errors   *)
(* PromptingError shows the user; and, in "raises", what ends it at once.  *)
(***************************************************************************)
EXTENDS ParamTypes

Clean(value)  == [value |-> value, errors |-> {}, raises |-> {}]
Prompt(error) == [value |-> Null, errors |-> {error}, raises |-> {}]
Raise(what)   == [value |-> Null, errors |-> {}, raises |-> {what}]

NoType == "none"

(* PromptingError.WrongColumnType: whoever wants text does not care what   *)
(* was found.                                                              *)
WrongColumnType(columns, found, wanted) ==
  [columns |-> columns, found |-> IF "text" \in wanted THEN NoType ELSE found, wanted |-> wanted]

(* PromptErrorAggregator: one error for each pair of types, naming all its *)
(* columns, and the others as they are.                                    *)
Aggregate(errors) ==
  LET wrong == {e \in errors : "columns" \in DOMAIN e}
      kinds == {[found |-> e.found, wanted |-> e.wanted] : e \in wrong}
      Names(k) == UNION {e.columns : e \in {e \in wrong : e.found = k.found /\ e.wanted = k.wanted}}
  IN  {WrongColumnType(Names(k), k.found, k.wanted) : k \in kinds} \cup (errors \ wrong)

(* WrongColumnType.best_wanted_type_id: the type the quick fix makes of    *)
(* the columns, by a step put before this one.                             *)
BestWantedType(wanted) ==
  CASE "text" \in wanted -> "text"
    [] "text" \notin wanted /\ "number" \in wanted -> "number"
    [] OTHER -> "timestamp"

(* The loops of List and Dict, which let only PromptingErrors pass.        *)
Gather(results) ==
  [value  |-> [k \in DOMAIN results |-> results[k].value],
   errors |-> Aggregate(UNION {results[k].errors : k \in DOMAIN results}),
   raises |-> UNION {results[k].raises : k \in DOMAIN results}]

As(kind, result) ==
  IF result.errors \cup result.raises = {}
  THEN [result EXCEPT !.value = [k \in {kind} |-> result.value]] ELSE [result EXCEPT !.value = Null]

-----------------------------------------------------------------------------
(* RenderContext *)

TabsOf(c, slug) == {t \in Range(c.tabs) : t.slug = slug}

NoColumns == <<>>

(* output_columns_for_tab_parameter(); {} if it raises KeyError.           *)
OutputColumns(c, tab) ==
  IF tab = "" THEN {c.columns}
  ELSE IF tab \notin DOMAIN c.params.dict THEN {}
  ELSE LET slug == c.params.dict[tab]
           oks  == IF Is(slug, "str") THEN {t \in TabsOf(c, slug.str) : t.status = "ok"} ELSE {}
       IN  IF oks = {} THEN {NoColumns} ELSE {t.columns : t \in oks}

IsWrong(d, type) == d.columnTypes # {} /\ type \notin d.columnTypes

(* Mutant: no look at the type. *)
CleanColumnOfAnyType(d, v, c) ==
  IF OutputColumns(c, d.tab) = {} THEN Raise("KeyError")
  ELSE LET columns == CHOOSE f \in OutputColumns(c, d.tab) : TRUE
       IN  Clean(IF v.str \in DOMAIN columns THEN v ELSE Text(""))

CleanColumn(d, v, c) ==
  IF OutputColumns(c, d.tab) = {} THEN Raise("KeyError")
  ELSE LET columns == CHOOSE f \in OutputColumns(c, d.tab) : TRUE
       IN  IF v.str \notin DOMAIN columns THEN Clean(Text(""))
           ELSE IF IsWrong(d, columns[v.str])
           THEN Prompt(WrongColumnType({v.str}, columns[v.str], d.columnTypes))
           ELSE Clean(v)

(* In table order, for which any fixed order stands. *)
TextList(names) == [list |-> [i \in DOMAIN names |-> Text(names[i])]]

CleanMulticolumn(d, v, c) ==
  IF OutputColumns(c, d.tab) = {} THEN Raise("KeyError")
  ELSE LET columns == CHOOSE f \in OutputColumns(c, d.tab) : TRUE
           chosen  == {s \in DOMAIN columns : Text(s) \in Range(v.list)}
           wrong   == {s \in chosen : IsWrong(d, columns[s])}
       IN  IF wrong = {} THEN Clean(TextList(SetToSeq(chosen)))
           ELSE [Clean(Null) EXCEPT !.errors =
                   Aggregate({WrongColumnType({s}, columns[s], d.columnTypes) : s \in wrong})]

CleanTab(v, c) ==
  LET tabs == TabsOf(c, v.str)
  IN  IF tabs = {} THEN Clean(Null)
      ELSE CASE \E t \in tabs : t.status = "none" -> Raise("TabCycleError")
             [] \E t \in tabs : t.status = "ok"   -> Clean([tab |-> v.str])
             [] OTHER -> Raise("TabOutputUnreachableError")

(* "Order based on `context.tabs`" *)
InOrderOfTabs(result, c) ==
  LET chosen == {x.tab : x \in {x \in Range(result.value) : Is(x, "tab")}}
      slugs  == [i \in DOMAIN c.tabs |-> c.tabs[i].slug]
      ordered == SelectSeq(slugs, LAMBDA s : s \in chosen)
  IN  [result EXCEPT !.value = [i \in DOMAIN ordered |-> [tab |-> ordered[i]]]]

(* _clean_condition_recursively(): Null is "no condition". *)
CleanComparison(operation, v, c) ==
  LET kind    == Compares[operation]
      exists  == v.column.str \in DOMAIN c.columns
      type    == c.columns[v.column.str]
      wrong   == IF kind \in {"cell", type} THEN {}
                 ELSE {WrongColumnType({v.column.str}, type, {kind})}
      noValue == CASE kind = "number" /\ v.value.str \notin DOMAIN Numbers -> {[notNumber |-> v.value.str]}
                   [] kind = "timestamp" /\ v.value.str \notin Dates -> {[notDate |-> v.value.str]}
                   [] OTHER -> {}
  IN  IF ~exists THEN Clean(Null)
      ELSE IF wrong \cup noValue = {} THEN Clean([dict |-> [operation |-> Text(operation), column |-> v.column]])
      ELSE [Clean(Null) EXCEPT !.errors = wrong \cup noValue]

RECURSIVE CleanCondition(_, _)
CleanCondition(v, c) ==
  LET operation == v.operation.str IN
  IF operation = "" THEN Clean(Null)
  ELSE IF operation \in {"and", "or"}
  THEN IF "conditions" \notin DOMAIN v THEN Raise("KeyError")
       ELSE LET all  == Gather([i \in DOMAIN v.conditions.list |-> CleanCondition(v.conditions.list[i].dict, c)])
                some == SelectSeq(all.value, LAMBDA x : x # Null)
            IN  [all EXCEPT !.value = CASE some = <<>>     -> Null
                                        [] Len(some) = 1 -> some[1]
                                        [] OTHER         ->
                                          [dict |-> [operation |-> v.operation, conditions |-> [list |-> some]]]]
  ELSE IF operation \in DOMAIN InverseOperations
  THEN LET inner == CleanComparison(InverseOperations[operation], v, c)
       IN  IF inner.value = Null THEN inner ELSE [inner EXCEPT !.value =
                                                       [dict |-> [operation |-> Text("not"), condition |-> @]]]
  ELSE CleanComparison(operation, v, c)

-----------------------------------------------------------------------------
(* Which dtypes fetchprep does not clean: "Unsupported". *)
Unsupported(d) ==
  \/ d.type \in {"file", "tab", "multitab", "multichartseries"}
  \/ d.type \in {"column", "multicolumn"} /\ d.tab # ""

(* clean_value(); the dtypes it does not name are left as they are.        *)
RECURSIVE CleanValue(_, _, _)
CleanValue(d, v, c) ==
  LET Each(values) == Gather([k \in DOMAIN values |-> CleanValue(d.inner, values[k], c)])
  IN CASE c.fetch /\ Unsupported(d) -> Raise("RuntimeError")
       [] d.type = "float" -> Clean([float |-> CHOOSE n \in Number(v) : TRUE])
       [] d.type = "condition" /\ ~c.fetch -> CleanCondition(v.dict, c)
       [] d.type = "file" /\ ~c.fetch -> Clean(IF Is(v, "str") /\ v.str \in c.files THEN [path |-> v.str] ELSE Null)
       [] d.type = "tab" /\ ~c.fetch -> CleanTab(v, c)
       [] d.type = "column" /\ ~(c.fetch /\ Unsupported(d)) -> CleanColumn(d, v, c)
       [] d.type = "multicolumn" /\ ~(c.fetch /\ Unsupported(d)) -> CleanMulticolumn(d, v, c)
       [] d.type = "multichartseries" /\ ~c.fetch ->
            LET all == Each(v.list)
            IN  As("list", [all EXCEPT !.value = SelectSeq(@, LAMBDA x : x # Null /\ x.dict.column # Text(""))])
       [] d.type = "multitab" /\ ~c.fetch ->
            LET all == Each(v.list) IN As("list", InOrderOfTabs(all, c))
       [] d.type = "list" -> As("list", Each(v.list))
       [] d.type = "dict" ->
            As("dict", Gather([k \in DOMAIN v.dict |-> CleanValue(d.properties[k], v.dict[k], c)]))
       [] d.type = "map" ->
            LET all == Each(v.dict)
                bad == {r \in {CleanValue(d.inner, w, c) : w \in Range(v.dict)} : r.errors # {}}
            IN  As("dict", [all EXCEPT !.errors = IF bad = {} THEN {} ELSE (CHOOSE r \in bad : TRUE).errors])
       [] d.type \in {"string", "integer", "boolean", "enum", "timezone", "option"}
            \/ (c.fetch /\ d.type = "condition") -> Clean(v)
=============================================================================
