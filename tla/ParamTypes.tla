----------------------------- MODULE ParamTypes ------------------------------
(***************************************************************************)
(* The data types of a step's parameters (cjwstate/modules/param_dtype.py):*)
(* what coerce(), validate() and iter_dfs_dtype_values() make of any JSON. *)
(*                                                                         *)
(* A JSON value is a record whose one field tells its kind: null, bool,    *)
(* int, float, str, list or dict.  Texts are few, and what they look like  *)
(* is a matter of the sets below.  A dtype is a record with a "type".      *)
(***************************************************************************)
EXTENDS Integers, SequencesExt

Null       == [null |-> TRUE]
Text(s)    == [str |-> s]
Is(v, kind) == kind \in DOMAIN v

(* What an operation gives that raises. *)
Raised == [raised |-> TRUE]

(* "bad" has a zero byte or a lone surrogate; re.sub() makes it "fixed".   *)
InvalidTexts == {"bad"}
Cleaned(s)   == IF s \in InvalidTexts THEN "fixed" ELSE s
Numbers      == [x4 |-> 4]       \* texts that int() and float() take
Dates        == {"2020-11-16"}   \* texts that are ISO 8601
UuidTexts    == {"uuid"}
Timezones    == {"UTC"}          \* pytz.all_timezones_set

(* list(s): a text that is not empty stands for its characters.            *)
Items(v) ==
  CASE Is(v, "list") -> v.list
    [] Is(v, "dict") -> SetToSeq({Text(k) : k \in DOMAIN v.dict})
    [] Is(v, "str")  -> IF v.str = "" THEN <<>> ELSE <<v>>

Iterable(v)   == Is(v, "list") \/ Is(v, "dict") \/ Is(v, "str")
Unhashable(v) == Is(v, "list") \/ Is(v, "dict")

-----------------------------------------------------------------------------
(* Dtypes. *)

String       == [type |-> "string", default |-> Text("")]
Integer      == [type |-> "integer", default |-> [int |-> 0]]
Float        == [type |-> "float", default |-> [float |-> 0]]
Boolean      == [type |-> "boolean", default |-> [bool |-> FALSE]]
Condition    == [type |-> "condition"]
Column(types, tab)      == [type |-> "column", default |-> Text(""), columnTypes |-> types, tab |-> tab]
Multicolumn(types, tab) == [type |-> "multicolumn", columnTypes |-> types, tab |-> tab]
Enum(choices, default)  == [type |-> "enum", choices |-> choices, default |-> default]
Timezone     == [type |-> "timezone", default |-> Text("UTC")]
File         == [type |-> "file"]
Option(d)    == [type |-> "option", inner |-> d]
ListOf(d)    == [type |-> "list", inner |-> d]
DictOf(ds)   == [type |-> "dict", properties |-> ds]
MapOf(d)     == [type |-> "map", inner |-> d]
Tab          == [type |-> "tab", default |-> Text("")]
Multitab     == [type |-> "multitab", inner |-> Tab]
Multichartseries ==
  [type |-> "multichartseries",
   inner |-> DictOf([column |-> Column({"number"}, ""), color |-> String])]

Texts == {"string", "column", "tab"}              \* subclasses of ParamDTypeString
Lists == {"list", "multitab", "multichartseries"} \* _ListMethods

-----------------------------------------------------------------------------
(* ParamDTypeCondition.  Of each kind of comparison one, and its inverse.  *)

InverseOperations ==
  [cell_is_not_empty |-> "cell_is_empty", text_is_not |-> "text_is",
   number_is_not |-> "number_is", timestamp_is_not |-> "timestamp_is"]

Compares == [cell_is_empty |-> "cell", text_is |-> "text", number_is |-> "number",
             timestamp_is |-> "timestamp"]

Operations == {"", "and", "or"} \cup DOMAIN InverseOperations \cup DOMAIN Compares

NoCondition == [dict |-> [operation |-> Text("and"), conditions |-> [list |-> <<>>]]]

(* The errors that validate() may raise; in {} it raises none. Which of    *)
(* two comes first is left open.                                           *)
RECURSIVE ConditionErrors(_, _)
ConditionErrors(v, level) ==
  IF ~(Is(v, "dict") /\ "operation" \in DOMAIN v.dict) THEN {"ValueError"}
  ELSE LET operation == v.dict.operation IN
    IF level < 2
    THEN IF DOMAIN v.dict # {"operation", "conditions"} THEN {"ValueError"}
         ELSE IF Unhashable(operation) THEN {"TypeError"}
         ELSE IF operation \notin {Text("and"), Text("or")} \/ ~Is(v.dict.conditions, "list")
         THEN {"ValueError"}
         ELSE UNION {ConditionErrors(w, level + 1) : w \in Range(v.dict.conditions.list)}
    ELSE IF DOMAIN v.dict # {"operation", "column", "value", "isRegex"} THEN {"ValueError"}
         ELSE IF Unhashable(operation) THEN {"TypeError"}
         ELSE IF /\ operation \in {Text(o) : o \in Operations}
                 /\ Is(v.dict.column, "str") /\ Is(v.dict.value, "str") /\ Is(v.dict.isRegex, "bool")
         THEN {} ELSE {"ValueError"}

-----------------------------------------------------------------------------
(* ParamDType.validate() *)

RECURSIVE Errors(_, _)
Errors(d, v) ==
  LET Wrong(valid) == IF valid THEN {} ELSE {"ValueError"}
      Among(choices) == IF Unhashable(v) THEN {"TypeError"} ELSE Wrong(v \in choices)
  IN CASE d.type \in Texts -> Wrong(Is(v, "str") /\ v.str \notin InvalidTexts)
       [] d.type = "integer" -> Wrong(Is(v, "int") \/ Is(v, "bool"))
       [] d.type = "float" -> Wrong(Is(v, "int") \/ Is(v, "bool") \/ Is(v, "float"))
       [] d.type = "boolean" -> Wrong(Is(v, "bool"))
       [] d.type = "condition" -> ConditionErrors(v, 0)
       [] d.type = "multicolumn" -> Wrong(Is(v, "list") /\ \A w \in Range(v.list) : Is(w, "str"))
       [] d.type = "enum" -> Among(d.choices)
       [] d.type = "timezone" -> Among({Text(z) : z \in Timezones})
       [] d.type = "file" -> Wrong(v = Null \/ (Is(v, "str") /\ v.str \in UuidTexts))
       [] d.type = "option" -> IF v = Null THEN {} ELSE Errors(d.inner, v)
       [] d.type \in Lists ->
            IF Is(v, "list") THEN UNION {Errors(d.inner, w) : w \in Range(v.list)} ELSE Wrong(FALSE)
       [] d.type = "dict" ->
            IF Is(v, "dict") /\ DOMAIN v.dict = DOMAIN d.properties
            THEN UNION {Errors(d.properties[k], v.dict[k]) : k \in DOMAIN v.dict} ELSE Wrong(FALSE)
       [] d.type = "map" ->
            IF Is(v, "dict") THEN UNION {Errors(d.inner, v.dict[k]) : k \in DOMAIN v.dict}
            ELSE Wrong(FALSE)

Valid(d, v) == Errors(d, v) = {}

-----------------------------------------------------------------------------
(* ParamDType.coerce() *)

ListOrRaise(items) == IF Raised \in Range(items) THEN Raised ELSE [list |-> items]
DictOrRaise(f)     == IF \E k \in DOMAIN f : f[k] = Raised THEN Raised ELSE [dict |-> f]

Number(v) ==
  CASE Is(v, "int")   -> {v.int}
    [] Is(v, "float") -> {v.float}
    [] Is(v, "bool")  -> {IF v.bool THEN 1 ELSE 0}
    [] Is(v, "str")   -> IF v.str \in DOMAIN Numbers THEN {Numbers[v.str]} ELSE {}
    [] OTHER          -> {}

Truth(v) ==
  CASE Is(v, "bool") -> v.bool
    [] Is(v, "str")  -> v.str = "true"
    [] Unhashable(v) -> Items(v) # <<>>
    [] OTHER         -> 0 \notin Number(v)

RECURSIVE Coerce(_, _)
Coerce(d, v) ==
  LET Among(choices) == IF Unhashable(v) THEN Raised ELSE IF v \in choices THEN v ELSE d.default
      ToNumber(kind) == {[k \in {kind} |-> n] : n \in Number(v)}
      Each(items)    == ListOrRaise([i \in DOMAIN items |-> Coerce(d.inner, items[i])])
  IN CASE d.type \in Texts ->
            IF v = Null THEN d.default
            ELSE Text(IF Is(v, "str") THEN Cleaned(v.str) ELSE "repr")
       [] d.type = "integer" -> CHOOSE n \in IF ToNumber("int") = {} THEN {d.default} ELSE ToNumber("int") : TRUE
       [] d.type = "float" -> CHOOSE n \in IF ToNumber("float") = {} THEN {d.default} ELSE ToNumber("float") : TRUE
       [] d.type = "boolean" -> IF v = Null THEN d.default ELSE [bool |-> Truth(v)]
       [] d.type = "condition" ->
            IF ConditionErrors(v, 0) = {} THEN v
            ELSE IF "TypeError" \in ConditionErrors(v, 0) THEN Raised ELSE NoCondition
       [] d.type = "multicolumn" ->
            IF v = Null THEN [list |-> <<>>]
            ELSE IF ~Iterable(v) THEN Raised
            ELSE [list |-> [i \in DOMAIN Items(v) |->
                              IF Is(Items(v)[i], "str") THEN Items(v)[i] ELSE Text("repr")]]
       [] d.type = "enum" -> Among(d.choices)
       [] d.type = "timezone" -> Among({Text(z) : z \in Timezones})
       [] d.type = "file" -> IF Valid(d, v) THEN v ELSE Null
       [] d.type = "option" -> IF v = Null THEN Null ELSE Coerce(d.inner, v)
       [] d.type \in Lists ->
            IF v = Null THEN [list |-> <<>>] ELSE Each(IF Iterable(v) THEN Items(v) ELSE <<v>>)
       [] d.type = "dict" ->
            DictOrRaise([k \in DOMAIN d.properties |->
              Coerce(d.properties[k], IF Is(v, "dict") /\ k \in DOMAIN v.dict THEN v.dict[k] ELSE Null)])
       [] d.type = "map" ->
            IF Is(v, "dict") THEN DictOrRaise([k \in DOMAIN v.dict |-> Coerce(d.inner, v.dict[k])])
            ELSE [dict |-> <<>>]

-----------------------------------------------------------------------------
(* ParamDType.iter_dfs_dtype_values(): all (dtype, value) of a valid value. *)
RECURSIVE Visits(_, _)
Visits(d, v) ==
  {[dtype |-> d, value |-> v]} \cup
  CASE d.type = "option" -> IF v = Null THEN {} ELSE Visits(d.inner, v)
    [] d.type \in Lists -> UNION {Visits(d.inner, w) : w \in Range(v.list)}
    [] d.type = "dict" -> UNION {Visits(d.properties[k], v.dict[k]) : k \in DOMAIN v.dict}
    [] d.type = "map" -> UNION {Visits(d.inner, v.dict[k]) : k \in DOMAIN v.dict}
    [] OTHER -> {}

(* Mutant: no look into multitabs. *)
SingleTabSlugs(d, v) == {v.dict[k].str : k \in {k \in DOMAIN d.properties : d.properties[k].type = "tab"}}

(* The tab slugs in a valid value. *)
TabSlugs(d, v) == {x.value.str : x \in {x \in Visits(d, v) : x.dtype.type = "tab"}}
=============================================================================
