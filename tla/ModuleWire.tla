----------------------------- MODULE ModuleWire ------------------------------
(***************************************************************************)
(* Parameters on their way to the process that runs a module's code        *)
(* (cjwkernel/types.py): each becomes a Thrift ParamValue, a union of      *)
(* which at most one field is set, and a value of Python again.            *)
(***************************************************************************)
EXTENDS ParamTypes

NoField == <<>>

(* isinstance(value, int): a Python bool is an int.                        *)
IsInt(v) == Is(v, "int") \/ Is(v, "bool")

AsInt(v) == IF Is(v, "bool") THEN (IF v.bool THEN 1 ELSE 0) ELSE v.int

IntegerField(v) == IF IsInt(v) /\ ~Is(v, "bool") THEN {AsInt(v)} ELSE {}

(* arrow_param_value_to_thrift(). A tab goes with its table, a file as its *)
(* name in the directory both processes see.                               *)
RECURSIVE ToThrift(_)
ToThrift(v) ==
  CASE v = Null              -> NoField
    [] Is(v, "str")          -> [string_value |-> v.str]
    [] IntegerField(v) # {}  -> [integer_value |-> CHOOSE n \in IntegerField(v) : TRUE]
    [] Is(v, "float")        -> [float_value |-> v.float]
    [] Is(v, "bool") /\ IntegerField(v) = {} -> [boolean_value |-> v.bool]
    [] Is(v, "tab")          -> [tab_value |-> v.tab]
    [] Is(v, "list")         -> [list_value |-> [i \in DOMAIN v.list |-> ToThrift(v.list[i])]]
    [] Is(v, "dict")         -> [map_value |-> [k \in DOMAIN v.dict |-> ToThrift(v.dict[k])]]
    [] Is(v, "path")         -> [filename_value |-> v.path]

(* _thrift_param_value_to_arrow(): the first field that is set. *)
RECURSIVE FromThrift(_)
FromThrift(t) ==
  LET Set(field) == field \in DOMAIN t
  IN CASE Set("string_value")   -> Text(t.string_value)
       [] Set("integer_value")  -> [int |-> t.integer_value]
       [] Set("float_value")    -> [float |-> t.float_value]
       [] Set("boolean_value")  -> [bool |-> t.boolean_value]
       [] Set("tab_value")      -> [tab |-> t.tab_value]
       [] Set("list_value")     -> [list |-> [i \in DOMAIN t.list_value |-> FromThrift(t.list_value[i])]]
       [] Set("map_value")      -> [dict |-> [k \in DOMAIN t.map_value |-> FromThrift(t.map_value[k])]]
       [] Set("filename_value") -> [path |-> t.filename_value]
       [] OTHER                 -> Null

(* __find_tab_outputs() of cjwkernel/pandas/module.py: render()'s          *)
(* input_tabs.                                                             *)
RECURSIVE InputTabs(_)
InputTabs(v) ==
  CASE Is(v, "tab")  -> {v.tab}
    [] Is(v, "list") -> UNION {InputTabs(w) : w \in Range(v.list)}
    [] Is(v, "dict") -> UNION {InputTabs(v.dict[k]) : k \in DOMAIN v.dict}
    [] OTHER         -> {}
=============================================================================
