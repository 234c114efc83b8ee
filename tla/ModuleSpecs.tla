----------------------------- MODULE ModuleSpecs -----------------------------
(***************************************************************************)
(* A module's specification, as its author writes it: a list of parameters *)
(* (cjwstate/modules/param_spec.py), each a record with an id, a type and  *)
(* the properties its author gave; and "schema", the properties of an      *)
(* explicit param_schema, if any, as JSON has them.  What                  *)
(* validate_module_spec() refuses (module_loader.py), and the dtype that   *)
(* get_param_schema() builds of the rest (types.py).  Its adherence to the *)
(* YAML schema is taken for granted.                                       *)
(***************************************************************************)
EXTENDS ParamTypes

Has(p, property) == property \in DOMAIN p

Get(p, property, default) == IF Has(p, property) THEN p[property] ELSE default

Separator == "separator"

(* ParamSpecMenu, ParamSpecRadio: what may be chosen. *)
OptionValues(p) == Range(p.options) \ {Separator}

ParamsOf(spec) == Range(spec.params)

-----------------------------------------------------------------------------
(* ParamSpec.dtype, of each type of parameter that has a value of its own. *)

NoValueTypes == {"statictext", "secret", "button"}

StringTypes == {"string", "numberformat", "custom"}
StringDtype(p) == [String EXCEPT !.default = Get(p, "default", @)]

NumberTypes == {"integer", "float"}
NumberDtype(p) ==
  [IF p.type = "integer" THEN Integer ELSE Float EXCEPT !.default = Get(p, "default", @)]

CheckboxDtype(p) == [Boolean EXCEPT !.default = Get(p, "default", @)]

(* Raised in place of a dtype that cannot be built: ParamDTypeEnum's       *)
(* __post_init__() raises ValueError, and _from_kwargs(), a menu's first   *)
(* option's "value" if that is a separator.                                *)
EnumTypes == {"menu", "radio"}
EnumDtype(p) ==
  LET first   == IF p.options = <<>> THEN Separator ELSE p.options[1]
      default == Get(p, "default", first)
  IN  IF default = Separator \/ default \notin OptionValues(p) THEN Raised
      ELSE Enum({Text(o) : o \in OptionValues(p)}, Text(default))

ColumnTypes == {"column", "multicolumn"}
ColumnDtype(p) ==
  LET types == Get(p, "column_types", {})
      tab   == Get(p, "tab_parameter", "")
  IN  IF p.type = "column" THEN Column(types, tab) ELSE Multicolumn(types, tab)

(* ParamSpecGdrivefile: the JSON that Google's file picker returns.        *)
DriveFile == Option(DictOf([id |-> String, url |-> String]))

(* What says nothing but its type. *)
PlainDtypes ==
  [timezone |-> Timezone, condition |-> Condition, multichartseries |-> Multichartseries,
   file |-> File, tab |-> Tab, multitab |-> Multitab, gdrivefile |-> DriveFile]

ScalarDtype(p) ==
  CASE p.type \in StringTypes -> StringDtype(p)
    [] p.type \in NumberTypes -> NumberDtype(p)
    [] p.type = "checkbox"    -> CheckboxDtype(p)
    [] p.type \in EnumTypes   -> EnumDtype(p)
    [] p.type \in ColumnTypes -> ColumnDtype(p)
    [] OTHER                  -> PlainDtypes[p.type]

(* The dict of those of params that have a value. *)
DictOfParams(params, DtypeOf(_)) ==
  LET valued == {p \in params : p.type \notin NoValueTypes}
  IN  IF \E p \in valued : DtypeOf(p) = Raised THEN Raised
      ELSE DictOf([i \in {p.id : p \in valued} |-> DtypeOf(CHOOSE p \in valued : p.id = i)])

RECURSIVE Dtype(_)
Dtype(p) ==
  IF p.type # "list" THEN ScalarDtype(p)
  ELSE LET children == DictOfParams(Range(p.child_parameters), Dtype)
       IN  IF children = Raised THEN Raised ELSE ListOf(children)

(* ParamDType.parse(): what each type must and may be given.  The YAML     *)
(* schema forbids no properties it does not know, and does not require     *)
(* inner_dtype: its word for that is "requred".  (A default of a           *)
(* collection, which it does not know either, is left out here.)           *)
Required == [enum |-> {"choices", "default"}, list |-> {"inner_dtype"}, dict |-> {"properties"},
             map |-> {"value_dtype"}]

Optional == [string |-> {"default"}, boolean |-> {"default"}, integer |-> {"default"}, tab |-> {"default"},
             column |-> {"default", "column_types", "tab_parameter"},
             multicolumn |-> {"column_types", "tab_parameter"}]

TakesProperties(d) ==
  LET required == Get(Required, d.type, {})
  IN  required \subseteq DOMAIN d /\ DOMAIN d \subseteq {"type"} \cup required \cup Get(Optional, d.type, {})

(* The __init__() and __post_init__() of a type that holds no other. *)
ParseScalar(d) ==
  CASE d.type = "string"  -> StringDtype(d)
    [] d.type = "boolean" -> CheckboxDtype(d)
    [] d.type = "integer" -> NumberDtype(d)
    [] d.type = "tab"     -> [Tab EXCEPT !.default = Get(d, "default", @)]
    [] d.type \in ColumnTypes -> ColumnDtype(d)
    [] d.type = "enum"    ->
         IF d.default \in d.choices /\ \A v \in d.choices : ~Unhashable(v) THEN Enum(d.choices, d.default)
         ELSE Raised

RECURSIVE Parse(_)
Parse(d) ==
  LET Holding(Build(_), inner) == IF inner = Raised THEN Raised ELSE Build(inner)
  IN  IF ~TakesProperties(d) THEN Raised
      ELSE CASE d.type = "list" -> Holding(ListOf, Parse(d.inner_dtype))
             [] d.type = "map"  -> Holding(MapOf, Parse(d.value_dtype))
             [] d.type = "dict" ->
                  LET inner == [k \in DOMAIN d.properties |-> Parse(d.properties[k])]
                  IN  IF Raised \in Range(inner) THEN Raised ELSE DictOf(inner)
             [] OTHER -> ParseScalar(d)

(* ModuleSpec.get_param_schema() *)
Schema(spec) ==
  IF Has(spec, "schema") THEN Parse([type |-> "dict", properties |-> spec.schema])
  ELSE DictOfParams(ParamsOf(spec), Dtype)

DefaultParams(spec) == Coerce(Schema(spec), Null)

-----------------------------------------------------------------------------
(* validate_module_spec() *)

IdsAreUnique(spec) ==
  \A i, j \in DOMAIN spec.params : spec.params[i].id = spec.params[j].id => i = j

DefaultsAreOptions(spec) ==
  \A p \in ParamsOf(spec) : Has(p, "default") /\ Has(p, "options") => p.default \in OptionValues(p)

(* MODULE_ALLOWED_SECRETS *)
SecretsAreAllowed(spec, allowed) ==
  \A p \in ParamsOf(spec) : Has(p, "service") => p.service \in allowed

VisibleIfsAreRight(spec) ==
  \A p \in ParamsOf(spec) : Has(p, "visible_if") =>
    \E q \in ParamsOf(spec) :
      /\ q.id = p.visible_if.id
      /\ Has(q, "options") => p.visible_if.values \subseteq OptionValues(q)

(* Only of the parameters at the top, not of a list's. *)
TabParametersAreTabs(spec) ==
  \A p \in ParamsOf(spec) : Has(p, "tab_parameter") =>
    \E q \in ParamsOf(spec) : q.id = p.tab_parameter /\ q.type = "tab"

SecretParametersAreSecrets(spec) ==
  \A p \in ParamsOf(spec) : Has(p, "secret_parameter") =>
    \E q \in ParamsOf(spec) : /\ q.id = p.secret_parameter /\ q.type = "secret"
                              /\ p.type = "gdrivefile" => Get(q, "service", "") = "google"

ValidSpec(spec, allowed) ==
  /\ IdsAreUnique(spec) /\ DefaultsAreOptions(spec) /\ SecretsAreAllowed(spec, allowed)
  /\ VisibleIfsAreRight(spec) /\ TabParametersAreTabs(spec) /\ SecretParametersAreSecrets(spec)
=============================================================================
