----------------------------- MODULE StepParams ------------------------------
(***************************************************************************)
(* The parameters of one step, on their way from a user's form, or from    *)
(* what migrate_params() of a newly imported module version makes of them, *)
(* to render() and fetch(): cjwstate/models/commands/add_step.py and       *)
(* set_step_params.py, cjwstate/params.py, renderer/execute/workflow.py    *)
(* and step.py, fetcher/fetch.py.                                          *)
(*                                                                         *)
(* Data only: who runs when, and who may have an old version of what, is   *)
(* the matter of ModuleVersions.                                           *)
(***************************************************************************)
EXTENDS ModuleSpecs, CleanParams, ModuleWire

CONSTANTS Specs,      \* specifications that adhere to the YAML schema
          Allowed,    \* MODULE_ALLOWED_SECRETS of the module
          Values,     \* JSON values, of users and modules
          Contexts    \* what there is to choose from when a step runs

VARIABLES
  spec,     \* the latest version's specification
  migrated, \* what that version's migrate_params() made of the step's params;
            \* Raised: ModuleError; Stale: not called yet; Null: no step yet
  done      \* a request that has been answered; then Nothing

vars == <<spec, migrated, done>>

Nothing == [what |-> "nothing"]

Stale == [stale |-> TRUE]

Migrated == migrated \notin {Null, Stale}

(* {**old, **new} *)
Update(old, new) == [dict |-> new.dict @@ old.dict]

OneOf(schema) == {[dict |-> [k \in {i} |-> v]] : i \in DOMAIN schema.properties, v \in Values}

-----------------------------------------------------------------------------

(* validate_zipfile() *)
ValidSpecs == {s \in Specs : ValidSpec(s, Allowed)}

(* import_zipfile() *)
Import ==
  /\ done = Nothing /\ spec' \in ValidSpecs \ {spec}
  /\ migrated' = IF migrated = Null THEN Null ELSE Stale
  /\ UNCHANGED done

(* get_migrated_params() of a step whose cached params another version     *)
(* made.  The module's code may raise, or give any JSON; here it gives the *)
(* default params, or one of them wrong, missing or too many, or no dict.  *)
Migrations ==
  LET right == DefaultParams(spec)
      keys  == DOMAIN right.dict
  IN  {right, [list |-> <<>>], Update(right, [dict |-> [old |-> Null]])}
      \cup {Update(right, v) : v \in OneOf(Schema(spec))}
      \cup {[dict |-> [k \in keys \ {missing} |-> right.dict[k]]] : missing \in keys}

MigrateParams ==
  /\ migrated = Stale
  /\ migrated' \in {Raised} \cup IF Schema(spec) = Raised THEN {} ELSE Migrations
  /\ UNCHANGED <<spec, done>>

(* AddStep.amend_create_kwargs() *)
AddStep ==
  /\ done = Nothing /\ migrated = Null /\ Schema(spec) # Raised
  /\ \E given \in OneOf(Schema(spec)) \cup {[dict |-> <<>>]} :
       LET new == Update(DefaultParams(spec), given)
       IN  Valid(Schema(spec), new) /\ migrated' = new
  /\ UNCHANGED <<spec, done>>

(* SetStepParams.amend_create_kwargs(): both what migrate_params() gave    *)
(* and what the user makes of it must be valid.                            *)
SetStepParams ==
  /\ done = Nothing /\ Migrated /\ migrated # Raised /\ Valid(Schema(spec), migrated)
  /\ \E given \in OneOf(Schema(spec)) :
       LET new == Update(migrated, given)
       IN  Valid(Schema(spec), new) /\ migrated' = new
  /\ UNCHANGED <<spec, done>>

(* renderer/execute/workflow.py, _get_migrated_params(): the params that   *)
(* the renderer goes on with; Raised, if the errors are not ValueErrors.   *)
UsableParams ==
  IF Schema(spec) = Raised THEN Raised
  ELSE IF migrated = Raised THEN DefaultParams(spec)
  ELSE LET errors == Errors(Schema(spec), migrated)
       IN  CASE errors = {} -> migrated
             [] errors = {"ValueError"} -> Coerce(Schema(spec), migrated)
             [] "TypeError" \in errors -> Raised

(* execute_step_pre(): get_param_values(); and what the module's process   *)
(* gets of them.                                                           *)
Render ==
  /\ done = Nothing /\ Migrated /\ UsableParams # Raised
  /\ \E c \in Contexts :
       LET context == c @@ [params |-> UsableParams, fetch |-> FALSE]
           result  == CleanValue(Schema(spec), UsableParams, context)
       IN  done' = [what |-> "render", context |-> context, result |-> result,
                    received |-> IF result.errors \cup result.raises = {}
                                 THEN FromThrift(ToThrift(result.value)) ELSE Null]
  /\ UNCHANGED <<spec, migrated>>

RenderFails ==
  /\ done = Nothing /\ Migrated /\ UsableParams = Raised
  /\ done' = [what |-> "bug"] /\ UNCHANGED <<spec, migrated>>

(* fetch_or_wrap_error(): only ModuleError and ValueError are expected of  *)
(* migrate_params().                                                       *)
Fetch ==
  /\ done = Nothing /\ Migrated /\ migrated # Raised /\ Valid(Schema(spec), migrated)
  /\ \E c \in Contexts :
       LET context == c @@ [params |-> migrated, fetch |-> TRUE]
       IN  done' = [what |-> "fetch", context |-> context,
                    result |-> CleanValue(Schema(spec), migrated, context)]
  /\ UNCHANGED <<spec, migrated>>

Init ==
  /\ spec \in ValidSpecs
  /\ migrated = Null /\ done = Nothing

Answered == done # Nothing /\ done' = Nothing /\ UNCHANGED <<spec, migrated>>

Next == Answered \/ Import \/ MigrateParams \/ AddStep \/ SetStepParams \/ Render \/ RenderFails \/ Fetch

Spec == Init /\ [][Next]_vars

-----------------------------------------------------------------------------
(* Properties.                                                             *)

Rendered == done.what = "render"
Prompted == Rendered /\ done.result.errors # {} /\ done.result.raises = {}

Used == done.context.params

Visited == Visits(Schema(spec), Used)

(* A column chooser inside a list, or an explicit schema, may name a tab   *)
(* parameter that is none: validate_module_spec() does not look there.     *)
LooksDeeper(s) ==
  Has(s, "schema") \/ \E p \in ParamsOf(s) : \E q \in Range(Get(p, "child_parameters", <<>>)) : Has(q, "tab_parameter")

WildTabParameter(schema) ==
  LooksDeeper(spec) /\
  \E x \in Visits(schema, Used) :
    /\ x.dtype.type \in {"column", "multicolumn"} /\ x.dtype.tab # ""
    /\ ~(x.dtype.tab \in DOMAIN schema.properties /\ schema.properties[x.dtype.tab].type = "tab")

(* A comparison may be "and" or "or", for validate(). *)
Comparisons(v) == UNION {Range(w.dict.conditions.list) : w \in Range(v.dict.conditions.list)}
EmptyAnd == \E x \in Visited : x.dtype.type = "condition" /\
              \E w \in Comparisons(x.value) : w.dict.operation \in {Text("and"), Text("or")}

(* A menu in a list, or whose first option is a separator: no schema.      *)
MenuWithoutDefault(p) == p.type \in {"menu", "radio"} /\ EnumDtype(p) = Raised

WildMenu(s) == \E p \in ParamsOf(s) :
  \/ MenuWithoutDefault(p) /\ ~Has(p, "default")
  \/ p.type = "list" /\ \E q \in Range(p.child_parameters) : MenuWithoutDefault(q)

(* A part of an explicit schema that cannot be built, though it adheres to *)
(* the YAML schema: "unknown" is a property that parse() does not know.    *)
RECURSIVE WildPart(_)
WildPart(d) ==
  \/ d.type = "enum" /\ (d.default \notin d.choices \/ \E v \in d.choices : Unhashable(v))
  \/ d.type = "list" /\ ~Has(d, "inner_dtype")
  \/ Has(d, "unknown")
  \/ Has(d, "inner_dtype") /\ WildPart(d.inner_dtype)
  \/ Has(d, "value_dtype") /\ WildPart(d.value_dtype)
  \/ Has(d, "properties") /\ \E k \in DOMAIN d.properties : WildPart(d.properties[k])

WildSchema(s) == Has(s, "schema") /\ \E k \in DOMAIN s.schema : WildPart(s.schema[k])

(* What coerce() cannot take, though "This cannot raise".                  *)
RECURSIVE Defies(_, _)
Defies(d, v) ==
  CASE d.type \in {"enum", "timezone"} -> Unhashable(v)
    [] d.type = "multicolumn" -> ~Iterable(v) /\ v # Null
    [] d.type = "condition" -> "TypeError" \in ConditionErrors(v, 0)
    [] d.type \in Lists -> Iterable(v) /\ \E i \in DOMAIN Items(v) : Defies(d.inner, Items(v)[i])
    [] d.type \in {"option", "map"} -> Is(v, "dict") /\ \E k \in DOMAIN v.dict :
                                       Defies(d.inner, IF d.type = "map" THEN v.dict[k] ELSE v)
    [] d.type = "dict" -> Is(v, "dict") /\ \E k \in DOMAIN v.dict \cap DOMAIN d.properties :
                            Defies(d.properties[k], v.dict[k])
    [] OTHER -> FALSE

(* "valid schema means no KeyError" (renderprep.py): whatever the user or  *)
(* a module's migrate_params() made of the parameters, a step's render     *)
(* begins, or ends in one of the errors that its user is told of; but for  *)
(* the cases above.                                                        *)
RendersBegin ==
  /\ (Rendered /\ ~WildTabParameter(Schema(spec)) /\ ~EmptyAnd) =>
       done.result.raises \subseteq {"TabCycleError", "TabOutputUnreachableError"}
  /\ done.what = "bug" => WildMenu(spec) \/ WildSchema(spec) \/ Defies(Schema(spec), migrated)

(* load_from_workflow() takes a schema that has no tab parameter in its    *)
(* default params for one that has none at all.  That is wrong for lists   *)
(* and maps of tabs, which only an explicit schema can have.  Of any other *)
(* it reads the params as migrate_params() gave them: if that raises, or   *)
(* gives what is not valid, the ModuleError or ValueError ends the command *)
(* that asks ("we don't handle that right now"), and nothing is known.     *)
LooksTabless(schema) ==
  \A x \in Visits(schema, Coerce(schema, Null)) : x.dtype.type \notin {"tab", "multitab"}

GraphRaises(schema) == ~LooksTabless(schema) /\ (migrated = Raised \/ ~Valid(schema, migrated))

DependsOn(schema) == IF LooksTabless(schema) THEN {} ELSE TabSlugs(schema, migrated)

(* TabFlow.input_tab_slugs, by which the renderer orders the tabs: of the  *)
(* params it goes on with.                                                 *)
InputTabSlugs(schema) == TabSlugs(schema, Used)

TabsInCollections(schema) ==
  LooksTabless(schema) /\ \E x \in Visits(schema, Used) : x.dtype.type \in {"tab", "multitab"}

Known(slug) ==
  LET schema == Schema(spec)
  IN  /\ slug \in InputTabSlugs(schema)
      /\ GraphRaises(schema) \/ TabsInCollections(schema) \/ slug \in DependsOn(schema)

RECURSIVE FitsCondition(_, _)
FitsCondition(w, c) ==
  \/ w = Null
  \/ Has(w.dict, "conditions") /\ \A x \in Range(w.dict.conditions.list) : x # Null /\ FitsCondition(x, c)
  \/ Has(w.dict, "condition") /\ FitsCondition(w.dict.condition, c)
  \/ /\ Has(w.dict, "column") /\ w.dict.column.str \in DOMAIN c.columns
     /\ Compares[w.dict.operation.str] \in {"cell", c.columns[w.dict.column.str]}

(* What render() may count on: *)
RECURSIVE Fits(_, _, _)
Fits(d, w, c) ==
  LET columns == UNION {{<<s, f[s]>> : s \in DOMAIN f} : f \in OutputColumns(c, Get(d, "tab", "")) }
      Good(s) == \E x \in columns : x[1] = s /\ (d.columnTypes = {} \/ x[2] \in d.columnTypes)
      ok      == {t.slug : t \in {t \in Range(c.tabs) : t.status = "ok"}}
  IN CASE d.type = "column" -> w.str = "" \/ Good(w.str)
       [] d.type = "multicolumn" -> \A x \in Range(w.list) : Good(x.str)
       [] d.type = "multichartseries" ->
            \A x \in Range(w.list) : x.dict.column.str # "" /\ Fits(d.inner, x, c)
       [] d.type = "tab" -> w = Null \/ w.tab \in ok
       [] d.type = "multitab" ->
            \E chosen \in SUBSET ok :
              w.list = SelectSeq([i \in DOMAIN c.tabs |-> [tab |-> c.tabs[i].slug]], LAMBDA t : t.tab \in chosen)
       [] d.type = "condition" -> FitsCondition(w, c)
       [] d.type = "file" -> w = Null \/ w.path \in c.files
       [] d.type = "float" -> Is(w, "float")
       [] d.type = "list" -> \A x \in Range(w.list) : Fits(d.inner, x, c)
       [] d.type = "dict" -> \A k \in DOMAIN d.properties : Fits(d.properties[k], w.dict[k], c)
       [] d.type = "map" -> \A k \in DOMAIN w.dict : Fits(d.inner, w.dict[k], c)
       [] OTHER -> Valid(d, w)

(* A render gets columns that its input table has, of types it asked for,  *)
(* tabs that have output, in the order of the workflow, conditions only on *)
(* columns they can be asked of: whatever was chosen, coerced or left over *)
(* from another version or another table.  All its input tabs are such as  *)
(* the renderer's order and the dependency graph know, but for the cases   *)
(* above.                                                                  *)
RendersGetWhatTheyAskedFor ==
  (Rendered /\ done.result.errors \cup done.result.raises = {}) =>
    /\ Fits(Schema(spec), done.received, done.context)
    /\ \A slug \in InputTabs(done.received) : Known(slug)

-----------------------------------------------------------------------------
WrongTypes == {e \in done.result.errors : "columns" \in DOMAIN e}

(* The quick fixes, all of them: steps put before this one.                *)
Fixed(c) ==
  [c EXCEPT !.columns =
     [s \in DOMAIN c.columns |->
        IF \E e \in WrongTypes : s \in e.columns
        THEN BestWantedType((CHOOSE e \in WrongTypes : s \in e.columns).wanted) ELSE c.columns[s]]]

(* Each column chosen, and the types it is wanted to have. *)
RECURSIVE ComparisonWants(_)
ComparisonWants(w) ==
  IF "conditions" \in DOMAIN w THEN UNION {ComparisonWants(x.dict) : x \in Range(w.conditions.list)}
  ELSE LET operation == IF w.operation.str \in DOMAIN InverseOperations
                        THEN InverseOperations[w.operation.str] ELSE w.operation.str
       IN  IF operation \in DOMAIN Compares /\ Compares[operation] # "cell"
           THEN {<<w.column.str, {Compares[operation]}>>} ELSE {}

Wants(x) ==
  CASE x.dtype.type = "column" -> {<<x.value.str, x.dtype.columnTypes>>}
    [] x.dtype.type = "multicolumn" -> {<<v.str, x.dtype.columnTypes>> : v \in Range(x.value.list)}
    [] x.dtype.type = "condition" -> ComparisonWants(x.value.dict)
    [] OTHER -> {}

Conflict ==
  LET wants == UNION {Wants(x) : x \in Visited}
  IN  \E u, w \in wants : u[1] = w[1] /\ u[2] # w[2] /\ {} \notin {u[2], w[2]}

OfOtherTab == \E x \in Visited : x.dtype.type \in {"column", "multicolumn"} /\ x.dtype.tab # ""

InMap == \E x \in Visited : x.dtype.type = "map"

(* One look at the errors is enough: the quick fixes they offer, applied   *)
(* together, leave no column of a wrong type.  Unless two parameters want  *)
(* different types of a column; or the column is another tab's, which the  *)
(* fix does not touch; or it is chosen in a map, whose first error ends    *)
(* the search, though "Recursive implementations must concatenate these".  *)
QuickFixesHelp ==
  (Prompted /\ ~Conflict /\ ~OfOtherTab /\ ~InMap) =>
    \A e \in CleanValue(Schema(spec), Used, Fixed(done.context)).errors : "columns" \notin DOMAIN e

(* The renderer's order of tabs knows each tab whose output can matter to  *)
(* a step, and so does the DependencyGraph, unless it raises or the step   *)
(* has tabs in a list or map: with the output of any other tab changed,    *)
(* gone or not yet there, the step's render gets the same.                 *)
OnlyKnownTabsMatter ==
  (Rendered /\ ~WildTabParameter(Schema(spec))) =>
    \A i \in DOMAIN done.context.tabs :
      \/ Known(done.context.tabs[i].slug)
      \/ \A status \in {"ok", "none", "error"} :
           CleanValue(Schema(spec), Used, [done.context EXCEPT !.tabs[i].status = status]) = done.result
=============================================================================
