---------------------------- MODULE ModuleResults ----------------------------
(***************************************************************************)
(* What a module's render() or fetch() returns, on its way to Workbench:   *)
(* coerced in the module's process (cjwkernel/pandas/types.py, module.py), *)
(* made a Thrift message, read and validated in the other                  *)
(* (cjwkernel/kernel.py, types.py, validate.py).  The process runs the     *)
(* module's own code, so it may send any message at all.                   *)
(*                                                                         *)
(* A value of Python is a record whose one field tells its type: null,     *)
(* text, dict, list, tuple, frame, path, result (a ProcessResult), or      *)
(* other.  A data frame, an Arrow file and its metadata have a number of   *)
(* rows, n, and columns of a name and a type.  The letters of a text are   *)
(* not told apart: where Python would take a text for a list of letters,   *)
(* or a dict for a list of its keys, it has none here.                     *)
(***************************************************************************)
EXTENDS Integers, SequencesExt

CONSTANTS RawResults,  \* what modules return
          RawMessages, \* what modules that write Arrow files return
          ArrowFiles,  \* the files they write
          Forged,      \* messages of modules that replace render_thrift()
          InputColumns, \* columns of the input table
          MaxRowsPerTable

VARIABLE call

Is(v, type) == type \in DOMAIN v
Null        == [null |-> TRUE]
Raised      == [raised |-> TRUE]
Empty       == [n |-> 0, columns |-> <<>>]

Output == "output"           \* the file the process may write
MaxInt == 4                  \* stands for 2^31 - 1
Sources == {"module", "cjwmodule", "cjwparse", ""}   \* "" is None
Formats == {"{:,}", "{:d}"}  \* those parse_number_format() takes
DefaultFormat == "{:,}"
ColumnTypes == {"text", "number", "timestamp"}

(* In a message, json is a text: that of some value, "", or no JSON at all.*)
NoJson  == [nojson |-> TRUE]
BadJson == [badjson |-> TRUE]

(* A list of what may have been raised is raised. *)
AllOrRaised(s) == IF Raised \in Range(s) THEN Raised ELSE [list |-> s]

Get(dict, key, default) == IF key \in DOMAIN dict THEN dict[key] ELSE default

(* The items of a list or tuple; nothing has none. *)
IsList(v) == Is(v, "list") \/ Is(v, "tuple")
Items(v)  == IF Is(v, "list") THEN v.list ELSE IF Is(v, "tuple") THEN v.tuple ELSE <<>>

IsEmpty(v) == v \in {Null, [text |-> ""], [tuple |-> <<>>], [list |-> <<>>], [dict |-> <<>>]}

(* json.dumps() raises no TypeError. *)
RECURSIVE IsJson(_)
IsJson(v) ==
  \/ \E type \in {"null", "text", "bool", "int", "float"} : Is(v, type)
  \/ IsList(v) /\ \A i \in DOMAIN Items(v) : IsJson(Items(v)[i])
  \/ Is(v, "dict") /\ \A k \in DOMAIN v.dict : IsJson(v.dict[k])

-----------------------------------------------------------------------------
(* Coercion, in the module's process. *)

(* I18nMessage.coerce(): text, or (id, arguments, source).                 *)
CoerceMessage(v) ==
  IF Is(v, "text") THEN [id |-> "TODO_i18n", arguments |-> [text |-> [text |-> v.text]], source |-> ""]
  ELSE IF /\ Is(v, "tuple") /\ Len(v.tuple) \in 2 .. 3
          /\ Is(v.tuple[1], "text") /\ Is(v.tuple[2], "dict")
          /\ Len(v.tuple) = 3 => v.tuple[3] \in {[text |-> s] : s \in Sources \ {""}} \cup {Null}
       THEN [id |-> v.tuple[1].text, arguments |-> v.tuple[2].dict,
             source |-> IF Len(v.tuple) = 3 /\ Is(v.tuple[3], "text") THEN v.tuple[3].text ELSE ""]
       ELSE Raised

QuickFixOf(text, action, args) ==
  IF CoerceMessage(text) = Raised \/ ~IsJson([list |-> <<text, action>> \o args]) THEN Raised
  ELSE [text |-> CoerceMessage(text), action |-> action, args |-> args]

(* QuickFix.coerce(): a dict, or (text, action, *args).                    *)
CoerceQuickFix(v) ==
  IF Is(v, "dict") /\ DOMAIN v.dict = {"text", "action", "args"} /\ IsJson(v)
  THEN QuickFixOf(v.dict.text, v.dict.action, Items(v.dict.args))
  ELSE IF Len(Items(v)) >= 2
  THEN QuickFixOf(Items(v)[1], Items(v)[2], SubSeq(Items(v), 3, Len(Items(v))))
  ELSE Raised

(* [QuickFix.coerce(qf) for qf in v]: only what is empty can be gone       *)
(* through without being a list.                                           *)
CoerceQuickFixes(v) ==
  IF IsList(v) \/ (IsEmpty(v) /\ v # Null)
  THEN AllOrRaised([i \in DOMAIN Items(v) |-> CoerceQuickFix(Items(v)[i])]) ELSE Raised

ErrorOf(message, fixes) ==
  IF Raised \in {message, fixes} THEN Raised ELSE [message |-> message, fixes |-> fixes.list]

(* ProcessResultError.coerce() *)
CoerceError(v) ==
  IF IsEmpty(v) THEN Raised
  ELSE IF Is(v, "text") \/ Is(v, "tuple") THEN ErrorOf(CoerceMessage(v), [list |-> <<>>])
  ELSE IF Is(v, "dict") /\ "message" \in DOMAIN v.dict
  THEN ErrorOf(CoerceMessage(v.dict.message), CoerceQuickFixes(Get(v.dict, "quickFixes", [list |-> <<>>])))
  ELSE Raised

(* ProcessResultError.coerce_list() *)
CoerceErrors(v) ==
  IF v \in {Null, [text |-> ""]} THEN [list |-> <<>>]
  ELSE IF Is(v, "list") THEN AllOrRaised([i \in DOMAIN v.list |-> CoerceError(v.list[i])])
  ELSE AllOrRaised(<<CoerceError(v)>>)

(* validate_dataframe() of library cjwpandasmodule.                        *)
ValidFrame(f) ==
  /\ \A i, j \in DOMAIN f.columns : f.columns[i].name = f.columns[j].name => i = j
  /\ \A i \in DOMAIN f.columns : f.columns[i].name # "" /\ f.columns[i].type \in ColumnTypes

(* _infer_column(): the type is the data's, the format the module's, or    *)
(* else that of the input's column of the same name and type.              *)
InferColumn(column, formats, fallbacks) ==
  LET name == column.name
      same == {f \in Range(fallbacks) : f.name = name /\ f.type = column.type}
  IN  IF name \in DOMAIN formats
      THEN IF column.type = "number" /\ formats[name] \in Formats
           THEN column @@ [format |-> formats[name]] ELSE Raised
      ELSE IF same # {} THEN CHOOSE f \in same : TRUE
      ELSE column @@ [format |-> IF column.type = "number" THEN DefaultFormat ELSE ""]

(* A ProcessResult; or Raised, if any part was.                            *)
Result(frame, errors, json, formats, fallbacks) ==
  LET columns == AllOrRaised([i \in DOMAIN frame.columns |-> InferColumn(frame.columns[i], formats, fallbacks)])
  IN  IF ~ValidFrame(frame) \/ Raised \in {errors, columns} THEN Raised
      ELSE [frame |-> frame, errors |-> errors.list, json |-> json, columns |-> columns.list]

OnlyErrors(errors) == Result(Empty, errors, [dict |-> <<>>], <<>>, <<>>)

FrameOrEmpty(v) == IF v = Null THEN Empty ELSE v.frame

(* _coerce_2tuple(), _coerce_3tuple(): a message, or a table, errors and   *)
(* json.                                                                   *)
CoerceTuple(t, fallbacks) ==
  IF Is(t[1], "text") /\ Is(t[2], "dict")
  THEN OnlyErrors(AllOrRaised(<<ErrorOf(CoerceMessage([tuple |-> t]), [list |-> <<>>])>>))
  ELSE IF Is(t[1], "frame") \/ t[1] = Null
  THEN LET json == IF Len(t) = 2 THEN Null ELSE t[3]
       IN  IF json # Null /\ ~Is(json, "dict") THEN Raised
           ELSE Result(FrameOrEmpty(t[1]), CoerceErrors(t[2]), IF json = Null THEN [dict |-> <<>>] ELSE json, <<>>, fallbacks)
  ELSE Raised

(* _coerce_dict(): an error; or keywords, among them the old ones "error"  *)
(* and "quick_fixes".  Nobody looks at json.                               *)
CoerceDict(d, fallbacks) ==
  LET legacy == IF "error" \notin DOMAIN d THEN <<>>
                ELSE <<ErrorOf(CoerceMessage(d.error), CoerceQuickFixes(Get(d, "quick_fixes", [list |-> <<>>])))>>
      errors == CoerceErrors(Get(d, "errors", [list |-> <<>>]))
      frame  == Get(d, "dataframe", [frame |-> Empty])
      known  == {"errors", "error", "quick_fixes", "dataframe", "column_formats", "json", "columns"}
  IN  IF {"message", "quickFixes"} \subseteq DOMAIN d THEN OnlyErrors(AllOrRaised(<<CoerceError([dict |-> d])>>))
      ELSE IF \/ errors = Raised \/ Raised \in Range(legacy) \/ ~Is(frame, "frame") \/ ~(DOMAIN d \subseteq known)
              \/ "quick_fixes" \in DOMAIN d /\ "error" \notin DOMAIN d
      THEN Raised
      ELSE Result(frame.frame, [list |-> errors.list \o legacy], Get(d, "json", [dict |-> <<>>]),
                  Get(d, "column_formats", <<>>), fallbacks)

(* ProcessResult.coerce().  A ProcessResult is what the default render()   *)
(* returns of a fetched table.                                             *)
Coerce(v, fallbacks) ==
  CASE v = Null       -> OnlyErrors([list |-> <<>>])
    [] Is(v, "text")  -> OnlyErrors(AllOrRaised(<<ErrorOf(CoerceMessage(v), [list |-> <<>>])>>))
    [] Is(v, "list")  -> OnlyErrors(CoerceErrors(v))
    [] Is(v, "frame") -> Result(v.frame, [list |-> <<>>], [dict |-> <<>>], <<>>, fallbacks)
    [] Is(v, "result") -> IF ValidFrame(v.result.frame) THEN v.result ELSE Raised
    [] Is(v, "dict")  -> CoerceDict(v.dict, fallbacks)
    [] Is(v, "tuple") -> IF Len(v.tuple) \in 2 .. 3 THEN CoerceTuple(v.tuple, fallbacks) ELSE Raised
    [] OTHER          -> Raised

TruncatedWarning(n) ==
  [message |-> [id |-> "truncated", source |-> "",
                arguments |-> [old_number |-> [int |-> n], new_number |-> [int |-> MaxRowsPerTable]]],
   fixes |-> <<>>]

(* Mutant: nobody is told. *)
TruncatedSilently(r) ==
  IF r.frame.n <= MaxRowsPerTable THEN r ELSE [r EXCEPT !.frame.n = MaxRowsPerTable]

(* ProcessResult.truncate_in_place_if_too_big() *)
Truncated(r) ==
  IF r.frame.n <= MaxRowsPerTable THEN r
  ELSE [r EXCEPT !.frame.n = MaxRowsPerTable, !.errors = Append(@, TruncatedWarning(r.frame.n))]

-----------------------------------------------------------------------------
(* Into Thrift. *)

(* _i18n_argument_to_thrift(): a bool is an int, None is nothing it knows, *)
(* and Thrift cannot write what is wider than an i32.                      *)
ArgumentToThrift(v) ==
  CASE Is(v, "text") \/ Is(v, "float") -> v
    [] Is(v, "bool") -> [int |-> IF v.bool THEN 1 ELSE 0]
    [] Is(v, "int")  -> IF v.int <= MaxInt THEN v ELSE Raised
    [] OTHER         -> Raised

MessageToThrift(m) ==
  LET arguments == [k \in DOMAIN m.arguments |-> ArgumentToThrift(m.arguments[k])]
  IN  IF \E k \in DOMAIN arguments : arguments[k] = Raised THEN Raised ELSE [m EXCEPT !.arguments = arguments]

(* QuickFix.to_arrow() asserts that it is the one action there is; its     *)
(* arguments are a module's name and its parameters.                       *)
QuickFixToThrift(q) ==
  IF \/ q.action # [text |-> "prependModule"] \/ Len(q.args) # 2 \/ ~Is(q.args[1], "text")
     \/ ~IsJson(q.args[2]) \/ MessageToThrift(q.text) = Raised
  THEN Raised ELSE [q EXCEPT !.text = MessageToThrift(@)]

ErrorToThrift(e) ==
  ErrorOf(MessageToThrift(e.message), AllOrRaised([i \in DOMAIN e.fixes |-> QuickFixToThrift(e.fixes[i])]))

(* None is "", anything else json_encode()'s text. *)
JsonToThrift(v) == IF v = Null THEN NoJson ELSE IF IsJson(v) THEN v ELSE Raised

Send(n, columns, file, errors, json) ==
  LET thrift == AllOrRaised([i \in DOMAIN errors |-> ErrorToThrift(errors[i])])
  IN  IF Raised \in {thrift, JsonToThrift(json)} THEN Raised
      ELSE [filename |-> IF columns = <<>> THEN "" ELSE Output, n |-> n, columns |-> columns,
            file |-> file, errors |-> thrift.list, json |-> JsonToThrift(json)]

(* dataframe_to_arrow_table() writes the columns that the ProcessResult    *)
(* says: they must be in its table, and of that type.                      *)
ColumnsAreThere(r) ==
  \A i \in DOMAIN r.columns : \E j \in DOMAIN r.frame.columns :
    r.columns[i].name = r.frame.columns[j].name /\ r.columns[i].type = r.frame.columns[j].type

WrittenFile(r) ==
  [safe |-> TRUE, chunks |-> 1, n |-> r.frame.n,
   columns |-> [i \in DOMAIN r.columns |-> [name |-> r.columns[i].name, type |-> r.columns[i].type]]]

(* truncate_in_place_if_too_big(), ProcessResult.to_arrow(),               *)
(* arrow_render_result_to_thrift().                                        *)
SendResult(r) ==
  IF r = Raised THEN Raised
  ELSE LET t == Truncated(r)
       IN  IF ColumnsAreThere(t) THEN Send(t.frame.n, t.columns, WrittenFile(t), t.errors, t.json)
           ELSE Raised

(* __render_pandas() *)
RenderPandas(v) == SendResult(Coerce(v, InputColumns))

Names(columns) == [i \in DOMAIN columns |-> columns[i].name]

(* validate_table_metadata(), column by column of the metadata.            *)
ColumnProblem(m, i) ==
  LET expected == m.columns[i]
      actual   == m.file.columns[i]
  IN  CASE i > Len(m.file.columns) -> "IndexError"
        [] i <= Len(m.file.columns) ->
             IF \/ i = 1 /\ m.file.chunks > 1
                \/ expected.name # actual.name \/ expected.type # actual.type
                \/ \E j \in 1 .. i - 1 : m.columns[j].name = expected.name
             THEN "ValidateError" ELSE "none"

TableProblem(m) ==
  LET problems == [i \in DOMAIN m.columns |-> ColumnProblem(m, i)]
      bad      == SelectSeq(problems, LAMBDA p : p # "none")
  IN  IF m.filename = "" THEN IF m.columns = <<>> THEN "none" ELSE "ValidateError"
      ELSE IF ~m.file.safe \/ m.columns = <<>> \/ m.n # m.file.n THEN "ValidateError"
      ELSE IF bad = <<>> THEN "none" ELSE bad[1]

(* I18nMessage( *message): one to three things, of any source: "" is one.  *)
ArrowError(v) ==
  LET parts == Items(v)
      Part(i, default) == IF i <= Len(parts) THEN parts[i] ELSE default
  IN  IF /\ Len(parts) \in 1 .. 3 /\ Is(parts[1], "text")
         /\ Is(Part(2, [dict |-> <<>>]), "dict")
         /\ \E type \in {"text", "null"} : Is(Part(3, Null), type)
      THEN [message |-> [id |-> parts[1].text, arguments |-> Part(2, [dict |-> <<>>]).dict,
                         source |-> CASE Is(Part(3, Null), "null") -> ""
                                      [] Part(3, Null) = [text |-> ""] -> "empty"
                                      [] OTHER -> parts[3].text],
            fixes |-> <<>>]
      ELSE Raised

(* __render_arrow(): render() has written a file and returns messages.     *)
(* The file's metadata are inferred; ArrowTable asserts that they fit.     *)
RenderArrow(file, v) ==
  LET errors  == IF Is(v, "list") THEN AllOrRaised([i \in DOMAIN v.list |-> ArrowError(v.list[i])])
                 ELSE [list |-> <<>>]
      columns == [i \in DOMAIN file.columns |-> InferColumn(file.columns[i], <<>>, InputColumns)]
      problem == TableProblem([filename |-> Output, n |-> file.n, columns |-> columns,
                               file |-> [file EXCEPT !.safe = TRUE]])
  IN  IF errors = Raised THEN Raised
      ELSE IF columns = <<>> THEN Send(0, <<>>, Empty, errors.list, [dict |-> <<>>])
      ELSE IF problem # "none" \/ \E i \in DOMAIN columns : columns[i].type \notin ColumnTypes
      THEN Raised
      ELSE Send(file.n, columns, file, errors.list, [dict |-> <<>>])

(* fetch_pandas(), fetch_arrow(): a path, with errors or without; a list   *)
(* of errors; or what render() may return. There is no message for a       *)
(* file's columns: it is a Parquet file or whatever the module wrote.      *)
FetchPandas(v) ==
  LET isPair == Is(v, "tuple") /\ Len(v.tuple) = 2 /\ Is(v.tuple[1], "path")
      errors == CoerceErrors(IF isPair THEN v.tuple[2] ELSE IF Is(v, "list") THEN v ELSE Null)
      name   == IF isPair THEN v.tuple[1].path ELSE IF Is(v, "path") THEN v.path ELSE Output
      sent   == IF isPair \/ Is(v, "path") \/ Is(v, "list")
                THEN IF errors = Raised THEN Raised ELSE Send(0, <<>>, Empty, errors.list, Null)
                ELSE SendResult(Coerce(v, <<>>))
  IN  IF sent = Raised THEN Raised
      ELSE [filename |-> name, n |-> 0, columns |-> <<>>, file |-> Empty, errors |-> sent.errors,
            json |-> NoJson]

-----------------------------------------------------------------------------
(* In Workbench's process. What comes of a message: "accepted", or an      *)
(* exception.                                                              *)

(* thrift_render_error_to_arrow(): the source of each message, and what    *)
(* each quick fix does.                                                    *)
ErrorsAreKnown(m) ==
  \A i \in DOMAIN m.errors :
    /\ m.errors[i].message.source \in Sources
    /\ \A j \in DOMAIN m.errors[i].fixes :
         LET fix == m.errors[i].fixes[j]
         IN  /\ fix.text.source \in Sources /\ fix.action = [text |-> "prependModule"]
             /\ fix.args[2] # BadJson

(* thrift_render_result_to_arrow(): "" is None. *)
ReceivedJson(m) == IF m.json = NoJson THEN Null ELSE m.json

(* Kernel.render(): only a ValidateError becomes a ModuleExitedError.      *)
AnswerToRender(m) ==
  IF m.filename \notin {"", Output} THEN "ModuleExitedError"
  ELSE IF \E i \in DOMAIN m.columns : m.columns[i].type = "number" /\ m.columns[i].format \notin Formats
  THEN "ValueError"
  ELSE IF TableProblem(m) # "none"
  THEN IF TableProblem(m) = "ValidateError" THEN "ModuleExitedError" ELSE TableProblem(m)
  ELSE IF ~ErrorsAreKnown(m) \/ m.json = BadJson THEN "ValueError"
  ELSE "accepted"

(* Kernel.fetch(): "" is a directory, not a file. *)
AnswerToFetch(m) ==
  IF m.filename \notin {"", Output} THEN "ModuleExitedError"
  ELSE IF m.filename = "" \/ ~ErrorsAreKnown(m) THEN "ValueError"
  ELSE "accepted"

-----------------------------------------------------------------------------

Returned(m, given) ==
  call' = IF m = Raised THEN [at |-> "exited", what |-> call.what] @@ given
          ELSE [at |-> "sent", what |-> call.what, message |-> m] @@ given

(* __render_by_signature(): pandas' way or Arrow's. *)
Return ==
  /\ call.at = "called"
  /\ \/ \E v \in RawResults :
          Returned(IF call.what = "render" THEN RenderPandas(v) ELSE FetchPandas(v), [raw |-> v])
     \/ /\ call.what = "render"
        /\ \E file \in ArrowFiles, v \in RawMessages :
             Returned(RenderArrow(file, v), [raw |-> v, file |-> file])

Forge ==
  /\ call.at = "called"
  /\ \E m \in Forged : call' = [at |-> "sent", what |-> call.what, message |-> m]

Receive ==
  /\ call.at = "sent"
  /\ call' = [call EXCEPT !.at = IF call.what = "render" THEN AnswerToRender(call.message)
                                 ELSE AnswerToFetch(call.message)]

Init == \E what \in {"render", "fetch"} : call = [at |-> "called", what |-> what]

Next == Return \/ Forge \/ Receive

-----------------------------------------------------------------------------
(* Properties.                                                             *)

Honest == "raw" \in DOMAIN call
Ended  == call.at \notin {"called", "exited", "sent"}

Same(sent, given) == \A k \in DOMAIN given : sent[k] = given[k] \/ Is(given[k], "bool")

SameErrors(sent, given) ==
  \A i \in DOMAIN given :
    /\ sent[i].message.id = given[i].message.id /\ sent[i].message.source = given[i].message.source
    /\ Same(sent[i].message.arguments, given[i].message.arguments)
    /\ Len(sent[i].fixes) = Len(given[i].fixes)
    /\ \A j \in DOMAIN given[i].fixes : sent[i].fixes[j].args = given[i].fixes[j].args

(* What coerce() made of what a module's render() returned arrives as it   *)
(* is: both processes agree on what is valid, no error, quick fix or       *)
(* column is lost or changed on the way (but a bool is an int, and of the  *)
(* table of a ProcessResult only the columns that it names are there), and *)
(* a table that was cut says so in its last error.                         *)
PandasResultsArrive ==
  (Ended /\ Honest /\ call.what = "render" /\ "file" \notin DOMAIN call) =>
    LET r == Coerce(call.raw, InputColumns)
        m == call.message
    IN  /\ call.at = "accepted" /\ m.columns = r.columns /\ ReceivedJson(m) = r.json
        /\ m.n <= MaxRowsPerTable /\ m.n <= r.frame.n
        /\ Len(m.errors) = Len(r.errors) + (IF m.n < r.frame.n THEN 1 ELSE 0)
        /\ SameErrors(m.errors, r.errors)

(* A file that render() wrote itself is refused if it is not safe, or if a *)
(* message's source is none that Workbench knows: nobody looks at those    *)
(* before.  Any other arrives, whole and with all the messages.            *)
ArrowResultsArrive ==
  (Ended /\ Honest /\ "file" \in DOMAIN call) =>
    LET m == call.message
    IN  IF m.filename # "" /\ ~call.file.safe THEN call.at = "ModuleExitedError"
        ELSE IF ~ErrorsAreKnown(m) THEN call.at = "ValueError"
        ELSE /\ call.at = "accepted" /\ Names(m.columns) = Names(call.file.columns)
             /\ m.columns # <<>> => m.n = call.file.n
             /\ Is(call.raw, "list") =>
                  /\ Len(m.errors) = Len(call.raw.list)
                  /\ SameErrors(m.errors, [i \in DOMAIN m.errors |-> ArrowError(call.raw.list[i])])

CoercedResultsArrive == PandasResultsArrive /\ ArrowResultsArrive

(* Whatever process sent it, an accepted table has the rows its metadata   *)
(* says, and the metadata's columns, all of different names, are its first *)
(* ones.  (It may have more: nobody counts them.)                          *)
AcceptedTablesFit ==
  (call.at = "accepted" /\ call.what = "render" /\ call.message.columns # <<>>) =>
    LET m == call.message
        first == SubSeq(m.file.columns, 1, Len(m.columns))
    IN  /\ m.n = m.file.n /\ Names(m.columns) = Names(first) /\ IsInjective(Names(first))
        /\ \A i \in DOMAIN first : first[i].type = m.columns[i].type
=============================================================================
