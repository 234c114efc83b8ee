------------------------------- MODULE MCParts ------------------------------
(* The small parts side by side in one run: each behaviour is one of one   *)
(* part, whose variables alone change.  The values that modules' functions *)
(* take and return are such as make each branch of coercion and validation *)
(* happen, alone and in pairs.                                             *)
EXTENDS MCStepParams, Parts

-----------------------------------------------------------------------------
(* ModuleVersions: three versions, one of which cannot migrate_params().   *)
(* ModuleProcess: pipes of two bytes; messages below, at and beyond the    *)
(* limit.                                                                  *)
MCLimit == [out |-> 3, log |-> 1]

(* Uploads: two from a browser and between them one from a program, the    *)
(* second of them so big that it leaves room for no other.                 *)
MCSize == <<1, 2, 1>>

(* BrokerConnection: two publish to the browsers' exchange, one to a queue *)
(* that the process consumes.                                              *)
MCTarget == <<"groups", "groups", "render">>

(* Subscriptions: a user pays twice, once by mistake.                      *)
(* Secrets: two parameters, of one service or another or none.             *)
MCKinds ==
  {[p |-> "google", q |-> "google"], [p |-> "google", q |-> "string"],
   [p |-> "twitter", q |-> "twitter"], [p |-> "none", q |-> "twitter"]}

(* WorkflowCopies: two requests at once, of a visitor with two sessions.   *)
(* Nothing tells one request from the other, but what it asks for.         *)
CONSTANTS request1, request2
MCRequests == {request1, request2}
Symmetry   == Permutations(MCRequests)

-----------------------------------------------------------------------------
(* ModuleResults *)
VARIABLE call

T(s)     == [text |-> s]
Tuple(s) == [tuple |-> s]
Other    == [other |-> 1]

Frame(n, columns) == [frame |-> [n |-> n, columns |-> columns]]

Column1(name, type) == [name |-> name, type |-> type]
A == Column1("A", "number")
B == Column1("B", "text")

Messages ==
  {T(""), T("x"), Tuple(<<T("id"), Dict([n |-> [int |-> 1]])>>),
   Tuple(<<T("id"), Dict([n |-> [bool |-> TRUE], t |-> T("x")]), T("cjwparse")>>),
   Tuple(<<T("id"), Dict(<<>>), T("odd")>>), Tuple(<<T("id"), Dict([n |-> [int |-> 9]])>>),
   Tuple(<<T("id"), Dict([n |-> Null, f |-> [float |-> 1]])>>),
   Tuple(<<T("id"), Dict([f |-> [float |-> 1]])>>), Tuple(<<T("id"), Dict(<<>>), Null>>), Other, Null}

Fix(args) == [text |-> T("fix"), action |-> T("prependModule"), args |-> args]

QuickFixes ==
  {Tuple(<<T("fix"), T("prependModule"), T("slug"), Dict(<<>>)>>),
   List(<<T("fix"), T("prependModule"), T("slug"), Dict([k |-> T("v")])>>),
   List(<<T("fix"), T("prependModule"), T("slug"), Other>>),
   Tuple(<<T("fix"), T("other")>>), Tuple(<<T("fix")>>), Other,
   Dict(Fix(List(<<T("slug"), Dict(<<>>)>>))), Dict(Fix(List(<<Null, Dict(<<>>)>>))),
   Dict(Fix(T("slug"))), Dict(Fix(Other)), Dict(Fix(List(<<>>)) @@ [odd |-> Null]),
   Dict([text |-> T("fix"), args |-> List(<<>>)])}

ErrorValues ==
  LET one == Messages \cup {Dict([message |-> m]) : m \in Messages}
             \cup {Dict([message |-> T("x"), quickFixes |-> List(<<q>>)]) : q \in QuickFixes}
             \cup {Dict([message |-> T("x"), quickFixes |-> q]) :
                     q \in {Null, T(""), T("x"), Dict(<<>>), Tuple(<<>>), Tuple(<<T("x")>>)}}
  IN  one \cup {List(<<>>)} \cup {List(<<T("x"), e>>) : e \in one}

Frames ==
  {Frame(n, columns) : n \in {0, 2, 3},
     columns \in {<<>>, <<A, B>>, <<Column1("A", "text")>>, <<Column1("C", "number")>>, <<A, A>>,
                  <<Column1("A", "odd")>>}}

(* ProcessResults: as coerced; and with columns of the frame renamed, added*)
(* or changed since; with errors and any json.                             *)
Plain(column) == column @@ [format |-> IF column.type = "number" THEN "{:,}" ELSE ""]

SomeErrors(source) ==
  <<[message |-> [id |-> "id", arguments |-> <<>>, source |-> source], fixes |-> <<>>]>>

OneFix(args) ==
  <<[message |-> [id |-> "id", arguments |-> <<>>, source |-> ""],
     fixes |-> <<[text |-> [id |-> "fix", arguments |-> <<>>, source |-> "module"],
                  action |-> T("prependModule"), args |-> args]>>]>>

ProcessResults ==
  {[result |-> [frame |-> f.frame, errors |-> errors, json |-> json,
                columns |-> [i \in DOMAIN columns |-> Plain(columns[i])]]] :
     f \in Frames, columns \in {<<>>, <<A>>, <<A, B>>},
     errors \in {<<>>, SomeErrors("module"), OneFix(<<T("slug"), Dict(<<>>)>>), OneFix(<<T("slug"), Other>>)},
     json \in {Dict(<<>>), Null, List(<<T("j")>>)}}

Paths == {[path |-> "output"], [path |-> "p"]}

MCRawResults ==
  ErrorValues \cup Frames \cup Paths \cup {Null, Other, Tuple(<<T("x")>>)}
  \cup {Tuple(<<f, e>>) : f \in Frames \cup Paths \cup {Null, Other}, e \in ErrorValues}
  \cup {Tuple(<<f, T("x"), json>>) : f \in Frames, json \in {Null, Dict([k |-> T("v")]), T("j")}}
  \cup {Dict([dataframe |-> f, column_formats |-> [A |-> x]]) : f \in Frames, x \in {"{:,}", "odd"}}
  \cup {Dict([error |-> m, dataframe |-> f]) : m \in Messages, f \in {Frame(2, <<B, A>>), Null}}
  \cup {Dict([error |-> m, quick_fixes |-> List(<<q>>)]) : m \in Messages, q \in QuickFixes}
  \cup {Dict([errors |-> e]) : e \in ErrorValues}
  \cup {Dict([dataframe |-> Frame(2, <<A>>), json |-> json]) :
          json \in {Null, T("j"), List(<<Null>>), Dict([k |-> Other])}}
  \cup {Dict([quick_fixes |-> List(<<>>)]), Dict([odd |-> Null])}
  \cup ProcessResults

MCRawMessages ==
  {List(<<m>>) : m \in Messages} \cup {Null, T("x"), List(<<>>)}
  \cup {List(<<List(<<T("id")>>), m>>) :
          m \in {Tuple(<<T("id"), Dict(<<>>), T("")>>), Tuple(<<>>), Tuple(<<T("id"), T("x")>>),
                 List(<<T("id"), Dict(<<>>), Other>>), Tuple(<<T("id"), Dict(<<>>), Null, Null>>)}}

MCArrowFiles ==
  {[safe |-> safe, chunks |-> chunks, n |-> n, columns |-> columns] :
     safe \in BOOLEAN, chunks \in {1, 2}, n \in {0, 3},
     columns \in {<<>>, <<A>>, <<B, A>>, <<A, A>>, <<Column1("A", "text")>>, <<Column1("C", "odd")>>}}

FileColumns == {<<>>, <<A>>, <<A, B>>, <<A, A>>, <<Column1("A", "text")>>}

(* Any table alone; any errors and json with a table that is right or not. *)
Forgery(name, n, columns, x, safe, chunks, inFile, errors, json) ==
  [filename |-> name, n |-> n, errors |-> errors, json |-> json,
   columns |-> [i \in DOMAIN columns |-> columns[i] @@ [format |-> x]],
   file |-> [safe |-> safe, chunks |-> chunks, n |-> 1, columns |-> inFile]]

MCForged ==
  {Forgery(name, n, columns, x, safe, chunks, inFile, <<>>, Dict(<<>>)) :
     name \in {"", "output", "p"}, n \in {0, 1}, columns \in FileColumns, x \in {"{:,}", "odd"},
     safe \in BOOLEAN, chunks \in {1, 2}, inFile \in FileColumns}
  \cup {Forgery(name, 1, columns, x, safe, 1, <<A>>, errors, json) :
           name \in {"", "output"}, columns \in {<<>>, <<A>>}, x \in {"{:,}", "odd"}, safe \in BOOLEAN,
           errors \in {<<>>, SomeErrors("odd"), OneFix(<<T("slug"), [badjson |-> TRUE]>>)},
           json \in {Dict(<<>>), Null, [nojson |-> TRUE], [badjson |-> TRUE]}}

Result == INSTANCE ModuleResults
  WITH RawResults <- MCRawResults, RawMessages <- MCRawMessages, ArrowFiles <- MCArrowFiles,
       Forged <- MCForged, MaxRowsPerTable <- 2,
       InputColumns <- <<A @@ [format |-> "{:d}"], B @@ [format |-> ""]>>

-----------------------------------------------------------------------------
(* PendingMutations: two steps in a tab; others edit or the connection is  *)
(* lost, once.                                                             *)
VARIABLES report, deltas, lastDelta, nCommands, failed, closed, page, pending, asked, refusals,
          updates, socketOpen, nMine, nOthers, nLosses, limbo, missed

pageVars == <<report, deltas, lastDelta, nCommands, failed, closed, page, pending, asked, refusals,
              updates, socketOpen, nMine, nOthers, nLosses, limbo, missed>>

Optimism == INSTANCE PendingMutations
  WITH wf <- report, last <- lastDelta, now <- nCommands, requests <- asked, open <- socketOpen,
       FirstTabs <- <<1>>, TabOf <- <<1, 1>>, FirstSteps <- {1, 2}, Markdowns <- {1, 2},
       MaxBlocks <- 4, MaxLag <- 1, MaxEdits <- 3, MaxMutations <- 2, MaxTroubles <- 1

-----------------------------------------------------------------------------
VARIABLE part

PartInit ==
  /\ part \in {"params", "versions", "process", "results", "uploads", "connection", "payment",
              "secrets", "copies", "optimism"}
  /\ Init /\ Version!Init /\ Process!Init /\ Result!Init /\ Upload!Init
  /\ Connection!Init /\ Payment!Init /\ Vault!Init /\ Copy!Init /\ Optimism!PageInit
  /\ part # "params"     => spec = CHOOSE s \in ValidSpecs : TRUE
  /\ part # "process"    => length = 2 /\ sense
  /\ part # "results"    => call.what = "render"
  /\ part # "connection" => broker.up
  /\ part # "secrets"    => fields.q = "string"

parts == <<vars, versions, processes, call, uploads, connections, subscriptions, secretVars,
           visitorVars, pageVars>>

PartNext ==
  \/ /\ part = "params" /\ Next
     /\ UNCHANGED <<part, versions, processes, call, uploads, connections, subscriptions,
                    secretVars, visitorVars, pageVars>>
  \/ /\ part = "versions" /\ Version!Next
     /\ UNCHANGED <<part, vars, processes, call, uploads, connections, subscriptions,
                    secretVars, visitorVars, pageVars>>
  \/ /\ part = "process" /\ Process!Next
     /\ UNCHANGED <<part, vars, versions, call, uploads, connections, subscriptions,
                    secretVars, visitorVars, pageVars>>
  \/ /\ part = "results" /\ Result!Next
     /\ UNCHANGED <<part, vars, versions, processes, uploads, connections, subscriptions,
                    secretVars, visitorVars, pageVars>>
  \/ /\ part = "uploads" /\ Upload!Next
     /\ UNCHANGED <<part, vars, versions, processes, call, connections, subscriptions,
                    secretVars, visitorVars, pageVars>>
  \/ /\ part = "connection" /\ Connection!Next
     /\ UNCHANGED <<part, vars, versions, processes, call, uploads, subscriptions,
                    secretVars, visitorVars, pageVars>>
  \/ /\ part = "payment" /\ Payment!Next
     /\ UNCHANGED <<part, vars, versions, processes, call, uploads, connections,
                    secretVars, visitorVars, pageVars>>
  \/ /\ part = "secrets" /\ Vault!Next
     /\ UNCHANGED <<part, vars, versions, processes, call, uploads, connections,
                    subscriptions, visitorVars, pageVars>>
  \/ /\ part = "copies" /\ Copy!Next
     /\ UNCHANGED <<part, vars, versions, processes, call, uploads, connections,
                    subscriptions, secretVars, pageVars>>
  \/ /\ part = "optimism" /\ Optimism!PageNext
     /\ UNCHANGED <<part, vars, versions, processes, call, uploads, connections,
                    subscriptions, secretVars, visitorVars>>

PartSpec == PartInit /\ [][PartNext]_<<part, parts>>

-----------------------------------------------------------------------------
(* The properties of the other parts.                                      *)

(* StepParams: a module whose specification is valid can be rendered with  *)
(* any valid params, and no tab matters to a step unless it is known to.   *)
RendersBeginKnowingTheirTabs == RendersBegin /\ OnlyKnownTabsMatter

(* StepParams: a render gets what its module asked for, or quick fixes make*)
(* it so.                                                                  *)
ParamsAreCleanOrFixable == RendersGetWhatTheyAskedFor /\ QuickFixesHelp

(* ModuleResults: both processes agree on what is valid, nothing is lost   *)
(* between them, and an accepted table is what its metadata says.          *)
ResultsSurviveTheirWay == Result!CoercedResultsArrive /\ Result!AcceptedTablesFit

(* PendingMutations: what is shown before the server has answered agrees   *)
(* with what the server does.                                              *)
PageAgreesInTheEnd == Optimism!PageAgreesInTheEnd
=============================================================================
