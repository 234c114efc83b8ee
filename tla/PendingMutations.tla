-------------------------- MODULE PendingMutations --------------------------
(***************************************************************************)
(* What a browser shows of the report before the server has answered: the  *)
(* page as the server has told it (ClientUpdates) with the user's own      *)
(* pending mutations applied to it (assets/js/mutations.js, reducers/,     *)
(* WorkflowEditor/Report/, WorkflowWebsocket.js), while others edit the    *)
(* same report.                                                            *)
(*                                                                         *)
(* Each mutation is sent over the Websocket as a request, in order.  The   *)
(* response tells of an error or of nothing.  If the command has changed   *)
(* something, an update with the mutation's id comes to every page.        *)
(*                                                                         *)
(* The steps and tabs stay as they are.  Updates come in the order of      *)
(* commits here (ClientSync has the others).                               *)
(***************************************************************************)
EXTENDS ClientUpdates

CONSTANTS MaxMutations, \* bound: mutations of this user
          MaxTroubles   \* bound: commands of others and lost connections, together

VARIABLES
  page,     \* the state of the page but for:
  pending,  \* state.pendingMutations
  requests, \* on their way to the server, or queuedMessages
  refusals, \* on their way back: ids of mutations
  updates,  \* on their way to this page
  open,     \* is the Websocket?
  nMine, nOthers, nLosses,
  limbo,    \* mutations that no update may ever tell of (auxiliary)
  missed    \* has the page missed blocks? (auxiliary)

pageVars == <<page, pending, requests, refusals, updates, open, nMine, nOthers, nLosses,
              limbo, missed>>

IdsOf(mutations) == {m.id : m \in Range(mutations)}

-----------------------------------------------------------------------------
(* What is shown.                                                          *)

(* selectAutoReport() *)
AutoSlugs(p) ==
  LET steps == FlattenSeq([i \in DOMAIN p.workflow.order |-> p.tabs[p.workflow.order[i]]])
  IN  [i \in DOMAIN steps |-> AutoSlug(steps[i])]

(* The page as a custom report, as the first mutation of an auto-report    *)
(* makes it.                                                               *)
Custom(p) ==
  IF p.workflow.custom THEN p
  ELSE [p EXCEPT !.workflow = [@ EXCEPT !.custom = TRUE, !.list = AutoSlugs(p)],
                 !.blocks   = [b \in Range(AutoSlugs(p)) |-> [type |-> "Chart", of |-> b[2]]]]

ListOf(p) == Custom(p).workflow.list

(* willReorder(): `oldSlugs.splice()` without arguments is empty, and so   *)
(* all lists pass for lists of the same slugs.                             *)
WillReorder(old, new) == old # new

(* Report/mutations.js.  Of a "no-op" the report is not even made custom.  *)
ApplyMutation(p, m) ==
  LET c == Custom(p) IN
  CASE m.command = "AddBlock" /\ m.forth.position <= Len(ListOf(p)) ->
         [c EXCEPT !.workflow.list = InsertAt(@, m.forth.position + 1, m.slug),
                   !.blocks = (m.slug :> Content(m.forth)) @@ @]
    [] m.command = "DeleteBlock" /\ m.slug \in DOMAIN c.blocks ->
         [c EXCEPT !.workflow.list = SelectSeq(@, LAMBDA b : b # m.slug),
                   !.blocks = Without(@, {m.slug})]
    [] m.command = "ReorderBlocks" /\ WillReorder(ListOf(p), m.forth) ->
         [c EXCEPT !.workflow.list = m.forth]
    [] m.command = "SetBlockMarkdown" /\ m.slug \in DOMAIN p.blocks ->
         [p EXCEPT !.blocks[m.slug].of = m.forth]
    [] OTHER -> p

(* selectOptimisticState(), after the first n mutations or all of them. *)
OptimisticTo(n) == FoldLeft(ApplyMutation, page, SubSeq(pending, 1, n))
Optimistic == OptimisticTo(Len(pending))

(* selectCustomReport() throws an error if a slug has no block. *)
IsShown == Range(ListOf(Optimistic)) \subseteq DOMAIN Custom(Optimistic).blocks

ReportOf(p) == <<ListOf(p), Restrict(Custom(p).blocks, Range(ListOf(p)))>>
TrueReport  == <<ByPosition(Blocks(wf)), [b \in DOMAIN Blocks(wf) |-> Content(Blocks(wf)[b])]>>

-----------------------------------------------------------------------------
(* The user.                                                               *)

Text(p, t) == [position |-> p, type |-> "Text", of |-> t]

Swapped(list, i) == [list EXCEPT ![i] = list[i + 1], ![i + 1] = list[i]]

(* What Report.js, TextBlock.js and AddBlockPrompt.js offer.  A text may   *)
(* be saved as it was.                                                     *)
Offered ==
  LET list == ListOf(Optimistic)
      mutation(command, slug, forth) == [id |-> nMine + 1, command |-> command, slug |-> slug, forth |-> forth]
  IN  {mutation("AddBlock", <<"mine", nMine>>, Text(p, t)) : p \in 0 .. Len(list), t \in Markdowns}
      \cup {mutation("DeleteBlock", b, 0) : b \in Range(list)}
      \cup {mutation("ReorderBlocks", None, Swapped(list, i)) : i \in 1 .. Len(list) - 1}
      \cup {mutation("SetBlockMarkdown", b, t) :
              b \in {c \in Range(list) : Custom(Optimistic).blocks[c].type = "Text"}, t \in Markdowns}

(* addPendingMutation(), callServerHandler() *)
Mutate ==
  /\ nMine < MaxMutations /\ IsShown /\ nMine' = nMine + 1
  /\ \E m \in Offered : pending' = Append(pending, m) /\ requests' = Append(requests, m)
  /\ UNCHANGED <<vars, page, refusals, updates, open, nOthers, nLosses, limbo, missed>>

-----------------------------------------------------------------------------
(* The server.                                                             *)

(* amend_create_kwargs(): ValueError or Block.DoesNotExist, ... *)
IsRefused(m) ==
  \/ m.command = "DeleteBlock" /\ m.slug \notin DOMAIN Blocks(wf)
  \/ m.command = "SetBlockMarkdown" /\ m.slug \notin DOMAIN wf.blocks
  \/ m.command = "ReorderBlocks" /\ Range(m.forth) # DOMAIN Blocks(wf)

(* ... or None: nothing to do, and no update. *)
IsNothingNew(m) ==
  \/ m.command = "SetBlockMarkdown" /\ wf.blocks[m.slug].of = m.forth
  \/ m.command = "ReorderBlocks" /\ m.forth = ByPosition(Blocks(wf))

Former(m) ==
  CASE m.command = "AddBlock"         -> 0
    [] m.command = "DeleteBlock"      -> Blocks(wf)[m.slug]
    [] m.command = "ReorderBlocks"    -> ByPosition(Blocks(wf))
    [] m.command = "SetBlockMarkdown" -> wf.blocks[m.slug].of

Broadcast(u, id) ==
  IF open THEN updates' = Append(updates, [mutation |-> id] @@ u) /\ UNCHANGED missed
  ELSE missed' = TRUE /\ UNCHANGED updates

(* server/handlers/report.py *)
Serve ==
  /\ open /\ requests # <<>> /\ requests' = Tail(requests)
  /\ LET m == Head(requests) IN
     \/ /\ IsRefused(m) /\ refusals' = Append(refusals, m.id)
        /\ UNCHANGED <<vars, updates, limbo, missed>>
     \/ /\ ~IsRefused(m) /\ IsNothingNew(m) /\ limbo' = limbo \cup {m.id}
        /\ UNCHANGED <<vars, refusals, updates, missed>>
     \/ /\ ~IsRefused(m) /\ ~IsNothingNew(m)
        /\ Do(m.command, m.slug, 0, 0, Former(m), m.forth)
        /\ Broadcast(UpdateOf(Last(deltas'), wf'), m.id)
        /\ UNCHANGED <<refusals, limbo>>
  /\ UNCHANGED <<page, pending, open, nMine, nOthers, nLosses>>

NoMutation == 0

OtherEdits ==
  /\ nOthers + nLosses < MaxTroubles /\ nOthers' = nOthers + 1
  /\ \/ /\ AddBlock \/ DeleteBlock \/ ReorderBlocks \/ SetBlockMarkdown
        /\ Broadcast(UpdateOf(Last(deltas'), wf'), NoMutation)
     \/ Undo /\ Broadcast(UpdateOf(Last(Applied), wf'), NoMutation)
     \/ Redo /\ Broadcast(UpdateOf(Head(Undone), wf'), NoMutation)
  /\ UNCHANGED <<page, pending, requests, refusals, open, nMine, nLosses, limbo>>

-----------------------------------------------------------------------------
(* The Websocket.                                                          *)

(* removePendingMutation() *)
WithoutMutation(id) == SelectSeq(pending, LAMBDA m : m.id # id)

(* Mutant: the update does not end the mutation that it confirms.          *)
ReceiveUpdateOnly ==
  /\ updates # <<>> /\ updates' = Tail(updates) /\ page' = Apply(page, Head(updates))
  /\ UNCHANGED <<vars, pending, requests, refusals, open, nMine, nOthers, nLosses, limbo, missed>>

(* applyUpdate() *)
ReceiveUpdate ==
  /\ updates # <<>> /\ updates' = Tail(updates)
  /\ page' = Apply(page, Head(updates))
  /\ pending' = WithoutMutation(Head(updates).mutation)
  /\ UNCHANGED <<vars, requests, refusals, open, nMine, nOthers, nLosses, limbo, missed>>

(* removePendingMutationOnError() *)
ReceiveRefusal ==
  /\ refusals # <<>> /\ refusals' = Tail(refusals)
  /\ pending' = WithoutMutation(Head(refusals))
  /\ UNCHANGED <<vars, page, requests, updates, open, nMine, nOthers, nLosses, limbo, missed>>

(* All that is under way is lost, and the promises of requests are left as *)
(* they are.                                                               *)
Disconnect ==
  /\ open /\ nOthers + nLosses < MaxTroubles /\ nLosses' = nLosses + 1 /\ open' = FALSE
  /\ requests' = <<>> /\ refusals' = <<>> /\ updates' = <<>>
  /\ missed' = (missed \/ updates # <<>>) /\ limbo' = limbo \cup IdsOf(pending)
  /\ UNCHANGED <<vars, page, pending, nMine, nOthers>>

(* onOpen(), and WorkflowConsumer.connect(): all but the blocks. *)
Connect ==
  /\ ~open /\ open' = TRUE
  /\ updates' = <<[mutation |-> NoMutation] @@ ToClientside(wf)>>
  /\ UNCHANGED <<vars, page, pending, requests, refusals, nMine, nOthers, nLosses, limbo, missed>>

PageInit ==
  /\ Init
  /\ page = Apply(Blank, Page(wf)) /\ pending = <<>>
  /\ requests = <<>> /\ refusals = <<>> /\ updates = <<>> /\ open = FALSE
  /\ nMine = 0 /\ nOthers = 0 /\ nLosses = 0 /\ limbo = {} /\ missed = FALSE

PageNext ==
  Mutate \/ Serve \/ OtherEdits \/ ReceiveUpdate \/ ReceiveRefusal \/ Disconnect \/ Connect

PageSpec == PageInit /\ [][PageNext]_<<vars, pageVars>>

-----------------------------------------------------------------------------
(* When all is answered the page shows the server's report, and nothing    *)
(* stays pending ("The client and server can't remain in sync without      *)
(* it", commands.py) but what was in limbo: a change that changes nothing  *)
(* is never confirmed, nor is what a lost connection took with it.         *)
AnswersSettle ==
  (open /\ requests = <<>> /\ refusals = <<>> /\ updates = <<>>) =>
    /\ IdsOf(pending) \subseteq limbo
    /\ ~missed => ReportOf(page) = TrueReport

(* "the client needs to predict these changes" (mutations.js): while       *)
(* nobody else edits, what is shown is what the server has once it has     *)
(* done all requests, whichever of them have been confirmed.               *)
PredictionsComeTrue ==
  (open /\ requests = <<>> /\ nOthers = 0 /\ nLosses = 0 /\ limbo = {}) =>
    ReportOf(Optimistic) = TrueReport

(* "Mutations are optimistic; they may fail to apply, and that's okay."    *)
(* But an order of blocks some of which are gone does apply: see           *)
(* WillReorder.                                                            *)
IsStale(i) ==
  /\ pending[i].command = "ReorderBlocks"
  /\ Range(pending[i].forth) # Range(ListOf(OptimisticTo(i - 1)))

ReportCanBeShown == IsShown \/ missed \/ \E i \in DOMAIN pending : IsStale(i)

(* A page that shows what a user has done before the server has.           *)
PageAgreesInTheEnd == AnswersSettle /\ PredictionsComeTrue /\ ReportCanBeShown
=============================================================================
