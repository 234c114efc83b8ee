----------------------------- MODULE ClientSync -----------------------------
(***************************************************************************)
(* A browser's copy of the workflow of ReportHistory: the page it loads,   *)
(* the updates of ClientUpdates and what the server sends when it connects *)
(* (server/websockets.py).                                                 *)
(*                                                                         *)
(* commands.do() sends the update after it has freed the lock: another     *)
(* command's update may be sent first.  Here one update at a time may be   *)
(* held back so.                                                           *)
(***************************************************************************)
EXTENDS ClientUpdates

CONSTANT MaxSeen   \* bound: commands while a browser looks on

ASSUME SeenBound == MaxSeen \in Nat

VARIABLES
  client,    \* the state of the page: workflow, tabs, steps and blocks
  link,      \* "none": no browser in this behaviour; "away"; "loaded" the page
             \* and not connected; "connected" over Websockets
  held,      \* an update yet to be sent, as a sequence of at most one
  overtaken, \* has anything been sent since it was made? (auxiliary)
  behind,    \* may tabs and steps be out of date? (auxiliary)
  missed,    \* may blocks be? (auxiliary)
  unseen     \* the tabs that were deleted when the page was loaded or connected:
             \* their steps were not sent (auxiliary)

clientVars == <<client, link, held, overtaken, behind, missed, unseen>>

-----------------------------------------------------------------------------
Received(u) ==
  IF link = "connected" THEN client' = Apply(client, u) /\ UNCHANGED <<behind, missed>>
  ELSE /\ UNCHANGED client
       /\ behind' = (behind \/ link = "loaded") /\ missed' = (missed \/ link = "loaded")

(* websockets_notify(): now, or after another update or two.               *)
Send(u) ==
  \/ Received(u) /\ overtaken' = (held # <<>>) /\ UNCHANGED <<link, held, unseen>>
  \/ /\ held = <<>> /\ link # "none" /\ held' = <<u>> /\ overtaken' = FALSE
     /\ UNCHANGED <<client, link, behind, missed, unseen>>

ServerDoes ==
  /\ link # "none" => now < MaxSeen
  /\ \/ AddBlock \/ DeleteBlock \/ ReorderBlocks \/ SetBlockMarkdown
     \/ AddStep \/ DeleteStep \/ DeleteTab \/ ReorderTabs
  /\ IF failed' THEN UNCHANGED clientVars ELSE Send(UpdateOf(Last(deltas'), wf'))

ServerUndoes == Undo /\ Send(UpdateOf(Last(Applied), wf'))
ServerRedoes == Redo /\ Send(UpdateOf(Head(Undone), wf'))

SendHeld ==
  /\ held # <<>> /\ held' = <<>> /\ overtaken' = FALSE
  /\ IF link = "connected"
     THEN /\ client' = Apply(client, held[1])
          /\ behind' = (behind \/ overtaken) /\ missed' = (missed \/ overtaken)
     ELSE Received(held[1])
  /\ UNCHANGED <<vars, link, unseen>>

LoadPage ==
  /\ link = "away" /\ link' = "loaded" /\ client' = Apply(Blank, Page(wf))
  /\ behind' = FALSE /\ missed' = FALSE /\ unseen' = Range(FirstTabs) \ Range(wf.order)
  /\ overtaken' = (held # <<>>)
  /\ UNCHANGED <<vars, held>>

(* connect(), at first and after a lost connection: all but the blocks.    *)
Connect ==
  /\ link = "loaded" /\ link' = "connected" /\ client' = Apply(client, ToClientside(wf))
  /\ behind' = FALSE /\ unseen' = Range(FirstTabs) \ Range(wf.order)
  /\ overtaken' = (held # <<>>)
  /\ UNCHANGED <<vars, held, missed>>

Disconnect ==
  /\ link = "connected" /\ link' = "loaded"
  /\ UNCHANGED <<vars, client, held, overtaken, behind, missed, unseen>>

ClientInit ==
  /\ Init
  /\ client = Blank /\ link \in {"none", "away"} /\ held = <<>>
  /\ overtaken = FALSE /\ behind = FALSE /\ missed = FALSE /\ unseen = {}

ClientNext ==
  ServerDoes \/ ServerUndoes \/ ServerRedoes \/ SendHeld \/ LoadPage \/ Connect \/ Disconnect

ClientSpec == ClientInit /\ [][ClientNext]_<<vars, clientVars>>

-----------------------------------------------------------------------------

(* A page that is connected shows what the server has, whatever commands   *)
(* were done, undone and redone before and since, here and in other        *)
(* browsers: the tabs in order, the steps of each and the report.  Unless  *)
(* two updates were sent in the wrong order, or blocks changed while the   *)
(* connection was lost ("It's okay for things to be slightly off",         *)
(* websockets.py).  And unless a tab came back from deletion that this     *)
(* page has never seen: its steps are not known.                           *)
ClientKeepsUp ==
  (link = "connected" /\ held = <<>> /\ ~behind) =>
    /\ client.workflow.order = wf.order
    /\ \A t \in Range(wf.order) :
         /\ t \in DOMAIN client.tabs /\ client.tabs[t] = StepIds(wf, t)
         /\ t \notin unseen => Range(client.tabs[t]) \subseteq client.steps
    /\ ~missed =>
         /\ client.workflow.custom = wf.custom
         /\ wf.custom =>
              /\ client.workflow.list = Slugs(wf)
              /\ DOMAIN wf.blocks \subseteq DOMAIN client.blocks
              /\ Contents(wf, DOMAIN wf.blocks) = Restrict(client.blocks, DOMAIN wf.blocks)
=============================================================================
