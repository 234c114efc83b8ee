----------------------------- MODULE TabHistory -----------------------------
(***************************************************************************)
(* The undo history of one workflow and its tabs: cjwstate/commands.py,    *)
(* the commands on tabs in cjwstate/models/commands/, the handlers that    *)
(* call them (server/handlers/), and cron/deltadeleter.py.                 *)
(*                                                                         *)
(* Everything that writes does so in one transaction that holds the        *)
(* workflow's row lock, so it is one action.  But a handler loads the Tab  *)
(* it will pass to the command in a transaction of its own, before: that   *)
(* Tab may be out of date when the command runs.                           *)
(***************************************************************************)
EXTENDS Naturals, SequencesExt

CONSTANTS Users,        \* Websockets connections; each handles one request at once
          NFirstTabs,   \* tabs of the workflow at first, with a step each
          MaxTabs,      \* bound: tabs ever created
          MaxEdits      \* bound: commands, undos, redos and clicks on a tab

ASSUME TabsAssumption   == MaxTabs \in Nat /\ NFirstTabs \in 1 .. MaxTabs
ASSUME EditsAssumption  == MaxEdits \in Nat

None == 0   \* NULL

VARIABLES
  tabs,       \* the rows of table "tab": tabs[id] = [position, is_deleted, step]
  created,    \* ids of tabs so far
  selected,   \* workflow.selected_tab_position
  deltas,     \* the rows of table "delta", in order of id
  last,       \* workflow.last_delta_id; 0 is "no delta"
  now,        \* edits so far: the clock
  request,    \* request[u]: the Tab u's handler has loaded, as a sequence of at
              \* most one [tab, position]
  raced,      \* has a command run with an out-of-date Tab? (auxiliary)
  failed      \* has a transaction failed with ProtectedError? (auxiliary)

tabRows == <<tabs, created, selected>>
history == <<deltas, last, now>>
vars == <<tabRows, history, request, raced, failed>>

-----------------------------------------------------------------------------
(* Tabs.  A screen is [tabs, selected].                                    *)

Live(ts) == {t \in DOMAIN ts : ~ts[t].is_deleted}

(* workflow.live_tabs.filter(position ...).update(position=F("position") + 1) *)
Shifted(ts, S, n(_)) ==
  [t \in DOMAIN ts |-> IF t \in S THEN [ts[t] EXCEPT !.position = n(@)] ELSE ts[t]]

Up(n)   == n + 1
Down(n) == n - 1

From(ts, p)  == {t \in Live(ts) : ts[t].position >= p}
After(ts, p) == {t \in Live(ts) : ts[t].position > p}

WithDeleted(ts, t, b) == [ts EXCEPT ![t].is_deleted = b]

(* live_tabs, which is ordered by position.  (Ties happen only after a     *)
(* race; Postgres may break them in any way, and here the lower id wins.)  *)
Order(ts) ==
  LET Before(t, u) == \/ ts[t].position < ts[u].position
                      \/ ts[t].position = ts[u].position /\ t <= u
  IN  [i \in 1 .. Cardinality(Live(ts)) |->
         CHOOSE t \in Live(ts) : Cardinality({u \in Live(ts) : Before(u, t)}) = i]

Screen == [tabs |-> tabs, selected |-> selected]

(* AddTab.forward, DuplicateTab.forward: p is the position of the Tab in   *)
(* memory.                                                                 *)
AddTabForward(scr, t, p) ==
  [tabs |-> WithDeleted(Shifted(scr.tabs, From(scr.tabs, p), Up), t, FALSE),
   selected |-> p]

(* ... and their backward.                                                 *)
AddTabBackward(scr, t, old) ==
  LET without == WithDeleted(scr.tabs, t, TRUE)
  IN  [tabs |-> Shifted(without, After(without, scr.tabs[t].position), Down),
       selected |-> old]

(* DeleteTab *)
DeleteTabForward(scr, t, p) ==
  LET without == WithDeleted(scr.tabs, t, TRUE)
  IN  [tabs |-> Shifted(without, After(without, p), Down),
       selected |-> IF scr.selected >= p /\ scr.selected > 0
                    THEN scr.selected - 1 ELSE scr.selected]

(* Mutant: position__gt for position__gte.                                 *)
DeleteTabBackwardWithoutGap(scr, t) ==
  LET p == scr.tabs[t].position
  IN  [tabs |-> WithDeleted(Shifted(scr.tabs, After(scr.tabs, p), Up), t, FALSE),
       selected |-> p]

DeleteTabBackward(scr, t) ==
  LET p == scr.tabs[t].position
  IN  [tabs |-> WithDeleted(Shifted(scr.tabs, From(scr.tabs, p), Up), t, FALSE),
       selected |-> p]

(* ReorderTabs: _write_order and _update_selected_position, which raises   *)
(* IndexError when the selected position is that of no tab.                *)
IndexOf(s, x) == CHOOSE i \in DOMAIN s : s[i] = x

CanReorder(scr, from) == scr.selected < Len(from)

Reordered(scr, from, to) ==
  [tabs |-> [t \in DOMAIN scr.tabs |->
               IF t \in Range(to) THEN [scr.tabs[t] EXCEPT !.position = IndexOf(to, t) - 1]
                                  ELSE scr.tabs[t]],
   selected |-> IndexOf(to, from[scr.selected + 1]) - 1]

(* command.forward() and command.backward() of a delta in the database.    *)
Adds(d) == d.command \in {"AddTab", "DuplicateTab"}

Possible(d, from) == d.command = "ReorderTabs" => CanReorder(Screen, from)

Forward(d) ==
  CASE Adds(d)                   -> AddTabForward(Screen, d.tab, tabs[d.tab].position)
    [] d.command = "DeleteTab"   -> DeleteTabForward(Screen, d.tab, tabs[d.tab].position)
    [] d.command = "ReorderTabs" -> Reordered(Screen, d.from, d.to)
    [] d.command = "SetStepNote" -> Screen

(* Mutant: ReorderTabs.backward goes forward again.                        *)
BackwardSwapped(d) ==
  CASE Adds(d)                   -> AddTabBackward(Screen, d.tab, d.old_selected)
    [] d.command = "DeleteTab"   -> DeleteTabBackward(Screen, d.tab)
    [] d.command = "ReorderTabs" -> Reordered(Screen, d.from, d.to)
    [] d.command = "SetStepNote" -> Screen

Backward(d) ==
  CASE Adds(d)                   -> AddTabBackward(Screen, d.tab, d.old_selected)
    [] d.command = "DeleteTab"   -> DeleteTabBackward(Screen, d.tab)
    [] d.command = "ReorderTabs" -> Reordered(Screen, d.to, d.from)
    [] d.command = "SetStepNote" -> Screen

Init ==
  /\ created = NFirstTabs
  /\ tabs = [t \in 1 .. NFirstTabs |->
               [position |-> t - 1, is_deleted |-> FALSE, step |-> TRUE]]
  /\ selected \in 0 .. NFirstTabs - 1
  /\ deltas = <<>> /\ last = 0 /\ now = 0
  /\ request = [u \in Users |-> <<>>]
  /\ raced = FALSE /\ failed = FALSE

-----------------------------------------------------------------------------
(* The delta chain.                                                        *)

IdsOf(ds) == {ds[i].id : i \in DOMAIN ds}

(* The applied ones come first. *)
NApplied == CHOOSE n \in 0 .. Len(deltas) :
              \A i \in DOMAIN deltas : deltas[i].id <= last <=> i <= n
Applied  == SubSeq(deltas, 1, NApplied)
Undone   == SubSeq(deltas, NApplied + 1, Len(deltas))

(* delete_orphan_soft_deleted_models(): a deleted tab no delta is about    *)
(* goes, and its step with it; the delta of the step protects the step.    *)
Orphans(ts, ds) ==
  {t \in DOMAIN ts : ts[t].is_deleted /\ \A i \in DOMAIN ds : ds[i].tab # t}

IsProtected(ts, ds) ==
  \E i \in DOMAIN ds : ds[i].step \in Orphans(ts, ds)

Purged(ts, ds) == Restrict(ts, DOMAIN ts \ Orphans(ts, ds))

CanEdit == now < MaxEdits /\ now' = now + 1

(* The transaction commits, or ProtectedError rolls it back.               *)
Commit(scr, ds, l, purges) ==
  IF purges /\ IsProtected(scr.tabs, ds)
  THEN failed' = TRUE /\ UNCHANGED <<tabs, selected, deltas, last>>
  ELSE /\ tabs' = IF purges THEN Purged(scr.tabs, ds) ELSE scr.tabs
       /\ selected' = scr.selected
       /\ deltas' = ds
       /\ last' = l
       /\ UNCHANGED failed

(* Mutant: do() deletes deltas and leaves the purge to cron.               *)
DoWithoutPurge(command, tab, step, scr, from) ==
  LET delta == [id |-> now + 1, command |-> command, tab |-> tab, step |-> step,
                prev |-> IF last \in IdsOf(deltas) THEN last ELSE None,
                from |-> from, to |-> Order(scr.tabs),
                old_selected |-> selected, last_applied_at |-> now + 1]
  IN  Commit(scr, Append(Applied, delta), delta.id, FALSE)

(* The rest of commands.do(), when the command's forward() has given scr:  *)
(* delete the undone deltas, append one, point the workflow to it, and     *)
(* purge if a delta was deleted.  (from and to are in the deltas of        *)
(* ReorderTabs; of the others, they are auxiliary.)                        *)
Do(command, tab, step, scr, from) ==
  LET delta == [id |-> now + 1, command |-> command, tab |-> tab, step |-> step,
                prev |-> IF last \in IdsOf(deltas) THEN last ELSE None,
                from |-> from, to |-> Order(scr.tabs),
                old_selected |-> selected, last_applied_at |-> now + 1]
  IN  Commit(scr, Append(Applied, delta), delta.id, Undone # <<>>)

Touched(ds, id) ==
  [i \in DOMAIN ds |-> IF ds[i].id = id THEN [ds[i] EXCEPT !.last_applied_at = now + 1]
                                        ELSE ds[i]]

(* undo(): nothing happens at the beginning of the chain. *)
Undo ==
  /\ CanEdit
  /\ \E i \in DOMAIN deltas :
       LET d == deltas[i] IN
       /\ d.id = last
       /\ Possible(d, d.to)
       /\ Commit(Backward(d), Touched(deltas, d.id), d.prev, FALSE)
  /\ UNCHANGED <<created, request, raced>>

(* redo(): nothing happens at the end of it. *)
Redo ==
  /\ CanEdit
  /\ Undone # <<>>
  /\ LET d == Head(Undone) IN
       /\ Possible(d, d.from)
       /\ Commit(Forward(d), Touched(deltas, d.id), d.id, FALSE)
  /\ UNCHANGED <<created, request, raced>>

(* Mutant: the first delta still points at one that is gone.               *)
RelinkedNot(ds) == ds

(* delete_workflow_stale_deltas(): of the applied deltas, the newest that  *)
(* is too old goes with all before it; of the undone ones, the oldest that *)
(* is too old goes with all after it.                                      *)
Relinked(ds) == IF ds = <<>> THEN ds ELSE [ds EXCEPT ![1].prev = None]

DeleteStaleDeltas ==
  \E cutoff \in 2 .. now + 1 :
    LET stale   == {d.id : d \in {e \in Range(deltas) : e.last_applied_at < cutoff}}
        Kept(d) == \A id \in stale : IF id <= last THEN d.id > id ELSE d.id < id
    IN  /\ stale # {}
        /\ \E m \in 1 .. Len(deltas) + 1 : \E n \in m - 1 .. Len(deltas) :
             /\ \A i \in DOMAIN deltas : Kept(deltas[i]) <=> i \in m .. n
             /\ Commit(Screen, Relinked(SubSeq(deltas, m, n)), last, TRUE)
        /\ UNCHANGED <<created, now, request, raced>>

-----------------------------------------------------------------------------
(* The handlers.                                                           *)

(* _load_tab(), or _load_step_by_id() of the tab's step. *)
Load(u) ==
  /\ request[u] = <<>>
  /\ \E t \in Live(tabs) :
       request' = [request EXCEPT ![u] = <<[tab |-> t, position |-> tabs[t].position]>>]
  /\ UNCHANGED <<tabRows, history, raced, failed>>

Loaded(u) == Head(request[u])
Answer(u) == request[u] # <<>> /\ request' = [request EXCEPT ![u] = <<>>]

Exists(t)    == t \in DOMAIN tabs
IsCurrent(r) == /\ Exists(r.tab) /\ ~tabs[r.tab].is_deleted
                /\ tabs[r.tab].position = r.position

NewTab == created + 1

WithNewTab(p, step) ==
  [tabs |-> [t \in DOMAIN tabs \cup {NewTab} |->
               IF t = NewTab THEN [position |-> p, is_deleted |-> TRUE, step |-> step]
                             ELSE tabs[t]],
   selected |-> selected]

(* AddTab has no Tab to load: it counts the live ones inside the lock.     *)
AddTab ==
  LET p == Cardinality(Live(tabs)) IN
  /\ CanEdit
  /\ created < MaxTabs /\ created' = NewTab
  /\ Do("AddTab", NewTab, None, AddTabForward(WithNewTab(p, FALSE), NewTab, p), Order(tabs))
  /\ UNCHANGED <<request, raced>>

(* DuplicateTab puts the new tab after the one in memory, which may have   *)
(* gone.                                                                   *)
DuplicateTab(u) ==
  LET r == Loaded(u)
      p == r.position + 1
      step == Exists(r.tab) /\ tabs[r.tab].step
  IN
  /\ Answer(u)
  /\ CanEdit
  /\ created < MaxTabs /\ created' = NewTab
  /\ Do("DuplicateTab", NewTab, None, AddTabForward(WithNewTab(p, step), NewTab, p), Order(tabs))
  /\ raced' = (raced \/ ~IsCurrent(r))

(* DeleteTab: the last tab stays; so does a tab that has gone, since       *)
(* tab.save() raises.                                                      *)
DeleteTab(u) ==
  LET r == Loaded(u) IN
  /\ Answer(u)
  /\ IF Cardinality(Live(tabs)) = 1 \/ ~Exists(r.tab)
     THEN UNCHANGED <<tabRows, history, raced, failed>>
     ELSE /\ CanEdit
          /\ Do("DeleteTab", r.tab, None, DeleteTabForward(Screen, r.tab, r.position), Order(tabs))
          /\ raced' = (raced \/ ~IsCurrent(r))
          /\ UNCHANGED created

(* SetStepNote refreshes its step inside the lock -- it raises if the step *)
(* has gone -- and does not look whether the step is in a deleted tab.     *)
SetStepNote(u) ==
  LET t == Loaded(u).tab IN
  /\ Answer(u)
  /\ IF ~Exists(t)
     THEN UNCHANGED <<tabRows, history, raced, failed>>
     ELSE /\ tabs[t].step
          /\ CanEdit
          /\ Do("SetStepNote", None, t, Screen, Order(tabs))
          /\ raced' = (raced \/ tabs[t].is_deleted)
          /\ UNCHANGED created

(* ReorderTabs: nothing happens unless the order changes. *)
ReorderTabs ==
  /\ CanEdit
  /\ CanReorder(Screen, Order(tabs))
  /\ \E to \in SetToSeqs(Live(tabs)) \ {Order(tabs)} :
       Do("ReorderTabs", None, None, Reordered(Screen, Order(tabs), to), Order(tabs))
  /\ UNCHANGED <<created, request, raced>>

(* set_selected_tab() makes no delta.  (A click on the selected tab would  *)
(* change nothing.)                                                        *)
SetSelectedTab ==
  /\ CanEdit
  /\ \E t \in Live(tabs) : selected' = tabs[t].position
  /\ selected' # selected
  /\ UNCHANGED <<tabs, created, deltas, last, request, raced, failed>>

Next ==
  \/ Undo \/ Redo \/ DeleteStaleDeltas
  \/ AddTab \/ ReorderTabs \/ SetSelectedTab
  \/ \E u \in Users : Load(u) \/ DuplicateTab(u) \/ DeleteTab(u) \/ SetStepNote(u)

Spec == Init /\ [][Next]_vars

-----------------------------------------------------------------------------
(* Properties.                                                             *)

TabIds   == 1 .. MaxTabs
DeltaIds == 0 .. MaxEdits

Commands == {"AddTab", "DuplicateTab", "DeleteTab", "ReorderTabs", "SetStepNote"}

Delta == [id : DeltaIds, command : Commands, tab : {None} \cup TabIds,
          step : {None} \cup TabIds, prev : DeltaIds,
          from : Seq(TabIds), to : Seq(TabIds),
          old_selected : Nat, last_applied_at : DeltaIds]

TypeOK ==
  /\ created \in TabIds
  /\ DOMAIN tabs \subseteq 1 .. created
  /\ \A t \in DOMAIN tabs :
       tabs[t] \in [position : Nat, is_deleted : BOOLEAN, step : BOOLEAN]
  /\ selected \in Nat
  /\ deltas \in Seq(Delta)
  /\ last \in DeltaIds /\ now \in DeltaIds
  /\ request \in [Users -> Seq([tab : TabIds, position : Nat])]
  /\ raced \in BOOLEAN /\ failed \in BOOLEAN

(* The deltas are one linked list, whatever cron has cut off its ends and  *)
(* whoever raced; and unless the applied ones are all cut off, the         *)
(* workflow is at one of them, so that undo can go back to the first       *)
(* (prev_delta: "Next and previous Deltas on this workflow, a linked       *)
(* list", models/delta.py).                                                *)
ChainIsLinked ==
  /\ \A i \in DOMAIN deltas :
       deltas[i].prev = IF i = 1 THEN None ELSE deltas[i - 1].id
  /\ \A i \in DOMAIN deltas : deltas[i].id < last => last \in IdsOf(deltas)

(* Unless users race, the live tabs have positions 0, 1, 2 ... and one of  *)
(* them is selected, through all undos and redos: the commands add and     *)
(* subtract 1, and "we know old_selected_tab_position is valid, always"    *)
(* (AddTab.backward).                                                      *)
TabsAreInOrder ==
  ~raced =>
    /\ {tabs[t].position : t \in Live(tabs)} = 0 .. Cardinality(Live(tabs)) - 1
    /\ \E t \in Live(tabs) : tabs[t].position = selected

(* Unless users race, "it's safe to delete Deltas" (models/delta.py): no   *)
(* purge of deleted tabs runs into a delta that protects a step of theirs; *)
(* and no deleted tab is left that no undo or redo can bring back.         *)
PurgesAreSafeAndComplete == ~raced => ~failed /\ Orphans(tabs, deltas) = {}

(* Undo, redo and cron's clean-up keep what UndoHistory promises of the    *)
(* order of tabs: undo shows the order there was before the command, and   *)
(* redo the order after it.                                                *)
OrdersBefore(ds) == [i \in DOMAIN ds |-> ds[i].from]
OrdersAfter(ds)  == [i \in DOMAIN ds |-> ds[i].to]

(* At least one tab, and none twice. *)
IsOrder(s) == s # <<>> /\ IsInjective(s) /\ Range(s) \subseteq TabIds

History == INSTANCE UndoHistory WITH
  IsState <- IsOrder, past <- OrdersBefore(Applied),
  present <- Order(tabs), future <- OrdersAfter(Undone)

ImplementsUndoHistory == History!Spec
=============================================================================
