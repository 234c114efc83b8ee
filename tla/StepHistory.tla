----------------------------- MODULE StepHistory ----------------------------
(***************************************************************************)
(* The steps of one workflow through do, undo and redo: the commands on    *)
(* steps in cjwstate/models/commands/, what they and the commands on tabs  *)
(* say of the steps whose output changes (commands/util.py,                *)
(* DependencyGraph in models/workflow.py), and the cached render results   *)
(* that are fresh or not by what they say (models/step.py).                *)
(*                                                                         *)
(* A step may read other tabs: its parameters of type "tab" and            *)
(* "multitab".  What a module computes is left out: its output here tells  *)
(* apart all it could have been computed from.  The render is one action   *)
(* (RenderQueue has its steps), and positions of tabs are an order         *)
(* (TabHistory has the arithmetic, and the purge of deleted rows).         *)
(***************************************************************************)
EXTENDS Integers, SequencesExt

CONSTANTS FetchSteps,   \* the steps whose modules fetch data
          FirstSteps,   \* the steps each tab has at first, in order
          FirstReads,   \* the sets of tabs these steps read: some choices
          Reads,        \* the sets of tabs a user may let a step read
          Names,        \* names of tabs
          MaxTabs,      \* bound: tabs ever created
          MaxSteps,     \* bound: steps ever created
          MaxEdits      \* bound: commands, and clicks on a step

ASSUME StepBounds == {MaxTabs, MaxSteps, MaxEdits} \subseteq Nat

(* At first there are a tab, or more, and steps 1, 2, 3 ... in them.       *)
ASSUME FirstStepsAreInTabs ==
  /\ FirstSteps \in Seq(Seq(Nat)) /\ FirstSteps # <<>>
  /\ \A t, u \in DOMAIN FirstSteps : \A i \in DOMAIN FirstSteps[t], j \in DOMAIN FirstSteps[u] :
       FirstSteps[t][i] = FirstSteps[u][j] => t = u /\ i = j
  /\ \E n \in 0 .. MaxSteps : UNION {Range(FirstSteps[t]) : t \in DOMAIN FirstSteps} = 1 .. n

(* What they read is there: a tab that is added later has a slug of its    *)
(* own.                                                                    *)
ASSUME FirstReadsAreTabs ==
  \A reads \in FirstReads, t \in DOMAIN FirstSteps : \A s \in Range(FirstSteps[t]) :
    reads[s] \subseteq DOMAIN FirstSteps

None == 0   \* NULL

VARIABLES
  doc,       \* the rows of tables "tab" and "step", and the order of live_tabs
  deltas,    \* the rows of table "delta"
  last,      \* workflow.last_delta_id
  now,       \* commands, and clicks on a step, so far
  queued,    \* is a render queued?
  loaded,    \* the Step in the memory of a fetcher or a handler, as a sequence of
             \* at most one row
  raced,     \* has a command run with an out-of-date Step? (auxiliary)
  dangled,   \* has a tab been deleted that a live step reads? (auxiliary)
  revived    \* has an unrendered step come back from deletion? (auxiliary)

vars == <<doc, deltas, last, now, queued, loaded, raced, dangled, revived>>

-----------------------------------------------------------------------------
(* Tabs and steps.                                                         *)

LiveTabs(d)     == Range(d.order)
StepsOf(d, t)   == {s \in DOMAIN d.steps : d.steps[s].tab = t /\ ~d.steps[s].is_deleted}
LiveSteps(d)    == UNION {StepsOf(d, t) : t \in LiveTabs(d)}
InTab(d, t, p)  == {s \in StepsOf(d, t) : d.steps[s].order >= p}

(* tab.live_steps, ordered.  (If steps shared an order, Postgres might     *)
(* list them in any way; here the older comes first.)                      *)
Listed(d, t) ==
  LET Before(r, s) == \/ d.steps[r].order < d.steps[s].order
                      \/ d.steps[r].order = d.steps[s].order /\ r <= s
  IN  [i \in 1 .. Cardinality(StepsOf(d, t)) |->
         CHOOSE s \in StepsOf(d, t) : Cardinality({r \in StepsOf(d, t) : Before(r, s)}) = i]

Moved(d, S, by) ==
  [d EXCEPT !.steps = [s \in DOMAIN d.steps |->
     IF s \in S THEN [d.steps[s] EXCEPT !.order = @ + by] ELSE d.steps[s]]]

Shown(d, s, b) == [d EXCEPT !.steps[s].is_deleted = ~b]

(* DependencyGraph: the steps that read one of the tabs, each with those   *)
(* after it in its tab; and then those that read a tab of one of these.    *)
DependOn(d, T) ==
  {s \in LiveSteps(d) :
     \E r \in StepsOf(d, d.steps[s].tab) :
       d.steps[r].order <= d.steps[s].order /\ d.steps[r].params.reads \cap T # {}}

(* Mutant: get_step_ids_depending_on_tab_slugs() without its loop.         *)
DirectDependents(d, T) == DependOn(d, T)

Dependents(d, T) ==
  LET tabs == T \cup LiveTabs(d)
      Reached(U) == T \subseteq U /\ \A s \in DependOn(d, U) : d.steps[s].tab \in U
  IN  DependOn(d, {t \in tabs : \A U \in SUBSET tabs : Reached(U) => t \in U})

(* affected_step_delta_ids() of a step at p in tab t.                      *)
AffectedFrom(d, t, p) == InTab(d, t, p) \cup Dependents(d, {t})

-----------------------------------------------------------------------------
(* What a render gives (renderer/execute/): of each tab in turn, as soon   *)
(* as the tabs its steps read are rendered.  The tabs that are never ready *)
(* are in cycles or read one that is: each reads one of them.              *)

Inputs(d, t) == UNION {d.steps[s].params.reads : s \in StepsOf(d, t)}

Ready(d) ==
  LiveTabs(d) \ UNION {X \in SUBSET LiveTabs(d) : \A t \in X : Inputs(d, t) \cap X # {}}

LastOf(d, S) == CHOOSE r \in S : \A q \in S : d.steps[q].order <= d.steps[r].order
Preceding(d, s) == {r \in StepsOf(d, d.steps[s].tab) : d.steps[r].order < d.steps[s].order}

(* Tabs T, in order. *)
PlaceOf(list, x) == CHOOSE i \in DOMAIN list : list[i] = x
InTurn(d, T) ==
  [i \in 1 .. Cardinality(T) |->
     CHOOSE t \in T : i = Cardinality({u \in T : PlaceOf(d.order, u) <= PlaceOf(d.order, t)})]

(* The output of a step: everything it is computed from, of which out has  *)
(* the outputs.  A missing tab is left out, and one in a cycle has none.   *)
OutputFrom(d, ready, out, s) ==
  LET row   == d.steps[s]
      Of(S) == IF S = {} THEN <<>> ELSE <<out[LastOf(d, S)]>>
      read  == [t \in row.params.reads \cap LiveTabs(d) |->
                  IF t \in ready THEN <<d.tabs[t].name, Of(StepsOf(d, t))>> ELSE <<>>]
      turn  == InTurn(d, DOMAIN read)
  IN  [value   |-> row.params.value,
       version |-> row.version,
       tab     |-> d.tabs[row.tab].name,
       input   |-> Of(Preceding(d, s)),
       tabs    |-> [i \in DOMAIN turn |-> read[turn[i]]]]

Outputs(d) ==
  LET ready == Ready(d)
      out[s \in LiveSteps(d)] == OutputFrom(d, ready, out, s)
  IN  out

(* step.cached_render_result is not None *)
IsFresh(row) == row.crr # <<>> /\ row.crr[1].delta = row.delta

Stale(d) == {s \in LiveSteps(d) : ~IsFresh(d.steps[s])}

(* The renderer caches a result for each stale step. *)
Rendered(d) ==
  LET outputs == Outputs(d)
  IN  [d EXCEPT !.steps = [s \in DOMAIN d.steps |->
         IF s \in Stale(d)
         THEN [d.steps[s] EXCEPT !.crr = <<[delta |-> d.steps[s].delta, out |-> outputs[s]]>>]
         ELSE d.steps[s]]]

-----------------------------------------------------------------------------
(* forward() and backward() of each command.                               *)

AddStepForward(d, s, id) ==
  LET row == d.steps[s]
      gap == Moved(d, InTab(d, row.tab, row.order), 1)
  IN  [Shown(gap, s, TRUE) EXCEPT
         !.steps[s].delta = IF @ = None THEN id ELSE @,
         !.tabs[row.tab].selected = {row.order}]

AddStepBackward(d, s) ==
  LET t       == d.steps[s].tab
      without == Shown(d, s, FALSE)
      n       == Cardinality(StepsOf(without, t))
  IN  [Moved(without, InTab(without, t, d.steps[s].order + 1), -1) EXCEPT
         !.tabs[t].selected = IF @ # {} /\ \A p \in @ : p < n THEN @
                              ELSE IF n = 0 THEN {} ELSE {n - 1}]

(* DeleteStep: if it was selected, the step before it is; if there is      *)
(* none, none is.                                                          *)
DeleteStepForward(d, s) ==
  LET t == d.steps[s].tab
      p == d.steps[s].order
      without == Shown(d, s, FALSE)
  IN  [Moved(without, InTab(without, t, p + 1), -1) EXCEPT
         !.tabs[t].selected = {IF q >= p THEN q - 1 ELSE q : q \in @} \cap Nat]

(* Mutant: position > instead of >=.                                       *)
DeleteStepBackwardWithoutGap(d, s) ==
  Shown(Moved(d, InTab(d, d.steps[s].tab, d.steps[s].order + 1), 1), s, TRUE)

DeleteStepBackward(d, s) ==
  Shown(Moved(d, InTab(d, d.steps[s].tab, d.steps[s].order), 1), s, TRUE)

(* _apply_order() *)
Arranged(d, list) ==
  [d EXCEPT !.steps = [s \in DOMAIN d.steps |->
     IF s \in Range(list)
     THEN [d.steps[s] EXCEPT !.order = CHOOSE i \in 0 .. Len(list) - 1 : list[i + 1] = s]
     ELSE d.steps[s]]]

TabShown(d, t, p) == [d EXCEPT !.order = InsertAt(@, p, t)]
TabHidden(d, t)   == [d EXCEPT !.order = RemoveAt(@, PlaceOf(@, t))]

(* ... and of the steps a delta changes: the new delta's id, ...           *)
WithDelta(d, S, id) ==
  [d EXCEPT !.steps = [s \in DOMAIN d.steps |->
     IF s \in S THEN [d.steps[s] EXCEPT !.delta = id] ELSE d.steps[s]]]

Forward(d, e) ==
  WithDelta(CASE e.command = "AddStep"            -> AddStepForward(d, e.step, e.id)
              [] e.command = "DeleteStep"         -> DeleteStepForward(d, e.step)
              [] e.command = "ReorderSteps"       -> Arranged(d, e.forth)
              [] e.command = "SetStepParams"      -> [d EXCEPT !.steps[e.step].params = e.forth]
              [] e.command = "SetStepDataVersion" -> [d EXCEPT !.steps[e.step].version = e.forth]
              [] e.command = "SetTabName"         -> [d EXCEPT !.tabs[e.tab].name = e.forth]
              [] e.command = "ReorderTabs"        -> [d EXCEPT !.order = e.forth]
              [] e.command = "DuplicateTab"       -> TabShown(d, e.tab, e.forth)
              [] e.command = "DeleteTab"          -> TabHidden(d, e.tab),
            DOMAIN e.ids, e.id)

(* Mutant: undo marks the steps as changed by the delta it undoes.         *)
KeepDelta(d, ids) == d

(* ... or the id each had before.                                          *)
WithOldDeltas(d, ids) ==
  [d EXCEPT !.steps = [s \in DOMAIN d.steps |->
     IF s \in DOMAIN ids THEN [d.steps[s] EXCEPT !.delta = ids[s]] ELSE d.steps[s]]]

Backward(d, e) ==
  WithOldDeltas(CASE e.command = "AddStep"            -> AddStepBackward(d, e.step)
                  [] e.command = "DeleteStep"         -> DeleteStepBackward(d, e.step)
                  [] e.command = "ReorderSteps"       -> Arranged(d, e.back)
                  [] e.command = "SetStepParams"      -> [d EXCEPT !.steps[e.step].params = e.back]
                  [] e.command = "SetStepDataVersion" -> [d EXCEPT !.steps[e.step].version = e.back]
                  [] e.command = "SetTabName"         -> [d EXCEPT !.tabs[e.tab].name = e.back]
                  [] e.command = "ReorderTabs"        -> [d EXCEPT !.order = e.back]
                  [] e.command = "DuplicateTab"       -> TabHidden(d, e.tab)
                  [] e.command = "DeleteTab"          -> TabShown(d, e.tab, e.back),
                e.ids)

(* Mutant: AddStep has no get_modifies_render_output() of its own.         *)
ModifiesOthers(d, e) ==
  CASE e.command \in {"SetStepDataVersion"} -> TRUE
    [] e.command = "DuplicateTab" -> e.tab \in LiveTabs(d) /\ StepsOf(d, e.tab) \cap Stale(d) # {}
    [] e.command = "DeleteTab"    -> FALSE
    [] OTHER                      -> DOMAIN e.ids # {}

(* get_modifies_render_output(), when the tabs and steps have become d.    *)
ModifiesRenderOutput(d, e) ==
  CASE e.command \in {"AddStep", "SetStepDataVersion"} -> TRUE
    [] e.command = "DuplicateTab" -> e.tab \in LiveTabs(d) /\ StepsOf(d, e.tab) \cap Stale(d) # {}
    [] e.command = "DeleteTab"    -> FALSE
    [] OTHER                      -> DOMAIN e.ids # {}

-----------------------------------------------------------------------------
(* The delta chain (cjwstate/commands.py).                                 *)

(* What the user sees, but for the results. *)
Content(d) ==
  [order |-> d.order,
   names |-> [t \in LiveTabs(d) |-> d.tabs[t].name],
   steps |-> [s \in LiveSteps(d) |->
                LET row == d.steps[s]
                IN  <<row.tab, row.order, row.params, row.version, row.delta>>]]

(* The applied ones come first. *)
NApplied == CHOOSE n \in 0 .. Len(deltas) :
              \A i \in DOMAIN deltas : deltas[i].id <= last <=> i <= n
Applied  == SubSeq(deltas, 1, NApplied)
Undone   == SubSeq(deltas, NApplied + 1, Len(deltas))

CanEdit == now < MaxEdits /\ now' = now + 1

(* The transaction commits; then the render is queued, if there is to be   *)
(* one.  (RenderQueue has the ways in which that fails.)                   *)
Commit(d, e, l) ==
  /\ doc' = d
  /\ last' = l
  /\ queued' = (queued \/ ModifiesRenderOutput(d, e))
  /\ dangled' = (dangled \/ \E t \in LiveTabs(doc) \ LiveTabs(d) : Dependents(d, {t}) # {})
  /\ revived' = (revived \/ (/\ e.command \in {"DeleteStep", "DeleteTab"}
                             /\ Stale(d) \ LiveSteps(doc) # {}))

(* do(): forward() on the rows that amend_create_kwargs() leaves, d.       *)
Do(d, command, step, tab, back, forth, affected) ==
  LET e == [id |-> now + 1, command |-> command, step |-> step, tab |-> tab,
            back |-> back, forth |-> forth,
            ids |-> [s \in affected |-> d.steps[s].delta],
            before |-> Content(doc), after |-> Content(doc)]
      done == Forward(d, e)
  IN  /\ CanEdit
      /\ Commit(done, e, e.id)
      /\ deltas' = Append(Applied, [e EXCEPT !.after = Content(done)])

Undo ==
  /\ Applied # <<>>
  /\ LET e == Last(Applied)
         n == Len(Applied)
     IN  Commit(Backward(doc, e), e, IF n = 1 THEN None ELSE Applied[n - 1].id)
  /\ UNCHANGED <<deltas, now, loaded, raced>>

Redo ==
  /\ Undone # <<>>
  /\ LET e == Head(Undone) IN Commit(Forward(doc, e), e, e.id)
  /\ UNCHANGED <<deltas, now, loaded, raced>>

-----------------------------------------------------------------------------
(* The handlers (server/handlers/step.py, tab.py, workflow.py) and the     *)
(* amend_create_kwargs() of the commands they call.                        *)

NewStep(i) == Cardinality(DOMAIN doc.steps) + i
NewTab     == Cardinality(DOMAIN doc.tabs) + 1
Params     == [reads : {R \in Reads : R \subseteq LiveTabs(doc)}, value : {now + 1}]

Here == UNCHANGED <<loaded, raced>>

(* New rows beside the old ones. *)
And(rows, new) == [x \in DOMAIN rows \cup DOMAIN new |->
                     IF x \in DOMAIN new THEN new[x] ELSE rows[x]]

(* AddStep.  (Nobody looks whether the position, which the browser         *)
(* computes, is still one of the tab's; here it is.)                       *)
AddStep ==
  /\ NewStep(1) <= MaxSteps
  /\ \E t \in LiveTabs(doc), params \in Params : \E p \in 0 .. Cardinality(StepsOf(doc, t)) :
       LET row == [tab |-> t, order |-> p, is_deleted |-> TRUE, delta |-> None,
                   params |-> params, version |-> 0, crr |-> <<>>]
           d   == [doc EXCEPT !.steps = And(@, [s \in {NewStep(1)} |-> row])]
       IN  Do(d, "AddStep", NewStep(1), None, 0, 0, AffectedFrom(d, t, p))
  /\ Here

(* A fetcher has stored a version (fetcher/save.py), or a handler has      *)
(* found the one the user wants: SetStepDataVersion is to come.            *)
LoadStep ==
  /\ loaded = <<>>
  /\ \E s \in LiveSteps(doc) \cap FetchSteps :
       LET row == doc.steps[s] IN
       loaded' = <<[step |-> s, tab |-> row.tab, order |-> row.order, version |-> row.version]>>
  /\ UNCHANGED <<doc, deltas, last, now, queued, raced, dangled, revived>>

IsCurrent(r) ==
  LET row == doc.steps[r.step]
  IN  /\ r.step \in LiveSteps(doc)
      /\ row.tab = r.tab /\ row.order = r.order /\ row.version = r.version

(* The Step in memory gives the old version, and the place in the tab from *)
(* which steps change.                                                     *)
SetStepDataVersion ==
  /\ loaded # <<>>
  /\ LET r == Head(loaded) IN
       /\ Do(doc, "SetStepDataVersion", r.step, None, r.version, now + 1,
             AffectedFrom(doc, r.tab, r.order))
       /\ raced' = (raced \/ ~IsCurrent(r))
  /\ loaded' = <<>>

(* SetStepParams, DeleteStep: the Step is refreshed inside the lock, and   *)
(* nothing happens if it or its tab is deleted.                            *)
SetStepParams ==
  /\ \E s \in LiveSteps(doc), params \in Params :
       LET row == doc.steps[s] IN
       Do(doc, "SetStepParams", s, None, row.params, params, AffectedFrom(doc, row.tab, row.order))
  /\ Here

DeleteStep ==
  /\ \E s \in LiveSteps(doc) :
       LET row == doc.steps[s] IN
       Do(doc, "DeleteStep", s, None, 0, 0, AffectedFrom(doc, row.tab, row.order + 1))
  /\ Here

(* ReorderSteps: from the first place that gets another step. *)
ReorderSteps ==
  /\ \E t \in LiveTabs(doc) :
       LET old == Listed(doc, t) IN
       \E new \in SetToSeqs(Range(old)) \ {old} :
         LET first == CHOOSE i \in DOMAIN old :
                        old[i] # new[i] /\ \A j \in 1 .. i - 1 : old[j] = new[j]
         IN  /\ InTab(doc, t, first - 1) \ InTab(doc, t, first) # {}
             /\ Do(doc, "ReorderSteps", None, t, old, new, AffectedFrom(doc, t, first - 1))
  /\ Here

(* SetTabName: the steps in the tab, which know its name, and those that   *)
(* read it.                                                                *)
SetTabName ==
  /\ \E t \in LiveTabs(doc) : \E name \in Names \ {doc.tabs[t].name} :
       Do(doc, "SetTabName", None, t, doc.tabs[t].name, name,
          StepsOf(doc, t) \cup Dependents(doc, {t}))
  /\ Here

(* ReorderTabs: the steps that read a tab between the first place that     *)
(* changes and the last, since they read tabs in order.                    *)
ReorderTabs ==
  /\ \E new \in SetToSeqs(LiveTabs(doc)) \ {doc.order} :
       LET old     == doc.order
           changed == {i \in DOMAIN old : old[i] # new[i]}
           moved   == {old[i] : i \in {j \in DOMAIN old : \E a, b \in changed : a <= j /\ j <= b}}
       IN  Do(doc, "ReorderTabs", None, None, old, new, Dependents(doc, moved))
  /\ Here

(* _duplicate_with_slug_and_delta_id() copies a fresh result, unless the   *)
(* step can tell the tabs apart by their names.                            *)
ResultOfCopy(row, sameName) == IF IsFresh(row) /\ sameName THEN row.crr ELSE <<>>

DuplicateTab ==
  /\ NewTab <= MaxTabs
  /\ \E t \in LiveTabs(doc), name \in Names :
       LET list == Listed(doc, t)
           Copy(i) == LET row == doc.steps[list[i]] IN
             [row EXCEPT !.tab = NewTab, !.crr = ResultOfCopy(row, name = doc.tabs[t].name)]
           ids == {NewStep(i) : i \in DOMAIN list}
           d == [doc EXCEPT
                   !.tabs = And(@, [u \in {NewTab} |-> [doc.tabs[t] EXCEPT !.name = name]]),
                   !.steps = And(@, [s \in ids |-> Copy(s - Cardinality(DOMAIN doc.steps))])]
           p == PlaceOf(doc.order, t) + 1
       IN  /\ NewStep(Len(list)) <= MaxSteps
           /\ Do(d, "DuplicateTab", None, NewTab, 0, p, {})
  /\ Here

(* DeleteTab: no step's output is said to change. *)
DeleteTab ==
  /\ Len(doc.order) > 1
  /\ \E i \in DOMAIN doc.order :
       Do(doc, "DeleteTab", None, doc.order[i], i, 0, {})
  /\ Here

(* set_position(): inside the lock, and without a delta. *)
SetPosition ==
  /\ CanEdit
  /\ \E s \in LiveSteps(doc) :
       LET row == doc.steps[s] IN
       /\ doc.tabs[row.tab].selected # {row.order}
       /\ doc' = [doc EXCEPT !.tabs[row.tab].selected = {row.order}]
  /\ UNCHANGED <<deltas, last, queued, loaded, raced, dangled, revived>>

Render ==
  /\ queued
  /\ doc' = Rendered(doc)
  /\ queued' = FALSE
  /\ UNCHANGED <<deltas, last, now, loaded, raced, dangled, revived>>

Init ==
  /\ LET TabOf(s) == CHOOSE t \in DOMAIN FirstSteps : s \in Range(FirstSteps[t])
     IN  \E reads \in FirstReads :
           doc = [tabs  |-> [t \in DOMAIN FirstSteps |->
                               [name     |-> CHOOSE name \in Names : TRUE,
                                selected |-> {0} \cap 0 .. Len(FirstSteps[t]) - 1]],
                  order |-> [t \in DOMAIN FirstSteps |-> t],
                  steps |-> [s \in UNION {Range(FirstSteps[t]) : t \in DOMAIN FirstSteps} |->
                               [tab |-> TabOf(s), order |-> PlaceOf(FirstSteps[TabOf(s)], s) - 1,
                                is_deleted |-> FALSE, delta |-> None, version |-> 0,
                                params |-> [reads |-> reads[s], value |-> 0], crr |-> <<>>]]]
  /\ deltas = <<>> /\ last = None /\ now = 0
  /\ queued = TRUE
  /\ loaded = <<>>
  /\ raced = FALSE /\ dangled = FALSE /\ revived = FALSE

Next ==
  \/ Undo \/ Redo \/ Render \/ SetPosition
  \/ SetStepParams \/ DeleteStep \/ ReorderSteps
  \/ SetTabName \/ ReorderTabs \/ DuplicateTab \/ DeleteTab
  \/ AddStep \/ LoadStep \/ SetStepDataVersion

Spec == Init /\ [][Next]_vars

-----------------------------------------------------------------------------
(* Properties.                                                             *)

TypeOK ==
  /\ doc.order \in Seq(DOMAIN doc.tabs) /\ DOMAIN doc.tabs \subseteq 1 .. MaxTabs
  /\ \A t \in DOMAIN doc.tabs : doc.tabs[t] \in [name : Names, selected : SUBSET Nat]
  /\ DOMAIN doc.steps \subseteq 1 .. MaxSteps
  /\ \A s \in DOMAIN doc.steps :
       LET row == doc.steps[s] IN
       /\ row.tab \in DOMAIN doc.tabs /\ row.order \in Nat /\ row.is_deleted \in BOOLEAN
       /\ {row.delta, row.version} \subseteq 0 .. MaxEdits
  /\ \A i \in DOMAIN deltas : deltas[i].id \in 1 .. MaxEdits
  /\ {last, now} \subseteq 0 .. MaxEdits
  /\ {queued, raced, dangled, revived} \subseteq BOOLEAN

(* Unless users race, the steps of a tab have places 0, 1, 2 ..., and what *)
(* is selected is one of them, through all undos and redos: the commands   *)
(* add and subtract 1, and AddStep.backward() has to "prevent              *)
(* tab.selected_step_position from becoming invalid".                      *)
StepsAreInOrder ==
  ~raced =>
    \A t \in LiveTabs(doc) :
      LET places == 0 .. Cardinality(StepsOf(doc, t)) - 1
      IN  /\ {doc.steps[s].order : s \in StepsOf(doc, t)} = places
          /\ doc.tabs[t].selected \subseteq places

(* last_relevant_delta_id is the "most-recent delta that may possibly      *)
(* affect the output of this module" (models/step.py): a result that       *)
(* counts as fresh is what a render would give now.                        *)
FreshResultsAreTrue ==
  LET outputs == Outputs(doc)
  IN  \A s \in LiveSteps(doc) :
        IsFresh(doc.steps[s]) => doc.steps[s].crr[1].out = outputs[s]

(* ... unless users race, or somebody deletes a tab that others read.      *)
FreshResultsAreTrueOtherwise == raced \/ dangled \/ FreshResultsAreTrue

(* A step without a fresh result has a render coming ("If any Step output  *)
(* may change, schedule a render", commands/util.py), unless it came back  *)
(* from a deletion unrendered.                                             *)
StaleStepsAreQueued == Stale(doc) # {} => queued \/ revived \/ raced

(* Undo and redo keep what UndoHistory promises of all tabs and steps,     *)
(* with their parameters, versions and delta ids.                          *)
Before(es) == [i \in DOMAIN es |-> es[i].before]
After(es)  == [i \in DOMAIN es |-> es[i].after]
IsContent(c) == c.order # <<>> /\ IsInjective(c.order)

History == INSTANCE UndoHistory WITH
  IsState <- IsContent, past <- Before(Applied), present <- Content(doc), future <- After(Undone)

ImplementsUndoHistory == History!Spec
=============================================================================
