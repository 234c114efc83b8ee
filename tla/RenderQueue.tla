---------------------------- MODULE RenderQueue ----------------------------
(***************************************************************************)
(* How one workflow gets rendered: commands commit deltas and queue render *)
(* messages (cjwstate/commands.py), renderers consume them, render under   *)
(* the render lock and maybe requeue (renderer/render.py), RabbitMQ        *)
(* redelivers what is not acked, and cron takes the same lock              *)
(* (cron/autoupdate.py).  Workflows share nothing but the renderers'       *)
(* time, so the model has one.                                             *)
(*                                                                         *)
(* The lock is RenderPhases, which RenderLock implements.                  *)
(***************************************************************************)
EXTENDS Naturals, Sequences, FiniteSets

CONSTANTS Renderers,   \* renderer processes; each handles one message at once
          Cron,        \* the cron process
          NSteps,      \* steps of the workflow, in one tab
          MaxEdits,    \* bound: edits, undos, redos and page loads
          MaxVisits,   \* bound: times cron takes the lock
          MaxFaults,   \* bound: faults, in all
          FaultKinds   \* the faults that may happen

ASSUME CronAssumption   == Cron \notin Renderers
ASSUME BoundsAssumption == {NSteps, MaxEdits, MaxVisits, MaxFaults} \subseteq Nat
ASSUME FaultAssumption  == FaultKinds \subseteq {"kill", "db_error", "render_bug"}

Steps  == 1 .. NSteps
Deltas == 0 .. MaxEdits          \* delta ids; 0 is "no delta"
Actors == Renderers \cup {Cron}
NoMessage == MaxEdits + 1

VARIABLES
  chain,     \* the workflow's deltas, a sequence of [id, first]: the delta
             \* changes the output of steps first .. NSteps (none: NSteps + 1)
  applied,   \* how many of them are applied; the others were undone
  exists,    \* is the workflow still in the database?
  cached,    \* cached[s] = step s's cached_render_result_delta_id
  edits,     \* user actions so far
  pending,   \* pending[d]: renders of d a web server has yet to publish
  queue,     \* queue[d]: render messages for d that RabbitMQ may deliver
  at,        \* at[r]: where renderer r is in its message handler
  unacked,   \* unacked[r]: the delta_id of the message it has not acked
  seen,      \* seen[r]: steps' last_relevant_delta_ids when r loaded them
  next,      \* next[r]: the step it renders next
  result,    \* result[r]: its RenderResult, or "error"
  requeue,   \* requeue[r]: workflow.last_delta_id in r's memory
  phase, target, epoch,   \* the render lock, see RenderPhases
  visits,    \* cron's visits so far
  nfaults,   \* faults so far
  broken,    \* the ways a message has been lost so far (auxiliary)
  owed       \* a render was queued and the workflow is stale since (auxiliary)

workflow == <<chain, applied, exists, edits>>
memory   == <<seen, next>>
lock     == <<phase, target, epoch>>
ghosts   == <<nfaults, broken>>
vars == <<workflow, cached, pending, queue, at, unacked, memory, result,
          requeue, lock, visits, ghosts, owed>>

Lock == INSTANCE RenderPhases WITH
          Clients <- Actors, Tasks <- Actors, Workflows <- {"workflow"},
          ClientOf <- [a \in Actors |-> a], state <- phase

-----------------------------------------------------------------------------
(* The workflow.                                                           *)

(* workflow.last_delta_id *)
LastDelta == IF applied = 0 THEN 0 ELSE chain[applied].id

(* step.last_relevant_delta_id: forward() sets it to the delta's id,       *)
(* backward() restores it.                                                 *)
Relevant(s) ==
  LET touching == {i \in 1 .. applied : chain[i].first <= s}
  IN  IF touching = {} THEN 0
      ELSE chain[CHOOSE i \in touching : \A j \in touching : j <= i].id

Stale == {s \in Steps : cached[s] # Relevant(s)}
Fresh == Stale = {}

Init ==
  /\ chain = <<>> /\ applied = 0 /\ exists = TRUE /\ edits = 0
  /\ cached = [s \in Steps |-> 0]
  /\ pending = [d \in Deltas |-> 0]
  /\ queue = [d \in Deltas |-> 0]
  /\ at = [r \in Renderers |-> "idle"]
  /\ unacked = [r \in Renderers |-> NoMessage]
  /\ seen = [r \in Renderers |-> [s \in Steps |-> 0]]
  /\ next = [r \in Renderers |-> 1]
  /\ result = [r \in Renderers |-> "none"]
  /\ requeue = [r \in Renderers |-> 0]
  /\ Lock!Init
  /\ visits = 0 /\ nfaults = 0 /\ broken = {} /\ owed = FALSE

-----------------------------------------------------------------------------
(* The web servers.                                                        *)

CanEdit == exists /\ edits < MaxEdits /\ edits' = edits + 1

(* After the commit, the web server queues a render of d if the command    *)
(* modifies render output -- unless it never gets to it: the process dies, *)
(* or the render is lazy (SetStepDataVersion) and nobody listens.          *)
MaybeQueue(d, modifies) ==
  \/ modifies /\ pending' = [pending EXCEPT ![d] = @ + 1]
  \/ UNCHANGED pending

Committed ==
  /\ UNCHANGED <<exists, cached, queue, at, unacked, memory, result, requeue,
                 lock, visits, ghosts>>
  /\ owed' = (owed /\ ~Fresh')

(* commands.do(): delete the undone deltas, append one, apply it.          *)
Do == \E first \in 1 .. NSteps + 1 :
  /\ CanEdit
  /\ chain' = Append(SubSeq(chain, 1, applied), [id |-> edits + 1, first |-> first])
  /\ applied' = applied + 1
  /\ MaybeQueue(edits + 1, first <= NSteps)
  /\ Committed

Undo ==
  /\ CanEdit
  /\ applied > 0
  /\ applied' = applied - 1
  /\ UNCHANGED chain
  /\ MaybeQueue(LastDelta', chain[applied].first <= NSteps)
  /\ Committed

Redo ==
  /\ CanEdit
  /\ applied < Len(chain)
  /\ applied' = applied + 1
  /\ UNCHANGED chain
  /\ MaybeQueue(LastDelta', chain[applied + 1].first <= NSteps)
  /\ Committed

(* A browser connects: send_whole_workflow_to_client queues a render when  *)
(* a step is stale.                                                        *)
OpenPage ==
  /\ CanEdit
  /\ ~Fresh
  /\ MaybeQueue(LastDelta, TRUE)
  /\ UNCHANGED <<chain, applied>>
  /\ Committed

(* Somebody deletes the workflow. *)
Delete ==
  /\ exists /\ exists' = FALSE
  /\ owed' = FALSE
  /\ UNCHANGED <<chain, applied, edits, cached, pending, queue, at, unacked,
                 memory, result, requeue, lock, visits, ghosts>>

(* rabbitmq.queue_render() *)
Publish(d) ==
  /\ queue' = [queue EXCEPT ![d] = @ + 1]
  /\ owed' = (exists /\ ~Fresh)

WebPublishes(d) ==
  /\ pending[d] > 0
  /\ pending' = [pending EXCEPT ![d] = @ - 1]
  /\ Publish(d)
  /\ UNCHANGED <<workflow, cached, at, unacked, memory, result, requeue, lock,
                 visits, ghosts>>

-----------------------------------------------------------------------------
(* A renderer: handle_render() in an acking_callback.                      *)

Goto(r, from, to) == at[r] = from /\ at' = [at EXCEPT ![r] = to]

Finish(r, res) == result' = [result EXCEPT ![r] = res]

(* Nothing changes but where r is, and (per action) what is named.         *)
NoLock   == UNCHANGED lock
NoChange == UNCHANGED <<workflow, pending, visits, nfaults>>

(* prefetch_count=1: RabbitMQ delivers to an idle consumer.  Redelivery    *)
(* breaks the queue's order, so the model does not keep one.               *)
Deliver(r, d) ==
  /\ Goto(r, "idle", "lookup")
  /\ queue[d] > 0
  /\ queue' = [queue EXCEPT ![d] = @ - 1]
  /\ unacked' = [unacked EXCEPT ![r] = d]
  /\ NoChange /\ NoLock /\ UNCHANGED <<cached, memory, result, requeue, broken, owed>>

(* _lookup_workflow: the render of a deleted workflow is skipped.          *)
Lookup(r) ==
  /\ IF exists THEN Goto(r, "lookup", "lock") /\ Lock!Request(r, "workflow")
               ELSE Goto(r, "lookup", "done") /\ NoLock
  /\ NoChange /\ UNCHANGED <<cached, queue, unacked, memory, result, requeue, broken, owed>>

AcquireLock(r) ==
  /\ Goto(r, "lock", "load")
  /\ Lock!Lock(r)
  /\ NoChange /\ UNCHANGED <<cached, queue, unacked, memory, result, requeue, broken, owed>>

(* WorkflowAlreadyLocked: "Workflow %d is being rendered elsewhere;        *)
(* ignoring" -- though it may be cron that has the lock.                   *)
Ignore(r) ==
  /\ Goto(r, "lock", "done")
  /\ Lock!Refuse(r)
  /\ broken' = IF phase[Cron] = "rendering" THEN broken \cup {"cron"} ELSE broken
  /\ NoChange /\ UNCHANGED <<cached, queue, unacked, memory, result, requeue, owed>>

(* Mutant: whoever edited has queued a render, so let it go.               *)
LoadOrForgetIt(r) ==
  /\ NoChange /\ NoLock /\ UNCHANGED <<cached, queue, unacked, broken, owed>>
  /\ \/ /\ ~exists \/ LastDelta # unacked[r]
        /\ Goto(r, "load", "stall") /\ Finish(r, "must_not_requeue")
        /\ UNCHANGED <<memory, requeue>>
     \/ /\ exists /\ LastDelta = unacked[r]
        /\ Goto(r, "load", "input")
        /\ seen' = [seen EXCEPT ![r] = [s \in Steps |-> Relevant(s)]]
        /\ next' = [next EXCEPT ![r] = IF Fresh THEN NSteps + 1
                      ELSE CHOOSE s \in Stale : \A u \in Stale : s <= u]
        /\ UNCHANGED <<result, requeue>>

(* Mutant: the last stale step is where the render begins.                 *)
LoadFromLastStale(r) ==
  /\ NoChange /\ NoLock /\ UNCHANGED <<cached, queue, unacked, broken, owed>>
  /\ \/ /\ LastDelta # unacked[r]
        /\ Goto(r, "load", "stall") /\ Finish(r, "must_requeue")
        /\ requeue' = [requeue EXCEPT ![r] = LastDelta]
        /\ UNCHANGED memory
     \/ /\ exists /\ LastDelta = unacked[r]
        /\ Goto(r, "load", "input")
        /\ seen' = [seen EXCEPT ![r] = [s \in Steps |-> Relevant(s)]]
        /\ next' = [next EXCEPT ![r] = IF Fresh THEN NSteps + 1
                      ELSE CHOOSE s \in Stale : \A u \in Stale : s >= u]
        /\ UNCHANGED <<result, requeue>>

(* _load_tab_flows, under the workflow's cooperative lock, which refreshes *)
(* the workflow in r's memory.                                             *)
Load(r) ==
  /\ NoChange /\ NoLock /\ UNCHANGED <<cached, queue, unacked, broken, owed>>
  /\ \/ /\ ~exists                             \* Workflow.DoesNotExist
        /\ Goto(r, "load", "stall") /\ Finish(r, "must_not_requeue")
        /\ UNCHANGED <<memory, requeue>>
     \/ /\ exists /\ LastDelta # unacked[r]    \* UnneededExecution
        /\ Goto(r, "load", "stall") /\ Finish(r, "must_requeue")
        /\ requeue' = [requeue EXCEPT ![r] = LastDelta]
        /\ UNCHANGED memory
     \/ /\ exists /\ LastDelta = unacked[r]
        /\ Goto(r, "load", "input")
        /\ seen' = [seen EXCEPT ![r] = [s \in Steps |-> Relevant(s)]]
        /\ next' = [next EXCEPT ![r] = IF Fresh THEN NSteps + 1
                      ELSE CHOOSE s \in Stale : \A u \in Stale : s <= u]
        /\ UNCHANGED <<result, requeue>>

(* locked_step: the step must still be as r loaded it.  Taking the lock    *)
(* refreshed the workflow in r's memory (a deleted one stays as it was).   *)
StepChanged(r, s) == ~exists \/ Relevant(s) # seen[r][s]

(* Mutant: a step that has changed ends the render, and that is all.       *)
UnneededForGood(r, from, s) ==
  /\ Goto(r, from, "stall") /\ Finish(r, "must_not_requeue")
  /\ StepChanged(r, s)
  /\ UNCHANGED <<cached, requeue, owed>>

Unneeded(r, from, s) ==
  /\ Goto(r, from, "stall") /\ Finish(r, "must_requeue")
  /\ StepChanged(r, s)
  /\ requeue' = [requeue EXCEPT ![r] = IF exists THEN LastDelta ELSE unacked[r]]
  /\ UNCHANGED <<cached, owed>>

(* _load_step_output_from_rendercache reads the last fresh step's output,  *)
(* if there is one.                                                        *)
ReadInput(r) ==
  LET s == next[r] - 1 IN
  /\ NoChange /\ NoLock /\ UNCHANGED <<queue, unacked, memory, broken>>
  /\ IF s = 0
     THEN Goto(r, "input", "begin") /\ UNCHANGED <<cached, result, requeue, owed>>
     ELSE \/ Unneeded(r, "input", s)
          \/ /\ Goto(r, "input", "begin")
             /\ ~StepChanged(r, s)
             /\ UNCHANGED <<cached, result, requeue, owed>>

(* _execute_step_pre looks whether the step has changed.  (A step without  *)
(* module code or input skips it.)  After the last step, the render is     *)
(* complete.                                                               *)
BeginStep(r) ==
  /\ NoChange /\ NoLock /\ UNCHANGED <<queue, unacked, memory, broken>>
  /\ IF next[r] > NSteps
     THEN /\ Goto(r, "begin", "stall") /\ Finish(r, "check_to_requeue")
          /\ UNCHANGED <<cached, requeue, owed>>
     ELSE \/ Unneeded(r, "begin", next[r])
          \/ Goto(r, "begin", "save") /\ UNCHANGED <<cached, result, requeue, owed>>

(* Mutant: _execute_step_pre's look at the step is thought to be enough.   *)
SaveStepUnchecked(r) ==
  LET s == next[r] IN
  /\ NoChange /\ NoLock /\ UNCHANGED <<queue, unacked, seen, broken>>
  /\ Goto(r, "save", "begin")
  /\ cached' = [cached EXCEPT ![s] = seen[r][s]]
  /\ owed' = (owed /\ ~Fresh')
  /\ next' = [next EXCEPT ![r] = s + 1]
  /\ UNCHANGED <<result, requeue>>

(* _execute_step_save *)
SaveStep(r) ==
  LET s == next[r] IN
  /\ NoChange /\ NoLock /\ UNCHANGED <<queue, unacked, seen, broken>>
  /\ \/ Unneeded(r, "save", s) /\ UNCHANGED next
     \/ /\ Goto(r, "save", "begin")
        /\ ~StepChanged(r, s)
        /\ cached' = [cached EXCEPT ![s] = seen[r][s]]
        /\ owed' = (owed /\ Stale \ {s} # {})
        /\ next' = [next EXCEPT ![r] = s + 1]
        /\ UNCHANGED <<result, requeue>>

Forget(r) == /\ seen' = [seen EXCEPT ![r] = [s \in Steps |-> 0]]
             /\ next' = [next EXCEPT ![r] = 1]

(* lock.stall_others().  After a database error it is render_lock() that   *)
(* calls it, and nothing is decided.                                       *)
StallOthers(r) ==
  /\ Goto(r, "stall", IF result[r] = "error" THEN "unlock" ELSE "decide")
  /\ Lock!StallOthers(r)
  /\ Forget(r)
  /\ NoChange /\ UNCHANGED <<cached, queue, unacked, result, requeue, broken, owed>>

(* Mutant: the render that is requeued is the one that was asked for.      *)
DecideOnSameDelta(r) ==
  LET want == \/ result[r] = "must_requeue"
              \/ result[r] = "check_to_requeue" /\ exists /\ LastDelta # unacked[r]
  IN
  /\ Goto(r, "decide", IF want THEN "requeue" ELSE "unlock")
  /\ requeue' = [requeue EXCEPT ![r] = IF want THEN unacked[r] ELSE 0]
  /\ NoChange /\ NoLock /\ UNCHANGED <<cached, queue, unacked, memory, result, broken, owed>>

(* want_requeue *)
Decide(r) ==
  LET last == IF result[r] = "check_to_requeue" THEN LastDelta ELSE requeue[r]
      want == \/ result[r] = "must_requeue"
              \/ result[r] = "check_to_requeue" /\ exists /\ LastDelta # unacked[r]
  IN
  /\ Goto(r, "decide", IF want THEN "requeue" ELSE "unlock")
  /\ requeue' = [requeue EXCEPT ![r] = IF want THEN last ELSE 0]
  /\ NoChange /\ NoLock /\ UNCHANGED <<cached, queue, unacked, memory, result, broken, owed>>

Requeue(r) ==
  /\ Goto(r, "requeue", "unlock")
  /\ Publish(requeue[r])
  /\ requeue' = [requeue EXCEPT ![r] = 0]
  /\ NoChange /\ NoLock /\ UNCHANGED <<cached, unacked, memory, result, broken>>

Unlock(r) ==
  /\ Goto(r, "unlock", "done")
  /\ Lock!Unlock(r)
  /\ NoChange /\ UNCHANGED <<cached, queue, unacked, memory, result, requeue, broken, owed>>

(* acking_callback acks in a `finally`: also when the handler raised, and  *)
(* exit_on_exception is about to end the process.                          *)
Ack(r) ==
  /\ Goto(r, "done", "idle")
  /\ IF phase[r] = "refused" THEN Lock!Raise(r) ELSE NoLock
  /\ unacked' = [unacked EXCEPT ![r] = NoMessage]
  /\ Finish(r, "none")
  /\ NoChange /\ UNCHANGED <<cached, queue, memory, requeue, broken, owed>>

-----------------------------------------------------------------------------
(* Faults.                                                                 *)

Fault(kind) == kind \in FaultKinds /\ nfaults < MaxFaults /\ nfaults' = nfaults + 1

(* DatabaseError or InterfaceError.                                        *)
DatabaseFails(r) ==
  /\ Fault("db_error")
  /\ \/ Goto(r, "lookup", "done")
     \/ Goto(r, "load", "stall") \/ Goto(r, "save", "stall")
     \/ next[r] > 1 /\ Goto(r, "input", "stall")
     \/ next[r] <= NSteps /\ Goto(r, "begin", "stall")
     \/ result[r] = "check_to_requeue" /\ Goto(r, "decide", "unlock")
  /\ Finish(r, "error")
  /\ broken' = broken \cup {"db_error"}
  /\ NoLock
  /\ UNCHANGED <<workflow, cached, pending, queue, unacked, memory, requeue, visits, owed>>

(* Any other exception in execute_workflow(): "leave the workflow in an    *)
(* indeterminate state".                                                   *)
RenderFails(r) ==
  /\ Fault("render_bug")
  /\ \E from \in {"load", "input", "begin", "save"} : Goto(r, from, "stall")
  /\ Finish(r, "must_not_requeue")
  /\ broken' = broken \cup {"render_bug"}
  /\ NoLock
  /\ UNCHANGED <<workflow, cached, pending, queue, unacked, memory, requeue, visits, owed>>

(* The renderer is killed.  RabbitMQ and Postgres each notice in their own *)
(* time; a message delivered again while Postgres still holds the dead     *)
(* renderer's lock may be ignored.                                         *)
Kill(r) ==
  /\ Fault("kill")
  /\ at[r] \notin {"idle", "dead"}
  /\ at' = [at EXCEPT ![r] = "dead"]
  /\ Forget(r) /\ Finish(r, "none") /\ requeue' = [requeue EXCEPT ![r] = 0]
  /\ NoLock
  /\ UNCHANGED <<workflow, cached, pending, queue, unacked, visits, broken, owed>>

RabbitmqNotices(r) ==
  /\ at[r] = "dead" /\ unacked[r] # NoMessage
  /\ queue' = [queue EXCEPT ![unacked[r]] = @ + 1]
  /\ unacked' = [unacked EXCEPT ![r] = NoMessage]
  /\ broken' = IF phase[r] = "rendering" THEN broken \cup {"late_unlock"} ELSE broken
  /\ NoChange /\ NoLock /\ UNCHANGED <<cached, at, memory, result, requeue, owed>>

PostgresNotices(r) ==
  /\ at[r] = "dead" /\ phase[r] # "idle"
  /\ Lock!Restart(r)
  /\ NoChange /\ UNCHANGED <<cached, queue, at, unacked, memory, result, requeue, broken, owed>>

Restart(r) ==
  /\ phase[r] = "idle" /\ unacked[r] = NoMessage
  /\ Goto(r, "dead", "idle")
  /\ NoChange /\ NoLock
  /\ UNCHANGED <<cached, queue, unacked, memory, result, requeue, broken, owed>>

-----------------------------------------------------------------------------
(* cron's queue_fetches(): lock, stall others, unlock.                     *)

CronLocks ==
  /\ visits < MaxVisits /\ visits' = visits + 1
  /\ Lock!Request(Cron, "workflow")
  /\ UNCHANGED <<workflow, cached, pending, queue, at, unacked, memory, result,
                 requeue, ghosts, owed>>

CronProceeds ==
  /\ \/ Lock!Lock(Cron) \/ Lock!Refuse(Cron) \/ Lock!Raise(Cron)
     \/ Lock!StallOthers(Cron) \/ Lock!Unlock(Cron)
  /\ UNCHANGED <<workflow, cached, pending, queue, at, unacked, memory, result,
                 requeue, visits, ghosts, owed>>

-----------------------------------------------------------------------------
Handle(r) ==
  \/ \E d \in Deltas : Deliver(r, d)
  \/ Lookup(r) \/ AcquireLock(r) \/ Ignore(r)
  \/ Load(r) \/ ReadInput(r) \/ BeginStep(r) \/ SaveStep(r)
  \/ StallOthers(r) \/ Decide(r) \/ Requeue(r) \/ Unlock(r) \/ Ack(r)

Recover(r) == RabbitmqNotices(r) \/ PostgresNotices(r) \/ Restart(r)

Next ==
  \/ Do \/ Undo \/ Redo \/ OpenPage \/ Delete
  \/ \E d \in Deltas : WebPublishes(d)
  \/ \E r \in Renderers : Handle(r) \/ Recover(r)
  \/ \E r \in Renderers : DatabaseFails(r) \/ RenderFails(r) \/ Kill(r)
  \/ CronLocks \/ CronProceeds

Spec == Init /\ [][Next]_vars

(* Renders end, the brokers notice dead clients, processes are restarted.  *)
FairSpec ==
  /\ Spec
  /\ \A d \in Deltas : WF_vars(WebPublishes(d))
  /\ \A r \in Renderers : WF_vars(Handle(r)) /\ WF_vars(Recover(r))
  /\ WF_vars(CronProceeds)

-----------------------------------------------------------------------------
(* Properties.                                                             *)

Places == {"idle", "lookup", "lock", "load", "input", "begin", "save",
           "stall", "decide", "requeue", "unlock", "done", "dead"}

Results == {"none", "check_to_requeue", "must_requeue", "must_not_requeue", "error"}

Delta == [id : Deltas, first : 1 .. NSteps + 1]

ChainTypeOK == chain \in Seq(Delta) /\ applied \in 0 .. Len(chain)

WorkflowTypeOK ==
  /\ exists \in BOOLEAN
  /\ edits \in 0 .. MaxEdits
  /\ cached \in [Steps -> Deltas]

QueueTypeOK ==
  /\ pending \in [Deltas -> Nat]
  /\ queue \in [Deltas -> Nat]

RendererTypeOK ==
  /\ at \in [Renderers -> Places]
  /\ unacked \in [Renderers -> Deltas \cup {NoMessage}]
  /\ seen \in [Renderers -> [Steps -> Deltas]]
  /\ next \in [Renderers -> 1 .. NSteps + 1]
  /\ result \in [Renderers -> Results]
  /\ requeue \in [Renderers -> Deltas]

LockTypeOK ==
  /\ phase \in [Actors -> {"idle", "waiting", "rendering", "requeueing", "refused"}]
  /\ target \in [Actors -> {"workflow"}]
  /\ epoch \in [Actors -> Nat]

GhostTypeOK ==
  /\ visits \in 0 .. MaxVisits
  /\ nfaults \in 0 .. MaxFaults
  /\ broken \subseteq {"db_error", "render_bug", "cron", "late_unlock"}
  /\ owed \in BOOLEAN

TypeOK == /\ ChainTypeOK /\ WorkflowTypeOK /\ QueueTypeOK
          /\ RendererTypeOK /\ LockTypeOK /\ GhostTypeOK

InFlight == \/ \E d \in Deltas : queue[d] > 0
            \/ \E r \in Renderers : unacked[r] # NoMessage

(* "Once we queue a render on a Workflow, the queue will always have that  *)
(* Workflow queued (maybe unacked, maybe re-queued) until the Workflow is  *)
(* up-to-date" (pg_render_locker.py).                                      *)
AlwaysQueued == owed => InFlight

(* The same, unless one of the four known ways to lose a message happened: *)
(* every other interleaving of edits, undos, refused and requeued renders  *)
(* and killed renderers keeps the promise.                                 *)
AlwaysQueuedUnlessBroken == broken = {} => AlwaysQueued

(* A renderer caches a result only for the delta the step is at, whatever  *)
(* the users did while it was rendering.                                   *)
OnlyFreshResultsAreCached ==
  [][\A s \in Steps : cached'[s] # cached[s] => cached'[s] = Relevant(s)]_vars

(* A renderer that renders without error and then finds the workflow at    *)
(* the delta of its message -- though it may have left it meanwhile, and   *)
(* come back -- is right not to requeue: every step is fresh.              *)
NoRequeueMeansFresh ==
  [][\A r \in Renderers :
       /\ result[r] = "check_to_requeue" /\ exists
       /\ at[r] = "decide" /\ at'[r] = "unlock"
       => Fresh \/ result'[r] = "error"]_vars

(* A render that was queued gets done, however often it is refused,        *)
(* interrupted by edits, or lost with its renderer.                        *)
QueuedRenderGetsDone == owed ~> ~owed \/ broken # {}

(* Renderers do not requeue one another's work for ever: once the users    *)
(* stop, the queue drains.                                                 *)
QueueDrains == <>[](~InFlight)
=============================================================================
