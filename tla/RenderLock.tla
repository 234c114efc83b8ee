----------------------------- MODULE RenderLock -----------------------------
(***************************************************************************)
(* cjworkbench/pg_render_locker.py: the lock that keeps two processes from *)
(* rendering one workflow.                                                 *)
(*                                                                         *)
(* A client is one PgRenderLocker: one process, one Postgres connection.   *)
(* Its tasks are the asyncio coroutines inside render_lock().  Each lock   *)
(* exists twice: locally (_local_stalls, _local_renders), because Postgres *)
(* stacks advisory locks taken by one session, and remotely, on the        *)
(* server.  A step is the code between two awaits, or the moment a         *)
(* statement takes effect on the server.                                   *)
(***************************************************************************)
EXTENDS Naturals, FiniteSets

CONSTANTS Clients,    \* PgRenderLocker objects
          Tasks,      \* coroutines that call render_lock()
          Workflows,
          ClientOf,   \* ClientOf[t]: the client task t runs in
          NoTask,
          MaxCalls,   \* bound: calls of render_lock() per task
          MaxFaults   \* bound: kills and session losses, in all

ASSUME ClientOfAssumption == ClientOf \in [Tasks -> Clients]
ASSUME NoTaskAssumption   == NoTask \notin Tasks
ASSUME WorkflowAssumption == Workflows # {}
ASSUME BoundsAssumption   == MaxCalls \in Nat /\ MaxFaults \in Nat

VARIABLES
  pc,            \* pc[t]: where task t is
  trans,         \* trans[t]: the transition it makes: A, B, C; R when A is on
                 \* its way out with WorkflowAlreadyLocked; F when B is made
                 \* by render_lock()'s `finally`
  work,          \* work[t]: the workflow_id it was called with
  calls,         \* calls[t]: calls it has made
  pgLock,        \* pgLock[c]: the task in a blocking statement that holds
                 \* _pg_lock, or NoTask
  localStalls,   \* localStalls[c]: workflows that have an Event
  localRenders,  \* localRenders[c]
  stall,         \* stall[w][c]: times c's session holds advisory lock (1, w)
  render,        \* render[w][c]: times c's session holds advisory lock (2, w)
  session,       \* session[c]: is the connection alive?
  epoch,         \* epoch[c]: sessions that have ended (auxiliary)
  faults         \* kills and session losses so far

local == <<localStalls, localRenders>>
server == <<stall, render>>
faulty == <<session, epoch, faults>>
vars == <<pc, trans, work, calls, pgLock, local, server, faulty>>

Pcs == {"idle", "local_stall", "pg_lock", "pg_wait", "local_render",
        "remote_render", "rendering", "free_remote_render",
        "free_local_render", "requeueing", "free_remote_stall",
        "free_local_stall"}

Init ==
  /\ pc = [t \in Tasks |-> "idle"]
  /\ trans = [t \in Tasks |-> "A"]
  /\ work = [t \in Tasks |-> CHOOSE w \in Workflows : TRUE]
  /\ calls = [t \in Tasks |-> 0]
  /\ pgLock = [c \in Clients |-> NoTask]
  /\ localStalls = [c \in Clients |-> {}]
  /\ localRenders = [c \in Clients |-> {}]
  /\ stall = [w \in Workflows |-> [c \in Clients |-> 0]]
  /\ render = [w \in Workflows |-> [c \in Clients |-> 0]]
  /\ session = [c \in Clients |-> TRUE]
  /\ epoch = [c \in Clients |-> 0]
  /\ faults = 0

-----------------------------------------------------------------------------
(* Steps of one task.                                                      *)

Goto(t, from, to) == pc[t] = from /\ pc' = [pc EXCEPT ![t] = to]

(* A statement runs when no other statement of the client is in progress.  *)
CanQuery(c) == session[c] /\ pgLock[c] = NoTask

Available(lock, w, c) == \A d \in Clients \ {c} : lock[w][d] = 0
Locked(lock, w, c)    == [lock EXCEPT ![w][c] = @ + 1]
Unlocked(lock, w, c)  == [lock EXCEPT ![w][c] = IF @ > 0 THEN @ - 1 ELSE 0]

(* render_lock(workflow_id) is entered. *)
Call(t, w) ==
  /\ Goto(t, "idle", "local_stall")
  /\ calls[t] < MaxCalls
  /\ calls' = [calls EXCEPT ![t] = @ + 1]
  /\ work' = [work EXCEPT ![t] = w]
  /\ trans' = [trans EXCEPT ![t] = "A"]
  /\ UNCHANGED <<pgLock, local, server, faulty>>

(* Mutant: "if" for "while", so a task that was woken does not look again. *)
AcquireLocalStallWithoutLooking(t) ==
  LET c == ClientOf[t] IN
  /\ Goto(t, "local_stall", "pg_lock")
  /\ localStalls' = [localStalls EXCEPT ![c] = @ \cup {work[t]}]
  /\ UNCHANGED <<trans, work, calls, pgLock, localRenders, server, faulty>>

(* _acquire_local_stall_lock: a task that finds an Event waits for it and  *)
(* looks again.                                                            *)
AcquireLocalStall(t) ==
  LET c == ClientOf[t] IN
  /\ Goto(t, "local_stall", "pg_lock")
  /\ work[t] \notin localStalls[c]
  /\ localStalls' = [localStalls EXCEPT ![c] = @ \cup {work[t]}]
  /\ UNCHANGED <<trans, work, calls, pgLock, localRenders, server, faulty>>

(* _acquire_remote_stall_lock: pg_advisory_lock() holds _pg_lock while it  *)
(* blocks.                                                                 *)
BeginRemoteStall(t) ==
  LET c == ClientOf[t] IN
  /\ Goto(t, "pg_lock", "pg_wait")
  /\ CanQuery(c)
  /\ pgLock' = [pgLock EXCEPT ![c] = t]
  /\ UNCHANGED <<trans, work, calls, local, server, faulty>>

AcquireRemoteStall(t) ==
  LET c == ClientOf[t] IN
  /\ Goto(t, "pg_wait", IF trans[t] = "A" THEN "local_render" ELSE "free_remote_render")
  /\ session[c]
  /\ Available(stall, work[t], c)
  /\ stall' = Locked(stall, work[t], c)
  /\ pgLock' = [pgLock EXCEPT ![c] = NoTask]
  /\ UNCHANGED <<trans, work, calls, local, render, faulty>>

(* Mutant: only Postgres is asked, and it lets a session stack locks.      *)
AcquireLocalRenderAlways(t) ==
  LET c == ClientOf[t] IN
  /\ Goto(t, "local_render", "remote_render")
  /\ localRenders' = [localRenders EXCEPT ![c] = @ \cup {work[t]}]
  /\ UNCHANGED <<trans, work, calls, pgLock, localStalls, server, faulty>>

(* _acquire_local_render_lock, or WorkflowAlreadyLocked. *)
AcquireLocalRender(t) ==
  LET c == ClientOf[t] IN
  /\ Goto(t, "local_render", "remote_render")
  /\ work[t] \notin localRenders[c]
  /\ localRenders' = [localRenders EXCEPT ![c] = @ \cup {work[t]}]
  /\ UNCHANGED <<trans, work, calls, pgLock, localStalls, server, faulty>>

RefuseLocally(t) ==
  /\ Goto(t, "local_render", "free_remote_stall")
  /\ work[t] \in localRenders[ClientOf[t]]
  /\ trans' = [trans EXCEPT ![t] = "R"]
  /\ UNCHANGED <<work, calls, pgLock, local, server, faulty>>

(* _acquire_remote_render_lock: pg_try_advisory_lock() does not block.     *)
AcquireRemoteRender(t) ==
  LET c == ClientOf[t] IN
  /\ Goto(t, "remote_render", "free_remote_stall")
  /\ CanQuery(c)
  /\ Available(render, work[t], c)
  /\ render' = Locked(render, work[t], c)
  /\ UNCHANGED <<trans, work, calls, pgLock, local, stall, faulty>>

(* Mutant: _acquire_render_lock without its `except`.                      *)
RefuseRemotelyAndLeak(t) ==
  LET c == ClientOf[t] IN
  /\ Goto(t, "remote_render", "free_remote_stall")
  /\ CanQuery(c)
  /\ ~Available(render, work[t], c)
  /\ trans' = [trans EXCEPT ![t] = "R"]
  /\ UNCHANGED <<work, calls, pgLock, local, server, faulty>>

RefuseRemotely(t) ==
  LET c == ClientOf[t] IN
  /\ Goto(t, "remote_render", "free_remote_stall")
  /\ CanQuery(c)
  /\ ~Available(render, work[t], c)
  /\ trans' = [trans EXCEPT ![t] = "R"]
  /\ localRenders' = [localRenders EXCEPT ![c] = @ \ {work[t]}]
  /\ UNCHANGED <<work, calls, pgLock, localStalls, server, faulty>>

(* Mutant: A keeps the remote stall lock, and C gives back one of two.     *)
ReleaseRemoteStallAfterCOnly(t) ==
  LET c == ClientOf[t] IN
  /\ Goto(t, "free_remote_stall", "free_local_stall")
  /\ CanQuery(c)
  /\ stall' = IF trans[t] = "A" THEN stall ELSE Unlocked(stall, work[t], c)
  /\ UNCHANGED <<trans, work, calls, pgLock, local, render, faulty>>

(* Mutant: _stall_lock without its `finally`.                              *)
ReleaseLocalStallUnlessRefused(t) ==
  LET c == ClientOf[t] IN
  /\ Goto(t, "free_local_stall", IF trans[t] = "A" THEN "rendering" ELSE "idle")
  /\ localStalls' = IF trans[t] = "R" THEN localStalls
                    ELSE [localStalls EXCEPT ![c] = @ \ {work[t]}]
  /\ UNCHANGED <<trans, work, calls, pgLock, localRenders, server, faulty>>

(* _release_stall_lock and _stall_lock's exit: remote first, then local.   *)
ReleaseRemoteStall(t) ==
  LET c == ClientOf[t] IN
  /\ Goto(t, "free_remote_stall", "free_local_stall")
  /\ CanQuery(c)
  /\ stall' = Unlocked(stall, work[t], c)
  /\ UNCHANGED <<trans, work, calls, pgLock, local, render, faulty>>

ReleaseLocalStall(t) ==
  LET c == ClientOf[t] IN
  /\ Goto(t, "free_local_stall", IF trans[t] = "A" THEN "rendering" ELSE "idle")
  /\ localStalls' = [localStalls EXCEPT ![c] = @ \ {work[t]}]
  /\ UNCHANGED <<trans, work, calls, pgLock, localRenders, server, faulty>>

(* Mutant: B releases the render lock and takes no stall lock.             *)
StallNobody(t) ==
  /\ Goto(t, "rendering", "free_remote_render")
  /\ \E by \in {"B", "F"} : trans' = [trans EXCEPT ![t] = by]
  /\ UNCHANGED <<work, calls, pgLock, local, server, faulty>>

(* Transition B begins: the caller awaits lock.stall_others() or, when an  *)
(* exception leaves the block before that, render_lock()'s `finally` does. *)
StallOthers(t) ==
  /\ Goto(t, "rendering", "local_stall")
  /\ \E by \in {"B", "F"} : trans' = [trans EXCEPT ![t] = by]
  /\ UNCHANGED <<work, calls, pgLock, local, server, faulty>>

(* _release_render_lock: remote first, then local.                         *)
ReleaseRemoteRender(t) ==
  LET c == ClientOf[t] IN
  /\ Goto(t, "free_remote_render", "free_local_render")
  /\ CanQuery(c)
  /\ render' = Unlocked(render, work[t], c)
  /\ UNCHANGED <<trans, work, calls, pgLock, local, stall, faulty>>

ReleaseLocalRender(t) ==
  LET c == ClientOf[t] IN
  /\ Goto(t, "free_local_render", "requeueing")
  /\ localRenders' = [localRenders EXCEPT ![c] = @ \ {work[t]}]
  /\ UNCHANGED <<trans, work, calls, pgLock, localStalls, server, faulty>>

(* The caller leaves the block: transition C.                              *)
Leave(t) ==
  /\ Goto(t, "requeueing", "free_remote_stall")
  /\ trans' = [trans EXCEPT ![t] = "C"]
  /\ UNCHANGED <<work, calls, pgLock, local, server, faulty>>

-----------------------------------------------------------------------------
(* Faults.                                                                 *)

(* Mutant: the server forgets the workflow, and not its client.            *)
ForgottenRow(lock, c) == [w \in {v \in Workflows : lock[v][c] = 0} |-> lock[w]]

Forgotten(lock, c) == [w \in Workflows |-> [lock[w] EXCEPT ![c] = 0]]

EndSession(c) ==
  /\ stall' = Forgotten(stall, c)
  /\ render' = Forgotten(render, c)
  /\ epoch' = [epoch EXCEPT ![c] = @ + 1]

(* The process ends and its supervisor starts a fresh one.                 *)
Restart(c) ==
  /\ EndSession(c)
  /\ pc' = [t \in Tasks |-> IF ClientOf[t] = c THEN "idle" ELSE pc[t]]
  /\ pgLock' = [pgLock EXCEPT ![c] = NoTask]
  /\ localStalls' = [localStalls EXCEPT ![c] = {}]
  /\ localRenders' = [localRenders EXCEPT ![c] = {}]
  /\ session' = [session EXCEPT ![c] = TRUE]
  /\ UNCHANGED <<trans, work, calls>>

Kill(c) == faults < MaxFaults /\ faults' = faults + 1 /\ Restart(c)

(* Postgres goes away, or the connection does: the server frees the locks  *)
(* and the process does not know.                                          *)
LoseSession(c) ==
  /\ session[c]
  /\ faults < MaxFaults
  /\ faults' = faults + 1
  /\ session' = [session EXCEPT ![c] = FALSE]
  /\ EndSession(c)
  /\ UNCHANGED <<pc, trans, work, calls, pgLock, local>>

(* A statement on a lost session raises.                                   *)
StatementFails(t) ==
  LET c == ClientOf[t] IN
  /\ pc[t] \in {"pg_lock", "pg_wait", "remote_render", "free_remote_render",
                "free_remote_stall"}
  /\ ~session[c]
  /\ pgLock[c] \in {t, NoTask}

(* The error leaves render_lock() and the message handler, and             *)
(* exit_on_exception ends the process ...                                  *)
FailAndExit(t) ==
  /\ StatementFails(t)
  /\ trans[t] # "B"
  /\ Restart(ClientOf[t])
  /\ UNCHANGED faults

(* ... unless the caller awaits stall_others(): then it reaches the        *)
(* `finally`, which calls stall_others() again, and the task waits for the *)
(* local stall lock it holds itself.                                       *)
FailAndStallAgain(t) ==
  /\ StatementFails(t)
  /\ trans[t] = "B"
  /\ pc' = [pc EXCEPT ![t] = "local_stall"]
  /\ pgLock' = [pgLock EXCEPT ![ClientOf[t]] = NoTask]
  /\ UNCHANGED <<trans, work, calls, local, server, faulty>>

-----------------------------------------------------------------------------
Step(t) ==
  \/ AcquireLocalStall(t) \/ BeginRemoteStall(t) \/ AcquireRemoteStall(t)
  \/ AcquireLocalRender(t) \/ RefuseLocally(t)
  \/ AcquireRemoteRender(t) \/ RefuseRemotely(t)
  \/ ReleaseRemoteStall(t) \/ ReleaseLocalStall(t)
  \/ StallOthers(t) \/ ReleaseRemoteRender(t) \/ ReleaseLocalRender(t)
  \/ Leave(t)
  \/ FailAndExit(t) \/ FailAndStallAgain(t)

Next ==
  \/ \E t \in Tasks : Step(t)
  \/ \E t \in Tasks, w \in Workflows : Call(t, w)
  \/ \E c \in Clients : Kill(c) \/ LoseSession(c)

Spec == Init /\ [][Next]_vars

(* A coroutine that can run does run; renders end; Postgres answers.       *)
FairSpec == Spec /\ \A t \in Tasks : WF_vars(Step(t))

-----------------------------------------------------------------------------
(* Who holds what, by where it is.                                         *)

HoldsLocalStall(t) ==
  \/ pc[t] \in {"pg_lock", "pg_wait", "local_render", "remote_render",
               "free_remote_render", "free_local_render", "requeueing",
               "free_remote_stall", "free_local_stall"}

HoldsRemoteStall(t) ==
  pc[t] \in {"local_render", "remote_render", "free_remote_render",
            "free_local_render", "requeueing", "free_remote_stall"}

(* Between A's success and B. *)
Rendering(t) ==
  \/ pc[t] = "rendering" \/ pc[t] = "free_remote_render"
  \/ pc[t] \in {"free_remote_stall", "free_local_stall"} /\ trans[t] = "A"
  \/ pc[t] \in {"local_stall", "pg_lock", "pg_wait"} /\ trans[t] \in {"B", "F"}

HoldsRemoteRender(t) == Rendering(t)

HoldsLocalRender(t) ==
  Rendering(t) \/ pc[t] \in {"remote_render", "free_local_render"}

(* B has failed, and the task waits for itself (see FailAndStallAgain).    *)
Wedged(t) ==
  /\ ~session[ClientOf[t]]
  /\ pc[t] = "local_stall" /\ trans[t] \in {"B", "F"}

TypeOK ==
  /\ pc \in [Tasks -> Pcs]
  /\ trans \in [Tasks -> {"A", "R", "B", "F", "C"}]
  /\ work \in [Tasks -> Workflows]
  /\ calls \in [Tasks -> Nat]
  /\ pgLock \in [Clients -> Tasks \cup {NoTask}]
  /\ localStalls \in [Clients -> SUBSET Workflows]
  /\ localRenders \in [Clients -> SUBSET Workflows]
  /\ stall \in [Workflows -> [Clients -> Nat]]
  /\ render \in [Workflows -> [Clients -> Nat]]
  /\ session \in [Clients -> BOOLEAN]
  /\ epoch \in [Clients -> Nat]
  /\ faults \in Nat

-----------------------------------------------------------------------------
(* Properties.                                                             *)

Rivals(P(_)) == \E t, u \in Tasks :
  /\ t # u /\ work[t] = work[u] /\ P(t) /\ P(u)
  /\ session[ClientOf[t]] /\ session[ClientOf[u]]

(* Only one render per workflow, on all clients and inside each of them,   *)
(* as long as the sessions live (render_lock's docstring).                 *)
OneRenderPerWorkflow == ~Rivals(Rendering)

(* While a task is in "requeueing" -- indeed from the moment B or A has    *)
(* the stall lock -- no other task runs the code of A that could raise     *)
(* WorkflowAlreadyLocked (the comment that ends B).                        *)
StallKeepsOthersOut == ~Rivals(HoldsRemoteStall)

TasksOf(c, w, P(_)) == {t \in Tasks : ClientOf[t] = c /\ work[t] = w /\ P(t)}

(* A client with a session holds the locks its tasks need and no others:   *)
(* none is leaked by a refused call, none is released for a rival, and     *)
(* Postgres never stacks two locks of one session.                         *)
LocksMatchTasks ==
  \A c \in Clients, w \in Workflows : session[c] =>
    /\ w \in localStalls[c] <=> TasksOf(c, w, HoldsLocalStall) # {}
    /\ w \in localRenders[c] <=> TasksOf(c, w, HoldsLocalRender) # {}
    /\ stall[w][c] = Cardinality(TasksOf(c, w, HoldsRemoteStall))
    /\ render[w][c] = Cardinality(TasksOf(c, w, HoldsRemoteRender))

(* Every call of render_lock() returns or raises, without deadlock between *)
(* the stall locks and _pg_lock, unless a session is lost inside B.        *)
CallsReturn == \A t \in Tasks :
  pc[t] # "idle" ~> pc[t] = "idle" \/ \E u \in Tasks : Wedged(u)

(* Client c's statement waits for a lock that client d's session holds.    *)
WaitsFor(c, d) ==
  /\ c # d /\ pgLock[c] # NoTask
  /\ stall[work[pgLock[c]]][d] > 0

(* "It can lock multiple workflows at once" (PgRenderLocker's docstring):  *)
(* no set of clients waits for one another in pg_advisory_lock(), each     *)
(* with a task that could release its lock queued behind _pg_lock.         *)
(* (Postgres would see the cycle and fail one of the statements.)          *)
NoSessionDeadlock ==
  \A S \in (SUBSET Clients) \ {{}} : \E c \in S : \A d \in S : ~WaitsFor(c, d)

(* The phases of the docstring, as every client sees them.                 *)
PhaseOf(t) ==
  IF ~session[ClientOf[t]] THEN "gone"
  ELSE IF Rendering(t) THEN "rendering"
  ELSE IF pc[t] = "idle" \/ (pc[t] = "free_local_stall" /\ trans[t] = "C") THEN "idle"
  ELSE IF trans[t] = "R" THEN "refused"
  ELSE IF trans[t] = "A" THEN "waiting"
  ELSE "requeueing"

Phases == INSTANCE RenderPhases WITH state <- [t \in Tasks |-> PhaseOf(t)],
                                     target <- work

(* Each transition is atomic and no step is skipped; a call is refused     *)
(* only while another task renders the workflow.                           *)
ImplementsPhases == Phases!Spec
=============================================================================
