--------------------------- MODULE FetchedVersions --------------------------
(***************************************************************************)
(* The versions of data fetched for one step: how fetches are asked for    *)
(* (server/handlers/step.py, cron/autoupdate.py), what a fetcher does with *)
(* one (fetcher/fetch.py, save.py), which versions stay under the storage  *)
(* limits (cjwstate/storedobjects/io.py, util.py) and which one the step   *)
(* shows, through do, undo and redo.                                       *)
(*                                                                         *)
(* A version is known by its stored_at: the time its fetch began, a number *)
(* here.  Rows are in the database and commit with the lock that guards    *)
(* them; files are in S3 and obey no transaction.  What modules fetch is   *)
(* left out, but for its size and whether it is what was there before.     *)
(***************************************************************************)
EXTENDS StorageLimits

CONSTANTS Fetchers,   \* processes, each fetching one message at a time
          Sizes,      \* sizes of what they fetch
          MaxFetches, \* bound: fetches ever begun
          MaxEdits,   \* bound: commands of users
          MaxFaults   \* bound: crashes and errors

ASSUME VersionBounds ==
  Sizes \subseteq Nat /\ {MaxFetches, MaxEdits, MaxFaults} \subseteq Nat

None == 0   \* NULL

VARIABLES
  step,      \* the row of table "step"
  rows,      \* the rows of table "stored_object": stored_at -> size
  files,     \* the stored_at of those whose file is in S3
  past,      \* the deltas to undo, oldest first
  future,    \* the deltas to redo, next first
  queue,     \* fetch messages nobody has taken
  fetchers,  \* what each fetcher is doing
  web,       \* what the handler of a user's request to fetch is doing
  cron,      \* what queue_fetches() is doing
  clock,     \* fetches begun
  edits, faults,
  picked,    \* did a user select the version, or undo or redo? (auxiliary)
  overlapped,\* have two fetchers been at work at once? (auxiliary)
  dropped    \* has a message gone, the step still busy? (auxiliary)

vars == <<step, rows, files, past, future, queue, fetchers, web, cron, clock,
          edits, faults, picked, overlapped, dropped>>

-----------------------------------------------------------------------------

Idle   == [pc |-> "idle"]
AtWork == {f \in Fetchers : fetchers[f].pc # "idle"}

(* commands.do() *)
Do(delta) == past' = Append(past, delta) /\ future' = <<>>

-----------------------------------------------------------------------------
(* Users.                                                                  *)

EditUnchanged == UNCHANGED <<rows, files, queue, fetchers, web, cron, clock, faults,
                             overlapped, dropped>>

(* handlers/step.py set_stored_data_version(): the version a browser sends *)
(* may be out of its list by now; it is then taken as it is.               *)
Listed == DOMAIN rows \cup {past[i].forth : i \in DOMAIN past}

ChooseVersion ==
  /\ ~step.is_deleted /\ edits < MaxEdits
  /\ \E v \in Listed \ {None, step.version} :
       Do([back |-> step.version, forth |-> v]) /\ step' = [step EXCEPT !.version = v]
  /\ edits' = edits + 1 /\ picked' = TRUE
  /\ EditUnchanged

(* Here a delta of DeleteStep has no version to go back or forth to.       *)
DeleteStep ==
  /\ ~step.is_deleted /\ edits < MaxEdits
  /\ Do([back |-> None, forth |-> None]) /\ step' = [step EXCEPT !.is_deleted = TRUE]
  /\ edits' = edits + 1 /\ UNCHANGED picked
  /\ EditUnchanged

Undo ==
  /\ past # <<>>
  /\ LET e == Last(past)
     IN  /\ step' = IF e.forth = None THEN [step EXCEPT !.is_deleted = FALSE]
                                      ELSE [step EXCEPT !.version = e.back]
         /\ picked' = (picked \/ e.forth # None)
         /\ past' = Front(past) /\ future' = <<e>> \o future
  /\ UNCHANGED edits /\ EditUnchanged

Redo ==
  /\ future # <<>>
  /\ LET e == Head(future)
     IN  /\ step' = IF e.forth = None THEN [step EXCEPT !.is_deleted = TRUE]
                                      ELSE [step EXCEPT !.version = e.forth]
         /\ picked' = (picked \/ e.forth # None)
         /\ past' = Append(past, e) /\ future' = Tail(future)
  /\ UNCHANGED edits /\ EditUnchanged

-----------------------------------------------------------------------------
(* Requests: handlers/step.py fetch(), and cron/autoupdate.py.             *)

(* Bound: a fetch for each request, and for each message given again.      *)
Room == clock + queue + Cardinality({p \in {1, 2} : <<web, cron>>[p] # "idle"})
          + MaxFaults - faults < MaxFetches

RequestUnchanged == UNCHANGED <<rows, files, past, future, fetchers, clock, edits, picked,
                                overlapped>>

(* _loading_step_by_id() and _set_step_busy(), here at once.               *)
WebSetsBusy ==
  /\ web = "idle" /\ ~step.is_deleted /\ Room
  /\ web' = "busied" /\ step' = [step EXCEPT !.is_busy = TRUE]
  /\ UNCHANGED <<queue, cron, faults, dropped>> /\ RequestUnchanged

WebQueues ==
  /\ web = "busied"
  /\ web' = "idle" /\ queue' = queue + 1
  /\ UNCHANGED <<step, cron, faults, dropped>> /\ RequestUnchanged

(* next_update passes: the user lets the step update by itself.            *)
Tick ==
  /\ ~step.is_due /\ step' = [step EXCEPT !.is_due = TRUE]
  /\ UNCHANGED <<queue, web, cron, faults, dropped>> /\ RequestUnchanged

CronFinds ==
  /\ cron = "idle" /\ ~step.is_deleted /\ ~step.is_busy /\ step.is_due /\ Room
  /\ cron' = "found"
  /\ UNCHANGED <<step, queue, web, faults, dropped>> /\ RequestUnchanged

(* WorkflowAlreadyLocked: the workflow is being rendered. *)
CronLeavesIt ==
  /\ cron = "found" /\ cron' = "idle"
  /\ UNCHANGED <<step, queue, web, faults, dropped>> /\ RequestUnchanged

CronSetsBusy ==
  /\ cron = "found" /\ cron' = "busied" /\ step' = [step EXCEPT !.is_busy = TRUE]
  /\ UNCHANGED <<queue, web, faults, dropped>> /\ RequestUnchanged

CronQueues ==
  /\ cron = "busied"
  /\ cron' = "idle" /\ queue' = queue + 1
  /\ UNCHANGED <<step, web, faults, dropped>> /\ RequestUnchanged

(* Either process dies, or cannot reach RabbitMQ, having set is_busy.      *)
RequestFails ==
  /\ faults < MaxFaults /\ faults' = faults + 1
  /\ \/ web = "busied" /\ web' = "idle" /\ UNCHANGED cron
     \/ cron = "busied" /\ cron' = "idle" /\ UNCHANGED web
  /\ dropped' = TRUE
  /\ UNCHANGED <<step, queue>> /\ RequestUnchanged

-----------------------------------------------------------------------------
(* Fetchers: handle_fetch(), and acking_callback() around it.              *)

FetchUnchanged == UNCHANGED <<web, cron, edits>>

(* load_database_objects(): a message for a deleted step is done with, and *)
(* leaves is_busy as it is.  The time is taken here.                       *)
SkipFetch(f) ==
  /\ fetchers[f] = Idle /\ queue > 0 /\ step.is_deleted
  /\ queue' = queue - 1 /\ dropped' = TRUE
  /\ UNCHANGED <<step, rows, files, past, future, fetchers, clock, faults, picked, overlapped>>
  /\ FetchUnchanged

Load(f) ==
  /\ fetchers[f] = Idle /\ queue > 0 /\ ~step.is_deleted
  /\ queue' = queue - 1 /\ clock' = clock + 1
  /\ fetchers' = [fetchers EXCEPT ![f] =
       [pc |-> "fetching", now |-> clock + 1,
        has_last |-> step.version \in DOMAIN rows \cap files]]
  /\ overlapped' = (overlapped \/ AtWork # {})
  /\ UNCHANGED <<step, rows, files, past, future, faults, picked, dropped>>
  /\ FetchUnchanged

Saved(f) == fetchers' = [fetchers EXCEPT ![f] = [pc |-> "scheduling"]]

(* _locked_step() raises Step.DoesNotExist: nothing is saved.              *)
FindDeleted(f) ==
  /\ fetchers[f].pc = "fetching" /\ step.is_deleted
  /\ Saved(f) /\ dropped' = TRUE
  /\ UNCHANGED <<step, rows, files, past, future, queue, clock, faults, picked, overlapped>>
  /\ FetchUnchanged

(* Mutant: is_busy stays.                                                  *)
MarkUnchangedOnly(f) ==
  /\ fetchers[f].pc = "fetching" /\ ~step.is_deleted /\ fetchers[f].has_last
  /\ Saved(f)
  /\ UNCHANGED <<step, rows, files, past, future, queue, clock, faults, picked, overlapped, dropped>>
  /\ FetchUnchanged

(* are_fetch_results_equal(), and mark_result_unchanged().                 *)
MarkUnchanged(f) ==
  /\ fetchers[f].pc = "fetching" /\ ~step.is_deleted /\ fetchers[f].has_last
  /\ step' = [step EXCEPT !.is_busy = FALSE] /\ Saved(f)
  /\ UNCHANGED <<rows, files, past, future, queue, clock, faults, picked, overlapped, dropped>>
  /\ FetchUnchanged

WithNew(f, size) ==
  [v \in DOMAIN rows \cup {fetchers[f].now} |-> IF v \in DOMAIN rows THEN rows[v] ELSE size]

(* _do_create_result(), to its commit.                                     *)
CreateResult(f) ==
  /\ fetchers[f].pc = "fetching" /\ ~step.is_deleted
  /\ \E size \in Sizes :
       LET all == WithNew(f, size)
           old == Deletable(all)
       IN  /\ rows' = [v \in DOMAIN all \ old |-> all[v]]
           /\ files' = (files \cup {fetchers[f].now}) \ old
  /\ step' = [step EXCEPT !.is_busy = FALSE]
  /\ fetchers' = [fetchers EXCEPT ![f] = [pc |-> "selecting", now |-> @.now,
                                         version |-> step.version]]
  /\ UNCHANGED <<past, future, queue, clock, faults, picked, overlapped, dropped>>
  /\ FetchUnchanged

(* Mutant: the command looks whether the step is deleted.                  *)
SelectVersionUnlessDeleted(f) ==
  /\ fetchers[f].pc = "selecting" /\ Saved(f)
  /\ IF step.is_deleted THEN UNCHANGED <<step, past, future>>
     ELSE /\ Do([back |-> fetchers[f].version, forth |-> fetchers[f].now])
          /\ step' = [step EXCEPT !.version = fetchers[f].now]
  /\ picked' = FALSE
  /\ UNCHANGED <<rows, files, queue, clock, faults, overlapped, dropped>>
  /\ FetchUnchanged

(* commands.do(SetStepDataVersion): the version to go back to is the one   *)
(* in this fetcher's memory.                                               *)
SelectVersion(f) ==
  /\ fetchers[f].pc = "selecting" /\ Saved(f)
  /\ Do([back |-> fetchers[f].version, forth |-> fetchers[f].now])
  /\ step' = [step EXCEPT !.version = fetchers[f].now] /\ picked' = FALSE
  /\ UNCHANGED <<rows, files, queue, clock, faults, overlapped, dropped>>
  /\ FetchUnchanged

(* update_next_update_time(), and the ack.                                 *)
Reschedule(f) ==
  /\ fetchers[f].pc = "scheduling"
  /\ step' = [step EXCEPT !.is_due = FALSE] /\ fetchers' = [fetchers EXCEPT ![f] = Idle]
  /\ UNCHANGED <<rows, files, past, future, queue, clock, faults, picked, overlapped, dropped>>
  /\ FetchUnchanged

(* A transaction of _do_create_result() that ends early: the new file may  *)
(* be in S3, and then some of the old ones be gone.                        *)
FilesHalfWay(f) ==
  \/ UNCHANGED files
  \/ /\ fetchers[f].pc = "fetching" /\ ~step.is_deleted
     /\ \E size \in Sizes : \E gone \in SUBSET Deletable(WithNew(f, size)) :
          files' = (files \cup {fetchers[f].now}) \ gone

(* The process dies: RabbitMQ gives its message to another.                *)
Crash(f) ==
  /\ fetchers[f].pc # "idle" /\ faults < MaxFaults
  /\ queue' = queue + 1 /\ faults' = faults + 1
  /\ FilesHalfWay(f) /\ fetchers' = [fetchers EXCEPT ![f] = Idle]
  /\ UNCHANGED <<step, rows, past, future, clock, picked, overlapped, dropped>>
  /\ FetchUnchanged

(* handle_fetch() raises: the message is acked all the same.               *)
Raise(f) ==
  /\ fetchers[f].pc # "idle" /\ faults < MaxFaults
  /\ faults' = faults + 1 /\ dropped' = (dropped \/ fetchers[f].pc = "fetching")
  /\ FilesHalfWay(f) /\ fetchers' = [fetchers EXCEPT ![f] = Idle]
  /\ UNCHANGED <<step, rows, past, future, queue, clock, picked, overlapped>>
  /\ FetchUnchanged

-----------------------------------------------------------------------------

Init ==
  /\ step = [is_deleted |-> FALSE, is_busy |-> FALSE, version |-> None, is_due |-> FALSE]
  /\ rows = <<>> /\ files = {} /\ past = <<>> /\ future = <<>>
  /\ queue = 0 /\ fetchers = [f \in Fetchers |-> Idle] /\ web = "idle" /\ cron = "idle"
  /\ clock = 0 /\ edits = 0 /\ faults = 0
  /\ picked = FALSE /\ overlapped = FALSE /\ dropped = FALSE

Edit     == ChooseVersion \/ DeleteStep \/ Undo \/ Redo
Request  == WebSetsBusy \/ WebQueues \/ Tick \/ CronFinds \/ CronLeavesIt
            \/ CronSetsBusy \/ CronQueues \/ RequestFails
Fetch(f) == SkipFetch(f) \/ Load(f) \/ FindDeleted(f) \/ MarkUnchanged(f) \/ CreateResult(f)
            \/ SelectVersion(f) \/ Reschedule(f)
Next     == Edit \/ Request \/ \E f \in Fetchers : Fetch(f) \/ Crash(f) \/ Raise(f)

Fairness == WF_vars(WebQueues) /\ WF_vars(CronQueues) /\ \A f \in Fetchers : WF_vars(Fetch(f))
Spec     == Init /\ [][Next]_vars /\ Fairness

-----------------------------------------------------------------------------

Times == 0 .. clock   \* versions fetched so far, and None

StepTypeOK ==
  step \in [is_deleted : BOOLEAN, is_busy : BOOLEAN, version : Times, is_due : BOOLEAN]

StoredTypeOK ==
  rows \in [DOMAIN rows -> Sizes] /\ DOMAIN rows \subseteq Times \ {None} /\ files \subseteq Times

Change == [back : Times, forth : Times]

HistoryTypeOK == past \in Seq(Change) /\ future \in Seq(Change)

RequestTypeOK ==
  queue \in Nat /\ web \in {"idle", "busied"} /\ cron \in {"idle", "found", "busied"}

Fetcher ==
  {Idle, [pc |-> "scheduling"]}
  \cup [pc : {"fetching"}, now : Times \ {None}, has_last : BOOLEAN]
  \cup [pc : {"selecting"}, now : Times \ {None}, version : Times]

FetcherTypeOK == fetchers \in [Fetchers -> Fetcher]

CounterTypeOK ==
  /\ clock \in Nat /\ edits \in 0 .. MaxEdits /\ faults \in 0 .. MaxFaults
  /\ picked \in BOOLEAN /\ overlapped \in BOOLEAN /\ dropped \in BOOLEAN

TypeOK ==
  StepTypeOK /\ StoredTypeOK /\ HistoryTypeOK /\ RequestTypeOK /\ FetcherTypeOK /\ CounterTypeOK

(* The version a step shows is stored, row and file, whatever commands     *)
(* came between a fetcher's two transactions, unless a user, undo or redo  *)
(* has selected one that is gone, two fetchers were at work at once, or    *)
(* something failed: then the module renders as if it had fetched nothing  *)
(* (renderer/execute/step.py _load_fetch_result).                          *)
ShownVersionIsStored ==
  \/ picked \/ overlapped \/ faults > 0 \/ step.version = None
  \/ \E f \in Fetchers : fetchers[f].pc = "selecting"
  \/ step.version \in DOMAIN rows \cap files

(* A busy step is not busy for ever, even if a fetcher dies at work: its   *)
(* message is given again.  Apart from what drops the message for good: a  *)
(* request that dies half-way, a fetch that raises, and a fetch that finds *)
(* the step deleted.                                                       *)
BusyEnds == step.is_busy ~> (~step.is_busy \/ dropped)

(* The queue's promise: "if the user goes away we're guaranteed that the   *)
(* fetcher will have the last word and is_busy will be False"              *)
(* (cjwstate/rabbitmq/__init__.py).                                        *)
FetcherHasTheLastWord ==
  (step.is_busy /\ ~step.is_deleted) =>
    queue > 0 \/ web = "busied" \/ cron = "busied"
    \/ \E f \in Fetchers : fetchers[f].pc = "fetching"
=============================================================================
