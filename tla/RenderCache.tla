---------------------------- MODULE RenderCache -----------------------------
(***************************************************************************)
(* The cached results of the steps of one tab: a row in the database and a *)
(* Parquet file in S3, written and deleted one after the other             *)
(* (cjwstate/rendercache/io.py, "Try to err on the side of not-caching");  *)
(* the renderer that writes them and recovers from CorruptCacheError       *)
(* (renderer/execute/tab.py, step.py); and the readers who load a row,     *)
(* free the workflow's lock, and download the file (server/views/steps.py, *)
(* fetcher/fetch.py).                                                      *)
(*                                                                         *)
(* A render may give anything, also twice for one delta: a module may look *)
(* at the clock, or be replaced by a newer version.                        *)
(***************************************************************************)
EXTENDS Integers, SequencesExt

CONSTANTS NSteps,    \* steps of the tab
          Tables,    \* the tables a render may give
          MaxEdits,  \* bound: commands
          MaxFaults  \* bound: renderers killed, S3 errors

ASSUME CacheBounds == NSteps \in Nat \ {0} /\ {MaxEdits, MaxFaults} \subseteq Nat

VARIABLES
  deltas,   \* deltas[s]: last_relevant_delta_id of step s
  past, future, \* what deltas were, for undo and redo
  rows,     \* rows[s]: the cached_render_result_* columns of step s
  files,    \* files[s]: the file of step s, named (parquet_key()) by a delta
  queued,   \* is a render queued?
  job,      \* the renderer
  reader,   \* a browser that reads the last step's output
  edits, faults,
  again     \* the steps whose file was written again for the delta of the row,
            \* which has not followed (auxiliary)

vars == <<deltas, past, future, rows, files, queued, job, reader, edits, faults, again>>

Steps == 1 .. NSteps

(* Status "error" or "unreachable": a table without columns, and no file.  *)
NoTable == 0

NoRow == [delta |-> 0, table |-> NoTable]
NoFile == NoRow

Idle == [pc |-> "idle"]

(* Step.cached_render_result is not None *)
IsFresh(s) == rows[s].delta = deltas[s]

(* Mutant: the file's name does not tell of which delta it is.             *)
HasAnyFile(s, row) == files[s] # NoFile

(* downloaded_parquet_file() raises no CorruptCacheError.                  *)
HasFile(s, row) == files[s] # NoFile /\ files[s].delta = row.delta

(* Nor does load_cached_render_result().                                   *)
Readable(s, row) == row.table = NoTable \/ HasFile(s, row)

(* Is workflow.cooperative_lock() free? _execute_step_save() holds it.     *)
Unlocked == job.pc \notin {"deleted", "put"}

-----------------------------------------------------------------------------
(* The user. *)

Edit == \E s \in Steps :
  /\ Unlocked /\ edits < MaxEdits /\ edits' = edits + 1
  /\ deltas' = [t \in Steps |-> IF t >= s THEN edits + 2 ELSE deltas[t]]
  /\ past' = Append(past, deltas) /\ future' = <<>> /\ queued' = TRUE
  /\ UNCHANGED <<rows, files, job, reader, faults, again>>

Undo ==
  /\ Unlocked /\ past # <<>>
  /\ deltas' = Last(past) /\ past' = Front(past) /\ future' = <<deltas>> \o future
  /\ queued' = TRUE /\ UNCHANGED <<rows, files, job, reader, edits, faults, again>>

Redo ==
  /\ Unlocked /\ future # <<>>
  /\ deltas' = Head(future) /\ past' = Append(past, deltas) /\ future' = Tail(future)
  /\ queued' = TRUE /\ UNCHANGED <<rows, files, job, reader, edits, faults, again>>

-----------------------------------------------------------------------------
(* The renderer. *)

(* _load_tab_flows(), TabFlow.first_stale_index: "back" from the step      *)
(* before the first stale one.                                             *)
Load ==
  /\ job = Idle /\ queued /\ queued' = FALSE
  /\ LET stale == {s \in Steps : ~IsFresh(s)}
         first == CHOOSE s \in stale \cup {NSteps + 1} : \A t \in stale : s <= t
     IN  job' = [pc |-> "back", deltas |-> deltas, at |-> first - 1]
  /\ UNCHANGED <<deltas, past, future, rows, files, reader, edits, faults, again>>

(* UnneededExecution *)
Unneeded(s) == job.deltas[s] # deltas[s]

GiveUp == job' = Idle

(* Mutant: CorruptCacheError does not lead back.                           *)
LoadInputOrNothing ==
  /\ job.pc = "back" /\ job.at > 0
  /\ IF Unneeded(job.at) THEN GiveUp
     ELSE job' = [pc |-> "run", deltas |-> job.deltas, at |-> job.at + 1,
                  input |-> IF Readable(job.at, rows[job.at]) THEN rows[job.at].table ELSE NoTable]
  /\ UNCHANGED <<deltas, past, future, rows, files, queued, reader, edits, faults, again>>

LoadInput ==
  /\ job.pc = "back" /\ job.at > 0
  /\ IF Unneeded(job.at) THEN GiveUp
     ELSE IF Readable(job.at, rows[job.at])
     THEN job' = [pc |-> "run", deltas |-> job.deltas, at |-> job.at + 1,
                  input |-> rows[job.at].table]
     ELSE job' = [job EXCEPT !.at = @ - 1]
  /\ UNCHANGED <<deltas, past, future, rows, files, queued, reader, edits, faults, again>>

LoadNothing ==
  /\ job.pc = "back" /\ job.at = 0
  /\ job' = [pc |-> "run", deltas |-> job.deltas, at |-> 1, input |-> NoTable]
  /\ UNCHANGED <<deltas, past, future, rows, files, queued, reader, edits, faults, again>>

(* _render_step(): "unreachable", or what the module gives.                *)
RenderStep ==
  /\ job.pc = "run" /\ job.at <= NSteps
  /\ \/ /\ job.at > 1 /\ job.input = NoTable
        /\ job' = [job EXCEPT !.pc = "save", !.input = NoTable]
     \/ /\ job.at = 1 \/ job.input # NoTable
        /\ IF Unneeded(job.at) THEN GiveUp
           ELSE \E t \in Tables \cup {NoTable} :
                  job' = [job EXCEPT !.pc = "save", !.input = t]
  /\ UNCHANGED <<deltas, past, future, rows, files, queued, reader, edits, faults, again>>

(* cache_render_result(), in one transaction: the files go,                *)
DeleteFiles ==
  /\ job.pc = "save"
  /\ IF Unneeded(job.at) THEN GiveUp /\ UNCHANGED files
     ELSE /\ files' = [files EXCEPT ![job.at] = NoFile]
          /\ job' = [job EXCEPT !.pc = IF job.input = NoTable THEN "put" ELSE "deleted"]
  /\ UNCHANGED <<deltas, past, future, rows, queued, reader, edits, faults, again>>

(* ... the row is saved, the file is written,                              *)
PutFile ==
  /\ job.pc = "deleted" /\ job' = [job EXCEPT !.pc = "put"]
  /\ files' = [files EXCEPT ![job.at] = [delta |-> deltas[job.at], table |-> job.input]]
  /\ again' = IF IsFresh(job.at) THEN again \cup {job.at} ELSE again
  /\ UNCHANGED <<deltas, past, future, rows, queued, reader, edits, faults>>

(* ... and the transaction commits.                                        *)
Commit ==
  /\ job.pc = "put"
  /\ rows' = [rows EXCEPT ![job.at] = [delta |-> deltas[job.at], table |-> job.input]]
  /\ job' = [job EXCEPT !.pc = "run", !.at = @ + 1] /\ again' = again \ {job.at}
  /\ UNCHANGED <<deltas, past, future, files, queued, reader, edits, faults>>

Finish ==
  /\ job.pc = "run" /\ job.at > NSteps /\ job' = Idle
  /\ UNCHANGED <<deltas, past, future, rows, files, queued, reader, edits, faults, again>>

(* The process is killed, and its message delivered again; or S3 raises,   *)
(* and the message is acked.  Postgres rolls back, S3 does not.            *)
Fault ==
  /\ job # Idle /\ job' = Idle /\ faults < MaxFaults /\ faults' = faults + 1
  /\ queued' \in {TRUE, queued}
  /\ UNCHANGED <<deltas, past, future, rows, files, reader, edits, again>>

-----------------------------------------------------------------------------
(* A browser downloads the last step's output: the row under the lock,     *)
ReadRow ==
  /\ Unlocked /\ reader.pc # "row"
  /\ reader' = [pc |-> "row", row |-> IF IsFresh(NSteps) THEN rows[NSteps] ELSE NoRow]
  /\ UNCHANGED <<deltas, past, future, rows, files, queued, job, edits, faults, again>>

(* Mutant: "assume we'll get another request after execute finishes"       *)
DownloadOrNothing ==
  /\ reader.pc = "row"
  /\ reader' = [pc |-> IF HasFile(NSteps, reader.row) THEN "got" ELSE "retry"]
  /\ UNCHANGED <<deltas, past, future, rows, files, queued, job, edits, faults, again>>

(* ... the file without.  If there is none, "Schedule a render and return  *)
(* a response asking the user to retry" (step_public_json()).              *)
Download ==
  /\ reader.pc = "row"
  /\ IF HasFile(NSteps, reader.row)
     THEN reader' = [pc |-> "got"] /\ UNCHANGED queued
     ELSE reader' = [pc |-> "retry"] /\ queued' = TRUE
  /\ UNCHANGED <<deltas, past, future, rows, files, job, edits, faults, again>>

Init ==
  /\ deltas = [s \in Steps |-> 1] /\ past = <<>> /\ future = <<>>
  /\ rows = [s \in Steps |-> NoRow] /\ files = [s \in Steps |-> NoFile]
  /\ queued = TRUE /\ job = Idle /\ reader = [pc |-> "got"]
  /\ edits = 0 /\ faults = 0 /\ again = {}

Renderer ==
  Load \/ LoadInput \/ LoadNothing \/ RenderStep \/ DeleteFiles \/ PutFile \/ Commit \/ Finish

Next == Edit \/ Undo \/ Redo \/ Renderer \/ Fault \/ ReadRow \/ Download

(* Renderers run, and somebody goes on trying to download the last step.   *)
Fairness == WF_vars(Renderer) /\ WF_vars(Download) /\ WF_vars(ReadRow)

Spec == Init /\ [][Next]_vars /\ Fairness

-----------------------------------------------------------------------------
(* Properties.                                                             *)

(* A row and the file of its name are of one result, wherever a render was *)
(* killed and whatever was undone since: inconsistency shows as a missing  *)
(* file.  Unless a step was rendered again for one delta and that render   *)
(* was killed: the file may then be of another result than the row.        *)
RowMatchesFile ==
  Unlocked =>
    \A s \in Steps \ again :
      (rows[s].table # NoTable /\ HasFile(s, rows[s])) => files[s].table = rows[s].table

(* "When render() exits, the render cache should be fresh for all steps"   *)
(* (execute/tab.py): all rows are of the deltas it began with, and the     *)
(* last step's can be read, also after CorruptCacheError.                  *)
DoneMeansFresh ==
  (job.pc = "run" /\ job.at > NSteps /\ job.deltas = deltas) =>
    (\A s \in Steps : IsFresh(s)) /\ Readable(NSteps, rows[NSteps])

(* Who asks again for the last step's output gets it in the end, whatever  *)
(* failed, once the user has stopped: no more "retry", but the table.      *)
(* Unless the step ends without a table: there is no file to download then,*)
(* and every download is answered "retry" and queues one more render.      *)
DownloadsWorkInTheEnd ==
  <>[][FALSE]_deltas =>
    /\ <>[]IsFresh(NSteps)
    /\ \/ <>[](rows[NSteps].table = NoTable)
       \/ <>[](reader.pc # "retry") /\ []<>(reader.pc = "got")
=============================================================================
