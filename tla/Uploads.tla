------------------------------ MODULE Uploads -------------------------------
(***************************************************************************)
(* The files that users and programs upload to one step: tusd takes the    *)
(* bytes and calls server/views/tusd_hooks.py, which copies the file to    *)
(* its place in S3, makes a row, deletes old files, and, in a transaction  *)
(* of its own, makes the new one the step's param.  S3 obeys no            *)
(* transaction, and a process may die between any two calls.               *)
(*                                                                         *)
(* An upload is a number, by order of creation at tusd; a row's number     *)
(* (created_at) tells when it came.                                        *)
(***************************************************************************)
EXTENDS StorageLimits

CONSTANTS Size,       \* Size[u]: bytes of upload u
          ByProgram,  \* uploads that come with an API token
          MaxChanges, \* bound: edits of params, tokens and the step by users
          MaxFaults   \* bound: processes that die

None == 0

VARIABLES
  state,   \* state[u]: "none"; "sent" to tusd's bucket; "filed", the hook's
           \* transaction done; "over"
  tokens,  \* tokens[u]: the API token that came with u; None from a browser
  token,   \* step.file_upload_api_token
  rows,    \* the step's rows of table "uploaded_file", oldest first
  files,   \* what is in S3 under step.uploaded_file_prefix
  param,   \* the step's "file" param
  past,    \* what it was, for undo
  status,  \* the step: "live", "deleted" (to be undone) or "purged"
  hook,    \* the hook that holds the workflow's lock
  changes, faults,
  chosen,  \* did a user undo, or choose a file? (auxiliary)
  newest,  \* the upload whose row was made last (auxiliary)
  raced    \* did a file become the param when it was not the newest, or not at all,
           \* the step being deleted? (auxiliary)

vars == <<state, tokens, token, rows, files, param, past, status, hook, changes, faults,
          chosen, newest, raced>>

NoHook   == [of |-> None]
Unlocked == hook = NoHook

(* "-created_at": Deletable counts from the newest. *)
SizeByAge(list) == [i \in DOMAIN list |-> Size[list[i]]]

(* Mutant: order_by("created_at"). *)
TooManyNewest(list) ==
  LET oldest == Reverse(list) IN {oldest[i] : i \in Deletable(SizeByAge(oldest))}

TooMany(list) == {list[i] : i \in Deletable(SizeByAge(list))}

-----------------------------------------------------------------------------

(* create_upload(), create_tus_upload_for_workflow_and_step(): tusd says   *)
(* where to send it, and gets it.                                          *)
CreateUpload(u) ==
  /\ state[u] = "none" /\ Unlocked /\ status = "live"
  /\ u \in ByProgram => token # None
  /\ state' = [state EXCEPT ![u] = "sent"]
  /\ tokens' = [tokens EXCEPT ![u] = IF u \in ByProgram THEN token ELSE None]
  /\ UNCHANGED <<token, rows, files, param, past, status, hook, changes, faults, chosen, newest, raced>>

(* _finish_upload(): UploadError if the step has gone or has had its token *)
(* reset; else the file is copied, and the row made, in a transaction.     *)
BeginHook(u) ==
  /\ state[u] = "sent" /\ Unlocked
  /\ IF status # "live" \/ tokens[u] \notin {None, token}
     THEN state' = [state EXCEPT ![u] = "over"] /\ UNCHANGED <<files, hook>>
     ELSE /\ files' = files \cup {u} /\ hook' = [of |-> u, old |-> TooMany(Append(rows, u))]
          /\ UNCHANGED state
  /\ UNCHANGED <<tokens, token, rows, param, past, status, changes, faults, chosen, newest, raced>>

(* delete_old_files_to_enforce_storage_limits(): S3 first.                 *)
DeleteFile(f) ==
  /\ ~Unlocked /\ f \in hook.old \cap files /\ files' = files \ {f}
  /\ UNCHANGED <<state, tokens, token, rows, param, past, status, hook, changes, faults,
                 chosen, newest, raced>>

(* The rows that are left, Deletable having counted from the newest.       *)
Newest(list) == SubSeq(list, Min({i \in DOMAIN list : list[i] \notin hook.old}), Len(list))

EndHook ==
  /\ ~Unlocked /\ hook.old \cap files = {} /\ hook' = NoHook
  /\ rows' = Newest(Append(rows, hook.of))
  /\ state' = [state EXCEPT ![hook.of] = "filed"] /\ newest' = hook.of
  /\ UNCHANGED <<tokens, token, files, param, past, status, changes, faults, chosen, raced>>

(* commands.do(SetStepParams) *)
SelectFile(u) ==
  /\ state[u] = "filed" /\ Unlocked /\ state' = [state EXCEPT ![u] = "over"]
  /\ IF status = "live"
     THEN param' = u /\ past' = Append(past, param) /\ raced' = (newest # u)
     ELSE raced' = TRUE /\ UNCHANGED <<param, past>>
  /\ UNCHANGED <<tokens, token, rows, files, status, hook, changes, faults, chosen, newest>>

(* The process dies: Postgres rolls back, S3 does not, and tusd tells the  *)
(* client that the upload failed.                                          *)
Crash ==
  /\ faults < MaxFaults /\ faults' = faults + 1
  /\ \/ ~Unlocked /\ state' = [state EXCEPT ![hook.of] = "over"] /\ hook' = NoHook
     \/ \E u \in DOMAIN state :
          state[u] = "filed" /\ state' = [state EXCEPT ![u] = "over"] /\ UNCHANGED hook
  /\ UNCHANGED <<tokens, token, rows, files, param, past, status, changes, chosen, newest, raced>>

-----------------------------------------------------------------------------
(* Users. *)

Changes == changes < MaxChanges /\ changes' = changes + 1 /\ Unlocked

(* The client lists the rows: set_params() takes any uuid. *)
ChooseFile ==
  /\ Changes /\ status = "live"
  /\ \E f \in Range(rows) \ {param} : param' = f /\ past' = Append(past, param)
  /\ chosen' = TRUE /\ UNCHANGED <<state, tokens, token, rows, files, status, hook, faults, newest, raced>>

Undo ==
  /\ Changes /\ status = "live" /\ past # <<>> /\ param' = Last(past) /\ past' = Front(past)
  /\ chosen' = TRUE /\ UNCHANGED <<state, tokens, token, rows, files, status, hook, faults, newest, raced>>

(* reset_file_upload_api_token(), clear_file_upload_api_token() *)
ResetToken ==
  /\ Changes /\ status = "live" /\ token' \in {None, changes + 1} \ {token}
  /\ UNCHANGED <<state, tokens, rows, files, param, past, status, hook, faults, chosen, newest, raced>>

(* DeleteStep, its undo, and the purge of the step: a row's file goes with *)
(* it (auto_delete_file_on_delete()).                                      *)
DeleteStep ==
  /\ Changes /\ status # "purged" /\ status' = IF status = "live" THEN "deleted" ELSE "live"
  /\ UNCHANGED <<state, tokens, token, rows, files, param, past, hook, faults, chosen, newest, raced>>

Purge ==
  /\ Unlocked /\ status = "deleted" /\ status' = "purged"
  /\ files' = files \ Range(rows) /\ rows' = <<>> /\ param' = None /\ past' = <<>>
  /\ UNCHANGED <<state, tokens, token, hook, changes, faults, chosen, newest, raced>>

Init ==
  /\ state = [u \in DOMAIN Size |-> "none"] /\ tokens = [u \in DOMAIN Size |-> None]
  /\ token = None /\ rows = <<>> /\ files = {} /\ param = None /\ past = <<>>
  /\ status = "live" /\ hook = NoHook /\ changes = 0 /\ faults = 0
  /\ chosen = FALSE /\ newest = None /\ raced = FALSE

Next ==
  \/ \E u \in DOMAIN Size : CreateUpload(u) \/ BeginHook(u) \/ DeleteFile(u) \/ SelectFile(u)
  \/ EndHook \/ Crash
  \/ ChooseFile \/ Undo \/ ResetToken \/ DeleteStep \/ Purge

Spec == Init /\ [][Next]_vars

-----------------------------------------------------------------------------
(* Properties.                                                             *)

(* The step's file is there, row and object, however many came since,      *)
(* unless its user went back to it, or two uploads raced and the older     *)
(* came last, or the step was deleted between the hook's two transactions: *)
(* the newest file is never deleted, and it becomes the param.             *)
ChosenFileExists ==
  (/\ Unlocked /\ faults = 0 /\ ~chosen /\ ~raced /\ param # None
   /\ \A u \in DOMAIN state : state[u] # "filed") => param \in Range(rows) \cap files
=============================================================================
