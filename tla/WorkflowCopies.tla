--------------------------- MODULE WorkflowCopies ---------------------------
(***************************************************************************)
(* Whose a workflow is.  A visitor who opens an example gets a copy that   *)
(* belongs to the browser's session (server/views/workflows.py); a user    *)
(* may duplicate what is shared; a lesson makes each one a workflow of its *)
(* own (server/views/lessons.py).  Requests of one browser run at once, on *)
(* several web servers.  Sessions expire, and cron then deletes their      *)
(* copies (cron/expiredsessiondeleter.py).  Django's sessions and accounts *)
(* are external: a login gives the session another key.                    *)
(***************************************************************************)
EXTENDS Naturals, Sequences

CONSTANTS Requests,
          MaxKeys,      \* bound: session keys
          MaxWorkflows, \* bound: copies, duplicates and lessons
          MaxChanges,   \* bound: requests, what owners and visitors change, and deaths
          MaxCrashes    \* bound: web servers that die

User == 0 \* the visitor, as an owner; other owners are session keys

VARIABLES
  original,  \* the example: is it there, public, an example, shared with the visitor,
             \* and has it all results?
  cookie,    \* the key that the browser sends, 0 if none
  sessions,  \* sessions[key]: "anonymous" or "user"
  nKeys,     \* keys that there have been: no key comes twice
  workflows, \* of the visitor: [of, owner, status, pending]: pending, what
             \* it has no result of and no message is there for
  requests,  \* requests[r]: [what, at, owner, isNew, shows]: isNew, its session
  cron,      \* [at, victims]
  raced, crashes, \* has a lesson been begun twice at once? (auxiliary)
  changes

vars == <<original, cookie, sessions, nKeys, workflows, requests, cron, raced, crashes, changes>>

Idle == [what |-> "page", at |-> "idle", owner |-> User, isNew |-> FALSE, shows |-> 0]

Init ==
  /\ original = [there |-> TRUE, public |-> TRUE, example |-> TRUE, shared |-> FALSE,
                 rendered |-> TRUE]
  /\ cookie = 0 /\ sessions = <<>> /\ nKeys = 0 /\ workflows = <<>>
  /\ requests = [r \in Requests |-> Idle] /\ cron = [at |-> "idle", victims |-> {}]
  /\ raced = FALSE /\ crashes = 0 /\ changes = 0

Changing == changes < MaxChanges /\ changes' = changes + 1

Underway(q) == q.at \in {"get", "create", "again", "queue", "show", "begun"}

Go(r, q, at) == requests' = [requests EXCEPT ![r] = [q EXCEPT !.at = at]]

-----------------------------------------------------------------------------
(* The session that the browser's cookie names, 0 if it is gone.           *)
Session == IF cookie \in DOMAIN sessions THEN cookie ELSE 0

LoggedIn == Session # 0 /\ sessions[Session] = "user"

(* user_session_authorized_read(), of a workflow of somebody else's.       *)
AuthorizedRead == original.public \/ (LoggedIn /\ original.shared)

With(key, kind) == [k \in DOMAIN sessions \cup {key} |-> IF k = key THEN kind ELSE sessions[k]]
Without(keys) == [k \in DOMAIN sessions \ keys |-> sessions[k]]

(* request.session.create(), unless the browser has a session.             *)
InSession(r, q) ==
  LET key == IF Session # 0 THEN Session ELSE nKeys + 1
  IN  /\ Go(r, [q EXCEPT !.isNew = Session = 0, !.owner = key], "get")
      /\ sessions' = IF Session = 0 THEN With(key, "anonymous") ELSE sessions
      /\ nKeys' = IF Session = 0 THEN key ELSE nKeys

(* lookup_workflow_for_read(); an example is then looked for among the     *)
(* session's copies.                                                       *)
OpenPage(r) ==
  LET q == [Idle EXCEPT !.what = "page"]
  IN  IF original.there /\ AuthorizedRead /\ original.example THEN InSession(r, q)
      ELSE /\ Go(r, q, IF ~original.there THEN "lost"
                       ELSE IF ~AuthorizedRead THEN "forbidden" ELSE "show")
           /\ UNCHANGED <<sessions, nKeys>>

(* Duplicate.post(), which asks for no login.                              *)
Duplicate(r) ==
  /\ Go(r, [Idle EXCEPT !.what = "duplicate"],
        IF ~original.there THEN "lost"
        ELSE IF ~AuthorizedRead THEN "forbidden"
        ELSE IF ~LoggedIn THEN "anonymous" \* an AnonymousUser is not a User: ValueError
        ELSE "create")
  /\ UNCHANGED <<sessions, nKeys>>

(* _ensure_workflow()                                                      *)
OpenLesson(r) ==
  LET q == [Idle EXCEPT !.what = "lesson"]
  IN  IF LoggedIn THEN Go(r, q, "get") /\ UNCHANGED <<sessions, nKeys>> ELSE InSession(r, q)

Begin(r) ==
  /\ ~Underway(requests[r]) /\ nKeys < MaxKeys /\ Changing
  /\ OpenPage(r) \/ Duplicate(r) \/ OpenLesson(r)
  /\ UNCHANGED <<original, cookie, workflows, cron, raced, crashes>>

-----------------------------------------------------------------------------
Of(q) == IF q.what = "lesson" THEN "lesson" ELSE "original"

(* The rows that get() finds.                                              *)
Mine(q) == {i \in DOMAIN workflows : /\ workflows[i].status = "there"
                                     /\ workflows[i].of = Of(q) /\ workflows[i].owner = q.owner}

Found(q) == CHOOSE i \in Mine(q) : TRUE

(* Workflow.objects.get(), alone and as the first half of get_or_create(). *)
Get(r) ==
  LET q == requests[r]
  IN  /\ q.at = "get"
      /\ requests' = [requests EXCEPT ![r] =
           IF Mine(q) = {} THEN [q EXCEPT !.at = "create"]
           ELSE IF \A i, j \in Mine(q) : i = j THEN [q EXCEPT !.at = "show", !.shows = Found(q)]
           ELSE [q EXCEPT !.at = "twins"]]
      /\ UNCHANGED <<original, cookie, sessions, nKeys, workflows, cron, raced, crashes, changes>>

(* The index unique_workflow_copy_by_session, and ..._by_user: nothing like*)
(* it is about lessons.                                                    *)
IsUnique(q) == Of(q) = "original" => Mine(q) = {}

(* Tab.duplicate_into_new_workflow(), Step.duplicate_into_new_workflow():  *)
(* the copy of a fresh result is fresh, and there is none of a stale one.  *)
Copied(q) == [of |-> "original", owner |-> q.owner, status |-> "there", pending |-> ~original.rendered]

(* _init_workflow_for_lesson(): its steps are all to be fetched or rendered.*)
Begun(q) == [of |-> "lesson", owner |-> q.owner, status |-> "there", pending |-> TRUE]

(* _duplicate(), one transaction under the original's lock; or the rest of *)
(* get_or_create().                                                        *)
Create(r) ==
  LET q == requests[r]
  IN  /\ q.at = "create" /\ Len(workflows) < MaxWorkflows
      /\ IF Of(q) = "original" /\ ~original.there
         THEN Go(r, q, "gone") /\ UNCHANGED <<workflows, raced>>
         ELSE IF ~IsUnique(q)
         THEN /\ Go(r, q, IF q.what = "page" THEN "again" ELSE "second")
              /\ UNCHANGED <<workflows, raced>>
         ELSE /\ workflows' = Append(workflows, IF Of(q) = "lesson" THEN Begun(q) ELSE Copied(q))
              /\ Go(r, [q EXCEPT !.shows = Len(workflows')],
                    IF q.what = "lesson" THEN "begun" ELSE "queue")
              /\ raced' = (raced \/ Mine(q) # {})
      /\ UNCHANGED <<original, cookie, sessions, nKeys, cron, crashes, changes>>

(* After IntegrityError: "we can assume our original query will succeed".  *)
GetAgain(r) ==
  LET q == requests[r]
  IN  /\ q.at = "again"
      /\ requests' = [requests EXCEPT ![r] =
           IF Mine(q) = {} THEN [q EXCEPT !.at = "gone"]
           ELSE [q EXCEPT !.at = "show", !.shows = Found(q)]]
      /\ UNCHANGED <<original, cookie, sessions, nKeys, workflows, cron, raced, crashes, changes>>

IsThere(q) == IF q.shows = 0 THEN original.there ELSE workflows[q.shows].status = "there"

(* The response sends the key of the session that this request created.    *)
SetCookie(q) == cookie' = IF q.isNew THEN q.owner ELSE cookie

(* Mutant: only the request that makes a copy queues its render.           *)
QueueNothing(q) == UNCHANGED workflows

(* render_workflow() queues a render of what is stale, whoever left it so. *)
QueueStale(q) ==
  workflows' = IF q.what = "page" /\ q.shows # 0
               THEN [workflows EXCEPT ![q.shows].pending = FALSE] ELSE workflows

(* make_init_state(): 404 if the workflow is not there any more.  A lesson *)
(* that was found is shown; one that was created has its fetches queued.   *)
Show(r) ==
  LET q == requests[r]
  IN  /\ q.at \in {"show", "begun"}
      /\ IF ~IsThere(q) THEN Go(r, q, "lost") /\ SetCookie(q) /\ UNCHANGED workflows
         ELSE IF q.at = "begun" THEN Go(r, q, "queue") /\ UNCHANGED <<workflows, cookie>>
         ELSE Go(r, q, "page") /\ SetCookie(q) /\ QueueStale(q)
      /\ UNCHANGED <<original, sessions, nKeys, cron, raced, crashes, changes>>

(* queue_render(), and _queue_workflow_updates().                          *)
Queue(r) ==
  LET q == requests[r]
  IN  /\ q.at = "queue"
      /\ workflows' = [workflows EXCEPT ![q.shows].pending = FALSE]
      /\ Go(r, q, IF q.what = "page" THEN "show" ELSE "page")
      /\ IF q.what = "lesson" THEN SetCookie(q) ELSE UNCHANGED cookie
      /\ UNCHANGED <<original, sessions, nKeys, cron, raced, crashes, changes>>

Crash(r) ==
  /\ Underway(requests[r]) /\ crashes < MaxCrashes /\ crashes' = crashes + 1
  /\ Changing /\ Go(r, requests[r], "crashed")
  /\ UNCHANGED <<original, cookie, sessions, nKeys, workflows, cron, raced>>

-----------------------------------------------------------------------------
(* django.contrib.auth: login() replaces the key and logout() drops it.    *)
Login ==
  /\ ~LoggedIn /\ nKeys < MaxKeys /\ Changing
  /\ nKeys' = nKeys + 1 /\ cookie' = nKeys'
  /\ sessions' = [k \in (DOMAIN sessions \ {Session}) \cup {nKeys'} |->
                    IF k = nKeys' THEN "user" ELSE sessions[k]]
  /\ UNCHANGED <<original, workflows, requests, cron, raced, crashes>>

Logout ==
  /\ LoggedIn /\ Changing /\ sessions' = Without({Session}) /\ cookie' = 0
  /\ UNCHANGED <<original, nKeys, workflows, requests, cron, raced, crashes>>

(* The owner: ApiDetail.post(), Entry.put() and .delete(), and an admin's  *)
(* `example`.                                                              *)
Share ==
  /\ original.there /\ Changing
  /\ \E flag \in {"public", "example", "shared"} :
       original' = [original EXCEPT ![flag] = ~@]
  /\ UNCHANGED <<cookie, sessions, nKeys, workflows, requests, cron, raced, crashes>>

EditOrRender ==
  /\ original.there /\ Changing /\ original' = [original EXCEPT !.rendered = ~@]
  /\ UNCHANGED <<cookie, sessions, nKeys, workflows, requests, cron, raced, crashes>>

(* ApiDetail.delete(), which needs a login: by the example's owner, or by  *)
(* the visitor, of one's own or one's session's.                           *)
DeleteOriginal ==
  /\ original.there /\ Changing /\ original' = [original EXCEPT !.there = FALSE]
  /\ UNCHANGED <<cookie, sessions, nKeys, workflows, requests, cron, raced, crashes>>

Delete(i) ==
  /\ LoggedIn /\ workflows[i].status = "there" /\ workflows[i].owner \in {User, Session}
  /\ Changing /\ workflows' = [workflows EXCEPT ![i].status = "deleted"]
  /\ UNCHANGED <<original, cookie, sessions, nKeys, requests, cron, raced, crashes>>

-----------------------------------------------------------------------------
(* delete_expired_sessions_and_workflows().  A session that has expired is *)
(* no session to the browser either, so the two happen as one.             *)
ClearExpired ==
  /\ cron.at = "idle" /\ cron' = [cron EXCEPT !.at = "cleared"]
  /\ \E keys \in SUBSET DOMAIN sessions : sessions' = Without(keys)
  /\ UNCHANGED <<original, cookie, nKeys, workflows, requests, raced, crashes, changes>>

(* One statement: the keys are a query within the query.                   *)
ListExpired ==
  /\ cron.at = "cleared"
  /\ cron' = [at |-> "listed",
              victims |-> {i \in DOMAIN workflows :
                             /\ workflows[i].status = "there" /\ workflows[i].owner # User
                             /\ workflows[i].owner \notin DOMAIN sessions}]
  /\ UNCHANGED <<original, cookie, sessions, nKeys, workflows, requests, raced, crashes, changes>>

(* Nobody else can have deleted it: its session is gone for good.          *)
DeleteExpired ==
  /\ cron.at = "listed"
  /\ \/ cron.victims = {} /\ cron' = [cron EXCEPT !.at = "idle"] /\ UNCHANGED workflows
     \/ \E i \in cron.victims :
          /\ workflows' = [workflows EXCEPT ![i].status = "expired"]
          /\ cron' = [cron EXCEPT !.victims = @ \ {i}]
  /\ UNCHANGED <<original, cookie, sessions, nKeys, requests, raced, crashes, changes>>

Next ==
  \/ \E r \in Requests : \/ Begin(r) \/ Get(r) \/ Create(r) \/ GetAgain(r) \/ Show(r)
                         \/ Queue(r) \/ Crash(r)
  \/ Login \/ Logout \/ Share \/ EditOrRender \/ DeleteOriginal
  \/ \E i \in DOMAIN workflows : Delete(i)
  \/ ClearExpired \/ ListExpired \/ DeleteExpired

Spec == Init /\ [][Next]_vars

-----------------------------------------------------------------------------
Ended(i) == workflows[i].status # "there"

WillQueue(i) == \E r \in Requests : requests[r].at \in {"begun", "queue"} /\ requests[r].shows = i

(* Whoever opens an example sees one's own copy, the only one, and what it *)
(* has no result of is queued, even if the server that made it died; cron  *)
(* deletes no copy of a session that lives.  A request ends in an error    *)
(* only when the workflow was deleted meanwhile.  (Exceptions: a lesson    *)
(* whose server died is shown and never fetched, and one that was begun    *)
(* twice at once can never be opened again; and a user can duplicate a     *)
(* workflow once.)                                                         *)
VisitorsGetTheirCopy ==
  /\ \A i, j \in DOMAIN workflows :
       /\ i # j /\ ~Ended(i) /\ ~Ended(j) /\ workflows[i].of = workflows[j].of
            /\ workflows[i].owner = workflows[j].owner
          => workflows[i].of = "lesson" /\ raced
       /\ workflows[i].status = "expired" => workflows[i].owner \notin DOMAIN sessions
  /\ \A r \in Requests :
       LET q == requests[r] IN
       /\ q.at = "page" /\ q.shows # 0 =>
            /\ workflows[q.shows].owner = q.owner /\ workflows[q.shows].of = Of(q)
            /\ ~workflows[q.shows].pending \/ Ended(q.shows)
               \/ (q.what = "lesson" /\ (crashes > 0 \/ WillQueue(q.shows)))
       /\ q.at = "gone"  => ~original.there \/ \E i \in DOMAIN workflows :
                             Ended(i) /\ workflows[i].owner = q.owner
       /\ q.at = "twins" => raced
=============================================================================
