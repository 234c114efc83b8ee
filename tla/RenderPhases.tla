---------------------------- MODULE RenderPhases ----------------------------
(***************************************************************************)
(* What render_lock() promises, as the docstring of PgRenderLocker tells   *)
(* it: each workflow goes through the phases                               *)
(*                                                                         *)
(*     unlocked --A--> rendering --B--> requeueing --C--> unlocked         *)
(*                                                                         *)
(* in atomic steps shared by all clients, "never skipping a step".  A call *)
(* that finds the workflow rendering is refused (WorkflowAlreadyLocked);   *)
(* one that finds it requeueing waits.                                     *)
(*                                                                         *)
(* A client whose Postgres session ends loses its locks on the server:     *)
(* its tasks are "gone", and nothing more is promised to them, until the   *)
(* process starts again.  Both events begin a new epoch of the client, so  *)
(* no other step can be mistaken for them.                                 *)
(***************************************************************************)
EXTENDS Naturals

CONSTANTS Clients, Tasks, Workflows, ClientOf

VARIABLES state,   \* state[t]: how far task t's call of render_lock() is
          target,  \* target[t]: the workflow of task t's latest call
          epoch    \* epoch[c]: session losses and restarts of client c

vars == <<state, target, epoch>>

TasksIn(w, s) == {t \in Tasks : target[t] = w /\ state[t] = s}

Phase(w) == IF TasksIn(w, "rendering") # {} THEN "rendering"
            ELSE IF TasksIn(w, "requeueing") # {} THEN "requeueing"
            ELSE "unlocked"

Init == /\ state = [t \in Tasks |-> "idle"]
        /\ target \in [Tasks -> Workflows]
        /\ epoch = [c \in Clients |-> 0]

Move(t, from, to) == /\ state[t] = from
                     /\ state' = [state EXCEPT ![t] = to]
                     /\ UNCHANGED <<target, epoch>>

(* A task without a session may still issue a call; it gets nowhere.       *)
Request(t, w) == /\ state[t] \in {"idle", "gone"}
                 /\ state' = [state EXCEPT ![t] = IF @ = "gone" THEN @ ELSE "waiting"]
                 /\ target' = [target EXCEPT ![t] = w]
                 /\ UNCHANGED epoch

(* Transition A, and its refusal: "None will raise WorkflowAlreadyLocked"  *)
(* while the workflow is requeueing.                                       *)
Lock(t)   == Phase(target[t]) = "unlocked" /\ Move(t, "waiting", "rendering")
Refuse(t) == Phase(target[t]) = "rendering" /\ Move(t, "waiting", "refused")

StallOthers(t) == Move(t, "rendering", "requeueing")   \* transition B
Unlock(t)      == Move(t, "requeueing", "idle")        \* transition C
Raise(t)       == Move(t, "refused", "idle")

NewEpoch(c, s) ==
    /\ state' = [t \in Tasks |-> IF ClientOf[t] = c THEN s ELSE state[t]]
    /\ epoch' = [epoch EXCEPT ![c] = @ + 1]
    /\ UNCHANGED target

LoseSession(c) == NewEpoch(c, "gone")
Restart(c)     == NewEpoch(c, "idle")

Next == \/ \E t \in Tasks, w \in Workflows : Request(t, w)
        \/ \E t \in Tasks : \/ Lock(t) \/ Refuse(t) \/ StallOthers(t)
                            \/ Unlock(t) \/ Raise(t)
        \/ \E c \in Clients : LoseSession(c) \/ Restart(c)

Spec == Init /\ [][Next]_vars
=============================================================================
