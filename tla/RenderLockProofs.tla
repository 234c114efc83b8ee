-------------------------- MODULE RenderLockProofs --------------------------
(***************************************************************************)
(* Theorems about RenderLock, for any clients, tasks and workflows, any    *)
(* number of calls and any number of faults.                               *)
(*                                                                         *)
(* The inductive invariant relates each of the four locks to the set of    *)
(* tasks that hold it by where they are: a client's local locks to its     *)
(* tasks (LocalInv), the server's locks to the tasks of the clients whose  *)
(* session is alive (RemoteInv).  The lemmas about LocalInv and RemoteInv  *)
(* say how each relation survives a change of the holders; the steps say   *)
(* which change each action makes.                                         *)
(***************************************************************************)
EXTENDS RenderLock, FiniteSetTheorems, TLAPS

(* The type of stall and of render. *)
LockTable == [Workflows -> [Clients -> Nat]]

(* What the server does to a lock table leaves a lock table. *)
LEMMA LockTyping ==
  ASSUME NEW lock \in LockTable, NEW w \in Workflows, NEW c \in Clients
  PROVE  /\ Locked(lock, w, c) \in LockTable
         /\ Unlocked(lock, w, c) \in LockTable
         /\ Forgotten(lock, c) \in LockTable
  BY DEF LockTable, Locked, Unlocked, Forgotten

(* A fresh system has its type. *)
LEMMA InitTypeOK == Init => TypeOK
  BY ClientOfAssumption, WorkflowAssumption DEF Init, TypeOK, Pcs

(* No step breaks the types. *)
LEMMA TypeOKStep ==
  ASSUME TypeOK, [Next]_vars PROVE TypeOK'
<1> USE ClientOfAssumption
<1>1. ASSUME NEW t \in Tasks, Step(t) PROVE TypeOK'
  <2>0. ClientOf[t] \in Clients
    OBVIOUS
  <2>1. CASE AcquireLocalStall(t)
    BY <2>0, <2>1 DEF TypeOK, Pcs, AcquireLocalStall, Goto, server, faulty
  <2>2. CASE BeginRemoteStall(t)
    BY <2>0, <2>2 DEF TypeOK, Pcs, BeginRemoteStall, Goto, local, server, faulty
  <2>3. CASE AcquireRemoteStall(t)
    BY <2>0, <2>3, LockTyping, ZenonT(60)
       DEF TypeOK, Pcs, AcquireRemoteStall, Goto, local, faulty, LockTable
  <2>4. CASE AcquireLocalRender(t)
    BY <2>0, <2>4 DEF TypeOK, Pcs, AcquireLocalRender, Goto, server, faulty
  <2>5. CASE RefuseLocally(t)
    BY <2>0, <2>5 DEF TypeOK, Pcs, RefuseLocally, Goto, local, server, faulty
  <2>6. CASE AcquireRemoteRender(t)
    BY <2>0, <2>6, LockTyping, ZenonT(60)
       DEF TypeOK, Pcs, AcquireRemoteRender, Goto, local, faulty, LockTable
  <2>7. CASE RefuseRemotely(t)
    BY <2>0, <2>7 DEF TypeOK, Pcs, RefuseRemotely, Goto, server, faulty
  <2>8. CASE ReleaseRemoteStall(t)
    BY <2>0, <2>8, LockTyping
       DEF TypeOK, Pcs, ReleaseRemoteStall, Goto, local, faulty, LockTable
  <2>9. CASE ReleaseLocalStall(t)
    BY <2>0, <2>9 DEF TypeOK, Pcs, ReleaseLocalStall, Goto, server, faulty
  <2>10. CASE StallOthers(t)
    BY <2>0, <2>10 DEF TypeOK, Pcs, StallOthers, Goto, local, server, faulty
  <2>11. CASE ReleaseRemoteRender(t)
    BY <2>0, <2>11, LockTyping, ZenonT(60)
       DEF TypeOK, Pcs, ReleaseRemoteRender, Goto, local, faulty, LockTable
  <2>12. CASE ReleaseLocalRender(t)
    BY <2>0, <2>12 DEF TypeOK, Pcs, ReleaseLocalRender, Goto, server, faulty
  <2>13. CASE Leave(t)
    BY <2>0, <2>13 DEF TypeOK, Pcs, Leave, Goto, local, server, faulty
  <2>14. CASE FailAndExit(t)
    BY <2>0, <2>14 DEF TypeOK, Pcs, FailAndExit, Restart, EndSession, Forgotten
  <2>15. CASE FailAndStallAgain(t)
    BY <2>0, <2>15 DEF TypeOK, Pcs, FailAndStallAgain, local, server, faulty
  <2> QED
    BY <1>1, <2>1, <2>2, <2>3, <2>4, <2>5, <2>6, <2>7, <2>8, <2>9, <2>10,
       <2>11, <2>12, <2>13, <2>14, <2>15 DEF Step
<1>2. ASSUME NEW t \in Tasks, NEW w \in Workflows, Call(t, w) PROVE TypeOK'
  BY <1>2 DEF TypeOK, Pcs, Call, Goto, local, server, faulty
<1>3. ASSUME NEW c \in Clients, Kill(c) PROVE TypeOK'
  BY <1>3 DEF TypeOK, Pcs, Kill, Restart, EndSession, Forgotten
<1>4. ASSUME NEW c \in Clients, LoseSession(c) PROVE TypeOK'
  BY <1>4 DEF TypeOK, LoseSession, EndSession, Forgotten, local
<1>5. CASE UNCHANGED vars
  BY <1>5 DEF TypeOK, vars, local, server, faulty
<1> QED
  BY <1>1, <1>2, <1>3, <1>4, <1>5 DEF Next

(* The state of every client and of the server always has its type; an     *)
(* advisory lock is never held a negative number of times.                 *)
THEOREM Typing == Spec => []TypeOK
<1>1. TypeOK /\ [Next]_vars => TypeOK'
  BY TypeOKStep
<1> QED
  BY <1>1, InitTypeOK, PTL DEF Spec

-----------------------------------------------------------------------------
(* A local lock: held[c] are the workflows client c has locked, H the      *)
(* tasks that hold a lock, task t for wk[t].                               *)
LocalInv(H, wk, held, live) ==
  /\ \A t \in H : wk[t] \in held[ClientOf[t]]
  /\ \A t, u \in H : t # u /\ ClientOf[t] = ClientOf[u] => wk[t] # wk[u]
  /\ \A c \in Clients : live[c] =>
       \A w \in held[c] : \E t \in H : ClientOf[t] = c /\ wk[t] = w

(* The two local locks and their holders. *)
LocalStallHolders == {t \in Tasks : HoldsLocalStall(t)}
LocalRenderHolders == {t \in Tasks : HoldsLocalRender(t)}
LocalStallInv  == LocalInv(LocalStallHolders, work, localStalls, session)
LocalRenderInv == LocalInv(LocalRenderHolders, work, localRenders, session)

(* The types of the local locks and of the sessions. *)
LocalLocks == [Clients -> SUBSET Workflows]
Sessions == [Clients -> BOOLEAN]

(* Nothing is lost when the holders stay the same, and keep their          *)
(* workflows, even if sessions end.                                        *)
LEMMA LocalKept ==
  ASSUME NEW H \in SUBSET Tasks, NEW wk, NEW wk2,
         NEW held, NEW live, NEW live2,
         LocalInv(H, wk, held, live),
         \A t \in H : wk2[t] = wk[t],
         \A c \in Clients : live2[c] => live[c]
  PROVE  LocalInv(H, wk2, held, live2)
  BY ClientOfAssumption DEF LocalInv

(* A task may take a local lock that nobody in its client has. *)
LEMMA LocalAcquired ==
  ASSUME NEW H \in SUBSET Tasks, NEW wk, NEW t \in Tasks,
         NEW held \in LocalLocks, NEW live,
         LocalInv(H, wk, held, live),
         wk[t] \notin held[ClientOf[t]]
  PROVE  LocalInv(H \cup {t}, wk, [held EXCEPT ![ClientOf[t]] = @ \cup {wk[t]}], live)
  BY ClientOfAssumption DEF LocalInv, LocalLocks

(* A holder that lets go takes the entry with it. *)
LEMMA LocalReleased ==
  ASSUME NEW H \in SUBSET Tasks, NEW wk, NEW t \in H,
         NEW held \in LocalLocks, NEW live,
         LocalInv(H, wk, held, live)
  PROVE  LocalInv(H \ {t}, wk, [held EXCEPT ![ClientOf[t]] = @ \ {wk[t]}], live)
  BY ClientOfAssumption DEF LocalInv, LocalLocks

(* A task without a session may forget its lock: the entry stays behind. *)
LEMMA LocalDropped ==
  ASSUME NEW H \in SUBSET Tasks, NEW wk, NEW t \in Tasks,
         NEW held, NEW live, ~live[ClientOf[t]],
         LocalInv(H, wk, held, live)
  PROVE  LocalInv(H \ {t}, wk, held, live)
  BY ClientOfAssumption DEF LocalInv

(* A fresh process starts with no holders and no entries. *)
LEMMA LocalReset ==
  ASSUME NEW H \in SUBSET Tasks, NEW wk, NEW c \in Clients,
         NEW held \in LocalLocks, NEW live \in Sessions,
         LocalInv(H, wk, held, live)
  PROVE  LocalInv({t \in H : ClientOf[t] # c}, wk, [held EXCEPT ![c] = {}],
                  [live EXCEPT ![c] = TRUE])
  BY ClientOfAssumption DEF LocalInv, LocalLocks, Sessions

(* A remote lock: lock[w][c] is how often client c's session holds it.     *)
(* No two sessions do, and a live one holds it once if one of its tasks    *)
(* needs it.                                                               *)
Exclusive(lock) == \A w \in Workflows, c, d \in Clients :
  c # d => lock[w][c] = 0 \/ lock[w][d] = 0

Needs(H, wk, c, w) == \E t \in H : ClientOf[t] = c /\ wk[t] = w

RemoteInv(H, wk, lock, live) ==
  /\ Exclusive(lock)
  /\ \A c \in Clients, w \in Workflows : live[c] =>
       lock[w][c] = IF Needs(H, wk, c, w) THEN 1 ELSE 0

(* As LocalKept. *)
LEMMA RemoteKept ==
  ASSUME NEW H \in SUBSET Tasks, NEW wk, NEW wk2,
         NEW lock, NEW live, NEW live2,
         RemoteInv(H, wk, lock, live),
         \A t \in H : wk2[t] = wk[t],
         \A c \in Clients : live2[c] => live[c]
  PROVE  RemoteInv(H, wk2, lock, live2)
  BY ClientOfAssumption DEF RemoteInv, Needs

(* t may take the lock when no other session has it and no other task of   *)
(* its client needs it.                                                    *)
LEMMA RemoteAcquired ==
  ASSUME NEW H \in SUBSET Tasks, NEW wk \in [Tasks -> Workflows], NEW t \in Tasks,
         NEW lock \in LockTable, NEW live,
         RemoteInv(H, wk, lock, live),
         Available(lock, wk[t], ClientOf[t]), live[ClientOf[t]],
         ~Needs(H, wk, ClientOf[t], wk[t])
  PROVE  RemoteInv(H \cup {t}, wk, Locked(lock, wk[t], ClientOf[t]), live)
<1> USE ClientOfAssumption DEF LockTable, Locked, Available
<1>1. Exclusive(Locked(lock, wk[t], ClientOf[t]))
  BY DEF RemoteInv, Exclusive
<1>2. ASSUME NEW c \in Clients, NEW w \in Workflows, live[c]
      PROVE  Locked(lock, wk[t], ClientOf[t])[w][c]
               = IF Needs(H \cup {t}, wk, c, w) THEN 1 ELSE 0
  <2>1. CASE c = ClientOf[t] /\ w = wk[t]
    BY <1>2, <2>1 DEF RemoteInv, Needs
  <2>2. CASE ~(c = ClientOf[t] /\ w = wk[t])
    <3>1. Needs(H \cup {t}, wk, c, w) <=> Needs(H, wk, c, w)
      BY <2>2 DEF Needs
    <3>2. Locked(lock, wk[t], ClientOf[t])[w][c] = lock[w][c]
      BY <2>2
    <3> QED
      BY <1>2, <3>1, <3>2 DEF RemoteInv
  <2> QED
    BY <2>1, <2>2
<1> QED
  BY <1>1, <1>2 DEF RemoteInv

(* A holder lets go; it was the only one of its client for the workflow. *)
LEMMA RemoteReleased ==
  ASSUME NEW H \in SUBSET Tasks, NEW wk \in [Tasks -> Workflows], NEW t \in H,
         NEW lock \in LockTable, NEW live,
         RemoteInv(H, wk, lock, live),
         \A u \in H : u # t /\ ClientOf[u] = ClientOf[t] => wk[u] # wk[t]
  PROVE  RemoteInv(H \ {t}, wk, Unlocked(lock, wk[t], ClientOf[t]), live)
<1> USE ClientOfAssumption DEF LockTable, Unlocked
<1>1. Exclusive(Unlocked(lock, wk[t], ClientOf[t]))
  BY DEF RemoteInv, Exclusive
<1>2. ASSUME NEW c \in Clients, NEW w \in Workflows, live[c]
      PROVE  Unlocked(lock, wk[t], ClientOf[t])[w][c]
               = IF Needs(H \ {t}, wk, c, w) THEN 1 ELSE 0
  <2>1. CASE c = ClientOf[t] /\ w = wk[t]
    BY <1>2, <2>1 DEF RemoteInv, Needs
  <2>2. CASE ~(c = ClientOf[t] /\ w = wk[t])
    <3>1. Needs(H \ {t}, wk, c, w) <=> Needs(H, wk, c, w)
      BY <2>2 DEF Needs
    <3>2. Unlocked(lock, wk[t], ClientOf[t])[w][c] = lock[w][c]
      BY <2>2
    <3> QED
      BY <1>2, <3>1, <3>2 DEF RemoteInv
  <2> QED
    BY <2>1, <2>2
<1> QED
  BY <1>1, <1>2 DEF RemoteInv

(* As LocalDropped. *)
LEMMA RemoteDropped ==
  ASSUME NEW H \in SUBSET Tasks, NEW wk, NEW t \in Tasks,
         NEW lock, NEW live, ~live[ClientOf[t]],
         RemoteInv(H, wk, lock, live)
  PROVE  RemoteInv(H \ {t}, wk, lock, live)
  BY ClientOfAssumption DEF RemoteInv, Needs

(* The server frees the locks of a session that ends; nothing is promised  *)
(* to its client.                                                          *)
LEMMA RemoteLost ==
  ASSUME NEW H \in SUBSET Tasks, NEW wk, NEW c \in Clients,
         NEW lock \in LockTable, NEW live \in Sessions,
         RemoteInv(H, wk, lock, live)
  PROVE  RemoteInv(H, wk, Forgotten(lock, c), [live EXCEPT ![c] = FALSE])
  BY ClientOfAssumption DEF RemoteInv, Needs, Exclusive, Forgotten, LockTable, Sessions

(* A fresh process has a fresh session, without locks. *)
LEMMA RemoteReset ==
  ASSUME NEW H \in SUBSET Tasks, NEW wk, NEW c \in Clients,
         NEW lock \in LockTable, NEW live \in Sessions,
         RemoteInv(H, wk, lock, live)
  PROVE  RemoteInv({t \in H : ClientOf[t] # c}, wk, Forgotten(lock, c),
                   [live EXCEPT ![c] = TRUE])
<1> DEFINE lock2 == Forgotten(lock, c)
           H2 == {t \in H : ClientOf[t] # c}
<1> USE ClientOfAssumption DEF Forgotten, LockTable, Sessions
<1>1. Exclusive(lock2)
  BY DEF RemoteInv, Exclusive
<1>2. ASSUME NEW d \in Clients, NEW w \in Workflows, [live EXCEPT ![c] = TRUE][d]
      PROVE  lock2[w][d] = IF Needs(H2, wk, d, w) THEN 1 ELSE 0
  <2>1. CASE d = c
    BY <2>1 DEF Needs
  <2>2. CASE d # c
    <3>1. Needs(H2, wk, d, w) <=> Needs(H, wk, d, w)
      BY <2>2 DEF Needs
    <3> QED
      BY <1>2, <2>2, <3>1 DEF RemoteInv
  <2> QED
    BY <2>1, <2>2
<1> QED
  BY <1>1, <1>2 DEF RemoteInv

(* The two remote locks and their holders. *)
RemoteStallHolders == {t \in Tasks : HoldsRemoteStall(t)}
RemoteRenderHolders == {t \in Tasks : HoldsRemoteRender(t)}
RemoteStallInv  == RemoteInv(RemoteStallHolders, work, stall, session)
RemoteRenderInv == RemoteInv(RemoteRenderHolders, work, render, session)

(* Which transitions a task can be in the middle of, at each place. *)
Coherent == \A t \in Tasks :
  /\ pc[t] \in {"local_stall", "pg_lock", "pg_wait"} => trans[t] \in {"A", "B", "F"}
  /\ pc[t] \in {"local_render", "remote_render", "rendering"} => trans[t] = "A"
  /\ pc[t] \in {"free_remote_render", "free_local_render", "requeueing"} =>
       trans[t] \in {"B", "F"}
  /\ pc[t] \in {"free_remote_stall", "free_local_stall"} => trans[t] \in {"A", "R", "C"}

(* No step breaks Coherent. *)
LEMMA CoherentStep ==
  ASSUME TypeOK, Coherent, [Next]_vars PROVE Coherent'
<1> USE ClientOfAssumption DEF TypeOK, Coherent, local, server, faulty
<1>1. ASSUME NEW t \in Tasks, Step(t) PROVE Coherent'
  <2> USE DEF Goto
  <2>1. CASE AcquireLocalStall(t)
    BY <2>1 DEF AcquireLocalStall
  <2>2. CASE BeginRemoteStall(t)
    BY <2>2 DEF BeginRemoteStall
  <2>3. CASE AcquireRemoteStall(t)
    BY <2>3 DEF AcquireRemoteStall
  <2>4. CASE AcquireLocalRender(t)
    BY <2>4 DEF AcquireLocalRender
  <2>5. CASE RefuseLocally(t)
    BY <2>5 DEF RefuseLocally
  <2>6. CASE AcquireRemoteRender(t)
    BY <2>6 DEF AcquireRemoteRender
  <2>7. CASE RefuseRemotely(t)
    BY <2>7 DEF RefuseRemotely
  <2>8. CASE ReleaseRemoteStall(t)
    BY <2>8 DEF ReleaseRemoteStall
  <2>9. CASE ReleaseLocalStall(t)
    BY <2>9 DEF ReleaseLocalStall
  <2>10. CASE StallOthers(t)
    BY <2>10 DEF StallOthers
  <2>11. CASE ReleaseRemoteRender(t)
    BY <2>11 DEF ReleaseRemoteRender
  <2>12. CASE ReleaseLocalRender(t)
    BY <2>12 DEF ReleaseLocalRender
  <2>13. CASE Leave(t)
    BY <2>13 DEF Leave
  <2>14. CASE FailAndExit(t)
    BY <2>14 DEF FailAndExit, Restart
  <2>15. CASE FailAndStallAgain(t)
    BY <2>15 DEF FailAndStallAgain, StatementFails
  <2> QED
    BY <1>1, <2>1, <2>2, <2>3, <2>4, <2>5, <2>6, <2>7, <2>8,
       <2>9, <2>10, <2>11, <2>12, <2>13, <2>14, <2>15
       DEF Step
<1>2. ASSUME NEW t \in Tasks, NEW w \in Workflows, Call(t, w) PROVE Coherent'
  BY <1>2 DEF Call, Goto
<1>3. ASSUME NEW c \in Clients, Kill(c) PROVE Coherent'
  BY <1>3 DEF Kill, Restart
<1>4. ASSUME NEW c \in Clients, LoseSession(c) PROVE Coherent'
  BY <1>4 DEF LoseSession
<1>5. CASE UNCHANGED vars
  BY <1>5 DEF vars
<1> QED
  BY <1>1, <1>2, <1>3, <1>4, <1>5 DEF Next

(* The local stall locks are taken before the local check of anybody else, *)
(* and given back by their holders alone.                                  *)
LEMMA LocalStallStep ==
  ASSUME TypeOK, Coherent, LocalStallInv, LocalStallInv, [Next]_vars PROVE LocalStallInv'
<1> USE ClientOfAssumption DEF TypeOK, local, server, faulty
<1>a. LocalStallHolders \in SUBSET Tasks
  BY DEF LocalStallHolders
<1>b. ASSUME LocalStallHolders' = LocalStallHolders, localStalls' = localStalls,
            UNCHANGED <<work, session>>
      PROVE LocalStallInv'
  BY <1>a, <1>b, LocalKept DEF LocalStallInv
<1>c. ASSUME NEW c \in Clients, Restart(c) PROVE LocalStallInv'
  <2>1. LocalStallHolders' = {t \in LocalStallHolders : ClientOf[t] # c}
    BY <1>c DEF Restart, LocalStallHolders, HoldsLocalStall
  <2> QED
    BY <1>a, <1>c, <2>1, LocalReset
       DEF LocalStallInv, Restart, EndSession, LocalLocks, Sessions
<1>1. ASSUME NEW t \in Tasks, Step(t) PROVE LocalStallInv'
  <2>1. CASE AcquireLocalStall(t)
    <3>1. LocalStallHolders' = LocalStallHolders \cup {t}
      BY <2>1 DEF AcquireLocalStall, Goto, LocalStallHolders, HoldsLocalStall, Coherent
    <3>2. LocalInv(LocalStallHolders \cup {t}, work,
                   [localStalls EXCEPT ![ClientOf[t]] = @ \cup {work[t]}], session)
      BY <1>a, <2>1, <3>1, LocalAcquired
         DEF LocalStallInv, AcquireLocalStall, Goto, LocalLocks
    <3> QED
      BY <2>1, <3>1, <3>2 DEF LocalStallInv, AcquireLocalStall
  <2>2. CASE BeginRemoteStall(t)
    BY <1>b, <2>2
       DEF BeginRemoteStall, Goto, LocalStallHolders, HoldsLocalStall, Coherent
  <2>3. CASE AcquireRemoteStall(t)
    BY <1>b, <2>3
       DEF AcquireRemoteStall, Goto, LocalStallHolders, HoldsLocalStall, Coherent
  <2>4. CASE AcquireLocalRender(t)
    BY <1>b, <2>4
       DEF AcquireLocalRender, Goto, LocalStallHolders, HoldsLocalStall, Coherent
  <2>5. CASE RefuseLocally(t)
    BY <1>b, <2>5 DEF RefuseLocally, Goto, LocalStallHolders, HoldsLocalStall, Coherent
  <2>6. CASE AcquireRemoteRender(t)
    BY <1>b, <2>6
       DEF AcquireRemoteRender, Goto, LocalStallHolders, HoldsLocalStall, Coherent
  <2>7. CASE RefuseRemotely(t)
    BY <1>b, <2>7 DEF RefuseRemotely, Goto, LocalStallHolders, HoldsLocalStall, Coherent
  <2>8. CASE ReleaseRemoteStall(t)
    BY <1>b, <2>8
       DEF ReleaseRemoteStall, Goto, LocalStallHolders, HoldsLocalStall, Coherent
  <2>9. CASE ReleaseLocalStall(t)
    <3>1. LocalStallHolders' = LocalStallHolders \ {t} /\ t \in LocalStallHolders
      BY <2>9 DEF ReleaseLocalStall, Goto, LocalStallHolders, HoldsLocalStall, Coherent
    <3>2. LocalInv(LocalStallHolders \ {t}, work,
                   [localStalls EXCEPT ![ClientOf[t]] = @ \ {work[t]}], session)
      BY <1>a, <2>9, <3>1, LocalReleased
         DEF LocalStallInv, ReleaseLocalStall, Goto, LocalLocks
    <3> QED
      BY <2>9, <3>1, <3>2 DEF LocalStallInv, ReleaseLocalStall
  <2>10. CASE StallOthers(t)
    BY <1>b, <2>10 DEF StallOthers, Goto, LocalStallHolders, HoldsLocalStall, Coherent
  <2>11. CASE ReleaseRemoteRender(t)
    BY <1>b, <2>11
       DEF ReleaseRemoteRender, Goto, LocalStallHolders, HoldsLocalStall, Coherent
  <2>12. CASE ReleaseLocalRender(t)
    BY <1>b, <2>12
       DEF ReleaseLocalRender, Goto, LocalStallHolders, HoldsLocalStall, Coherent
  <2>13. CASE Leave(t)
    BY <1>b, <2>13 DEF Leave, Goto, LocalStallHolders, HoldsLocalStall, Coherent
  <2>14. CASE FailAndExit(t)
    BY <1>c, <2>14 DEF FailAndExit
  <2>15. CASE FailAndStallAgain(t)
    <3>1. LocalStallHolders' = LocalStallHolders \ {t}
      BY <2>15
         DEF FailAndStallAgain, StatementFails, LocalStallHolders, HoldsLocalStall,
             Coherent
    <3>2. LocalInv(LocalStallHolders \ {t}, work, localStalls, session)
      BY <1>a, <2>15, LocalDropped DEF LocalStallInv, FailAndStallAgain, StatementFails
    <3> QED
      BY <2>15, <3>1, <3>2 DEF LocalStallInv, FailAndStallAgain
  <2> QED
    BY <1>1, <2>1, <2>2, <2>3, <2>4, <2>5, <2>6, <2>7, <2>8,
       <2>9, <2>10, <2>11, <2>12, <2>13, <2>14, <2>15
       DEF Step
<1>2. ASSUME NEW t \in Tasks, NEW w \in Workflows, Call(t, w) PROVE LocalStallInv'
  <2>1. LocalStallHolders' = LocalStallHolders /\ t \notin LocalStallHolders
    BY <1>2 DEF Call, Goto, LocalStallHolders, HoldsLocalStall
  <2> QED
    BY <1>a, <1>2, <2>1, LocalKept DEF LocalStallInv, Call
<1>3. ASSUME NEW c \in Clients, Kill(c) PROVE LocalStallInv'
  BY <1>3, <1>c DEF Kill
<1>4. ASSUME NEW c \in Clients, LoseSession(c) PROVE LocalStallInv'
  <2>1. LocalStallHolders' = LocalStallHolders
    BY <1>4 DEF LoseSession, LocalStallHolders, HoldsLocalStall
  <2> QED
    BY <1>a, <1>4, <2>1, LocalKept DEF LocalStallInv, LoseSession, EndSession
<1>5. CASE UNCHANGED vars
  BY <1>5, <1>b DEF vars, LocalStallHolders, HoldsLocalStall
<1> QED
  BY <1>1, <1>2, <1>3, <1>4, <1>5 DEF Next

(* So are the local render locks: a refused call gives back the one it     *)
(* took, and no other.                                                     *)
LEMMA LocalRenderStep ==
  ASSUME TypeOK, Coherent, LocalStallInv, LocalRenderInv, [Next]_vars PROVE LocalRenderInv'
<1> USE ClientOfAssumption DEF TypeOK, local, server, faulty
<1>a. LocalRenderHolders \in SUBSET Tasks
  BY DEF LocalRenderHolders
<1>b. ASSUME LocalRenderHolders' = LocalRenderHolders, localRenders' = localRenders,
            UNCHANGED <<work, session>>
      PROVE LocalRenderInv'
  BY <1>a, <1>b, LocalKept DEF LocalRenderInv
<1>c. ASSUME NEW c \in Clients, Restart(c) PROVE LocalRenderInv'
  <2>1. LocalRenderHolders' = {t \in LocalRenderHolders : ClientOf[t] # c}
    BY <1>c DEF Restart, LocalRenderHolders, HoldsLocalRender, Rendering
  <2> QED
    BY <1>a, <1>c, <2>1, LocalReset
       DEF LocalRenderInv, Restart, EndSession, LocalLocks, Sessions
<1>1. ASSUME NEW t \in Tasks, Step(t) PROVE LocalRenderInv'
  <2>1. CASE AcquireLocalStall(t)
    BY <1>b, <2>1
       DEF AcquireLocalStall, Goto, LocalRenderHolders, HoldsLocalRender, Rendering,
           Coherent
  <2>2. CASE BeginRemoteStall(t)
    BY <1>b, <2>2
       DEF BeginRemoteStall, Goto, LocalRenderHolders, HoldsLocalRender, Rendering,
           Coherent
  <2>3. CASE AcquireRemoteStall(t)
    BY <1>b, <2>3
       DEF AcquireRemoteStall, Goto, LocalRenderHolders, HoldsLocalRender, Rendering,
           Coherent
  <2>4. CASE AcquireLocalRender(t)
    <3>1. LocalRenderHolders' = LocalRenderHolders \cup {t}
      BY <2>4
         DEF AcquireLocalRender, Goto, LocalRenderHolders, HoldsLocalRender, Rendering,
             Coherent
    <3>2. LocalInv(LocalRenderHolders \cup {t}, work,
                   [localRenders EXCEPT ![ClientOf[t]] = @ \cup {work[t]}], session)
      BY <1>a, <2>4, <3>1, LocalAcquired
         DEF LocalRenderInv, AcquireLocalRender, Goto, LocalLocks
    <3> QED
      BY <2>4, <3>1, <3>2 DEF LocalRenderInv, AcquireLocalRender
  <2>5. CASE RefuseLocally(t)
    BY <1>b, <2>5
       DEF RefuseLocally, Goto, LocalRenderHolders, HoldsLocalRender, Rendering,
           Coherent
  <2>6. CASE AcquireRemoteRender(t)
    BY <1>b, <2>6
       DEF AcquireRemoteRender, Goto, LocalRenderHolders, HoldsLocalRender, Rendering,
           Coherent
  <2>7. CASE RefuseRemotely(t)
    <3>1. LocalRenderHolders' = LocalRenderHolders \ {t} /\ t \in LocalRenderHolders
      BY <2>7
         DEF RefuseRemotely, Goto, LocalRenderHolders, HoldsLocalRender, Rendering,
             Coherent
    <3>2. LocalInv(LocalRenderHolders \ {t}, work,
                   [localRenders EXCEPT ![ClientOf[t]] = @ \ {work[t]}], session)
      BY <1>a, <2>7, <3>1, LocalReleased
         DEF LocalRenderInv, RefuseRemotely, Goto, LocalLocks
    <3> QED
      BY <2>7, <3>1, <3>2 DEF LocalRenderInv, RefuseRemotely
  <2>8. CASE ReleaseRemoteStall(t)
    BY <1>b, <2>8
       DEF ReleaseRemoteStall, Goto, LocalRenderHolders, HoldsLocalRender, Rendering,
           Coherent
  <2>9. CASE ReleaseLocalStall(t)
    BY <1>b, <2>9
       DEF ReleaseLocalStall, Goto, LocalRenderHolders, HoldsLocalRender, Rendering,
           Coherent
  <2>10. CASE StallOthers(t)
    BY <1>b, <2>10
       DEF StallOthers, Goto, LocalRenderHolders, HoldsLocalRender, Rendering, Coherent
  <2>11. CASE ReleaseRemoteRender(t)
    BY <1>b, <2>11
       DEF ReleaseRemoteRender, Goto, LocalRenderHolders, HoldsLocalRender, Rendering,
           Coherent
  <2>12. CASE ReleaseLocalRender(t)
    <3>1. LocalRenderHolders' = LocalRenderHolders \ {t} /\ t \in LocalRenderHolders
      BY <2>12
         DEF ReleaseLocalRender, Goto, LocalRenderHolders, HoldsLocalRender, Rendering,
             Coherent
    <3>2. LocalInv(LocalRenderHolders \ {t}, work,
                   [localRenders EXCEPT ![ClientOf[t]] = @ \ {work[t]}], session)
      BY <1>a, <2>12, <3>1, LocalReleased
         DEF LocalRenderInv, ReleaseLocalRender, Goto, LocalLocks
    <3> QED
      BY <2>12, <3>1, <3>2 DEF LocalRenderInv, ReleaseLocalRender
  <2>13. CASE Leave(t)
    BY <1>b, <2>13
       DEF Leave, Goto, LocalRenderHolders, HoldsLocalRender, Rendering, Coherent
  <2>14. CASE FailAndExit(t)
    BY <1>c, <2>14 DEF FailAndExit
  <2>15. CASE FailAndStallAgain(t)
    BY <1>b, <2>15, ZenonT(60)
       DEF FailAndStallAgain, StatementFails, LocalRenderHolders, HoldsLocalRender,
           Rendering, Coherent
  <2> QED
    BY <1>1, <2>1, <2>2, <2>3, <2>4, <2>5, <2>6, <2>7, <2>8,
       <2>9, <2>10, <2>11, <2>12, <2>13, <2>14, <2>15
       DEF Step
<1>2. ASSUME NEW t \in Tasks, NEW w \in Workflows, Call(t, w) PROVE LocalRenderInv'
  <2>1. LocalRenderHolders' = LocalRenderHolders /\ t \notin LocalRenderHolders
    BY <1>2 DEF Call, Goto, LocalRenderHolders, HoldsLocalRender, Rendering
  <2> QED
    BY <1>a, <1>2, <2>1, LocalKept, ZenonT(60) DEF LocalRenderInv, Call
<1>3. ASSUME NEW c \in Clients, Kill(c) PROVE LocalRenderInv'
  BY <1>3, <1>c DEF Kill
<1>4. ASSUME NEW c \in Clients, LoseSession(c) PROVE LocalRenderInv'
  <2>1. LocalRenderHolders' = LocalRenderHolders
    BY <1>4 DEF LoseSession, LocalRenderHolders, HoldsLocalRender, Rendering
  <2> QED
    BY <1>a, <1>4, <2>1, LocalKept DEF LocalRenderInv, LoseSession, EndSession
<1>5. CASE UNCHANGED vars
  BY <1>5, <1>b DEF vars, LocalRenderHolders, HoldsLocalRender, Rendering
<1> QED
  BY <1>1, <1>2, <1>3, <1>4, <1>5 DEF Next

(* A session never stacks two stall locks on one workflow, because its     *)
(* client has at most one holder of the local lock.                        *)
LEMMA RemoteStallStep ==
  ASSUME TypeOK, Coherent, LocalStallInv, RemoteStallInv, [Next]_vars PROVE RemoteStallInv'
<1> USE ClientOfAssumption DEF TypeOK, local, server, faulty
<1>a. RemoteStallHolders \in SUBSET Tasks
  BY DEF RemoteStallHolders
<1>b. ASSUME RemoteStallHolders' = RemoteStallHolders, stall' = stall,
            UNCHANGED <<work, session>>
      PROVE RemoteStallInv'
  BY <1>a, <1>b, RemoteKept DEF RemoteStallInv
<1>c. ASSUME NEW c \in Clients, Restart(c) PROVE RemoteStallInv'
  <2>1. RemoteStallHolders' = {t \in RemoteStallHolders : ClientOf[t] # c}
    BY <1>c DEF Restart, RemoteStallHolders, HoldsRemoteStall
  <2> QED
    BY <1>a, <1>c, <2>1, RemoteReset
       DEF RemoteStallInv, Restart, EndSession, LockTable, Sessions
<1>1. ASSUME NEW t \in Tasks, Step(t) PROVE RemoteStallInv'
  <2>1. CASE AcquireLocalStall(t)
    BY <1>b, <2>1
       DEF AcquireLocalStall, Goto, RemoteStallHolders, HoldsRemoteStall, Coherent
  <2>2. CASE BeginRemoteStall(t)
    BY <1>b, <2>2
       DEF BeginRemoteStall, Goto, RemoteStallHolders, HoldsRemoteStall, Coherent
  <2>3. CASE AcquireRemoteStall(t)
    <3>1. RemoteStallHolders' = RemoteStallHolders \cup {t}
      BY <2>3
         DEF AcquireRemoteStall, Goto, RemoteStallHolders, HoldsRemoteStall, Coherent
    <3>2. ~Needs(RemoteStallHolders, work, ClientOf[t], work[t])
      BY <2>3
         DEF AcquireRemoteStall, Goto, Needs, RemoteStallHolders, HoldsRemoteStall,
             Coherent, LocalStallInv, LocalInv, LocalStallHolders, HoldsLocalStall
    <3>3. RemoteInv(RemoteStallHolders \cup {t}, work, Locked(stall, work[t], ClientOf[t]),
                   session)
      BY <1>a, <2>3, <3>2, RemoteAcquired
         DEF RemoteStallInv, AcquireRemoteStall, CanQuery, LockTable
    <3> QED
      BY <2>3, <3>1, <3>3 DEF RemoteStallInv, AcquireRemoteStall
  <2>4. CASE AcquireLocalRender(t)
    BY <1>b, <2>4
       DEF AcquireLocalRender, Goto, RemoteStallHolders, HoldsRemoteStall, Coherent
  <2>5. CASE RefuseLocally(t)
    BY <1>b, <2>5
       DEF RefuseLocally, Goto, RemoteStallHolders, HoldsRemoteStall, Coherent
  <2>6. CASE AcquireRemoteRender(t)
    BY <1>b, <2>6
       DEF AcquireRemoteRender, Goto, RemoteStallHolders, HoldsRemoteStall, Coherent
  <2>7. CASE RefuseRemotely(t)
    BY <1>b, <2>7
       DEF RefuseRemotely, Goto, RemoteStallHolders, HoldsRemoteStall, Coherent
  <2>8. CASE ReleaseRemoteStall(t)
    <3>1. RemoteStallHolders' = RemoteStallHolders \ {t} /\ t \in RemoteStallHolders
      BY <2>8
         DEF ReleaseRemoteStall, Goto, RemoteStallHolders, HoldsRemoteStall, Coherent
    <3>2. \A u \in RemoteStallHolders :
            u # t /\ ClientOf[u] = ClientOf[t] => work[u] # work[t]
      BY <2>8
         DEF ReleaseRemoteStall, Goto, RemoteStallHolders, HoldsRemoteStall, Coherent,
             LocalStallInv, LocalInv, LocalStallHolders, HoldsLocalStall
    <3>3. RemoteInv(RemoteStallHolders \ {t}, work, Unlocked(stall, work[t], ClientOf[t]),
                   session)
      BY <1>a, <3>1, <3>2, RemoteReleased DEF RemoteStallInv, LockTable
    <3> QED
      BY <2>8, <3>1, <3>3 DEF RemoteStallInv, ReleaseRemoteStall
  <2>9. CASE ReleaseLocalStall(t)
    BY <1>b, <2>9
       DEF ReleaseLocalStall, Goto, RemoteStallHolders, HoldsRemoteStall, Coherent
  <2>10. CASE StallOthers(t)
    BY <1>b, <2>10 DEF StallOthers, Goto, RemoteStallHolders, HoldsRemoteStall, Coherent
  <2>11. CASE ReleaseRemoteRender(t)
    BY <1>b, <2>11
       DEF ReleaseRemoteRender, Goto, RemoteStallHolders, HoldsRemoteStall, Coherent
  <2>12. CASE ReleaseLocalRender(t)
    BY <1>b, <2>12
       DEF ReleaseLocalRender, Goto, RemoteStallHolders, HoldsRemoteStall, Coherent
  <2>13. CASE Leave(t)
    BY <1>b, <2>13 DEF Leave, Goto, RemoteStallHolders, HoldsRemoteStall, Coherent
  <2>14. CASE FailAndExit(t)
    BY <1>c, <2>14 DEF FailAndExit
  <2>15. CASE FailAndStallAgain(t)
    <3>1. RemoteStallHolders' = RemoteStallHolders \ {t}
      BY <2>15
         DEF FailAndStallAgain, StatementFails, RemoteStallHolders, HoldsRemoteStall,
             Coherent
    <3>2. RemoteInv(RemoteStallHolders \ {t}, work, stall, session)
      BY <1>a, <2>15, RemoteDropped
         DEF RemoteStallInv, FailAndStallAgain, StatementFails
    <3> QED
      BY <2>15, <3>1, <3>2 DEF RemoteStallInv, FailAndStallAgain
  <2> QED
    BY <1>1, <2>1, <2>2, <2>3, <2>4, <2>5, <2>6, <2>7, <2>8,
       <2>9, <2>10, <2>11, <2>12, <2>13, <2>14, <2>15
       DEF Step
<1>2. ASSUME NEW t \in Tasks, NEW w \in Workflows, Call(t, w) PROVE RemoteStallInv'
  <2>1. RemoteStallHolders' = RemoteStallHolders /\ t \notin RemoteStallHolders
    BY <1>2 DEF Call, Goto, RemoteStallHolders, HoldsRemoteStall
  <2> QED
    BY <1>a, <1>2, <2>1, RemoteKept DEF RemoteStallInv, Call
<1>3. ASSUME NEW c \in Clients, Kill(c) PROVE RemoteStallInv'
  BY <1>3, <1>c DEF Kill
<1>4. ASSUME NEW c \in Clients, LoseSession(c) PROVE RemoteStallInv'
  <2>1. RemoteStallHolders' = RemoteStallHolders
    BY <1>4 DEF LoseSession, RemoteStallHolders, HoldsRemoteStall
  <2> QED
    BY <1>a, <1>4, <2>1, RemoteLost
       DEF RemoteStallInv, LoseSession, EndSession, LockTable, Sessions
<1>5. CASE UNCHANGED vars
  BY <1>5, <1>b DEF vars, RemoteStallHolders, HoldsRemoteStall
<1> QED
  BY <1>1, <1>2, <1>3, <1>4, <1>5 DEF Next

(* Nor two render locks, for the same reason. *)
LEMMA RemoteRenderStep ==
  ASSUME TypeOK, Coherent, LocalRenderInv, RemoteRenderInv, [Next]_vars
  PROVE  RemoteRenderInv'
<1> USE ClientOfAssumption DEF TypeOK, local, server, faulty
<1>a. RemoteRenderHolders \in SUBSET Tasks
  BY DEF RemoteRenderHolders
<1>b. ASSUME RemoteRenderHolders' = RemoteRenderHolders, render' = render,
            UNCHANGED <<work, session>>
      PROVE RemoteRenderInv'
  BY <1>a, <1>b, RemoteKept DEF RemoteRenderInv
<1>c. ASSUME NEW c \in Clients, Restart(c) PROVE RemoteRenderInv'
  <2>1. RemoteRenderHolders' = {t \in RemoteRenderHolders : ClientOf[t] # c}
    BY <1>c DEF Restart, RemoteRenderHolders, HoldsRemoteRender, Rendering
  <2> QED
    BY <1>a, <1>c, <2>1, RemoteReset
       DEF RemoteRenderInv, Restart, EndSession, LockTable, Sessions
<1>1. ASSUME NEW t \in Tasks, Step(t) PROVE RemoteRenderInv'
  <2>1. CASE AcquireLocalStall(t)
    BY <1>b, <2>1
       DEF AcquireLocalStall, Goto, RemoteRenderHolders, HoldsRemoteRender, Rendering,
           Coherent
  <2>2. CASE BeginRemoteStall(t)
    BY <1>b, <2>2
       DEF BeginRemoteStall, Goto, RemoteRenderHolders, HoldsRemoteRender, Rendering,
           Coherent
  <2>3. CASE AcquireRemoteStall(t)
    BY <1>b, <2>3
       DEF AcquireRemoteStall, Goto, RemoteRenderHolders, HoldsRemoteRender, Rendering,
           Coherent
  <2>4. CASE AcquireLocalRender(t)
    BY <1>b, <2>4
       DEF AcquireLocalRender, Goto, RemoteRenderHolders, HoldsRemoteRender, Rendering,
           Coherent
  <2>5. CASE RefuseLocally(t)
    BY <1>b, <2>5
       DEF RefuseLocally, Goto, RemoteRenderHolders, HoldsRemoteRender, Rendering,
           Coherent
  <2>6. CASE AcquireRemoteRender(t)
    <3>1. RemoteRenderHolders' = RemoteRenderHolders \cup {t}
      BY <2>6
         DEF AcquireRemoteRender, Goto, RemoteRenderHolders, HoldsRemoteRender,
             Rendering, Coherent
    <3>2. ~Needs(RemoteRenderHolders, work, ClientOf[t], work[t])
      BY <2>6
         DEF AcquireRemoteRender, Goto, Needs, RemoteRenderHolders, HoldsRemoteRender,
             Rendering, Coherent, LocalRenderInv, LocalInv, LocalRenderHolders,
             HoldsLocalRender, Rendering
    <3>3. RemoteInv(RemoteRenderHolders \cup {t}, work, Locked(render, work[t], ClientOf[t]),
                   session)
      BY <1>a, <2>6, <3>2, RemoteAcquired
         DEF RemoteRenderInv, AcquireRemoteRender, CanQuery, LockTable
    <3> QED
      BY <2>6, <3>1, <3>3 DEF RemoteRenderInv, AcquireRemoteRender
  <2>7. CASE RefuseRemotely(t)
    BY <1>b, <2>7
       DEF RefuseRemotely, Goto, RemoteRenderHolders, HoldsRemoteRender, Rendering,
           Coherent
  <2>8. CASE ReleaseRemoteStall(t)
    BY <1>b, <2>8
       DEF ReleaseRemoteStall, Goto, RemoteRenderHolders, HoldsRemoteRender, Rendering,
           Coherent
  <2>9. CASE ReleaseLocalStall(t)
    BY <1>b, <2>9
       DEF ReleaseLocalStall, Goto, RemoteRenderHolders, HoldsRemoteRender, Rendering,
           Coherent
  <2>10. CASE StallOthers(t)
    BY <1>b, <2>10
       DEF StallOthers, Goto, RemoteRenderHolders, HoldsRemoteRender, Rendering,
           Coherent
  <2>11. CASE ReleaseRemoteRender(t)
    <3>1. RemoteRenderHolders' = RemoteRenderHolders \ {t} /\ t \in RemoteRenderHolders
      BY <2>11
         DEF ReleaseRemoteRender, Goto, RemoteRenderHolders, HoldsRemoteRender,
             Rendering, Coherent
    <3>2. \A u \in RemoteRenderHolders :
            u # t /\ ClientOf[u] = ClientOf[t] => work[u] # work[t]
      BY <2>11
         DEF ReleaseRemoteRender, Goto, RemoteRenderHolders, HoldsRemoteRender,
             Rendering, Coherent, LocalRenderInv, LocalInv, LocalRenderHolders,
             HoldsLocalRender, Rendering
    <3>3. RemoteInv(RemoteRenderHolders \ {t}, work, Unlocked(render, work[t], ClientOf[t]),
                   session)
      BY <1>a, <3>1, <3>2, RemoteReleased DEF RemoteRenderInv, LockTable
    <3> QED
      BY <2>11, <3>1, <3>3 DEF RemoteRenderInv, ReleaseRemoteRender
  <2>12. CASE ReleaseLocalRender(t)
    BY <1>b, <2>12
       DEF ReleaseLocalRender, Goto, RemoteRenderHolders, HoldsRemoteRender, Rendering,
           Coherent
  <2>13. CASE Leave(t)
    BY <1>b, <2>13
       DEF Leave, Goto, RemoteRenderHolders, HoldsRemoteRender, Rendering, Coherent
  <2>14. CASE FailAndExit(t)
    BY <1>c, <2>14 DEF FailAndExit
  <2>15. CASE FailAndStallAgain(t)
    BY <1>b, <2>15, ZenonT(60)
       DEF FailAndStallAgain, StatementFails, RemoteRenderHolders, HoldsRemoteRender,
           Rendering, Coherent
  <2> QED
    BY <1>1, <2>1, <2>2, <2>3, <2>4, <2>5, <2>6, <2>7, <2>8,
       <2>9, <2>10, <2>11, <2>12, <2>13, <2>14, <2>15
       DEF Step
<1>2. ASSUME NEW t \in Tasks, NEW w \in Workflows, Call(t, w) PROVE RemoteRenderInv'
  <2>1. RemoteRenderHolders' = RemoteRenderHolders /\ t \notin RemoteRenderHolders
    BY <1>2 DEF Call, Goto, RemoteRenderHolders, HoldsRemoteRender, Rendering
  <2> QED
    BY <1>a, <1>2, <2>1, RemoteKept DEF RemoteRenderInv, Call
<1>3. ASSUME NEW c \in Clients, Kill(c) PROVE RemoteRenderInv'
  BY <1>3, <1>c DEF Kill
<1>4. ASSUME NEW c \in Clients, LoseSession(c) PROVE RemoteRenderInv'
  <2>1. RemoteRenderHolders' = RemoteRenderHolders
    BY <1>4 DEF LoseSession, RemoteRenderHolders, HoldsRemoteRender, Rendering
  <2> QED
    BY <1>a, <1>4, <2>1, RemoteLost
       DEF RemoteRenderInv, LoseSession, EndSession, LockTable, Sessions
<1>5. CASE UNCHANGED vars
  BY <1>5, <1>b DEF vars, RemoteRenderHolders, HoldsRemoteRender, Rendering
<1> QED
  BY <1>1, <1>2, <1>3, <1>4, <1>5 DEF Next

-----------------------------------------------------------------------------
(* The inductive invariant. *)
LockInvariant ==
  /\ TypeOK /\ Coherent
  /\ LocalStallInv /\ LocalRenderInv
  /\ RemoteStallInv /\ RemoteRenderInv

(* The invariant holds in every reachable state of every instance. *)
THEOREM Invariance == Spec => []LockInvariant
<1>1. Init => LockInvariant
  <2> SUFFICES ASSUME Init PROVE LockInvariant
    OBVIOUS
  <2> USE ClientOfAssumption
  <2>1. TypeOK /\ Coherent
    BY InitTypeOK DEF Init, Coherent
  <2>2. LocalStallInv
    BY DEF Init, LocalStallInv, LocalInv, LocalStallHolders, HoldsLocalStall
  <2>3. LocalRenderInv
    BY
       DEF Init, LocalRenderInv, LocalInv, LocalRenderHolders, HoldsLocalRender,
           Rendering
  <2>4. RemoteStallInv
    BY
       DEF Init, RemoteStallInv, RemoteInv, Exclusive, Needs, RemoteStallHolders,
           HoldsRemoteStall
  <2>5. RemoteRenderInv
    BY DEF Init, RemoteRenderInv, RemoteInv, Exclusive, Needs, RemoteRenderHolders,
           HoldsRemoteRender, Rendering
  <2> QED
    BY <2>1, <2>2, <2>3, <2>4, <2>5 DEF LockInvariant
<1>2. LockInvariant /\ [Next]_vars => LockInvariant'
  BY TypeOKStep, CoherentStep, LocalStallStep, LocalRenderStep, RemoteStallStep,
     RemoteRenderStep DEF LockInvariant
<1> QED
  BY <1>1, <1>2, PTL DEF Spec

(* render_lock() never lets two calls render one workflow, on one client   *)
(* or on two, as long as their sessions live.                              *)
THEOREM MutualExclusion == Spec => []OneRenderPerWorkflow
<1>1. LockInvariant => OneRenderPerWorkflow
  <2> SUFFICES ASSUME LockInvariant,
                      NEW t \in Tasks, NEW u \in Tasks, t # u, work[t] = work[u],
                      Rendering(t), Rendering(u),
                      session[ClientOf[t]], session[ClientOf[u]]
               PROVE  FALSE
    BY DEF OneRenderPerWorkflow, Rivals
  <2> USE ClientOfAssumption
  <2>1. CASE ClientOf[t] = ClientOf[u]
    BY <2>1
       DEF LockInvariant, LocalRenderInv, LocalInv, LocalRenderHolders,
           HoldsLocalRender
  <2>2. CASE ClientOf[t] # ClientOf[u]
    <3>1. render[work[t]][ClientOf[t]] = 1 /\ render[work[t]][ClientOf[u]] = 1
      BY DEF LockInvariant, TypeOK, RemoteRenderInv, RemoteInv, Needs,
             RemoteRenderHolders, HoldsRemoteRender
    <3> QED
      BY <2>2, <3>1 DEF LockInvariant, TypeOK, RemoteRenderInv, RemoteInv, Exclusive
  <2> QED
    BY <2>1, <2>2
<1> QED
  BY <1>1, Invariance, PTL

(* The inductive invariant is enough for StallKeepsOthersOut. *)
LEMMA StallIsExclusive == LockInvariant => StallKeepsOthersOut
<1> SUFFICES ASSUME LockInvariant,
                    NEW t \in Tasks, NEW u \in Tasks, t # u, work[t] = work[u],
                    HoldsRemoteStall(t), HoldsRemoteStall(u),
                    session[ClientOf[t]], session[ClientOf[u]]
             PROVE  FALSE
  BY DEF StallKeepsOthersOut, Rivals
<1> USE ClientOfAssumption
<1>1. CASE ClientOf[t] = ClientOf[u]
  <2>1. HoldsLocalStall(t) /\ HoldsLocalStall(u)
    BY DEF HoldsRemoteStall, HoldsLocalStall
  <2> QED
    BY <1>1, <2>1 DEF LockInvariant, LocalStallInv, LocalInv, LocalStallHolders
<1>2. CASE ClientOf[t] # ClientOf[u]
  <2>1. stall[work[t]][ClientOf[t]] = 1 /\ stall[work[t]][ClientOf[u]] = 1
    BY DEF LockInvariant, TypeOK, RemoteStallInv, RemoteInv, Needs, RemoteStallHolders
  <2> QED
    BY <1>2, <2>1 DEF LockInvariant, TypeOK, RemoteStallInv, RemoteInv, Exclusive
<1> QED
  BY <1>1, <1>2

(* From the moment a call has the stall lock until it gives it back, no    *)
(* other call of the workflow runs code that the lock guards.              *)
THEOREM StallExclusion == Spec => []StallKeepsOthersOut
  BY StallIsExclusive, Invariance, PTL

(* A set without two elements has one or none. *)
LEMMA OneOrNone ==
  ASSUME NEW S, \A x, y \in S : x = y
  PROVE  Cardinality(S) = IF S = {} THEN 0 ELSE 1
<1>1. CASE S = {}
  BY <1>1, FS_EmptySet
<1>2. CASE S # {}
  <2> PICK x \in S : S = {x}
    BY <1>2
  <2> QED
    BY <1>2, FS_Singleton
<1> QED
  BY <1>1, <1>2

(* Every client with a session holds exactly the local and remote locks    *)
(* its calls need: none leaks, none is given back early, none is held      *)
(* twice.                                                                  *)
THEOREM LocksMatch == Spec => []LocksMatchTasks
<1>1. LockInvariant => LocksMatchTasks
  <2> SUFFICES ASSUME LockInvariant,
                      NEW c \in Clients, NEW w \in Workflows, session[c]
               PROVE  /\ w \in localStalls[c] <=> TasksOf(c, w, HoldsLocalStall) # {}
                      /\ w \in localRenders[c] <=> TasksOf(c, w, HoldsLocalRender) # {}
                      /\ stall[w][c] = Cardinality(TasksOf(c, w, HoldsRemoteStall))
                      /\ render[w][c] = Cardinality(TasksOf(c, w, HoldsRemoteRender))
    BY DEF LocksMatchTasks
  <2> USE ClientOfAssumption DEF LockInvariant, TasksOf
  <2>1. w \in localStalls[c] <=> TasksOf(c, w, HoldsLocalStall) # {}
    BY DEF LocalStallInv, LocalInv, LocalStallHolders
  <2>2. w \in localRenders[c] <=> TasksOf(c, w, HoldsLocalRender) # {}
    BY DEF LocalRenderInv, LocalInv, LocalRenderHolders
  <2>3. stall[w][c] = Cardinality(TasksOf(c, w, HoldsRemoteStall))
    <3>1. \A t, u \in TasksOf(c, w, HoldsRemoteStall) : t = u
      BY
         DEF LocalStallInv, LocalInv, LocalStallHolders, HoldsLocalStall,
             HoldsRemoteStall
    <3>2. TasksOf(c, w, HoldsRemoteStall) # {} <=> Needs(RemoteStallHolders, work, c, w)
      BY DEF Needs, RemoteStallHolders
    <3> QED
      BY <3>1, <3>2, OneOrNone DEF RemoteStallInv, RemoteInv
  <2>4. render[w][c] = Cardinality(TasksOf(c, w, HoldsRemoteRender))
    <3>1. \A t, u \in TasksOf(c, w, HoldsRemoteRender) : t = u
      BY
         DEF LocalRenderInv, LocalInv, LocalRenderHolders, HoldsLocalRender,
             HoldsRemoteRender
    <3>2. TasksOf(c, w, HoldsRemoteRender) # {} <=> Needs(RemoteRenderHolders, work, c, w)
      BY DEF Needs, RemoteRenderHolders
    <3> QED
      BY <3>1, <3>2, OneOrNone DEF RemoteRenderInv, RemoteInv
  <2> QED
    BY <2>1, <2>2, <2>3, <2>4
<1> QED
  BY <1>1, Invariance, PTL

-----------------------------------------------------------------------------
(* A session that has ended holds no lock on the server. *)
NoSessionNoLock == \A c \in Clients, w \in Workflows :
  ~session[c] => stall[w][c] = 0 /\ render[w][c] = 0

(* Locks are taken in live sessions, and go with them. *)
LEMMA NoSessionNoLockStep ==
  ASSUME TypeOK, NoSessionNoLock, [Next]_vars PROVE NoSessionNoLock'
<1> USE ClientOfAssumption DEF TypeOK, NoSessionNoLock, faulty, server
<1>1. ASSUME NEW c \in Clients, Restart(c) PROVE NoSessionNoLock'
  BY <1>1 DEF Restart, EndSession, Forgotten
<1>2. ASSUME NEW t \in Tasks, Step(t) PROVE NoSessionNoLock'
  <2>1. CASE AcquireRemoteStall(t)
    BY <2>1 DEF AcquireRemoteStall, Locked
  <2>2. CASE AcquireRemoteRender(t)
    BY <2>2 DEF AcquireRemoteRender, CanQuery, Locked
  <2>3. CASE ReleaseRemoteStall(t)
    BY <2>3 DEF ReleaseRemoteStall, Unlocked
  <2>4. CASE ReleaseRemoteRender(t)
    BY <2>4 DEF ReleaseRemoteRender, Unlocked
  <2>5. CASE FailAndExit(t)
    BY <1>1, <2>5 DEF FailAndExit
  <2>6. CASE UNCHANGED <<server, session>>
    BY <2>6
  <2> QED
    BY <1>2, <2>1, <2>2, <2>3, <2>4, <2>5, <2>6
       DEF Step, AcquireLocalStall, BeginRemoteStall, AcquireLocalRender, RefuseLocally,
           RefuseRemotely, ReleaseLocalStall, StallOthers, ReleaseLocalRender, Leave,
           FailAndStallAgain
<1>3. ASSUME NEW t \in Tasks, NEW w \in Workflows, Call(t, w) PROVE NoSessionNoLock'
  BY <1>3 DEF Call
<1>4. ASSUME NEW c \in Clients, Kill(c) PROVE NoSessionNoLock'
  BY <1>1, <1>4 DEF Kill
<1>5. ASSUME NEW c \in Clients, LoseSession(c) PROVE NoSessionNoLock'
  BY <1>5 DEF LoseSession, EndSession, Forgotten
<1>6. CASE UNCHANGED vars
  BY <1>6 DEF vars
<1> QED
  BY <1>2, <1>3, <1>4, <1>5, <1>6 DEF Next

(* No lock outlives its session. *)
THEOREM LocksEndWithSessions == Spec => []NoSessionNoLock
<1>1. Init => NoSessionNoLock
  BY DEF Init, NoSessionNoLock
<1>2. TypeOK /\ NoSessionNoLock /\ [Next]_vars => NoSessionNoLock'
  BY NoSessionNoLockStep
<1> QED
  BY <1>1, <1>2, Typing, PTL DEF Spec

-----------------------------------------------------------------------------
(* The refinement of RenderPhases: `state` there is this. *)
phases == [t \in Tasks |-> PhaseOf(t)]

(* A step of one task, no session ending, moves that task alone.           *)
LEMMA OthersKeepTheirPhase ==
  ASSUME TypeOK, NEW t \in Tasks, session' = session,
         \A u \in Tasks \ {t} : pc'[u] = pc[u] /\ trans'[u] = trans[u]
  PROVE  phases' = [phases EXCEPT ![t] = PhaseOf(t)']
<1>1. \A u \in Tasks \ {t} : PhaseOf(u)' = PhaseOf(u)
  BY DEF PhaseOf, Rendering
<1> QED
  BY <1>1 DEF phases

(* ... and if it moves nowhere that shows, there is no step of phases.     *)
LEMMA HiddenStep ==
  ASSUME TypeOK, NEW t \in Tasks, UNCHANGED <<session, work, epoch>>,
         \A u \in Tasks \ {t} : pc'[u] = pc[u] /\ trans'[u] = trans[u],
         PhaseOf(t)' = PhaseOf(t)
  PROVE  UNCHANGED Phases!vars
<1>1. phases' = phases
  BY OthersKeepTheirPhase DEF phases
<1> QED
  BY <1>1 DEF Phases!vars, phases

(* A move of one task in RenderPhases. *)
LEMMA VisibleStep ==
  ASSUME TypeOK, NEW t \in Tasks, UNCHANGED <<session, work, epoch>>,
         \A u \in Tasks \ {t} : pc'[u] = pc[u] /\ trans'[u] = trans[u]
  PROVE  Phases!Move(t, PhaseOf(t), PhaseOf(t)')
<1>1. phases' = [phases EXCEPT ![t] = PhaseOf(t)']
  BY OthersKeepTheirPhase
<1>2. phases[t] = PhaseOf(t)
  BY DEF phases
<1> QED
  BY <1>1, <1>2 DEF Phases!Move, phases

(* The phase of a workflow, task by task. *)
LEMMA PhaseByTask ==
  ASSUME NEW w \in Workflows
  PROVE  /\ (\E u \in Tasks : work[u] = w /\ PhaseOf(u) = "rendering")
              => Phases!Phase(w) = "rendering"
         /\ (\A u \in Tasks : work[u] = w => PhaseOf(u) \notin {"rendering", "requeueing"})
              => Phases!Phase(w) = "unlocked"
  BY DEF Phases!Phase, Phases!TasksIn, PhaseOf, Rendering

(* A refused call finds the workflow rendering. *)
LEMMA LockedMeansRendering ==
  ASSUME TypeOK, NEW u \in Tasks, Rendering(u), session[ClientOf[u]]
  PROVE  Phases!Phase(work[u]) = "rendering"
<1>1. PhaseOf(u) = "rendering"
  BY DEF PhaseOf, Rendering
<1>2. work[u] \in Workflows
  BY DEF TypeOK
<1> QED
  BY <1>1, <1>2, PhaseByTask

(* What the three facts about locks say of a call at each point where it   *)
(* is refused or gets the render lock.                                     *)
LEMMA RefusedLocally ==
  ASSUME LockInvariant, NEW t \in Tasks, RefuseLocally(t), session[ClientOf[t]]
  PROVE  Phases!Phase(work[t]) = "rendering"
<1> USE ClientOfAssumption DEF LockInvariant
<1>0. /\ HoldsLocalStall(t) /\ ~HoldsLocalRender(t)
      /\ work[t] \in localRenders[ClientOf[t]]
  BY DEF TypeOK, Coherent, RefuseLocally, Goto, HoldsLocalStall, HoldsLocalRender, Rendering
<1>1. PICK u \in LocalRenderHolders : ClientOf[u] = ClientOf[t] /\ work[u] = work[t]
  BY <1>0 DEF LocalRenderInv, LocalInv
<1>2. u \in Tasks /\ HoldsLocalRender(u) /\ u # t
  BY <1>0, <1>1 DEF LocalRenderHolders
<1>3. ~HoldsLocalStall(u)
  BY <1>0, <1>1, <1>2 DEF LocalStallInv, LocalInv, LocalStallHolders
<1>4. Rendering(u)
  BY <1>2, <1>3 DEF HoldsLocalRender, HoldsLocalStall
<1> QED
  BY <1>1, <1>2, <1>4, LockedMeansRendering

(* ... the one that refuses t by its session's render lock too. *)
LEMMA RefusedRemotely ==
  ASSUME LockInvariant, NoSessionNoLock, NEW t \in Tasks, RefuseRemotely(t)
  PROVE  Phases!Phase(work[t]) = "rendering"
<1> USE ClientOfAssumption DEF LockInvariant, TypeOK
<1>1. PICK d \in Clients : render[work[t]][d] # 0
  BY DEF RefuseRemotely, Available
<1>2. session[d]
  BY <1>1 DEF NoSessionNoLock
<1>3. PICK u \in Tasks : Rendering(u) /\ ClientOf[u] = d /\ work[u] = work[t]
  BY <1>1, <1>2
     DEF RemoteRenderInv, RemoteInv, Needs, RemoteRenderHolders, HoldsRemoteRender
<1> QED
  BY <1>2, <1>3, LockedMeansRendering

(* And nobody is at work on the workflow whose render lock t gets. *)
LEMMA LockedWhenUnlocked ==
  ASSUME LockInvariant, NEW t \in Tasks, AcquireRemoteRender(t)
  PROVE  Phases!Phase(work[t]) = "unlocked"
<1> USE ClientOfAssumption DEF LockInvariant, TypeOK
<1>0. HoldsRemoteStall(t) /\ ~Rendering(t) /\ session[ClientOf[t]] /\ trans[t] = "A"
  BY DEF AcquireRemoteRender, Goto, CanQuery, HoldsRemoteStall, Rendering, Coherent
<1>1. ASSUME NEW u \in Tasks, work[u] = work[t], PhaseOf(u) = "rendering" PROVE FALSE
  <2>1. Rendering(u) /\ session[ClientOf[u]]
    BY <1>1 DEF PhaseOf, Rendering
  <2>2. CASE ClientOf[u] = ClientOf[t]
    BY <1>0, <1>1, <2>1, <2>2
       DEF AcquireRemoteRender, Goto, LocalRenderInv, LocalInv, LocalRenderHolders,
           HoldsLocalRender
  <2>3. CASE ClientOf[u] # ClientOf[t]
    <3>1. render[work[t]][ClientOf[u]] = 1
      BY <1>1, <2>1
         DEF RemoteRenderInv, RemoteInv, Needs, RemoteRenderHolders, HoldsRemoteRender
    <3> QED
      BY <2>3, <3>1 DEF AcquireRemoteRender, Available
  <2> QED
    BY <2>2, <2>3
<1>2. ASSUME NEW u \in Tasks, work[u] = work[t], PhaseOf(u) = "requeueing" PROVE FALSE
  <2>1. HoldsRemoteStall(u) /\ session[ClientOf[u]] /\ trans[u] # "A"
    BY <1>2 DEF PhaseOf, HoldsRemoteStall, Rendering, Coherent, Pcs
  <2> QED
    BY <1>0, <1>2, <2>1, StallIsExclusive DEF StallKeepsOthersOut, Rivals
<1>3. work[t] \in Workflows
  OBVIOUS
<1> QED
  BY <1>1, <1>2, <1>3, PhaseByTask

(* A step of a task is a step of RenderPhases, or shows nothing there.     *)
LEMMA PhasesTaskStep ==
  ASSUME LockInvariant, NoSessionNoLock, NEW t \in Tasks, Step(t), ~FailAndExit(t)
  PROVE  Phases!Next \/ UNCHANGED Phases!vars
<1> USE ClientOfAssumption DEF LockInvariant
<1>1. UNCHANGED <<session, work, epoch>>
  BY DEF Step, AcquireLocalStall, BeginRemoteStall, AcquireRemoteStall, AcquireLocalRender,
         RefuseLocally, AcquireRemoteRender, RefuseRemotely, ReleaseRemoteStall,
         ReleaseLocalStall, StallOthers, ReleaseRemoteRender, ReleaseLocalRender, Leave,
         FailAndStallAgain, faulty
<1>2. \A u \in Tasks \ {t} : pc'[u] = pc[u] /\ trans'[u] = trans[u]
  BY DEF Step, AcquireLocalStall, BeginRemoteStall, AcquireRemoteStall, AcquireLocalRender,
         RefuseLocally, AcquireRemoteRender, RefuseRemotely, ReleaseRemoteStall,
         ReleaseLocalStall, StallOthers, ReleaseRemoteRender, ReleaseLocalRender, Leave,
         FailAndStallAgain, Goto, TypeOK
<1>3. Phases!Move(t, PhaseOf(t), PhaseOf(t)')
  BY <1>1, <1>2, VisibleStep
<1>4. ASSUME PhaseOf(t)' = PhaseOf(t) PROVE UNCHANGED Phases!vars
  BY <1>1, <1>2, <1>4, HiddenStep
<1> USE DEF TypeOK, Coherent, Goto
<1>5. CASE AcquireLocalStall(t)
  BY <1>1, <1>4, <1>5 DEF AcquireLocalStall, PhaseOf, Rendering
<1>6. CASE BeginRemoteStall(t)
  BY <1>1, <1>4, <1>6 DEF BeginRemoteStall, PhaseOf, Rendering
<1>7. CASE AcquireRemoteStall(t)
  BY <1>1, <1>4, <1>7 DEF AcquireRemoteStall, PhaseOf, Rendering
<1>8. CASE AcquireLocalRender(t)
  BY <1>1, <1>4, <1>8 DEF AcquireLocalRender, PhaseOf, Rendering
<1>9. CASE RefuseLocally(t)
  <2>1. CASE session[ClientOf[t]]
    <3>1. PhaseOf(t) = "waiting" /\ PhaseOf(t)' = "refused"
      BY <1>1, <1>9, <2>1 DEF RefuseLocally, PhaseOf, Rendering
    <3>2. Phases!Refuse(t)
      BY <1>3, <1>9, <2>1, <3>1, RefusedLocally DEF Phases!Refuse
    <3> QED
      BY <3>2 DEF Phases!Next
  <2>2. CASE ~session[ClientOf[t]]
    BY <1>1, <1>4, <2>2 DEF PhaseOf, Rendering
  <2> QED
    BY <2>1, <2>2
<1>10. CASE AcquireRemoteRender(t)
  <2>1. PhaseOf(t) = "waiting" /\ PhaseOf(t)' = "rendering"
    BY <1>1, <1>10 DEF AcquireRemoteRender, CanQuery, PhaseOf, Rendering
  <2>2. Phases!Lock(t)
    BY <1>3, <1>10, <2>1, LockedWhenUnlocked DEF Phases!Lock
  <2> QED
    BY <2>2 DEF Phases!Next
<1>11. CASE RefuseRemotely(t)
  <2>1. PhaseOf(t) = "waiting" /\ PhaseOf(t)' = "refused"
    BY <1>1, <1>11 DEF RefuseRemotely, CanQuery, PhaseOf, Rendering
  <2>2. Phases!Refuse(t)
    BY <1>3, <1>11, <2>1, RefusedRemotely DEF Phases!Refuse
  <2> QED
    BY <2>2 DEF Phases!Next
<1>12. CASE ReleaseRemoteStall(t)
  <2>1. CASE trans[t] = "C"
    <3>1. PhaseOf(t) = "requeueing" /\ PhaseOf(t)' = "idle"
      BY <1>1, <1>12, <2>1 DEF ReleaseRemoteStall, CanQuery, PhaseOf, Rendering
    <3> QED
      BY <1>3, <3>1 DEF Phases!Unlock, Phases!Next
  <2>2. CASE trans[t] # "C"
    BY <1>1, <1>4, <1>12, <2>2 DEF ReleaseRemoteStall, PhaseOf, Rendering
  <2> QED
    BY <2>1, <2>2
<1>13. CASE ReleaseLocalStall(t)
  <2>1. CASE trans[t] = "R" /\ session[ClientOf[t]]
    <3>1. PhaseOf(t) = "refused" /\ PhaseOf(t)' = "idle"
      BY <1>1, <1>13, <2>1 DEF ReleaseLocalStall, PhaseOf, Rendering
    <3> QED
      BY <1>3, <3>1 DEF Phases!Raise, Phases!Next
  <2>2. CASE ~(trans[t] = "R" /\ session[ClientOf[t]])
    BY <1>1, <1>4, <1>13, <2>2 DEF ReleaseLocalStall, PhaseOf, Rendering
  <2> QED
    BY <2>1, <2>2
<1>14. CASE StallOthers(t)
  BY <1>1, <1>4, <1>14 DEF StallOthers, PhaseOf, Rendering
<1>15. CASE ReleaseRemoteRender(t)
  <2>1. PhaseOf(t) = "rendering" /\ PhaseOf(t)' = "requeueing"
    BY <1>1, <1>15 DEF ReleaseRemoteRender, CanQuery, PhaseOf, Rendering
  <2> QED
    BY <1>3, <2>1 DEF Phases!StallOthers, Phases!Next
<1>16. CASE ReleaseLocalRender(t)
  BY <1>1, <1>4, <1>16 DEF ReleaseLocalRender, PhaseOf, Rendering
<1>17. CASE Leave(t)
  BY <1>1, <1>4, <1>17 DEF Leave, PhaseOf, Rendering
<1>18. CASE FailAndStallAgain(t)
  BY <1>1, <1>4, <1>18 DEF FailAndStallAgain, StatementFails, PhaseOf, Rendering
<1> QED
  BY <1>5, <1>6, <1>7, <1>8, <1>9, <1>10, <1>11, <1>12, <1>13, <1>14, <1>15,
     <1>16, <1>17, <1>18 DEF Step

(* So is the start of a call ... *)
LEMMA PhasesCallStep ==
  ASSUME TypeOK, NEW t \in Tasks, NEW w \in Workflows, Call(t, w)
  PROVE  Phases!Next
<1> USE ClientOfAssumption DEF TypeOK
<1>1. session' = session /\ epoch' = epoch /\ work' = [work EXCEPT ![t] = w]
  BY DEF Call, faulty
<1>2. phases' = [phases EXCEPT ![t] = PhaseOf(t)']
  <2>1. \A u \in Tasks \ {t} : pc'[u] = pc[u] /\ trans'[u] = trans[u]
    BY DEF Call, Goto
  <2> QED
    BY <1>1, <2>1, OthersKeepTheirPhase
<1>3. /\ phases[t] \in {"idle", "gone"}
      /\ PhaseOf(t)' = IF phases[t] = "gone" THEN "gone" ELSE "waiting"
  BY <1>1 DEF Call, Goto, phases, PhaseOf, Rendering
<1>4. Phases!Request(t, w)
  BY <1>1, <1>2, <1>3 DEF Phases!Request, phases
<1> QED
  BY <1>4 DEF Phases!Next

(* ... and the end of a session or a process. *)
LEMMA PhasesFaultStep ==
  ASSUME TypeOK, NEW c \in Clients, Restart(c) \/ LoseSession(c)
  PROVE  Phases!Next
<1> USE ClientOfAssumption DEF TypeOK
<1>1. epoch' = [epoch EXCEPT ![c] = @ + 1] /\ work' = work
  BY DEF Restart, LoseSession, EndSession
<1>2. CASE Restart(c)
  <2>1. \A t \in Tasks : PhaseOf(t)' = IF ClientOf[t] = c THEN "idle" ELSE PhaseOf(t)
    BY <1>2 DEF Restart, PhaseOf, Rendering
  <2>2. phases' = [t \in Tasks |-> IF ClientOf[t] = c THEN "idle" ELSE phases[t]]
    BY <2>1 DEF phases
  <2>3. Phases!Restart(c)
    BY <1>1, <2>2 DEF Phases!Restart, Phases!NewEpoch, phases
  <2> QED
    BY <2>3 DEF Phases!Next
<1>3. CASE LoseSession(c)
  <2>1. \A t \in Tasks : PhaseOf(t)' = IF ClientOf[t] = c THEN "gone" ELSE PhaseOf(t)
    BY <1>3 DEF LoseSession, PhaseOf, Rendering
  <2>2. phases' = [t \in Tasks |-> IF ClientOf[t] = c THEN "gone" ELSE phases[t]]
    BY <2>1 DEF phases
  <2>3. Phases!LoseSession(c)
    BY <1>1, <2>2 DEF Phases!LoseSession, Phases!NewEpoch, phases
  <2> QED
    BY <2>3 DEF Phases!Next
<1> QED
  BY <1>2, <1>3

(* The locks, local and remote, implement the phases of PgRenderLocker's   *)
(* docstring: transitions A, B and C happen at one moment each, in that    *)
(* order, and WorkflowAlreadyLocked is raised only for a workflow that     *)
(* somebody renders at that moment.                                        *)
THEOREM Refinement == Spec => ImplementsPhases
<1>1. Init => Phases!Init
  BY ClientOfAssumption, WorkflowAssumption
     DEF Init, Phases!Init, PhaseOf, Rendering
<1>2. LockInvariant /\ NoSessionNoLock /\ [Next]_vars => [Phases!Next]_(Phases!vars)
  <2> SUFFICES ASSUME LockInvariant, NoSessionNoLock, [Next]_vars
               PROVE  Phases!Next \/ UNCHANGED Phases!vars
    OBVIOUS
  <2> USE ClientOfAssumption DEF LockInvariant
  <2>1. ASSUME NEW t \in Tasks, Step(t) PROVE Phases!Next \/ UNCHANGED Phases!vars
    BY <2>1, PhasesTaskStep, PhasesFaultStep DEF FailAndExit
  <2>2. ASSUME NEW t \in Tasks, NEW w \in Workflows, Call(t, w) PROVE Phases!Next
    BY <2>2, PhasesCallStep
  <2>3. ASSUME NEW c \in Clients, Kill(c) \/ LoseSession(c) PROVE Phases!Next
    BY <2>3, PhasesFaultStep DEF Kill
  <2>4. CASE UNCHANGED vars
    BY <2>4 DEF vars, faulty, Phases!vars, PhaseOf, Rendering
  <2> QED
    BY <2>1, <2>2, <2>3, <2>4 DEF Next
<1> QED
  BY <1>1, <1>2, Invariance, LocksEndWithSessions, PTL DEF Spec, ImplementsPhases, Phases!Spec

-----------------------------------------------------------------------------
(* The task that has _pg_lock is in the blocking statement. *)
PgLockInv == \A c \in Clients : pgLock[c] # NoTask =>
  pc[pgLock[c]] = "pg_wait" /\ ClientOf[pgLock[c]] = c

(* A statement that ends, or fails, gives _pg_lock back. *)
LEMMA PgLockStep ==
  ASSUME TypeOK, PgLockInv, [Next]_vars PROVE PgLockInv'
<1> USE ClientOfAssumption, NoTaskAssumption DEF TypeOK, PgLockInv, Goto, local, server, faulty
<1>1. ASSUME NEW c \in Clients, Restart(c) PROVE PgLockInv'
  BY <1>1 DEF Restart
<1>2. ASSUME NEW t \in Tasks, Step(t) PROVE PgLockInv'
  <2>1. CASE BeginRemoteStall(t)
    BY <2>1 DEF BeginRemoteStall, CanQuery
  <2>2. CASE AcquireRemoteStall(t)
    BY <2>2 DEF AcquireRemoteStall
  <2>3. CASE FailAndExit(t)
    BY <1>1, <2>3 DEF FailAndExit
  <2>4. CASE FailAndStallAgain(t)
    BY <2>4 DEF FailAndStallAgain, StatementFails
  <2>5. CASE /\ pc[t] # "pg_wait" /\ pgLock' = pgLock
             /\ \A u \in Tasks \ {t} : pc'[u] = pc[u]
    BY <2>5
  <2> QED
    BY <1>2, <2>1, <2>2, <2>3, <2>4, <2>5
       DEF Step, AcquireLocalStall, AcquireLocalRender, RefuseLocally, AcquireRemoteRender,
           RefuseRemotely, ReleaseRemoteStall, ReleaseLocalStall, StallOthers,
           ReleaseRemoteRender, ReleaseLocalRender, Leave
<1>3. ASSUME NEW t \in Tasks, NEW w \in Workflows, Call(t, w) PROVE PgLockInv'
  BY <1>3 DEF Call
<1>4. ASSUME NEW c \in Clients, Kill(c) PROVE PgLockInv'
  BY <1>1, <1>4 DEF Kill
<1>5. ASSUME NEW c \in Clients, LoseSession(c) PROVE PgLockInv'
  BY <1>5 DEF LoseSession
<1>6. CASE UNCHANGED vars
  BY <1>6 DEF vars
<1> QED
  BY <1>2, <1>3, <1>4, <1>5, <1>6 DEF Next

(* How renderer/main.py uses the lock: it consumes one message at a time,  *)
(* so a process has one call of render_lock() in progress.                 *)
OneTaskPerClient == \A t, u \in Tasks : ClientOf[t] = ClientOf[u] => t = u

(* Used that way, no processes wait for each other's stall locks.  (With   *)
(* two calls per process they can: one call waits in pg_advisory_lock(),   *)
(* holding _pg_lock, while the call that could release what another        *)
(* process waits for is behind it.)                                        *)
THEOREM NoDeadlock ==
  ASSUME OneTaskPerClient PROVE Spec => []NoSessionDeadlock
<1>1. Init => PgLockInv
  BY DEF Init, PgLockInv
<1>2. TypeOK /\ PgLockInv /\ [Next]_vars => PgLockInv'
  BY PgLockStep
<1>3. LockInvariant /\ NoSessionNoLock /\ PgLockInv => NoSessionDeadlock
  <2> SUFFICES ASSUME LockInvariant, NoSessionNoLock, PgLockInv,
                      NEW S \in (SUBSET Clients) \ {{}}
               PROVE  \E c \in S : \A d \in S : ~WaitsFor(c, d)
    BY DEF NoSessionDeadlock
  <2> USE ClientOfAssumption, NoTaskAssumption
  <2>1. ASSUME NEW c \in Clients, NEW d \in Clients, WaitsFor(c, d)
        PROVE  pgLock[d] = NoTask
    <3>1. pgLock[c] \in Tasks /\ stall[work[pgLock[c]]][d] > 0
      BY <2>1 DEF WaitsFor, LockInvariant, TypeOK
    <3>2. session[d]
      BY <3>1 DEF LockInvariant, TypeOK, NoSessionNoLock
    <3>3. PICK u \in Tasks : HoldsRemoteStall(u) /\ ClientOf[u] = d
      BY <3>1, <3>2, SMTT(60)
         DEF LockInvariant, TypeOK, RemoteStallInv, RemoteInv, Needs, RemoteStallHolders
    <3> QED
      BY <3>3, OneTaskPerClient
         DEF OneTaskPerClient, LockInvariant, TypeOK, PgLockInv, HoldsRemoteStall
  <2>2. CASE \E c, d \in S : WaitsFor(c, d)
    BY <2>1, <2>2 DEF WaitsFor
  <2>3. CASE ~\E c, d \in S : WaitsFor(c, d)
    BY <2>3
  <2> QED
    BY <2>2, <2>3
<1> QED
  BY <1>1, <1>2, <1>3, Typing, Invariance, LocksEndWithSessions, PTL DEF Spec
=============================================================================
