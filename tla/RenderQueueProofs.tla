------------------------- MODULE RenderQueueProofs -------------------------
(***************************************************************************)
(* Theorems about RenderQueue, for any number of renderers, steps, edits,  *)
(* visits of cron and faults.                                              *)
(*                                                                         *)
(* The argument: the lock lets one actor in (LockInv), and each place in   *)
(* the message handler has its place in the lock's life (PlaceInv), so     *)
(* only one renderer writes to the cache.  What it remembers of the steps  *)
(* is true of the delta its message names, wherever the users have taken   *)
(* the workflow since (MemoryInv): a delta's id is never used again, and   *)
(* the deltas before it never change (ChainInv).  Hence a renderer that    *)
(* reaches the end has made every step fresh as of that delta              *)
(* (RenderedOK), and as long as a step is stale there is a message in the *)
(* queue or a renderer that will publish one (QueuedInv).                  *)
(***************************************************************************)
EXTENDS RenderQueue, SequenceTheorems, WellFoundedInduction, TLAPS

(* The pairs of natural numbers, smaller first. *)
Smaller == {mn \in Nat \X Nat : mn[1] < mn[2]}

(* A set of natural numbers has a least one ... *)
LEMMA HasLeast ==
  ASSUME NEW S \in SUBSET Nat, S # {}
  PROVE  \E m \in S : \A n \in S : m <= n
<1>1. IsWellFoundedOn(Smaller, Nat)
  BY NatLessThanWellFounded DEF OpToRel, Smaller
<1>2. PICK m \in S : \A n \in S : <<n, m>> \notin Smaller
  BY <1>1, WFMin
<1>3. \A n \in S : ~(n < m)
  BY <1>2 DEF Smaller
<1>4. \A n \in S : n \in Nat /\ m \in Nat
  OBVIOUS
<1> QED
  BY <1>3, <1>4

(* ... and, if it is bounded, a greatest one. *)
LEMMA HasGreatest ==
  ASSUME NEW k \in Nat, NEW S \in SUBSET (1 .. k), S # {}
  PROVE  \E m \in S : \A n \in S : n <= m
<1> DEFINE T == {j \in Nat : \E n \in S : j = k - n}
<1>1. T \in SUBSET Nat /\ \A n \in S : k - n \in T
  OBVIOUS
<1>2. T # {}
  BY <1>1
<1> HIDE DEF T
<1>3. PICK m \in T : \A n \in T : m <= n
  BY <1>1, <1>2, HasLeast
<1>4. PICK p \in S : m = k - p
  BY <1>3 DEF T
<1>5. ASSUME NEW n \in S PROVE n <= p
  <2>1. m <= k - n
    BY <1>1, <1>3
  <2> QED
    BY <1>4, <2>1
<1> QED
  BY <1>5

-----------------------------------------------------------------------------
(* The chain. *)

(* Relevant(s) when the first n deltas of chain c are applied. *)
RelevantIn(c, n, s) ==
  LET touching == {i \in 1 .. n : c[i].first <= s}
  IN  IF touching = {} THEN 0
      ELSE c[CHOOSE i \in touching : \A j \in touching : j <= i].id

(* A step's last relevant delta is one of the applied ones, if any. *)
LEMMA RelevantIsThere ==
  ASSUME NEW c, NEW n \in Nat, NEW s
  PROVE  RelevantIn(c, n, s) = 0 \/ \E i \in 1 .. n : RelevantIn(c, n, s) = c[i].id
<1> DEFINE touching == {i \in 1 .. n : c[i].first <= s}
<1>1. CASE touching = {}
  BY <1>1 DEF RelevantIn
<1>2. CASE touching # {}
  <2>1. \E i \in touching : \A j \in touching : j <= i
    BY <1>2, HasGreatest
  <2> DEFINE last == CHOOSE i \in touching : \A j \in touching : j <= i
  <2>2. last \in touching
    BY <2>1
  <2>3. RelevantIn(c, n, s) = c[last].id
    BY <1>2 DEF RelevantIn
  <2> QED
    BY <2>2, <2>3
<1> QED
  BY <1>1, <1>2

(* It depends on the applied deltas only. *)
LEMMA RelevantOfPrefix ==
  ASSUME NEW c, NEW d, NEW n \in Nat, NEW s, \A i \in 1 .. n : c[i] = d[i]
  PROVE  RelevantIn(c, n, s) = RelevantIn(d, n, s)
<1> DEFINE touching == {i \in 1 .. n : c[i].first <= s}
<1>1. touching = {i \in 1 .. n : d[i].first <= s}
  OBVIOUS
<1>2. CASE touching = {}
  BY <1>1, <1>2 DEF RelevantIn
<1>3. CASE touching # {}
  <2>1. \E i \in touching : \A j \in touching : j <= i
    BY <1>3, HasGreatest
  <2> DEFINE last == CHOOSE i \in touching : \A j \in touching : j <= i
  <2>2. last \in touching
    BY <2>1
  <2>3. RelevantIn(c, n, s) = c[last].id
    BY <1>3 DEF RelevantIn
  <2>4. RelevantIn(d, n, s) = d[last].id
    BY <1>1, <1>3 DEF RelevantIn
  <2> QED
    BY <2>2, <2>3, <2>4
<1> QED
  BY <1>2, <1>3

(* What Do makes of the chain. *)
LEMMA DoneChain ==
  ASSUME NEW c \in Seq(Delta), NEW n \in 0 .. Len(c), NEW e \in Delta
  PROVE  LET new == Append(SubSeq(c, 1, n), e)
         IN  /\ new \in Seq(Delta) /\ Len(new) = n + 1
             /\ \A i \in 1 .. n : new[i] = c[i]
             /\ new[n + 1] = e
<1> DEFINE kept == SubSeq(c, 1, n)
<1>1. kept \in Seq(Delta) /\ Len(kept) = n /\ \A i \in 1 .. n : kept[i] = c[i]
  BY SubSeqProperties
<1> HIDE DEF kept
<1>2. /\ Append(kept, e) \in Seq(Delta) /\ Len(Append(kept, e)) = n + 1
      /\ \A i \in 1 .. n : Append(kept, e)[i] = kept[i]
      /\ Append(kept, e)[n + 1] = e
  BY <1>1, AppendProperties
<1> QED
  BY <1>1, <1>2 DEF kept

-----------------------------------------------------------------------------
(* Types, and the three kinds of steps. *)

UserStep == Do \/ Undo \/ Redo \/ OpenPage \/ Delete \/ \E d \in Deltas : WebPublishes(d)

RendererStep(r) ==
  Handle(r) \/ Recover(r) \/ DatabaseFails(r) \/ RenderFails(r) \/ Kill(r)

CronStep == CronLocks \/ CronProceeds

(* There are no others. *)
LEMMA StepKinds == Next => UserStep \/ CronStep \/ \E r \in Renderers : RendererStep(r)
  BY DEF Next, UserStep, RendererStep, CronStep

(* The deltas of the chain are deltas. *)
LEMMA ChainIds ==
  ASSUME ChainTypeOK
  PROVE  \A i \in 1 .. Len(chain) : chain[i].id \in Deltas /\ chain[i].first \in 1 .. NSteps + 1
<1>1. \A i \in 1 .. Len(chain) : chain[i] \in Delta
  BY ElementOfSeq DEF ChainTypeOK
<1> QED
  BY <1>1 DEF Delta

(* Whatever the chain, relevant and last deltas are deltas. *)
LEMMA DeltasTyped ==
  ASSUME TypeOK
  PROVE  LastDelta \in Deltas /\ \A s \in Steps : Relevant(s) \in Deltas
<1>1. chain \in Seq(Delta) /\ applied \in 0 .. Len(chain)
  BY DEF TypeOK, ChainTypeOK
<1>3. applied \in Nat /\ \A i \in 1 .. applied : i \in 1 .. Len(chain)
  BY <1>1, LenProperties
<1>4. \A i \in 1 .. applied : chain[i].id \in Deltas
  BY <1>3, ChainIds DEF TypeOK
<1>5. 0 \in Deltas
  BY BoundsAssumption DEF Deltas
<1>6. LastDelta \in Deltas
  BY <1>3, <1>4, <1>5 DEF LastDelta
<1>7. ASSUME NEW s \in Steps PROVE Relevant(s) \in Deltas
  <2>1. Relevant(s) = RelevantIn(chain, applied, s)
    BY DEF Relevant, RelevantIn
  <2> QED
    BY <1>3, <1>4, <1>5, <2>1, RelevantIsThere
<1> QED
  BY <1>6, <1>7

(* The first stale step is one. *)
LEMMA FirstStale ==
  ASSUME TypeOK, ~Fresh
  PROVE  LET first == CHOOSE s \in Stale : \A u \in Stale : s <= u
         IN  first \in Stale /\ \A u \in Stale : first <= u
<1>1. Stale \in SUBSET Nat /\ Stale # {}
  BY BoundsAssumption DEF Stale, Fresh, Steps
<1> QED
  BY <1>1, HasLeast

(* A fresh system has its type. *)
LEMMA InitTypeOK == Init => TypeOK
<1> SUFFICES ASSUME Init PROVE TypeOK
  OBVIOUS
<1> USE DEF Init, Deltas, Steps, Actors
<1>0. NSteps \in Nat /\ MaxEdits \in Nat /\ MaxVisits \in Nat /\ MaxFaults \in Nat
  BY BoundsAssumption
<1> USE <1>0
<1>1. ChainTypeOK
  BY EmptySeq DEF ChainTypeOK
<1>2. WorkflowTypeOK
  BY DEF WorkflowTypeOK
<1>3. QueueTypeOK
  BY DEF QueueTypeOK
<1>4. GhostTypeOK
  <2>1. visits = 0 /\ nfaults = 0 /\ broken = {} /\ owed = FALSE
    OBVIOUS
  <2> HIDE DEF Init
  <2>2. owed \in BOOLEAN
    BY <2>1, Zenon
  <2> QED
    BY <2>1, <2>2 DEF GhostTypeOK
<1>5. RendererTypeOK
  <2>1. /\ at \in [Renderers -> Places] /\ unacked \in [Renderers -> Deltas \cup {NoMessage}]
        /\ result \in [Renderers -> Results]
    BY DEF Places, Results
  <2>2. seen \in [Renderers -> [Steps -> Deltas]] /\ requeue \in [Renderers -> Deltas]
    OBVIOUS
  <2>3. next \in [Renderers -> 1 .. NSteps + 1]
    OBVIOUS
  <2> QED
    BY <2>1, <2>2, <2>3 DEF RendererTypeOK
<1>6. LockTypeOK
  BY DEF Lock!Init, LockTypeOK
<1> QED
  BY <1>1, <1>2, <1>3, <1>4, <1>5, <1>6 DEF TypeOK

(* What an edit may do to the queue of the web server. *)
LEMMA MaybeQueueTyping ==
  ASSUME QueueTypeOK, NEW d \in Deltas, NEW modifies, MaybeQueue(d, modifies), queue' = queue
  PROVE  QueueTypeOK'
  BY DEF QueueTypeOK, MaybeQueue

(* The users keep the types ... *)
LEMMA UserTyping ==
  ASSUME TypeOK, UserStep PROVE TypeOK'
<1> USE DEF TypeOK
<1>0. /\ LastDelta \in Deltas /\ chain \in Seq(Delta) /\ applied \in 0 .. Len(chain)
      /\ Len(chain) \in Nat /\ NSteps \in Nat /\ MaxEdits \in Nat
  BY DeltasTyped, BoundsAssumption, LenProperties DEF ChainTypeOK
<1>1. ASSUME CanEdit, Committed
      PROVE  WorkflowTypeOK' /\ RendererTypeOK' /\ LockTypeOK' /\ GhostTypeOK' /\ queue' = queue
  <2>1. WorkflowTypeOK'
    BY <1>0, <1>1 DEF WorkflowTypeOK, CanEdit, Committed
  <2>2. RendererTypeOK' /\ LockTypeOK'
    BY <1>1 DEF Committed, RendererTypeOK, LockTypeOK, memory, lock
  <2>3. GhostTypeOK' /\ queue' = queue
    BY <1>1 DEF Committed, GhostTypeOK, ghosts
  <2> QED
    BY <2>1, <2>2, <2>3
<1>2. CASE Do
  <2>1. PICK first \in 1 .. NSteps + 1 :
          /\ CanEdit /\ Committed
          /\ chain' = Append(SubSeq(chain, 1, applied), [id |-> edits + 1, first |-> first])
          /\ applied' = applied + 1
          /\ MaybeQueue(edits + 1, first <= NSteps)
    BY <1>2 DEF Do
  <2>2. edits + 1 \in Deltas
    BY <1>0, <2>1 DEF WorkflowTypeOK, CanEdit, Deltas
  <2>3. chain' \in Seq(Delta) /\ Len(chain') = applied + 1
    <3> DEFINE e == [id |-> edits + 1, first |-> first]
    <3>1. e \in Delta
      BY <2>2 DEF Delta
    <3> HIDE DEF e
    <3> QED
      BY <1>0, <3>1, DoneChain, <2>1 DEF e
  <2>4. ChainTypeOK'
    BY <1>0, <2>1, <2>3 DEF ChainTypeOK
  <2> QED
    BY <1>1, <2>1, <2>2, <2>4, MaybeQueueTyping
<1>3. CASE Undo \/ Redo
  <2>1. CanEdit /\ Committed /\ chain' = chain /\ applied' \in 0 .. Len(chain)
    BY <1>0, <1>3 DEF Undo, Redo
  <2>2. ChainTypeOK'
    BY <2>1 DEF ChainTypeOK
  <2>3. LastDelta' \in Deltas
    <3>1. \A i \in 1 .. Len(chain) : chain[i].id \in Deltas
      BY ChainIds
    <3>2. 0 \in Deltas /\ (applied' # 0 => applied' \in 1 .. Len(chain))
      BY <1>0, <2>1 DEF Deltas
    <3> QED
      BY <2>1, <3>1, <3>2 DEF LastDelta
  <2>4. QueueTypeOK'
    BY <1>1, <1>3, <2>1, <2>3, MaybeQueueTyping DEF Undo, Redo
  <2> QED
    BY <1>1, <2>1, <2>2, <2>4
<1>4. CASE OpenPage
  BY <1>0, <1>1, <1>4, MaybeQueueTyping DEF OpenPage, ChainTypeOK
<1>5. CASE Delete
  BY <1>5 DEF Delete, ChainTypeOK, WorkflowTypeOK, QueueTypeOK, RendererTypeOK, LockTypeOK,
              GhostTypeOK, memory, lock, ghosts
<1>6. ASSUME NEW d \in Deltas, WebPublishes(d) PROVE TypeOK'
  <2>1. QueueTypeOK'
    BY <1>6 DEF WebPublishes, Publish, QueueTypeOK
  <2>2. ChainTypeOK' /\ WorkflowTypeOK' /\ RendererTypeOK' /\ LockTypeOK' /\ GhostTypeOK'
    BY <1>6 DEF WebPublishes, Publish, ChainTypeOK, WorkflowTypeOK, RendererTypeOK,
                LockTypeOK, GhostTypeOK, workflow, memory, lock, ghosts
  <2> QED
    BY <2>1, <2>2
<1> QED
  BY <1>2, <1>3, <1>4, <1>5, <1>6 DEF UserStep

(* A renderer leaves the workflow alone, the other renderers and their     *)
(* place in the lock too, and no message that was lost is found.           *)
OnlyMoves(r) ==
  /\ UNCHANGED <<chain, applied, exists, edits, pending, visits>>
  /\ \A q \in Renderers : q # r =>
       /\ at'[q] = at[q] /\ unacked'[q] = unacked[q] /\ seen'[q] = seen[q]
       /\ next'[q] = next[q] /\ result'[q] = result[q]
  /\ \A a \in Actors : a # r => phase'[a] = phase[a]
  /\ broken \subseteq broken'

(* Every step of a renderer is like that. *)
LEMMA RendererFrame ==
  ASSUME TypeOK, NEW r \in Renderers, RendererStep(r)
  PROVE  OnlyMoves(r)
<1> USE DEF TypeOK, RendererTypeOK, LockTypeOK, NoChange, NoLock, workflow, memory, lock
<1>1. ASSUME NEW d \in Deltas, Deliver(r, d) PROVE OnlyMoves(r)
  BY <1>1 DEF Deliver, Goto, OnlyMoves
<1>2. CASE Lookup(r)
  BY <1>2 DEF Lookup, Goto, Lock!Request, OnlyMoves
<1>3. CASE AcquireLock(r)
  BY <1>3 DEF AcquireLock, Goto, Lock!Lock, Lock!Move, OnlyMoves
<1>4. CASE Ignore(r)
  BY <1>4 DEF Ignore, Goto, Lock!Refuse, Lock!Move, OnlyMoves
<1>5. CASE Load(r)
  BY <1>5 DEF Load, Goto, Finish, OnlyMoves
<1>6. CASE ReadInput(r)
  BY <1>6 DEF ReadInput, Goto, Finish, Unneeded, OnlyMoves
<1>7. CASE BeginStep(r)
  BY <1>7 DEF BeginStep, Goto, Finish, Unneeded, OnlyMoves
<1>8. CASE SaveStep(r)
  BY <1>8 DEF SaveStep, Goto, Finish, Unneeded, OnlyMoves
<1>9. CASE StallOthers(r)
  BY <1>9 DEF StallOthers, Goto, Lock!StallOthers, Lock!Move, Forget, OnlyMoves
<1>10. CASE Decide(r)
  BY <1>10 DEF Decide, Goto, OnlyMoves
<1>11. CASE Requeue(r)
  BY <1>11 DEF Requeue, Goto, Publish, OnlyMoves
<1>12. CASE Unlock(r)
  BY <1>12 DEF Unlock, Goto, Lock!Unlock, Lock!Move, OnlyMoves
<1>13. CASE Ack(r)
  BY <1>13 DEF Ack, Goto, Finish, Lock!Raise, Lock!Move, OnlyMoves
<1>14. CASE RabbitmqNotices(r)
  BY <1>14 DEF RabbitmqNotices, OnlyMoves
<1>15. CASE PostgresNotices(r)
  BY <1>15 DEF PostgresNotices, Lock!Restart, Lock!NewEpoch, OnlyMoves
<1>16. CASE Restart(r)
  BY <1>16 DEF Restart, Goto, OnlyMoves
<1>17. CASE DatabaseFails(r)
  BY <1>17 DEF DatabaseFails, Goto, Finish, Fault, OnlyMoves
<1>18. CASE RenderFails(r)
  BY <1>18 DEF RenderFails, Goto, Finish, Fault, OnlyMoves
<1>19. CASE Kill(r)
  BY <1>19 DEF Kill, Forget, Finish, Fault, OnlyMoves
<1> QED
  BY <1>1, <1>2, <1>3, <1>4, <1>5, <1>6, <1>7, <1>8, <1>9, <1>10, <1>11, <1>12, <1>13, <1>14, <1>15, <1>16, <1>17, <1>18, <1>19 DEF RendererStep, Handle, Recover

(* All that renderers and cron do to the lock. *)
LockStep(a) ==
  \/ NoLock \/ Lock!Request(a, "workflow") \/ Lock!Lock(a) \/ Lock!Refuse(a)
  \/ Lock!StallOthers(a) \/ Lock!Unlock(a) \/ Lock!Raise(a) \/ Lock!Restart(a)

(* Every step of a renderer does it for the renderer. *)
LEMMA RendererLock ==
  ASSUME NEW r \in Renderers, RendererStep(r) PROVE LockStep(r)
  BY DEF RendererStep, Handle, Recover, LockStep, Deliver, Lookup, AcquireLock, Ignore, Load,
         ReadInput, BeginStep, SaveStep, StallOthers, Decide, Requeue, Unlock, Ack,
         RabbitmqNotices, PostgresNotices, Restart, DatabaseFails, RenderFails, Kill

(* No step of the lock breaks its type. *)
LEMMA LockTyping ==
  ASSUME LockTypeOK, NEW a \in Actors, LockStep(a)
  PROVE  /\ LockTypeOK'
         /\ \A b \in Actors : b # a => phase'[b] = phase[b]
<1> USE DEF LockTypeOK
<1>1. CASE NoLock
  BY <1>1 DEF NoLock, lock
<1>2. CASE Lock!Request(a, "workflow")
  BY <1>2 DEF Lock!Request
<1>3. CASE Lock!Lock(a) \/ Lock!Refuse(a) \/ Lock!StallOthers(a) \/ Lock!Unlock(a) \/ Lock!Raise(a)
  BY <1>3 DEF Lock!Lock, Lock!Refuse, Lock!StallOthers, Lock!Unlock, Lock!Raise, Lock!Move
<1>4. CASE Lock!Restart(a)
  BY <1>4 DEF Lock!Restart, Lock!NewEpoch
<1> QED
  BY <1>1, <1>2, <1>3, <1>4 DEF LockStep

(* A renderer at work has a message, and one that is about to save has a   *)
(* step to save.                                                           *)
HandlerOK(r) ==
  /\ at[r] \notin {"idle", "dead"} => unacked[r] \in Deltas
  /\ at[r] = "save" => next[r] \in Steps

HandlerInv == \A r \in Renderers : HandlerOK(r)

(* A step of a renderer keeps the types of the renderers' memory ... *)
LEMMA RendererStateTyping ==
  ASSUME TypeOK, HandlerInv, NEW r \in Renderers, RendererStep(r)
  PROVE  RendererTypeOK'
<1>0. /\ RendererTypeOK /\ NSteps \in Nat /\ 0 \in Deltas /\ Steps = 1 .. NSteps
      /\ LastDelta \in Deltas /\ \A s \in Steps : Relevant(s) \in Deltas
  BY DeltasTyped, BoundsAssumption DEF Deltas, TypeOK, Steps
<1>a. (IF Fresh THEN NSteps + 1 ELSE CHOOSE s \in Stale : \A u \in Stale : s <= u)
        \in 1 .. NSteps + 1
  BY <1>0, FirstStale DEF Stale
<1>b. [s \in Steps |-> Relevant(s)] \in [Steps -> Deltas]
  BY <1>0
<1>c. /\ at[r] = "save" => next[r] + 1 \in 1 .. NSteps + 1
      /\ at[r] \notin {"idle", "dead"} => unacked[r] \in Deltas
  BY <1>0 DEF HandlerInv, HandlerOK
<1> USE <1>c DEF NoChange, NoLock, memory, RendererTypeOK, Places, Results
<1> HIDE DEF Steps
<1>1. ASSUME NEW d \in Deltas, Deliver(r, d) PROVE RendererTypeOK'
  BY <1>0, <1>a, <1>1 DEF Deliver, Goto
<1>2. CASE Lookup(r)
  BY <1>0, <1>a, <1>2 DEF Lookup, Goto, Lock!Request
<1>3. CASE AcquireLock(r)
  BY <1>0, <1>a, <1>3 DEF AcquireLock, Goto, Lock!Lock, Lock!Move
<1>4. CASE Ignore(r)
  BY <1>0, <1>a, <1>4 DEF Ignore, Goto, Lock!Refuse, Lock!Move
<1>5. CASE Load(r)
  <2>1. at' \in [Renderers -> Places] /\ unacked' = unacked
    BY <1>0, <1>a, <1>5 DEF Load, Goto, Finish
  <2>2. result' \in [Renderers -> Results]
    BY <1>0, <1>a, <1>5 DEF Load, Goto, Finish
  <2>3. requeue' \in [Renderers -> Deltas]
    BY <1>0, <1>a, <1>5, ZenonT(60) DEF Load, Goto, Finish
  <2>4. seen' \in [Renderers -> [Steps -> Deltas]]
    BY <1>0, <1>a, <1>b, <1>5, ZenonT(60) DEF Load, Goto, Finish
  <2>5. next' \in [Renderers -> 1 .. NSteps + 1]
    BY <1>0, <1>a, <1>5, ZenonT(60) DEF Load, Goto, Finish
  <2> QED
    BY <1>0, <2>1, <2>2, <2>3, <2>4, <2>5
<1>6. CASE ReadInput(r)
  <2>1. at' \in [Renderers -> Places] /\ unacked' = unacked
    BY <1>0, <1>a, <1>6 DEF ReadInput, Goto, Finish, Unneeded
  <2>2. result' \in [Renderers -> Results]
    BY <1>0, <1>a, <1>6 DEF ReadInput, Goto, Finish, Unneeded
  <2>3. requeue' \in [Renderers -> Deltas]
    BY <1>0, <1>a, <1>6, ZenonT(60) DEF ReadInput, Goto, Finish, Unneeded
  <2>4. seen' \in [Renderers -> [Steps -> Deltas]]
    BY <1>0, <1>a, <1>b, <1>6 DEF ReadInput, Goto, Finish, Unneeded
  <2>5. next' \in [Renderers -> 1 .. NSteps + 1]
    BY <1>0, <1>a, <1>6 DEF ReadInput, Goto, Finish, Unneeded
  <2> QED
    BY <1>0, <2>1, <2>2, <2>3, <2>4, <2>5
<1>7. CASE BeginStep(r)
  <2>1. at' \in [Renderers -> Places] /\ unacked' = unacked
    BY <1>0, <1>a, <1>7 DEF BeginStep, Goto, Finish, Unneeded
  <2>2. result' \in [Renderers -> Results]
    BY <1>0, <1>a, <1>7 DEF BeginStep, Goto, Finish, Unneeded
  <2>3. requeue' \in [Renderers -> Deltas]
    BY <1>0, <1>a, <1>7, ZenonT(60) DEF BeginStep, Goto, Finish, Unneeded
  <2>4. seen' \in [Renderers -> [Steps -> Deltas]]
    BY <1>0, <1>a, <1>b, <1>7 DEF BeginStep, Goto, Finish, Unneeded
  <2>5. next' \in [Renderers -> 1 .. NSteps + 1]
    BY <1>0, <1>a, <1>7 DEF BeginStep, Goto, Finish, Unneeded
  <2> QED
    BY <1>0, <2>1, <2>2, <2>3, <2>4, <2>5
<1>8. CASE SaveStep(r)
  <2>1. at' \in [Renderers -> Places] /\ unacked' = unacked
    BY <1>0, <1>a, <1>8 DEF SaveStep, Goto, Finish, Unneeded
  <2>2. result' \in [Renderers -> Results]
    BY <1>0, <1>a, <1>8 DEF SaveStep, Goto, Finish, Unneeded
  <2>3. requeue' \in [Renderers -> Deltas]
    BY <1>0, <1>a, <1>8, SMTT(60) DEF SaveStep, Goto, Finish, Unneeded
  <2>4. seen' \in [Renderers -> [Steps -> Deltas]]
    BY <1>0, <1>a, <1>b, <1>8 DEF SaveStep, Goto, Finish, Unneeded
  <2>5. next' \in [Renderers -> 1 .. NSteps + 1]
    BY <1>0, <1>a, <1>8, ZenonT(60) DEF SaveStep, Goto, Finish, Unneeded
  <2> QED
    BY <1>0, <2>1, <2>2, <2>3, <2>4, <2>5
<1>9. CASE StallOthers(r)
  BY <1>0, <1>a, <1>9 DEF StallOthers, Goto, Lock!StallOthers, Lock!Move, Forget
<1>10. CASE Decide(r)
  BY <1>0, <1>a, <1>10 DEF Decide, Goto
<1>11. CASE Requeue(r)
  BY <1>0, <1>a, <1>11 DEF Requeue, Goto, Publish
<1>12. CASE Unlock(r)
  BY <1>0, <1>a, <1>12 DEF Unlock, Goto, Lock!Unlock, Lock!Move
<1>13. CASE Ack(r)
  BY <1>0, <1>a, <1>13 DEF Ack, Goto, Finish, Lock!Raise, Lock!Move
<1>14. CASE RabbitmqNotices(r)
  BY <1>0, <1>a, <1>14 DEF RabbitmqNotices
<1>15. CASE PostgresNotices(r)
  BY <1>0, <1>a, <1>15 DEF PostgresNotices, Lock!Restart, Lock!NewEpoch
<1>16. CASE Restart(r)
  BY <1>0, <1>a, <1>16 DEF Restart, Goto
<1>17. CASE DatabaseFails(r)
  BY <1>0, <1>a, <1>17 DEF DatabaseFails, Goto, Finish, Fault
<1>18. CASE RenderFails(r)
  BY <1>0, <1>a, <1>18 DEF RenderFails, Goto, Finish, Fault
<1>19. CASE Kill(r)
  BY <1>0, <1>a, <1>19 DEF Kill, Forget, Finish, Fault
<1> QED
  BY <1>1, <1>2, <1>3, <1>4, <1>5, <1>6, <1>7, <1>8, <1>9, <1>10, <1>11, <1>12, <1>13, <1>14, <1>15, <1>16, <1>17, <1>18, <1>19 DEF RendererStep, Handle, Recover

(* ... of HandlerInv ... *)
LEMMA HandlerStep ==
  ASSUME TypeOK, HandlerInv, NEW r \in Renderers, RendererStep(r)
  PROVE  HandlerInv'
<1>1. SUFFICES HandlerOK(r)'
  BY RendererFrame DEF HandlerInv, HandlerOK, OnlyMoves
<1>2. /\ at \in [Renderers -> Places] /\ unacked \in [Renderers -> Deltas \cup {NoMessage}]
      /\ next \in [Renderers -> 1 .. NSteps + 1] /\ NSteps \in Nat
  BY BoundsAssumption DEF TypeOK, RendererTypeOK
<1>3. HandlerOK(r)
  BY DEF HandlerInv, HandlerOK
<1> USE <1>2, <1>3 DEF HandlerOK, NoChange, NoLock, memory, Places, Steps
<1>4. ASSUME NEW d \in Deltas, Deliver(r, d) PROVE HandlerOK(r)'
  BY <1>4 DEF Deliver, Goto
<1>5. CASE Lookup(r)
  BY <1>5 DEF Lookup, Goto, Lock!Request
<1>6. CASE AcquireLock(r)
  BY <1>6 DEF AcquireLock, Goto, Lock!Lock, Lock!Move
<1>7. CASE Ignore(r)
  BY <1>7 DEF Ignore, Goto, Lock!Refuse, Lock!Move
<1>8. CASE Load(r)
  BY <1>8 DEF Load, Goto, Finish
<1>9. CASE ReadInput(r)
  BY <1>9 DEF ReadInput, Goto, Finish, Unneeded
<1>10. CASE BeginStep(r)
  BY <1>10 DEF BeginStep, Goto, Finish, Unneeded
<1>11. CASE SaveStep(r)
  BY <1>11 DEF SaveStep, Goto, Finish, Unneeded
<1>12. CASE StallOthers(r)
  BY <1>12 DEF StallOthers, Goto, Lock!StallOthers, Lock!Move, Forget
<1>13. CASE Decide(r)
  BY <1>13 DEF Decide, Goto
<1>14. CASE Requeue(r)
  BY <1>14 DEF Requeue, Goto, Publish
<1>15. CASE Unlock(r)
  BY <1>15 DEF Unlock, Goto, Lock!Unlock, Lock!Move
<1>16. CASE Ack(r)
  BY <1>16 DEF Ack, Goto, Finish, Lock!Raise, Lock!Move
<1>17. CASE RabbitmqNotices(r)
  BY <1>17 DEF RabbitmqNotices
<1>18. CASE PostgresNotices(r)
  BY <1>18 DEF PostgresNotices, Lock!Restart, Lock!NewEpoch
<1>19. CASE Restart(r)
  BY <1>19 DEF Restart, Goto
<1>20. CASE DatabaseFails(r)
  BY <1>20 DEF DatabaseFails, Goto, Finish, Fault
<1>21. CASE RenderFails(r)
  BY <1>21 DEF RenderFails, Goto, Finish, Fault
<1>22. CASE Kill(r)
  BY <1>22 DEF Kill, Forget, Finish, Fault
<1> HIDE <1>2, <1>3 DEF HandlerOK, NoChange, NoLock, memory, Places, Steps
<1> QED
  BY <1>4, <1>5, <1>6, <1>7, <1>8, <1>9, <1>10, <1>11, <1>12, <1>13, <1>14, <1>15, <1>16, <1>17, <1>18, <1>19, <1>20, <1>21, <1>22 DEF RendererStep, Handle, Recover

(* ... and of the queue, the cache and the bookkeeping. *)
LEMMA RendererQueueTyping ==
  ASSUME TypeOK, HandlerInv, NEW r \in Renderers, RendererStep(r)
  PROVE  QueueTypeOK' /\ cached' \in [Steps -> Deltas] /\ GhostTypeOK'
<1>1. /\ queue \in [Deltas -> Nat] /\ cached \in [Steps -> Deltas] /\ seen[r] \in [Steps -> Deltas]
      /\ unacked[r] \in Deltas \cup {NoMessage} /\ requeue[r] \in Deltas
      /\ exists \in BOOLEAN /\ owed \in BOOLEAN /\ nfaults \in 0 .. MaxFaults /\ MaxFaults \in Nat
      /\ broken \subseteq {"db_error", "render_bug", "cron", "late_unlock"}
  BY BoundsAssumption DEF TypeOK, QueueTypeOK, WorkflowTypeOK, RendererTypeOK, GhostTypeOK
<1>2. at[r] = "save" => next[r] \in Steps
  BY DEF HandlerInv, HandlerOK
<1>3. SUFFICES /\ queue' \in [Deltas -> Nat] /\ cached' \in [Steps -> Deltas]
               /\ nfaults' \in 0 .. MaxFaults /\ owed' \in BOOLEAN
               /\ broken' \subseteq {"db_error", "render_bug", "cron", "late_unlock"}
  BY RendererFrame DEF OnlyMoves, TypeOK, QueueTypeOK, GhostTypeOK
<1> USE <1>1, <1>2 DEF NoChange, NoLock, memory
<1>4. ASSUME NEW d \in Deltas, Deliver(r, d) PROVE /\ queue' \in [Deltas -> Nat] /\ cached' \in [Steps -> Deltas]
             /\ nfaults' \in 0 .. MaxFaults /\ owed' \in BOOLEAN
             /\ broken' \subseteq {"db_error", "render_bug", "cron", "late_unlock"}
  BY <1>4 DEF Deliver, Goto
<1>5. CASE Lookup(r)
  BY <1>5 DEF Lookup, Goto, Lock!Request
<1>6. CASE AcquireLock(r)
  BY <1>6 DEF AcquireLock, Goto, Lock!Lock, Lock!Move
<1>7. CASE Ignore(r)
  BY <1>7 DEF Ignore, Goto, Lock!Refuse, Lock!Move
<1>8. CASE Load(r)
  BY <1>8 DEF Load, Goto, Finish
<1>9. CASE ReadInput(r)
  BY <1>9 DEF ReadInput, Goto, Finish, Unneeded
<1>10. CASE BeginStep(r)
  BY <1>10 DEF BeginStep, Goto, Finish, Unneeded
<1>11. CASE SaveStep(r)
  BY <1>11 DEF SaveStep, Goto, Finish, Unneeded
<1>12. CASE StallOthers(r)
  BY <1>12 DEF StallOthers, Goto, Lock!StallOthers, Lock!Move, Forget
<1>13. CASE Decide(r)
  BY <1>13 DEF Decide, Goto
<1>14. CASE Requeue(r)
  BY <1>14 DEF Requeue, Goto, Publish
<1>15. CASE Unlock(r)
  BY <1>15 DEF Unlock, Goto, Lock!Unlock, Lock!Move
<1>16. CASE Ack(r)
  BY <1>16 DEF Ack, Goto, Finish, Lock!Raise, Lock!Move
<1>17. CASE RabbitmqNotices(r)
  BY <1>17 DEF RabbitmqNotices
<1>18. CASE PostgresNotices(r)
  BY <1>18 DEF PostgresNotices, Lock!Restart, Lock!NewEpoch
<1>19. CASE Restart(r)
  BY <1>19 DEF Restart, Goto
<1>20. CASE DatabaseFails(r)
  BY <1>20 DEF DatabaseFails, Goto, Finish, Fault
<1>21. CASE RenderFails(r)
  BY <1>21 DEF RenderFails, Goto, Finish, Fault
<1>22. CASE Kill(r)
  BY <1>22 DEF Kill, Forget, Finish, Fault
<1> QED
  BY <1>4, <1>5, <1>6, <1>7, <1>8, <1>9, <1>10, <1>11, <1>12, <1>13, <1>14, <1>15, <1>16, <1>17, <1>18, <1>19, <1>20, <1>21, <1>22 DEF RendererStep, Handle, Recover

(* A step of cron is a step of the lock, and nothing else. *)
LEMMA CronFrame ==
  ASSUME TypeOK, CronStep
  PROVE  /\ LockStep(Cron)
         /\ UNCHANGED <<workflow, cached, pending, queue, at, unacked, memory, result, requeue,
                        ghosts, owed>>
         /\ visits' \in 0 .. MaxVisits
  BY BoundsAssumption
     DEF CronStep, CronLocks, CronProceeds, LockStep, TypeOK, GhostTypeOK

(* A step of a user leaves the renderers and the lock alone, and changes   *)
(* the bookkeeping of losses in no way.                                    *)
LEMMA UserFrame ==
  ASSUME UserStep
  PROVE  /\ UNCHANGED <<cached, at, unacked, memory, result, requeue, lock, visits, ghosts>>
         /\ exists' = exists \/ exists' = FALSE
  BY DEF UserStep, Do, Undo, Redo, OpenPage, Delete, WebPublishes, Committed, Publish, workflow

(* Together: no step breaks the types. *)
LEMMA TypeOKStep ==
  ASSUME TypeOK, HandlerInv, [Next]_vars
  PROVE  TypeOK' /\ HandlerInv'
<1>1. CASE UserStep
  BY <1>1, UserTyping, UserFrame DEF HandlerInv, HandlerOK, memory
<1>2. CASE CronStep
  <2>1. LockTypeOK'
    BY <1>2, CronFrame, LockTyping DEF TypeOK, Actors
  <2> QED
    BY <1>2, <2>1, CronFrame
       DEF TypeOK, ChainTypeOK, WorkflowTypeOK, QueueTypeOK, RendererTypeOK, GhostTypeOK,
           HandlerInv, HandlerOK, workflow, memory, ghosts
<1>3. ASSUME NEW r \in Renderers, RendererStep(r) PROVE TypeOK' /\ HandlerInv'
  <2>1. LockTypeOK'
    BY <1>3, RendererLock, LockTyping DEF TypeOK, Actors
  <2>2. ChainTypeOK' /\ WorkflowTypeOK'
    BY <1>3, RendererFrame, RendererQueueTyping
       DEF OnlyMoves, TypeOK, ChainTypeOK, WorkflowTypeOK
  <2> QED
    BY <1>3, <2>1, <2>2, RendererStateTyping, RendererQueueTyping, HandlerStep DEF TypeOK
<1>4. CASE UNCHANGED vars
  BY <1>4 DEF vars, TypeOK, ChainTypeOK, WorkflowTypeOK, QueueTypeOK, RendererTypeOK,
              LockTypeOK, GhostTypeOK, HandlerInv, HandlerOK, workflow, memory, lock, ghosts
<1> QED
  BY <1>1, <1>2, <1>3, <1>4, StepKinds

(* The queue, the renderers, the lock and the workflow always have their   *)
(* types; a renderer that is at work has a message to ack.                 *)
THEOREM Typing == Spec => [](TypeOK /\ HandlerInv)
<1>1. Init => TypeOK /\ HandlerInv
  BY InitTypeOK DEF Init, HandlerInv, HandlerOK
<1>2. TypeOK /\ HandlerInv /\ [Next]_vars => TypeOK' /\ HandlerInv'
  BY TypeOKStep
<1> QED
  BY <1>1, <1>2, PTL DEF Spec

-----------------------------------------------------------------------------
(* Who is where. *)

(* One actor at a time is inside the lock. *)
Inside == {"rendering", "requeueing"}
LockInv == \A a, b \in Actors : phase[a] \in Inside /\ phase[b] \in Inside => a = b

(* A renderer's place in its handler says where it is in the lock's life.  *)
(* A dead one that Postgres has not noticed may still be rendering; if     *)
(* RabbitMQ has noticed, that is a known way to lose messages.             *)
PlaceOK(r) ==
  /\ at[r] \in {"load", "input", "begin", "save", "stall"} => phase[r] = "rendering"
  /\ at[r] \in {"decide", "requeue", "unlock"} => phase[r] = "requeueing"
  /\ at[r] = "lock" => phase[r] = "waiting"
  /\ at[r] \in {"idle", "lookup"} => phase[r] = "idle"
  /\ at[r] = "done" => phase[r] \in {"idle", "refused"}
  /\ at[r] = "dead" /\ unacked[r] = NoMessage /\ phase[r] = "rendering" =>
       "late_unlock" \in broken

PlaceInv == \A r \in Renderers : PlaceOK(r)

(* What a result says of the past. *)
ResultOK(r) ==
  /\ result[r] = "error" => "db_error" \in broken
  /\ result[r] = "must_not_requeue" => ~exists \/ "render_bug" \in broken
  /\ at[r] \in {"stall", "decide"} => result[r] # "none"

ResultInv == \A r \in Renderers : ResultOK(r)

(* The lock lets nobody in while somebody is. *)
LEMMA LockInvStep ==
  ASSUME TypeOK, LockInv, [Next]_vars
  PROVE  LockInv'
<1>1. ASSUME NEW a \in Actors, LockStep(a) PROVE LockInv'
  <2>1. \A b \in Actors : b # a => phase'[b] = phase[b]
    BY <1>1, LockTyping DEF TypeOK
  <2>2. phase'[a] \in Inside => phase[a] \in Inside \/ Lock!Lock(a)
    <3> USE DEF TypeOK, LockTypeOK, Inside
    <3>1. CASE NoLock
      BY <3>1 DEF NoLock, lock
    <3>2. CASE Lock!Request(a, "workflow")
      BY <3>2 DEF Lock!Request
    <3>3. CASE Lock!Refuse(a) \/ Lock!StallOthers(a) \/ Lock!Unlock(a) \/ Lock!Raise(a)
      BY <3>3 DEF Lock!Refuse, Lock!StallOthers, Lock!Unlock, Lock!Raise, Lock!Move
    <3>4. CASE Lock!Restart(a)
      BY <3>4 DEF Lock!Restart, Lock!NewEpoch
    <3> QED
      BY <1>1, <3>1, <3>2, <3>3, <3>4 DEF LockStep
  <2>3. Lock!Lock(a) => \A b \in Actors : phase[b] \notin Inside
    BY DEF TypeOK, LockTypeOK, Inside, Lock!Lock, Lock!Phase, Lock!TasksIn
  <2> QED
    BY <2>1, <2>2, <2>3 DEF LockInv
<1>2. ASSUME phase' = phase PROVE LockInv'
  BY <1>2 DEF LockInv
<1> QED
  BY <1>1, <1>2, StepKinds, UserFrame, CronFrame, RendererLock DEF vars, lock, Actors

(* No step of a renderer takes it out of its place ... *)
LEMMA PlaceStep ==
  ASSUME TypeOK, HandlerInv, PlaceInv, NEW r \in Renderers, RendererStep(r)
  PROVE  PlaceInv'
<1>1. SUFFICES PlaceOK(r)'
  BY RendererFrame DEF PlaceInv, PlaceOK, OnlyMoves, Actors
<1>2. /\ at \in [Renderers -> Places] /\ unacked \in [Renderers -> Deltas \cup {NoMessage}]
      /\ r \in Actors
      /\ phase \in [Actors -> {"idle", "waiting", "rendering", "requeueing", "refused"}]
      /\ NoMessage \notin Deltas
  BY BoundsAssumption DEF TypeOK, RendererTypeOK, LockTypeOK, Actors, Deltas, NoMessage
<1>3. PlaceOK(r) /\ HandlerOK(r)
  BY DEF PlaceInv, HandlerInv
<1> USE <1>2, <1>3 DEF PlaceOK, HandlerOK, NoChange, NoLock, lock
<1>4. ASSUME NEW d \in Deltas, Deliver(r, d) PROVE PlaceOK(r)'
  BY <1>4 DEF Deliver, Goto
<1>5. CASE Lookup(r)
  BY <1>5 DEF Lookup, Goto, Lock!Request
<1>6. CASE AcquireLock(r)
  BY <1>6 DEF AcquireLock, Goto, Lock!Lock, Lock!Move
<1>7. CASE Ignore(r)
  BY <1>7 DEF Ignore, Goto, Lock!Refuse, Lock!Move
<1>8. CASE Load(r)
  BY <1>8 DEF Load, Goto, Finish
<1>9. CASE ReadInput(r)
  BY <1>9 DEF ReadInput, Goto, Finish, Unneeded
<1>10. CASE BeginStep(r)
  BY <1>10 DEF BeginStep, Goto, Finish, Unneeded
<1>11. CASE SaveStep(r)
  BY <1>11 DEF SaveStep, Goto, Finish, Unneeded
<1>12. CASE StallOthers(r)
  BY <1>12 DEF StallOthers, Goto, Lock!StallOthers, Lock!Move, Forget
<1>13. CASE Decide(r)
  BY <1>13 DEF Decide, Goto
<1>14. CASE Requeue(r)
  BY <1>14 DEF Requeue, Goto, Publish
<1>15. CASE Unlock(r)
  BY <1>15 DEF Unlock, Goto, Lock!Unlock, Lock!Move
<1>16. CASE Ack(r)
  BY <1>16 DEF Ack, Goto, Finish, Lock!Raise, Lock!Move
<1>17. CASE RabbitmqNotices(r)
  BY <1>17 DEF RabbitmqNotices
<1>18. CASE PostgresNotices(r)
  BY <1>18 DEF PostgresNotices, Lock!Restart, Lock!NewEpoch
<1>19. CASE Restart(r)
  BY <1>19 DEF Restart, Goto
<1>20. CASE DatabaseFails(r)
  BY <1>20 DEF DatabaseFails, Goto, Finish, Fault
<1>21. CASE RenderFails(r)
  BY <1>21 DEF RenderFails, Goto, Finish, Fault
<1>22. CASE Kill(r)
  BY <1>22 DEF Kill, Forget, Finish, Fault
<1> HIDE <1>2, <1>3 DEF PlaceOK, HandlerOK, NoChange, NoLock, lock
<1> QED
  BY <1>4, <1>5, <1>6, <1>7, <1>8, <1>9, <1>10, <1>11, <1>12, <1>13, <1>14, <1>15, <1>16, <1>17, <1>18, <1>19, <1>20, <1>21, <1>22 DEF RendererStep, Handle, Recover

(* ... or gives its result a false meaning. *)
LEMMA ResultStep ==
  ASSUME TypeOK, ResultInv, NEW r \in Renderers, RendererStep(r)
  PROVE  ResultInv'
<1>1. SUFFICES ResultOK(r)'
  BY RendererFrame DEF ResultInv, ResultOK, OnlyMoves
<1>2. /\ at \in [Renderers -> Places] /\ result \in [Renderers -> Results]
      /\ exists' = exists
  BY RendererFrame DEF TypeOK, RendererTypeOK, OnlyMoves
<1>3. ResultOK(r)
  BY DEF ResultInv
<1> USE <1>2, <1>3 DEF ResultOK, NoChange, workflow
<1>4. ASSUME NEW d \in Deltas, Deliver(r, d) PROVE ResultOK(r)'
  BY <1>4 DEF Deliver, Goto
<1>5. CASE Lookup(r)
  BY <1>5 DEF Lookup, Goto, Lock!Request
<1>6. CASE AcquireLock(r)
  BY <1>6 DEF AcquireLock, Goto, Lock!Lock, Lock!Move
<1>7. CASE Ignore(r)
  BY <1>7 DEF Ignore, Goto, Lock!Refuse, Lock!Move
<1>8. CASE Load(r)
  BY <1>8 DEF Load, Goto, Finish
<1>9. CASE ReadInput(r)
  BY <1>9 DEF ReadInput, Goto, Finish, Unneeded
<1>10. CASE BeginStep(r)
  BY <1>10 DEF BeginStep, Goto, Finish, Unneeded
<1>11. CASE SaveStep(r)
  BY <1>11 DEF SaveStep, Goto, Finish, Unneeded
<1>12. CASE StallOthers(r)
  BY <1>12 DEF StallOthers, Goto, Lock!StallOthers, Lock!Move, Forget
<1>13. CASE Decide(r)
  BY <1>13 DEF Decide, Goto
<1>14. CASE Requeue(r)
  BY <1>14 DEF Requeue, Goto, Publish
<1>15. CASE Unlock(r)
  BY <1>15 DEF Unlock, Goto, Lock!Unlock, Lock!Move
<1>16. CASE Ack(r)
  BY <1>16 DEF Ack, Goto, Finish, Lock!Raise, Lock!Move
<1>17. CASE RabbitmqNotices(r)
  BY <1>17 DEF RabbitmqNotices
<1>18. CASE PostgresNotices(r)
  BY <1>18 DEF PostgresNotices, Lock!Restart, Lock!NewEpoch
<1>19. CASE Restart(r)
  BY <1>19 DEF Restart, Goto
<1>20. CASE DatabaseFails(r)
  BY <1>20 DEF DatabaseFails, Goto, Finish, Fault
<1>21. CASE RenderFails(r)
  BY <1>21 DEF RenderFails, Goto, Finish, Fault
<1>22. CASE Kill(r)
  BY <1>22 DEF Kill, Forget, Finish, Fault
<1> HIDE <1>2, <1>3 DEF ResultOK, NoChange, workflow
<1> QED
  BY <1>4, <1>5, <1>6, <1>7, <1>8, <1>9, <1>10, <1>11, <1>12, <1>13, <1>14, <1>15, <1>16, <1>17, <1>18, <1>19, <1>20, <1>21, <1>22 DEF RendererStep, Handle, Recover

-----------------------------------------------------------------------------
(* What a renderer knows.  The ids of the chain ascend, and the next delta *)
(* gets one that was never used.                                           *)
ChainInv ==
  /\ \A i \in 1 .. Len(chain) : chain[i].id \in 1 .. edits
  /\ \A i, j \in 1 .. Len(chain) : i < j => chain[i].id < chain[j].id

(* workflow.last_delta_id when the first i deltas of chain c are applied. *)
IdIn(c, i) == IF i = 0 THEN 0 ELSE c[i].id

(* When chain c is undone or redone to delta d, f gives the steps' relevant *)
(* deltas.                                                                  *)
TrueIn(c, d, f) == \A i \in 0 .. Len(c) : IdIn(c, i) = d =>
  \A s \in Steps : f[s] = RelevantIn(c, i, s)

(* A chain goes through a delta id at one point only. *)
LEMMA IdsDiffer ==
  ASSUME ChainTypeOK, ChainInv, NEW i \in 0 .. Len(chain), NEW j \in 0 .. Len(chain),
         IdIn(chain, i) = IdIn(chain, j)
  PROVE  i = j
<1>1. Len(chain) \in Nat
  BY LenProperties DEF ChainTypeOK
<1>2. \A k \in 0 .. Len(chain) : k # 0 => chain[k].id \in 1 .. edits
  BY <1>1 DEF ChainInv
<1>3. CASE i = 0 \/ j = 0
  BY <1>1, <1>2, <1>3 DEF IdIn
<1>4. CASE i # 0 /\ j # 0
  <2>1. chain[i].id = chain[j].id /\ chain[i].id \in Int
    BY <1>2, <1>4 DEF IdIn
  <2>2. i \in 1 .. Len(chain) /\ j \in 1 .. Len(chain)
    BY <1>1, <1>4
  <2>3. ~(i < j) /\ ~(j < i)
    BY <2>1, <2>2 DEF ChainInv
  <2> QED
    BY <2>2, <2>3
<1> QED
  BY <1>3, <1>4

(* What holds of the workflow's last delta is what holds now. *)
LEMMA TrueNow ==
  ASSUME ChainTypeOK, ChainInv, NEW f
  PROVE  TrueIn(chain, LastDelta, f) <=> \A s \in Steps : f[s] = Relevant(s)
<1>1. applied \in 0 .. Len(chain) /\ LastDelta = IdIn(chain, applied)
  BY DEF ChainTypeOK, LastDelta, IdIn
<1>2. \A s \in Steps : Relevant(s) = RelevantIn(chain, applied, s)
  BY DEF Relevant, RelevantIn
<1>3. \A i \in 0 .. Len(chain) : IdIn(chain, i) = LastDelta => i = applied
  BY <1>1, IdsDiffer
<1> QED
  BY <1>1, <1>2, <1>3 DEF TrueIn

(* Whatever the users do, the past of a delta id that has been used stays  *)
(* as it was.                                                              *)
LEMMA PastIsKept ==
  ASSUME TypeOK, ChainInv, UserStep
  PROVE  /\ ChainInv' /\ edits <= edits'
         /\ \A d \in 0 .. edits : \A f : TrueIn(chain, d, f) => TrueIn(chain', d, f)
<1>1. /\ chain \in Seq(Delta) /\ applied \in 0 .. Len(chain) /\ Len(chain) \in Nat
      /\ edits \in Nat
  BY LenProperties DEF TypeOK, ChainTypeOK, WorkflowTypeOK
<1>2. CASE chain' = chain /\ edits' \in {edits, edits + 1}
  <2>1. edits' \in Nat /\ edits <= edits'
    BY <1>1, <1>2
  <2>2. ChainInv'
    BY <1>1, <1>2, <2>1 DEF ChainInv
  <2>3. \A d, f : TrueIn(chain, d, f) <=> TrueIn(chain', d, f)
    BY <1>2
  <2> QED
    BY <2>1, <2>2, <2>3
<1>3. CASE Do
  <2>1. PICK first \in 1 .. NSteps + 1 :
          /\ edits < MaxEdits /\ edits' = edits + 1
          /\ chain' = Append(SubSeq(chain, 1, applied), [id |-> edits + 1, first |-> first])
    BY <1>3 DEF Do, CanEdit
  <2> DEFINE e == [id |-> edits + 1, first |-> first]
  <2>2. e \in Delta /\ e.id = edits + 1
    BY <1>1, <2>1, BoundsAssumption DEF Delta, Deltas
  <2> HIDE DEF e
  <2>3. /\ Len(chain') = applied + 1 /\ \A i \in 1 .. applied : chain'[i] = chain[i]
        /\ chain'[applied + 1] = e
    BY <1>1, <2>1, <2>2, DoneChain DEF e
  <2>4. \A i \in 1 .. applied : i \in 1 .. Len(chain) /\ chain[i].id \in 1 .. edits
    BY <1>1 DEF ChainInv
  <2>5. \A i \in 1 .. Len(chain') :
          \/ i \in 1 .. applied /\ chain'[i].id = chain[i].id
          \/ i = applied + 1 /\ chain'[i].id = edits + 1
    BY <1>1, <2>2, <2>3
  <2>6. ChainInv'
    <3>1. \A i \in 1 .. Len(chain') : chain'[i].id \in 1 .. edits + 1
      BY <1>1, <2>4, <2>5, SMTT(60)
    <3>2. ASSUME NEW i \in 1 .. Len(chain'), NEW j \in 1 .. Len(chain'), i < j
          PROVE  chain'[i].id < chain'[j].id
      <4>1. i \in 1 .. applied /\ chain'[i].id = chain[i].id /\ chain[i].id \in 1 .. edits
        BY <1>1, <2>3, <2>4, <2>5, <3>2
      <4>2. CASE j = applied + 1
        BY <1>1, <2>5, <4>1, <4>2, SMTT(60)
      <4>3. CASE j # applied + 1
        <5>1. j \in 1 .. applied /\ chain'[j].id = chain[j].id
          BY <2>5, <4>3
        <5> QED
          BY <2>4, <3>2, <4>1, <5>1 DEF ChainInv
      <4> QED
        BY <4>2, <4>3
    <3> QED
      BY <2>1, <3>1, <3>2 DEF ChainInv
  <2>7. ASSUME NEW d \in 0 .. edits, NEW f, TrueIn(chain, d, f)
        PROVE  TrueIn(chain', d, f)
    <3> SUFFICES ASSUME NEW i \in 0 .. Len(chain'), IdIn(chain', i) = d, NEW s \in Steps
                 PROVE  f[s] = RelevantIn(chain', i, s)
      BY DEF TrueIn
    <3>1. i \in 0 .. applied
      <4>1. i \in 0 .. applied + 1 /\ applied \in Nat
        BY <1>1, <2>3
      <4>2. i # applied + 1
        BY <1>1, <2>2, <2>3, <4>1 DEF IdIn
      <4> QED
        BY <4>1, <4>2
    <3>2. i \in 0 .. Len(chain) /\ IdIn(chain, i) = d
      BY <1>1, <2>3, <3>1 DEF IdIn
    <3>3. RelevantIn(chain', i, s) = RelevantIn(chain, i, s)
      <4>1. i \in Nat /\ \A j \in 1 .. i : chain'[j] = chain[j]
        BY <1>1, <2>3, <3>1
      <4> QED
        BY <4>1, RelevantOfPrefix, ZenonT(60)
    <3> QED
      BY <2>7, <3>2, <3>3 DEF TrueIn
  <2> QED
    BY <1>1, <2>1, <2>6, <2>7
<1>4. Do \/ (chain' = chain /\ edits' \in {edits, edits + 1})
  BY DEF UserStep, Undo, Redo, OpenPage, Delete, WebPublishes, CanEdit, workflow
<1> QED
  BY <1>2, <1>3, <1>4

(* A renderer in the middle of a render knows the steps as they were at    *)
(* its message's delta, and has made the steps it has passed agree.        *)
MemoryOK(r) == at[r] \in {"input", "begin", "save"} =>
  /\ unacked[r] \in 0 .. edits
  /\ TrueIn(chain, unacked[r], seen[r])
  /\ \A s \in Steps : s < next[r] => cached[s] = seen[r][s]

(* One that has come to the end has made all of them agree. *)
RenderedOK(r) == at[r] \in {"stall", "decide"} /\ result[r] = "check_to_requeue" =>
  /\ unacked[r] \in 0 .. edits
  /\ TrueIn(chain, unacked[r], cached)

MemoryInv == \A r \in Renderers : MemoryOK(r) /\ RenderedOK(r)

(* No user disturbs that. *)
LEMMA MemoryUserStep ==
  ASSUME TypeOK, ChainInv, MemoryInv, UserStep PROVE MemoryInv'
<1>1. edits \in Nat /\ edits' \in Nat
  BY UserTyping DEF TypeOK, WorkflowTypeOK
<1>2. UNCHANGED <<cached, at, unacked, seen, next, result>>
  BY UserFrame DEF memory
<1>3. \A d \in 0 .. edits : d \in 0 .. edits'
  BY <1>1, PastIsKept
<1>4. \A d \in 0 .. edits : \A f : TrueIn(chain, d, f) => TrueIn(chain', d, f)
  BY PastIsKept
<1>5. ASSUME NEW r \in Renderers PROVE MemoryOK(r)'
  BY <1>2, <1>3, <1>4 DEF MemoryInv, MemoryOK
<1>6. ASSUME NEW r \in Renderers PROVE RenderedOK(r)'
  BY <1>2, <1>3, <1>4 DEF MemoryInv, RenderedOK
<1> QED
  BY <1>5, <1>6 DEF MemoryInv

(* No other renderer does, for it is not in the lock. *)
LEMMA MemoryOthersStep ==
  ASSUME TypeOK, LockInv, PlaceInv, MemoryInv, NEW r \in Renderers, RendererStep(r),
         NEW q \in Renderers, q # r
  PROVE  MemoryOK(q)' /\ RenderedOK(q)'
<1>1. /\ at'[q] = at[q] /\ unacked'[q] = unacked[q] /\ seen'[q] = seen[q]
      /\ next'[q] = next[q] /\ result'[q] = result[q]
      /\ chain' = chain /\ edits' = edits
  BY RendererFrame DEF OnlyMoves
<1>2. CASE cached' = cached
  BY <1>1, <1>2 DEF MemoryInv, MemoryOK, RenderedOK
<1>3. CASE SaveStep(r)
  <2>1. phase[r] = "rendering"
    BY <1>3 DEF SaveStep, Unneeded, Goto, PlaceInv, PlaceOK
  <2>2. phase[q] \notin Inside
    BY <2>1 DEF LockInv, Inside, Actors
  <2>3. at[q] \notin {"input", "begin", "save", "stall", "decide"}
    BY <2>2 DEF PlaceInv, PlaceOK, Inside
  <2> QED
    BY <1>1, <2>3 DEF MemoryOK, RenderedOK
<1> QED
  BY <1>2, <1>3
     DEF RendererStep, Handle, Recover, Deliver, Lookup, AcquireLock, Ignore, Load, ReadInput,
         BeginStep, Unneeded, StallOthers, Decide, Requeue, Unlock, Ack, RabbitmqNotices,
         PostgresNotices, Restart, DatabaseFails, RenderFails, Kill

(* A renderer that loads the workflow knows it, and begins where it is     *)
(* stale.                                                                  *)
LEMMA MemoryLoad ==
  ASSUME TypeOK, ChainInv, NEW r \in Renderers, Load(r)
  PROVE  MemoryOK(r)'
<1> USE DEF NoChange, NoLock, workflow, memory
<1>1. CASE at'[r] = "input"
  <2>1. /\ LastDelta = unacked[r] /\ UNCHANGED <<chain, edits, cached, unacked>>
        /\ seen'[r] = [s \in Steps |-> Relevant(s)]
        /\ next'[r] = IF Fresh THEN NSteps + 1
                      ELSE CHOOSE s \in Stale : \A u \in Stale : s <= u
    BY <1>1 DEF Load, Goto, TypeOK, RendererTypeOK
  <2>2. TrueIn(chain, unacked[r], seen'[r])
    BY <2>1, TrueNow DEF TypeOK
  <2>3. LastDelta \in 0 .. edits
    BY BoundsAssumption DEF LastDelta, ChainInv, TypeOK, ChainTypeOK, WorkflowTypeOK
  <2>4. ASSUME NEW s \in Steps, s < next'[r] PROVE s \notin Stale
    <3>1. CASE Fresh
      BY <3>1 DEF Fresh
    <3>2. CASE ~Fresh
      <4> DEFINE first == CHOOSE u \in Stale : \A v \in Stale : u <= v
      <4>1. first \in Stale /\ \A u \in Stale : first <= u
        BY <3>2, FirstStale
      <4>2. next'[r] = first
        BY <2>1, <3>2
      <4> HIDE DEF first
      <4>3. s \in Nat /\ first \in Nat
        BY <4>1, BoundsAssumption DEF Steps, Stale
      <4>4. ~(first <= s)
        BY <2>4, <4>2, <4>3
      <4> QED
        BY <4>1, <4>4
    <3> QED
      BY <3>1, <3>2
  <2>5. \A s \in Steps : s < next'[r] => cached'[s] = seen'[r][s]
    BY <2>1, <2>4 DEF Stale
  <2> QED
    BY <2>1, <2>2, <2>3, <2>5 DEF MemoryOK
<1>2. CASE at'[r] # "input"
  BY <1>2 DEF Load, Goto, MemoryOK, TypeOK, RendererTypeOK
<1> QED
  BY <1>1, <1>2

(* It keeps its knowledge, step by step, until it has made every step      *)
(* agree.                                                                  *)
LEMMA MemoryOwnStep ==
  ASSUME TypeOK, ChainInv, HandlerInv, MemoryInv, NEW r \in Renderers, RendererStep(r)
  PROVE  MemoryOK(r)' /\ RenderedOK(r)'
<1>1. /\ at \in [Renderers -> Places] /\ result \in [Renderers -> Results]
      /\ unacked \in [Renderers -> Deltas \cup {NoMessage}]
      /\ next \in [Renderers -> 1 .. NSteps + 1] /\ cached \in [Steps -> Deltas]
      /\ chain' = chain /\ edits' = edits /\ NSteps \in Nat
  BY RendererFrame, BoundsAssumption DEF TypeOK, RendererTypeOK, WorkflowTypeOK, OnlyMoves
<1>2. MemoryOK(r) /\ RenderedOK(r) /\ HandlerOK(r)
  BY DEF MemoryInv, HandlerInv
<1>3. CASE Load(r)
  <2>1. MemoryOK(r)'
    BY <1>3, MemoryLoad
  <2>2. RenderedOK(r)'
    BY <1>1, <1>3 DEF Load, Goto, Finish, RenderedOK
  <2> QED
    BY <2>1, <2>2
<1>4. CASE ReadInput(r)
  BY <1>1, <1>2, <1>4
     DEF ReadInput, Goto, Finish, Unneeded, memory, MemoryOK, RenderedOK
<1>5. CASE BeginStep(r) /\ next[r] > NSteps
  <2>1. /\ at[r] = "begin" /\ at'[r] = "stall" /\ unacked' = unacked /\ cached' = cached
    BY <1>1, <1>5 DEF BeginStep, Goto
  <2>2. unacked[r] \in 0 .. edits /\ TrueIn(chain, unacked[r], seen[r])
    BY <1>2, <2>1 DEF MemoryOK
  <2>3. \A s \in Steps : cached[s] = seen[r][s]
    BY <1>1, <1>2, <1>5, <2>1 DEF MemoryOK, Steps
  <2>4. TrueIn(chain, unacked[r], cached)
    BY <2>2, <2>3 DEF TrueIn
  <2> QED
    BY <1>1, <2>1, <2>2, <2>4 DEF MemoryOK, RenderedOK
<1>6. CASE BeginStep(r) /\ ~(next[r] > NSteps)
  BY <1>1, <1>2, <1>6
     DEF BeginStep, Goto, Finish, Unneeded, memory, MemoryOK, RenderedOK
<1>7. CASE SaveStep(r)
  <2>1. CASE Unneeded(r, "save", next[r]) /\ UNCHANGED next
    BY <1>1, <1>2, <1>7, <2>1
       DEF SaveStep, Goto, Finish, Unneeded, MemoryOK, RenderedOK
  <2>2. CASE Goto(r, "save", "begin")
    <3>1. /\ at[r] = "save" /\ at'[r] = "begin" /\ UNCHANGED <<unacked, seen>>
          /\ cached' = [cached EXCEPT ![next[r]] = seen[r][next[r]]]
          /\ next'[r] = next[r] + 1 /\ next[r] \in Steps
      BY <1>1, <1>2, <1>7, <2>2 DEF SaveStep, Goto, Unneeded, HandlerOK
    <3>2. \A s \in Steps : s < next'[r] => cached'[s] = seen[r][s]
      BY <1>1, <1>2, <3>1 DEF MemoryOK, Steps
    <3> QED
      BY <1>1, <1>2, <3>1, <3>2 DEF MemoryOK, RenderedOK
  <2> QED
    BY <1>7, <2>1, <2>2 DEF SaveStep
<1>8. CASE StallOthers(r)
  BY <1>1, <1>2, <1>8 DEF StallOthers, Goto, MemoryOK, RenderedOK
<1>9. CASE RendererStep(r) /\ at'[r] \notin {"input", "begin", "save", "stall", "decide"}
  BY <1>9 DEF MemoryOK, RenderedOK
<1>10. CASE DatabaseFails(r) \/ RenderFails(r)
  BY <1>1, <1>10 DEF DatabaseFails, RenderFails, Goto, Finish, MemoryOK, RenderedOK
<1>11. CASE RabbitmqNotices(r) \/ PostgresNotices(r)
  BY <1>1, <1>11 DEF RabbitmqNotices, PostgresNotices, MemoryOK, RenderedOK
<1> QED
  BY <1>1, <1>3, <1>4, <1>5, <1>6, <1>7, <1>8, <1>9, <1>10, <1>11
     DEF RendererStep, Handle, Recover, Deliver, Lookup, AcquireLock, Ignore, Decide, Requeue,
         Unlock, Ack, Restart, Kill, Goto, Places


-----------------------------------------------------------------------------
(* Who owes a render. *)

(* A workflow that is owed a render is there and has a stale step. *)
OwedInv == owed => exists /\ ~Fresh

(* A renderer that will render the workflow, publish another message, or   *)
(* have its message delivered again.                                       *)
Responsible(r) ==
  /\ unacked[r] # NoMessage
  /\ \/ at[r] \in {"lookup", "lock", "load", "input", "begin", "save", "requeue", "dead"}
     \/ at[r] \in {"stall", "decide"} /\ result[r] \in {"check_to_requeue", "must_requeue"}

Promised == \/ \E d \in Deltas : queue[d] > 0
            \/ \E r \in Renderers : Responsible(r)

QueuedInv == broken = {} /\ owed => Promised

(* Which steps are stale depends on the chain and the cache. *)
LEMMA FreshFrame ==
  ASSUME UNCHANGED <<chain, applied, cached>>
  PROVE  Fresh' <=> Fresh
<1>1. \A s : Relevant(s)' = Relevant(s)
  BY DEF Relevant
<1> QED
  BY <1>1 DEF Fresh, Stale

(* The users owe a render only where one is due ... *)
LEMMA OwedUserStep ==
  ASSUME TypeOK, OwedInv, UserStep PROVE OwedInv'
<1>1. CASE Do \/ Undo \/ Redo \/ OpenPage
  BY <1>1 DEF Do, Undo, Redo, OpenPage, CanEdit, Committed, OwedInv
<1>2. CASE Delete
  BY <1>2 DEF Delete, OwedInv
<1>3. ASSUME NEW d \in Deltas, WebPublishes(d) PROVE OwedInv'
  BY <1>3, FreshFrame DEF WebPublishes, Publish, OwedInv, workflow
<1> QED
  BY <1>1, <1>2, <1>3 DEF UserStep

(* ... and the renderers know when one is done. *)
LEMMA OwedRendererStep ==
  ASSUME TypeOK, HandlerInv, OwedInv, NEW r \in Renderers, RendererStep(r)
  PROVE  OwedInv'
<1>1. UNCHANGED <<chain, applied, exists>>
  BY RendererFrame DEF OnlyMoves
<1>2. CASE cached' = cached /\ (owed' = owed \/ owed' = (exists /\ ~Fresh))
  BY <1>1, <1>2, FreshFrame DEF OwedInv
<1>3. CASE SaveStep(r) /\ Goto(r, "save", "begin")
  <2> DEFINE s == next[r]
  <2>1. at[r] = "save" /\ at'[r] = "begin" /\ at \in [Renderers -> Places]
    BY <1>3 DEF Goto, TypeOK, RendererTypeOK
  <2>2. /\ seen[r][s] = Relevant(s) /\ cached' = [cached EXCEPT ![s] = seen[r][s]]
        /\ owed' = (owed /\ Stale \ {s} # {})
    BY <1>3, <2>1 DEF SaveStep, Unneeded, Goto, StepChanged
  <2>3. s \in Steps /\ cached \in [Steps -> Deltas]
    BY <2>1 DEF HandlerInv, HandlerOK, TypeOK, WorkflowTypeOK
  <2>4. \A u \in Steps : Relevant(u)' = Relevant(u)
    BY <1>1 DEF Relevant
  <2> HIDE DEF s
  <2>5. Stale' = Stale \ {s}
    BY <2>2, <2>3, <2>4 DEF Stale
  <2> QED
    BY <1>1, <2>2, <2>5 DEF OwedInv, Fresh
<1> QED
  BY <1>2, <1>3
     DEF RendererStep, Handle, Recover, Deliver, Lookup, AcquireLock, Ignore, Load, ReadInput,
         BeginStep, SaveStep, Unneeded, StallOthers, Decide, Requeue, Publish, Unlock, Ack,
         RabbitmqNotices, PostgresNotices, Restart, DatabaseFails, RenderFails, Kill

(* A render is refused because another renderer will see to it, or a       *)
(* message has been lost.                                                  *)
LEMMA RefusedForGoodReason ==
  ASSUME TypeOK, HandlerInv, PlaceInv, ResultInv, OwedInv,
         NEW r \in Renderers, Ignore(r), owed, broken' = {}
  PROVE  \E q \in Renderers : q # r /\ Responsible(q)
<1>1. phase[r] = "waiting" /\ Lock!Phase(target[r]) = "rendering"
  BY DEF Ignore, Lock!Refuse, Lock!Move
<1>2. PICK a \in Actors : phase[a] = "rendering"
  BY <1>1 DEF Lock!Phase, Lock!TasksIn
<1>3. broken = {} /\ a # Cron
  BY <1>2 DEF Ignore
<1>4. a \in Renderers /\ a # r
  BY <1>1, <1>2, <1>3 DEF Actors
<1>5. /\ at[a] \in Places /\ result[a] \in Results /\ NoMessage \notin Deltas
      /\ PlaceOK(a) /\ ResultOK(a) /\ HandlerOK(a) /\ exists
  BY <1>4, BoundsAssumption
     DEF TypeOK, RendererTypeOK, PlaceInv, ResultInv, HandlerInv, OwedInv, Deltas, NoMessage
<1>6. at[a] \in {"load", "input", "begin", "save", "stall", "dead"}
  BY <1>2, <1>5 DEF PlaceOK, Places
<1>7. at[a] = "stall" => result[a] \in {"check_to_requeue", "must_requeue"}
  BY <1>3, <1>5 DEF ResultOK, Results
<1>8. unacked[a] # NoMessage
  BY <1>2, <1>3, <1>5, <1>6 DEF PlaceOK, HandlerOK
<1>9. Responsible(a)
  BY <1>6, <1>7, <1>8 DEF Responsible
<1> QED
  BY <1>4, <1>9

(* A renderer that finds the workflow at the delta it rendered leaves it   *)
(* fresh.                                                                  *)
LEMMA RenderedMeansFresh ==
  ASSUME TypeOK, ChainInv, MemoryInv, NEW r \in Renderers,
         at[r] = "decide", result[r] = "check_to_requeue", LastDelta = unacked[r]
  PROVE  Fresh
<1>1. TrueIn(chain, LastDelta, cached)
  BY DEF MemoryInv, RenderedOK
<1>2. \A s \in Steps : cached[s] = Relevant(s)
  BY <1>1, TrueNow DEF TypeOK
<1> QED
  BY <1>2 DEF Fresh, Stale

(* A renderer that owes a render passes the duty on, or does it. *)
LEMMA DutyStep ==
  ASSUME TypeOK, HandlerInv, PlaceInv, ResultInv, ChainInv, MemoryInv, OwedInv,
         NEW r \in Renderers, RendererStep(r), Responsible(r), owed', broken' = {}
  PROVE  Promised'
<1> USE DEF NoChange, NoLock, workflow, memory
<1>2. /\ at \in [Renderers -> Places] /\ result \in [Renderers -> Results]
      /\ unacked \in [Renderers -> Deltas \cup {NoMessage}] /\ queue \in [Deltas -> Nat]
      /\ requeue[r] \in Deltas
  BY DEF TypeOK, RendererTypeOK, QueueTypeOK
<1>3. broken = {} /\ (at[r] # "requeue" => owed)
  <2>1. broken = {}
    BY RendererFrame DEF OnlyMoves
  <2>2. at[r] # "requeue" => owed
    BY <1>2
       DEF RendererStep, Handle, Recover, Deliver, Lookup, AcquireLock, Ignore, Load, ReadInput,
           BeginStep, SaveStep, Unneeded, Goto, StallOthers, Decide, Requeue, Unlock, Ack,
           RabbitmqNotices, PostgresNotices, Restart, DatabaseFails, RenderFails, Kill
  <2> QED
    BY <2>1, <2>2
<1>4. Responsible(r)' => Promised'
  BY DEF Promised
<1>5. ASSUME NEW d \in Deltas, Deliver(r, d) PROVE Promised'
  BY <1>5 DEF Deliver, Goto, Responsible
<1>6. CASE Lookup(r)
  <2>1. exists
    BY <1>3, <1>6 DEF Lookup, OwedInv
  <2> QED
    BY <1>2, <1>4, <1>6, <2>1, <1>4 DEF Lookup, Goto, Responsible
<1>7. CASE AcquireLock(r)
  BY <1>2, <1>4, <1>7 DEF AcquireLock, Goto, Lock!Lock, Lock!Move, Responsible
<1>8. CASE Ignore(r)
  <2>1. PICK q \in Renderers : q # r /\ Responsible(q)
    BY <1>3, <1>8, RefusedForGoodReason DEF Ignore
  <2>2. Responsible(q)'
    BY <1>2, <2>1, RendererFrame DEF OnlyMoves, Responsible
  <2> QED
    BY <2>2 DEF Promised
<1>9. CASE Load(r)
  <2>1. exists
    BY <1>3, <1>9 DEF Load, OwedInv
  <2> QED
    BY <1>2, <1>4, <1>9, <2>1, <1>4 DEF Load, Goto, Finish, Responsible
<1>10. CASE ReadInput(r)
  BY <1>2, <1>4, <1>10 DEF ReadInput, Goto, Finish, Unneeded, Responsible
<1>11. CASE BeginStep(r)
  BY <1>2, <1>4, <1>11 DEF BeginStep, Goto, Finish, Unneeded, Responsible
<1>12. CASE SaveStep(r)
  BY <1>2, <1>4, <1>12 DEF SaveStep, Goto, Finish, Unneeded, Responsible
<1>13. CASE StallOthers(r)
  <2>1. result[r] # "error"
    BY <1>2, <1>4, <1>3 DEF ResultInv, ResultOK
  <2> QED
    BY <1>2, <1>4, <1>13, <2>1, <1>4 DEF StallOthers, Goto, Responsible
<1>14. CASE Decide(r)
  <2>1. CASE at'[r] = "requeue"
    BY <1>2, <1>4, <1>14, <2>1, <1>4 DEF Decide, Responsible
  <2>2. CASE at'[r] # "requeue"
    <3>1. at[r] = "decide" /\ owed
      BY <1>3, <1>14 DEF Decide, Goto
    <3>2. /\ result[r] = "check_to_requeue"
          /\ ~exists \/ LastDelta = unacked[r]
      BY <1>2, <1>4, <1>14, <2>2, <3>1 DEF Decide, Goto, Responsible
    <3> QED
      BY <3>1, <3>2, RenderedMeansFresh DEF OwedInv
  <2> QED
    BY <2>1, <2>2
<1>15. CASE Requeue(r)
  BY <1>2, <1>4, <1>15 DEF Requeue, Publish, Promised
<1>16. CASE Unlock(r)
  BY <1>2, <1>4, <1>16 DEF Unlock, Goto, Lock!Unlock, Lock!Move, Responsible
<1>17. CASE Ack(r)
  BY <1>2, <1>4, <1>17 DEF Ack, Goto, Finish, Lock!Raise, Lock!Move, Responsible
<1>18. CASE RabbitmqNotices(r)
  BY <1>2, <1>4, <1>18 DEF RabbitmqNotices, Promised
<1>19. CASE PostgresNotices(r)
  BY <1>2, <1>4, <1>19 DEF PostgresNotices, Lock!Restart, Lock!NewEpoch, Responsible
<1>20. CASE Restart(r)
  BY <1>2, <1>4, <1>20 DEF Restart, Goto, Responsible
<1>21. CASE DatabaseFails(r)
  BY <1>3, <1>21 DEF DatabaseFails
<1>22. CASE RenderFails(r)
  BY <1>3, <1>22 DEF RenderFails
<1>23. CASE Kill(r)
  BY <1>2, <1>4, <1>23 DEF Kill, Forget, Finish, Fault, Responsible
<1> QED
  BY <1>5, <1>6, <1>7, <1>8, <1>9, <1>10, <1>11, <1>12, <1>13, <1>14, <1>15, <1>16, <1>17, <1>18, <1>19, <1>20, <1>21, <1>22, <1>23 DEF RendererStep, Handle, Recover

(* No message leaves the queue but for a renderer. *)
LEMMA QueueStep ==
  ASSUME TypeOK, NEW r \in Renderers, RendererStep(r), NEW d \in Deltas, queue[d] > 0
  PROVE  Promised'
<1>1. /\ queue \in [Deltas -> Nat] /\ NoMessage \notin Deltas
      /\ at \in [Renderers -> Places] /\ unacked \in [Renderers -> Deltas \cup {NoMessage}]
  BY BoundsAssumption DEF TypeOK, QueueTypeOK, RendererTypeOK, Deltas, NoMessage
<1>2. CASE queue' = queue
  BY <1>2 DEF Promised
<1>3. ASSUME NEW e \in Deltas, Deliver(r, e) PROVE Promised'
  BY <1>1, <1>3 DEF Deliver, Goto, Promised, Responsible
<1>4. CASE Requeue(r)
  BY <1>1, <1>4 DEF Requeue, Publish, Promised
<1>5. CASE RabbitmqNotices(r)
  BY <1>1, <1>5 DEF RabbitmqNotices, Promised
<1> QED
  BY <1>2, <1>3, <1>4, <1>5
     DEF RendererStep, Handle, Recover, Lookup, AcquireLock, Ignore, Load, ReadInput,
         BeginStep, SaveStep, StallOthers, Decide, Unlock, Ack,
         PostgresNotices, Restart, DatabaseFails, RenderFails, Kill

(* So the promise to render is kept. *)
LEMMA QueuedStep ==
  ASSUME TypeOK, HandlerInv, PlaceInv, ResultInv, ChainInv, MemoryInv, OwedInv, QueuedInv, Next
  PROVE  QueuedInv'
<1> SUFFICES ASSUME broken' = {}, owed' PROVE Promised'
  BY DEF QueuedInv
<1>0. queue \in [Deltas -> Nat] /\ \A r \in Renderers : requeue[r] \in Deltas
  BY DEF TypeOK, QueueTypeOK, RendererTypeOK
<1>1. ASSUME NEW d \in Deltas, queue' = [queue EXCEPT ![d] = @ + 1] PROVE Promised'
  BY <1>0, <1>1 DEF Promised
<1>2. CASE UserStep
  <2>1. UNCHANGED <<at, unacked, result, broken>>
    BY <1>2, UserFrame DEF ghosts
  <2>2. ASSUME NEW d \in Deltas, WebPublishes(d) PROVE Promised'
    BY <1>1, <2>2 DEF WebPublishes, Publish
  <2>3. CASE queue' = queue /\ (owed' => owed)
    BY <2>1, <2>3 DEF QueuedInv, Promised, Responsible
  <2> QED
    BY <1>2, <2>2, <2>3 DEF UserStep, Do, Undo, Redo, OpenPage, Delete, Committed
<1>3. CASE CronStep
  BY <1>3, CronFrame DEF QueuedInv, Promised, Responsible, ghosts
<1>4. ASSUME NEW r \in Renderers, RendererStep(r) PROVE Promised'
  <2>1. CASE Requeue(r)
    BY <1>0, <1>1, <2>1 DEF Requeue, Publish
  <2>2. CASE ~Requeue(r)
    <3>1. owed
      BY <1>4, <2>2
         DEF RendererStep, Handle, Recover, Deliver, Lookup, AcquireLock, Ignore, Load, ReadInput,
             BeginStep, SaveStep, Unneeded, StallOthers, Decide, Unlock, Ack,
             RabbitmqNotices, PostgresNotices, Restart, DatabaseFails, RenderFails, Kill
    <3>2. broken = {}
      BY <1>4, RendererFrame DEF OnlyMoves
    <3>3. ASSUME NEW q \in Renderers, Responsible(q), q # r PROVE Promised'
      BY <1>4, <3>3, RendererFrame DEF OnlyMoves, Promised, Responsible
    <3> QED
      BY <1>4, <3>1, <3>2, <3>3, DutyStep, QueueStep DEF QueuedInv, Promised
  <2> QED
    BY <2>1, <2>2
<1> QED
  BY <1>2, <1>3, <1>4, StepKinds

(* No user or cron moves a renderer, or takes its place in the lock. *)
LEMMA PlacesKept ==
  ASSUME TypeOK, PlaceInv, ResultInv, UserStep \/ CronStep
  PROVE  PlaceInv' /\ ResultInv'
<1>1. UNCHANGED <<at, unacked, result, broken>> /\ (exists' = exists \/ exists' = FALSE)
  BY UserFrame, CronFrame DEF ghosts, workflow
<1>2. \A r \in Renderers : phase'[r] = phase[r]
  <2>1. CASE UserStep
    BY <2>1, UserFrame DEF lock
  <2>2. CASE CronStep
    BY <2>2, CronFrame, LockTyping, CronAssumption DEF TypeOK, Actors
  <2> QED
    BY <2>1, <2>2
<1> QED
  BY <1>1, <1>2 DEF PlaceInv, PlaceOK, ResultInv, ResultOK

(* The inductive invariant. *)
IInv == /\ TypeOK /\ HandlerInv
        /\ LockInv /\ PlaceInv /\ ResultInv
        /\ ChainInv /\ MemoryInv
        /\ OwedInv /\ QueuedInv

(* It holds when the system starts ... *)
LEMMA IInvInit == Init => IInv
<1> SUFFICES ASSUME Init PROVE IInv
  OBVIOUS
<1>1. TypeOK
  BY InitTypeOK
<1>2. LockInv /\ PlaceInv /\ ResultInv /\ HandlerInv
  BY DEF Init, Lock!Init, LockInv, Inside, PlaceInv, PlaceOK, ResultInv, ResultOK, HandlerInv,
         HandlerOK, Actors
<1>3. ChainInv
  BY LenProperties DEF Init, ChainInv
<1>4. MemoryInv /\ OwedInv /\ QueuedInv
  BY DEF Init, MemoryInv, MemoryOK, RenderedOK, OwedInv, QueuedInv
<1> QED
  BY <1>1, <1>2, <1>3, <1>4 DEF IInv

(* ... and no step breaks it. *)
LEMMA IInvStep == IInv /\ [Next]_vars => IInv'
<1> SUFFICES ASSUME IInv, [Next]_vars PROVE IInv'
  OBVIOUS
<1>1. /\ TypeOK /\ HandlerInv /\ LockInv /\ PlaceInv /\ ResultInv /\ ChainInv /\ MemoryInv
      /\ OwedInv /\ QueuedInv
  BY DEF IInv
<1>2. TypeOK' /\ HandlerInv' /\ LockInv'
  BY <1>1, TypeOKStep, LockInvStep
<1>3. ASSUME UserStep PROVE PlaceInv' /\ ResultInv' /\ ChainInv' /\ MemoryInv' /\ OwedInv'
  BY <1>1, <1>3, PlacesKept, PastIsKept, MemoryUserStep, OwedUserStep
<1>4. ASSUME CronStep PROVE PlaceInv' /\ ResultInv' /\ ChainInv' /\ MemoryInv' /\ OwedInv'
  <2>1. ChainInv' /\ MemoryInv'
    BY <1>1, <1>4, CronFrame
       DEF ChainInv, MemoryInv, MemoryOK, RenderedOK, workflow, memory
  <2>2. OwedInv'
    BY <1>1, <1>4, CronFrame, FreshFrame DEF OwedInv, workflow
  <2>3. PlaceInv' /\ ResultInv'
    BY <1>1, <1>4, PlacesKept
  <2> QED
    BY <2>1, <2>2, <2>3
<1>5. ASSUME NEW r \in Renderers, RendererStep(r)
      PROVE  PlaceInv' /\ ResultInv' /\ ChainInv' /\ MemoryInv' /\ OwedInv'
  <2>1. ChainInv'
    BY <1>1, <1>5, RendererFrame DEF ChainInv, OnlyMoves
  <2>2. MemoryInv'
    BY <1>1, <1>5, MemoryOwnStep, MemoryOthersStep DEF MemoryInv
  <2> QED
    BY <1>1, <1>5, <2>1, <2>2, PlaceStep, ResultStep, OwedRendererStep
<1>6. CASE UNCHANGED vars
  <2>1. Fresh' <=> Fresh
    BY <1>6, FreshFrame DEF vars, workflow
  <2>2. OwedInv' /\ QueuedInv'
    BY <1>1, <1>6, <2>1
       DEF vars, ghosts, workflow, OwedInv, QueuedInv, Promised, Responsible
  <2>3. ChainInv' /\ MemoryInv'
    BY <1>1, <1>6
       DEF vars, workflow, memory, ChainInv, MemoryInv, MemoryOK, RenderedOK
  <2>4. PlaceInv' /\ ResultInv'
    BY <1>1, <1>6
       DEF vars, workflow, ghosts, lock, PlaceInv, PlaceOK, ResultInv, ResultOK
  <2> QED
    BY <1>2, <2>2, <2>3, <2>4 DEF IInv
<1>7. CASE Next
  <2>1. PlaceInv' /\ ResultInv' /\ ChainInv' /\ MemoryInv' /\ OwedInv'
    BY <1>3, <1>4, <1>5, <1>7, StepKinds
  <2>2. QueuedInv'
    BY <1>1, <1>7, QueuedStep
  <2> QED
    BY <1>2, <2>1, <2>2 DEF IInv
<1> QED
  BY <1>6, <1>7

(* Every behaviour keeps all of it. *)
THEOREM Invariance == Spec => []IInv
<1> QED
  BY IInvInit, IInvStep, PTL DEF Spec

-----------------------------------------------------------------------------
(* What follows. *)

(* "Once we queue a render on a Workflow, the queue will always have that  *)
(* Workflow queued (maybe unacked, maybe re-queued) until the Workflow is  *)
(* up-to-date": unless a message is lost in one of the four known ways,    *)
(* for any number of renderers and edits.                                  *)
THEOREM RendersStayQueued == Spec => []AlwaysQueuedUnlessBroken
<1>1. IInv => AlwaysQueuedUnlessBroken
  BY DEF IInv, QueuedInv, Promised, Responsible, AlwaysQueuedUnlessBroken, AlwaysQueued, InFlight
<1> QED
  BY <1>1, Invariance, PTL

(* No renderer caches a result for a delta that the step is not at, for    *)
(* any number of renderers at work and whatever users do meanwhile.        *)
THEOREM CachedResultsAreFresh == Spec => OnlyFreshResultsAreCached
<1> DEFINE P == \A s \in Steps : cached'[s] # cached[s] => cached'[s] = Relevant(s)
<1>1. IInv /\ [Next]_vars => [P]_vars
  <2> SUFFICES ASSUME IInv, Next PROVE P
    OBVIOUS
  <2>1. TypeOK /\ HandlerInv
    BY DEF IInv
  <2>2. CASE cached' = cached
    BY <2>2
  <2>3. ASSUME NEW r \in Renderers, SaveStep(r), cached' # cached PROVE P
    <3>1. /\ at[r] = "save" /\ seen[r][next[r]] = Relevant(next[r])
          /\ cached' = [cached EXCEPT ![next[r]] = seen[r][next[r]]]
      BY <2>3 DEF SaveStep, Unneeded, Goto, StepChanged
    <3>2. cached \in [Steps -> Deltas]
      BY <2>1 DEF TypeOK, WorkflowTypeOK
    <3> QED
      BY <3>1, <3>2
  <2> QED
    BY <2>1, <2>2, <2>3, StepKinds, UserFrame, CronFrame, ZenonT(60)
       DEF RendererStep, Handle, Recover, Deliver, Lookup, AcquireLock, Ignore, Load, ReadInput,
           BeginStep, Unneeded, StallOthers, Decide, Requeue, Unlock, Ack, RabbitmqNotices,
           PostgresNotices, Restart, DatabaseFails, RenderFails, Kill
<1>2. Spec => [][P]_vars
  BY <1>1, Invariance, PTL DEF Spec
<1> QED
  BY <1>2 DEF OnlyFreshResultsAreCached

(* A renderer that finds the workflow at its message's delta at the end of *)
(* a render is right not to requeue, though the users may have left that   *)
(* delta and come back, however often.                                     *)
THEOREM NotRequeuedMeansFresh == Spec => NoRequeueMeansFresh
<1> DEFINE P(r) == /\ result[r] = "check_to_requeue" /\ exists
                   /\ at[r] = "decide" /\ at'[r] = "unlock"
                   => Fresh \/ result'[r] = "error"
<1>1. IInv /\ [Next]_vars => [\A r \in Renderers : P(r)]_vars
  <2> SUFFICES ASSUME IInv, Next, NEW r \in Renderers,
                      result[r] = "check_to_requeue", exists, at[r] = "decide",
                      at'[r] = "unlock"
               PROVE  Fresh \/ result'[r] = "error"
    OBVIOUS
  <2>1. TypeOK /\ ChainInv /\ MemoryInv /\ at \in [Renderers -> Places]
        /\ result \in [Renderers -> Results]
    BY DEF IInv, TypeOK, RendererTypeOK
  <2>2. RendererStep(r)
    BY <2>1, StepKinds, UserFrame, CronFrame, RendererFrame DEF OnlyMoves
  <2>3. Decide(r) \/ DatabaseFails(r)
    BY <2>1, <2>2
       DEF RendererStep, Handle, Recover, Deliver, Lookup, AcquireLock, Ignore, Load, ReadInput,
           BeginStep, SaveStep, Unneeded, StallOthers, Requeue, Unlock, Ack, RabbitmqNotices,
           PostgresNotices, Restart, RenderFails, Kill, Goto
  <2>4. CASE DatabaseFails(r)
    BY <2>1, <2>4 DEF DatabaseFails, Finish
  <2>5. CASE Decide(r)
    <3>1. LastDelta = unacked[r]
      BY <2>1, <2>5 DEF Decide, Goto
    <3> QED
      BY <2>1, <3>1, RenderedMeansFresh
  <2> QED
    BY <2>3, <2>4, <2>5
<1>2. Spec => [][\A r \in Renderers : P(r)]_vars
  BY <1>1, Invariance, PTL DEF Spec
<1> QED
  BY <1>2 DEF NoRequeueMeansFresh
=============================================================================
