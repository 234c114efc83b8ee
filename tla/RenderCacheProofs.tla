------------------------- MODULE RenderCacheProofs --------------------------
(***************************************************************************)
(* Theorems about RenderCache, for any number of steps, edits and faults.  *)
(*                                                                         *)
(* The argument: the step that a renderer is about to save has no file     *)
(* while its row and its file differ (SavingInv), so a row and a file of   *)
(* one name are of one result (MatchInv).  And whatever the users do, the  *)
(* rows before the step a renderer is at stay of the deltas it began with, *)
(* for it alone writes rows, and gives up when a step it comes to has      *)
(* another delta (DoneInv).                                                *)
(***************************************************************************)
EXTENDS RenderCache, SequenceTheorems, WellFoundedInduction, TLAPS

(* The pairs of natural numbers, smaller first. *)
Smaller == {mn \in Nat \X Nat : mn[1] < mn[2]}

(* A set of natural numbers has a least one. *)
LEMMA HasLeast ==
  ASSUME NEW S \in SUBSET Nat, S # {}
  PROVE  \E m \in S : \A n \in S : m <= n
<1>1. IsWellFoundedOn(Smaller, Nat)
  BY NatLessThanWellFounded DEF OpToRel, Smaller
<1>2. PICK m \in S : \A n \in S : <<n, m>> \notin Smaller
  BY <1>1, WFMin
<1>3. \A n \in S : ~(n < m)
  BY <1>2 DEF Smaller
<1>4. \A n \in S : n \in Nat /\ m \in Nat
  OBVIOUS
<1> QED
  BY <1>3, <1>4

-----------------------------------------------------------------------------
(* Types. *)

Versions == [Steps -> Nat]
Values   == Tables \cup {NoTable}
Row      == [delta : Nat, table : Values]

HistoryTypeOK == deltas \in Versions /\ past \in Seq(Versions) /\ future \in Seq(Versions)

CacheTypeOK == rows \in [Steps -> Row] /\ files \in [Steps -> Row] /\ again \subseteq Steps

JobTypeOK ==
  \/ job = Idle
  \/ job \in [pc : {"back"}, deltas : Versions, at : 0 .. NSteps]
  \/ job \in [pc : {"run"}, deltas : Versions, at : 1 .. NSteps + 1, input : Values]
  \/ job \in [pc : {"save", "deleted", "put"}, deltas : Versions, at : Steps, input : Values]

ReaderTypeOK == reader \in [pc : {"got", "retry"}] \cup [pc : {"row"}, row : Row]

CountersTypeOK == queued \in BOOLEAN /\ edits \in 0 .. MaxEdits /\ faults \in 0 .. MaxFaults

TypeOK == HistoryTypeOK /\ CacheTypeOK /\ JobTypeOK /\ ReaderTypeOK /\ CountersTypeOK

(* The bounds are numbers. *)
LEMMA Bounds == NSteps \in Nat /\ NSteps > 0 /\ MaxEdits \in Nat /\ MaxFaults \in Nat
<1>1. NSteps \in Nat \ {0} /\ MaxEdits \in Nat /\ MaxFaults \in Nat
  BY CacheBounds
<1> QED
  BY <1>1

(* What undo takes from one end of a history and redo from the other.      *)
LEMMA Ends ==
  ASSUME NEW S, NEW seq \in Seq(S), seq # <<>>
  PROVE  Front(seq) \in Seq(S) /\ Last(seq) \in S /\ Head(seq) \in S /\ Tail(seq) \in Seq(S)
<1>1. Len(seq) \in Nat \ {0} /\ \A i \in 1 .. Len(seq) : seq[i] \in S
  BY EmptySeq, ElementOfSeq
<1>2. Front(seq) \in Seq(S)
  BY <1>1, SubSeqProperties DEF Front
<1> QED
  BY <1>1, <1>2, HeadTailProperties DEF Last

(* Where a renderer begins: all steps before are fresh. *)
LEMMA FirstStale ==
  ASSUME NEW stale \in SUBSET Steps
  PROVE  LET first == CHOOSE s \in stale \cup {NSteps + 1} : \A t \in stale : s <= t
         IN  first \in 1 .. NSteps + 1 /\ \A t \in stale : first <= t
<1>1. \E s \in stale \cup {NSteps + 1} : \A t \in stale : s <= t
  <2>1. stale \in SUBSET Nat /\ (stale # {} => \E s \in stale : \A t \in stale : s <= t)
    BY HasLeast, Bounds DEF Steps
  <2> QED
    BY <2>1
<1> DEFINE first == CHOOSE s \in stale \cup {NSteps + 1} : \A t \in stale : s <= t
<1>2. first \in stale \cup {NSteps + 1} /\ \A t \in stale : first <= t
  BY <1>1
<1> HIDE DEF first
<1>3. first \in 1 .. NSteps + 1
  BY <1>2, Bounds DEF Steps
<1> QED
  BY <1>2, <1>3 DEF first

-----------------------------------------------------------------------------
(* Types are kept. *)

(* The values with which it starts have their types. *)
LEMMA TypeOKInit == Init => TypeOK
<1> SUFFICES ASSUME Init PROVE TypeOK
  OBVIOUS
<1>1. HistoryTypeOK
  BY EmptySeq DEF Init, HistoryTypeOK, Versions
<1>2. CacheTypeOK
  BY DEF Init, CacheTypeOK, Row, Values, NoRow, NoFile
<1>3. JobTypeOK /\ ReaderTypeOK
  BY DEF Init, JobTypeOK, ReaderTypeOK
<1>4. queued = TRUE /\ edits \in 0 .. MaxEdits /\ faults \in 0 .. MaxFaults
  BY Bounds DEF Init
<1>5. queued \in BOOLEAN
  BY <1>4, Zenon
<1> QED
  BY <1>1, <1>2, <1>3, <1>4, <1>5 DEF TypeOK, CountersTypeOK

(* What a step of the renderer is about. *)
LEMMA JobFields ==
  ASSUME TypeOK
  PROVE  /\ job.pc \in {"idle", "back", "run", "save", "deleted", "put"}
         /\ job.pc = "idle" => job = Idle
         /\ job.pc = "back" => job \in [pc : {"back"}, deltas : Versions, at : 0 .. NSteps]
         /\ job.pc = "run" =>
              job \in [pc : {"run"}, deltas : Versions, at : 1 .. NSteps + 1, input : Values]
         /\ job.pc \in {"save", "deleted", "put"} =>
              job \in [pc : {"save", "deleted", "put"}, deltas : Versions, at : Steps,
                       input : Values]
  BY DEF TypeOK, JobTypeOK, Idle

(* Each step of the renderer leaves it a job of that kind. *)
LEMMA JobTyping ==
  ASSUME TypeOK, Renderer \/ Fault
  PROVE  JobTypeOK'
<1>1. /\ NSteps \in Nat /\ NSteps > 0 /\ deltas \in Versions /\ \A s \in Steps : rows[s].table \in Values
      /\ Steps = 1 .. NSteps
  BY Bounds DEF TypeOK, HistoryTypeOK, CacheTypeOK, Row, Steps
<1>2. CASE Load
  <2> DEFINE first == CHOOSE s \in {t \in Steps : ~IsFresh(t)} \cup {NSteps + 1} :
                        \A t \in {u \in Steps : ~IsFresh(u)} : s <= t
  <2>1. first \in 1 .. NSteps + 1
    BY FirstStale
  <2>2. job' = [pc |-> "back", deltas |-> deltas, at |-> first - 1]
    BY <1>2 DEF Load
  <2> HIDE DEF first
  <2> QED
    BY <1>1, <2>1, <2>2 DEF JobTypeOK
<1>3. CASE LoadInput
  <2>1. job \in [pc : {"back"}, deltas : Versions, at : 0 .. NSteps] /\ job.at > 0
    BY <1>3, JobFields DEF LoadInput
  <2>2. rows[job.at].table \in Values
    BY <1>1, <2>1
  <2> QED
    BY <1>1, <1>3, <2>1, <2>2 DEF LoadInput, GiveUp, JobTypeOK
<1>4. CASE LoadNothing
  BY <1>1, <1>4, JobFields DEF LoadNothing, JobTypeOK, Values
<1>5. CASE RenderStep
  <2>1. job.pc = "run" /\ job.at <= NSteps
    BY <1>5 DEF RenderStep
  <2>2. job \in [pc : {"run"}, deltas : Versions, at : 1 .. NSteps + 1, input : Values]
    BY <2>1, JobFields
  <2>3. job.at \in Steps
    BY <1>1, <2>1, <2>2
  <2>4. job' = Idle \/ \E t \in Values : job' = [job EXCEPT !.pc = "save", !.input = t]
    BY <1>5 DEF RenderStep, GiveUp, Values
  <2>5. ASSUME NEW t \in Values, job' = [job EXCEPT !.pc = "save", !.input = t]
        PROVE  JobTypeOK'
    BY <2>2, <2>3, <2>5 DEF JobTypeOK
  <2> QED
    BY <2>4, <2>5 DEF JobTypeOK
<1>6. CASE DeleteFiles \/ PutFile \/ Commit
  <2>1. job \in [pc : {"save", "deleted", "put"}, deltas : Versions, at : Steps, input : Values]
    BY <1>6, JobFields DEF DeleteFiles, PutFile, Commit
  <2>2. \/ job' = Idle
        \/ \E pc \in {"deleted", "put"} : job' = [job EXCEPT !.pc = pc]
        \/ job' = [job EXCEPT !.pc = "run", !.at = @ + 1]
    BY <1>6 DEF DeleteFiles, PutFile, Commit, GiveUp
  <2>3. job.at + 1 \in 1 .. NSteps + 1
    BY <1>1, <2>1
  <2>4. CASE job' = [job EXCEPT !.pc = "run", !.at = @ + 1]
    BY <2>1, <2>3, <2>4 DEF JobTypeOK
  <2>5. ASSUME NEW pc \in {"deleted", "put"}, job' = [job EXCEPT !.pc = pc] PROVE JobTypeOK'
    BY <2>1, <2>5 DEF JobTypeOK
  <2> QED
    BY <2>2, <2>4, <2>5 DEF JobTypeOK
<1>7. CASE Finish \/ Fault
  BY <1>7 DEF Finish, Fault, JobTypeOK
<1> QED
  BY <1>2, <1>3, <1>4, <1>5, <1>6, <1>7 DEF Renderer

(* So no step breaks a type. *)
LEMMA TypeOKStep ==
  ASSUME TypeOK, [Next]_vars
  PROVE  TypeOK'
<1>1. /\ deltas \in Versions /\ past \in Seq(Versions) /\ future \in Seq(Versions)
      /\ edits \in 0 .. MaxEdits /\ faults \in 0 .. MaxFaults /\ queued \in BOOLEAN
      /\ NSteps \in Nat /\ MaxEdits \in Nat /\ MaxFaults \in Nat
  BY Bounds DEF TypeOK, HistoryTypeOK, CountersTypeOK
<1>2. TRUE \in BOOLEAN /\ FALSE \in BOOLEAN
  OBVIOUS
<1>3. CASE Edit
  <2>1. deltas' \in Versions /\ edits' \in 0 .. MaxEdits
    BY <1>1, <1>3 DEF Edit, Versions
  <2>2. past' \in Seq(Versions) /\ future' \in Seq(Versions)
    BY <1>1, <1>3, AppendProperties, EmptySeq DEF Edit
  <2> QED
    BY <1>2, <1>3, <2>1, <2>2
       DEF Edit, TypeOK, HistoryTypeOK, CacheTypeOK, JobTypeOK, ReaderTypeOK, CountersTypeOK
<1>4. CASE Undo
  <2>1. deltas' \in Versions /\ past' \in Seq(Versions)
    BY <1>1, <1>4, Ends DEF Undo
  <2>2. future' \in Seq(Versions)
    <3>1. <<deltas>> \in Seq(Versions)
      BY <1>1
    <3> QED
      BY <1>1, <1>4, <3>1, ConcatProperties DEF Undo
  <2> QED
    BY <1>2, <1>4, <2>1, <2>2
       DEF Undo, TypeOK, HistoryTypeOK, CacheTypeOK, JobTypeOK, ReaderTypeOK, CountersTypeOK
<1>5. CASE Redo
  <2>1. deltas' \in Versions /\ future' \in Seq(Versions)
    BY <1>1, <1>5, Ends DEF Redo
  <2>2. past' \in Seq(Versions)
    BY <1>1, <1>5, AppendProperties DEF Redo
  <2> QED
    BY <1>2, <1>5, <2>1, <2>2
       DEF Redo, TypeOK, HistoryTypeOK, CacheTypeOK, JobTypeOK, ReaderTypeOK, CountersTypeOK
<1>6. ASSUME Renderer \/ Fault PROVE TypeOK'
  <2>1. HistoryTypeOK' /\ ReaderTypeOK'
    BY <1>6
       DEF Renderer, Load, LoadInput, LoadNothing, RenderStep, DeleteFiles, PutFile, Commit,
           Finish, Fault, TypeOK, HistoryTypeOK, ReaderTypeOK
  <2>2. queued' \in BOOLEAN /\ edits' = edits /\ faults' \in 0 .. MaxFaults
    <3>1. CASE Fault
      <4>1. queued' = queued \/ queued' = TRUE
        BY <3>1 DEF Fault
      <4>2. queued' \in BOOLEAN
        BY <1>1, <4>1, Zenon
      <4> QED
        BY <1>1, <3>1, <4>2 DEF Fault
    <3>2. CASE Load
      <4>1. queued' = FALSE
        BY <3>2 DEF Load
      <4>2. queued' \in BOOLEAN
        BY <4>1, Zenon
      <4> QED
        BY <1>1, <3>2, <4>2 DEF Load
    <3>3. CASE UNCHANGED <<queued, edits, faults>>
      BY <1>1, <3>3
    <3> QED
      BY <1>6, <3>1, <3>2, <3>3
         DEF Renderer, LoadInput, LoadNothing, RenderStep, DeleteFiles, PutFile, Commit, Finish
  <2>3. CacheTypeOK'
    <3>1. CASE DeleteFiles
      <4>1. job.at \in Steps /\ NoFile \in Row
        BY <3>1, JobFields DEF DeleteFiles, Row, NoFile, NoRow, Values
      <4>2. /\ UNCHANGED <<rows, again>>
            /\ files' = files \/ files' = [files EXCEPT ![job.at] = NoFile]
        BY <3>1 DEF DeleteFiles
      <4> QED
        BY <4>1, <4>2 DEF TypeOK, CacheTypeOK
    <3>2. CASE PutFile
      <4>1. job.at \in Steps /\ job.input \in Values /\ deltas[job.at] \in Nat
        BY <1>1, <3>2, JobFields DEF PutFile, Versions
      <4> QED
        BY <3>2, <4>1 DEF PutFile, TypeOK, CacheTypeOK, Row
    <3>3. CASE Commit
      <4>1. job.at \in Steps /\ job.input \in Values /\ deltas[job.at] \in Nat
        BY <1>1, <3>3, JobFields DEF Commit, Versions
      <4> QED
        BY <3>3, <4>1 DEF Commit, TypeOK, CacheTypeOK, Row
    <3>4. CASE UNCHANGED <<rows, files, again>>
      BY <3>4 DEF TypeOK, CacheTypeOK
    <3> QED
      BY <1>6, <3>1, <3>2, <3>3, <3>4
         DEF Renderer, Load, LoadInput, LoadNothing, RenderStep, Finish, Fault
  <2> QED
    BY <1>1, <1>6, <2>1, <2>2, <2>3, JobTyping DEF TypeOK, CountersTypeOK
<1>7. CASE ReadRow
  <2>1. ReaderTypeOK'
    BY <1>7, Bounds DEF ReadRow, ReaderTypeOK, TypeOK, CacheTypeOK, Steps, Row, NoRow, Values
  <2> QED
    BY <1>7, <2>1 DEF ReadRow, TypeOK, HistoryTypeOK, CacheTypeOK, JobTypeOK, CountersTypeOK
<1>8. CASE Download
  <2>1. ReaderTypeOK'
    BY <1>8 DEF Download, ReaderTypeOK
  <2>2. queued' = queued \/ queued' = TRUE
    BY <1>8 DEF Download
  <2>3. queued' \in BOOLEAN
    BY <1>1, <2>2, Zenon
  <2> QED
    BY <1>8, <2>1, <2>3 DEF Download, TypeOK, HistoryTypeOK, CacheTypeOK, JobTypeOK, CountersTypeOK
<1>9. CASE UNCHANGED vars
  BY <1>9 DEF vars, TypeOK, HistoryTypeOK, CacheTypeOK, JobTypeOK, ReaderTypeOK, CountersTypeOK
<1> QED
  BY <1>3, <1>4, <1>5, <1>6, <1>7, <1>8, <1>9 DEF Next

(* What is in the variables, always. *)
THEOREM Typing == Spec => []TypeOK
<1>1. Init => TypeOK
  BY TypeOKInit
<1>2. TypeOK /\ [Next]_vars => TypeOK'
  BY TypeOKStep
<1> QED
  BY <1>1, <1>2, PTL DEF Spec

-----------------------------------------------------------------------------
(* Rows and files. *)

(* A row that names a file is of the file's result, even while a step is   *)
(* being saved.                                                            *)
Matches(s) == rows[s].table # NoTable /\ HasFile(s, rows[s]) => files[s].table = rows[s].table

MatchInv == \A s \in Steps \ again : Matches(s)

(* The step that is being saved has the renderer's delta, no file until it *)
(* is put, and then that of the result.                                    *)
SavingInv == ~Unlocked =>
  /\ job.deltas[job.at] = deltas[job.at]
  /\ job.pc = "deleted" => job.input # NoTable
  /\ files[job.at] = IF job.pc = "deleted" \/ job.input = NoTable THEN NoFile
                     ELSE [delta |-> deltas[job.at], table |-> job.input]

(* The steps behind the renderer have rows of the deltas it knows, and the *)
(* last of them can be read, unless it is to be looked at next.            *)
DoneInv ==
  /\ job.pc = "back" => \A s \in 1 .. job.at : rows[s].delta = job.deltas[s]
  /\ job.pc \in {"run", "save", "deleted", "put"} =>
       /\ \A s \in 1 .. job.at - 1 : rows[s].delta = job.deltas[s]
       /\ job.at > 1 => Readable(job.at - 1, rows[job.at - 1])

(* Nobody but the renderer writes rows and files, or moves in its work;    *)
(* and while it holds the lock, nobody changes the steps' deltas.          *)
LEMMA Others ==
  ASSUME TypeOK, [Next]_vars
  PROVE  \/ Renderer \/ Fault
         \/ UNCHANGED <<rows, files, job, again>> /\ (~Unlocked => UNCHANGED deltas)
  BY DEF Next, Edit, Undo, Redo, ReadRow, Download, vars

(* Saving a step is kept apart. *)
LEMMA SavingStep ==
  ASSUME TypeOK, SavingInv, [Next]_vars
  PROVE  SavingInv'
<1>1. /\ files \in [Steps -> Row]
      /\ job.pc \in {"save", "deleted", "put"} => job.at \in Steps /\ job.input \in Values
  BY JobFields DEF TypeOK, CacheTypeOK
<1>2. CASE UNCHANGED <<files, job>> /\ (~Unlocked => UNCHANGED deltas)
  BY <1>2 DEF SavingInv, Unlocked
<1>3. CASE DeleteFiles
  <2>1. CASE job' = Idle
    BY <2>1 DEF SavingInv, Unlocked, Idle
  <2>2. CASE ~Unneeded(job.at) /\ job' # Idle
    <3>1. /\ job.pc = "save" /\ files' = [files EXCEPT ![job.at] = NoFile]
          /\ deltas' = deltas /\ job.deltas[job.at] = deltas[job.at]
          /\ job' = [job EXCEPT !.pc = IF job.input = NoTable THEN "put" ELSE "deleted"]
      BY <1>3, <2>2 DEF DeleteFiles, Unneeded
    <3>2. job \in [pc : {"save", "deleted", "put"}, deltas : Versions, at : Steps,
                   input : Values]
      BY <3>1, JobFields
    <3>3. /\ job'.at = job.at /\ job'.deltas = job.deltas /\ job'.input = job.input
          /\ job'.pc = IF job.input = NoTable THEN "put" ELSE "deleted"
      BY <3>1, <3>2
    <3>4. files'[job.at] = NoFile
      BY <1>1, <3>1
    <3> QED
      BY <3>1, <3>3, <3>4 DEF SavingInv
  <2> QED
    BY <1>3, <2>1, <2>2 DEF DeleteFiles, GiveUp
<1>4. CASE PutFile
  <2>1. /\ job.pc = "deleted" /\ job' = [job EXCEPT !.pc = "put"] /\ deltas' = deltas
        /\ files' = [files EXCEPT ![job.at] = [delta |-> deltas[job.at], table |-> job.input]]
    BY <1>4 DEF PutFile
  <2>2. job \in [pc : {"save", "deleted", "put"}, deltas : Versions, at : Steps, input : Values]
    BY <2>1, JobFields
  <2>3. job'.at = job.at /\ job'.deltas = job.deltas /\ job'.input = job.input /\ job'.pc = "put"
    BY <2>1, <2>2
  <2>4. files'[job.at] = [delta |-> deltas[job.at], table |-> job.input]
    BY <1>1, <2>1
  <2>5. job.deltas[job.at] = deltas[job.at] /\ job.input # NoTable
    BY <2>1 DEF SavingInv, Unlocked
  <2> QED
    BY <2>1, <2>3, <2>4, <2>5 DEF SavingInv
<1>5. CASE job'.pc \notin {"deleted", "put"}
  BY <1>5 DEF SavingInv, Unlocked
<1>6. ASSUME Renderer \/ Fault, ~DeleteFiles, ~PutFile PROVE job'.pc \notin {"deleted", "put"}
  <2>1. CASE Commit
    BY <2>1, JobFields DEF Commit
  <2>2. CASE LoadInput
    BY <2>2, JobFields DEF LoadInput, GiveUp, Idle
  <2>3. CASE RenderStep
    <3>1. job \in [pc : {"run"}, deltas : Versions, at : 1 .. NSteps + 1, input : Values]
      BY <2>3, JobFields DEF RenderStep
    <3>2. job' = Idle \/ \E t \in Values : job' = [job EXCEPT !.pc = "save", !.input = t]
      BY <2>3 DEF RenderStep, GiveUp, Values
    <3>3. ASSUME NEW t \in Values, job' = [job EXCEPT !.pc = "save", !.input = t]
          PROVE  job'.pc = "save"
      BY <3>1, <3>3
    <3>4. ASSUME job' = Idle PROVE job'.pc = "idle"
      BY <3>4 DEF Idle
    <3> QED
      BY <3>2, <3>3, <3>4
  <2>4. CASE Load \/ LoadNothing
    BY <2>4 DEF Load, LoadNothing
  <2>5. CASE Finish \/ Fault
    <3>1. job' = Idle
      BY <2>5 DEF Finish, Fault
    <3> QED
      BY <3>1 DEF Idle
  <2> QED
    BY <1>6, <2>1, <2>2, <2>3, <2>4, <2>5 DEF Renderer
<1> QED
  BY <1>2, <1>3, <1>4, <1>5, <1>6, Others

(* No step makes a row name a file of another result. *)
LEMMA MatchStep ==
  ASSUME TypeOK, MatchInv, SavingInv, [Next]_vars
  PROVE  MatchInv'
<1>1. /\ files \in [Steps -> Row] /\ rows \in [Steps -> Row]
      /\ job.pc \in {"save", "deleted", "put"} => job.at \in Steps
  BY JobFields DEF TypeOK, CacheTypeOK
<1>2. CASE UNCHANGED <<rows, files, again>>
  BY <1>2 DEF MatchInv, Matches, HasFile
<1>3. CASE DeleteFiles
  <2>1. /\ UNCHANGED <<rows, again>>
        /\ \A s \in Steps : files'[s] \in {files[s], NoFile}
    BY <1>1, <1>3 DEF DeleteFiles
  <2> QED
    BY <2>1 DEF MatchInv, Matches, HasFile
<1>4. CASE PutFile
  <2>1. /\ job.at \in Steps /\ rows' = rows
        /\ again' = IF IsFresh(job.at) THEN again \cup {job.at} ELSE again
        /\ \A s \in Steps : files'[s] = IF s = job.at
                                        THEN [delta |-> deltas[job.at], table |-> job.input]
                                        ELSE files[s]
    BY <1>1, <1>4 DEF PutFile
  <2>2. ASSUME NEW s \in Steps \ again' PROVE Matches(s)'
    <3>1. CASE s = job.at
      <4>1. rows[s].delta # deltas[s]
        BY <2>1, <2>2, <3>1 DEF IsFresh
      <4> QED
        BY <2>1, <3>1, <4>1 DEF Matches, HasFile
    <3>2. CASE s # job.at
      BY <2>1, <2>2, <3>2 DEF MatchInv, Matches, HasFile
    <3> QED
      BY <3>1, <3>2
  <2> QED
    BY <2>2 DEF MatchInv
<1>5. CASE Commit
  <2>1. /\ job.at \in Steps /\ files' = files /\ again' = again \ {job.at}
        /\ \A s \in Steps : rows'[s] = IF s = job.at
                                       THEN [delta |-> deltas[job.at], table |-> job.input]
                                       ELSE rows[s]
    BY <1>1, <1>5 DEF Commit
  <2>2. job.input # NoTable => files[job.at] = [delta |-> deltas[job.at], table |-> job.input]
    BY <1>5 DEF Commit, SavingInv, Unlocked
  <2>3. ASSUME NEW s \in Steps \ again' PROVE Matches(s)'
    <3>1. CASE s = job.at
      BY <2>1, <2>2, <3>1 DEF Matches, HasFile
    <3>2. CASE s # job.at
      BY <2>1, <2>3, <3>2 DEF MatchInv, Matches, HasFile
    <3> QED
      BY <3>1, <3>2
  <2> QED
    BY <2>3 DEF MatchInv
<1> QED
  BY <1>2, <1>3, <1>4, <1>5, Others
     DEF Renderer, Load, LoadInput, LoadNothing, RenderStep, Finish, Fault

(* What is behind the renderer stays done. *)
LEMMA DoneStep ==
  ASSUME TypeOK, SavingInv, DoneInv, [Next]_vars
  PROVE  DoneInv'
<1>1. /\ files \in [Steps -> Row] /\ rows \in [Steps -> Row] /\ NSteps \in Nat
      /\ Steps = 1 .. NSteps
  BY Bounds DEF TypeOK, CacheTypeOK, Steps
<1>2. CASE UNCHANGED <<rows, files, job>>
  BY <1>2 DEF DoneInv, Readable, HasFile
<1>3. CASE job' = Idle
  BY <1>3 DEF DoneInv, Idle
<1>4. CASE Load
  <2> DEFINE stale == {t \in Steps : ~IsFresh(t)}
             first == CHOOSE s \in stale \cup {NSteps + 1} : \A t \in stale : s <= t
  <2>1. first \in 1 .. NSteps + 1 /\ \A t \in stale : first <= t
    BY FirstStale
  <2>2. job' = [pc |-> "back", deltas |-> deltas, at |-> first - 1] /\ rows' = rows
    BY <1>4 DEF Load
  <2> HIDE DEF first
  <2>3. \A s \in 1 .. first - 1 : s \in Steps /\ IsFresh(s)
    BY <1>1, <2>1
  <2> QED
    BY <2>2, <2>3 DEF DoneInv, IsFresh
<1>5. CASE LoadInput /\ job' # Idle
  <2>1. /\ job.pc = "back" /\ job.at > 0 /\ rows' = rows /\ files' = files
        /\ IF Readable(job.at, rows[job.at])
           THEN job' = [pc |-> "run", deltas |-> job.deltas, at |-> job.at + 1,
                        input |-> rows[job.at].table]
           ELSE job' = [job EXCEPT !.at = @ - 1]
    BY <1>5 DEF LoadInput, GiveUp
  <2>2. /\ job.at \in Nat /\ job \in [pc : {"back"}, deltas : Versions, at : 0 .. NSteps]
        /\ \A s \in 1 .. job.at : rows[s].delta = job.deltas[s]
    BY <1>1, <2>1, JobFields DEF DoneInv
  <2>3. CASE Readable(job.at, rows[job.at])
    <3>1. job' = [pc |-> "run", deltas |-> job.deltas, at |-> job.at + 1,
                  input |-> rows[job.at].table]
      BY <2>1, <2>3
    <3>2. job'.pc = "run" /\ job'.deltas = job.deltas /\ job'.at - 1 = job.at
      BY <2>2, <3>1
    <3>3. Readable(job.at - 1, rows[job.at - 1])'
      BY <2>1, <2>3, <3>2 DEF Readable, HasFile
    <3> QED
      BY <2>1, <2>2, <3>2, <3>3 DEF DoneInv
  <2>4. CASE ~Readable(job.at, rows[job.at])
    BY <2>1, <2>2, <2>4 DEF DoneInv
  <2> QED
    BY <2>3, <2>4
<1>6. CASE LoadNothing
  BY <1>6 DEF LoadNothing, DoneInv
<1>7. CASE RenderStep /\ job' # Idle
  <2>1. /\ job \in [pc : {"run"}, deltas : Versions, at : 1 .. NSteps + 1, input : Values]
        /\ UNCHANGED <<rows, files>>
    BY <1>7, JobFields DEF RenderStep
  <2>2. \E t \in Values : job' = [job EXCEPT !.pc = "save", !.input = t]
    BY <1>7 DEF RenderStep, GiveUp, Values
  <2>3. job'.pc = "save" /\ job'.at = job.at /\ job'.deltas = job.deltas
    BY <2>1, <2>2
  <2> QED
    BY <2>1, <2>3 DEF DoneInv, Readable, HasFile
<1>8. CASE (DeleteFiles \/ PutFile) /\ job' # Idle
  <2>1. /\ job \in [pc : {"save", "deleted", "put"}, deltas : Versions, at : Steps,
                    input : Values]
        /\ rows' = rows /\ job.at \in Nat
    BY <1>1, <1>8, JobFields DEF DeleteFiles, PutFile
  <2>2. /\ job'.pc \in {"deleted", "put"} /\ job'.at = job.at /\ job'.deltas = job.deltas
        /\ \A s \in Steps : s # job.at => files'[s] = files[s]
    BY <1>1, <1>8, <2>1 DEF DeleteFiles, PutFile, GiveUp
  <2>3. job.at > 1 => job.at - 1 \in Steps /\ job.at - 1 # job.at
    BY <1>1, <2>1
  <2>4. DoneInv
    OBVIOUS
  <2> QED
    BY <2>1, <2>2, <2>3, <2>4 DEF DoneInv, Readable, HasFile
<1>9. CASE Commit
  <2>1. /\ job \in [pc : {"save", "deleted", "put"}, deltas : Versions, at : Steps,
                    input : Values]
        /\ job.pc = "put" /\ files' = files /\ job.at \in Nat
        /\ \A s \in Steps : rows'[s] = IF s = job.at
                                       THEN [delta |-> deltas[job.at], table |-> job.input]
                                       ELSE rows[s]
    BY <1>1, <1>9, JobFields DEF Commit
  <2>2. job'.pc = "run" /\ job'.at = job.at + 1 /\ job'.deltas = job.deltas
    BY <1>9, <2>1 DEF Commit
  <2>3. /\ job.deltas[job.at] = deltas[job.at]
        /\ job.input # NoTable => files[job.at] = [delta |-> deltas[job.at], table |-> job.input]
    BY <2>1 DEF SavingInv, Unlocked
  <2>4. ASSUME NEW s \in 1 .. job.at PROVE rows'[s].delta = job.deltas[s]
    <3>1. s \in Steps /\ (s # job.at => s \in 1 .. job.at - 1)
      BY <1>1, <2>1
    <3> QED
      BY <2>1, <2>3, <3>1 DEF DoneInv
  <2>5. Readable(job.at - 1, rows[job.at - 1])'
    <3>1. job'.at - 1 = job.at
      BY <2>1, <2>2
    <3> QED
      BY <2>1, <2>3, <3>1 DEF Readable, HasFile, NoFile, NoRow
  <2> QED
    BY <2>1, <2>2, <2>4, <2>5 DEF DoneInv
<1> QED
  BY <1>2, <1>3, <1>4, <1>5, <1>6, <1>7, <1>8, <1>9, Others DEF Renderer, Finish, Fault

-----------------------------------------------------------------------------
(* The invariant, and what it says of the run's properties.                *)

IInv == TypeOK /\ MatchInv /\ SavingInv /\ DoneInv

(* An empty cache is as it should be. *)
LEMMA IInvInit == Init => IInv
<1> SUFFICES ASSUME Init PROVE IInv
  OBVIOUS
<1>1. MatchInv
  BY DEF Init, MatchInv, Matches, NoRow
<1>2. SavingInv /\ DoneInv
  BY DEF Init, SavingInv, Unlocked, DoneInv, Idle
<1> QED
  BY <1>1, <1>2, TypeOKInit DEF IInv

(* And no step breaks it. *)
LEMMA IInvStep == IInv /\ [Next]_vars => IInv'
  BY TypeOKStep, MatchStep, SavingStep, DoneStep DEF IInv

(* What holds of rows, files and the renderer, always. *)
THEOREM Invariance == Spec => []IInv
<1> QED
  BY IInvInit, IInvStep, PTL DEF Spec

(* A step's row and the file of its name are of one result, unless the     *)
(* step was rendered again for one delta and that render was killed.       *)
THEOREM RowsMatchFiles == Spec => []RowMatchesFile
<1>1. IInv => RowMatchesFile
  BY DEF IInv, MatchInv, Matches, RowMatchesFile
<1> QED
  BY <1>1, Invariance, PTL

(* A renderer that is through leaves a fresh row for every step, and a     *)
(* last step's output that can be read.                                    *)
THEOREM RendersLeaveAllFresh == Spec => []DoneMeansFresh
<1>1. ASSUME IInv, job.pc = "run", job.at > NSteps, job.deltas = deltas
      PROVE  (\A s \in Steps : IsFresh(s)) /\ Readable(NSteps, rows[NSteps])
  <2>1. NSteps \in Nat /\ NSteps > 0 /\ job.at = NSteps + 1
    BY <1>1, Bounds, JobFields DEF IInv
  <2>2. /\ \A s \in 1 .. job.at - 1 : rows[s].delta = deltas[s]
        /\ Readable(job.at - 1, rows[job.at - 1])
    BY <1>1, <2>1 DEF IInv, DoneInv
  <2>3. job.at - 1 = NSteps
    BY <2>1
  <2> QED
    BY <2>2, <2>3 DEF IsFresh, Steps
<1>2. IInv => DoneMeansFresh
  BY <1>1 DEF DoneMeansFresh
<1> QED
  BY <1>2, Invariance, PTL
=============================================================================
