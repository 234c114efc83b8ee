----------------------- MODULE FetchedVersionsProofs ------------------------
(***************************************************************************)
(* Theorems about FetchedVersions, for any number of fetchers, sizes and   *)
(* limits of what is stored.                                               *)
(*                                                                         *)
(* The argument: while no two fetchers are at work at once, the one that is*)
(* has the newest version there is (OneAtWork), and the newest is the one  *)
(* that find_deletable_ids() never returns; so it is stored from the       *)
(* transaction that saves it to the one that selects it (NewIsStored), and *)
(* afterwards until another is stored, which will be selected in turn.     *)
(***************************************************************************)
EXTENDS FetchedVersions, SequenceTheorems, TLAPS

-----------------------------------------------------------------------------
(* Lemmas on what the actions are built from.                              *)

(* The newest version is never deleted, and no other than there is. *)
LEMMA NewestStays ==
  ASSUME NEW stored, NEW c \in Nat, DOMAIN stored \subseteq 0 .. c
  PROVE  Deletable(stored) \subseteq DOMAIN stored \ {c}
  BY DEF Deletable

(* A new version is there beside the old ones. *)
LEMMA NewIsThere ==
  ASSUME NEW f, NEW size
  PROVE  /\ DOMAIN WithNew(f, size) = DOMAIN rows \cup {fetchers[f].now}
         /\ \A v \in DOMAIN rows : WithNew(f, size)[v] = rows[v]
         /\ fetchers[f].now \notin DOMAIN rows => WithNew(f, size)[fetchers[f].now] = size
  BY DEF WithNew

(* What undo takes from one end of a history and redo from the other.      *)
LEMMA Ends ==
  ASSUME NEW S, NEW seq \in Seq(S), seq # <<>>
  PROVE  Front(seq) \in Seq(S) /\ Last(seq) \in S /\ Head(seq) \in S /\ Tail(seq) \in Seq(S)
<1>1. Len(seq) \in Nat \ {0} /\ \A i \in 1 .. Len(seq) : seq[i] \in S
  BY EmptySeq, ElementOfSeq
<1>2. Front(seq) \in Seq(S)
  BY <1>1, SubSeqProperties DEF Front
<1> QED
  BY <1>1, <1>2, HeadTailProperties DEF Last

(* What a fetcher that is at work remembers. *)
LEMMA FetcherFields ==
  ASSUME FetcherTypeOK, NEW f \in Fetchers
  PROVE  /\ fetchers[f].pc \in {"idle", "fetching", "selecting", "scheduling"}
         /\ fetchers[f].pc = "idle" => fetchers[f] = Idle
         /\ fetchers[f].pc = "fetching" =>
              fetchers[f] \in [pc : {"fetching"}, now : Times \ {None}, has_last : BOOLEAN]
         /\ fetchers[f].pc = "selecting" =>
              fetchers[f] \in [pc : {"selecting"}, now : Times \ {None}, version : Times]
  BY DEF FetcherTypeOK, Fetcher, Idle

-----------------------------------------------------------------------------
(* Types are kept. *)

(* The values with which it starts have their types. *)
LEMMA TypeOKInit == Init => TypeOK
<1> SUFFICES ASSUME Init PROVE TypeOK
  OBVIOUS
<1>1. MaxEdits \in Nat /\ MaxFaults \in Nat
  <2>1. \A n \in {MaxFetches, MaxEdits, MaxFaults} : n \in Nat
    BY VersionBounds
  <2> QED
    BY <2>1
<1>2. StepTypeOK
  BY DEF Init, StepTypeOK, Times, None
<1>3. StoredTypeOK /\ HistoryTypeOK
  BY EmptySeq DEF Init, StoredTypeOK, HistoryTypeOK
<1>4. RequestTypeOK /\ FetcherTypeOK
  BY DEF Init, RequestTypeOK, FetcherTypeOK, Fetcher
<1>0. picked = FALSE /\ overlapped = FALSE /\ dropped = FALSE
  BY DEF Init
<1>6. picked \in BOOLEAN /\ overlapped \in BOOLEAN /\ dropped \in BOOLEAN
  BY <1>0, Zenon
<1>7. CounterTypeOK
  BY <1>1, <1>6 DEF Init, CounterTypeOK
<1> QED
  BY <1>2, <1>3, <1>4, <1>7 DEF TypeOK

(* A command of a user keeps the types. *)
LEMMA EditTyping ==
  ASSUME TypeOK, Edit
  PROVE  TypeOK'
<1>1. /\ step \in [is_deleted : BOOLEAN, is_busy : BOOLEAN, version : Times, is_due : BOOLEAN]
      /\ past \in Seq(Change) /\ future \in Seq(Change) /\ edits \in 0 .. MaxEdits
      /\ picked \in BOOLEAN /\ DOMAIN rows \subseteq Times /\ MaxEdits \in Nat
  <2>1. \A n \in {MaxFetches, MaxEdits, MaxFaults} : n \in Nat
    BY VersionBounds
  <2> QED
    BY <2>1 DEF TypeOK, StepTypeOK, HistoryTypeOK, CounterTypeOK, StoredTypeOK
<1>0. EditUnchanged
  BY DEF Edit, ChooseVersion, DeleteStep, Undo, Redo
<1>2. UNCHANGED Times /\ UNCHANGED Change /\ None \in Times
  <2>1. clock' = clock /\ clock \in Nat
    BY <1>0 DEF EditUnchanged, TypeOK, CounterTypeOK
  <2> QED
    BY <2>1 DEF Times, Change, None
<1>3. Listed \subseteq Times
  <2>1. \A i \in DOMAIN past : past[i].forth \in Times
    <3>1. \A i \in DOMAIN past : past[i] \in Change
      BY <1>1, ElementOfSeq, LenProperties
    <3> QED
      BY <3>1 DEF Change
  <2> QED
    BY <1>1, <2>1 DEF Listed
<1>4. StepTypeOK' /\ HistoryTypeOK' /\ edits' \in 0 .. MaxEdits /\ picked' \in BOOLEAN
  <2>1. CASE ChooseVersion
    <3>1. PICK v \in Times : /\ past' = Append(past, [back |-> step.version, forth |-> v])
                             /\ future' = <<>> /\ step' = [step EXCEPT !.version = v]
      BY <1>3, <2>1 DEF ChooseVersion, Do
    <3>2. [back |-> step.version, forth |-> v] \in Change
      BY <1>1 DEF Change
    <3>3. HistoryTypeOK'
      BY <1>1, <1>2, <3>1, <3>2, AppendProperties, EmptySeq DEF HistoryTypeOK
    <3>4. picked' = TRUE /\ edits' \in 0 .. MaxEdits
      BY <1>1, <2>1 DEF ChooseVersion
    <3>5. picked' \in BOOLEAN
      BY <3>4, Zenon
    <3> QED
      BY <1>1, <1>2, <3>1, <3>3, <3>4, <3>5 DEF StepTypeOK
  <2>2. CASE DeleteStep
    <3>1. [back |-> None, forth |-> None] \in Change
      BY <1>2 DEF Change
    <3>2. HistoryTypeOK'
      BY <1>1, <1>2, <2>2, <3>1, AppendProperties, EmptySeq DEF DeleteStep, Do, HistoryTypeOK
    <3>3. step' = [step EXCEPT !.is_deleted = TRUE] /\ edits' \in 0 .. MaxEdits /\ picked' = picked
      BY <1>1, <2>2 DEF DeleteStep
    <3> QED
      BY <1>1, <1>2, <3>2, <3>3 DEF StepTypeOK
  <2>3. CASE Undo
    <3> DEFINE e == Last(past)
    <3>1. e \in Change /\ Front(past) \in Seq(Change)
      BY <1>1, <2>3, Ends DEF Undo
    <3>2. /\ past' = Front(past) /\ future' = <<e>> \o future /\ edits' = edits
          /\ picked' = (picked \/ e.forth # None)
          /\ step' = IF e.forth = None THEN [step EXCEPT !.is_deleted = FALSE]
                                       ELSE [step EXCEPT !.version = e.back]
      BY <2>3 DEF Undo
    <3> HIDE DEF e
    <3>3. <<e>> \in Seq(Change) /\ e.back \in Times
      BY <3>1 DEF Change
    <3>4. HistoryTypeOK'
      BY <1>1, <1>2, <3>1, <3>2, <3>3, ConcatProperties DEF HistoryTypeOK
    <3>5. picked' \in BOOLEAN
      BY <1>1, <3>2, Zenon
    <3> QED
      BY <1>1, <1>2, <3>2, <3>3, <3>4, <3>5 DEF StepTypeOK
  <2>4. CASE Redo
    <3> DEFINE e == Head(future)
    <3>1. e \in Change /\ Tail(future) \in Seq(Change)
      BY <1>1, <2>4, Ends DEF Redo
    <3>2. /\ past' = Append(past, e) /\ future' = Tail(future) /\ edits' = edits
          /\ picked' = (picked \/ e.forth # None)
          /\ step' = IF e.forth = None THEN [step EXCEPT !.is_deleted = TRUE]
                                       ELSE [step EXCEPT !.version = e.forth]
      BY <2>4 DEF Redo
    <3> HIDE DEF e
    <3>3. HistoryTypeOK' /\ e.forth \in Times
      BY <1>1, <1>2, <3>1, <3>2, AppendProperties DEF HistoryTypeOK, Change
    <3>4. picked' \in BOOLEAN
      BY <1>1, <3>2, Zenon
    <3> QED
      BY <1>1, <1>2, <3>2, <3>3, <3>4 DEF StepTypeOK
  <2> QED
    BY <2>1, <2>2, <2>3, <2>4 DEF Edit
<1>6. StoredTypeOK' /\ RequestTypeOK' /\ FetcherTypeOK'
  BY <1>2, <1>0
     DEF EditUnchanged, TypeOK, StoredTypeOK, RequestTypeOK, FetcherTypeOK, Fetcher
<1> QED
  BY <1>4, <1>0, <1>6 DEF EditUnchanged, TypeOK, CounterTypeOK

(* So does a request for a fetch. *)
LEMMA RequestTyping ==
  ASSUME TypeOK, Request
  PROVE  TypeOK'
<1>1. /\ step \in [is_deleted : BOOLEAN, is_busy : BOOLEAN, version : Times, is_due : BOOLEAN]
      /\ clock \in Nat /\ faults \in 0 .. MaxFaults /\ MaxFaults \in Nat /\ RequestTypeOK
      /\ dropped \in BOOLEAN
  <2>1. \A n \in {MaxFetches, MaxEdits, MaxFaults} : n \in Nat
    BY VersionBounds
  <2> QED
    BY <2>1 DEF TypeOK, StepTypeOK, CounterTypeOK
<1>2. RequestUnchanged
  BY DEF Request, WebSetsBusy, WebQueues, Tick, CronFinds, CronLeavesIt, CronSetsBusy,
         CronQueues, RequestFails
<1>3. UNCHANGED Times
  BY <1>2 DEF RequestUnchanged, Times
<1>4. \/ step' = step
      \/ step' = [step EXCEPT !.is_busy = TRUE]
      \/ step' = [step EXCEPT !.is_due = TRUE]
  BY DEF Request, WebSetsBusy, WebQueues, Tick, CronFinds, CronLeavesIt, CronSetsBusy,
         CronQueues, RequestFails
<1>5. StepTypeOK'
  BY <1>1, <1>3, <1>4 DEF StepTypeOK
<1>6. RequestTypeOK'
  BY <1>1
     DEF RequestTypeOK, Request, WebSetsBusy, WebQueues, Tick, CronFinds, CronLeavesIt,
         CronSetsBusy, CronQueues, RequestFails
<1>7. faults' \in 0 .. MaxFaults /\ dropped' \in BOOLEAN
  <2>1. CASE RequestFails
    <3>1. dropped' = TRUE /\ faults' \in 0 .. MaxFaults
      BY <1>1, <2>1 DEF RequestFails
    <3>2. dropped' \in BOOLEAN
      BY <3>1, Zenon
    <3> QED
      BY <3>1, <3>2
  <2>2. CASE UNCHANGED <<faults, dropped>>
    BY <1>1, <2>2
  <2> QED
    BY <2>1, <2>2
       DEF Request, WebSetsBusy, WebQueues, Tick, CronFinds, CronLeavesIt, CronSetsBusy, CronQueues
<1>8. StoredTypeOK' /\ HistoryTypeOK' /\ FetcherTypeOK'
  BY <1>2, <1>3
     DEF RequestUnchanged, TypeOK, StoredTypeOK, HistoryTypeOK, Change, FetcherTypeOK, Fetcher
<1> QED
  BY <1>2, <1>5, <1>6, <1>7, <1>8 DEF RequestUnchanged, TypeOK, CounterTypeOK

(* What a fetcher makes of its own state, and of the clock. *)
LEMMA FetchersStep ==
  ASSUME TypeOK, NEW f \in Fetchers, Fetch(f) \/ Crash(f) \/ Raise(f)
  PROVE  /\ clock' \in {clock, clock + 1}
         /\ \A g \in Fetchers \ {f} : fetchers'[g] = fetchers[g]
         /\ FetcherTypeOK'
<1>1. fetchers \in [Fetchers -> Fetcher] /\ clock \in Nat /\ step.version \in Times
  BY DEF TypeOK, FetcherTypeOK, CounterTypeOK, StepTypeOK
<1>2. clock' \in {clock, clock + 1}
  BY DEF Fetch, SkipFetch, Load, FindDeleted, MarkUnchanged, CreateResult, SelectVersion,
         Reschedule, Crash, Raise
<1>3. Times \subseteq Times'
  BY <1>1, <1>2 DEF Times
<1>4. Fetcher \subseteq Fetcher'
  BY <1>3 DEF Fetcher
<1>5. fetchers' = fetchers \/ \E v \in Fetcher' : fetchers' = [fetchers EXCEPT ![f] = v]
  <2>1. Idle \in Fetcher' /\ [pc |-> "scheduling"] \in Fetcher'
    BY DEF Fetcher
  <2>2. CASE Load(f)
    <3> DEFINE has == step.version \in DOMAIN rows \cap files
               v   == [pc |-> "fetching", now |-> clock + 1, has_last |-> has]
    <3>1. has = TRUE \/ has = FALSE
      OBVIOUS
    <3>2. clock + 1 \in Times' \ {None}
      BY <1>1, <2>2 DEF Load, Times, None
    <3> HIDE DEF has
    <3>3. v \in Fetcher'
      BY <3>1, <3>2 DEF Fetcher
    <3> QED
      BY <2>2, <3>3 DEF Load, has
  <2>3. CASE CreateResult(f)
    <3> DEFINE v == [pc |-> "selecting", now |-> fetchers[f].now, version |-> step.version]
    <3>1. fetchers[f].now \in Times \ {None}
      BY <2>3, FetcherFields DEF CreateResult, TypeOK
    <3>2. v \in Fetcher'
      BY <1>1, <1>3, <3>1 DEF Fetcher, None
    <3>3. fetchers' = [fetchers EXCEPT ![f] = v]
      BY <2>3 DEF CreateResult
    <3> HIDE DEF v
    <3> QED
      BY <3>2, <3>3
  <2>4. CASE SkipFetch(f) \/ FindDeleted(f) \/ MarkUnchanged(f) \/ SelectVersion(f) \/ Reschedule(f)
             \/ Crash(f) \/ Raise(f)
    BY <2>1, <2>4
       DEF SkipFetch, FindDeleted, MarkUnchanged, SelectVersion, Reschedule, Crash, Raise, Saved
  <2> QED
    BY <2>2, <2>3, <2>4 DEF Fetch
<1>6. FetcherTypeOK' /\ \A g \in Fetchers \ {f} : fetchers'[g] = fetchers[g]
  <2> HIDE DEF Fetcher
  <2>1. CASE fetchers' = fetchers
    BY <1>1, <1>4, <2>1 DEF FetcherTypeOK
  <2>2. ASSUME NEW v \in Fetcher', fetchers' = [fetchers EXCEPT ![f] = v]
        PROVE  FetcherTypeOK' /\ \A g \in Fetchers \ {f} : fetchers'[g] = fetchers[g]
    BY <1>1, <1>4, <2>2 DEF FetcherTypeOK
  <2> QED
    BY <1>5, <2>1, <2>2
<1> QED
  BY <1>2, <1>6

(* A fetch that saves a result: the new version is stored, and no others   *)
(* than there were.                                                        *)
LEMMA StoredStep ==
  ASSUME TypeOK, NEW f \in Fetchers, CreateResult(f)
  PROVE  /\ DOMAIN rows' \subseteq DOMAIN rows \cup {fetchers[f].now}
         /\ files' \subseteq files \cup {fetchers[f].now}
         /\ rows' \in [DOMAIN rows' -> Sizes]
         /\ fetchers[f].now = clock => clock \in DOMAIN rows' \cap files'
<1>1. PICK size \in Sizes :
        LET all == WithNew(f, size)
            old == Deletable(all)
        IN  /\ rows' = [v \in DOMAIN all \ old |-> all[v]]
            /\ files' = (files \cup {fetchers[f].now}) \ old
  BY DEF CreateResult
<1> DEFINE all == WithNew(f, size)
           old == Deletable(all)
<1>2. /\ clock \in Nat /\ fetchers[f].now \in Times /\ DOMAIN rows \subseteq Times
      /\ rows \in [DOMAIN rows -> Sizes]
  BY FetcherFields DEF CreateResult, TypeOK, CounterTypeOK, StoredTypeOK
<1>3. DOMAIN all = DOMAIN rows \cup {fetchers[f].now} /\ \A v \in DOMAIN all : all[v] \in Sizes
  <2>1. /\ DOMAIN all = DOMAIN rows \cup {fetchers[f].now}
        /\ \A v \in DOMAIN rows : all[v] = rows[v]
        /\ fetchers[f].now \notin DOMAIN rows => all[fetchers[f].now] = size
    BY NewIsThere
  <2> HIDE DEF all
  <2> QED
    BY <1>2, <2>1
<1>4. old \subseteq DOMAIN all \ {clock}
  BY <1>2, <1>3, NewestStays DEF Times
<1> HIDE DEF all, old
<1>5. rows' = [v \in DOMAIN all \ old |-> all[v]] /\ files' = (files \cup {fetchers[f].now}) \ old
  BY <1>1 DEF all, old
<1> QED
  BY <1>2, <1>3, <1>4, <1>5

(* A step of a fetcher keeps the types. *)
LEMMA FetchTyping ==
  ASSUME TypeOK, NEW f \in Fetchers, Fetch(f) \/ Crash(f) \/ Raise(f)
  PROVE  TypeOK'
<1>1. /\ step \in [is_deleted : BOOLEAN, is_busy : BOOLEAN, version : Times, is_due : BOOLEAN]
      /\ past \in Seq(Change) /\ future \in Seq(Change) /\ queue \in Nat /\ clock \in Nat
      /\ faults \in 0 .. MaxFaults /\ MaxFaults \in Nat /\ edits \in 0 .. MaxEdits
      /\ rows \in [DOMAIN rows -> Sizes] /\ DOMAIN rows \subseteq Times \ {None}
      /\ files \subseteq Times
  <2>1. \A n \in {MaxFetches, MaxEdits, MaxFaults} : n \in Nat
    BY VersionBounds
  <2> QED
    BY <2>1
       DEF TypeOK, StepTypeOK, HistoryTypeOK, RequestTypeOK, CounterTypeOK, StoredTypeOK
<1>2. picked \in BOOLEAN /\ overlapped \in BOOLEAN /\ dropped \in BOOLEAN
  BY DEF TypeOK, CounterTypeOK
<1>3. clock' \in Nat /\ Times \subseteq Times' /\ FetcherTypeOK'
  BY <1>1, FetchersStep DEF Times
<1>4. past \in Seq(Change') /\ future \in Seq(Change') /\ Times \subseteq Times'
  <2>1. Change \subseteq Change'
    BY <1>3 DEF Change
  <2> QED
    BY <1>1, <1>3, <2>1, SeqMonotonic
<1>5. FetchUnchanged
  BY DEF Fetch, SkipFetch, Load, FindDeleted, MarkUnchanged, CreateResult, SelectVersion,
         Reschedule, Crash, Raise
<1>6. CASE SelectVersion(f)
  <2>1. fetchers[f].now \in Times /\ fetchers[f].version \in Times
    BY <1>6, FetcherFields DEF SelectVersion, TypeOK
  <2>2. [back |-> fetchers[f].version, forth |-> fetchers[f].now] \in Change'
    BY <1>3, <2>1 DEF Change
  <2>3. HistoryTypeOK'
    BY <1>4, <1>6, <2>2, AppendProperties, EmptySeq DEF SelectVersion, Do, HistoryTypeOK
  <2>4. step' = [step EXCEPT !.version = fetchers[f].now] /\ picked' = FALSE
    BY <1>6 DEF SelectVersion
  <2>5. picked' \in BOOLEAN
    BY <2>4, Zenon
  <2>6. StepTypeOK'
    BY <1>1, <1>3, <2>1, <2>4 DEF StepTypeOK
  <2> QED
    BY <1>1, <1>2, <1>3, <1>5, <1>6, <2>3, <2>5, <2>6
       DEF SelectVersion, FetchUnchanged, TypeOK, StoredTypeOK, RequestTypeOK, CounterTypeOK
<1>7. ASSUME ~SelectVersion(f) PROVE TypeOK'
  <2>1. UNCHANGED <<past, future, picked>>
    BY <1>7
       DEF Fetch, SkipFetch, Load, FindDeleted, MarkUnchanged, CreateResult, Reschedule, Crash,
           Raise
  <2>2. HistoryTypeOK'
    BY <1>4, <2>1 DEF HistoryTypeOK
  <2>3. step' \in {step, [step EXCEPT !.is_busy = FALSE], [step EXCEPT !.is_due = FALSE]}
    BY <1>7
       DEF Fetch, SkipFetch, Load, FindDeleted, MarkUnchanged, CreateResult, Reschedule, Crash,
           Raise
  <2>4. StepTypeOK'
    BY <1>1, <1>3, <2>3 DEF StepTypeOK
  <2>5. queue' \in Nat /\ faults' \in 0 .. MaxFaults
    BY <1>1, <1>7, SMTT(60)
       DEF Fetch, SkipFetch, Load, FindDeleted, MarkUnchanged, CreateResult, Reschedule, Crash,
           Raise
  <2>6. StoredTypeOK'
    <3>1. CASE CreateResult(f)
      <4>1. fetchers[f].now \in Times \ {None}
        BY <3>1, FetcherFields DEF CreateResult, TypeOK
      <4> QED
        BY <1>1, <1>3, <3>1, <4>1, StoredStep DEF StoredTypeOK, None
    <3>2. CASE Crash(f) \/ Raise(f)
      <4>1. rows' = rows /\ FilesHalfWay(f)
        BY <3>2 DEF Crash, Raise
      <4>2. files' \subseteq Times
        <5>1. CASE files' = files
          BY <1>1, <5>1
        <5>2. CASE files' # files
          <6>1. files' \subseteq files \cup {fetchers[f].now} /\ fetchers[f].now \in Times
            BY <4>1, <5>2, FetcherFields DEF FilesHalfWay, TypeOK
          <6> QED
            BY <1>1, <6>1
        <5> QED
          BY <5>1, <5>2
      <4> QED
        BY <1>1, <1>3, <4>1, <4>2 DEF StoredTypeOK, None
    <3>3. CASE UNCHANGED <<rows, files>>
      BY <1>1, <1>3, <3>3 DEF StoredTypeOK, None
    <3> QED
      BY <1>7, <3>1, <3>2, <3>3
         DEF Fetch, SkipFetch, Load, FindDeleted, MarkUnchanged, Reschedule
  <2>7. overlapped' \in BOOLEAN
    <3>1. overlapped' = overlapped \/ overlapped' = (overlapped \/ AtWork # {})
      BY <1>7
         DEF Fetch, SkipFetch, Load, FindDeleted, MarkUnchanged, CreateResult, Reschedule, Crash,
             Raise
    <3> QED
      BY <1>2, <3>1, Zenon
  <2>8. dropped' \in BOOLEAN
    <3>1. \/ dropped' = dropped \/ dropped' = TRUE
          \/ dropped' = (dropped \/ fetchers[f].pc = "fetching")
      BY <1>7
         DEF Fetch, SkipFetch, Load, FindDeleted, MarkUnchanged, CreateResult, Reschedule, Crash,
             Raise
    <3> QED
      BY <1>2, <3>1, Zenon
  <2> QED
    BY <1>1, <1>2, <1>3, <1>5, <2>1, <2>2, <2>4, <2>5, <2>6, <2>7, <2>8
       DEF FetchUnchanged, TypeOK, RequestTypeOK, CounterTypeOK
<1> QED
  BY <1>6, <1>7

(* So no step breaks a type. *)
LEMMA TypeOKStep ==
  ASSUME TypeOK, [Next]_vars
  PROVE  TypeOK'
<1>1. CASE UNCHANGED vars
  BY <1>1
     DEF vars, TypeOK, StepTypeOK, StoredTypeOK, HistoryTypeOK, RequestTypeOK, FetcherTypeOK,
         CounterTypeOK, Times, Change, Fetcher
<1> QED
  BY <1>1, EditTyping, RequestTyping, FetchTyping DEF Next

(* What is in the variables, always. *)
THEOREM Typing == Spec => []TypeOK
<1>1. TypeOK /\ [Next]_vars => TypeOK'
  BY TypeOKStep
<1> QED
  BY <1>1, TypeOKInit, PTL DEF Spec

-----------------------------------------------------------------------------
(* The version that is shown.                                              *)

(* Unless two fetchers have been at work at once, one at most is, and it   *)
(* has the newest version.                                                 *)
OneAtWork ==
  ~overlapped =>
    \A f \in Fetchers : fetchers[f].pc # "idle" =>
      /\ \A g \in Fetchers \ {f} : fetchers[g].pc = "idle"
      /\ fetchers[f].pc \in {"fetching", "selecting"} => fetchers[f].now = clock

(* Between its two transactions, a fetcher's version is stored, row and    *)
(* file, unless something failed.                                          *)
NewIsStored ==
  ~overlapped /\ faults = 0 =>
    \A f \in Fetchers : fetchers[f].pc = "selecting" => fetchers[f].now \in DOMAIN rows \cap files

IInv == TypeOK /\ OneAtWork /\ NewIsStored /\ ShownVersionIsStored

(* Nothing is shown at first. *)
LEMMA IInvInit == Init => IInv
<1> SUFFICES ASSUME Init PROVE IInv
  OBVIOUS
<1>1. \A f \in Fetchers : fetchers[f].pc = "idle"
  BY DEF Init, Idle
<1>2. OneAtWork /\ NewIsStored
  BY <1>1 DEF OneAtWork, NewIsStored
<1>3. ShownVersionIsStored
  BY DEF Init, ShownVersionIsStored
<1> QED
  BY <1>2, <1>3, TypeOKInit DEF IInv

(* Users and requests leave fetchers and what is stored alone, and only    *)
(* users show another version: one they have picked.                       *)
LEMMA OthersStep ==
  ASSUME IInv, Edit \/ Request
  PROVE  OneAtWork' /\ NewIsStored' /\ ShownVersionIsStored'
<1>1. UNCHANGED <<rows, files, fetchers, clock, overlapped>>
  BY DEF Edit, ChooseVersion, DeleteStep, Undo, Redo, EditUnchanged, Request, WebSetsBusy,
         WebQueues, Tick, CronFinds, CronLeavesIt, CronSetsBusy, CronQueues, RequestFails,
         RequestUnchanged
<1>2. /\ step \in [is_deleted : BOOLEAN, is_busy : BOOLEAN, version : Times, is_due : BOOLEAN]
      /\ faults \in Nat
  <2>1. \A n \in {MaxFetches, MaxEdits, MaxFaults} : n \in Nat
    BY VersionBounds
  <2> QED
    BY <2>1 DEF IInv, TypeOK, StepTypeOK, CounterTypeOK
<1>3. picked' \/ (step'.version = step.version /\ picked' = picked)
  <2>1. CASE Undo
    <3> DEFINE e == Last(past)
    <3>1. CASE e.forth = None
      <4>1. step' = [step EXCEPT !.is_deleted = FALSE] /\ picked' = (picked \/ e.forth # None)
        BY <2>1, <3>1 DEF Undo
      <4>2. picked' = picked
        BY <3>1, <4>1, Zenon DEF IInv, TypeOK, CounterTypeOK
      <4> QED
        BY <1>2, <4>1, <4>2
    <3>2. CASE e.forth # None
      BY <2>1, <3>2 DEF Undo
    <3> QED
      BY <3>1, <3>2
  <2>2. CASE Redo
    <3> DEFINE e == Head(future)
    <3>1. CASE e.forth = None
      <4>1. step' = [step EXCEPT !.is_deleted = TRUE] /\ picked' = (picked \/ e.forth # None)
        BY <2>2, <3>1 DEF Redo
      <4>2. picked' = picked
        BY <3>1, <4>1, Zenon DEF IInv, TypeOK, CounterTypeOK
      <4> QED
        BY <1>2, <4>1, <4>2
    <3>2. CASE e.forth # None
      BY <2>2, <3>2 DEF Redo
    <3> QED
      BY <3>1, <3>2
  <2>3. CASE ChooseVersion \/ DeleteStep
    BY <1>2, <2>3 DEF ChooseVersion, DeleteStep
  <2>4. CASE Request
    <3>1. picked' = picked
      BY <2>4
         DEF Request, WebSetsBusy, WebQueues, Tick, CronFinds, CronLeavesIt, CronSetsBusy,
             CronQueues, RequestFails, RequestUnchanged
    <3>2. step'.version = step.version
      BY <1>2, <2>4
         DEF Request, WebSetsBusy, WebQueues, Tick, CronFinds, CronLeavesIt, CronSetsBusy,
             CronQueues, RequestFails
    <3> QED
      BY <3>1, <3>2
  <2> QED
    BY <2>1, <2>2, <2>3, <2>4 DEF Edit
<1>4. faults' = faults \/ faults' = faults + 1
  BY DEF Edit, ChooseVersion, DeleteStep, Undo, Redo, EditUnchanged, Request, WebSetsBusy,
         WebQueues, Tick, CronFinds, CronLeavesIt, CronSetsBusy, CronQueues, RequestFails
<1>5. faults' > 0 \/ faults' = faults
  BY <1>2, <1>4
<1>6. OneAtWork'
  BY <1>1 DEF IInv, OneAtWork
<1>7. NewIsStored'
  BY <1>1, <1>5 DEF IInv, NewIsStored
<1>8. ShownVersionIsStored'
  BY <1>1, <1>3, <1>5 DEF IInv, ShownVersionIsStored
<1> QED
  BY <1>6, <1>7, <1>8

(* Nor does a fetcher break it that is at work alone. *)
LEMMA AloneStep ==
  ASSUME IInv, NEW f \in Fetchers, Fetch(f) \/ Crash(f) \/ Raise(f)
  PROVE  OneAtWork' /\ NewIsStored' /\ ShownVersionIsStored'
<1>1. /\ step \in [is_deleted : BOOLEAN, is_busy : BOOLEAN, version : Times, is_due : BOOLEAN]
      /\ faults \in Nat /\ clock \in Nat /\ fetchers \in [Fetchers -> Fetcher]
  <2>1. \A n \in {MaxFetches, MaxEdits, MaxFaults} : n \in Nat
    BY VersionBounds
  <2> QED
    BY <2>1 DEF IInv, TypeOK, StepTypeOK, CounterTypeOK, FetcherTypeOK
<1>2. \A g \in Fetchers \ {f} : fetchers'[g] = fetchers[g]
  BY FetchersStep DEF IInv
<1>3. CASE overlapped'
  BY <1>3 DEF OneAtWork, NewIsStored, ShownVersionIsStored
<1>4. CASE SkipFetch(f)
  BY <1>4 DEF SkipFetch, IInv, OneAtWork, NewIsStored, ShownVersionIsStored
<1>5. CASE ~overlapped' /\ ~SkipFetch(f)
  <2>1. ~overlapped
    BY <1>5
       DEF Fetch, Load, FindDeleted, MarkUnchanged, CreateResult, SelectVersion, Reschedule,
           Crash, Raise
  <2>2. \A g \in Fetchers \ {f} : fetchers[g].pc = "idle" /\ fetchers'[g].pc = "idle"
    <3>1. CASE Load(f)
      BY <1>2, <1>5, <3>1 DEF Load, AtWork
    <3>2. CASE fetchers[f].pc # "idle"
      BY <1>2, <2>1, <3>2 DEF IInv, OneAtWork
    <3> QED
      BY <1>5, <3>1, <3>2
         DEF Fetch, FindDeleted, MarkUnchanged, CreateResult, SelectVersion, Reschedule, Crash,
             Raise
  <2>3. CASE Load(f)
    <3>1. /\ UNCHANGED <<step, rows, files, faults, picked>> /\ fetchers[f] = Idle
          /\ clock' = clock + 1 /\ fetchers'[f].pc = "fetching" /\ fetchers'[f].now = clock'
      BY <1>1, <2>3 DEF Load
    <3>2. ~\E g \in Fetchers : fetchers[g].pc = "selecting"
      BY <2>2, <3>1 DEF Idle
    <3>3. OneAtWork'
      BY <2>2, <3>1 DEF OneAtWork
    <3>4. NewIsStored'
      BY <2>2, <3>1 DEF NewIsStored
    <3>5. ShownVersionIsStored'
      BY <2>1, <3>1, <3>2 DEF IInv, ShownVersionIsStored
    <3> QED
      BY <3>3, <3>4, <3>5
  <2>4. CASE FindDeleted(f) \/ MarkUnchanged(f) \/ Reschedule(f)
    <3>1. /\ UNCHANGED <<rows, files, faults, picked, clock>>
          /\ fetchers[f].pc \in {"fetching", "scheduling"}
          /\ fetchers'[f].pc \in {"idle", "scheduling"}
      BY <1>1, <2>4 DEF FindDeleted, MarkUnchanged, Reschedule, Saved, Idle
    <3>2. step'.version = step.version
      BY <1>1, <2>4 DEF FindDeleted, MarkUnchanged, Reschedule
    <3>3. ~\E g \in Fetchers : fetchers[g].pc = "selecting"
      BY <2>2, <3>1
    <3>4. OneAtWork'
      BY <2>2, <3>1 DEF OneAtWork
    <3>5. NewIsStored'
      BY <2>2, <3>1 DEF NewIsStored
    <3>6. ShownVersionIsStored'
      BY <2>1, <3>1, <3>2, <3>3 DEF IInv, ShownVersionIsStored
    <3> QED
      BY <3>4, <3>5, <3>6
  <2>5. CASE CreateResult(f)
    <3>1. /\ fetchers[f].pc = "fetching" /\ UNCHANGED <<clock, faults>>
          /\ fetchers'[f].pc = "selecting" /\ fetchers'[f].now = fetchers[f].now
      BY <1>1, <2>5 DEF CreateResult
    <3>2. fetchers[f].now = clock
      BY <2>1, <3>1 DEF IInv, OneAtWork
    <3>3. clock \in DOMAIN rows' \cap files'
      BY <2>5, <3>2, StoredStep DEF IInv
    <3>4. OneAtWork'
      BY <2>2, <3>1, <3>2 DEF OneAtWork
    <3>5. NewIsStored'
      BY <2>2, <3>1, <3>2, <3>3 DEF NewIsStored
    <3>6. ShownVersionIsStored'
      BY <3>1 DEF ShownVersionIsStored
    <3> QED
      BY <3>4, <3>5, <3>6
  <2>6. CASE SelectVersion(f)
    <3>1. /\ fetchers[f].pc = "selecting" /\ UNCHANGED <<rows, files, faults, clock>>
          /\ fetchers'[f].pc = "scheduling" /\ step'.version = fetchers[f].now
      BY <1>1, <2>6 DEF SelectVersion, Saved
    <3>2. faults = 0 => step'.version \in DOMAIN rows \cap files
      BY <2>1, <3>1 DEF IInv, NewIsStored
    <3>3. OneAtWork'
      BY <2>2, <3>1 DEF OneAtWork
    <3>4. NewIsStored'
      BY <2>2, <3>1 DEF NewIsStored
    <3>5. ShownVersionIsStored'
      BY <1>1, <3>1, <3>2 DEF ShownVersionIsStored
    <3> QED
      BY <3>3, <3>4, <3>5
  <2>7. CASE Crash(f) \/ Raise(f)
    <3>1. fetchers'[f].pc = "idle" /\ faults' = faults + 1 /\ clock' = clock
      BY <1>1, <2>7 DEF Crash, Raise, Idle
    <3>2. faults' > 0 /\ faults' # 0
      BY <1>1, <3>1
    <3>3. OneAtWork'
      BY <2>2, <3>1 DEF OneAtWork
    <3> QED
      BY <3>2, <3>3 DEF NewIsStored, ShownVersionIsStored
  <2> QED
    BY <1>5, <2>3, <2>4, <2>5, <2>6, <2>7 DEF Fetch
<1> QED
  BY <1>3, <1>4, <1>5

(* No step breaks the invariant. *)
LEMMA IInvStep ==
  ASSUME IInv, [Next]_vars
  PROVE  IInv'
<1>1. TypeOK'
  BY TypeOKStep DEF IInv
<1>2. CASE UNCHANGED vars
  BY <1>1, <1>2 DEF vars, IInv, OneAtWork, NewIsStored, ShownVersionIsStored
<1> QED
  BY <1>1, <1>2, OthersStep, AloneStep DEF Next, IInv

(* What holds of the fetchers and what they store, always. *)
THEOREM Invariance == Spec => []IInv
<1>1. IInv /\ [Next]_vars => IInv'
  BY IInvStep
<1> QED
  BY <1>1, IInvInit, PTL DEF Spec

(* The version that the step shows is stored, row and file, whatever the   *)
(* limits and whatever commands came between a fetcher's two transactions, *)
(* unless a user selected one that is gone, two fetchers were at work at   *)
(* once, or something failed.                                              *)
THEOREM ShownVersionsAreStored == Spec => []ShownVersionIsStored
<1>1. IInv => ShownVersionIsStored
  BY DEF IInv
<1> QED
  BY <1>1, Invariance, PTL
=============================================================================
