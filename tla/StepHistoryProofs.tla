------------------------- MODULE StepHistoryProofs --------------------------
(***************************************************************************)
(* Theorems about StepHistory, for any number of tabs, steps and edits.    *)
(*                                                                         *)
(* The argument.  Whoever races, the deltas are one chain of ids that go   *)
(* up, and the workflow's last delta is at a place of it or before it      *)
(* (IsChain, IsAt).                                                        *)
(*                                                                         *)
(* As long as nobody races, the deltas tell a story (Tells): there are     *)
(* documents D[0], D[1] ... such that forward() of the k-th delta makes    *)
(* D[k] of D[k - 1], and backward() D[k - 1] of D[k].  The document in the *)
(* database is the one at the place of the last delta (HasStory) but for   *)
(* results and what is selected, which neither reads (Same), and it is in  *)
(* order (Sound).                                                          *)
(*                                                                         *)
(* A handler makes a delta that goes there and back (Made, ThereAndBack):  *)
(* that is where the arithmetic of places is, and where its amend_ method  *)
(* has to have kept the right things.  One thing does not come back: a     *)
(* step that AddStep adds keeps the delta that adds it, when it is deleted *)
(* again.  And new rows, which AddStep and DuplicateTab write before       *)
(* forward(), are there in the past of the story too, without being seen   *)
(* (Grown).                                                                *)
(*                                                                         *)
(* Hence the places of steps stay 0, 1, 2 ..., undo and redo show what     *)
(* there was, and what is stale after a step is said to be by its delta.   *)
(*                                                                         *)
(* That fresh results are true takes more, for undo gives a step an older  *)
(* delta, and with it may make an old result fresh: in the whole story, a  *)
(* step with the same delta has the same output, and a result kept for a   *)
(* delta is the output wherever the step has that delta (IsTrue).  A       *)
(* command keeps it so since the steps it does not name are out of its     *)
(* reach (Touches, OutputsGo): outputs, though they are computed by        *)
(* recursion, are the same in two documents if steps can be paired such    *)
(* that all they are computed from is (MirrorsTell).  DeleteTab names no   *)
(* step, and keeps it so only if nobody reads the tab.                     *)
(***************************************************************************)
EXTENDS StepHistory, FunctionTheorems, SequenceTheorems, FiniteSetTheorems,
        WellFoundedInduction, TLAPS

-----------------------------------------------------------------------------
(* Documents.                                                              *)

Steps(d)       == DOMAIN d.steps
Tabs(d)        == DOMAIN d.tabs
Order(d)       == d.order
NameOf(d, t)   == d.tabs[t].name
Chosen(d, t)   == d.tabs[t].selected
TabOf(d, s)    == d.steps[s].tab
Place(d, s)    == d.steps[s].order
Gone(d, s)     == d.steps[s].is_deleted
DeltaOf(d, s)  == d.steps[s].delta
ParamsOf(d, s) == d.steps[s].params
VersionOf(d, s) == d.steps[s].version
ResultOf(d, s) == d.steps[s].crr

Showing(d, r) == Shown(d, r, TRUE)
Hiding(d, r)  == Shown(d, r, FALSE)
Selecting(d, t, v) == [d EXCEPT !.tabs[t].selected = v]
Naming(d, t, v)    == [d EXCEPT !.tabs[t].name = v]
Ordering(d, v)     == [d EXCEPT !.order = v]
WithParams(d, r, v)  == [d EXCEPT !.steps[r].params = v]
WithVersion(d, r, v) == [d EXCEPT !.steps[r].version = v]

Columns == {"tab", "order", "is_deleted", "delta", "params", "version", "crr"}

(* Rows of tables "tab" and "step", and an order of tabs. *)
IsDoc(d) ==
  /\ DOMAIN d = {"tabs", "order", "steps"}
  /\ \A t \in DOMAIN d.tabs : DOMAIN d.tabs[t] = {"name", "selected"}
  /\ \A s \in DOMAIN d.steps :
       /\ DOMAIN d.steps[s] = Columns
       /\ d.steps[s].tab \in DOMAIN d.tabs /\ d.steps[s].order \in Nat
       /\ d.steps[s].is_deleted \in BOOLEAN /\ d.steps[s].delta \in Nat

(* f has the rows of d, and what forward() and backward() may change is    *)
(* the same for now or not.                                                *)
SameRows(f, d) ==
  /\ IsDoc(f) /\ Tabs(f) = Tabs(d) /\ Steps(f) = Steps(d)
  /\ \A s \in Steps(d) : TabOf(f, s) = TabOf(d, s) /\ ResultOf(f, s) = ResultOf(d, s)
SamePlaces(f, d)   == \A s \in Steps(d) : Place(f, s) = Place(d, s)
SameGone(f, d)     == \A s \in Steps(d) : Gone(f, s) <=> Gone(d, s)
SameDeltas(f, d)   == \A s \in Steps(d) : DeltaOf(f, s) = DeltaOf(d, s)
SameParams(f, d)   == \A s \in Steps(d) : ParamsOf(f, s) = ParamsOf(d, s)
SameVersions(f, d) == \A s \in Steps(d) : VersionOf(f, s) = VersionOf(d, s)
SameTabs(f, d) ==
  \A t \in Tabs(d) : NameOf(f, t) = NameOf(d, t) /\ Chosen(f, t) = Chosen(d, t)

(* What is in a document. *)
LEMMA DocFacts ==
  ASSUME NEW d, IsDoc(d)
  PROVE  \A s \in Steps(d) : /\ TabOf(d, s) \in Tabs(d) /\ Place(d, s) \in Nat
                             /\ DeltaOf(d, s) \in Nat
  BY DEF IsDoc, Steps, Tabs, TabOf, Place, DeltaOf

(* The steps of a tab, and those from a place on. *)
LEMMA TabFacts ==
  ASSUME NEW d, NEW t
  PROVE  /\ \A s : s \in StepsOf(d, t) <=> s \in Steps(d) /\ TabOf(d, s) = t /\ ~Gone(d, s)
         /\ \A p : \A s : s \in InTab(d, t, p) <=> s \in StepsOf(d, t) /\ Place(d, s) >= p
  BY DEF StepsOf, InTab, Steps, TabOf, Gone, Place

(* Where the steps are as they were, so are those of a tab. *)
LEMMA SameSteps ==
  ASSUME NEW d, NEW f, SameRows(f, d), SameGone(f, d), NEW t
  PROVE  StepsOf(f, t) = StepsOf(d, t)
<1>1. \A s : s \in StepsOf(f, t) <=> s \in StepsOf(d, t)
  BY TabFacts DEF SameRows, SameGone
<1> QED
  BY <1>1

(* A change of rows of steps. *)
LEMMA StepsChange ==
  ASSUME NEW d, IsDoc(d), NEW f, DOMAIN f = {"tabs", "order", "steps"},
         f.tabs = d.tabs, f.order = d.order, DOMAIN f.steps = DOMAIN d.steps,
         \A s \in Steps(d) :
           /\ DOMAIN f.steps[s] = Columns
           /\ f.steps[s].tab = d.steps[s].tab /\ f.steps[s].order \in Nat
           /\ f.steps[s].is_deleted \in BOOLEAN /\ f.steps[s].delta \in Nat
           /\ f.steps[s].crr = d.steps[s].crr
  PROVE  SameRows(f, d) /\ SameTabs(f, d) /\ Order(f) = Order(d)
<1>1. \A s \in DOMAIN d.steps : d.steps[s].tab \in DOMAIN d.tabs
  BY DEF IsDoc
<1>2. \A t \in DOMAIN d.tabs : DOMAIN d.tabs[t] = {"name", "selected"}
  BY DEF IsDoc
<1>3. IsDoc(f)
  BY <1>1, <1>2 DEF IsDoc, Steps
<1>4. ASSUME NEW s \in Steps(d)
      PROVE  TabOf(f, s) = TabOf(d, s) /\ ResultOf(f, s) = ResultOf(d, s)
  BY DEF TabOf, ResultOf
<1>5. Tabs(f) = Tabs(d) /\ Steps(f) = Steps(d) /\ SameTabs(f, d) /\ Order(f) = Order(d)
  BY DEF Tabs, Steps, SameTabs, Order, NameOf, Chosen
<1> QED
  BY <1>3, <1>4, <1>5 DEF SameRows

(* Moved(). *)
LEMMA MovedRows ==
  ASSUME NEW d, IsDoc(d), NEW S \in SUBSET Steps(d), NEW by \in Int,
         \A s \in S : Place(d, s) + by \in Nat,
         NEW f, f = Moved(d, S, by)
  PROVE  /\ SameRows(f, d) /\ SameTabs(f, d) /\ Order(f) = Order(d)
         /\ SameGone(f, d) /\ SameDeltas(f, d) /\ SameParams(f, d) /\ SameVersions(f, d)
         /\ \A s \in Steps(d) : Place(f, s) = IF s \in S THEN Place(d, s) + by ELSE Place(d, s)
<1>0. IsDoc(d)
  OBVIOUS
<1>1. /\ DOMAIN f = {"tabs", "order", "steps"} /\ f.tabs = d.tabs /\ f.order = d.order
      /\ DOMAIN f.steps = DOMAIN d.steps
      /\ \A s \in DOMAIN d.steps :
           f.steps[s] = IF s \in S THEN [d.steps[s] EXCEPT !.order = @ + by]
                        ELSE d.steps[s]
  BY DEF Moved, IsDoc
<1>2. ASSUME NEW s \in DOMAIN d.steps
      PROVE  /\ DOMAIN f.steps[s] = Columns
             /\ f.steps[s].tab = d.steps[s].tab /\ f.steps[s].order \in Nat
             /\ f.steps[s].is_deleted \in BOOLEAN /\ f.steps[s].delta \in Nat
             /\ f.steps[s].crr = d.steps[s].crr
             /\ f.steps[s].is_deleted = d.steps[s].is_deleted
             /\ f.steps[s].delta = d.steps[s].delta
             /\ f.steps[s].params = d.steps[s].params
             /\ f.steps[s].version = d.steps[s].version
             /\ f.steps[s].order = IF s \in S THEN d.steps[s].order + by ELSE d.steps[s].order
  <2>1. /\ DOMAIN d.steps[s] = Columns
        /\ d.steps[s].order \in Nat
        /\ d.steps[s].is_deleted \in BOOLEAN /\ d.steps[s].delta \in Nat
    BY DEF IsDoc
  <2>2. CASE s \in S
    <3>1. f.steps[s] = [d.steps[s] EXCEPT !.order = @ + by] /\ d.steps[s].order + by \in Nat
      BY <1>1, <2>2 DEF Steps, Place
    <3> QED
      BY <2>1, <2>2, <3>1 DEF Columns
  <2>3. CASE s \notin S
    BY <1>1, <2>1, <2>3
  <2> QED
    BY <2>2, <2>3
<1>3. SameRows(f, d) /\ SameTabs(f, d) /\ Order(f) = Order(d)
  BY ONLY <1>0, <1>1, <1>2, StepsChange DEF Steps
<1>4. ASSUME NEW s \in Steps(d)
      PROVE  /\ Place(f, s) = IF s \in S THEN Place(d, s) + by ELSE Place(d, s)
             /\ (Gone(f, s) <=> Gone(d, s))
             /\ DeltaOf(f, s) = DeltaOf(d, s)
             /\ ParamsOf(f, s) = ParamsOf(d, s)
             /\ VersionOf(f, s) = VersionOf(d, s)
  BY <1>2 DEF Steps, Place, Gone, DeltaOf, ParamsOf, VersionOf
<1> QED
  BY <1>3, <1>4 DEF SameGone, SameDeltas, SameParams, SameVersions

(* Shown(), of a step that comes back. *)
LEMMA ShownRows ==
  ASSUME NEW d, IsDoc(d), NEW r \in Steps(d),
         NEW f, f = Showing(d, r)
  PROVE  /\ SameRows(f, d) /\ SameTabs(f, d) /\ Order(f) = Order(d)
         /\ SamePlaces(f, d) /\ SameDeltas(f, d) /\ SameParams(f, d) /\ SameVersions(f, d)
         /\ \A s \in Steps(d) : Gone(f, s) <=> s # r /\ Gone(d, s)
<1>0. IsDoc(d)
  OBVIOUS
<1>1. /\ DOMAIN f = {"tabs", "order", "steps"} /\ f.tabs = d.tabs /\ f.order = d.order
      /\ DOMAIN f.steps = DOMAIN d.steps
      /\ \A s \in DOMAIN d.steps :
           f.steps[s] = IF s = r THEN [d.steps[s] EXCEPT !.is_deleted = FALSE]
                        ELSE d.steps[s]
  BY DEF Showing, Shown, Steps, IsDoc
<1>2. ASSUME NEW s \in DOMAIN d.steps
      PROVE  /\ DOMAIN f.steps[s] = Columns
             /\ f.steps[s].tab = d.steps[s].tab /\ f.steps[s].order \in Nat
             /\ f.steps[s].is_deleted \in BOOLEAN /\ f.steps[s].delta \in Nat
             /\ f.steps[s].crr = d.steps[s].crr
             /\ f.steps[s].order = d.steps[s].order
             /\ f.steps[s].delta = d.steps[s].delta
             /\ f.steps[s].params = d.steps[s].params
             /\ f.steps[s].version = d.steps[s].version
             /\ (f.steps[s].is_deleted <=> s # r /\ d.steps[s].is_deleted)
  <2>1. /\ DOMAIN d.steps[s] = Columns
        /\ d.steps[s].order \in Nat
        /\ d.steps[s].is_deleted \in BOOLEAN /\ d.steps[s].delta \in Nat
    BY DEF IsDoc
  <2>2. CASE s = r
    <3>1. f.steps[s] = [d.steps[s] EXCEPT !.is_deleted = FALSE]
      BY <1>1, <2>2
    <3> QED
      BY <2>1, <2>2, <3>1 DEF Columns
  <2>3. CASE s # r
    BY <1>1, <2>1, <2>3
  <2> QED
    BY <2>2, <2>3
<1>3. SameRows(f, d) /\ SameTabs(f, d) /\ Order(f) = Order(d)
  BY ONLY <1>0, <1>1, <1>2, StepsChange DEF Steps
<1>4. ASSUME NEW s \in Steps(d)
      PROVE  /\ Gone(f, s) <=> s # r /\ Gone(d, s)
             /\ Place(f, s) = Place(d, s)
             /\ DeltaOf(f, s) = DeltaOf(d, s)
             /\ ParamsOf(f, s) = ParamsOf(d, s)
             /\ VersionOf(f, s) = VersionOf(d, s)
  BY <1>2 DEF Steps, Place, Gone, DeltaOf, ParamsOf, VersionOf
<1> QED
  BY <1>3, <1>4 DEF SamePlaces, SameDeltas, SameParams, SameVersions

(* Shown(), of a step that goes. *)
LEMMA HiddenRows ==
  ASSUME NEW d, IsDoc(d), NEW r \in Steps(d),
         NEW f, f = Hiding(d, r)
  PROVE  /\ SameRows(f, d) /\ SameTabs(f, d) /\ Order(f) = Order(d)
         /\ SamePlaces(f, d) /\ SameDeltas(f, d) /\ SameParams(f, d) /\ SameVersions(f, d)
         /\ \A s \in Steps(d) : Gone(f, s) <=> s = r \/ Gone(d, s)
<1>0. IsDoc(d)
  OBVIOUS
<1>1. /\ DOMAIN f = {"tabs", "order", "steps"} /\ f.tabs = d.tabs /\ f.order = d.order
      /\ DOMAIN f.steps = DOMAIN d.steps
      /\ \A s \in DOMAIN d.steps :
           f.steps[s] = IF s = r THEN [d.steps[s] EXCEPT !.is_deleted = TRUE]
                        ELSE d.steps[s]
  BY DEF Hiding, Shown, Steps, IsDoc
<1>2. ASSUME NEW s \in DOMAIN d.steps
      PROVE  /\ DOMAIN f.steps[s] = Columns
             /\ f.steps[s].tab = d.steps[s].tab /\ f.steps[s].order \in Nat
             /\ f.steps[s].is_deleted \in BOOLEAN /\ f.steps[s].delta \in Nat
             /\ f.steps[s].crr = d.steps[s].crr
             /\ f.steps[s].order = d.steps[s].order
             /\ f.steps[s].delta = d.steps[s].delta
             /\ f.steps[s].params = d.steps[s].params
             /\ f.steps[s].version = d.steps[s].version
             /\ (f.steps[s].is_deleted <=> s = r \/ d.steps[s].is_deleted)
  <2>1. /\ DOMAIN d.steps[s] = Columns
        /\ d.steps[s].order \in Nat
        /\ d.steps[s].is_deleted \in BOOLEAN /\ d.steps[s].delta \in Nat
    BY DEF IsDoc
  <2>2. CASE s = r
    <3>1. f.steps[s] = [d.steps[s] EXCEPT !.is_deleted = TRUE]
      BY <1>1, <2>2
    <3> QED
      BY <2>1, <2>2, <3>1 DEF Columns
  <2>3. CASE s # r
    BY <1>1, <2>1, <2>3
  <2> QED
    BY <2>2, <2>3
<1>3. SameRows(f, d) /\ SameTabs(f, d) /\ Order(f) = Order(d)
  BY ONLY <1>0, <1>1, <1>2, StepsChange DEF Steps
<1>4. ASSUME NEW s \in Steps(d)
      PROVE  /\ Gone(f, s) <=> s = r \/ Gone(d, s)
             /\ Place(f, s) = Place(d, s)
             /\ DeltaOf(f, s) = DeltaOf(d, s)
             /\ ParamsOf(f, s) = ParamsOf(d, s)
             /\ VersionOf(f, s) = VersionOf(d, s)
  BY <1>2 DEF Steps, Place, Gone, DeltaOf, ParamsOf, VersionOf
<1> QED
  BY <1>3, <1>4 DEF SamePlaces, SameDeltas, SameParams, SameVersions

(* WithDelta(). *)
LEMMA DeltaRows ==
  ASSUME NEW d, IsDoc(d), NEW S, NEW id \in Nat,
         NEW f, f = WithDelta(d, S, id)
  PROVE  /\ SameRows(f, d) /\ SameTabs(f, d) /\ Order(f) = Order(d)
         /\ SamePlaces(f, d) /\ SameGone(f, d) /\ SameParams(f, d) /\ SameVersions(f, d)
         /\ \A s \in Steps(d) : DeltaOf(f, s) = IF s \in S THEN id ELSE DeltaOf(d, s)
<1>0. IsDoc(d)
  OBVIOUS
<1>1. /\ DOMAIN f = {"tabs", "order", "steps"} /\ f.tabs = d.tabs /\ f.order = d.order
      /\ DOMAIN f.steps = DOMAIN d.steps
      /\ \A s \in DOMAIN d.steps :
           f.steps[s] = IF s \in S THEN [d.steps[s] EXCEPT !.delta = id]
                        ELSE d.steps[s]
  BY DEF WithDelta, IsDoc
<1>2. ASSUME NEW s \in DOMAIN d.steps
      PROVE  /\ DOMAIN f.steps[s] = Columns
             /\ f.steps[s].tab = d.steps[s].tab /\ f.steps[s].order \in Nat
             /\ f.steps[s].is_deleted \in BOOLEAN /\ f.steps[s].delta \in Nat
             /\ f.steps[s].crr = d.steps[s].crr
             /\ f.steps[s].order = d.steps[s].order
             /\ f.steps[s].is_deleted = d.steps[s].is_deleted
             /\ f.steps[s].params = d.steps[s].params
             /\ f.steps[s].version = d.steps[s].version
             /\ f.steps[s].delta = IF s \in S THEN id ELSE d.steps[s].delta
  <2>1. /\ DOMAIN d.steps[s] = Columns
        /\ d.steps[s].order \in Nat
        /\ d.steps[s].is_deleted \in BOOLEAN /\ d.steps[s].delta \in Nat
    BY DEF IsDoc
  <2>2. CASE s \in S
    <3>1. f.steps[s] = [d.steps[s] EXCEPT !.delta = id]
      BY <1>1, <2>2
    <3> QED
      BY <2>1, <2>2, <3>1 DEF Columns
  <2>3. CASE s \notin S
    BY <1>1, <2>1, <2>3
  <2> QED
    BY <2>2, <2>3
<1>3. SameRows(f, d) /\ SameTabs(f, d) /\ Order(f) = Order(d)
  BY ONLY <1>0, <1>1, <1>2, StepsChange DEF Steps
<1>4. ASSUME NEW s \in Steps(d)
      PROVE  /\ DeltaOf(f, s) = IF s \in S THEN id ELSE DeltaOf(d, s)
             /\ Place(f, s) = Place(d, s)
             /\ (Gone(f, s) <=> Gone(d, s))
             /\ ParamsOf(f, s) = ParamsOf(d, s)
             /\ VersionOf(f, s) = VersionOf(d, s)
  BY <1>2 DEF Steps, Place, Gone, DeltaOf, ParamsOf, VersionOf
<1> QED
  BY <1>3, <1>4 DEF SamePlaces, SameGone, SameParams, SameVersions

(* WithOldDeltas(). *)
LEMMA OldDeltaRows ==
  ASSUME NEW d, IsDoc(d), NEW ids, \A s \in DOMAIN ids : ids[s] \in Nat,
         NEW f, f = WithOldDeltas(d, ids)
  PROVE  /\ SameRows(f, d) /\ SameTabs(f, d) /\ Order(f) = Order(d)
         /\ SamePlaces(f, d) /\ SameGone(f, d) /\ SameParams(f, d) /\ SameVersions(f, d)
         /\ \A s \in Steps(d) : DeltaOf(f, s) = IF s \in DOMAIN ids THEN ids[s] ELSE DeltaOf(d, s)
<1>0. IsDoc(d)
  OBVIOUS
<1>1. /\ DOMAIN f = {"tabs", "order", "steps"} /\ f.tabs = d.tabs /\ f.order = d.order
      /\ DOMAIN f.steps = DOMAIN d.steps
      /\ \A s \in DOMAIN d.steps :
           f.steps[s] = IF s \in DOMAIN ids THEN [d.steps[s] EXCEPT !.delta = ids[s]]
                        ELSE d.steps[s]
  BY DEF WithOldDeltas, IsDoc
<1>2. ASSUME NEW s \in DOMAIN d.steps
      PROVE  /\ DOMAIN f.steps[s] = Columns
             /\ f.steps[s].tab = d.steps[s].tab /\ f.steps[s].order \in Nat
             /\ f.steps[s].is_deleted \in BOOLEAN /\ f.steps[s].delta \in Nat
             /\ f.steps[s].crr = d.steps[s].crr
             /\ f.steps[s].order = d.steps[s].order
             /\ f.steps[s].is_deleted = d.steps[s].is_deleted
             /\ f.steps[s].params = d.steps[s].params
             /\ f.steps[s].version = d.steps[s].version
             /\ f.steps[s].delta = IF s \in DOMAIN ids THEN ids[s] ELSE d.steps[s].delta
  <2>1. /\ DOMAIN d.steps[s] = Columns
        /\ d.steps[s].order \in Nat
        /\ d.steps[s].is_deleted \in BOOLEAN /\ d.steps[s].delta \in Nat
    BY DEF IsDoc
  <2>2. CASE s \in DOMAIN ids
    <3>1. f.steps[s] = [d.steps[s] EXCEPT !.delta = ids[s]]
      BY <1>1, <2>2
    <3> QED
      BY <2>1, <2>2, <3>1 DEF Columns
  <2>3. CASE s \notin DOMAIN ids
    BY <1>1, <2>1, <2>3
  <2> QED
    BY <2>2, <2>3
<1>3. SameRows(f, d) /\ SameTabs(f, d) /\ Order(f) = Order(d)
  BY ONLY <1>0, <1>1, <1>2, StepsChange DEF Steps
<1>4. ASSUME NEW s \in Steps(d)
      PROVE  /\ DeltaOf(f, s) = IF s \in DOMAIN ids THEN ids[s] ELSE DeltaOf(d, s)
             /\ Place(f, s) = Place(d, s)
             /\ (Gone(f, s) <=> Gone(d, s))
             /\ ParamsOf(f, s) = ParamsOf(d, s)
             /\ VersionOf(f, s) = VersionOf(d, s)
  BY <1>2 DEF Steps, Place, Gone, DeltaOf, ParamsOf, VersionOf
<1> QED
  BY <1>3, <1>4 DEF SamePlaces, SameGone, SameParams, SameVersions

(* The place of s in list, from 0. *)
Rank(list, s) == CHOOSE i \in 0 .. Len(list) - 1 : list[i + 1] = s

(* ... which is one of its places. *)
LEMMA RankFacts ==
  ASSUME NEW X, NEW list \in Seq(X), NEW s \in Range(list)
  PROVE  /\ Rank(list, s) \in 0 .. Len(list) - 1 /\ Rank(list, s) \in Nat
         /\ list[Rank(list, s) + 1] = s
<1>1. Len(list) \in Nat /\ DOMAIN list = 1 .. Len(list)
  BY LenProperties
<1>2. PICK k \in 1 .. Len(list) : list[k] = s
  BY <1>1 DEF Range
<1>3. k - 1 \in 0 .. Len(list) - 1 /\ (k - 1) + 1 = k
  BY <1>1
<1>4. \E i \in 0 .. Len(list) - 1 : list[i + 1] = s
  BY <1>2, <1>3
<1>5. Rank(list, s) \in 0 .. Len(list) - 1 /\ list[Rank(list, s) + 1] = s
  BY <1>4 DEF Rank
<1> QED
  BY <1>1, <1>5

(* Arranged(), which is _apply_order(). *)
LEMMA ArrangedRows ==
  ASSUME NEW d, IsDoc(d), NEW X, NEW list \in Seq(X),
         NEW f, f = Arranged(d, list)
  PROVE  /\ SameRows(f, d) /\ SameTabs(f, d) /\ Order(f) = Order(d)
         /\ SameGone(f, d) /\ SameDeltas(f, d) /\ SameParams(f, d) /\ SameVersions(f, d)
         /\ \A s \in Steps(d) : Place(f, s) = IF s \in Range(list) THEN Rank(list, s) ELSE Place(d, s)
<1>0. IsDoc(d)
  OBVIOUS
<1>1. /\ DOMAIN f = {"tabs", "order", "steps"} /\ f.tabs = d.tabs /\ f.order = d.order
      /\ DOMAIN f.steps = DOMAIN d.steps
      /\ \A s \in DOMAIN d.steps :
           f.steps[s] = IF s \in Range(list) THEN [d.steps[s] EXCEPT !.order = Rank(list, s)]
                        ELSE d.steps[s]
  BY DEF Arranged, Rank, IsDoc
<1>2. ASSUME NEW s \in DOMAIN d.steps
      PROVE  /\ DOMAIN f.steps[s] = Columns
             /\ f.steps[s].tab = d.steps[s].tab /\ f.steps[s].order \in Nat
             /\ f.steps[s].is_deleted \in BOOLEAN /\ f.steps[s].delta \in Nat
             /\ f.steps[s].crr = d.steps[s].crr
             /\ f.steps[s].is_deleted = d.steps[s].is_deleted
             /\ f.steps[s].delta = d.steps[s].delta
             /\ f.steps[s].params = d.steps[s].params
             /\ f.steps[s].version = d.steps[s].version
             /\ f.steps[s].order = IF s \in Range(list) THEN Rank(list, s) ELSE d.steps[s].order
  <2>1. /\ DOMAIN d.steps[s] = Columns
        /\ d.steps[s].order \in Nat
        /\ d.steps[s].is_deleted \in BOOLEAN /\ d.steps[s].delta \in Nat
    BY DEF IsDoc
  <2>2. CASE s \in Range(list)
    <3>1. f.steps[s] = [d.steps[s] EXCEPT !.order = Rank(list, s)] /\ Rank(list, s) \in Nat
      BY <1>1, <2>2, RankFacts
    <3> QED
      BY <2>1, <2>2, <3>1 DEF Columns
  <2>3. CASE s \notin Range(list)
    BY <1>1, <2>1, <2>3
  <2> QED
    BY <2>2, <2>3
<1>3. SameRows(f, d) /\ SameTabs(f, d) /\ Order(f) = Order(d)
  BY ONLY <1>0, <1>1, <1>2, StepsChange DEF Steps
<1>4. ASSUME NEW s \in Steps(d)
      PROVE  /\ Place(f, s) = IF s \in Range(list) THEN Rank(list, s) ELSE Place(d, s)
             /\ (Gone(f, s) <=> Gone(d, s))
             /\ DeltaOf(f, s) = DeltaOf(d, s)
             /\ ParamsOf(f, s) = ParamsOf(d, s)
             /\ VersionOf(f, s) = VersionOf(d, s)
  BY <1>2 DEF Steps, Place, Gone, DeltaOf, ParamsOf, VersionOf
<1> QED
  BY <1>3, <1>4 DEF SameGone, SameDeltas, SameParams, SameVersions

(* The parameters of a step. *)
LEMMA ParamsRows ==
  ASSUME NEW d, IsDoc(d), NEW r \in Steps(d), NEW v,
         NEW f, f = WithParams(d, r, v)
  PROVE  /\ SameRows(f, d) /\ SameTabs(f, d) /\ Order(f) = Order(d)
         /\ SamePlaces(f, d) /\ SameGone(f, d) /\ SameDeltas(f, d) /\ SameVersions(f, d)
         /\ \A s \in Steps(d) : ParamsOf(f, s) = IF s = r THEN v ELSE ParamsOf(d, s)
<1>0. IsDoc(d)
  OBVIOUS
<1>1. /\ DOMAIN f = {"tabs", "order", "steps"} /\ f.tabs = d.tabs /\ f.order = d.order
      /\ DOMAIN f.steps = DOMAIN d.steps
      /\ \A s \in DOMAIN d.steps :
           f.steps[s] = IF s = r THEN [d.steps[s] EXCEPT !.params = v]
                        ELSE d.steps[s]
  BY DEF WithParams, Steps, IsDoc
<1>2. ASSUME NEW s \in DOMAIN d.steps
      PROVE  /\ DOMAIN f.steps[s] = Columns
             /\ f.steps[s].tab = d.steps[s].tab /\ f.steps[s].order \in Nat
             /\ f.steps[s].is_deleted \in BOOLEAN /\ f.steps[s].delta \in Nat
             /\ f.steps[s].crr = d.steps[s].crr
             /\ f.steps[s].order = d.steps[s].order
             /\ f.steps[s].is_deleted = d.steps[s].is_deleted
             /\ f.steps[s].delta = d.steps[s].delta
             /\ f.steps[s].version = d.steps[s].version
             /\ f.steps[s].params = IF s = r THEN v ELSE d.steps[s].params
  <2>1. /\ DOMAIN d.steps[s] = Columns
        /\ d.steps[s].order \in Nat
        /\ d.steps[s].is_deleted \in BOOLEAN /\ d.steps[s].delta \in Nat
    BY DEF IsDoc
  <2>2. CASE s = r
    <3>1. f.steps[s] = [d.steps[s] EXCEPT !.params = v]
      BY <1>1, <2>2
    <3> QED
      BY <2>1, <2>2, <3>1 DEF Columns
  <2>3. CASE s # r
    BY <1>1, <2>1, <2>3
  <2> QED
    BY <2>2, <2>3
<1>3. SameRows(f, d) /\ SameTabs(f, d) /\ Order(f) = Order(d)
  BY ONLY <1>0, <1>1, <1>2, StepsChange DEF Steps
<1>4. ASSUME NEW s \in Steps(d)
      PROVE  /\ ParamsOf(f, s) = IF s = r THEN v ELSE ParamsOf(d, s)
             /\ Place(f, s) = Place(d, s)
             /\ (Gone(f, s) <=> Gone(d, s))
             /\ DeltaOf(f, s) = DeltaOf(d, s)
             /\ VersionOf(f, s) = VersionOf(d, s)
  BY <1>2 DEF Steps, Place, Gone, DeltaOf, ParamsOf, VersionOf
<1> QED
  BY <1>3, <1>4 DEF SamePlaces, SameGone, SameDeltas, SameVersions

(* The version of the data of a step. *)
LEMMA VersionRows ==
  ASSUME NEW d, IsDoc(d), NEW r \in Steps(d), NEW v,
         NEW f, f = WithVersion(d, r, v)
  PROVE  /\ SameRows(f, d) /\ SameTabs(f, d) /\ Order(f) = Order(d)
         /\ SamePlaces(f, d) /\ SameGone(f, d) /\ SameDeltas(f, d) /\ SameParams(f, d)
         /\ \A s \in Steps(d) : VersionOf(f, s) = IF s = r THEN v ELSE VersionOf(d, s)
<1>0. IsDoc(d)
  OBVIOUS
<1>1. /\ DOMAIN f = {"tabs", "order", "steps"} /\ f.tabs = d.tabs /\ f.order = d.order
      /\ DOMAIN f.steps = DOMAIN d.steps
      /\ \A s \in DOMAIN d.steps :
           f.steps[s] = IF s = r THEN [d.steps[s] EXCEPT !.version = v]
                        ELSE d.steps[s]
  BY DEF WithVersion, Steps, IsDoc
<1>2. ASSUME NEW s \in DOMAIN d.steps
      PROVE  /\ DOMAIN f.steps[s] = Columns
             /\ f.steps[s].tab = d.steps[s].tab /\ f.steps[s].order \in Nat
             /\ f.steps[s].is_deleted \in BOOLEAN /\ f.steps[s].delta \in Nat
             /\ f.steps[s].crr = d.steps[s].crr
             /\ f.steps[s].order = d.steps[s].order
             /\ f.steps[s].is_deleted = d.steps[s].is_deleted
             /\ f.steps[s].delta = d.steps[s].delta
             /\ f.steps[s].params = d.steps[s].params
             /\ f.steps[s].version = IF s = r THEN v ELSE d.steps[s].version
  <2>1. /\ DOMAIN d.steps[s] = Columns
        /\ d.steps[s].order \in Nat
        /\ d.steps[s].is_deleted \in BOOLEAN /\ d.steps[s].delta \in Nat
    BY DEF IsDoc
  <2>2. CASE s = r
    <3>1. f.steps[s] = [d.steps[s] EXCEPT !.version = v]
      BY <1>1, <2>2
    <3> QED
      BY <2>1, <2>2, <3>1 DEF Columns
  <2>3. CASE s # r
    BY <1>1, <2>1, <2>3
  <2> QED
    BY <2>2, <2>3
<1>3. SameRows(f, d) /\ SameTabs(f, d) /\ Order(f) = Order(d)
  BY ONLY <1>0, <1>1, <1>2, StepsChange DEF Steps
<1>4. ASSUME NEW s \in Steps(d)
      PROVE  /\ VersionOf(f, s) = IF s = r THEN v ELSE VersionOf(d, s)
             /\ Place(f, s) = Place(d, s)
             /\ (Gone(f, s) <=> Gone(d, s))
             /\ DeltaOf(f, s) = DeltaOf(d, s)
             /\ ParamsOf(f, s) = ParamsOf(d, s)
  BY <1>2 DEF Steps, Place, Gone, DeltaOf, ParamsOf, VersionOf
<1> QED
  BY <1>3, <1>4 DEF SamePlaces, SameGone, SameDeltas, SameParams

(* What is selected in a tab. *)
LEMMA SelectedRows ==
  ASSUME NEW d, IsDoc(d), NEW t \in Tabs(d), NEW v,
         NEW f, f = Selecting(d, t, v)
  PROVE  /\ SameRows(f, d) /\ Order(f) = Order(d)
         /\ SamePlaces(f, d) /\ SameGone(f, d) /\ SameDeltas(f, d)
         /\ SameParams(f, d) /\ SameVersions(f, d)
         /\ \A u \in Tabs(d) : /\ NameOf(f, u) = NameOf(d, u)
                               /\ Chosen(f, u) = IF u = t THEN v ELSE Chosen(d, u)
<1>1. /\ DOMAIN f = {"tabs", "order", "steps"} /\ f.order = d.order /\ f.steps = d.steps
      /\ DOMAIN f.tabs = DOMAIN d.tabs
      /\ \A u \in DOMAIN d.tabs :
           f.tabs[u] = IF u = t THEN [d.tabs[u] EXCEPT !.selected = v] ELSE d.tabs[u]
  BY DEF Selecting, IsDoc, Tabs
<1>2. ASSUME NEW u \in DOMAIN d.tabs
      PROVE  /\ DOMAIN f.tabs[u] = {"name", "selected"} /\ f.tabs[u].name = d.tabs[u].name
             /\ f.tabs[u].selected = IF u = t THEN v ELSE d.tabs[u].selected
  <2>1. DOMAIN d.tabs[u] = {"name", "selected"}
    BY DEF IsDoc
  <2> QED
    BY <1>1, <2>1
<1>3. IsDoc(f)
  BY <1>1, <1>2 DEF IsDoc
<1>4. \A u \in Tabs(d) : /\ NameOf(f, u) = NameOf(d, u)
                         /\ Chosen(f, u) = IF u = t THEN v ELSE Chosen(d, u)
  BY <1>2 DEF NameOf, Chosen, Tabs
<1>5. f.steps = d.steps /\ f.order = d.order /\ DOMAIN f.tabs = DOMAIN d.tabs
  BY <1>1
<1> QED
  BY ONLY <1>3, <1>4, <1>5 DEF SameRows, SamePlaces, SameGone, SameDeltas, SameParams, SameVersions,
     Tabs, Steps, Order, TabOf, Place, Gone, DeltaOf, ParamsOf, VersionOf, ResultOf

(* The name of a tab. *)
LEMMA NamedRows ==
  ASSUME NEW d, IsDoc(d), NEW t \in Tabs(d), NEW v,
         NEW f, f = Naming(d, t, v)
  PROVE  /\ SameRows(f, d) /\ Order(f) = Order(d)
         /\ SamePlaces(f, d) /\ SameGone(f, d) /\ SameDeltas(f, d)
         /\ SameParams(f, d) /\ SameVersions(f, d)
         /\ \A u \in Tabs(d) : /\ NameOf(f, u) = IF u = t THEN v ELSE NameOf(d, u)
                               /\ Chosen(f, u) = Chosen(d, u)
<1>1. /\ DOMAIN f = {"tabs", "order", "steps"} /\ f.order = d.order /\ f.steps = d.steps
      /\ DOMAIN f.tabs = DOMAIN d.tabs
      /\ \A u \in DOMAIN d.tabs :
           f.tabs[u] = IF u = t THEN [d.tabs[u] EXCEPT !.name = v] ELSE d.tabs[u]
  BY DEF Naming, IsDoc, Tabs
<1>2. ASSUME NEW u \in DOMAIN d.tabs
      PROVE  /\ DOMAIN f.tabs[u] = {"name", "selected"}
             /\ f.tabs[u].name = IF u = t THEN v ELSE d.tabs[u].name
             /\ f.tabs[u].selected = d.tabs[u].selected
  <2>1. DOMAIN d.tabs[u] = {"name", "selected"}
    BY DEF IsDoc
  <2> QED
    BY <1>1, <2>1
<1>3. IsDoc(f)
  BY <1>1, <1>2 DEF IsDoc
<1>4. \A u \in Tabs(d) : /\ NameOf(f, u) = IF u = t THEN v ELSE NameOf(d, u)
                         /\ Chosen(f, u) = Chosen(d, u)
  BY <1>2 DEF NameOf, Chosen, Tabs
<1>5. f.steps = d.steps /\ f.order = d.order /\ DOMAIN f.tabs = DOMAIN d.tabs
  BY <1>1
<1> QED
  BY ONLY <1>3, <1>4, <1>5 DEF SameRows, SamePlaces, SameGone, SameDeltas, SameParams, SameVersions,
     Tabs, Steps, Order, TabOf, Place, Gone, DeltaOf, ParamsOf, VersionOf, ResultOf

(* The order of the tabs. *)
LEMMA OrderedRows ==
  ASSUME NEW d, IsDoc(d), NEW v, NEW f, f = Ordering(d, v)
  PROVE  /\ SameRows(f, d) /\ SameTabs(f, d) /\ Order(f) = v
         /\ SamePlaces(f, d) /\ SameGone(f, d) /\ SameDeltas(f, d)
         /\ SameParams(f, d) /\ SameVersions(f, d)
<1>1. /\ DOMAIN f = {"tabs", "order", "steps"} /\ f.order = v /\ f.steps = d.steps
      /\ f.tabs = d.tabs
  BY DEF Ordering, IsDoc
<1>2. IsDoc(f)
  BY <1>1 DEF IsDoc
<1> QED
  BY ONLY <1>1, <1>2 DEF SameRows, SameTabs, SamePlaces, SameGone, SameDeltas, SameParams,
     SameVersions, Tabs, Steps, Order, NameOf, Chosen, TabOf, Place, Gone, DeltaOf, ParamsOf,
     VersionOf, ResultOf

-----------------------------------------------------------------------------
(* The commands that open and close the place of a step.                   *)

(* The steps that are n places behind r, or more. *)
Behind(d, r, n) == InTab(d, TabOf(d, r), Place(d, r) + n)

(* They are steps of the tab of r that are not deleted. *)
LEMMA BehindFacts ==
  ASSUME NEW d, NEW r, NEW n
  PROVE  /\ Behind(d, r, n) \subseteq Steps(d)
         /\ \A s : s \in Behind(d, r, n) <=>
              /\ s \in Steps(d) /\ TabOf(d, s) = TabOf(d, r) /\ ~Gone(d, s)
              /\ Place(d, s) >= Place(d, r) + n
<1>1. \A s : s \in Behind(d, r, n) <=>
        s \in StepsOf(d, TabOf(d, r)) /\ Place(d, s) >= Place(d, r) + n
  BY TabFacts DEF Behind
<1> QED
  BY <1>1, TabFacts

(* The steps behind r make room, and r comes back. *)
Opens(f, d, r) ==
  /\ \A s \in Steps(d) :
       Place(f, s) = IF s \in Behind(d, r, 0) THEN Place(d, s) + 1 ELSE Place(d, s)
  /\ \A s \in Steps(d) : Gone(f, s) <=> s # r /\ Gone(d, s)

(* r goes, and the steps behind it close the gap. *)
Closes(f, d, r) ==
  /\ \A s \in Steps(d) :
       Place(f, s) = IF s \in Behind(d, r, 1) THEN Place(d, s) - 1 ELSE Place(d, s)
  /\ \A s \in Steps(d) : Gone(f, s) <=> s = r \/ Gone(d, s)

(* That is what moving the steps and showing r does, ... *)
LEMMA OpenedRows ==
  ASSUME NEW d, IsDoc(d), NEW r \in Steps(d), NEW S, S = Behind(d, r, 0),
         NEW f, f = Showing(Moved(d, S, 1), r)
  PROVE  /\ SameRows(f, d) /\ SameTabs(f, d) /\ Order(f) = Order(d) /\ Opens(f, d, r)
         /\ SameDeltas(f, d) /\ SameParams(f, d) /\ SameVersions(f, d)
<1> DEFINE m == Moved(d, S, 1)
<1>1. S \in SUBSET Steps(d)
  BY BehindFacts
<1>2. \A s \in S : Place(d, s) + 1 \in Nat
  BY <1>1, DocFacts
<1>3. /\ SameRows(m, d) /\ SameTabs(m, d) /\ Order(m) = Order(d)
      /\ SameGone(m, d) /\ SameDeltas(m, d) /\ SameParams(m, d) /\ SameVersions(m, d)
      /\ \A s \in Steps(d) : Place(m, s) = IF s \in S THEN Place(d, s) + 1 ELSE Place(d, s)
  <2>1. IsDoc(d) /\ m = Moved(d, S, 1) /\ 1 \in Int
    OBVIOUS
  <2> HIDE DEF m
  <2> QED
    BY ONLY <1>1, <1>2, <2>1, MovedRows
<1>4. f = Showing(m, r)
  OBVIOUS
<1> HIDE DEF m
<1>5. IsDoc(m) /\ r \in Steps(m)
  BY <1>3 DEF SameRows
<1>6. /\ SameRows(f, m) /\ SameTabs(f, m) /\ Order(f) = Order(m)
      /\ SamePlaces(f, m) /\ SameDeltas(f, m) /\ SameParams(f, m) /\ SameVersions(f, m)
      /\ \A s \in Steps(m) : Gone(f, s) <=> s # r /\ Gone(m, s)
  BY <1>4, <1>5, ShownRows
<1>7. S = Behind(d, r, 0)
  OBVIOUS
<1> QED
  BY ONLY <1>3, <1>6, <1>7 DEF SameRows, SameTabs, SamePlaces, SameDeltas, SameParams, SameVersions,
          SameGone, Opens

(* ... and what hiding r and moving the steps does. *)
LEMMA ClosedRows ==
  ASSUME NEW d, IsDoc(d), NEW r \in Steps(d), NEW t, t = TabOf(d, r), NEW p, p = Place(d, r),
         NEW w, w = Hiding(d, r), NEW f, f = Moved(w, InTab(w, t, p + 1), -1)
  PROVE  /\ SameRows(f, d) /\ SameTabs(f, d) /\ Order(f) = Order(d) /\ Closes(f, d, r)
         /\ SameDeltas(f, d) /\ SameParams(f, d) /\ SameVersions(f, d)
         /\ StepsOf(f, t) = StepsOf(w, t)
<1> DEFINE S == InTab(w, t, p + 1)
<1>1. /\ SameRows(w, d) /\ SameTabs(w, d) /\ Order(w) = Order(d)
      /\ SamePlaces(w, d) /\ SameDeltas(w, d) /\ SameParams(w, d) /\ SameVersions(w, d)
      /\ \A s \in Steps(d) : Gone(w, s) <=> s = r \/ Gone(d, s)
  BY HiddenRows
<1>2. p \in Nat /\ \A s \in Steps(d) : Place(d, s) \in Nat
  BY DocFacts
<1>3. \A s : s \in S <=> s \in Behind(d, r, 1)
  <2>1. \A s : s \in S <=> s \in Steps(w) /\ TabOf(w, s) = t /\ ~Gone(w, s) /\ Place(w, s) >= p + 1
    BY TabFacts
  <2>2. \A s : s \in Behind(d, r, 1) <=>
          s \in Steps(d) /\ TabOf(d, s) = t /\ ~Gone(d, s) /\ Place(d, s) >= p + 1
    BY BehindFacts
  <2>3. ~(Place(d, r) >= p + 1)
    BY <1>2
  <2> QED
    BY <1>1, <2>1, <2>2, <2>3 DEF SameRows, SamePlaces
<1>4. f = Moved(w, S, -1)
  OBVIOUS
<1> HIDE DEF S
<1>5. PICK by \in Int : by = -1
  OBVIOUS
<1>6. \A x, q \in Nat : x >= q + 1 => x + by \in Nat /\ x + by = x - 1
  BY <1>5
<1>7. S \in SUBSET Steps(w) /\ IsDoc(w)
  BY <1>1, <1>3, BehindFacts DEF SameRows
<1>8. ASSUME NEW s \in S
      PROVE  Place(w, s) + by \in Nat /\ Place(d, s) + by = Place(d, s) - 1
  <2>1. s \in Steps(d) /\ Place(d, s) >= p + 1
    BY <1>3, BehindFacts
  <2>2. Place(w, s) = Place(d, s) /\ Place(d, s) \in Nat
    BY <1>1, <1>2, <2>1 DEF SamePlaces
  <2> QED
    BY <1>2, <1>6, <2>1, <2>2
<1>9. f = Moved(w, S, by)
  BY <1>4, <1>5
<1>10. /\ SameRows(f, w) /\ SameTabs(f, w) /\ Order(f) = Order(w)
       /\ SameGone(f, w) /\ SameDeltas(f, w) /\ SameParams(f, w) /\ SameVersions(f, w)
       /\ \A s \in Steps(w) : Place(f, s) = IF s \in S THEN Place(w, s) + by ELSE Place(w, s)
  <2>1. \A s \in S : Place(w, s) + by \in Nat
    BY <1>8
  <2>2. by \in Int
    OBVIOUS
  <2> QED
    BY ONLY <1>7, <1>9, <2>1, <2>2, MovedRows
<1>11. StepsOf(f, t) = StepsOf(w, t)
  BY ONLY <1>10, SameSteps
<1>12. \A s \in Steps(d) :
         Place(f, s) = IF s \in Behind(d, r, 1) THEN Place(d, s) - 1 ELSE Place(d, s)
  <2> TAKE s \in Steps(d)
  <2>1. Place(w, s) = Place(d, s) /\ s \in Steps(w)
    BY <1>1 DEF SamePlaces, SameRows
  <2>2. CASE s \in S
    BY <1>3, <1>8, <1>10, <2>1, <2>2
  <2>3. CASE s \notin S
    BY <1>3, <1>10, <2>1, <2>3
  <2> QED
    BY <2>2, <2>3
<1> QED
  BY ONLY <1>1, <1>10, <1>11, <1>12 DEF SameRows, SameTabs, SamePlaces, SameDeltas, SameParams,
          SameVersions, SameGone, Closes

(* r, if it is new, gets delta id; and it is selected. *)
IsAdded(f, d, r, id) ==
  /\ \A s \in Steps(d) :
       DeltaOf(f, s) = IF s = r /\ DeltaOf(d, s) = None THEN id ELSE DeltaOf(d, s)
  /\ \A u \in Tabs(d) :
       /\ NameOf(f, u) = NameOf(d, u)
       /\ Chosen(f, u) = IF u = TabOf(d, r) THEN {Place(d, r)} ELSE Chosen(d, u)

(* AddStep.forward *)
LEMMA AddStepForwardRows ==
  ASSUME NEW d, IsDoc(d), NEW r \in Steps(d), NEW id \in Nat,
         NEW f, f = AddStepForward(d, r, id)
  PROVE  /\ SameRows(f, d) /\ Order(f) = Order(d) /\ Opens(f, d, r)
         /\ SameParams(f, d) /\ SameVersions(f, d) /\ IsAdded(f, d, r, id)
<1> DEFINE S == Behind(d, r, 0)
           b == Showing(Moved(d, S, 1), r)
           v == IF DeltaOf(b, r) = None THEN id ELSE DeltaOf(b, r)
           g == WithDelta(b, {r}, v)
<1>1. Place(d, r) + 0 = Place(d, r)
  BY DocFacts
<1>2. S = InTab(d, d.steps[r].tab, d.steps[r].order)
  BY <1>1, SMTT(60) DEF Behind, TabOf, Place
<1>3. f = Selecting([b EXCEPT !.steps[r].delta = v], TabOf(d, r), {Place(d, r)})
  BY <1>2, Zenon DEF AddStepForward, Selecting, Showing, TabOf, Place, DeltaOf
<1>4. S = Behind(d, r, 0) /\ b = Showing(Moved(d, S, 1), r)
  OBVIOUS
<1> HIDE DEF S, b
<1>5. /\ SameRows(b, d) /\ SameTabs(b, d) /\ Order(b) = Order(d) /\ Opens(b, d, r)
      /\ SameDeltas(b, d) /\ SameParams(b, d) /\ SameVersions(b, d)
  BY <1>4, OpenedRows
<1>6. IsDoc(b) /\ r \in Steps(b) /\ DeltaOf(b, r) = DeltaOf(d, r)
  BY <1>5 DEF SameRows, SameDeltas
<1>7. v \in Nat /\ v = IF DeltaOf(d, r) = None THEN id ELSE DeltaOf(d, r)
  BY <1>6, DocFacts
<1>8. g = WithDelta(b, {r}, v)
  OBVIOUS
<1>9. [b EXCEPT !.steps[r].delta = v] = g
  BY <1>6 DEF WithDelta, IsDoc, Steps
<1> HIDE DEF g, v
<1>10. /\ SameRows(g, b) /\ SameTabs(g, b) /\ Order(g) = Order(b)
       /\ SamePlaces(g, b) /\ SameGone(g, b) /\ SameParams(g, b) /\ SameVersions(g, b)
       /\ \A s \in Steps(b) : DeltaOf(g, s) = IF s \in {r} THEN v ELSE DeltaOf(b, s)
  BY <1>6, <1>7, <1>8, DeltaRows
<1>11. IsDoc(g) /\ TabOf(d, r) \in Tabs(g)
  BY <1>5, <1>10, DocFacts DEF SameRows
<1>12. f = Selecting(g, TabOf(d, r), {Place(d, r)})
  BY <1>3, <1>9
<1>13. /\ SameRows(f, g) /\ Order(f) = Order(g)
       /\ SamePlaces(f, g) /\ SameGone(f, g) /\ SameDeltas(f, g)
       /\ SameParams(f, g) /\ SameVersions(f, g)
       /\ \A u \in Tabs(g) :
            /\ NameOf(f, u) = NameOf(g, u)
            /\ Chosen(f, u) = IF u = TabOf(d, r) THEN {Place(d, r)} ELSE Chosen(g, u)
  BY <1>11, <1>12, SelectedRows
<1>14. /\ SameRows(f, d) /\ Order(f) = Order(d) /\ Opens(f, d, r)
       /\ SameParams(f, d) /\ SameVersions(f, d)
  BY ONLY <1>5, <1>10, <1>13 DEF SameRows, SamePlaces, SameGone, SameParams, SameVersions, Opens
<1>15. ASSUME NEW s \in Steps(d)
       PROVE  DeltaOf(f, s) = IF s = r /\ DeltaOf(d, s) = None THEN id ELSE DeltaOf(d, s)
  BY <1>5, <1>7, <1>10, <1>13 DEF SameRows, SameDeltas
<1>16. ASSUME NEW u \in Tabs(d)
       PROVE  /\ NameOf(f, u) = NameOf(d, u)
              /\ Chosen(f, u) = IF u = TabOf(d, r) THEN {Place(d, r)} ELSE Chosen(d, u)
  BY <1>5, <1>10, <1>13 DEF SameRows, SameTabs
<1> QED
  BY <1>14, <1>15, <1>16 DEF IsAdded

(* AddStep.backward *)
LEMMA AddStepBackwardRows ==
  ASSUME NEW d, IsDoc(d), NEW r \in Steps(d), NEW t, t = TabOf(d, r),
         NEW f, f = AddStepBackward(d, r), NEW n, n = Cardinality(StepsOf(f, t))
  PROVE  /\ SameRows(f, d) /\ Order(f) = Order(d) /\ Closes(f, d, r)
         /\ SameDeltas(f, d) /\ SameParams(f, d) /\ SameVersions(f, d)
         /\ \A u \in Tabs(d) : /\ NameOf(f, u) = NameOf(d, u)
                               /\ u # t => Chosen(f, u) = Chosen(d, u)
         /\ \A q \in Chosen(f, t) : (q \in Chosen(d, t) /\ q < n) \/ (n # 0 /\ q = n - 1)
<1> DEFINE p == Place(d, r)
           w == Hiding(d, r)
           m == Moved(w, InTab(w, t, p + 1), -1)
           k == Cardinality(StepsOf(w, t))
           old == Chosen(m, t)
           v == IF old # {} /\ \A q \in old : q < k THEN old
                ELSE IF k = 0 THEN {} ELSE {k - 1}
<1>1. f = Selecting(m, t, v)
  BY Zenon DEF AddStepBackward, Selecting, Hiding, TabOf, Place, Chosen
<1>2. \A q \in v : (q \in old /\ q < k) \/ (k # 0 /\ q = k - 1)
  OBVIOUS
<1>3. /\ SameRows(m, d) /\ SameTabs(m, d) /\ Order(m) = Order(d) /\ Closes(m, d, r)
      /\ SameDeltas(m, d) /\ SameParams(m, d) /\ SameVersions(m, d)
      /\ StepsOf(m, t) = StepsOf(w, t)
  BY ClosedRows
<1> HIDE DEF m, v, w
<1>4. IsDoc(m) /\ t \in Tabs(m) /\ t \in Tabs(d)
  BY <1>3, DocFacts DEF SameRows
<1>5. /\ SameRows(f, m) /\ Order(f) = Order(m)
      /\ SamePlaces(f, m) /\ SameGone(f, m) /\ SameDeltas(f, m)
      /\ SameParams(f, m) /\ SameVersions(f, m)
      /\ \A u \in Tabs(m) : /\ NameOf(f, u) = NameOf(m, u)
                            /\ Chosen(f, u) = IF u = t THEN v ELSE Chosen(m, u)
  BY <1>1, <1>4, SelectedRows
<1>6. /\ SameRows(f, d) /\ Order(f) = Order(d) /\ Closes(f, d, r)
      /\ SameDeltas(f, d) /\ SameParams(f, d) /\ SameVersions(f, d)
  BY ONLY <1>3, <1>5 DEF SameRows, SamePlaces, SameGone, SameDeltas, SameParams, SameVersions,
          Closes
<1>7. ASSUME NEW u \in Tabs(d)
      PROVE  NameOf(f, u) = NameOf(d, u) /\ (u # t => Chosen(f, u) = Chosen(d, u))
  BY ONLY <1>3, <1>5, <1>7 DEF SameRows, SameTabs
<1>8. StepsOf(f, t) = StepsOf(m, t)
  BY ONLY <1>5, SameSteps
<1>9. Chosen(f, t) = v /\ old = Chosen(d, t)
  BY ONLY <1>3, <1>4, <1>5 DEF SameTabs
<1>10. n = k
  BY <1>3, <1>8
<1> QED
  BY <1>2, <1>6, <1>7, <1>9, <1>10, SMTT(60)

(* DeleteStep.forward *)
LEMMA DeleteStepForwardRows ==
  ASSUME NEW d, IsDoc(d), NEW r \in Steps(d), NEW t, t = TabOf(d, r),
         NEW p, p = Place(d, r), NEW f, f = DeleteStepForward(d, r)
  PROVE  /\ SameRows(f, d) /\ Order(f) = Order(d) /\ Closes(f, d, r)
         /\ SameDeltas(f, d) /\ SameParams(f, d) /\ SameVersions(f, d)
         /\ \A u \in Tabs(d) : /\ NameOf(f, u) = NameOf(d, u)
                               /\ u # t => Chosen(f, u) = Chosen(d, u)
         /\ \A q \in Chosen(f, t) :
              q \in Nat /\ \E o \in Chosen(d, t) : q = IF o >= p THEN o - 1 ELSE o
<1> DEFINE w == Hiding(d, r)
           m == Moved(w, InTab(w, t, p + 1), -1)
           old == Chosen(m, t)
           v == {IF o >= p THEN o - 1 ELSE o : o \in old} \cap Nat
<1>1. f = Selecting(m, t, v)
  <2>1. /\ d.steps[r].tab = t /\ d.steps[r].order = p /\ m.tabs[t].selected = old
        /\ w = Shown(d, r, FALSE)
    BY DEF TabOf, Place, Chosen, Hiding
  <2> HIDE DEF old, w, m
  <2>2. f = [m EXCEPT !.tabs[t].selected = {IF q >= p THEN q - 1 ELSE q : q \in @} \cap Nat]
    BY ONLY <2>1, f = DeleteStepForward(d, r) DEF DeleteStepForward, m
  <2> QED
    BY <2>1, <2>2 DEF Selecting
<1>2. \A q \in v : q \in Nat /\ \E o \in old : q = IF o >= p THEN o - 1 ELSE o
  OBVIOUS
<1>3. /\ SameRows(m, d) /\ SameTabs(m, d) /\ Order(m) = Order(d) /\ Closes(m, d, r)
      /\ SameDeltas(m, d) /\ SameParams(m, d) /\ SameVersions(m, d)
  BY ClosedRows
<1> HIDE DEF m, v, w
<1>4. IsDoc(m) /\ t \in Tabs(m) /\ t \in Tabs(d)
  BY <1>3, DocFacts DEF SameRows
<1>5. /\ SameRows(f, m) /\ Order(f) = Order(m)
      /\ SamePlaces(f, m) /\ SameGone(f, m) /\ SameDeltas(f, m)
      /\ SameParams(f, m) /\ SameVersions(f, m)
      /\ \A u \in Tabs(m) : /\ NameOf(f, u) = NameOf(m, u)
                            /\ Chosen(f, u) = IF u = t THEN v ELSE Chosen(m, u)
  BY <1>1, <1>4, SelectedRows
<1>6. /\ SameRows(f, d) /\ Order(f) = Order(d) /\ Closes(f, d, r)
      /\ SameDeltas(f, d) /\ SameParams(f, d) /\ SameVersions(f, d)
  BY ONLY <1>3, <1>5 DEF SameRows, SamePlaces, SameGone, SameDeltas, SameParams, SameVersions,
          Closes
<1>7. ASSUME NEW u \in Tabs(d)
      PROVE  NameOf(f, u) = NameOf(d, u) /\ (u # t => Chosen(f, u) = Chosen(d, u))
  BY ONLY <1>3, <1>5, <1>7 DEF SameRows, SameTabs
<1>8. Chosen(f, t) = v /\ old = Chosen(d, t)
  BY ONLY <1>3, <1>4, <1>5 DEF SameTabs
<1> QED
  BY <1>2, <1>6, <1>7, <1>8

(* DeleteStep.backward *)
LEMMA DeleteStepBackwardRows ==
  ASSUME NEW d, IsDoc(d), NEW r \in Steps(d), NEW f, f = DeleteStepBackward(d, r)
  PROVE  /\ SameRows(f, d) /\ SameTabs(f, d) /\ Order(f) = Order(d) /\ Opens(f, d, r)
         /\ SameDeltas(f, d) /\ SameParams(f, d) /\ SameVersions(f, d)
<1>1. Place(d, r) + 0 = Place(d, r)
  BY DocFacts
<1>2. Behind(d, r, 0) = InTab(d, d.steps[r].tab, d.steps[r].order)
  BY <1>1 DEF Behind, TabOf, Place
<1>3. f = Showing(Moved(d, Behind(d, r, 0), 1), r)
  BY <1>2 DEF DeleteStepBackward, Showing
<1> QED
  BY <1>3, OpenedRows

-----------------------------------------------------------------------------
(* forward() and backward() of all commands.                               *)

Commands == {"AddStep", "DeleteStep", "ReorderSteps", "SetStepParams", "SetStepDataVersion",
             "SetTabName", "ReorderTabs", "DuplicateTab", "DeleteTab"}

StepCommands == {"AddStep", "DeleteStep", "SetStepParams", "SetStepDataVersion"}

Ways == {"forth", "back"}

(* The command that brings a step back, and the one that takes it away.    *)
Opening(way) == IF way = "forth" THEN "AddStep" ELSE "DeleteStep"
Closing(way) == IF way = "forth" THEN "DeleteStep" ELSE "AddStep"

(* ... and a tab. *)
Adding(way)   == IF way = "forth" THEN "DuplicateTab" ELSE "DeleteTab"
Removing(way) == IF way = "forth" THEN "DeleteTab" ELSE "DuplicateTab"

Data(e, way) == IF way = "forth" THEN e.forth ELSE e.back

(* Delta e is about rows that d has. *)
Fits(e, d) ==
  /\ e.command \in Commands /\ e.id \in Nat \ {0}
  /\ DOMAIN e.ids \subseteq Steps(d) /\ \A s \in DOMAIN e.ids : e.ids[s] \in Nat
  /\ e.command \in StepCommands => e.step \in Steps(d)
  /\ e.command = "ReorderSteps" => /\ e.back \in Seq(Steps(d)) /\ e.forth \in Seq(Steps(d))
                                   /\ Range(e.back) = Range(e.forth)
  /\ e.command = "ReorderTabs"  => Range(e.back) = Range(e.forth)
  /\ e.command \in {"SetTabName", "DuplicateTab", "DeleteTab"} => e.tab \in Tabs(d)
  /\ e.command \in {"DuplicateTab", "DeleteTab"} => DOMAIN e.ids = {}

(* What each column is afterwards. *)
PlaceAfter(d, e, way, s) ==
  IF e.command = Opening(way) /\ s \in Behind(d, e.step, 0) THEN Place(d, s) + 1
  ELSE IF e.command = Closing(way) /\ s \in Behind(d, e.step, 1) THEN Place(d, s) - 1
  ELSE IF e.command = "ReorderSteps" /\ s \in Range(Data(e, way)) THEN Rank(Data(e, way), s)
  ELSE Place(d, s)

GoneAfter(d, e, way, s) ==
  \/ e.command = Closing(way) /\ s = e.step
  \/ Gone(d, s) /\ ~(e.command = Opening(way) /\ s = e.step)

(* A step that is new gets the delta that adds it. *)
DeltaOfNew(d, e, way, s) ==
  IF way = "forth" /\ e.command = "AddStep" /\ s = e.step /\ DeltaOf(d, s) = None THEN e.id
  ELSE DeltaOf(d, s)

DeltaAfter(d, e, way, s) ==
  IF s \in DOMAIN e.ids THEN IF way = "forth" THEN e.id ELSE e.ids[s]
  ELSE DeltaOfNew(d, e, way, s)

ParamsAfter(d, e, way, s) ==
  IF e.command = "SetStepParams" /\ s = e.step THEN Data(e, way) ELSE ParamsOf(d, s)

VersionAfter(d, e, way, s) ==
  IF e.command = "SetStepDataVersion" /\ s = e.step THEN Data(e, way) ELSE VersionOf(d, s)

NameAfter(d, e, way, t) ==
  IF e.command = "SetTabName" /\ t = e.tab THEN Data(e, way) ELSE NameOf(d, t)

OrderAfter(d, e, way) ==
  IF e.command = "ReorderTabs" THEN Data(e, way)
  ELSE IF e.command = Adding(way) THEN InsertAt(Order(d), Data(e, way), e.tab)
  ELSE IF e.command = Removing(way) THEN RemoveAt(Order(d), PlaceOf(Order(d), e.tab))
  ELSE Order(d)

(* What is selected afterwards. *)
Selects(f, d, e, way) ==
  LET t == TabOf(d, e.step)
      p == Place(d, e.step)
      n == Cardinality(StepsOf(f, t))
  IN  /\ e.command = "AddStep" /\ way = "forth" => Chosen(f, t) = {p}
      /\ e.command = "AddStep" /\ way = "back" =>
           \A q \in Chosen(f, t) : (q \in Chosen(d, t) /\ q < n) \/ (n # 0 /\ q = n - 1)
      /\ e.command = "DeleteStep" /\ way = "forth" =>
           \A q \in Chosen(f, t) :
             q \in Nat /\ \E o \in Chosen(d, t) : q = IF o >= p THEN o - 1 ELSE o
      /\ \A u \in Tabs(d) :
           \/ u # t \/ e.command \notin {"AddStep", "DeleteStep"}
           \/ e.command = "DeleteStep" /\ way = "back"
           => Chosen(f, u) = Chosen(d, u)

(* A command's own part of it, ...                                         *)
Works(f, d, e, way) ==
  /\ SameRows(f, d) /\ Order(f) = OrderAfter(d, e, way)
  /\ \A t \in Tabs(d) : NameOf(f, t) = NameAfter(d, e, way, t)
  /\ \A s \in Steps(d) : Place(f, s) = PlaceAfter(d, e, way, s)
  /\ \A s \in Steps(d) : Gone(f, s) <=> GoneAfter(d, e, way, s)
  /\ \A s \in Steps(d) : ParamsOf(f, s) = ParamsAfter(d, e, way, s)
  /\ \A s \in Steps(d) : VersionOf(f, s) = VersionAfter(d, e, way, s)
  /\ Selects(f, d, e, way)

(* ... and all of it. *)
Goes(f, d, e, way) ==
  Works(f, d, e, way) /\ \A s \in Steps(d) : DeltaOf(f, s) = DeltaAfter(d, e, way, s)

Begins(f, d, e, way) ==
  Works(f, d, e, way) /\ \A s \in Steps(d) : DeltaOf(f, s) = DeltaOfNew(d, e, way, s)

(* A step comes back. *)
LEMMA OpeningWorks ==
  ASSUME NEW d, NEW e, NEW way \in Ways, NEW f, e.command = Opening(way),
         SameRows(f, d), Order(f) = Order(d), Opens(f, d, e.step),
         SameParams(f, d), SameVersions(f, d),
         \A u \in Tabs(d) : NameOf(f, u) = NameOf(d, u), Selects(f, d, e, way)
  PROVE  Works(f, d, e, way)
<1>1. /\ e.command # Closing(way) /\ e.command # Adding(way) /\ e.command # Removing(way)
      /\ e.command \notin {"ReorderSteps", "SetStepParams", "SetStepDataVersion",
                           "SetTabName", "ReorderTabs"}
      /\ e.command = Opening(way)
  BY DEF Ways, Opening, Closing, Adding, Removing
<1>2. \A s \in Steps(d) : Place(f, s) = PlaceAfter(d, e, way, s)
  BY <1>1 DEF Opens, PlaceAfter
<1>3. \A s \in Steps(d) : Gone(f, s) <=> GoneAfter(d, e, way, s)
  BY <1>1 DEF Opens, GoneAfter
<1>4. /\ \A s \in Steps(d) : ParamsOf(f, s) = ParamsAfter(d, e, way, s)
      /\ \A s \in Steps(d) : VersionOf(f, s) = VersionAfter(d, e, way, s)
      /\ \A t \in Tabs(d) : NameOf(f, t) = NameAfter(d, e, way, t)
      /\ Order(f) = OrderAfter(d, e, way)
  BY <1>1 DEF SameParams, SameVersions, ParamsAfter, VersionAfter, NameAfter, OrderAfter
<1> QED
  BY <1>2, <1>3, <1>4 DEF Works

(* A step goes. *)
LEMMA ClosingWorks ==
  ASSUME NEW d, NEW e, NEW way \in Ways, NEW f, e.command = Closing(way),
         SameRows(f, d), Order(f) = Order(d), Closes(f, d, e.step),
         SameParams(f, d), SameVersions(f, d),
         \A u \in Tabs(d) : NameOf(f, u) = NameOf(d, u), Selects(f, d, e, way)
  PROVE  Works(f, d, e, way)
<1>1. /\ e.command # Opening(way) /\ e.command # Adding(way) /\ e.command # Removing(way)
      /\ e.command \notin {"ReorderSteps", "SetStepParams", "SetStepDataVersion",
                           "SetTabName", "ReorderTabs"}
      /\ e.command = Closing(way)
  BY DEF Ways, Opening, Closing, Adding, Removing
<1>2. \A s \in Steps(d) : Place(f, s) = PlaceAfter(d, e, way, s)
  BY <1>1 DEF Closes, PlaceAfter
<1>3. \A s \in Steps(d) : Gone(f, s) <=> GoneAfter(d, e, way, s)
  BY <1>1 DEF Closes, GoneAfter
<1>4. /\ \A s \in Steps(d) : ParamsOf(f, s) = ParamsAfter(d, e, way, s)
      /\ \A s \in Steps(d) : VersionOf(f, s) = VersionAfter(d, e, way, s)
      /\ \A t \in Tabs(d) : NameOf(f, t) = NameAfter(d, e, way, t)
      /\ Order(f) = OrderAfter(d, e, way)
  BY <1>1 DEF SameParams, SameVersions, ParamsAfter, VersionAfter, NameAfter, OrderAfter
<1> QED
  BY <1>2, <1>3, <1>4 DEF Works

(* Other commands leave steps where they are, or arrange them. *)
LEMMA OtherWorks ==
  ASSUME NEW d, NEW e, NEW way \in Ways, NEW f, e.command \in Commands \ {"AddStep", "DeleteStep"},
         SameRows(f, d), Order(f) = OrderAfter(d, e, way), SameGone(f, d),
         \A s \in Steps(d) :
           Place(f, s) = IF e.command = "ReorderSteps" /\ s \in Range(Data(e, way))
                         THEN Rank(Data(e, way), s) ELSE Place(d, s),
         \A s \in Steps(d) : ParamsOf(f, s) = ParamsAfter(d, e, way, s),
         \A s \in Steps(d) : VersionOf(f, s) = VersionAfter(d, e, way, s),
         \A u \in Tabs(d) : NameOf(f, u) = NameAfter(d, e, way, u) /\ Chosen(f, u) = Chosen(d, u)
  PROVE  Works(f, d, e, way)
<1>1. e.command # Opening(way) /\ e.command # Closing(way)
  BY DEF Ways, Opening, Closing
<1>2. \A s \in Steps(d) : Place(f, s) = PlaceAfter(d, e, way, s)
  BY <1>1 DEF PlaceAfter
<1>3. \A s \in Steps(d) : Gone(f, s) <=> GoneAfter(d, e, way, s)
  BY <1>1 DEF SameGone, GoneAfter
<1>4. Selects(f, d, e, way)
  BY DEF Selects
<1> QED
  BY <1>2, <1>3, <1>4 DEF Works

(* What changes no step's place, nor what is selected. *)
LEMMA SameWorks ==
  ASSUME NEW d, IsDoc(d), NEW e, Fits(e, d), NEW way, NEW g, Works(g, d, e, way), NEW f,
         SameRows(f, g), SameTabs(f, g), Order(f) = Order(g), SamePlaces(f, g), SameGone(f, g),
         SameParams(f, g), SameVersions(f, g)
  PROVE  Works(f, d, e, way)
<1>1. \A t : StepsOf(f, t) = StepsOf(g, t)
  BY SameSteps
<1>2. Tabs(g) = Tabs(d) /\ Steps(g) = Steps(d)
  BY DEF Works, SameRows
<1>3. SameRows(f, d)
  BY DEF Works, SameRows
<1>4. e.command \in {"AddStep", "DeleteStep"} => TabOf(d, e.step) \in Tabs(d)
  BY DocFacts DEF Fits, StepCommands
<1>5. \A u \in Tabs(d) : Chosen(f, u) = Chosen(g, u)
  BY <1>2 DEF SameTabs
<1>6. Selects(g, d, e, way)
  BY DEF Works
<1>7. Selects(f, d, e, way)
  BY ONLY <1>1, <1>4, <1>5, <1>6 DEF Selects
<1> QED
  BY <1>2, <1>3, <1>7 DEF Works, SameTabs, SamePlaces, SameGone, SameParams, SameVersions

(* The deltas of the steps that change. *)
LEMMA DeltasGo ==
  ASSUME NEW d, IsDoc(d), NEW e, Fits(e, d), NEW way \in Ways, NEW g, Begins(g, d, e, way), NEW f,
         f = IF way = "forth" THEN WithDelta(g, DOMAIN e.ids, e.id) ELSE WithOldDeltas(g, e.ids)
  PROVE  Goes(f, d, e, way)
<1>1. Works(g, d, e, way) /\ IsDoc(g) /\ Steps(g) = Steps(d)
  BY DEF Begins, Works, SameRows
<1>2. /\ SameRows(f, g) /\ SameTabs(f, g) /\ Order(f) = Order(g)
      /\ SamePlaces(f, g) /\ SameGone(f, g) /\ SameParams(f, g) /\ SameVersions(f, g)
      /\ \A s \in Steps(g) :
           DeltaOf(f, s) = IF s \in DOMAIN e.ids THEN IF way = "forth" THEN e.id ELSE e.ids[s]
                           ELSE DeltaOf(g, s)
  <2>1. e.id \in Nat /\ \A s \in DOMAIN e.ids : e.ids[s] \in Nat
    BY DEF Fits
  <2>2. CASE way = "forth"
    <3>1. f = WithDelta(g, DOMAIN e.ids, e.id)
      BY <2>2
    <3>2. /\ SameRows(f, g) /\ SameTabs(f, g) /\ Order(f) = Order(g)
          /\ SamePlaces(f, g) /\ SameGone(f, g) /\ SameParams(f, g) /\ SameVersions(f, g)
          /\ \A s \in Steps(g) :
               DeltaOf(f, s) = IF s \in DOMAIN e.ids THEN e.id ELSE DeltaOf(g, s)
      BY ONLY <1>1, <2>1, <3>1, DeltaRows
    <3> QED
      BY <2>2, <3>2
  <2>3. CASE way # "forth"
    <3>1. f = WithOldDeltas(g, e.ids)
      BY <2>3
    <3>2. /\ SameRows(f, g) /\ SameTabs(f, g) /\ Order(f) = Order(g)
          /\ SamePlaces(f, g) /\ SameGone(f, g) /\ SameParams(f, g) /\ SameVersions(f, g)
          /\ \A s \in Steps(g) :
               DeltaOf(f, s) = IF s \in DOMAIN e.ids THEN e.ids[s] ELSE DeltaOf(g, s)
      BY ONLY <1>1, <2>1, <3>1, OldDeltaRows
    <3> QED
      BY <2>3, <3>2
  <2> QED
    BY <2>2, <2>3
<1>3. Works(f, d, e, way)
  BY ONLY <1>1, <1>2, SameWorks, IsDoc(d), Fits(e, d)
<1>4. \A s \in Steps(d) : DeltaOf(f, s) = DeltaAfter(d, e, way, s)
  BY <1>1, <1>2 DEF Begins, DeltaAfter
<1> QED
  BY <1>3, <1>4 DEF Goes

(* Only a step that is added gets another delta of its own. *)
LEMMA OtherBegins ==
  ASSUME NEW d, NEW e, NEW way, NEW f, Works(f, d, e, way), SameDeltas(f, d),
         e.command # "AddStep" \/ way # "forth"
  PROVE  Begins(f, d, e, way)
<1>1. \A s \in Steps(d) : DeltaOfNew(d, e, way, s) = DeltaOf(d, s)
  BY DEF DeltaOfNew
<1> QED
  BY <1>1 DEF Begins, SameDeltas

(* The commands, one by one: AddStep, *)
LEMMA AddStepBegins ==
  ASSUME NEW d, IsDoc(d), NEW e, Fits(e, d), e.command = "AddStep"
  PROVE  /\ Begins(AddStepForward(d, e.step, e.id), d, e, "forth")
         /\ Begins(AddStepBackward(d, e.step), d, e, "back")
<1>1. e.step \in Steps(d) /\ e.id \in Nat
  BY DEF Fits, StepCommands
<1>2. /\ "forth" \in Ways /\ "back" \in Ways
      /\ e.command = Opening("forth") /\ e.command = Closing("back")
  BY DEF Ways, Opening, Closing
<1>3. ASSUME NEW f, f = AddStepForward(d, e.step, e.id)
      PROVE  Begins(f, d, e, "forth")
  <2>1. /\ SameRows(f, d) /\ Order(f) = Order(d) /\ Opens(f, d, e.step)
        /\ SameParams(f, d) /\ SameVersions(f, d) /\ IsAdded(f, d, e.step, e.id)
    BY ONLY <1>1, <1>3, IsDoc(d), AddStepForwardRows
  <2>2. TabOf(d, e.step) \in Tabs(d)
    BY <1>1, DocFacts
  <2>3. Selects(f, d, e, "forth")
    BY ONLY <2>1, <2>2, e.command = "AddStep" DEF Selects, IsAdded
  <2>4. \A u \in Tabs(d) : NameOf(f, u) = NameOf(d, u)
    BY <2>1 DEF IsAdded
  <2>5. Works(f, d, e, "forth")
    BY ONLY <1>2, <2>1, <2>3, <2>4, OpeningWorks
  <2>6. \A s \in Steps(d) : DeltaOf(f, s) = DeltaOfNew(d, e, "forth", s)
    BY ONLY <2>1, e.command = "AddStep" DEF DeltaOfNew, IsAdded
  <2> QED
    BY <2>5, <2>6 DEF Begins
<1>4. ASSUME NEW f, f = AddStepBackward(d, e.step)
      PROVE  Begins(f, d, e, "back")
  <2> DEFINE t == TabOf(d, e.step)
             n == Cardinality(StepsOf(f, t))
  <2>0. t = TabOf(d, e.step) /\ n = Cardinality(StepsOf(f, t))
    OBVIOUS
  <2> HIDE DEF t, n
  <2>1. /\ SameRows(f, d) /\ Order(f) = Order(d) /\ Closes(f, d, e.step)
        /\ SameDeltas(f, d) /\ SameParams(f, d) /\ SameVersions(f, d)
        /\ \A u \in Tabs(d) : /\ NameOf(f, u) = NameOf(d, u)
                              /\ u # t => Chosen(f, u) = Chosen(d, u)
        /\ \A q \in Chosen(f, t) : (q \in Chosen(d, t) /\ q < n) \/ (n # 0 /\ q = n - 1)
    BY ONLY <1>1, <1>4, <2>0, IsDoc(d), AddStepBackwardRows
  <2>2. Selects(f, d, e, "back")
    BY ONLY <2>0, <2>1, e.command = "AddStep" DEF Selects
  <2>3. \A u \in Tabs(d) : NameOf(f, u) = NameOf(d, u)
    BY <2>1
  <2>4. Works(f, d, e, "back")
    BY ONLY <1>2, <2>1, <2>2, <2>3, ClosingWorks
  <2> QED
    BY <2>1, <2>4, OtherBegins
<1> QED
  BY <1>3, <1>4

(* DeleteStep, *)
LEMMA DeleteStepBegins ==
  ASSUME NEW d, IsDoc(d), NEW e, Fits(e, d), e.command = "DeleteStep"
  PROVE  /\ Begins(DeleteStepForward(d, e.step), d, e, "forth")
         /\ Begins(DeleteStepBackward(d, e.step), d, e, "back")
<1>1. e.step \in Steps(d)
  BY DEF Fits, StepCommands
<1>2. /\ "forth" \in Ways /\ "back" \in Ways
      /\ e.command = Opening("back") /\ e.command = Closing("forth")
  BY DEF Ways, Opening, Closing
<1>3. ASSUME NEW f, f = DeleteStepForward(d, e.step)
      PROVE  Begins(f, d, e, "forth")
  <2> DEFINE t == TabOf(d, e.step)
             p == Place(d, e.step)
  <2>1. /\ SameRows(f, d) /\ Order(f) = Order(d) /\ Closes(f, d, e.step)
        /\ SameDeltas(f, d) /\ SameParams(f, d) /\ SameVersions(f, d)
        /\ \A u \in Tabs(d) : /\ NameOf(f, u) = NameOf(d, u)
                              /\ u # t => Chosen(f, u) = Chosen(d, u)
        /\ \A q \in Chosen(f, t) :
             q \in Nat /\ \E o \in Chosen(d, t) : q = IF o >= p THEN o - 1 ELSE o
    BY <1>1, <1>3, DeleteStepForwardRows
  <2>2. Selects(f, d, e, "forth")
    BY ONLY <2>1, e.command = "DeleteStep" DEF Selects
  <2>3. \A u \in Tabs(d) : NameOf(f, u) = NameOf(d, u)
    BY <2>1
  <2>4. Works(f, d, e, "forth")
    BY ONLY <1>2, <2>1, <2>2, <2>3, ClosingWorks
  <2>5. e.command # "AddStep"
    OBVIOUS
  <2> QED
    BY <2>1, <2>4, <2>5, OtherBegins
<1>4. ASSUME NEW f, f = DeleteStepBackward(d, e.step)
      PROVE  Begins(f, d, e, "back")
  <2>1. /\ SameRows(f, d) /\ SameTabs(f, d) /\ Order(f) = Order(d) /\ Opens(f, d, e.step)
        /\ SameDeltas(f, d) /\ SameParams(f, d) /\ SameVersions(f, d)
    BY <1>1, <1>4, DeleteStepBackwardRows
  <2>2. Selects(f, d, e, "back")
    BY ONLY <2>1, e.command = "DeleteStep" DEF Selects, SameTabs
  <2>3. \A u \in Tabs(d) : NameOf(f, u) = NameOf(d, u)
    BY <2>1 DEF SameTabs
  <2>4. Works(f, d, e, "back")
    BY ONLY <1>2, <2>1, <2>2, <2>3, OpeningWorks
  <2> QED
    BY <2>1, <2>4, OtherBegins
<1> QED
  BY <1>3, <1>4

(* ReorderSteps, *)
LEMMA ReorderStepsBegins ==
  ASSUME NEW d, IsDoc(d), NEW e, Fits(e, d), e.command = "ReorderSteps", NEW way \in Ways,
         NEW f, f = Arranged(d, Data(e, way))
  PROVE  Begins(f, d, e, way)
<1>1. Data(e, way) \in Seq(Steps(d))
  BY DEF Fits, Data
<1>2. /\ SameRows(f, d) /\ SameTabs(f, d) /\ Order(f) = Order(d)
      /\ SameGone(f, d) /\ SameDeltas(f, d) /\ SameParams(f, d) /\ SameVersions(f, d)
      /\ \A s \in Steps(d) :
           Place(f, s) = IF s \in Range(Data(e, way)) THEN Rank(Data(e, way), s) ELSE Place(d, s)
  BY <1>1, ArrangedRows
<1>3. /\ Order(d) = OrderAfter(d, e, way)
      /\ \A s \in Steps(d) : ParamsOf(d, s) = ParamsAfter(d, e, way, s)
      /\ \A s \in Steps(d) : VersionOf(d, s) = VersionAfter(d, e, way, s)
      /\ \A u \in Tabs(d) : NameOf(d, u) = NameAfter(d, e, way, u)
  BY DEF OrderAfter, ParamsAfter, VersionAfter, NameAfter, Adding, Removing
<1>4. /\ SameRows(f, d) /\ Order(f) = OrderAfter(d, e, way) /\ SameGone(f, d)
      /\ \A s \in Steps(d) :
           Place(f, s) = IF e.command = "ReorderSteps" /\ s \in Range(Data(e, way))
                         THEN Rank(Data(e, way), s) ELSE Place(d, s)
      /\ \A s \in Steps(d) : ParamsOf(f, s) = ParamsAfter(d, e, way, s)
      /\ \A s \in Steps(d) : VersionOf(f, s) = VersionAfter(d, e, way, s)
      /\ \A u \in Tabs(d) : NameOf(f, u) = NameAfter(d, e, way, u) /\ Chosen(f, u) = Chosen(d, u)
  BY ONLY <1>2, <1>3, e.command = "ReorderSteps" DEF SameTabs, SameParams, SameVersions
<1>5. e.command \in Commands \ {"AddStep", "DeleteStep"} /\ e.command # "AddStep"
  BY DEF Commands
<1>6. Works(f, d, e, way)
  BY <1>4, <1>5, OtherWorks
<1> QED
  BY <1>2, <1>5, <1>6, OtherBegins

(* those that set a parameter, a version or a name, *)
LEMMA SetBegins ==
  ASSUME NEW d, IsDoc(d), NEW e, Fits(e, d), NEW way \in Ways, NEW f,
         \/ e.command = "SetStepParams" /\ f = WithParams(d, e.step, Data(e, way))
         \/ e.command = "SetStepDataVersion" /\ f = WithVersion(d, e.step, Data(e, way))
         \/ e.command = "SetTabName" /\ f = Naming(d, e.tab, Data(e, way))
  PROVE  Begins(f, d, e, way)
<1>1. /\ SameRows(f, d) /\ SameGone(f, d) /\ SamePlaces(f, d) /\ SameDeltas(f, d)
      /\ Order(f) = Order(d)
      /\ \A s \in Steps(d) : ParamsOf(f, s) = ParamsAfter(d, e, way, s)
      /\ \A s \in Steps(d) : VersionOf(f, s) = VersionAfter(d, e, way, s)
      /\ \A u \in Tabs(d) : NameOf(f, u) = NameAfter(d, e, way, u) /\ Chosen(f, u) = Chosen(d, u)
  <2>1. CASE e.command = "SetStepParams" /\ f = WithParams(d, e.step, Data(e, way))
    <3>1. e.step \in Steps(d)
      BY <2>1 DEF Fits, StepCommands
    <3>2. /\ SameRows(f, d) /\ SameTabs(f, d) /\ Order(f) = Order(d)
          /\ SamePlaces(f, d) /\ SameGone(f, d) /\ SameDeltas(f, d) /\ SameVersions(f, d)
          /\ \A s \in Steps(d) :
               ParamsOf(f, s) = IF s = e.step THEN Data(e, way) ELSE ParamsOf(d, s)
      BY ONLY <2>1, <3>1, ParamsRows, IsDoc(d)
    <3> QED
      BY ONLY <2>1, <3>2 DEF SameTabs, SameVersions, ParamsAfter, VersionAfter, NameAfter
  <2>2. CASE e.command = "SetStepDataVersion" /\ f = WithVersion(d, e.step, Data(e, way))
    <3>1. e.step \in Steps(d)
      BY <2>2 DEF Fits, StepCommands
    <3>2. /\ SameRows(f, d) /\ SameTabs(f, d) /\ Order(f) = Order(d)
          /\ SamePlaces(f, d) /\ SameGone(f, d) /\ SameDeltas(f, d) /\ SameParams(f, d)
          /\ \A s \in Steps(d) :
               VersionOf(f, s) = IF s = e.step THEN Data(e, way) ELSE VersionOf(d, s)
      BY ONLY <2>2, <3>1, VersionRows, IsDoc(d)
    <3> QED
      BY ONLY <2>2, <3>2 DEF SameTabs, SameParams, ParamsAfter, VersionAfter, NameAfter
  <2>3. CASE e.command = "SetTabName" /\ f = Naming(d, e.tab, Data(e, way))
    <3>1. e.tab \in Tabs(d)
      BY <2>3 DEF Fits
    <3>2. /\ SameRows(f, d) /\ Order(f) = Order(d)
          /\ SamePlaces(f, d) /\ SameGone(f, d) /\ SameDeltas(f, d)
          /\ SameParams(f, d) /\ SameVersions(f, d)
          /\ \A u \in Tabs(d) :
               /\ NameOf(f, u) = IF u = e.tab THEN Data(e, way) ELSE NameOf(d, u)
               /\ Chosen(f, u) = Chosen(d, u)
      BY ONLY <2>3, <3>1, NamedRows, IsDoc(d)
    <3> QED
      BY ONLY <2>3, <3>2 DEF SameParams, SameVersions, ParamsAfter, VersionAfter, NameAfter
  <2> QED
    BY <2>1, <2>2, <2>3
<1>2. /\ e.command \in Commands \ {"AddStep", "DeleteStep"}
      /\ e.command \notin {"AddStep", "ReorderSteps", "ReorderTabs", "DuplicateTab", "DeleteTab"}
  BY DEF Commands
<1>3. Order(f) = OrderAfter(d, e, way)
  BY <1>1, <1>2 DEF OrderAfter, Adding, Removing
<1>4. \A s \in Steps(d) : Place(f, s) = IF e.command = "ReorderSteps" /\ s \in Range(Data(e, way))
                                        THEN Rank(Data(e, way), s) ELSE Place(d, s)
  BY <1>1, <1>2 DEF SamePlaces
<1>5. way \in Ways
  OBVIOUS
<1>6. Works(f, d, e, way)
  BY ONLY <1>1, <1>2, <1>3, <1>4, <1>5, OtherWorks
<1> QED
  BY ONLY <1>1, <1>2, <1>6, OtherBegins

(* and those that change the order of the tabs. *)
LEMMA OrderBegins ==
  ASSUME NEW d, IsDoc(d), NEW e, Fits(e, d), NEW way \in Ways,
         e.command \in {"ReorderTabs", "DuplicateTab", "DeleteTab"},
         NEW f, f = Ordering(d, OrderAfter(d, e, way))
  PROVE  Begins(f, d, e, way)
<1>1. /\ SameRows(f, d) /\ SameTabs(f, d) /\ Order(f) = OrderAfter(d, e, way)
      /\ SamePlaces(f, d) /\ SameGone(f, d) /\ SameDeltas(f, d)
      /\ SameParams(f, d) /\ SameVersions(f, d)
  BY ONLY OrderedRows, IsDoc(d), f = Ordering(d, OrderAfter(d, e, way))
<1>2. /\ e.command \in Commands \ {"AddStep", "DeleteStep"} /\ way \in Ways
      /\ e.command \notin {"AddStep", "ReorderSteps", "SetStepParams", "SetStepDataVersion",
                           "SetTabName"}
  BY DEF Commands
<1>3. \A s \in Steps(d) : Place(f, s) = IF e.command = "ReorderSteps" /\ s \in Range(Data(e, way))
                                        THEN Rank(Data(e, way), s) ELSE Place(d, s)
  BY <1>1, <1>2 DEF SamePlaces
<1>4. /\ \A s \in Steps(d) : ParamsOf(f, s) = ParamsAfter(d, e, way, s)
      /\ \A s \in Steps(d) : VersionOf(f, s) = VersionAfter(d, e, way, s)
      /\ \A u \in Tabs(d) : NameOf(f, u) = NameAfter(d, e, way, u) /\ Chosen(f, u) = Chosen(d, u)
  BY ONLY <1>1, <1>2 DEF SameTabs, SameParams, SameVersions, ParamsAfter, VersionAfter, NameAfter
<1>5. Works(f, d, e, way)
  BY ONLY <1>1, <1>2, <1>3, <1>4, OtherWorks
<1> QED
  BY ONLY <1>1, <1>2, <1>5, OtherBegins

(* forward() ... *)
LEMMA ForwardGoes ==
  ASSUME NEW d, IsDoc(d), NEW e, Fits(e, d)
  PROVE  Goes(Forward(d, e), d, e, "forth")
<1>1. "forth" \in Ways /\ Data(e, "forth") = e.forth
  BY DEF Ways, Data
<1>2. \E g : Begins(g, d, e, "forth") /\ Forward(d, e) = WithDelta(g, DOMAIN e.ids, e.id)
  <2>1. CASE e.command = "AddStep"
    <3>1. Forward(d, e) = WithDelta(AddStepForward(d, e.step, e.id), DOMAIN e.ids, e.id)
      BY <2>1 DEF Forward
    <3> QED
      BY <2>1, <3>1, AddStepBegins
  <2>2. CASE e.command = "DeleteStep"
    <3>1. Forward(d, e) = WithDelta(DeleteStepForward(d, e.step), DOMAIN e.ids, e.id)
      BY <2>2 DEF Forward
    <3> QED
      BY <2>2, <3>1, DeleteStepBegins
  <2>3. CASE e.command = "ReorderSteps"
    <3>1. Forward(d, e) = WithDelta(Arranged(d, e.forth), DOMAIN e.ids, e.id)
      BY <2>3 DEF Forward
    <3> QED
      BY <1>1, <2>3, <3>1, ReorderStepsBegins
  <2>4. CASE e.command \in {"SetStepParams", "SetStepDataVersion", "SetTabName"}
    <3>1. PICK g : /\ Forward(d, e) = WithDelta(g, DOMAIN e.ids, e.id)
                   /\ \/ e.command = "SetStepParams" /\ g = WithParams(d, e.step, e.forth)
                      \/ e.command = "SetStepDataVersion" /\ g = WithVersion(d, e.step, e.forth)
                      \/ e.command = "SetTabName" /\ g = Naming(d, e.tab, e.forth)
      BY <2>4 DEF Forward, WithParams, WithVersion, Naming
    <3> QED
      BY <1>1, <3>1, SetBegins
  <2>5. CASE e.command \in {"ReorderTabs", "DuplicateTab", "DeleteTab"}
    <3>1. Forward(d, e) = WithDelta(Ordering(d, OrderAfter(d, e, "forth")), DOMAIN e.ids, e.id)
      BY <2>5 DEF Forward, Ordering, OrderAfter, Adding, Removing, Data, TabShown, TabHidden, Order
    <3> QED
      BY <1>1, <2>5, <3>1, OrderBegins
  <2> QED
    BY <2>1, <2>2, <2>3, <2>4, <2>5 DEF Fits, Commands
<1>3. PICK g : Begins(g, d, e, "forth") /\ Forward(d, e) = WithDelta(g, DOMAIN e.ids, e.id)
  BY <1>2
<1> QED
  BY <1>1, <1>3, DeltasGo

(* ... and backward(). *)
LEMMA BackwardGoes ==
  ASSUME NEW d, IsDoc(d), NEW e, Fits(e, d)
  PROVE  Goes(Backward(d, e), d, e, "back")
<1>1. "back" \in Ways /\ Data(e, "back") = e.back /\ "back" # "forth"
  BY DEF Ways, Data
<1>2. \E g : Begins(g, d, e, "back") /\ Backward(d, e) = WithOldDeltas(g, e.ids)
  <2>1. CASE e.command = "AddStep"
    <3>1. Backward(d, e) = WithOldDeltas(AddStepBackward(d, e.step), e.ids)
      BY <2>1 DEF Backward
    <3> QED
      BY <2>1, <3>1, AddStepBegins
  <2>2. CASE e.command = "DeleteStep"
    <3>1. Backward(d, e) = WithOldDeltas(DeleteStepBackward(d, e.step), e.ids)
      BY <2>2 DEF Backward
    <3> QED
      BY <2>2, <3>1, DeleteStepBegins
  <2>3. CASE e.command = "ReorderSteps"
    <3>1. Backward(d, e) = WithOldDeltas(Arranged(d, e.back), e.ids)
      BY <2>3 DEF Backward
    <3> QED
      BY <1>1, <2>3, <3>1, ReorderStepsBegins
  <2>4. CASE e.command \in {"SetStepParams", "SetStepDataVersion", "SetTabName"}
    <3>1. PICK g : /\ Backward(d, e) = WithOldDeltas(g, e.ids)
                   /\ \/ e.command = "SetStepParams" /\ g = WithParams(d, e.step, e.back)
                      \/ e.command = "SetStepDataVersion" /\ g = WithVersion(d, e.step, e.back)
                      \/ e.command = "SetTabName" /\ g = Naming(d, e.tab, e.back)
      BY <2>4 DEF Backward, WithParams, WithVersion, Naming
    <3> QED
      BY <1>1, <3>1, SetBegins
  <2>5. CASE e.command \in {"ReorderTabs", "DuplicateTab", "DeleteTab"}
    <3>1. Backward(d, e) = WithOldDeltas(Ordering(d, OrderAfter(d, e, "back")), e.ids)
      BY <2>5 DEF Backward, Ordering, OrderAfter, Adding, Removing, Data, TabShown, TabHidden, Order
    <3> QED
      BY <1>1, <2>5, <3>1, OrderBegins
  <2> QED
    BY <2>1, <2>2, <2>3, <2>4, <2>5 DEF Fits, Commands
<1>3. PICK g : Begins(g, d, e, "back") /\ Backward(d, e) = WithOldDeltas(g, e.ids)
  BY <1>2
<1> QED
  BY <1>1, <1>3, DeltasGo

-----------------------------------------------------------------------------
(* Documents that are the same but for results and what is selected.       *)

Frame(f, d) ==
  /\ IsDoc(f) /\ Tabs(f) = Tabs(d) /\ Steps(f) = Steps(d)
  /\ \A s \in Steps(d) : TabOf(f, s) = TabOf(d, s)

(* ... in the rows of steps S and tabs T. *)
Agree(a, b, S, T) ==
  /\ \A s \in S : /\ Place(a, s) = Place(b, s) /\ (Gone(a, s) <=> Gone(b, s))
                  /\ DeltaOf(a, s) = DeltaOf(b, s)
                  /\ ParamsOf(a, s) = ParamsOf(b, s) /\ VersionOf(a, s) = VersionOf(b, s)
  /\ \A t \in T : NameOf(a, t) = NameOf(b, t)

Same(f, d) == Frame(f, d) /\ Order(f) = Order(d) /\ Agree(f, d, Steps(d), Tabs(d))

(* x has the rows of b, and more, which are not among the steps of b's tabs. *)
Extends(x, b) ==
  /\ Steps(b) \subseteq Steps(x) /\ Tabs(b) \subseteq Tabs(x)
  /\ \A s \in Steps(b) : TabOf(x, s) = TabOf(b, s)
  /\ \A s \in Steps(x) \ Steps(b) : TabOf(x, s) \in Tabs(b) => Gone(x, s)

(* a is b, with the rows that x has more. *)
Grown(a, b, x) ==
  /\ Extends(x, b) /\ Frame(a, x) /\ Order(a) = Order(b)
  /\ Agree(a, b, Steps(b), Tabs(b))
  /\ Agree(a, x, Steps(x) \ Steps(b), Tabs(x) \ Tabs(b))

(* To be the same is to be grown by nothing. *)
LEMMA SameIsGrown ==
  ASSUME NEW a, NEW b
  PROVE  Same(a, b) <=> Grown(a, b, b)
<1>1. Extends(b, b) /\ Steps(b) \ Steps(b) = {} /\ Tabs(b) \ Tabs(b) = {}
  BY DEF Extends
<1> QED
  BY <1>1 DEF Same, Grown, Agree

(* It is an equivalence. *)
LEMMA SameFacts ==
  ASSUME NEW a, NEW b, Same(a, b)
  PROVE  /\ IsDoc(b) => Same(b, b) /\ Same(b, a)
         /\ \A c : Same(b, c) => Same(a, c)
  BY DEF Same, Frame, Agree

(* Growing goes on. *)
LEMMA GrownFacts ==
  ASSUME NEW a, NEW b, NEW x, Grown(a, b, x), IsDoc(b)
  PROVE  /\ \A c : Same(b, c) => Grown(a, c, x)
         /\ \A c : Grown(c, b, x) => Same(a, c)
<1>1. \A c : Same(b, c) => Grown(a, c, x)
  BY DEF Grown, Same, Frame, Agree, Extends
<1>2. ASSUME NEW c, Grown(c, b, x)
      PROVE  Same(a, c)
  <2>1. Frame(a, c) /\ Order(a) = Order(c) /\ Steps(c) = Steps(x) /\ Tabs(c) = Tabs(x)
    BY <1>2 DEF Grown, Frame
  <2>2. Agree(a, b, Steps(b), Tabs(b)) /\ Agree(c, b, Steps(b), Tabs(b))
    BY <1>2 DEF Grown
  <2>3. /\ Agree(a, x, Steps(x) \ Steps(b), Tabs(x) \ Tabs(b))
        /\ Agree(c, x, Steps(x) \ Steps(b), Tabs(x) \ Tabs(b))
    BY <1>2 DEF Grown
  <2>4. Agree(a, c, Steps(c), Tabs(c))
    BY ONLY <2>1, <2>2, <2>3 DEF Agree
  <2> QED
    BY <2>1, <2>4 DEF Same
<1> QED
  BY <1>1, <1>2

(* The new rows are not among the steps of a tab. *)
LEMMA GrownSteps ==
  ASSUME NEW a, NEW b, IsDoc(b), NEW x, Grown(a, b, x)
  PROVE  /\ \A t \in Tabs(b) : StepsOf(a, t) = StepsOf(b, t)
         /\ \A r \in Steps(b) : \A n : Behind(a, r, n) = Behind(b, r, n)
<1>1. /\ \A s \in Steps(b) : /\ s \in Steps(a) /\ TabOf(a, s) = TabOf(b, s)
                             /\ Place(a, s) = Place(b, s) /\ (Gone(a, s) <=> Gone(b, s))
      /\ \A s \in Steps(a) \ Steps(b) : TabOf(a, s) \in Tabs(b) => Gone(a, s)
  BY DEF Grown, Frame, Agree, Extends
<1>2. ASSUME NEW t \in Tabs(b), NEW s
      PROVE  s \in StepsOf(a, t) <=> s \in StepsOf(b, t)
  BY <1>1, TabFacts
<1>3. \A t \in Tabs(b) : StepsOf(a, t) = StepsOf(b, t)
  BY <1>2
<1>4. ASSUME NEW r \in Steps(b), NEW n, NEW s
      PROVE  s \in Behind(a, r, n) <=> s \in Behind(b, r, n)
  <2>1. TabOf(b, r) \in Tabs(b) /\ TabOf(a, r) = TabOf(b, r) /\ Place(a, r) = Place(b, r)
    BY <1>1, DocFacts
  <2>2. s \in Behind(a, r, n) <=>
          s \in StepsOf(a, TabOf(b, r)) /\ Place(a, s) >= Place(b, r) + n
    BY <2>1, TabFacts DEF Behind
  <2>3. s \in Behind(b, r, n) <=>
          s \in StepsOf(b, TabOf(b, r)) /\ Place(b, s) >= Place(b, r) + n
    BY TabFacts DEF Behind
  <2>4. s \in StepsOf(b, TabOf(b, r)) => s \in Steps(b)
    BY TabFacts
  <2> QED
    BY <1>1, <1>3, <2>1, <2>2, <2>3, <2>4
<1> QED
  BY <1>3, <1>4

(* A command does the same to both. *)
LEMMA GrownGoes ==
  ASSUME NEW a, NEW b, IsDoc(b), NEW x, Grown(a, b, x), NEW e, Fits(e, b), NEW way \in Ways,
         NEW f, Goes(f, a, e, way), NEW g, Goes(g, b, e, way)
  PROVE  Grown(f, g, x)
<1>1. /\ Steps(f) = Steps(x) /\ Tabs(f) = Tabs(x) /\ Steps(g) = Steps(b) /\ Tabs(g) = Tabs(b)
      /\ Steps(a) = Steps(x) /\ Tabs(a) = Tabs(x) /\ IsDoc(f) /\ IsDoc(g)
      /\ \A s \in Steps(x) : TabOf(f, s) = TabOf(x, s)
      /\ \A s \in Steps(b) : TabOf(g, s) = TabOf(b, s)
      /\ Steps(b) \subseteq Steps(x) /\ Tabs(b) \subseteq Tabs(x)
  BY DEF Goes, Works, SameRows, Grown, Frame, Extends
<1>2. Extends(x, g) /\ Frame(f, x)
  BY <1>1 DEF Grown, Frame, Extends
<1>3. /\ e.command \in StepCommands => e.step \in Steps(b)
      /\ e.command = "ReorderSteps" => Range(Data(e, way)) \subseteq Steps(b)
      /\ DOMAIN e.ids \subseteq Steps(b) /\ (e.command = "SetTabName" => e.tab \in Tabs(b))
  <2>1. e.command = "ReorderSteps" => Data(e, way) \in Seq(Steps(b))
    BY DEF Fits, Data
  <2>2. e.command = "ReorderSteps" => Range(Data(e, way)) \subseteq Steps(b)
    BY <2>1, ElementOfSeq, LenProperties DEF Range
  <2> QED
    BY <2>2 DEF Fits
<1>4. e.command \in {"AddStep", "DeleteStep"} =>
        /\ \A n : Behind(a, e.step, n) = Behind(b, e.step, n) /\ Behind(a, e.step, n) \subseteq Steps(b)
        /\ e.step \in Steps(b)
  BY <1>3, GrownSteps, BehindFacts DEF StepCommands
<1>5. Opening(way) \in {"AddStep", "DeleteStep"} /\ Closing(way) \in {"AddStep", "DeleteStep"}
  BY DEF Opening, Closing
<1>6. ASSUME NEW s \in Steps(b)
      PROVE  /\ Place(a, s) = Place(b, s) /\ (Gone(a, s) <=> Gone(b, s))
             /\ DeltaOf(a, s) = DeltaOf(b, s)
             /\ ParamsOf(a, s) = ParamsOf(b, s) /\ VersionOf(a, s) = VersionOf(b, s)
  BY DEF Grown, Agree
<1>7. ASSUME NEW s \in Steps(b)
      PROVE  /\ PlaceAfter(a, e, way, s) = PlaceAfter(b, e, way, s)
             /\ (GoneAfter(a, e, way, s) <=> GoneAfter(b, e, way, s))
             /\ DeltaAfter(a, e, way, s) = DeltaAfter(b, e, way, s)
             /\ ParamsAfter(a, e, way, s) = ParamsAfter(b, e, way, s)
             /\ VersionAfter(a, e, way, s) = VersionAfter(b, e, way, s)
  <2>1. PlaceAfter(a, e, way, s) = PlaceAfter(b, e, way, s)
    BY ONLY <1>4, <1>5, <1>6, <1>7 DEF PlaceAfter
  <2>2. GoneAfter(a, e, way, s) <=> GoneAfter(b, e, way, s)
    BY ONLY <1>6, <1>7 DEF GoneAfter
  <2>3. DeltaAfter(a, e, way, s) = DeltaAfter(b, e, way, s)
    BY ONLY <1>6, <1>7 DEF DeltaAfter, DeltaOfNew
  <2>4. /\ ParamsAfter(a, e, way, s) = ParamsAfter(b, e, way, s)
        /\ VersionAfter(a, e, way, s) = VersionAfter(b, e, way, s)
    BY ONLY <1>6, <1>7 DEF ParamsAfter, VersionAfter
  <2> QED
    BY <2>1, <2>2, <2>3, <2>4
<1>8. \A t \in Tabs(b) : NameAfter(a, e, way, t) = NameAfter(b, e, way, t)
  BY DEF Grown, Agree, NameAfter
<1>9. Agree(f, g, Steps(g), Tabs(g))
  BY <1>1, <1>7, <1>8 DEF Agree, Goes, Works
<1>10. ASSUME NEW s \in Steps(x) \ Steps(b)
       PROVE  /\ PlaceAfter(a, e, way, s) = Place(a, s)
              /\ (GoneAfter(a, e, way, s) <=> Gone(a, s))
              /\ DeltaAfter(a, e, way, s) = DeltaOf(a, s)
              /\ ParamsAfter(a, e, way, s) = ParamsOf(a, s)
              /\ VersionAfter(a, e, way, s) = VersionOf(a, s)
  <2>1. PlaceAfter(a, e, way, s) = Place(a, s)
    BY ONLY <1>3, <1>4, <1>5, <1>10 DEF PlaceAfter
  <2>2. GoneAfter(a, e, way, s) <=> Gone(a, s)
    BY ONLY <1>4, <1>5, <1>10 DEF GoneAfter
  <2>3. DeltaAfter(a, e, way, s) = DeltaOf(a, s)
    BY ONLY <1>3, <1>4, <1>10 DEF DeltaAfter, DeltaOfNew
  <2>4. /\ ParamsAfter(a, e, way, s) = ParamsOf(a, s)
        /\ VersionAfter(a, e, way, s) = VersionOf(a, s)
    BY ONLY <1>3, <1>10 DEF ParamsAfter, VersionAfter, StepCommands
  <2> QED
    BY <2>1, <2>2, <2>3, <2>4
<1>11. \A t \in Tabs(x) \ Tabs(b) : NameAfter(a, e, way, t) = NameOf(a, t)
  BY <1>3 DEF NameAfter
<1>12. Agree(f, x, Steps(x) \ Steps(g), Tabs(x) \ Tabs(g))
  <2>1. ASSUME NEW s \in Steps(x) \ Steps(g)
        PROVE  /\ Place(f, s) = Place(x, s) /\ (Gone(f, s) <=> Gone(x, s))
               /\ DeltaOf(f, s) = DeltaOf(x, s)
               /\ ParamsOf(f, s) = ParamsOf(x, s) /\ VersionOf(f, s) = VersionOf(x, s)
    <3>1. s \in Steps(a) /\ s \in Steps(x) \ Steps(b)
      BY <1>1
    <3>2. /\ Place(f, s) = PlaceAfter(a, e, way, s) /\ (Gone(f, s) <=> GoneAfter(a, e, way, s))
          /\ DeltaOf(f, s) = DeltaAfter(a, e, way, s)
          /\ ParamsOf(f, s) = ParamsAfter(a, e, way, s)
          /\ VersionOf(f, s) = VersionAfter(a, e, way, s)
      BY <3>1 DEF Goes, Works
    <3>3. /\ Place(a, s) = Place(x, s) /\ (Gone(a, s) <=> Gone(x, s))
          /\ DeltaOf(a, s) = DeltaOf(x, s)
          /\ ParamsOf(a, s) = ParamsOf(x, s) /\ VersionOf(a, s) = VersionOf(x, s)
      BY <3>1 DEF Grown, Agree
    <3> QED
      BY <1>10, <3>1, <3>2, <3>3
  <2>2. ASSUME NEW t \in Tabs(x) \ Tabs(g)
        PROVE  NameOf(f, t) = NameOf(x, t)
    <3>1. t \in Tabs(a) /\ t \in Tabs(x) \ Tabs(b)
      BY <1>1
    <3> QED
      BY <1>11, <3>1 DEF Goes, Works, Grown, Agree
  <2> QED
    BY <2>1, <2>2 DEF Agree
<1>13. Order(f) = Order(g)
  BY DEF Goes, Works, OrderAfter, Grown
<1> QED
  BY <1>2, <1>9, <1>12, <1>13 DEF Grown

(* A delta about rows of b is about rows of x. *)
LEMMA FitsExtends ==
  ASSUME NEW e, NEW b, Fits(e, b), NEW x, Steps(b) \subseteq Steps(x), Tabs(b) \subseteq Tabs(x)
  PROVE  Fits(e, x)
<1>1. \A q : q \in Seq(Steps(b)) => q \in Seq(Steps(x))
  <2> TAKE q
  <2> HAVE q \in Seq(Steps(b))
  <2>1. q \in [1 .. Len(q) -> Steps(b)] /\ Len(q) \in Nat
    BY SeqDef, LenProperties
  <2>2. q \in [1 .. Len(q) -> Steps(x)]
    BY <2>1
  <2> QED
    BY <2>1, <2>2, SeqDef
<1> QED
  BY <1>1 DEF Fits

(* A command does the same to documents that are the same. *)
LEMMA SameGoes ==
  ASSUME NEW a, NEW b, IsDoc(b), Same(a, b), NEW e, Fits(e, b)
  PROVE  /\ Fits(e, a)
         /\ Same(Forward(a, e), Forward(b, e)) /\ Same(Backward(a, e), Backward(b, e))
<1>1. IsDoc(a) /\ Steps(a) = Steps(b) /\ Tabs(a) = Tabs(b)
  BY DEF Same, Frame
<1>2. Fits(e, a)
  BY <1>1, FitsExtends
<1>3. /\ Goes(Forward(a, e), a, e, "forth") /\ Goes(Forward(b, e), b, e, "forth")
      /\ Goes(Backward(a, e), a, e, "back") /\ Goes(Backward(b, e), b, e, "back")
      /\ "forth" \in Ways /\ "back" \in Ways
  BY <1>1, <1>2, ForwardGoes, BackwardGoes DEF Ways
<1>4. Grown(a, b, b)
  BY SameIsGrown
<1>5. Grown(Forward(a, e), Forward(b, e), b) /\ Grown(Backward(a, e), Backward(b, e), b)
  BY <1>3, <1>4, GrownGoes
<1>6. /\ Frame(Forward(b, e), b) /\ Frame(Backward(b, e), b)
  BY <1>3 DEF Goes, Works, SameRows, Frame
<1>7. Same(Forward(a, e), Forward(b, e))
  BY <1>5, <1>6 DEF Grown, Same, Frame
<1>8. Same(Backward(a, e), Backward(b, e))
  BY <1>5, <1>6 DEF Grown, Same, Frame
<1> QED
  BY <1>2, <1>7, <1>8

(* What the user sees of the new rows is nothing. *)
LEMMA ContentGrown ==
  ASSUME NEW a, NEW b, IsDoc(b), NEW x, Grown(a, b, x), LiveTabs(b) \subseteq Tabs(b)
  PROVE  Content(a) = Content(b)
<1>1. Order(a) = Order(b) /\ a.order = b.order /\ LiveTabs(a) = LiveTabs(b)
  BY DEF Grown, Order, LiveTabs
<1>2. \A t \in LiveTabs(b) : StepsOf(a, t) = StepsOf(b, t)
  BY GrownSteps
<1>3. LiveSteps(a) = LiveSteps(b)
  BY <1>1, <1>2 DEF LiveSteps
<1>4. \A t \in LiveTabs(b) : a.tabs[t].name = b.tabs[t].name
  BY DEF Grown, Agree, NameOf
<1>5. ASSUME NEW s \in LiveSteps(b)
      PROVE  /\ a.steps[s].tab = b.steps[s].tab /\ a.steps[s].order = b.steps[s].order
             /\ a.steps[s].params = b.steps[s].params /\ a.steps[s].version = b.steps[s].version
             /\ a.steps[s].delta = b.steps[s].delta
  <2>1. s \in Steps(b)
    BY TabFacts DEF LiveSteps
  <2>2. TabOf(a, s) = TabOf(b, s)
    BY <2>1 DEF Grown, Frame, Extends
  <2>3. /\ Place(a, s) = Place(b, s) /\ DeltaOf(a, s) = DeltaOf(b, s)
        /\ ParamsOf(a, s) = ParamsOf(b, s) /\ VersionOf(a, s) = VersionOf(b, s)
    BY <2>1 DEF Grown, Agree
  <2> QED
    BY ONLY <2>2, <2>3 DEF TabOf, Place, DeltaOf, ParamsOf, VersionOf
<1>6. [t \in LiveTabs(a) |-> a.tabs[t].name] = [t \in LiveTabs(b) |-> b.tabs[t].name]
  BY <1>1, <1>4
<1>7. [s \in LiveSteps(a) |-> <<a.steps[s].tab, a.steps[s].order, a.steps[s].params,
                                a.steps[s].version, a.steps[s].delta>>]
      = [s \in LiveSteps(b) |-> <<b.steps[s].tab, b.steps[s].order, b.steps[s].params,
                                  b.steps[s].version, b.steps[s].delta>>]
  BY <1>3, <1>5
<1> QED
  BY <1>1, <1>6, <1>7 DEF Content

(* ... nor does the user see results, or what is selected. *)
LEMMA ContentSame ==
  ASSUME NEW a, NEW b, IsDoc(b), Same(a, b), LiveTabs(b) \subseteq Tabs(b)
  PROVE  Content(a) = Content(b)
  BY SameIsGrown, ContentGrown

-----------------------------------------------------------------------------
(* Documents in order.                                                     *)

(* The n steps of a tab have places 0, 1, 2 ... *)
Dense(d, t, n) ==
  /\ \A s \in StepsOf(d, t) : Place(d, s) < n
  /\ \A q \in Nat : q < n => \E s \in StepsOf(d, t) : Place(d, s) = q
  /\ \A r, s \in StepsOf(d, t) : Place(d, r) = Place(d, s) => r = s

IsOrder(list, T) ==
  /\ list \in Seq(T) /\ list # <<>>
  /\ \A i, j \in DOMAIN list : list[i] = list[j] => i = j

InOrder(d) == IsOrder(Order(d), Tabs(d)) /\ \A t \in Tabs(d) : \E n \in Nat : Dense(d, t, n)

(* There are n steps. *)
LEMMA DenseFacts ==
  ASSUME NEW d, IsDoc(d), NEW t, NEW n \in Nat, Dense(d, t, n)
  PROVE  /\ {Place(d, s) : s \in StepsOf(d, t)} = 0 .. n - 1
         /\ Cardinality(StepsOf(d, t)) = n /\ IsFiniteSet(StepsOf(d, t))
<1> DEFINE S == StepsOf(d, t)
           f == [s \in S |-> Place(d, s)]
<1>1. \A s \in S : Place(d, s) \in Nat /\ Place(d, s) < n
  BY TabFacts, DocFacts DEF Dense
<1>2. \A q \in Nat : q < n => \E s \in S : Place(d, s) = q
  BY DEF Dense
<1>3. \A r, s \in S : Place(d, r) = Place(d, s) => r = s
  BY DEF Dense
<1> HIDE DEF S
<1>4. \A q : q \in {Place(d, s) : s \in S} <=> q \in 0 .. n - 1
  BY <1>1, <1>2
<1>5. {Place(d, s) : s \in S} = 0 .. n - 1
  BY <1>4
<1>6. \A s \in S : Place(d, s) \in 0 .. n - 1
  BY <1>1
<1>7. f \in Bijection(S, 0 .. n - 1)
  <2>1. f \in [S -> 0 .. n - 1]
    BY <1>6
  <2>2. \A q \in 0 .. n - 1 : \E s \in S : f[s] = q
    BY <1>2
  <2> QED
    BY <1>3, <2>1, <2>2 DEF Bijection, Injection, Surjection, IsInjective
<1>8. ExistsBijection(S, 0 .. n - 1)
  BY <1>7 DEF ExistsBijection
<1>9. IsFiniteSet(0 .. n - 1) /\ Cardinality(0 .. n - 1) = n
  BY FS_Interval
<1>10. Cardinality(S) = n /\ IsFiniteSet(S)
  BY <1>8, <1>9, FS_Bijection, Fun_ExistsBijSymmetric
<1> QED
  BY <1>5, <1>10 DEF S

(* Places are all it depends on. *)
LEMMA SameDense ==
  ASSUME NEW a, NEW b, NEW t, NEW n, Dense(b, t, n), StepsOf(a, t) = StepsOf(b, t),
         \A s \in StepsOf(b, t) : Place(a, s) = Place(b, s)
  PROVE  Dense(a, t, n)
  BY DEF Dense

(* To be in order depends on the order of the tabs and the places of the steps. *)
LEMMA InOrderSame ==
  ASSUME NEW a, NEW b, Frame(a, b), Order(a) = Order(b), InOrder(b),
         \A s \in Steps(b) : Place(a, s) = Place(b, s) /\ (Gone(a, s) <=> Gone(b, s))
  PROVE  InOrder(a)
<1>1. \A t : \A s : s \in StepsOf(a, t) <=> s \in StepsOf(b, t)
  BY TabFacts DEF Frame
<1>2. \A t : StepsOf(a, t) = StepsOf(b, t) /\ StepsOf(b, t) \subseteq Steps(b)
  BY <1>1, TabFacts
<1>3. ASSUME NEW t, NEW n, Dense(b, t, n)
      PROVE  Dense(a, t, n)
  <2>1. \A s \in StepsOf(b, t) : Place(a, s) = Place(b, s)
    BY <1>2
  <2> QED
    BY <1>2, <1>3, <2>1, SameDense
<1>4. Tabs(a) = Tabs(b)
  BY DEF Frame
<1> QED
  BY <1>3, <1>4 DEF InOrder

(* New rows are in order if those that they come from are. *)
LEMMA InOrderGrown ==
  ASSUME NEW a, NEW b, IsDoc(b), NEW x, Grown(a, b, x), InOrder(b), InOrder(x)
  PROVE  InOrder(a)
<1>1. Tabs(a) = Tabs(x) /\ Order(a) = Order(b) /\ Tabs(b) \subseteq Tabs(x)
  BY DEF Grown, Frame, Extends
<1>2. IsOrder(Order(a), Tabs(a))
  <2>1. Order(b) \in Seq(Tabs(b))
    BY DEF InOrder, IsOrder
  <2>2. Order(b) \in [1 .. Len(Order(b)) -> Tabs(b)] /\ Len(Order(b)) \in Nat
    BY <2>1, SeqDef, LenProperties
  <2>3. Order(b) \in [1 .. Len(Order(b)) -> Tabs(a)]
    BY <1>1, <2>2
  <2>4. Order(b) \in Seq(Tabs(a))
    BY <2>2, <2>3, SeqDef
  <2> QED
    BY <1>1, <2>4 DEF InOrder, IsOrder
<1>3. ASSUME NEW t \in Tabs(b)
      PROVE  \E n \in Nat : Dense(a, t, n)
  <2>1. PICK n \in Nat : Dense(b, t, n)
    BY DEF InOrder
  <2>2. StepsOf(a, t) = StepsOf(b, t) /\ StepsOf(b, t) \subseteq Steps(b)
    BY GrownSteps, TabFacts
  <2>3. \A s \in StepsOf(b, t) : Place(a, s) = Place(b, s)
    BY <2>2 DEF Grown, Agree
  <2> QED
    BY <2>1, <2>2, <2>3, SameDense
<1>4. ASSUME NEW t \in Tabs(x) \ Tabs(b)
      PROVE  \E n \in Nat : Dense(a, t, n)
  <2>1. PICK n \in Nat : Dense(x, t, n)
    BY DEF InOrder
  <2>2. /\ Steps(a) = Steps(x) /\ \A s \in Steps(x) : TabOf(a, s) = TabOf(x, s)
        /\ \A s \in Steps(b) : TabOf(x, s) = TabOf(b, s)
    BY DEF Grown, Frame, Extends
  <2>3. \A s \in Steps(x) : TabOf(x, s) = t => s \notin Steps(b)
    BY <1>4, <2>2, DocFacts
  <2>4. \A s \in Steps(x) \ Steps(b) : Place(a, s) = Place(x, s) /\ (Gone(a, s) <=> Gone(x, s))
    BY DEF Grown, Agree
  <2>5. ASSUME NEW s
        PROVE  s \in StepsOf(a, t) <=> s \in StepsOf(x, t)
    BY <2>2, <2>3, <2>4, TabFacts
  <2>6. StepsOf(a, t) = StepsOf(x, t)
    BY <2>5
  <2>7. \A s \in StepsOf(x, t) : Place(a, s) = Place(x, s)
    BY <2>3, <2>4, TabFacts
  <2> QED
    BY <2>1, <2>6, <2>7, SameDense
<1> QED
  BY <1>1, <1>2, <1>3, <1>4 DEF InOrder

-----------------------------------------------------------------------------
(* There and back.                                                         *)

(* What the handlers see to, when they write delta e on rows d.            *)
Made(e, d) ==
  /\ Fits(e, d)
  /\ \A s \in DOMAIN e.ids : e.ids[s] = DeltaOf(d, s)
  /\ e.command = "AddStep" =>
       /\ Gone(d, e.step) /\ e.step \notin DOMAIN e.ids
       /\ \E n \in Nat : Dense(d, TabOf(d, e.step), n) /\ Place(d, e.step) <= n
  /\ e.command = "DeleteStep"   => ~Gone(d, e.step)
  /\ e.command = "ReorderSteps" =>
       /\ \A i, j \in DOMAIN e.forth : e.forth[i] = e.forth[j] => i = j
       /\ Range(e.forth) = StepsOf(d, e.tab)
       /\ \A s \in StepsOf(d, e.tab) : Rank(e.back, s) = Place(d, s)
  /\ e.command = "SetStepParams"      => e.back = ParamsOf(d, e.step)
  /\ e.command = "SetStepDataVersion" => e.back = VersionOf(d, e.step)
  /\ e.command = "SetTabName"         => e.back = NameOf(d, e.tab)
  /\ e.command = "ReorderTabs"  => e.back = Order(d) /\ IsOrder(e.forth, Tabs(d))
  /\ e.command = "DuplicateTab" => /\ e.tab \notin Range(Order(d))
                                   /\ e.forth \in 1 .. Len(Order(d)) + 1
  /\ e.command = "DeleteTab"    => /\ e.back \in 1 .. Len(Order(d)) /\ Order(d)[e.back] = e.tab
                                   /\ Len(Order(d)) > 1

(* The place of a step that came back is closed again. *)
LEMMA ClosesWhatOpened ==
  ASSUME NEW d, IsDoc(d), NEW r \in Steps(d), Gone(d, r), NEW f, SameRows(f, d), Opens(f, d, r)
  PROVE  /\ \A s : s \in Behind(f, r, 1) <=> s \in Behind(d, r, 0)
         /\ \A s \in Steps(d) :
              (IF s \in Behind(f, r, 1) THEN Place(f, s) - 1 ELSE Place(f, s)) = Place(d, s)
<1>1. /\ Steps(f) = Steps(d) /\ \A s \in Steps(d) : TabOf(f, s) = TabOf(d, s)
      /\ \A s \in Steps(d) : Place(d, s) \in Nat
      /\ \A s \in Steps(d) :
           Place(f, s) = IF s \in Behind(d, r, 0) THEN Place(d, s) + 1 ELSE Place(d, s)
      /\ \A s \in Steps(d) : Gone(f, s) <=> s # r /\ Gone(d, s)
  BY DocFacts DEF SameRows, Opens
<1>2. \A s : s \in Behind(d, r, 0) <=>
        /\ s \in Steps(d) /\ TabOf(d, s) = TabOf(d, r) /\ ~Gone(d, s)
        /\ Place(d, s) >= Place(d, r) + 0
  BY BehindFacts
<1>3. \A s : s \in Behind(f, r, 1) <=>
        /\ s \in Steps(f) /\ TabOf(f, s) = TabOf(f, r) /\ ~Gone(f, s)
        /\ Place(f, s) >= Place(f, r) + 1
  BY BehindFacts
<1>4. Place(f, r) = Place(d, r)
  BY <1>1, <1>2
<1>5. ASSUME NEW s
      PROVE  s \in Behind(f, r, 1) <=> s \in Behind(d, r, 0)
  BY <1>1, <1>2, <1>3, <1>4
<1>6. ASSUME NEW s \in Steps(d)
      PROVE  (IF s \in Behind(f, r, 1) THEN Place(f, s) - 1 ELSE Place(f, s)) = Place(d, s)
  BY <1>1, <1>5
<1> QED
  BY <1>5, <1>6

(* The place of a step that went is opened again. *)
LEMMA OpensWhatClosed ==
  ASSUME NEW d, IsDoc(d), NEW r \in Steps(d), ~Gone(d, r), NEW f, SameRows(f, d), Closes(f, d, r),
         NEW n \in Nat, Dense(d, TabOf(d, r), n)
  PROVE  /\ \A s : s \in Behind(f, r, 0) <=> s \in Behind(d, r, 1)
         /\ \A s \in Steps(d) :
              (IF s \in Behind(f, r, 0) THEN Place(f, s) + 1 ELSE Place(f, s)) = Place(d, s)
<1>1. /\ Steps(f) = Steps(d) /\ \A s \in Steps(d) : TabOf(f, s) = TabOf(d, s)
      /\ \A s \in Steps(d) : Place(d, s) \in Nat
      /\ \A s \in Steps(d) :
           Place(f, s) = IF s \in Behind(d, r, 1) THEN Place(d, s) - 1 ELSE Place(d, s)
      /\ \A s \in Steps(d) : Gone(f, s) <=> s = r \/ Gone(d, s)
  BY DocFacts DEF SameRows, Closes
<1>2. \A s : s \in Behind(d, r, 1) <=>
        /\ s \in Steps(d) /\ TabOf(d, s) = TabOf(d, r) /\ ~Gone(d, s)
        /\ Place(d, s) >= Place(d, r) + 1
  BY BehindFacts
<1>3. \A s : s \in Behind(f, r, 0) <=>
        /\ s \in Steps(f) /\ TabOf(f, s) = TabOf(f, r) /\ ~Gone(f, s)
        /\ Place(f, s) >= Place(f, r) + 0
  BY BehindFacts
<1>4. Place(f, r) = Place(d, r)
  BY <1>1, <1>2
<1>5. \A s \in Steps(d) : TabOf(d, s) = TabOf(d, r) /\ ~Gone(d, s) /\ Place(d, s) = Place(d, r) => s = r
  BY TabFacts DEF Dense
<1>6. ASSUME NEW s
      PROVE  s \in Behind(f, r, 0) <=> s \in Behind(d, r, 1)
  BY <1>1, <1>2, <1>3, <1>4, <1>5
<1>7. ASSUME NEW s \in Steps(d)
      PROVE  (IF s \in Behind(f, r, 0) THEN Place(f, s) + 1 ELSE Place(f, s)) = Place(d, s)
  BY <1>1, <1>6
<1> QED
  BY <1>6, <1>7

(* Forward, the commands AddStep and DeleteStep open and close a place. *)
LEMMA GoesOpens ==
  ASSUME NEW d, NEW f, NEW e, NEW way \in Ways, Goes(f, d, e, way)
  PROVE  /\ e.command = Opening(way) => Opens(f, d, e.step)
         /\ e.command = Closing(way) => Closes(f, d, e.step)
<1>1. Opening(way) # Closing(way) /\ Opening(way) # "ReorderSteps" /\ Closing(way) # "ReorderSteps"
  BY DEF Opening, Closing
<1>2. /\ \A s \in Steps(d) : Place(f, s) = PlaceAfter(d, e, way, s)
      /\ \A s \in Steps(d) : Gone(f, s) <=> GoneAfter(d, e, way, s)
  BY DEF Goes, Works
<1>3. CASE e.command = Opening(way)
  BY <1>1, <1>2, <1>3 DEF Opens, PlaceAfter, GoneAfter
<1>4. CASE e.command = Closing(way)
  BY <1>1, <1>2, <1>4 DEF Closes, PlaceAfter, GoneAfter
<1> QED
  BY <1>1, <1>3, <1>4

(* So the steps find back to their places, ... *)
LEMMA PlacesComeBack ==
  ASSUME NEW d, IsDoc(d), InOrder(d), NEW e, Made(e, d), NEW f, Goes(f, d, e, "forth")
  PROVE  \A s \in Steps(d) : PlaceAfter(f, e, "back", s) = Place(d, s)
<1>1. SameRows(f, d) /\ \A s \in Steps(d) : Place(f, s) = PlaceAfter(d, e, "forth", s)
  BY DEF Goes, Works
<1>2. /\ Opening("forth") = "AddStep" /\ Closing("forth") = "DeleteStep"
      /\ Opening("back") = "DeleteStep" /\ Closing("back") = "AddStep"
      /\ "forth" \in Ways
  BY DEF Opening, Closing, Ways
<1>3. CASE e.command = "AddStep"
  <2>1. e.step \in Steps(d) /\ Gone(d, e.step)
    BY <1>3 DEF Made, Fits, StepCommands
  <2>2. Opens(f, d, e.step)
    BY <1>2, <1>3, GoesOpens
  <2>3. \A s \in Steps(d) :
          (IF s \in Behind(f, e.step, 1) THEN Place(f, s) - 1 ELSE Place(f, s)) = Place(d, s)
    BY <1>1, <2>1, <2>2, ClosesWhatOpened
  <2> QED
    BY <1>2, <1>3, <2>3 DEF PlaceAfter
<1>4. CASE e.command = "DeleteStep"
  <2>1. e.step \in Steps(d) /\ ~Gone(d, e.step)
    BY <1>4 DEF Made, Fits, StepCommands
  <2>2. Closes(f, d, e.step)
    BY <1>2, <1>4, GoesOpens
  <2>3. PICK n \in Nat : Dense(d, TabOf(d, e.step), n)
    BY <2>1, DocFacts DEF InOrder
  <2>4. \A s \in Steps(d) :
          (IF s \in Behind(f, e.step, 0) THEN Place(f, s) + 1 ELSE Place(f, s)) = Place(d, s)
    BY <1>1, <2>1, <2>2, <2>3, OpensWhatClosed
  <2> QED
    BY <1>2, <1>4, <2>4 DEF PlaceAfter
<1>5. CASE e.command = "ReorderSteps"
  <2>1. /\ Range(e.back) = Range(e.forth) /\ Range(e.forth) = StepsOf(d, e.tab)
        /\ \A s \in StepsOf(d, e.tab) : Rank(e.back, s) = Place(d, s)
    BY <1>5 DEF Made, Fits
  <2>2. Data(e, "back") = e.back /\ Data(e, "forth") = e.forth
    BY DEF Data
  <2> QED
    BY <1>1, <1>2, <1>5, <2>1, <2>2 DEF PlaceAfter
<1>6. CASE e.command \notin {"AddStep", "DeleteStep", "ReorderSteps"}
  BY <1>1, <1>2, <1>6 DEF PlaceAfter
<1> QED
  BY <1>3, <1>4, <1>5, <1>6

(* InsertAt() and RemoveAt(), place by place. *)
IsInserted(r, list, p, t) ==
  \A i \in 1 .. Len(list) + 1 :
    r[i] = IF i < p THEN list[i] ELSE IF i = p THEN t ELSE list[i - 1]

IsRemoved(r, list, p) ==
  \A i \in 1 .. Len(list) - 1 : r[i] = IF i < p THEN list[i] ELSE list[i + 1]

(* InsertAt() makes a sequence, ... *)
LEMMA InsertFacts ==
  ASSUME NEW T, NEW list \in Seq(T), NEW t \in T, NEW p \in 1 .. Len(list) + 1,
         NEW r, r = InsertAt(list, p, t)
  PROVE  /\ r \in Seq(T) /\ Len(r) = Len(list) + 1 /\ Len(list) \in Nat
         /\ IsInserted(r, list, p, t)
<1> DEFINE n == Len(list)
           a == SubSeq(list, 1, p - 1)
           b == SubSeq(list, p, n)
           c == a \o <<t>>
<1>1. n \in Nat /\ \A i \in 1 .. n : list[i] \in T
  BY LenProperties, ElementOfSeq
<1>2. p \in Int /\ 1 <= p /\ p <= n + 1
  BY <1>1
<1>3. a \in Seq(T) /\ Len(a) = p - 1 /\ \A i \in 1 .. p - 1 : a[i] = list[i]
  <2>1. \A i \in 1 .. p - 1 : list[i] \in T
    BY <1>1, <1>2
  <2>2. /\ a \in Seq(T) /\ Len(a) = IF 1 <= p - 1 THEN p - 1 - 1 + 1 ELSE 0
        /\ \A i \in 1 .. p - 1 - 1 + 1 : a[i] = list[1 + i - 1]
    BY <1>2, <2>1, SubSeqProperties
  <2> HIDE DEF a
  <2> QED
    BY <1>2, <2>2
<1>4. b \in Seq(T) /\ Len(b) = n - p + 1 /\ \A i \in 1 .. n - p + 1 : b[i] = list[p + i - 1]
  <2>1. \A i \in p .. n : list[i] \in T
    BY <1>1, <1>2
  <2>2. /\ b \in Seq(T) /\ Len(b) = IF p <= n THEN n - p + 1 ELSE 0
        /\ \A i \in 1 .. n - p + 1 : b[i] = list[p + i - 1]
    BY <1>1, <1>2, <2>1, SubSeqProperties
  <2> HIDE DEF b
  <2> QED
    BY <1>1, <1>2, <2>2
<1>5. r = c \o b
  BY DEF InsertAt
<1> HIDE DEF n, a, b
<1>6. /\ c \in Seq(T) /\ Len(c) = p
      /\ \A i \in 1 .. p : c[i] = IF i <= p - 1 THEN a[i] ELSE t
  <2>1. <<t>> \in Seq(T) /\ Len(<<t>>) = 1 /\ <<t>>[1] = t
    OBVIOUS
  <2>2. /\ c \in Seq(T) /\ Len(c) = p - 1 + 1
        /\ \A i \in 1 .. p - 1 + 1 : c[i] = IF i <= p - 1 THEN a[i] ELSE <<t>>[i - (p - 1)]
    BY <1>3, <2>1, ConcatProperties
  <2> HIDE DEF c
  <2>3. ASSUME NEW i \in 1 .. p
        PROVE  c[i] = IF i <= p - 1 THEN a[i] ELSE t
    <3>1. CASE i <= p - 1
      BY <1>2, <2>2, <3>1
    <3>2. CASE ~(i <= p - 1)
      <4>1. i = p /\ i \in 1 .. p - 1 + 1 /\ i - (p - 1) = 1
        BY <1>2, <3>2
      <4> QED
        BY <2>1, <2>2, <3>2, <4>1
    <3> QED
      BY <3>1, <3>2
  <2> QED
    BY <1>2, <2>2, <2>3
<1> HIDE DEF c
<1>7. /\ r \in Seq(T) /\ Len(r) = p + (n - p + 1)
      /\ \A i \in 1 .. p + (n - p + 1) : r[i] = IF i <= p THEN c[i] ELSE b[i - p]
  <2> DEFINE q == c \o b
  <2>1. c \in Seq(T) /\ b \in Seq(T)
    BY <1>4, <1>6
  <2>2. /\ q \in Seq(T) /\ Len(q) = Len(c) + Len(b)
        /\ \A i \in 1 .. Len(c) + Len(b) : q[i] = IF i <= Len(c) THEN c[i] ELSE b[i - Len(c)]
    BY ONLY <2>1, ConcatProperties
  <2>3. r = q /\ Len(c) = p /\ Len(b) = n - p + 1
    BY <1>4, <1>5, <1>6
  <2> HIDE DEF q
  <2> QED
    BY ONLY <2>2, <2>3
<1>8. Len(r) = n + 1
  BY <1>1, <1>2, <1>7
<1>9. ASSUME NEW i \in 1 .. n + 1
      PROVE  r[i] = IF i < p THEN list[i] ELSE IF i = p THEN t ELSE list[i - 1]
  <2>1. r[i] = IF i <= p THEN c[i] ELSE b[i - p]
    BY <1>1, <1>2, <1>7
  <2>2. CASE i < p
    BY <1>2, <1>3, <1>6, <2>1, <2>2
  <2>3. CASE i = p
    BY <1>2, <1>6, <2>1, <2>3
  <2>4. CASE i > p
    <3>1. i - p \in 1 .. n - p + 1 /\ p + (i - p) - 1 = i - 1
      BY <1>1, <1>2, <2>4
    <3> QED
      BY <1>2, <1>4, <2>1, <2>4, <3>1
  <2> QED
    BY <1>2, <2>2, <2>3, <2>4
<1> QED
  BY <1>1, <1>7, <1>8, <1>9 DEF n, IsInserted

(* ... RemoveAt() does, ... *)
LEMMA RemoveFacts ==
  ASSUME NEW T, NEW list \in Seq(T), NEW p \in 1 .. Len(list), NEW r, r = RemoveAt(list, p)
  PROVE  /\ r \in Seq(T) /\ Len(r) = Len(list) - 1 /\ Len(list) \in Nat
         /\ IsRemoved(r, list, p)
<1> DEFINE n == Len(list)
           a == SubSeq(list, 1, p - 1)
           b == SubSeq(list, p + 1, n)
<1>1. n \in Nat /\ \A i \in 1 .. n : list[i] \in T
  BY LenProperties, ElementOfSeq
<1>2. p \in Int /\ 1 <= p /\ p <= n
  BY <1>1
<1>3. a \in Seq(T) /\ Len(a) = p - 1 /\ \A i \in 1 .. p - 1 : a[i] = list[i]
  <2>1. \A i \in 1 .. p - 1 : list[i] \in T
    BY <1>1, <1>2
  <2>2. /\ a \in Seq(T) /\ Len(a) = IF 1 <= p - 1 THEN p - 1 - 1 + 1 ELSE 0
        /\ \A i \in 1 .. p - 1 - 1 + 1 : a[i] = list[1 + i - 1]
    BY <1>2, <2>1, SubSeqProperties
  <2> HIDE DEF a
  <2> QED
    BY <1>2, <2>2
<1>4. b \in Seq(T) /\ Len(b) = n - p /\ \A i \in 1 .. n - p : b[i] = list[p + i]
  <2>1. \A i \in p + 1 .. n : list[i] \in T
    BY <1>1, <1>2
  <2>2. p + 1 \in Int /\ n \in Int
    BY <1>1, <1>2
  <2>3. /\ b \in Seq(T) /\ Len(b) = IF p + 1 <= n THEN n - (p + 1) + 1 ELSE 0
        /\ \A i \in 1 .. n - (p + 1) + 1 : b[i] = list[p + 1 + i - 1]
    BY <2>1, <2>2, SubSeqProperties
  <2> HIDE DEF b
  <2>4. n - (p + 1) + 1 = n - p /\ \A i \in 1 .. n - p : p + 1 + i - 1 = p + i
    BY <1>1, <1>2
  <2>5. Len(b) = n - p
    BY ONLY <1>1, <1>2, <2>3
  <2>6. \A i \in 1 .. n - p : b[i] = list[p + i]
    <3> TAKE i \in 1 .. n - p
    <3>1. b[i] = list[p + 1 + i - 1]
      BY ONLY <2>3, <2>4
    <3> QED
      BY ONLY <2>4, <3>1
  <2> QED
    BY <2>3, <2>5, <2>6
<1>5. r = a \o b
  BY DEF RemoveAt
<1> HIDE DEF n, a, b
<1>6. /\ r \in Seq(T) /\ Len(r) = p - 1 + (n - p)
      /\ \A i \in 1 .. p - 1 + (n - p) : r[i] = IF i <= p - 1 THEN a[i] ELSE b[i - (p - 1)]
  BY <1>3, <1>4, <1>5, ConcatProperties
<1>7. p - 1 + (n - p) = n - 1
  BY <1>1, <1>2
<1>8. ASSUME NEW i \in 1 .. n - 1
      PROVE  r[i] = IF i < p THEN list[i] ELSE list[i + 1]
  <2>1. CASE i < p
    BY <1>2, <1>3, <1>6, <1>7, <2>1
  <2>2. CASE ~(i < p)
    <3>1. i - (p - 1) \in 1 .. n - p /\ p + (i - (p - 1)) = i + 1 /\ ~(i <= p - 1)
      BY <1>1, <1>2, <2>2
    <3> QED
      BY <1>4, <1>6, <1>7, <2>2, <3>1
  <2> QED
    BY <2>1, <2>2
<1> QED
  BY <1>1, <1>6, <1>7, <1>8 DEF n, IsRemoved

(* ... and PlaceOf() finds the one place of a tab. *)
LEMMA PlaceOfFacts ==
  ASSUME NEW T, NEW list, IsOrder(list, T), NEW p \in 1 .. Len(list)
  PROVE  PlaceOf(list, list[p]) = p
<1>1. DOMAIN list = 1 .. Len(list) /\ \A i, j \in DOMAIN list : list[i] = list[j] => i = j
  BY LenProperties DEF IsOrder
<1>2. \A i \in DOMAIN list : list[i] = list[p] <=> i = p
  BY <1>1
<1> QED
  BY <1>1, <1>2 DEF PlaceOf

(* A tab put in can be taken out again. *)
LEMMA OrderInserted ==
  ASSUME NEW T, NEW list, IsOrder(list, T), NEW t \in T, t \notin Range(list),
         NEW p \in 1 .. Len(list) + 1, NEW r, r = InsertAt(list, p, t)
  PROVE  /\ IsOrder(r, T) /\ PlaceOf(r, t) = p /\ RemoveAt(r, p) = list
         /\ Range(r) = Range(list) \cup {t}
<1> DEFINE n == Len(list)
<1>1. /\ list \in Seq(T) /\ DOMAIN list = 1 .. n /\ n \in Nat
      /\ \A i, j \in 1 .. n : list[i] = list[j] => i = j
  BY LenProperties DEF IsOrder
<1>2. r \in Seq(T) /\ Len(r) = n + 1 /\ IsInserted(r, list, p, t)
  BY <1>1, InsertFacts
<1> HIDE DEF n
<1>3. DOMAIN r = 1 .. n + 1 /\ p \in 1 .. n + 1
  BY <1>2, LenProperties DEF n
<1>4. \A i \in 1 .. n : list[i] # t
  BY <1>1 DEF Range
<1>5. ASSUME NEW i \in 1 .. n + 1
      PROVE  /\ i < p => i \in 1 .. n /\ r[i] = list[i]
             /\ i = p => r[i] = t
             /\ i > p => i - 1 \in 1 .. n /\ r[i] = list[i - 1]
  <2>1. r[i] = IF i < p THEN list[i] ELSE IF i = p THEN t ELSE list[i - 1]
    BY <1>2 DEF IsInserted, n
  <2> QED
    BY <1>1, <1>3, <2>1
<1>6. ASSUME NEW i \in 1 .. n + 1, NEW j \in 1 .. n + 1, r[i] = r[j]
      PROVE  i = j
  BY <1>1, <1>3, <1>4, <1>5, <1>6
<1>7. r # <<>>
  BY <1>1, <1>2, EmptySeq
<1>8. IsOrder(r, T)
  BY <1>2, <1>3, <1>6, <1>7 DEF IsOrder
<1>9. PlaceOf(r, t) = p
  BY <1>2, <1>3, <1>5, <1>8, PlaceOfFacts
<1>10. RemoveAt(r, p) = list
  <2> DEFINE q == RemoveAt(r, p)
  <2>0. q \in Seq(T) /\ Len(q) = Len(r) - 1 /\ IsRemoved(q, r, p)
    BY <1>2, <1>3, RemoveFacts
  <2> HIDE DEF q
  <2>1. /\ q \in Seq(T) /\ Len(q) = n + 1 - 1
        /\ \A i \in 1 .. n + 1 - 1 : q[i] = IF i < p THEN r[i] ELSE r[i + 1]
    BY ONLY <1>1, <1>2, <2>0 DEF IsRemoved
  <2>2. ASSUME NEW i \in 1 .. n
        PROVE  q[i] = list[i]
    <3>1. i \in 1 .. n + 1 - 1 /\ i \in 1 .. n + 1 /\ i + 1 \in 1 .. n + 1 /\ i + 1 - 1 = i
      BY <1>1
    <3>2. CASE i < p
      BY <1>5, <2>1, <3>1, <3>2
    <3>3. CASE ~(i < p)
      <4>1. i + 1 > p
        BY <1>3, <3>3
      <4> QED
        BY <1>5, <2>1, <3>1, <3>3, <4>1
    <3> QED
      BY <3>2, <3>3
  <2>3. n + 1 - 1 = n /\ Len(list) = n
    BY <1>1 DEF n
  <2> QED
    BY <1>1, <2>1, <2>2, <2>3, SeqEqual DEF q
<1>11. \A x : x \in Range(r) <=> x \in Range(list) \cup {t}
  <2>1. ASSUME NEW i \in 1 .. n + 1
        PROVE  r[i] \in Range(list) \cup {t}
    <3>1. i < p \/ i = p \/ i > p
      BY <1>1, <1>3
    <3>2. \A j \in 1 .. n : list[j] \in Range(list)
      BY <1>1 DEF Range
    <3> QED
      BY <1>5, <3>1, <3>2
  <2>2. ASSUME NEW i \in 1 .. n
        PROVE  \E k \in 1 .. n + 1 : r[k] = list[i]
    <3>1. i \in 1 .. n + 1 /\ i + 1 \in 1 .. n + 1 /\ i + 1 - 1 = i /\ (i < p \/ i + 1 > p)
      BY <1>1, <1>3
    <3> QED
      BY <1>5, <3>1
  <2>3. r[p] = t
    BY <1>3, <1>5
  <2>4. Range(r) = {r[i] : i \in 1 .. n + 1} /\ Range(list) = {list[i] : i \in 1 .. n}
    BY <1>1, <1>3 DEF Range
  <2> QED
    BY <1>3, <2>1, <2>2, <2>3, <2>4
<1> QED
  BY <1>8, <1>9, <1>10, <1>11

(* A tab taken out can be put in again. *)
LEMMA OrderRemoved ==
  ASSUME NEW T, NEW list, IsOrder(list, T), NEW p \in 1 .. Len(list), Len(list) > 1,
         NEW r, r = RemoveAt(list, p)
  PROVE  /\ IsOrder(r, T) /\ list[p] \notin Range(r) /\ p \in 1 .. Len(r) + 1
         /\ InsertAt(r, p, list[p]) = list /\ Range(r) = Range(list) \ {list[p]}
<1> DEFINE n == Len(list)
<1>1. /\ list \in Seq(T) /\ DOMAIN list = 1 .. n /\ n \in Nat /\ list[p] \in T
      /\ \A i, j \in 1 .. n : list[i] = list[j] => i = j
  BY LenProperties, ElementOfSeq DEF IsOrder
<1>2. r \in Seq(T) /\ Len(r) = n - 1 /\ IsRemoved(r, list, p)
  <2>1. list \in Seq(T) /\ p \in 1 .. Len(list) /\ r = RemoveAt(list, p)
    BY <1>1
  <2> QED
    BY ONLY <2>1, RemoveFacts
<1>3. n > 1 /\ p \in 1 .. n
  OBVIOUS
<1> HIDE DEF n
<1>4. DOMAIN r = 1 .. n - 1 /\ n - 1 \in Nat
  BY <1>1, <1>2, <1>3, LenProperties
<1>5. ASSUME NEW i \in 1 .. n - 1
      PROVE  /\ i < p => i \in 1 .. n /\ r[i] = list[i]
             /\ ~(i < p) => i + 1 \in 1 .. n /\ r[i] = list[i + 1] /\ i + 1 # p
  <2>1. r[i] = IF i < p THEN list[i] ELSE list[i + 1]
    BY <1>2 DEF IsRemoved, n
  <2> QED
    BY <1>1, <1>3, <2>1
<1>6. ASSUME NEW i \in 1 .. n - 1, NEW j \in 1 .. n - 1, r[i] = r[j]
      PROVE  i = j
  BY <1>1, <1>3, <1>5, <1>6
<1>7. r # <<>>
  BY <1>1, <1>2, <1>3, EmptySeq
<1>8. IsOrder(r, T)
  BY <1>2, <1>4, <1>6, <1>7 DEF IsOrder
<1>9. \A i \in 1 .. n - 1 : r[i] # list[p]
  BY <1>1, <1>3, <1>5
<1>10. p \in 1 .. Len(r) + 1
  BY <1>1, <1>2, <1>3
<1>11. InsertAt(r, p, list[p]) = list
  <2> DEFINE q == InsertAt(r, p, list[p])
  <2>0. q \in Seq(T) /\ Len(q) = Len(r) + 1 /\ IsInserted(q, r, p, list[p])
    BY <1>1, <1>2, <1>10, InsertFacts
  <2> HIDE DEF q
  <2>1. /\ q \in Seq(T) /\ Len(q) = n - 1 + 1
        /\ \A i \in 1 .. n - 1 + 1 :
             q[i] = IF i < p THEN r[i] ELSE IF i = p THEN list[p] ELSE r[i - 1]
    BY <1>2, <2>0 DEF IsInserted
  <2>2. ASSUME NEW i \in 1 .. n
        PROVE  q[i] = list[i]
    <3>1. i \in 1 .. n - 1 + 1
      BY <1>1
    <3>2. CASE i < p
      <4>1. i \in 1 .. n - 1
        BY <1>1, <1>3, <3>2
      <4> QED
        BY <1>5, <2>1, <3>1, <3>2, <4>1
    <3>3. CASE i = p
      BY <2>1, <3>1, <3>3
    <3>4. CASE i > p
      <4>1. i - 1 \in 1 .. n - 1 /\ ~(i - 1 < p) /\ i - 1 + 1 = i /\ ~(i < p) /\ i # p
        BY <1>1, <1>3, <3>4
      <4> QED
        BY <1>5, <2>1, <3>1, <4>1
    <3> QED
      BY <1>3, <3>2, <3>3, <3>4
  <2>3. n - 1 + 1 = n /\ Len(list) = n
    BY <1>1 DEF n
  <2> QED
    BY <1>1, <2>1, <2>2, <2>3, SeqEqual DEF q
<1>12. \A x : x \in Range(r) <=> x \in Range(list) \ {list[p]}
  <2>1. \A i \in 1 .. n - 1 : r[i] \in Range(list) \ {list[p]}
    BY <1>1, <1>5, <1>9, SMTT(60) DEF Range
  <2>2. ASSUME NEW i \in 1 .. n, list[i] # list[p]
        PROVE  \E k \in 1 .. n - 1 : r[k] = list[i]
    <3>1. i # p
      BY <2>2
    <3>2. CASE i < p
      <4>1. i \in 1 .. n - 1
        BY <1>1, <1>3, <3>2
      <4> QED
        BY <1>5, <3>2, <4>1
    <3>3. CASE i > p
      <4>1. i - 1 \in 1 .. n - 1 /\ ~(i - 1 < p) /\ i - 1 + 1 = i
        BY <1>1, <1>3, <3>3
      <4> QED
        BY <1>5, <4>1
    <3> QED
      BY <1>3, <3>1, <3>2, <3>3
  <2>3. Range(r) = {r[i] : i \in 1 .. n - 1} /\ Range(list) = {list[i] : i \in 1 .. n}
    BY <1>1, <1>4 DEF Range
  <2> QED
    BY <2>1, <2>2, <2>3
<1>13. list[p] \notin Range(r)
  BY <1>12
<1> QED
  BY <1>8, <1>10, <1>11, <1>12, <1>13

(* Documents that are the same but for the deltas of steps, too. *)
Alike(a, b) ==
  /\ Frame(a, b) /\ Order(a) = Order(b)
  /\ \A s \in Steps(b) : /\ Place(a, s) = Place(b, s) /\ (Gone(a, s) <=> Gone(b, s))
                         /\ ParamsOf(a, s) = ParamsOf(b, s) /\ VersionOf(a, s) = VersionOf(b, s)
  /\ \A t \in Tabs(b) : NameOf(a, t) = NameOf(b, t)

(* If the deltas are the same too, the documents are. *)
LEMMA AlikeSame ==
  ASSUME NEW a, NEW b
  PROVE  Same(a, b) <=> Alike(a, b) /\ \A s \in Steps(b) : DeltaOf(a, s) = DeltaOf(b, s)
  BY DEF Same, Alike, Agree

(* The same steps are behind a step. *)
LEMMA AlikeBehind ==
  ASSUME NEW a, NEW b, Alike(a, b), NEW r \in Steps(b), NEW n
  PROVE  \A s : s \in Behind(a, r, n) <=> s \in Behind(b, r, n)
  BY BehindFacts DEF Alike, Frame

(* Commands do the same to both. *)
LEMMA AlikeGoes ==
  ASSUME NEW a, NEW b, Alike(a, b), NEW e, Fits(e, b), NEW way \in Ways,
         NEW f, Goes(f, a, e, way), NEW g, Goes(g, b, e, way)
  PROVE  Alike(f, g)
<1>1. /\ Steps(a) = Steps(b) /\ Tabs(a) = Tabs(b) /\ Order(a) = Order(b)
      /\ \A s \in Steps(b) : TabOf(a, s) = TabOf(b, s)
  BY DEF Alike, Frame
<1>2. ASSUME NEW s \in Steps(b)
      PROVE  PlaceAfter(a, e, way, s) = PlaceAfter(b, e, way, s)
  <2>1. Place(a, s) = Place(b, s)
    BY DEF Alike
  <2>2. CASE e.command \in {"AddStep", "DeleteStep"}
    <3>1. e.step \in Steps(b)
      BY <2>2 DEF Fits, StepCommands
    <3>2. /\ s \in Behind(a, e.step, 0) <=> s \in Behind(b, e.step, 0)
          /\ s \in Behind(a, e.step, 1) <=> s \in Behind(b, e.step, 1)
      BY <3>1, AlikeBehind
    <3> QED
      BY <2>1, <3>2 DEF PlaceAfter
  <2>3. CASE e.command \notin {"AddStep", "DeleteStep"}
    <3>1. e.command # Opening(way) /\ e.command # Closing(way)
      BY <2>3 DEF Opening, Closing
    <3> QED
      BY <2>1, <3>1 DEF PlaceAfter
  <2> QED
    BY <2>2, <2>3
<1>3. ASSUME NEW s \in Steps(b)
      PROVE  /\ (GoneAfter(a, e, way, s) <=> GoneAfter(b, e, way, s))
             /\ ParamsAfter(a, e, way, s) = ParamsAfter(b, e, way, s)
             /\ VersionAfter(a, e, way, s) = VersionAfter(b, e, way, s)
  <2>1. /\ (Gone(a, s) <=> Gone(b, s))
        /\ ParamsOf(a, s) = ParamsOf(b, s) /\ VersionOf(a, s) = VersionOf(b, s)
    BY DEF Alike
  <2> QED
    BY <2>1 DEF GoneAfter, ParamsAfter, VersionAfter
<1>4. \A t \in Tabs(b) : NameAfter(a, e, way, t) = NameAfter(b, e, way, t)
  BY DEF Alike, NameAfter
<1>5. OrderAfter(a, e, way) = OrderAfter(b, e, way)
  BY <1>1 DEF OrderAfter
<1>6. Frame(f, g)
  BY <1>1 DEF Frame, Goes, Works, SameRows
<1>7. /\ Steps(g) = Steps(b) /\ Tabs(g) = Tabs(b)
  BY DEF Goes, Works, SameRows
<1>8. ASSUME NEW s \in Steps(b)
      PROVE  /\ Place(f, s) = Place(g, s) /\ (Gone(f, s) <=> Gone(g, s))
             /\ ParamsOf(f, s) = ParamsOf(g, s) /\ VersionOf(f, s) = VersionOf(g, s)
  BY <1>1, <1>2, <1>3 DEF Goes, Works
<1>9. \A t \in Tabs(b) : NameOf(f, t) = NameOf(g, t)
  BY <1>1, <1>4 DEF Goes, Works
<1>10. Order(f) = Order(g)
  BY <1>5 DEF Goes, Works
<1> QED
  BY <1>6, <1>7, <1>8, <1>9, <1>10 DEF Alike

(* ... steps go and come back, ... *)
LEMMA StepsComeBack ==
  ASSUME NEW d, NEW e, Made(e, d), NEW f, Goes(f, d, e, "forth")
  PROVE  \A s \in Steps(d) : /\ GoneAfter(f, e, "back", s) <=> Gone(d, s)
                             /\ ParamsAfter(f, e, "back", s) = ParamsOf(d, s)
                             /\ VersionAfter(f, e, "back", s) = VersionOf(d, s)
<1>1. /\ Opening("forth") = "AddStep" /\ Closing("forth") = "DeleteStep"
      /\ Opening("back") = "DeleteStep" /\ Closing("back") = "AddStep"
      /\ Data(e, "back") = e.back
  BY DEF Opening, Closing, Data
<1>2. ASSUME NEW s \in Steps(d)
      PROVE  GoneAfter(f, e, "back", s) <=> Gone(d, s)
  <2>1. Gone(f, s) <=> GoneAfter(d, e, "forth", s)
    BY DEF Goes, Works
  <2>2. e.command = "AddStep" => Gone(d, e.step)
    BY DEF Made
  <2>3. e.command = "DeleteStep" => ~Gone(d, e.step)
    BY DEF Made
  <2>4. GoneAfter(f, e, "back", s) <=>
          \/ e.command = "AddStep" /\ s = e.step
          \/ Gone(f, s) /\ ~(e.command = "DeleteStep" /\ s = e.step)
    BY <1>1 DEF GoneAfter
  <2>5. Gone(f, s) <=> \/ e.command = "DeleteStep" /\ s = e.step
                       \/ Gone(d, s) /\ ~(e.command = "AddStep" /\ s = e.step)
    BY <1>1, <2>1 DEF GoneAfter
  <2> QED
    BY <2>2, <2>3, <2>4, <2>5
<1>3. ASSUME NEW s \in Steps(d)
      PROVE  ParamsAfter(f, e, "back", s) = ParamsOf(d, s)
  <2>1. ParamsOf(f, s) = ParamsAfter(d, e, "forth", s)
    BY DEF Goes, Works
  <2>2. e.command = "SetStepParams" => e.back = ParamsOf(d, e.step)
    BY DEF Made
  <2> QED
    BY <1>1, <2>1, <2>2 DEF ParamsAfter
<1>4. ASSUME NEW s \in Steps(d)
      PROVE  VersionAfter(f, e, "back", s) = VersionOf(d, s)
  <2>1. VersionOf(f, s) = VersionAfter(d, e, "forth", s)
    BY DEF Goes, Works
  <2>2. e.command = "SetStepDataVersion" => e.back = VersionOf(d, e.step)
    BY DEF Made
  <2> QED
    BY <1>1, <2>1, <2>2 DEF VersionAfter
<1> QED
  BY <1>2, <1>3, <1>4

(* ... and tabs do. *)
LEMMA TabsComeBack ==
  ASSUME NEW d, InOrder(d), NEW e, Made(e, d), NEW f, Goes(f, d, e, "forth")
  PROVE  /\ \A t \in Tabs(d) : NameAfter(f, e, "back", t) = NameOf(d, t)
         /\ OrderAfter(f, e, "back") = Order(d)
         /\ IsOrder(Order(f), Tabs(d))
<1>1. /\ Adding("forth") = "DuplicateTab" /\ Removing("forth") = "DeleteTab"
      /\ Adding("back") = "DeleteTab" /\ Removing("back") = "DuplicateTab"
      /\ Data(e, "back") = e.back /\ Data(e, "forth") = e.forth
  BY DEF Adding, Removing, Data
<1>2. ASSUME NEW t \in Tabs(d)
      PROVE  NameAfter(f, e, "back", t) = NameOf(d, t)
  <2>1. NameOf(f, t) = NameAfter(d, e, "forth", t)
    BY DEF Goes, Works
  <2>2. e.command = "SetTabName" => e.back = NameOf(d, e.tab)
    BY DEF Made
  <2> QED
    BY <1>1, <2>1, <2>2 DEF NameAfter
<1>3. IsOrder(Order(d), Tabs(d))
  BY DEF InOrder
<1>4. Order(f) = OrderAfter(d, e, "forth")
  BY DEF Goes, Works
<1>5. OrderAfter(f, e, "back") = Order(d) /\ IsOrder(Order(f), Tabs(d))
  <2>1. CASE e.command = "ReorderTabs"
    BY <1>1, <1>4, <2>1 DEF OrderAfter, Made
  <2>2. CASE e.command = "DuplicateTab"
    <3>1. /\ e.tab \in Tabs(d) /\ e.tab \notin Range(Order(d)) /\ e.forth \in 1 .. Len(Order(d)) + 1
      BY <2>2 DEF Made, Fits
    <3>2. Order(f) = InsertAt(Order(d), e.forth, e.tab)
      BY <1>1, <1>4, <2>2 DEF OrderAfter
    <3>3. /\ IsOrder(Order(f), Tabs(d)) /\ PlaceOf(Order(f), e.tab) = e.forth
          /\ RemoveAt(Order(f), e.forth) = Order(d)
      BY <1>3, <3>1, <3>2, OrderInserted
    <3> QED
      BY <1>1, <2>2, <3>3 DEF OrderAfter
  <2>3. CASE e.command = "DeleteTab"
    <3>1. e.back \in 1 .. Len(Order(d)) /\ Order(d)[e.back] = e.tab /\ Len(Order(d)) > 1
      BY <2>3 DEF Made
    <3>2. PlaceOf(Order(d), e.tab) = e.back
      BY <1>3, <3>1, PlaceOfFacts
    <3>3. Order(f) = RemoveAt(Order(d), e.back)
      BY <1>1, <1>4, <2>3, <3>2 DEF OrderAfter
    <3>4. IsOrder(Order(f), Tabs(d)) /\ InsertAt(Order(f), e.back, e.tab) = Order(d)
      BY <1>3, <3>1, <3>3, OrderRemoved
    <3> QED
      BY <1>1, <2>3, <3>4 DEF OrderAfter
  <2>4. CASE e.command \notin {"ReorderTabs", "DuplicateTab", "DeleteTab"}
    BY <1>1, <1>3, <1>4, <2>4 DEF OrderAfter
  <2> QED
    BY <2>1, <2>2, <2>3, <2>4
<1> QED
  BY <1>2, <1>5

(* All of it comes back, except that a new step keeps the delta that adds  *)
(* it; and it goes forward to the same again.                              *)
THEOREM ThereAndBack ==
  ASSUME NEW d, IsDoc(d), InOrder(d), NEW e, Made(e, d),
         NEW f, f = Forward(d, e), NEW g, g = Backward(f, e)
  PROVE  /\ Alike(g, d) /\ Frame(f, d) /\ Same(Forward(g, e), f)
         /\ \A s \in Steps(d) :
              ~(e.command = "AddStep" /\ s = e.step) => DeltaOf(g, s) = DeltaOf(d, s)
<1>1. Fits(e, d) /\ "forth" \in Ways /\ "back" \in Ways
  BY DEF Made, Ways
<1>2. Goes(f, d, e, "forth")
  BY <1>1, ForwardGoes
<1>3. SameRows(f, d)
  BY <1>2 DEF Goes, Works
<1>4. Frame(f, d)
  BY <1>3 DEF SameRows, Frame
<1>5. IsDoc(f) /\ Fits(e, f)
  <2>1. IsDoc(f) /\ Steps(d) \subseteq Steps(f) /\ Tabs(d) \subseteq Tabs(f)
    BY <1>3 DEF SameRows
  <2> QED
    BY <1>1, <2>1, FitsExtends
<1>6. Goes(g, f, e, "back")
  BY <1>5, BackwardGoes
<1>7. SameRows(g, f)
  BY <1>6 DEF Goes, Works
<1>8. Frame(g, d)
  BY <1>3, <1>7 DEF SameRows, Frame
<1>9. ASSUME NEW s \in Steps(d)
      PROVE  /\ Place(g, s) = Place(d, s) /\ (Gone(g, s) <=> Gone(d, s))
             /\ ParamsOf(g, s) = ParamsOf(d, s) /\ VersionOf(g, s) = VersionOf(d, s)
  <2>1. s \in Steps(f)
    BY <1>3 DEF SameRows
  <2>2. /\ Place(g, s) = PlaceAfter(f, e, "back", s)
        /\ (Gone(g, s) <=> GoneAfter(f, e, "back", s))
        /\ ParamsOf(g, s) = ParamsAfter(f, e, "back", s)
        /\ VersionOf(g, s) = VersionAfter(f, e, "back", s)
    BY <1>6, <2>1 DEF Goes, Works
  <2>3. PlaceAfter(f, e, "back", s) = Place(d, s)
    BY <1>2, PlacesComeBack
  <2>4. /\ GoneAfter(f, e, "back", s) <=> Gone(d, s)
        /\ ParamsAfter(f, e, "back", s) = ParamsOf(d, s)
        /\ VersionAfter(f, e, "back", s) = VersionOf(d, s)
    BY <1>2, StepsComeBack
  <2> QED
    BY <2>2, <2>3, <2>4
<1>10. Order(g) = Order(d) /\ \A t \in Tabs(d) : NameOf(g, t) = NameOf(d, t)
  <2>1. Order(g) = OrderAfter(f, e, "back") /\ Tabs(f) = Tabs(d)
        /\ \A t \in Tabs(f) : NameOf(g, t) = NameAfter(f, e, "back", t)
    BY <1>3, <1>6 DEF Goes, Works, SameRows
  <2>2. /\ \A t \in Tabs(d) : NameAfter(f, e, "back", t) = NameOf(d, t)
        /\ OrderAfter(f, e, "back") = Order(d)
    BY <1>2, TabsComeBack
  <2> QED
    BY <2>1, <2>2
<1>11. Alike(g, d)
  BY <1>8, <1>9, <1>10 DEF Alike
<1>12. ASSUME NEW s \in Steps(d)
       PROVE  /\ DeltaOf(g, s) = IF s \in DOMAIN e.ids THEN DeltaOf(d, s) ELSE DeltaOf(f, s)
              /\ DeltaOf(f, s) = IF s \in DOMAIN e.ids THEN e.id
                                 ELSE IF e.command = "AddStep" /\ s = e.step /\ DeltaOf(d, s) = None
                                      THEN e.id ELSE DeltaOf(d, s)
  <2>1. s \in Steps(f) /\ "back" # "forth"
    BY <1>3 DEF SameRows
  <2>2. DeltaOf(g, s) = DeltaAfter(f, e, "back", s) /\ DeltaOf(f, s) = DeltaAfter(d, e, "forth", s)
    BY <1>2, <1>6, <2>1 DEF Goes
  <2>3. \A r \in DOMAIN e.ids : e.ids[r] = DeltaOf(d, r)
    BY DEF Made
  <2> QED
    BY <2>1, <2>2, <2>3 DEF DeltaAfter, DeltaOfNew
<1>13. \A s \in Steps(d) : ~(e.command = "AddStep" /\ s = e.step) => DeltaOf(g, s) = DeltaOf(d, s)
  BY <1>12
<1> DEFINE h == Forward(g, e)
<1>14. IsDoc(g) /\ Fits(e, g)
  <2>1. IsDoc(g) /\ Steps(d) \subseteq Steps(g) /\ Tabs(d) \subseteq Tabs(g)
    BY <1>8 DEF Frame
  <2> QED
    BY <1>1, <2>1, FitsExtends
<1>15. Goes(h, g, e, "forth")
  BY <1>14, ForwardGoes
<1> HIDE DEF h
<1>16. Alike(h, f)
  BY <1>1, <1>2, <1>11, <1>15, AlikeGoes
<1>17. ASSUME NEW s \in Steps(d)
       PROVE  DeltaOf(h, s) = DeltaOf(f, s)
  <2>1. s \in Steps(g) /\ e.id # None
    BY <1>1, <1>8 DEF Frame, Fits, None
  <2>2. DeltaOf(h, s) = DeltaAfter(g, e, "forth", s)
    BY <1>15, <2>1 DEF Goes
  <2>3. DeltaOf(h, s) = IF s \in DOMAIN e.ids THEN e.id
                        ELSE IF e.command = "AddStep" /\ s = e.step /\ DeltaOf(g, s) = None
                             THEN e.id ELSE DeltaOf(g, s)
    BY <2>2 DEF DeltaAfter, DeltaOfNew
  <2> QED
    BY <1>12, <2>1, <2>3
<1>18. Same(h, f)
  <2>1. Steps(f) = Steps(d)
    BY <1>3 DEF SameRows
  <2> QED
    BY <1>16, <1>17, <2>1, AlikeSame
<1> QED
  BY <1>4, <1>11, <1>13, <1>18 DEF h

-----------------------------------------------------------------------------
(* The commands keep documents in order.                                   *)

(* There is a step more, ... *)
LEMMA OpensDense ==
  ASSUME NEW d, IsDoc(d), NEW r \in Steps(d), Gone(d, r), NEW f, SameRows(f, d), Opens(f, d, r),
         NEW n \in Nat, Dense(d, TabOf(d, r), n), Place(d, r) <= n
  PROVE  Dense(f, TabOf(d, r), n + 1)
<1> DEFINE u == TabOf(d, r)
           p == Place(d, r)
<1>1. /\ Steps(f) = Steps(d) /\ \A s \in Steps(d) : TabOf(f, s) = TabOf(d, s)
      /\ \A s \in Steps(d) : Place(d, s) \in Nat
      /\ \A s \in Steps(d) :
           Place(f, s) = IF s \in Behind(d, r, 0) THEN Place(d, s) + 1 ELSE Place(d, s)
      /\ \A s \in Steps(d) : Gone(f, s) <=> s # r /\ Gone(d, s)
  BY DocFacts DEF SameRows, Opens
<1>2. \A s : s \in Behind(d, r, 0) <=>
        s \in Steps(d) /\ TabOf(d, s) = u /\ ~Gone(d, s) /\ Place(d, s) >= p + 0
  BY BehindFacts
<1>3. \A s : s \in StepsOf(d, u) <=> s \in Steps(d) /\ TabOf(d, s) = u /\ ~Gone(d, s)
  BY TabFacts
<1>4. \A s : s \in StepsOf(f, u) <=> s = r \/ s \in StepsOf(d, u)
  <2>1. \A s : s \in StepsOf(f, u) <=> s \in Steps(f) /\ TabOf(f, s) = u /\ ~Gone(f, s)
    BY TabFacts
  <2> QED
    BY <1>1, <1>3, <2>1
<1>5. /\ Place(f, r) = p /\ p \in Nat /\ r \notin StepsOf(d, u)
      /\ \A s \in StepsOf(d, u) :
           /\ Place(d, s) \in Nat
           /\ Place(f, s) = IF Place(d, s) >= p THEN Place(d, s) + 1 ELSE Place(d, s)
  BY <1>1, <1>2, <1>3
<1>6. p <= n /\ Dense(d, u, n)
  OBVIOUS
<1> DEFINE S == StepsOf(d, u)
<1>7. /\ \A s \in S : Place(d, s) < n
      /\ \A q \in Nat : q < n => \E s \in S : Place(d, s) = q
      /\ \A s, x \in S : Place(d, s) = Place(d, x) => s = x
  BY DEF Dense
<1> HIDE DEF S, u, p
<1>8. \A s \in StepsOf(f, u) : Place(f, s) < n + 1
  BY <1>4, <1>5, <1>6, <1>7 DEF S
<1>9. ASSUME NEW q \in Nat, q < n + 1
      PROVE  \E s \in StepsOf(f, u) : Place(f, s) = q
  <2>1. CASE q < p
    <3>1. PICK s \in S : Place(d, s) = q
      BY <1>5, <1>6, <1>7, <2>1
    <3> QED
      BY <1>4, <1>5, <2>1, <3>1 DEF S
  <2>2. CASE q = p
    BY <1>4, <1>5, <2>2
  <2>3. CASE q > p
    <3>1. q - 1 \in Nat /\ q - 1 < n /\ q - 1 >= p /\ q - 1 + 1 = q
      BY <1>5, <1>9, <2>3
    <3>2. PICK s \in S : Place(d, s) = q - 1
      BY <1>7, <3>1
    <3> QED
      BY <1>4, <1>5, <3>1, <3>2 DEF S
  <2> QED
    BY <1>5, <2>1, <2>2, <2>3
<1>10. ASSUME NEW s \in StepsOf(f, u), NEW x \in StepsOf(f, u), Place(f, s) = Place(f, x)
       PROVE  s = x
  BY <1>4, <1>5, <1>7, <1>10 DEF S
<1>11. Dense(f, u, n + 1)
  BY <1>8, <1>9, <1>10 DEF Dense
<1> QED
  BY <1>11 DEF u

(* ... or a step less; ... *)
LEMMA ClosesDense ==
  ASSUME NEW d, IsDoc(d), NEW r \in Steps(d), ~Gone(d, r), NEW f, SameRows(f, d), Closes(f, d, r),
         NEW n \in Nat, Dense(d, TabOf(d, r), n)
  PROVE  Dense(f, TabOf(d, r), n - 1) /\ n - 1 \in Nat /\ Place(d, r) < n
<1> DEFINE u == TabOf(d, r)
           p == Place(d, r)
<1>1. /\ Steps(f) = Steps(d) /\ \A s \in Steps(d) : TabOf(f, s) = TabOf(d, s)
      /\ \A s \in Steps(d) : Place(d, s) \in Nat
      /\ \A s \in Steps(d) :
           Place(f, s) = IF s \in Behind(d, r, 1) THEN Place(d, s) - 1 ELSE Place(d, s)
      /\ \A s \in Steps(d) : Gone(f, s) <=> s = r \/ Gone(d, s)
  BY DocFacts DEF SameRows, Closes
<1>2. \A s : s \in Behind(d, r, 1) <=>
        s \in Steps(d) /\ TabOf(d, s) = u /\ ~Gone(d, s) /\ Place(d, s) >= p + 1
  BY BehindFacts
<1>3. \A s : s \in StepsOf(d, u) <=> s \in Steps(d) /\ TabOf(d, s) = u /\ ~Gone(d, s)
  BY TabFacts
<1>4. \A s : s \in StepsOf(f, u) <=> s # r /\ s \in StepsOf(d, u)
  <2>1. \A s : s \in StepsOf(f, u) <=> s \in Steps(f) /\ TabOf(f, s) = u /\ ~Gone(f, s)
    BY TabFacts
  <2> QED
    BY <1>1, <1>3, <2>1
<1>5. /\ p \in Nat /\ r \in StepsOf(d, u)
      /\ \A s \in StepsOf(d, u) :
           /\ Place(d, s) \in Nat
           /\ Place(f, s) = IF Place(d, s) >= p + 1 THEN Place(d, s) - 1 ELSE Place(d, s)
  BY <1>1, <1>2, <1>3
<1> DEFINE S == StepsOf(d, u)
<1>6. /\ \A s \in S : Place(d, s) < n
      /\ \A q \in Nat : q < n => \E s \in S : Place(d, s) = q
      /\ \A s, x \in S : Place(d, s) = Place(d, x) => s = x
      /\ r \in S /\ Place(d, r) = p
  BY <1>5 DEF Dense
<1> HIDE DEF S, u, p
<1>7. p < n /\ n - 1 \in Nat
  <2>1. p < n
    BY <1>6
  <2> QED
    BY <1>5, <2>1
<1>8. \A s \in StepsOf(f, u) : Place(d, s) # p
  BY <1>4, <1>6 DEF S
<1>9. \A s \in StepsOf(f, u) : Place(f, s) < n - 1
  BY <1>4, <1>5, <1>6, <1>7, <1>8 DEF S
<1>10. ASSUME NEW q \in Nat, q < n - 1
       PROVE  \E s \in StepsOf(f, u) : Place(f, s) = q
  <2>1. CASE q < p
    <3>1. PICK s \in S : Place(d, s) = q
      BY <1>5, <1>6, <1>7, <2>1
    <3>2. s # r
      BY <1>5, <1>6, <2>1, <3>1
    <3> QED
      BY <1>4, <1>5, <2>1, <3>1, <3>2 DEF S
  <2>2. CASE q >= p
    <3>1. q + 1 \in Nat /\ q + 1 < n /\ q + 1 >= p + 1 /\ q + 1 - 1 = q /\ q + 1 # p
      BY <1>5, <1>10, <2>2
    <3>2. PICK s \in S : Place(d, s) = q + 1
      BY <1>6, <3>1
    <3>3. s # r
      BY <1>6, <3>1, <3>2
    <3> QED
      BY <1>4, <1>5, <3>1, <3>2, <3>3 DEF S
  <2> QED
    BY <1>5, <2>1, <2>2
<1>11. ASSUME NEW s \in StepsOf(f, u), NEW x \in StepsOf(f, u), Place(f, s) = Place(f, x)
       PROVE  s = x
  BY <1>4, <1>5, <1>6, <1>8, <1>11 DEF S
<1>12. Dense(f, u, n - 1)
  BY <1>9, <1>10, <1>11 DEF Dense
<1> QED
  BY <1>7, <1>12 DEF u, p

(* ... and none in other tabs. *)
LEMMA ElsewhereDense ==
  ASSUME NEW d, NEW r, NEW f, SameRows(f, d), Opens(f, d, r) \/ Closes(f, d, r),
         r \in Steps(d), NEW u, u # TabOf(d, r)
  PROVE  StepsOf(f, u) = StepsOf(d, u) /\ \A n : Dense(d, u, n) => Dense(f, u, n)
<1>1. \A s \in Steps(d) : TabOf(d, s) = u =>
        /\ Gone(f, s) <=> Gone(d, s)
        /\ s \notin Behind(d, r, 0) /\ s \notin Behind(d, r, 1)
  BY BehindFacts DEF Opens, Closes
<1>2. \A s : s \in StepsOf(f, u) <=> s \in StepsOf(d, u)
  BY <1>1, TabFacts DEF SameRows
<1>3. StepsOf(f, u) = StepsOf(d, u)
  BY <1>2
<1>4. \A s \in StepsOf(d, u) : Place(f, s) = Place(d, s)
  BY <1>1, TabFacts DEF Opens, Closes
<1> QED
  BY <1>3, <1>4, SameDense

(* The places that list gives its steps are 0, 1, 2 ... *)
LEMMA RankDense ==
  ASSUME NEW d, NEW t, NEW X, NEW list \in Seq(X), Range(list) = StepsOf(d, t),
         \A i, j \in DOMAIN list : list[i] = list[j] => i = j,
         \A s \in StepsOf(d, t) : Place(d, s) = Rank(list, s)
  PROVE  Dense(d, t, Len(list)) /\ Len(list) \in Nat
<1> DEFINE n == Len(list)
           S == StepsOf(d, t)
<1>1. n \in Nat /\ DOMAIN list = 1 .. n /\ S = Range(list)
  BY LenProperties
<1>2. \A s \in S : Rank(list, s) \in 0 .. n - 1 /\ list[Rank(list, s) + 1] = s
  BY <1>1, RankFacts
<1>3. \A i \in 1 .. n : list[i] \in S
  BY <1>1 DEF Range
<1>4. \A i, j \in 1 .. n : list[i] = list[j] => i = j
  BY <1>1
<1>5. \A s \in S : Place(d, s) = Rank(list, s)
  OBVIOUS
<1> HIDE DEF n, S
<1>6. \A s \in S : Place(d, s) < n
  BY <1>1, <1>2, <1>5
<1>7. ASSUME NEW q \in Nat, q < n
      PROVE  \E s \in S : Place(d, s) = q
  <2>1. q + 1 \in 1 .. n /\ list[q + 1] \in S
    BY <1>1, <1>3, <1>7
  <2>2. Rank(list, list[q + 1]) + 1 = q + 1 /\ Rank(list, list[q + 1]) \in 0 .. n - 1
    <3>1. Rank(list, list[q + 1]) \in 0 .. n - 1 /\ list[Rank(list, list[q + 1]) + 1] = list[q + 1]
      BY <1>2, <2>1
    <3>2. Rank(list, list[q + 1]) + 1 \in 1 .. n
      BY <1>1, <3>1
    <3> QED
      BY <1>4, <2>1, <3>1, <3>2
  <2> QED
    BY <1>1, <1>5, <2>1, <2>2
<1>8. ASSUME NEW r \in S, NEW s \in S, Place(d, r) = Place(d, s)
      PROVE  r = s
  BY <1>2, <1>5, <1>8
<1> QED
  BY <1>1, <1>6, <1>7, <1>8 DEF n, S, Dense

(* Other commands leave the steps in their tabs. *)
LEMMA OthersStay ==
  ASSUME NEW d, NEW e, e.command \notin {"AddStep", "DeleteStep"}, NEW way,
         NEW f, Goes(f, d, e, way), NEW t
  PROVE  StepsOf(f, t) = StepsOf(d, t)
<1>1. e.command # Opening(way) /\ e.command # Closing(way)
  BY DEF Opening, Closing
<1>2. SameRows(f, d) /\ \A s \in Steps(d) : Gone(f, s) <=> GoneAfter(d, e, way, s)
  BY DEF Goes, Works
<1>3. SameGone(f, d)
  BY <1>1, <1>2 DEF SameGone, GoneAfter
<1> QED
  BY <1>2, <1>3, SameSteps

(* A command goes from a document in order to one in order. *)
LEMMA OrderGoes ==
  ASSUME NEW d, IsDoc(d), InOrder(d), NEW e, Made(e, d), NEW f, Goes(f, d, e, "forth")
  PROVE  InOrder(f)
<1>1. SameRows(f, d) /\ Tabs(f) = Tabs(d) /\ "forth" \in Ways
  BY DEF Goes, Works, SameRows, Ways
<1>2. Opening("forth") = "AddStep" /\ Closing("forth") = "DeleteStep" /\ Data(e, "forth") = e.forth
  BY DEF Opening, Closing, Data
<1>3. IsOrder(Order(f), Tabs(f))
  BY <1>1, TabsComeBack
<1>4. ASSUME NEW t \in Tabs(d)
      PROVE  \E n \in Nat : Dense(f, t, n)
  <2>1. PICK n \in Nat : Dense(d, t, n)
    BY DEF InOrder
  <2>2. CASE e.command = "AddStep"
    <3>1. e.step \in Steps(d) /\ Gone(d, e.step)
      BY <2>2 DEF Made, Fits, StepCommands
    <3>2. Opens(f, d, e.step)
      BY <1>1, <1>2, <2>2, GoesOpens
    <3>3. CASE t = TabOf(d, e.step)
      <4>1. PICK m \in Nat : Dense(d, TabOf(d, e.step), m) /\ Place(d, e.step) <= m
        BY <2>2 DEF Made
      <4>2. Dense(f, TabOf(d, e.step), m + 1)
        BY <1>1, <3>1, <3>2, <4>1, OpensDense
      <4> QED
        BY <3>3, <4>2
    <3>4. CASE t # TabOf(d, e.step)
      BY <1>1, <2>1, <3>1, <3>2, <3>4, ElsewhereDense
    <3> QED
      BY <3>3, <3>4
  <2>3. CASE e.command = "DeleteStep"
    <3>1. e.step \in Steps(d) /\ ~Gone(d, e.step)
      BY <2>3 DEF Made, Fits, StepCommands
    <3>2. Closes(f, d, e.step)
      BY <1>1, <1>2, <2>3, GoesOpens
    <3>3. CASE t = TabOf(d, e.step)
      <4>1. Dense(f, TabOf(d, e.step), n - 1) /\ n - 1 \in Nat
        BY <1>1, <2>1, <3>1, <3>2, <3>3, ClosesDense
      <4> QED
        BY <3>3, <4>1
    <3>4. CASE t # TabOf(d, e.step)
      BY <1>1, <2>1, <3>1, <3>2, <3>4, ElsewhereDense
    <3> QED
      BY <3>3, <3>4
  <2>4. CASE e.command \notin {"AddStep", "DeleteStep"}
    <3>1. StepsOf(f, t) = StepsOf(d, t) /\ StepsOf(d, t) \subseteq Steps(d)
      BY <2>4, OthersStay, TabFacts
    <3>2. \A s \in Steps(d) : Place(f, s) = PlaceAfter(d, e, "forth", s)
      BY DEF Goes, Works
    <3>3. CASE e.command = "ReorderSteps"
      <4>1. /\ e.forth \in Seq(Steps(d)) /\ Range(e.forth) = StepsOf(d, e.tab)
            /\ \A i, j \in DOMAIN e.forth : e.forth[i] = e.forth[j] => i = j
        BY <3>3 DEF Made, Fits
      <4>2. \A s \in Steps(d) : Place(f, s) = IF s \in Range(e.forth) THEN Rank(e.forth, s)
                                              ELSE Place(d, s)
        BY <1>2, <2>4, <3>2, <3>3 DEF PlaceAfter
      <4>3. CASE t = e.tab
        <5>1. Range(e.forth) = StepsOf(f, t)
          BY <3>1, <4>1, <4>3
        <5>2. \A s \in StepsOf(f, t) : Place(f, s) = Rank(e.forth, s)
          BY <3>1, <4>2, <5>1
        <5> QED
          BY <4>1, <5>1, <5>2, RankDense
      <4>4. CASE t # e.tab
        <5>1. \A s \in StepsOf(d, t) : s \notin Range(e.forth)
          BY <4>1, <4>4, TabFacts
        <5>2. \A s \in StepsOf(d, t) : Place(f, s) = Place(d, s)
          BY <3>1, <4>2, <5>1
        <5> QED
          BY <2>1, <3>1, <5>2, SameDense
      <4> QED
        BY <4>3, <4>4
    <3>4. CASE e.command # "ReorderSteps"
      <4>1. \A s \in StepsOf(d, t) : Place(f, s) = Place(d, s)
        BY <1>2, <2>4, <3>1, <3>2, <3>4 DEF PlaceAfter
      <4> QED
        BY <2>1, <3>1, <4>1, SameDense
    <3> QED
      BY <3>3, <3>4
  <2> QED
    BY <2>2, <2>3, <2>4
<1> QED
  BY <1>1, <1>3, <1>4 DEF InOrder

(* What is selected is there. *)
ChosenAreThere(d) ==
  \A t \in Tabs(d) : \A q \in Chosen(d, t) : q \in Nat /\ q < Cardinality(StepsOf(d, t))

(* It stays so, if DeleteStep deletes no step twice. *)
LEMMA ChosenGoes ==
  ASSUME NEW d, IsDoc(d), InOrder(d), ChosenAreThere(d), NEW e, Fits(e, d), NEW way \in Ways,
         NEW f, Goes(f, d, e, way), InOrder(f),
         e.command = "DeleteStep" /\ way = "forth" => ~Gone(d, e.step)
  PROVE  ChosenAreThere(f)
<1>1. SameRows(f, d) /\ Tabs(f) = Tabs(d) /\ Selects(f, d, e, way)
  BY DEF Goes, Works, SameRows
<1>2. IsDoc(f)
  BY <1>1 DEF SameRows
<1>3. ASSUME NEW t \in Tabs(d), StepsOf(f, t) = StepsOf(d, t), Chosen(f, t) = Chosen(d, t)
      PROVE  \A q \in Chosen(f, t) : q \in Nat /\ q < Cardinality(StepsOf(f, t))
  BY <1>3 DEF ChosenAreThere
<1>4. CASE e.command \notin {"AddStep", "DeleteStep"}
  <2>1. \A t \in Tabs(d) : StepsOf(f, t) = StepsOf(d, t) /\ Chosen(f, t) = Chosen(d, t)
    BY <1>1, <1>4, OthersStay DEF Selects
  <2> QED
    BY <1>1, <1>3, <2>1 DEF ChosenAreThere
<1>5. CASE e.command \in {"AddStep", "DeleteStep"}
  <2> DEFINE u == TabOf(d, e.step)
             p == Place(d, e.step)
  <2>1. e.step \in Steps(d) /\ u \in Tabs(d) /\ p \in Nat
    BY <1>5, DocFacts DEF Fits, StepCommands
  <2>2. Opens(f, d, e.step) \/ Closes(f, d, e.step)
    <3>1. e.command = Opening(way) \/ e.command = Closing(way)
      BY <1>5 DEF Opening, Closing, Ways
    <3> QED
      BY <3>1, GoesOpens
  <2>3. ASSUME NEW t \in Tabs(d), t # u
        PROVE  \A q \in Chosen(f, t) : q \in Nat /\ q < Cardinality(StepsOf(f, t))
    <3>1. StepsOf(f, t) = StepsOf(d, t)
      BY <1>1, <2>1, <2>2, <2>3, ElsewhereDense
    <3>2. Chosen(f, t) = Chosen(d, t)
      BY <1>1, <2>3 DEF Selects
    <3> QED
      BY <1>3, <3>1, <3>2
  <2>4. PICK n \in Nat : Dense(d, u, n)
    BY <2>1 DEF InOrder
  <2>5. Cardinality(StepsOf(d, u)) = n /\ IsFiniteSet(StepsOf(d, u))
    BY <2>4, DenseFacts
  <2>6. PICK m \in Nat : Dense(f, u, m)
    BY <1>1, <2>1 DEF InOrder
  <2>7. Cardinality(StepsOf(f, u)) = m /\ IsFiniteSet(StepsOf(f, u))
    BY <1>2, <2>6, DenseFacts
  <2>8. \A q \in Chosen(d, u) : q \in Nat /\ q < n
    BY <2>1, <2>5 DEF ChosenAreThere
  <2>9. ASSUME NEW q \in Chosen(f, u)
        PROVE  q \in Nat /\ q < m
    <3>1. CASE e.command = "AddStep" /\ way = "forth"
      <4>1. q = p
        BY <1>1, <3>1 DEF Selects
      <4>2. Opens(f, d, e.step)
        BY <3>1, GoesOpens DEF Opening
      <4>3. /\ e.step \in Steps(f) /\ TabOf(f, e.step) = u /\ ~Gone(f, e.step)
            /\ Place(f, e.step) \in {p, p + 1}
        BY <1>1, <2>1, <4>2 DEF Opens, SameRows
      <4>4. Place(f, e.step) < m
        BY <2>6, <4>3, TabFacts DEF Dense
      <4> QED
        BY <2>1, <4>1, <4>3, <4>4
    <3>2. CASE e.command = "AddStep" /\ way = "back"
      <4>1. (q \in Chosen(d, u) /\ q < m) \/ (m # 0 /\ q = m - 1)
        BY <1>1, <2>7, <3>2 DEF Selects
      <4> QED
        BY <2>8, <4>1
    <3>3. CASE e.command = "DeleteStep" /\ way = "forth"
      <4>1. PICK o \in Chosen(d, u) : q \in Nat /\ q = IF o >= p THEN o - 1 ELSE o
        BY <1>1, <3>3 DEF Selects
      <4>2. Closes(f, d, e.step) /\ ~Gone(d, e.step)
        BY <3>3, GoesOpens DEF Closing
      <4>3. Dense(f, u, n - 1) /\ n - 1 \in Nat /\ p < n
        BY <1>1, <2>1, <2>4, <4>2, ClosesDense
      <4>4. m = n - 1
        BY <1>2, <2>7, <4>3, DenseFacts
      <4>5. o \in Nat /\ o < n
        BY <2>8
      <4> HIDE DEF p
      <4> QED
        BY <2>1, <4>1, <4>3, <4>4, <4>5
    <3>4. CASE e.command = "DeleteStep" /\ way = "back"
      <4>1. Chosen(f, u) = Chosen(d, u)
        BY <1>1, <2>1, <3>4 DEF Selects
      <4>2. Opens(f, d, e.step)
        BY <3>4, GoesOpens DEF Opening
      <4>3. StepsOf(d, u) \subseteq StepsOf(f, u)
        <5>1. \A s \in Steps(d) : TabOf(f, s) = TabOf(d, s) /\ s \in Steps(f)
                                  /\ (Gone(f, s) => Gone(d, s))
          BY <1>1, <4>2 DEF Opens, SameRows
        <5> QED
          BY <5>1, TabFacts
      <4>4. n <= m
        BY <2>5, <2>7, <4>3, FS_Subset
      <4> QED
        BY <2>8, <4>1, <4>4
    <3> QED
      BY <1>5, <3>1, <3>2, <3>3, <3>4 DEF Ways
  <2> QED
    BY <1>1, <2>3, <2>7, <2>9 DEF ChosenAreThere
<1> QED
  BY <1>4, <1>5

-----------------------------------------------------------------------------
(* Stories: the documents that deltas lead through.                        *)

(* The tabs that are live after e. *)
LiveAfter(e, T) ==
  IF e.command = "DuplicateTab" THEN T \cup {e.tab}
  ELSE IF e.command = "DeleteTab" THEN T \ {e.tab} ELSE T

(* Delta e takes c to d, and d back to c. *)
Takes(c, e, d) ==
  /\ Fits(e, c) /\ Same(Forward(c, e), d) /\ Same(Backward(d, e), c)
  /\ LiveTabs(d) = LiveAfter(e, LiveTabs(c))
  /\ e.before = Content(c) /\ e.after = Content(d)

(* D[0], D[1] ... is what the deltas es tell, in terms of the rows of d.   *)
Tells(D, es, d) ==
  /\ \A j \in 0 .. Len(es) : IsDoc(D[j]) /\ InOrder(D[j]) /\ Frame(D[j], d)
  /\ \A i \in 1 .. Len(es) : Takes(D[i - 1], es[i], D[i])

(* ... and d is the k-th of them. *)
IsStory(D, es, k, d) == Tells(D, es, d) /\ Same(d, D[k])

(* C is D, with the rows that x has more, up to the k-th; and then comes f. *)
Continues(C, D, k, f) == C[k + 1] = f /\ \E x : \A j \in 0 .. k : Grown(C[j], D[j], x)

(* The live tabs are among the tabs. *)
LEMMA LiveTabsFacts ==
  ASSUME NEW d, InOrder(d)
  PROVE  LiveTabs(d) \subseteq Tabs(d) /\ LiveTabs(d) # {}
<1>1. Order(d) \in Seq(Tabs(d)) /\ Order(d) # <<>>
  BY DEF InOrder, IsOrder
<1>2. /\ DOMAIN Order(d) = 1 .. Len(Order(d)) /\ Len(Order(d)) \in Nat /\ Len(Order(d)) # 0
      /\ \A i \in 1 .. Len(Order(d)) : Order(d)[i] \in Tabs(d)
  BY <1>1, LenProperties, ElementOfSeq, EmptySeq
<1>3. 1 \in 1 .. Len(Order(d))
  BY <1>2
<1>4. LiveTabs(d) = {Order(d)[i] : i \in 1 .. Len(Order(d))}
  BY <1>2 DEF LiveTabs, Range, Order
<1> HIDE DEF Order
<1> QED
  BY <1>2, <1>3, <1>4

(* b, with the rows that x has more. *)
Extended(b, x) ==
  [tabs |-> And(x.tabs, b.tabs), order |-> b.order, steps |-> And(x.steps, b.steps)]

(* It is b, grown by x. *)
LEMMA ExtendedFacts ==
  ASSUME NEW b, IsDoc(b), NEW x, IsDoc(x), Extends(x, b), NEW a, a = Extended(b, x)
  PROVE  IsDoc(a) /\ Grown(a, b, x)
<1>1. /\ DOMAIN a = {"tabs", "order", "steps"} /\ a.order = b.order
      /\ a.tabs = And(x.tabs, b.tabs) /\ a.steps = And(x.steps, b.steps)
  BY DEF Extended
<1>2. /\ DOMAIN b.steps \subseteq DOMAIN x.steps /\ DOMAIN b.tabs \subseteq DOMAIN x.tabs
      /\ \A s \in DOMAIN b.steps : x.steps[s].tab = b.steps[s].tab
  BY DEF Extends, Steps, Tabs, TabOf
<1>3. /\ DOMAIN a.tabs = DOMAIN x.tabs /\ DOMAIN a.steps = DOMAIN x.steps
      /\ \A t \in DOMAIN x.tabs : a.tabs[t] = IF t \in DOMAIN b.tabs THEN b.tabs[t] ELSE x.tabs[t]
      /\ \A s \in DOMAIN x.steps :
           a.steps[s] = IF s \in DOMAIN b.steps THEN b.steps[s] ELSE x.steps[s]
  BY <1>1, <1>2 DEF And
<1>4. \A t \in DOMAIN a.tabs : DOMAIN a.tabs[t] = {"name", "selected"}
  BY <1>3 DEF IsDoc
<1>5. ASSUME NEW s \in DOMAIN x.steps
      PROVE  /\ DOMAIN a.steps[s] = Columns
             /\ a.steps[s].tab \in DOMAIN a.tabs /\ a.steps[s].order \in Nat
             /\ a.steps[s].is_deleted \in BOOLEAN /\ a.steps[s].delta \in Nat
             /\ a.steps[s].tab = x.steps[s].tab
  <2>1. CASE s \in DOMAIN b.steps
    <3>1. a.steps[s] = b.steps[s]
      BY <1>3, <2>1
    <3>2. /\ DOMAIN b.steps[s] = Columns
          /\ b.steps[s].tab \in DOMAIN b.tabs /\ b.steps[s].order \in Nat
          /\ b.steps[s].is_deleted \in BOOLEAN /\ b.steps[s].delta \in Nat
      BY <2>1 DEF IsDoc
    <3> QED
      BY <1>2, <1>3, <2>1, <3>1, <3>2
  <2>2. CASE s \notin DOMAIN b.steps
    <3>1. a.steps[s] = x.steps[s]
      BY <1>3, <2>2
    <3>2. /\ DOMAIN x.steps[s] = Columns
          /\ x.steps[s].tab \in DOMAIN x.tabs /\ x.steps[s].order \in Nat
          /\ x.steps[s].is_deleted \in BOOLEAN /\ x.steps[s].delta \in Nat
      BY DEF IsDoc
    <3> QED
      BY <1>3, <3>1, <3>2
  <2> QED
    BY <2>1, <2>2
<1>6. IsDoc(a)
  BY <1>1, <1>3, <1>4, <1>5 DEF IsDoc
<1>7. Tabs(a) = Tabs(x) /\ Steps(a) = Steps(x) /\ \A s \in Steps(x) : TabOf(a, s) = TabOf(x, s)
  BY <1>3, <1>5 DEF Tabs, Steps, TabOf
<1>8. Agree(a, b, Steps(b), Tabs(b))
  <2>1. ASSUME NEW s \in Steps(b)
        PROVE  a.steps[s] = b.steps[s]
    BY <1>2, <1>3 DEF Steps
  <2>2. ASSUME NEW t \in Tabs(b)
        PROVE  a.tabs[t] = b.tabs[t]
    BY <1>2, <1>3 DEF Tabs
  <2> QED
    BY <2>1, <2>2 DEF Agree, Place, Gone, DeltaOf, ParamsOf, VersionOf, NameOf
<1>9. Agree(a, x, Steps(x) \ Steps(b), Tabs(x) \ Tabs(b))
  <2>1. ASSUME NEW s \in Steps(x) \ Steps(b)
        PROVE  a.steps[s] = x.steps[s]
    BY <1>3 DEF Steps
  <2>2. ASSUME NEW t \in Tabs(x) \ Tabs(b)
        PROVE  a.tabs[t] = x.tabs[t]
    BY <1>3 DEF Tabs
  <2> QED
    BY <2>1, <2>2 DEF Agree, Place, Gone, DeltaOf, ParamsOf, VersionOf, NameOf
<1>10. Order(a) = Order(b)
  BY <1>1 DEF Order
<1> QED
  BY <1>6, <1>7, <1>8, <1>9, <1>10 DEF Grown, Frame

(* A delta takes what has grown to what has grown. *)
LEMMA TakesGrown ==
  ASSUME NEW c, NEW d, NEW e, Takes(c, e, d), IsDoc(c), InOrder(c), IsDoc(d), InOrder(d), NEW x,
         NEW a, Grown(a, c, x), NEW h, Grown(h, d, x)
  PROVE  Takes(a, e, h)
<1>1. Fits(e, c) /\ Same(Forward(c, e), d) /\ Same(Backward(d, e), c)
  BY DEF Takes
<1>2. "forth" \in Ways /\ "back" \in Ways
  BY DEF Ways
<1>3. /\ IsDoc(a) /\ Steps(c) \subseteq Steps(a) /\ Tabs(c) \subseteq Tabs(a)
      /\ IsDoc(h) /\ Steps(d) \subseteq Steps(h) /\ Tabs(d) \subseteq Tabs(h)
  BY DEF Grown, Frame, Extends
<1>4. Goes(Forward(c, e), c, e, "forth")
  BY <1>1, ForwardGoes
<1>5. IsDoc(Forward(c, e)) /\ Steps(Forward(c, e)) = Steps(c) /\ Tabs(Forward(c, e)) = Tabs(c)
  BY <1>4 DEF Goes, Works, SameRows
<1>6. Steps(c) = Steps(d) /\ Tabs(c) = Tabs(d)
  BY <1>1, <1>5 DEF Same, Frame
<1>7. Fits(e, d) /\ Fits(e, a) /\ Fits(e, h)
  BY <1>1, <1>3, <1>6, FitsExtends
<1>8. Goes(Forward(a, e), a, e, "forth")
  BY <1>3, <1>7, ForwardGoes
<1>9. Goes(Backward(d, e), d, e, "back") /\ Goes(Backward(h, e), h, e, "back")
  BY <1>3, <1>7, BackwardGoes
<1>10. IsDoc(Backward(d, e))
  BY <1>9 DEF Goes, Works, SameRows
<1>11. Same(Forward(a, e), h)
  <2>1. Grown(Forward(a, e), Forward(c, e), x)
    BY <1>1, <1>2, <1>4, <1>8, GrownGoes
  <2>2. Grown(Forward(a, e), d, x)
    BY <1>1, <1>5, <2>1, GrownFacts
  <2> QED
    BY <2>2, GrownFacts
<1>12. Same(Backward(h, e), a)
  <2>1. Grown(Backward(h, e), Backward(d, e), x)
    BY <1>2, <1>7, <1>9, GrownGoes
  <2>2. Grown(Backward(h, e), c, x)
    BY <1>1, <1>10, <2>1, GrownFacts
  <2> QED
    BY <2>2, GrownFacts
<1>13. Content(a) = Content(c) /\ Content(h) = Content(d)
  BY LiveTabsFacts, ContentGrown
<1>14. LiveTabs(a) = LiveTabs(c) /\ LiveTabs(h) = LiveTabs(d)
  BY DEF Grown, LiveTabs, Order
<1> QED
  BY <1>7, <1>11, <1>12, <1>13, <1>14 DEF Takes

(* What a handler makes of the live tabs. *)
LEMMA LiveTabsGo ==
  ASSUME NEW d, InOrder(d), NEW e, Made(e, d), NEW f, Goes(f, d, e, "forth")
  PROVE  LiveTabs(f) = LiveAfter(e, LiveTabs(d))
<1>1. /\ Adding("forth") = "DuplicateTab" /\ Removing("forth") = "DeleteTab"
      /\ Data(e, "forth") = e.forth
  BY DEF Adding, Removing, Data
<1>2. IsOrder(Order(d), Tabs(d)) /\ Order(f) = OrderAfter(d, e, "forth")
  BY DEF InOrder, Goes, Works
<1>3. LiveTabs(f) = Range(Order(f)) /\ LiveTabs(d) = Range(Order(d))
  BY DEF LiveTabs, Order
<1>4. CASE e.command = "ReorderTabs"
  BY <1>1, <1>2, <1>3, <1>4 DEF OrderAfter, LiveAfter, Made, Fits
<1>5. CASE e.command = "DuplicateTab"
  <2>1. /\ e.tab \in Tabs(d) /\ e.tab \notin Range(Order(d)) /\ e.forth \in 1 .. Len(Order(d)) + 1
    BY <1>5 DEF Made, Fits
  <2>2. Order(f) = InsertAt(Order(d), e.forth, e.tab)
    BY <1>1, <1>2, <1>5 DEF OrderAfter
  <2>3. Range(Order(f)) = Range(Order(d)) \cup {e.tab}
    BY <1>2, <2>1, <2>2, OrderInserted
  <2> QED
    BY <1>3, <1>5, <2>3 DEF LiveAfter
<1>6. CASE e.command = "DeleteTab"
  <2>1. e.back \in 1 .. Len(Order(d)) /\ Order(d)[e.back] = e.tab /\ Len(Order(d)) > 1
    BY <1>6 DEF Made
  <2>2. Order(f) = RemoveAt(Order(d), e.back)
    BY <1>1, <1>2, <1>6, <2>1, PlaceOfFacts DEF OrderAfter
  <2>3. Range(Order(f)) = Range(Order(d)) \ {e.tab}
    BY <1>2, <2>1, <2>2, OrderRemoved
  <2> QED
    BY <1>3, <1>6, <2>3 DEF LiveAfter
<1>7. CASE e.command \notin {"ReorderTabs", "DuplicateTab", "DeleteTab"}
  BY <1>1, <1>2, <1>3, <1>7 DEF OrderAfter, LiveAfter
<1> QED
  BY <1>4, <1>5, <1>6, <1>7

(* The story goes on with a delta that a handler has made on rows d, which *)
(* are those of b and new ones; it takes the place of those undone.        *)
LEMMA StoryGoesOn ==
  ASSUME NEW b, IsDoc(b), NEW D, NEW es, Tells(D, es, b), NEW k \in 0 .. Len(es), Same(b, D[k]),
         Len(es) \in Nat,
         NEW d, IsDoc(d), InOrder(d), Grown(d, b, d), NEW e, Made(e, d),
         e.command = "AddStep" => e.step \notin Steps(b),
         NEW f, f = Forward(d, e), e.before = Content(b), e.after = Content(f),
         NEW new, Len(new) = k + 1, \A i \in 1 .. k : new[i] = es[i], new[k + 1] = e
  PROVE  InOrder(f) /\ \E C : IsStory(C, new, k + 1, f) /\ Continues(C, D, k, f)
<1> DEFINE g == Backward(f, e)
<1>0. g = Backward(f, e) /\ k \in Nat /\ k <= Len(es)
  OBVIOUS
<1> HIDE DEF g
<1>1. /\ Alike(g, d) /\ Frame(f, d) /\ Same(Forward(g, e), f)
      /\ \A s \in Steps(d) : ~(e.command = "AddStep" /\ s = e.step) => DeltaOf(g, s) = DeltaOf(d, s)
  BY <1>0, ThereAndBack
<1>2. IsDoc(f) /\ IsDoc(g) /\ Frame(g, d) /\ Steps(f) = Steps(d) /\ Tabs(f) = Tabs(d)
      /\ Steps(g) = Steps(d) /\ Tabs(g) = Tabs(d) /\ \A s \in Steps(d) : TabOf(g, s) = TabOf(f, s)
  BY <1>1 DEF Alike, Frame
<1>3. InOrder(f) /\ LiveTabs(f) = LiveAfter(e, LiveTabs(d))
  <2>1. Goes(f, d, e, "forth")
    BY ForwardGoes DEF Made
  <2> QED
    BY <2>1, OrderGoes, LiveTabsGo
<1>4. InOrder(g)
  BY <1>1, <1>2, InOrderSame DEF Alike
<1>5. Grown(g, b, g)
  <2>1. Extends(d, b) /\ Agree(d, b, Steps(b), Tabs(b)) /\ Order(d) = Order(b)
    BY DEF Grown
  <2>2. /\ Order(g) = Order(d)
        /\ \A s \in Steps(d) :
             /\ Place(g, s) = Place(d, s) /\ (Gone(g, s) <=> Gone(d, s))
             /\ TabOf(g, s) = TabOf(d, s)
             /\ ParamsOf(g, s) = ParamsOf(d, s) /\ VersionOf(g, s) = VersionOf(d, s)
        /\ \A t \in Tabs(d) : NameOf(g, t) = NameOf(d, t)
    BY <1>1 DEF Alike, Frame
  <2>3. Extends(g, b)
    BY <1>2, <2>1, <2>2 DEF Extends
  <2>4. \A s \in Steps(b) : DeltaOf(g, s) = DeltaOf(b, s)
    BY <1>1, <2>1 DEF Extends, Agree
  <2>5. Agree(g, b, Steps(b), Tabs(b))
    BY <2>1, <2>2, <2>4 DEF Agree, Extends
  <2>6. Frame(g, g) /\ Agree(g, g, Steps(g) \ Steps(b), Tabs(g) \ Tabs(b))
    BY <1>2 DEF Frame, Agree
  <2> QED
    BY <2>1, <2>2, <2>3, <2>5, <2>6 DEF Grown
<1> DEFINE A(j) == Extended(D[j], g)
<1>6. ASSUME NEW j \in 0 .. Len(es)
      PROVE  /\ IsDoc(A(j)) /\ Grown(A(j), D[j], g) /\ InOrder(A(j)) /\ Frame(A(j), f)
             /\ IsDoc(D[j]) /\ InOrder(D[j])
  <2>1. IsDoc(D[j]) /\ InOrder(D[j]) /\ Frame(D[j], b)
    BY DEF Tells
  <2>2. Extends(g, D[j])
    <3>1. Extends(g, b)
      BY <1>5 DEF Grown
    <3> QED
      BY <2>1, <3>1 DEF Extends, Frame
  <2>3. IsDoc(A(j)) /\ Grown(A(j), D[j], g)
    BY <1>2, <2>1, <2>2, ExtendedFacts
  <2> HIDE DEF A
  <2>4. InOrder(A(j))
    BY <1>4, <2>1, <2>3, InOrderGrown
  <2>5. Frame(A(j), f)
    BY <1>2, <2>3 DEF Grown, Frame
  <2> QED
    BY <2>1, <2>3, <2>4, <2>5
<1> HIDE DEF A
<1>7. ASSUME NEW i \in 1 .. k
      PROVE  Takes(A(i - 1), new[i], A(i))
  <2>1. i \in 1 .. Len(es) /\ i - 1 \in 0 .. Len(es) /\ i \in 0 .. Len(es)
    BY <1>0
  <2>2. Takes(D[i - 1], new[i], D[i])
    BY <2>1 DEF Tells
  <2>3. /\ IsDoc(D[i - 1]) /\ InOrder(D[i - 1]) /\ IsDoc(D[i]) /\ InOrder(D[i])
        /\ Grown(A(i - 1), D[i - 1], g) /\ Grown(A(i), D[i], g)
    BY <1>6, <2>1
  <2> QED
    BY ONLY <2>2, <2>3, TakesGrown
<1>8. IsDoc(D[k]) /\ InOrder(D[k]) /\ Grown(A(k), D[k], g) /\ InOrder(A(k)) /\ IsDoc(A(k))
  BY <1>6
<1>9. Takes(A(k), e, f)
  <2>1. Same(g, A(k)) /\ Same(A(k), g)
    <3>1. Grown(g, D[k], g)
      BY <1>5, GrownFacts
    <3>2. Same(g, A(k))
      BY <1>8, <3>1, GrownFacts
    <3> QED
      BY <1>8, <3>2, SameFacts
  <2>2. Fits(e, g)
    BY <1>2, FitsExtends DEF Made
  <2>3. Fits(e, A(k)) /\ Same(Forward(A(k), e), Forward(g, e))
    BY <1>2, <2>1, <2>2, SameGoes
  <2>4. Same(Forward(A(k), e), f)
    BY <1>1, <2>3, SameFacts
  <2>5. Content(A(k)) = Content(b)
    <3>1. Content(A(k)) = Content(D[k])
      BY <1>8, LiveTabsFacts, ContentGrown
    <3>2. Content(b) = Content(D[k])
      BY <1>8, LiveTabsFacts, ContentSame
    <3> QED
      BY <3>1, <3>2
  <2>6. LiveTabs(f) = LiveAfter(e, LiveTabs(A(k)))
    <3>1. Order(A(k)) = Order(b) /\ Order(d) = Order(b)
      BY <1>8 DEF Grown, Same
    <3>2. LiveTabs(A(k)) = LiveTabs(d)
      BY <3>1 DEF LiveTabs, Order
    <3> QED
      BY <1>3, <3>2
  <2> QED
    BY <1>0, <2>1, <2>3, <2>4, <2>5, <2>6 DEF Takes
<1> DEFINE C == [j \in 0 .. k + 1 |-> IF j <= k THEN A(j) ELSE f]
<1>10. /\ \A j \in 0 .. k : C[j] = A(j)
       /\ C[k + 1] = f
  <2>1. k + 1 \in 0 .. k + 1 /\ ~(k + 1 <= k) /\ \A j \in 0 .. k : j \in 0 .. k + 1 /\ j <= k
    BY <1>0
  <2> QED
    BY <2>1
<1> HIDE DEF C
<1>11. \A j \in 0 .. k + 1 : IsDoc(C[j]) /\ InOrder(C[j]) /\ Frame(C[j], f)
  <2> TAKE j \in 0 .. k + 1
  <2>1. CASE j \in 0 .. k
    <3>1. j \in 0 .. Len(es)
      BY <1>0, <2>1
    <3> QED
      BY <1>6, <1>10, <2>1, <3>1
  <2>2. CASE j = k + 1
    BY <1>2, <1>3, <1>10, <2>2 DEF Frame
  <2> QED
    BY <1>0, <2>1, <2>2
<1>12. \A i \in 1 .. k + 1 : Takes(C[i - 1], new[i], C[i])
  <2> TAKE i \in 1 .. k + 1
  <2>1. CASE i \in 1 .. k
    <3>1. i - 1 \in 0 .. k /\ i \in 0 .. k
      BY <1>0, <2>1
    <3> QED
      BY <1>7, <1>10, <2>1, <3>1
  <2>2. CASE i = k + 1
    <3>1. i - 1 = k /\ k \in 0 .. k
      BY <1>0, <2>2
    <3> QED
      BY <1>9, <1>10, <2>2, <3>1
  <2> QED
    BY <1>0, <2>1, <2>2
<1>13. Tells(C, new, f)
  BY <1>11, <1>12 DEF Tells
<1>14. Same(f, C[k + 1])
  BY <1>2, <1>10 DEF Same, Frame, Agree
<1>15. \A j \in 0 .. k : Grown(C[j], D[j], g)
  <2> TAKE j \in 0 .. k
  <2>1. j \in 0 .. Len(es)
    BY <1>0
  <2> QED
    BY <1>6, <1>10, <2>1
<1> QED
  BY <1>3, <1>10, <1>13, <1>14, <1>15 DEF IsStory, Continues

-----------------------------------------------------------------------------
(* What the handlers find.                                                 *)

(* Live steps, those that a command affects among them, are there. *)
LEMMA LiveStepsFacts ==
  ASSUME NEW d
  PROVE  /\ \A s : s \in LiveSteps(d) <=> s \in Steps(d) /\ TabOf(d, s) \in LiveTabs(d) /\ ~Gone(d, s)
         /\ \A T : Dependents(d, T) \subseteq LiveSteps(d)
         /\ \A t : StepsOf(d, t) \subseteq Steps(d) /\ \A s \in StepsOf(d, t) : ~Gone(d, s)
<1>1. \A s : s \in LiveSteps(d) <=> \E t \in LiveTabs(d) : s \in StepsOf(d, t)
  BY DEF LiveSteps
<1>2. \A X : DependOn(d, X) \subseteq LiveSteps(d)
  BY DEF DependOn
<1>3. \A T : Dependents(d, T) \subseteq LiveSteps(d)
  BY <1>2 DEF Dependents
<1> QED
  BY <1>1, <1>3, TabFacts

(* So are those from a place of a tab on. *)
LEMMA AffectedFacts ==
  ASSUME NEW d, NEW t, NEW p
  PROVE  \A s \in AffectedFrom(d, t, p) : s \in Steps(d) /\ ~Gone(d, s)
<1>1. \A s \in AffectedFrom(d, t, p) : s \in StepsOf(d, t) \/ s \in LiveSteps(d)
  BY LiveStepsFacts, TabFacts DEF AffectedFrom
<1> QED
  BY <1>1, LiveStepsFacts

(* An order has as many tabs as it is long. *)
LEMMA CountOrder ==
  ASSUME NEW T, NEW list, IsOrder(list, T)
  PROVE  IsFiniteSet(Range(list)) /\ Cardinality(Range(list)) = Len(list) /\ Len(list) \in Nat
<1> DEFINE n == Len(list)
           R == Range(list)
<1>1. /\ n \in Nat /\ DOMAIN list = 1 .. n /\ R = {list[i] : i \in 1 .. n}
      /\ \A i, j \in 1 .. n : list[i] = list[j] => i = j
      /\ list = [i \in 1 .. n |-> list[i]]
  <2>1. list \in Seq(T) /\ \A i, j \in DOMAIN list : list[i] = list[j] => i = j
    BY DEF IsOrder
  <2>2. n \in Nat /\ DOMAIN list = 1 .. n /\ list \in [1 .. n -> T]
    BY <2>1, LenProperties
  <2> HIDE DEF n
  <2> QED
    BY <2>1, <2>2 DEF Range
<1> HIDE DEF n, R
<1>2. list \in Bijection(1 .. n, R)
  <2>1. list \in [1 .. n -> R]
    BY <1>1
  <2> QED
    BY <1>1, <2>1 DEF Bijection, Injection, Surjection, IsInjective
<1>3. ExistsBijection(1 .. n, R)
  BY <1>2 DEF ExistsBijection
<1>4. Cardinality(R) = n
  BY <1>1, <1>3, FS_CountingElements
<1>5. IsFiniteSet(R)
  BY <1>1, <1>3, FS_Interval, FS_Bijection
<1> QED
  BY <1>1, <1>4, <1>5 DEF n, R

(* The sequences of all of S, none twice. *)
LEMMA AllOfThem ==
  ASSUME NEW S, IsFiniteSet(S), NEW new \in SetToSeqs(S)
  PROVE  /\ new \in Seq(S) /\ Range(new) = S
         /\ \A i, j \in DOMAIN new : new[i] = new[j] => i = j
<1> DEFINE n == Cardinality(S)
<1>1. new \in [1 .. n -> S] /\ \A i, j \in 1 .. n : i # j => new[i] # new[j]
  BY DEF SetToSeqs
<1>2. n \in Nat
  BY FS_CardinalityType
<1> HIDE DEF n
<1>3. new \in Injection(1 .. n, S)
  BY <1>1 DEF Injection, IsInjective
<1>4. IsFiniteSet(1 .. n) /\ Cardinality(1 .. n) = n
  <2>1. IsFiniteSet(1 .. n) /\ Cardinality(1 .. n) = IF 1 > n THEN 0 ELSE n - 1 + 1
    BY <1>2, FS_Interval
  <2> QED
    BY <1>2, <2>1
<1>5. new \in Surjection(1 .. n, S)
  BY <1>3, <1>4, FS_Injection DEF n
<1>6. \A s \in S : \E i \in 1 .. n : new[i] = s
  BY <1>5 DEF Surjection
<1>7. DOMAIN new = 1 .. n /\ \A i \in 1 .. n : new[i] \in S
  BY <1>1
<1>8. Range(new) = S
  BY <1>6, <1>7 DEF Range
<1>9. new \in Seq(S)
  BY <1>1, <1>2, SeqDef
<1> QED
  BY <1>1, <1>7, <1>8, <1>9

(* The steps of a tab are listed as they are placed. *)
IsListing(list, d, t) ==
  /\ list \in Seq(StepsOf(d, t)) /\ Range(list) = StepsOf(d, t)
  /\ \A i, j \in DOMAIN list : list[i] = list[j] => i = j
  /\ \A s \in StepsOf(d, t) : Rank(list, s) = Place(d, s)
  /\ \A i \in 1 .. Len(list) : list[i] \in StepsOf(d, t) /\ Place(d, list[i]) = i - 1

(* Listed() lists them so. *)
LEMMA ListedFacts ==
  ASSUME NEW d, IsDoc(d), Steps(d) \subseteq Nat, NEW t, NEW n \in Nat, Dense(d, t, n)
  PROVE  IsListing(Listed(d, t), d, t) /\ Len(Listed(d, t)) = n
<1> DEFINE S == StepsOf(d, t)
           Earlier(r, s) ==
             \/ d.steps[r].order < d.steps[s].order
             \/ d.steps[r].order = d.steps[s].order /\ r <= s
           Upto(s) == {r \in S : Earlier(r, s)}
           At(i) == CHOOSE s \in S : Cardinality(Upto(s)) = i
           P(s) == Place(d, s)
           list == [i \in 1 .. n |-> At(i)]
<1>1. Cardinality(S) = n
  BY DenseFacts
<1>2. Listed(d, t) = list
  BY <1>1 DEF Listed
<1>3. /\ \A s \in S : P(s) \in Nat /\ P(s) < n /\ s \in Nat
      /\ \A q \in Nat : q < n => \E s \in S : P(s) = q
      /\ \A r, s \in S : P(r) = P(s) => r = s
  BY LiveStepsFacts, DocFacts DEF Dense
<1>4. \A r, s : Earlier(r, s) <=> P(r) < P(s) \/ (P(r) = P(s) /\ r <= s)
  BY DEF Place
<1> HIDE DEF S, Earlier, P
<1>5. \A r, s \in S : Earlier(r, s) <=> P(r) <= P(s)
  BY <1>3, <1>4
<1>6. ASSUME NEW s \in S
      PROVE  Cardinality(Upto(s)) = P(s) + 1
  <2> DEFINE U == Upto(s)
             m == P(s)
             f == [r \in U |-> P(r)]
  <2>1. m \in Nat /\ m < n
    BY <1>3
  <2>2. \A r : r \in U <=> r \in S /\ P(r) <= m
    BY <1>5
  <2> HIDE DEF U, m
  <2>3. f \in Bijection(U, 0 .. m)
    <3>1. f \in [U -> 0 .. m]
      BY <1>3, <2>1, <2>2
    <3>2. \A q \in 0 .. m : \E r \in U : f[r] = q
      <4> TAKE q \in 0 .. m
      <4>1. q \in Nat /\ q < n
        BY <2>1
      <4>2. PICK r \in S : P(r) = q
        BY <1>3, <4>1
      <4> QED
        BY <2>1, <2>2, <4>2
    <3>3. \A r, x \in U : f[r] = f[x] => r = x
      BY <1>3, <2>2
    <3> QED
      BY <3>1, <3>2, <3>3 DEF Bijection, Injection, Surjection, IsInjective
  <2>4. ExistsBijection(U, 0 .. m)
    BY <2>3 DEF ExistsBijection
  <2>5. IsFiniteSet(0 .. m) /\ Cardinality(0 .. m) = m + 1
    BY <2>1, FS_Interval
  <2>6. Cardinality(U) = m + 1
    BY <2>4, <2>5, FS_Bijection, Fun_ExistsBijSymmetric
  <2> QED
    BY <2>6 DEF U, m
<1> HIDE DEF Upto
<1>7. ASSUME NEW i \in 1 .. n
      PROVE  At(i) \in S /\ P(At(i)) = i - 1
  <2>1. i - 1 \in Nat /\ i - 1 < n
    OBVIOUS
  <2>2. PICK s \in S : P(s) = i - 1
    BY <1>3, <2>1
  <2>3. Cardinality(Upto(s)) = i
    BY <1>6, <2>2
  <2>4. At(i) \in S /\ Cardinality(Upto(At(i))) = i
    BY <2>3
  <2> HIDE DEF At
  <2> QED
    BY <1>3, <1>6, <2>4
<1> HIDE DEF At
<1>8. list \in Seq(S) /\ Len(list) = n /\ DOMAIN list = 1 .. n
  <2>1. list \in [1 .. n -> S]
    BY <1>7
  <2>2. list \in Seq(S)
    BY <2>1, SeqDef
  <2> QED
    BY <2>1, <2>2, LenProperties
<1>9. \A i \in 1 .. n : list[i] \in S /\ P(list[i]) = i - 1
  BY <1>7
<1> HIDE DEF list
<1>10. \A i, j \in 1 .. n : list[i] = list[j] => i = j
  BY <1>9
<1>11. ASSUME NEW s \in S
       PROVE  P(s) + 1 \in 1 .. n /\ list[P(s) + 1] = s
  <2>1. P(s) + 1 \in 1 .. n
    BY <1>3
  <2>2. P(list[P(s) + 1]) = P(s) /\ list[P(s) + 1] \in S
    BY <1>3, <1>9, <2>1
  <2> QED
    BY <1>3, <2>1, <2>2
<1>12. Range(list) = S
  BY <1>8, <1>9, <1>11 DEF Range
<1>13. ASSUME NEW s \in S
       PROVE  Rank(list, s) = P(s)
  <2>1. Rank(list, s) \in 0 .. n - 1 /\ list[Rank(list, s) + 1] = s
    BY <1>8, <1>12, RankFacts
  <2>2. Rank(list, s) + 1 \in 1 .. n
    BY <2>1
  <2>3. Rank(list, s) + 1 = P(s) + 1
    BY <1>10, <1>11, <2>1, <2>2
  <2> QED
    BY <1>3, <2>1, <2>3
<1> QED
  BY <1>2, <1>8, <1>9, <1>10, <1>12, <1>13 DEF IsListing, S, P

-----------------------------------------------------------------------------
(* What outputs are made of.                                               *)

ReadsOf(d, s)  == d.steps[s].params.reads
ReadHere(d, s) == ReadsOf(d, s) \cap LiveTabs(d)

(* The output of the last of steps S, ... *)
LastOut(d, out, S) == IF S = {} THEN <<>> ELSE <<out[LastOf(d, S)]>>

(* ... what a step reads, ... *)
ReadOut(d, out, s) ==
  [t \in ReadHere(d, s) |->
     IF t \in Ready(d) THEN <<NameOf(d, t), LastOut(d, out, StepsOf(d, t))>> ELSE <<>>]

InOrderRead(what, turn) == [i \in DOMAIN turn |-> what[turn[i]]]

(* ... and its output, if those of the others are out. *)
OutputBy(d, out, s) ==
  [value   |-> d.steps[s].params.value,
   version |-> VersionOf(d, s),
   tab     |-> NameOf(d, TabOf(d, s)),
   input   |-> LastOut(d, out, Preceding(d, s)),
   tabs    |-> InOrderRead(ReadOut(d, out, s), InTurn(d, ReadHere(d, s)))]

(* The steps whose output a step's output may be made of. *)
Sources(d, s) == Preceding(d, s) \cup UNION {StepsOf(d, t) : t \in ReadHere(d, s) \cap Ready(d)}

(* The model's output is that. *)
LEMMA OutputFacts ==
  ASSUME NEW d, NEW out, NEW s
  PROVE  OutputFrom(d, Ready(d), out, s) = OutputBy(d, out, s)
<1> DEFINE read == [t \in d.steps[s].params.reads \cap LiveTabs(d) |->
                      IF t \in Ready(d)
                      THEN <<d.tabs[t].name,
                             IF StepsOf(d, t) = {} THEN <<>> ELSE <<out[LastOf(d, StepsOf(d, t))]>> >>
                      ELSE <<>>]
           turn == InTurn(d, DOMAIN read)
<1>1. OutputFrom(d, Ready(d), out, s)
        = [value   |-> d.steps[s].params.value,
           version |-> d.steps[s].version,
           tab     |-> d.tabs[d.steps[s].tab].name,
           input   |-> IF Preceding(d, s) = {} THEN <<>> ELSE <<out[LastOf(d, Preceding(d, s))]>>,
           tabs    |-> [i \in DOMAIN turn |-> read[turn[i]]]]
  BY Zenon DEF OutputFrom
<1>2. read = ReadOut(d, out, s)
  BY DEF ReadOut, ReadHere, ReadsOf, NameOf, LastOut
<1>3. DOMAIN read = ReadHere(d, s)
  BY DEF ReadHere, ReadsOf
<1> HIDE DEF read
<1>4. [i \in DOMAIN turn |-> read[turn[i]]] = InOrderRead(ReadOut(d, out, s), InTurn(d, ReadHere(d, s)))
  BY <1>2, <1>3 DEF InOrderRead
<1> HIDE DEF turn
<1>5. (IF Preceding(d, s) = {} THEN <<>> ELSE <<out[LastOf(d, Preceding(d, s))]>>)
        = LastOut(d, out, Preceding(d, s))
  BY DEF LastOut
<1> QED
  BY ONLY <1>1, <1>4, <1>5 DEF OutputBy, VersionOf, NameOf, TabOf

(* The pairs of natural numbers, smaller first. *)
Smaller == {mn \in Nat \X Nat : mn[1] < mn[2]}

(* There is a least one of any numbers. *)
LEMMA LeastNumber ==
  ASSUME NEW T \in SUBSET Nat, T # {}
  PROVE  \E x \in T : \A y \in T : x <= y
<1>1. IsWellFoundedOn(Smaller, Nat)
  BY NatLessThanWellFounded DEF OpToRel, Smaller
<1>2. PICK x \in T : \A y \in T : <<y, x>> \notin Smaller
  BY <1>1, WFMin
<1>3. \A y \in T : ~(y < x)
  BY <1>2 DEF Smaller
<1>4. \A y \in T : y \in Nat /\ x \in Nat
  OBVIOUS
<1> QED
  BY <1>3, <1>4

(* Some step is the first of its like ... *)
LEMMA LowestStep ==
  ASSUME NEW d, IsDoc(d), NEW S, S \subseteq Steps(d), S # {}
  PROVE  \E s \in S : \A r \in S : Place(d, s) <= Place(d, r)
<1> DEFINE T == {Place(d, s) : s \in S}
<1>1. T \in SUBSET Nat /\ T # {}
  BY DocFacts
<1>2. PICK x \in T : \A y \in T : x <= y
  BY <1>1, LeastNumber
<1> QED
  BY <1>2

(* ... and in a tab, some step is the last. *)
LEMMA LastFacts ==
  ASSUME NEW d, IsDoc(d), InOrder(d), NEW t \in Tabs(d), NEW S, S \subseteq StepsOf(d, t), S # {}
  PROVE  /\ LastOf(d, S) \in S /\ \A r \in S : Place(d, r) <= Place(d, LastOf(d, S))
         /\ \A s \in S : (\A r \in S : Place(d, r) <= Place(d, s)) => s = LastOf(d, S)
<1>1. PICK n \in Nat : Dense(d, t, n)
  BY DEF InOrder
<1>2. /\ \A s \in S : Place(d, s) \in Nat /\ Place(d, s) < n
      /\ \A r, s \in S : Place(d, r) = Place(d, s) => r = s
  BY <1>1, LiveStepsFacts, DocFacts DEF Dense
<1> DEFINE T == {m \in Nat : \A s \in S : Place(d, s) < m}
<1>3. T \in SUBSET Nat /\ n \in T
  BY <1>2
<1>4. PICK m \in T : \A y \in T : m <= y
  BY <1>3, LeastNumber
<1>5. m \in Nat /\ m # 0 /\ m - 1 \in Nat /\ m - 1 \notin T
  BY <1>2, <1>4
<1>6. PICK s \in S : ~(Place(d, s) < m - 1)
  BY <1>5
<1>7. \A r \in S : Place(d, r) <= Place(d, s)
  BY <1>2, <1>4, <1>5, <1>6
<1>8. LastOf(d, S) = CHOOSE x \in S : \A r \in S : Place(d, r) <= Place(d, x)
  BY DEF LastOf, Place
<1>9. LastOf(d, S) \in S /\ \A r \in S : Place(d, r) <= Place(d, LastOf(d, S))
  BY <1>7, <1>8
<1>10. ASSUME NEW x \in S, \A r \in S : Place(d, r) <= Place(d, x)
       PROVE  x = LastOf(d, S)
  BY <1>2, <1>9, <1>10
<1> QED
  BY <1>9, <1>10

(* The steps before a step, and in a tab that is ready. *)
LEMMA SourcesFacts ==
  ASSUME NEW d, IsDoc(d), InOrder(d), NEW s \in LiveSteps(d)
  PROVE  /\ Preceding(d, s) \subseteq StepsOf(d, TabOf(d, s)) /\ TabOf(d, s) \in LiveTabs(d)
         /\ LiveTabs(d) \subseteq Tabs(d) /\ Sources(d, s) \subseteq LiveSteps(d)
         /\ Preceding(d, s) \subseteq Sources(d, s)
         /\ \A t \in ReadHere(d, s) \cap Ready(d) : StepsOf(d, t) \subseteq Sources(d, s)
         /\ \A r : r \in Preceding(d, s) <=>
                     r \in StepsOf(d, TabOf(d, s)) /\ Place(d, r) < Place(d, s)
<1>1. \A r : r \in Preceding(d, s) <=> r \in StepsOf(d, TabOf(d, s)) /\ Place(d, r) < Place(d, s)
  BY DEF Preceding, TabOf, Place
<1>2. TabOf(d, s) \in LiveTabs(d) /\ LiveTabs(d) \subseteq Tabs(d)
  BY LiveStepsFacts, LiveTabsFacts
<1>3. \A t \in LiveTabs(d) : StepsOf(d, t) \subseteq LiveSteps(d)
  BY DEF LiveSteps
<1>4. ReadHere(d, s) \subseteq LiveTabs(d)
  BY DEF ReadHere
<1> QED
  BY <1>1, <1>2, <1>3, <1>4 DEF Sources

(* Some step of any is made of none of them: the renderer comes to an end. *)
LEMMA FirstAmong ==
  ASSUME NEW d, IsDoc(d), InOrder(d), NEW B, B \subseteq LiveSteps(d), B # {}
  PROVE  \E s \in B : Sources(d, s) \cap B = {}
<1> DEFINE X == {t \in Ready(d) : StepsOf(d, t) \cap B # {}}
<1>1. B \subseteq Steps(d) /\ \A s \in B : TabOf(d, s) \in LiveTabs(d) /\ s \in StepsOf(d, TabOf(d, s))
  BY LiveStepsFacts, TabFacts
<1>2. Ready(d) \subseteq LiveTabs(d)
  BY DEF Ready
<1>3. CASE X # {}
  <2>1. PICK t \in X : Inputs(d, t) \cap X = {}
    <3>1. SUFFICES ASSUME \A t \in X : Inputs(d, t) \cap X # {} PROVE FALSE
      OBVIOUS
    <3>2. X \in {Y \in SUBSET LiveTabs(d) : \A t \in Y : Inputs(d, t) \cap Y # {}}
      BY <1>2, <3>1
    <3>3. X \cap Ready(d) = {}
      BY <3>2 DEF Ready
    <3> QED
      BY <1>3, <3>3
  <2>2. PICK s \in StepsOf(d, t) \cap B : \A r \in StepsOf(d, t) \cap B : Place(d, s) <= Place(d, r)
    BY <1>1, LowestStep
  <2>3. ASSUME NEW r \in Sources(d, s), r \in B
        PROVE  FALSE
    <3>1. CASE r \in Preceding(d, s)
      <4>1. TabOf(d, s) = t
        BY TabFacts
      <4>2. r \in StepsOf(d, t) \cap B /\ Place(d, r) < Place(d, s)
        BY <2>3, <3>1, <4>1, SourcesFacts
      <4> QED
        BY <1>1, <2>2, <4>2, DocFacts
    <3>2. CASE r \notin Preceding(d, s)
      <4>1. PICK u \in ReadHere(d, s) \cap Ready(d) : r \in StepsOf(d, u)
        BY <3>2 DEF Sources
      <4>2. u \in X /\ u \in Inputs(d, t)
        BY <2>3, <4>1 DEF ReadHere, ReadsOf, Inputs
      <4> QED
        BY <2>1, <4>2
    <3> QED
      BY <3>1, <3>2
  <2> QED
    BY <2>2, <2>3
<1>4. CASE X = {}
  <2>1. PICK s \in B : \A r \in B : Place(d, s) <= Place(d, r)
    BY <1>1, LowestStep
  <2>2. ASSUME NEW r \in Sources(d, s), r \in B
        PROVE  FALSE
    <3>1. CASE r \in Preceding(d, s)
      <4>1. Place(d, r) < Place(d, s)
        BY <3>1, SourcesFacts
      <4> QED
        BY <1>1, <2>1, <2>2, <4>1, DocFacts
    <3>2. CASE r \notin Preceding(d, s)
      BY <1>4, <2>2, <3>2 DEF Sources
    <3> QED
      BY <3>1, <3>2
  <2> QED
    BY <2>1, <2>2
<1> QED
  BY <1>3, <1>4

(* A part of the steps, with all that their outputs are made of, and their *)
(* outputs.                                                                *)
IsPart(d, X, out) ==
  /\ X \subseteq LiveSteps(d) /\ \A s \in X : Sources(d, s) \subseteq X
  /\ DOMAIN out = X /\ out = [s \in X |-> out[s]] /\ \A s \in X : out[s] = OutputBy(d, out, s)

(* An output is made of nothing else. *)
LEMMA OutputDepends ==
  ASSUME NEW d, IsDoc(d), InOrder(d), NEW s \in LiveSteps(d), NEW f, NEW g,
         \A r \in Sources(d, s) : f[r] = g[r]
  PROVE  OutputBy(d, f, s) = OutputBy(d, g, s)
<1>1. ASSUME NEW t \in Tabs(d), NEW S, S \subseteq StepsOf(d, t), S \subseteq Sources(d, s)
      PROVE  LastOut(d, f, S) = LastOut(d, g, S)
  <2>1. S # {} => LastOf(d, S) \in S
    BY <1>1, LastFacts
  <2> QED
    BY <1>1, <2>1 DEF LastOut
<1>2. LastOut(d, f, Preceding(d, s)) = LastOut(d, g, Preceding(d, s))
  BY <1>1, SourcesFacts
<1>3. ASSUME NEW t \in ReadHere(d, s) \cap Ready(d)
      PROVE  LastOut(d, f, StepsOf(d, t)) = LastOut(d, g, StepsOf(d, t))
  <2>1. t \in Tabs(d) /\ StepsOf(d, t) \subseteq Sources(d, s)
    BY SourcesFacts DEF ReadHere
  <2> QED
    BY <1>1, <2>1
<1>4. ReadOut(d, f, s) = ReadOut(d, g, s)
  BY <1>3 DEF ReadOut
<1> QED
  BY <1>2, <1>4 DEF OutputBy

(* Parts agree ... *)
LEMMA PartsAgree ==
  ASSUME NEW d, IsDoc(d), InOrder(d), NEW X, NEW f, IsPart(d, X, f), NEW Y, NEW g, IsPart(d, Y, g)
  PROVE  \A s \in X \cap Y : f[s] = g[s]
<1> DEFINE B == {s \in X \cap Y : f[s] # g[s]}
<1>1. SUFFICES ASSUME B # {} PROVE FALSE
  OBVIOUS
<1>2. B \subseteq LiveSteps(d)
  BY DEF IsPart
<1>3. PICK s \in B : Sources(d, s) \cap B = {}
  BY <1>1, <1>2, FirstAmong
<1>4. \A r \in Sources(d, s) : f[r] = g[r]
  BY <1>3 DEF IsPart
<1>5. OutputBy(d, f, s) = OutputBy(d, g, s)
  BY <1>2, <1>4, OutputDepends
<1> QED
  BY <1>5 DEF IsPart

(* ... and so all of them together are one: *)
AllParts(d)   == UNION {X \in SUBSET LiveSteps(d) : \E f : IsPart(d, X, f)}
PartOf(d, s)  == CHOOSE f : \E X : s \in X /\ IsPart(d, X, f)
Together(d)   == [s \in AllParts(d) |-> PartOf(d, s)[s]]

LEMMA TogetherFacts ==
  ASSUME NEW d, IsDoc(d), InOrder(d)
  PROVE  IsPart(d, AllParts(d), Together(d))
<1>1. ASSUME NEW s \in AllParts(d)
      PROVE  \E X : s \in X /\ IsPart(d, X, PartOf(d, s))
  <2>1. \E f : \E X : s \in X /\ IsPart(d, X, f)
    BY DEF AllParts
  <2> QED
    BY <2>1, Zenon DEF PartOf
<1>2. ASSUME NEW X, NEW f, IsPart(d, X, f)
      PROVE  X \subseteq AllParts(d) /\ \A r \in X : Together(d)[r] = f[r]
  <2>1. X \subseteq AllParts(d)
    BY <1>2 DEF AllParts, IsPart
  <2>2. ASSUME NEW r \in X
        PROVE  PartOf(d, r)[r] = f[r]
    BY <1>1, <1>2, <2>1, PartsAgree
  <2> QED
    BY <2>1, <2>2 DEF Together
<1>3. ASSUME NEW s \in AllParts(d)
      PROVE  Sources(d, s) \subseteq AllParts(d) /\ Together(d)[s] = OutputBy(d, Together(d), s)
  <2>1. PICK X, f : s \in X /\ IsPart(d, X, f)
    BY <1>1
  <2>2. Sources(d, s) \subseteq X /\ f[s] = OutputBy(d, f, s) /\ s \in LiveSteps(d)
    BY <2>1 DEF IsPart
  <2>3. OutputBy(d, f, s) = OutputBy(d, Together(d), s)
    BY <1>2, <2>1, <2>2, OutputDepends
  <2> QED
    BY <1>2, <2>1, <2>2, <2>3
<1>4. AllParts(d) \subseteq LiveSteps(d)
  BY DEF AllParts
<1>5. DOMAIN Together(d) = AllParts(d) /\ Together(d) = [s \in AllParts(d) |-> Together(d)[s]]
  BY DEF Together
<1> QED
  BY <1>3, <1>4, <1>5 DEF IsPart

(* ... that has all steps. *)
LEMMA PartsAreAll ==
  ASSUME NEW d, IsDoc(d), InOrder(d)
  PROVE  AllParts(d) = LiveSteps(d)
<1> DEFINE G == AllParts(d)
           h == Together(d)
           B == LiveSteps(d) \ G
<1>1. IsPart(d, G, h)
  BY TogetherFacts
<1>2. SUFFICES ASSUME B # {} PROVE FALSE
  BY <1>1 DEF IsPart
<1>3. PICK s \in B : Sources(d, s) \cap B = {}
  BY <1>2, FirstAmong
<1>4. Sources(d, s) \subseteq G
  BY <1>3, SourcesFacts
<1> HIDE DEF G, h
<1> DEFINE k == [r \in G \cup {s} |-> IF r \in G THEN h[r] ELSE OutputBy(d, h, s)]
<1>5. IsPart(d, G \cup {s}, k)
  <2>1. \A r \in G : k[r] = h[r]
    OBVIOUS
  <2>2. s \notin G /\ k[s] = OutputBy(d, h, s)
    BY DEF G
  <2>3. DOMAIN k = G \cup {s} /\ k = [r \in G \cup {s} |-> k[r]]
    OBVIOUS
  <2> HIDE DEF k
  <2>4. G \cup {s} \subseteq LiveSteps(d)
    BY <1>1, <1>3 DEF IsPart
  <2>5. ASSUME NEW r \in G \cup {s}
        PROVE  Sources(d, r) \subseteq G /\ k[r] = OutputBy(d, k, r)
    <3>1. Sources(d, r) \subseteq G
      BY <1>1, <1>4 DEF IsPart
    <3>2. OutputBy(d, h, r) = OutputBy(d, k, r)
      BY <2>1, <2>4, <3>1, OutputDepends
    <3>3. k[r] = OutputBy(d, h, r)
      BY <1>1, <2>1, <2>2 DEF IsPart
    <3> QED
      BY <3>1, <3>2, <3>3
  <2> QED
    BY <2>3, <2>4, <2>5 DEF IsPart
<1>6. s \in AllParts(d)
  BY <1>5 DEF AllParts, IsPart
<1> QED
  BY <1>3, <1>6 DEF G

(* So there are outputs, and Outputs() has them. *)
LEMMA OutputsFacts ==
  ASSUME NEW d, IsDoc(d), InOrder(d)
  PROVE  DOMAIN Outputs(d) = LiveSteps(d) /\ IsPart(d, LiveSteps(d), Outputs(d))
<1>1. Outputs(d) = CHOOSE out : out = [s \in LiveSteps(d) |-> OutputFrom(d, Ready(d), out, s)]
  BY DEF Outputs
<1>2. IsPart(d, LiveSteps(d), Together(d))
  BY TogetherFacts, PartsAreAll
<1>3. Together(d) = [s \in LiveSteps(d) |-> OutputFrom(d, Ready(d), Together(d), s)]
  <2>1. \A s \in LiveSteps(d) : Together(d)[s] = OutputFrom(d, Ready(d), Together(d), s)
    BY <1>2, OutputFacts DEF IsPart
  <2> QED
    BY <1>2, <2>1, Zenon DEF IsPart
<1>4. Outputs(d) = [s \in LiveSteps(d) |-> OutputFrom(d, Ready(d), Outputs(d), s)]
  BY <1>1, <1>3, Zenon
<1>5. \A s \in LiveSteps(d) : Outputs(d)[s] = OutputBy(d, Outputs(d), s)
  <2> TAKE s \in LiveSteps(d)
  <2>1. Outputs(d)[s] = OutputFrom(d, Ready(d), Outputs(d), s)
    BY <1>4, Zenon
  <2> QED
    BY <2>1, OutputFacts
<1>6. DOMAIN Outputs(d) = LiveSteps(d) /\ Outputs(d) = [s \in LiveSteps(d) |-> Outputs(d)[s]]
  <2> DEFINE F == [s \in LiveSteps(d) |-> OutputFrom(d, Ready(d), Outputs(d), s)]
  <2>1. PICK G : G = F
    OBVIOUS
  <2>2. DOMAIN G = LiveSteps(d) /\ G = [s \in LiveSteps(d) |-> G[s]]
    BY <2>1
  <2> QED
    BY <1>4, <2>1, <2>2, Zenon
<1> QED
  BY <1>2, <1>5, <1>6 DEF IsPart

-----------------------------------------------------------------------------
(* Documents in which steps have the same output.                          *)

AtOrBefore(d, u, t) == PlaceOf(d.order, u) <= PlaceOf(d.order, t)

SameTurn(f, d, T) == \A t, u \in T : AtOrBefore(f, u, t) <=> AtOrBefore(d, u, t)

(* Steps S of f are, by m, steps Q of d. *)
Pairs(m, f, S, d, Q) ==
  /\ \A r \in S : m[r] \in Q /\ Place(f, r) = Place(d, m[r])
  /\ \A q \in Q : \E r \in S : m[r] = q

(* Step s of f is one of d, as far as its output goes, ... *)
Mirrors(m, f, d, s) ==
  /\ m[s] \in LiveSteps(d)
  /\ ParamsOf(f, s) = ParamsOf(d, m[s]) /\ VersionOf(f, s) = VersionOf(d, m[s])
  /\ NameOf(f, TabOf(f, s)) = NameOf(d, TabOf(d, m[s]))
  /\ Pairs(m, f, Preceding(f, s), d, Preceding(d, m[s]))
  /\ ReadHere(f, s) = ReadHere(d, m[s]) /\ SameTurn(f, d, ReadHere(f, s))
  /\ \A t \in ReadHere(f, s) :
       /\ NameOf(f, t) = NameOf(d, t) /\ (t \in Ready(f) <=> t \in Ready(d))
       /\ t \in Ready(f) => Pairs(m, f, StepsOf(f, t), d, StepsOf(d, t))

(* The turn of tabs depends on their order. *)
LEMMA TurnFacts ==
  ASSUME NEW f, NEW d, NEW T, SameTurn(f, d, T)
  PROVE  InTurn(f, T) = InTurn(d, T)
<1> DEFINE A(x, t) == {u \in T : AtOrBefore(x, u, t)}
           At(x, i) == CHOOSE t \in T : i = Cardinality(A(x, t))
<1>1. \A t \in T : A(f, t) = A(d, t)
  BY DEF SameTurn
<1>2. ASSUME NEW i PROVE At(f, i) = At(d, i)
  BY <1>1
<1>3. InTurn(f, T) = [i \in 1 .. Cardinality(T) |-> At(f, i)]
  BY DEF InTurn, AtOrBefore
<1>4. InTurn(d, T) = [i \in 1 .. Cardinality(T) |-> At(d, i)]
  BY DEF InTurn, AtOrBefore
<1> HIDE DEF At
<1> QED
  BY <1>2, <1>3, <1>4

(* The last of steps that are paired are a pair. *)
LEMMA PairedLast ==
  ASSUME NEW f, IsDoc(f), InOrder(f), NEW d, IsDoc(d), InOrder(d), NEW m,
         NEW t \in Tabs(f), NEW S, S \subseteq StepsOf(f, t),
         NEW u \in Tabs(d), NEW Q, Q \subseteq StepsOf(d, u), Pairs(m, f, S, d, Q), S # {}
  PROVE  LastOf(f, S) \in S /\ m[LastOf(f, S)] = LastOf(d, Q) /\ Q # {}
<1>1. /\ LastOf(f, S) \in S
      /\ \A r \in S : Place(f, r) <= Place(f, LastOf(f, S))
  BY LastFacts
<1>2. m[LastOf(f, S)] \in Q
  BY <1>1 DEF Pairs
<1>3. \A q \in Q : Place(d, q) <= Place(d, m[LastOf(f, S)])
  BY <1>1 DEF Pairs
<1> QED
  BY <1>1, <1>2, <1>3, LastFacts

(* If steps C are steps of d, they have these steps' outputs. *)
LEMMA MirrorsTell ==
  ASSUME NEW f, IsDoc(f), InOrder(f), NEW d, IsDoc(d), InOrder(d), NEW m,
         NEW C, C \subseteq LiveSteps(f), \A s \in C : Sources(f, s) \subseteq C,
         \A s \in C : Mirrors(m, f, d, s)
  PROVE  \A s \in C : Outputs(f)[s] = Outputs(d)[m[s]]
<1> DEFINE a == Outputs(f)
           b == Outputs(d)
           B == {s \in C : a[s] # b[m[s]]}
<1>1. SUFFICES ASSUME B # {} PROVE FALSE
  OBVIOUS
<1>2. IsPart(f, LiveSteps(f), a) /\ IsPart(d, LiveSteps(d), b)
  BY OutputsFacts
<1> HIDE DEF a, b
<1>3. PICK s \in B : Sources(f, s) \cap B = {}
  BY <1>1, FirstAmong
<1>4. PICK q : q = m[s]
  OBVIOUS
<1>5. s \in LiveSteps(f) /\ q \in LiveSteps(d) /\ Mirrors(m, f, d, s)
  BY <1>4 DEF Mirrors
<1>6. \A r \in Sources(f, s) : a[r] = b[m[r]]
  BY <1>3
<1>7. ASSUME NEW t \in Tabs(f), NEW S, S \subseteq StepsOf(f, t), S \subseteq Sources(f, s),
             NEW u \in Tabs(d), NEW Q, Q \subseteq StepsOf(d, u), Pairs(m, f, S, d, Q)
      PROVE  LastOut(f, a, S) = LastOut(d, b, Q)
  <2>1. CASE S = {}
    BY <1>7, <2>1 DEF Pairs, LastOut
  <2>2. CASE S # {}
    <3>1. LastOf(f, S) \in S /\ m[LastOf(f, S)] = LastOf(d, Q) /\ Q # {}
      BY <1>7, <2>2, PairedLast
    <3> QED
      BY <1>6, <1>7, <2>2, <3>1 DEF LastOut
  <2> QED
    BY <2>1, <2>2
<1>8. LastOut(f, a, Preceding(f, s)) = LastOut(d, b, Preceding(d, q))
  <2>1. /\ TabOf(f, s) \in Tabs(f) /\ Preceding(f, s) \subseteq StepsOf(f, TabOf(f, s))
        /\ Preceding(f, s) \subseteq Sources(f, s)
    BY <1>5, SourcesFacts
  <2>2. TabOf(d, q) \in Tabs(d) /\ Preceding(d, q) \subseteq StepsOf(d, TabOf(d, q))
    BY <1>5, SourcesFacts
  <2>3. Pairs(m, f, Preceding(f, s), d, Preceding(d, q))
    BY <1>4, <1>5 DEF Mirrors
  <2> QED
    BY <1>7, <2>1, <2>2, <2>3
<1>9. ASSUME NEW t \in ReadHere(f, s), t \in Ready(f)
      PROVE  LastOut(f, a, StepsOf(f, t)) = LastOut(d, b, StepsOf(d, t))
  <2>1. t \in Tabs(f) /\ StepsOf(f, t) \subseteq Sources(f, s)
    BY <1>5, <1>9, SourcesFacts DEF ReadHere
  <2>2. t \in Tabs(d)
    BY <1>4, <1>5, SourcesFacts DEF Mirrors, ReadHere
  <2>3. Pairs(m, f, StepsOf(f, t), d, StepsOf(d, t))
    BY <1>5, <1>9 DEF Mirrors
  <2> QED
    BY <1>7, <2>1, <2>2, <2>3
<1>10. ReadOut(f, a, s) = ReadOut(d, b, q)
  BY <1>4, <1>5, <1>9 DEF ReadOut, Mirrors
<1>11. InTurn(f, ReadHere(f, s)) = InTurn(d, ReadHere(d, q))
  BY <1>4, <1>5, TurnFacts DEF Mirrors
<1>12. OutputBy(f, a, s) = OutputBy(d, b, q)
  <2>1. f.steps[s].params = d.steps[q].params
    BY <1>4, <1>5 DEF Mirrors, ParamsOf
  <2>2. VersionOf(f, s) = VersionOf(d, q) /\ NameOf(f, TabOf(f, s)) = NameOf(d, TabOf(d, q))
    BY <1>4, <1>5 DEF Mirrors
  <2> QED
    BY <1>8, <1>10, <1>11, <2>1, <2>2 DEF OutputBy
<1>13. a[s] = OutputBy(f, a, s) /\ b[q] = OutputBy(d, b, q)
  BY <1>2, <1>5 DEF IsPart
<1> QED
  BY <1>4, <1>12, <1>13

(* Tabs V are the same in both documents, and read each other alone. *)
SameInside(V, f, d) ==
  /\ V \subseteq LiveTabs(f) \cap LiveTabs(d) /\ SameTurn(f, d, V)
  /\ \A t \in V :
       /\ StepsOf(f, t) = StepsOf(d, t) /\ NameOf(f, t) = NameOf(d, t)
       /\ \A s \in StepsOf(d, t) :
            /\ Place(f, s) = Place(d, s) /\ ReadsOf(f, s) = ReadsOf(d, s)
            /\ ReadsOf(d, s) \cap (LiveTabs(f) \cup LiveTabs(d)) \subseteq V

(* Then the same of them are ready. *)
LEMMA SameReady ==
  ASSUME NEW V, NEW f, NEW d, SameInside(V, f, d)
  PROVE  \A t \in V : t \in Ready(f) <=> t \in Ready(d)
<1>1. \A t \in V : Inputs(f, t) = Inputs(d, t)
  BY DEF SameInside, Inputs, ReadsOf
<1>2. \A t \in V : Inputs(d, t) \cap (LiveTabs(f) \cup LiveTabs(d)) \subseteq V
  BY DEF SameInside, Inputs, ReadsOf
<1>3. ASSUME NEW x, NEW y, V \subseteq LiveTabs(y),
             \A t \in V : Inputs(x, t) = Inputs(y, t),
             \A t \in V : Inputs(x, t) \cap LiveTabs(x) \subseteq V,
             NEW t \in V, t \in LiveTabs(x), t \notin Ready(x)
      PROVE  t \notin Ready(y)
  <2>1. PICK X \in SUBSET LiveTabs(x) : t \in X /\ \A u \in X : Inputs(x, u) \cap X # {}
    BY <1>3 DEF Ready
  <2>2. PICK Y : Y = X \cap V
    OBVIOUS
  <2>3. t \in Y /\ Y \in SUBSET LiveTabs(y)
    BY <1>3, <2>1, <2>2
  <2>4. \A u \in Y : Inputs(y, u) \cap Y # {}
    BY <1>3, <2>1, <2>2
  <2> QED
    BY <2>3, <2>4 DEF Ready
<1>4. V \subseteq LiveTabs(f) /\ V \subseteq LiveTabs(d)
  BY DEF SameInside
<1> QED
  BY <1>1, <1>2, <1>3, <1>4

(* Then steps C have the same output in f as their pairs in d, if they     *)
(* read tabs V alone.                                                      *)
LEMMA SameOutputs ==
  ASSUME NEW f, IsDoc(f), InOrder(f), NEW d, IsDoc(d), InOrder(d), NEW V, SameInside(V, f, d),
         NEW C, C \subseteq LiveSteps(f), NEW m,
         \A t \in V : \A s \in StepsOf(f, t) : s \in C /\ m[s] = s,
         \A s \in C :
           /\ m[s] \in LiveSteps(d)
           /\ ParamsOf(f, s) = ParamsOf(d, m[s]) /\ VersionOf(f, s) = VersionOf(d, m[s])
           /\ NameOf(f, TabOf(f, s)) = NameOf(d, TabOf(d, m[s]))
           /\ Preceding(f, s) \subseteq C /\ Pairs(m, f, Preceding(f, s), d, Preceding(d, m[s]))
           /\ ReadsOf(f, s) \cap (LiveTabs(f) \cup LiveTabs(d)) \subseteq V
  PROVE  \A s \in C : Outputs(f)[s] = Outputs(d)[m[s]]
<1>1. \A t \in V : t \in Ready(f) <=> t \in Ready(d)
  BY SameReady
<1>2. V \subseteq LiveTabs(f) /\ V \subseteq LiveTabs(d)
  BY DEF SameInside
<1>3. ASSUME NEW s \in C
      PROVE  Sources(f, s) \subseteq C
  <2>1. ReadHere(f, s) \subseteq V
    BY DEF ReadHere
  <2> QED
    BY <2>1 DEF Sources
<1>4. ASSUME NEW s \in C
      PROVE  Mirrors(m, f, d, s)
  <2>1. ReadsOf(d, m[s]) = ReadsOf(f, s)
    BY DEF ReadsOf, ParamsOf
  <2>2. ReadHere(f, s) = ReadHere(d, m[s]) /\ ReadHere(f, s) \subseteq V
    BY <1>2, <2>1 DEF ReadHere
  <2>3. SameTurn(f, d, ReadHere(f, s))
    BY <2>2 DEF SameTurn, SameInside
  <2>4. ASSUME NEW t \in V
        PROVE  NameOf(f, t) = NameOf(d, t) /\ Pairs(m, f, StepsOf(f, t), d, StepsOf(d, t))
    BY DEF SameInside, Pairs
  <2> QED
    BY <1>1, <2>2, <2>3, <2>4 DEF Mirrors
<1> QED
  BY <1>3, <1>4, MirrorsTell
-----------------------------------------------------------------------------
(* Commands and the outputs they leave.                                    *)

(* The dependents of tabs T depend on tabs U, which T are among, and they  *)
(* are in U.                                                               *)
LEMMA DependentsFacts ==
  ASSUME NEW d, NEW T
  PROVE  \E U : /\ T \subseteq U /\ Dependents(d, T) = DependOn(d, U)
                /\ \A s \in DependOn(d, U) : TabOf(d, s) \in U
<1> DEFINE tabs == T \cup LiveTabs(d)
           Reached(W) == T \subseteq W /\ \A s \in DependOn(d, W) : d.steps[s].tab \in W
           U == {t \in tabs : \A W \in SUBSET tabs : Reached(W) => t \in W}
<1>1. T \subseteq U
  OBVIOUS
<1>2. Dependents(d, T) = DependOn(d, U)
  BY Zenon DEF Dependents
<1>3. ASSUME NEW s \in DependOn(d, U)
      PROVE  d.steps[s].tab \in U
  <2>1. d.steps[s].tab \in tabs
    BY DEF DependOn, LiveSteps, StepsOf
  <2>2. ASSUME NEW W \in SUBSET tabs, Reached(W)
        PROVE  d.steps[s].tab \in W
    <3>1. U \subseteq W
      BY <2>2
    <3>2. s \in DependOn(d, W)
      BY <3>1 DEF DependOn
    <3> QED
      BY <2>2, <3>2
  <2> QED
    BY <2>1, <2>2
<1> QED
  BY <1>1, <1>2, <1>3 DEF TabOf

(* What does not depend on tabs reads none of them, nor does what precedes *)
(* it.                                                                     *)
LEMMA IndependentFacts ==
  ASSUME NEW d, IsDoc(d), NEW U, NEW s \in LiveSteps(d), s \notin DependOn(d, U)
  PROVE  /\ ReadsOf(d, s) \cap U = {}
         /\ \A r \in Preceding(d, s) : r \in LiveSteps(d) /\ r \notin DependOn(d, U)
<1>1. /\ s \in StepsOf(d, d.steps[s].tab) /\ d.steps[s].tab \in LiveTabs(d)
      /\ s \in Steps(d) /\ d.steps[s].order \in Nat
  BY LiveStepsFacts, DocFacts DEF LiveSteps, StepsOf, Place
<1>2. ASSUME NEW r \in StepsOf(d, d.steps[s].tab), d.steps[r].order <= d.steps[s].order
      PROVE  d.steps[r].params.reads \cap U = {}
  BY <1>2 DEF DependOn
<1>3. ReadsOf(d, s) \cap U = {}
  BY <1>1, <1>2 DEF ReadsOf
<1>4. ASSUME NEW r \in Preceding(d, s)
      PROVE  r \in LiveSteps(d) /\ r \notin DependOn(d, U)
  <2>1. r \in StepsOf(d, d.steps[s].tab) /\ d.steps[r].order < d.steps[s].order
    BY DEF Preceding
  <2>2. d.steps[r].tab = d.steps[s].tab /\ r \in Steps(d)
    BY <2>1 DEF StepsOf, Steps
  <2>3. r \in LiveSteps(d)
    BY <1>1, <2>1 DEF LiveSteps
  <2>4. ASSUME NEW q \in StepsOf(d, d.steps[r].tab), d.steps[q].order <= d.steps[r].order
        PROVE  d.steps[q].params.reads \cap U = {}
    <3>1. q \in Steps(d) /\ d.steps[q].order \in Nat /\ d.steps[r].order \in Nat
      BY <2>2, DocFacts DEF StepsOf, Steps, Place
    <3>2. d.steps[q].order <= d.steps[s].order
      BY <1>1, <2>1, <2>4, <3>1
    <3> QED
      BY <1>2, <2>2, <3>2
  <2> QED
    BY <2>3, <2>4 DEF DependOn
<1> QED
  BY <1>3, <1>4

(* A step's row is the same, but for its delta and its result. *)
RowStays(f, d, s) ==
  /\ Place(f, s) = Place(d, s) /\ (Gone(f, s) <=> Gone(d, s))
  /\ ParamsOf(f, s) = ParamsOf(d, s) /\ VersionOf(f, s) = VersionOf(d, s)

(* Nothing changes but in tab t from place p on, and its name if p is 0. *)
ChangesFrom(f, d, t, p) ==
  /\ Frame(f, d) /\ Order(f) = Order(d)
  /\ \A u \in Tabs(d) : u # t \/ p > 0 => NameOf(f, u) = NameOf(d, u)
  /\ \A s \in Steps(d) :
       \/ TabOf(d, s) # t
       \/ ~Gone(d, s) /\ Place(d, s) < p
       \/ ~Gone(f, s) /\ Place(f, s) < p
       => RowStays(f, d, s)

(* Then the outputs of the steps that are not affected stay. *)
LEMMA OutputsBelow ==
  ASSUME NEW f, IsDoc(f), InOrder(f), NEW d, IsDoc(d), InOrder(d), NEW t, NEW p \in Nat,
         ChangesFrom(f, d, t, p), NEW s \in LiveSteps(f), s \in LiveSteps(d),
         s \notin AffectedFrom(d, t, p)
  PROVE  Outputs(f)[s] = Outputs(d)[s]
<1>1. PICK U : /\ t \in U /\ Dependents(d, {t}) = DependOn(d, U)
               /\ \A r \in DependOn(d, U) : TabOf(d, r) \in U
  <2>1. \E U : /\ {t} \subseteq U /\ Dependents(d, {t}) = DependOn(d, U)
               /\ \A r \in DependOn(d, U) : TabOf(d, r) \in U
    BY DependentsFacts
  <2> QED
    BY <2>1
<1> DEFINE C == {r \in LiveSteps(f) \cap LiveSteps(d) :
                   r \notin InTab(d, t, p) /\ r \notin DependOn(d, U)}
           V == LiveTabs(d) \ U
           m == [r \in Steps(d) |-> r]
<1>2. /\ Steps(f) = Steps(d) /\ Tabs(f) = Tabs(d) /\ LiveTabs(f) = LiveTabs(d)
      /\ \A r \in Steps(d) : TabOf(f, r) = TabOf(d, r)
  BY DEF ChangesFrom, Frame, LiveTabs, Order
<1>3. s \in C
  BY <1>1 DEF AffectedFrom
<1>4. /\ \A r \in Steps(d) : Place(d, r) \in Nat /\ Place(f, r) \in Nat
      /\ LiveTabs(d) \subseteq Tabs(d)
  BY <1>2, DocFacts, LiveTabsFacts
<1>5. /\ \A r : r \in LiveSteps(d) <=> r \in Steps(d) /\ TabOf(d, r) \in LiveTabs(d) /\ ~Gone(d, r)
      /\ \A r : r \in LiveSteps(f) <=> r \in Steps(d) /\ TabOf(d, r) \in LiveTabs(d) /\ ~Gone(f, r)
  BY <1>2, LiveStepsFacts
<1>6. /\ \A u, r : r \in StepsOf(d, u) <=> r \in Steps(d) /\ TabOf(d, r) = u /\ ~Gone(d, r)
      /\ \A u, r : r \in StepsOf(f, u) <=> r \in Steps(d) /\ TabOf(d, r) = u /\ ~Gone(f, r)
  BY <1>2, TabFacts
<1>7. \A r : r \in InTab(d, t, p) <=> r \in Steps(d) /\ TabOf(d, r) = t /\ ~Gone(d, r) /\ Place(d, r) >= p
  BY <1>6, TabFacts
<1>8. ASSUME NEW u \in V
      PROVE  /\ u \in Tabs(d) /\ u # t /\ u \in LiveTabs(d) /\ NameOf(f, u) = NameOf(d, u)
             /\ StepsOf(f, u) = StepsOf(d, u)
             /\ \A r \in StepsOf(d, u) :
                  /\ r \in C /\ Place(f, r) = Place(d, r) /\ ReadsOf(f, r) = ReadsOf(d, r)
                  /\ ReadsOf(d, r) \cap LiveTabs(d) \subseteq V
  <2>1. u \in Tabs(d) /\ u # t /\ u \in LiveTabs(d) /\ u \notin U
    BY <1>1, <1>4
  <2>2. NameOf(f, u) = NameOf(d, u)
    BY <2>1 DEF ChangesFrom
  <2>3. \A r \in Steps(d) : TabOf(d, r) = u => RowStays(f, d, r)
    BY <2>1 DEF ChangesFrom
  <2>4. StepsOf(f, u) = StepsOf(d, u)
    BY <1>6, <2>3 DEF RowStays
  <2>5. ASSUME NEW r \in StepsOf(d, u)
        PROVE  /\ r \in C /\ Place(f, r) = Place(d, r) /\ ReadsOf(f, r) = ReadsOf(d, r)
               /\ ReadsOf(d, r) \cap LiveTabs(d) \subseteq V
    <3>1. r \in LiveSteps(d) /\ r \in LiveSteps(f) /\ RowStays(f, d, r) /\ TabOf(d, r) = u
      BY <1>5, <1>6, <2>1, <2>3, <2>4
    <3>2. r \notin DependOn(d, U)
      BY <1>1, <2>1, <3>1
    <3>3. r \in C
      BY <1>7, <2>1, <3>1, <3>2
    <3>4. ReadsOf(d, r) \cap U = {}
      BY <3>1, <3>2, IndependentFacts
    <3> QED
      BY <3>1, <3>3, <3>4 DEF RowStays, ReadsOf, ParamsOf
  <2> QED
    BY <2>1, <2>2, <2>4, <2>5
<1>9. SameInside(V, f, d)
  <2>1. SameTurn(f, d, V)
    BY DEF SameTurn, AtOrBefore, ChangesFrom, Order
  <2>2. V \subseteq LiveTabs(f) \cap LiveTabs(d) /\ LiveTabs(f) \cup LiveTabs(d) = LiveTabs(d)
    BY <1>2
  <2> HIDE DEF V, C
  <2> QED
    BY <1>8, <2>1, <2>2 DEF SameInside
<1>10. ASSUME NEW r \in C
       PROVE  /\ r \in LiveSteps(d) /\ RowStays(f, d, r) /\ r \in Steps(d)
              /\ NameOf(f, TabOf(f, r)) = NameOf(d, TabOf(d, r))
              /\ Preceding(f, r) = Preceding(d, r) /\ Preceding(d, r) \subseteq C
              /\ \A q \in Preceding(d, r) : Place(f, q) = Place(d, q)
              /\ ReadsOf(f, r) \cap LiveTabs(d) \subseteq V
  <2>1. /\ r \in LiveSteps(d) /\ r \in LiveSteps(f) /\ r \in Steps(d) /\ TabOf(f, r) = TabOf(d, r)
        /\ TabOf(d, r) \in LiveTabs(d) /\ TabOf(d, r) \in Tabs(d) /\ ~Gone(d, r) /\ ~Gone(f, r)
    BY <1>2, <1>4, <1>5
  <2>2. TabOf(d, r) = t => Place(d, r) < p
    BY <1>4, <1>7, <2>1
  <2>3. RowStays(f, d, r)
    BY <2>1, <2>2 DEF ChangesFrom
  <2>4. NameOf(f, TabOf(f, r)) = NameOf(d, TabOf(d, r))
    <3>1. TabOf(d, r) # t \/ p > 0
      BY <1>4, <2>1, <2>2
    <3> QED
      BY <2>1, <3>1 DEF ChangesFrom
  <2>5. /\ \A q : q \in Preceding(f, r) <=> q \in StepsOf(f, TabOf(d, r)) /\ Place(f, q) < Place(f, r)
        /\ \A q : q \in Preceding(d, r) <=> q \in StepsOf(d, TabOf(d, r)) /\ Place(d, q) < Place(d, r)
    BY <2>1 DEF Preceding, TabOf, Place
  <2>6. ASSUME NEW q, q \in Preceding(f, r) \/ q \in Preceding(d, r)
        PROVE  /\ q \in Preceding(f, r) /\ q \in Preceding(d, r) /\ RowStays(f, d, q)
               /\ q \in C
    <3>1. q \in Steps(d) /\ TabOf(d, q) = TabOf(d, r) /\ Place(f, r) = Place(d, r)
      BY <1>6, <2>3, <2>5, <2>6 DEF RowStays
    <3>2. \/ ~Gone(f, q) /\ Place(f, q) < Place(f, r)
          \/ ~Gone(d, q) /\ Place(d, q) < Place(d, r)
      BY <1>6, <2>5, <2>6
    <3>3. RowStays(f, d, q)
      <4>1. CASE TabOf(d, r) # t
        BY <3>1, <4>1 DEF ChangesFrom
      <4>2. CASE TabOf(d, r) = t
        <5>1. \/ ~Gone(f, q) /\ Place(f, q) < p
              \/ ~Gone(d, q) /\ Place(d, q) < p
          BY <1>4, <2>1, <2>2, <3>1, <3>2, <4>2
        <5> QED
          BY <3>1, <5>1 DEF ChangesFrom
      <4> QED
        BY <4>1, <4>2
    <3>4. ~Gone(d, q) /\ ~Gone(f, q) /\ Place(d, q) < Place(d, r) /\ Place(f, q) < Place(f, r)
      BY <3>1, <3>2, <3>3 DEF RowStays
    <3>5. q \in Preceding(f, r) /\ q \in Preceding(d, r)
      BY <1>6, <2>5, <3>1, <3>4
    <3>6. q \notin InTab(d, t, p)
      BY <1>4, <1>7, <2>1, <2>2, <3>1, <3>4
    <3>7. q \notin DependOn(d, U)
      BY <2>1, <3>5, IndependentFacts
    <3> QED
      BY <1>5, <2>1, <3>1, <3>3, <3>4, <3>5, <3>6, <3>7
  <2>7. Preceding(f, r) = Preceding(d, r) /\ Preceding(d, r) \subseteq C
    BY <2>6
  <2>8. ReadsOf(f, r) \cap LiveTabs(d) \subseteq V
    <3>1. ReadsOf(d, r) \cap U = {}
      BY <2>1, IndependentFacts
    <3> QED
      BY <2>3, <3>1 DEF RowStays, ReadsOf, ParamsOf
  <2> QED
    BY <2>1, <2>3, <2>4, <2>6, <2>7, <2>8 DEF RowStays
<1>11. \A r \in Steps(d) : m[r] = r
  OBVIOUS
<1>12. C \subseteq LiveSteps(f) /\ C \subseteq Steps(d) /\ LiveTabs(f) \cup LiveTabs(d) = LiveTabs(d)
  BY <1>2, <1>5
<1> HIDE DEF C, V, m
<1>13. \A u \in V : \A r \in StepsOf(f, u) : r \in C /\ m[r] = r
  BY <1>8, <1>11, <1>12
<1>14. ASSUME NEW r \in C
       PROVE  /\ m[r] \in LiveSteps(d)
              /\ ParamsOf(f, r) = ParamsOf(d, m[r]) /\ VersionOf(f, r) = VersionOf(d, m[r])
              /\ NameOf(f, TabOf(f, r)) = NameOf(d, TabOf(d, m[r]))
              /\ Preceding(f, r) \subseteq C /\ Pairs(m, f, Preceding(f, r), d, Preceding(d, m[r]))
              /\ ReadsOf(f, r) \cap (LiveTabs(f) \cup LiveTabs(d)) \subseteq V
  <2>1. m[r] = r /\ \A q \in Preceding(d, r) : m[q] = q
    BY <1>10, <1>11, <1>12
  <2>2. Pairs(m, f, Preceding(f, r), d, Preceding(d, m[r]))
    BY <1>10, <2>1 DEF Pairs
  <2> QED
    BY <1>10, <1>12, <2>1, <2>2 DEF RowStays
<1>15. \A r \in C : Outputs(f)[r] = Outputs(d)[m[r]]
  BY <1>9, <1>12, <1>13, <1>14, SameOutputs
<1> QED
  BY <1>3, <1>11, <1>12, <1>15

(* Nothing changes but the order of the tabs. *)
OrderChanges(f, d) ==
  /\ Frame(f, d) /\ \A s \in Steps(d) : RowStays(f, d, s)
  /\ \A t \in Tabs(d) : NameOf(f, t) = NameOf(d, t)

(* Then these stay: *)
LEMMA OrderChangesFacts ==
  ASSUME NEW f, IsDoc(f), InOrder(f), NEW d, IsDoc(d), InOrder(d), OrderChanges(f, d)
  PROVE  /\ Steps(f) = Steps(d) /\ \A s \in Steps(d) : TabOf(f, s) = TabOf(d, s)
         /\ \A t : StepsOf(f, t) = StepsOf(d, t)
         /\ \A s \in Steps(d) : /\ Preceding(f, s) = Preceding(d, s) /\ ReadsOf(f, s) = ReadsOf(d, s)
                                /\ Preceding(d, s) \subseteq StepsOf(d, TabOf(d, s))
         /\ LiveTabs(f) \subseteq Tabs(d) /\ LiveTabs(d) \subseteq Tabs(d)
         /\ \A s : s \in LiveSteps(d) <=> s \in Steps(d) /\ TabOf(d, s) \in LiveTabs(d) /\ ~Gone(d, s)
         /\ \A s : s \in LiveSteps(f) <=> s \in Steps(d) /\ TabOf(d, s) \in LiveTabs(f) /\ ~Gone(d, s)
         /\ \A t, s : s \in StepsOf(d, t) <=> s \in Steps(d) /\ TabOf(d, s) = t /\ ~Gone(d, s)
<1>1. /\ Steps(f) = Steps(d) /\ Tabs(f) = Tabs(d) /\ \A s \in Steps(d) : TabOf(f, s) = TabOf(d, s)
      /\ \A s \in Steps(d) : RowStays(f, d, s)
  BY DEF OrderChanges, Frame
<1>2. /\ \A t, s : s \in StepsOf(d, t) <=> s \in Steps(d) /\ TabOf(d, s) = t /\ ~Gone(d, s)
      /\ \A t, s : s \in StepsOf(f, t) <=> s \in Steps(f) /\ TabOf(f, s) = t /\ ~Gone(f, s)
  BY TabFacts
<1>3. \A t : StepsOf(f, t) = StepsOf(d, t)
  BY <1>1, <1>2 DEF RowStays
<1>4. ASSUME NEW s \in Steps(d)
      PROVE  /\ Preceding(f, s) = Preceding(d, s) /\ ReadsOf(f, s) = ReadsOf(d, s)
             /\ Preceding(d, s) \subseteq StepsOf(d, TabOf(d, s))
  <2>1. /\ \A r : r \in Preceding(f, s) <=> r \in StepsOf(f, TabOf(f, s)) /\ Place(f, r) < Place(f, s)
        /\ \A r : r \in Preceding(d, s) <=> r \in StepsOf(d, TabOf(d, s)) /\ Place(d, r) < Place(d, s)
    BY DEF Preceding, TabOf, Place
  <2>2. \A r \in StepsOf(d, TabOf(d, s)) : Place(f, r) = Place(d, r)
    BY <1>1, <1>2 DEF RowStays
  <2>3. Preceding(f, s) = Preceding(d, s)
    BY <1>1, <1>3, <2>1, <2>2 DEF RowStays
  <2> QED
    BY <1>1, <2>1, <2>3 DEF RowStays, ReadsOf, ParamsOf
<1>5. LiveTabs(f) \subseteq Tabs(d) /\ LiveTabs(d) \subseteq Tabs(d)
  BY <1>1, LiveTabsFacts
<1>6. /\ \A s : s \in LiveSteps(d) <=> s \in Steps(d) /\ TabOf(d, s) \in LiveTabs(d) /\ ~Gone(d, s)
      /\ \A s : s \in LiveSteps(f) <=> s \in Steps(f) /\ TabOf(f, s) \in LiveTabs(f) /\ ~Gone(f, s)
  BY LiveStepsFacts
<1> QED
  BY <1>1, <1>2, <1>3, <1>4, <1>5, <1>6 DEF RowStays

(* Outputs stay where the turn of what is read does. *)
LEMMA OutputsInTurn ==
  ASSUME NEW f, IsDoc(f), InOrder(f), NEW d, IsDoc(d), InOrder(d), OrderChanges(f, d),
         NEW V, V \subseteq LiveTabs(f) \cap LiveTabs(d), SameTurn(f, d, V),
         NEW C, C \subseteq LiveSteps(f) \cap LiveSteps(d),
         \A u \in V : StepsOf(d, u) \subseteq C,
         \A s \in C : /\ Preceding(d, s) \subseteq C
                      /\ ReadsOf(d, s) \cap (LiveTabs(f) \cup LiveTabs(d)) \subseteq V
  PROVE  \A s \in C : Outputs(f)[s] = Outputs(d)[s]
<1> DEFINE m == [s \in Steps(d) |-> s]
<1>1. /\ Steps(f) = Steps(d) /\ \A s \in Steps(d) : TabOf(f, s) = TabOf(d, s)
      /\ \A t : StepsOf(f, t) = StepsOf(d, t)
      /\ \A s \in Steps(d) : Preceding(f, s) = Preceding(d, s) /\ ReadsOf(f, s) = ReadsOf(d, s)
      /\ \A s : s \in LiveSteps(d) => s \in Steps(d)
      /\ \A t, s : s \in StepsOf(d, t) => s \in Steps(d)
      /\ LiveTabs(d) \subseteq Tabs(d)
  BY OrderChangesFacts
<1>2. \A s \in C : s \in Steps(d) /\ TabOf(d, s) \in Tabs(d)
  BY <1>1, DocFacts
<1>3. /\ \A s \in Steps(d) : RowStays(f, d, s)
      /\ \A t \in Tabs(d) : NameOf(f, t) = NameOf(d, t)
  BY DEF OrderChanges
<1>4. \A s \in Steps(d) : m[s] = s
  OBVIOUS
<1> HIDE DEF m
<1>5. SameInside(V, f, d)
  BY <1>1, <1>3 DEF SameInside, RowStays
<1>6. \A u \in V : \A s \in StepsOf(f, u) : s \in C /\ m[s] = s
  BY <1>1, <1>4
<1>7. ASSUME NEW s \in C
      PROVE  /\ m[s] \in LiveSteps(d)
             /\ ParamsOf(f, s) = ParamsOf(d, m[s]) /\ VersionOf(f, s) = VersionOf(d, m[s])
             /\ NameOf(f, TabOf(f, s)) = NameOf(d, TabOf(d, m[s]))
             /\ Preceding(f, s) \subseteq C /\ Pairs(m, f, Preceding(f, s), d, Preceding(d, m[s]))
             /\ ReadsOf(f, s) \cap (LiveTabs(f) \cup LiveTabs(d)) \subseteq V
  <2>1. s \in Steps(d) /\ m[s] = s /\ RowStays(f, d, s) /\ NameOf(f, TabOf(f, s)) = NameOf(d, TabOf(d, s))
    BY <1>1, <1>2, <1>3, <1>4
  <2>2. Preceding(f, s) = Preceding(d, s) /\ ReadsOf(f, s) = ReadsOf(d, s)
    BY <1>1, <2>1
  <2>3. \A r \in Preceding(d, s) : r \in Steps(d) /\ m[r] = r /\ Place(f, r) = Place(d, r)
    BY <1>2, <1>3, <1>4 DEF RowStays
  <2>4. Pairs(m, f, Preceding(f, s), d, Preceding(d, m[s]))
    BY <2>1, <2>2, <2>3 DEF Pairs
  <2> QED
    BY <2>1, <2>2, <2>4 DEF RowStays
<1>8. \A s \in C : Outputs(f)[s] = Outputs(d)[m[s]]
  BY <1>5, <1>6, <1>7, SameOutputs
<1> QED
  BY <1>2, <1>4, <1>8

(* ReorderTabs: the outputs that do not depend on the tabs that move stay. *)
LEMMA OutputsUnmoved ==
  ASSUME NEW f, IsDoc(f), InOrder(f), NEW d, IsDoc(d), InOrder(d), OrderChanges(f, d),
         LiveTabs(f) = LiveTabs(d), NEW T,
         \A t \in LiveTabs(d) \ T : PlaceOf(Order(f), t) = PlaceOf(Order(d), t),
         NEW s \in LiveSteps(d), s \notin Dependents(d, T)
  PROVE  Outputs(f)[s] = Outputs(d)[s]
<1>1. PICK U : /\ T \subseteq U /\ Dependents(d, T) = DependOn(d, U)
               /\ \A r \in DependOn(d, U) : TabOf(d, r) \in U
  BY DependentsFacts
<1> DEFINE C == LiveSteps(d) \ DependOn(d, U)
           V == LiveTabs(d) \ U
<1>2. /\ \A r : r \in LiveSteps(d) <=> r \in Steps(d) /\ TabOf(d, r) \in LiveTabs(d) /\ ~Gone(d, r)
      /\ \A r : r \in LiveSteps(f) <=> r \in Steps(d) /\ TabOf(d, r) \in LiveTabs(f) /\ ~Gone(d, r)
      /\ \A t, r : r \in StepsOf(d, t) <=> r \in Steps(d) /\ TabOf(d, r) = t /\ ~Gone(d, r)
  BY OrderChangesFacts
<1>3. SameTurn(f, d, V)
  BY <1>1 DEF SameTurn, AtOrBefore, Order
<1>4. \A u \in V : StepsOf(d, u) \subseteq C
  BY <1>1, <1>2
<1>5. \A r \in C : Preceding(d, r) \subseteq C /\ ReadsOf(d, r) \cap LiveTabs(d) \subseteq V
  BY IndependentFacts
<1>6. C \subseteq LiveSteps(f) \cap LiveSteps(d) /\ V \subseteq LiveTabs(f) \cap LiveTabs(d)
  BY <1>2
<1>7. s \in C
  BY <1>1
<1> HIDE DEF C, V
<1>8. LiveTabs(f) \cup LiveTabs(d) = LiveTabs(d)
  OBVIOUS
<1> QED
  BY <1>3, <1>4, <1>5, <1>6, <1>7, <1>8, OutputsInTurn

(* DeleteTab: outputs stay if nobody reads the tab. *)
LEMMA OutputsWithout ==
  ASSUME NEW f, IsDoc(f), InOrder(f), NEW d, IsDoc(d), InOrder(d), OrderChanges(f, d),
         LiveTabs(f) \subseteq LiveTabs(d), SameTurn(f, d, LiveTabs(f)),
         \A s \in LiveSteps(f) : ReadsOf(f, s) \cap LiveTabs(d) \subseteq LiveTabs(f)
  PROVE  \A s \in LiveSteps(f) : s \in LiveSteps(d) /\ Outputs(f)[s] = Outputs(d)[s]
<1>1. /\ \A r : r \in LiveSteps(d) <=> r \in Steps(d) /\ TabOf(d, r) \in LiveTabs(d) /\ ~Gone(d, r)
      /\ \A r : r \in LiveSteps(f) <=> r \in Steps(d) /\ TabOf(d, r) \in LiveTabs(f) /\ ~Gone(d, r)
      /\ \A t, r : r \in StepsOf(d, t) <=> r \in Steps(d) /\ TabOf(d, r) = t /\ ~Gone(d, r)
      /\ \A r \in Steps(d) : ReadsOf(f, r) = ReadsOf(d, r)
      /\ \A r \in Steps(d) : Preceding(d, r) \subseteq StepsOf(d, TabOf(d, r))
  BY OrderChangesFacts
<1>2. LiveSteps(f) \subseteq LiveSteps(f) \cap LiveSteps(d)
  BY <1>1
<1>3. \A u \in LiveTabs(f) : StepsOf(d, u) \subseteq LiveSteps(f)
  BY <1>1
<1>4. \A r \in LiveSteps(f) : Preceding(d, r) \subseteq LiveSteps(f)
  BY <1>1, <1>3
<1>5. \A r \in LiveSteps(f) : ReadsOf(d, r) \cap (LiveTabs(f) \cup LiveTabs(d)) \subseteq LiveTabs(f)
  BY <1>1
<1> QED
  BY <1>2, <1>3, <1>4, <1>5, OutputsInTurn

(* By m, the steps of tab t are copies of those of tab u. *)
Copies(m, d, t, u) ==
  /\ \A s \in StepsOf(d, t) :
       /\ m[s] \in StepsOf(d, u) /\ Place(d, s) = Place(d, m[s])
       /\ ParamsOf(d, s) = ParamsOf(d, m[s]) /\ VersionOf(d, s) = VersionOf(d, m[s])
  /\ \A r \in StepsOf(d, u) : \E s \in StepsOf(d, t) : m[s] = r

(* DuplicateTab: outputs stay, since nobody reads the new tab; and the     *)
(* copies have the same, unless their tab has another name.                *)
LEMMA OutputsDoubled ==
  ASSUME NEW f, IsDoc(f), InOrder(f), NEW d, IsDoc(d), InOrder(d), OrderChanges(f, d),
         NEW t, t \notin LiveTabs(d), LiveTabs(f) = LiveTabs(d) \cup {t},
         SameTurn(f, d, LiveTabs(d)), \A s \in LiveSteps(d) : t \notin ReadsOf(d, s),
         NEW u \in LiveTabs(d), NEW m, Copies(m, d, t, u)
  PROVE  /\ \A s \in LiveSteps(d) : Outputs(f)[s] = Outputs(d)[s]
         /\ NameOf(d, t) = NameOf(d, u) => \A s \in StepsOf(d, t) : Outputs(f)[s] = Outputs(d)[m[s]]
<1>1. /\ Steps(f) = Steps(d) /\ \A s \in Steps(d) : TabOf(f, s) = TabOf(d, s)
      /\ \A x : StepsOf(f, x) = StepsOf(d, x)
      /\ \A s \in Steps(d) : /\ Preceding(f, s) = Preceding(d, s) /\ ReadsOf(f, s) = ReadsOf(d, s)
                             /\ Preceding(d, s) \subseteq StepsOf(d, TabOf(d, s))
      /\ LiveTabs(f) \subseteq Tabs(d) /\ LiveTabs(d) \subseteq Tabs(d)
      /\ \A s : s \in LiveSteps(d) <=> s \in Steps(d) /\ TabOf(d, s) \in LiveTabs(d) /\ ~Gone(d, s)
      /\ \A s : s \in LiveSteps(f) <=> s \in Steps(d) /\ TabOf(d, s) \in LiveTabs(f) /\ ~Gone(d, s)
      /\ \A x, s : s \in StepsOf(d, x) <=> s \in Steps(d) /\ TabOf(d, s) = x /\ ~Gone(d, s)
  BY OrderChangesFacts
<1>2. /\ \A s \in Steps(d) : RowStays(f, d, s)
      /\ \A x \in Tabs(d) : NameOf(f, x) = NameOf(d, x)
  BY DEF OrderChanges
<1>3. \A s \in LiveSteps(d) : Preceding(d, s) \subseteq LiveSteps(d)
  BY <1>1
<1>4. \A s \in LiveSteps(d) : ReadsOf(d, s) \cap (LiveTabs(f) \cup LiveTabs(d)) \subseteq LiveTabs(d)
  OBVIOUS
<1>5. \A s \in LiveSteps(d) : Outputs(f)[s] = Outputs(d)[s]
  <2>1. LiveSteps(d) \subseteq LiveSteps(f) \cap LiveSteps(d)
    BY <1>1
  <2>2. \A x \in LiveTabs(d) : StepsOf(d, x) \subseteq LiveSteps(d)
    BY <1>1
  <2> QED
    BY <1>3, <1>4, <2>1, <2>2, OutputsInTurn
<1>6. ASSUME NameOf(d, t) = NameOf(d, u)
      PROVE  \A s \in StepsOf(d, t) : Outputs(f)[s] = Outputs(d)[m[s]]
  <2> DEFINE M == [s \in Steps(d) |-> IF TabOf(d, s) = t THEN m[s] ELSE s]
  <2>1. /\ \A s \in StepsOf(d, t) : M[s] = m[s]
        /\ \A s \in LiveSteps(d) : M[s] = s
    BY <1>1
  <2> HIDE DEF M
  <2>2. SameInside(LiveTabs(d), f, d)
    <3>1. \A x \in LiveTabs(d) : \A s \in StepsOf(d, x) : s \in LiveSteps(d) /\ s \in Steps(d)
      BY <1>1
    <3>2. LiveTabs(d) \subseteq LiveTabs(f) \cap LiveTabs(d)
      OBVIOUS
    <3> QED
      BY <1>1, <1>2, <1>4, <3>1, <3>2 DEF SameInside, RowStays
  <2>3. \A x \in LiveTabs(d) : \A s \in StepsOf(f, x) : s \in LiveSteps(f) /\ M[s] = s
    BY <1>1, <2>1
  <2>4. ASSUME NEW s \in LiveSteps(f)
        PROVE  /\ M[s] \in LiveSteps(d)
               /\ ParamsOf(f, s) = ParamsOf(d, M[s]) /\ VersionOf(f, s) = VersionOf(d, M[s])
               /\ NameOf(f, TabOf(f, s)) = NameOf(d, TabOf(d, M[s]))
               /\ Preceding(f, s) \subseteq LiveSteps(f)
               /\ Pairs(M, f, Preceding(f, s), d, Preceding(d, M[s]))
               /\ ReadsOf(f, s) \cap (LiveTabs(f) \cup LiveTabs(d)) \subseteq LiveTabs(d)
    <3>1. /\ s \in Steps(d) /\ RowStays(f, d, s) /\ TabOf(f, s) = TabOf(d, s)
          /\ TabOf(d, s) \in LiveTabs(f) /\ TabOf(d, s) \in Tabs(d)
          /\ NameOf(f, TabOf(f, s)) = NameOf(d, TabOf(d, s))
          /\ Preceding(f, s) = Preceding(d, s) /\ ReadsOf(f, s) = ReadsOf(d, s)
          /\ s \in StepsOf(d, TabOf(d, s)) /\ Preceding(d, s) \subseteq StepsOf(d, TabOf(d, s))
      BY <1>1, <1>2
    <3>2. Preceding(f, s) \subseteq LiveSteps(f)
      BY <1>1, <3>1
    <3>3. \A r \in Preceding(d, s) : Place(f, r) = Place(d, r)
      BY <1>1, <1>2, <3>1 DEF RowStays
    <3>4. CASE TabOf(d, s) # t
      <4>1. s \in LiveSteps(d) /\ M[s] = s
        BY <1>1, <2>1, <3>1, <3>4
      <4>2. \A r \in Preceding(d, s) : M[r] = r
        BY <1>3, <2>1, <4>1
      <4>3. Pairs(M, f, Preceding(f, s), d, Preceding(d, M[s]))
        BY <3>1, <3>3, <4>1, <4>2 DEF Pairs
      <4> QED
        BY <1>4, <3>1, <3>2, <4>1, <4>3 DEF RowStays
    <3>5. CASE TabOf(d, s) = t
      <4>1. s \in StepsOf(d, t) /\ M[s] = m[s] /\ m[s] \in StepsOf(d, u) /\ m[s] \in Steps(d)
            /\ TabOf(d, m[s]) = u /\ m[s] \in LiveSteps(d)
        BY <1>1, <2>1, <3>1, <3>5 DEF Copies
      <4>2. /\ ParamsOf(d, s) = ParamsOf(d, m[s]) /\ VersionOf(d, s) = VersionOf(d, m[s])
            /\ Place(d, s) = Place(d, m[s])
        BY <4>1 DEF Copies
      <4>3. /\ \A r : r \in Preceding(d, s) <=> r \in StepsOf(d, t) /\ Place(d, r) < Place(d, s)
            /\ \A r : r \in Preceding(d, m[s]) <=> r \in StepsOf(d, u) /\ Place(d, r) < Place(d, m[s])
        BY <3>5, <4>1 DEF Preceding, TabOf, Place
      <4>4. \A r \in StepsOf(d, t) : /\ M[r] = m[r] /\ m[r] \in StepsOf(d, u)
                                     /\ Place(d, r) = Place(d, m[r])
        BY <2>1 DEF Copies
      <4>5. \A q \in StepsOf(d, u) : \E r \in StepsOf(d, t) : m[r] = q
        BY DEF Copies
      <4>6. \A r \in Preceding(d, s) : M[r] \in Preceding(d, m[s]) /\ Place(d, r) = Place(d, M[r])
        BY <4>2, <4>3, <4>4
      <4>7. \A q \in Preceding(d, m[s]) : \E r \in Preceding(d, s) : M[r] = q
        BY <4>2, <4>3, <4>4, <4>5
      <4>8. Pairs(M, f, Preceding(f, s), d, Preceding(d, M[s]))
        BY <3>1, <3>3, <4>1, <4>6, <4>7 DEF Pairs
      <4>9. ReadsOf(d, s) = ReadsOf(d, m[s])
        BY <4>2 DEF ReadsOf, ParamsOf
      <4> QED
        BY <1>4, <1>6, <3>1, <3>2, <3>5, <4>1, <4>2, <4>8, <4>9 DEF RowStays
    <3> QED
      BY <3>4, <3>5
  <2>5. \A s \in LiveSteps(f) : Outputs(f)[s] = Outputs(d)[M[s]]
    BY <2>2, <2>3, <2>4, SameOutputs
  <2>6. \A s \in StepsOf(d, t) : s \in LiveSteps(f)
    BY <1>1
  <2> QED
    BY <2>1, <2>5, <2>6
<1> QED
  BY <1>5, <1>6

(* The turn of the other tabs stays when one is put in ... *)
LEMMA TurnInserted ==
  ASSUME NEW T, NEW list, IsOrder(list, T), NEW t \in T, t \notin Range(list),
         NEW p \in 1 .. Len(list) + 1, NEW r, r = InsertAt(list, p, t)
  PROVE  \A u, v \in Range(list) :
           PlaceOf(r, u) <= PlaceOf(r, v) <=> PlaceOf(list, u) <= PlaceOf(list, v)
<1>1. /\ list \in Seq(T) /\ IsOrder(r, T) /\ r \in Seq(T) /\ Len(r) = Len(list) + 1
      /\ Len(list) \in Nat /\ IsInserted(r, list, p, t)
  <2>1. list \in Seq(T)
    BY DEF IsOrder
  <2>2. IsOrder(r, T)
    BY OrderInserted
  <2> QED
    BY <2>1, <2>2, InsertFacts
<1> DEFINE To(i) == IF i < p THEN i ELSE i + 1
<1>2. ASSUME NEW i \in 1 .. Len(list)
      PROVE  PlaceOf(list, list[i]) = i /\ PlaceOf(r, list[i]) = To(i)
  <2>1. To(i) \in 1 .. Len(list) + 1 /\ r[To(i)] = list[i]
    BY <1>1 DEF IsInserted
  <2>2. PlaceOf(r, r[To(i)]) = To(i)
    BY <1>1, <2>1, PlaceOfFacts
  <2> QED
    BY <2>1, <2>2, PlaceOfFacts
<1>3. \A u \in Range(list) : \E i \in 1 .. Len(list) : u = list[i]
  BY <1>1, LenProperties DEF Range
<1>4. \A i, j \in 1 .. Len(list) : To(i) <= To(j) <=> i <= j
  BY <1>1
<1> HIDE DEF To
<1> QED
  BY <1>2, <1>3, <1>4

(* ... or taken out. *)
LEMMA TurnRemoved ==
  ASSUME NEW T, NEW list, IsOrder(list, T), NEW p \in 1 .. Len(list), Len(list) > 1,
         NEW r, r = RemoveAt(list, p)
  PROVE  \A u, v \in Range(r) :
           PlaceOf(r, u) <= PlaceOf(r, v) <=> PlaceOf(list, u) <= PlaceOf(list, v)
<1>1. /\ list \in Seq(T) /\ IsOrder(r, T) /\ r \in Seq(T) /\ Len(r) = Len(list) - 1
      /\ Len(list) \in Nat /\ IsRemoved(r, list, p)
  <2>1. list \in Seq(T)
    BY DEF IsOrder
  <2>2. IsOrder(r, T)
    BY OrderRemoved
  <2> QED
    BY <2>1, <2>2, RemoveFacts
<1> DEFINE To(i) == IF i < p THEN i ELSE i + 1
<1>2. ASSUME NEW i \in 1 .. Len(r)
      PROVE  PlaceOf(r, r[i]) = i /\ PlaceOf(list, r[i]) = To(i)
  <2>1. To(i) \in 1 .. Len(list) /\ list[To(i)] = r[i]
    BY <1>1 DEF IsRemoved
  <2>2. PlaceOf(list, list[To(i)]) = To(i)
    BY <2>1, PlaceOfFacts
  <2> QED
    BY <1>1, <2>1, <2>2, PlaceOfFacts
<1>3. \A u \in Range(r) : \E i \in 1 .. Len(r) : u = r[i]
  BY <1>1, LenProperties DEF Range
<1>4. \A i, j \in 1 .. Len(r) : To(i) <= To(j) <=> i <= j
  BY <1>1
<1> HIDE DEF To
<1> QED
  BY <1>2, <1>3, <1>4

(* Rows that nobody sees change no output. *)
LEMMA OutputsGrown ==
  ASSUME NEW a, IsDoc(a), InOrder(a), NEW b, IsDoc(b), InOrder(b), NEW x, Grown(a, b, x)
  PROVE  /\ LiveSteps(a) = LiveSteps(b)
         /\ \A s \in LiveSteps(b) :
              /\ s \in Steps(b) /\ DeltaOf(a, s) = DeltaOf(b, s) /\ ReadsOf(a, s) = ReadsOf(b, s)
              /\ Outputs(a)[s] = Outputs(b)[s]
<1>1. /\ \A t \in Tabs(b) : StepsOf(a, t) = StepsOf(b, t)
      /\ LiveTabs(a) = LiveTabs(b) /\ LiveTabs(b) \subseteq Tabs(b) /\ Order(a) = Order(b)
  BY GrownSteps, LiveTabsFacts DEF Grown, LiveTabs, Order
<1>2. LiveSteps(a) = LiveSteps(b)
  BY <1>1 DEF LiveSteps
<1>3. Agree(a, b, Steps(b), Tabs(b)) /\ Extends(x, b) /\ Frame(a, x)
  BY DEF Grown
<1>4. /\ \A s \in Steps(b) : TabOf(a, s) = TabOf(b, s)
      /\ \A s : s \in LiveSteps(b) <=> s \in Steps(b) /\ TabOf(b, s) \in LiveTabs(b) /\ ~Gone(b, s)
      /\ \A t, s : s \in StepsOf(b, t) <=> s \in Steps(b) /\ TabOf(b, s) = t /\ ~Gone(b, s)
  BY <1>3, LiveStepsFacts, TabFacts DEF Extends, Frame
<1>5. \A s \in Steps(b) : /\ Place(a, s) = Place(b, s) /\ DeltaOf(a, s) = DeltaOf(b, s)
                          /\ ParamsOf(a, s) = ParamsOf(b, s) /\ VersionOf(a, s) = VersionOf(b, s)
                          /\ ReadsOf(a, s) = ReadsOf(b, s)
  BY <1>3 DEF Agree, ReadsOf, ParamsOf
<1>6. \A t \in Tabs(b) : NameOf(a, t) = NameOf(b, t)
  BY <1>3 DEF Agree
<1> DEFINE m == [s \in LiveSteps(b) |-> s]
           V == LiveTabs(b)
<1>7. \A s \in LiveSteps(b) : m[s] = s
  OBVIOUS
<1> HIDE DEF m
<1>8. SameInside(V, a, b)
  <2>1. SameTurn(a, b, V)
    BY <1>1 DEF SameTurn, AtOrBefore, Order
  <2>2. \A t \in V : StepsOf(a, t) = StepsOf(b, t) /\ NameOf(a, t) = NameOf(b, t)
    BY <1>1, <1>6
  <2>3. \A t \in V : \A s \in StepsOf(b, t) : Place(a, s) = Place(b, s) /\ ReadsOf(a, s) = ReadsOf(b, s)
    BY <1>4, <1>5
  <2> QED
    BY <1>1, <2>1, <2>2, <2>3 DEF SameInside
<1>9. \A t \in V : \A s \in StepsOf(a, t) : s \in LiveSteps(a) /\ m[s] = s
  BY <1>1, <1>2, <1>4, <1>7
<1>10. ASSUME NEW s \in LiveSteps(a)
       PROVE  /\ m[s] \in LiveSteps(b)
              /\ ParamsOf(a, s) = ParamsOf(b, m[s]) /\ VersionOf(a, s) = VersionOf(b, m[s])
              /\ NameOf(a, TabOf(a, s)) = NameOf(b, TabOf(b, m[s]))
              /\ Preceding(a, s) \subseteq LiveSteps(a)
              /\ Pairs(m, a, Preceding(a, s), b, Preceding(b, m[s]))
              /\ ReadsOf(a, s) \cap (LiveTabs(a) \cup LiveTabs(b)) \subseteq V
  <2>1. /\ s \in LiveSteps(b) /\ m[s] = s /\ s \in Steps(b) /\ TabOf(a, s) = TabOf(b, s)
        /\ TabOf(b, s) \in LiveTabs(b) /\ TabOf(b, s) \in Tabs(b)
    BY <1>1, <1>2, <1>4, <1>7
  <2>2. /\ \A r : r \in Preceding(a, s) <=> r \in StepsOf(b, TabOf(b, s)) /\ Place(a, r) < Place(a, s)
        /\ \A r : r \in Preceding(b, s) <=> r \in StepsOf(b, TabOf(b, s)) /\ Place(b, r) < Place(b, s)
    BY <1>1, <2>1 DEF Preceding, TabOf, Place
  <2>3. /\ Preceding(a, s) = Preceding(b, s)
        /\ \A r \in Preceding(b, s) : r \in LiveSteps(b) /\ m[r] = r /\ Place(a, r) = Place(b, r)
    BY <1>4, <1>5, <1>7, <2>1, <2>2
  <2>4. Pairs(m, a, Preceding(a, s), b, Preceding(b, m[s]))
    BY <2>1, <2>3 DEF Pairs
  <2> QED
    BY <1>1, <1>2, <1>5, <1>6, <2>1, <2>3, <2>4
<1>11. \A s \in LiveSteps(a) : Outputs(a)[s] = Outputs(b)[m[s]]
  BY <1>8, <1>9, <1>10, SameOutputs
<1> QED
  BY <1>2, <1>4, <1>5, <1>7, <1>11

(* The delta of a command names all steps whose output it may change: what *)
(* the handlers and affected_step_delta_ids() see to.                      *)
Touches(e, d) ==
  /\ e.command \in {"AddStep", "SetStepParams", "SetStepDataVersion"} =>
       DOMAIN e.ids = AffectedFrom(d, TabOf(d, e.step), Place(d, e.step))
  /\ e.command = "DeleteStep" =>
       DOMAIN e.ids = AffectedFrom(d, TabOf(d, e.step), Place(d, e.step) + 1)
  /\ e.command = "ReorderSteps" =>
       \E p \in Nat :
         /\ DOMAIN e.ids = AffectedFrom(d, e.tab, p)
         /\ \A s \in StepsOf(d, e.tab) :
              Place(d, s) < p \/ Rank(e.forth, s) < p => Rank(e.forth, s) = Place(d, s)
  /\ e.command = "SetTabName" => DOMAIN e.ids = AffectedFrom(d, e.tab, 0)
  /\ e.command = "ReorderTabs" =>
       \E T : /\ DOMAIN e.ids = Dependents(d, T)
              /\ \A t \in LiveTabs(d) \ T : PlaceOf(e.forth, t) = PlaceOf(Order(d), t)

(* What changes is from there on, ... *)
LEMMA ChangesGo ==
  ASSUME NEW d, IsDoc(d), InOrder(d), NEW e, Made(e, d), NEW f, Goes(f, d, e, "forth"),
         e.command \in StepCommands
  PROVE  ChangesFrom(f, d, TabOf(d, e.step), Place(d, e.step))
<1>1. /\ SameRows(f, d) /\ Order(f) = OrderAfter(d, e, "forth")
      /\ \A t \in Tabs(d) : NameOf(f, t) = NameAfter(d, e, "forth", t)
      /\ \A s \in Steps(d) : Place(f, s) = PlaceAfter(d, e, "forth", s)
      /\ \A s \in Steps(d) : Gone(f, s) <=> GoneAfter(d, e, "forth", s)
      /\ \A s \in Steps(d) : ParamsOf(f, s) = ParamsAfter(d, e, "forth", s)
      /\ \A s \in Steps(d) : VersionOf(f, s) = VersionAfter(d, e, "forth", s)
  BY DEF Goes, Works
<1>2. /\ e.step \in Steps(d) /\ Frame(f, d) /\ Order(f) = Order(d)
      /\ \A t \in Tabs(d) : NameOf(f, t) = NameOf(d, t)
  BY <1>1 DEF Made, Fits, SameRows, Frame, OrderAfter, Adding, Removing, NameAfter, StepCommands
<1> DEFINE r == e.step
           t == TabOf(d, r)
           p == Place(d, r)
<1>3. /\ \A s \in Steps(d) : Place(d, s) \in Nat
      /\ \A n : \A s : s \in Behind(d, r, n) <=>
           /\ s \in Steps(d) /\ TabOf(d, s) = t /\ ~Gone(d, s) /\ Place(d, s) >= p + n
  BY DocFacts, BehindFacts
<1>4. ASSUME NEW s \in Steps(d),
             \/ TabOf(d, s) # t
             \/ ~Gone(d, s) /\ Place(d, s) < p
             \/ ~Gone(f, s) /\ Place(f, s) < p
      PROVE  RowStays(f, d, s)
  <2>1. p \in Nat /\ Place(d, s) \in Nat
    BY <1>2, <1>3
  <2>2. CASE e.command = "AddStep"
    <3>1. /\ ParamsOf(f, s) = ParamsOf(d, s) /\ VersionOf(f, s) = VersionOf(d, s)
          /\ Gone(f, s) <=> Gone(d, s) /\ s # r
          /\ Place(f, s) = IF s \in Behind(d, r, 0) THEN Place(d, s) + 1 ELSE Place(d, s)
      BY <1>1, <2>2 DEF ParamsAfter, VersionAfter, GoneAfter, PlaceAfter, Opening, Closing
    <3>2. Gone(d, r)
      BY <2>2 DEF Made
    <3>3. s # r /\ s \notin Behind(d, r, 0)
      BY <1>3, <1>4, <2>1, <3>1, <3>2
    <3> QED
      BY <3>1, <3>3 DEF RowStays
  <2>3. CASE e.command = "DeleteStep"
    <3>1. /\ ParamsOf(f, s) = ParamsOf(d, s) /\ VersionOf(f, s) = VersionOf(d, s)
          /\ Gone(f, s) <=> Gone(d, s) \/ s = r
          /\ Place(f, s) = IF s \in Behind(d, r, 1) THEN Place(d, s) - 1 ELSE Place(d, s)
      BY <1>1, <2>3 DEF ParamsAfter, VersionAfter, GoneAfter, PlaceAfter, Opening, Closing
    <3>2. s # r /\ s \notin Behind(d, r, 1)
      BY <1>3, <1>4, <2>1, <3>1
    <3> QED
      BY <3>1, <3>2 DEF RowStays
  <2>4. CASE e.command \in {"SetStepParams", "SetStepDataVersion"}
    <3>1. /\ Gone(f, s) <=> Gone(d, s)
          /\ Place(f, s) = Place(d, s)
          /\ s # r => ParamsOf(f, s) = ParamsOf(d, s) /\ VersionOf(f, s) = VersionOf(d, s)
      BY <1>1, <2>4 DEF ParamsAfter, VersionAfter, GoneAfter, PlaceAfter, Opening, Closing
    <3>2. s # r
      BY <1>4, <2>1, <3>1
    <3> QED
      BY <3>1, <3>2 DEF RowStays
  <2> QED
    BY <2>2, <2>3, <2>4 DEF StepCommands
<1> QED
  BY <1>2, <1>4 DEF ChangesFrom

(* ... or of this tab. *)
LEMMA TabChangesGo ==
  ASSUME NEW d, IsDoc(d), InOrder(d), NEW e, Made(e, d), NEW f, Goes(f, d, e, "forth")
  PROVE  /\ e.command = "SetTabName" => ChangesFrom(f, d, e.tab, 0)
         /\ e.command = "ReorderSteps" =>
              \A p \in Nat :
                (\A s \in StepsOf(d, e.tab) :
                   Place(d, s) < p \/ Rank(e.forth, s) < p => Rank(e.forth, s) = Place(d, s))
                => ChangesFrom(f, d, e.tab, p)
         /\ e.command \in {"ReorderTabs", "DuplicateTab", "DeleteTab"} => OrderChanges(f, d)
<1>1. /\ SameRows(f, d) /\ Order(f) = OrderAfter(d, e, "forth")
      /\ \A t \in Tabs(d) : NameOf(f, t) = NameAfter(d, e, "forth", t)
      /\ \A s \in Steps(d) : Place(f, s) = PlaceAfter(d, e, "forth", s)
      /\ \A s \in Steps(d) : Gone(f, s) <=> GoneAfter(d, e, "forth", s)
      /\ \A s \in Steps(d) : ParamsOf(f, s) = ParamsAfter(d, e, "forth", s)
      /\ \A s \in Steps(d) : VersionOf(f, s) = VersionAfter(d, e, "forth", s)
  BY DEF Goes, Works
<1>2. Frame(f, d)
  BY <1>1 DEF SameRows, Frame
<1>3. ASSUME e.command \in {"ReorderTabs", "DuplicateTab", "DeleteTab", "SetTabName"}
      PROVE  \A s \in Steps(d) : RowStays(f, d, s)
  BY <1>1, <1>3 DEF RowStays, ParamsAfter, VersionAfter, GoneAfter, PlaceAfter, Opening, Closing
<1>4. ASSUME e.command = "SetTabName"
      PROVE  ChangesFrom(f, d, e.tab, 0)
  <2>1. Order(f) = Order(d) /\ \A u \in Tabs(d) : u # e.tab => NameOf(f, u) = NameOf(d, u)
    BY <1>1, <1>4 DEF OrderAfter, Adding, Removing, NameAfter
  <2> QED
    BY <1>2, <1>3, <1>4, <2>1 DEF ChangesFrom
<1>5. ASSUME e.command = "ReorderSteps", NEW p \in Nat,
             \A s \in StepsOf(d, e.tab) :
               Place(d, s) < p \/ Rank(e.forth, s) < p => Rank(e.forth, s) = Place(d, s)
      PROVE  ChangesFrom(f, d, e.tab, p)
  <2>1. Order(f) = Order(d) /\ \A u \in Tabs(d) : NameOf(f, u) = NameOf(d, u)
    BY <1>1, <1>5 DEF OrderAfter, Adding, Removing, NameAfter
  <2>2. Range(e.forth) = StepsOf(d, e.tab)
    BY <1>5 DEF Made
  <2>3. ASSUME NEW s \in Steps(d)
        PROVE  /\ ParamsOf(f, s) = ParamsOf(d, s) /\ VersionOf(f, s) = VersionOf(d, s)
               /\ (Gone(f, s) <=> Gone(d, s))
               /\ Place(f, s) = IF s \in StepsOf(d, e.tab) THEN Rank(e.forth, s) ELSE Place(d, s)
    BY <1>1, <1>5, <2>2 DEF ParamsAfter, VersionAfter, GoneAfter, PlaceAfter, Opening, Closing, Data
  <2>4. \A s : s \in StepsOf(d, e.tab) <=> s \in Steps(d) /\ TabOf(d, s) = e.tab /\ ~Gone(d, s)
    BY TabFacts
  <2>5. ASSUME NEW s \in Steps(d),
               \/ TabOf(d, s) # e.tab
               \/ ~Gone(d, s) /\ Place(d, s) < p
               \/ ~Gone(f, s) /\ Place(f, s) < p
        PROVE  RowStays(f, d, s)
    BY <1>5, <2>3, <2>4, <2>5 DEF RowStays
  <2> QED
    BY <1>2, <2>1, <2>5 DEF ChangesFrom
<1>6. ASSUME e.command \in {"ReorderTabs", "DuplicateTab", "DeleteTab"}
      PROVE  OrderChanges(f, d)
  <2>1. \A u \in Tabs(d) : NameOf(f, u) = NameOf(d, u)
    BY <1>1, <1>6 DEF NameAfter
  <2> QED
    BY <1>2, <1>3, <1>6, <2>1 DEF OrderChanges
<1> QED
  BY <1>4, <1>5, <1>6

(* So the outputs of the steps that a delta does not name stay, with all   *)
(* commands but the two that show and hide tabs.                           *)
LEMMA OutputsGo ==
  ASSUME NEW d, IsDoc(d), InOrder(d), NEW e, Made(e, d), Touches(e, d),
         e.command \notin {"DuplicateTab", "DeleteTab"},
         NEW f, Goes(f, d, e, "forth"), NEW s \in LiveSteps(f), s \in LiveSteps(d),
         s \notin DOMAIN e.ids
  PROVE  Outputs(f)[s] = Outputs(d)[s]
<1>1. IsDoc(f) /\ InOrder(f) /\ LiveTabs(f) = LiveAfter(e, LiveTabs(d))
  BY OrderGoes, LiveTabsGo DEF Goes, Works, SameRows
<1>2. e.command \in Commands
  BY DEF Made, Fits
<1>3. CASE e.command \in {"AddStep", "SetStepParams", "SetStepDataVersion"}
  <2>1. e.step \in Steps(d) /\ ChangesFrom(f, d, TabOf(d, e.step), Place(d, e.step))
    BY <1>3, ChangesGo DEF Made, Fits, StepCommands
  <2>2. Place(d, e.step) \in Nat
    BY <2>1, DocFacts
  <2> QED
    BY <1>1, <1>3, <2>1, <2>2, OutputsBelow DEF Touches
<1>4. CASE e.command = "DeleteStep"
  <2>1. e.step \in Steps(d) /\ ChangesFrom(f, d, TabOf(d, e.step), Place(d, e.step))
    BY <1>4, ChangesGo DEF Made, Fits, StepCommands
  <2>2. /\ Place(d, e.step) \in Nat /\ \A r \in Steps(d) : Place(d, r) \in Nat
        /\ TabOf(d, e.step) \in Tabs(d)
    BY <2>1, DocFacts
  <2>3. s \in Steps(d) /\ Gone(f, e.step) /\ s # e.step
    <3>1. Gone(f, e.step)
      BY <1>4, <2>1 DEF Goes, Works, GoneAfter, Closing
    <3> QED
      BY <3>1, LiveStepsFacts
  <2>4. s \notin InTab(d, TabOf(d, e.step), Place(d, e.step))
    <3>1. s \notin InTab(d, TabOf(d, e.step), Place(d, e.step) + 1)
      BY <1>4 DEF Touches, AffectedFrom
    <3>2. PICK n \in Nat : Dense(d, TabOf(d, e.step), n)
      BY <2>2 DEF InOrder
    <3>3. e.step \in StepsOf(d, TabOf(d, e.step))
      BY <1>4, <2>1, TabFacts DEF Made
    <3>4. \A r \in StepsOf(d, TabOf(d, e.step)) : Place(d, r) = Place(d, e.step) => r = e.step
      BY <3>2, <3>3 DEF Dense
    <3> QED
      BY <2>2, <2>3, <3>1, <3>4, TabFacts
  <2>5. s \notin AffectedFrom(d, TabOf(d, e.step), Place(d, e.step))
    BY <1>4, <2>4 DEF Touches, AffectedFrom
  <2> QED
    BY <1>1, <2>1, <2>2, <2>5, OutputsBelow
<1>5. CASE e.command = "ReorderSteps"
  <2>1. PICK p \in Nat :
          /\ DOMAIN e.ids = AffectedFrom(d, e.tab, p)
          /\ \A r \in StepsOf(d, e.tab) :
               Place(d, r) < p \/ Rank(e.forth, r) < p => Rank(e.forth, r) = Place(d, r)
    BY <1>5 DEF Touches
  <2>2. ChangesFrom(f, d, e.tab, p)
    BY <1>5, <2>1, TabChangesGo
  <2> QED
    BY <1>1, <2>1, <2>2, OutputsBelow
<1>6. CASE e.command = "SetTabName"
  <2>1. ChangesFrom(f, d, e.tab, 0)
    BY <1>6, TabChangesGo
  <2> QED
    BY <1>1, <1>6, <2>1, OutputsBelow DEF Touches
<1>7. CASE e.command = "ReorderTabs"
  <2>1. OrderChanges(f, d) /\ Order(f) = e.forth
    BY <1>7, TabChangesGo DEF Goes, Works, OrderAfter, Data
  <2>2. LiveTabs(f) = LiveTabs(d)
    BY <1>1, <1>7 DEF LiveAfter
  <2>3. PICK T : /\ DOMAIN e.ids = Dependents(d, T)
                 /\ \A t \in LiveTabs(d) \ T : PlaceOf(e.forth, t) = PlaceOf(Order(d), t)
    BY <1>7 DEF Touches
  <2> QED
    BY <1>1, <2>1, <2>2, <2>3, OutputsUnmoved
<1> QED
  BY <1>2, <1>3, <1>4, <1>5, <1>6, <1>7 DEF Commands

(* DeleteTab leaves the outputs, if nobody reads the tab any more. *)
LEMMA OutputsHidden ==
  ASSUME NEW d, IsDoc(d), InOrder(d), NEW e, Made(e, d), e.command = "DeleteTab",
         NEW f, Goes(f, d, e, "forth"), \A s \in LiveSteps(f) : e.tab \notin ReadsOf(f, s)
  PROVE  \A s \in LiveSteps(f) : s \in LiveSteps(d) /\ Outputs(f)[s] = Outputs(d)[s]
<1>1. /\ IsDoc(f) /\ InOrder(f) /\ LiveTabs(f) = LiveTabs(d) \ {e.tab} /\ OrderChanges(f, d)
  <2>1. IsDoc(f) /\ InOrder(f) /\ LiveTabs(f) = LiveAfter(e, LiveTabs(d))
    BY OrderGoes, LiveTabsGo DEF Goes, Works, SameRows
  <2> QED
    BY <2>1, TabChangesGo DEF LiveAfter
<1>2. SameTurn(f, d, LiveTabs(f))
  <2>1. /\ IsOrder(Order(d), Tabs(d)) /\ e.back \in 1 .. Len(Order(d)) /\ Order(d)[e.back] = e.tab
        /\ Len(Order(d)) > 1
    BY DEF InOrder, Made
  <2>2. PlaceOf(Order(d), e.tab) = e.back
    BY <2>1, PlaceOfFacts
  <2>3. Order(f) = RemoveAt(Order(d), e.back)
    BY <2>2 DEF Goes, Works, OrderAfter, Adding, Removing
  <2>4. \A u, v \in Range(Order(f)) :
          PlaceOf(Order(f), u) <= PlaceOf(Order(f), v) <=> PlaceOf(Order(d), u) <= PlaceOf(Order(d), v)
    BY <2>1, <2>3, TurnRemoved
  <2> QED
    BY <2>4 DEF SameTurn, AtOrBefore, LiveTabs, Order
<1>3. \A s \in LiveSteps(f) : ReadsOf(f, s) \cap LiveTabs(d) \subseteq LiveTabs(f)
  BY <1>1
<1> QED
  BY <1>1, <1>2, <1>3, OutputsWithout

(* DuplicateTab does, since nobody reads the new tab. *)
LEMMA OutputsShown ==
  ASSUME NEW d, IsDoc(d), InOrder(d), NEW e, Made(e, d), e.command = "DuplicateTab",
         NEW f, Goes(f, d, e, "forth"), \A s \in LiveSteps(d) : e.tab \notin ReadsOf(d, s),
         NEW u \in LiveTabs(d), NEW m, Copies(m, d, e.tab, u)
  PROVE  /\ \A s \in LiveSteps(d) : Outputs(f)[s] = Outputs(d)[s]
         /\ \A s \in LiveSteps(f) : s \in LiveSteps(d) \/ s \in StepsOf(d, e.tab)
         /\ NameOf(d, e.tab) = NameOf(d, u) =>
              \A s \in StepsOf(d, e.tab) : Outputs(f)[s] = Outputs(d)[m[s]]
<1>1. /\ IsDoc(f) /\ InOrder(f) /\ LiveTabs(f) = LiveTabs(d) \cup {e.tab} /\ OrderChanges(f, d)
  <2>1. IsDoc(f) /\ InOrder(f) /\ LiveTabs(f) = LiveAfter(e, LiveTabs(d))
    BY OrderGoes, LiveTabsGo DEF Goes, Works, SameRows
  <2> QED
    BY <2>1, TabChangesGo DEF LiveAfter
<1>2. e.tab \notin LiveTabs(d)
  BY DEF Made, LiveTabs, Order
<1>3. SameTurn(f, d, LiveTabs(d))
  <2>1. /\ IsOrder(Order(d), Tabs(d)) /\ e.forth \in 1 .. Len(Order(d)) + 1
        /\ e.tab \notin Range(Order(d)) /\ e.tab \in Tabs(d)
    BY DEF InOrder, Made, Fits
  <2>2. Order(f) = InsertAt(Order(d), e.forth, e.tab)
    BY DEF Goes, Works, OrderAfter, Adding, Removing, Data
  <2>3. \A x, v \in Range(Order(d)) :
          PlaceOf(Order(f), x) <= PlaceOf(Order(f), v) <=> PlaceOf(Order(d), x) <= PlaceOf(Order(d), v)
    BY <2>1, <2>2, TurnInserted
  <2> QED
    BY <2>3 DEF SameTurn, AtOrBefore, LiveTabs, Order
<1>4. \A s \in LiveSteps(f) : s \in LiveSteps(d) \/ s \in StepsOf(d, e.tab)
  BY <1>1, OrderChangesFacts
<1> QED
  BY <1>1, <1>2, <1>3, <1>4, OutputsDoubled

-----------------------------------------------------------------------------
(* The invariant.                                                          *)

(* The deltas have ascending ids, up to n. *)
IsChain(ds, n) ==
  /\ n \in Nat /\ ds \in Seq(Range(ds))
  /\ \A i \in 1 .. Len(ds) : ds[i].id \in Nat /\ 0 < ds[i].id /\ ds[i].id <= n
  /\ \A i, j \in 1 .. Len(ds) : i < j => ds[i].id < ds[j].id

(* The first k are applied. *)
IsAt(k, ds, l) == k \in 0 .. Len(ds) /\ l = IF k = 0 THEN None ELSE ds[k].id

(* The ids of steps and of tabs are 1, 2, 3 ... *)
Numbered(d) ==
  (\E n \in Nat : Steps(d) = 1 .. n) /\ (\E m \in Nat : Tabs(d) = 1 .. m)

Sound(d) == IsDoc(d) /\ InOrder(d) /\ ChosenAreThere(d) /\ Numbered(d)

(* The deltas tell a story, and d is the k-th document in it. *)
HasStory(ds, k, d) == \E D : IsStory(D, ds, k, d)

Inv ==
  /\ IsChain(deltas, now)
  /\ {queued, revived, raced} \subseteq BOOLEAN
  /\ \E k \in 0 .. Len(deltas) :
       IsAt(k, deltas, last) /\ (~raced => Sound(doc) /\ HasStory(deltas, k, doc))

(* The last delta splits the chain at one place. *)
LEMMA SplitFacts ==
  ASSUME NEW ds, NEW n, IsChain(ds, n), NEW k, NEW l, IsAt(k, ds, l)
  PROVE  /\ k \in 0 .. Len(ds) /\ Len(ds) \in Nat /\ k \in Nat /\ l \in Nat
         /\ \A i \in DOMAIN ds : ds[i].id <= l <=> i <= k
         /\ \A m \in 0 .. Len(ds) : (\A i \in DOMAIN ds : ds[i].id <= l <=> i <= m) => m = k
<1>1. Len(ds) \in Nat /\ DOMAIN ds = 1 .. Len(ds)
  BY LenProperties DEF IsChain
<1>2. k \in 0 .. Len(ds) /\ k \in Nat /\ k <= Len(ds)
  BY <1>1 DEF IsAt
<1>3. \A i \in DOMAIN ds : ds[i].id <= l <=> i <= k
  <2> TAKE i \in DOMAIN ds
  <2>1. CASE k = 0
    BY <1>1, <2>1 DEF IsAt, IsChain, None
  <2>2. CASE k # 0
    <3>1. l = ds[k].id /\ k \in 1 .. Len(ds) /\ i \in 1 .. Len(ds)
      BY <1>1, <1>2, <2>2 DEF IsAt
    <3>2. i < k => ds[i].id < ds[k].id
      BY <3>1 DEF IsChain
    <3>3. k < i => ds[k].id < ds[i].id
      BY <3>1 DEF IsChain
    <3>4. ds[i].id \in Nat /\ ds[k].id \in Nat
      BY <3>1 DEF IsChain
    <3>5. i < k \/ i = k \/ k < i
      BY <3>1
    <3> QED
      BY <3>1, <3>2, <3>3, <3>4, <3>5
  <2> QED
    BY <2>1, <2>2
<1>4. l \in Nat
  BY <1>2 DEF IsAt, IsChain, None
<1>5. ASSUME NEW m \in 0 .. Len(ds), \A i \in DOMAIN ds : ds[i].id <= l <=> i <= m
      PROVE  m = k
  <2>1. m \in Nat /\ m <= Len(ds)
    BY <1>1
  <2>2. CASE m < k
    <3>1. k \in DOMAIN ds /\ k <= k /\ ~(k <= m)
      BY <1>1, <1>2, <2>1, <2>2
    <3> QED
      BY <1>3, <1>5, <3>1
  <2>3. CASE k < m
    <3>1. m \in DOMAIN ds /\ m <= m /\ ~(m <= k)
      BY <1>1, <1>2, <2>1, <2>3
    <3> QED
      BY <1>3, <1>5, <3>1
  <2> QED
    BY <1>2, <2>1, <2>2, <2>3
<1> QED
  BY <1>1, <1>2, <1>3, <1>4, <1>5

(* The deltas that are applied, and those undone. *)
LEMMA AppliedFacts ==
  ASSUME NEW n, IsChain(deltas, n), NEW k, IsAt(k, deltas, last)
  PROVE  /\ NApplied = k /\ k \in 0 .. Len(deltas) /\ Len(deltas) \in Nat /\ k \in Nat
         /\ Applied \in Seq(Range(deltas)) /\ Len(Applied) = k
         /\ \A i \in 1 .. k : Applied[i] = deltas[i]
         /\ Undone \in Seq(Range(deltas)) /\ Len(Undone) = Len(deltas) - k
         /\ \A i \in 1 .. Len(deltas) - k : Undone[i] = deltas[k + i]
<1> DEFINE R == Range(deltas)
<1>1. /\ k \in 0 .. Len(deltas) /\ Len(deltas) \in Nat /\ k \in Nat
      /\ \A i \in DOMAIN deltas : deltas[i].id <= last <=> i <= k
      /\ \A m \in 0 .. Len(deltas) :
           (\A i \in DOMAIN deltas : deltas[i].id <= last <=> i <= m) => m = k
  BY SplitFacts
<1>2. NApplied = k
  BY <1>1 DEF NApplied
<1>3. deltas \in Seq(R) /\ \A i \in 1 .. Len(deltas) : deltas[i] \in R
  BY ElementOfSeq DEF IsChain
<1> HIDE DEF R
<1>5. Applied \in Seq(R) /\ Len(Applied) = k /\ \A i \in 1 .. k : Applied[i] = deltas[i]
  <2>1. 1 \in Int /\ k \in Int /\ \A i \in 1 .. k : deltas[i] \in R
    BY <1>1, <1>3
  <2>2. /\ SubSeq(deltas, 1, k) \in Seq(R)
        /\ Len(SubSeq(deltas, 1, k)) = IF 1 <= k THEN k - 1 + 1 ELSE 0
        /\ \A i \in 1 .. k - 1 + 1 : SubSeq(deltas, 1, k)[i] = deltas[1 + i - 1]
    BY <2>1, SubSeqProperties
  <2>3. Applied = SubSeq(deltas, 1, k)
    BY <1>2 DEF Applied
  <2> QED
    BY <1>1, <2>2, <2>3
<1>6. /\ Undone \in Seq(R) /\ Len(Undone) = Len(deltas) - k
      /\ \A i \in 1 .. Len(deltas) - k : Undone[i] = deltas[k + i]
  <2>1. k + 1 \in Int /\ Len(deltas) \in Int /\ \A i \in k + 1 .. Len(deltas) : deltas[i] \in R
    BY <1>1, <1>3
  <2>2. /\ SubSeq(deltas, k + 1, Len(deltas)) \in Seq(R)
        /\ Len(SubSeq(deltas, k + 1, Len(deltas))) =
             IF k + 1 <= Len(deltas) THEN Len(deltas) - (k + 1) + 1 ELSE 0
        /\ \A i \in 1 .. Len(deltas) - (k + 1) + 1 :
             SubSeq(deltas, k + 1, Len(deltas))[i] = deltas[(k + 1) + i - 1]
    BY <2>1, SubSeqProperties
  <2>3. Undone = SubSeq(deltas, k + 1, Len(deltas))
    BY <1>2 DEF Undone
  <2>4. ASSUME NEW i \in 1 .. Len(deltas) - k PROVE Undone[i] = deltas[k + i]
    <3>1. i \in 1 .. Len(deltas) - (k + 1) + 1 /\ (k + 1) + i - 1 = k + i
      BY <1>1
    <3> QED
      BY <2>2, <2>3, <3>1
  <2>5. Len(Undone) = Len(deltas) - k
    BY <1>1, <2>2, <2>3
  <2> QED
    BY <2>2, <2>3, <2>4, <2>5
<1> QED
  BY <1>1, <1>2, <1>5, <1>6 DEF R

(* Delta e is what do() makes of its arguments ... *)
Written(e, d, command, step, tab, back, forth, affected) ==
  /\ e.id = now + 1 /\ e.command = command /\ e.step = step /\ e.tab = tab
  /\ e.back = back /\ e.forth = forth
  /\ DOMAIN e.ids = affected /\ \A s \in affected : e.ids[s] = DeltaOf(d, s)
  /\ e.before = Content(doc) /\ e.after = Content(Forward(d, e))

(* ... and it is committed. *)
Commits(d, e) ==
  /\ doc' = Forward(d, e) /\ now' = now + 1 /\ last' = e.id /\ deltas' = Append(Applied, e)
  /\ queued' = (queued \/ ModifiesRenderOutput(Forward(d, e), e))
  /\ revived' = (revived \/ (/\ e.command \in {"DeleteStep", "DeleteTab"}
                             /\ Stale(Forward(d, e)) \ LiveSteps(doc) # {}))
  /\ dangled' = (dangled \/ \E t \in LiveTabs(doc) \ LiveTabs(Forward(d, e)) :
                              Dependents(Forward(d, e), {t}) # {})

(* do() does both. *)
LEMMA DoWrites ==
  ASSUME NEW d, NEW command, NEW step, NEW tab, NEW back, NEW forth, NEW affected,
         Do(d, command, step, tab, back, forth, affected)
  PROVE  \E e : Written(e, d, command, step, tab, back, forth, affected) /\ Commits(d, e)
<1> DEFINE e0 == [id |-> now + 1, command |-> command, step |-> step, tab |-> tab,
                  back |-> back, forth |-> forth,
                  ids |-> [s \in affected |-> d.steps[s].delta],
                  before |-> Content(doc), after |-> Content(doc)]
           e  == [e0 EXCEPT !.after = Content(Forward(d, e0))]
<1>1. /\ Commit(Forward(d, e0), e0, e0.id) /\ now' = now + 1 /\ deltas' = Append(Applied, e)
  BY DEF Do, CanEdit
<1>2. /\ e.id = e0.id /\ e.command = e0.command /\ e.step = e0.step /\ e.tab = e0.tab
      /\ e.back = e0.back /\ e.forth = e0.forth /\ e.ids = e0.ids /\ e.before = e0.before
      /\ e.after = Content(Forward(d, e0))
  OBVIOUS
<1>3. /\ e0.id = now + 1 /\ e0.command = command /\ e0.step = step /\ e0.tab = tab
      /\ e0.back = back /\ e0.forth = forth /\ e0.before = Content(doc)
      /\ DOMAIN e0.ids = affected /\ \A s \in affected : e0.ids[s] = DeltaOf(d, s)
  BY DEF DeltaOf
<1> HIDE DEF e0, e
<1>4. Forward(d, e) = Forward(d, e0)
  BY <1>2 DEF Forward
<1>5. \A f : ModifiesRenderOutput(f, e) = ModifiesRenderOutput(f, e0)
  BY <1>2 DEF ModifiesRenderOutput
<1>6. Written(e, d, command, step, tab, back, forth, affected)
  BY <1>2, <1>3, <1>4 DEF Written
<1>7. Commits(d, e)
  BY <1>1, <1>2, <1>4, <1>5 DEF Commit, Commits
<1> QED
  BY <1>6, <1>7

-----------------------------------------------------------------------------
(* What the handlers do.                                                   *)

(* New steps are those of the commands that add any. *)
NewOnes(d, e) ==
  /\ \A s \in Steps(doc) : ResultOf(d, s) = ResultOf(doc, s)
  /\ \A s \in Steps(d) \ Steps(doc) :
       e.command = "AddStep" \/ (e.command = "DuplicateTab" /\ TabOf(d, s) = e.tab)

(* By m, the new tab of e is a copy of tab u; and a result that is copied   *)
(* is fresh, and does not depend on the name of the tab.                   *)
AreCopies(m, d, e, u) ==
  /\ Copies(m, d, e.tab, u)
  /\ \A s \in StepsOf(d, e.tab) :
       /\ DeltaOf(d, s) = DeltaOf(d, m[s])
       /\ ResultOf(d, s) # <<>> => /\ NameOf(d, e.tab) = NameOf(d, u)
                                  /\ ResultOf(d, s) = ResultOf(d, m[s])
                                  /\ ResultOf(d, s)[1].delta = DeltaOf(d, m[s])

(* What is new reads the tabs there are, and has no result, or a copy of one. *)
Brings(d, e) ==
  /\ e.command = "AddStep" =>
       /\ \A s \in Steps(d) \ Steps(doc) : s = e.step
       /\ DeltaOf(d, e.step) = None /\ ResultOf(d, e.step) = <<>>
       /\ ReadsOf(d, e.step) \subseteq Tabs(doc)
  /\ e.command = "SetStepParams" => e.forth.reads \subseteq Tabs(doc)
  /\ e.command = "DuplicateTab" =>
       e.tab \notin Tabs(doc) /\ \E u \in LiveTabs(doc) : \E m : AreCopies(m, d, e, u)

(* A handler writes a delta on the rows there are, and new ones. *)
Done ==
  \E d, e :
    /\ Sound(d) /\ Grown(d, doc, d) /\ Made(e, d)
    /\ e.command = "AddStep" => e.step \notin Steps(doc)
    /\ e.id = now + 1 /\ e.before = Content(doc) /\ e.after = Content(Forward(d, e))
    /\ NewOnes(d, e) /\ Commits(d, e) /\ Touches(e, d) /\ Brings(d, e)

(* What is known of a document in order. *)
LEMMA SoundFacts ==
  ASSUME Inv, ~raced
  PROVE  /\ Sound(doc) /\ IsDoc(doc) /\ InOrder(doc) /\ now \in Nat
         /\ LiveTabs(doc) \subseteq Tabs(doc)
         /\ Steps(doc) \subseteq Nat
         /\ \A s \in LiveSteps(doc) : s \in Steps(doc) /\ TabOf(doc, s) \in Tabs(doc) /\ ~Gone(doc, s)
         /\ \A T : Dependents(doc, T) \subseteq Steps(doc)
         /\ \A t, p : AffectedFrom(doc, t, p) \subseteq Steps(doc)
<1>1. Sound(doc) /\ IsDoc(doc) /\ InOrder(doc) /\ now \in Nat
  BY DEF Inv, Sound, IsChain
<1>2. LiveTabs(doc) \subseteq Tabs(doc)
  BY <1>1, LiveTabsFacts
<1>3. Steps(doc) \subseteq Nat
  BY <1>1 DEF Sound, Numbered
<1>4. \A s \in LiveSteps(doc) : s \in Steps(doc) /\ TabOf(doc, s) \in Tabs(doc) /\ ~Gone(doc, s)
  BY <1>2, LiveStepsFacts
<1>5. \A T : Dependents(doc, T) \subseteq Steps(doc)
  BY <1>4, LiveStepsFacts
<1>6. \A t, p : AffectedFrom(doc, t, p) \subseteq Steps(doc)
  BY AffectedFacts
<1> QED
  BY <1>1, <1>2, <1>3, <1>4, <1>5, <1>6

(* What all deltas have. *)
LEMMA WrittenFacts ==
  ASSUME now \in Nat, NEW d, IsDoc(d), NEW command \in Commands, NEW step, NEW tab, NEW back,
         NEW forth, NEW affected, affected \subseteq Steps(d), NEW e,
         Written(e, d, command, step, tab, back, forth, affected)
  PROVE  /\ e.command = command /\ e.command \in Commands /\ e.id \in Nat \ {0}
         /\ DOMAIN e.ids = affected /\ DOMAIN e.ids \subseteq Steps(d)
         /\ \A s \in DOMAIN e.ids : e.ids[s] \in Nat /\ e.ids[s] = DeltaOf(d, s)
         /\ e.step = step /\ e.tab = tab /\ e.back = back /\ e.forth = forth
         /\ e.id = now + 1 /\ e.before = Content(doc) /\ e.after = Content(Forward(d, e))
BY DocFacts DEF Written

(* These arguments make a delta that undo can take back. *)
IsSensible(command, step, tab, back, forth, affected) ==
  \A e : /\ e.command = command /\ e.command \in Commands /\ e.id \in Nat \ {0}
         /\ DOMAIN e.ids = affected /\ DOMAIN e.ids \subseteq Steps(doc)
         /\ \A s \in DOMAIN e.ids : e.ids[s] \in Nat /\ e.ids[s] = DeltaOf(doc, s)
         /\ e.step = step /\ e.tab = tab /\ e.back = back /\ e.forth = forth
         => Made(e, doc) /\ Touches(e, doc) /\ Brings(doc, e)

(* A handler that adds no rows. *)
LEMMA HandlerDone ==
  ASSUME Inv, ~raced, NEW command \in Commands \ {"AddStep"}, NEW step, NEW tab, NEW back,
         NEW forth, NEW affected, affected \subseteq Steps(doc),
         Do(doc, command, step, tab, back, forth, affected),
         IsSensible(command, step, tab, back, forth, affected)
  PROVE  Done
<1>1. Sound(doc) /\ IsDoc(doc) /\ now \in Nat
  BY SoundFacts
<1>2. PICK e : Written(e, doc, command, step, tab, back, forth, affected) /\ Commits(doc, e)
  BY DoWrites
<1>3. /\ e.command = command /\ e.command \in Commands /\ e.id \in Nat \ {0}
      /\ DOMAIN e.ids = affected /\ DOMAIN e.ids \subseteq Steps(doc)
      /\ \A s \in DOMAIN e.ids : e.ids[s] \in Nat /\ e.ids[s] = DeltaOf(doc, s)
      /\ e.step = step /\ e.tab = tab /\ e.back = back /\ e.forth = forth
      /\ e.id = now + 1 /\ e.before = Content(doc) /\ e.after = Content(Forward(doc, e))
  BY <1>1, <1>2, WrittenFacts
<1>4. Made(e, doc) /\ Touches(e, doc) /\ Brings(doc, e)
  BY <1>3 DEF IsSensible
<1>5. Grown(doc, doc, doc)
  <2>1. Same(doc, doc)
    BY <1>1 DEF Same, Frame, Agree
  <2> QED
    BY <2>1, SameIsGrown
<1>6. e.command # "AddStep" /\ NewOnes(doc, e)
  BY <1>3 DEF NewOnes
<1> QED
  BY <1>1, <1>2, <1>3, <1>4, <1>5, <1>6 DEF Done

(* The handlers, one by one: SetStepParams, *)
LEMMA SetStepParamsDone == ASSUME Inv, ~raced, SetStepParams PROVE Done
<1>1. PICK s \in LiveSteps(doc), params \in Params :
        Do(doc, "SetStepParams", s, None, ParamsOf(doc, s), params,
           AffectedFrom(doc, TabOf(doc, s), Place(doc, s)))
  BY DEF SetStepParams, ParamsOf, TabOf, Place
<1>2. /\ s \in Steps(doc) /\ AffectedFrom(doc, TabOf(doc, s), Place(doc, s)) \subseteq Steps(doc)
      /\ params.reads \subseteq Tabs(doc)
  BY SoundFacts DEF Params
<1> DEFINE good == IsSensible("SetStepParams", s, None, ParamsOf(doc, s), params,
             AffectedFrom(doc, TabOf(doc, s), Place(doc, s)))
<1>20. good
  BY <1>2 DEF IsSensible, Made, Fits, StepCommands, Touches, Brings
<1> HIDE DEF good
<1> QED
  BY <1>1, <1>2, <1>20, HandlerDone DEF Commands, good

(* SetStepDataVersion, if the Step in memory is current, *)
LEMMA SetStepDataVersionDone == ASSUME Inv, ~raced, ~raced', SetStepDataVersion PROVE Done
<1> DEFINE r == Head(loaded)
<1>1. /\ Do(doc, "SetStepDataVersion", r.step, None, r.version, now + 1,
            AffectedFrom(doc, r.tab, r.order))
      /\ IsCurrent(r)
  BY DEF SetStepDataVersion
<1> HIDE DEF r
<1>2. /\ r.step \in Steps(doc) /\ VersionOf(doc, r.step) = r.version
      /\ TabOf(doc, r.step) = r.tab /\ Place(doc, r.step) = r.order
  BY <1>1, SoundFacts DEF IsCurrent, VersionOf, TabOf, Place
<1>3. AffectedFrom(doc, r.tab, r.order) \subseteq Steps(doc)
  BY SoundFacts
<1> DEFINE good == IsSensible("SetStepDataVersion", r.step, None, r.version, now + 1,
             AffectedFrom(doc, r.tab, r.order))
<1>20. good
  BY <1>2, <1>3 DEF IsSensible, Made, Fits, StepCommands, Touches, Brings
<1> HIDE DEF good
<1> QED
  BY <1>1, <1>3, <1>20, HandlerDone DEF Commands, good

(* DeleteStep, *)
LEMMA DeleteStepDone == ASSUME Inv, ~raced, DeleteStep PROVE Done
<1>1. PICK s \in LiveSteps(doc) :
        Do(doc, "DeleteStep", s, None, 0, 0,
           AffectedFrom(doc, TabOf(doc, s), Place(doc, s) + 1))
  BY DEF DeleteStep, TabOf, Place
<1>2. /\ s \in Steps(doc) /\ ~Gone(doc, s)
      /\ AffectedFrom(doc, TabOf(doc, s), Place(doc, s) + 1) \subseteq Steps(doc)
  BY SoundFacts
<1> DEFINE good == IsSensible("DeleteStep", s, None, 0, 0,
             AffectedFrom(doc, TabOf(doc, s), Place(doc, s) + 1))
<1>20. good
  BY <1>2 DEF IsSensible, Made, Fits, StepCommands, Touches, Brings
<1> HIDE DEF good
<1> QED
  BY <1>1, <1>2, <1>20, HandlerDone DEF Commands, good

(* SetTabName, *)
LEMMA SetTabNameDone == ASSUME Inv, ~raced, SetTabName PROVE Done
<1>1. PICK t \in LiveTabs(doc), name \in Names :
        Do(doc, "SetTabName", None, t, NameOf(doc, t), name,
           StepsOf(doc, t) \cup Dependents(doc, {t}))
  BY DEF SetTabName, NameOf
<1>2. t \in Tabs(doc) /\ StepsOf(doc, t) \cup Dependents(doc, {t}) \subseteq Steps(doc)
  <2>1. StepsOf(doc, t) \subseteq Steps(doc)
    BY LiveStepsFacts
  <2> QED
    BY <2>1, SoundFacts
<1> DEFINE good == IsSensible("SetTabName", None, t, NameOf(doc, t), name,
             StepsOf(doc, t) \cup Dependents(doc, {t}))
<1>3. StepsOf(doc, t) \cup Dependents(doc, {t}) = AffectedFrom(doc, t, 0)
  <2>1. \A s \in StepsOf(doc, t) : Place(doc, s) >= 0
    BY SoundFacts, LiveStepsFacts, DocFacts
  <2>2. \A s : s \in InTab(doc, t, 0) <=> s \in StepsOf(doc, t) /\ Place(doc, s) >= 0
    BY DEF InTab, Place
  <2>3. InTab(doc, t, 0) = StepsOf(doc, t)
    BY <2>1, <2>2
  <2> QED
    BY <2>3 DEF AffectedFrom
<1>20. good
  BY <1>2, <1>3 DEF IsSensible, Made, Fits, StepCommands, Touches, Brings
<1> HIDE DEF good
<1> QED
  BY <1>1, <1>2, <1>20, HandlerDone DEF Commands, good

(* ReorderTabs, *)
LEMMA ReorderTabsDone == ASSUME Inv, ~raced, ReorderTabs PROVE Done
<1> DEFINE Changed(new) == {i \in DOMAIN Order(doc) : Order(doc)[i] # new[i]}
           Between(new)  == {Order(doc)[i] : i \in {j \in DOMAIN Order(doc) :
                               \E a, b \in Changed(new) : a <= j /\ j <= b}}
<1>0. PICK new :
        /\ new \in SetToSeqs(LiveTabs(doc))
        /\ Do(doc, "ReorderTabs", None, None, Order(doc), new, Dependents(doc, Between(new)))
  BY Zenon DEF ReorderTabs, Order
<1>1. PICK moved :
        /\ new \in SetToSeqs(LiveTabs(doc)) /\ moved = Between(new)
        /\ Do(doc, "ReorderTabs", None, None, Order(doc), new, Dependents(doc, moved))
  BY <1>0
<1>2. IsOrder(Order(doc), Tabs(doc)) /\ Dependents(doc, moved) \subseteq Steps(doc)
  BY SoundFacts DEF InOrder
<1>3. LiveTabs(doc) = Range(Order(doc))
  BY DEF LiveTabs, Order
<1>4. IsFiniteSet(LiveTabs(doc)) /\ LiveTabs(doc) # {} /\ LiveTabs(doc) \subseteq Tabs(doc)
  BY <1>2, <1>3, CountOrder, LiveTabsFacts, SoundFacts
<1>5. /\ new \in Seq(LiveTabs(doc)) /\ Range(new) = LiveTabs(doc)
      /\ \A i, j \in DOMAIN new : new[i] = new[j] => i = j
  <2>1. PICK S : S = LiveTabs(doc)
    OBVIOUS
  <2>2. IsFiniteSet(S) /\ new \in SetToSeqs(S)
    BY <1>1, <1>4, <2>1
  <2>3. /\ new \in Seq(S) /\ Range(new) = S
        /\ \A i, j \in DOMAIN new : new[i] = new[j] => i = j
    BY ONLY <2>2, AllOfThem
  <2> QED
    BY <2>1, <2>3
<1>6. IsOrder(new, Tabs(doc))
  <2>1. new \in Seq(Tabs(doc))
    <3>1. DOMAIN new = 1 .. Len(new) /\ Len(new) \in Nat /\ \A i \in 1 .. Len(new) : new[i] \in LiveTabs(doc)
      BY <1>5, LenProperties, ElementOfSeq
    <3>2. new \in [1 .. Len(new) -> Tabs(doc)]
      <4>1. new = [i \in 1 .. Len(new) |-> new[i]]
        BY <1>5, LenProperties
      <4> QED
        BY <1>4, <3>1, <4>1
    <3> QED
      BY <3>1, <3>2, SeqDef
  <2>2. new # <<>>
    BY <1>4, <1>5 DEF Range
  <2> QED
    BY <1>5, <2>1, <2>2 DEF IsOrder
<1>7. ASSUME NEW t \in LiveTabs(doc) \ moved
      PROVE  PlaceOf(new, t) = PlaceOf(Order(doc), t)
  <2>1. PICK o : o = Order(doc)
    OBVIOUS
  <2>2. IsOrder(o, Tabs(doc)) /\ Range(o) = LiveTabs(doc)
    BY <1>2, <1>3, <2>1
  <2>3. Len(new) = Len(o) /\ Len(o) \in Nat
    BY <1>5, <1>6, <2>2, CountOrder
  <2>4. DOMAIN o = 1 .. Len(o)
    BY <2>2, LenProperties DEF IsOrder
  <2>5. PICK i \in 1 .. Len(o) : o[i] = t
    BY <2>2, <2>4 DEF Range
  <2>6. new[i] = t
    <3>1. ASSUME o[i] # new[i] PROVE FALSE
      <4>1. i \in Changed(new) /\ i <= i
        BY <2>1, <2>3, <2>4, <3>1
      <4>2. t \in Between(new)
        BY <2>1, <2>4, <2>5, <4>1
      <4> QED
        BY <1>1, <4>2
    <3> QED
      BY <2>5, <3>1
  <2>7. PlaceOf(new, new[i]) = i /\ PlaceOf(o, o[i]) = i
    BY <1>6, <2>2, <2>3, <2>5, PlaceOfFacts
  <2> QED
    BY <2>1, <2>5, <2>6, <2>7
<1> DEFINE good == IsSensible("ReorderTabs", None, None, Order(doc), new,
             Dependents(doc, moved))
<1>20. good
  BY <1>2, <1>3, <1>5, <1>6, <1>7 DEF IsSensible, Made, Fits, StepCommands, Touches, Brings
<1> HIDE DEF good
<1> QED
  BY <1>1, <1>2, <1>20, HandlerDone DEF Commands, good

(* DeleteTab, *)
LEMMA DeleteTabDone == ASSUME Inv, ~raced, DeleteTab PROVE Done
<1>1. PICK i \in DOMAIN Order(doc) : Do(doc, "DeleteTab", None, Order(doc)[i], i, 0, {})
  BY DEF DeleteTab, Order
<1>2. Len(Order(doc)) > 1
  BY DEF DeleteTab, Order
<1>3. Order(doc) \in Seq(Tabs(doc))
  BY SoundFacts DEF InOrder, IsOrder
<1>4. i \in 1 .. Len(Order(doc)) /\ Order(doc)[i] \in Tabs(doc)
  BY <1>1, <1>3, LenProperties, ElementOfSeq
<1> DEFINE good == IsSensible("DeleteTab", None, Order(doc)[i], i, 0, {})
<1>20. good
  BY <1>2, <1>4 DEF IsSensible, Made, Fits, StepCommands, Touches, Brings
<1> HIDE DEF good
<1> QED
  BY <1>1, <1>20, HandlerDone DEF Commands, good

(* Two lists of all of S, none twice, are as long. *)
LEMMA SameCount ==
  ASSUME NEW S, NEW a \in Seq(S), Range(a) = S, NEW b \in Seq(S), Range(b) = S,
         \A i, j \in DOMAIN a : a[i] = a[j] => i = j,
         \A i, j \in DOMAIN b : b[i] = b[j] => i = j
  PROVE  Len(a) = Len(b)
<1>1. ASSUME NEW c \in Seq(S), Range(c) = S, \A i, j \in DOMAIN c : c[i] = c[j] => i = j
      PROVE  Len(c) = Cardinality(S)
  <2>1. CASE c = <<>>
    <3>1. Len(c) = 0 /\ Range(c) = {}
      BY <2>1 DEF Range
    <3> QED
      BY <1>1, <3>1, FS_EmptySet
  <2>2. CASE c # <<>>
    <3>1. IsOrder(c, S)
      BY <1>1, <2>2 DEF IsOrder
    <3> QED
      BY <1>1, <3>1, CountOrder
  <2> QED
    BY <2>1, <2>2
<1> QED
  BY <1>1

(* The steps before the first place that gets another stay. *)
LEMMA FirstChange ==
  ASSUME NEW S, NEW old \in Seq(S), Range(old) = S, NEW new \in Seq(S), Range(new) = S,
         \A i, j \in DOMAIN old : old[i] = old[j] => i = j,
         \A i, j \in DOMAIN new : new[i] = new[j] => i = j,
         new # old, IsFiniteSet(S), NEW p,
         p = (CHOOSE i \in DOMAIN old : old[i] # new[i] /\ \A j \in 1 .. i - 1 : old[j] = new[j]) - 1
  PROVE  /\ p \in Nat
         /\ \A s \in S : Rank(old, s) < p \/ Rank(new, s) < p => Rank(new, s) = Rank(old, s)
<1>1. /\ DOMAIN old = 1 .. Len(old) /\ DOMAIN new = 1 .. Len(new) /\ Len(old) \in Nat
      /\ Len(new) \in Nat
  BY LenProperties
<1>2. Len(old) = Len(new)
  BY SameCount
<1> DEFINE Differ == {i \in 1 .. Len(old) : old[i] # new[i]}
<1>3. Differ # {} /\ Differ \subseteq Nat
  <2>1. Differ = {} => old = new
    BY <1>1, <1>2, SeqEqual
  <2> QED
    BY <2>1
<1>4. PICK i \in Differ : \A j \in Differ : i <= j
  BY <1>3, LeastNumber
<1>5. i \in DOMAIN old /\ old[i] # new[i] /\ \A j \in 1 .. i - 1 : old[j] = new[j]
  BY <1>1, <1>4
<1> DEFINE first == CHOOSE k \in DOMAIN old : old[k] # new[k] /\ \A j \in 1 .. k - 1 : old[j] = new[j]
<1>6. first \in DOMAIN old /\ \A j \in 1 .. first - 1 : old[j] = new[j]
  BY <1>5
<1>7. p = first - 1
  OBVIOUS
<1> HIDE DEF first, Differ
<1>8. p \in Nat
  BY <1>1, <1>6, <1>7
<1>9. ASSUME NEW s \in S, Rank(old, s) < p \/ Rank(new, s) < p
      PROVE  Rank(new, s) = Rank(old, s)
  <2>1. /\ Rank(old, s) \in 0 .. Len(old) - 1 /\ old[Rank(old, s) + 1] = s
        /\ Rank(new, s) \in 0 .. Len(new) - 1 /\ new[Rank(new, s) + 1] = s
    BY RankFacts
  <2>2. CASE Rank(old, s) < p
    <3>1. PICK k : k = Rank(old, s) + 1
      OBVIOUS
    <3>2. k \in 1 .. first - 1 /\ k \in DOMAIN new /\ Rank(new, s) + 1 \in DOMAIN new
      BY <1>1, <1>2, <1>6, <1>7, <2>1, <2>2, <3>1
    <3>3. new[k] = s
      BY <1>6, <2>1, <3>1, <3>2
    <3>4. k = Rank(new, s) + 1
      BY <2>1, <3>2, <3>3
    <3> QED
      BY <2>1, <3>1, <3>4
  <2>3. CASE Rank(new, s) < p
    <3>1. PICK k : k = Rank(new, s) + 1
      OBVIOUS
    <3>2. k \in 1 .. first - 1 /\ k \in DOMAIN old /\ Rank(old, s) + 1 \in DOMAIN old
      BY <1>1, <1>2, <1>6, <1>7, <2>1, <2>3, <3>1
    <3>3. old[k] = s
      BY <1>6, <2>1, <3>1, <3>2
    <3>4. k = Rank(old, s) + 1
      BY <2>1, <3>2, <3>3
    <3> QED
      BY <2>1, <3>1, <3>4
  <2> QED
    BY <1>9, <2>2, <2>3
<1> QED
  BY <1>8, <1>9

(* ReorderSteps, *)
LEMMA ReorderStepsDone == ASSUME Inv, ~raced, ReorderSteps PROVE Done
<1> DEFINE List(t) == Listed(doc, t)
           First(t, new) == CHOOSE i \in DOMAIN List(t) :
                              List(t)[i] # new[i] /\ \A j \in 1 .. i - 1 : List(t)[j] = new[j]
<1>0. PICK t, new :
        /\ t \in LiveTabs(doc) /\ new \in SetToSeqs(Range(List(t))) /\ new # List(t)
        /\ Do(doc, "ReorderSteps", None, t, List(t), new, AffectedFrom(doc, t, First(t, new) - 1))
  BY Zenon DEF ReorderSteps
<1>1. PICK p :
        /\ t \in LiveTabs(doc) /\ new \in SetToSeqs(Range(List(t))) /\ new # List(t)
        /\ p = First(t, new) - 1
        /\ Do(doc, "ReorderSteps", None, t, List(t), new, AffectedFrom(doc, t, p))
  BY <1>0
<1>2. t \in Tabs(doc) /\ IsDoc(doc) /\ Steps(doc) \subseteq Nat
  BY <1>1, SoundFacts
<1>3. PICK n \in Nat : Dense(doc, t, n)
  BY <1>2, SoundFacts DEF InOrder
<1>4. IsListing(List(t), doc, t)
  BY <1>2, <1>3, ListedFacts
<1>5. PICK old : old = List(t)
  OBVIOUS
<1>13. /\ new # old
       /\ p = (CHOOSE i \in DOMAIN old : old[i] # new[i] /\ \A j \in 1 .. i - 1 : old[j] = new[j]) - 1
  BY <1>1, <1>5
<1> HIDE DEF List, First
<1>6. /\ old \in Seq(StepsOf(doc, t)) /\ Range(old) = StepsOf(doc, t)
      /\ \A s \in StepsOf(doc, t) : Rank(old, s) = Place(doc, s)
      /\ \A i, j \in DOMAIN old : old[i] = old[j] => i = j
  BY <1>4, <1>5 DEF IsListing
<1>7. IsFiniteSet(StepsOf(doc, t)) /\ StepsOf(doc, t) \subseteq Steps(doc)
  BY <1>2, <1>3, DenseFacts, LiveStepsFacts
<1>8. /\ new \in Seq(StepsOf(doc, t)) /\ Range(new) = StepsOf(doc, t)
      /\ \A i, j \in DOMAIN new : new[i] = new[j] => i = j
  <2>1. PICK S : S = StepsOf(doc, t)
    OBVIOUS
  <2>2. IsFiniteSet(S) /\ new \in SetToSeqs(S)
    BY <1>1, <1>5, <1>6, <1>7, <2>1
  <2>3. /\ new \in Seq(S) /\ Range(new) = S
        /\ \A i, j \in DOMAIN new : new[i] = new[j] => i = j
    BY ONLY <2>2, AllOfThem
  <2> QED
    BY <2>1, <2>3
<1>9. ASSUME NEW list \in Seq(StepsOf(doc, t)) PROVE list \in Seq(Steps(doc))
  <2>1. /\ DOMAIN list = 1 .. Len(list) /\ Len(list) \in Nat
        /\ \A i \in 1 .. Len(list) : list[i] \in StepsOf(doc, t)
        /\ list = [i \in 1 .. Len(list) |-> list[i]]
    BY LenProperties, ElementOfSeq
  <2>2. list \in [1 .. Len(list) -> Steps(doc)]
    BY <1>7, <2>1
  <2> QED
    BY <2>1, <2>2, SeqDef
<1>10. old \in Seq(Steps(doc)) /\ new \in Seq(Steps(doc))
  BY <1>6, <1>8, <1>9
<1>11. AffectedFrom(doc, t, p) \subseteq Steps(doc)
  BY SoundFacts
<1>12. Do(doc, "ReorderSteps", None, t, old, new, AffectedFrom(doc, t, p))
  BY <1>1, <1>5
<1>14. /\ p \in Nat
       /\ \A s \in StepsOf(doc, t) :
            Place(doc, s) < p \/ Rank(new, s) < p => Rank(new, s) = Place(doc, s)
  <2>1. PICK S : S = StepsOf(doc, t)
    OBVIOUS
  <2>2. /\ old \in Seq(S) /\ Range(old) = S /\ new \in Seq(S) /\ Range(new) = S
        /\ IsFiniteSet(S) /\ \A s \in S : Rank(old, s) = Place(doc, s)
    BY <1>6, <1>7, <1>8, <2>1
  <2>3. /\ p \in Nat
        /\ \A s \in S : Rank(old, s) < p \/ Rank(new, s) < p => Rank(new, s) = Rank(old, s)
    BY ONLY <1>6, <1>8, <1>13, <2>2, FirstChange
  <2> QED
    BY <2>1, <2>2, <2>3
<1> DEFINE good == IsSensible("ReorderSteps", None, t, old, new, AffectedFrom(doc, t, p))
<1>20. good
  BY <1>6, <1>8, <1>10, <1>14 DEF IsSensible, Made, Fits, StepCommands, Touches, Brings
<1> HIDE DEF good
<1> QED
  BY <1>11, <1>12, <1>20, HandlerDone DEF Commands, good

(* d is b with new rows, none of them a step on a tab that b has.          *)
Adds(d, b) ==
  /\ DOMAIN d = {"tabs", "order", "steps"} /\ d.order = b.order
  /\ Tabs(b) \subseteq Tabs(d) /\ Steps(b) \subseteq Steps(d)
  /\ \A t \in Tabs(b) : d.tabs[t] = b.tabs[t]
  /\ \A s \in Steps(b) : d.steps[s] = b.steps[s]
  /\ \A t \in Tabs(d) \ Tabs(b) : DOMAIN d.tabs[t] = {"name", "selected"}
  /\ \A s \in Steps(d) \ Steps(b) :
       /\ DOMAIN d.steps[s] = Columns
       /\ d.steps[s].tab \in Tabs(d) /\ d.steps[s].order \in Nat
       /\ d.steps[s].is_deleted \in BOOLEAN /\ d.steps[s].delta \in Nat
       /\ d.steps[s].tab \in Tabs(b) => d.steps[s].is_deleted = TRUE

(* They grow, and stay in order in the tabs there were. *)
LEMMA AddsFacts ==
  ASSUME NEW b, IsDoc(b), NEW d, Adds(d, b)
  PROVE  /\ IsDoc(d) /\ Grown(d, b, d) /\ Order(d) = Order(b)
         /\ \A t \in Tabs(b) : StepsOf(d, t) = StepsOf(b, t) /\ Chosen(d, t) = Chosen(b, t)
         /\ \A t \in Tabs(b) : \A n : Dense(b, t, n) => Dense(d, t, n)
         /\ \A s \in Steps(b) : ResultOf(d, s) = ResultOf(b, s)
<1>1. IsDoc(d)
  <2>1. \A t \in DOMAIN d.tabs : DOMAIN d.tabs[t] = {"name", "selected"}
    BY DEF Adds, IsDoc, Tabs
  <2>2. \A s \in DOMAIN d.steps :
          /\ DOMAIN d.steps[s] = Columns
          /\ d.steps[s].tab \in DOMAIN d.tabs /\ d.steps[s].order \in Nat
          /\ d.steps[s].is_deleted \in BOOLEAN /\ d.steps[s].delta \in Nat
    <3> TAKE s \in DOMAIN d.steps
    <3>1. CASE s \in Steps(b)
      <4>1. d.steps[s] = b.steps[s]
        BY <3>1 DEF Adds
      <4>2. /\ DOMAIN b.steps[s] = Columns
            /\ b.steps[s].tab \in DOMAIN b.tabs /\ b.steps[s].order \in Nat
            /\ b.steps[s].is_deleted \in BOOLEAN /\ b.steps[s].delta \in Nat
        BY <3>1 DEF IsDoc, Steps
      <4> QED
        BY <4>1, <4>2 DEF Adds, Tabs
    <3>2. CASE s \notin Steps(b)
      BY <3>2 DEF Adds, Tabs, Steps
    <3> QED
      BY <3>1, <3>2
  <2> QED
    BY <2>1, <2>2 DEF Adds, IsDoc
<1>2. \A s \in Steps(b) : /\ TabOf(d, s) = TabOf(b, s) /\ Place(d, s) = Place(b, s)
                          /\ (Gone(d, s) <=> Gone(b, s)) /\ DeltaOf(d, s) = DeltaOf(b, s)
                          /\ ParamsOf(d, s) = ParamsOf(b, s)
                          /\ VersionOf(d, s) = VersionOf(b, s)
  <2> TAKE s \in Steps(b)
  <2>1. d.steps[s] = b.steps[s]
    BY DEF Adds
  <2> QED
    BY <2>1 DEF TabOf, Place, Gone, DeltaOf, ParamsOf, VersionOf
<1>3. \A t \in Tabs(b) : NameOf(d, t) = NameOf(b, t) /\ Chosen(d, t) = Chosen(b, t)
  <2> TAKE t \in Tabs(b)
  <2>1. d.tabs[t] = b.tabs[t]
    BY DEF Adds
  <2> QED
    BY <2>1 DEF NameOf, Chosen
<1>4. Order(d) = Order(b)
  BY DEF Adds, Order
<1>5. Extends(d, b)
  <2>1. \A s \in Steps(d) \ Steps(b) : TabOf(d, s) \in Tabs(b) => Gone(d, s)
    BY DEF Adds, TabOf, Gone
  <2> QED
    BY <1>2, <2>1 DEF Adds, Extends
<1>6. Grown(d, b, d)
  <2>1. Frame(d, d) /\ Agree(d, d, Steps(d) \ Steps(b), Tabs(d) \ Tabs(b))
    BY <1>1 DEF Frame, Agree
  <2>2. Agree(d, b, Steps(b), Tabs(b))
    BY <1>2, <1>3 DEF Agree
  <2> QED
    BY <1>4, <1>5, <2>1, <2>2 DEF Grown
<1>7. \A t \in Tabs(b) : StepsOf(d, t) = StepsOf(b, t)
  BY <1>6, GrownSteps
<1>8. ASSUME NEW t \in Tabs(b), NEW n, Dense(b, t, n)
      PROVE  Dense(d, t, n)
  <2>1. \A s \in StepsOf(b, t) : Place(d, s) = Place(b, s)
    BY <1>2, TabFacts
  <2> QED
    BY <1>7, <1>8, <2>1, SameDense
<1>9. \A s \in Steps(b) : ResultOf(d, s) = ResultOf(b, s)
  <2> TAKE s \in Steps(b)
  <2>1. d.steps[s] = b.steps[s]
    BY DEF Adds
  <2> QED
    BY <2>1 DEF ResultOf
<1> QED
  BY <1>1, <1>3, <1>4, <1>6, <1>7, <1>8, <1>9

(* The new ids are those that come next. *)
LEMMA NewIds ==
  ASSUME Inv, ~raced
  PROVE  \E n, m \in Nat : /\ Steps(doc) = 1 .. n /\ \A i : NewStep(i) = n + i
                           /\ Tabs(doc) = 1 .. m /\ NewTab = m + 1
<1>1. PICK n \in Nat : Steps(doc) = 1 .. n
  BY SoundFacts DEF Sound, Numbered
<1>2. PICK m \in Nat : Tabs(doc) = 1 .. m
  BY SoundFacts DEF Sound, Numbered
<1>3. Cardinality(1 .. n) = n /\ Cardinality(1 .. m) = m
  <2>1. ASSUME NEW q \in Nat PROVE Cardinality(1 .. q) = q
    <3>1. Cardinality(1 .. q) = IF 1 > q THEN 0 ELSE q - 1 + 1
      BY FS_Interval
    <3> QED
      BY <3>1
  <2> QED
    BY <2>1
<1> QED
  BY <1>1, <1>2, <1>3 DEF NewStep, NewTab, Steps, Tabs

(* AddStep, *)
LEMMA AddStepDone == ASSUME Inv, ~raced, AddStep PROVE Done
<1> DEFINE Row(t, p, params) ==
             [tab |-> t, order |-> p, is_deleted |-> TRUE, delta |-> None,
              params |-> params, version |-> 0, crr |-> <<>>]
           With(row) == [doc EXCEPT !.steps = And(@, [s \in {NewStep(1)} |-> row])]
<1>1. PICK t, params, p :
        /\ t \in LiveTabs(doc) /\ params \in Params /\ p \in 0 .. Cardinality(StepsOf(doc, t))
        /\ Do(With(Row(t, p, params)), "AddStep", NewStep(1), None, 0, 0,
              AffectedFrom(With(Row(t, p, params)), t, p))
  BY DEF AddStep
<1>2. PICK row : row = Row(t, p, params)
  OBVIOUS
<1>3. /\ row.tab = t /\ row.order = p /\ row.is_deleted = TRUE /\ row.is_deleted \in BOOLEAN
      /\ row.delta = 0 /\ DOMAIN row = Columns /\ row.params = params /\ row.crr = <<>>
  BY <1>2 DEF Columns, None
<1> HIDE DEF Row
<1>4. PICK d : d = With(row)
  OBVIOUS
<1>5. PICK n, m \in Nat : /\ Steps(doc) = 1 .. n /\ \A i : NewStep(i) = n + i
                          /\ Tabs(doc) = 1 .. m
  BY NewIds
<1>6. PICK new : new = n + 1
  OBVIOUS
<1>7. /\ new = NewStep(1) /\ new \notin Steps(doc) /\ Steps(doc) \cup {new} = 1 .. n + 1
      /\ n + 1 \in Nat
  BY <1>5, <1>6
<1>8. IsDoc(doc) /\ t \in Tabs(doc) /\ now \in Nat /\ Sound(doc)
  BY <1>1, SoundFacts
<1>9. /\ DOMAIN d = {"tabs", "order", "steps"} /\ d.order = doc.order /\ d.tabs = doc.tabs
      /\ Steps(d) = Steps(doc) \cup {new}
      /\ \A s \in Steps(doc) : d.steps[s] = doc.steps[s]
      /\ d.steps[new] = row
  <2>1. d = [doc EXCEPT !.steps = And(doc.steps, [s \in {new} |-> row])]
    BY <1>4, <1>7
  <2>2. DOMAIN doc = {"tabs", "order", "steps"}
    BY <1>8 DEF IsDoc
  <2>3. /\ DOMAIN d = {"tabs", "order", "steps"} /\ d.order = doc.order /\ d.tabs = doc.tabs
        /\ d.steps = And(doc.steps, [s \in {new} |-> row])
    BY <2>1, <2>2
  <2>4. /\ DOMAIN d.steps = DOMAIN doc.steps \cup {new}
        /\ \A s \in DOMAIN doc.steps \cup {new} :
             d.steps[s] = IF s = new THEN row ELSE doc.steps[s]
    BY <2>3 DEF And
  <2> QED
    BY <1>7, <2>3, <2>4 DEF Steps
<1> HIDE DEF With
<1>10. PICK c \in Nat : Dense(doc, t, c) /\ Cardinality(StepsOf(doc, t)) = c
  BY <1>8, SoundFacts, DenseFacts DEF InOrder
<1>11. p \in Nat /\ p <= c
  BY <1>1, <1>10
<1>12. Tabs(d) = Tabs(doc)
  BY <1>9 DEF Tabs
<1>13. Adds(d, doc)
  <2>1. \A s \in Steps(d) \ Steps(doc) : s = new
    BY <1>9
  <2>2. /\ DOMAIN row = Columns /\ row.tab \in Tabs(d) /\ row.order \in Nat
        /\ row.is_deleted \in BOOLEAN /\ row.delta \in Nat /\ row.is_deleted = TRUE
    BY <1>3, <1>8, <1>11, <1>12
  <2>3. /\ Steps(doc) \subseteq Steps(d) /\ Tabs(doc) \subseteq Tabs(d)
        /\ Tabs(d) \ Tabs(doc) = {}
    BY <1>9, <1>12
  <2>4. \A s \in Steps(d) \ Steps(doc) : d.steps[s] = row
    BY <1>9, <2>1
  <2>5. \A u \in Tabs(doc) : d.tabs[u] = doc.tabs[u]
    BY <1>9
  <2>6. \A s \in Steps(d) \ Steps(doc) :
          /\ DOMAIN d.steps[s] = Columns
          /\ d.steps[s].tab \in Tabs(d) /\ d.steps[s].order \in Nat
          /\ d.steps[s].is_deleted \in BOOLEAN /\ d.steps[s].delta \in Nat
          /\ d.steps[s].tab \in Tabs(doc) => d.steps[s].is_deleted = TRUE
    BY <2>2, <2>4
  <2> QED
    BY <1>9, <2>3, <2>5, <2>6 DEF Adds
<1>14. /\ IsDoc(d) /\ Grown(d, doc, d) /\ Order(d) = Order(doc)
       /\ \A s \in Steps(doc) : ResultOf(d, s) = ResultOf(doc, s)
       /\ \A u \in Tabs(doc) : StepsOf(d, u) = StepsOf(doc, u) /\ Chosen(d, u) = Chosen(doc, u)
       /\ \A u \in Tabs(doc) : \A q : Dense(doc, u, q) => Dense(d, u, q)
  BY <1>8, <1>13, AddsFacts
<1>15. Sound(d)
  <2>1. InOrder(d)
    BY <1>8, <1>12, <1>14 DEF Sound, InOrder
  <2>2. ChosenAreThere(d)
    BY <1>8, <1>12, <1>14 DEF Sound, ChosenAreThere
  <2>3. Numbered(d)
    BY <1>5, <1>7, <1>9, <1>12 DEF Numbered
  <2> QED
    BY <1>14, <2>1, <2>2, <2>3 DEF Sound
<1>16. /\ new \in Steps(d) /\ Gone(d, new) /\ TabOf(d, new) = t /\ Place(d, new) = p
  BY <1>3, <1>9 DEF Gone, TabOf, Place
<1>17. AffectedFrom(d, t, p) \subseteq Steps(d) /\ new \notin AffectedFrom(d, t, p)
  BY <1>16, AffectedFacts
<1>18. Do(d, "AddStep", new, None, 0, 0, AffectedFrom(d, t, p))
  BY <1>1, <1>2, <1>4, <1>7
<1>19. PICK e : Written(e, d, "AddStep", new, None, 0, 0, AffectedFrom(d, t, p)) /\ Commits(d, e)
  BY <1>18, DoWrites
<1>20. /\ e.command = "AddStep" /\ e.command \in Commands /\ e.id \in Nat \ {0}
       /\ DOMAIN e.ids = AffectedFrom(d, t, p) /\ DOMAIN e.ids \subseteq Steps(d)
       /\ \A s \in DOMAIN e.ids : e.ids[s] \in Nat /\ e.ids[s] = DeltaOf(d, s)
       /\ e.step = new
       /\ e.id = now + 1 /\ e.before = Content(doc) /\ e.after = Content(Forward(d, e))
  <2>1. "AddStep" \in Commands
    BY DEF Commands
  <2> QED
    BY <1>8, <1>14, <1>17, <1>19, <2>1, DocFacts DEF Written
<1>21. Dense(d, t, c)
  BY <1>8, <1>10, <1>14
<1>22. Made(e, d)
  BY <1>11, <1>16, <1>17, <1>20, <1>21 DEF Made, Fits, StepCommands
<1>23. NewOnes(d, e)
  BY <1>14, <1>20 DEF NewOnes
<1>24. Touches(e, d)
  BY <1>16, <1>20 DEF Touches
<1>25. Brings(d, e)
  <2>1. DeltaOf(d, new) = None /\ ResultOf(d, new) = <<>> /\ ReadsOf(d, new) = params.reads
    BY <1>3, <1>9 DEF DeltaOf, ResultOf, ReadsOf, None
  <2>2. params.reads \subseteq Tabs(doc)
    BY <1>1, SoundFacts DEF Params
  <2> QED
    BY <1>9, <1>20, <2>1, <2>2 DEF Brings
<1> QED
  BY <1>7, <1>14, <1>15, <1>19, <1>20, <1>22, <1>23, <1>24, <1>25 DEF Done

(* The rows of a tab and its copy. *)
Copied(t, name, i) ==
  LET row == doc.steps[Listed(doc, t)[i]]
  IN  [row EXCEPT !.tab = NewTab, !.crr = ResultOfCopy(row, name = doc.tabs[t].name)]

Doubled(t, name) ==
  [doc EXCEPT
     !.tabs = And(@, [u \in {NewTab} |-> [doc.tabs[t] EXCEPT !.name = name]]),
     !.steps = And(@, [s \in {NewStep(i) : i \in DOMAIN Listed(doc, t)} |->
                         Copied(t, name, s - Cardinality(DOMAIN doc.steps))])]

(* DuplicateTab. *)
LEMMA DuplicateTabDone == ASSUME Inv, ~raced, DuplicateTab PROVE Done
<1> DEFINE ids(t) == {NewStep(i) : i \in DOMAIN Listed(doc, t)}
<1>1. PICK t \in LiveTabs(doc), name \in Names :
        Do(Doubled(t, name), "DuplicateTab", None, NewTab, 0, PlaceOf(Order(doc), t) + 1, {})
  BY Zenon DEF DuplicateTab, Doubled, Copied, Order
<1>2. PICK d : d = Doubled(t, name)
  OBVIOUS
<1>3. PICK n, m \in Nat : /\ Steps(doc) = 1 .. n /\ \A i : NewStep(i) = n + i
                          /\ Tabs(doc) = 1 .. m /\ NewTab = m + 1
  BY NewIds
<1>4. PICK new : new = m + 1
  OBVIOUS
<1>5. /\ IsDoc(doc) /\ t \in Tabs(doc) /\ now \in Nat /\ Sound(doc)
      /\ Steps(doc) \subseteq Nat /\ InOrder(doc)
  BY <1>1, SoundFacts
<1>6. PICK c \in Nat : Dense(doc, t, c) /\ Cardinality(StepsOf(doc, t)) = c
  BY <1>5, DenseFacts DEF InOrder
<1>7. PICK old : old = Listed(doc, t)
  OBVIOUS
<1>8. IsListing(old, doc, t) /\ Len(old) = c
  BY <1>5, <1>6, <1>7, ListedFacts
<1>9. /\ DOMAIN old = 1 .. c
      /\ \A i \in 1 .. c : /\ old[i] \in StepsOf(doc, t) /\ Place(doc, old[i]) = i - 1
                           /\ old[i] \in Steps(doc) /\ ~Gone(doc, old[i])
  BY <1>8, LenProperties, LiveStepsFacts DEF IsListing
<1>10. Cardinality(DOMAIN doc.steps) = n
  <2>1. NewStep(0) = n + 0 /\ Cardinality(DOMAIN doc.steps) = Cardinality(1 .. n)
    BY <1>3 DEF Steps
  <2>2. Cardinality(1 .. n) = IF 1 > n THEN 0 ELSE n - 1 + 1
    BY FS_Interval
  <2> QED
    BY <2>1, <2>2
<1>11. ids(t) = n + 1 .. n + c
  <2>1. ids(t) = {n + i : i \in 1 .. c}
    BY <1>3, <1>7, <1>9
  <2>2. \A s : s \in {n + i : i \in 1 .. c} <=> s \in n + 1 .. n + c
    <3>1. ASSUME NEW s \in n + 1 .. n + c PROVE s \in {n + i : i \in 1 .. c}
      <4>1. s - n \in 1 .. c /\ s = n + (s - n)
        OBVIOUS
      <4> QED
        BY <4>1
    <3>2. \A i \in 1 .. c : n + i \in n + 1 .. n + c
      OBVIOUS
    <3> QED
      BY <3>1, <3>2
  <2> QED
    BY <2>1, <2>2
<1> DEFINE Row(s) == Copied(t, name, s - n)
<1>12. ASSUME NEW s \in n + 1 .. n + c
       PROVE  /\ s - n \in 1 .. c /\ DOMAIN Row(s) = Columns /\ Row(s).tab = new
              /\ Row(s).order = s - n - 1 /\ Row(s).is_deleted = FALSE /\ Row(s).delta \in Nat
              /\ Row(s).delta = doc.steps[old[s - n]].delta
              /\ Row(s).params = doc.steps[old[s - n]].params
              /\ Row(s).version = doc.steps[old[s - n]].version
              /\ Row(s).crr = ResultOfCopy(doc.steps[old[s - n]], name = doc.tabs[t].name)
  <2>1. PICK i \in 1 .. c : i = s - n
    OBVIOUS
  <2>2. PICK row : row = doc.steps[old[i]]
    OBVIOUS
  <2>3. /\ DOMAIN row = Columns /\ row.is_deleted = FALSE /\ row.delta \in Nat
        /\ row.order = i - 1
    <3>1. old[i] \in DOMAIN doc.steps /\ ~Gone(doc, old[i]) /\ Place(doc, old[i]) = i - 1
      BY <1>9 DEF Steps
    <3>2. /\ DOMAIN row = Columns /\ row.is_deleted \in BOOLEAN /\ row.delta \in Nat
      BY <1>5, <2>2, <3>1 DEF IsDoc
    <3> QED
      BY <2>2, <3>1, <3>2 DEF Gone, Place
  <2>4. PICK crr : /\ Row(s) = [row EXCEPT !.tab = new, !.crr = crr]
                   /\ crr = ResultOfCopy(row, name = doc.tabs[t].name)
    <3>1. Row(s) = Copied(t, name, i)
      BY <2>1
    <3>2. PICK same : same = (name = doc.tabs[t].name)
      OBVIOUS
    <3>3. Copied(t, name, i) = [row EXCEPT !.tab = NewTab, !.crr = ResultOfCopy(row, same)]
      BY <1>7, <2>2, <3>2, Zenon DEF Copied
    <3> QED
      BY ONLY <1>3, <1>4, <3>1, <3>2, <3>3, Zenon
  <2> HIDE DEF Row
  <2>5. PICK copy : copy = Row(s)
    OBVIOUS
  <2>6. copy = [row EXCEPT !.tab = new, !.crr = crr]
    BY <2>4, <2>5
  <2>7. /\ DOMAIN copy = Columns /\ copy.tab = new /\ copy.order = row.order
        /\ copy.is_deleted = row.is_deleted /\ copy.delta = row.delta
        /\ copy.params = row.params /\ copy.version = row.version /\ copy.crr = crr
    BY ONLY <2>3, <2>6 DEF Columns
  <2> QED
    BY <2>1, <2>2, <2>3, <2>4, <2>5, <2>7
<1>13. /\ DOMAIN d = {"tabs", "order", "steps"} /\ d.order = doc.order
       /\ Tabs(d) = Tabs(doc) \cup {new} /\ Steps(d) = Steps(doc) \cup (n + 1 .. n + c)
       /\ \A u \in Tabs(doc) : d.tabs[u] = doc.tabs[u]
       /\ d.tabs[new] = [doc.tabs[t] EXCEPT !.name = name]
       /\ \A s \in Steps(doc) : d.steps[s] = doc.steps[s]
       /\ \A s \in n + 1 .. n + c : d.steps[s] = Row(s)
  <2> DEFINE T == And(doc.tabs, [u \in {new} |-> [doc.tabs[t] EXCEPT !.name = name]])
             S == And(doc.steps, [s \in n + 1 .. n + c |-> Row(s)])
  <2>1. d = [doc EXCEPT !.tabs = T, !.steps = S]
    BY <1>2, <1>3, <1>4, <1>10, <1>11 DEF Doubled
  <2>2. /\ DOMAIN T = DOMAIN doc.tabs \cup {new}
        /\ \A u \in DOMAIN doc.tabs \cup {new} :
             T[u] = IF u = new THEN [doc.tabs[t] EXCEPT !.name = name] ELSE doc.tabs[u]
    BY DEF And
  <2> HIDE DEF Row
  <2>3. /\ DOMAIN S = DOMAIN doc.steps \cup (n + 1 .. n + c)
        /\ \A s \in DOMAIN doc.steps \cup (n + 1 .. n + c) :
             S[s] = IF s \in n + 1 .. n + c THEN Row(s) ELSE doc.steps[s]
    BY DEF And
  <2> HIDE DEF T, S
  <2>4. DOMAIN doc = {"tabs", "order", "steps"}
    BY <1>5 DEF IsDoc
  <2>5. /\ DOMAIN d = {"tabs", "order", "steps"} /\ d.order = doc.order /\ d.tabs = T
        /\ d.steps = S
    BY ONLY <2>1, <2>4
  <2>6. new \notin DOMAIN doc.tabs /\ \A s \in DOMAIN doc.steps : s \notin n + 1 .. n + c
    BY <1>3, <1>4 DEF Tabs, Steps
  <2> QED
    BY <2>2, <2>3, <2>5, <2>6 DEF Tabs, Steps
<1>14. Do(d, "DuplicateTab", None, new, 0, PlaceOf(Order(doc), t) + 1, {})
  BY <1>1, <1>2, <1>3, <1>4
<1> HIDE DEF Row, ids
<1>15. new \notin Tabs(doc) /\ new \in Tabs(d) /\ \A s \in n + 1 .. n + c : s \notin Steps(doc)
  BY <1>3, <1>4, <1>13
<1>16. DOMAIN d.tabs[new] = {"name", "selected"} /\ Chosen(d, new) = Chosen(doc, t)
  <2>1. DOMAIN doc.tabs[t] = {"name", "selected"}
    BY <1>5 DEF IsDoc, Tabs
  <2>2. PICK tab : tab = doc.tabs[t]
    OBVIOUS
  <2>3. d.tabs[new] = [tab EXCEPT !.name = name] /\ DOMAIN tab = {"name", "selected"}
    BY <1>13, <2>1, <2>2
  <2>4. DOMAIN d.tabs[new] = {"name", "selected"} /\ d.tabs[new].selected = tab.selected
    BY ONLY <2>3
  <2> QED
    BY <2>2, <2>4 DEF Chosen
<1>17. ASSUME NEW s \in n + 1 .. n + c
       PROVE  /\ s \in Steps(d) /\ TabOf(d, s) = new /\ Place(d, s) = s - n - 1 /\ ~Gone(d, s)
              /\ DOMAIN d.steps[s] = Columns /\ d.steps[s].tab = new /\ d.steps[s].order \in Nat
              /\ d.steps[s].is_deleted \in BOOLEAN /\ d.steps[s].delta \in Nat
  <2>1. d.steps[s] = Row(s)
    BY <1>13
  <2>2. s - n - 1 \in Nat
    OBVIOUS
  <2> QED
    BY <1>12, <1>13, <2>1, <2>2, ZenonT(60) DEF TabOf, Place, Gone
<1>18. Adds(d, doc)
  <2>1. \A s \in Steps(d) \ Steps(doc) : s \in n + 1 .. n + c
    BY <1>13
  <2>2. \A u \in Tabs(d) \ Tabs(doc) : u = new
    BY <1>13
  <2>3. \A s \in Steps(d) \ Steps(doc) :
          /\ DOMAIN d.steps[s] = Columns
          /\ d.steps[s].tab \in Tabs(d) /\ d.steps[s].order \in Nat
          /\ d.steps[s].is_deleted \in BOOLEAN /\ d.steps[s].delta \in Nat
          /\ d.steps[s].tab \in Tabs(doc) => d.steps[s].is_deleted = TRUE
    BY <1>15, <1>17, <2>1
  <2> QED
    BY <1>13, <1>16, <2>2, <2>3 DEF Adds
<1>19. /\ IsDoc(d) /\ Grown(d, doc, d) /\ Order(d) = Order(doc)
       /\ \A s \in Steps(doc) : ResultOf(d, s) = ResultOf(doc, s)
       /\ \A u \in Tabs(doc) : StepsOf(d, u) = StepsOf(doc, u) /\ Chosen(d, u) = Chosen(doc, u)
       /\ \A u \in Tabs(doc) : \A q : Dense(doc, u, q) => Dense(d, u, q)
  BY <1>5, <1>18, AddsFacts
<1>20. \A s : s \in StepsOf(d, new) <=> s \in n + 1 .. n + c
  <2>1. \A s \in Steps(doc) : TabOf(d, s) # new
    <3>1. \A s \in Steps(doc) : TabOf(d, s) = TabOf(doc, s)
      BY <1>19 DEF Grown, Extends
    <3> QED
      BY <1>5, <1>15, <3>1, DocFacts
  <2> QED
    BY <1>13, <1>17, <2>1, TabFacts
<1>21. Dense(d, new, c)
  <2>1. \A s \in StepsOf(d, new) : Place(d, s) < c
    BY <1>17, <1>20
  <2>2. ASSUME NEW q \in Nat, q < c PROVE \E s \in StepsOf(d, new) : Place(d, s) = q
    <3>1. n + q + 1 \in n + 1 .. n + c /\ (n + q + 1) - n - 1 = q
      BY <2>2
    <3> QED
      BY <1>17, <1>20, <3>1
  <2>3. \A r, s \in StepsOf(d, new) : Place(d, r) = Place(d, s) => r = s
    BY <1>17, <1>20
  <2> QED
    BY <2>1, <2>2, <2>3 DEF Dense
<1>22. Sound(d)
  <2>1. InOrder(d)
    <3>1. IsOrder(Order(d), Tabs(d))
      <4>1. IsOrder(Order(doc), Tabs(doc))
        BY <1>5 DEF InOrder
      <4>2. PICK o : o = Order(doc)
        OBVIOUS
      <4>3. /\ DOMAIN o = 1 .. Len(o) /\ Len(o) \in Nat /\ \A i \in 1 .. Len(o) : o[i] \in Tabs(d)
            /\ o = [i \in 1 .. Len(o) |-> o[i]]
        BY <1>13, <4>1, <4>2, LenProperties, ElementOfSeq DEF IsOrder
      <4>4. o \in [1 .. Len(o) -> Tabs(d)]
        BY <4>3
      <4>5. o \in Seq(Tabs(d))
        BY <4>3, <4>4, SeqDef
      <4> QED
        BY <1>19, <4>1, <4>2, <4>5 DEF IsOrder
    <3>2. \A u \in Tabs(d) : \E q \in Nat : Dense(d, u, q)
      BY <1>5, <1>13, <1>19, <1>21 DEF InOrder
    <3> QED
      BY <3>1, <3>2 DEF InOrder
  <2>2. ChosenAreThere(d)
    <3>1. Cardinality(StepsOf(d, new)) = c
      BY <1>19, <1>21, DenseFacts
    <3> QED
      BY <1>5, <1>6, <1>13, <1>16, <1>19, <3>1 DEF Sound, ChosenAreThere
  <2>3. Numbered(d)
    <3>1. Steps(d) = 1 .. n + c /\ n + c \in Nat
      BY <1>3, <1>13
    <3>2. Tabs(d) = 1 .. m + 1 /\ m + 1 \in Nat
      BY <1>3, <1>4, <1>13
    <3> QED
      BY <3>1, <3>2 DEF Numbered
  <2> QED
    BY <1>19, <2>1, <2>2, <2>3 DEF Sound
<1>23. PlaceOf(Order(doc), t) + 1 \in 1 .. Len(Order(d)) + 1 /\ new \notin Range(Order(d))
  <2>1. PICK o : o = Order(doc)
    OBVIOUS
  <2>2. IsOrder(o, Tabs(doc)) /\ Range(o) = LiveTabs(doc)
    BY <1>5, <2>1 DEF InOrder, LiveTabs, Order
  <2>3. PICK p \in 1 .. Len(o) : o[p] = t
    BY <1>1, <2>2, LenProperties DEF IsOrder, Range
  <2>4. PlaceOf(o, t) = p
    BY <2>2, <2>3, PlaceOfFacts
  <2>5. Len(o) \in Nat
    BY <2>2, LenProperties DEF IsOrder
  <2>6. LiveTabs(doc) \subseteq Tabs(doc)
    BY SoundFacts
  <2> QED
    BY <1>15, <1>19, <2>1, <2>2, <2>3, <2>4, <2>5, <2>6
<1>24. PICK e :
         /\ Written(e, d, "DuplicateTab", None, new, 0, PlaceOf(Order(doc), t) + 1, {})
         /\ Commits(d, e)
  BY <1>14, DoWrites
<1>25. /\ e.command = "DuplicateTab" /\ e.command \in Commands /\ e.id \in Nat \ {0}
       /\ DOMAIN e.ids = {} /\ e.tab = new /\ e.forth = PlaceOf(Order(doc), t) + 1
       /\ e.id = now + 1 /\ e.before = Content(doc) /\ e.after = Content(Forward(d, e))
  <2>1. "DuplicateTab" \in Commands /\ {} \subseteq Steps(d)
    BY DEF Commands
  <2> QED
    BY <1>5, <1>19, <1>24, <2>1 DEF Written
<1>26. Made(e, d)
  BY <1>15, <1>23, <1>25 DEF Made, Fits, StepCommands
<1>27. NewOnes(d, e)
  BY <1>13, <1>17, <1>19, <1>25 DEF NewOnes
<1>28. Touches(e, d)
  BY <1>25 DEF Touches
<1> DEFINE m0 == [s \in n + 1 .. n + c |-> old[s - n]]
<1>29. ASSUME NEW s \in n + 1 .. n + c
       PROVE  /\ m0[s] \in StepsOf(d, t) /\ Place(d, s) = Place(d, m0[s])
              /\ ParamsOf(d, s) = ParamsOf(d, m0[s]) /\ VersionOf(d, s) = VersionOf(d, m0[s])
              /\ DeltaOf(d, s) = DeltaOf(d, m0[s])
              /\ ResultOf(d, s) # <<>> => /\ name = doc.tabs[t].name
                                         /\ ResultOf(d, s) = ResultOf(d, m0[s])
                                         /\ ResultOf(d, s)[1].delta = DeltaOf(d, m0[s])
  <2>1. PICK i \in 1 .. c : i = s - n
    BY <1>12
  <2>2. PICK r : r = old[i]
    OBVIOUS
  <2>3. m0[s] = r /\ r \in StepsOf(doc, t) /\ r \in Steps(doc) /\ Place(doc, r) = i - 1
    BY <1>9, <2>1, <2>2
  <2>4. d.steps[r] = doc.steps[r] /\ r \in StepsOf(d, t) /\ d.steps[s] = Row(s)
    BY <1>5, <1>13, <1>19, <2>3
  <2>5. /\ Row(s).delta = doc.steps[r].delta /\ Row(s).params = doc.steps[r].params
        /\ Row(s).version = doc.steps[r].version
        /\ Row(s).crr = ResultOfCopy(doc.steps[r], name = doc.tabs[t].name)
    BY <1>12, <2>1, <2>2
  <2>6. Row(s).crr # <<>> => /\ name = doc.tabs[t].name /\ Row(s).crr = doc.steps[r].crr
                            /\ Row(s).crr[1].delta = doc.steps[r].delta
    BY <2>5 DEF ResultOfCopy, IsFresh
  <2>7. Place(d, s) = Place(d, r)
    BY <1>17, <2>1, <2>3, <2>4 DEF Place
  <2> QED
    BY <2>3, <2>4, <2>5, <2>6, <2>7 DEF ParamsOf, VersionOf, DeltaOf, ResultOf
<1>30. ASSUME NEW r \in StepsOf(d, t)
       PROVE  \E s \in StepsOf(d, new) : m0[s] = r
  <2>1. PICK i \in 1 .. c : old[i] = r
    BY <1>5, <1>8, <1>9, <1>19 DEF IsListing, Range
  <2>2. n + i \in n + 1 .. n + c /\ (n + i) - n = i
    BY <2>1
  <2> QED
    BY <1>20, <2>1, <2>2
<1>31. NameOf(d, new) = name /\ NameOf(d, t) = doc.tabs[t].name
  <2>1. DOMAIN doc.tabs[t] = {"name", "selected"}
    BY <1>5 DEF IsDoc, Tabs
  <2>2. PICK tab : tab = doc.tabs[t]
    OBVIOUS
  <2>3. d.tabs[new] = [tab EXCEPT !.name = name] /\ DOMAIN tab = {"name", "selected"}
    BY <1>13, <2>1, <2>2
  <2>4. d.tabs[new].name = name
    BY ONLY <2>3
  <2> QED
    BY <1>5, <1>13, <2>4 DEF NameOf
<1> HIDE DEF m0
<1>32. Brings(d, e)
  <2>1. Copies(m0, d, new, t)
    BY <1>20, <1>29, <1>30 DEF Copies
  <2>2. AreCopies(m0, d, e, t)
    BY <1>20, <1>25, <1>29, <1>31, <2>1 DEF AreCopies
  <2> QED
    BY <1>1, <1>15, <1>25, <2>2 DEF Brings
<1> QED
  BY <1>19, <1>22, <1>24, <1>25, <1>26, <1>27, <1>28, <1>32 DEF Done

-----------------------------------------------------------------------------
(* What the steps of the specification do to the chain.                    *)

(* do() cuts the chain and appends a delta. *)
IsNext(n, k, e, new) ==
  IsChain(deltas, n) /\ IsAt(k, deltas, last) /\ e.id = n + 1 /\ new = Append(Applied, e)

IsLonger(n, k, e, new) ==
  /\ IsChain(new, n + 1) /\ Len(new) = k + 1 /\ IsAt(k + 1, new, e.id)
  /\ \A i \in 1 .. k : new[i] = deltas[i]
  /\ new[k + 1] = e

(* There is one delta more after those that were applied. *)
LEMMA ChainGrows ==
  ASSUME NEW n, NEW k, NEW e, NEW new, IsNext(n, k, e, new)
  PROVE  IsLonger(n, k, e, new)
<1>0. /\ IsChain(deltas, n) /\ IsAt(k, deltas, last) /\ e.id = n + 1
      /\ new = Append(Applied, e)
  BY DEF IsNext
<1>1. /\ k \in 0 .. Len(deltas) /\ Len(deltas) \in Nat /\ k \in Nat
      /\ Applied \in Seq(Range(deltas)) /\ Len(Applied) = k
      /\ \A i \in 1 .. k : Applied[i] = deltas[i]
  BY <1>0, AppliedFacts
<1> DEFINE R == Range(deltas) \cup {e}
<1>2. Applied \in Seq(R)
  <2>1. /\ Applied = [i \in 1 .. k |-> Applied[i]]
        /\ \A i \in 1 .. k : Applied[i] \in Range(deltas)
    BY <1>1, LenProperties, ElementOfSeq
  <2>2. Applied \in [1 .. k -> R]
    BY <2>1
  <2> HIDE DEF R
  <2> QED
    BY <1>1, <2>2, SeqDef
<1>3. e \in R
  OBVIOUS
<1> HIDE DEF R
<1>4. /\ new \in Seq(R) /\ Len(new) = k + 1 /\ \A i \in 1 .. k : new[i] = deltas[i]
      /\ new[k + 1] = e
  BY <1>0, <1>1, <1>2, <1>3, AppendProperties
<1>5. DOMAIN new = 1 .. k + 1
  BY <1>4, LenProperties
<1>6. new \in Seq(Range(new))
  <2>1. new = [i \in 1 .. k + 1 |-> new[i]]
    BY <1>4, <1>5, LenProperties
  <2>2. PICK S : S = Range(new)
    OBVIOUS
  <2>3. \A i \in 1 .. k + 1 : new[i] \in S
    BY <1>5, <2>2 DEF Range
  <2>4. k + 1 \in Nat /\ new \in [1 .. k + 1 -> S]
    BY ONLY <1>1, <2>1, <2>3
  <2>5. new \in Seq(S)
    BY ONLY <2>4, SeqDef
  <2> QED
    BY <2>2, <2>5
<1>7. n \in Nat /\ \A i \in 1 .. k : i \in 1 .. Len(deltas)
  BY <1>0, <1>1 DEF IsChain
<1>8. ASSUME NEW i \in 1 .. k + 1
      PROVE  new[i].id \in Nat /\ 0 < new[i].id /\ new[i].id <= n + 1 /\ (i <= k => new[i].id <= n)
  <2>1. CASE i \in 1 .. k
    <3>1. new[i] = deltas[i] /\ i \in 1 .. Len(deltas)
      BY <1>4, <1>7, <2>1
    <3>2. deltas[i].id \in Nat /\ 0 < deltas[i].id /\ deltas[i].id <= n
      BY <1>0, <3>1 DEF IsChain
    <3> QED
      BY <1>7, <3>1, <3>2
  <2>2. CASE i = k + 1
    BY <1>0, <1>1, <1>4, <1>7, <2>2
  <2> QED
    BY <1>1, <2>1, <2>2
<1>9. ASSUME NEW i \in 1 .. k + 1, NEW j \in 1 .. k + 1, i < j
      PROVE  new[i].id < new[j].id
  <2>1. CASE j \in 1 .. k
    <3>1. /\ i \in 1 .. k /\ new[i] = deltas[i] /\ new[j] = deltas[j]
          /\ i \in 1 .. Len(deltas) /\ j \in 1 .. Len(deltas)
      BY <1>1, <1>4, <1>7, <1>9, <2>1
    <3> QED
      BY <1>0, <1>9, <3>1 DEF IsChain
  <2>2. CASE j = k + 1
    <3>1. i <= k /\ new[j].id = n + 1
      BY <1>0, <1>1, <1>4, <1>9, <2>2
    <3>2. new[i].id \in Nat /\ new[i].id <= n
      BY <1>8, <3>1
    <3>3. PICK a : a = new[i].id
      OBVIOUS
    <3>4. PICK b : b = new[j].id
      OBVIOUS
    <3> QED
      <4>1. a \in Nat /\ a <= n
        BY <3>2, <3>3
      <4>2. b = n + 1
        BY <3>1, <3>4
      <4>3. a < b
        BY ONLY <1>7, <4>1, <4>2
      <4> QED
        BY ONLY <3>3, <3>4, <4>3
  <2> QED
    BY <1>1, <2>1, <2>2
<1>10. IsChain(new, n + 1)
  BY <1>4, <1>6, <1>7, <1>8, <1>9 DEF IsChain
<1>11. IsAt(k + 1, new, e.id)
  BY <1>1, <1>4 DEF IsAt
<1> QED
  BY <1>4, <1>10, <1>11 DEF IsLonger

(* Undo goes one delta back. *)
LEMMA UndoMoves ==
  ASSUME Inv, NEW k, IsAt(k, deltas, last), Undo
  PROVE  /\ k \in 1 .. Len(deltas) /\ k - 1 \in 0 .. Len(deltas) /\ IsAt(k - 1, deltas, last')
         /\ doc' = Backward(doc, deltas[k])
         /\ queued' = (queued \/ ModifiesRenderOutput(Backward(doc, deltas[k]), deltas[k]))
         /\ revived' = (revived \/ (/\ deltas[k].command \in {"DeleteStep", "DeleteTab"}
                                    /\ Stale(Backward(doc, deltas[k])) \ LiveSteps(doc) # {}))
         /\ deltas' = deltas /\ now' = now /\ raced' = raced
<1>1. /\ k \in 0 .. Len(deltas) /\ Len(deltas) \in Nat /\ k \in Nat
      /\ Applied \in Seq(Range(deltas)) /\ Len(Applied) = k
      /\ \A i \in 1 .. k : Applied[i] = deltas[i]
  BY AppliedFacts DEF Inv
<1>2. k # 0 /\ k \in 1 .. k
  <2>1. Applied # <<>>
    BY DEF Undo
  <2> QED
    BY <1>1, <2>1, EmptySeq
<1>3. Last(Applied) = deltas[k] /\ (k # 1 => k - 1 \in 1 .. k)
  BY <1>1, <1>2 DEF Last
<1>4. Commit(Backward(doc, deltas[k]), deltas[k], IF k = 1 THEN None ELSE deltas[k - 1].id)
  <2>1. Commit(Backward(doc, Last(Applied)), Last(Applied),
               IF k = 1 THEN None ELSE Applied[k - 1].id)
    BY <1>1 DEF Undo
  <2>2. k # 1 => Applied[k - 1] = deltas[k - 1]
    BY <1>1, <1>3
  <2>3. (IF k = 1 THEN None ELSE Applied[k - 1].id) = IF k = 1 THEN None ELSE deltas[k - 1].id
    BY <2>2
  <2> QED
    BY <1>3, <2>1, <2>3
<1>5. last' = IF k = 1 THEN None ELSE deltas[k - 1].id
  BY <1>4 DEF Commit
<1>6. IsAt(k - 1, deltas, last')
  BY <1>1, <1>2, <1>5 DEF IsAt
<1> QED
  BY <1>1, <1>2, <1>4, <1>6 DEF Commit, Undo

(* Redo goes one delta forth. *)
LEMMA RedoMoves ==
  ASSUME Inv, NEW k, IsAt(k, deltas, last), Redo
  PROVE  /\ k \in 0 .. Len(deltas) /\ k + 1 \in 1 .. Len(deltas) /\ IsAt(k + 1, deltas, last')
         /\ doc' = Forward(doc, deltas[k + 1])
         /\ queued' = (queued \/ ModifiesRenderOutput(Forward(doc, deltas[k + 1]), deltas[k + 1]))
         /\ revived' = (revived \/ (/\ deltas[k + 1].command \in {"DeleteStep", "DeleteTab"}
                                    /\ Stale(Forward(doc, deltas[k + 1])) \ LiveSteps(doc) # {}))
         /\ deltas' = deltas /\ now' = now /\ raced' = raced
<1>1. /\ k \in 0 .. Len(deltas) /\ Len(deltas) \in Nat /\ k \in Nat
      /\ Undone \in Seq(Range(deltas)) /\ Len(Undone) = Len(deltas) - k
      /\ \A i \in 1 .. Len(deltas) - k : Undone[i] = deltas[k + i]
  BY AppliedFacts DEF Inv
<1>2. Len(deltas) - k # 0 /\ 1 \in 1 .. Len(deltas) - k
  <2>1. Undone # <<>>
    BY DEF Redo
  <2> QED
    BY <1>1, <2>1, EmptySeq
<1>3. Head(Undone) = deltas[k + 1]
  <2>1. Head(Undone) = Undone[1]
    BY <1>1, <1>2, HeadTailProperties
  <2> QED
    BY <1>1, <1>2, <2>1
<1>4. Commit(Forward(doc, deltas[k + 1]), deltas[k + 1], deltas[k + 1].id)
  BY <1>3 DEF Redo
<1>5. IsAt(k + 1, deltas, last')
  BY <1>1, <1>2, <1>4 DEF IsAt, Commit
<1> QED
  BY <1>1, <1>2, <1>4, <1>5 DEF Commit, Redo

-----------------------------------------------------------------------------
(* Going back and forth in a story.                                        *)

(* What happens to a document happens to the story's. *)
LEMMA StoryAt ==
  ASSUME NEW D, NEW es, NEW d, Tells(D, es, d), IsDoc(d), NEW j \in 0 .. Len(es)
  PROVE  /\ IsDoc(D[j]) /\ InOrder(D[j]) /\ Steps(D[j]) = Steps(d) /\ Tabs(D[j]) = Tabs(d)
         /\ \A f : Frame(f, d) => Tells(D, es, f)
         /\ \A f : Same(f, D[j]) => InOrder(f) /\ Content(f) = Content(D[j])
                                    /\ LiveTabs(f) = LiveTabs(D[j])
<1>1. IsDoc(D[j]) /\ InOrder(D[j]) /\ Steps(D[j]) = Steps(d) /\ Tabs(D[j]) = Tabs(d)
  BY DEF Tells, Frame
<1>2. ASSUME NEW f, Frame(f, d)
      PROVE  Tells(D, es, f)
  <2>1. \A i \in 0 .. Len(es) : Frame(D[i], f)
    BY <1>2 DEF Tells, Frame
  <2> QED
    BY <2>1 DEF Tells
<1>3. ASSUME NEW f, Same(f, D[j])
      PROVE  InOrder(f) /\ Content(f) = Content(D[j]) /\ LiveTabs(f) = LiveTabs(D[j])
  <2>1. PICK c : c = D[j]
    OBVIOUS
  <2>2. IsDoc(c) /\ InOrder(c) /\ Same(f, c)
    BY <1>1, <1>3, <2>1
  <2>3. InOrder(f)
    BY <2>2, InOrderSame DEF Same, Agree
  <2>4. Content(f) = Content(c)
    BY <2>2, LiveTabsFacts, ContentSame
  <2>5. LiveTabs(f) = LiveTabs(c)
    BY <2>2 DEF Same, LiveTabs, Order
  <2> QED
    BY <2>1, <2>3, <2>4, <2>5
<1> QED
  BY <1>1, <1>2, <1>3

(* Undo. *)
LEMMA StoryBack ==
  ASSUME NEW d, Sound(d), NEW es, Len(es) \in Nat, NEW k \in 1 .. Len(es),
         NEW D, IsStory(D, es, k, d), NEW e, e = es[k], NEW g, g = Backward(d, e)
  PROVE  /\ Sound(g) /\ IsStory(D, es, k - 1, g)
         /\ Content(d) = e.after /\ Content(g) = e.before
         /\ Fits(e, d) /\ Goes(g, d, e, "back") /\ LiveTabs(d) = LiveAfter(e, LiveTabs(g))
<1>1. Tells(D, es, d) /\ Same(d, D[k])
  BY DEF IsStory
<1>2. IsDoc(d) /\ k \in 0 .. Len(es) /\ k - 1 \in 0 .. Len(es)
  BY DEF Sound
<1>3. PICK c : c = D[k]
  OBVIOUS
<1>4. PICK b : b = D[k - 1]
  OBVIOUS
<1>5. Takes(b, e, c)
  BY <1>1, <1>3, <1>4 DEF Tells
<1>6. /\ IsDoc(c) /\ InOrder(c) /\ Steps(c) = Steps(d) /\ Tabs(c) = Tabs(d)
      /\ \A f : Frame(f, d) => Tells(D, es, f)
      /\ Content(d) = Content(c) /\ LiveTabs(d) = LiveTabs(c)
  BY <1>1, <1>2, <1>3, StoryAt
<1>7. /\ IsDoc(b) /\ InOrder(b) /\ Steps(b) = Steps(d) /\ Tabs(b) = Tabs(d)
      /\ \A f : Same(f, b) => InOrder(f) /\ Content(f) = Content(b) /\ LiveTabs(f) = LiveTabs(b)
  BY <1>1, <1>2, <1>4, StoryAt
<1>8. /\ Fits(e, b) /\ Same(Backward(c, e), b) /\ LiveTabs(c) = LiveAfter(e, LiveTabs(b))
      /\ e.before = Content(b) /\ e.after = Content(c)
  BY <1>5 DEF Takes
<1>9. Fits(e, c) /\ Fits(e, d)
  BY <1>6, <1>7, <1>8, FitsExtends
<1>10. Same(d, c)
  BY <1>1, <1>3
<1>11. Same(g, Backward(c, e))
  BY <1>6, <1>9, <1>10, SameGoes
<1>12. Same(g, b)
  BY <1>8, <1>11, SameFacts
<1>13. InOrder(g) /\ Content(g) = Content(b) /\ LiveTabs(g) = LiveTabs(b)
  BY <1>7, <1>12
<1>14. Goes(g, d, e, "back")
  BY <1>2, <1>9, BackwardGoes
<1>15. IsDoc(g) /\ Steps(g) = Steps(d) /\ Tabs(g) = Tabs(d) /\ Frame(g, d)
  BY <1>14 DEF Goes, Works, SameRows, Frame
<1>16. ChosenAreThere(g)
  <2>1. "back" \in Ways /\ "back" # "forth"
    BY DEF Ways
  <2> QED
    BY <1>2, <1>9, <1>13, <1>14, <2>1, ChosenGoes DEF Sound
<1>17. Sound(g)
  BY <1>13, <1>15, <1>16 DEF Sound, Numbered
<1>18. IsStory(D, es, k - 1, g)
  BY <1>4, <1>6, <1>12, <1>15 DEF IsStory
<1> QED
  BY <1>6, <1>8, <1>9, <1>13, <1>14, <1>17, <1>18

(* Redo. *)
LEMMA StoryForth ==
  ASSUME NEW d, Sound(d), NEW es, Len(es) \in Nat, NEW k \in 1 .. Len(es),
         NEW D, IsStory(D, es, k - 1, d), NEW e, e = es[k], NEW f, f = Forward(d, e)
  PROVE  /\ Sound(f) /\ IsStory(D, es, k, f)
         /\ Content(d) = e.before /\ Content(f) = e.after
         /\ Fits(e, d) /\ Goes(f, d, e, "forth") /\ LiveTabs(f) = LiveAfter(e, LiveTabs(d))
<1>1. Tells(D, es, d) /\ Same(d, D[k - 1])
  BY DEF IsStory
<1>2. IsDoc(d) /\ k \in 0 .. Len(es) /\ k - 1 \in 0 .. Len(es)
  BY DEF Sound
<1>3. PICK c : c = D[k]
  OBVIOUS
<1>4. PICK b : b = D[k - 1]
  OBVIOUS
<1>5. Takes(b, e, c)
  BY <1>1, <1>3, <1>4 DEF Tells
<1>6. /\ IsDoc(b) /\ InOrder(b) /\ Steps(b) = Steps(d) /\ Tabs(b) = Tabs(d)
      /\ \A x : Frame(x, d) => Tells(D, es, x)
      /\ Content(d) = Content(b) /\ LiveTabs(d) = LiveTabs(b)
  BY <1>1, <1>2, <1>4, StoryAt
<1>7. /\ IsDoc(c) /\ InOrder(c) /\ Steps(c) = Steps(d) /\ Tabs(c) = Tabs(d)
      /\ \A x : Same(x, c) => InOrder(x) /\ Content(x) = Content(c) /\ LiveTabs(x) = LiveTabs(c)
  BY <1>1, <1>2, <1>3, StoryAt
<1>8. /\ Fits(e, b) /\ Same(Forward(b, e), c) /\ Same(Backward(c, e), b)
      /\ LiveTabs(c) = LiveAfter(e, LiveTabs(b))
      /\ e.before = Content(b) /\ e.after = Content(c)
  BY <1>5 DEF Takes
<1>9. Fits(e, d) /\ Fits(e, c)
  BY <1>6, <1>7, <1>8, FitsExtends
<1>10. Same(d, b)
  BY <1>1, <1>4
<1>11. Same(f, Forward(b, e))
  BY <1>6, <1>8, <1>10, SameGoes
<1>12. Same(f, c)
  BY <1>8, <1>11, SameFacts
<1>13. InOrder(f) /\ Content(f) = Content(c) /\ LiveTabs(f) = LiveTabs(c)
  BY <1>7, <1>12
<1>14. Goes(f, d, e, "forth")
  BY <1>2, <1>9, ForwardGoes
<1>15. IsDoc(f) /\ Steps(f) = Steps(d) /\ Tabs(f) = Tabs(d) /\ Frame(f, d)
  BY <1>14 DEF Goes, Works, SameRows, Frame
<1>16. e.command = "DeleteStep" => ~Gone(d, e.step)
  <2> SUFFICES ASSUME e.command = "DeleteStep" PROVE ~Gone(d, e.step)
    OBVIOUS
  <2>1. e.step \in Steps(c)
    BY <1>9 DEF Fits, StepCommands
  <2>2. Goes(Backward(c, e), c, e, "back")
    BY <1>7, <1>9, BackwardGoes
  <2>3. Opening("back") = "DeleteStep" /\ Closing("back") = "AddStep"
    BY DEF Opening, Closing
  <2>4. ~Gone(Backward(c, e), e.step)
    BY <2>1, <2>2, <2>3 DEF Goes, Works, GoneAfter
  <2>5. ~Gone(b, e.step)
    BY <1>6, <1>7, <1>8, <2>1, <2>4 DEF Same, Agree
  <2> QED
    BY <1>6, <1>7, <1>10, <2>1, <2>5 DEF Same, Agree
<1>17. ChosenAreThere(f)
  <2>1. "forth" \in Ways
    BY DEF Ways
  <2> QED
    BY <1>2, <1>9, <1>13, <1>14, <1>16, <2>1, ChosenGoes DEF Sound
<1>18. Sound(f)
  BY <1>13, <1>15, <1>17 DEF Sound, Numbered
<1>19. IsStory(D, es, k, f)
  BY <1>3, <1>6, <1>12, <1>15 DEF IsStory
<1> QED
  BY <1>6, <1>8, <1>9, <1>13, <1>14, <1>18, <1>19

(* What leaves the document as it is. *)
LEMMA StoryStays ==
  ASSUME NEW d, Sound(d), NEW es, Len(es) \in Nat, NEW k \in 0 .. Len(es),
         NEW D, IsStory(D, es, k, d), NEW f, Same(f, d), ChosenAreThere(f)
  PROVE  Sound(f) /\ IsStory(D, es, k, f) /\ Content(f) = Content(d)
<1>1. Tells(D, es, d) /\ Same(d, D[k])
  BY DEF IsStory
<1>2. IsDoc(d) /\ InOrder(d) /\ Numbered(d)
  BY DEF Sound
<1>3. PICK c : c = D[k]
  OBVIOUS
<1>4. /\ IsDoc(c) /\ \A x : Frame(x, d) => Tells(D, es, x)
      /\ \A x : Same(x, c) => InOrder(x) /\ Content(x) = Content(c)
  BY <1>1, <1>2, <1>3, StoryAt
<1>5. Same(d, c) /\ Same(f, c)
  BY <1>1, <1>3, <1>4, SameFacts
<1>6. InOrder(f) /\ Content(f) = Content(c) /\ Content(d) = Content(c)
  BY <1>4, <1>5
<1>7. Frame(f, d) /\ Steps(f) = Steps(d) /\ Tabs(f) = Tabs(d) /\ IsDoc(f)
  BY DEF Same, Frame
<1>8. Sound(f)
  BY <1>2, <1>6, <1>7 DEF Sound, Numbered
<1>9. IsStory(D, es, k, f)
  BY <1>3, <1>4, <1>5, <1>7 DEF IsStory
<1> QED
  BY <1>6, <1>8, <1>9

(* A handler's delta. *)
LEMMA StoryGrows ==
  ASSUME NEW b, Sound(b), NEW es, Len(es) \in Nat, NEW k \in 0 .. Len(es),
         NEW D, IsStory(D, es, k, b), NEW d, Sound(d), Grown(d, b, d), NEW e, Made(e, d),
         e.command = "AddStep" => e.step \notin Steps(b),
         NEW f, f = Forward(d, e), e.before = Content(b), e.after = Content(f),
         NEW new, Len(new) = k + 1, \A i \in 1 .. k : new[i] = es[i], new[k + 1] = e
  PROVE  /\ Sound(f) /\ \E C : IsStory(C, new, k + 1, f) /\ Continues(C, D, k, f)
         /\ Fits(e, d) /\ Goes(f, d, e, "forth") /\ LiveTabs(f) = LiveAfter(e, LiveTabs(b))
<1>1. Tells(D, es, b) /\ Same(b, D[k])
  BY DEF IsStory
<1>2. IsDoc(b) /\ IsDoc(d) /\ InOrder(d) /\ ChosenAreThere(d) /\ Fits(e, d)
  BY DEF Sound, Made
<1>3. InOrder(f) /\ \E C : IsStory(C, new, k + 1, f) /\ Continues(C, D, k, f)
  BY <1>1, <1>2, StoryGoesOn
<1>4. Goes(f, d, e, "forth")
  BY <1>2, ForwardGoes
<1>5. LiveTabs(f) = LiveAfter(e, LiveTabs(d)) /\ LiveTabs(d) = LiveTabs(b)
  BY <1>2, <1>4, LiveTabsGo DEF Grown, LiveTabs, Order
<1>6. ChosenAreThere(f)
  <2>1. "forth" \in Ways
    BY DEF Ways
  <2>2. e.command = "DeleteStep" => ~Gone(d, e.step)
    BY DEF Made
  <2> QED
    BY <1>2, <1>3, <1>4, <2>1, <2>2, ChosenGoes
<1>7. IsDoc(f) /\ Steps(f) = Steps(d) /\ Tabs(f) = Tabs(d)
  BY <1>4 DEF Goes, Works, SameRows
<1>8. Sound(f)
  BY <1>3, <1>6, <1>7 DEF Sound, Numbered
<1> QED
  BY <1>2, <1>3, <1>4, <1>5, <1>8

-----------------------------------------------------------------------------
(* Fresh and stale.                                                        *)

Fresh(d, s) == ResultOf(d, s) # <<>> /\ ResultOf(d, s)[1].delta = DeltaOf(d, s)

(* The stale steps are the live ones without a fresh result. *)
LEMMA StaleFacts ==
  ASSUME NEW d
  PROVE  \A s : s \in Stale(d) <=> s \in LiveSteps(d) /\ ~Fresh(d, s)
BY DEF Stale, IsFresh, Fresh, ResultOf, DeltaOf

(* A render leaves nothing stale, and the document as it is. *)
LEMMA RenderedRows ==
  ASSUME NEW d, Sound(d), NEW f, f = Rendered(d)
  PROVE  /\ Same(f, d) /\ ChosenAreThere(f) /\ Stale(f) = {}
         /\ \A s \in Stale(d) : /\ ResultOf(f, s)[1].delta = DeltaOf(d, s)
                                /\ ResultOf(f, s)[1].out = Outputs(d)[s]
         /\ \A s \in Steps(d) \ Stale(d) : ResultOf(f, s) = ResultOf(d, s)
<1>1. PICK out : out = Outputs(d)
  OBVIOUS
<1>2. IsDoc(d) /\ ChosenAreThere(d)
  BY DEF Sound
<1> DEFINE Result(s) == <<[delta |-> DeltaOf(d, s), out |-> out[s]]>>
           Row(s) == IF s \in Stale(d) THEN [d.steps[s] EXCEPT !.crr = Result(s)] ELSE d.steps[s]
           rows == [s \in DOMAIN d.steps |-> Row(s)]
<1>3. f = [d EXCEPT !.steps = rows]
  BY <1>1 DEF Rendered, DeltaOf
<1>4. \A s : Result(s) # <<>> /\ Result(s)[1].delta = DeltaOf(d, s) /\ Result(s)[1].out = out[s]
  OBVIOUS
<1> HIDE DEF Result
<1>5. ASSUME NEW s \in Steps(d)
      PROVE  /\ DOMAIN Row(s) = Columns
             /\ Row(s).tab = TabOf(d, s) /\ Row(s).order = Place(d, s)
             /\ Row(s).is_deleted = d.steps[s].is_deleted /\ Row(s).delta = DeltaOf(d, s)
             /\ Row(s).params = ParamsOf(d, s) /\ Row(s).version = VersionOf(d, s)
             /\ s \in Stale(d) => Row(s).crr = Result(s)
             /\ s \notin Stale(d) => Row(s).crr = ResultOf(d, s)
  <2>1. PICK row : row = d.steps[s]
    OBVIOUS
  <2>2. DOMAIN row = Columns
    BY <1>2, <2>1 DEF IsDoc, Steps
  <2>3. PICK r : r = Result(s)
    OBVIOUS
  <2>4. /\ DOMAIN [row EXCEPT !.crr = r] = Columns
        /\ [row EXCEPT !.crr = r].tab = row.tab /\ [row EXCEPT !.crr = r].order = row.order
        /\ [row EXCEPT !.crr = r].is_deleted = row.is_deleted
        /\ [row EXCEPT !.crr = r].delta = row.delta
        /\ [row EXCEPT !.crr = r].params = row.params
        /\ [row EXCEPT !.crr = r].version = row.version
        /\ [row EXCEPT !.crr = r].crr = r
    BY ONLY <2>2 DEF Columns
  <2>5. CASE s \in Stale(d)
    <3>1. Row(s) = [row EXCEPT !.crr = r]
      BY <2>1, <2>3, <2>5
    <3> HIDE DEF Row
    <3> QED
      BY <2>1, <2>3, <2>4, <2>5, <3>1 DEF TabOf, Place, DeltaOf, ParamsOf, VersionOf, ResultOf
  <2>6. CASE s \notin Stale(d)
    <3>1. Row(s) = row
      BY <2>1, <2>6
    <3> HIDE DEF Row
    <3> QED
      BY <2>1, <2>2, <2>6, <3>1 DEF TabOf, Place, DeltaOf, ParamsOf, VersionOf, ResultOf
  <2> QED
    BY <2>5, <2>6
<1> HIDE DEF Row
<1>6. /\ DOMAIN f = {"tabs", "order", "steps"} /\ f.tabs = d.tabs /\ f.order = d.order
      /\ DOMAIN f.steps = DOMAIN d.steps /\ \A s \in Steps(d) : f.steps[s] = Row(s)
  <2>1. DOMAIN d = {"tabs", "order", "steps"}
    BY <1>2 DEF IsDoc
  <2>2. DOMAIN rows = DOMAIN d.steps /\ \A s \in DOMAIN d.steps : rows[s] = Row(s)
    OBVIOUS
  <2> HIDE DEF rows
  <2>3. /\ DOMAIN f = {"tabs", "order", "steps"} /\ f.tabs = d.tabs /\ f.order = d.order
        /\ f.steps = rows
    BY ONLY <1>3, <2>1
  <2> QED
    BY <2>2, <2>3 DEF Steps
<1> HIDE DEF rows
<1>7. Steps(f) = Steps(d) /\ Tabs(f) = Tabs(d) /\ Order(f) = Order(d)
  BY <1>6 DEF Steps, Tabs, Order
<1>8. \A s \in Steps(d) :
        /\ TabOf(f, s) = TabOf(d, s) /\ Place(f, s) = Place(d, s)
        /\ (Gone(f, s) <=> Gone(d, s)) /\ DeltaOf(f, s) = DeltaOf(d, s)
        /\ ParamsOf(f, s) = ParamsOf(d, s) /\ VersionOf(f, s) = VersionOf(d, s)
        /\ s \in Stale(d) => ResultOf(f, s) = Result(s)
        /\ s \notin Stale(d) => ResultOf(f, s) = ResultOf(d, s)
  <2> TAKE s \in Steps(d)
  <2>1. f.steps[s] = Row(s)
    BY <1>6
  <2>2. f.steps[s].is_deleted = d.steps[s].is_deleted
    BY <1>5, <2>1
  <2> QED
    BY <1>5, <2>1, <2>2 DEF TabOf, Place, Gone, DeltaOf, ParamsOf, VersionOf, ResultOf
<1>9. \A t \in Tabs(d) : NameOf(f, t) = NameOf(d, t) /\ Chosen(f, t) = Chosen(d, t)
  BY <1>6 DEF NameOf, Chosen
<1>10. IsDoc(f)
  <2>1. \A t \in DOMAIN f.tabs : DOMAIN f.tabs[t] = {"name", "selected"}
    BY <1>2, <1>6 DEF IsDoc
  <2>2. ASSUME NEW s \in DOMAIN f.steps
        PROVE  /\ DOMAIN f.steps[s] = Columns
               /\ f.steps[s].tab \in DOMAIN f.tabs /\ f.steps[s].order \in Nat
               /\ f.steps[s].is_deleted \in BOOLEAN /\ f.steps[s].delta \in Nat
    <3>1. s \in Steps(d) /\ f.steps[s] = Row(s)
      BY <1>6 DEF Steps
    <3>2. /\ TabOf(d, s) \in DOMAIN f.tabs /\ Place(d, s) \in Nat /\ DeltaOf(d, s) \in Nat
      BY <1>2, <1>6, <3>1, DocFacts DEF Tabs
    <3>3. d.steps[s].is_deleted \in BOOLEAN
      BY <1>2, <3>1 DEF IsDoc, Steps
    <3> QED
      BY <1>5, <3>1, <3>2, <3>3
  <2> QED
    BY <1>6, <2>1, <2>2 DEF IsDoc
<1>11. Same(f, d)
  BY <1>7, <1>8, <1>9, <1>10 DEF Same, Frame, Agree
<1>12. \A t : StepsOf(f, t) = StepsOf(d, t)
  <2> TAKE t
  <2>1. \A s : s \in StepsOf(f, t) <=> s \in StepsOf(d, t)
    BY <1>7, <1>8, TabFacts
  <2> QED
    BY <2>1
<1>13. ChosenAreThere(f)
  BY <1>2, <1>7, <1>9, <1>12 DEF ChosenAreThere
<1>14. \A s : s \notin Stale(f)
  <2> SUFFICES ASSUME NEW s \in Stale(f) PROVE FALSE
    OBVIOUS
  <2>1. s \in LiveSteps(f) /\ ~Fresh(f, s)
    BY StaleFacts
  <2>2. s \in LiveSteps(d)
    BY <1>7, <1>12, <2>1 DEF LiveSteps, LiveTabs, Order
  <2>3. s \in Steps(d)
    BY <2>2, LiveStepsFacts
  <2>4. CASE s \in Stale(d)
    BY <1>4, <1>8, <2>1, <2>3, <2>4 DEF Fresh
  <2>5. CASE s \notin Stale(d)
    <3>1. Fresh(d, s)
      BY <2>2, <2>5, StaleFacts
    <3> QED
      BY <1>8, <2>1, <2>3, <2>5, <3>1 DEF Fresh
  <2> QED
    BY <2>4, <2>5
<1>15. \A s \in Stale(d) : /\ ResultOf(f, s)[1].delta = DeltaOf(d, s)
                           /\ ResultOf(f, s)[1].out = Outputs(d)[s]
  <2> TAKE s \in Stale(d)
  <2>1. s \in Steps(d)
    BY StaleFacts, LiveStepsFacts
  <2>2. ResultOf(f, s) = Result(s)
    BY <1>8, <2>1
  <2> QED
    BY <1>1, <1>4, <2>2
<1> QED
  BY <1>8, <1>11, <1>13, <1>14, <1>15

(* What is selected is nothing that a render depends on. *)
LEMMA SelectedStays ==
  ASSUME NEW d, Sound(d), NEW s \in LiveSteps(d), NEW f,
         f = Selecting(d, TabOf(d, s), {Place(d, s)})
  PROVE  /\ Same(f, d) /\ ChosenAreThere(f) /\ Stale(f) = Stale(d)
         /\ \A x \in Steps(d) : ResultOf(f, x) = ResultOf(d, x)
<1>1. IsDoc(d) /\ ChosenAreThere(d) /\ InOrder(d)
  BY DEF Sound
<1>2. s \in Steps(d) /\ ~Gone(d, s)
  BY LiveStepsFacts
<1>3. PICK t : t = TabOf(d, s)
  OBVIOUS
<1>4. PICK v : v = {Place(d, s)}
  OBVIOUS
<1>5. t \in Tabs(d) /\ f = Selecting(d, t, v) /\ s \in StepsOf(d, t)
  BY <1>1, <1>2, <1>3, <1>4, DocFacts, TabFacts
<1>6. /\ SameRows(f, d) /\ Order(f) = Order(d)
      /\ SamePlaces(f, d) /\ SameGone(f, d) /\ SameDeltas(f, d)
      /\ SameParams(f, d) /\ SameVersions(f, d)
      /\ \A u \in Tabs(d) : /\ NameOf(f, u) = NameOf(d, u)
                            /\ Chosen(f, u) = IF u = t THEN v ELSE Chosen(d, u)
  BY ONLY <1>1, <1>5, SelectedRows
<1>7. Same(f, d)
  BY <1>6 DEF Same, Frame, Agree, SameRows, SamePlaces, SameGone, SameDeltas, SameParams,
              SameVersions
<1>8. \A u : StepsOf(f, u) = StepsOf(d, u)
  BY <1>6, SameSteps
<1>9. PICK n \in Nat : Dense(d, t, n)
  BY <1>1, <1>5 DEF InOrder
<1>10. Cardinality(StepsOf(d, t)) = n /\ Place(d, s) \in Nat /\ Place(d, s) < n
  BY <1>1, <1>2, <1>5, <1>9, DenseFacts, DocFacts DEF Dense
<1>11. ChosenAreThere(f)
  <2>1. Tabs(f) = Tabs(d)
    BY <1>6 DEF SameRows
  <2> QED
    BY <1>1, <1>4, <1>6, <1>8, <1>10, <2>1 DEF ChosenAreThere
<1>12. LiveSteps(f) = LiveSteps(d)
  BY <1>6, <1>8 DEF LiveSteps, LiveTabs, Order
<1>13. \A x : x \in Stale(f) <=> x \in Stale(d)
  <2>1. \A x \in LiveSteps(d) : Fresh(f, x) <=> Fresh(d, x)
    BY <1>6, LiveStepsFacts DEF Fresh, SameRows, SameDeltas
  <2> QED
    BY <1>12, <2>1, StaleFacts
<1>14. \A x \in Steps(d) : ResultOf(f, x) = ResultOf(d, x)
  BY <1>6 DEF SameRows
<1> QED
  BY <1>7, <1>11, <1>13, <1>14

(* A command that makes steps stale has a render queued, or it brings back *)
(* a deleted step or tab.                                                  *)
LEMMA StaleGoes ==
  ASSUME NEW b, Stale(b) = {}, NEW d, NEW e, Fits(e, d), NEW way \in Ways,
         Steps(b) \subseteq Steps(d),
         \A s \in Steps(b) : /\ DeltaOf(d, s) = DeltaOf(b, s) /\ ResultOf(d, s) = ResultOf(b, s)
                             /\ (Gone(d, s) <=> Gone(b, s)) /\ TabOf(d, s) = TabOf(b, s),
         \A s \in Steps(d) \ Steps(b) :
           e.command = "AddStep" \/ (e.command = "DuplicateTab" /\ TabOf(d, s) = e.tab),
         NEW f, Goes(f, d, e, way),
         \A t \in LiveTabs(f) :
           \/ t \in LiveTabs(b) \/ (e.command = "DuplicateTab" /\ t = e.tab)
           \/ e.command = "DeleteTab",
         ~ModifiesRenderOutput(f, e),
         ~(e.command \in {"DeleteStep", "DeleteTab"} /\ Stale(f) \ LiveSteps(b) # {})
  PROVE  Stale(f) = {}
<1> SUFFICES ASSUME NEW s \in Stale(f) PROVE FALSE
  OBVIOUS
<1>1. /\ Steps(f) = Steps(d) /\ TabOf(f, s) = TabOf(d, s) /\ ResultOf(f, s) = ResultOf(d, s)
      /\ s \in Steps(d) /\ s \in LiveSteps(f) /\ TabOf(f, s) \in LiveTabs(f) /\ ~Gone(f, s)
      /\ ~Fresh(f, s)
  <2>1. s \in LiveSteps(f) /\ ~Fresh(f, s)
    BY StaleFacts
  <2>2. s \in Steps(f) /\ TabOf(f, s) \in LiveTabs(f) /\ ~Gone(f, s)
    BY <2>1, LiveStepsFacts
  <2> QED
    BY <2>1, <2>2 DEF Goes, Works, SameRows
<1>2. e.command \in Commands \ {"AddStep", "SetStepDataVersion"}
  BY DEF ModifiesRenderOutput, Fits
<1>3. DOMAIN e.ids = {}
  BY <1>2 DEF ModifiesRenderOutput, Fits, Commands
<1>4. DeltaOf(f, s) = DeltaOf(d, s)
  BY <1>1, <1>2, <1>3 DEF Goes, DeltaAfter, DeltaOfNew
<1>5. ~(e.command = "DuplicateTab" /\ TabOf(f, s) = e.tab)
  <2> SUFFICES ASSUME e.command = "DuplicateTab", TabOf(f, s) = e.tab PROVE FALSE
    OBVIOUS
  <2>1. s \in StepsOf(f, e.tab) /\ e.tab \in LiveTabs(f)
    BY <1>1, TabFacts
  <2>2. StepsOf(f, e.tab) \cap Stale(f) # {}
    BY <2>1
  <2> QED
    BY <2>1, <2>2 DEF ModifiesRenderOutput
<1>6. s \in Steps(b)
  BY <1>1, <1>2, <1>5
<1>7. ~Fresh(b, s)
  BY <1>1, <1>4, <1>6 DEF Fresh
<1>8. s \notin LiveSteps(b)
  BY <1>7, StaleFacts
<1>9. e.command \notin {"DeleteStep", "DeleteTab"}
  BY <1>8
<1>10. TabOf(b, s) \in LiveTabs(b)
  BY <1>1, <1>5, <1>6, <1>9
<1>11. ~Gone(b, s)
  <2>1. Opening(way) \in {"AddStep", "DeleteStep"}
    BY DEF Opening
  <2>2. ~GoneAfter(d, e, way, s)
    BY <1>1 DEF Goes, Works
  <2> QED
    BY <1>2, <1>6, <1>9, <2>1, <2>2 DEF GoneAfter
<1> QED
  BY <1>6, <1>8, <1>10, <1>11, LiveStepsFacts

-----------------------------------------------------------------------------
(* The steps of the specification.                                         *)

(* Undo, *)
GoesBack ==
  \E k \in 1 .. Len(deltas) :
    /\ IsAt(k, deltas, last) /\ IsAt(k - 1, deltas, last') /\ deltas' = deltas
    /\ Content(doc) = deltas[k].after /\ Content(doc') = deltas[k].before

(* redo, *)
GoesOn ==
  \E k \in 1 .. Len(deltas) :
    /\ IsAt(k - 1, deltas, last) /\ IsAt(k, deltas, last') /\ deltas' = deltas
    /\ Content(doc) = deltas[k].before /\ Content(doc') = deltas[k].after

(* commands, *)
Grows ==
  \E k \in 0 .. Len(deltas) :
    /\ IsAt(k, deltas, last) /\ IsAt(k + 1, deltas', last') /\ Len(deltas') = k + 1
    /\ \A i \in 1 .. k : deltas'[i] = deltas[i]
    /\ deltas'[k + 1].before = Content(doc)

(* and the rest. *)
Stays == deltas' = deltas /\ last' = last /\ Content(doc') = Content(doc)

(* What a step leads to, unless users race. *)
Outcome ==
  /\ IsChain(deltas', now')
  /\ \E j \in 0 .. Len(deltas') :
       IsAt(j, deltas', last') /\ Sound(doc') /\ HasStory(deltas', j, doc')
  /\ GoesBack \/ GoesOn \/ Grows \/ Stays
  /\ Stale(doc) = {} \/ queued \/ revived => Stale(doc') = {} \/ queued' \/ revived'

(* Undo, *)
LEMMA UndoOutcome == ASSUME Inv, ~raced, Undo PROVE Outcome
<1>1. PICK k \in 0 .. Len(deltas) :
        IsAt(k, deltas, last) /\ Sound(doc) /\ HasStory(deltas, k, doc)
  BY DEF Inv
<1>2. PICK e : e = deltas[k]
  OBVIOUS
<1>3. PICK g : g = Backward(doc, e)
  OBVIOUS
<1>4. /\ k \in 1 .. Len(deltas) /\ k - 1 \in 0 .. Len(deltas) /\ IsAt(k - 1, deltas, last')
      /\ doc' = g /\ queued' = (queued \/ ModifiesRenderOutput(g, e))
      /\ revived' = (revived \/ (/\ e.command \in {"DeleteStep", "DeleteTab"}
                                 /\ Stale(g) \ LiveSteps(doc) # {}))
      /\ deltas' = deltas /\ now' = now
  BY <1>1, <1>2, <1>3, UndoMoves
<1>5. IsChain(deltas, now) /\ Len(deltas) \in Nat
  BY LenProperties DEF Inv, IsChain
<1>6. /\ Sound(g) /\ HasStory(deltas, k - 1, g)
      /\ Content(doc) = e.after /\ Content(g) = e.before
      /\ Fits(e, doc) /\ Goes(g, doc, e, "back") /\ LiveTabs(doc) = LiveAfter(e, LiveTabs(g))
  <2>1. PICK D : IsStory(D, deltas, k, doc)
    BY <1>1 DEF HasStory
  <2> QED
    BY <1>1, <1>2, <1>3, <1>4, <1>5, <2>1, StoryBack DEF HasStory
<1>7. GoesBack
  BY <1>1, <1>2, <1>4, <1>6 DEF GoesBack
<1>8. ASSUME Stale(doc) = {} \/ queued \/ revived, ~queued', ~revived'
      PROVE  Stale(g) = {}
  <2>1. ~queued /\ ~ModifiesRenderOutput(g, e)
    BY <1>4, <1>8, Zenon
  <2>2. /\ ~revived
        /\ ~(e.command \in {"DeleteStep", "DeleteTab"} /\ Stale(g) \ LiveSteps(doc) # {})
    BY <1>4, <1>8, Zenon
  <2>3. Stale(doc) = {}
    BY <1>8, <2>1, <2>2
  <2>4. \A t \in LiveTabs(g) :
          \/ t \in LiveTabs(doc) \/ (e.command = "DuplicateTab" /\ t = e.tab)
          \/ e.command = "DeleteTab"
    BY <1>6 DEF LiveAfter
  <2>5. "back" \in Ways
    BY DEF Ways
  <2> QED
    BY <1>6, <2>1, <2>2, <2>3, <2>4, <2>5, StaleGoes
<1> QED
  BY <1>4, <1>5, <1>6, <1>7, <1>8 DEF Outcome

(* redo, *)
LEMMA RedoOutcome == ASSUME Inv, ~raced, Redo PROVE Outcome
<1>1. PICK k \in 0 .. Len(deltas) :
        IsAt(k, deltas, last) /\ Sound(doc) /\ HasStory(deltas, k, doc)
  BY DEF Inv
<1>2. PICK n : n = k + 1
  OBVIOUS
<1>3. PICK e : e = deltas[n]
  OBVIOUS
<1>4. PICK f : f = Forward(doc, e)
  OBVIOUS
<1>5. /\ n \in 1 .. Len(deltas) /\ IsAt(n, deltas, last')
      /\ doc' = f /\ queued' = (queued \/ ModifiesRenderOutput(f, e))
      /\ revived' = (revived \/ (/\ e.command \in {"DeleteStep", "DeleteTab"}
                                 /\ Stale(f) \ LiveSteps(doc) # {}))
      /\ deltas' = deltas /\ now' = now
  BY <1>1, <1>2, <1>3, <1>4, RedoMoves
<1>6. IsChain(deltas, now) /\ Len(deltas) \in Nat
  BY LenProperties DEF Inv, IsChain
<1>7. k \in Nat /\ n - 1 = k
  BY <1>1, <1>2, <1>6
<1>8. IsAt(n - 1, deltas, last) /\ HasStory(deltas, n - 1, doc)
  BY <1>1, <1>7
<1>9. /\ Sound(f) /\ HasStory(deltas, n, f)
      /\ Content(doc) = e.before /\ Content(f) = e.after
      /\ Fits(e, doc) /\ Goes(f, doc, e, "forth") /\ LiveTabs(f) = LiveAfter(e, LiveTabs(doc))
  <2>1. PICK D : IsStory(D, deltas, n - 1, doc)
    BY <1>8 DEF HasStory
  <2> QED
    BY <1>1, <1>3, <1>4, <1>5, <1>6, <2>1, StoryForth DEF HasStory
<1>10. GoesOn
  BY <1>3, <1>5, <1>8, <1>9 DEF GoesOn
<1>11. ASSUME Stale(doc) = {} \/ queued \/ revived, ~queued', ~revived'
       PROVE  Stale(f) = {}
  <2>1. ~queued /\ ~ModifiesRenderOutput(f, e)
    BY <1>5, <1>11, Zenon
  <2>2. /\ ~revived
        /\ ~(e.command \in {"DeleteStep", "DeleteTab"} /\ Stale(f) \ LiveSteps(doc) # {})
    BY <1>5, <1>11, Zenon
  <2>3. Stale(doc) = {}
    BY <1>11, <2>1, <2>2
  <2>4. \A t \in LiveTabs(f) :
          \/ t \in LiveTabs(doc) \/ (e.command = "DuplicateTab" /\ t = e.tab)
          \/ e.command = "DeleteTab"
    BY <1>9 DEF LiveAfter
  <2>5. "forth" \in Ways
    BY DEF Ways
  <2> QED
    BY <1>9, <2>1, <2>2, <2>3, <2>4, <2>5, StaleGoes
<1>12. n \in 0 .. Len(deltas)
  BY <1>5
<1> QED
  BY <1>5, <1>6, <1>9, <1>10, <1>11, <1>12 DEF Outcome

(* and commands. *)
LEMMA DoneOutcome == ASSUME Inv, ~raced, Done PROVE Outcome
<1>1. PICK k \in 0 .. Len(deltas) :
        IsAt(k, deltas, last) /\ Sound(doc) /\ HasStory(deltas, k, doc)
  BY DEF Inv
<1>2. PICK d, e :
        /\ Sound(d) /\ Grown(d, doc, d) /\ Made(e, d)
        /\ e.command = "AddStep" => e.step \notin Steps(doc)
        /\ e.id = now + 1 /\ e.before = Content(doc) /\ e.after = Content(Forward(d, e))
        /\ NewOnes(d, e) /\ Commits(d, e)
  BY DEF Done
<1>3. PICK f : f = Forward(d, e)
  OBVIOUS
<1>4. PICK new : new = Append(Applied, e)
  OBVIOUS
<1>5. /\ doc' = f /\ now' = now + 1 /\ last' = e.id /\ deltas' = new
      /\ queued' = (queued \/ ModifiesRenderOutput(f, e))
      /\ revived' = (revived \/ (/\ e.command \in {"DeleteStep", "DeleteTab"}
                                 /\ Stale(f) \ LiveSteps(doc) # {}))
  BY <1>2, <1>3, <1>4 DEF Commits
<1>6. IsChain(deltas, now) /\ Len(deltas) \in Nat /\ k \in Nat
  BY <1>1, LenProperties DEF Inv, IsChain
<1>7. /\ IsChain(new, now + 1) /\ Len(new) = k + 1 /\ IsAt(k + 1, new, e.id)
      /\ \A i \in 1 .. k : new[i] = deltas[i]
      /\ new[k + 1] = e
  <2>1. IsNext(now, k, e, new)
    BY <1>1, <1>2, <1>4, <1>6 DEF IsNext
  <2>2. IsLonger(now, k, e, new)
    BY <2>1, ChainGrows
  <2> QED
    BY <2>2 DEF IsLonger
<1>8. /\ Sound(f) /\ HasStory(new, k + 1, f)
      /\ Fits(e, d) /\ Goes(f, d, e, "forth") /\ LiveTabs(f) = LiveAfter(e, LiveTabs(doc))
  <2>1. PICK D : IsStory(D, deltas, k, doc)
    BY <1>1 DEF HasStory
  <2> QED
    BY <1>1, <1>2, <1>3, <1>6, <1>7, <2>1, StoryGrows DEF HasStory
<1>9. Grows
  BY <1>1, <1>2, <1>5, <1>7 DEF Grows
<1>10. ASSUME Stale(doc) = {} \/ queued \/ revived, ~queued', ~revived'
       PROVE  Stale(f) = {}
  <2>1. ~queued /\ ~ModifiesRenderOutput(f, e)
    BY <1>5, <1>10, Zenon
  <2>2. /\ ~revived
        /\ ~(e.command \in {"DeleteStep", "DeleteTab"} /\ Stale(f) \ LiveSteps(doc) # {})
    BY <1>5, <1>10, Zenon
  <2>3. Stale(doc) = {}
    BY <1>10, <2>1, <2>2
  <2>4. \A t \in LiveTabs(f) :
          \/ t \in LiveTabs(doc) \/ (e.command = "DuplicateTab" /\ t = e.tab)
          \/ e.command = "DeleteTab"
    BY <1>8 DEF LiveAfter
  <2>5. "forth" \in Ways
    BY DEF Ways
  <2>6. /\ Steps(doc) \subseteq Steps(d)
        /\ \A s \in Steps(doc) :
             /\ DeltaOf(d, s) = DeltaOf(doc, s) /\ ResultOf(d, s) = ResultOf(doc, s)
             /\ (Gone(d, s) <=> Gone(doc, s)) /\ TabOf(d, s) = TabOf(doc, s)
    BY <1>2 DEF Grown, Extends, Agree, NewOnes
  <2>7. \A s \in Steps(d) \ Steps(doc) :
          e.command = "AddStep" \/ (e.command = "DuplicateTab" /\ TabOf(d, s) = e.tab)
    BY <1>2 DEF NewOnes
  <2> QED
    BY <1>8, <2>1, <2>2, <2>3, <2>4, <2>5, <2>6, <2>7, StaleGoes
<1>11. k + 1 \in 0 .. Len(new)
  BY <1>6, <1>7
<1> QED
  BY <1>5, <1>7, <1>8, <1>9, <1>10, <1>11 DEF Outcome

(* A render, a click on a step, and nothing at all. *)
LEMMA StaysOutcome ==
  ASSUME Inv, ~raced, Render \/ SetPosition \/ LoadStep \/ UNCHANGED vars
  PROVE  Outcome
<1>1. PICK k \in 0 .. Len(deltas) :
        IsAt(k, deltas, last) /\ Sound(doc) /\ HasStory(deltas, k, doc)
  BY DEF Inv
<1>2. IsChain(deltas, now) /\ Len(deltas) \in Nat /\ now \in Nat
  BY LenProperties DEF Inv, IsChain
<1>3. PICK f : f = doc'
  OBVIOUS
<1>4. Same(doc, doc) /\ ChosenAreThere(doc)
  BY <1>1 DEF Sound, Same, Frame, Agree
<1>5. /\ deltas' = deltas /\ last' = last /\ now' \in {now, now + 1}
      /\ Same(f, doc) /\ ChosenAreThere(f)
      /\ Stale(doc) = {} \/ queued \/ revived => Stale(f) = {} \/ queued' \/ revived'
  <2>1. CASE Render
    BY <1>1, <1>3, <2>1, RenderedRows DEF Render
  <2>2. CASE SetPosition
    <3>1. PICK s \in LiveSteps(doc) : f = Selecting(doc, TabOf(doc, s), {Place(doc, s)})
      <4>1. \E s \in LiveSteps(doc) :
              doc' = [doc EXCEPT !.tabs[doc.steps[s].tab].selected = {doc.steps[s].order}]
        BY <2>2, Zenon DEF SetPosition
      <4>2. \A s : Selecting(doc, TabOf(doc, s), {Place(doc, s)})
                     = [doc EXCEPT !.tabs[doc.steps[s].tab].selected = {doc.steps[s].order}]
        BY Zenon DEF Selecting, TabOf, Place
      <4> QED
        BY ONLY <1>3, <4>1, <4>2, Zenon
    <3>2. Same(f, doc) /\ ChosenAreThere(f) /\ Stale(f) = Stale(doc)
      BY <1>1, <3>1, SelectedStays
    <3>3. /\ deltas' = deltas /\ last' = last /\ now' = now + 1 /\ queued' = queued
          /\ revived' = revived
      BY <2>2, Zenon DEF SetPosition, CanEdit
    <3> QED
      BY ONLY <3>2, <3>3
  <2>3. CASE LoadStep
    BY <1>3, <1>4, <2>3 DEF LoadStep
  <2>4. CASE UNCHANGED vars
    BY <1>3, <1>4, <2>4 DEF vars
  <2> QED
    BY <2>1, <2>2, <2>3, <2>4
<1>6. Sound(f) /\ HasStory(deltas, k, f) /\ Content(f) = Content(doc)
  <2>1. PICK D : IsStory(D, deltas, k, doc)
    BY <1>1 DEF HasStory
  <2> QED
    BY <1>1, <1>2, <1>5, <2>1, StoryStays DEF HasStory
<1>7. IsChain(deltas, now')
  <2>1. now' \in Nat /\ now <= now'
    BY <1>2, <1>5
  <2>2. \A i \in 1 .. Len(deltas) :
          deltas[i].id \in Nat /\ 0 < deltas[i].id /\ deltas[i].id <= now'
    BY <1>2, <2>1 DEF IsChain
  <2> QED
    BY <1>2, <2>1, <2>2 DEF IsChain
<1>8. Stays
  BY <1>3, <1>5, <1>6 DEF Stays
<1> QED
  BY <1>1, <1>3, <1>5, <1>6, <1>7, <1>8 DEF Outcome

(* These are all steps of the specification. *)
Others == Render \/ SetPosition \/ LoadStep \/ UNCHANGED vars

LEMMA NextCases ==
  ASSUME Inv, ~raced', [Next]_vars
  PROVE  ~raced /\ (Undo \/ Redo \/ Done \/ Others)
<1>1. CASE SetStepDataVersion
  <2>1. ~raced
    BY <1>1, Zenon DEF SetStepDataVersion
  <2> QED
    BY <1>1, <2>1, SetStepDataVersionDone
<1>2. CASE Undo \/ Redo
  BY <1>2 DEF Undo, Redo
<1>3. CASE Others
  <2>1. ~raced
    BY <1>3 DEF Others, Render, SetPosition, LoadStep, vars
  <2> QED
    BY <1>3, <2>1, SMTT(60)
<1>4. CASE SetStepParams \/ DeleteStep \/ ReorderSteps \/ SetTabName
  <2>1. ~raced
    BY <1>4, Zenon DEF SetStepParams, DeleteStep, ReorderSteps, SetTabName, Here
  <2> QED
    BY <1>4, <2>1, SetStepParamsDone, DeleteStepDone, ReorderStepsDone, SetTabNameDone
<1>5. CASE ReorderTabs \/ DuplicateTab \/ DeleteTab \/ AddStep
  <2>1. ~raced
    BY <1>5, Zenon DEF ReorderTabs, DuplicateTab, DeleteTab, AddStep, Here
  <2> QED
    BY <1>5, <2>1, ReorderTabsDone, DuplicateTabDone, DeleteTabDone, AddStepDone
<1> QED
  BY <1>1, <1>2, <1>3, <1>4, <1>5 DEF Next, Others

LEMMA NextOutcome == ASSUME Inv, ~raced', [Next]_vars PROVE ~raced /\ Outcome
BY NextCases, UndoOutcome, RedoOutcome, DoneOutcome, StaysOutcome DEF Others

-----------------------------------------------------------------------------
(* The invariant, which holds at first and is kept.                        *)

(* The chain stays one, even if users race. *)
ChainKept ==
  /\ IsChain(deltas', now') /\ \E k \in 0 .. Len(deltas') : IsAt(k, deltas', last')
  /\ queued' \in BOOLEAN /\ revived' \in BOOLEAN

(* A handler calls do(). *)
Does ==
  \E d, command, step, tab, back, forth, affected :
    Do(d, command, step, tab, back, forth, affected)

(* Then the chain grows. *)
LEMMA DoesKept == ASSUME Inv, Does PROVE ChainKept
<1>1. PICK d, command, step, tab, back, forth, affected :
        Do(d, command, step, tab, back, forth, affected)
  BY DEF Does
<1>2. PICK e : Written(e, d, command, step, tab, back, forth, affected) /\ Commits(d, e)
  BY <1>1, DoWrites
<1>3. PICK k \in 0 .. Len(deltas) : IsAt(k, deltas, last)
  BY DEF Inv
<1>4. PICK new : new = Append(Applied, e)
  OBVIOUS
<1>5. IsNext(now, k, e, new)
  BY <1>2, <1>3, <1>4 DEF IsNext, Inv, Written
<1>6. IsLonger(now, k, e, new)
  BY <1>5, ChainGrows
<1>7. deltas' = new /\ now' = now + 1 /\ last' = e.id
  BY <1>2, <1>4 DEF Commits
<1>8. IsAt(k + 1, new, e.id) /\ k + 1 \in 0 .. Len(new)
  BY <1>6 DEF IsLonger, IsAt
<1>9. queued' \in BOOLEAN /\ revived' \in BOOLEAN
  BY <1>2, Zenon DEF Commits
<1> QED
  BY <1>6, <1>7, <1>8, <1>9 DEF ChainKept, IsLonger

(* Undo and redo leave it, ... *)
LEMMA UndoKept == ASSUME Inv, Undo PROVE ChainKept
<1>1. PICK k \in 0 .. Len(deltas) : IsAt(k, deltas, last)
  BY DEF Inv
<1>2. /\ k - 1 \in 0 .. Len(deltas) /\ IsAt(k - 1, deltas, last')
      /\ deltas' = deltas /\ now' = now
  BY <1>1, UndoMoves
<1>3. queued' \in BOOLEAN /\ revived' \in BOOLEAN
  <2>1. \E d, e, l : Commit(d, e, l)
    BY DEF Undo
  <2> QED
    BY <2>1, Zenon DEF Commit
<1> QED
  BY <1>2, <1>3 DEF Inv, ChainKept

(* ... and go to another place in it. *)
LEMMA RedoKept == ASSUME Inv, Redo PROVE ChainKept
<1>1. PICK k \in 0 .. Len(deltas) : IsAt(k, deltas, last)
  BY DEF Inv
<1>2. /\ k + 1 \in 1 .. Len(deltas) /\ IsAt(k + 1, deltas, last')
      /\ deltas' = deltas /\ now' = now
  BY <1>1, RedoMoves
<1>3. queued' \in BOOLEAN /\ revived' \in BOOLEAN
  <2>1. \E d, e, l : Commit(d, e, l)
    BY DEF Redo
  <2> QED
    BY <2>1, Zenon DEF Commit
<1>4. k + 1 \in 0 .. Len(deltas)
  BY <1>2
<1> QED
  BY <1>2, <1>3, <1>4 DEF Inv, ChainKept

(* Ids may be left out: a click on a step takes one. *)
LEMMA OthersKept ==
  ASSUME Inv, Render \/ SetPosition \/ LoadStep \/ UNCHANGED vars
  PROVE  ChainKept /\ raced' = raced
<1>1. IsChain(deltas, now) /\ Len(deltas) \in Nat /\ now \in Nat
  BY LenProperties DEF Inv, IsChain
<1>2. /\ deltas' = deltas /\ last' = last /\ now' \in {now, now + 1} /\ raced' = raced
      /\ revived' = revived /\ queued' \in {queued, FALSE}
  <2>1. CASE Render
    BY <2>1, ZenonT(60) DEF Render
  <2>2. CASE SetPosition
    BY <2>2, ZenonT(60) DEF SetPosition, CanEdit
  <2>3. CASE LoadStep
    BY <2>3 DEF LoadStep
  <2>4. CASE UNCHANGED vars
    BY <2>4 DEF vars
  <2> QED
    BY <2>1, <2>2, <2>3, <2>4
<1>3. now' \in Nat /\ now <= now'
  BY <1>1, <1>2
<1>4. \A i \in 1 .. Len(deltas) :
        deltas[i].id \in Nat /\ 0 < deltas[i].id /\ deltas[i].id <= now'
  BY <1>1, <1>3 DEF IsChain
<1>5. IsChain(deltas, now')
  BY <1>1, <1>3, <1>4 DEF IsChain
<1>6. queued' \in BOOLEAN /\ revived' \in BOOLEAN
  BY <1>2 DEF Inv
<1> QED
  BY <1>2, <1>5, <1>6 DEF Inv, ChainKept

(* No step breaks the chain. *)
LEMMA KeptNext == ASSUME Inv, [Next]_vars PROVE ChainKept /\ raced' \in BOOLEAN
<1>1. raced \in BOOLEAN
  BY DEF Inv
<1>2. CASE Undo \/ Redo
  BY <1>1, <1>2, UndoKept, RedoKept DEF Undo, Redo
<1>3. CASE Render \/ SetPosition \/ LoadStep \/ UNCHANGED vars
  BY <1>1, <1>3, OthersKept
<1>4. CASE SetStepDataVersion
  <2>1. Does
    BY <1>4, Zenon DEF SetStepDataVersion, Does
  <2>2. raced' \in BOOLEAN
    BY <1>4, Zenon DEF SetStepDataVersion
  <2> QED
    BY <2>1, <2>2, DoesKept
<1>5. CASE SetStepParams \/ DeleteStep \/ ReorderSteps \/ SetTabName
  <2>1. Does
    BY <1>5, Zenon DEF SetStepParams, DeleteStep, ReorderSteps, SetTabName, Does
  <2>2. raced' = raced
    BY <1>5, Zenon DEF SetStepParams, DeleteStep, ReorderSteps, SetTabName, Here
  <2> QED
    BY <1>1, <2>1, <2>2, DoesKept
<1>6. CASE ReorderTabs \/ DuplicateTab \/ DeleteTab \/ AddStep
  <2>1. Does
    BY <1>6, Zenon DEF ReorderTabs, DuplicateTab, DeleteTab, AddStep, Does
  <2>2. raced' = raced
    BY <1>6, Zenon DEF ReorderTabs, DuplicateTab, DeleteTab, AddStep, Here
  <2> QED
    BY <1>1, <2>1, <2>2, DoesKept
<1> QED
  BY <1>2, <1>3, <1>4, <1>5, <1>6 DEF Next

(* Every step keeps the invariant. *)
LEMMA InvNext == ASSUME Inv, [Next]_vars PROVE Inv'
<1>1. ChainKept /\ raced' \in BOOLEAN
  BY KeptNext
<1>2. {queued', revived', raced'} \subseteq BOOLEAN
  BY <1>1 DEF ChainKept
<1>3. CASE raced'
  <2>1. IsChain(deltas', now')
    BY <1>1 DEF ChainKept
  <2>2. \E k \in 0 .. Len(deltas') :
          IsAt(k, deltas', last') /\ (~raced' => Sound(doc') /\ HasStory(deltas', k, doc'))
    BY <1>1, <1>3 DEF ChainKept
  <2> QED
    BY <1>2, <2>1, <2>2 DEF Inv
<1>4. CASE ~raced'
  <2>1. /\ IsChain(deltas', now')
        /\ \E k \in 0 .. Len(deltas') :
             IsAt(k, deltas', last') /\ Sound(doc') /\ HasStory(deltas', k, doc')
    BY <1>4, NextOutcome, SMTT(60) DEF Outcome
  <2> QED
    BY <1>2, <2>1 DEF Inv
<1> QED
  BY <1>3, <1>4

(* The first steps, where they are. *)
Firsts        == UNION {Range(FirstSteps[t]) : t \in DOMAIN FirstSteps}
FirstTab(s)   == CHOOSE t \in DOMAIN FirstSteps : s \in Range(FirstSteps[t])
FirstPlace(s) == PlaceOf(FirstSteps[FirstTab(s)], s) - 1

(* Each has one place in one tab. *)
LEMMA FirstFacts ==
  /\ \E n \in Nat : Firsts = 1 .. n
  /\ \E m \in Nat \ {0} : DOMAIN FirstSteps = 1 .. m
  /\ \A t \in DOMAIN FirstSteps : Len(FirstSteps[t]) \in Nat
  /\ \A s \in Firsts : /\ FirstTab(s) \in DOMAIN FirstSteps
                       /\ FirstPlace(s) \in Nat /\ FirstPlace(s) < Len(FirstSteps[FirstTab(s)])
                       /\ FirstSteps[FirstTab(s)][FirstPlace(s) + 1] = s
  /\ \A t \in DOMAIN FirstSteps : \A i \in 1 .. Len(FirstSteps[t]) :
       /\ FirstSteps[t][i] \in Firsts
       /\ FirstTab(FirstSteps[t][i]) = t /\ FirstPlace(FirstSteps[t][i]) = i - 1
<1>1. \E n \in Nat : Firsts = 1 .. n
  BY FirstStepsAreInTabs, StepBounds, SMTT(60) DEF Firsts
<1>2. FirstSteps \in Seq(Seq(Nat)) /\ FirstSteps # <<>>
  BY FirstStepsAreInTabs
<1>3. Len(FirstSteps) \in Nat /\ DOMAIN FirstSteps = 1 .. Len(FirstSteps) /\ Len(FirstSteps) # 0
  BY <1>2, LenProperties, EmptySeq
<1>4. \A t \in DOMAIN FirstSteps :
        /\ FirstSteps[t] \in Seq(Nat) /\ Len(FirstSteps[t]) \in Nat
        /\ DOMAIN FirstSteps[t] = 1 .. Len(FirstSteps[t])
  <2> TAKE t \in DOMAIN FirstSteps
  <2>1. FirstSteps[t] \in Seq(Nat)
    BY <1>2, <1>3, ElementOfSeq
  <2> QED
    BY <2>1, LenProperties
<1>5. \A t, u \in DOMAIN FirstSteps : \A i \in DOMAIN FirstSteps[t], j \in DOMAIN FirstSteps[u] :
        FirstSteps[t][i] = FirstSteps[u][j] => t = u /\ i = j
  BY FirstStepsAreInTabs
<1>6. ASSUME NEW t \in DOMAIN FirstSteps, NEW i \in DOMAIN FirstSteps[t],
             NEW s, s = FirstSteps[t][i]
      PROVE  s \in Firsts /\ FirstTab(s) = t /\ FirstPlace(s) = i - 1
  <2>1. s \in Range(FirstSteps[t])
    BY <1>6 DEF Range
  <2>2. s \in Firsts
    BY <2>1 DEF Firsts
  <2>3. FirstTab(s) \in DOMAIN FirstSteps /\ s \in Range(FirstSteps[FirstTab(s)])
    BY <2>1 DEF FirstTab
  <2>4. PICK u : u = FirstTab(s)
    OBVIOUS
  <2>5. PICK j \in DOMAIN FirstSteps[u] : FirstSteps[u][j] = s
    BY <2>3, <2>4 DEF Range
  <2>6. u = t
    BY <1>5, <1>6, <2>3, <2>4, <2>5
  <2>7. PICK list : list = FirstSteps[t]
    OBVIOUS
  <2>8. i \in DOMAIN list /\ list[i] = s /\ \A k \in DOMAIN list : list[k] = s => k = i
    BY <1>5, <1>6, <2>7
  <2>9. PlaceOf(list, s) = i
    BY <2>8 DEF PlaceOf
  <2> QED
    BY <2>2, <2>4, <2>6, <2>7, <2>9 DEF FirstPlace
<1>7. ASSUME NEW s \in Firsts
      PROVE  /\ FirstTab(s) \in DOMAIN FirstSteps
             /\ FirstPlace(s) \in Nat /\ FirstPlace(s) < Len(FirstSteps[FirstTab(s)])
             /\ FirstSteps[FirstTab(s)][FirstPlace(s) + 1] = s
  <2>1. PICK t \in DOMAIN FirstSteps : s \in Range(FirstSteps[t])
    BY DEF Firsts
  <2>2. PICK i \in DOMAIN FirstSteps[t] : s = FirstSteps[t][i]
    BY <2>1 DEF Range
  <2>3. FirstTab(s) = t /\ FirstPlace(s) = i - 1
    BY <1>6, <2>2
  <2>4. i \in 1 .. Len(FirstSteps[t]) /\ Len(FirstSteps[t]) \in Nat /\ i - 1 + 1 = i
    BY <1>4
  <2> QED
    BY <2>2, <2>3, <2>4
<1> QED
  BY <1>1, <1>3, <1>4, <1>6, <1>7

(* At first, the tabs and the steps are in order. *)
LEMMA InitIsSound == ASSUME Init PROVE Sound(doc)
<1>1. PICK reads :
        doc = [tabs  |-> [t \in DOMAIN FirstSteps |->
                            [name     |-> CHOOSE name \in Names : TRUE,
                             selected |-> {0} \cap 0 .. Len(FirstSteps[t]) - 1]],
               order |-> [t \in DOMAIN FirstSteps |-> t],
               steps |-> [s \in Firsts |->
                            [tab |-> FirstTab(s), order |-> FirstPlace(s),
                             is_deleted |-> FALSE, delta |-> None, version |-> 0,
                             params |-> [reads |-> reads[s], value |-> 0], crr |-> <<>>]]]
  BY Zenon DEF Init, Firsts, FirstTab, FirstPlace
<1> DEFINE Row(s) == [tab |-> FirstTab(s), order |-> FirstPlace(s),
                      is_deleted |-> FALSE, delta |-> None, version |-> 0,
                      params |-> [reads |-> reads[s], value |-> 0], crr |-> <<>>]
<1>2. /\ DOMAIN doc = {"tabs", "order", "steps"}
      /\ doc.tabs = [t \in DOMAIN FirstSteps |->
                       [name     |-> CHOOSE name \in Names : TRUE,
                        selected |-> {0} \cap 0 .. Len(FirstSteps[t]) - 1]]
      /\ doc.order = [t \in DOMAIN FirstSteps |-> t]
      /\ doc.steps = [s \in Firsts |-> Row(s)]
  BY <1>1
<1>3. \A s : /\ DOMAIN Row(s) = Columns /\ Row(s).tab = FirstTab(s)
             /\ Row(s).order = FirstPlace(s) /\ Row(s).is_deleted = FALSE
             /\ Row(s).is_deleted \in BOOLEAN /\ Row(s).delta = 0
  BY DEF Columns, None
<1> HIDE DEF Row
<1>4. /\ Steps(doc) = Firsts /\ Tabs(doc) = DOMAIN FirstSteps
      /\ \A s \in Firsts : /\ TabOf(doc, s) = FirstTab(s) /\ Place(doc, s) = FirstPlace(s)
                           /\ doc.steps[s].is_deleted = FALSE /\ ~Gone(doc, s)
      /\ \A t \in DOMAIN FirstSteps : /\ DOMAIN doc.tabs[t] = {"name", "selected"}
                                      /\ Chosen(doc, t) = {0} \cap 0 .. Len(FirstSteps[t]) - 1
  BY <1>2, <1>3 DEF Steps, Tabs, TabOf, Place, Gone, Chosen
<1>5. IsDoc(doc)
  <2>1. \A s \in DOMAIN doc.steps :
          /\ DOMAIN doc.steps[s] = Columns
          /\ doc.steps[s].tab \in DOMAIN doc.tabs /\ doc.steps[s].order \in Nat
          /\ doc.steps[s].is_deleted \in BOOLEAN /\ doc.steps[s].delta \in Nat
    <3> TAKE s \in DOMAIN doc.steps
    <3>1. doc.steps[s] = Row(s) /\ s \in Firsts
      BY <1>2
    <3>2. FirstTab(s) \in DOMAIN doc.tabs /\ FirstPlace(s) \in Nat
      BY <1>2, <3>1, FirstFacts
    <3>3. PICK row : row = doc.steps[s]
      OBVIOUS
    <3>4. /\ DOMAIN row = Columns /\ row.tab = FirstTab(s) /\ row.order = FirstPlace(s)
          /\ row.is_deleted \in BOOLEAN /\ row.delta = 0
      BY <1>3, <3>1, <3>3
    <3>5. /\ DOMAIN row = Columns /\ row.tab \in DOMAIN doc.tabs /\ row.order \in Nat
          /\ row.is_deleted \in BOOLEAN /\ row.delta \in Nat
      BY <3>2, <3>4
    <3> QED
      BY <3>3, <3>5
  <2>2. \A t \in DOMAIN doc.tabs : DOMAIN doc.tabs[t] = {"name", "selected"}
    BY <1>4 DEF Tabs
  <2> QED
    BY <1>2, <2>1, <2>2 DEF IsDoc
<1>6. ASSUME NEW t \in Tabs(doc)
      PROVE  Dense(doc, t, Len(FirstSteps[t])) /\ Len(FirstSteps[t]) \in Nat
  <2>1. PICK n \in Nat : n = Len(FirstSteps[t])
    BY <1>4, FirstFacts
  <2>2. \A s : s \in StepsOf(doc, t) <=> s \in Firsts /\ FirstTab(s) = t
    BY <1>4, TabFacts
  <2>3. \A s \in StepsOf(doc, t) :
          /\ Place(doc, s) = FirstPlace(s) /\ Place(doc, s) \in Nat /\ Place(doc, s) < n
          /\ FirstSteps[t][Place(doc, s) + 1] = s
    BY <1>4, <2>1, <2>2, FirstFacts, SMTT(60)
  <2>4. ASSUME NEW q \in Nat, q < n
        PROVE  \E s \in StepsOf(doc, t) : Place(doc, s) = q
    <3>1. PICK i : i = q + 1
      OBVIOUS
    <3>2. i \in 1 .. Len(FirstSteps[t]) /\ i - 1 = q
      BY <2>1, <2>4, <3>1
    <3>3. PICK s : s = FirstSteps[t][i]
      OBVIOUS
    <3>4. s \in Firsts /\ FirstTab(s) = t /\ FirstPlace(s) = q
      BY <1>4, <3>2, <3>3, FirstFacts
    <3> QED
      BY <2>2, <2>3, <3>4
  <2> QED
    BY <2>1, <2>3, <2>4 DEF Dense
<1>7. InOrder(doc)
  <2>1. PICK m \in Nat \ {0} : DOMAIN FirstSteps = 1 .. m
    BY FirstFacts
  <2>2. doc.order = [t \in 1 .. m |-> t] /\ Tabs(doc) = 1 .. m
    BY <1>2, <1>4, <2>1
  <2>3. [t \in 1 .. m |-> t] \in Seq(1 .. m)
    <3>1. [t \in 1 .. m |-> t] \in [1 .. m -> 1 .. m]
      OBVIOUS
    <3> QED
      BY <3>1, SeqDef
  <2>4. Len([t \in 1 .. m |-> t]) = m
    BY <2>3, LenProperties
  <2>5. [t \in 1 .. m |-> t] # <<>>
    BY <2>3, <2>4, EmptySeq
  <2>6. IsOrder(Order(doc), Tabs(doc))
    BY <2>2, <2>3, <2>5 DEF IsOrder, Order
  <2> QED
    BY <1>6, <2>6 DEF InOrder
<1>8. ChosenAreThere(doc)
  <2> SUFFICES ASSUME NEW t \in Tabs(doc), NEW q \in Chosen(doc, t)
               PROVE  q \in Nat /\ q < Cardinality(StepsOf(doc, t))
    BY DEF ChosenAreThere
  <2>1. PICK n \in Nat : n = Len(FirstSteps[t]) /\ Dense(doc, t, n)
    BY <1>6
  <2>2. Cardinality(StepsOf(doc, t)) = n
    BY <1>5, <2>1, DenseFacts
  <2>3. q \in 0 .. n - 1
    BY <1>4, <2>1
  <2> QED
    BY <2>2, <2>3
<1>9. Numbered(doc)
  BY <1>4, FirstFacts DEF Numbered
<1> QED
  BY <1>5, <1>7, <1>8, <1>9 DEF Sound

(* The story of no deltas is the first document. *)
LEMMA FirstStory == ASSUME Init PROVE \E D : IsStory(D, deltas, 0, doc) /\ D[0] = doc
<1> DEFINE D == [j \in {0} |-> doc]
<1>1. IsDoc(doc) /\ InOrder(doc) /\ Frame(doc, doc) /\ Same(doc, doc)
  BY InitIsSound DEF Sound, Same, Frame, Agree
<1>2. D[0] = doc
  OBVIOUS
<1> HIDE DEF D
<1>3. Len(deltas) = 0
  BY EmptySeq DEF Init
<1>4. Tells(D, deltas, doc)
  <2>1. \A j \in 0 .. Len(deltas) : j = 0
    BY <1>3
  <2>2. \A i \in 1 .. Len(deltas) : FALSE
    BY <1>3
  <2> QED
    BY <1>1, <1>2, <2>1, <2>2 DEF Tells
<1> QED
  BY <1>1, <1>2, <1>4 DEF IsStory

(* The invariant holds at first, with a story of one document, ... *)
LEMMA InvInit == ASSUME Init PROVE Inv
<1>1. Sound(doc)
  BY InitIsSound
<1>2. /\ deltas = <<>> /\ last = None /\ now = 0
      /\ queued = TRUE /\ raced = FALSE /\ revived = FALSE
  BY DEF Init
<1>3. deltas \in Seq({}) /\ Len(deltas) = 0
  BY <1>2, EmptySeq
<1>4. IsChain(deltas, now)
  <2>1. PICK S : S = Range(deltas)
    OBVIOUS
  <2>2. deltas \in Seq(S)
    BY <1>2, EmptySeq
  <2>3. deltas \in Seq(Range(deltas))
    BY <2>1, <2>2
  <2> QED
    BY <1>2, <1>3, <2>3 DEF IsChain
<1>5. 0 \in 0 .. Len(deltas) /\ IsAt(0, deltas, last)
  BY <1>2, <1>3 DEF IsAt
<1>6. HasStory(deltas, 0, doc)
  BY FirstStory DEF HasStory
<1> QED
  BY <1>1, <1>2, <1>4, <1>5, <1>6 DEF Inv

(* ... and for ever. *)
THEOREM Invariance == Spec => []Inv
<1>1. Init => Inv
  BY InvInit
<1>2. Inv /\ [Next]_vars => Inv'
  BY InvNext
<1> QED
  BY <1>1, <1>2, PTL DEF Spec

-----------------------------------------------------------------------------
(* The steps of a tab have places 0, 1, 2 ..., and what is selected is one *)
(* of them: commands and their undoing only ever close gaps they have made *)
(* and open gaps they fill (AddStep.forward() and so on).                  *)
THEOREM StepsStayInOrder == Spec => []StepsAreInOrder
<1>1. Inv => StepsAreInOrder
  <2> SUFFICES ASSUME Inv, ~raced, NEW t \in LiveTabs(doc)
               PROVE  /\ {Place(doc, s) : s \in StepsOf(doc, t)}
                           = 0 .. Cardinality(StepsOf(doc, t)) - 1
                      /\ Chosen(doc, t) \subseteq 0 .. Cardinality(StepsOf(doc, t)) - 1
    BY DEF StepsAreInOrder, Place, Chosen
  <2>1. Sound(doc) /\ IsDoc(doc) /\ InOrder(doc) /\ t \in Tabs(doc)
    BY SoundFacts
  <2>2. PICK n \in Nat : Dense(doc, t, n)
    BY <2>1 DEF InOrder
  <2>3. {Place(doc, s) : s \in StepsOf(doc, t)} = 0 .. n - 1 /\ Cardinality(StepsOf(doc, t)) = n
    BY <2>1, <2>2, DenseFacts
  <2>4. \A q \in Chosen(doc, t) : q \in Nat /\ q < n
    BY <2>1, <2>3 DEF Sound, ChosenAreThere
  <2>5. \A q \in Chosen(doc, t) : q \in 0 .. n - 1
    BY <2>4
  <2> QED
    BY <2>3, <2>5
<1> QED
  BY <1>1, Invariance, PTL

(* A step without a fresh result has a render coming, unless it came back  *)
(* from a deletion unrendered, or users raced: whatever makes a step stale *)
(* asks for a render in the same do(), undo or redo (commands/util.py).    *)
THEOREM StaleStepsStayQueued == Spec => []StaleStepsAreQueued
<1>1. Init => StaleStepsAreQueued
  BY DEF Init, StaleStepsAreQueued
<1>2. ASSUME Inv, [Next]_vars, StaleStepsAreQueued
      PROVE  StaleStepsAreQueued'
  <2> SUFFICES ASSUME ~raced' PROVE Stale(doc') # {} => queued' \/ revived'
    BY DEF StaleStepsAreQueued
  <2>1. ~raced /\ Outcome
    BY <1>2, NextOutcome
  <2>2. Stale(doc) = {} \/ queued \/ revived
    BY <1>2, <2>1, Zenon DEF StaleStepsAreQueued
  <2>3. Stale(doc') = {} \/ queued' \/ revived'
    BY <2>1, <2>2, Zenon DEF Outcome
  <2> QED
    BY <2>3
<1>3. Inv /\ [Next]_vars /\ StaleStepsAreQueued => StaleStepsAreQueued'
  BY <1>2
<1> QED
  BY <1>1, <1>3, Invariance, PTL DEF Spec

-----------------------------------------------------------------------------
(* Results that are true.                                                  *)

(* Nobody sees a difference between the steps of a and of b. *)
AsIn(a, b) ==
  /\ LiveSteps(a) = LiveSteps(b)
  /\ \A s \in LiveSteps(b) : /\ DeltaOf(a, s) = DeltaOf(b, s) /\ ReadsOf(a, s) = ReadsOf(b, s)
                             /\ Outputs(a)[s] = Outputs(b)[s]

(* If step s of c has the delta that its result on rows d was computed     *)
(* for, that is its output.                                                *)
IsTrueIn(c, d, s) ==
  ResultOf(d, s) # <<>> /\ ResultOf(d, s)[1].delta = DeltaOf(c, s)
    => ResultOf(d, s)[1].out = Outputs(c)[s]

(* That is so of all steps of c; and they read tabs there are, and have no *)
(* delta later than q, nor results of one.                                 *)
TellsTruth(c, d, q) ==
  \A s \in LiveSteps(c) :
    /\ DeltaOf(c, s) <= q /\ ReadsOf(c, s) \subseteq Tabs(d)
    /\ ResultOf(d, s) # <<>> => ResultOf(d, s)[1].delta \in 0 .. q
    /\ IsTrueIn(c, d, s)

(* A step with the same delta in b and c has the same output. *)
Consistent(b, c) ==
  \A s \in LiveSteps(b) \cap LiveSteps(c) :
    DeltaOf(b, s) = DeltaOf(c, s) => Outputs(b)[s] = Outputs(c)[s]

(* A story in which results stay true, wherever undo and redo go. *)
IsTrue(D, n, d, q) ==
  \A j \in 0 .. n : TellsTruth(D[j], d, q) /\ \A i \in 0 .. n : Consistent(D[i], D[j])

TruthInv ==
  \/ raced \/ dangled
  \/ \E k \in 0 .. Len(deltas) : \E D :
       IsAt(k, deltas, last) /\ IsStory(D, deltas, k, doc) /\ IsTrue(D, Len(deltas), doc, now)

(* Rows that grow are seen as they were. *)
LEMMA GrownIsAsIn ==
  ASSUME NEW a, IsDoc(a), InOrder(a), NEW b, IsDoc(b), InOrder(b), NEW x,
         Grown(a, b, x) \/ Same(a, b)
  PROVE  AsIn(a, b)
<1>1. CASE Grown(a, b, x)
  BY <1>1, OutputsGrown DEF AsIn
<1>2. CASE Same(a, b)
  <2>1. Grown(a, b, b)
    BY <1>2, SameIsGrown
  <2> QED
    BY <2>1, OutputsGrown DEF AsIn
<1> QED
  BY <1>1, <1>2

(* So what is said of one can be said of the other. *)
LEMMA AsInFacts ==
  ASSUME NEW a, NEW b, AsIn(a, b)
  PROVE  /\ \A d, q : TellsTruth(b, d, q) => TellsTruth(a, d, q)
         /\ \A c : Consistent(c, b) => Consistent(c, a)
         /\ \A c : Consistent(b, c) => Consistent(a, c)
<1>1. ASSUME NEW d, NEW q, TellsTruth(b, d, q) PROVE TellsTruth(a, d, q)
  BY <1>1 DEF AsIn, TellsTruth, IsTrueIn
<1>2. ASSUME NEW c, Consistent(c, b) PROVE Consistent(c, a)
  BY <1>2 DEF AsIn, Consistent
<1>3. ASSUME NEW c, Consistent(b, c) PROVE Consistent(a, c)
  BY <1>3 DEF AsIn, Consistent
<1> QED
  BY <1>1, <1>2, <1>3

(* While results stay, they stay true. *)
LEMMA TruthStays ==
  ASSUME NEW D, NEW n, NEW d, NEW q \in Nat, IsTrue(D, n, d, q), NEW f, NEW p \in Nat, q <= p,
         Tabs(d) \subseteq Tabs(f),
         \A j \in 0 .. n : IsDoc(D[j]) /\ Steps(D[j]) = Steps(d),
         \A s \in Steps(d) : ResultOf(f, s) = ResultOf(d, s)
  PROVE  IsTrue(D, n, f, p)
<1> SUFFICES ASSUME NEW j \in 0 .. n PROVE TellsTruth(D[j], f, p)
  BY DEF IsTrue
<1>1. PICK c : c = D[j]
  OBVIOUS
<1>2. IsDoc(c) /\ Steps(c) = Steps(d) /\ TellsTruth(c, d, q)
  BY <1>1 DEF IsTrue
<1>3. ASSUME NEW s \in LiveSteps(c)
      PROVE  /\ DeltaOf(c, s) <= p /\ ReadsOf(c, s) \subseteq Tabs(f)
             /\ ResultOf(f, s) # <<>> => ResultOf(f, s)[1].delta \in 0 .. p
             /\ IsTrueIn(c, f, s)
  <2>1. s \in Steps(d) /\ DeltaOf(c, s) \in Nat
    BY <1>2, LiveStepsFacts, DocFacts
  <2>2. ResultOf(f, s) = ResultOf(d, s)
    BY <2>1
  <2>3. /\ DeltaOf(c, s) <= q /\ ReadsOf(c, s) \subseteq Tabs(d)
        /\ ResultOf(d, s) # <<>> => ResultOf(d, s)[1].delta \in 0 .. q
        /\ IsTrueIn(c, d, s)
    BY <1>2 DEF TellsTruth
  <2> QED
    BY <2>1, <2>2, <2>3 DEF IsTrueIn
<1> QED
  BY <1>1, <1>3 DEF TellsTruth

(* A render computes true results. *)
LEMMA TruthRendered ==
  ASSUME NEW D, NEW es, NEW d, Sound(d), NEW k \in 0 .. Len(es), IsStory(D, es, k, d),
         NEW q \in Nat, IsTrue(D, Len(es), d, q), NEW f, f = Rendered(d)
  PROVE  IsTrue(D, Len(es), f, q)
<1> SUFFICES ASSUME NEW j \in 0 .. Len(es) PROVE TellsTruth(D[j], f, q)
  BY DEF IsTrue
<1>1. PICK c : c = D[j]
  OBVIOUS
<1>2. PICK b : b = D[k]
  OBVIOUS
<1>3. IsDoc(d) /\ InOrder(d)
  BY DEF Sound
<1>4. Tells(D, es, d) /\ Same(d, b)
  BY <1>2 DEF IsStory
<1>5. IsDoc(c) /\ InOrder(c) /\ Steps(c) = Steps(d) /\ IsDoc(b) /\ InOrder(b)
  BY <1>1, <1>2, <1>3, <1>4, StoryAt
<1>6. AsIn(d, b)
  BY <1>3, <1>4, <1>5, GrownIsAsIn
<1>7. TellsTruth(c, d, q) /\ Consistent(b, c) /\ TellsTruth(b, d, q)
  BY <1>1, <1>2 DEF IsTrue
<1>8. /\ Tabs(f) = Tabs(d)
      /\ \A s \in Stale(d) : /\ ResultOf(f, s)[1].delta = DeltaOf(d, s)
                             /\ ResultOf(f, s)[1].out = Outputs(d)[s]
      /\ \A s \in Steps(d) \ Stale(d) : ResultOf(f, s) = ResultOf(d, s)
  BY RenderedRows DEF Same, Frame
<1>9. ASSUME NEW s \in LiveSteps(c)
      PROVE  /\ DeltaOf(c, s) <= q /\ ReadsOf(c, s) \subseteq Tabs(f)
             /\ ResultOf(f, s) # <<>> => ResultOf(f, s)[1].delta \in 0 .. q
             /\ IsTrueIn(c, f, s)
  <2>1. s \in Steps(d)
    BY <1>5, LiveStepsFacts
  <2>2. /\ DeltaOf(c, s) <= q /\ ReadsOf(c, s) \subseteq Tabs(d)
        /\ ResultOf(d, s) # <<>> => ResultOf(d, s)[1].delta \in 0 .. q
        /\ IsTrueIn(c, d, s)
    BY <1>7 DEF TellsTruth
  <2>3. CASE s \in Stale(d)
    <3>1. s \in LiveSteps(b)
      BY <1>6, <2>3, StaleFacts DEF AsIn
    <3>2. DeltaOf(d, s) = DeltaOf(b, s) /\ Outputs(d)[s] = Outputs(b)[s]
      BY <1>6, <3>1 DEF AsIn
    <3>3. DeltaOf(d, s) \in Nat /\ DeltaOf(d, s) <= q
      BY <1>3, <1>7, <2>1, <3>1, <3>2, DocFacts DEF TellsTruth
    <3>4. ResultOf(f, s)[1].delta = DeltaOf(d, s) /\ ResultOf(f, s)[1].out = Outputs(d)[s]
      BY <1>8, <2>3
    <3>5. DeltaOf(b, s) = DeltaOf(c, s) => Outputs(b)[s] = Outputs(c)[s]
      BY <1>7, <3>1 DEF Consistent
    <3> QED
      BY <1>8, <2>2, <3>2, <3>3, <3>4, <3>5 DEF IsTrueIn
  <2>4. CASE s \notin Stale(d)
    <3>1. ResultOf(f, s) = ResultOf(d, s)
      BY <1>8, <2>1, <2>4
    <3> QED
      BY <1>8, <2>2, <3>1 DEF IsTrueIn
  <2> QED
    BY <2>3, <2>4
<1> QED
  BY <1>1, <1>9 DEF TellsTruth

(* After a delta, a step that was there has the delta's id or its output,  *)
OldStep(f, d, e, s) ==
  /\ s \in Steps(doc) /\ s \in LiveSteps(d) /\ ReadsOf(f, s) \subseteq Tabs(doc)
  /\ ResultOf(f, s) = ResultOf(doc, s)
  /\ \/ DeltaOf(f, s) = e.id
     \/ DeltaOf(f, s) = DeltaOf(d, s) /\ Outputs(f)[s] = Outputs(d)[s]

(* and one that is new has no result, or that of a step with its output.   *)
NewOne(f, d, e, s) ==
  /\ s \notin Steps(doc) /\ ReadsOf(f, s) \subseteq Tabs(doc) /\ DeltaOf(f, s) <= e.id
  /\ \/ ResultOf(f, s) = <<>>
     \/ \E r \in LiveSteps(d) :
          /\ ResultOf(f, s) = ResultOf(doc, r) /\ ResultOf(f, s)[1].delta = DeltaOf(d, r)
          /\ Outputs(f)[s] = Outputs(d)[r]

(* A handler has written delta e, by which d goes to f, on rows d. *)
Writes(f, d, e) ==
  /\ Sound(doc) /\ Sound(d) /\ Grown(d, doc, d) /\ Made(e, d)
  /\ e.command = "AddStep" => e.step \notin Steps(doc)
  /\ now \in Nat /\ e.id = now + 1
  /\ NewOnes(d, e) /\ Touches(e, d) /\ Brings(d, e)
  /\ Goes(f, d, e, "forth") /\ InOrder(f) /\ LiveTabs(f) = LiveAfter(e, LiveTabs(d))
  /\ e.command = "DeleteTab" => \A s \in LiveSteps(f) : e.tab \notin ReadsOf(f, s)
  /\ TellsTruth(d, doc, now)

(* What there is, whatever the command. *)
LEMMA WritesFacts ==
  ASSUME NEW f, NEW d, NEW e, Writes(f, d, e)
  PROVE  /\ IsDoc(doc) /\ InOrder(doc) /\ IsDoc(d) /\ InOrder(d) /\ IsDoc(f) /\ InOrder(f)
         /\ Steps(f) = Steps(d) /\ Steps(doc) \subseteq Steps(d)
         /\ Tabs(f) = Tabs(d) /\ Tabs(doc) \subseteq Tabs(d)
         /\ \A s \in Steps(d) : TabOf(f, s) = TabOf(d, s) /\ ResultOf(f, s) = ResultOf(d, s)
         /\ \A s \in Steps(doc) : TabOf(d, s) \in Tabs(doc) /\ ResultOf(d, s) = ResultOf(doc, s)
         /\ AsIn(d, doc) /\ Fits(e, d) /\ e.command \in Commands
<1>1. IsDoc(doc) /\ InOrder(doc) /\ IsDoc(d) /\ InOrder(d)
  BY DEF Writes, Sound
<1>2. SameRows(f, d) /\ InOrder(f)
  BY DEF Writes, Goes, Works
<1>3. Extends(d, doc) /\ AsIn(d, doc)
  BY <1>1, GrownIsAsIn DEF Writes, Grown
<1>4. \A s \in Steps(doc) : TabOf(d, s) \in Tabs(doc) /\ ResultOf(d, s) = ResultOf(doc, s)
  BY <1>1, <1>3, DocFacts DEF Extends, Writes, NewOnes
<1>5. Fits(e, d) /\ e.command \in Commands
  BY DEF Writes, Made, Fits
<1> QED
  BY <1>1, <1>2, <1>3, <1>4, <1>5 DEF SameRows, Extends

(* The steps there were: *)
LEMMA OldSteps ==
  ASSUME NEW f, NEW d, NEW e, Writes(f, d, e), NEW s \in LiveSteps(f), s \in Steps(doc)
  PROVE  OldStep(f, d, e, s)
<1>1. /\ IsDoc(d) /\ InOrder(d) /\ Steps(f) = Steps(d) /\ s \in Steps(d)
      /\ TabOf(f, s) = TabOf(d, s) /\ ResultOf(f, s) = ResultOf(doc, s)
      /\ TabOf(d, s) \in Tabs(doc) /\ e.command \in Commands /\ Fits(e, d)
  BY WritesFacts
<1>2. /\ ~Gone(f, s) /\ TabOf(d, s) \in LiveTabs(f)
  BY <1>1, LiveStepsFacts
<1>3. ~(e.command = "AddStep" /\ s = e.step)
  BY DEF Writes
<1>4. ~(e.command = "DuplicateTab" /\ TabOf(d, s) = e.tab)
  BY <1>1 DEF Writes, Brings
<1>5. s \in LiveSteps(d)
  <2>1. ~Gone(d, s)
    <3>1. ~GoneAfter(d, e, "forth", s)
      BY <1>1, <1>2 DEF Writes, Goes, Works
    <3> QED
      BY <1>3, <3>1 DEF GoneAfter, Opening
  <2>2. TabOf(d, s) \in LiveTabs(d)
    BY <1>2, <1>4 DEF Writes, LiveAfter
  <2> QED
    BY <1>1, <2>1, <2>2, LiveStepsFacts
<1>6. ReadsOf(f, s) \subseteq Tabs(doc)
  <2>1. ReadsOf(d, s) \subseteq Tabs(doc)
    BY <1>5 DEF Writes, TellsTruth
  <2>2. ParamsOf(f, s) = ParamsAfter(d, e, "forth", s)
    BY <1>1 DEF Writes, Goes, Works
  <2>3. ReadsOf(f, s) = ParamsOf(f, s).reads /\ ReadsOf(d, s) = ParamsOf(d, s).reads
    BY DEF ReadsOf, ParamsOf
  <2>4. CASE e.command = "SetStepParams" /\ s = e.step
    <3>1. ParamsOf(f, s) = e.forth
      BY <2>2, <2>4 DEF ParamsAfter, Data
    <3> QED
      BY <2>3, <2>4, <3>1 DEF Writes, Brings
  <2>5. CASE ~(e.command = "SetStepParams" /\ s = e.step)
    <3>1. ParamsOf(f, s) = ParamsOf(d, s)
      BY <2>2, <2>5 DEF ParamsAfter
    <3> QED
      BY <2>1, <2>3, <3>1
  <2> QED
    BY <2>4, <2>5
<1>7. DeltaOf(f, s) = IF s \in DOMAIN e.ids THEN e.id ELSE DeltaOf(d, s)
  <2>1. DeltaOf(f, s) = DeltaAfter(d, e, "forth", s)
    BY <1>1 DEF Writes, Goes
  <2> QED
    BY <1>3, <2>1 DEF DeltaAfter, DeltaOfNew
<1>8. CASE s \in DOMAIN e.ids
  BY <1>1, <1>5, <1>6, <1>7, <1>8 DEF OldStep
<1>9. CASE s \notin DOMAIN e.ids
  <2>1. Made(e, d) /\ Goes(f, d, e, "forth") /\ Touches(e, d)
    BY DEF Writes
  <2>2. CASE e.command \notin {"DuplicateTab", "DeleteTab"}
    <3>1. Outputs(f)[s] = Outputs(d)[s]
      BY <1>1, <1>5, <1>9, <2>1, <2>2, OutputsGo
    <3> QED
      BY <1>1, <1>5, <1>6, <1>7, <1>9, <3>1 DEF OldStep
  <2>3. CASE e.command = "DeleteTab"
    <3>1. \A r \in LiveSteps(f) : e.tab \notin ReadsOf(f, r)
      BY <2>3 DEF Writes
    <3>2. Outputs(f)[s] = Outputs(d)[s]
      BY <1>1, <2>1, <2>3, <3>1, OutputsHidden
    <3> QED
      BY <1>1, <1>5, <1>6, <1>7, <1>9, <3>2 DEF OldStep
  <2>4. CASE e.command = "DuplicateTab"
    <3>1. e.tab \notin Tabs(doc) /\ \E u \in LiveTabs(doc) : \E m : AreCopies(m, d, e, u)
      BY <2>4 DEF Writes, Brings
    <3>2. PICK u \in LiveTabs(doc) : \E m : Copies(m, d, e.tab, u)
      BY <3>1 DEF AreCopies
    <3>3. u \in LiveTabs(d)
      BY DEF Writes, Grown, LiveTabs, Order
    <3>4. \A r \in LiveSteps(d) : e.tab \notin ReadsOf(d, r)
      BY <3>1 DEF Writes, TellsTruth
    <3>5. Outputs(f)[s] = Outputs(d)[s]
      BY <1>1, <1>5, <2>1, <2>4, <3>2, <3>3, <3>4, OutputsShown
    <3> QED
      BY <1>1, <1>5, <1>6, <1>7, <1>9, <3>5 DEF OldStep
  <2> QED
    BY <2>2, <2>3, <2>4
<1> QED
  BY <1>8, <1>9

(* ... and new ones. *)
LEMMA NewSteps ==
  ASSUME NEW f, NEW d, NEW e, Writes(f, d, e), NEW s \in LiveSteps(f), s \notin Steps(doc)
  PROVE  NewOne(f, d, e, s)
<1>1. /\ IsDoc(d) /\ InOrder(d) /\ Steps(f) = Steps(d) /\ s \in Steps(d)
      /\ TabOf(f, s) = TabOf(d, s) /\ ResultOf(f, s) = ResultOf(d, s)
      /\ e.command \in Commands /\ Fits(e, d) /\ AsIn(d, doc)
  BY WritesFacts, LiveStepsFacts
<1>2. e.command = "AddStep" \/ (e.command = "DuplicateTab" /\ TabOf(d, s) = e.tab)
  BY <1>1 DEF Writes, NewOnes
<1>3. ReadsOf(f, s) = ReadsOf(d, s)
  <2>1. ParamsOf(f, s) = ParamsAfter(d, e, "forth", s)
    BY <1>1 DEF Writes, Goes, Works
  <2>2. ParamsOf(f, s) = ParamsOf(d, s)
    BY <1>2, <2>1 DEF ParamsAfter
  <2> QED
    BY <2>2 DEF ReadsOf, ParamsOf
<1>4. DeltaOf(f, s) = DeltaAfter(d, e, "forth", s) /\ now \in Nat /\ e.id = now + 1
  BY <1>1 DEF Writes, Goes
<1>5. CASE e.command = "AddStep"
  <2>1. /\ s = e.step /\ DeltaOf(d, s) = None /\ ResultOf(d, s) = <<>>
        /\ ReadsOf(d, s) \subseteq Tabs(doc)
    BY <1>1, <1>5 DEF Writes, Brings
  <2>2. DeltaOf(f, s) = e.id
    BY <1>4, <1>5, <2>1 DEF DeltaAfter, DeltaOfNew
  <2> QED
    BY <1>1, <1>3, <1>4, <2>1, <2>2 DEF NewOne
<1>6. CASE e.command = "DuplicateTab"
  <2>1. s \in StepsOf(d, e.tab)
    <3>1. ~Gone(f, s)
      BY LiveStepsFacts
    <3>2. ~GoneAfter(d, e, "forth", s)
      BY <1>1, <3>1 DEF Writes, Goes, Works
    <3>3. ~Gone(d, s)
      BY <1>6, <3>2 DEF GoneAfter, Opening
    <3> QED
      BY <1>1, <1>2, <1>6, <3>3, TabFacts
  <2>2. e.tab \notin Tabs(doc) /\ \E u \in LiveTabs(doc) : \E m : AreCopies(m, d, e, u)
    BY <1>6 DEF Writes, Brings
  <2>3. PICK u \in LiveTabs(doc) : \E m : AreCopies(m, d, e, u)
    BY <2>2
  <2>4. PICK m, r : AreCopies(m, d, e, u) /\ r = m[s]
    BY <2>3
  <2>5. u \in LiveTabs(d)
    BY DEF Writes, Grown, LiveTabs, Order
  <2>6. /\ Copies(m, d, e.tab, u) /\ r \in StepsOf(d, u) /\ ParamsOf(d, s) = ParamsOf(d, r)
        /\ DeltaOf(d, s) = DeltaOf(d, r)
        /\ ResultOf(d, s) # <<>> => /\ NameOf(d, e.tab) = NameOf(d, u)
                                    /\ ResultOf(d, s) = ResultOf(d, r)
                                    /\ ResultOf(d, s)[1].delta = DeltaOf(d, r)
    BY <2>1, <2>3, <2>4 DEF AreCopies, Copies
  <2>7. r \in LiveSteps(d)
    BY <2>5, <2>6 DEF LiveSteps
  <2>8. r \in Steps(doc) /\ ResultOf(d, r) = ResultOf(doc, r)
    <3>1. r \in LiveSteps(doc)
      BY <1>1, <2>7 DEF AsIn
    <3>2. r \in Steps(doc)
      BY <3>1, LiveStepsFacts
    <3> QED
      BY <3>2, WritesFacts
  <2>9. ReadsOf(f, s) \subseteq Tabs(doc)
    <3>1. ReadsOf(d, s) = ReadsOf(d, r)
      BY <2>6 DEF ReadsOf, ParamsOf
    <3> QED
      BY <1>3, <2>7, <3>1 DEF Writes, TellsTruth
  <2>10. DeltaOf(f, s) <= e.id
    <3>1. DOMAIN e.ids = {}
      BY <1>1, <1>6 DEF Fits
    <3>2. DeltaOf(f, s) = DeltaOf(d, r)
      BY <1>4, <1>6, <2>6, <3>1 DEF DeltaAfter, DeltaOfNew
    <3>3. DeltaOf(d, r) \in Nat /\ DeltaOf(d, r) <= now
      <4>1. r \in Steps(d)
        BY <2>7, LiveStepsFacts
      <4> QED
        BY <1>1, <2>7, <4>1, DocFacts DEF Writes, TellsTruth
    <3> QED
      BY <1>4, <3>2, <3>3
  <2>11. CASE ResultOf(f, s) = <<>>
    BY <2>9, <2>10, <2>11 DEF NewOne
  <2>12. CASE ResultOf(f, s) # <<>>
    <3>1. /\ NameOf(d, e.tab) = NameOf(d, u) /\ ResultOf(f, s) = ResultOf(doc, r)
          /\ ResultOf(f, s)[1].delta = DeltaOf(d, r)
      BY <1>1, <2>6, <2>8, <2>12
    <3>2. \A x \in LiveSteps(d) : e.tab \notin ReadsOf(d, x)
      BY <2>2 DEF Writes, TellsTruth
    <3>3. Made(e, d) /\ Goes(f, d, e, "forth")
      BY DEF Writes
    <3>4. Outputs(f)[s] = Outputs(d)[m[s]]
      BY <1>1, <1>6, <2>1, <2>5, <2>6, <3>1, <3>2, <3>3, OutputsShown
    <3> QED
      BY <2>4, <2>7, <2>9, <2>10, <3>1, <3>4 DEF NewOne
  <2> QED
    BY <2>11, <2>12
<1> QED
  BY <1>2, <1>5, <1>6

(* So a delta keeps the truth, ... *)
LEMMA WritesTruth ==
  ASSUME NEW f, NEW d, NEW e, Writes(f, d, e)
  PROVE  TellsTruth(f, f, now + 1)
<1>1. /\ IsDoc(d) /\ Tabs(doc) \subseteq Tabs(f) /\ Steps(f) = Steps(d) /\ now \in Nat
      /\ e.id = now + 1
  BY WritesFacts DEF Writes
<1>2. ASSUME NEW r \in LiveSteps(d)
      PROVE  /\ DeltaOf(d, r) \in Nat /\ DeltaOf(d, r) <= now
             /\ ResultOf(doc, r) # <<>> => ResultOf(doc, r)[1].delta \in 0 .. now
             /\ IsTrueIn(d, doc, r)
  <2>1. r \in Steps(d)
    BY LiveStepsFacts
  <2> QED
    BY <1>1, <2>1, DocFacts DEF Writes, TellsTruth
<1>3. ASSUME NEW s \in LiveSteps(f)
      PROVE  /\ DeltaOf(f, s) <= now + 1 /\ ReadsOf(f, s) \subseteq Tabs(f)
             /\ ResultOf(f, s) # <<>> => ResultOf(f, s)[1].delta \in 0 .. now + 1
             /\ IsTrueIn(f, f, s)
  <2>1. CASE s \in Steps(doc)
    <3>1. OldStep(f, d, e, s)
      BY <2>1, OldSteps
    <3>2. s \in LiveSteps(d) /\ ReadsOf(f, s) \subseteq Tabs(f) /\ ResultOf(f, s) = ResultOf(doc, s)
      BY <1>1, <3>1 DEF OldStep
    <3>3. /\ DeltaOf(d, s) \in Nat /\ DeltaOf(d, s) <= now
          /\ ResultOf(f, s) # <<>> => ResultOf(f, s)[1].delta \in 0 .. now
          /\ IsTrueIn(d, doc, s)
      BY <1>2, <3>2
    <3>4. CASE DeltaOf(f, s) = e.id
      BY <1>1, <3>2, <3>3, <3>4 DEF IsTrueIn
    <3>5. CASE DeltaOf(f, s) = DeltaOf(d, s) /\ Outputs(f)[s] = Outputs(d)[s]
      BY <1>1, <3>2, <3>3, <3>5 DEF IsTrueIn
    <3> QED
      BY <3>1, <3>4, <3>5 DEF OldStep
  <2>2. CASE s \notin Steps(doc)
    <3>1. NewOne(f, d, e, s)
      BY <2>2, NewSteps
    <3>2. DeltaOf(f, s) <= now + 1 /\ ReadsOf(f, s) \subseteq Tabs(f)
      BY <1>1, <3>1 DEF NewOne
    <3>3. CASE ResultOf(f, s) = <<>>
      BY <3>2, <3>3 DEF IsTrueIn
    <3>4. CASE ResultOf(f, s) # <<>>
      <4>1. PICK r \in LiveSteps(d) :
              /\ ResultOf(f, s) = ResultOf(doc, r) /\ ResultOf(f, s)[1].delta = DeltaOf(d, r)
              /\ Outputs(f)[s] = Outputs(d)[r]
        BY <3>1, <3>4 DEF NewOne
      <4> QED
        BY <1>1, <1>2, <3>2, <3>4, <4>1 DEF IsTrueIn
    <3> QED
      BY <3>3, <3>4
  <2> QED
    BY <2>1, <2>2
<1> QED
  BY <1>3 DEF TellsTruth

(* ... and is consistent with what has been. *)
LEMMA WritesConsistent ==
  ASSUME NEW f, NEW d, NEW e, Writes(f, d, e),
         NEW c, IsDoc(c), Steps(c) = Steps(doc), Consistent(c, d), TellsTruth(c, doc, now)
  PROVE  Consistent(c, f)
<1> SUFFICES ASSUME NEW s \in LiveSteps(c) \cap LiveSteps(f), DeltaOf(c, s) = DeltaOf(f, s)
             PROVE  Outputs(c)[s] = Outputs(f)[s]
  BY DEF Consistent
<1>1. s \in Steps(doc) /\ DeltaOf(c, s) \in Nat /\ DeltaOf(c, s) <= now
  <2>1. s \in Steps(c)
    BY LiveStepsFacts
  <2> QED
    BY <2>1, DocFacts DEF TellsTruth
<1>2. now \in Nat /\ e.id = now + 1
  BY DEF Writes
<1>3. OldStep(f, d, e, s)
  BY <1>1, OldSteps
<1>4. DeltaOf(f, s) = DeltaOf(d, s) /\ Outputs(f)[s] = Outputs(d)[s] /\ s \in LiveSteps(d)
  BY <1>1, <1>2, <1>3 DEF OldStep
<1> QED
  BY <1>4 DEF Consistent

(* The truth goes on with the story. *)
LEMMA TruthGrows ==
  ASSUME NEW D, NEW es, Len(es) \in Nat, NEW k \in 0 .. Len(es), IsStory(D, es, k, doc),
         IsTrue(D, Len(es), doc, now), NEW d, NEW e, NEW f,
         TellsTruth(d, doc, now) => Writes(f, d, e),
         Sound(doc), Sound(d), Sound(f), Grown(d, doc, d), Goes(f, d, e, "forth"), now \in Nat,
         NewOnes(d, e),
         NEW new, Len(new) = k + 1, NEW C, IsStory(C, new, k + 1, f), Continues(C, D, k, f)
  PROVE  IsTrue(C, k + 1, f, now + 1)
<1>1. /\ IsDoc(doc) /\ InOrder(doc) /\ IsDoc(d) /\ InOrder(d) /\ IsDoc(f) /\ InOrder(f)
  BY DEF Sound
<1>2. k \in Nat /\ k <= Len(es) /\ C[k + 1] = f
  BY DEF Continues
<1>3. ASSUME NEW j \in 0 .. Len(es)
      PROVE  /\ IsDoc(D[j]) /\ InOrder(D[j]) /\ Steps(D[j]) = Steps(doc)
             /\ TellsTruth(D[j], doc, now) /\ \A i \in 0 .. Len(es) : Consistent(D[i], D[j])
  BY <1>1, StoryAt DEF IsStory, IsTrue
<1>4. PICK b : b = D[k]
  OBVIOUS
<1>5. AsIn(doc, b) /\ AsIn(d, doc)
  <2>1. IsDoc(b) /\ InOrder(b) /\ Same(doc, b)
    BY <1>3, <1>4 DEF IsStory
  <2> QED
    BY <1>1, <2>1, GrownIsAsIn
<1>6. Writes(f, d, e)
  <2>1. TellsTruth(b, doc, now)
    BY <1>3, <1>4
  <2> QED
    BY <1>5, <2>1, AsInFacts
<1>7. ASSUME NEW j \in 0 .. Len(es)
      PROVE  Consistent(D[j], f)
  <2>1. PICK c : c = D[j]
    OBVIOUS
  <2>2. /\ IsDoc(c) /\ Steps(c) = Steps(doc) /\ TellsTruth(c, doc, now) /\ Consistent(c, b)
    BY <1>3, <1>4, <2>1
  <2>3. Consistent(c, d)
    BY <1>5, <2>2, AsInFacts
  <2>4. Consistent(c, f)
    BY <1>6, <2>2, <2>3, WritesConsistent
  <2> QED
    BY <2>1, <2>4
<1>8. /\ Tabs(doc) \subseteq Tabs(f) /\ Steps(doc) \subseteq Steps(f)
      /\ \A s \in Steps(doc) : ResultOf(f, s) = ResultOf(doc, s)
  BY <1>6, WritesFacts
<1>9. IsTrue(D, Len(es), f, now + 1)
  BY <1>3, <1>8, TruthStays
<1>10. ASSUME NEW j \in 0 .. k
       PROVE  AsIn(C[j], D[j]) /\ j \in 0 .. Len(es) /\ j \in 0 .. Len(new)
  <2>1. PICK x : Grown(C[j], D[j], x)
    BY DEF Continues
  <2>2. j \in 0 .. Len(es) /\ j \in 0 .. Len(new)
    BY <1>2
  <2>3. PICK c : c = C[j]
    OBVIOUS
  <2>4. PICK a : a = D[j]
    OBVIOUS
  <2>5. IsDoc(a) /\ InOrder(a) /\ Grown(c, a, x)
    BY <1>3, <2>1, <2>2, <2>3, <2>4
  <2>6. IsDoc(c) /\ InOrder(c)
    BY <2>2, <2>3 DEF IsStory, Tells
  <2>7. AsIn(c, a)
    BY <2>5, <2>6, GrownIsAsIn
  <2> QED
    BY <2>2, <2>3, <2>4, <2>7
<1>11. TellsTruth(f, f, now + 1) /\ Consistent(f, f)
  BY <1>6, WritesTruth DEF Consistent
<1>12. \A b1, b2 : Consistent(b1, b2) => Consistent(b2, b1)
  BY DEF Consistent
<1>13. ASSUME NEW j \in 0 .. k
       PROVE  /\ TellsTruth(C[j], f, now + 1) /\ Consistent(C[j], f) /\ Consistent(f, C[j])
              /\ \A i \in 0 .. k : Consistent(C[i], C[j])
  <2>1. PICK c : c = C[j]
    OBVIOUS
  <2>2. PICK a : a = D[j]
    OBVIOUS
  <2>3. AsIn(c, a) /\ j \in 0 .. Len(es)
    BY <1>10, <2>1, <2>2
  <2>4. TellsTruth(a, f, now + 1) /\ Consistent(a, f)
    BY <1>7, <1>9, <2>2, <2>3 DEF IsTrue
  <2>5. TellsTruth(c, f, now + 1) /\ Consistent(c, f) /\ Consistent(f, c)
    BY <1>12, <2>3, <2>4, AsInFacts
  <2>6. ASSUME NEW i \in 0 .. k PROVE Consistent(C[i], c)
    <3>1. PICK g : g = C[i]
      OBVIOUS
    <3>2. PICK h : h = D[i]
      OBVIOUS
    <3>3. AsIn(g, h) /\ i \in 0 .. Len(es)
      BY <1>10, <3>1, <3>2
    <3>4. Consistent(h, a)
      BY <1>3, <2>2, <2>3, <3>2, <3>3
    <3>5. Consistent(h, c)
      BY <2>3, <3>4, AsInFacts
    <3>6. Consistent(g, c)
      BY <3>3, <3>5, AsInFacts
    <3> QED
      BY <3>1, <3>6
  <2> QED
    BY <2>1, <2>5, <2>6
<1>14. ASSUME NEW j \in 0 .. k + 1
       PROVE  TellsTruth(C[j], f, now + 1) /\ \A i \in 0 .. k + 1 : Consistent(C[i], C[j])
  <2>1. \A i \in 0 .. k + 1 : i \in 0 .. k \/ i = k + 1
    BY <1>2
  <2>2. CASE j \in 0 .. k
    BY <1>2, <1>13, <2>1, <2>2
  <2>3. CASE j = k + 1
    BY <1>2, <1>11, <1>13, <2>1, <2>3
  <2> QED
    BY <2>1, <2>2, <2>3
<1> QED
  BY <1>14 DEF IsTrue

(* The first steps, as they are stored. *)
LEMMA FirstRows ==
  ASSUME Init
  PROVE  \A s \in Steps(doc) :
           DeltaOf(doc, s) = 0 /\ ResultOf(doc, s) = <<>> /\ ReadsOf(doc, s) \subseteq Tabs(doc)
<1>1. PICK reads \in FirstReads :
        doc = [tabs  |-> [t \in DOMAIN FirstSteps |->
                            [name     |-> CHOOSE name \in Names : TRUE,
                             selected |-> {0} \cap 0 .. Len(FirstSteps[t]) - 1]],
               order |-> [t \in DOMAIN FirstSteps |-> t],
               steps |-> [s \in Firsts |->
                            [tab |-> FirstTab(s), order |-> FirstPlace(s),
                             is_deleted |-> FALSE, delta |-> None, version |-> 0,
                             params |-> [reads |-> reads[s], value |-> 0], crr |-> <<>>]]]
  BY Zenon DEF Init, Firsts, FirstTab, FirstPlace
<1> DEFINE Row(s) == [tab |-> FirstTab(s), order |-> FirstPlace(s),
                      is_deleted |-> FALSE, delta |-> None, version |-> 0,
                      params |-> [reads |-> reads[s], value |-> 0], crr |-> <<>>]
           tabs == [t \in DOMAIN FirstSteps |->
                      [name     |-> CHOOSE name \in Names : TRUE,
                       selected |-> {0} \cap 0 .. Len(FirstSteps[t]) - 1]]
<1>2. doc.tabs = tabs /\ doc.steps = [s \in Firsts |-> Row(s)]
  BY <1>1
<1>3. DOMAIN tabs = DOMAIN FirstSteps
  OBVIOUS
<1>4. \A s : Row(s).delta = 0 /\ Row(s).crr = <<>> /\ Row(s).params.reads = reads[s]
  BY DEF None
<1> HIDE DEF Row, tabs
<1>5. Steps(doc) = Firsts /\ Tabs(doc) = DOMAIN FirstSteps /\ \A s \in Firsts : doc.steps[s] = Row(s)
  BY <1>2, <1>3 DEF Steps, Tabs
<1>6. ASSUME NEW s \in Firsts PROVE reads[s] \subseteq DOMAIN FirstSteps
  <2>1. PICK t \in DOMAIN FirstSteps : s \in Range(FirstSteps[t])
    BY DEF Firsts
  <2> QED
    BY <2>1, FirstReadsAreTabs
<1> QED
  BY <1>4, <1>5, <1>6 DEF DeltaOf, ResultOf, ReadsOf

(* Deleting a tab that is read is not forgotten. *)
LEMMA DangledStays == ASSUME Inv, [Next]_vars, ~dangled' PROVE ~dangled
<1>1. ASSUME NEW d, NEW e, NEW l, Commit(d, e, l) PROVE ~dangled
  BY <1>1, Zenon DEF Commit
<1>2. ASSUME Does PROVE ~dangled
  <2>1. PICK d, command, step, tab, back, forth, affected :
          Do(d, command, step, tab, back, forth, affected)
    BY <1>2 DEF Does
  <2>2. PICK e : Commits(d, e)
    BY <2>1, DoWrites
  <2> QED
    BY <2>2, Zenon DEF Commits
<1>3. CASE Undo \/ Redo
  <2>1. \E d, e, l : Commit(d, e, l)
    BY <1>3, Zenon DEF Undo, Redo
  <2> QED
    BY <1>1, <2>1
<1>4. CASE Others
  BY <1>4 DEF Others, Render, SetPosition, LoadStep, vars
<1>5. CASE SetStepDataVersion \/ SetStepParams \/ DeleteStep \/ ReorderSteps \/ SetTabName
  <2>1. Does
    BY <1>5, Zenon DEF SetStepDataVersion, SetStepParams, DeleteStep, ReorderSteps, SetTabName, Does
  <2> QED
    BY <1>2, <2>1
<1>6. CASE ReorderTabs \/ DuplicateTab \/ DeleteTab \/ AddStep
  <2>1. Does
    BY <1>6, Zenon DEF ReorderTabs, DuplicateTab, DeleteTab, AddStep, Does
  <2> QED
    BY <1>2, <2>1
<1> QED
  BY <1>3, <1>4, <1>5, <1>6 DEF Next, Others

(* A tab without dependents is read by none. *)
LEMMA NobodyReads ==
  ASSUME NEW f, IsDoc(f), NEW t, Dependents(f, {t}) = {}
  PROVE  \A s \in LiveSteps(f) : t \notin ReadsOf(f, s)
<1> TAKE s \in LiveSteps(f)
<1>1. PICK U : {t} \subseteq U /\ Dependents(f, {t}) = DependOn(f, U)
  BY DependentsFacts
<1>2. s \notin DependOn(f, U)
  BY <1>1
<1>3. ReadsOf(f, s) \cap U = {}
  BY <1>2, IndependentFacts
<1> QED
  BY <1>1, <1>3

(* Undo goes to where results are true, ... *)
LEMMA TruthBack == ASSUME Inv, TruthInv, ~raced, ~dangled, Undo PROVE TruthInv'
<1>0. PICK k \in 0 .. Len(deltas) : \E D :
        IsAt(k, deltas, last) /\ IsStory(D, deltas, k, doc) /\ IsTrue(D, Len(deltas), doc, now)
  BY DEF TruthInv
<1>1. PICK D :
        IsAt(k, deltas, last) /\ IsStory(D, deltas, k, doc) /\ IsTrue(D, Len(deltas), doc, now)
  BY <1>0
<1>2. PICK f : f = doc'
  OBVIOUS
<1>3. /\ k \in 1 .. Len(deltas) /\ k - 1 \in 0 .. Len(deltas) /\ IsAt(k - 1, deltas, last')
      /\ f = Backward(doc, deltas[k]) /\ deltas' = deltas /\ now' = now
  BY <1>1, <1>2, UndoMoves
<1>4. Len(deltas) \in Nat /\ Sound(doc) /\ IsDoc(doc) /\ now \in Nat
  BY SoundFacts, LenProperties DEF Inv, IsChain
<1>5. /\ IsStory(D, deltas, k - 1, f)
      /\ Tabs(f) = Tabs(doc) /\ \A s \in Steps(doc) : ResultOf(f, s) = ResultOf(doc, s)
  <2>1. PICK e : e = deltas[k]
    OBVIOUS
  <2>2. IsStory(D, deltas, k - 1, f) /\ Goes(f, doc, e, "back")
    BY <1>1, <1>3, <1>4, <2>1, StoryBack
  <2> QED
    BY <2>2 DEF Goes, Works, SameRows
<1>6. \A j \in 0 .. Len(deltas) : IsDoc(D[j]) /\ Steps(D[j]) = Steps(doc)
  BY <1>1, <1>4, StoryAt DEF IsStory
<1>7. IsTrue(D, Len(deltas), f, now)
  BY <1>1, <1>4, <1>5, <1>6, TruthStays
<1> QED
  BY <1>2, <1>3, <1>5, <1>7 DEF TruthInv

(* ... and so does redo. *)
LEMMA TruthForth == ASSUME Inv, TruthInv, ~raced, ~dangled, Redo PROVE TruthInv'
<1>0. PICK k \in 0 .. Len(deltas) : \E D :
        IsAt(k, deltas, last) /\ IsStory(D, deltas, k, doc) /\ IsTrue(D, Len(deltas), doc, now)
  BY DEF TruthInv
<1>1. PICK D :
        IsAt(k, deltas, last) /\ IsStory(D, deltas, k, doc) /\ IsTrue(D, Len(deltas), doc, now)
  BY <1>0
<1>2. PICK f : f = doc'
  OBVIOUS
<1>3. PICK n : n = k + 1
  OBVIOUS
<1>4. Len(deltas) \in Nat /\ Sound(doc) /\ IsDoc(doc) /\ now \in Nat
  BY SoundFacts, LenProperties DEF Inv, IsChain
<1>5. /\ n \in 1 .. Len(deltas) /\ n \in 0 .. Len(deltas) /\ n - 1 = k /\ IsAt(n, deltas, last')
      /\ f = Forward(doc, deltas[n]) /\ deltas' = deltas /\ now' = now
  BY <1>1, <1>2, <1>3, <1>4, RedoMoves
<1>6. /\ IsStory(D, deltas, n, f)
      /\ Tabs(f) = Tabs(doc) /\ \A s \in Steps(doc) : ResultOf(f, s) = ResultOf(doc, s)
  <2>1. PICK e : e = deltas[n]
    OBVIOUS
  <2>2. IsStory(D, deltas, n - 1, doc)
    BY <1>1, <1>5
  <2>3. IsStory(D, deltas, n, f) /\ Goes(f, doc, e, "forth")
    BY <1>4, <1>5, <2>1, <2>2, StoryForth
  <2> QED
    BY <2>3 DEF Goes, Works, SameRows
<1>7. \A j \in 0 .. Len(deltas) : IsDoc(D[j]) /\ Steps(D[j]) = Steps(doc)
  BY <1>1, <1>4, StoryAt DEF IsStory
<1>8. IsTrue(D, Len(deltas), f, now)
  BY <1>1, <1>4, <1>6, <1>7, TruthStays
<1> QED
  BY <1>2, <1>5, <1>6, <1>8 DEF TruthInv

(* A command makes no result untrue, ... *)
LEMMA TruthDone == ASSUME Inv, TruthInv, ~raced, ~dangled, ~dangled', Done PROVE TruthInv'
<1>0. PICK k \in 0 .. Len(deltas) : \E D :
        IsAt(k, deltas, last) /\ IsStory(D, deltas, k, doc) /\ IsTrue(D, Len(deltas), doc, now)
  BY DEF TruthInv
<1>1. PICK D :
        IsAt(k, deltas, last) /\ IsStory(D, deltas, k, doc) /\ IsTrue(D, Len(deltas), doc, now)
  BY <1>0
<1>2. PICK d, e :
        /\ Sound(d) /\ Grown(d, doc, d) /\ Made(e, d)
        /\ e.command = "AddStep" => e.step \notin Steps(doc)
        /\ e.id = now + 1 /\ e.before = Content(doc) /\ e.after = Content(Forward(d, e))
        /\ NewOnes(d, e) /\ Commits(d, e) /\ Touches(e, d) /\ Brings(d, e)
  BY DEF Done
<1>3. PICK f : f = Forward(d, e)
  OBVIOUS
<1>4. PICK new : new = Append(Applied, e)
  OBVIOUS
<1>5. doc' = f /\ now' = now + 1 /\ last' = e.id /\ deltas' = new
  BY <1>2, <1>3, <1>4 DEF Commits
<1>6. IsChain(deltas, now) /\ Len(deltas) \in Nat /\ now \in Nat /\ Sound(doc)
  BY SoundFacts, LenProperties DEF Inv, IsChain
<1>7. /\ Len(new) = k + 1 /\ IsAt(k + 1, new, e.id)
      /\ \A i \in 1 .. k : new[i] = deltas[i]
      /\ new[k + 1] = e
  <2>1. IsNext(now, k, e, new)
    BY <1>1, <1>2, <1>4, <1>6 DEF IsNext
  <2>2. IsLonger(now, k, e, new)
    BY <2>1, ChainGrows
  <2> QED
    BY <2>2 DEF IsLonger
<1>8. /\ Sound(f) /\ \E C : IsStory(C, new, k + 1, f) /\ Continues(C, D, k, f)
      /\ Goes(f, d, e, "forth") /\ LiveTabs(f) = LiveAfter(e, LiveTabs(doc))
  BY <1>1, <1>2, <1>3, <1>6, <1>7, StoryGrows
<1>9. PICK C : IsStory(C, new, k + 1, f) /\ Continues(C, D, k, f)
  BY <1>8
<1>10. LiveTabs(d) = LiveTabs(doc)
  BY <1>2 DEF Grown, LiveTabs, Order
<1>11. e.command = "DeleteTab" => \A s \in LiveSteps(f) : e.tab \notin ReadsOf(f, s)
  <2> SUFFICES ASSUME e.command = "DeleteTab"
               PROVE  \A s \in LiveSteps(f) : e.tab \notin ReadsOf(f, s)
    OBVIOUS
  <2>1. e.tab \in LiveTabs(doc)
    <3>1. /\ Order(d) \in Seq(Tabs(d)) /\ e.back \in 1 .. Len(Order(d))
          /\ Order(d)[e.back] = e.tab
      BY <1>2 DEF Sound, InOrder, IsOrder, Made
    <3>2. e.tab \in Range(Order(d))
      BY <3>1, LenProperties DEF Range
    <3> QED
      BY <1>10, <3>2 DEF LiveTabs, Order
  <2>2. e.tab \notin LiveTabs(f)
    BY <1>8 DEF LiveAfter
  <2>3. ~\E t \in LiveTabs(doc) \ LiveTabs(f) : Dependents(f, {t}) # {}
    BY <1>2, <1>3, Zenon DEF Commits
  <2>4. Dependents(f, {e.tab}) = {}
    BY <2>1, <2>2, <2>3
  <2> QED
    BY <1>8, <2>4, NobodyReads DEF Sound
<1>12. TellsTruth(d, doc, now) => Writes(f, d, e)
  BY <1>2, <1>6, <1>8, <1>10, <1>11 DEF Writes, Sound
<1>13. IsTrue(C, k + 1, f, now + 1)
  BY <1>1, <1>2, <1>6, <1>7, <1>8, <1>9, <1>12, TruthGrows
<1>14. k + 1 \in 0 .. Len(new)
  BY <1>6, <1>7
<1> QED
  BY <1>5, <1>7, <1>9, <1>13, <1>14 DEF TruthInv

(* ... nor does the rest. *)
LEMMA TruthOthers == ASSUME Inv, TruthInv, ~raced, ~dangled, Others PROVE TruthInv'
<1>0. PICK k \in 0 .. Len(deltas) : \E D :
        IsAt(k, deltas, last) /\ IsStory(D, deltas, k, doc) /\ IsTrue(D, Len(deltas), doc, now)
  BY DEF TruthInv
<1>1. PICK D :
        IsAt(k, deltas, last) /\ IsStory(D, deltas, k, doc) /\ IsTrue(D, Len(deltas), doc, now)
  BY <1>0
<1>2. Len(deltas) \in Nat /\ Sound(doc) /\ IsDoc(doc) /\ ChosenAreThere(doc) /\ now \in Nat
  BY SoundFacts, LenProperties DEF Inv, IsChain, Sound
<1>3. PICK f : f = doc'
  OBVIOUS
<1>4. \A j \in 0 .. Len(deltas) : IsDoc(D[j]) /\ Steps(D[j]) = Steps(doc)
  BY <1>1, <1>2, StoryAt DEF IsStory
<1>5. Same(doc, doc)
  BY <1>2 DEF Same, Frame, Agree
<1>6. /\ deltas' = deltas /\ last' = last
      /\ Same(f, doc) /\ ChosenAreThere(f) /\ IsTrue(D, Len(deltas), f, now')
  <2>1. CASE Render
    <3>1. f = Rendered(doc) /\ deltas' = deltas /\ last' = last /\ now' = now
      BY <1>3, <2>1 DEF Render
    <3>2. Same(f, doc) /\ ChosenAreThere(f)
      BY <1>2, <3>1, RenderedRows
    <3>3. IsTrue(D, Len(deltas), f, now)
      BY <1>1, <1>2, <3>1, TruthRendered
    <3> QED
      BY <3>1, <3>2, <3>3
  <2>2. CASE SetPosition
    <3>1. PICK s \in LiveSteps(doc) : f = Selecting(doc, TabOf(doc, s), {Place(doc, s)})
      <4>1. \E s \in LiveSteps(doc) :
              doc' = [doc EXCEPT !.tabs[doc.steps[s].tab].selected = {doc.steps[s].order}]
        BY <2>2, Zenon DEF SetPosition
      <4>2. \A s : Selecting(doc, TabOf(doc, s), {Place(doc, s)})
                     = [doc EXCEPT !.tabs[doc.steps[s].tab].selected = {doc.steps[s].order}]
        BY Zenon DEF Selecting, TabOf, Place
      <4> QED
        BY ONLY <1>3, <4>1, <4>2, Zenon
    <3>2. /\ Same(f, doc) /\ ChosenAreThere(f)
          /\ \A s2 \in Steps(doc) : ResultOf(f, s2) = ResultOf(doc, s2)
      BY <1>2, <3>1, SelectedStays
    <3>3. deltas' = deltas /\ last' = last /\ now' = now + 1
      BY <2>2, Zenon DEF SetPosition, CanEdit
    <3>4. PICK p : p = now + 1
      OBVIOUS
    <3>5. p \in Nat /\ now <= p /\ Tabs(doc) \subseteq Tabs(f)
      BY <1>2, <3>2, <3>4 DEF Same, Frame
    <3>6. IsTrue(D, Len(deltas), f, p)
      BY <1>1, <1>2, <1>4, <3>2, <3>5, TruthStays
    <3> QED
      BY <3>2, <3>3, <3>4, <3>6
  <2>3. CASE LoadStep
    BY <1>1, <1>2, <1>3, <1>5, <2>3 DEF LoadStep
  <2>4. CASE UNCHANGED vars
    BY <1>1, <1>2, <1>3, <1>5, <2>4 DEF vars
  <2> QED
    BY <2>1, <2>2, <2>3, <2>4 DEF Others
<1>7. IsStory(D, deltas, k, f)
  BY <1>1, <1>2, <1>6, StoryStays
<1> QED
  BY <1>1, <1>3, <1>6, <1>7 DEF TruthInv

(* So results stay true, as long as nobody races or deletes what is read. *)
LEMMA TruthNext == ASSUME Inv, TruthInv, [Next]_vars PROVE TruthInv'
<1>1. CASE raced' \/ dangled'
  BY <1>1 DEF TruthInv
<1>2. CASE ~raced' /\ ~dangled'
  <2>1. ~raced /\ ~dangled /\ (Undo \/ Redo \/ Done \/ Others)
    BY <1>2, NextCases, DangledStays
  <2> QED
    BY <1>2, <2>1, TruthBack, TruthForth, TruthDone, TruthOthers
<1> QED
  BY <1>1, <1>2

(* At first there are no results, and steps read the tabs there are. *)
LEMMA TruthInit == ASSUME Init PROVE TruthInv
<1>1. PICK D : IsStory(D, deltas, 0, doc) /\ D[0] = doc
  BY FirstStory
<1>2. deltas = <<>> /\ last = None /\ now = 0 /\ Len(deltas) = 0
  BY EmptySeq DEF Init
<1>3. 0 \in 0 .. Len(deltas) /\ IsAt(0, deltas, last)
  BY <1>2 DEF IsAt
<1>4. \A s \in Steps(doc) :
        DeltaOf(doc, s) = 0 /\ ResultOf(doc, s) = <<>> /\ ReadsOf(doc, s) \subseteq Tabs(doc)
  BY FirstRows
<1>5. TellsTruth(doc, doc, 0)
  BY <1>4, LiveStepsFacts DEF TellsTruth, IsTrueIn
<1>6. IsTrue(D, Len(deltas), doc, now)
  <2>1. \A j \in 0 .. Len(deltas) : j = 0
    BY <1>2
  <2>2. Consistent(doc, doc)
    BY DEF Consistent
  <2> QED
    BY <1>1, <1>2, <1>5, <2>1, <2>2 DEF IsTrue
<1> QED
  BY <1>1, <1>3, <1>6 DEF TruthInv

(* What is said of the story is true now. *)
LEMMA TruthNow == ASSUME Inv, TruthInv PROVE FreshResultsAreTrueOtherwise
<1> SUFFICES ASSUME ~raced, ~dangled, NEW s \in LiveSteps(doc), IsFresh(doc.steps[s])
             PROVE  doc.steps[s].crr[1].out = Outputs(doc)[s]
  BY DEF FreshResultsAreTrueOtherwise, FreshResultsAreTrue
<1>0. PICK k \in 0 .. Len(deltas) : \E D :
        IsAt(k, deltas, last) /\ IsStory(D, deltas, k, doc) /\ IsTrue(D, Len(deltas), doc, now)
  BY DEF TruthInv
<1>1. PICK D :
        IsAt(k, deltas, last) /\ IsStory(D, deltas, k, doc) /\ IsTrue(D, Len(deltas), doc, now)
  BY <1>0
<1>2. IsDoc(doc) /\ InOrder(doc)
  BY SoundFacts
<1>3. PICK b : b = D[k]
  OBVIOUS
<1>4. IsDoc(b) /\ InOrder(b) /\ Same(doc, b)
  BY <1>1, <1>2, <1>3, StoryAt DEF IsStory
<1>5. AsIn(doc, b)
  BY <1>2, <1>4, GrownIsAsIn
<1>6. TellsTruth(b, doc, now)
  BY <1>1, <1>3 DEF IsTrue
<1>7. s \in LiveSteps(b) /\ DeltaOf(doc, s) = DeltaOf(b, s) /\ Outputs(doc)[s] = Outputs(b)[s]
  BY <1>5 DEF AsIn
<1>8. ResultOf(doc, s) # <<>> /\ ResultOf(doc, s)[1].delta = DeltaOf(doc, s)
  BY DEF IsFresh, ResultOf, DeltaOf
<1>9. ResultOf(doc, s)[1].out = Outputs(b)[s]
  BY <1>6, <1>7, <1>8 DEF TellsTruth, IsTrueIn
<1> QED
  BY <1>7, <1>9 DEF ResultOf

(* last_relevant_delta_id is the "most-recent delta that may possibly      *)
(* affect the output of this module": unless users race, or somebody       *)
(* deletes a tab that others read, a result that counts as fresh is what a *)
(* render would give now, after any commands, undos and redos.             *)
THEOREM FreshResultsStayTrue == Spec => []FreshResultsAreTrueOtherwise
<1>1. Init => TruthInv
  BY TruthInit
<1>2. Inv /\ TruthInv /\ [Next]_vars => TruthInv'
  BY TruthNext
<1>3. Inv /\ TruthInv => FreshResultsAreTrueOtherwise
  BY TruthNow
<1> QED
  BY <1>1, <1>2, <1>3, Invariance, PTL DEF Spec

-----------------------------------------------------------------------------
(* The refinement: what the deltas keep of the contents before and after   *)
(* them is a history.                                                      *)

(* The contents that deltas ds keep are in S.                              *)
Holds(S, ds) == \A i \in 1 .. Len(ds) : ds[i].before \in S /\ ds[i].after \in S

(* p and f are what was before the first k of ds, and after the others.    *)
IsMapped(S, ds, k, p, f) ==
  /\ p \in Seq(S) /\ Len(p) = k /\ \A i \in 1 .. k : p[i] = ds[i].before
  /\ f \in Seq(S) /\ Len(f) = Len(ds) - k
  /\ \A i \in 1 .. Len(ds) - k : f[i] = ds[k + i].after

(* One content for each delta. *)
LEMMA OneForEach ==
  ASSUME NEW S, NEW R, NEW ds \in Seq(R), Holds(S, ds)
  PROVE  /\ Before(ds) \in Seq(S) /\ Len(Before(ds)) = Len(ds)
         /\ After(ds) \in Seq(S) /\ Len(After(ds)) = Len(ds)
         /\ \A i \in 1 .. Len(ds) : Before(ds)[i] = ds[i].before /\ After(ds)[i] = ds[i].after
<1>1. DOMAIN ds = 1 .. Len(ds) /\ Len(ds) \in Nat
  BY LenProperties
<1>2. /\ Before(ds) = [i \in 1 .. Len(ds) |-> ds[i].before]
      /\ After(ds) = [i \in 1 .. Len(ds) |-> ds[i].after]
  BY <1>1 DEF Before, After
<1>3. \A i \in 1 .. Len(ds) : Before(ds)[i] = ds[i].before /\ After(ds)[i] = ds[i].after
  BY <1>2
<1>4. PICK n : n = Len(ds)
  OBVIOUS
<1>5. n \in Nat /\ Before(ds) \in [1 .. n -> S] /\ After(ds) \in [1 .. n -> S]
  BY <1>1, <1>2, <1>4 DEF Holds
<1>6. Before(ds) \in Seq(S) /\ After(ds) \in Seq(S)
  BY ONLY <1>5, SeqDef
<1>7. Len(Before(ds)) = n /\ Len(After(ds)) = n
  BY <1>5, <1>6, LenProperties
<1> QED
  BY <1>3, <1>4, <1>6, <1>7

(* ... of a part of them. *)
LEMMA PartsMapped ==
  ASSUME NEW S, NEW R, NEW ds \in Seq(R), Holds(S, ds), NEW k \in 0 .. Len(ds),
         NEW old, old = SubSeq(ds, 1, k), NEW new, new = SubSeq(ds, k + 1, Len(ds))
  PROVE  IsMapped(S, ds, k, Before(old), After(new))
<1>1. Len(ds) \in Nat /\ k \in Nat /\ k <= Len(ds)
  BY LenProperties
<1>2. \A i \in 1 .. Len(ds) : ds[i] \in R
  BY ElementOfSeq
<1>3. old \in Seq(R) /\ Len(old) = k /\ \A i \in 1 .. k : old[i] = ds[i]
  <2>1. 1 \in Int /\ k \in Int /\ \A i \in 1 .. k : ds[i] \in R
    BY <1>1, <1>2
  <2>2. /\ SubSeq(ds, 1, k) \in Seq(R) /\ Len(SubSeq(ds, 1, k)) = IF 1 <= k THEN k - 1 + 1 ELSE 0
        /\ \A i \in 1 .. k - 1 + 1 : SubSeq(ds, 1, k)[i] = ds[1 + i - 1]
    BY <2>1, SubSeqProperties
  <2> QED
    BY <1>1, <2>2
<1>4. /\ new \in Seq(R) /\ Len(new) = Len(ds) - k
      /\ \A i \in 1 .. Len(ds) - k : new[i] = ds[k + i]
  <2>1. k + 1 \in Int /\ Len(ds) \in Int /\ \A i \in k + 1 .. Len(ds) : ds[i] \in R
    BY <1>1, <1>2
  <2>2. /\ SubSeq(ds, k + 1, Len(ds)) \in Seq(R)
        /\ Len(SubSeq(ds, k + 1, Len(ds)))
             = IF k + 1 <= Len(ds) THEN Len(ds) - (k + 1) + 1 ELSE 0
        /\ \A i \in 1 .. Len(ds) - (k + 1) + 1 :
             SubSeq(ds, k + 1, Len(ds))[i] = ds[k + 1 + i - 1]
    BY <2>1, SubSeqProperties
  <2> QED
    BY <1>1, <2>2
<1>5. Holds(S, old) /\ Holds(S, new)
  <2>1. \A i \in 1 .. k : i \in 1 .. Len(ds)
    BY <1>1
  <2>2. \A i \in 1 .. Len(ds) - k : k + i \in 1 .. Len(ds)
    BY <1>1
  <2> QED
    BY <1>3, <1>4, <2>1, <2>2 DEF Holds
<1>6. /\ Before(old) \in Seq(S) /\ Len(Before(old)) = k
      /\ \A i \in 1 .. k : Before(old)[i] = ds[i].before
  <2>1. /\ Before(old) \in Seq(S) /\ Len(Before(old)) = Len(old)
        /\ \A i \in 1 .. Len(old) : Before(old)[i] = old[i].before
    BY <1>3, <1>5, OneForEach, ZenonT(60)
  <2> QED
    BY <1>3, <2>1
<1>7. After(new) \in Seq(S) /\ Len(After(new)) = Len(ds) - k
  BY <1>4, <1>5, OneForEach
<1>8. ASSUME NEW i \in 1 .. Len(ds) - k PROVE After(new)[i] = ds[k + i].after
  <2>1. i \in 1 .. Len(new)
    BY <1>4
  <2>2. After(new)[i] = new[i].after
    BY <1>4, <1>5, <2>1, OneForEach
  <2> QED
    BY <1>4, <2>2
<1> QED
  BY <1>6, <1>7, <1>8 DEF IsMapped

(* That is what the mapping gives, ... *)
LEMMA Mapped ==
  ASSUME NEW S, IsChain(deltas, now), Holds(S, deltas), NEW k, IsAt(k, deltas, last)
  PROVE  IsMapped(S, deltas, k, Before(Applied), After(Undone))
<1>1. NApplied = k /\ k \in 0 .. Len(deltas)
  BY AppliedFacts
<1>2. Applied = SubSeq(deltas, 1, k) /\ Undone = SubSeq(deltas, k + 1, Len(deltas))
  BY <1>1 DEF Applied, Undone
<1>3. PICK S0 : S0 = Range(deltas)
  OBVIOUS
<1>4. deltas \in Seq(S0)
  BY <1>3 DEF IsChain
<1> QED
  BY <1>1, <1>2, <1>4, PartsMapped

(* ... after a step too. *)
LEMMA MappedNext ==
  ASSUME NEW S, IsChain(deltas', now'), Holds(S, deltas'), NEW k, IsAt(k, deltas', last')
  PROVE  IsMapped(S, deltas', k, Before(Applied)', After(Undone)')
<1>1. /\ k \in 0 .. Len(deltas')
      /\ \A i \in DOMAIN deltas' : deltas'[i].id <= last' <=> i <= k
      /\ \A m \in 0 .. Len(deltas') :
           (\A i \in DOMAIN deltas' : deltas'[i].id <= last' <=> i <= m) => m = k
  BY SplitFacts
<1>2. NApplied' = k
  BY <1>1 DEF NApplied
<1>3. Applied' = SubSeq(deltas', 1, k) /\ Undone' = SubSeq(deltas', k + 1, Len(deltas'))
  BY <1>2 DEF Applied, Undone
<1>4. PICK S0 : S0 = Range(deltas')
  OBVIOUS
<1>5. deltas' \in Seq(S0)
  BY <1>4 DEF IsChain
<1>6. PICK old : old = Applied'
  OBVIOUS
<1>7. PICK new : new = Undone'
  OBVIOUS
<1>8. IsMapped(S, deltas', k, Before(old), After(new))
  BY <1>1, <1>3, <1>5, <1>6, <1>7, PartsMapped
<1>9. Before(Applied)' = Before(old) /\ After(Undone)' = After(new)
  BY <1>6, <1>7 DEF Before, After
<1> QED
  BY <1>8, <1>9

(* The last of p is gone from q, and s is before f in g.                   *)
Shorter(S, p, f, q, g, s) ==
  /\ p \in Seq(S) /\ f \in Seq(S) /\ q \in Seq(S) /\ g \in Seq(S) /\ s \in S
  /\ Len(p) > 0 /\ Len(q) = Len(p) - 1 /\ Len(g) = Len(f) + 1
  /\ \A i \in 1 .. Len(q) : q[i] = p[i]
  /\ g[1] = s /\ \A i \in 1 .. Len(f) : g[i + 1] = f[i]

(* In terms of UndoHistory: *)
LEMMA UndoneSequences ==
  ASSUME NEW S, NEW p, NEW f, NEW q, NEW g, NEW s, Shorter(S, p, f, q, g, s)
  PROVE  p # <<>> /\ q = Front(p) /\ g = <<s>> \o f
<1> USE DEF Shorter
<1>1. Len(p) \in Nat /\ Len(f) \in Nat /\ p # <<>>
  BY LenProperties
<1>2. q = SubSeq(p, 1, Len(p) - 1)
  <2>1. \A i \in 1 .. Len(p) - 1 : p[i] \in S
    BY <1>1, ElementOfSeq
  <2>2. /\ SubSeq(p, 1, Len(p) - 1) \in Seq(S)
        /\ Len(SubSeq(p, 1, Len(p) - 1)) = Len(p) - 1
        /\ \A i \in 1 .. Len(p) - 1 : SubSeq(p, 1, Len(p) - 1)[i] = p[i]
    <3> DEFINE n == Len(p) - 1
    <3>1. n \in Int /\ 1 \in Int /\ \A i \in 1 .. n : p[i] \in S
      BY <1>1, <2>1
    <3>2. n - 1 + 1 = n /\ (IF 1 <= n THEN n - 1 + 1 ELSE 0) = n
      BY <1>1
    <3> HIDE DEF n
    <3>3. /\ SubSeq(p, 1, n) \in Seq(S)
          /\ Len(SubSeq(p, 1, n)) = IF 1 <= n THEN n - 1 + 1 ELSE 0
          /\ \A i \in 1 .. n - 1 + 1 : SubSeq(p, 1, n)[i] = p[1 + i - 1]
      BY ONLY <3>1, SubSeqProperties
    <3>4. \A i \in 1 .. n : SubSeq(p, 1, n)[i] = p[i]
      BY ONLY <3>1, <3>2, <3>3
    <3> QED
      BY <3>2, <3>3, <3>4 DEF n
  <2> QED
    BY <2>2, SeqEqual
<1>3. g = <<s>> \o f
  <2>1. <<s>> \in Seq(S) /\ Len(<<s>>) = 1 /\ <<s>>[1] = s
    OBVIOUS
  <2>2. /\ <<s>> \o f \in Seq(S) /\ Len(<<s>> \o f) = 1 + Len(f)
        /\ \A i \in 1 .. 1 + Len(f) : (<<s>> \o f)[i] = IF i <= 1 THEN <<s>>[i] ELSE f[i - 1]
    BY <2>1, ConcatProperties
  <2>3. ASSUME NEW i \in 1 .. Len(g) PROVE g[i] = (<<s>> \o f)[i]
    <3>1. CASE i = 1
      BY <1>1, <2>1, <2>2, <3>1
    <3>2. CASE i # 1
      <4>1. i - 1 \in 1 .. Len(f) /\ (i - 1) + 1 = i /\ i \in 1 .. 1 + Len(f) /\ ~(i <= 1)
        BY <1>1, <3>2
      <4>2. (<<s>> \o f)[i] = f[i - 1]
        BY <2>2, <4>1
      <4>3. g[(i - 1) + 1] = f[i - 1]
        BY <4>1
      <4> QED
        BY <4>1, <4>2, <4>3
    <3> QED
      BY <3>1, <3>2
  <2>4. Len(g) = Len(<<s>> \o f)
    BY <1>1, <2>2
  <2> QED
    BY <2>2, <2>3, <2>4, SeqEqual
<1> QED
  BY <1>1, <1>2, <1>3 DEF Front

(* s is after p in q, and the first of f is gone from g.                   *)
Longer(S, p, f, q, g, s) ==
  /\ p \in Seq(S) /\ f \in Seq(S) /\ q \in Seq(S) /\ g \in Seq(S) /\ s \in S
  /\ Len(f) > 0 /\ Len(q) = Len(p) + 1 /\ Len(g) = Len(f) - 1
  /\ \A i \in 1 .. Len(p) : q[i] = p[i]
  /\ q[Len(p) + 1] = s /\ \A i \in 1 .. Len(g) : g[i] = f[i + 1]

(* In terms of UndoHistory: *)
LEMMA RedoneSequences ==
  ASSUME NEW S, NEW p, NEW f, NEW q, NEW g, NEW s, Longer(S, p, f, q, g, s)
  PROVE  f # <<>> /\ q = Append(p, s) /\ g = Tail(f)
<1> USE DEF Longer
<1>1. Len(p) \in Nat /\ Len(f) \in Nat /\ f # <<>>
  BY LenProperties
<1>2. q = Append(p, s)
  <2>1. /\ Append(p, s) \in Seq(S) /\ Len(Append(p, s)) = Len(p) + 1
        /\ \A i \in 1 .. Len(p) : Append(p, s)[i] = p[i]
        /\ Append(p, s)[Len(p) + 1] = s
    BY AppendProperties
  <2>2. \A i \in 1 .. Len(q) : q[i] = Append(p, s)[i]
    BY <1>1, <2>1
  <2> QED
    BY <2>1, <2>2, SeqEqual
<1>3. g = Tail(f)
  <2>1. /\ Tail(f) \in Seq(S) /\ Len(Tail(f)) = Len(f) - 1
        /\ \A i \in 1 .. Len(Tail(f)) : Tail(f)[i] = f[i + 1]
    BY <1>1, HeadTailProperties
  <2> QED
    BY <2>1, SeqEqual
<1> QED
  BY <1>1, <1>2, <1>3

(* The contents that there are, before a step and after it.                *)
Contents(ds) == {ds[i].before : i \in 1 .. Len(ds)} \cup {ds[i].after : i \in 1 .. Len(ds)}

AllContents == Contents(deltas) \cup Contents(deltas') \cup {Content(doc)}

(* The places of the last delta, then and now.                             *)
Steady(k, l) ==
  /\ IsChain(deltas, now) /\ IsAt(k, deltas, last)
  /\ IsChain(deltas', now') /\ IsAt(l, deltas', last')

(* The history then and now, as the sequences they are.                    *)
LEMMA MappedSteps ==
  ASSUME NEW k, NEW l, Steady(k, l), NEW S, S = AllContents
  PROVE  /\ IsMapped(S, deltas, k, Before(Applied), After(Undone))
         /\ IsMapped(S, deltas', l, Before(Applied)', After(Undone)')
         /\ k \in 0 .. Len(deltas) /\ l \in 0 .. Len(deltas')
         /\ Len(deltas) \in Nat /\ Len(deltas') \in Nat
         /\ Content(doc) \in S
<1>1. Holds(S, deltas) /\ Holds(S, deltas') /\ Content(doc) \in S
  BY DEF AllContents, Contents, Holds
<1>2. IsMapped(S, deltas, k, Before(Applied), After(Undone))
  BY <1>1, Mapped DEF Steady
<1>3. IsMapped(S, deltas', l, Before(Applied)', After(Undone)')
  BY <1>1, MappedNext DEF Steady
<1>4. k \in 0 .. Len(deltas) /\ l \in 0 .. Len(deltas')
  BY DEF Steady, IsAt
<1>5. Len(deltas) \in Nat /\ Len(deltas') \in Nat
  BY LenProperties DEF Steady, IsChain
<1> QED
  BY <1>1, <1>2, <1>3, <1>4, <1>5

(* Undo shows what there was before the command. *)
LEMMA RefinesUndo ==
  ASSUME IsChain(deltas, now), IsChain(deltas', now'), GoesBack
  PROVE  History!Undo
<1> DEFINE p == Before(Applied)
           f == After(Undone)
           q == Before(Applied)'
           g == After(Undone)'
<1>1. PICK k \in 1 .. Len(deltas) :
        /\ IsAt(k, deltas, last) /\ IsAt(k - 1, deltas, last') /\ deltas' = deltas
        /\ Content(doc) = deltas[k].after /\ Content(doc') = deltas[k].before
  BY DEF GoesBack
<1>2. PICK l : l = k - 1
  OBVIOUS
<1>3. PICK S : S = AllContents
  OBVIOUS
<1>4. PICK ds : ds = deltas
  OBVIOUS
<1>5. PICK s : s = Content(doc)
  OBVIOUS
<1>6. Steady(k, l)
  BY <1>1, <1>2 DEF Steady
<1>7. /\ IsMapped(S, ds, k, p, f) /\ IsMapped(S, ds, l, q, g)
      /\ Len(ds) \in Nat /\ k \in 1 .. Len(ds) /\ s \in S
  <2>1. /\ IsMapped(S, deltas, k, p, f) /\ IsMapped(S, deltas', l, q, g)
        /\ Len(deltas) \in Nat /\ Content(doc) \in S
    BY <1>3, <1>6, MappedSteps
  <2> HIDE DEF p, f, q, g
  <2> QED
    BY <1>1, <1>4, <1>5, <2>1
<1> HIDE DEF p, f, q, g
<1>8. /\ p \in Seq(S) /\ Len(p) = k /\ \A i \in 1 .. k : p[i] = ds[i].before
      /\ f \in Seq(S) /\ Len(f) = Len(ds) - k
      /\ \A i \in 1 .. Len(ds) - k : f[i] = ds[k + i].after
  BY <1>7 DEF IsMapped
<1>9. /\ q \in Seq(S) /\ Len(q) = l /\ \A i \in 1 .. l : q[i] = ds[i].before
      /\ g \in Seq(S) /\ Len(g) = Len(ds) - l
      /\ \A i \in 1 .. Len(ds) - l : g[i] = ds[l + i].after
  BY <1>7 DEF IsMapped
<1>10. /\ k \in Nat /\ l \in Nat /\ k = l + 1 /\ k > 0 /\ k <= Len(ds)
  BY <1>2, <1>7
<1>11. \A i \in 1 .. Len(q) : q[i] = p[i]
  <2> SUFFICES ASSUME NEW i \in 1 .. l PROVE q[i] = p[i]
    BY <1>9
  <2>1. i \in 1 .. k
    BY <1>10
  <2> QED
    BY <1>8, <1>9, <2>1
<1>12. g[1] = s
  <2>1. 1 \in 1 .. Len(ds) - l /\ l + 1 = k
    BY <1>7, <1>10
  <2>2. g[1] = ds[k].after
    BY <1>9, <2>1
  <2> QED
    BY <1>1, <1>4, <1>5, <2>2
<1>13. ASSUME NEW i \in 1 .. Len(f) PROVE g[i + 1] = f[i]
  <2>1. i + 1 \in 1 .. Len(ds) - l /\ l + (i + 1) = k + i /\ i \in 1 .. Len(ds) - k
    BY <1>7, <1>8, <1>10
  <2>2. g[i + 1] = ds[k + i].after
    BY <1>9, <2>1
  <2>3. f[i] = ds[k + i].after
    BY <1>8, <2>1
  <2> QED
    BY <2>2, <2>3
<1>14. Len(p) > 0 /\ Len(q) = Len(p) - 1 /\ Len(g) = Len(f) + 1
  BY <1>7, <1>8, <1>9, <1>10
<1>15. p # <<>> /\ q = Front(p) /\ g = <<s>> \o f
  <2>1. \A i \in 1 .. Len(f) : g[i + 1] = f[i]
    BY <1>13
  <2>2. Shorter(S, p, f, q, g, s)
    BY ONLY <1>7, <1>8, <1>9, <1>11, <1>12, <1>14, <2>1 DEF Shorter
  <2> QED
    BY ONLY <2>2, UndoneSequences
<1>16. Content(doc)' = Last(p)
  <2>1. Last(p) = ds[k].before
    BY <1>8, <1>10 DEF Last
  <2>2. Content(doc)' = Content(doc')
    BY DEF Content
  <2> QED
    BY <1>1, <1>4, <2>1, <2>2
<1> QED
  BY <1>5, <1>15, <1>16 DEF History!Undo, History!Front, History!Last, Front, Last, p, f, q, g

(* Redo shows what there was after it. *)
LEMMA RefinesRedo ==
  ASSUME IsChain(deltas, now), IsChain(deltas', now'), GoesOn
  PROVE  History!Redo
<1> DEFINE p == Before(Applied)
           f == After(Undone)
           q == Before(Applied)'
           g == After(Undone)'
<1>1. PICK n \in 1 .. Len(deltas) :
        /\ IsAt(n - 1, deltas, last) /\ IsAt(n, deltas, last') /\ deltas' = deltas
        /\ Content(doc) = deltas[n].before /\ Content(doc') = deltas[n].after
  BY DEF GoesOn
<1>2. PICK k : k = n - 1
  OBVIOUS
<1>3. PICK S : S = AllContents
  OBVIOUS
<1>4. PICK ds : ds = deltas
  OBVIOUS
<1>5. PICK s : s = Content(doc)
  OBVIOUS
<1>6. Steady(k, n)
  BY <1>1, <1>2 DEF Steady
<1>7. /\ IsMapped(S, ds, k, p, f) /\ IsMapped(S, ds, n, q, g)
      /\ Len(ds) \in Nat /\ n \in 1 .. Len(ds) /\ s \in S
  <2>1. /\ IsMapped(S, deltas, k, p, f) /\ IsMapped(S, deltas', n, q, g)
        /\ Len(deltas) \in Nat /\ Content(doc) \in S
    BY <1>3, <1>6, MappedSteps
  <2> HIDE DEF p, f, q, g
  <2> QED
    BY <1>1, <1>4, <1>5, <2>1
<1> HIDE DEF p, f, q, g
<1>8. /\ p \in Seq(S) /\ Len(p) = k /\ \A i \in 1 .. k : p[i] = ds[i].before
      /\ f \in Seq(S) /\ Len(f) = Len(ds) - k
      /\ \A i \in 1 .. Len(ds) - k : f[i] = ds[k + i].after
  BY <1>7 DEF IsMapped
<1>9. /\ q \in Seq(S) /\ Len(q) = n /\ \A i \in 1 .. n : q[i] = ds[i].before
      /\ g \in Seq(S) /\ Len(g) = Len(ds) - n
      /\ \A i \in 1 .. Len(ds) - n : g[i] = ds[n + i].after
  BY <1>7 DEF IsMapped
<1>10. /\ k \in Nat /\ n \in Nat /\ n = k + 1 /\ n <= Len(ds)
  BY <1>2, <1>7
<1>11. \A i \in 1 .. Len(p) : q[i] = p[i]
  <2> SUFFICES ASSUME NEW i \in 1 .. k PROVE q[i] = p[i]
    BY <1>8
  <2>1. i \in 1 .. n
    BY <1>10
  <2> QED
    BY <1>8, <1>9, <2>1
<1>12. q[Len(p) + 1] = s
  <2>1. n \in 1 .. n /\ Len(p) + 1 = n
    BY <1>8, <1>10
  <2> QED
    BY <1>1, <1>4, <1>5, <1>9, <2>1
<1>13. ASSUME NEW i \in 1 .. Len(g) PROVE g[i] = f[i + 1]
  <2>1. i \in 1 .. Len(ds) - n /\ n + i = k + (i + 1) /\ i + 1 \in 1 .. Len(ds) - k
    BY <1>7, <1>9, <1>10
  <2>2. g[i] = ds[n + i].after
    BY <1>9, <2>1
  <2>3. f[i + 1] = ds[k + (i + 1)].after
    BY <1>8, <2>1
  <2> QED
    BY <2>1, <2>2, <2>3
<1>14. Len(f) > 0 /\ Len(q) = Len(p) + 1 /\ Len(g) = Len(f) - 1
  BY <1>7, <1>8, <1>9, <1>10
<1>15. f # <<>> /\ q = Append(p, s) /\ g = Tail(f)
  <2>1. \A i \in 1 .. Len(g) : g[i] = f[i + 1]
    BY <1>13
  <2>2. Longer(S, p, f, q, g, s)
    BY ONLY <1>7, <1>8, <1>9, <1>11, <1>12, <1>14, <2>1 DEF Longer
  <2> QED
    BY ONLY <2>2, RedoneSequences
<1>16. Content(doc)' = Head(f)
  <2>1. 1 \in 1 .. Len(ds) - k
    BY <1>7, <1>10
  <2>2. f[1] = ds[n].after
    BY <1>8, <1>10, <2>1
  <2>3. Head(f) = f[1]
    BY <1>8, <1>15, HeadTailProperties
  <2>4. Content(doc)' = Content(doc')
    BY DEF Content
  <2> QED
    BY <1>1, <1>4, <2>2, <2>3, <2>4
<1> QED
  BY <1>5, <1>15, <1>16 DEF History!Redo, p, f, q, g

(* The contents of a document in order. *)
LEMMA ContentFacts == ASSUME NEW d, InOrder(d) PROVE IsContent(Content(d))
<1>1. Content(d).order = d.order
  BY DEF Content
<1>2. PICK s : s = d.order
  OBVIOUS
<1>3. s # <<>> /\ \A i, j \in DOMAIN s : s[i] = s[j] => i = j
  BY <1>2 DEF InOrder, IsOrder, Order
<1>4. s # <<>> /\ IsInjective(s)
  BY <1>3 DEF IsInjective
<1> QED
  BY <1>1, <1>2, <1>4 DEF IsContent

(* A new command forgets what could be redone. *)
LEMMA RefinesDo ==
  ASSUME IsChain(deltas, now), IsChain(deltas', now'), InOrder(doc'), Grows
  PROVE  History!Do
<1> DEFINE p == Before(Applied)
           f == After(Undone)
           q == Before(Applied)'
           g == After(Undone)'
<1>1. PICK k \in 0 .. Len(deltas) :
        /\ IsAt(k, deltas, last) /\ IsAt(k + 1, deltas', last') /\ Len(deltas') = k + 1
        /\ \A i \in 1 .. k : deltas'[i] = deltas[i]
        /\ deltas'[k + 1].before = Content(doc)
  BY DEF Grows
<1>2. PICK l : l = k + 1
  OBVIOUS
<1>3. PICK S : S = AllContents
  OBVIOUS
<1>4. PICK ds : ds = deltas
  OBVIOUS
<1>5. PICK es : es = deltas'
  OBVIOUS
<1>6. PICK s : s = Content(doc)
  OBVIOUS
<1>7. Steady(k, l)
  BY <1>1, <1>2 DEF Steady
<1>8. /\ IsMapped(S, ds, k, p, f) /\ IsMapped(S, es, l, q, g)
      /\ Len(ds) \in Nat /\ k \in 0 .. Len(ds) /\ s \in S
  <2>1. /\ IsMapped(S, deltas, k, p, f) /\ IsMapped(S, deltas', l, q, g)
        /\ Len(deltas) \in Nat /\ Content(doc) \in S
    BY <1>3, <1>7, MappedSteps
  <2> HIDE DEF p, f, q, g
  <2> QED
    BY <1>1, <1>4, <1>5, <1>6, <2>1
<1> HIDE DEF p, f, q, g
<1>9. p \in Seq(S) /\ Len(p) = k /\ \A i \in 1 .. k : p[i] = ds[i].before
  BY <1>8 DEF IsMapped
<1>10. /\ q \in Seq(S) /\ Len(q) = l /\ \A i \in 1 .. l : q[i] = es[i].before
       /\ g \in Seq(S) /\ Len(g) = Len(es) - l
  BY <1>8 DEF IsMapped
<1>11. k \in Nat /\ l = k + 1 /\ Len(es) = l
  BY <1>1, <1>2, <1>5, <1>8
<1>12. ASSUME NEW i \in 1 .. k PROVE q[i] = p[i]
  <2>1. i \in 1 .. l
    BY <1>11
  <2>2. es[i] = ds[i]
    BY <1>1, <1>4, <1>5
  <2> QED
    BY <1>9, <1>10, <2>1, <2>2
<1>13. q[k + 1] = s
  BY <1>1, <1>5, <1>6, <1>10, <1>11
<1>14. q = Append(p, s)
  <2>1. /\ Append(p, s) \in Seq(S) /\ Len(Append(p, s)) = Len(p) + 1
        /\ \A i \in 1 .. Len(p) : Append(p, s)[i] = p[i]
        /\ Append(p, s)[Len(p) + 1] = s
    BY <1>8, <1>9, AppendProperties
  <2>2. \A i \in 1 .. Len(q) : q[i] = Append(p, s)[i]
    BY <1>9, <1>10, <1>11, <1>12, <1>13, <2>1
  <2>3. Len(q) = Len(Append(p, s))
    BY <1>9, <1>10, <1>11, <2>1
  <2> QED
    BY <1>10, <2>1, <2>2, <2>3, SeqEqual
<1>15. g = <<>>
  <2>1. Len(g) = 0
    BY <1>10, <1>11
  <2> QED
    BY <1>10, <2>1, EmptySeq
<1>16. IsContent(Content(doc)')
  <2>1. PICK d : d = doc'
    OBVIOUS
  <2>2. IsContent(Content(d))
    BY <2>1, ContentFacts
  <2>3. Content(doc)' = Content(d)
    BY <2>1 DEF Content
  <2> QED
    BY <2>2, <2>3
<1> QED
  BY <1>6, <1>14, <1>15, <1>16 DEF History!Do, p, f, q, g

(* All of a sequence. *)
LEMMA WholeSequence == ASSUME NEW S, NEW p \in Seq(S) PROVE SubSeq(p, 1, Len(p)) = p
<1>1. Len(p) \in Nat /\ \A i \in 1 .. Len(p) : p[i] \in S
  BY LenProperties, ElementOfSeq
<1>2. PICK n \in Nat : n = Len(p)
  BY <1>1
<1>3. 1 \in Int /\ n \in Int /\ \A i \in 1 .. n : p[i] \in S
  BY <1>1, <1>2
<1>4. PICK q : q = SubSeq(p, 1, n)
  OBVIOUS
<1>5. /\ q \in Seq(S) /\ Len(q) = IF 1 <= n THEN n - 1 + 1 ELSE 0
      /\ \A i \in 1 .. n - 1 + 1 : q[i] = p[1 + i - 1]
  BY ONLY <1>3, <1>4, SubSeqProperties
<1>6. Len(q) = n /\ \A i \in 1 .. n : q[i] = p[i]
  BY <1>2, <1>5
<1> QED
  BY <1>2, <1>4, <1>5, <1>6, SeqEqual

(* What changes no content forgets nothing. *)
LEMMA RefinesForget ==
  ASSUME IsChain(deltas, now), NEW k, IsAt(k, deltas, last), Stays
  PROVE  History!Forget
<1> DEFINE p == Before(Applied)
           f == After(Undone)
<1>1. deltas' = deltas /\ last' = last /\ Content(doc)' = Content(doc)
  BY DEF Stays, Content
<1>2. Before(Applied)' = p /\ After(Undone)' = f
  BY <1>1 DEF Before, After, Applied, Undone, NApplied
<1>3. PICK S : S = AllContents
  OBVIOUS
<1>4. IsMapped(S, deltas, k, p, f)
  <2>1. Holds(S, deltas)
    BY <1>3 DEF AllContents, Contents, Holds
  <2> QED
    BY <2>1, Mapped
<1> HIDE DEF p, f
<1>5. p \in Seq(S) /\ f \in Seq(S)
  BY <1>4 DEF IsMapped
<1>6. p = SubSeq(p, 1, Len(p)) /\ f = SubSeq(f, 1, Len(f))
  BY <1>5, WholeSequence
<1>7. 1 \in 1 .. Len(p) + 1 /\ Len(f) \in 0 .. Len(f)
  BY <1>5, LenProperties, SMTT(60)
<1>8. (\E i \in 1 .. Len(p) + 1 : p = SubSeq(p, i, Len(p)))
      /\ (\E j \in 0 .. Len(f) : f = SubSeq(f, 1, j))
  BY <1>6, <1>7
<1> QED
  BY <1>1, <1>2, <1>8, Zenon DEF History!Forget, p, f

(* The first states are ones in which UndoHistory starts. *)
LEMMA RefinesInit == ASSUME Init PROVE History!Init
<1>1. InOrder(doc)
  BY InitIsSound DEF Sound
<1>2. IsContent(Content(doc))
  BY <1>1, ContentFacts
<1>3. deltas = <<>> /\ last = None /\ raced = FALSE /\ Inv
  BY InvInit DEF Init
<1>4. Len(deltas) = 0 /\ IsAt(0, deltas, last) /\ IsChain(deltas, now)
  <2>1. Len(deltas) = 0
    BY <1>3, EmptySeq
  <2> QED
    BY <1>3, <2>1 DEF IsAt, Inv
<1>5. IsMapped({}, deltas, 0, Before(Applied), After(Undone))
  <2>1. Holds({}, deltas)
    BY <1>4 DEF Holds
  <2> QED
    BY <1>4, <2>1, Mapped
<1>6. Before(Applied) = <<>> /\ After(Undone) = <<>>
  <2>1. Len(Before(Applied)) = 0 /\ Len(After(Undone)) = 0
    BY <1>4, <1>5 DEF IsMapped
  <2> QED
    BY <1>5, <2>1, EmptySeq DEF IsMapped
<1> QED
  BY <1>2, <1>3, <1>6 DEF History!Init

(* Every step is one of UndoHistory's. *)
LEMMA RefinesNext == ASSUME Inv, [Next]_vars PROVE History!Next
<1>1. CASE raced'
  BY <1>1 DEF History!Next
<1>2. CASE ~raced'
  <2>1. ~raced /\ Outcome
    BY <1>2, NextOutcome
  <2>2. raced' = raced
    <3>1. raced \in BOOLEAN /\ raced' \in BOOLEAN
      BY KeptNext DEF Inv
    <3> QED
      BY <1>2, <2>1, <3>1
  <2>3. /\ IsChain(deltas, now) /\ IsChain(deltas', now')
        /\ GoesBack \/ GoesOn \/ Grows \/ Stays
    BY <2>1 DEF Inv, Outcome
  <2>4. InOrder(doc')
    BY <2>1 DEF Outcome, Sound
  <2>5. PICK k : IsAt(k, deltas, last)
    BY DEF Inv
  <2>6. History!Do \/ History!Undo \/ History!Redo \/ History!Forget
    BY <2>3, <2>4, <2>5, RefinesDo, RefinesUndo, RefinesRedo, RefinesForget
  <2> QED
    BY <2>2, <2>6 DEF History!Next
<1> QED
  BY <1>1, <1>2

(* Undo and redo keep what UndoHistory promises of all tabs and steps:     *)
(* undo shows the tabs, steps, parameters, versions and deltas that there  *)
(* were before the command, redo those after it (backward() and forward()  *)
(* of all commands), as long as nobody races.                              *)
THEOREM UndoHistoryIsKept == Spec => ImplementsUndoHistory
<1>1. Init => History!Init
  BY RefinesInit
<1>2. Inv /\ [Next]_vars => [History!Next]_(History!vars)
  BY RefinesNext
<1> QED
  BY <1>1, <1>2, Invariance, PTL DEF Spec, ImplementsUndoHistory, History!Spec
=============================================================================
