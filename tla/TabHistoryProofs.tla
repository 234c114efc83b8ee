-------------------------- MODULE TabHistoryProofs --------------------------
(***************************************************************************)
(* Theorems about TabHistory, for any number of users, tabs and edits.     *)
(*                                                                         *)
(* The argument.  Whoever races, the tables keep their types, each delta   *)
(* is about a tab that is there, and the deltas are one chain of ids that  *)
(* go up, split where the workflow is (Inv).                               *)
(*                                                                         *)
(* As long as nobody races, the deltas tell a story (Story): each takes an *)
(* order of tabs to another, and takes up where the one before ended; no   *)
(* tab is added that there has been nor seen again once it is deleted; so  *)
(* that any tab in the story is on screen, or there is a delta that can    *)
(* bring it back.  And the row of each tab that a delta may bring back has *)
(* kept the position that the tab should come back to (Fits): nobody else  *)
(* moves a deleted tab.  Hence forward() and backward() make of the rows   *)
(* the order that the story has (InOrder), a purge takes only what the     *)
(* story has forgotten, and each step is one of UndoHistory's.             *)
(***************************************************************************)
EXTENDS TabHistory, SequenceTheorems, FiniteSetTheorems, WellFoundedInduction, TLAPS

-----------------------------------------------------------------------------
(* Lemmas on numbers and sequences.                                        *)

(* The pairs of natural numbers, smaller first. *)
Smaller == {mn \in Nat \X Nat : mn[1] < mn[2]}

(* A set of natural numbers has a least one. *)
LEMMA HasLeast ==
  ASSUME NEW S \in SUBSET Nat, S # {}
  PROVE  \E m \in S : \A n \in S : m <= n
<1>1. IsWellFoundedOn(Smaller, Nat)
  BY NatLessThanWellFounded DEF OpToRel, Smaller
<1>2. PICK m \in S : \A n \in S : <<n, m>> \notin Smaller
  BY <1>1, WFMin
<1>3. \A n \in S : ~(n < m)
  BY <1>2 DEF Smaller
<1>4. \A n \in S : n \in Nat /\ m \in Nat
  OBVIOUS
<1> QED
  BY <1>3, <1>4

(* The bounds are numbers. *)
LEMMA Bounds == MaxTabs \in Nat /\ NFirstTabs \in 1 .. MaxTabs /\ MaxEdits \in Nat
  BY TabsAssumption, EditsAssumption

(* The orders in which tabs may be: some tabs, none twice. *)
Orders == {s \in Seq(TabIds) : s # <<>> /\ IsInjective(s)}

(* What an order is made of. *)
LEMMA OrderFacts ==
  ASSUME NEW s \in Orders
  PROVE  /\ Len(s) \in Nat /\ Len(s) > 0 /\ DOMAIN s = 1 .. Len(s)
         /\ \A i \in 1 .. Len(s) : s[i] \in TabIds /\ s[i] \in Range(s)
         /\ \A i, j \in 1 .. Len(s) : s[i] = s[j] => i = j
         /\ \A t \in Range(s) : \E i \in 1 .. Len(s) : t = s[i]
<1>1. s \in Seq(TabIds) /\ s # <<>> /\ IsInjective(s)
  BY DEF Orders
<1>2. Len(s) \in Nat /\ Len(s) > 0 /\ DOMAIN s = 1 .. Len(s)
  BY <1>1, EmptySeq, LenProperties
<1>3. \A i \in 1 .. Len(s) : s[i] \in TabIds
  BY <1>1, ElementOfSeq
<1> QED
  BY <1>1, <1>2, <1>3 DEF IsInjective, Range

(* A sequence of that kind is an order. *)
LEMMA OrderIntro ==
  ASSUME NEW s \in Seq(TabIds), Len(s) > 0,
         \A i, j \in 1 .. Len(s) : s[i] = s[j] => i = j
  PROVE  s \in Orders
<1>1. DOMAIN s = 1 .. Len(s) /\ Len(s) \in Nat
  BY LenProperties
<1>2. s # <<>>
  BY EmptySeq
<1> QED
  BY <1>1, <1>2 DEF Orders, IsInjective

(* It has as many tabs as it is long. *)
LEMMA CountOrder ==
  ASSUME NEW s \in Orders, NEW k \in 0 .. Len(s)
  PROVE  Cardinality({s[i] : i \in 1 .. k}) = k
<1> DEFINE S == {s[i] : i \in 1 .. k}
           f == [i \in 1 .. k |-> s[i]]
<1>1. k \in Nat /\ \A i, j \in 1 .. k : s[i] = s[j] => i = j
  BY OrderFacts
<1>2. f \in Bijection(1 .. k, S)
  <2>1. f \in [1 .. k -> S] /\ \A i, j \in DOMAIN f : f[i] = f[j] => i = j
    BY <1>1
  <2>2. \A t \in S : \E i \in 1 .. k : f[i] = t
    OBVIOUS
  <2> QED
    BY <2>1, <2>2 DEF Bijection, Injection, Surjection, IsInjective
<1>3. ExistsBijection(1 .. k, S)
  BY <1>2 DEF ExistsBijection
<1> QED
  BY <1>1, <1>3, FS_CountingElements

-----------------------------------------------------------------------------
(* live_tabs, ordered.                                                     *)

(* The live tabs are those of order s, and in that order, at 0, 1, 2 ...   *)
Shows(ts, s) ==
  /\ s \in Orders /\ Range(s) = Live(ts)
  /\ \A i \in 1 .. Len(s) : ts[s[i]].position = i - 1

(* Then that is what Order() gives. *)
LEMMA OrderShown ==
  ASSUME NEW ts, NEW s, Shows(ts, s)
  PROVE  Order(ts) = s /\ Cardinality(Live(ts)) = Len(s)
<1>1. s \in Orders /\ Live(ts) = {s[i] : i \in 1 .. Len(s)} /\ Len(s) \in Nat
      /\ DOMAIN s = 1 .. Len(s) /\ \A i, j \in 1 .. Len(s) : s[i] = s[j] => i = j
  BY OrderFacts DEF Shows, Range
<1>2. Cardinality(Live(ts)) = Len(s)
  BY <1>1, CountOrder
<1> DEFINE Before(t, u) == \/ ts[t].position < ts[u].position
                           \/ ts[t].position = ts[u].position /\ t <= u
           Rank(t) == Cardinality({u \in Live(ts) : Before(u, t)})
           At(i)   == CHOOSE t \in Live(ts) : Rank(t) = i
<1>3. ASSUME NEW i \in 1 .. Len(s) PROVE Rank(s[i]) = i
  <2>1. {u \in Live(ts) : Before(u, s[i])} = {s[j] : j \in 1 .. i}
    <3>1. ASSUME NEW j \in 1 .. Len(s) PROVE Before(s[j], s[i]) <=> j <= i
      <4>1. ts[s[j]].position = j - 1 /\ ts[s[i]].position = i - 1
        BY DEF Shows
      <4>2. s[i] \in TabIds /\ s[j] \in TabIds
        BY <1>1, OrderFacts
      <4> QED
        BY <1>1, <4>1, <4>2 DEF TabIds
    <3>2. 1 .. i \subseteq 1 .. Len(s) /\ \A j \in 1 .. Len(s) : j <= i <=> j \in 1 .. i
      BY <1>1
    <3> HIDE DEF Before
    <3> QED
      BY <1>1, <3>1, <3>2
  <2> QED
    BY <1>1, <2>1, CountOrder, SMTT(60)
<1>4. \A i \in 1 .. Len(s) : At(i) = s[i]
  <2> HIDE DEF Rank
  <2>1. \A i \in 1 .. Len(s) : s[i] \in Live(ts) /\ Rank(s[i]) = i
    BY <1>1, <1>3
  <2>2. \A t \in Live(ts), i \in 1 .. Len(s) : Rank(t) = i => t = s[i]
    BY <1>1, <1>3
  <2> QED
    BY <2>1, <2>2
<1>5. Order(ts) = [i \in 1 .. Len(s) |-> At(i)]
  BY <1>2 DEF Order
<1> HIDE DEF At
<1>6. s = [i \in 1 .. Len(s) |-> s[i]]
  <2>1. s \in Seq(TabIds)
    BY <1>1 DEF Orders
  <2> QED
    BY <2>1, LenProperties
<1> QED
  BY <1>2, <1>4, <1>5, <1>6

(* What a row of table "tab" is. *)
TabRow == [position : Nat, is_deleted : BOOLEAN, step : BOOLEAN]

(* Table "tab": some of the rows there may be. *)
IsTable(ts) == DOMAIN ts \subseteq TabIds /\ ts \in [DOMAIN ts -> TabRow]

(* Whatever the positions are, Order() gives each live tab once. *)
LEMMA OrderOfAny ==
  ASSUME NEW ts, IsTable(ts)
  PROVE  /\ Order(ts) \in Seq(TabIds) /\ IsInjective(Order(ts)) /\ Range(Order(ts)) = Live(ts)
         /\ Len(Order(ts)) = Cardinality(Live(ts)) /\ Cardinality(Live(ts)) \in Nat
         /\ IsFiniteSet(Live(ts))
<1> DEFINE L == Live(ts)
           n == Cardinality(L)
           Before(t, u) == \/ ts[t].position < ts[u].position
                           \/ ts[t].position = ts[u].position /\ t <= u
           Below(t) == {u \in L : Before(u, t)}
           Rank(t)  == Cardinality(Below(t))
           At(i)    == CHOOSE t \in L : Rank(t) = i
           f        == [t \in L |-> Rank(t)]
<1>1. /\ L \subseteq TabIds /\ L \subseteq Nat
      /\ \A t \in L : ts[t].position \in Nat
  BY Bounds DEF IsTable, Live, TabRow, TabIds
<1>2. IsFiniteSet(L) /\ n \in Nat
  <2>1. IsFiniteSet(TabIds)
    BY Bounds, FS_Interval DEF TabIds
  <2> QED
    BY <1>1, <2>1, FS_Subset, FS_CardinalityType
<1>3. \A t, u \in L : /\ Before(t, t) /\ (Before(t, u) \/ Before(u, t))
                      /\ Before(t, u) /\ Before(u, t) => t = u
  <2> HIDE DEF L
  <2> QED
    BY <1>1
<1>4. \A t, u, v \in L : Before(t, u) /\ Before(u, v) => Before(t, v)
  <2> HIDE DEF L
  <2> QED
    BY <1>1
<1> HIDE DEF Before, L
<1>5. ASSUME NEW t \in L
      PROVE  Rank(t) \in 1 .. n /\ IsFiniteSet(Below(t))
  <2>1. Below(t) \subseteq L /\ t \in Below(t)
    BY <1>3
  <2> HIDE DEF Below
  <2>2. IsFiniteSet(Below(t)) /\ Rank(t) <= n
    BY <1>2, <2>1, FS_Subset
  <2>3. Rank(t) \in Nat /\ Rank(t) # 0
    BY <2>1, <2>2, FS_CardinalityType, FS_EmptySet
  <2> QED
    BY <1>2, <2>2, <2>3
<1>6. ASSUME NEW t \in L, NEW u \in L, Rank(t) = Rank(u), Before(t, u) PROVE t = u
  <2>1. Below(t) \subseteq Below(u)
    BY <1>4, <1>6
  <2>2. IsFiniteSet(Below(u))
    BY <1>5
  <2> HIDE DEF Below
  <2>3. Below(t) = Below(u)
    BY <1>6, <2>1, <2>2, FS_Subset
  <2>4. u \in Below(t)
    BY <1>3, <2>3 DEF Below
  <2>5. Before(u, t)
    BY <2>4 DEF Below
  <2> QED
    BY <1>3, <1>6, <2>5
<1> HIDE DEF Rank
<1>7. \A t, u \in L : Rank(t) = Rank(u) => t = u
  BY <1>3, <1>6
<1>8. \A i \in 1 .. n : \E t \in L : Rank(t) = i
  <2>1. f \in Injection(L, 1 .. n)
    <3>1. f \in [L -> 1 .. n]
      BY <1>5
    <3> QED
      BY <1>7, <3>1 DEF Injection, IsInjective
  <2>2. IsFiniteSet(1 .. n) /\ Cardinality(1 .. n) = n
    <3>1. Cardinality(1 .. n) = IF 1 > n THEN 0 ELSE n - 1 + 1
      BY <1>2, FS_Interval
    <3> QED
      BY <1>2, <3>1, FS_Interval
  <2>3. f \in Surjection(L, 1 .. n)
    BY <2>1, <2>2, FS_Injection
  <2>4. \A i \in 1 .. n : \E t \in L : f[t] = i
    BY <2>3 DEF Surjection
  <2> QED
    BY <2>4
<1>9. \A i \in 1 .. n : At(i) \in L /\ Rank(At(i)) = i
  BY <1>8
<1>10. \A t \in L : At(Rank(t)) = t
  BY <1>5, <1>7, <1>9
<1>11. Order(ts) = [i \in 1 .. n |-> At(i)]
  BY DEF Order, L, Rank, Below, Before
<1> HIDE DEF At
<1>12. Order(ts) \in [1 .. n -> TabIds] /\ DOMAIN Order(ts) = 1 .. n
  BY <1>1, <1>9, <1>11
<1>13. Order(ts) \in Seq(TabIds) /\ Len(Order(ts)) = n
  BY <1>2, <1>12, SeqDef, LenProperties
<1>14. IsInjective(Order(ts))
  BY <1>9, <1>11 DEF IsInjective
<1>15. Range(Order(ts)) = L
  <2>1. \A i \in 1 .. n : Order(ts)[i] \in L
    BY <1>9, <1>11
  <2>2. \A t \in L : \E i \in 1 .. n : Order(ts)[i] = t
    BY <1>5, <1>10, <1>11
  <2> QED
    BY <1>12, <2>1, <2>2 DEF Range
<1> QED
  BY <1>2, <1>13, <1>14, <1>15 DEF L

-----------------------------------------------------------------------------
(* What the commands make of the tabs.                                     *)

(* AddTab.forward, DuplicateTab.forward and DeleteTab.backward: the live   *)
(* tabs from position p on make room.                                      *)
PutBack(ts, t, p) == WithDeleted(Shifted(ts, From(ts, p), Up), t, FALSE)

(* DeleteTab.forward, AddTab.backward and DuplicateTab.backward: those     *)
(* after position p fill the gap.                                          *)
TakenOut(ts, t, p) ==
  LET without == WithDeleted(ts, t, TRUE)
  IN  Shifted(without, After(without, p), Down)

(* r is s with t put in at position p. *)
Inserted(s, t, p, r) ==
  /\ Len(r) = Len(s) + 1 /\ p \in 0 .. Len(s)
  /\ \A i \in 1 .. Len(r) : r[i] = IF i <= p THEN s[i] ELSE IF i = p + 1 THEN t ELSE s[i - 1]

(* There is such an r. *)
LEMMA CanInsert ==
  ASSUME NEW s \in Orders, NEW t \in TabIds, t \notin Range(s), NEW p \in 0 .. Len(s)
  PROVE  \E r \in Orders : Inserted(s, t, p, r) /\ Range(r) = Range(s) \cup {t}
<1> DEFINE n == Len(s)
           r == [i \in 1 .. n + 1 |-> IF i <= p THEN s[i] ELSE IF i = p + 1 THEN t ELSE s[i - 1]]
<1>1. /\ n \in Nat /\ DOMAIN s = 1 .. n /\ p \in Nat /\ p <= n
      /\ \A i \in 1 .. n : s[i] \in TabIds /\ s[i] # t
      /\ \A i, j \in 1 .. n : s[i] = s[j] => i = j
  BY OrderFacts
<1> HIDE DEF n
<1>2. r \in [1 .. n + 1 -> TabIds]
  <2>1. ASSUME NEW i \in 1 .. n + 1
        PROVE  (i <= p => i \in 1 .. n) /\ (i > p + 1 => i - 1 \in 1 .. n)
    BY <1>1
  <2> QED
    BY <1>1, <2>1
<1>3. r \in Seq(TabIds) /\ Len(r) = n + 1
  <2>1. r \in Seq(TabIds)
    BY <1>1, <1>2, SeqDef
  <2> QED
    BY <1>1, <1>2, <2>1, LenProperties
<1>4. \A i, j \in 1 .. n + 1 : r[i] = r[j] => i = j
  <2> SUFFICES ASSUME NEW i \in 1 .. n + 1, NEW j \in 1 .. n + 1, r[i] = r[j], i # j
               PROVE  FALSE
    OBVIOUS
  <2>1. \A k \in 1 .. n + 1 : /\ k <= p => k \in 1 .. n /\ r[k] = s[k]
                              /\ k = p + 1 => r[k] = t
                              /\ k > p + 1 => k - 1 \in 1 .. n /\ r[k] = s[k - 1]
    BY <1>1
  <2> HIDE DEF r
  <2> QED
    BY <1>1, <2>1
<1>5. Range(r) = Range(s) \cup {t}
  <2>1. \A i \in 1 .. n + 1 : r[i] \in Range(s) \cup {t}
    <3>1. ASSUME NEW i \in 1 .. n + 1
          PROVE  (i <= p => i \in 1 .. n) /\ (i > p + 1 => i - 1 \in 1 .. n)
      BY <1>1
    <3> QED
      BY <1>1, <3>1 DEF Range
  <2>2. ASSUME NEW i \in 1 .. n PROVE \E k \in 1 .. n + 1 : r[k] = s[i]
    <3>1. CASE i <= p
      BY <1>1, <3>1
    <3>2. CASE i > p
      <4>1. i + 1 \in 1 .. n + 1 /\ ~(i + 1 <= p) /\ i + 1 # p + 1 /\ (i + 1) - 1 = i
        BY <1>1, <3>2
      <4>2. r[i + 1] = s[(i + 1) - 1]
        BY <4>1
      <4> QED
        BY <4>1, <4>2
    <3> QED
      BY <1>1, <3>1, <3>2
  <2>3. p + 1 \in 1 .. n + 1 /\ r[p + 1] = t
    BY <1>1
  <2>4. DOMAIN r = 1 .. n + 1
    OBVIOUS
  <2> HIDE DEF r
  <2>5. Range(r) \subseteq Range(s) \cup {t}
    BY <2>1, <2>4 DEF Range
  <2>6. Range(s) \subseteq Range(r)
    BY <1>1, <2>2, <2>4 DEF Range
  <2>7. t \in Range(r)
    BY <2>3, <2>4 DEF Range
  <2> QED
    BY <2>5, <2>6, <2>7
<1>6. Inserted(s, t, p, r)
  BY <1>1, <1>3 DEF Inserted, n
<1> HIDE DEF r
<1>7. r \in Orders
  BY <1>1, <1>3, <1>4, OrderIntro
<1> QED
  BY <1>5, <1>6, <1>7

(* What there is in r, then. *)
LEMMA InsertedFacts ==
  ASSUME NEW s \in Orders, NEW r \in Orders, NEW t, NEW p, Inserted(s, t, p, r)
  PROVE  /\ t \notin Range(s) /\ Range(r) = Range(s) \cup {t}
         /\ r[p + 1] = t /\ p + 1 \in 1 .. Len(r)
         /\ \A i \in 1 .. Len(s) : IF i <= p THEN i \in 1 .. Len(r) /\ r[i] = s[i]
                                             ELSE i + 1 \in 1 .. Len(r) /\ r[i + 1] = s[i]
<1> DEFINE n == Len(s)
<1>1. /\ n \in Nat /\ DOMAIN s = 1 .. n /\ p \in Nat /\ p <= n /\ Len(r) = n + 1
      /\ DOMAIN r = 1 .. n + 1 /\ \A i, j \in 1 .. n + 1 : r[i] = r[j] => i = j
      /\ \A i \in 1 .. n + 1 : r[i] = IF i <= p THEN s[i] ELSE IF i = p + 1 THEN t ELSE s[i - 1]
  BY OrderFacts DEF Inserted
<1> HIDE DEF n
<1>2. r[p + 1] = t /\ p + 1 \in 1 .. n + 1
  BY <1>1
<1>3. ASSUME NEW i \in 1 .. n
      PROVE  IF i <= p THEN i \in 1 .. n + 1 /\ r[i] = s[i]
                       ELSE i + 1 \in 1 .. n + 1 /\ r[i + 1] = s[i]
  <2>1. CASE i <= p
    BY <1>1, <2>1
  <2>2. CASE i > p
    <3>1. i + 1 \in 1 .. n + 1 /\ ~(i + 1 <= p) /\ i + 1 # p + 1 /\ (i + 1) - 1 = i
      BY <1>1, <2>2
    <3>2. r[i + 1] = s[(i + 1) - 1]
      BY <1>1, <3>1
    <3> QED
      BY <1>1, <2>2, <3>1, <3>2
  <2> QED
    BY <1>1, <2>1, <2>2
<1>4. \A i \in 1 .. n : s[i] # t
  <2> SUFFICES ASSUME NEW i \in 1 .. n PROVE s[i] # t
    OBVIOUS
  <2>1. CASE i <= p
    BY <1>1, <1>2, <1>3, <2>1
  <2>2. CASE i > p
    BY <1>1, <1>2, <1>3, <2>2
  <2> QED
    BY <1>1, <2>1, <2>2
<1>5. \A i \in 1 .. n + 1 : r[i] = t \/ \E j \in 1 .. n : r[i] = s[j]
  <2> SUFFICES ASSUME NEW i \in 1 .. n + 1 PROVE r[i] = t \/ \E j \in 1 .. n : r[i] = s[j]
    OBVIOUS
  <2>1. (i <= p => i \in 1 .. n) /\ (i > p + 1 => i - 1 \in 1 .. n)
    BY <1>1
  <2> QED
    BY <1>1, <2>1
<1>6. t \notin Range(s)
  BY <1>1, <1>4 DEF Range
<1>7. Range(r) = Range(s) \cup {t}
  <2>1. Range(r) \subseteq Range(s) \cup {t}
    BY <1>1, <1>5, SMTT(60) DEF Range
  <2>2. ASSUME NEW i \in 1 .. n PROVE s[i] \in Range(r)
    BY <1>1, <1>3, <2>2, ZenonT(60) DEF Range
  <2>3. Range(s) \subseteq Range(r)
    BY <1>1, <2>2 DEF Range
  <2>4. t \in Range(r)
    BY <1>1, <1>2 DEF Range
  <2> QED
    BY <2>1, <2>3, <2>4
<1> QED
  BY <1>1, <1>2, <1>3, <1>6, <1>7 DEF n

(* A tab is put in at only one position. *)
LEMMA InsertedOnce ==
  ASSUME NEW s \in Orders, NEW r \in Orders, NEW t, NEW p, Inserted(s, t, p, r),
         NEW i \in 1 .. Len(r), r[i] = t
  PROVE  i = p + 1
  BY InsertedFacts, OrderFacts

(* The rows when a tab has been put back. *)
LEMMA PutBackRows ==
  ASSUME NEW ts, IsTable(ts), NEW t \in DOMAIN ts, NEW p \in Nat
  PROVE  /\ DOMAIN PutBack(ts, t, p) = DOMAIN ts /\ IsTable(PutBack(ts, t, p))
         /\ Live(PutBack(ts, t, p)) = Live(ts) \cup {t}
         /\ \A u \in DOMAIN ts :
              /\ PutBack(ts, t, p)[u].position =
                   IF u \in Live(ts) /\ ts[u].position >= p THEN ts[u].position + 1
                   ELSE ts[u].position
              /\ PutBack(ts, t, p)[u].step = ts[u].step
              /\ u \notin Live(ts) /\ u # t => PutBack(ts, t, p)[u] = ts[u]
<1> DEFINE moved == Shifted(ts, From(ts, p), Up)
           new   == PutBack(ts, t, p)
<1>1. ts \in [DOMAIN ts -> TabRow] /\ DOMAIN ts \subseteq TabIds
  BY DEF IsTable
<1>2. /\ From(ts, p) \subseteq Live(ts) /\ Live(ts) \subseteq DOMAIN ts
      /\ \A u \in Live(ts) : u \in From(ts, p) <=> ts[u].position >= p
      /\ \A u \in DOMAIN ts : u \in Live(ts) <=> ~ts[u].is_deleted
  BY DEF From, Live
<1>3. /\ DOMAIN moved = DOMAIN ts
      /\ \A u \in DOMAIN ts : moved[u] = IF u \in From(ts, p)
                                         THEN [ts[u] EXCEPT !.position = @ + 1] ELSE ts[u]
  BY DEF Shifted, Up
<1> HIDE DEF moved
<1>4. ASSUME NEW u \in DOMAIN ts
      PROVE  /\ moved[u] \in TabRow /\ moved[u].step = ts[u].step
             /\ moved[u].is_deleted = ts[u].is_deleted
             /\ moved[u].position = IF u \in Live(ts) /\ ts[u].position >= p
                                    THEN ts[u].position + 1 ELSE ts[u].position
  <2>1. ts[u] \in TabRow
    BY <1>1
  <2>2. CASE u \in From(ts, p)
    BY <1>2, <1>3, <2>1, <2>2 DEF TabRow
  <2>3. CASE u \notin From(ts, p)
    BY <1>2, <1>3, <2>1, <2>3 DEF TabRow
  <2> QED
    BY <2>2, <2>3
<1>5. DOMAIN new = DOMAIN ts /\ new = [moved EXCEPT ![t].is_deleted = FALSE]
  BY <1>3 DEF PutBack, WithDeleted, moved
<1> HIDE DEF new
<1>6. ASSUME NEW u \in DOMAIN ts
      PROVE  /\ new[u] \in TabRow /\ new[u].step = ts[u].step
             /\ new[u].is_deleted = IF u = t THEN FALSE ELSE ts[u].is_deleted
             /\ new[u].position = moved[u].position
             /\ u \notin Live(ts) /\ u # t => new[u] = ts[u]
  <2>1. moved[u] \in TabRow
    BY <1>4
  <2>2. CASE u = t
    <3>1. new[u] = [moved[u] EXCEPT !.is_deleted = FALSE]
      BY <1>3, <1>5, <2>2
    <3> QED
      BY <1>4, <2>1, <2>2, <3>1 DEF TabRow
  <2>3. CASE u # t
    <3>1. new[u] = moved[u]
      BY <1>3, <1>5, <2>3
    <3> QED
      BY <1>2, <1>3, <1>4, <2>3, <3>1
  <2> QED
    BY <2>2, <2>3
<1>7. IsTable(new)
  <2>1. new \in [DOMAIN new -> TabRow]
    <3>1. new = [u \in DOMAIN ts |-> new[u]]
      BY <1>3, <1>5
    <3> QED
      BY <1>5, <1>6, <3>1
  <2> QED
    BY <1>1, <1>5, <2>1 DEF IsTable
<1>8. Live(new) = Live(ts) \cup {t}
  BY <1>5, <1>6 DEF Live
<1> QED
  BY <1>4, <1>5, <1>6, <1>7, <1>8 DEF new

(* The rows when a tab has been taken out. *)
LEMMA TakenOutRows ==
  ASSUME NEW ts, IsTable(ts), NEW t \in DOMAIN ts, NEW p \in Nat
  PROVE  /\ DOMAIN TakenOut(ts, t, p) = DOMAIN ts /\ IsTable(TakenOut(ts, t, p))
         /\ Live(TakenOut(ts, t, p)) = Live(ts) \ {t}
         /\ \A u \in DOMAIN ts :
              /\ TakenOut(ts, t, p)[u].position =
                   IF u \in Live(ts) \ {t} /\ ts[u].position > p THEN ts[u].position - 1
                   ELSE ts[u].position
              /\ TakenOut(ts, t, p)[u].step = ts[u].step
              /\ u \notin Live(ts) /\ u # t => TakenOut(ts, t, p)[u] = ts[u]
<1> DEFINE without == WithDeleted(ts, t, TRUE)
           gap     == After(without, p)
           new     == TakenOut(ts, t, p)
<1>1. ts \in [DOMAIN ts -> TabRow] /\ DOMAIN ts \subseteq TabIds
  BY DEF IsTable
<1>2. DOMAIN without = DOMAIN ts /\ without = [ts EXCEPT ![t].is_deleted = TRUE]
  BY DEF WithDeleted
<1> HIDE DEF without
<1>3. ASSUME NEW u \in DOMAIN ts
      PROVE  /\ without[u] \in TabRow /\ without[u].step = ts[u].step
             /\ without[u].position = ts[u].position
             /\ without[u].is_deleted = IF u = t THEN TRUE ELSE ts[u].is_deleted
             /\ u # t => without[u] = ts[u]
  <2>1. ts[u] \in TabRow
    BY <1>1
  <2>2. CASE u = t
    <3>1. without[u] = [ts[u] EXCEPT !.is_deleted = TRUE]
      BY <1>2, <2>2
    <3> QED
      BY <2>1, <2>2, <3>1 DEF TabRow
  <2>3. CASE u # t
    <3>1. without[u] = ts[u]
      BY <1>2, <2>3
    <3> QED
      BY <2>1, <2>3, <3>1 DEF TabRow
  <2> QED
    BY <2>2, <2>3
<1>4. Live(without) = Live(ts) \ {t}
  BY <1>2, <1>3 DEF Live
<1>5. /\ gap \subseteq Live(without)
      /\ \A u \in Live(without) : u \in gap <=> ts[u].position > p
  BY <1>3, <1>4 DEF After, Live
<1> HIDE DEF gap
<1>6. /\ DOMAIN new = DOMAIN ts
      /\ \A u \in DOMAIN ts : new[u] = IF u \in gap THEN [without[u] EXCEPT !.position = @ - 1]
                                                    ELSE without[u]
  BY <1>2 DEF TakenOut, Shifted, Down, gap, without
<1> HIDE DEF new
<1>7. ASSUME NEW u \in DOMAIN ts
      PROVE  /\ new[u] \in TabRow /\ new[u].step = ts[u].step
             /\ new[u].is_deleted = without[u].is_deleted
             /\ new[u].position = IF u \in Live(ts) \ {t} /\ ts[u].position > p
                                  THEN ts[u].position - 1 ELSE ts[u].position
             /\ u \notin Live(ts) /\ u # t => new[u] = ts[u]
  <2>1. without[u] \in TabRow /\ ts[u].position \in Nat
    BY <1>1, <1>3 DEF TabRow
  <2>2. CASE u \in gap
    <3>1. u \in Live(ts) \ {t} /\ ts[u].position > p /\ ts[u].position - 1 \in Nat
      BY <1>4, <1>5, <2>1, <2>2
    <3>2. new[u] = [without[u] EXCEPT !.position = ts[u].position - 1]
      BY <1>3, <1>6, <2>2
    <3> QED
      BY <1>3, <2>1, <3>1, <3>2 DEF TabRow
  <2>3. CASE u \notin gap
    <3>1. new[u] = without[u]
      BY <1>6, <2>3
    <3>2. ~(u \in Live(ts) \ {t} /\ ts[u].position > p)
      BY <1>4, <1>5, <2>3
    <3> QED
      BY <1>3, <2>1, <3>1, <3>2
  <2> QED
    BY <2>2, <2>3
<1>8. IsTable(new)
  <2>1. new \in [DOMAIN new -> TabRow]
    <3>1. new = [u \in DOMAIN ts |-> new[u]]
      BY <1>2, <1>6 DEF new, TakenOut, Shifted, without
    <3> QED
      BY <1>6, <1>7, <3>1
  <2> QED
    BY <1>1, <1>6, <2>1 DEF IsTable
<1>9. Live(new) = Live(ts) \ {t}
  BY <1>3, <1>6, <1>7 DEF Live
<1> QED
  BY <1>6, <1>7, <1>8, <1>9 DEF new

(* They show the order with the tab that has been put back. *)
LEMMA PutBackShows ==
  ASSUME NEW ts, IsTable(ts), NEW s, Shows(ts, s), NEW t \in DOMAIN ts, ts[t].is_deleted,
         NEW r \in Orders, Inserted(s, t, ts[t].position, r)
  PROVE  Shows(PutBack(ts, t, ts[t].position), r)
<1> DEFINE p   == ts[t].position
           new == PutBack(ts, t, p)
<1>1. /\ s \in Orders /\ Range(s) = Live(ts) /\ Len(s) \in Nat /\ p \in 0 .. Len(s) /\ p \in Nat
      /\ \A i \in 1 .. Len(s) : ts[s[i]].position = i - 1 /\ s[i] \in Live(ts)
      /\ Live(ts) \subseteq DOMAIN ts /\ t \notin Live(ts) /\ ts[t].position = p
  BY OrderFacts DEF Shows, Inserted, Live
<1>2. Range(r) = Live(ts) \cup {t}
  BY <1>1, InsertedFacts
<1> HIDE DEF p
<1>3. /\ Live(new) = Live(ts) \cup {t}
      /\ \A u \in DOMAIN ts : new[u].position =
           IF u \in Live(ts) /\ ts[u].position >= p THEN ts[u].position + 1 ELSE ts[u].position
  BY <1>1, PutBackRows
<1>4. /\ Len(r) = Len(s) + 1
      /\ \A i \in 1 .. Len(r) : r[i] = IF i <= p THEN s[i] ELSE IF i = p + 1 THEN t ELSE s[i - 1]
  BY DEF Inserted, p
<1> HIDE DEF new
<1>5. ASSUME NEW i \in 1 .. Len(r) PROVE new[r[i]].position = i - 1
  <2>1. CASE i <= p
    <3>1. i \in 1 .. Len(s) /\ r[i] = s[i]
      BY <1>1, <1>4, <2>1
    <3>2. s[i] \in Live(ts) /\ s[i] \in DOMAIN ts /\ ts[s[i]].position = i - 1
      BY <1>1, <3>1
    <3> QED
      BY <1>1, <1>3, <2>1, <3>1, <3>2
  <2>2. CASE i = p + 1
    <3>1. r[i] = t
      BY <1>1, <1>4, <2>2
    <3> QED
      BY <1>1, <1>3, <2>2, <3>1
  <2>3. CASE i > p + 1
    <3>1. i - 1 \in 1 .. Len(s) /\ r[i] = s[i - 1]
      BY <1>1, <1>4, <2>3
    <3>2. s[i - 1] \in Live(ts) /\ s[i - 1] \in DOMAIN ts /\ ts[s[i - 1]].position = (i - 1) - 1
      BY <1>1, <3>1
    <3> QED
      BY <1>1, <1>3, <2>3, <3>1, <3>2
  <2> QED
    BY <1>1, <2>1, <2>2, <2>3
<1> QED
  BY <1>2, <1>3, <1>5 DEF Shows, new, p

(* They show the order without the tab that has been taken out. *)
LEMMA TakenOutShows ==
  ASSUME NEW ts, IsTable(ts), NEW r, Shows(ts, r), NEW s \in Orders, NEW t, NEW p,
         Inserted(s, t, p, r)
  PROVE  /\ t \in Live(ts) /\ ts[t].position = p
         /\ Shows(TakenOut(ts, t, p), s) /\ TakenOut(ts, t, p)[t].position = p
<1> DEFINE new == TakenOut(ts, t, p)
<1>1. /\ r \in Orders /\ Range(r) = Live(ts) /\ Len(s) \in Nat /\ p \in Nat
      /\ \A i \in 1 .. Len(r) : ts[r[i]].position = i - 1 /\ r[i] \in Live(ts)
      /\ Live(ts) \subseteq DOMAIN ts
  BY OrderFacts DEF Shows, Inserted, Live
<1>2. /\ t \notin Range(s) /\ Range(r) = Range(s) \cup {t}
      /\ r[p + 1] = t /\ p + 1 \in 1 .. Len(r)
      /\ \A i \in 1 .. Len(s) : IF i <= p THEN i \in 1 .. Len(r) /\ r[i] = s[i]
                                          ELSE i + 1 \in 1 .. Len(r) /\ r[i + 1] = s[i]
  BY <1>1, InsertedFacts
<1>3. t \in Live(ts) /\ t \in DOMAIN ts /\ ts[t].position = p
  <2>1. ts[r[p + 1]].position = (p + 1) - 1 /\ r[p + 1] \in Live(ts)
    BY <1>1, <1>2
  <2> QED
    BY <1>1, <1>2, <2>1
<1>4. /\ Live(new) = Live(ts) \ {t}
      /\ \A u \in DOMAIN ts : new[u].position =
           IF u \in Live(ts) \ {t} /\ ts[u].position > p THEN ts[u].position - 1
           ELSE ts[u].position
  <2>1. IsTable(ts) /\ t \in DOMAIN ts /\ p \in Nat
    BY <1>1, <1>3
  <2> QED
    BY <2>1, TakenOutRows
<1> HIDE DEF new
<1>5. Range(s) = Live(new)
  <2>1. Range(s) = Range(r) \ {t}
    BY <1>2
  <2>2. Range(r) = Live(ts)
    BY <1>1
  <2> QED
    BY <1>4, <2>1, <2>2
<1>6. ASSUME NEW i \in 1 .. Len(s) PROVE new[s[i]].position = i - 1
  <2>1. s[i] \in Range(s) /\ s[i] # t
    BY <1>2, OrderFacts
  <2>2. s[i] \in Live(ts) \ {t} /\ s[i] \in DOMAIN ts
    BY <1>1, <1>2, <2>1
  <2>3. CASE i <= p
    <3>1. ts[s[i]].position = i - 1
      BY <1>1, <1>2, <2>3
    <3> QED
      BY <1>1, <1>4, <2>2, <2>3, <3>1
  <2>4. CASE i > p
    <3>1. i + 1 \in 1 .. Len(r) /\ r[i + 1] = s[i]
      BY <1>1, <1>2, <2>4
    <3>2. ts[s[i]].position = (i + 1) - 1
      BY <1>1, <3>1
    <3> QED
      BY <1>1, <1>4, <2>2, <2>4, <3>2
  <2> QED
    BY <1>1, <2>3, <2>4
<1>7. new[t].position = p
  BY <1>3, <1>4
<1> QED
  BY <1>3, <1>5, <1>6, <1>7 DEF Shows, new

(* A tab's place in an order. *)
LEMMA IndexFacts ==
  ASSUME NEW s, NEW t \in Range(s), DOMAIN s = 1 .. Len(s), Len(s) \in Nat
  PROVE  /\ IndexOf(s, t) \in 1 .. Len(s) /\ s[IndexOf(s, t)] = t
         /\ IndexOf(s, t) - 1 \in Nat
<1>1. \E i \in DOMAIN s : s[i] = t
  BY DEF Range
<1>2. IndexOf(s, t) \in 1 .. Len(s) /\ s[IndexOf(s, t)] = t
  BY <1>1 DEF IndexOf
<1> QED
  BY <1>2

(* The rows when the tabs have been put in another order, be it even one   *)
(* of other tabs.                                                          *)
LEMMA ReorderedRows ==
  ASSUME NEW scr, IsTable(scr.tabs), NEW from, NEW to \in Orders
  PROVE  LET new == Reordered(scr, from, to).tabs
         IN  /\ DOMAIN new = DOMAIN scr.tabs /\ IsTable(new) /\ Live(new) = Live(scr.tabs)
             /\ \A u \in DOMAIN new : /\ new[u].step = scr.tabs[u].step
                                      /\ u \notin Range(to) => new[u] = scr.tabs[u]
                                      /\ u \in Range(to) =>
                                           new[u].position = IndexOf(to, u) - 1
<1> DEFINE ts  == scr.tabs
           new == Reordered(scr, from, to).tabs
<1>1. ts \in [DOMAIN ts -> TabRow] /\ DOMAIN ts \subseteq TabIds
  BY DEF IsTable
<1>2. /\ DOMAIN new = DOMAIN ts /\ new = [u \in DOMAIN ts |-> new[u]]
      /\ \A u \in DOMAIN ts : new[u] = IF u \in Range(to)
                                       THEN [ts[u] EXCEPT !.position = IndexOf(to, u) - 1]
                                       ELSE ts[u]
  BY DEF Reordered
<1> HIDE DEF new
<1>3. ASSUME NEW u \in DOMAIN ts
      PROVE  /\ new[u] \in TabRow /\ new[u].step = ts[u].step
             /\ new[u].is_deleted = ts[u].is_deleted
             /\ u \notin Range(to) => new[u] = ts[u]
             /\ u \in Range(to) => new[u].position = IndexOf(to, u) - 1
  <2>1. ts[u] \in TabRow
    BY <1>1
  <2>2. CASE u \in Range(to)
    <3>1. IndexOf(to, u) - 1 \in Nat
      BY <2>2, OrderFacts, IndexFacts
    <3> QED
      BY <1>2, <2>1, <2>2, <3>1 DEF TabRow
  <2>3. CASE u \notin Range(to)
    BY <1>2, <2>1, <2>3 DEF TabRow
  <2> QED
    BY <2>2, <2>3
<1>4. IsTable(new)
  <2>1. new \in [DOMAIN new -> TabRow]
    BY <1>2, <1>3
  <2> QED
    BY <1>1, <1>2, <2>1 DEF IsTable
<1>5. Live(new) = Live(ts)
  BY <1>2, <1>3 DEF Live
<1> QED
  BY <1>2, <1>3, <1>4, <1>5 DEF new

(* They show the order that was asked for, if it is one of the live tabs.  *)
LEMMA ReorderedShows ==
  ASSUME NEW scr, IsTable(scr.tabs), NEW from, NEW to \in Orders, Range(to) = Live(scr.tabs)
  PROVE  Shows(Reordered(scr, from, to).tabs, to)
<1> DEFINE new == Reordered(scr, from, to).tabs
<1>1. /\ DOMAIN new = DOMAIN scr.tabs /\ Live(new) = Live(scr.tabs)
      /\ \A u \in DOMAIN new : u \in Range(to) => new[u].position = IndexOf(to, u) - 1
  BY ReorderedRows
<1> HIDE DEF new
<1>2. Live(scr.tabs) \subseteq DOMAIN scr.tabs
  BY DEF Live
<1>3. ASSUME NEW i \in 1 .. Len(to) PROVE new[to[i]].position = i - 1
  <2>1. /\ to[i] \in Range(to) /\ DOMAIN to = 1 .. Len(to) /\ Len(to) \in Nat
        /\ \A j, k \in 1 .. Len(to) : to[j] = to[k] => j = k
    BY OrderFacts
  <2>2. IndexOf(to, to[i]) \in 1 .. Len(to) /\ to[IndexOf(to, to[i])] = to[i]
    BY <2>1, IndexFacts
  <2>3. IndexOf(to, to[i]) = i
    BY <2>1, <2>2
  <2> QED
    BY <1>1, <1>2, <2>1, <2>3
<1> QED
  BY <1>1, <1>3 DEF Shows, new

-----------------------------------------------------------------------------
(* The chain of deltas.                                                    *)

(* The ids go up with time, and so does what is applied; each delta points *)
(* at the one before it; and unless all the applied ones have been cut     *)
(* off, the workflow is at one of them.                                    *)
Chain(ds, l, n) ==
  /\ \A i \in 1 .. Len(ds) : ds[i].id \in 1 .. n
  /\ \A i, j \in 1 .. Len(ds) : i < j => ds[i].id < ds[j].id
  /\ l \in 0 .. n
  /\ \A i \in 1 .. Len(ds) : ds[i].prev = IF i = 1 THEN None ELSE ds[i - 1].id
  /\ \A i \in 1 .. Len(ds) : ds[i].id < l => \E j \in 1 .. Len(ds) : ds[j].id = l

(* The first k deltas are applied, and no other. *)
SplitsAt(ds, l, k) ==
  /\ k \in 0 .. Len(ds)
  /\ \A i \in 1 .. Len(ds) : ds[i].id <= l <=> i <= k

(* There is such a k. *)
LEMMA SplitExists ==
  ASSUME NEW ds \in Seq(Delta), NEW l, NEW n \in Nat, Chain(ds, l, n)
  PROVE  \E k \in 0 .. Len(ds) : SplitsAt(ds, l, k)
<1> DEFINE L == Len(ds)
           S == {j \in 1 .. L + 1 : j = L + 1 \/ ds[j].id > l}
<1>1. L \in Nat /\ l \in Nat
  BY LenProperties DEF Chain
<1>2. \A i \in 1 .. L : ds[i].id \in Nat
  BY DEF Chain
<1>3. \A i, j \in 1 .. L : i < j => ds[i].id < ds[j].id
  BY DEF Chain
<1> HIDE DEF L
<1>4. S \in SUBSET Nat /\ L + 1 \in S
  BY <1>1
<1>5. PICK m \in S : \A j \in S : m <= j
  BY <1>4, HasLeast
<1>6. m \in 1 .. L + 1 /\ (m = L + 1 \/ ds[m].id > l)
  OBVIOUS
<1>7. \A j \in 1 .. L + 1 : j = L + 1 \/ ds[j].id > l => m <= j
  BY <1>5
<1> HIDE DEF S
<1>8. ASSUME NEW i \in 1 .. L PROVE ds[i].id <= l <=> i <= m - 1
  <2>1. CASE i < m
    <3>1. ~(ds[i].id > l)
      BY <1>1, <1>6, <1>7, <2>1
    <3> QED
      BY <1>1, <1>2, <1>6, <2>1, <3>1
  <2>2. CASE i = m
    BY <1>1, <1>2, <1>6, <2>2
  <2>3. CASE i > m
    <3>1. m \in 1 .. L /\ m < i
      BY <1>1, <1>6, <2>3
    <3>2. ds[m].id < ds[i].id
      BY <1>3, <3>1
    <3> QED
      BY <1>1, <1>2, <1>6, <2>3, <3>1, <3>2
  <2> QED
    BY <1>6, <2>1, <2>2, <2>3
<1>9. m - 1 \in 0 .. L
  BY <1>1, <1>6
<1> QED
  BY <1>8, <1>9 DEF SplitsAt, L

(* And one only: what NApplied chooses. *)
LEMMA SplitOnce ==
  ASSUME NEW ds \in Seq(Delta), NEW l, NEW k, SplitsAt(ds, l, k)
  PROVE  k = CHOOSE n \in 0 .. Len(ds) : \A i \in DOMAIN ds : ds[i].id <= l <=> i <= n
<1> DEFINE P(n) == \A i \in DOMAIN ds : ds[i].id <= l <=> i <= n
<1>1. DOMAIN ds = 1 .. Len(ds) /\ Len(ds) \in Nat /\ k \in 0 .. Len(ds)
  BY LenProperties DEF SplitsAt
<1>2. P(k)
  BY <1>1 DEF SplitsAt
<1>3. ASSUME NEW n \in 0 .. Len(ds), P(n) PROVE n = k
  <2>1. \A i \in 1 .. Len(ds) : i <= n <=> i <= k
    BY <1>1, <1>2, <1>3
  <2>2. n <= k
    <3>1. CASE n = 0
      BY <1>1, <3>1
    <3>2. CASE n # 0
      BY <1>1, <2>1, <3>2
    <3> QED
      BY <3>1, <3>2
  <2>3. k <= n
    <3>1. CASE k = 0
      BY <1>1, <3>1
    <3>2. CASE k # 0
      BY <1>1, <2>1, <3>2
    <3> QED
      BY <3>1, <3>2
  <2> QED
    BY <1>1, <2>2, <2>3
<1> HIDE DEF P
<1>4. k = CHOOSE n \in 0 .. Len(ds) : P(n)
  BY <1>1, <1>2, <1>3
<1> QED
  BY <1>4 DEF P

(* What commands, undos and redos see of two deltas is the same. *)
SameCommand(d, e) ==
  /\ d.command = e.command /\ d.tab = e.tab /\ d.step = e.step
  /\ d.from = e.from /\ d.to = e.to /\ d.old_selected = e.old_selected

(* undo() and redo() write the time in one delta. *)
LEMMA TouchedFacts ==
  ASSUME NEW ds \in Seq(Delta), NEW id, now + 1 \in DeltaIds
  PROVE  /\ Touched(ds, id) \in Seq(Delta) /\ Len(Touched(ds, id)) = Len(ds)
         /\ \A i \in 1 .. Len(ds) : /\ SameCommand(Touched(ds, id)[i], ds[i])
                                    /\ Touched(ds, id)[i].id = ds[i].id
                                    /\ Touched(ds, id)[i].prev = ds[i].prev
<1> DEFINE new == Touched(ds, id)
<1>1. DOMAIN ds = 1 .. Len(ds) /\ Len(ds) \in Nat /\ \A i \in 1 .. Len(ds) : ds[i] \in Delta
  BY LenProperties, ElementOfSeq
<1>2. /\ DOMAIN new = 1 .. Len(ds) /\ new = [i \in 1 .. Len(ds) |-> new[i]]
      /\ \A i \in 1 .. Len(ds) : new[i] = IF ds[i].id = id
                                          THEN [ds[i] EXCEPT !.last_applied_at = now + 1]
                                          ELSE ds[i]
  BY <1>1 DEF Touched
<1> HIDE DEF new
<1>3. ASSUME NEW i \in 1 .. Len(ds)
      PROVE  /\ new[i] \in Delta /\ SameCommand(new[i], ds[i])
             /\ new[i].id = ds[i].id /\ new[i].prev = ds[i].prev
  <2>1. ds[i] \in Delta
    BY <1>1
  <2>2. CASE ds[i].id = id
    <3>1. new[i] = [ds[i] EXCEPT !.last_applied_at = now + 1]
      BY <1>2, <2>2
    <3> QED
      BY <2>1, <3>1 DEF Delta, SameCommand
  <2>3. CASE ds[i].id # id
    BY <1>2, <2>1, <2>3 DEF SameCommand
  <2> QED
    BY <2>2, <2>3
<1>4. new \in [1 .. Len(ds) -> Delta]
  BY <1>2, <1>3
<1>5. new \in Seq(Delta) /\ Len(new) = Len(ds)
  <2>1. new \in Seq(Delta)
    BY <1>1, <1>4, SeqDef
  <2> QED
    BY <1>1, <1>2, <2>1, LenProperties
<1> QED
  BY <1>3, <1>5 DEF new

(* Deltas m .. n of ds. *)
IsCut(new, ds, m, n) ==
  /\ new \in Seq(Delta) /\ Len(new) = n - m + 1
  /\ \A i \in 1 .. n - m + 1 :
       /\ SameCommand(new[i], ds[m + i - 1]) /\ new[i].id = ds[m + i - 1].id
       /\ new[i].prev = IF i = 1 THEN None ELSE ds[m + i - 1].prev

(* delete_workflow_stale_deltas() leaves that. *)
LEMMA RelinkedFacts ==
  ASSUME NEW ds \in Seq(Delta), NEW m \in 1 .. Len(ds) + 1, NEW n \in m - 1 .. Len(ds)
  PROVE  IsCut(Relinked(SubSeq(ds, m, n)), ds, m, n)
<1> DEFINE sub == SubSeq(ds, m, n)
           new == Relinked(sub)
           L   == n - m + 1
<1>1. /\ Len(ds) \in Nat /\ m \in Nat /\ n \in Int /\ L \in Nat
      /\ \A i \in m .. n : i \in 1 .. Len(ds) /\ ds[i] \in Delta
  <2>1. Len(ds) \in Nat
    BY LenProperties
  <2>2. m \in Nat /\ n \in Int /\ L \in Nat /\ \A i \in m .. n : i \in 1 .. Len(ds)
    BY <2>1
  <2> QED
    BY <2>1, <2>2, ElementOfSeq
<1>2. /\ sub \in Seq(Delta) /\ Len(sub) = L
      /\ \A i \in 1 .. L : sub[i] = ds[m + i - 1]
  BY <1>1, SubSeqProperties
<1>3. \A i \in 1 .. L : sub[i] \in Delta
  BY <1>2, ElementOfSeq
<1> HIDE DEF sub, L
<1>4. CASE sub = <<>>
  <2>1. L = 0
    BY <1>2, <1>4, EmptySeq
  <2>2. new = sub
    BY <1>4 DEF Relinked
  <2> QED
    BY <1>1, <1>2, <2>1, <2>2 DEF L, sub, IsCut
<1>5. CASE sub # <<>>
  <2>1. 1 \in 1 .. L /\ DOMAIN sub = 1 .. L
    BY <1>1, <1>2, <1>5, EmptySeq, LenProperties
  <2>2. new = [sub EXCEPT ![1].prev = None]
    BY <1>5 DEF Relinked
  <2> DEFINE first == [sub[1] EXCEPT !.prev = None]
  <2>3. first \in Delta
    <3>1. sub[1] \in Delta /\ None \in DeltaIds
      BY <1>3, <2>1, Bounds DEF DeltaIds, None
    <3> QED
      BY <3>1 DEF Delta
  <2>4. new = [sub EXCEPT ![1] = first]
    BY <2>2
  <2>5. first.prev = None /\ SameCommand(first, sub[1]) /\ first.id = sub[1].id
    BY <1>3, <2>1 DEF Delta, SameCommand
  <2> HIDE DEF first, new
  <2>6. /\ new \in Seq(Delta) /\ Len(new) = L
        /\ \A i \in 1 .. L : new[i] = IF i = 1 THEN first ELSE sub[i]
    BY <1>2, <2>1, <2>3, <2>4, ExceptSeq
  <2>7. ASSUME NEW i \in 1 .. L
        PROVE  /\ SameCommand(new[i], ds[m + i - 1]) /\ new[i].id = ds[m + i - 1].id
               /\ new[i].prev = IF i = 1 THEN None ELSE ds[m + i - 1].prev
    <3>1. CASE i = 1
      BY <1>2, <2>5, <2>6, <3>1 DEF SameCommand
    <3>2. CASE i # 1
      BY <1>2, <2>6, <3>2 DEF SameCommand
    <3> QED
      BY <3>1, <3>2
  <2> QED
    BY <2>6, <2>7 DEF new, sub, L, IsCut
<1> QED
  BY <1>4, <1>5

(* What a chain is made of. *)
LEMMA ChainFacts ==
  ASSUME NEW ds \in Seq(Delta), NEW l, NEW n \in Nat, Chain(ds, l, n), NEW k, SplitsAt(ds, l, k)
  PROVE  /\ Len(ds) \in Nat /\ DOMAIN ds = 1 .. Len(ds) /\ l \in Nat /\ l <= n
         /\ k \in Nat /\ k <= Len(ds)
         /\ \A i \in 1 .. Len(ds) : ds[i] \in Delta /\ ds[i].id \in Nat /\ ds[i].id # None
         /\ \A i, j \in 1 .. Len(ds) : i < j <=> ds[i].id < ds[j].id
         /\ \A i \in 1 .. Len(ds) : ds[i].id <= l <=> i <= k
         /\ \A i \in 1 .. Len(ds) : ds[i].id = l => i = k
         /\ k > 0 => ds[k].id = l
<1>1. /\ Len(ds) \in Nat /\ DOMAIN ds = 1 .. Len(ds) /\ l \in Nat /\ l <= n
      /\ k \in Nat /\ k <= Len(ds)
  BY LenProperties DEF Chain, SplitsAt
<1>2. \A i \in 1 .. Len(ds) : ds[i] \in Delta /\ ds[i].id \in Nat /\ ds[i].id # None
  BY ElementOfSeq DEF Chain, None
<1>3. \A i, j \in 1 .. Len(ds) : i < j => ds[i].id < ds[j].id
  BY DEF Chain
<1>4. \A i, j \in 1 .. Len(ds) : i < j <=> ds[i].id < ds[j].id
  BY <1>1, <1>2, <1>3
<1>5. \A i \in 1 .. Len(ds) : ds[i].id <= l <=> i <= k
  BY DEF SplitsAt
<1>6. ASSUME NEW i \in 1 .. Len(ds), ds[i].id = l PROVE i = k
  <2>1. i <= k /\ k \in 1 .. Len(ds)
    BY <1>1, <1>2, <1>5, <1>6
  <2>2. ds[k].id <= l
    BY <1>1, <1>5, <2>1
  <2> QED
    BY <1>1, <1>2, <1>4, <1>6, <2>1, <2>2
<1>7. ASSUME k > 0 PROVE ds[k].id = l
  <2>1. k \in 1 .. Len(ds) /\ ds[k].id <= l
    BY <1>1, <1>5, <1>7
  <2>2. CASE ds[k].id < l
    <3>1. PICK j \in 1 .. Len(ds) : ds[j].id = l
      BY <2>1, <2>2 DEF Chain
    <3> QED
      BY <1>6, <3>1
  <2> QED
    BY <1>1, <1>2, <2>1, <2>2
<1> QED
  BY <1>1, <1>2, <1>4, <1>5, <1>6, <1>7

(* Time passes. *)
LEMMA ChainLater ==
  ASSUME NEW ds, NEW l, NEW n \in Nat, Chain(ds, l, n), NEW m \in Nat, n <= m
  PROVE  Chain(ds, l, m)
  BY DEF Chain

(* The same deltas, at another one of them or before the first. *)
LEMMA ChainMoved ==
  ASSUME NEW ds \in Seq(Delta), NEW l, NEW n \in Nat, Chain(ds, l, n),
         NEW k \in 0 .. Len(ds),
         NEW new \in Seq(Delta), Len(new) = Len(ds),
         \A i \in 1 .. Len(ds) : new[i].id = ds[i].id /\ new[i].prev = ds[i].prev
  PROVE  LET at == IF k = 0 THEN None ELSE ds[k].id
         IN  Chain(new, at, n) /\ SplitsAt(new, at, k)
<1> DEFINE at == IF k = 0 THEN None ELSE ds[k].id
<1>1. Len(ds) \in Nat /\ k \in Nat /\ k <= Len(ds)
  BY LenProperties
<1>2. /\ \A i \in 1 .. Len(ds) : ds[i].id \in 1 .. n
      /\ \A i, j \in 1 .. Len(ds) : i < j => ds[i].id < ds[j].id
  BY DEF Chain
<1>3. at \in 0 .. n
  BY <1>1, <1>2 DEF None
<1>4. ASSUME NEW i \in 1 .. Len(ds) PROVE ds[i].id <= at <=> i <= k
  <2>1. CASE k = 0
    BY <1>2, <2>1 DEF None
  <2>2. CASE k # 0
    <3>1. k \in 1 .. Len(ds) /\ at = ds[k].id
      BY <1>1, <2>2
    <3>2. i < k => ds[i].id < ds[k].id
      BY <1>2, <3>1
    <3>3. k < i => ds[k].id < ds[i].id
      BY <1>2, <3>1
    <3>4. ds[i].id \in Nat /\ ds[k].id \in Nat
      BY <1>2, <3>1
    <3> QED
      BY <1>1, <3>1, <3>2, <3>3, <3>4
  <2> QED
    BY <2>1, <2>2
<1>5. ASSUME NEW i \in 1 .. Len(ds), ds[i].id < at PROVE \E j \in 1 .. Len(ds) : ds[j].id = at
  <2>1. k # 0
    BY <1>2, <1>5 DEF None
  <2> QED
    BY <1>1, <2>1
<1>6. \A i \in 1 .. Len(ds) : ds[i].prev = IF i = 1 THEN None ELSE ds[i - 1].id
  BY DEF Chain
<1> HIDE DEF at
<1>7. \A i \in 1 .. Len(new) : new[i].prev = IF i = 1 THEN None ELSE new[i - 1].id
  <2> SUFFICES ASSUME NEW i \in 1 .. Len(ds)
               PROVE  new[i].prev = IF i = 1 THEN None ELSE new[i - 1].id
    OBVIOUS
  <2>1. CASE i = 1
    BY <1>6, <2>1
  <2>2. CASE i # 1
    <3>1. i - 1 \in 1 .. Len(ds)
      BY <1>1, <2>2
    <3> QED
      BY <1>6, <2>2, <3>1
  <2> QED
    BY <2>1, <2>2
<1>8. Chain(new, at, n)
  BY <1>2, <1>3, <1>5, <1>7 DEF Chain
<1>9. SplitsAt(new, at, k)
  BY <1>4 DEF SplitsAt
<1> QED
  BY <1>8, <1>9 DEF at

(* do() puts a delta after the first k, and is at it. *)
LEMMA ChainGrown ==
  ASSUME NEW ds \in Seq(Delta), NEW l, NEW n \in Nat, Chain(ds, l, n), NEW k, SplitsAt(ds, l, k),
         NEW new \in Seq(Delta), Len(new) = k + 1,
         \A i \in 1 .. k : new[i] = ds[i],
         new[k + 1].id = n + 1, new[k + 1].prev = IF l \in IdsOf(ds) THEN l ELSE None
  PROVE  Chain(new, n + 1, n + 1) /\ SplitsAt(new, n + 1, k + 1)
<1>1. /\ Len(ds) \in Nat /\ k \in Nat /\ k <= Len(ds) /\ DOMAIN ds = 1 .. Len(ds)
      /\ \A i \in 1 .. Len(ds) : ds[i].id = l => i = k
      /\ k > 0 => ds[k].id = l
  BY ChainFacts
<1>2. /\ \A i \in 1 .. Len(ds) : ds[i].id \in 1 .. n
      /\ \A i, j \in 1 .. Len(ds) : i < j => ds[i].id < ds[j].id
      /\ \A i \in 1 .. Len(ds) : ds[i].prev = IF i = 1 THEN None ELSE ds[i - 1].id
  BY DEF Chain
<1>3. \A i \in 1 .. k : i \in 1 .. Len(ds) /\ new[i] = ds[i]
  BY <1>1
<1>4. \A i \in 1 .. k + 1 : i \in 1 .. k \/ i = k + 1
  BY <1>1
<1>5. \A i \in 1 .. k + 1 : new[i].id \in 1 .. n + 1
  BY <1>2, <1>3, <1>4
<1>6. \A i, j \in 1 .. k + 1 : i < j => new[i].id < new[j].id
  <2> SUFFICES ASSUME NEW i \in 1 .. k + 1, NEW j \in 1 .. k + 1, i < j
               PROVE  new[i].id < new[j].id
    OBVIOUS
  <2>1. i \in 1 .. k /\ new[i] = ds[i] /\ ds[i].id \in 1 .. n
    BY <1>1, <1>2, <1>3, <1>4
  <2>2. CASE j \in 1 .. k
    BY <1>2, <1>3, <2>1, <2>2
  <2>3. CASE j = k + 1
    BY <2>1, <2>3
  <2> QED
    BY <1>4, <2>2, <2>3
<1>7. \A i \in 1 .. k + 1 : new[i].prev = IF i = 1 THEN None ELSE new[i - 1].id
  <2> SUFFICES ASSUME NEW i \in 1 .. k + 1
               PROVE  new[i].prev = IF i = 1 THEN None ELSE new[i - 1].id
    OBVIOUS
  <2>1. CASE i \in 1 .. k
    <3>1. i # 1 => i - 1 \in 1 .. k
      BY <1>1, <2>1
    <3> QED
      BY <1>2, <1>3, <2>1, <3>1
  <2>2. CASE i = k + 1 /\ k = 0
    <3>1. l \notin IdsOf(ds)
      BY <1>1, <2>2 DEF IdsOf
    <3> QED
      BY <2>2, <3>1
  <2>3. CASE i = k + 1 /\ k # 0
    <3>1. k \in 1 .. k /\ k \in 1 .. Len(ds) /\ i - 1 = k /\ i # 1
      BY <1>1, <2>3
    <3>2. l \in IdsOf(ds)
      BY <1>1, <3>1 DEF IdsOf
    <3> QED
      BY <1>1, <1>3, <2>3, <3>1, <3>2
  <2> QED
    BY <1>4, <2>1, <2>2, <2>3
<1>8. k + 1 \in 1 .. k + 1 /\ new[k + 1].id = n + 1
  BY <1>1
<1>9. Chain(new, n + 1, n + 1)
  BY <1>5, <1>6, <1>7, <1>8 DEF Chain
<1>10. SplitsAt(new, n + 1, k + 1)
  <2>1. \A i \in 1 .. k + 1 : new[i].id <= n + 1 /\ i <= k + 1
    BY <1>1, <1>5
  <2> QED
    BY <1>1, <2>1 DEF SplitsAt
<1> QED
  BY <1>9, <1>10

(* delete_workflow_stale_deltas() cuts off both ends, and not what the     *)
(* workflow is at: some of the deltas next to it stay, or none.            *)
LEMMA ChainCut ==
  ASSUME NEW ds \in Seq(Delta), NEW l, NEW n \in Nat, Chain(ds, l, n), NEW k, SplitsAt(ds, l, k),
         NEW a \in 1 .. k + 1, NEW b \in k .. Len(ds),
         NEW new, IsCut(new, ds, a, b)
  PROVE  Chain(new, l, n) /\ SplitsAt(new, l, k - a + 1)
<1> DEFINE L == b - a + 1
<1>1. /\ Len(ds) \in Nat /\ k \in Nat /\ k <= Len(ds) /\ l \in Nat
      /\ \A i \in 1 .. Len(ds) : ds[i].id <= l <=> i <= k
      /\ \A i, j \in 1 .. Len(ds) : i < j <=> ds[i].id < ds[j].id
      /\ k > 0 => ds[k].id = l
  BY ChainFacts
<1>2. /\ \A i \in 1 .. Len(ds) : ds[i].id \in 1 .. n
      /\ \A i \in 1 .. Len(ds) : ds[i].prev = IF i = 1 THEN None ELSE ds[i - 1].id
      /\ l \in 0 .. n
  BY DEF Chain
<1>3. a \in Nat /\ b \in Nat /\ L \in Nat /\ k - a + 1 \in 0 .. L
  BY <1>1
<1>0. /\ Len(new) = L
      /\ \A i \in 1 .. L : /\ new[i].id = ds[a + i - 1].id
                           /\ new[i].prev = IF i = 1 THEN None ELSE ds[a + i - 1].prev
  BY DEF IsCut
<1>4. \A i \in 1 .. L : a + i - 1 \in 1 .. Len(ds) /\ new[i].id = ds[a + i - 1].id
  BY <1>0, <1>1, <1>3
<1>5. \A i \in 1 .. L : new[i].id \in 1 .. n
  BY <1>2, <1>4
<1>6. \A i, j \in 1 .. L : i < j => new[i].id < new[j].id
  <2> SUFFICES ASSUME NEW i \in 1 .. L, NEW j \in 1 .. L, i < j
               PROVE  new[i].id < new[j].id
    OBVIOUS
  <2>1. a + i - 1 < a + j - 1
    BY <1>3
  <2>2. ds[a + i - 1].id < ds[a + j - 1].id
    BY <1>1, <1>4, <2>1
  <2> QED
    BY <1>4, <2>2
<1>7. \A i \in 1 .. L : new[i].prev = IF i = 1 THEN None ELSE new[i - 1].id
  <2> SUFFICES ASSUME NEW i \in 1 .. L
               PROVE  new[i].prev = IF i = 1 THEN None ELSE new[i - 1].id
    OBVIOUS
  <2>1. CASE i = 1
    BY <1>0, <2>1
  <2>2. CASE i # 1
    <3>1. /\ i - 1 \in 1 .. L /\ a + i - 1 \in 1 .. Len(ds) /\ a + i - 1 # 1
          /\ a + (i - 1) - 1 = (a + i - 1) - 1
      <4>1. a + i - 1 \in 1 .. Len(ds)
        BY <1>4
      <4>2. i \in Nat /\ i > 1 /\ i <= L
        BY <1>3, <2>2
      <4> HIDE DEF L
      <4> QED
        BY <1>3, <4>1, <4>2
    <3>2. new[i].prev = ds[a + i - 1].prev
      BY <1>0, <2>2
    <3>3. ds[a + i - 1].prev = ds[(a + i - 1) - 1].id
      BY <1>2, <3>1
    <3>4. new[i - 1].id = ds[a + (i - 1) - 1].id
      BY <1>4, <3>1
    <3> QED
      BY <2>2, <3>1, <3>2, <3>3, <3>4
  <2> QED
    BY <2>1, <2>2
<1>8. ASSUME NEW i \in 1 .. L PROVE new[i].id <= l <=> i <= k - a + 1
  <2>1. a + i - 1 \in 1 .. Len(ds) /\ new[i].id = ds[a + i - 1].id
    BY <1>4
  <2>2. ds[a + i - 1].id <= l <=> a + i - 1 <= k
    BY <1>1, <2>1
  <2>3. a + i - 1 <= k <=> i <= k - a + 1
    BY <1>1, <1>3
  <2> QED
    BY <2>1, <2>2, <2>3
<1>9. ASSUME NEW i \in 1 .. L, new[i].id < l PROVE \E j \in 1 .. L : new[j].id = l
  <2>1. i <= k - a + 1
    BY <1>1, <1>2, <1>5, <1>8, <1>9
  <2>2. k - a + 1 \in 1 .. L /\ a + (k - a + 1) - 1 = k /\ k > 0
    BY <1>1, <1>3, <2>1, SMTT(60)
  <2>3. new[k - a + 1].id = ds[a + (k - a + 1) - 1].id
    BY <1>4, <2>2
  <2> QED
    BY <1>1, <2>2, <2>3
<1>10. Chain(new, l, n)
  BY <1>0, <1>2, <1>5, <1>6, <1>7, <1>9 DEF Chain
<1>11. SplitsAt(new, l, k - a + 1)
  BY <1>0, <1>3, <1>8 DEF SplitsAt
<1> QED
  BY <1>10, <1>11

(* A delta that is newer than the newest that goes with all before it, and *)
(* older than the oldest that goes with all after it.                      *)
Kept(d, l, stale) == \A id \in stale : IF id <= l THEN d.id > id ELSE d.id < id

(* What is not too old is that. *)
LEMMA KeptAround ==
  ASSUME NEW ds \in Seq(Delta), NEW l, NEW n \in Nat, Chain(ds, l, n), NEW k, SplitsAt(ds, l, k),
         NEW stale \in SUBSET Nat, NEW a \in 1 .. Len(ds) + 1, NEW b \in a - 1 .. Len(ds),
         \A i \in 1 .. Len(ds) : Kept(ds[i], l, stale) <=> i \in a .. b
  PROVE  (a <= k + 1 /\ k <= b) \/ b = a - 1
<1>1. /\ Len(ds) \in Nat /\ k \in Nat /\ k <= Len(ds) /\ l \in Nat /\ a \in Nat /\ b \in Int
      /\ \A i \in 1 .. Len(ds) : ds[i].id \in Nat
      /\ \A i \in 1 .. Len(ds) : ds[i].id <= l <=> i <= k
      /\ \A i, j \in 1 .. Len(ds) : i < j <=> ds[i].id < ds[j].id
  BY ChainFacts
<1>2. \A i \in 1 .. Len(ds) : Kept(ds[i], l, stale) <=> i \in a .. b
  OBVIOUS
<1>3. ASSUME b # a - 1 PROVE a <= k + 1
  <2>1. a \in 1 .. Len(ds) /\ Kept(ds[a], l, stale)
    BY <1>1, <1>2, <1>3
  <2>2. ASSUME a > k + 1 PROVE Kept(ds[k + 1], l, stale)
    <3>1. k + 1 \in 1 .. Len(ds) /\ ds[k + 1].id < ds[a].id /\ ds[k + 1].id > l
      BY <1>1, <2>1, <2>2
    <3> QED
      BY <1>1, <2>1, <3>1, SMTT(60) DEF Kept
  <2>3. ASSUME a > k + 1 PROVE FALSE
    BY <1>1, <1>2, <2>1, <2>2, <2>3
  <2> QED
    BY <1>1, <2>3
<1>4. ASSUME b # a - 1 PROVE k <= b
  <2>1. b \in 1 .. Len(ds) /\ Kept(ds[b], l, stale)
    BY <1>1, <1>2, <1>4
  <2>2. ASSUME k > b PROVE Kept(ds[k], l, stale)
    <3>1. k \in 1 .. Len(ds) /\ ds[b].id < ds[k].id /\ ds[k].id <= l
      BY <1>1, <2>1, <2>2
    <3> QED
      BY <1>1, <2>1, <3>1 DEF Kept
  <2>3. ASSUME k > b PROVE FALSE
    BY <1>1, <1>2, <2>1, <2>2, <2>3
  <2> QED
    BY <1>1, <2>3
<1> QED
  BY <1>3, <1>4

-----------------------------------------------------------------------------
(* What holds whoever races.                                               *)

(* A delta is about a tab that is there, if it is about one; and the tabs  *)
(* of a ReorderTabs stay the same.                                         *)
About(d, ts) ==
  /\ d.tab # None => d.tab \in DOMAIN ts
  /\ Adds(d) \/ d.command = "DeleteTab" => d.tab # None
  /\ d.command = "ReorderTabs" =>
       d.from \in Orders /\ d.to \in Orders /\ Range(d.from) = Range(d.to)

Sound(ts, c, sel, ds, l, n) ==
  /\ c \in TabIds /\ n \in DeltaIds /\ sel \in Nat
  /\ IsTable(ts) /\ DOMAIN ts \subseteq 1 .. c
  /\ ds \in Seq(Delta) /\ Chain(ds, l, n)
  /\ \A i \in 1 .. Len(ds) : About(ds[i], ts)

Request == [tab : TabIds, position : Nat]

Inv ==
  /\ Sound(tabs, created, selected, deltas, last, now)
  /\ request \in [Users -> Seq(Request)]
  /\ raced \in BOOLEAN /\ failed \in BOOLEAN

(* It is type correctness and more. *)
LEMMA InvImplies == Inv => TypeOK /\ ChainIsLinked
<1> SUFFICES ASSUME Inv PROVE TypeOK /\ ChainIsLinked
  OBVIOUS
<1>1. Sound(tabs, created, selected, deltas, last, now)
  BY DEF Inv
<1>2. last \in DeltaIds
  <2>1. now \in 0 .. MaxEdits /\ last \in 0 .. now
    BY <1>1 DEF Sound, Chain, DeltaIds
  <2> QED
    BY <2>1, Bounds DEF DeltaIds
<1>3. \A t \in DOMAIN tabs : tabs[t] \in TabRow
  BY <1>1 DEF Sound, IsTable
<1>4. TypeOK
  BY <1>1, <1>2, <1>3 DEF Inv, Sound, TypeOK, TabRow, Request
<1>5. deltas \in Seq(Delta) /\ Chain(deltas, last, now) /\ DOMAIN deltas = 1 .. Len(deltas)
  BY <1>1, LenProperties DEF Sound
<1>6. ChainIsLinked
  BY <1>5 DEF Chain, ChainIsLinked, IdsOf
<1> QED
  BY <1>4, <1>6

(* It holds at first. *)
LEMMA InvInit == Init => Inv
<1> SUFFICES ASSUME Init PROVE Inv
  OBVIOUS
<1>1. NFirstTabs \in Nat /\ NFirstTabs >= 1 /\ NFirstTabs <= MaxTabs /\ MaxTabs \in Nat /\ MaxEdits \in Nat
  BY Bounds
<1>2. IsTable(tabs) /\ DOMAIN tabs = 1 .. NFirstTabs
  <2>1. \A t \in 1 .. NFirstTabs :
          [position |-> t - 1, is_deleted |-> FALSE, step |-> TRUE] \in TabRow
    BY <1>1 DEF TabRow
  <2>2. tabs \in [1 .. NFirstTabs -> TabRow]
    BY <2>1 DEF Init
  <2>3. 1 .. NFirstTabs \subseteq TabIds
    BY <1>1 DEF TabIds
  <2> QED
    BY <2>2, <2>3 DEF IsTable
<1>3. deltas \in Seq(Delta) /\ Len(deltas) = 0
  BY EmptySeq DEF Init
<1>4. Chain(deltas, last, now)
  BY <1>3 DEF Init, Chain
<1>5. Sound(tabs, created, selected, deltas, last, now)
  BY <1>1, <1>2, <1>3, <1>4 DEF Init, Sound, TabIds, DeltaIds
<1>6. request \in [Users -> Seq(Request)]
  BY EmptySeq DEF Init
<1>7. raced = FALSE /\ failed = FALSE
  BY DEF Init
<1>8. raced \in BOOLEAN /\ failed \in BOOLEAN
  BY <1>7, Zenon
<1> QED
  BY <1>5, <1>6, <1>8 DEF Inv

(* A purge takes no row that a delta is about. *)
LEMMA PurgedRows ==
  ASSUME NEW ts, IsTable(ts), NEW ds
  PROVE  /\ IsTable(Purged(ts, ds)) /\ DOMAIN Purged(ts, ds) = DOMAIN ts \ Orphans(ts, ds)
         /\ \A t \in DOMAIN Purged(ts, ds) : Purged(ts, ds)[t] = ts[t]
         /\ Live(Purged(ts, ds)) = Live(ts)
<1> DEFINE new == Purged(ts, ds)
<1>1. /\ DOMAIN new = DOMAIN ts \ Orphans(ts, ds) /\ new = [t \in DOMAIN new |-> new[t]]
      /\ \A t \in DOMAIN new : new[t] = ts[t]
  BY DEF Purged, Restrict
<1> HIDE DEF new
<1>2. IsTable(new)
  <2>1. \A t \in DOMAIN new : new[t] \in TabRow
    BY <1>1 DEF IsTable
  <2>2. new \in [DOMAIN new -> TabRow]
    BY <1>1, <2>1
  <2> QED
    BY <1>1, <2>2 DEF IsTable
<1>3. Live(new) = Live(ts)
  BY <1>1 DEF Live, Orphans
<1> QED
  BY <1>1, <1>2, <1>3 DEF new

(* A transaction that would keep all that keeps it, purge or no purge.     *)
LEMMA CommitSound ==
  ASSUME Inv, NEW c, created <= c, NEW n, now <= n, NEW scr, NEW ds, NEW l,
         Sound(scr.tabs, c, scr.selected, ds, l, n),
         NEW purges, Commit(scr, ds, l, purges)
  PROVE  Sound(tabs', c, selected', deltas', last', n) /\ failed' \in BOOLEAN
<1>1. Sound(tabs, created, selected, deltas, last, now) /\ failed \in BOOLEAN
  BY DEF Inv
<1>2. CASE purges /\ IsProtected(scr.tabs, ds)
  <2>1. failed' = TRUE /\ UNCHANGED <<tabs, selected, deltas, last>>
    BY <1>2 DEF Commit
  <2>2. Chain(deltas, last, n)
    <3>1. now \in Nat /\ n \in Nat
      BY <1>1, Bounds DEF Sound, DeltaIds
    <3> QED
      BY <1>1, <3>1, ChainLater DEF Sound
  <2>3. c \in TabIds /\ n \in DeltaIds
    BY DEF Sound
  <2>4. DOMAIN tabs \subseteq 1 .. c
    <3>1. created \in Nat /\ c \in Nat
      BY <1>1, <2>3, Bounds DEF Sound, TabIds
    <3> QED
      BY <1>1, <3>1 DEF Sound
  <2>5. Sound(tabs, c, selected, deltas, last, n)
    BY <1>1, <2>2, <2>3, <2>4 DEF Sound
  <2>6. failed' \in BOOLEAN
    BY <2>1, Zenon
  <2> QED
    BY <2>1, <2>5, <2>6
<1>3. CASE ~(purges /\ IsProtected(scr.tabs, ds))
  <2>1. /\ tabs' = IF purges THEN Purged(scr.tabs, ds) ELSE scr.tabs
        /\ selected' = scr.selected /\ deltas' = ds /\ last' = l /\ failed' = failed
    BY <1>3 DEF Commit
  <2>2. Sound(Purged(scr.tabs, ds), c, scr.selected, ds, l, n)
    <3>1. IsTable(scr.tabs)
      BY DEF Sound
    <3>2. /\ IsTable(Purged(scr.tabs, ds))
          /\ DOMAIN Purged(scr.tabs, ds) = DOMAIN scr.tabs \ Orphans(scr.tabs, ds)
      BY <3>1, PurgedRows
    <3>3. ASSUME NEW i \in 1 .. Len(ds) PROVE About(ds[i], Purged(scr.tabs, ds))
      <4>1. About(ds[i], scr.tabs) /\ i \in DOMAIN ds
        BY LenProperties DEF Sound
      <4>2. ds[i].tab \notin Orphans(scr.tabs, ds)
        BY <4>1 DEF Orphans
      <4> QED
        BY <3>2, <4>1, <4>2 DEF About
    <3>4. DOMAIN Purged(scr.tabs, ds) \subseteq 1 .. c
      BY <3>2 DEF Sound
    <3> QED
      BY <3>2, <3>3, <3>4 DEF Sound
  <2> QED
    BY <1>1, <2>1, <2>2
<1> QED
  BY <1>2, <1>3

(* What is applied and what is undone. *)
LEMMA AppliedFacts ==
  ASSUME Inv
  PROVE  /\ SplitsAt(deltas, last, NApplied) /\ NApplied \in 0 .. Len(deltas) /\ Len(deltas) \in Nat
         /\ Applied \in Seq(Delta) /\ Len(Applied) = NApplied
         /\ \A i \in 1 .. NApplied : Applied[i] = deltas[i]
         /\ Undone \in Seq(Delta) /\ Len(Undone) = Len(deltas) - NApplied
         /\ \A i \in 1 .. Len(deltas) - NApplied : Undone[i] = deltas[NApplied + i]
<1>1. deltas \in Seq(Delta) /\ Chain(deltas, last, now) /\ now \in Nat
  BY Bounds DEF Inv, Sound, DeltaIds
<1>2. PICK k \in 0 .. Len(deltas) : SplitsAt(deltas, last, k)
  BY <1>1, SplitExists
<1>3. k = NApplied
  BY <1>1, <1>2, SplitOnce DEF NApplied
<1>4. Len(deltas) \in Nat /\ \A i \in 1 .. Len(deltas) : deltas[i] \in Delta
  BY <1>1, LenProperties, ElementOfSeq
<1>5. /\ Applied \in Seq(Delta) /\ Len(Applied) = k
      /\ \A i \in 1 .. k : Applied[i] = deltas[i]
  <2>1. 1 \in Int /\ k \in Int /\ \A i \in 1 .. k : deltas[i] \in Delta
    BY <1>4
  <2>2. /\ SubSeq(deltas, 1, k) \in Seq(Delta)
        /\ Len(SubSeq(deltas, 1, k)) = IF 1 <= k THEN k - 1 + 1 ELSE 0
        /\ \A i \in 1 .. k - 1 + 1 : SubSeq(deltas, 1, k)[i] = deltas[1 + i - 1]
    BY <2>1, SubSeqProperties
  <2>3. Applied = SubSeq(deltas, 1, k)
    BY <1>3 DEF Applied
  <2> QED
    BY <1>4, <2>2, <2>3
<1>6. /\ Undone \in Seq(Delta) /\ Len(Undone) = Len(deltas) - k
      /\ \A i \in 1 .. Len(deltas) - k : Undone[i] = deltas[k + i]
  <2>1. k + 1 \in Int /\ Len(deltas) \in Int /\ \A i \in k + 1 .. Len(deltas) : deltas[i] \in Delta
    BY <1>4
  <2>2. /\ SubSeq(deltas, k + 1, Len(deltas)) \in Seq(Delta)
        /\ Len(SubSeq(deltas, k + 1, Len(deltas))) =
             IF k + 1 <= Len(deltas) THEN Len(deltas) - (k + 1) + 1 ELSE 0
        /\ \A i \in 1 .. Len(deltas) - (k + 1) + 1 :
             SubSeq(deltas, k + 1, Len(deltas))[i] = deltas[(k + 1) + i - 1]
    BY <2>1, SubSeqProperties
  <2>3. Undone = SubSeq(deltas, k + 1, Len(deltas))
    BY <1>3 DEF Undone
  <2>4. ASSUME NEW i \in 1 .. Len(deltas) - k PROVE Undone[i] = deltas[k + i]
    <3>1. i \in 1 .. Len(deltas) - (k + 1) + 1 /\ (k + 1) + i - 1 = k + i
      BY <1>4
    <3> QED
      BY <2>2, <2>3, <3>1
  <2>5. Len(Undone) = Len(deltas) - k
    BY <1>4, <2>2, <2>3
  <2> QED
    BY <2>2, <2>3, <2>4, <2>5
<1> QED
  BY <1>2, <1>3, <1>4, <1>5, <1>6

(* The delta that do() appends. *)
NewDelta(command, tab, step, scr, from) ==
  [id |-> now + 1, command |-> command, tab |-> tab, step |-> step,
   prev |-> IF last \in IdsOf(deltas) THEN last ELSE None,
   from |-> from, to |-> Order(scr.tabs),
   old_selected |-> selected, last_applied_at |-> now + 1]

(* do() keeps the chain linked, if its command makes rows of its tabs. *)
LEMMA DoSound ==
  ASSUME Inv, CanEdit, NEW command \in Commands, NEW tab \in {None} \cup TabIds,
         NEW step \in {None} \cup TabIds, NEW from \in Seq(TabIds),
         NEW scr, IsTable(scr.tabs), scr.selected \in Nat,
         NEW c \in TabIds, created <= c, DOMAIN tabs \subseteq DOMAIN scr.tabs,
         DOMAIN scr.tabs \subseteq 1 .. c,
         About(NewDelta(command, tab, step, scr, from), scr.tabs),
         Do(command, tab, step, scr, from)
  PROVE  Sound(tabs', c, selected', deltas', last', now') /\ failed' \in BOOLEAN
<1> DEFINE delta == NewDelta(command, tab, step, scr, from)
           new   == Append(Applied, delta)
           k     == NApplied
<1>1. /\ Sound(tabs, created, selected, deltas, last, now)
      /\ now \in Nat /\ now' = now + 1 /\ now + 1 \in DeltaIds
  BY Bounds DEF Inv, Sound, CanEdit, DeltaIds
<1>2. /\ SplitsAt(deltas, last, k) /\ k \in 0 .. Len(deltas) /\ Len(deltas) \in Nat
      /\ Applied \in Seq(Delta) /\ Len(Applied) = k
      /\ \A i \in 1 .. k : Applied[i] = deltas[i]
  BY AppliedFacts
<1>3. deltas \in Seq(Delta) /\ Chain(deltas, last, now) /\ selected \in Nat
  BY <1>1 DEF Sound
<1>4. delta \in Delta
  <2>1. Order(scr.tabs) \in Seq(TabIds)
    BY OrderOfAny
  <2>2. (IF last \in IdsOf(deltas) THEN last ELSE None) \in DeltaIds
    <3>1. last \in 0 .. now /\ now \in 0 .. MaxEdits /\ MaxEdits \in Nat
      BY <1>1, <1>3, Bounds DEF Chain, Sound, DeltaIds
    <3> QED
      BY <3>1 DEF DeltaIds, None
  <2> QED
    BY <1>1, <1>3, <2>1, <2>2 DEF NewDelta, Delta
<1>5. delta.id = now + 1 /\ delta.prev = IF last \in IdsOf(deltas) THEN last ELSE None
  BY DEF NewDelta
<1>6. Commit(scr, new, now + 1, Undone # <<>>)
  BY DEF Do, NewDelta
<1> HIDE DEF delta, k
<1>7. /\ new \in Seq(Delta) /\ Len(new) = k + 1 /\ new[k + 1] = delta
      /\ \A i \in 1 .. k : new[i] = deltas[i]
  BY <1>2, <1>4, AppendProperties
<1> HIDE DEF new
<1>8. Chain(new, now + 1, now + 1)
  BY <1>1, <1>2, <1>3, <1>5, <1>7, ChainGrown
<1>9. ASSUME NEW i \in 1 .. Len(new) PROVE About(new[i], scr.tabs)
  <2>1. CASE i \in 1 .. k
    <3>1. i \in 1 .. Len(deltas) /\ new[i] = deltas[i]
      BY <1>2, <1>7, <2>1
    <3> QED
      BY <1>1, <3>1 DEF Sound, About
  <2>2. CASE i = k + 1
    BY <1>7, <2>2 DEF delta
  <2> QED
    BY <1>2, <1>7, <2>1, <2>2
<1>10. Sound(scr.tabs, c, scr.selected, new, now + 1, now + 1)
  BY <1>1, <1>7, <1>8, <1>9 DEF Sound
<1>11. now <= now + 1
  BY <1>1
<1> QED
  BY <1>1, <1>6, <1>10, <1>11, CommitSound

(* The rows that Backward makes are rows, and none is lost.                *)
LEMMA BackwardRows ==
  ASSUME IsTable(tabs), selected \in Nat, NEW d \in Delta, About(d, tabs), Possible(d, d.to)
  PROVE  /\ IsTable(Backward(d).tabs) /\ DOMAIN Backward(d).tabs = DOMAIN tabs
         /\ Backward(d).selected \in Nat
<1>1. d.old_selected \in Nat /\ d.command \in Commands
  BY DEF Delta
<1>2. Screen.tabs = tabs /\ Screen.selected = selected
  BY DEF Screen
<1>3. \A t \in DOMAIN tabs : tabs[t].position \in Nat
  BY DEF IsTable, TabRow
<1>4. CASE Adds(d)
  <2>1. d.tab \in DOMAIN tabs
    BY <1>4 DEF About
  <2>2. /\ Backward(d).tabs = TakenOut(tabs, d.tab, tabs[d.tab].position)
        /\ Backward(d).selected = d.old_selected
    <3>1. Backward(d) = AddTabBackward(Screen, d.tab, d.old_selected)
      BY <1>4 DEF Backward, Adds
    <3> QED
      BY <1>2, <3>1 DEF AddTabBackward, TakenOut
  <2> QED
    BY <1>1, <1>3, <2>1, <2>2, TakenOutRows
<1>5. CASE d.command = "DeleteTab"
  <2>1. d.tab \in DOMAIN tabs
    BY <1>5 DEF About
  <2>2. /\ Backward(d).tabs = PutBack(tabs, d.tab, tabs[d.tab].position)
        /\ Backward(d).selected = tabs[d.tab].position
    BY <1>2, <1>5 DEF Backward, Adds, DeleteTabBackward, PutBack
  <2> QED
    BY <1>3, <2>1, <2>2, PutBackRows
<1>6. CASE d.command = "ReorderTabs"
  <2>1. d.from \in Orders /\ d.to \in Orders /\ Range(d.from) = Range(d.to)
    BY <1>6 DEF About
  <2>2. Backward(d) = Reordered(Screen, d.to, d.from)
    BY <1>6 DEF Backward, Adds
  <2>3. selected + 1 \in 1 .. Len(d.to)
    BY <1>2, <1>6, <2>1, OrderFacts DEF Possible, CanReorder
  <2>4. d.to[selected + 1] \in Range(d.from)
    BY <2>1, <2>3, OrderFacts
  <2>5. IndexOf(d.from, d.to[selected + 1]) - 1 \in Nat
    BY <2>1, <2>4, OrderFacts, IndexFacts
  <2> QED
    BY <1>2, <2>1, <2>2, <2>5, ReorderedRows DEF Reordered
<1>7. CASE d.command = "SetStepNote"
  <2>1. Backward(d) = Screen
    BY <1>7 DEF Backward, Adds
  <2> QED
    BY <1>2, <2>1
<1> QED
  BY <1>1, <1>4, <1>5, <1>6, <1>7 DEF Commands, Adds

(* So are the rows that Forward makes. *)
LEMMA ForwardRows ==
  ASSUME IsTable(tabs), selected \in Nat, NEW d \in Delta, About(d, tabs), Possible(d, d.from)
  PROVE  /\ IsTable(Forward(d).tabs) /\ DOMAIN Forward(d).tabs = DOMAIN tabs
         /\ Forward(d).selected \in Nat
<1>1. d.command \in Commands
  BY DEF Delta
<1>2. Screen.tabs = tabs /\ Screen.selected = selected
  BY DEF Screen
<1>3. \A t \in DOMAIN tabs : tabs[t].position \in Nat
  BY DEF IsTable, TabRow
<1>4. CASE Adds(d)
  <2>1. d.tab \in DOMAIN tabs
    BY <1>4 DEF About
  <2>2. /\ Forward(d).tabs = PutBack(tabs, d.tab, tabs[d.tab].position)
        /\ Forward(d).selected = tabs[d.tab].position
    <3>1. Forward(d) = AddTabForward(Screen, d.tab, tabs[d.tab].position)
      BY <1>4 DEF Forward, Adds
    <3> QED
      BY <1>2, <3>1 DEF AddTabForward, PutBack
  <2> QED
    BY <1>3, <2>1, <2>2, PutBackRows
<1>5. CASE d.command = "DeleteTab"
  <2>1. d.tab \in DOMAIN tabs
    BY <1>5 DEF About
  <2>2. /\ Forward(d).tabs = TakenOut(tabs, d.tab, tabs[d.tab].position)
        /\ Forward(d).selected = IF selected >= tabs[d.tab].position /\ selected > 0
                                 THEN selected - 1 ELSE selected
    BY <1>2, <1>5 DEF Forward, Adds, DeleteTabForward, TakenOut
  <2> QED
    BY <1>3, <2>1, <2>2, TakenOutRows
<1>6. CASE d.command = "ReorderTabs"
  <2>1. d.from \in Orders /\ d.to \in Orders /\ Range(d.from) = Range(d.to)
    BY <1>6 DEF About
  <2>2. Forward(d) = Reordered(Screen, d.from, d.to)
    BY <1>6 DEF Forward, Adds
  <2>3. selected + 1 \in 1 .. Len(d.from)
    BY <1>2, <1>6, <2>1, OrderFacts DEF Possible, CanReorder
  <2>4. d.from[selected + 1] \in Range(d.to)
    BY <2>1, <2>3, OrderFacts
  <2>5. IndexOf(d.to, d.from[selected + 1]) - 1 \in Nat
    BY <2>1, <2>4, OrderFacts, IndexFacts
  <2> QED
    BY <1>2, <2>1, <2>2, <2>5, ReorderedRows DEF Reordered
<1>7. CASE d.command = "SetStepNote"
  <2>1. Forward(d) = Screen
    BY <1>7 DEF Forward, Adds
  <2> QED
    BY <1>2, <2>1
<1> QED
  BY <1>1, <1>4, <1>5, <1>6, <1>7 DEF Commands, Adds

(* What ReorderTabs may be asked for: an order of the live tabs. *)
LEMMA AskedOrders ==
  ASSUME NEW ts, IsTable(ts), Live(ts) # {}, NEW to \in SetToSeqs(Live(ts))
  PROVE  to \in Orders /\ Range(to) = Live(ts)
<1> DEFINE n == Cardinality(Live(ts))
<1>1. IsFiniteSet(Live(ts)) /\ n \in Nat /\ n # 0 /\ Live(ts) \subseteq TabIds
  <2>1. IsFiniteSet(Live(ts)) /\ n \in Nat
    BY OrderOfAny
  <2>2. n # 0
    BY <2>1, FS_EmptySet
  <2> QED
    BY <2>1, <2>2 DEF IsTable, Live
<1>2. to \in [1 .. n -> Live(ts)] /\ \A i, j \in 1 .. n : i # j => to[i] # to[j]
  BY DEF SetToSeqs
<1> HIDE DEF n
<1>3. to \in Seq(TabIds) /\ Len(to) = n
  <2>1. to \in Seq(TabIds)
    BY <1>1, <1>2, SeqDef
  <2> QED
    BY <1>1, <1>2, <2>1, LenProperties
<1>4. to \in Orders
  BY <1>1, <1>2, <1>3, OrderIntro
<1>5. Range(to) = Live(ts)
  <2>1. to \in Injection(1 .. n, Live(ts))
    BY <1>2 DEF Injection, IsInjective
  <2>2. IsFiniteSet(1 .. n) /\ Cardinality(1 .. n) = n
    <3>1. IsFiniteSet(1 .. n) /\ Cardinality(1 .. n) = IF 1 > n THEN 0 ELSE n - 1 + 1
      BY <1>1, FS_Interval
    <3> QED
      BY <1>1, <3>1
  <2>3. to \in Surjection(1 .. n, Live(ts))
    <3>1. Cardinality(1 .. n) = Cardinality(Live(ts))
      BY <2>2 DEF n
    <3> QED
      BY <1>1, <2>1, <2>2, <3>1, FS_Injection
  <2>4. \A t \in Live(ts) : \E i \in 1 .. n : to[i] = t
    BY <2>3 DEF Surjection
  <2>5. Range(to) \subseteq Live(ts)
    BY <1>2 DEF Range
  <2>6. Live(ts) \subseteq Range(to)
    BY <1>2, <2>4 DEF Range
  <2> QED
    BY <2>5, <2>6
<1> QED
  BY <1>4, <1>5

(* The rows with a new one, deleted as yet. *)
LEMMA NewTabRows ==
  ASSUME IsTable(tabs), NewTab \in TabIds, NEW p \in Nat, NEW step \in BOOLEAN
  PROVE  /\ IsTable(WithNewTab(p, step).tabs) /\ WithNewTab(p, step).selected = selected
         /\ DOMAIN WithNewTab(p, step).tabs = DOMAIN tabs \cup {NewTab}
         /\ \A t \in DOMAIN tabs : t # NewTab => WithNewTab(p, step).tabs[t] = tabs[t]
         /\ WithNewTab(p, step).tabs[NewTab] =
              [position |-> p, is_deleted |-> TRUE, step |-> step]
<1> DEFINE new == WithNewTab(p, step).tabs
<1>1. /\ DOMAIN new = DOMAIN tabs \cup {NewTab} /\ new = [t \in DOMAIN new |-> new[t]]
      /\ \A t \in DOMAIN new :
           new[t] = IF t = NewTab THEN [position |-> p, is_deleted |-> TRUE, step |-> step]
                                  ELSE tabs[t]
      /\ WithNewTab(p, step).selected = selected
  BY DEF WithNewTab
<1> HIDE DEF new
<1>2. \A t \in DOMAIN new : new[t] \in TabRow
  <2>1. [position |-> p, is_deleted |-> TRUE, step |-> step] \in TabRow
    BY DEF TabRow
  <2>2. \A t \in DOMAIN tabs : tabs[t] \in TabRow
    BY DEF IsTable
  <2> QED
    BY <1>1, <2>1, <2>2
<1>3. new \in [DOMAIN new -> TabRow]
  BY <1>1, <1>2
<1>4. IsTable(new)
  BY <1>1, <1>3 DEF IsTable
<1> QED
  BY <1>1, <1>4 DEF new

(* Undoing keeps it. *)
LEMMA InvUndo == Inv /\ Undo => Inv'
<1> SUFFICES ASSUME Inv, Undo PROVE Inv'
  OBVIOUS
<1>1. /\ Sound(tabs, created, selected, deltas, last, now) /\ deltas \in Seq(Delta)
      /\ Chain(deltas, last, now) /\ IsTable(tabs) /\ selected \in Nat /\ created \in TabIds
  BY DEF Inv, Sound
<1>2. /\ now \in Nat /\ now' = now + 1 /\ now + 1 \in DeltaIds /\ now <= now + 1
      /\ created' = created /\ request' = request /\ raced' = raced
  BY <1>1, Bounds DEF Undo, CanEdit, DeltaIds, Sound
<1>3. DOMAIN deltas = 1 .. Len(deltas) /\ Len(deltas) \in Nat
  BY <1>1, LenProperties
<1>4. PICK i \in 1 .. Len(deltas) :
        /\ deltas[i].id = last /\ Possible(deltas[i], deltas[i].to)
        /\ Commit(Backward(deltas[i]), Touched(deltas, deltas[i].id), deltas[i].prev, FALSE)
  BY <1>3 DEF Undo
<1> DEFINE d   == deltas[i]
           new == Touched(deltas, d.id)
<1>5. d \in Delta /\ About(d, tabs)
  BY <1>1, <1>4, ElementOfSeq DEF Sound
<1>6. /\ IsTable(Backward(d).tabs) /\ DOMAIN Backward(d).tabs = DOMAIN tabs
      /\ Backward(d).selected \in Nat
  BY <1>1, <1>4, <1>5, BackwardRows
<1>7. /\ new \in Seq(Delta) /\ Len(new) = Len(deltas)
      /\ \A j \in 1 .. Len(deltas) : /\ SameCommand(new[j], deltas[j])
                                     /\ new[j].id = deltas[j].id /\ new[j].prev = deltas[j].prev
  BY <1>1, <1>2, TouchedFacts
<1> HIDE DEF new, d
<1>8. d.prev = IF i - 1 = 0 THEN None ELSE deltas[i - 1].id
  BY <1>1, <1>3 DEF Chain, d
<1>9. Chain(new, d.prev, now + 1)
  <2>1. i - 1 \in 0 .. Len(deltas)
    BY <1>3
  <2>2. Chain(new, d.prev, now)
    BY <1>1, <1>2, <1>7, <1>8, <2>1, ChainMoved
  <2> QED
    BY <1>2, <2>2, ChainLater
<1>10. \A j \in 1 .. Len(new) : About(new[j], Backward(d).tabs)
  BY <1>1, <1>6, <1>7 DEF Sound, About, SameCommand, Adds
<1>11. Sound(Backward(d).tabs, created, Backward(d).selected, new, d.prev, now + 1)
  BY <1>1, <1>2, <1>6, <1>7, <1>9, <1>10 DEF Sound
<1>12. created <= created
  BY <1>1, Bounds DEF TabIds
<1>13. Commit(Backward(d), new, d.prev, FALSE)
  BY <1>4, Zenon DEF new, d
<1>14. Sound(tabs', created, selected', deltas', last', now + 1) /\ failed' \in BOOLEAN
  BY <1>2, <1>11, <1>12, <1>13, CommitSound
<1> QED
  BY <1>2, <1>14 DEF Inv

(* Redoing keeps it. *)
LEMMA InvRedo == Inv /\ Redo => Inv'
<1> SUFFICES ASSUME Inv, Redo PROVE Inv'
  OBVIOUS
<1>1. /\ Sound(tabs, created, selected, deltas, last, now) /\ deltas \in Seq(Delta)
      /\ Chain(deltas, last, now) /\ IsTable(tabs) /\ selected \in Nat /\ created \in TabIds
  BY DEF Inv, Sound
<1>2. /\ now \in Nat /\ now' = now + 1 /\ now + 1 \in DeltaIds /\ now <= now + 1
      /\ created' = created /\ request' = request /\ raced' = raced
  BY <1>1, Bounds DEF Redo, CanEdit, DeltaIds, Sound
<1> DEFINE k   == NApplied
           d   == Head(Undone)
           new == Touched(deltas, d.id)
<1>3. k \in 0 .. Len(deltas) /\ Len(deltas) \in Nat /\ k + 1 \in 1 .. Len(deltas)
      /\ d = deltas[k + 1]
  <2>1. /\ k \in 0 .. Len(deltas) /\ Len(deltas) \in Nat
        /\ Undone \in Seq(Delta) /\ Len(Undone) = Len(deltas) - k
        /\ \A i \in 1 .. Len(deltas) - k : Undone[i] = deltas[k + i]
    BY AppliedFacts
  <2>2. Undone # <<>>
    BY DEF Redo
  <2> HIDE DEF k
  <2>3. Len(Undone) # 0 /\ 1 \in 1 .. Len(deltas) - k
    BY <2>1, <2>2, EmptySeq
  <2> QED
    BY <2>1, <2>2, <2>3
<1>4. /\ Possible(d, d.from)
      /\ Commit(Forward(d), Touched(deltas, d.id), d.id, FALSE)
  BY DEF Redo
<1>5. d \in Delta /\ About(d, tabs)
  BY <1>1, <1>3, ElementOfSeq DEF Sound
<1>6. /\ IsTable(Forward(d).tabs) /\ DOMAIN Forward(d).tabs = DOMAIN tabs
      /\ Forward(d).selected \in Nat
  BY <1>1, <1>4, <1>5, ForwardRows
<1>7. /\ new \in Seq(Delta) /\ Len(new) = Len(deltas)
      /\ \A j \in 1 .. Len(deltas) : /\ SameCommand(new[j], deltas[j])
                                     /\ new[j].id = deltas[j].id /\ new[j].prev = deltas[j].prev
  BY <1>1, <1>2, TouchedFacts
<1>0. created <= created
  BY <1>1, Bounds DEF TabIds
<1>8. Commit(Forward(d), new, d.id, FALSE)
  BY <1>4, Zenon
<1> HIDE DEF new, d, k
<1>9. Chain(new, d.id, now + 1)
  <2>1. k + 1 \in 0 .. Len(deltas) /\ k + 1 # 0
    BY <1>3
  <2>2. Chain(new, d.id, now)
    BY <1>1, <1>2, <1>3, <1>7, <2>1, ChainMoved
  <2> QED
    BY <1>2, <2>2, ChainLater
<1>10. \A j \in 1 .. Len(new) : About(new[j], Forward(d).tabs)
  BY <1>1, <1>6, <1>7 DEF Sound, About, SameCommand, Adds
<1>11. Sound(Forward(d).tabs, created, Forward(d).selected, new, d.id, now + 1)
  BY <1>1, <1>2, <1>6, <1>7, <1>9, <1>10 DEF Sound
<1>12. Sound(tabs', created, selected', deltas', last', now + 1) /\ failed' \in BOOLEAN
  BY <1>0, <1>2, <1>8, <1>11, CommitSound
<1> QED
  BY <1>2, <1>12 DEF Inv

(* What DeleteStaleDeltas leaves: the deltas from a to b, around the place *)
(* where the workflow is (or none, which is between them too).             *)
LEMMA StaleCut ==
  ASSUME Inv, DeleteStaleDeltas
  PROVE  \E a \in 1 .. NApplied + 1, b \in NApplied .. Len(deltas) :
           Commit(Screen, Relinked(SubSeq(deltas, a, b)), last, TRUE)
<1> DEFINE Old(cutoff) == {d.id : d \in {e \in Range(deltas) : e.last_applied_at < cutoff}}
<1>1. deltas \in Seq(Delta) /\ Chain(deltas, last, now) /\ now \in Nat
  BY Bounds DEF Inv, Sound, DeltaIds
<1>2. SplitsAt(deltas, last, NApplied) /\ NApplied \in 0 .. Len(deltas) /\ Len(deltas) \in Nat
  BY AppliedFacts
<1>3. DOMAIN deltas = 1 .. Len(deltas) /\ \A i \in 1 .. Len(deltas) : deltas[i] \in Delta
  BY <1>1, LenProperties, ElementOfSeq
<1>4. PICK cutoff \in 2 .. now + 1 :
        \E m \in 1 .. Len(deltas) + 1 : \E n \in m - 1 .. Len(deltas) :
          /\ \A i \in 1 .. Len(deltas) : Kept(deltas[i], last, Old(cutoff)) <=> i \in m .. n
          /\ Commit(Screen, Relinked(SubSeq(deltas, m, n)), last, TRUE)
  BY <1>3, Zenon DEF DeleteStaleDeltas, Kept
<1> DEFINE stale == Old(cutoff)
<1>5. stale \in SUBSET Nat
  BY <1>3 DEF Range, Delta, DeltaIds
<1> HIDE DEF Old
<1>6. PICK m \in 1 .. Len(deltas) + 1 : \E n \in m - 1 .. Len(deltas) :
          /\ \A i \in 1 .. Len(deltas) : Kept(deltas[i], last, stale) <=> i \in m .. n
          /\ Commit(Screen, Relinked(SubSeq(deltas, m, n)), last, TRUE)
  BY <1>4, Zenon
<1>7. PICK n \in m - 1 .. Len(deltas) :
          /\ \A i \in 1 .. Len(deltas) : Kept(deltas[i], last, stale) <=> i \in m .. n
          /\ Commit(Screen, Relinked(SubSeq(deltas, m, n)), last, TRUE)
  BY <1>6, Zenon
<1> HIDE DEF stale
<1>8. (m <= NApplied + 1 /\ NApplied <= n) \/ n = m - 1
  <2>1. \A i \in 1 .. Len(deltas) : Kept(deltas[i], last, stale) <=> i \in m .. n
    BY <1>7, Zenon
  <2> QED
    BY <1>1, <1>2, <1>5, <2>1, KeptAround
<1>9. CASE m <= NApplied + 1 /\ NApplied <= n
  <2>1. m \in 1 .. NApplied + 1 /\ n \in NApplied .. Len(deltas)
    BY <1>2, <1>9
  <2>2. Commit(Screen, Relinked(SubSeq(deltas, m, n)), last, TRUE)
    BY <1>7, Zenon
  <2> QED
    BY <2>1, <2>2, Zenon
<1>10. CASE n = m - 1
  <2>1. NApplied + 1 \in 1 .. NApplied + 1 /\ NApplied \in NApplied .. Len(deltas)
    BY <1>2
  <2>2. \A i : i \notin m .. n /\ i \notin NApplied + 1 .. NApplied
    BY <1>2, <1>10
  <2>3. SubSeq(deltas, m, n) = <<>> /\ SubSeq(deltas, NApplied + 1, NApplied) = <<>>
    <3>1. Len(SubSeq(deltas, m, n)) = 0 /\ SubSeq(deltas, m, n) \in Seq(Delta)
      BY <1>2, <1>10, <2>2, SubSeqProperties
    <3>2. /\ Len(SubSeq(deltas, NApplied + 1, NApplied)) = 0
          /\ SubSeq(deltas, NApplied + 1, NApplied) \in Seq(Delta)
      BY <1>2, <2>2, SubSeqProperties
    <3> QED
      BY <3>1, <3>2, EmptySeq
  <2>4. Commit(Screen, Relinked(SubSeq(deltas, m, n)), last, TRUE)
    BY <1>7, Zenon
  <2>5. Commit(Screen, Relinked(SubSeq(deltas, NApplied + 1, NApplied)), last, TRUE)
    BY <2>3, <2>4, Zenon
  <2> QED
    BY <2>1, <2>5, Zenon
<1> QED
  BY <1>8, <1>9, <1>10, Zenon

(* Cron's clean-up keeps it. *)
LEMMA InvDeleteStaleDeltas == Inv /\ DeleteStaleDeltas => Inv'
<1> SUFFICES ASSUME Inv, DeleteStaleDeltas PROVE Inv'
  OBVIOUS
<1>1. /\ Sound(tabs, created, selected, deltas, last, now) /\ deltas \in Seq(Delta)
      /\ Chain(deltas, last, now) /\ IsTable(tabs) /\ selected \in Nat /\ created \in TabIds
  BY DEF Inv, Sound
<1>2. now \in Nat /\ now <= now /\ created <= created
  BY <1>1, Bounds DEF DeltaIds, TabIds, Sound
<1>3. UNCHANGED <<created, now, request, raced>>
  BY DEF DeleteStaleDeltas
<1>4. PICK a \in 1 .. NApplied + 1 : \E b \in NApplied .. Len(deltas) :
        Commit(Screen, Relinked(SubSeq(deltas, a, b)), last, TRUE)
  BY StaleCut, Zenon
<1>5. PICK b \in NApplied .. Len(deltas) :
        Commit(Screen, Relinked(SubSeq(deltas, a, b)), last, TRUE)
  BY <1>4, Zenon
<1> DEFINE new == Relinked(SubSeq(deltas, a, b))
<1>6. SplitsAt(deltas, last, NApplied) /\ NApplied \in 0 .. Len(deltas) /\ Len(deltas) \in Nat
  BY AppliedFacts
<1>7. a \in 1 .. Len(deltas) + 1 /\ b \in a - 1 .. Len(deltas)
  BY <1>6
<1>8. IsCut(new, deltas, a, b)
  BY <1>1, <1>7, RelinkedFacts
<1> HIDE DEF new
<1>9. Chain(new, last, now)
  BY <1>1, <1>2, <1>6, <1>8, ChainCut
<1>10. ASSUME NEW i \in 1 .. Len(new) PROVE About(new[i], tabs)
  <2>1. a + i - 1 \in 1 .. Len(deltas) /\ SameCommand(new[i], deltas[a + i - 1])
    BY <1>7, <1>8 DEF IsCut
  <2>2. About(deltas[a + i - 1], tabs)
    BY <1>1, <2>1 DEF Sound
  <2> QED
    BY <2>1, <2>2 DEF About, SameCommand, Adds
<1>11. Sound(Screen.tabs, created, Screen.selected, new, last, now)
  BY <1>1, <1>8, <1>9, <1>10 DEF Sound, Screen, IsCut
<1>12. Commit(Screen, new, last, TRUE)
  BY <1>5, Zenon DEF new
<1>13. Sound(tabs', created, selected', deltas', last', now) /\ failed' \in BOOLEAN
  BY <1>2, <1>11, <1>12, CommitSound
<1> QED
  BY <1>3, <1>13 DEF Inv

(* A new tab, at position p: what AddTab and DuplicateTab do.              *)
LEMMA NewTabSound ==
  ASSUME Inv, CanEdit, created < MaxTabs, created' = NewTab,
         NEW command \in {"AddTab", "DuplicateTab"}, NEW p \in Nat, NEW step \in BOOLEAN,
         Do(command, NewTab, None, AddTabForward(WithNewTab(p, step), NewTab, p), Order(tabs))
  PROVE  Sound(tabs', created', selected', deltas', last', now') /\ failed' \in BOOLEAN
<1> DEFINE scr == AddTabForward(WithNewTab(p, step), NewTab, p)
<1>1. IsTable(tabs) /\ DOMAIN tabs \subseteq 1 .. created /\ created \in TabIds /\ created \in Nat
  BY Bounds DEF Inv, Sound, TabIds
<1>2. NewTab \in TabIds /\ created <= NewTab /\ NewTab # None /\ None = 0
  BY <1>1, Bounds DEF NewTab, TabIds, None
<1>3. /\ IsTable(WithNewTab(p, step).tabs)
      /\ DOMAIN WithNewTab(p, step).tabs = DOMAIN tabs \cup {NewTab}
  BY <1>1, <1>2, NewTabRows
<1>4. scr.tabs = PutBack(WithNewTab(p, step).tabs, NewTab, p) /\ scr.selected = p
  BY DEF AddTabForward, PutBack
<1>5. IsTable(scr.tabs) /\ DOMAIN scr.tabs = DOMAIN tabs \cup {NewTab}
  <2> DEFINE ts == WithNewTab(p, step).tabs
  <2>1. IsTable(ts) /\ NewTab \in DOMAIN ts /\ DOMAIN ts = DOMAIN tabs \cup {NewTab}
    BY <1>3
  <2>2. scr.tabs = PutBack(ts, NewTab, p)
    BY <1>4
  <2> HIDE DEF ts, scr
  <2>3. p \in Nat
    OBVIOUS
  <2>4. IsTable(PutBack(ts, NewTab, p)) /\ DOMAIN PutBack(ts, NewTab, p) = DOMAIN ts
    BY ONLY <2>1, <2>3, PutBackRows
  <2> QED
    BY <2>1, <2>2, <2>4
<1>6. DOMAIN scr.tabs \subseteq 1 .. NewTab
  BY <1>1, <1>2, <1>5 DEF NewTab
<1>7. Order(tabs) \in Seq(TabIds)
  BY <1>1, OrderOfAny
<1> HIDE DEF scr
<1>8. About(NewDelta(command, NewTab, None, scr, Order(tabs)), scr.tabs)
  BY <1>2, <1>5 DEF About, NewDelta, Adds
<1>9. command \in Commands /\ NewTab \in {None} \cup TabIds /\ None \in {None} \cup TabIds
  BY <1>2 DEF Commands
<1>10. Do(command, NewTab, None, scr, Order(tabs))
  BY DEF scr
<1>11. DOMAIN tabs \subseteq DOMAIN scr.tabs /\ scr.selected \in Nat
  BY <1>4, <1>5
<1> QED
  BY <1>2, <1>5, <1>6, <1>7, <1>8, <1>9, <1>10, <1>11, DoSound

(* AddTab keeps it. *)
LEMMA InvAddTab == Inv /\ AddTab => Inv'
<1> SUFFICES ASSUME Inv, AddTab PROVE Inv'
  OBVIOUS
<1> DEFINE p == Cardinality(Live(tabs))
<1>1. p \in Nat
  BY OrderOfAny DEF Inv, Sound
<1>2. /\ CanEdit /\ created < MaxTabs /\ created' = NewTab
      /\ Do("AddTab", NewTab, None, AddTabForward(WithNewTab(p, FALSE), NewTab, p), Order(tabs))
      /\ UNCHANGED <<request, raced>>
  BY DEF AddTab
<1> HIDE DEF p
<1>3. "AddTab" \in {"AddTab", "DuplicateTab"} /\ FALSE \in BOOLEAN
  OBVIOUS
<1>4. Sound(tabs', created', selected', deltas', last', now') /\ failed' \in BOOLEAN
  BY <1>1, <1>2, <1>3, NewTabSound
<1> QED
  BY <1>2, <1>4 DEF Inv

(* What a handler has loaded is a tab there has been; it forgets it when   *)
(* it has answered.                                                        *)
LEMMA AnswerFacts ==
  ASSUME Inv, NEW u \in Users, Answer(u)
  PROVE  Loaded(u) \in Request /\ request' \in [Users -> Seq(Request)]
<1>1. request[u] \in Seq(Request) /\ request[u] # <<>>
  BY DEF Inv, Answer
<1>2. Loaded(u) \in Request
  BY <1>1, HeadTailProperties DEF Loaded
<1>3. request' \in [Users -> Seq(Request)]
  <2>1. <<>> \in Seq(Request)
    BY EmptySeq
  <2> QED
    BY <2>1 DEF Inv, Answer
<1> QED
  BY <1>2, <1>3

(* DuplicateTab keeps it, out of date or not. *)
LEMMA InvDuplicateTab == \A u \in Users : Inv /\ DuplicateTab(u) => Inv'
<1> SUFFICES ASSUME NEW u \in Users, Inv, DuplicateTab(u) PROVE Inv'
  OBVIOUS
<1> DEFINE r    == Loaded(u)
           p    == r.position + 1
           step == Exists(r.tab) /\ tabs[r.tab].step
<1>1. Answer(u)
  BY DEF DuplicateTab
<1>2. r \in Request /\ request' \in [Users -> Seq(Request)]
  BY <1>1, AnswerFacts
<1>3. p \in Nat
  BY <1>2 DEF Request
<1>4. step \in BOOLEAN
  BY Zenon
<1>5. /\ CanEdit /\ created < MaxTabs /\ created' = NewTab
      /\ Do("DuplicateTab", NewTab, None, AddTabForward(WithNewTab(p, step), NewTab, p),
            Order(tabs))
      /\ raced' = (raced \/ ~IsCurrent(r))
  BY Zenon DEF DuplicateTab
<1>6. raced' \in BOOLEAN
  BY <1>5, Zenon
<1> HIDE DEF p, step
<1>7. "DuplicateTab" \in {"AddTab", "DuplicateTab"}
  OBVIOUS
<1>8. Sound(tabs', created', selected', deltas', last', now') /\ failed' \in BOOLEAN
  BY <1>3, <1>4, <1>5, <1>7, NewTabSound
<1> QED
  BY <1>2, <1>6, <1>8 DEF Inv

(* DeleteTab keeps it, out of date or not. *)
LEMMA InvDeleteTab == \A u \in Users : Inv /\ DeleteTab(u) => Inv'
<1> SUFFICES ASSUME NEW u \in Users, Inv, DeleteTab(u) PROVE Inv'
  OBVIOUS
<1> DEFINE r   == Loaded(u)
           scr == DeleteTabForward(Screen, r.tab, r.position)
<1>1. Answer(u)
  BY DEF DeleteTab
<1>2. r \in Request /\ request' \in [Users -> Seq(Request)]
  BY <1>1, AnswerFacts
<1>3. CASE Cardinality(Live(tabs)) = 1 \/ ~Exists(r.tab)
  <2>1. UNCHANGED <<tabRows, history, raced, failed>>
    BY <1>3 DEF DeleteTab
  <2> QED
    BY <1>2, <2>1 DEF Inv, tabRows, history
<1>4. CASE ~(Cardinality(Live(tabs)) = 1 \/ ~Exists(r.tab))
  <2>1. /\ CanEdit /\ raced' = (raced \/ ~IsCurrent(r)) /\ created' = created
        /\ Do("DeleteTab", r.tab, None, scr, Order(tabs))
    BY <1>4 DEF DeleteTab
  <2>2. raced' \in BOOLEAN
    BY <2>1, Zenon
  <2>3. /\ IsTable(tabs) /\ DOMAIN tabs \subseteq 1 .. created /\ created \in TabIds
        /\ selected \in Nat
    BY DEF Inv, Sound
  <2>4. r.tab \in DOMAIN tabs /\ r.position \in Nat
    BY <1>2, <1>4 DEF Exists, Request
  <2>5. /\ scr.tabs = TakenOut(tabs, r.tab, r.position)
        /\ scr.selected = IF selected >= r.position /\ selected > 0
                          THEN selected - 1 ELSE selected
    BY DEF DeleteTabForward, TakenOut, Screen
  <2> HIDE DEF scr, r
  <2>6. IsTable(scr.tabs) /\ DOMAIN scr.tabs = DOMAIN tabs /\ scr.selected \in Nat
    BY <2>3, <2>4, <2>5, TakenOutRows
  <2>7. Order(tabs) \in Seq(TabIds)
    BY <2>3, OrderOfAny
  <2>8. /\ r.tab \in {None} \cup TabIds /\ r.tab # None /\ None \in {None} \cup TabIds
        /\ "DeleteTab" \in Commands
    BY <2>3, <2>4 DEF Commands, IsTable, TabIds, None
  <2>9. About(NewDelta("DeleteTab", r.tab, None, scr, Order(tabs)), scr.tabs)
    BY <2>4, <2>6, <2>8 DEF About, NewDelta, Adds
  <2>10. created <= created
    BY <2>3, Bounds DEF TabIds
  <2>11. Sound(tabs', created, selected', deltas', last', now') /\ failed' \in BOOLEAN
    BY <2>1, <2>3, <2>6, <2>7, <2>8, <2>9, <2>10, DoSound
  <2> QED
    BY <1>2, <2>1, <2>2, <2>11 DEF Inv
<1> QED
  BY <1>3, <1>4

(* SetStepNote keeps it, whatever tab its step is in. *)
LEMMA InvSetStepNote == \A u \in Users : Inv /\ SetStepNote(u) => Inv'
<1> SUFFICES ASSUME NEW u \in Users, Inv, SetStepNote(u) PROVE Inv'
  OBVIOUS
<1> DEFINE t == Loaded(u).tab
<1>1. Answer(u)
  BY DEF SetStepNote
<1>2. Loaded(u) \in Request /\ request' \in [Users -> Seq(Request)]
  BY <1>1, AnswerFacts
<1>3. CASE ~Exists(t)
  <2>1. UNCHANGED <<tabRows, history, raced, failed>>
    BY <1>3 DEF SetStepNote
  <2> QED
    BY <1>2, <2>1 DEF Inv, tabRows, history
<1>4. CASE Exists(t)
  <2>1. /\ CanEdit /\ raced' = (raced \/ tabs[t].is_deleted) /\ created' = created
        /\ Do("SetStepNote", None, t, Screen, Order(tabs))
    BY <1>4 DEF SetStepNote
  <2>2. raced' \in BOOLEAN
    BY <2>1, Zenon
  <2>3. /\ IsTable(tabs) /\ DOMAIN tabs \subseteq 1 .. created /\ created \in TabIds
        /\ selected \in Nat
    BY DEF Inv, Sound
  <2>4. Screen.tabs = tabs /\ Screen.selected = selected
    BY DEF Screen
  <2>5. Order(tabs) \in Seq(TabIds)
    BY <2>3, OrderOfAny
  <2>6. t \in {None} \cup TabIds /\ None \in {None} \cup TabIds /\ "SetStepNote" \in Commands
    BY <1>2 DEF Commands, Request
  <2>7. About(NewDelta("SetStepNote", None, t, Screen, Order(tabs)), tabs)
    BY DEF About, NewDelta, Adds
  <2>8. created <= created
    BY <2>3, Bounds DEF TabIds
  <2> HIDE DEF t
  <2>9. Sound(tabs', created, selected', deltas', last', now') /\ failed' \in BOOLEAN
    BY <2>1, <2>3, <2>4, <2>5, <2>6, <2>7, <2>8, DoSound
  <2> QED
    BY <1>2, <2>1, <2>2, <2>9 DEF Inv
<1> QED
  BY <1>3, <1>4

(* ReorderTabs keeps it. *)
LEMMA InvReorderTabs == Inv /\ ReorderTabs => Inv'
<1> SUFFICES ASSUME Inv, ReorderTabs PROVE Inv'
  OBVIOUS
<1> DEFINE from == Order(tabs)
<1>1. /\ IsTable(tabs) /\ DOMAIN tabs \subseteq 1 .. created /\ created \in TabIds
      /\ selected \in Nat /\ Screen.tabs = tabs /\ Screen.selected = selected
  BY DEF Inv, Sound, Screen
<1>2. /\ from \in Seq(TabIds) /\ IsInjective(from) /\ Range(from) = Live(tabs)
      /\ Len(from) \in Nat
  BY <1>1, OrderOfAny
<1>3. /\ CanEdit /\ selected < Len(from)
      /\ UNCHANGED <<created, request, raced>>
  BY <1>1 DEF ReorderTabs, CanReorder
<1>4. PICK to \in SetToSeqs(Live(tabs)) :
        Do("ReorderTabs", None, None, Reordered(Screen, from, to), from)
  BY DEF ReorderTabs
<1> DEFINE scr == Reordered(Screen, from, to)
<1>5. from \in Orders /\ Live(tabs) # {}
  <2>1. from # <<>> /\ 1 \in DOMAIN from
    BY <1>1, <1>2, <1>3, EmptySeq, LenProperties
  <2> HIDE DEF from
  <2>2. from[1] \in Range(from)
    BY <2>1 DEF Range
  <2> QED
    BY <1>2, <2>1, <2>2 DEF Orders
<1> HIDE DEF from
<1>6. to \in Orders /\ Range(to) = Live(tabs)
  BY <1>1, <1>4, <1>5, AskedOrders
<1>7. IsTable(scr.tabs) /\ DOMAIN scr.tabs = DOMAIN tabs
  BY <1>1, <1>6, ReorderedRows
<1>8. scr.selected \in Nat
  <2>1. from[selected + 1] \in Range(to)
    <3>1. selected + 1 \in 1 .. Len(from)
      BY <1>1, <1>2, <1>3
    <3> QED
      BY <1>2, <1>5, <1>6, <3>1, OrderFacts
  <2>2. IndexOf(to, from[selected + 1]) - 1 \in Nat
    BY <1>6, <2>1, OrderFacts, IndexFacts
  <2> QED
    BY <1>1, <2>2 DEF Reordered
<1>9. Shows(scr.tabs, to)
  BY <1>1, <1>6, ReorderedShows
<1> HIDE DEF scr
<1>10. Order(scr.tabs) = to
  BY <1>9, OrderShown
<1>11. About(NewDelta("ReorderTabs", None, None, scr, from), scr.tabs)
  BY <1>2, <1>5, <1>6, <1>10 DEF About, NewDelta, Adds
<1>12. None \in {None} \cup TabIds /\ "ReorderTabs" \in Commands /\ created <= created
  BY <1>1, Bounds DEF Commands, TabIds
<1>13. Do("ReorderTabs", None, None, scr, from)
  BY <1>4 DEF scr
<1>14. Sound(tabs', created, selected', deltas', last', now') /\ failed' \in BOOLEAN
  BY <1>1, <1>2, <1>3, <1>7, <1>8, <1>11, <1>12, <1>13, DoSound
<1> QED
  BY <1>3, <1>14 DEF Inv

(* Loading a Tab keeps it. *)
LEMMA InvLoad == \A u \in Users : Inv /\ Load(u) => Inv'
<1> SUFFICES ASSUME NEW u \in Users, Inv, Load(u) PROVE Inv'
  OBVIOUS
<1>1. IsTable(tabs)
  BY DEF Inv, Sound
<1>2. PICK t \in Live(tabs) :
        request' = [request EXCEPT ![u] = <<[tab |-> t, position |-> tabs[t].position]>>]
  BY DEF Load
<1>3. [tab |-> t, position |-> tabs[t].position] \in Request
  BY <1>1 DEF IsTable, Live, TabRow, Request
<1>4. <<[tab |-> t, position |-> tabs[t].position]>> \in Seq(Request)
  BY <1>3
<1>5. request' \in [Users -> Seq(Request)]
  BY <1>2, <1>4 DEF Inv
<1>6. UNCHANGED <<tabRows, history, raced, failed>>
  BY DEF Load
<1> QED
  BY <1>5, <1>6 DEF Inv, tabRows, history

(* So does a click on a tab. *)
LEMMA InvSetSelectedTab == Inv /\ SetSelectedTab => Inv'
<1> SUFFICES ASSUME Inv, SetSelectedTab PROVE Inv'
  OBVIOUS
<1>1. Sound(tabs, created, selected, deltas, last, now)
  BY DEF Inv
<1>2. selected' \in Nat /\ UNCHANGED <<tabs, created, deltas, last, request, raced, failed>>
  BY <1>1 DEF SetSelectedTab, Sound, IsTable, Live, TabRow
<1>3. now \in Nat /\ now' = now + 1 /\ now + 1 \in DeltaIds /\ now <= now + 1
  BY <1>1, Bounds DEF SetSelectedTab, CanEdit, DeltaIds, Sound
<1>4. Chain(deltas, last, now + 1)
  BY <1>1, <1>3, ChainLater DEF Sound
<1>5. Sound(tabs', created', selected', deltas', last', now')
  BY <1>1, <1>2, <1>3, <1>4 DEF Sound
<1> QED
  BY <1>2, <1>5 DEF Inv

-----------------------------------------------------------------------------
(* The first theorems. *)

(* Every step keeps the invariant. *)
THEOREM Invariance == Spec => []Inv
<1>1. Inv /\ UNCHANGED vars => Inv'
  BY DEF vars, tabRows, history, Inv
<1>2. Inv /\ Next => Inv'
  BY InvUndo, InvRedo, InvDeleteStaleDeltas, InvAddTab, InvReorderTabs, InvSetSelectedTab,
     InvLoad, InvDuplicateTab, InvDeleteTab, InvSetStepNote
  DEF Next
<1> QED
  BY <1>1, <1>2, InvInit, PTL DEF Spec

(* Types are kept. *)
THEOREM Typing == Spec => []TypeOK
  BY Invariance, InvImplies, PTL

(* The deltas are one linked list, and undo can go back to the first of    *)
(* them, whatever cron cuts off and whoever races.                         *)
THEOREM ChainStaysLinked == Spec => []ChainIsLinked
  BY Invariance, InvImplies, PTL

-----------------------------------------------------------------------------
(* What holds as long as nobody races: the story that the deltas tell.     *)

Deletes(d) == d.command = "DeleteTab"
Seen(d)    == Range(d.from) \cup Range(d.to)

(* A delta takes one order to another. *)
Kind(d) ==
  /\ d.from \in Orders /\ d.to \in Orders
  /\ Adds(d) => /\ d.old_selected \in Nat /\ d.old_selected < Len(d.from)
                /\ \E p \in Nat : Inserted(d.from, d.tab, p, d.to)
  /\ Deletes(d) => \E p \in Nat : Inserted(d.to, d.tab, p, d.from)
  /\ d.command = "ReorderTabs" => Range(d.from) = Range(d.to)
  /\ d.command = "SetStepNote" => d.from = d.to /\ d.step \in Range(d.from)
  /\ d.command # "SetStepNote" => d.step = None
  /\ d.command \in Commands

(* Each delta takes up where the one before ended; no tab is added that    *)
(* there has been, nor seen again once it is deleted; the first k lead to  *)
(* order s, which has every tab there is in the story but for those that   *)
(* were deleted on the way or have yet to be added again.                  *)
Story(ds, k, s, c) ==
  /\ \A i \in 1 .. Len(ds) : Kind(ds[i]) /\ Seen(ds[i]) \subseteq 1 .. c
  /\ \A i, j \in 1 .. Len(ds) : j = i + 1 => ds[i].to = ds[j].from
  /\ \A i, j \in 1 .. Len(ds) : i < j => /\ Adds(ds[j]) => ds[j].tab \notin Seen(ds[i])
                                         /\ Deletes(ds[i]) => ds[i].tab \notin Seen(ds[j])
  /\ s \in Orders /\ Range(s) \subseteq 1 .. c
  /\ \A i \in 1 .. Len(ds) : (i = k => ds[i].to = s) /\ (i = k + 1 => ds[i].from = s)
  /\ \A i \in 1 .. Len(ds) : \A t \in Seen(ds[i]) :
       \/ t \in Range(s)
       \/ \E j \in 1 .. Len(ds) : i <= j /\ j <= k /\ Deletes(ds[j]) /\ ds[j].tab = t
       \/ \E j \in 1 .. Len(ds) : k < j /\ j <= i /\ Adds(ds[j]) /\ ds[j].tab = t

(* What a delta does to the set of tabs. *)
LEMMA KindFacts ==
  ASSUME NEW d, Kind(d)
  PROVE  /\ Adds(d) => /\ d.tab \notin Range(d.from) /\ Range(d.to) = Range(d.from) \cup {d.tab}
                       /\ d.tab \in Seen(d)
         /\ Deletes(d) => /\ d.tab \notin Range(d.to) /\ Range(d.from) = Range(d.to) \cup {d.tab}
                          /\ d.tab \in Seen(d)
         /\ ~Adds(d) /\ ~Deletes(d) => Range(d.from) = Range(d.to)
<1>1. d.from \in Orders /\ d.to \in Orders
  BY DEF Kind
<1>2. ASSUME Adds(d)
      PROVE  d.tab \notin Range(d.from) /\ Range(d.to) = Range(d.from) \cup {d.tab}
  <2>1. PICK p \in Nat : Inserted(d.from, d.tab, p, d.to)
    BY <1>2 DEF Kind
  <2> QED
    BY <1>1, <2>1, InsertedFacts
<1>3. ASSUME Deletes(d)
      PROVE  d.tab \notin Range(d.to) /\ Range(d.from) = Range(d.to) \cup {d.tab}
  <2>1. PICK p \in Nat : Inserted(d.to, d.tab, p, d.from)
    BY <1>3 DEF Kind
  <2> QED
    BY <1>1, <2>1, InsertedFacts
<1>4. ~Adds(d) /\ ~Deletes(d) => Range(d.from) = Range(d.to)
  BY DEF Kind, Deletes, Adds, Commands
<1> QED
  BY <1>2, <1>3, <1>4 DEF Seen

(* Undoing the k-th. *)
LEMMA StoryUndone ==
  ASSUME NEW ds, Len(ds) \in Nat, NEW s, NEW c, NEW k \in 1 .. Len(ds), Story(ds, k, s, c)
  PROVE  Story(ds, k - 1, ds[k].from, c) /\ ds[k].to = s
<1> DEFINE r == ds[k].from
<1>1. /\ \A i \in 1 .. Len(ds) : Kind(ds[i]) /\ Seen(ds[i]) \subseteq 1 .. c
      /\ \A i, j \in 1 .. Len(ds) : j = i + 1 => ds[i].to = ds[j].from
      /\ \A i, j \in 1 .. Len(ds) : i < j => /\ Adds(ds[j]) => ds[j].tab \notin Seen(ds[i])
                                             /\ Deletes(ds[i]) => ds[i].tab \notin Seen(ds[j])
      /\ ds[k].to = s
  BY DEF Story
<1>2. \A i \in 1 .. Len(ds) : \A t \in Seen(ds[i]) :
        \/ t \in Range(s)
        \/ \E j \in 1 .. Len(ds) : i <= j /\ j <= k /\ Deletes(ds[j]) /\ ds[j].tab = t
        \/ \E j \in 1 .. Len(ds) : k < j /\ j <= i /\ Adds(ds[j]) /\ ds[j].tab = t
  BY DEF Story
<1>3. r \in Orders /\ Range(r) \subseteq 1 .. c
  BY <1>1 DEF Kind, Seen
<1>4. \A i \in 1 .. Len(ds) : (i = k - 1 => ds[i].to = r) /\ (i = (k - 1) + 1 => ds[i].from = r)
  <2> SUFFICES ASSUME NEW i \in 1 .. Len(ds)
               PROVE  (i = k - 1 => ds[i].to = r) /\ (i = (k - 1) + 1 => ds[i].from = r)
    OBVIOUS
  <2>1. (i = k - 1 => k = i + 1) /\ (i = (k - 1) + 1 => i = k)
    OBVIOUS
  <2> QED
    BY <1>1, <2>1
<1> HIDE DEF r
<1>5. /\ \A t \in Range(s) : t \in Range(r) \/ (Adds(ds[k]) /\ ds[k].tab = t)
      /\ Deletes(ds[k]) => ds[k].tab \in Range(r)
  <2> DEFINE d == ds[k]
  <2>1. Kind(d)
    BY <1>1
  <2>2. d.from = r /\ d.to = s
    BY <1>1 DEF r
  <2> HIDE DEF d
  <2>3. /\ \A t \in Range(s) : t \in Range(r) \/ (Adds(d) /\ d.tab = t)
        /\ Deletes(d) => d.tab \in Range(r)
    BY <2>1, <2>2, KindFacts
  <2> QED
    BY <2>3 DEF d
<1>6. ASSUME NEW i \in 1 .. Len(ds), NEW t \in Seen(ds[i])
      PROVE  \/ t \in Range(r)
             \/ \E j \in 1 .. Len(ds) : i <= j /\ j <= k - 1 /\ Deletes(ds[j]) /\ ds[j].tab = t
             \/ \E j \in 1 .. Len(ds) : k - 1 < j /\ j <= i /\ Adds(ds[j]) /\ ds[j].tab = t
  <2>1. CASE t \in Range(s)
    <3>1. CASE t \in Range(r)
      BY <3>1
    <3>2. CASE Adds(ds[k]) /\ ds[k].tab = t
      <4>1. ~(i < k)
        BY <1>1, <3>2
      <4>2. k - 1 < k /\ k <= i
        BY <4>1
      <4> QED
        BY <3>2, <4>2
    <3> QED
      BY <1>5, <2>1, <3>1, <3>2
  <2>2. CASE \E j \in 1 .. Len(ds) : i <= j /\ j <= k /\ Deletes(ds[j]) /\ ds[j].tab = t
    <3>1. PICK j \in 1 .. Len(ds) : i <= j /\ j <= k /\ Deletes(ds[j]) /\ ds[j].tab = t
      BY <2>2
    <3>2. CASE j = k
      <4>1. t \in Range(r)
        BY <1>5, <3>1, <3>2
      <4> QED
        BY <4>1
    <3>3. CASE j # k
      <4>1. j <= k - 1
        BY <3>1, <3>3
      <4> QED
        BY <3>1, <4>1
    <3> QED
      BY <3>2, <3>3
  <2>3. CASE \E j \in 1 .. Len(ds) : k < j /\ j <= i /\ Adds(ds[j]) /\ ds[j].tab = t
    <3>1. PICK j \in 1 .. Len(ds) : k < j /\ j <= i /\ Adds(ds[j]) /\ ds[j].tab = t
      BY <2>3
    <3>2. k - 1 < j
      BY <3>1
    <3> QED
      BY <3>1, <3>2
  <2> QED
    BY <1>2, <2>1, <2>2, <2>3
<1>7. Story(ds, k - 1, r, c)
  BY <1>1, <1>3, <1>4, <1>6 DEF Story
<1> QED
  BY <1>1, <1>7 DEF r

(* Redoing the one after. *)
LEMMA StoryRedone ==
  ASSUME NEW ds, Len(ds) \in Nat, NEW s, NEW c, NEW k \in Nat, k + 1 \in 1 .. Len(ds),
         Story(ds, k, s, c)
  PROVE  Story(ds, k + 1, ds[k + 1].to, c) /\ ds[k + 1].from = s
<1> DEFINE n == k + 1
           r == ds[n].to
<1>0. n \in 1 .. Len(ds) /\ k = n - 1
  OBVIOUS
<1>1. /\ \A i \in 1 .. Len(ds) : Kind(ds[i]) /\ Seen(ds[i]) \subseteq 1 .. c
      /\ \A i, j \in 1 .. Len(ds) : j = i + 1 => ds[i].to = ds[j].from
      /\ \A i, j \in 1 .. Len(ds) : i < j => /\ Adds(ds[j]) => ds[j].tab \notin Seen(ds[i])
                                             /\ Deletes(ds[i]) => ds[i].tab \notin Seen(ds[j])
      /\ ds[n].from = s
  BY <1>0 DEF Story
<1> HIDE DEF n
<1>2. \A i \in 1 .. Len(ds) : \A t \in Seen(ds[i]) :
        \/ t \in Range(s)
        \/ \E j \in 1 .. Len(ds) : i <= j /\ j <= k /\ Deletes(ds[j]) /\ ds[j].tab = t
        \/ \E j \in 1 .. Len(ds) : k < j /\ j <= i /\ Adds(ds[j]) /\ ds[j].tab = t
  BY DEF Story
<1>3. r \in Orders /\ Range(r) \subseteq 1 .. c
  BY <1>0, <1>1 DEF Kind, Seen
<1>4. \A i \in 1 .. Len(ds) : (i = n => ds[i].to = r) /\ (i = n + 1 => ds[i].from = r)
  BY <1>0, <1>1
<1> HIDE DEF r
<1>5. /\ \A t \in Range(s) : t \in Range(r) \/ (Deletes(ds[n]) /\ ds[n].tab = t)
      /\ Adds(ds[n]) => ds[n].tab \in Range(r)
  <2> DEFINE d == ds[n]
  <2>1. Kind(d)
    BY <1>0, <1>1
  <2>2. d.from = s /\ d.to = r
    BY <1>1 DEF r
  <2> HIDE DEF d
  <2>3. /\ \A t \in Range(s) : t \in Range(r) \/ (Deletes(d) /\ d.tab = t)
        /\ Adds(d) => d.tab \in Range(r)
    BY <2>1, <2>2, KindFacts
  <2> QED
    BY <2>3 DEF d
<1>6. ASSUME NEW i \in 1 .. Len(ds), NEW t \in Seen(ds[i])
      PROVE  \/ t \in Range(r)
             \/ \E j \in 1 .. Len(ds) : i <= j /\ j <= n /\ Deletes(ds[j]) /\ ds[j].tab = t
             \/ \E j \in 1 .. Len(ds) : n < j /\ j <= i /\ Adds(ds[j]) /\ ds[j].tab = t
  <2>1. CASE t \in Range(s)
    <3>1. CASE t \in Range(r)
      BY <3>1
    <3>2. CASE Deletes(ds[n]) /\ ds[n].tab = t
      <4>1. ~(n < i)
        BY <1>0, <1>1, <3>2
      <4>2. i <= n /\ n <= n
        BY <1>0, <4>1
      <4> QED
        BY <1>0, <3>2, <4>2
    <3> QED
      BY <1>5, <2>1, <3>1, <3>2
  <2>2. CASE \E j \in 1 .. Len(ds) : i <= j /\ j <= k /\ Deletes(ds[j]) /\ ds[j].tab = t
    <3>1. PICK j \in 1 .. Len(ds) : i <= j /\ j <= k /\ Deletes(ds[j]) /\ ds[j].tab = t
      BY <2>2
    <3>2. j <= n
      BY <1>0, <3>1
    <3> QED
      BY <3>1, <3>2
  <2>3. CASE \E j \in 1 .. Len(ds) : k < j /\ j <= i /\ Adds(ds[j]) /\ ds[j].tab = t
    <3>1. PICK j \in 1 .. Len(ds) : k < j /\ j <= i /\ Adds(ds[j]) /\ ds[j].tab = t
      BY <2>3
    <3>2. CASE j = n
      <4>1. t \in Range(r)
        BY <1>5, <3>1, <3>2
      <4> QED
        BY <4>1
    <3>3. CASE j # n
      <4>1. n < j
        BY <1>0, <3>1, <3>3
      <4> QED
        BY <3>1, <4>1
    <3> QED
      BY <3>2, <3>3
  <2> QED
    BY <1>2, <2>1, <2>2, <2>3
<1>7. Story(ds, n, r, c)
  BY <1>1, <1>3, <1>4, <1>6 DEF Story
<1> QED
  BY <1>1, <1>7 DEF r, n

(* The commands of deltas m .. n of ds, whatever their bookkeeping. *)
IsPart(new, ds, m, n) ==
  /\ Len(new) = n - m + 1
  /\ \A i \in 1 .. n - m + 1 : SameCommand(new[i], ds[m + i - 1])

(* The rows of the tabs that the deltas may bring back are there, and have *)
(* the positions they should have.                                         *)
Fits(ds, k, ts) ==
  \A i \in 1 .. Len(ds) :
    LET t == ds[i].tab IN
    /\ Deletes(ds[i]) /\ i <= k =>
         /\ t \in DOMAIN ts /\ ts[t].is_deleted
         /\ Inserted(ds[i].to, t, ts[t].position, ds[i].from)
    /\ Adds(ds[i]) /\ k < i =>
         /\ t \in DOMAIN ts /\ ts[t].is_deleted
         /\ Inserted(ds[i].from, t, ts[t].position, ds[i].to)

(* Part of a story, around where the workflow is, is a story. *)
LEMMA StoryPart ==
  ASSUME NEW ds, Len(ds) \in Nat, NEW s, NEW c, NEW k \in 0 .. Len(ds), Story(ds, k, s, c),
         NEW a \in 1 .. k + 1, NEW b \in k .. Len(ds), NEW new, IsPart(new, ds, a, b)
  PROVE  Story(new, k - a + 1, s, c)
<1> DEFINE L    == b - a + 1
           m    == k - a + 1
           At(i) == a + i - 1
<1>1. /\ L \in Nat /\ m \in 0 .. L /\ Len(new) = L
      /\ \A i \in 1 .. L : At(i) \in 1 .. Len(ds) /\ SameCommand(new[i], ds[At(i)])
      /\ \A i, j \in 1 .. L : /\ i < j <=> At(i) < At(j)
                              /\ i <= j <=> At(i) <= At(j)
                              /\ j = i + 1 <=> At(j) = At(i) + 1
      /\ \A i \in 1 .. L : /\ i <= m <=> At(i) <= k
                           /\ m < i <=> k < At(i)
                           /\ i = m <=> At(i) = k
                           /\ i = m + 1 <=> At(i) = k + 1
  BY DEF IsPart
<1>2. /\ \A j \in 1 .. Len(ds) : a <= j /\ j <= b => \E i \in 1 .. L : At(i) = j
      /\ \A i \in 1 .. L : a <= At(i) /\ At(i) <= b
      /\ a <= k + 1 /\ k <= b /\ a \in Nat /\ b \in Nat /\ k \in Nat
  <2>1. a <= k + 1 /\ k <= b /\ a \in Nat /\ b \in Nat /\ k \in Nat
    OBVIOUS
  <2>2. ASSUME NEW j \in 1 .. Len(ds), a <= j, j <= b PROVE \E i \in 1 .. L : At(i) = j
    <3>1. j - a + 1 \in 1 .. L /\ At(j - a + 1) = j
      BY <2>1, <2>2
    <3> QED
      BY <3>1
  <2>3. \A i \in 1 .. L : a <= At(i) /\ At(i) <= b
    BY <2>1
  <2> QED
    BY <2>1, <2>2, <2>3
<1> HIDE DEF L, m, At
<1>3. \A i \in 1 .. L : /\ Seen(new[i]) = Seen(ds[At(i)]) /\ new[i].tab = ds[At(i)].tab
                        /\ new[i].from = ds[At(i)].from /\ new[i].to = ds[At(i)].to
                        /\ Adds(new[i]) <=> Adds(ds[At(i)])
                        /\ Deletes(new[i]) <=> Deletes(ds[At(i)])
  BY <1>1 DEF SameCommand, Seen, Adds, Deletes
<1>4. \A i \in 1 .. L : Kind(new[i]) /\ Seen(new[i]) \subseteq 1 .. c
  <2> SUFFICES ASSUME NEW i \in 1 .. L PROVE Kind(new[i]) /\ Seen(new[i]) \subseteq 1 .. c
    OBVIOUS
  <2>1. Kind(ds[At(i)]) /\ Seen(ds[At(i)]) \subseteq 1 .. c /\ SameCommand(new[i], ds[At(i)])
    BY <1>1 DEF Story
  <2>2. Kind(new[i])
    BY <2>1 DEF SameCommand, Kind, Adds, Deletes
  <2> QED
    BY <1>3, <2>1, <2>2
<1>5. \A i, j \in 1 .. L : j = i + 1 => new[i].to = new[j].from
  <2> SUFFICES ASSUME NEW i \in 1 .. L, NEW j \in 1 .. L, j = i + 1
               PROVE  new[i].to = new[j].from
    OBVIOUS
  <2>1. At(i) \in 1 .. Len(ds) /\ At(j) \in 1 .. Len(ds) /\ At(j) = At(i) + 1
    BY <1>1
  <2>2. ds[At(i)].to = ds[At(j)].from
    BY <2>1 DEF Story
  <2> QED
    BY <1>3, <2>2
<1>6. \A i, j \in 1 .. L : i < j => /\ Adds(new[j]) => new[j].tab \notin Seen(new[i])
                                    /\ Deletes(new[i]) => new[i].tab \notin Seen(new[j])
  <2> SUFFICES ASSUME NEW i \in 1 .. L, NEW j \in 1 .. L, i < j
               PROVE  /\ Adds(new[j]) => new[j].tab \notin Seen(new[i])
                      /\ Deletes(new[i]) => new[i].tab \notin Seen(new[j])
    OBVIOUS
  <2>1. At(i) \in 1 .. Len(ds) /\ At(j) \in 1 .. Len(ds) /\ At(i) < At(j)
    BY <1>1
  <2>2. /\ Adds(ds[At(j)]) => ds[At(j)].tab \notin Seen(ds[At(i)])
        /\ Deletes(ds[At(i)]) => ds[At(i)].tab \notin Seen(ds[At(j)])
    BY <2>1 DEF Story
  <2> QED
    BY <1>3, <2>2
<1>7. \A i \in 1 .. L : (i = m => new[i].to = s) /\ (i = m + 1 => new[i].from = s)
  <2> SUFFICES ASSUME NEW i \in 1 .. L
               PROVE  (i = m => new[i].to = s) /\ (i = m + 1 => new[i].from = s)
    OBVIOUS
  <2>1. At(i) \in 1 .. Len(ds) /\ (i = m => At(i) = k) /\ (i = m + 1 => At(i) = k + 1)
    BY <1>1
  <2>2. (At(i) = k => ds[At(i)].to = s) /\ (At(i) = k + 1 => ds[At(i)].from = s)
    BY <2>1 DEF Story
  <2> QED
    BY <1>3, <2>1, <2>2
<1>8. ASSUME NEW i \in 1 .. L, NEW t \in Seen(new[i])
      PROVE  \/ t \in Range(s)
             \/ \E j \in 1 .. L : i <= j /\ j <= m /\ Deletes(new[j]) /\ new[j].tab = t
             \/ \E j \in 1 .. L : m < j /\ j <= i /\ Adds(new[j]) /\ new[j].tab = t
  <2>1. \/ t \in Range(s)
        \/ \E j \in 1 .. Len(ds) : At(i) <= j /\ j <= k /\ Deletes(ds[j]) /\ ds[j].tab = t
        \/ \E j \in 1 .. Len(ds) : k < j /\ j <= At(i) /\ Adds(ds[j]) /\ ds[j].tab = t
    <3>1. At(i) \in 1 .. Len(ds) /\ t \in Seen(ds[At(i)])
      BY <1>1, <1>3
    <3> QED
      BY <3>1 DEF Story
  <2>2. CASE \E j \in 1 .. Len(ds) : At(i) <= j /\ j <= k /\ Deletes(ds[j]) /\ ds[j].tab = t
    <3>1. PICK j \in 1 .. Len(ds) : At(i) <= j /\ j <= k /\ Deletes(ds[j]) /\ ds[j].tab = t
      BY <2>2
    <3>2. a <= j /\ j <= b
      <4>1. At(i) \in 1 .. Len(ds)
        BY <1>1
      <4> QED
        BY <1>2, <3>1, <4>1
    <3>3. PICK h \in 1 .. L : At(h) = j
      BY <1>2, <3>2
    <3>4. i <= h /\ h <= m /\ Deletes(new[h]) /\ new[h].tab = t
      BY <1>1, <1>3, <3>1, <3>3
    <3> QED
      BY <3>4
  <2>3. CASE \E j \in 1 .. Len(ds) : k < j /\ j <= At(i) /\ Adds(ds[j]) /\ ds[j].tab = t
    <3>1. PICK j \in 1 .. Len(ds) : k < j /\ j <= At(i) /\ Adds(ds[j]) /\ ds[j].tab = t
      BY <2>3
    <3>2. a <= j /\ j <= b
      <4>1. At(i) \in 1 .. Len(ds)
        BY <1>1
      <4> QED
        BY <1>2, <3>1, <4>1
    <3>3. PICK h \in 1 .. L : At(h) = j
      BY <1>2, <3>2
    <3>4. m < h /\ h <= i /\ Adds(new[h]) /\ new[h].tab = t
      BY <1>1, <1>3, <3>1, <3>3
    <3> QED
      BY <3>4
  <2> QED
    BY <2>1, <2>2, <2>3
<1>9. s \in Orders /\ Range(s) \subseteq 1 .. c
  BY DEF Story
<1>10. Story(new, m, s, c)
  BY <1>1, <1>4, <1>5, <1>6, <1>7, <1>8, <1>9 DEF Story
<1> QED
  BY <1>10 DEF m

(* ... and the rows fit it. *)
LEMMA FitsPart ==
  ASSUME NEW ds, Len(ds) \in Nat, NEW k \in 0 .. Len(ds), NEW ts, Fits(ds, k, ts),
         NEW a \in 1 .. k + 1, NEW b \in k .. Len(ds), NEW new, IsPart(new, ds, a, b)
  PROVE  Fits(new, k - a + 1, ts)
<1> SUFFICES ASSUME NEW i \in 1 .. Len(new)
             PROVE  /\ Deletes(new[i]) /\ i <= k - a + 1 =>
                         /\ new[i].tab \in DOMAIN ts /\ ts[new[i].tab].is_deleted
                         /\ Inserted(new[i].to, new[i].tab, ts[new[i].tab].position, new[i].from)
                    /\ Adds(new[i]) /\ k - a + 1 < i =>
                         /\ new[i].tab \in DOMAIN ts /\ ts[new[i].tab].is_deleted
                         /\ Inserted(new[i].from, new[i].tab, ts[new[i].tab].position, new[i].to)
  BY DEF Fits
<1> DEFINE j == a + i - 1
<1>1. /\ j \in 1 .. Len(ds) /\ SameCommand(new[i], ds[j])
      /\ (i <= k - a + 1 <=> j <= k) /\ (k - a + 1 < i <=> k < j)
  BY DEF IsPart
<1> HIDE DEF j
<1>2. /\ new[i].tab = ds[j].tab /\ new[i].from = ds[j].from /\ new[i].to = ds[j].to
      /\ (Adds(new[i]) <=> Adds(ds[j])) /\ (Deletes(new[i]) <=> Deletes(ds[j]))
  BY <1>1 DEF SameCommand, Adds, Deletes
<1> QED
  BY <1>1, <1>2 DEF Fits

(* do() tells the story on. *)
LEMMA StoryGrown ==
  ASSUME NEW ds, NEW k \in Nat, Len(ds) = k, NEW s, NEW c \in Nat, Story(ds, k, s, c),
         NEW n \in Nat, c <= n, NEW new, Len(new) = k + 1, \A i \in 1 .. k : new[i] = ds[i],
         Kind(new[k + 1]), new[k + 1].from = s, Range(new[k + 1].to) \subseteq 1 .. n,
         Adds(new[k + 1]) => new[k + 1].tab \notin 1 .. c,
         \A i \in 1 .. k : Deletes(ds[i]) => ds[i].tab \notin Range(s)
  PROVE  Story(new, k + 1, new[k + 1].to, n)
<1> DEFINE d == new[k + 1]
           r == d.to
<1>1. \A i \in 1 .. k + 1 : i \in 1 .. k \/ i = k + 1
  OBVIOUS
<1>2. /\ \A i \in 1 .. k : Kind(ds[i]) /\ Seen(ds[i]) \subseteq 1 .. c
      /\ \A i, j \in 1 .. k : j = i + 1 => ds[i].to = ds[j].from
      /\ \A i, j \in 1 .. k : i < j => /\ Adds(ds[j]) => ds[j].tab \notin Seen(ds[i])
                                       /\ Deletes(ds[i]) => ds[i].tab \notin Seen(ds[j])
      /\ s \in Orders /\ Range(s) \subseteq 1 .. c
      /\ k \in 1 .. k => ds[k].to = s
  BY DEF Story
<1>3. \A i \in 1 .. k : \A t \in Seen(ds[i]) :
        \/ t \in Range(s)
        \/ \E j \in 1 .. k : i <= j /\ j <= k /\ Deletes(ds[j]) /\ ds[j].tab = t
  <2> SUFFICES ASSUME NEW i \in 1 .. k, NEW t \in Seen(ds[i])
               PROVE  \/ t \in Range(s)
                      \/ \E j \in 1 .. k : i <= j /\ j <= k /\ Deletes(ds[j]) /\ ds[j].tab = t
    OBVIOUS
  <2>1. \/ t \in Range(s)
        \/ \E j \in 1 .. k : i <= j /\ j <= k /\ Deletes(ds[j]) /\ ds[j].tab = t
        \/ \E j \in 1 .. k : k < j /\ j <= i /\ Adds(ds[j]) /\ ds[j].tab = t
    BY DEF Story
  <2>2. \A j \in 1 .. k : ~(k < j)
    OBVIOUS
  <2> QED
    BY <2>1, <2>2
<1>4. Kind(d) /\ d.from = s /\ Range(r) \subseteq 1 .. n /\ (Adds(d) => d.tab \notin 1 .. c)
  OBVIOUS
<1>5. 1 .. c \subseteq 1 .. n
  OBVIOUS
<1> HIDE DEF d
<1>6. /\ Seen(d) \subseteq Range(s) \cup Range(r) /\ Range(s) \subseteq Seen(d)
      /\ Adds(d) => /\ Range(r) = Range(s) \cup {d.tab}
      /\ ~Adds(d) => /\ Range(r) \subseteq Range(s)
      /\ \A t \in Range(s) : t \in Range(r) \/ (Deletes(d) /\ d.tab = t)
  <2>1. Seen(d) = Range(s) \cup Range(r)
    BY <1>4 DEF Seen
  <2>2. /\ Adds(d) => Range(r) = Range(s) \cup {d.tab}
        /\ Deletes(d) => Range(s) = Range(r) \cup {d.tab}
        /\ ~Adds(d) /\ ~Deletes(d) => Range(s) = Range(r)
    BY <1>4, KindFacts
  <2> HIDE DEF r
  <2> QED
    BY <2>1, <2>2
<1>7. r \in Orders
  BY <1>4 DEF Kind
<1> HIDE DEF r
<1>8. Seen(d) \subseteq 1 .. n
  BY <1>2, <1>4, <1>5, <1>6
<1>9. \A i \in 1 .. k + 1 : Kind(new[i]) /\ Seen(new[i]) \subseteq 1 .. n
  <2> SUFFICES ASSUME NEW i \in 1 .. k + 1 PROVE Kind(new[i]) /\ Seen(new[i]) \subseteq 1 .. n
    OBVIOUS
  <2>1. CASE i \in 1 .. k
    BY <1>2, <1>5, <2>1
  <2>2. CASE i = k + 1
    BY <1>4, <1>8, <2>2 DEF d
  <2> QED
    BY <1>1, <2>1, <2>2
<1>10. \A i, j \in 1 .. k + 1 : j = i + 1 => new[i].to = new[j].from
  <2> SUFFICES ASSUME NEW i \in 1 .. k + 1, NEW j \in 1 .. k + 1, j = i + 1
               PROVE  new[i].to = new[j].from
    OBVIOUS
  <2>1. i \in 1 .. k /\ new[i] = ds[i]
    OBVIOUS
  <2>2. CASE j \in 1 .. k
    BY <1>2, <2>1, <2>2
  <2>3. CASE j = k + 1
    <3>1. i = k
      BY <2>3
    <3> QED
      BY <1>2, <1>4, <2>1, <2>3, <3>1 DEF d
  <2> QED
    BY <1>1, <2>2, <2>3
<1>11. \A i, j \in 1 .. k + 1 : i < j => /\ Adds(new[j]) => new[j].tab \notin Seen(new[i])
                                         /\ Deletes(new[i]) => new[i].tab \notin Seen(new[j])
  <2> SUFFICES ASSUME NEW i \in 1 .. k + 1, NEW j \in 1 .. k + 1, i < j
               PROVE  /\ Adds(new[j]) => new[j].tab \notin Seen(new[i])
                      /\ Deletes(new[i]) => new[i].tab \notin Seen(new[j])
    OBVIOUS
  <2>1. i \in 1 .. k /\ new[i] = ds[i]
    OBVIOUS
  <2>2. CASE j \in 1 .. k
    BY <1>2, <2>1, <2>2
  <2>3. CASE j = k + 1
    <3>1. Adds(d) => d.tab \notin Seen(ds[i])
      BY <1>2, <1>4, <2>1
    <3>2. ASSUME Deletes(ds[i]) PROVE ds[i].tab \notin Seen(d)
      <4>1. ds[i].tab \notin Range(s)
        BY <2>1, <3>2
      <4>2. ds[i].tab \in 1 .. c
        <5>1. Kind(ds[i]) /\ Seen(ds[i]) \subseteq 1 .. c
          BY <1>2, <2>1
        <5> QED
          BY <3>2, <5>1, KindFacts
      <4> QED
        BY <1>4, <1>6, <4>1, <4>2
    <3> QED
      BY <2>1, <2>3, <3>1, <3>2 DEF d
  <2> QED
    BY <1>1, <2>2, <2>3
<1>12. \A i \in 1 .. k + 1 : (i = k + 1 => new[i].to = r) /\ (i = (k + 1) + 1 => new[i].from = r)
  BY DEF r, d
<1>13. ASSUME NEW i \in 1 .. k + 1, NEW t \in Seen(new[i])
       PROVE  \/ t \in Range(r)
              \/ \E j \in 1 .. k + 1 : i <= j /\ j <= k + 1 /\ Deletes(new[j]) /\ new[j].tab = t
              \/ \E j \in 1 .. k + 1 : k + 1 < j /\ j <= i /\ Adds(new[j]) /\ new[j].tab = t
  <2>1. ASSUME t \in Range(s)
        PROVE  \/ t \in Range(r)
               \/ \E j \in 1 .. k + 1 : i <= j /\ j <= k + 1 /\ Deletes(new[j]) /\ new[j].tab = t
    <3>1. k + 1 \in 1 .. k + 1 /\ i <= k + 1 /\ k + 1 <= k + 1
      OBVIOUS
    <3> QED
      BY <1>6, <2>1, <3>1 DEF d
  <2>2. CASE i \in 1 .. k
    <3>1. \/ t \in Range(s)
          \/ \E j \in 1 .. k : i <= j /\ j <= k /\ Deletes(ds[j]) /\ ds[j].tab = t
      BY <1>3, <2>2
    <3>2. CASE \E j \in 1 .. k : i <= j /\ j <= k /\ Deletes(ds[j]) /\ ds[j].tab = t
      <4>1. PICK j \in 1 .. k : i <= j /\ j <= k /\ Deletes(ds[j]) /\ ds[j].tab = t
        BY <3>2
      <4>2. j \in 1 .. k + 1 /\ j <= k + 1 /\ new[j] = ds[j]
        OBVIOUS
      <4> QED
        BY <4>1, <4>2
    <3> QED
      BY <2>1, <3>1, <3>2
  <2>3. CASE i = k + 1
    <3>1. t \in Range(s) \/ t \in Range(r)
      BY <1>6, <2>3 DEF d
    <3> QED
      BY <2>1, <3>1
  <2> QED
    BY <1>1, <2>2, <2>3
<1>14. Range(r) \subseteq 1 .. n
  BY <1>4
<1>15. Story(new, k + 1, r, n)
  BY <1>7, <1>9, <1>10, <1>11, <1>12, <1>13, <1>14 DEF Story
<1> QED
  BY <1>15 DEF r, d

(* Undoing the k-th leaves the rows fit, if it touches no deleted tab that *)
(* the delta is not about.                                                 *)
LEMMA FitsUndone ==
  ASSUME NEW ds, Len(ds) \in Nat, NEW s, NEW c, NEW k \in 1 .. Len(ds), Story(ds, k, s, c),
         NEW ts, Fits(ds, k, ts), NEW new,
         \A u \in DOMAIN ts : ts[u].is_deleted /\ u \notin Seen(ds[k]) =>
                                u \in DOMAIN new /\ new[u] = ts[u],
         Adds(ds[k]) => /\ ds[k].tab \in DOMAIN new /\ new[ds[k].tab].is_deleted
                        /\ Inserted(ds[k].from, ds[k].tab, new[ds[k].tab].position, ds[k].to)
  PROVE  Fits(ds, k - 1, new)
<1> SUFFICES ASSUME NEW i \in 1 .. Len(ds)
             PROVE  /\ Deletes(ds[i]) /\ i <= k - 1 =>
                         /\ ds[i].tab \in DOMAIN new /\ new[ds[i].tab].is_deleted
                         /\ Inserted(ds[i].to, ds[i].tab, new[ds[i].tab].position, ds[i].from)
                    /\ Adds(ds[i]) /\ k - 1 < i =>
                         /\ ds[i].tab \in DOMAIN new /\ new[ds[i].tab].is_deleted
                         /\ Inserted(ds[i].from, ds[i].tab, new[ds[i].tab].position, ds[i].to)
  BY DEF Fits
<1>1. ASSUME Deletes(ds[i]), i <= k - 1
      PROVE  /\ ds[i].tab \in DOMAIN new /\ new[ds[i].tab].is_deleted
             /\ Inserted(ds[i].to, ds[i].tab, new[ds[i].tab].position, ds[i].from)
  <2>1. i <= k /\ i < k
    BY <1>1
  <2>2. /\ ds[i].tab \in DOMAIN ts /\ ts[ds[i].tab].is_deleted
        /\ Inserted(ds[i].to, ds[i].tab, ts[ds[i].tab].position, ds[i].from)
    BY <1>1, <2>1 DEF Fits
  <2>3. ds[i].tab \notin Seen(ds[k])
    BY <1>1, <2>1 DEF Story
  <2> QED
    BY <2>2, <2>3
<1>2. ASSUME Adds(ds[i]), k - 1 < i
      PROVE  /\ ds[i].tab \in DOMAIN new /\ new[ds[i].tab].is_deleted
             /\ Inserted(ds[i].from, ds[i].tab, new[ds[i].tab].position, ds[i].to)
  <2>1. CASE i = k
    BY <1>2, <2>1
  <2>2. CASE i # k
    <3>1. k < i
      BY <1>2, <2>2
    <3>2. /\ ds[i].tab \in DOMAIN ts /\ ts[ds[i].tab].is_deleted
          /\ Inserted(ds[i].from, ds[i].tab, ts[ds[i].tab].position, ds[i].to)
      BY <1>2, <3>1 DEF Fits
    <3>3. ds[i].tab \notin Seen(ds[k])
      BY <1>2, <3>1 DEF Story
    <3> QED
      BY <3>2, <3>3
  <2> QED
    BY <2>1, <2>2
<1> QED
  BY <1>1, <1>2

(* So does redoing the one after. *)
LEMMA FitsRedone ==
  ASSUME NEW ds, Len(ds) \in Nat, NEW s, NEW c, NEW k \in Nat, NEW n \in 1 .. Len(ds), n = k + 1,
         Story(ds, k, s, c), NEW ts, Fits(ds, k, ts), NEW new,
         \A u \in DOMAIN ts : ts[u].is_deleted /\ u \notin Seen(ds[n]) =>
                                u \in DOMAIN new /\ new[u] = ts[u],
         Deletes(ds[n]) => /\ ds[n].tab \in DOMAIN new /\ new[ds[n].tab].is_deleted
                           /\ Inserted(ds[n].to, ds[n].tab, new[ds[n].tab].position, ds[n].from)
  PROVE  Fits(ds, n, new)
<1> SUFFICES ASSUME NEW i \in 1 .. Len(ds)
             PROVE  /\ Deletes(ds[i]) /\ i <= n =>
                         /\ ds[i].tab \in DOMAIN new /\ new[ds[i].tab].is_deleted
                         /\ Inserted(ds[i].to, ds[i].tab, new[ds[i].tab].position, ds[i].from)
                    /\ Adds(ds[i]) /\ n < i =>
                         /\ ds[i].tab \in DOMAIN new /\ new[ds[i].tab].is_deleted
                         /\ Inserted(ds[i].from, ds[i].tab, new[ds[i].tab].position, ds[i].to)
  BY DEF Fits
<1>1. ASSUME Adds(ds[i]), n < i
      PROVE  /\ ds[i].tab \in DOMAIN new /\ new[ds[i].tab].is_deleted
             /\ Inserted(ds[i].from, ds[i].tab, new[ds[i].tab].position, ds[i].to)
  <2>1. k < i
    BY <1>1
  <2>2. /\ ds[i].tab \in DOMAIN ts /\ ts[ds[i].tab].is_deleted
        /\ Inserted(ds[i].from, ds[i].tab, ts[ds[i].tab].position, ds[i].to)
    BY <1>1, <2>1 DEF Fits
  <2>3. ds[i].tab \notin Seen(ds[n])
    BY <1>1 DEF Story
  <2> QED
    BY <2>2, <2>3
<1>2. ASSUME Deletes(ds[i]), i <= n
      PROVE  /\ ds[i].tab \in DOMAIN new /\ new[ds[i].tab].is_deleted
             /\ Inserted(ds[i].to, ds[i].tab, new[ds[i].tab].position, ds[i].from)
  <2>1. CASE i = n
    BY <1>2, <2>1
  <2>2. CASE i # n
    <3>1. i <= k /\ i < n
      BY <1>2, <2>2
    <3>2. /\ ds[i].tab \in DOMAIN ts /\ ts[ds[i].tab].is_deleted
          /\ Inserted(ds[i].to, ds[i].tab, ts[ds[i].tab].position, ds[i].from)
      BY <1>2, <3>1 DEF Fits
    <3>3. ds[i].tab \notin Seen(ds[n])
      BY <1>2, <3>1 DEF Story
    <3> QED
      BY <3>2, <3>3
  <2> QED
    BY <2>1, <2>2
<1> QED
  BY <1>1, <1>2

(* So does doing a new one after the last, if it touches no deleted tab.   *)
LEMMA FitsGrown ==
  ASSUME NEW ds, NEW k \in Nat, Len(ds) = k, NEW ts, Fits(ds, k, ts),
         NEW new, Len(new) = k + 1, \A i \in 1 .. k : new[i] = ds[i],
         NEW rows, \A u \in DOMAIN ts : ts[u].is_deleted => u \in DOMAIN rows /\ rows[u] = ts[u],
         NEW d, d = new[k + 1],
         Deletes(d) => /\ d.tab \in DOMAIN rows /\ rows[d.tab].is_deleted
                       /\ Inserted(d.to, d.tab, rows[d.tab].position, d.from)
  PROVE  Fits(new, k + 1, rows)
<1> SUFFICES ASSUME NEW i \in 1 .. k + 1
             PROVE  /\ Deletes(new[i]) /\ i <= k + 1 =>
                         /\ new[i].tab \in DOMAIN rows /\ rows[new[i].tab].is_deleted
                         /\ Inserted(new[i].to, new[i].tab, rows[new[i].tab].position, new[i].from)
                    /\ Adds(new[i]) /\ k + 1 < i =>
                         /\ new[i].tab \in DOMAIN rows /\ rows[new[i].tab].is_deleted
                         /\ Inserted(new[i].from, new[i].tab, rows[new[i].tab].position, new[i].to)
  BY DEF Fits
<1>1. ~(k + 1 < i)
  OBVIOUS
<1>2. ASSUME Deletes(new[i])
      PROVE  /\ new[i].tab \in DOMAIN rows /\ rows[new[i].tab].is_deleted
             /\ Inserted(new[i].to, new[i].tab, rows[new[i].tab].position, new[i].from)
  <2>1. CASE i = k + 1
    BY <1>2, <2>1
  <2>2. CASE i # k + 1
    <3>1. i \in 1 .. k /\ i <= k /\ new[i] = ds[i]
      BY <2>2
    <3>2. /\ ds[i].tab \in DOMAIN ts /\ ts[ds[i].tab].is_deleted
          /\ Inserted(ds[i].to, ds[i].tab, ts[ds[i].tab].position, ds[i].from)
      BY <1>2, <3>1 DEF Fits
    <3> QED
      BY <3>1, <3>2
  <2> QED
    BY <2>1, <2>2
<1> QED
  BY <1>1, <1>2

(* The tabs are in order s, and one of them is selected. *)
InOrder(ts, sel, s) == Shows(ts, s) /\ sel \in Nat /\ sel < Len(s)

(* No tab is deleted but what was, or t. *)
LosesNone(ts, new, t) ==
  \A u \in DOMAIN new : new[u].is_deleted => u \in DOMAIN ts /\ (ts[u].is_deleted \/ u = t)

(* backward() shows the order there was before the command. *)
LEMMA BackwardShows ==
  ASSUME IsTable(tabs), NEW ds, Len(ds) \in Nat, NEW s, NEW c, NEW k \in 1 .. Len(ds),
         Story(ds, k, s, c), Fits(ds, k, tabs), InOrder(tabs, selected, s), About(ds[k], tabs)
  PROVE  /\ InOrder(Backward(ds[k]).tabs, Backward(ds[k]).selected, ds[k].from)
         /\ Fits(ds, k - 1, Backward(ds[k]).tabs)
         /\ LosesNone(tabs, Backward(ds[k]).tabs, ds[k].tab)
<1> DEFINE d   == ds[k]
           new == Backward(d).tabs
<1>1. /\ Kind(d) /\ d.from \in Orders /\ d.to \in Orders /\ d.to = s /\ d.command \in Commands
  <2>1. Kind(d) /\ d.to = s
    BY DEF Story
  <2> QED
    BY <2>1 DEF Kind
<1>2. Shows(tabs, s) /\ selected \in Nat /\ selected < Len(s) /\ Range(s) = Live(tabs)
  BY DEF InOrder, Shows
<1>3. Screen.tabs = tabs /\ Screen.selected = selected
  BY DEF Screen
<1>4. \A u \in DOMAIN tabs : tabs[u].is_deleted => u \notin Live(tabs)
  BY DEF Live
<1>5. Deletes(d) => /\ d.tab \in DOMAIN tabs /\ tabs[d.tab].is_deleted
                    /\ Inserted(s, d.tab, tabs[d.tab].position, d.from)
  BY <1>1 DEF Fits
<1> SUFFICES /\ InOrder(new, Backward(d).selected, d.from)
             /\ \A u \in DOMAIN tabs : tabs[u].is_deleted /\ u \notin Seen(d) =>
                                         u \in DOMAIN new /\ new[u] = tabs[u]
             /\ Adds(d) => /\ d.tab \in DOMAIN new /\ new[d.tab].is_deleted
                           /\ Inserted(d.from, d.tab, new[d.tab].position, d.to)
             /\ LosesNone(tabs, new, d.tab)
  BY FitsUndone
<1>6. About(d, tabs)
  OBVIOUS
<1> HIDE DEF new, d
<1>7. CASE Adds(d)
  <2> DEFINE t == d.tab
             p == tabs[t].position
  <2>1. PICK q \in Nat : Inserted(d.from, t, q, d.to)
    BY <1>1, <1>7 DEF Kind
  <2>2. /\ t \in Live(tabs) /\ p = q
        /\ Shows(TakenOut(tabs, t, q), d.from) /\ TakenOut(tabs, t, q)[t].position = q
    BY <1>1, <1>2, <2>1, TakenOutShows
  <2>3. Backward(d) = AddTabBackward(Screen, t, d.old_selected)
    BY <1>7 DEF Backward, Adds
  <2>4. new = TakenOut(tabs, t, q) /\ Backward(d).selected = d.old_selected
    <3>1. /\ Backward(d).tabs = TakenOut(Screen.tabs, t, Screen.tabs[t].position)
          /\ Backward(d).selected = d.old_selected
      BY <2>3 DEF AddTabBackward, TakenOut
    <3> QED
      BY <1>3, <2>2, <3>1 DEF new
  <2>5. d.old_selected \in Nat /\ d.old_selected < Len(d.from)
    BY <1>1, <1>7 DEF Kind
  <2>6. t \in DOMAIN tabs /\ t \in Seen(d)
    BY <1>1, <1>7, <2>2, KindFacts DEF Live
  <2>7. /\ DOMAIN new = DOMAIN tabs /\ Live(new) = Live(tabs) \ {t}
        /\ \A u \in DOMAIN tabs : u \notin Live(tabs) /\ u # t => new[u] = tabs[u]
    BY <2>4, <2>6, TakenOutRows
  <2>8. new[t].is_deleted /\ LosesNone(tabs, new, t)
    BY <2>6, <2>7 DEF Live, LosesNone
  <2> QED
    BY <1>4, <2>1, <2>2, <2>4, <2>5, <2>6, <2>7, <2>8 DEF InOrder
<1>8. CASE Deletes(d)
  <2> DEFINE t == d.tab
             p == tabs[t].position
  <2>1. t \in DOMAIN tabs /\ tabs[t].is_deleted /\ Inserted(s, t, p, d.from)
    BY <1>5, <1>8
  <2>2. Shows(PutBack(tabs, t, p), d.from)
    BY <1>1, <1>2, <2>1, PutBackShows
  <2>3. Backward(d) = DeleteTabBackward(Screen, t)
    BY <1>8 DEF Backward, Deletes, Adds
  <2>4. new = PutBack(tabs, t, p) /\ Backward(d).selected = p
    BY <1>3, <2>3 DEF DeleteTabBackward, PutBack, new
  <2>5. p \in Nat /\ p < Len(d.from)
    BY <1>1, <2>1, OrderFacts DEF Inserted
  <2>6. t \in Seen(d) /\ ~Adds(d)
    BY <1>1, <1>8, KindFacts DEF Adds, Deletes
  <2>7. /\ DOMAIN new = DOMAIN tabs /\ Live(new) = Live(tabs) \cup {t}
        /\ \A u \in DOMAIN tabs : u \notin Live(tabs) /\ u # t => new[u] = tabs[u]
    <3> HIDE DEF p
    <3> QED
      BY <2>1, <2>4, <2>5, PutBackRows, SMTT(60)
  <2>8. LosesNone(tabs, new, t)
    BY <2>7 DEF Live, LosesNone
  <2> QED
    BY <1>4, <2>2, <2>4, <2>5, <2>6, <2>7, <2>8 DEF InOrder
<1>9. CASE d.command = "ReorderTabs"
  <2>1. Range(d.from) = Range(d.to)
    BY <1>1, <1>9 DEF Kind
  <2>2. Backward(d) = Reordered(Screen, d.to, d.from) /\ ~Adds(d)
    BY <1>9 DEF Backward, Adds
  <2>3. Shows(new, d.from)
    BY <1>1, <1>2, <1>3, <2>1, <2>2, ReorderedShows DEF new
  <2>4. /\ DOMAIN new = DOMAIN tabs /\ Live(new) = Live(tabs)
        /\ \A u \in DOMAIN new : u \notin Range(d.from) => new[u] = tabs[u]
    BY <1>1, <1>3, <2>2, ReorderedRows DEF new
  <2>5. d.to[selected + 1] \in Range(d.from)
    <3>1. selected + 1 \in 1 .. Len(d.to)
      BY <1>1, <1>2, OrderFacts
    <3> QED
      BY <1>1, <2>1, <3>1, OrderFacts
  <2>6. IndexOf(d.from, d.to[selected + 1]) \in 1 .. Len(d.from)
    BY <1>1, <2>5, OrderFacts, IndexFacts
  <2>7. Backward(d).selected = IndexOf(d.from, d.to[selected + 1]) - 1
    BY <1>3, <2>2 DEF Reordered
  <2>8. Backward(d).selected \in Nat /\ Backward(d).selected < Len(d.from)
    BY <1>1, <2>6, <2>7, OrderFacts
  <2>9. LosesNone(tabs, new, d.tab)
    BY <2>4 DEF Live, LosesNone
  <2> QED
    BY <2>2, <2>3, <2>4, <2>8, <2>9 DEF InOrder, Seen
<1>10. CASE d.command = "SetStepNote"
  <2>1. Backward(d) = Screen /\ ~Adds(d) /\ d.from = d.to
    BY <1>1, <1>10 DEF Backward, Adds, Kind
  <2>2. new = tabs /\ Backward(d).selected = selected
    BY <1>3, <2>1 DEF new
  <2> QED
    BY <1>1, <1>2, <2>1, <2>2 DEF InOrder, LosesNone
<1> QED
  BY <1>1, <1>7, <1>8, <1>9, <1>10 DEF Commands, Adds, Deletes

(* forward() shows the order there was after the command. *)
LEMMA ForwardShows ==
  ASSUME IsTable(tabs), NEW ds, Len(ds) \in Nat, NEW s, NEW c, NEW k \in Nat,
         NEW n \in 1 .. Len(ds), n = k + 1,
         Story(ds, k, s, c), Fits(ds, k, tabs), InOrder(tabs, selected, s), About(ds[n], tabs)
  PROVE  /\ InOrder(Forward(ds[n]).tabs, Forward(ds[n]).selected, ds[n].to)
         /\ Fits(ds, n, Forward(ds[n]).tabs)
         /\ LosesNone(tabs, Forward(ds[n]).tabs, ds[n].tab)
<1> DEFINE d   == ds[n]
           new == Forward(d).tabs
<1>1. /\ Kind(d) /\ d.from \in Orders /\ d.to \in Orders /\ d.from = s /\ d.command \in Commands
  <2>1. Kind(d) /\ d.from = s
    BY DEF Story
  <2> QED
    BY <2>1 DEF Kind
<1>2. Shows(tabs, s) /\ selected \in Nat /\ selected < Len(s) /\ Range(s) = Live(tabs)
  BY DEF InOrder, Shows
<1>3. Screen.tabs = tabs /\ Screen.selected = selected
  BY DEF Screen
<1>4. \A u \in DOMAIN tabs : tabs[u].is_deleted => u \notin Live(tabs)
  BY DEF Live
<1>5. Adds(d) => /\ d.tab \in DOMAIN tabs /\ tabs[d.tab].is_deleted
                 /\ Inserted(s, d.tab, tabs[d.tab].position, d.to)
  <2>1. k < n
    OBVIOUS
  <2> QED
    BY <1>1, <2>1 DEF Fits
<1> SUFFICES /\ InOrder(new, Forward(d).selected, d.to)
             /\ \A u \in DOMAIN tabs : tabs[u].is_deleted /\ u \notin Seen(d) =>
                                         u \in DOMAIN new /\ new[u] = tabs[u]
             /\ Deletes(d) => /\ d.tab \in DOMAIN new /\ new[d.tab].is_deleted
                              /\ Inserted(d.to, d.tab, new[d.tab].position, d.from)
             /\ LosesNone(tabs, new, d.tab)
  BY FitsRedone, SMTT(60)
<1>6. About(d, tabs)
  OBVIOUS
<1> HIDE DEF new, d
<1>7. CASE Adds(d)
  <2> DEFINE t == d.tab
             p == tabs[t].position
  <2>1. t \in DOMAIN tabs /\ tabs[t].is_deleted /\ Inserted(s, t, p, d.to)
    BY <1>5, <1>7
  <2>2. Shows(PutBack(tabs, t, p), d.to)
    BY <1>1, <1>2, <2>1, PutBackShows
  <2>3. Forward(d) = AddTabForward(Screen, t, p)
    BY <1>7 DEF Forward, Adds
  <2>4. new = PutBack(tabs, t, p) /\ Forward(d).selected = p
    BY <1>3, <2>3 DEF AddTabForward, PutBack, new
  <2>5. p \in Nat /\ p < Len(d.to)
    BY <1>1, <2>1, OrderFacts DEF Inserted
  <2>6. t \in Seen(d) /\ ~Deletes(d)
    BY <1>1, <1>7, KindFacts DEF Adds, Deletes
  <2>7. /\ DOMAIN new = DOMAIN tabs /\ Live(new) = Live(tabs) \cup {t}
        /\ \A u \in DOMAIN tabs : u \notin Live(tabs) /\ u # t => new[u] = tabs[u]
    <3> HIDE DEF p, t
    <3>1. IsTable(tabs) /\ t \in DOMAIN tabs /\ p \in Nat
      BY <2>1, <2>5
    <3>2. /\ DOMAIN PutBack(tabs, t, p) = DOMAIN tabs
          /\ Live(PutBack(tabs, t, p)) = Live(tabs) \cup {t}
          /\ \A u \in DOMAIN tabs :
               u \notin Live(tabs) /\ u # t => PutBack(tabs, t, p)[u] = tabs[u]
      BY ONLY <3>1, PutBackRows
    <3> QED
      BY <2>4, <3>2
  <2>8. LosesNone(tabs, new, t)
    BY <2>7 DEF Live, LosesNone
  <2> QED
    BY <1>4, <2>2, <2>4, <2>5, <2>6, <2>7, <2>8 DEF InOrder
<1>8. CASE Deletes(d)
  <2> DEFINE t == d.tab
             p == tabs[t].position
  <2>1. PICK q \in Nat : Inserted(d.to, t, q, d.from)
    BY <1>1, <1>8 DEF Kind
  <2>2. /\ t \in Live(tabs) /\ p = q
        /\ Shows(TakenOut(tabs, t, q), d.to) /\ TakenOut(tabs, t, q)[t].position = q
    BY <1>1, <1>2, <2>1, TakenOutShows
  <2>3. Forward(d) = DeleteTabForward(Screen, t, p)
    BY <1>8 DEF Forward, Deletes, Adds
  <2>4. /\ new = TakenOut(tabs, t, q)
        /\ Forward(d).selected = IF selected >= q /\ selected > 0
                                 THEN selected - 1 ELSE selected
    <3>1. /\ Forward(d).tabs = TakenOut(Screen.tabs, t, p)
          /\ Forward(d).selected = IF Screen.selected >= p /\ Screen.selected > 0
                                   THEN Screen.selected - 1 ELSE Screen.selected
      BY <2>3 DEF DeleteTabForward, TakenOut
    <3> QED
      BY <1>3, <2>2, <3>1 DEF new
  <2>5. Forward(d).selected \in Nat /\ Forward(d).selected < Len(d.to)
    <3>1. Len(d.from) = Len(d.to) + 1 /\ q <= Len(d.to) /\ Len(d.to) \in Nat /\ Len(d.to) > 0
      BY <1>1, <2>1, OrderFacts DEF Inserted
    <3> QED
      BY <1>1, <1>2, <2>4, <3>1
  <2>6. t \in DOMAIN tabs /\ t \in Seen(d)
    BY <1>1, <1>8, <2>2, KindFacts DEF Live
  <2>7. /\ DOMAIN new = DOMAIN tabs /\ Live(new) = Live(tabs) \ {t}
        /\ \A u \in DOMAIN tabs : u \notin Live(tabs) /\ u # t => new[u] = tabs[u]
    <3> HIDE DEF p, t
    <3>1. IsTable(tabs) /\ t \in DOMAIN tabs /\ q \in Nat
      BY <2>6
    <3>2. /\ DOMAIN TakenOut(tabs, t, q) = DOMAIN tabs
          /\ Live(TakenOut(tabs, t, q)) = Live(tabs) \ {t}
          /\ \A u \in DOMAIN tabs :
               u \notin Live(tabs) /\ u # t => TakenOut(tabs, t, q)[u] = tabs[u]
      BY ONLY <3>1, TakenOutRows
    <3> QED
      BY <2>4, <3>2
  <2>8. new[t].is_deleted /\ LosesNone(tabs, new, t)
    BY <2>6, <2>7 DEF Live, LosesNone
  <2> QED
    BY <1>4, <2>1, <2>2, <2>4, <2>5, <2>6, <2>7, <2>8 DEF InOrder
<1>9. CASE d.command = "ReorderTabs"
  <2>1. Range(d.from) = Range(d.to)
    BY <1>1, <1>9 DEF Kind
  <2>2. Forward(d) = Reordered(Screen, d.from, d.to) /\ ~Deletes(d)
    BY <1>9 DEF Forward, Adds, Deletes
  <2>3. Shows(new, d.to)
    BY <1>1, <1>2, <1>3, <2>1, <2>2, ReorderedShows DEF new
  <2>4. /\ DOMAIN new = DOMAIN tabs /\ Live(new) = Live(tabs)
        /\ \A u \in DOMAIN new : u \notin Range(d.to) => new[u] = tabs[u]
    BY <1>1, <1>3, <2>2, ReorderedRows DEF new
  <2>5. d.from[selected + 1] \in Range(d.to)
    <3>1. selected + 1 \in 1 .. Len(d.from)
      BY <1>1, <1>2, OrderFacts
    <3> QED
      BY <1>1, <2>1, <3>1, OrderFacts
  <2>6. IndexOf(d.to, d.from[selected + 1]) \in 1 .. Len(d.to)
    BY <1>1, <2>5, OrderFacts, IndexFacts
  <2>7. Forward(d).selected = IndexOf(d.to, d.from[selected + 1]) - 1
    BY <1>3, <2>2 DEF Reordered
  <2>8. Forward(d).selected \in Nat /\ Forward(d).selected < Len(d.to)
    BY <1>1, <2>6, <2>7, OrderFacts
  <2>9. LosesNone(tabs, new, d.tab)
    BY <2>4 DEF Live, LosesNone
  <2> QED
    BY <2>2, <2>3, <2>4, <2>8, <2>9 DEF InOrder, Seen
<1>10. CASE d.command = "SetStepNote"
  <2>1. Forward(d) = Screen /\ ~Deletes(d) /\ d.from = d.to
    BY <1>1, <1>10 DEF Forward, Adds, Kind, Deletes
  <2>2. new = tabs /\ Forward(d).selected = selected
    BY <1>3, <2>1 DEF new
  <2> QED
    BY <1>1, <1>2, <2>1, <2>2 DEF InOrder, LosesNone
<1> QED
  BY <1>1, <1>7, <1>8, <1>9, <1>10 DEF Commands, Adds, Deletes

-----------------------------------------------------------------------------
(* The invariant of those who do not race.                                 *)

Orderly(ts, c, sel, ds, k, s) == Story(ds, k, s, c) /\ Fits(ds, k, ts) /\ InOrder(ts, sel, s)

Tidy ==
  ~raced => /\ ~failed /\ Orphans(tabs, deltas) = {}
            /\ Orderly(tabs, created, selected, deltas, NApplied, Order(tabs))

(* It says what the runs check. *)
LEMMA TidyImplies == Inv /\ Tidy => TabsAreInOrder /\ PurgesAreSafeAndComplete
<1> SUFFICES ASSUME Inv, Tidy, ~raced
             PROVE  /\ {tabs[t].position : t \in Live(tabs)} = 0 .. Cardinality(Live(tabs)) - 1
                    /\ \E t \in Live(tabs) : tabs[t].position = selected
                    /\ ~failed /\ Orphans(tabs, deltas) = {}
  BY DEF TabsAreInOrder, PurgesAreSafeAndComplete
<1> DEFINE s == Order(tabs)
<1>1. Shows(tabs, s) /\ selected \in Nat /\ selected < Len(s)
  BY DEF Tidy, Orderly, InOrder
<1> HIDE DEF s
<1>2. /\ s \in Orders /\ Len(s) \in Nat /\ Cardinality(Live(tabs)) = Len(s)
      /\ \A i \in 1 .. Len(s) : s[i] \in Live(tabs) /\ tabs[s[i]].position = i - 1
      /\ \A t \in Live(tabs) : \E i \in 1 .. Len(s) : t = s[i]
  <2>1. s \in Orders /\ Cardinality(Live(tabs)) = Len(s)
    BY <1>1, OrderShown DEF Shows
  <2> QED
    BY <1>1, <2>1, OrderFacts DEF Shows
<1>3. ASSUME NEW n \in 0 .. Len(s) - 1 PROVE \E t \in Live(tabs) : tabs[t].position = n
  <2>1. n + 1 \in 1 .. Len(s) /\ (n + 1) - 1 = n
    BY <1>2
  <2>2. s[n + 1] \in Live(tabs) /\ tabs[s[n + 1]].position = n
    BY <1>2, <2>1
  <2> QED
    BY <2>2
<1>4. ASSUME NEW t \in Live(tabs) PROVE tabs[t].position \in 0 .. Len(s) - 1
  <2>1. PICK i \in 1 .. Len(s) : t = s[i]
    BY <1>2
  <2>2. tabs[t].position = i - 1
    BY <1>2, <2>1
  <2> QED
    BY <1>2, <2>2
<1>5. {tabs[t].position : t \in Live(tabs)} = 0 .. Len(s) - 1
  BY <1>3, <1>4
<1>6. selected \in 0 .. Len(s) - 1
  BY <1>1, <1>2
<1>7. \E t \in Live(tabs) : tabs[t].position = selected
  BY <1>3, <1>6
<1>8. ~failed /\ Orphans(tabs, deltas) = {}
  BY DEF Tidy
<1> QED
  BY <1>2, <1>5, <1>7, <1>8

(* A purge takes nothing that the story needs, and nothing protects it.    *)
LEMMA PurgeOrderly ==
  ASSUME NEW ts, IsTable(ts), NEW ds \in Seq(Delta), NEW c, NEW sel, NEW k, NEW s,
         Orderly(ts, c, sel, ds, k, s)
  PROVE  /\ ~IsProtected(ts, ds) /\ Orphans(Purged(ts, ds), ds) = {}
         /\ Orderly(Purged(ts, ds), c, sel, ds, k, s)
<1> DEFINE new == Purged(ts, ds)
<1>1. /\ DOMAIN ds = 1 .. Len(ds) /\ Len(ds) \in Nat
      /\ Story(ds, k, s, c) /\ Fits(ds, k, ts) /\ InOrder(ts, sel, s) /\ Shows(ts, s)
  BY LenProperties DEF Orderly, InOrder
<1>2. /\ DOMAIN new = DOMAIN ts \ Orphans(ts, ds) /\ Live(new) = Live(ts)
      /\ \A t \in DOMAIN new : new[t] = ts[t]
  BY PurgedRows
<1>3. \A i \in 1 .. Len(ds) : ds[i].tab \notin Orphans(ts, ds)
  BY <1>1 DEF Orphans
<1>4. \A t \in Range(s) : t \in Live(ts) /\ t \notin Orphans(ts, ds)
  BY <1>1 DEF Shows, Live, Orphans
<1>5. ASSUME NEW i \in 1 .. Len(ds), ds[i].step \in Orphans(ts, ds) PROVE FALSE
  <2>1. ds[i].step # None
    BY <1>5 DEF Orphans, IsTable, TabIds, None
  <2>2. Kind(ds[i])
    BY <1>1 DEF Story
  <2>3. ds[i].step \in Seen(ds[i])
    BY <2>1, <2>2 DEF Kind, Seen
  <2>4. \/ ds[i].step \in Range(s)
        \/ \E j \in 1 .. Len(ds) : ds[j].tab = ds[i].step
    BY <1>1, <2>3 DEF Story
  <2> QED
    BY <1>3, <1>4, <1>5, <2>4
<1>6. ~IsProtected(ts, ds)
  BY <1>1, <1>5 DEF IsProtected
<1> HIDE DEF new
<1>7. Orphans(new, ds) = {}
  BY <1>2 DEF Orphans
<1>8. Fits(ds, k, new)
  <2> SUFFICES ASSUME NEW i \in 1 .. Len(ds)
               PROVE  /\ Deletes(ds[i]) /\ i <= k =>
                           /\ ds[i].tab \in DOMAIN new /\ new[ds[i].tab].is_deleted
                           /\ Inserted(ds[i].to, ds[i].tab, new[ds[i].tab].position, ds[i].from)
                      /\ Adds(ds[i]) /\ k < i =>
                           /\ ds[i].tab \in DOMAIN new /\ new[ds[i].tab].is_deleted
                           /\ Inserted(ds[i].from, ds[i].tab, new[ds[i].tab].position, ds[i].to)
    BY DEF Fits
  <2>1. ds[i].tab \in DOMAIN ts => ds[i].tab \in DOMAIN new /\ new[ds[i].tab] = ts[ds[i].tab]
    BY <1>2, <1>3
  <2> QED
    BY <1>1, <2>1 DEF Fits
<1>9. InOrder(new, sel, s)
  <2>1. \A i \in 1 .. Len(s) : s[i] \in Range(s)
    BY <1>1, OrderFacts DEF Shows
  <2>2. \A i \in 1 .. Len(s) : new[s[i]] = ts[s[i]]
    <3> SUFFICES ASSUME NEW i \in 1 .. Len(s) PROVE new[s[i]] = ts[s[i]]
      OBVIOUS
    <3>1. s[i] \in Live(ts) /\ s[i] \notin Orphans(ts, ds) /\ Live(ts) \subseteq DOMAIN ts
      BY <1>4, <2>1 DEF Live
    <3> QED
      BY <1>2, <3>1
  <2> QED
    BY <1>1, <1>2, <2>2 DEF InOrder, Shows
<1> QED
  BY <1>1, <1>6, <1>7, <1>8, <1>9 DEF Orderly, new

(* So a transaction that leaves a story commits.                           *)
LEMMA CommitOrderly ==
  ASSUME NEW scr, IsTable(scr.tabs), NEW ds \in Seq(Delta), NEW c, NEW k, NEW s, NEW l,
         Orderly(scr.tabs, c, scr.selected, ds, k, s),
         NEW purges, ~purges => Orphans(scr.tabs, ds) = {}, Commit(scr, ds, l, purges)
  PROVE  /\ Orderly(tabs', c, selected', deltas', k, s) /\ Orphans(tabs', deltas') = {}
         /\ deltas' = ds /\ last' = l /\ failed' = failed
<1>1. /\ ~IsProtected(scr.tabs, ds) /\ Orphans(Purged(scr.tabs, ds), ds) = {}
      /\ Orderly(Purged(scr.tabs, ds), c, scr.selected, ds, k, s)
  BY PurgeOrderly
<1>2. /\ tabs' = IF purges THEN Purged(scr.tabs, ds) ELSE scr.tabs
      /\ selected' = scr.selected /\ deltas' = ds /\ last' = l /\ failed' = failed
  BY <1>1 DEF Commit
<1> QED
  BY <1>1, <1>2

(* What a step of those who do not race leaves: the first k deltas applied, *)
(* and the order s that they lead to.                                      *)
Leaves(k, s) ==
  /\ Orderly(tabs', created', selected', deltas', k, s) /\ Orphans(tabs', deltas') = {}
  /\ SplitsAt(deltas', last', k) /\ failed' = failed

(* That is the invariant again. *)
LEMMA LeavesTidy ==
  ASSUME Inv', Tidy, ~raced, NEW k, NEW s, Leaves(k, s)
  PROVE  Tidy' /\ NApplied' = k /\ Order(tabs)' = s
<1>1. /\ deltas' \in Seq(Delta) /\ SplitsAt(deltas', last', k)
      /\ Orderly(tabs', created', selected', deltas', k, s) /\ Orphans(tabs', deltas') = {}
      /\ ~failed'
  BY DEF Inv, Sound, Leaves, Tidy
<1>2. NApplied' = k
  BY <1>1, SplitOnce DEF NApplied
<1>3. Order(tabs') = s
  BY <1>1, OrderShown DEF Orderly, InOrder
<1> QED
  BY <1>1, <1>2, <1>3 DEF Tidy

(* The whole of a story is a part of it. *)
LEMMA WholePart ==
  ASSUME NEW ds, Len(ds) \in Nat, NEW s, NEW c, NEW k \in 0 .. Len(ds), Story(ds, k, s, c),
         NEW ts, Fits(ds, k, ts), NEW new, IsPart(new, ds, 1, Len(ds))
  PROVE  Story(new, k, s, c) /\ Fits(new, k, ts)
<1>1. /\ 1 \in 1 .. k + 1 /\ Len(ds) \in k .. Len(ds) /\ (k - 1) + 1 = k
  OBVIOUS
<1>2. Story(new, (k - 1) + 1, s, c)
  BY <1>1, StoryPart
<1>3. Fits(new, (k - 1) + 1, ts)
  BY <1>1, FitsPart
<1> QED
  BY <1>1, <1>2, <1>3

(* No deleted tab is left that no delta is about. *)
LEMMA NoneLost ==
  ASSUME NEW ts, NEW ds, DOMAIN ds = 1 .. Len(ds), Len(ds) \in Nat, Orphans(ts, ds) = {},
         NEW rows, NEW new, DOMAIN new = 1 .. Len(new),
         IsPart(new, ds, 1, Len(ds)), NEW i \in 1 .. Len(ds), LosesNone(ts, rows, ds[i].tab)
  PROVE  Orphans(rows, new) = {}
<1>1. /\ DOMAIN new = 1 .. Len(ds)
      /\ \A j \in 1 .. Len(ds) : new[j].tab = ds[j].tab
  BY DEF IsPart, SameCommand
<1> SUFFICES ASSUME NEW t \in DOMAIN rows, rows[t].is_deleted
             PROVE  \E j \in 1 .. Len(ds) : ds[j].tab = t
  BY <1>1 DEF Orphans
<1> QED
  BY DEF Orphans, LosesNone

(* Undo and redo: the same deltas, another place among them.               *)
LEMMA TouchLeaves ==
  ASSUME Inv, Tidy, ~raced, CanEdit, created' = created,
         NEW id, NEW i \in 1 .. Len(deltas), NEW k \in 0 .. Len(deltas), NEW s,
         NEW scr, IsTable(scr.tabs),
         Story(deltas, k, s, created), Fits(deltas, k, scr.tabs),
         InOrder(scr.tabs, scr.selected, s), LosesNone(tabs, scr.tabs, deltas[i].tab),
         NEW l, l = IF k = 0 THEN None ELSE deltas[k].id,
         Commit(scr, Touched(deltas, id), l, FALSE)
  PROVE  Leaves(k, s) /\ IsPart(deltas', deltas, 1, Len(deltas))
<1> DEFINE new == Touched(deltas, id)
<1>1. /\ deltas \in Seq(Delta) /\ Chain(deltas, last, now)
      /\ now \in Nat /\ now + 1 \in DeltaIds
  BY Bounds DEF Inv, Sound, CanEdit, DeltaIds
<1>2. DOMAIN deltas = 1 .. Len(deltas) /\ Len(deltas) \in Nat
  BY <1>1, LenProperties
<1>3. /\ new \in Seq(Delta) /\ Len(new) = Len(deltas)
      /\ \A j \in 1 .. Len(deltas) : /\ SameCommand(new[j], deltas[j])
                                     /\ new[j].id = deltas[j].id /\ new[j].prev = deltas[j].prev
  BY <1>1, TouchedFacts
<1>4. Commit(scr, new, l, FALSE)
  BY Zenon
<1> HIDE DEF new
<1>5. SplitsAt(new, l, k)
  BY <1>1, <1>3, ChainMoved
<1>6. IsPart(new, deltas, 1, Len(deltas))
  BY <1>2, <1>3 DEF IsPart
<1>7. DOMAIN new = 1 .. Len(new)
  BY <1>3, LenProperties
<1>8. Orphans(scr.tabs, new) = {}
  <2>1. Orphans(tabs, deltas) = {}
    BY DEF Tidy
  <2> QED
    BY <1>2, <1>6, <1>7, <2>1, NoneLost
<1>9. Orderly(scr.tabs, created, scr.selected, new, k, s)
  <2>1. Story(new, k, s, created) /\ Fits(new, k, scr.tabs)
    BY <1>2, <1>6, WholePart
  <2> QED
    BY <2>1 DEF Orderly
<1>10. /\ Orderly(tabs', created, selected', deltas', k, s) /\ Orphans(tabs', deltas') = {}
       /\ deltas' = new /\ last' = l /\ failed' = failed
  BY <1>3, <1>4, <1>8, <1>9, CommitOrderly, ZenonT(60)
<1> QED
  BY <1>5, <1>6, <1>10 DEF Leaves

(* undo() goes back to the order there was before the command.             *)
LEMMA UndoLeaves ==
  ASSUME Inv, Tidy, ~raced, Undo
  PROVE  \E k \in 1 .. Len(deltas) :
           /\ k = NApplied /\ deltas[k].to = Order(tabs)
           /\ Leaves(k - 1, deltas[k].from) /\ IsPart(deltas', deltas, 1, Len(deltas))
<1>1. /\ deltas \in Seq(Delta) /\ Chain(deltas, last, now)
      /\ IsTable(tabs) /\ selected \in Nat /\ now \in Nat
      /\ \A i \in 1 .. Len(deltas) : About(deltas[i], tabs)
  BY Bounds DEF Inv, Sound, DeltaIds
<1>2. DOMAIN deltas = 1 .. Len(deltas) /\ Len(deltas) \in Nat
  BY <1>1, LenProperties
<1>3. CanEdit /\ created' = created
  BY DEF Undo
<1>4. PICK k \in 1 .. Len(deltas) :
        /\ deltas[k].id = last /\ Possible(deltas[k], deltas[k].to)
        /\ Commit(Backward(deltas[k]), Touched(deltas, deltas[k].id), deltas[k].prev, FALSE)
  BY <1>2 DEF Undo
<1> DEFINE s == Order(tabs)
<1>5. k = NApplied
  <2>1. SplitsAt(deltas, last, NApplied)
    BY AppliedFacts
  <2> QED
    BY <1>1, <1>4, <2>1, ChainFacts
<1>6. Story(deltas, k, s, created) /\ Fits(deltas, k, tabs) /\ InOrder(tabs, selected, s)
  BY <1>5 DEF Tidy, Orderly
<1> HIDE DEF s
<1>7. /\ InOrder(Backward(deltas[k]).tabs, Backward(deltas[k]).selected, deltas[k].from)
      /\ Fits(deltas, k - 1, Backward(deltas[k]).tabs)
      /\ LosesNone(tabs, Backward(deltas[k]).tabs, deltas[k].tab)
  BY <1>1, <1>2, <1>6, BackwardShows
<1>8. Story(deltas, k - 1, deltas[k].from, created) /\ deltas[k].to = s
  BY <1>2, <1>6, StoryUndone
<1>9. IsTable(Backward(deltas[k]).tabs)
  <2>1. deltas[k] \in Delta /\ About(deltas[k], tabs)
    BY <1>1, ElementOfSeq
  <2> QED
    BY <1>1, <1>4, <2>1, BackwardRows
<1>10. /\ k - 1 \in 0 .. Len(deltas)
       /\ deltas[k].prev = IF k - 1 = 0 THEN None ELSE deltas[k - 1].id
  BY <1>1, <1>2 DEF Chain
<1>11. Commit(Backward(deltas[k]), Touched(deltas, deltas[k].id), deltas[k].prev, FALSE)
  BY <1>4, Zenon
<1>12. Leaves(k - 1, deltas[k].from) /\ IsPart(deltas', deltas, 1, Len(deltas))
  BY <1>3, <1>7, <1>8, <1>9, <1>10, <1>11, TouchLeaves
<1> QED
  BY <1>5, <1>8, <1>12 DEF s

(* redo() goes on to the order there was after it.                         *)
LEMMA RedoLeaves ==
  ASSUME Inv, Tidy, ~raced, Redo
  PROVE  \E k \in 0 .. Len(deltas) : \E n \in 1 .. Len(deltas) :
           /\ k = NApplied /\ n = k + 1 /\ deltas[n].from = Order(tabs)
           /\ Leaves(n, deltas[n].to) /\ IsPart(deltas', deltas, 1, Len(deltas))
<1>1. /\ deltas \in Seq(Delta) /\ Chain(deltas, last, now)
      /\ IsTable(tabs) /\ selected \in Nat /\ now \in Nat
      /\ \A i \in 1 .. Len(deltas) : About(deltas[i], tabs)
  BY Bounds DEF Inv, Sound, DeltaIds
<1>2. DOMAIN deltas = 1 .. Len(deltas) /\ Len(deltas) \in Nat
  BY <1>1, LenProperties
<1>3. CanEdit /\ created' = created
  BY DEF Redo
<1>4. PICK k \in 0 .. Len(deltas) : k = NApplied
  BY AppliedFacts
<1>5. k + 1 \in 1 .. Len(deltas) /\ Head(Undone) = deltas[k + 1]
  <2>1. /\ Undone \in Seq(Delta) /\ Len(Undone) = Len(deltas) - k
        /\ \A i \in 1 .. Len(deltas) - k : Undone[i] = deltas[k + i]
    BY <1>4, AppliedFacts
  <2>2. Undone # <<>>
    BY DEF Redo
  <2>3. Len(Undone) # 0
    BY <2>1, <2>2, EmptySeq
  <2>4. 1 \in 1 .. Len(deltas) - k /\ k + 1 \in 1 .. Len(deltas)
    <3>1. Len(Undone) \in Nat /\ Len(Undone) = Len(deltas) - k
      BY <2>1, LenProperties
    <3>2. Len(deltas) - k > 0 /\ k \in Nat
      <4> DEFINE m == Len(Undone)
                 x == Len(deltas)
      <4>1. m \in Nat /\ m = x - k /\ m # 0 /\ x \in Nat /\ k \in 0 .. x
        BY <1>2, <2>3, <3>1, ZenonT(60)
      <4> HIDE DEF m, x
      <4>2. x - k > 0 /\ k \in Nat
        BY ONLY <4>1
      <4> QED
        BY <4>2, SMTT(60) DEF x
    <3>3. \A x \in Nat : x - k > 0 => 1 \in 1 .. x - k /\ k + 1 \in 1 .. x
      BY <3>2
    <3> QED
      BY ONLY <1>2, <3>2, <3>3
  <2>5. Head(Undone) = Undone[1] /\ Undone[1] = deltas[k + 1]
    <3>1. Head(Undone) = Undone[1]
      BY <2>1, <2>2, HeadTailProperties
    <3> QED
      BY <2>1, <2>4, <3>1
  <2> QED
    BY <2>4, <2>5
<1> DEFINE n == k + 1
           s == Order(tabs)
<1>6. /\ Possible(deltas[n], deltas[n].from)
      /\ Commit(Forward(deltas[n]), Touched(deltas, deltas[n].id), deltas[n].id, FALSE)
  BY <1>5 DEF Redo
<1>7. Story(deltas, k, s, created) /\ Fits(deltas, k, tabs) /\ InOrder(tabs, selected, s)
  BY <1>4 DEF Tidy, Orderly
<1> HIDE DEF s
<1>8. Story(deltas, n, deltas[n].to, created) /\ deltas[n].from = s
  BY <1>2, <1>5, <1>7, StoryRedone
<1>9. n \in 1 .. Len(deltas) /\ n = k + 1 /\ n \in 0 .. Len(deltas) /\ n # 0
  BY <1>5
<1> HIDE DEF n
<1>10. /\ InOrder(Forward(deltas[n]).tabs, Forward(deltas[n]).selected, deltas[n].to)
       /\ Fits(deltas, n, Forward(deltas[n]).tabs)
       /\ LosesNone(tabs, Forward(deltas[n]).tabs, deltas[n].tab)
  BY <1>1, <1>2, <1>7, <1>9, ForwardShows
<1>11. IsTable(Forward(deltas[n]).tabs)
  <2>1. deltas[n] \in Delta /\ About(deltas[n], tabs)
    BY <1>1, <1>9, ElementOfSeq
  <2> QED
    BY <1>1, <1>6, <2>1, ForwardRows
<1>12. Commit(Forward(deltas[n]), Touched(deltas, deltas[n].id), deltas[n].id, FALSE)
  BY <1>6, Zenon
<1>13. Leaves(n, deltas[n].to) /\ IsPart(deltas', deltas, 1, Len(deltas))
  BY <1>3, <1>8, <1>9, <1>10, <1>11, <1>12, TouchLeaves
<1> QED
  BY <1>4, <1>8, <1>9, <1>13 DEF s

(* Cron's clean-up forgets the ends of the story.                          *)
LEMMA StaleLeaves ==
  ASSUME Inv, Tidy, ~raced, DeleteStaleDeltas
  PROVE  \E k \in 0 .. Len(deltas) : \E a \in 1 .. k + 1, b \in k .. Len(deltas) :
           /\ k = NApplied
           /\ Leaves(k - a + 1, Order(tabs)) /\ IsPart(deltas', deltas, a, b)
<1>1. /\ deltas \in Seq(Delta) /\ Chain(deltas, last, now) /\ IsTable(tabs) /\ now \in Nat
  BY Bounds DEF Inv, Sound, DeltaIds
<1>2. Len(deltas) \in Nat /\ created' = created
  BY <1>1, LenProperties DEF DeleteStaleDeltas
<1>3. PICK k \in 0 .. Len(deltas) : k = NApplied
  BY AppliedFacts
<1>4. PICK a \in 1 .. k + 1 : \E b \in k .. Len(deltas) :
        Commit(Screen, Relinked(SubSeq(deltas, a, b)), last, TRUE)
  BY <1>3, StaleCut, Zenon
<1>5. PICK b \in k .. Len(deltas) :
        Commit(Screen, Relinked(SubSeq(deltas, a, b)), last, TRUE)
  BY <1>4, Zenon
<1> DEFINE new == Relinked(SubSeq(deltas, a, b))
           s   == Order(tabs)
<1>6. SplitsAt(deltas, last, k)
  BY <1>3, AppliedFacts
<1>7. IsCut(new, deltas, a, b)
  BY <1>1, <1>2, RelinkedFacts
<1>8. Commit(Screen, new, last, TRUE)
  BY <1>5, Zenon
<1>9. Story(deltas, k, s, created) /\ Fits(deltas, k, tabs) /\ InOrder(tabs, selected, s)
  BY <1>3 DEF Tidy, Orderly
<1> HIDE DEF new, s
<1>10. SplitsAt(new, last, k - a + 1)
  BY <1>1, <1>2, <1>6, <1>7, ChainCut
<1>11. new \in Seq(Delta) /\ IsPart(new, deltas, a, b)
  BY <1>7 DEF IsCut, IsPart
<1>12. Story(new, k - a + 1, s, created) /\ Fits(new, k - a + 1, tabs)
  BY <1>2, <1>9, <1>11, StoryPart, FitsPart
<1>13. Screen.tabs = tabs /\ Screen.selected = selected
  BY DEF Screen
<1>14. Orderly(Screen.tabs, created, Screen.selected, new, k - a + 1, s)
  BY <1>9, <1>12, <1>13 DEF Orderly
<1>15. /\ Orderly(tabs', created, selected', deltas', k - a + 1, s)
       /\ Orphans(tabs', deltas') = {}
       /\ deltas' = new /\ last' = last /\ failed' = failed
  BY <1>1, <1>8, <1>11, <1>13, <1>14, CommitOrderly
<1> QED
  BY <1>2, <1>3, <1>10, <1>11, <1>15 DEF Leaves, s

(* The delta that do() appends is a delta. *)
LEMMA NewDeltaTyped ==
  ASSUME Inv, CanEdit, NEW command \in Commands, NEW tab \in {None} \cup TabIds,
         NEW step \in {None} \cup TabIds, NEW from \in Seq(TabIds), NEW scr, IsTable(scr.tabs)
  PROVE  NewDelta(command, tab, step, scr, from) \in Delta
<1>1. /\ selected \in Nat /\ now + 1 \in DeltaIds /\ last \in 0 .. now /\ now \in 0 .. MaxEdits
      /\ MaxEdits \in Nat
  BY Bounds DEF Inv, Sound, Chain, CanEdit, DeltaIds
<1>2. Order(scr.tabs) \in Seq(TabIds)
  BY OrderOfAny
<1>3. (IF last \in IdsOf(deltas) THEN last ELSE None) \in DeltaIds
  BY <1>1 DEF DeltaIds, None
<1> QED
  BY <1>1, <1>2, <1>3 DEF NewDelta, Delta

(* A new command goes on with the story, if what it makes of the tabs is   *)
(* what its delta says.                                                    *)
Does(command, tab, step, scr, c, s, r) ==
  /\ command \in Commands /\ tab \in {None} \cup TabIds /\ step \in {None} \cup TabIds
  /\ IsTable(scr.tabs) /\ s = Order(tabs) /\ Kind(NewDelta(command, tab, step, scr, s))
  /\ InOrder(scr.tabs, scr.selected, r) /\ Range(r) \subseteq 1 .. c
  /\ command \in {"AddTab", "DuplicateTab"} => tab \notin 1 .. created
  /\ \A u \in DOMAIN tabs : tabs[u].is_deleted => u \in DOMAIN scr.tabs /\ scr.tabs[u] = tabs[u]
  /\ command = "DeleteTab" => /\ tab \in DOMAIN scr.tabs /\ scr.tabs[tab].is_deleted
                              /\ Inserted(r, tab, scr.tabs[tab].position, s)
  /\ LosesNone(tabs, scr.tabs, tab)

(* The deltas when do() has appended one to the first k. *)
Grows(k, s, r) ==
  /\ Len(deltas') = k + 1 /\ \A i \in 1 .. k : deltas'[i] = deltas[i]
  /\ deltas'[k + 1].from = s /\ deltas'[k + 1].to = r

(* do() leaves a story. *)
LEMMA DoLeaves ==
  ASSUME Inv, Tidy, ~raced, CanEdit, NEW c \in Nat, created <= c, created' = c,
         NEW command, NEW tab, NEW step, NEW scr, NEW s, NEW r,
         Does(command, tab, step, scr, c, s, r), Do(command, tab, step, scr, s)
  PROVE  \E k \in 0 .. Len(deltas) :
           k = NApplied /\ s = Order(tabs) /\ Leaves(k + 1, r) /\ Grows(k, s, r)
<1> DEFINE delta == NewDelta(command, tab, step, scr, s)
           new   == Append(Applied, delta)
           old   == Applied
<1>1. /\ deltas \in Seq(Delta) /\ Chain(deltas, last, now) /\ IsTable(tabs)
      /\ now \in Nat /\ created \in Nat
  BY Bounds DEF Inv, Sound, DeltaIds, TabIds
<1>2. DOMAIN deltas = 1 .. Len(deltas) /\ Len(deltas) \in Nat
  BY <1>1, LenProperties
<1>3. PICK k \in 0 .. Len(deltas) : k = NApplied
  BY AppliedFacts
<1>4. /\ SplitsAt(deltas, last, k)
      /\ old \in Seq(Delta) /\ Len(old) = k /\ \A i \in 1 .. k : old[i] = deltas[i]
      /\ Undone \in Seq(Delta) /\ Len(Undone) = Len(deltas) - k
  BY <1>3, AppliedFacts
<1>5. Story(deltas, k, s, created) /\ Fits(deltas, k, tabs) /\ InOrder(tabs, selected, s)
  BY <1>3 DEF Tidy, Orderly, Does
<1>6. s \in Orders /\ s \in Seq(TabIds) /\ Range(s) = Live(tabs)
  BY <1>5 DEF InOrder, Shows, Orders
<1>7. delta \in Delta
  BY <1>6, NewDeltaTyped DEF Does
<1>8. Order(scr.tabs) = r
  BY OrderShown DEF Does, InOrder
<1>9. /\ delta.id = now + 1 /\ delta.prev = (IF last \in IdsOf(deltas) THEN last ELSE None)
      /\ delta.from = s /\ delta.to = r /\ delta.command = command /\ delta.tab = tab
  BY <1>8 DEF NewDelta
<1>10. Commit(scr, new, now + 1, Undone # <<>>)
  BY DEF Do, NewDelta
<1>11. Kind(delta)
  BY DEF Does
<1> HIDE DEF delta
<1>12. /\ new \in Seq(Delta) /\ Len(new) = k + 1 /\ new[k + 1] = delta
       /\ \A i \in 1 .. k : new[i] = old[i] /\ new[i] = deltas[i]
  BY <1>4, <1>7, AppendProperties
<1> HIDE DEF new, old
<1>13. SplitsAt(new, now + 1, k + 1)
  BY <1>1, <1>4, <1>9, <1>12, ChainGrown
<1>14. IsPart(old, deltas, 1, k)
  BY <1>4 DEF IsPart, SameCommand
<1>15. Story(old, k, s, created) /\ Fits(old, k, tabs)
  <2>1. 1 \in 1 .. k + 1 /\ k \in k .. Len(deltas) /\ (k - 1) + 1 = k
    BY <1>2
  <2>2. Story(old, (k - 1) + 1, s, created)
    BY <1>2, <1>5, <1>14, <2>1, StoryPart
  <2>3. Fits(old, (k - 1) + 1, tabs)
    BY <1>2, <1>5, <1>14, <2>1, FitsPart
  <2> QED
    BY <2>1, <2>2, <2>3
<1>16. \A i \in 1 .. k : Deletes(old[i]) => old[i].tab \notin Range(s)
  BY <1>4, <1>6, <1>15 DEF Fits, Live
<1>17. Story(new, k + 1, r, c)
  <2>1. Adds(delta) => delta.tab \notin 1 .. created
    BY <1>9 DEF Adds, Does
  <2>2. Range(delta.to) \subseteq 1 .. c
    BY <1>9 DEF Does
  <2> QED
    <3>1. /\ k \in Nat /\ created \in Nat /\ c \in Nat /\ created <= c
          /\ Len(old) = k /\ Len(new) = k + 1 /\ new[k + 1] = delta
          /\ \A i \in 1 .. k : new[i] = old[i]
      BY <1>1, <1>2, <1>4, <1>12
    <3>2. Story(new, k + 1, new[k + 1].to, c)
      <4>1. /\ Kind(new[k + 1]) /\ new[k + 1].from = s /\ Range(new[k + 1].to) \subseteq 1 .. c
            /\ Adds(new[k + 1]) => new[k + 1].tab \notin 1 .. created
        BY ONLY <1>9, <1>11, <2>1, <2>2, <3>1
      <4> QED
        BY ONLY <1>15, <1>16, <3>1, <4>1, StoryGrown
    <3> QED
      BY <1>9, <3>1, <3>2
<1>18. Fits(new, k + 1, scr.tabs)
  <2>1. Deletes(delta) => /\ delta.tab \in DOMAIN scr.tabs /\ scr.tabs[delta.tab].is_deleted
                          /\ Inserted(delta.to, delta.tab, scr.tabs[delta.tab].position, delta.from)
    BY <1>9 DEF Deletes, Does
  <2>2. \A u \in DOMAIN tabs : tabs[u].is_deleted =>
                                 u \in DOMAIN scr.tabs /\ scr.tabs[u] = tabs[u]
    BY DEF Does
  <2> QED
    <3>1. /\ k \in Nat /\ Len(old) = k /\ Len(new) = k + 1 /\ delta = new[k + 1]
          /\ \A i \in 1 .. k : new[i] = old[i]
      BY <1>2, <1>4, <1>12, SMTT(60)
    <3> QED
      BY ONLY <1>15, <2>1, <2>2, <3>1, FitsGrown
<1>19. Orderly(scr.tabs, c, scr.selected, new, k + 1, r)
  BY <1>17, <1>18 DEF Orderly, Does
<1>20. ~(Undone # <<>>) => Orphans(scr.tabs, new) = {}
  <2> SUFFICES ASSUME Undone = <<>>, NEW t \in DOMAIN scr.tabs, scr.tabs[t].is_deleted
               PROVE  \E j \in DOMAIN new : new[j].tab = t
    BY DEF Orphans
  <2>1. k = Len(deltas) /\ DOMAIN new = 1 .. k + 1
    <3>1. Len(Undone) = 0
      OBVIOUS
    <3>2. DOMAIN new = 1 .. Len(new)
      BY <1>12, LenProperties
    <3>3. Len(deltas) - k = 0
      BY <1>4, <3>1
    <3>4. k = Len(deltas)
      <4> DEFINE x == Len(deltas)
      <4>1. x \in Nat /\ x - k = 0 /\ k \in 0 .. x
        BY <1>2, <3>3, ZenonT(60)
      <4> HIDE DEF x
      <4>2. k = x
        BY ONLY <4>1
      <4> QED
        BY <4>2 DEF x
    <3> QED
      BY <1>12, <3>2, <3>4, Zenon
  <2>2. t \in DOMAIN tabs /\ (tabs[t].is_deleted \/ t = tab)
    BY DEF Does, LosesNone
  <2>3. CASE t = tab
    BY <1>9, <1>12, <2>1, <2>3
  <2>4. CASE tabs[t].is_deleted
    <3>1. \E j \in DOMAIN deltas : deltas[j].tab = t
      BY <2>2, <2>4 DEF Tidy, Orphans
    <3> QED
      BY <1>2, <1>12, <2>1, <3>1
  <2> QED
    BY <2>2, <2>3, <2>4
<1>21. IsTable(scr.tabs)
  BY DEF Does
<1>22. /\ Orderly(tabs', c, selected', deltas', k + 1, r) /\ Orphans(tabs', deltas') = {}
       /\ deltas' = new /\ last' = now + 1 /\ failed' = failed
  BY <1>10, <1>12, <1>19, <1>20, <1>21, CommitOrderly
<1>23. Leaves(k + 1, r)
  BY <1>13, <1>22 DEF Leaves
<1>24. Grows(k, s, r)
  BY <1>9, <1>12, <1>22 DEF Grows
<1> QED
  BY <1>3, <1>23, <1>24 DEF Does

-----------------------------------------------------------------------------
(* Each new command does what its delta says, unless users race.           *)

(* Any tab but the last can be taken out of an order. *)
LEMMA CanRemove ==
  ASSUME NEW r \in Orders, Len(r) > 1, NEW p \in Nat, p < Len(r)
  PROVE  \E s \in Orders : Inserted(s, r[p + 1], p, r)
<1> DEFINE n == Len(r) - 1
           s == [i \in 1 .. n |-> IF i <= p THEN r[i] ELSE r[i + 1]]
<1>1. /\ Len(r) \in Nat /\ n \in Nat /\ n > 0 /\ n + 1 = Len(r)
      /\ \A i \in 1 .. Len(r) : r[i] \in TabIds
      /\ \A i, j \in 1 .. Len(r) : r[i] = r[j] => i = j
  BY OrderFacts
<1> HIDE DEF n
<1>2. \A i \in 1 .. n : i \in 1 .. Len(r) /\ i + 1 \in 1 .. Len(r)
  BY <1>1
<1>3. \A i \in 1 .. n : s[i] = IF i <= p THEN r[i] ELSE r[i + 1]
  OBVIOUS
<1>4. s \in Seq(TabIds) /\ Len(s) = n
  <2>1. s \in [1 .. n -> TabIds]
    BY <1>1, <1>2
  <2> HIDE DEF s
  <2>2. s \in Seq(TabIds)
    BY <1>1, <2>1, SeqDef
  <2> QED
    BY <1>1, <2>1, <2>2, LenProperties
<1> HIDE DEF s
<1>5. ASSUME NEW i \in 1 .. n, NEW j \in 1 .. n, s[i] = s[j] PROVE i = j
  <2> DEFINE k == IF i <= p THEN i ELSE i + 1
             m == IF j <= p THEN j ELSE j + 1
  <2>1. k \in 1 .. Len(r) /\ m \in 1 .. Len(r) /\ r[k] = r[m]
    BY <1>2, <1>3, <1>5
  <2>2. k = m
    BY <1>1, <2>1
  <2> QED
    BY <1>1, <2>2
<1>6. s \in Orders
  BY <1>1, <1>4, <1>5, OrderIntro
<1>7. ASSUME NEW i \in 1 .. Len(r)
      PROVE  r[i] = IF i <= p THEN s[i] ELSE IF i = p + 1 THEN r[p + 1] ELSE s[i - 1]
  <2>1. CASE i <= p
    <3>1. i \in 1 .. n
      BY <1>1, <2>1
    <3> QED
      BY <1>3, <2>1, <3>1
  <2>2. CASE i = p + 1
    BY <2>2
  <2>3. CASE i > p + 1
    <3>1. i - 1 \in 1 .. n /\ ~(i - 1 <= p) /\ (i - 1) + 1 = i
      BY <1>1, <2>3
    <3>2. s[i - 1] = r[i]
      BY <1>3, <3>1
    <3> QED
      BY <2>3, <3>2
  <2> QED
    BY <1>1, <2>1, <2>2, <2>3
<1>8. Inserted(s, r[p + 1], p, r)
  BY <1>1, <1>4, <1>7 DEF Inserted
<1> QED
  BY <1>6, <1>8

(* What there is when nobody has raced. *)
LEMMA TidyFacts ==
  ASSUME Inv, Tidy, ~raced, NEW s, s = Order(tabs)
  PROVE  /\ Shows(tabs, s) /\ s \in Orders /\ s \in Seq(TabIds) /\ Len(s) \in Nat /\ Len(s) > 0
         /\ Range(s) = Live(tabs) /\ Cardinality(Live(tabs)) = Len(s)
         /\ \A t \in Live(tabs) : tabs[t].position \in Nat /\ tabs[t].position < Len(s)
                                  /\ s[tabs[t].position + 1] = t
         /\ selected \in Nat /\ selected < Len(s) /\ Range(s) \subseteq 1 .. created
         /\ IsTable(tabs) /\ created \in Nat
<1>1. /\ Shows(tabs, s) /\ selected \in Nat /\ selected < Len(s) /\ Range(s) \subseteq 1 .. created
  BY DEF Tidy, Orderly, InOrder, Story
<1>2. s \in Orders /\ Range(s) = Live(tabs) /\ \A i \in 1 .. Len(s) : tabs[s[i]].position = i - 1
  BY <1>1 DEF Shows
<1>3. /\ Len(s) \in Nat /\ Len(s) > 0 /\ \A t \in Live(tabs) : \E i \in 1 .. Len(s) : t = s[i]
  BY <1>2, OrderFacts
<1>4. ASSUME NEW t \in Live(tabs)
      PROVE  tabs[t].position \in Nat /\ tabs[t].position < Len(s) /\ s[tabs[t].position + 1] = t
  <2>1. PICK i \in 1 .. Len(s) : t = s[i]
    BY <1>3
  <2>2. tabs[t].position = i - 1
    BY <1>2, <2>1
  <2> QED
    BY <1>3, <2>1, <2>2
<1>5. Cardinality(Live(tabs)) = Len(s)
  BY <1>1, OrderShown
<1>6. IsTable(tabs) /\ created \in Nat
  BY Bounds DEF Inv, Sound, TabIds
<1>7. s \in Seq(TabIds)
  BY <1>2 DEF Orders
<1> QED
  BY <1>1, <1>2, <1>3, <1>4, <1>5, <1>6, <1>7

(* A new tab among those that there are, or after the last.                *)
LEMMA NewTabDoes ==
  ASSUME Inv, Tidy, ~raced, created < MaxTabs, NEW s, s = Order(tabs),
         NEW command \in {"AddTab", "DuplicateTab"}, NEW p \in 0 .. Len(s), NEW step \in BOOLEAN
  PROVE  \E r \in Orders :
           Does(command, NewTab, None, AddTabForward(WithNewTab(p, step), NewTab, p), NewTab, s, r)
<1> DEFINE ts  == WithNewTab(p, step).tabs
           t   == NewTab
           scr == AddTabForward(WithNewTab(p, step), NewTab, p)
<1>1. /\ Shows(tabs, s) /\ s \in Orders /\ s \in Seq(TabIds) /\ Len(s) \in Nat
      /\ Range(s) = Live(tabs) /\ selected \in Nat /\ selected < Len(s)
      /\ Range(s) \subseteq 1 .. created /\ IsTable(tabs) /\ created \in Nat
  BY TidyFacts
<1>2. /\ t \in TabIds /\ t = created + 1 /\ t \notin 1 .. created
      /\ DOMAIN tabs \subseteq 1 .. created /\ t \notin DOMAIN tabs
  BY <1>1, Bounds DEF NewTab, TabIds, Inv, Sound
<1>3. p \in Nat
  BY <1>1
<1>4. /\ IsTable(ts) /\ DOMAIN ts = DOMAIN tabs \cup {t}
      /\ \A u \in DOMAIN tabs : u # t => ts[u] = tabs[u]
      /\ ts[t] = [position |-> p, is_deleted |-> TRUE, step |-> step]
  BY <1>1, <1>2, <1>3, NewTabRows
<1>5. scr.tabs = PutBack(ts, t, p) /\ scr.selected = p
  BY DEF AddTabForward, PutBack
<1> HIDE DEF ts, t, scr
<1>6. /\ t \in DOMAIN ts /\ ts[t].is_deleted /\ ts[t].position = p
      /\ \A u \in DOMAIN tabs : ts[u] = tabs[u]
  BY <1>2, <1>4
<1>7. Live(ts) = Live(tabs)
  <2>1. Live(ts) \subseteq Live(tabs)
    BY <1>4, <1>6 DEF Live
  <2>2. Live(tabs) \subseteq Live(ts)
    BY <1>4, <1>6 DEF Live
  <2> QED
    BY <2>1, <2>2
<1>8. Shows(ts, s)
  <2>1. \A i \in 1 .. Len(s) : s[i] \in DOMAIN tabs
    BY <1>1, OrderFacts DEF Live
  <2>2. \A i \in 1 .. Len(s) : ts[s[i]].position = i - 1
    BY <1>1, <1>6, <2>1 DEF Shows
  <2> QED
    BY <1>1, <1>7, <2>2 DEF Shows
<1>9. PICK r \in Orders : Inserted(s, t, p, r) /\ Range(r) = Range(s) \cup {t}
  <2>1. t \notin Range(s)
    BY <1>1, <1>2
  <2> QED
    BY <1>1, <1>2, <2>1, CanInsert
<1>10. Shows(scr.tabs, r)
  <2>1. Shows(PutBack(ts, t, ts[t].position), r)
    <3>1. Inserted(s, t, ts[t].position, r)
      BY <1>6, <1>9
    <3> QED
      BY ONLY <1>4, <1>6, <1>8, <1>9, <3>1, PutBackShows
  <2> QED
    BY <1>5, <1>6, <2>1
<1>11. InOrder(scr.tabs, scr.selected, r)
  <2>1. Len(r) = Len(s) + 1
    BY <1>9 DEF Inserted
  <2> QED
    BY <1>1, <1>3, <1>5, <1>10, <2>1 DEF InOrder
<1>12. /\ IsTable(scr.tabs) /\ DOMAIN scr.tabs = DOMAIN tabs \cup {t}
       /\ Live(scr.tabs) = Live(tabs) \cup {t}
       /\ \A u \in DOMAIN ts : u \notin Live(ts) /\ u # t => scr.tabs[u] = ts[u]
  <2>1. /\ DOMAIN PutBack(ts, t, p) = DOMAIN ts /\ IsTable(PutBack(ts, t, p))
        /\ Live(PutBack(ts, t, p)) = Live(ts) \cup {t}
        /\ \A u \in DOMAIN ts : u \notin Live(ts) /\ u # t => PutBack(ts, t, p)[u] = ts[u]
    BY ONLY <1>3, <1>4, <1>6, PutBackRows
  <2> QED
    BY <1>4, <1>5, <1>7, <2>1
<1>13. \A u \in DOMAIN tabs : tabs[u].is_deleted =>
                                u \in DOMAIN scr.tabs /\ scr.tabs[u] = tabs[u]
  BY <1>2, <1>4, <1>6, <1>7, <1>12 DEF Live
<1>14. LosesNone(tabs, scr.tabs, t)
  <2> SUFFICES ASSUME NEW u \in DOMAIN scr.tabs, scr.tabs[u].is_deleted
               PROVE  u \in DOMAIN tabs /\ tabs[u].is_deleted
    BY DEF LosesNone
  <2>1. u \notin Live(tabs) /\ u # t
    BY <1>12 DEF Live
  <2> QED
    BY <1>12, <2>1 DEF Live
<1>15. Kind(NewDelta(command, t, None, scr, s))
  <2>1. Order(scr.tabs) = r
    BY <1>10, OrderShown
  <2> DEFINE d == NewDelta(command, t, None, scr, s)
  <2>2. /\ d.from = s /\ d.to = r /\ d.tab = t /\ d.step = None /\ d.command = command
        /\ d.old_selected = selected
    BY <2>1 DEF NewDelta
  <2>3. command \in Commands /\ command \notin {"DeleteTab", "ReorderTabs", "SetStepNote"}
    BY DEF Commands
  <2> HIDE DEF d
  <2>4. Kind(d)
    BY <1>1, <1>3, <1>9, <2>2, <2>3 DEF Kind, Adds, Deletes
  <2> QED
    BY <2>4 DEF d
<1>16. Range(r) \subseteq 1 .. t
  BY <1>1, <1>2, <1>9
<1>17. Does(command, t, None, scr, t, s, r)
  BY <1>2, <1>11, <1>12, <1>13, <1>14, <1>15, <1>16 DEF Does, Commands
<1> QED
  BY <1>9, <1>17 DEF t, scr

(* What the handlers of new commands leave. *)
Done ==
  \E k \in 0 .. Len(deltas) : \E s, r \in Orders :
    k = NApplied /\ s = Order(tabs) /\ Leaves(k + 1, r) /\ Grows(k, s, r)

(* A command that does what its delta says leaves that. *)
LEMMA DoesDone ==
  ASSUME Inv, Tidy, ~raced, CanEdit, NEW c \in Nat, created <= c, created' = c,
         NEW command, NEW tab, NEW step, NEW scr, NEW s, s = Order(tabs), NEW r \in Orders,
         Does(command, tab, step, scr, c, s, r), Do(command, tab, step, scr, s)
  PROVE  Done
<1>1. s \in Orders
  BY TidyFacts
<1>2. \E k \in 0 .. Len(deltas) :
        k = NApplied /\ s = Order(tabs) /\ Leaves(k + 1, r) /\ Grows(k, s, r)
  BY DoLeaves
<1> QED
  BY <1>1, <1>2, Zenon DEF Done

(* AddTab leaves that. *)
LEMMA AddTabDone == ASSUME Inv, Tidy, ~raced, AddTab PROVE Done
<1> DEFINE s == Order(tabs)
           p == Cardinality(Live(tabs))
<1>1. /\ CanEdit /\ created < MaxTabs /\ created' = NewTab
      /\ Do("AddTab", NewTab, None, AddTabForward(WithNewTab(p, FALSE), NewTab, p), s)
  BY DEF AddTab
<1> HIDE DEF s, p
<1>2. p \in 0 .. Len(s) /\ created \in Nat /\ NewTab \in Nat /\ created <= NewTab
  BY TidyFacts DEF s, p, NewTab
<1>3. "AddTab" \in {"AddTab", "DuplicateTab"} /\ FALSE \in BOOLEAN /\ s = Order(tabs)
  BY DEF s
<1>4. PICK r \in Orders :
        Does("AddTab", NewTab, None, AddTabForward(WithNewTab(p, FALSE), NewTab, p), NewTab, s, r)
  BY <1>1, <1>2, <1>3, NewTabDoes
<1> QED
  BY <1>1, <1>2, <1>3, <1>4, DoesDone

(* DuplicateTab leaves that, if its Tab is as it was loaded. *)
LEMMA DuplicateTabDone ==
  ASSUME Inv, Tidy, ~raced, NEW u \in Users, DuplicateTab(u), ~raced' PROVE Done
<1> DEFINE s    == Order(tabs)
           t    == Loaded(u).tab
           p    == Loaded(u).position + 1
           step == Exists(t) /\ tabs[t].step
<1>1. /\ CanEdit /\ created < MaxTabs /\ created' = NewTab
      /\ Do("DuplicateTab", NewTab, None, AddTabForward(WithNewTab(p, step), NewTab, p), s)
      /\ IsCurrent(Loaded(u))
  BY Zenon DEF DuplicateTab
<1>2. t \in Live(tabs) /\ tabs[t].position + 1 = p
  BY <1>1 DEF IsCurrent, Exists, Live
<1>3. step \in BOOLEAN
  BY Zenon
<1> HIDE DEF s, t, p, step
<1>4. p \in 0 .. Len(s) /\ created \in Nat /\ NewTab \in Nat /\ created <= NewTab
  <2>1. /\ tabs[t].position \in Nat /\ tabs[t].position < Len(s) /\ Len(s) \in Nat
        /\ created \in Nat
    BY <1>2, TidyFacts DEF s
  <2> QED
    BY <1>2, <2>1 DEF NewTab
<1>5. "DuplicateTab" \in {"AddTab", "DuplicateTab"} /\ s = Order(tabs)
  BY DEF s
<1>6. PICK r \in Orders :
        Does("DuplicateTab", NewTab, None, AddTabForward(WithNewTab(p, step), NewTab, p),
             NewTab, s, r)
  BY <1>1, <1>3, <1>4, <1>5, NewTabDoes
<1> QED
  BY <1>1, <1>4, <1>5, <1>6, DoesDone

(* DeleteTab leaves that too, unless there is nothing to do. *)
LEMMA DeleteTabDone ==
  ASSUME Inv, Tidy, ~raced, NEW u \in Users, DeleteTab(u), ~raced'
  PROVE  Done \/ UNCHANGED <<tabRows, history, raced, failed>>
<1> DEFINE s   == Order(tabs)
           t   == Loaded(u).tab
           p   == Loaded(u).position
           scr == DeleteTabForward(Screen, t, p)
<1> SUFFICES ASSUME ~(Cardinality(Live(tabs)) = 1 \/ ~Exists(t)) PROVE Done
  BY Zenon DEF DeleteTab
<1>1. /\ CanEdit /\ created' = created /\ Do("DeleteTab", t, None, scr, s)
      /\ IsCurrent(Loaded(u))
  BY Zenon DEF DeleteTab
<1>2. t \in Live(tabs) /\ tabs[t].position = p
  BY <1>1 DEF IsCurrent, Exists, Live
<1> HIDE DEF t, p
<1>3. /\ Shows(tabs, s) /\ s \in Orders /\ Len(s) \in Nat /\ Len(s) > 1
      /\ Range(s) = Live(tabs) /\ selected \in Nat /\ selected < Len(s)
      /\ Range(s) \subseteq 1 .. created /\ IsTable(tabs) /\ created \in Nat
      /\ p \in Nat /\ p < Len(s) /\ s[p + 1] = t
  BY <1>2, TidyFacts
<1>4. /\ scr.tabs = TakenOut(tabs, t, p)
      /\ scr.selected = IF selected >= p /\ selected > 0 THEN selected - 1 ELSE selected
  BY DEF DeleteTabForward, TakenOut, Screen
<1>5. s = Order(tabs)
  OBVIOUS
<1> HIDE DEF s, scr
<1>6. PICK r \in Orders : Inserted(r, t, p, s)
  BY <1>3, CanRemove
<1>7. /\ Shows(TakenOut(tabs, t, p), r) /\ TakenOut(tabs, t, p)[t].position = p
  BY <1>3, <1>6, TakenOutShows
<1>8. t \in DOMAIN tabs /\ t \in TabIds /\ t # None
  BY <1>2, <1>3 DEF Live, IsTable, TabIds, None
<1>9. /\ DOMAIN scr.tabs = DOMAIN tabs /\ IsTable(scr.tabs)
      /\ Live(scr.tabs) = Live(tabs) \ {t}
      /\ \A v \in DOMAIN tabs : v \notin Live(tabs) /\ v # t => scr.tabs[v] = tabs[v]
  <2>1. /\ DOMAIN TakenOut(tabs, t, p) = DOMAIN tabs /\ IsTable(TakenOut(tabs, t, p))
        /\ Live(TakenOut(tabs, t, p)) = Live(tabs) \ {t}
        /\ \A v \in DOMAIN tabs : v \notin Live(tabs) /\ v # t => TakenOut(tabs, t, p)[v] = tabs[v]
    BY ONLY <1>3, <1>8, TakenOutRows, SMTT(60)
  <2> QED
    BY <1>4, <2>1
<1>10. InOrder(scr.tabs, scr.selected, r)
  <2>1. Len(s) = Len(r) + 1 /\ Len(r) \in Nat
    BY <1>6, OrderFacts DEF Inserted
  <2>2. scr.selected \in Nat /\ scr.selected < Len(r)
    BY <1>3, <1>4, <2>1
  <2> QED
    BY <1>4, <1>7, <2>2 DEF InOrder
<1>11. /\ t \in DOMAIN scr.tabs /\ scr.tabs[t].is_deleted
       /\ Inserted(r, t, scr.tabs[t].position, s)
  <2>1. scr.tabs[t].position = p
    BY <1>4, <1>7
  <2> QED
    BY <1>6, <1>8, <1>9, <2>1 DEF Live
<1>12. \A v \in DOMAIN tabs : tabs[v].is_deleted =>
                                v \in DOMAIN scr.tabs /\ scr.tabs[v] = tabs[v]
  BY <1>2, <1>9 DEF Live
<1>13. LosesNone(tabs, scr.tabs, t)
  BY <1>9 DEF LosesNone, Live
<1>14. Kind(NewDelta("DeleteTab", t, None, scr, s))
  <2>1. Order(scr.tabs) = r
    BY <1>10, OrderShown DEF InOrder
  <2> DEFINE d == NewDelta("DeleteTab", t, None, scr, s)
  <2>2. /\ d.from = s /\ d.to = r /\ d.tab = t /\ d.step = None /\ d.command = "DeleteTab"
    BY <2>1 DEF NewDelta
  <2> HIDE DEF d
  <2>3. Kind(d)
    BY <1>3, <1>6, <2>2 DEF Kind, Adds, Deletes, Commands
  <2> QED
    BY <2>3 DEF d
<1>15. Range(r) \subseteq 1 .. created
  BY <1>3, <1>6, InsertedFacts
<1>16. Does("DeleteTab", t, None, scr, created, s, r)
  BY <1>5, <1>8, <1>9, <1>10, <1>11, <1>12, <1>13, <1>14, <1>15 DEF Does, Commands
<1>17. created <= created
  BY <1>3
<1> QED
  BY <1>1, <1>3, <1>5, <1>6, <1>16, <1>17, DoesDone DEF s, scr

(* SetStepNote changes no tab. *)
LEMMA SetStepNoteDone ==
  ASSUME Inv, Tidy, ~raced, NEW u \in Users, SetStepNote(u), ~raced'
  PROVE  Done \/ UNCHANGED <<tabRows, history, raced, failed>>
<1> DEFINE s == Order(tabs)
           t == Loaded(u).tab
<1> SUFFICES ASSUME Exists(t) PROVE Done
  BY Zenon DEF SetStepNote
<1>1. /\ CanEdit /\ created' = created /\ Do("SetStepNote", None, t, Screen, s)
      /\ ~tabs[t].is_deleted
  BY Zenon DEF SetStepNote
<1>2. t \in Live(tabs)
  BY <1>1 DEF Exists, Live
<1>3. /\ Shows(tabs, s) /\ s \in Orders /\ Range(s) = Live(tabs)
      /\ selected \in Nat /\ selected < Len(s)
      /\ Range(s) \subseteq 1 .. created /\ IsTable(tabs) /\ created \in Nat
  BY TidyFacts
<1>4. s = Order(tabs) /\ Screen.tabs = tabs /\ Screen.selected = selected
  BY DEF Screen
<1> HIDE DEF s, t
<1>5. t \in {None} \cup TabIds
  BY <1>2, <1>3 DEF Live, IsTable
<1>6. Kind(NewDelta("SetStepNote", None, t, Screen, s))
  <2> DEFINE d == NewDelta("SetStepNote", None, t, Screen, s)
  <2>1. /\ d.from = s /\ d.to = s /\ d.step = t /\ d.command = "SetStepNote"
    BY <1>4 DEF NewDelta
  <2> HIDE DEF d
  <2>2. Kind(d)
    BY <1>2, <1>3, <2>1 DEF Kind, Adds, Deletes, Commands
  <2> QED
    BY <2>2 DEF d
<1>7. LosesNone(tabs, Screen.tabs, None)
  BY <1>4 DEF LosesNone
<1>8. Does("SetStepNote", None, t, Screen, created, s, s)
  BY <1>3, <1>4, <1>5, <1>6, <1>7 DEF Does, Commands, InOrder
<1>9. created <= created
  BY <1>3
<1> QED
  BY <1>1, <1>3, <1>4, <1>8, <1>9, DoesDone DEF s, t

(* ReorderTabs writes the order it is asked for. *)
LEMMA ReorderTabsDone == ASSUME Inv, Tidy, ~raced, ReorderTabs PROVE Done
<1> DEFINE s == Order(tabs)
<1>1. CanEdit /\ created' = created
  BY DEF ReorderTabs
<1>2. PICK to \in SetToSeqs(Live(tabs)) :
        Do("ReorderTabs", None, None, Reordered(Screen, s, to), s)
  BY DEF ReorderTabs
<1>3. /\ Shows(tabs, s) /\ s \in Orders /\ Range(s) = Live(tabs) /\ Len(s) \in Nat /\ Len(s) > 0
      /\ selected \in Nat /\ selected < Len(s)
      /\ Range(s) \subseteq 1 .. created /\ IsTable(tabs) /\ created \in Nat
  BY TidyFacts
<1>4. s = Order(tabs) /\ Screen.tabs = tabs /\ Screen.selected = selected
  BY DEF Screen
<1> HIDE DEF s
<1>5. to \in Orders /\ Range(to) = Live(tabs)
  <2>1. Live(tabs) # {}
    BY <1>3, OrderFacts
  <2> QED
    BY <1>2, <1>3, <2>1, AskedOrders
<1> DEFINE scr == Reordered(Screen, s, to)
<1>6. /\ DOMAIN scr.tabs = DOMAIN tabs /\ IsTable(scr.tabs) /\ Live(scr.tabs) = Live(tabs)
      /\ \A v \in DOMAIN tabs : v \notin Range(to) => scr.tabs[v] = tabs[v]
  BY <1>3, <1>4, <1>5, ReorderedRows
<1>7. Shows(scr.tabs, to)
  BY <1>3, <1>4, <1>5, ReorderedShows
<1>8. scr.selected \in Nat /\ scr.selected < Len(to)
  <2>1. s[selected + 1] \in Range(to)
    <3>1. selected + 1 \in 1 .. Len(s)
      BY <1>3
    <3> QED
      BY <1>3, <1>5, <3>1, OrderFacts
  <2>2. /\ IndexOf(to, s[selected + 1]) - 1 \in Nat /\ Len(to) \in Nat
        /\ IndexOf(to, s[selected + 1]) \in 1 .. Len(to)
    BY <1>5, <2>1, OrderFacts, IndexFacts
  <2>3. scr.selected = IndexOf(to, s[selected + 1]) - 1
    BY <1>4 DEF Reordered
  <2> QED
    BY <2>2, <2>3
<1>9. Do("ReorderTabs", None, None, scr, s)
  BY <1>2
<1> HIDE DEF scr
<1>10. \A v \in DOMAIN tabs : tabs[v].is_deleted =>
                                v \in DOMAIN scr.tabs /\ scr.tabs[v] = tabs[v]
  BY <1>5, <1>6 DEF Live
<1>11. LosesNone(tabs, scr.tabs, None)
  BY <1>6 DEF LosesNone, Live
<1>12. Kind(NewDelta("ReorderTabs", None, None, scr, s))
  <2>1. Order(scr.tabs) = to
    BY <1>7, OrderShown
  <2> DEFINE d == NewDelta("ReorderTabs", None, None, scr, s)
  <2>2. /\ d.from = s /\ d.to = to /\ d.step = None /\ d.command = "ReorderTabs"
    BY <2>1 DEF NewDelta
  <2> HIDE DEF d
  <2>3. Kind(d)
    BY <1>3, <1>5, <2>2 DEF Kind, Adds, Deletes, Commands
  <2> QED
    BY <2>3 DEF d
<1>13. Does("ReorderTabs", None, None, scr, created, s, to)
  BY <1>3, <1>4, <1>5, <1>6, <1>7, <1>8, <1>10, <1>11, <1>12 DEF Does, Commands, InOrder
<1>14. created <= created
  BY <1>3
<1> QED
  BY <1>1, <1>3, <1>4, <1>5, <1>9, <1>13, <1>14, DoesDone DEF s

-----------------------------------------------------------------------------
(* The theorems about those who do not race.                               *)

(* Undo, redo, and clean-up, which may also change nothing. *)
GoesBack ==
  \E k \in 1 .. Len(deltas) :
    /\ k = NApplied /\ deltas[k].to = Order(tabs)
    /\ Leaves(k - 1, deltas[k].from) /\ IsPart(deltas', deltas, 1, Len(deltas))

GoesOn ==
  \E k \in 0 .. Len(deltas) : \E n \in 1 .. Len(deltas) :
    /\ k = NApplied /\ n = k + 1 /\ deltas[n].from = Order(tabs)
    /\ Leaves(n, deltas[n].to) /\ IsPart(deltas', deltas, 1, Len(deltas))

Forgets ==
  \E k \in 0 .. Len(deltas) : \E a \in 1 .. k + 1, b \in k .. Len(deltas) :
    /\ k = NApplied
    /\ Leaves(k - a + 1, Order(tabs)) /\ IsPart(deltas', deltas, a, b)

(* A step that leaves the deltas and the tabs alone, but for the choice of *)
(* one of them, forgets nothing.                                           *)
LEMMA StillForgets ==
  ASSUME Inv, Tidy, ~raced, UNCHANGED <<tabs, created, deltas, last, failed>>,
         selected' = selected \/ \E t \in Live(tabs) : selected' = tabs[t].position
  PROVE  Forgets
<1> DEFINE s == Order(tabs)
<1>1. deltas \in Seq(Delta)
  BY DEF Inv, Sound
<1>2. Len(deltas) \in Nat
  BY <1>1, LenProperties
<1>3. PICK k \in 0 .. Len(deltas) : k = NApplied
  BY AppliedFacts
<1>4. SplitsAt(deltas, last, k)
  BY <1>3, AppliedFacts
<1>5. Story(deltas, k, s, created) /\ Fits(deltas, k, tabs) /\ Orphans(tabs, deltas) = {}
  BY <1>3 DEF Tidy, Orderly
<1>6. s = Order(tabs)
  OBVIOUS
<1> HIDE DEF s
<1>7. selected' \in Nat /\ selected' < Len(s) /\ Shows(tabs, s)
  BY <1>6, TidyFacts
<1>8. Leaves(k, s)
  BY <1>4, <1>5, <1>7 DEF Leaves, Orderly, InOrder
<1>9. IsPart(deltas', deltas, 1, Len(deltas))
  BY <1>2 DEF IsPart, SameCommand
<1>10. 1 \in 1 .. k + 1 /\ Len(deltas) \in k .. Len(deltas) /\ k - 1 + 1 = k
  BY <1>2
<1>11. Leaves(k - 1 + 1, s)
  BY <1>8, <1>10
<1> QED
  BY <1>3, <1>6, <1>9, <1>10, <1>11 DEF Forgets

(* Every step of those who do not race is one of these.                    *)
LEMMA NextMoves ==
  ASSUME Inv, Tidy, [Next]_vars, ~raced'
  PROVE  ~raced /\ (Done \/ GoesBack \/ GoesOn \/ Forgets)
<1>1. CASE UNCHANGED vars
  <2>1. ~raced /\ UNCHANGED <<tabs, created, deltas, last, failed>> /\ selected' = selected
    BY <1>1 DEF vars, tabRows, history
  <2> QED
    BY <2>1, StillForgets
<1>2. CASE Undo
  <2>1. ~raced
    BY <1>2 DEF Undo
  <2> QED
    BY <1>2, <2>1, UndoLeaves DEF GoesBack
<1>3. CASE Redo
  <2>1. ~raced
    BY <1>3 DEF Redo
  <2> QED
    BY <1>3, <2>1, RedoLeaves DEF GoesOn
<1>4. CASE DeleteStaleDeltas
  <2>1. ~raced
    BY <1>4 DEF DeleteStaleDeltas
  <2> QED
    BY <1>4, <2>1, StaleLeaves DEF Forgets
<1>5. CASE AddTab
  <2>1. ~raced
    BY <1>5 DEF AddTab
  <2> QED
    BY <1>5, <2>1, AddTabDone
<1>6. CASE ReorderTabs
  <2>1. ~raced
    BY <1>6 DEF ReorderTabs
  <2> QED
    BY <1>6, <2>1, ReorderTabsDone
<1>7. CASE SetSelectedTab
  <2>1. /\ ~raced /\ UNCHANGED <<tabs, created, deltas, last, failed>>
        /\ \E t \in Live(tabs) : selected' = tabs[t].position
    BY <1>7 DEF SetSelectedTab
  <2> QED
    BY <2>1, StillForgets
<1>8. ASSUME NEW u \in Users, Load(u)
      PROVE  ~raced /\ Forgets
  <2>1. ~raced /\ UNCHANGED <<tabs, created, deltas, last, failed>> /\ selected' = selected
    BY <1>8 DEF Load, tabRows, history
  <2> QED
    BY <2>1, StillForgets
<1>9. ASSUME NEW u \in Users, DuplicateTab(u)
      PROVE  ~raced /\ Done
  <2>1. ~raced
    BY <1>9 DEF DuplicateTab
  <2> QED
    BY <1>9, <2>1, DuplicateTabDone
<1>10. ASSUME NEW u \in Users, DeleteTab(u)
       PROVE  ~raced /\ (Done \/ Forgets)
  <2>1. ~raced
    BY <1>10 DEF DeleteTab
  <2>2. CASE Done
    BY <2>1, <2>2
  <2>3. CASE UNCHANGED <<tabRows, history, raced, failed>>
    <3>1. UNCHANGED <<tabs, created, deltas, last, failed>> /\ selected' = selected
      BY <2>3 DEF tabRows, history
    <3> QED
      BY <2>1, <3>1, StillForgets
  <2> QED
    BY <1>10, <2>1, <2>2, <2>3, DeleteTabDone
<1>11. ASSUME NEW u \in Users, SetStepNote(u)
       PROVE  ~raced /\ (Done \/ Forgets)
  <2>1. ~raced
    BY <1>11 DEF SetStepNote
  <2>2. CASE Done
    BY <2>1, <2>2
  <2>3. CASE UNCHANGED <<tabRows, history, raced, failed>>
    <3>1. UNCHANGED <<tabs, created, deltas, last, failed>> /\ selected' = selected
      BY <2>3 DEF tabRows, history
    <3> QED
      BY <2>1, <3>1, StillForgets
  <2> QED
    BY <1>11, <2>1, <2>2, <2>3, SetStepNoteDone
<1> QED
  BY <1>1, <1>2, <1>3, <1>4, <1>5, <1>6, <1>7, <1>8, <1>9, <1>10, <1>11 DEF Next

(* At first there is no delta. *)
LEMMA TidyInit == Init => Tidy
<1> SUFFICES ASSUME Init PROVE Tidy
  OBVIOUS
<1> DEFINE s == [i \in 1 .. NFirstTabs |-> i]
<1>1. /\ NFirstTabs \in Nat /\ NFirstTabs > 0 /\ 1 .. NFirstTabs \subseteq TabIds
  BY Bounds DEF TabIds
<1>2. /\ deltas = <<>> /\ Len(deltas) = 0 /\ DOMAIN deltas = {} /\ deltas \in Seq(Delta)
  BY EmptySeq DEF Init
<1>3. /\ DOMAIN tabs = 1 .. NFirstTabs /\ Live(tabs) = 1 .. NFirstTabs
      /\ \A t \in 1 .. NFirstTabs : tabs[t].position = t - 1 /\ ~tabs[t].is_deleted
  BY DEF Init, Live
<1>4. s \in Seq(TabIds) /\ Len(s) = NFirstTabs
  <2>1. s \in [1 .. NFirstTabs -> TabIds]
    BY <1>1
  <2> HIDE DEF s
  <2>2. s \in Seq(TabIds)
    BY <1>1, <2>1, SeqDef
  <2> QED
    BY <1>1, <2>1, <2>2, LenProperties
<1>5. \A i \in 1 .. Len(s) : s[i] = i
  BY <1>4
<1>6. Range(s) = 1 .. NFirstTabs
  BY DEF Range
<1> HIDE DEF s
<1>7. s \in Orders
  BY <1>1, <1>4, <1>5, OrderIntro
<1>8. Shows(tabs, s)
  BY <1>3, <1>4, <1>5, <1>6, <1>7 DEF Shows
<1>9. Order(tabs) = s
  BY <1>8, OrderShown
<1>10. NApplied = 0
  <2>1. SplitsAt(deltas, last, 0)
    BY <1>2 DEF SplitsAt
  <2> QED
    BY <1>2, <2>1, SplitOnce DEF NApplied
<1>11. selected \in Nat /\ selected < Len(s) /\ created = NFirstTabs
  BY <1>1, <1>4 DEF Init
<1>12. Story(deltas, 0, s, created)
  BY <1>2, <1>6, <1>7, <1>11 DEF Story
<1>13. Fits(deltas, 0, tabs)
  BY <1>2 DEF Fits
<1>14. Orphans(tabs, deltas) = {} /\ ~failed
  BY <1>3 DEF Orphans, Init
<1> QED
  BY <1>8, <1>9, <1>10, <1>11, <1>12, <1>13, <1>14 DEF Tidy, Orderly, InOrder

(* Every step keeps the tabs tidy, as long as nobody races. *)
LEMMA TidyNext == ASSUME Inv, Inv', Tidy, [Next]_vars PROVE Tidy'
<1> SUFFICES ASSUME ~raced' PROVE Tidy'
  BY DEF Tidy
<1>1. ~raced /\ (Done \/ GoesBack \/ GoesOn \/ Forgets)
  BY NextMoves
<1>2. PICK k, s : Leaves(k, s)
  BY <1>1, Zenon DEF Done, GoesBack, GoesOn, Forgets
<1> QED
  BY <1>1, <1>2, LeavesTidy

(* Nobody sees the tabs out of order who has not raced for one. *)
THEOREM Tidiness == Spec => [](Inv /\ Tidy)
<1>1. Init => Inv /\ Tidy
  BY InvInit, TidyInit
<1>2. Inv /\ Tidy /\ Inv' /\ [Next]_vars => Tidy'
  BY TidyNext
<1>3. Spec => []Inv
  BY Invariance
<1> QED
  BY <1>1, <1>2, <1>3, PTL DEF Spec

(* The live tabs have positions 0, 1, 2 ... and one of them is selected,   *)
(* through all undos, redos and clean-ups, unless users race: what the     *)
(* commands' additions and subtractions of 1 rely on.                      *)
THEOREM TabsStayInOrder == Spec => []TabsAreInOrder
<1>1. Inv /\ Tidy => TabsAreInOrder
  BY TidyImplies
<1> QED
  BY <1>1, Tidiness, PTL

(* No purge of deleted tabs runs into a delta that protects one of their   *)
(* steps, and no deleted tab is left behind, unless users race.            *)
THEOREM PurgesStaySafe == Spec => []PurgesAreSafeAndComplete
<1>1. Inv /\ Tidy => PurgesAreSafeAndComplete
  BY TidyImplies
<1> QED
  BY <1>1, Tidiness, PTL

-----------------------------------------------------------------------------
(* The tabs keep the promises of UndoHistory.                              *)

(* Its past and its future are in the deltas. *)
LEMMA PastAndFuture ==
  ASSUME NEW ds \in Seq(Delta), NEW k \in 0 .. Len(ds)
  PROVE  /\ OrdersBefore(SubSeq(ds, 1, k)) \in Seq(Seq(TabIds))
         /\ Len(OrdersBefore(SubSeq(ds, 1, k))) = k
         /\ \A i \in 1 .. k : OrdersBefore(SubSeq(ds, 1, k))[i] = ds[i].from
         /\ OrdersAfter(SubSeq(ds, k + 1, Len(ds))) \in Seq(Seq(TabIds))
         /\ Len(OrdersAfter(SubSeq(ds, k + 1, Len(ds)))) = Len(ds) - k
         /\ \A i \in 1 .. Len(ds) - k : OrdersAfter(SubSeq(ds, k + 1, Len(ds)))[i] = ds[k + i].to
<1> DEFINE old == SubSeq(ds, 1, k)
           new == SubSeq(ds, k + 1, Len(ds))
<1>1. Len(ds) \in Nat /\ k \in Nat /\ k <= Len(ds)
  BY LenProperties
<1>2. \A i \in 1 .. Len(ds) : ds[i] \in Delta
  BY ElementOfSeq
<1>3. old \in Seq(Delta) /\ Len(old) = k /\ \A i \in 1 .. k : old[i] = ds[i]
  <2>1. 1 \in Int /\ k \in Int /\ \A i \in 1 .. k : ds[i] \in Delta
    BY <1>1, <1>2
  <2>2. /\ old \in Seq(Delta) /\ Len(old) = IF 1 <= k THEN k - 1 + 1 ELSE 0
        /\ \A i \in 1 .. k - 1 + 1 : old[i] = ds[1 + i - 1]
    BY <2>1, SubSeqProperties
  <2> QED
    BY <1>1, <2>2
<1>4. /\ new \in Seq(Delta) /\ Len(new) = Len(ds) - k
      /\ \A i \in 1 .. Len(ds) - k : new[i] = ds[k + i]
  <2>1. /\ k + 1 \in Int /\ Len(ds) \in Int
        /\ \A i \in k + 1 .. Len(ds) : ds[i] \in Delta
    BY <1>1, <1>2
  <2>2. /\ new \in Seq(Delta)
        /\ Len(new) = IF k + 1 <= Len(ds) THEN Len(ds) - (k + 1) + 1 ELSE 0
        /\ \A i \in 1 .. Len(ds) - (k + 1) + 1 : new[i] = ds[k + 1 + i - 1]
    BY <2>1, SubSeqProperties
  <2> QED
    BY <1>1, <2>2
<1> HIDE DEF old, new
<1>5. ASSUME NEW s \in Seq(Delta)
      PROVE  /\ OrdersBefore(s) \in Seq(Seq(TabIds)) /\ Len(OrdersBefore(s)) = Len(s)
             /\ OrdersAfter(s) \in Seq(Seq(TabIds)) /\ Len(OrdersAfter(s)) = Len(s)
             /\ \A i \in 1 .. Len(s) : OrdersBefore(s)[i] = s[i].from /\ OrdersAfter(s)[i] = s[i].to
  <2>1. /\ DOMAIN s = 1 .. Len(s) /\ Len(s) \in Nat
        /\ \A i \in 1 .. Len(s) : s[i] \in Delta
    BY LenProperties, ElementOfSeq
  <2>2. \A i \in 1 .. Len(s) : s[i].from \in Seq(TabIds) /\ s[i].to \in Seq(TabIds)
    BY <2>1 DEF Delta
  <2>3. /\ OrdersBefore(s) \in [1 .. Len(s) -> Seq(TabIds)]
        /\ OrdersAfter(s) \in [1 .. Len(s) -> Seq(TabIds)]
    BY <2>1, <2>2 DEF OrdersBefore, OrdersAfter
  <2>4. \A i \in 1 .. Len(s) : OrdersBefore(s)[i] = s[i].from /\ OrdersAfter(s)[i] = s[i].to
    BY <2>1 DEF OrdersBefore, OrdersAfter
  <2>5. OrdersBefore(s) \in Seq(Seq(TabIds)) /\ OrdersAfter(s) \in Seq(Seq(TabIds))
    <3> DEFINE S == Seq(TabIds)
               n == Len(s)
    <3>1. OrdersBefore(s) \in [1 .. n -> S] /\ OrdersAfter(s) \in [1 .. n -> S] /\ n \in Nat
      BY <2>1, <2>3
    <3> HIDE DEF S, n
    <3>2. OrdersBefore(s) \in Seq(S) /\ OrdersAfter(s) \in Seq(S)
      BY ONLY <3>1, SeqDef
    <3> QED
      BY <3>2 DEF S
  <2>6. Len(OrdersBefore(s)) = Len(s) /\ Len(OrdersAfter(s)) = Len(s)
    BY <2>1, <2>3, <2>5, LenProperties
  <2> QED
    BY <2>4, <2>5, <2>6
<1>6. /\ OrdersBefore(old) \in Seq(Seq(TabIds)) /\ Len(OrdersBefore(old)) = k
      /\ \A i \in 1 .. k : OrdersBefore(old)[i] = ds[i].from
  BY <1>3, <1>5
<1>7. /\ OrdersAfter(new) \in Seq(Seq(TabIds)) /\ Len(OrdersAfter(new)) = Len(ds) - k
      /\ \A i \in 1 .. Len(ds) - k : OrdersAfter(new)[i] = ds[k + i].to
  <2>1. \A i \in 1 .. Len(new) : OrdersAfter(new)[i] = new[i].to
    BY <1>4, <1>5
  <2>2. \A i \in 1 .. Len(ds) - k : OrdersAfter(new)[i] = ds[k + i].to
    BY <1>4, <2>1
  <2> QED
    BY <1>4, <1>5, <2>2
<1> QED
  BY <1>6, <1>7 DEF old, new

(* The state of UndoHistory, then and after a step. *)
Past(k, new)   == /\ new \in Seq(Seq(TabIds)) /\ Len(new) = k
                  /\ \A i \in 1 .. k : new[i] = deltas[i].from
Future(k, new) == /\ new \in Seq(Seq(TabIds)) /\ Len(new) = Len(deltas) - k
                  /\ \A i \in 1 .. Len(deltas) - k : new[i] = deltas[k + i].to

(* That is what the mapping gives. *)
LEMMA Mapped ==
  ASSUME deltas \in Seq(Delta), NEW k \in 0 .. Len(deltas), k = NApplied
  PROVE  Past(k, OrdersBefore(Applied)) /\ Future(k, OrdersAfter(Undone))
BY PastAndFuture DEF Past, Future, Applied, Undone

(* ... after the step too. *)
LEMMA MappedNext ==
  ASSUME deltas' \in Seq(Delta), NEW k \in 0 .. Len(deltas'), k = NApplied'
  PROVE  /\ OrdersBefore(Applied)' \in Seq(Seq(TabIds)) /\ Len(OrdersBefore(Applied)') = k
         /\ \A i \in 1 .. k : OrdersBefore(Applied)'[i] = deltas'[i].from
         /\ OrdersAfter(Undone)' \in Seq(Seq(TabIds))
         /\ Len(OrdersAfter(Undone)') = Len(deltas') - k
         /\ \A i \in 1 .. Len(deltas') - k : OrdersAfter(Undone)'[i] = deltas'[k + i].to
BY PastAndFuture DEF Applied, Undone

(* The last of p is gone from q, and s is before f in g.                   *)
Shorter(S, p, f, q, g, s) ==
  /\ p \in Seq(S) /\ f \in Seq(S) /\ q \in Seq(S) /\ g \in Seq(S) /\ s \in S
  /\ Len(p) > 0 /\ Len(q) = Len(p) - 1 /\ Len(g) = Len(f) + 1
  /\ \A i \in 1 .. Len(q) : q[i] = p[i]
  /\ g[1] = s /\ \A i \in 1 .. Len(f) : g[i + 1] = f[i]

(* In terms of UndoHistory: *)
LEMMA UndoneSequences ==
  ASSUME NEW S, NEW p, NEW f, NEW q, NEW g, NEW s, Shorter(S, p, f, q, g, s)
  PROVE  p # <<>> /\ q = Front(p) /\ g = <<s>> \o f
<1> USE DEF Shorter
<1>1. Len(p) \in Nat /\ Len(f) \in Nat /\ p # <<>>
  BY LenProperties
<1>2. q = SubSeq(p, 1, Len(p) - 1)
  <2>1. \A i \in 1 .. Len(p) - 1 : p[i] \in S
    BY <1>1, ElementOfSeq
  <2>2. /\ SubSeq(p, 1, Len(p) - 1) \in Seq(S)
        /\ Len(SubSeq(p, 1, Len(p) - 1)) = Len(p) - 1
        /\ \A i \in 1 .. Len(p) - 1 : SubSeq(p, 1, Len(p) - 1)[i] = p[i]
    <3> DEFINE n == Len(p) - 1
    <3>1. n \in Int /\ 1 \in Int /\ \A i \in 1 .. n : p[i] \in S
      BY <1>1, <2>1
    <3>2. n - 1 + 1 = n /\ (IF 1 <= n THEN n - 1 + 1 ELSE 0) = n
      BY <1>1
    <3> HIDE DEF n
    <3>3. /\ SubSeq(p, 1, n) \in Seq(S)
          /\ Len(SubSeq(p, 1, n)) = IF 1 <= n THEN n - 1 + 1 ELSE 0
          /\ \A i \in 1 .. n - 1 + 1 : SubSeq(p, 1, n)[i] = p[1 + i - 1]
      BY ONLY <3>1, SubSeqProperties
    <3>4. \A i \in 1 .. n : SubSeq(p, 1, n)[i] = p[i]
      BY ONLY <3>1, <3>2, <3>3
    <3> QED
      BY <3>2, <3>3, <3>4 DEF n
  <2> QED
    BY <2>2, SeqEqual
<1>3. g = <<s>> \o f
  <2>1. <<s>> \in Seq(S) /\ Len(<<s>>) = 1 /\ <<s>>[1] = s
    OBVIOUS
  <2>2. /\ <<s>> \o f \in Seq(S) /\ Len(<<s>> \o f) = 1 + Len(f)
        /\ \A i \in 1 .. 1 + Len(f) : (<<s>> \o f)[i] = IF i <= 1 THEN <<s>>[i] ELSE f[i - 1]
    BY <2>1, ConcatProperties
  <2>3. ASSUME NEW i \in 1 .. Len(g) PROVE g[i] = (<<s>> \o f)[i]
    <3>1. CASE i = 1
      BY <1>1, <2>1, <2>2, <3>1
    <3>2. CASE i # 1
      <4>1. i - 1 \in 1 .. Len(f) /\ (i - 1) + 1 = i /\ i \in 1 .. 1 + Len(f) /\ ~(i <= 1)
        BY <1>1, <3>2
      <4>2. (<<s>> \o f)[i] = f[i - 1]
        BY <2>2, <4>1
      <4>3. g[(i - 1) + 1] = f[i - 1]
        BY <4>1
      <4> QED
        BY <4>1, <4>2, <4>3
    <3> QED
      BY <3>1, <3>2
  <2>4. Len(g) = Len(<<s>> \o f)
    BY <1>1, <2>2
  <2> QED
    BY <2>2, <2>3, <2>4, SeqEqual
<1> QED
  BY <1>1, <1>2, <1>3 DEF Front

(* s is after p in q, and the first of f is gone from g.                   *)
Longer(S, p, f, q, g, s) ==
  /\ p \in Seq(S) /\ f \in Seq(S) /\ q \in Seq(S) /\ g \in Seq(S) /\ s \in S
  /\ Len(f) > 0 /\ Len(q) = Len(p) + 1 /\ Len(g) = Len(f) - 1
  /\ \A i \in 1 .. Len(p) : q[i] = p[i]
  /\ q[Len(p) + 1] = s /\ \A i \in 1 .. Len(g) : g[i] = f[i + 1]

(* In terms of UndoHistory: *)
LEMMA RedoneSequences ==
  ASSUME NEW S, NEW p, NEW f, NEW q, NEW g, NEW s, Longer(S, p, f, q, g, s)
  PROVE  f # <<>> /\ q = Append(p, s) /\ g = Tail(f)
<1> USE DEF Longer
<1>1. Len(p) \in Nat /\ Len(f) \in Nat /\ f # <<>>
  BY LenProperties
<1>2. q = Append(p, s)
  <2>1. /\ Append(p, s) \in Seq(S) /\ Len(Append(p, s)) = Len(p) + 1
        /\ \A i \in 1 .. Len(p) : Append(p, s)[i] = p[i]
        /\ Append(p, s)[Len(p) + 1] = s
    BY AppendProperties
  <2>2. \A i \in 1 .. Len(q) : q[i] = Append(p, s)[i]
    BY <1>1, <2>1
  <2> QED
    BY <2>1, <2>2, SeqEqual
<1>3. g = Tail(f)
  <2>1. /\ Tail(f) \in Seq(S) /\ Len(Tail(f)) = Len(f) - 1
        /\ \A i \in 1 .. Len(Tail(f)) : Tail(f)[i] = f[i + 1]
    BY <1>1, HeadTailProperties
  <2> QED
    BY <2>1, SeqEqual
<1> QED
  BY <1>1, <1>2, <1>3

(* Part of a sequence. *)
LEMMA PartOfSequence ==
  ASSUME NEW S, NEW p \in Seq(S), NEW q \in Seq(S), NEW m \in Int, NEW n \in Int,
         1 <= m, n <= Len(p), m <= n + 1, Len(q) = n - m + 1,
         \A i \in 1 .. n - m + 1 : q[i] = p[m + i - 1]
  PROVE  q = SubSeq(p, m, n)
<1>1. \A i \in m .. n : p[i] \in S
  <2>1. \A i \in m .. n : i \in 1 .. Len(p)
    BY LenProperties
  <2> QED
    BY <2>1, ElementOfSeq
<1>2. /\ SubSeq(p, m, n) \in Seq(S) /\ Len(SubSeq(p, m, n)) = IF m <= n THEN n - m + 1 ELSE 0
      /\ \A i \in 1 .. n - m + 1 : SubSeq(p, m, n)[i] = p[m + i - 1]
  BY <1>1, SubSeqProperties
<1>3. Len(SubSeq(p, m, n)) = n - m + 1
  BY <1>2
<1> QED
  BY <1>2, <1>3, SeqEqual

(* Undo shows the order there was before the command. *)
LEMMA RefinesUndo == ASSUME Inv, Inv', Tidy, ~raced, GoesBack PROVE History!Undo
<1> DEFINE p == OrdersBefore(Applied)
           f == OrdersAfter(Undone)
           q == OrdersBefore(Applied)'
           g == OrdersAfter(Undone)'
           S == Seq(TabIds)
<1>1. PICK k \in 1 .. Len(deltas) :
        /\ k = NApplied /\ deltas[k].to = Order(tabs)
        /\ Leaves(k - 1, deltas[k].from) /\ IsPart(deltas', deltas, 1, Len(deltas))
  BY DEF GoesBack
<1>2. /\ deltas \in Seq(Delta) /\ deltas' \in Seq(Delta) /\ Len(deltas) \in Nat
  BY LenProperties DEF Inv, Sound
<1>3. /\ Len(deltas') = Len(deltas)
      /\ \A i \in 1 .. Len(deltas) : /\ deltas'[i].from = deltas[i].from
                                     /\ deltas'[i].to = deltas[i].to
  BY <1>1, <1>2 DEF IsPart, SameCommand
<1>4. NApplied' = k - 1 /\ Order(tabs)' = deltas[k].from
  BY <1>1, LeavesTidy
<1>5. k \in 0 .. Len(deltas) /\ k - 1 \in 0 .. Len(deltas') /\ k \in Nat /\ k > 0
  BY <1>2, <1>3
<1>6. Past(k, p) /\ Future(k, f)
  BY <1>1, <1>2, <1>5, Mapped
<1>7. /\ q \in Seq(S) /\ Len(q) = k - 1 /\ \A i \in 1 .. k - 1 : q[i] = deltas'[i].from
      /\ g \in Seq(S) /\ Len(g) = Len(deltas') - (k - 1)
      /\ \A i \in 1 .. Len(deltas') - (k - 1) : g[i] = deltas'[(k - 1) + i].to
  BY <1>2, <1>4, <1>5, MappedNext
<1>8. Order(tabs) \in S
  BY OrderOfAny DEF Inv, Sound
<1> HIDE DEF p, f, q, g, S
<1>9. p \in Seq(S) /\ f \in Seq(S) /\ Len(p) = k /\ Len(f) = Len(deltas) - k
  BY <1>6 DEF Past, Future, S
<1>10. \A i \in 1 .. Len(q) : q[i] = p[i]
  <2> SUFFICES ASSUME NEW i \in 1 .. k - 1 PROVE q[i] = p[i]
    BY <1>7
  <2>1. i \in 1 .. k /\ i \in 1 .. Len(deltas)
    BY <1>2, <1>5
  <2>2. q[i] = deltas'[i].from /\ p[i] = deltas[i].from
    BY <1>6, <1>7, <2>1 DEF Past
  <2> QED
    BY <1>3, <2>1, <2>2
<1>11. g[1] = Order(tabs)
  <2>1. 1 \in 1 .. Len(deltas') - (k - 1) /\ (k - 1) + 1 = k
    BY <1>2, <1>3, <1>5
  <2>2. g[1] = deltas'[k].to
    BY <1>7, <2>1
  <2> QED
    BY <1>1, <1>3, <2>2
<1>12. ASSUME NEW i \in 1 .. Len(f) PROVE g[i + 1] = f[i]
  <2>1. /\ i + 1 \in 1 .. Len(deltas') - (k - 1) /\ (k - 1) + (i + 1) = k + i
        /\ k + i \in 1 .. Len(deltas) /\ i \in 1 .. Len(deltas) - k
    BY <1>2, <1>3, <1>5, <1>9
  <2>2. g[i + 1] = deltas'[k + i].to
    BY <1>7, <2>1
  <2>3. f[i] = deltas[k + i].to
    BY <1>6, <2>1 DEF Future
  <2> QED
    BY <1>3, <2>1, <2>2, <2>3
<1>13. Len(p) > 0 /\ Len(q) = Len(p) - 1 /\ Len(g) = Len(f) + 1
  BY <1>2, <1>3, <1>5, <1>7, <1>9
<1>14. p # <<>> /\ q = Front(p) /\ g = <<Order(tabs)>> \o f
  <2>1. q \in Seq(S) /\ g \in Seq(S) /\ \A i \in 1 .. Len(f) : g[i + 1] = f[i]
    BY <1>7, <1>12
  <2>2. Shorter(S, p, f, q, g, Order(tabs))
    BY ONLY <1>8, <1>9, <1>10, <1>11, <1>13, <2>1 DEF Shorter
  <2> QED
    BY ONLY <2>2, UndoneSequences
<1>15. Order(tabs)' = Last(p)
  BY <1>4, <1>5, <1>6 DEF Past, Last
<1> QED
  BY <1>14, <1>15 DEF History!Undo, History!Front, History!Last, Front, Last, p, f, q, g

(* Redo shows the order there was after it. *)
LEMMA RefinesRedo == ASSUME Inv, Inv', Tidy, ~raced, GoesOn PROVE History!Redo
<1> DEFINE p == OrdersBefore(Applied)
           f == OrdersAfter(Undone)
           q == OrdersBefore(Applied)'
           g == OrdersAfter(Undone)'
           S == Seq(TabIds)
<1>1. PICK k \in 0 .. Len(deltas), n \in 1 .. Len(deltas) :
        /\ k = NApplied /\ n = k + 1 /\ deltas[n].from = Order(tabs)
        /\ Leaves(n, deltas[n].to) /\ IsPart(deltas', deltas, 1, Len(deltas))
  BY DEF GoesOn
<1>2. /\ deltas \in Seq(Delta) /\ deltas' \in Seq(Delta) /\ Len(deltas) \in Nat
  BY LenProperties DEF Inv, Sound
<1>3. /\ Len(deltas') = Len(deltas)
      /\ \A i \in 1 .. Len(deltas) : /\ deltas'[i].from = deltas[i].from
                                     /\ deltas'[i].to = deltas[i].to
  BY <1>1, <1>2 DEF IsPart, SameCommand
<1>4. NApplied' = n /\ Order(tabs)' = deltas[n].to
  BY <1>1, LeavesTidy
<1>5. n \in 0 .. Len(deltas') /\ k \in Nat /\ n \in Nat /\ n = k + 1
  BY <1>1, <1>2, <1>3
<1>6. Past(k, p) /\ Future(k, f)
  BY <1>1, <1>2, <1>5, Mapped
<1>7. /\ q \in Seq(S) /\ Len(q) = n /\ \A i \in 1 .. n : q[i] = deltas'[i].from
      /\ g \in Seq(S) /\ Len(g) = Len(deltas') - n
      /\ \A i \in 1 .. Len(deltas') - n : g[i] = deltas'[n + i].to
  BY <1>2, <1>4, <1>5, MappedNext
<1>8. Order(tabs) \in S
  BY OrderOfAny DEF Inv, Sound
<1> HIDE DEF p, f, q, g, S
<1>9. p \in Seq(S) /\ f \in Seq(S) /\ Len(p) = k /\ Len(f) = Len(deltas) - k
  BY <1>6 DEF Past, Future, S
<1>10. \A i \in 1 .. Len(p) : q[i] = p[i]
  <2> SUFFICES ASSUME NEW i \in 1 .. k PROVE q[i] = p[i]
    BY <1>9
  <2>1. i \in 1 .. n /\ i \in 1 .. Len(deltas)
    BY <1>2, <1>5
  <2>2. q[i] = deltas'[i].from /\ p[i] = deltas[i].from
    BY <1>6, <1>7, <2>1 DEF Past
  <2> QED
    BY <1>3, <2>1, <2>2
<1>11. q[Len(p) + 1] = Order(tabs)
  <2>1. n \in 1 .. n /\ Len(p) + 1 = n
    BY <1>5, <1>9
  <2> QED
    BY <1>1, <1>3, <1>7, <2>1
<1>12. ASSUME NEW i \in 1 .. Len(g) PROVE g[i] = f[i + 1]
  <2>1. /\ i \in 1 .. Len(deltas') - n /\ n + i = k + (i + 1)
        /\ n + i \in 1 .. Len(deltas) /\ i + 1 \in 1 .. Len(deltas) - k
    BY <1>2, <1>3, <1>5, <1>7
  <2>2. g[i] = deltas'[n + i].to
    BY <1>7, <2>1
  <2>3. f[i + 1] = deltas[k + (i + 1)].to
    BY <1>6, <2>1 DEF Future
  <2> QED
    BY <1>3, <2>1, <2>2, <2>3
<1>13. Len(f) > 0 /\ Len(q) = Len(p) + 1 /\ Len(g) = Len(f) - 1
  BY <1>1, <1>2, <1>3, <1>5, <1>7, <1>9
<1>14. f # <<>> /\ q = Append(p, Order(tabs)) /\ g = Tail(f)
  <2>1. q \in Seq(S) /\ g \in Seq(S) /\ \A i \in 1 .. Len(g) : g[i] = f[i + 1]
    BY <1>7, <1>12
  <2>2. Longer(S, p, f, q, g, Order(tabs))
    BY ONLY <1>8, <1>9, <1>10, <1>11, <1>13, <2>1 DEF Longer
  <2> QED
    BY ONLY <2>2, RedoneSequences
<1>15. Order(tabs)' = Head(f)
  <2>1. 1 \in 1 .. Len(deltas) - k
    BY <1>1, <1>2, <1>5
  <2>2. f[1] = deltas[n].to
    BY <1>5, <1>6, <2>1 DEF Future
  <2>3. Head(f) = f[1]
    BY <1>9, <1>14, HeadTailProperties
  <2> QED
    BY <1>4, <2>2, <2>3
<1> QED
  BY <1>14, <1>15 DEF History!Redo, p, f, q, g

(* A new command forgets what could be redone. *)
LEMMA RefinesDo == ASSUME Inv, Inv', Tidy, ~raced, Done PROVE History!Do
<1> DEFINE p == OrdersBefore(Applied)
           q == OrdersBefore(Applied)'
           g == OrdersAfter(Undone)'
           S == Seq(TabIds)
<1>1. PICK k \in 0 .. Len(deltas), s \in Orders, r \in Orders :
        k = NApplied /\ s = Order(tabs) /\ Leaves(k + 1, r) /\ Grows(k, s, r)
  BY DEF Done
<1>2. /\ deltas \in Seq(Delta) /\ deltas' \in Seq(Delta) /\ Len(deltas) \in Nat
  BY LenProperties DEF Inv, Sound
<1>3. /\ Len(deltas') = k + 1 /\ \A i \in 1 .. k : deltas'[i] = deltas[i]
      /\ deltas'[k + 1].from = s
  BY <1>1 DEF Grows
<1>4. NApplied' = k + 1 /\ Order(tabs)' = r
  BY <1>1, LeavesTidy
<1>5. k + 1 \in 0 .. Len(deltas') /\ k \in Nat
  BY <1>2, <1>3
<1>6. Past(k, p)
  BY <1>1, <1>2, Mapped
<1>7. /\ q \in Seq(S) /\ Len(q) = k + 1 /\ \A i \in 1 .. k + 1 : q[i] = deltas'[i].from
      /\ g \in Seq(S) /\ Len(g) = Len(deltas') - (k + 1)
  BY <1>2, <1>4, <1>5, MappedNext
<1>8. s \in S
  BY DEF Orders
<1> HIDE DEF p, q, g, S
<1>9. p \in Seq(S) /\ Len(p) = k
  BY <1>6 DEF Past, S
<1>10. \A i \in 1 .. Len(p) : q[i] = p[i]
  BY <1>3, <1>5, <1>6, <1>7, <1>9 DEF Past
<1>11. q[Len(p) + 1] = s
  BY <1>3, <1>5, <1>7, <1>9
<1>12. q = Append(p, s)
  <2>1. /\ Append(p, s) \in Seq(S) /\ Len(Append(p, s)) = Len(p) + 1
        /\ \A i \in 1 .. Len(p) : Append(p, s)[i] = p[i]
        /\ Append(p, s)[Len(p) + 1] = s
    BY <1>8, <1>9, AppendProperties
  <2>2. \A i \in 1 .. Len(q) : q[i] = Append(p, s)[i]
    BY <1>5, <1>7, <1>9, <1>10, <1>11, <2>1
  <2>3. Len(q) = Len(Append(p, s))
    BY <1>7, <1>9, <2>1
  <2> QED
    BY <1>7, <2>1, <2>2, <2>3, SeqEqual
<1>13. g = <<>>
  <2>1. Len(g) = 0
    BY <1>3, <1>5, <1>7
  <2> QED
    BY <1>7, <2>1, EmptySeq
<1>14. IsOrder(Order(tabs)')
  <2>1. r # <<>> /\ IsInjective(r) /\ Range(r) \subseteq TabIds
    BY OrderFacts DEF Orders
  <2> QED
    BY <1>4, <2>1 DEF IsOrder
<1> QED
  BY <1>1, <1>12, <1>13, <1>14 DEF History!Do, p, q, g

(* Cron's clean-up, and what changes nothing, only forget. *)
LEMMA RefinesForget == ASSUME Inv, Inv', Tidy, ~raced, Forgets PROVE History!Forget
<1> DEFINE p == OrdersBefore(Applied)
           f == OrdersAfter(Undone)
           q == OrdersBefore(Applied)'
           g == OrdersAfter(Undone)'
           S == Seq(TabIds)
<1>1. PICK k \in 0 .. Len(deltas) : \E a \in 1 .. k + 1, b \in k .. Len(deltas) :
        /\ k = NApplied
        /\ Leaves(k - a + 1, Order(tabs)) /\ IsPart(deltas', deltas, a, b)
  BY DEF Forgets
<1>2. PICK a \in 1 .. k + 1, b \in k .. Len(deltas) :
        /\ k = NApplied
        /\ Leaves(k - a + 1, Order(tabs)) /\ IsPart(deltas', deltas, a, b)
  BY <1>1
<1>3. /\ deltas \in Seq(Delta) /\ deltas' \in Seq(Delta) /\ Len(deltas) \in Nat
  BY LenProperties DEF Inv, Sound
<1> DEFINE m == k - a + 1
           n == b - k
<1>4. /\ k \in Nat /\ a \in Nat /\ b \in Nat /\ 1 <= a /\ a <= k + 1 /\ k <= b /\ b <= Len(deltas)
      /\ m \in Nat /\ n \in Nat /\ n <= Len(deltas) - k /\ m + n = b - a + 1
  BY <1>3
<1>5. /\ Len(deltas') = m + n
      /\ \A i \in 1 .. m + n : /\ deltas'[i].from = deltas[a + i - 1].from
                               /\ deltas'[i].to = deltas[a + i - 1].to
  BY <1>2, <1>4 DEF IsPart, SameCommand
<1>6. NApplied' = m /\ Order(tabs)' = Order(tabs)
  <2>1. PICK s : s = Order(tabs)
    OBVIOUS
  <2>2. Leaves(m, s)
    BY <1>2, <2>1
  <2> HIDE DEF m
  <2> QED
    BY <2>1, <2>2, LeavesTidy
<1>7. Past(k, p) /\ Future(k, f)
  BY <1>2, <1>3, Mapped
<1>8. m \in 0 .. Len(deltas')
  BY <1>4, <1>5
<1> HIDE DEF m, n
<1>9. /\ q \in Seq(S) /\ Len(q) = m /\ \A i \in 1 .. m : q[i] = deltas'[i].from
      /\ g \in Seq(S) /\ Len(g) = Len(deltas') - m
      /\ \A i \in 1 .. Len(deltas') - m : g[i] = deltas'[m + i].to
  BY <1>3, <1>6, <1>8, MappedNext
<1> HIDE DEF p, f, q, g, S
<1>10. p \in Seq(S) /\ f \in Seq(S) /\ Len(p) = k /\ Len(f) = Len(deltas) - k
  BY <1>7 DEF Past, Future, S
<1>11. q = SubSeq(p, a, Len(p))
  <2>1. ASSUME NEW i \in 1 .. m PROVE q[i] = p[a + i - 1]
    <3>1. i \in 1 .. m + n /\ a + i - 1 \in 1 .. k
      BY <1>4 DEF m
    <3>2. q[i] = deltas[a + i - 1].from
      BY <1>5, <1>9, <3>1
    <3> QED
      BY <1>7, <3>1, <3>2 DEF Past
  <2>2. q = SubSeq(p, a, k)
    <3>1. /\ a \in Int /\ k \in Int /\ 1 <= a /\ k <= Len(p) /\ a <= k + 1
          /\ Len(q) = k - a + 1
      BY <1>4, <1>9, <1>10 DEF m
    <3>2. \A i \in 1 .. k - a + 1 : q[i] = p[a + i - 1]
      BY <2>1 DEF m
    <3> QED
      BY ONLY <1>9, <1>10, <3>1, <3>2, PartOfSequence
  <2> QED
    BY <1>10, <2>2
<1>12. g = SubSeq(f, 1, n)
  <2>1. ASSUME NEW i \in 1 .. n PROVE g[i] = f[1 + i - 1]
    <3>1. /\ i \in 1 .. Len(deltas') - m /\ m + i \in 1 .. m + n
          /\ i \in 1 .. Len(deltas) - k /\ 1 + i - 1 = i
      BY <1>4, <1>5
    <3>2. a + (m + i) - 1 = k + i
      BY <1>4 DEF m
    <3>3. g[i] = deltas[a + (m + i) - 1].to
      BY <1>5, <1>9, <3>1
    <3>4. f[i] = deltas[k + i].to
      BY <1>7, <3>1 DEF Future
    <3> QED
      BY <3>1, <3>2, <3>3, <3>4
  <2>2. /\ 1 \in Int /\ n \in Int /\ 1 <= 1 /\ n <= Len(f) /\ 1 <= n + 1
        /\ Len(g) = n - 1 + 1 /\ n - 1 + 1 = n
    BY <1>4, <1>5, <1>9, <1>10
  <2>3. \A i \in 1 .. n - 1 + 1 : g[i] = f[1 + i - 1]
    BY <2>1, <2>2
  <2> QED
    BY ONLY <1>9, <1>10, <2>2, <2>3, PartOfSequence
<1>13. a \in 1 .. Len(p) + 1 /\ n \in 0 .. Len(f)
  BY <1>4, <1>10
<1> QED
  BY <1>6, <1>11, <1>12, <1>13 DEF History!Forget, p, f, q, g

(* The first states are ones in which UndoHistory starts. *)
LEMMA RefinesInit == ASSUME Init PROVE History!Init
<1>1. Inv /\ Tidy /\ ~raced /\ raced = FALSE
  BY InvInit, TidyInit DEF Init
<1>2. deltas = <<>> /\ Len(deltas) = 0 /\ deltas \in Seq(Delta) /\ NApplied \in 0 .. Len(deltas)
  BY <1>1, EmptySeq, AppliedFacts DEF Init
<1>3. NApplied = 0
  BY <1>2
<1>4. Past(0, OrdersBefore(Applied)) /\ Future(0, OrdersAfter(Undone))
  BY <1>2, <1>3, Mapped
<1>5. OrdersBefore(Applied) = <<>> /\ OrdersAfter(Undone) = <<>>
  BY <1>2, <1>4, EmptySeq DEF Past, Future
<1>6. IsOrder(Order(tabs))
  <2>1. PICK s : s = Order(tabs)
    OBVIOUS
  <2>2. s \in Orders
    BY <1>1, <2>1, TidyFacts
  <2> QED
    BY <2>1, <2>2, OrderFacts DEF Orders, IsOrder
<1> QED
  BY <1>1, <1>5, <1>6 DEF History!Init

(* Every step is one of UndoHistory's. *)
LEMMA RefinesNext == ASSUME Inv, Inv', Tidy, [Next]_vars PROVE History!Next
<1>1. CASE raced'
  BY <1>1 DEF History!Next
<1>2. CASE ~raced'
  <2>1. ~raced /\ (Done \/ GoesBack \/ GoesOn \/ Forgets)
    BY <1>2, NextMoves
  <2>2. raced' = raced
    BY <1>2, <2>1, Zenon DEF Inv
  <2>3. History!Do \/ History!Undo \/ History!Redo \/ History!Forget
    BY <2>1, RefinesDo, RefinesUndo, RefinesRedo, RefinesForget
  <2> QED
    BY <2>2, <2>3 DEF History!Next
<1> QED
  BY <1>1, <1>2

(* Undo, redo and clean-up keep what UndoHistory promises of the order of  *)
(* the tabs: undo shows the order there was before the command, redo the   *)
(* order after it, as long as nobody races.                                *)
THEOREM UndoHistoryIsKept == Spec => ImplementsUndoHistory
<1>1. Init => History!Init
  BY RefinesInit
<1>2. Inv /\ Tidy /\ Inv' /\ [Next]_vars => [History!Next]_History!vars
  BY RefinesNext
<1> QED
  BY <1>1, <1>2, Tidiness, PTL DEF Spec, ImplementsUndoHistory, History!Spec
=============================================================================
