------------------------ MODULE ReportHistoryProofs -------------------------
(***************************************************************************)
(* Theorems about ReportHistory and ClientSync, for any number of tabs,    *)
(* steps, blocks and edits, and whatever positions browsers ask for.       *)
(*                                                                         *)
(* The argument.  A table of blocks is IsPlaced if no two have one         *)
(* position.  Rows that move by one, from the outside in, keep that at     *)
(* each row (GapMade, GapRemoved); closing a gap and opening it again      *)
(* gives back the table (ShutOpened, OpenedShut), and so, row by row, do   *)
(* DeleteStep, DeleteTab and their undo (BlocksDeleted, BlocksReturned).   *)
(*                                                                         *)
(* Two workflows are Like each other if they differ in positions at most.  *)
(* A command goes from one workflow to another (Goes) if forward(),        *)
(* from whatever is like the first, is not refused and leads to what is    *)
(* like the second, and it Returns if backward() does so the other way;    *)
(* it IsExact if it leads to the very workflows.  All commands go and      *)
(* return, and all are exact but ReorderBlocks when it closes a gap: its   *)
(* undo numbers blocks 0, 1, 2 ... too (Does, and a lemma for each).       *)
(*                                                                         *)
(* So the deltas tell a story (Tells): there was a workflow between any    *)
(* two of them, the one there is now is like one of those (HasStory), and  *)
(* while no gap has been closed it is that one.  This is the invariant:    *)
(* that blocks are sound, or that nothing has been refused yet, would not  *)
(* say what the deltas that lie ahead, in both directions, will find.      *)
(*                                                                         *)
(* Browsers.  A command touches what its delta names and nothing else,     *)
(* there and back (Touches), and an update tells of all that: the blocks   *)
(* it does not list have stayed where they were (UnlistedInPlace).  So a   *)
(* page that knew the workflow before a step knows it after the step's     *)
(* update (UpdateTells, TabsLearnt, ReportLearnt), whichever delta it is.  *)
(*                                                                         *)
(* What recursive functions do row by row is proved with UpTo: what holds  *)
(* of 0, and of n + 1 if of n, holds up to a number, as a finite set is no *)
(* larger than a part of it.                                               *)
(***************************************************************************)
EXTENDS ClientSync, FunctionTheorems, SequenceTheorems, FiniteSetTheorems, TLAPS

-----------------------------------------------------------------------------
(* Rows.                                                                   *)

Pos(rows, b)   == rows[b].position
Type(rows, b)  == rows[b].type
About(rows, b) == rows[b].of

IsRow(r) == r = [position |-> r.position, type |-> r.type, of |-> r.of]

RowsOf(B, P, T, O) == [b \in B |-> [position |-> P[b], type |-> T[b], of |-> O[b]]]

(* Rows of table "block", ... *)
IsRows(rows) ==
  /\ IsFiniteSet(DOMAIN rows)
  /\ rows = [b \in DOMAIN rows |->
               [position |-> Pos(rows, b), type |-> Type(rows, b), of |-> About(rows, b)]]

(* ... as Postgres allows them. *)
IsPlaced(rows) ==
  /\ \A b \in DOMAIN rows : Pos(rows, b) \in Nat
  /\ \A b, c \in DOMAIN rows : Pos(rows, b) = Pos(rows, c) => b = c

(* The same blocks, wherever they are. *)
Alike(f, g) ==
  /\ DOMAIN f = DOMAIN g
  /\ \A b \in DOMAIN g : Type(f, b) = Type(g, b) /\ About(f, b) = About(g, b)

(* Tables with a gap made at p, and with the gap at p removed. *)
Opened(g, rows, p) ==
  /\ IsRows(g) /\ Alike(g, rows)
  /\ \A b \in DOMAIN rows :
       Pos(g, b) = IF Pos(rows, b) >= p THEN Pos(rows, b) + 1 ELSE Pos(rows, b)

Shut(g, rows, p) ==
  /\ IsRows(g) /\ Alike(g, rows)
  /\ \A b \in DOMAIN rows :
       Pos(g, b) = IF Pos(rows, b) > p THEN Pos(rows, b) - 1 ELSE Pos(rows, b)

(* Rows are equal if their columns are. *)
LEMMA RowsEqual ==
  ASSUME NEW f, NEW g, IsRows(f), IsRows(g), Alike(f, g),
         \A b \in DOMAIN g : Pos(f, b) = Pos(g, b)
  PROVE  f = g
<1>1. [b \in DOMAIN f |-> [position |-> Pos(f, b), type |-> Type(f, b), of |-> About(f, b)]]
      = [b \in DOMAIN g |-> [position |-> Pos(g, b), type |-> Type(g, b), of |-> About(g, b)]]
  BY DEF Alike
<1> QED
  BY <1>1 DEF IsRows

(* What an update of one column makes of rows. *)
LEMMA RowsMade ==
  ASSUME NEW D, IsFiniteSet(D), NEW P, NEW T, NEW O,
         NEW g, g = RowsOf(D, P, T, O)
  PROVE  /\ IsRows(g) /\ DOMAIN g = D
         /\ \A b \in D : Pos(g, b) = P[b] /\ Type(g, b) = T[b] /\ About(g, b) = O[b]
<1>1. DOMAIN g = D
  BY DEF RowsOf
<1>2. \A b \in D : Pos(g, b) = P[b] /\ Type(g, b) = T[b] /\ About(g, b) = O[b]
  BY DEF Pos, Type, About, RowsOf
<1>3. g = [b \in D |-> [position |-> Pos(g, b), type |-> Type(g, b), of |-> About(g, b)]]
  BY <1>2 DEF RowsOf
<1> QED
  BY <1>1, <1>2, <1>3 DEF IsRows

(* Rows that are moved keep what they are about. *)
LEMMA MovedRows ==
  ASSUME NEW rows, IsRows(rows), NEW B, NEW by, NEW dir
  PROVE  LET g == Moved(Table(rows), B, by, dir).rows
         IN  /\ IsRows(g) /\ Alike(g, rows)
             /\ \A b \in DOMAIN rows :
                  Pos(g, b) = IF b \in B THEN Pos(rows, b) + by ELSE Pos(rows, b)
<1> DEFINE g == Moved(Table(rows), B, by, dir).rows
           P == [b \in DOMAIN rows |-> IF b \in B THEN Pos(rows, b) + by ELSE Pos(rows, b)]
           T == [b \in DOMAIN rows |-> Type(rows, b)]
           O == [b \in DOMAIN rows |-> About(rows, b)]
<1>1. g = [b \in DOMAIN rows |->
             IF b \in B THEN [rows[b] EXCEPT !.position = @ + by] ELSE rows[b]]
  BY DEF Moved, Table
<1>2. ASSUME NEW b \in DOMAIN rows
      PROVE  /\ [rows[b] EXCEPT !.position = @ + by]
                = [position |-> Pos(rows, b) + by, type |-> Type(rows, b), of |-> About(rows, b)]
             /\ rows[b] = [position |-> Pos(rows, b), type |-> Type(rows, b), of |-> About(rows, b)]
  <2>1. rows[b] = [position |-> Pos(rows, b), type |-> Type(rows, b), of |-> About(rows, b)]
    BY DEF IsRows
  <2> QED
    BY <2>1
<1>3. g = RowsOf(DOMAIN rows, P, T, O)
  BY <1>1, <1>2 DEF RowsOf
<1>4. IsFiniteSet(DOMAIN rows)
  BY DEF IsRows
<1> HIDE DEF g, P, T, O
<1>5. /\ IsRows(g) /\ DOMAIN g = DOMAIN rows
      /\ \A b \in DOMAIN rows : Pos(g, b) = P[b] /\ Type(g, b) = T[b] /\ About(g, b) = O[b]
  BY <1>3, <1>4, RowsMade
<1> QED
  BY <1>5 DEF Alike, g, P, T, O

(* make_gap_in_list() succeeds. *)
LEMMA GapMade ==
  ASSUME NEW rows, IsRows(rows), IsPlaced(rows), NEW p \in Nat
  PROVE  \E g : MakeGap(Table(rows), p) = Table(g) /\ Opened(g, rows, p)
<1> DEFINE B == From(rows, p)
           t == Moved(Table(rows), B, 1, 1)
<1>1. t.ok = TRUE
  <2>1. \A b \in B : \A c \in DOMAIN rows \ {b} :
          Pos(rows, b) + 1 # IF c \in B /\ 1 * Pos(rows, c) > 1 * Pos(rows, b)
                             THEN Pos(rows, c) + 1 ELSE Pos(rows, c)
    BY DEF From, Pos, IsPlaced
  <2> QED
    BY <2>1 DEF Moved, Table, Pos
<1>2. t = Table(t.rows)
  BY <1>1 DEF Moved, Table
<1>3. Opened(t.rows, rows, p)
  BY MovedRows DEF Opened, From, Pos
<1> QED
  BY <1>2, <1>3 DEF MakeGap, Table

(* remove_gap_from_list() succeeds, if there is a gap. *)
LEMMA GapRemoved ==
  ASSUME NEW rows, IsRows(rows), IsPlaced(rows), NEW p \in Nat, IsFree(rows, p)
  PROVE  \E g : RemoveGap(Table(rows), p) = Table(g) /\ Shut(g, rows, p)
<1> DEFINE B == After(rows, p)
           t == Moved(Table(rows), B, -1, -1)
<1>1. t.ok = TRUE
  <2>1. \A b \in B : \A c \in DOMAIN rows \ {b} :
          Pos(rows, b) + (-1) # IF c \in B /\ (-1) * Pos(rows, c) > (-1) * Pos(rows, b)
                             THEN Pos(rows, c) + (-1) ELSE Pos(rows, c)
    BY DEF After, Pos, IsPlaced, IsFree
  <2> QED
    BY <2>1 DEF Moved, Table, Pos
<1>2. t = Table(t.rows)
  BY <1>1 DEF Moved, Table
<1>3. Shut(t.rows, rows, p)
  <2>1. /\ IsRows(t.rows) /\ Alike(t.rows, rows)
        /\ \A b \in DOMAIN rows :
             Pos(t.rows, b) = IF b \in B THEN Pos(rows, b) + (-1) ELSE Pos(rows, b)
    BY MovedRows
  <2>2. \A b \in DOMAIN rows : b \in B <=> Pos(rows, b) > p
    BY DEF After, Pos
  <2>3. \A b \in DOMAIN rows : Pos(rows, b) + (-1) = Pos(rows, b) - 1
    BY DEF IsPlaced
  <2> HIDE DEF t, B
  <2> QED
    BY <2>1, <2>2, <2>3 DEF Shut
<1> QED
  BY <1>2, <1>3 DEF RemoveGap, Table

(* A gap keeps positions apart, and is free. *)
LEMMA OpenedPlaced ==
  ASSUME NEW rows, IsPlaced(rows), NEW p \in Nat, NEW g, Opened(g, rows, p)
  PROVE  IsPlaced(g) /\ IsFree(g, p)
<1>1. \A b \in DOMAIN g : Pos(g, b) \in Nat /\ Pos(g, b) # p
  BY DEF IsPlaced, Opened, Alike
<1>2. \A b, c \in DOMAIN g : Pos(g, b) = Pos(g, c) => b = c
  BY DEF IsPlaced, Opened, Alike
<1> QED
  BY <1>1, <1>2 DEF IsPlaced, IsFree, Pos

(* Closing a gap keeps positions apart, and what was free before it. *)
LEMMA ShutPlaced ==
  ASSUME NEW rows, IsPlaced(rows), NEW p \in Nat, IsFree(rows, p), NEW g, Shut(g, rows, p)
  PROVE  /\ IsPlaced(g)
         /\ \A q \in Nat : q < p /\ IsFree(rows, q) => IsFree(g, q)
<1>1. \A b \in DOMAIN g : Pos(g, b) \in Nat
  BY DEF IsPlaced, Shut, Alike
<1>2. \A b \in DOMAIN rows : Pos(rows, b) # p
  BY DEF IsFree, Pos
<1>3. \A b, c \in DOMAIN g : Pos(g, b) = Pos(g, c) => b = c
  BY <1>2 DEF IsPlaced, Shut, Alike
<1>4. ASSUME NEW q \in Nat, q < p, IsFree(rows, q)
      PROVE  IsFree(g, q)
  <2>1. \A b \in DOMAIN rows : Pos(rows, b) # q
    BY <1>4 DEF IsFree, Pos
  <2>2. \A b \in DOMAIN g : Pos(g, b) # q
    BY <2>1, <1>4 DEF IsPlaced, Shut, Alike
  <2> QED
    BY <2>2 DEF IsFree, Pos
<1> QED
  BY <1>1, <1>3, <1>4 DEF IsPlaced

(* A gap that is closed where it was made leaves the rows as they were, *)
LEMMA OpenedShut ==
  ASSUME NEW rows, IsRows(rows), IsPlaced(rows), NEW p \in Nat,
         NEW g, Opened(g, rows, p), NEW h, Shut(h, g, p)
  PROVE  h = rows
<1>1. Alike(h, rows)
  BY DEF Opened, Shut, Alike
<1>2. \A b \in DOMAIN rows : Pos(h, b) = Pos(rows, b)
  BY DEF Opened, Shut, Alike, IsPlaced
<1>3. IsRows(h)
  BY DEF Shut
<1> QED
  BY <1>1, <1>2, <1>3, RowsEqual

(* ... and one that is made where it was closed. *)
LEMMA ShutOpened ==
  ASSUME NEW rows, IsRows(rows), IsPlaced(rows), NEW p \in Nat, IsFree(rows, p),
         NEW g, Shut(g, rows, p), NEW h, Opened(h, g, p)
  PROVE  h = rows
<1>1. Alike(h, rows)
  BY DEF Opened, Shut, Alike
<1>2. \A b \in DOMAIN rows : Pos(rows, b) # p
  BY DEF IsFree, Pos
<1>3. \A b \in DOMAIN rows : Pos(h, b) = Pos(rows, b)
  BY <1>2 DEF Opened, Shut, Alike, IsPlaced
<1>4. IsRows(h)
  BY DEF Opened
<1> QED
  BY <1>1, <1>3, <1>4, RowsEqual

(* The same rows in both tables. *)
Agree(f, g, B) ==
  \A b \in B : Pos(f, b) = Pos(g, b) /\ Type(f, b) = Type(g, b) /\ About(f, b) = About(g, b)

(* Some of the rows. *)
LEMMA SomeRows ==
  ASSUME NEW rows, IsRows(rows), NEW B, B \subseteq DOMAIN rows
  PROVE  LET g == Restrict(rows, B)
         IN  /\ IsRows(g) /\ DOMAIN g = B /\ Agree(g, rows, B)
             /\ IsPlaced(rows) => IsPlaced(g)
<1> DEFINE g == Restrict(rows, B)
           P == [b \in B |-> Pos(rows, b)]
           T == [b \in B |-> Type(rows, b)]
           O == [b \in B |-> About(rows, b)]
<1>1. \A b \in B : rows[b] = [position |-> P[b], type |-> T[b], of |-> O[b]]
  <2>1. \A b \in B : rows[b] = [position |-> Pos(rows, b), type |-> Type(rows, b), of |-> About(rows, b)]
    BY DEF IsRows
  <2> QED
    BY <2>1
<1>2. g = RowsOf(B, P, T, O)
  <2> HIDE DEF P, T, O
  <2> QED
    BY <1>1 DEF Restrict, RowsOf
<1>3. IsFiniteSet(B)
  BY FS_Subset DEF IsRows
<1> HIDE DEF g, P, T, O
<1>4. /\ IsRows(g) /\ DOMAIN g = B
      /\ \A b \in B : Pos(g, b) = P[b] /\ Type(g, b) = T[b] /\ About(g, b) = O[b]
  BY <1>2, <1>3, RowsMade
<1>5. Agree(g, rows, B)
  BY <1>4 DEF Agree, P, T, O
<1>6. IsPlaced(rows) => IsPlaced(g)
  BY <1>4, <1>5 DEF IsPlaced, Agree
<1> QED
  BY <1>4, <1>5, <1>6 DEF g

(* All of the rows but some, which leave their positions free. *)
LEMMA OtherRows ==
  ASSUME NEW rows, IsRows(rows), IsPlaced(rows), NEW B, B \subseteq DOMAIN rows
  PROVE  LET g == Without(rows, B)
         IN  /\ IsRows(g) /\ IsPlaced(g)
             /\ DOMAIN g = DOMAIN rows \ B /\ Agree(g, rows, DOMAIN rows \ B)
             /\ \A b \in B : IsFree(g, Pos(rows, b))
<1> DEFINE C == DOMAIN rows \ B
           g == Restrict(rows, C)
<1>1. IsRows(g) /\ DOMAIN g = C /\ Agree(g, rows, C) /\ IsPlaced(g)
  BY SomeRows
<1>2. Without(rows, B) = g
  BY DEF Without
<1> HIDE DEF g
<1>3. \A b \in B : \A c \in DOMAIN g : Pos(g, c) # Pos(rows, b)
  BY <1>1 DEF Agree, IsPlaced
<1>4. \A b \in B : IsFree(g, Pos(rows, b))
  BY <1>3 DEF IsFree, Pos
<1> QED
  BY <1>1, <1>2, <1>4

-----------------------------------------------------------------------------
(* One block is added or deleted.                                          *)

Added(h, rows, b, row) ==
  /\ IsRows(h) /\ IsPlaced(h) /\ DOMAIN h = DOMAIN rows \cup {b}
  /\ Pos(h, b) = row.position /\ Type(h, b) = row.type /\ About(h, b) = row.of
  /\ \A c \in DOMAIN rows :
       /\ Type(h, c) = Type(rows, c) /\ About(h, c) = About(rows, c)
       /\ Pos(h, c) = IF Pos(rows, c) >= row.position THEN Pos(rows, c) + 1 ELSE Pos(rows, c)

Lost(h, rows, b) ==
  /\ IsRows(h) /\ IsPlaced(h) /\ DOMAIN h = DOMAIN rows \ {b}
  /\ \A c \in DOMAIN rows \ {b} :
       /\ Type(h, c) = Type(rows, c) /\ About(h, c) = About(rows, c)
       /\ Pos(h, c) = IF Pos(rows, c) > Pos(rows, b) THEN Pos(rows, c) - 1 ELSE Pos(rows, c)

Entered(h, g, b, row) ==
  /\ IsRows(h) /\ DOMAIN h = DOMAIN g \cup {b} /\ Agree(h, g, DOMAIN g)
  /\ Pos(h, b) = row.position /\ Type(h, b) = row.type /\ About(h, b) = row.of

(* A row is created where there is room. *)
LEMMA RowCreated ==
  ASSUME NEW g, IsRows(g), NEW b, b \notin DOMAIN g,
         NEW row, IsRow(row), IsFree(g, row.position)
  PROVE  \E h : Created(Table(g), b, row) = Table(h) /\ Entered(h, g, b, row)
<1> DEFINE D == DOMAIN g \cup {b}
           t == Created(Table(g), b, row)
           P == [c \in D |-> IF c = b THEN row.position ELSE Pos(g, c)]
           T == [c \in D |-> IF c = b THEN row.type ELSE Type(g, c)]
           O == [c \in D |-> IF c = b THEN row.of ELSE About(g, c)]
<1>1. t.ok = TRUE
  BY DEF Created, Table
<1>2. t.rows = [c \in D |-> IF c = b THEN row ELSE g[c]]
  BY DEF Created, Table
<1>3. t = Table(t.rows)
  BY <1>1 DEF Created, Table
<1>4. \A c \in D : (IF c = b THEN row ELSE g[c])
                   = [position |-> P[c], type |-> T[c], of |-> O[c]]
  <2>1. \A c \in DOMAIN g : g[c] = [position |-> Pos(g, c), type |-> Type(g, c), of |-> About(g, c)]
    BY DEF IsRows
  <2>2. row = [position |-> row.position, type |-> row.type, of |-> row.of]
    BY DEF IsRow
  <2>3. ASSUME NEW c \in D
        PROVE  (IF c = b THEN row ELSE g[c]) = [position |-> P[c], type |-> T[c], of |-> O[c]]
    <3>1. CASE c = b
      <4>1. P[c] = row.position /\ T[c] = row.type /\ O[c] = row.of
        BY <3>1
      <4> HIDE DEF P, T, O
      <4> QED
        BY <4>1, <3>1, <2>2
    <3>2. CASE c # b
      <4>1. P[c] = Pos(g, c) /\ T[c] = Type(g, c) /\ O[c] = About(g, c)
        BY <3>2
      <4>2. g[c] = [position |-> Pos(g, c), type |-> Type(g, c), of |-> About(g, c)]
        BY <2>1, <3>2
      <4> HIDE DEF P, T, O
      <4> QED
        BY <4>1, <4>2, <3>2
    <3> QED
      BY <3>1, <3>2
  <2> QED
    BY <2>3
<1>5. t.rows = RowsOf(D, P, T, O)
  <2> HIDE DEF P, T, O, D, t
  <2> QED
    BY <1>2, <1>4 DEF RowsOf
<1>6. IsFiniteSet(D)
  BY FS_AddElement DEF IsRows
<1> DEFINE h == t.rows
<1> HIDE DEF P, T, O, h
<1>7. /\ IsRows(h) /\ DOMAIN h = D
      /\ \A c \in D : Pos(h, c) = P[c] /\ Type(h, c) = T[c] /\ About(h, c) = O[c]
  BY <1>5, <1>6, RowsMade DEF h
<1>8. Agree(h, g, DOMAIN g)
  BY <1>7 DEF Agree, P, T, O
<1>9. Pos(h, b) = row.position /\ Type(h, b) = row.type /\ About(h, b) = row.of
  BY <1>7 DEF P, T, O
<1> QED
  BY <1>3, <1>7, <1>8, <1>9 DEF h, Entered

(* A block is created with a gap made for it. *)
LEMMA RowAdded ==
  ASSUME NEW rows, IsRows(rows), IsPlaced(rows), NEW b, b \notin DOMAIN rows,
         NEW row, IsRow(row), row.position \in Nat
  PROVE  \E h : /\ Created(MakeGap(Table(rows), row.position), b, row) = Table(h)
                /\ Added(h, rows, b, row)
<1>1. PICK g : MakeGap(Table(rows), row.position) = Table(g) /\ Opened(g, rows, row.position)
  BY GapMade
<1>2. IsPlaced(g) /\ IsFree(g, row.position)
  BY <1>1, OpenedPlaced
<1>3. IsRows(g) /\ DOMAIN g = DOMAIN rows
  BY <1>1 DEF Opened, Alike
<1>4. PICK h : Created(Table(g), b, row) = Table(h) /\ Entered(h, g, b, row)
  BY <1>2, <1>3, RowCreated
<1>e. /\ IsRows(h) /\ DOMAIN h = DOMAIN g \cup {b} /\ Agree(h, g, DOMAIN g)
      /\ Pos(h, b) = row.position /\ Type(h, b) = row.type /\ About(h, b) = row.of
  BY <1>4 DEF Entered
<1>5. IsPlaced(h)
  <2>1. \A c \in DOMAIN g : Pos(g, c) # row.position
    BY <1>2 DEF IsFree, Pos
  <2>2. \A c \in DOMAIN h : Pos(h, c) \in Nat
    BY <1>2, <1>e DEF IsPlaced, Agree
  <2>3. \A c, d \in DOMAIN h : Pos(h, c) = Pos(h, d) => c = d
    BY <1>2, <1>e, <2>1 DEF IsPlaced, Agree
  <2> QED
    BY <2>2, <2>3 DEF IsPlaced
<1>6. ASSUME NEW c \in DOMAIN rows
      PROVE  /\ Type(h, c) = Type(rows, c) /\ About(h, c) = About(rows, c)
             /\ Pos(h, c) = IF Pos(rows, c) >= row.position THEN Pos(rows, c) + 1 ELSE Pos(rows, c)
  BY <1>1, <1>3, <1>e DEF Agree, Opened, Alike
<1>7. Added(h, rows, b, row)
  BY <1>3, <1>e, <1>5, <1>6 DEF Added
<1> QED
  BY <1>1, <1>4, <1>7

(* A block is deleted, and the gap it leaves is closed. *)
LEMMA RowDeleted ==
  ASSUME NEW rows, IsRows(rows), IsPlaced(rows), NEW b \in DOMAIN rows
  PROVE  \E h : Deleted(rows, b) = Table(h) /\ Lost(h, rows, b)
<1> DEFINE g == Without(rows, {b})
           p == Pos(rows, b)
<1>1. /\ IsRows(g) /\ IsPlaced(g) /\ DOMAIN g = DOMAIN rows \ {b}
      /\ Agree(g, rows, DOMAIN rows \ {b}) /\ IsFree(g, p)
  BY OtherRows
<1>2. p \in Nat
  BY DEF IsPlaced
<1>3. Deleted(rows, b) = RemoveGap(Table(g), p)
  BY DEF Deleted, Pos
<1> HIDE DEF g, p
<1>4. PICK h : RemoveGap(Table(g), p) = Table(h) /\ Shut(h, g, p)
  BY <1>1, <1>2, GapRemoved
<1>5. IsPlaced(h)
  BY <1>1, <1>2, <1>4, ShutPlaced
<1>6. IsRows(h) /\ DOMAIN h = DOMAIN rows \ {b}
  BY <1>1, <1>4 DEF Shut, Alike
<1>7. ASSUME NEW c \in DOMAIN rows \ {b}
      PROVE  /\ Type(h, c) = Type(rows, c) /\ About(h, c) = About(rows, c)
             /\ Pos(h, c) = IF Pos(rows, c) > p THEN Pos(rows, c) - 1 ELSE Pos(rows, c)
  BY <1>1, <1>4 DEF Agree, Shut, Alike
<1>8. Lost(h, rows, b)
  BY <1>5, <1>6, <1>7 DEF Lost, p
<1> QED
  BY <1>3, <1>4, <1>8

(* A block that is added and deleted leaves the others where they were, *)
LEMMA AddedLost ==
  ASSUME NEW rows, IsRows(rows), IsPlaced(rows), NEW b, b \notin DOMAIN rows,
         NEW row, row.position \in Nat,
         NEW h, Added(h, rows, b, row), NEW g, Lost(g, h, b)
  PROVE  g = rows
<1>1. Alike(g, rows)
  BY DEF Added, Lost, Alike
<1>2. ASSUME NEW c \in DOMAIN rows
      PROVE  Pos(g, c) = Pos(rows, c)
  <2>1. Pos(rows, c) \in Nat /\ c # b
    BY DEF IsPlaced
  <2>2. Pos(h, c) = IF Pos(rows, c) >= row.position THEN Pos(rows, c) + 1 ELSE Pos(rows, c)
    BY DEF Added
  <2>3. Pos(g, c) = IF Pos(h, c) > row.position THEN Pos(h, c) - 1 ELSE Pos(h, c)
    BY <2>1 DEF Added, Lost
  <2> QED
    BY <2>1, <2>2, <2>3
<1>3. IsRows(g)
  BY DEF Lost
<1> QED
  BY <1>1, <1>2, <1>3, RowsEqual

(* ... and so does one that is deleted and added again. *)
LEMMA LostAdded ==
  ASSUME NEW rows, IsRows(rows), IsPlaced(rows), NEW b \in DOMAIN rows,
         NEW h, Lost(h, rows, b), NEW g, Added(g, h, b, rows[b])
  PROVE  g = rows
<1>1. Alike(g, rows)
  BY DEF Added, Lost, Alike, Type, About
<1>2. ASSUME NEW c \in DOMAIN rows
      PROVE  Pos(g, c) = Pos(rows, c)
  <2>1. Pos(rows, c) \in Nat /\ Pos(rows, b) \in Nat /\ (Pos(rows, b) = Pos(rows, c) => b = c)
    BY DEF IsPlaced
  <2>2. CASE c = b
    BY <2>2 DEF Added, Pos
  <2>3. CASE c # b
    <3>1. Pos(h, c) = IF Pos(rows, c) > Pos(rows, b) THEN Pos(rows, c) - 1 ELSE Pos(rows, c)
      BY <2>3 DEF Lost
    <3>2. Pos(g, c) = IF Pos(h, c) >= Pos(rows, b) THEN Pos(h, c) + 1 ELSE Pos(h, c)
      BY <2>3 DEF Lost, Added, Pos
    <3> QED
      BY <2>1, <2>3, <3>1, <3>2
  <2> QED
    BY <2>2, <2>3
<1>3. IsRows(g)
  BY DEF Added
<1> QED
  BY <1>1, <1>2, <1>3, RowsEqual

-----------------------------------------------------------------------------
(* Rows in order of position.                                              *)

IsOrder(list, S) ==
  /\ list \in Seq(S)
  /\ \A i, j \in DOMAIN list : list[i] = list[j] => i = j

(* Each of S, once. *)
Lists(list, S) == IsOrder(list, S) /\ Range(list) = S

Ascends(list, rows) ==
  \A i, j \in DOMAIN list : i < j => Pos(rows, list[i]) < Pos(rows, list[j])

Before(rows, b) == {c \in DOMAIN rows : Pos(rows, c) < Pos(rows, b)}
Upto(rows, b)   == {c \in DOMAIN rows : Pos(rows, c) <= Pos(rows, b)}
Rank(rows, b)   == Cardinality(Before(rows, b))

(* An order has as many members as it is long. *)
LEMMA CountOrder ==
  ASSUME NEW S, NEW list, IsOrder(list, S)
  PROVE  /\ IsFiniteSet(Range(list)) /\ Cardinality(Range(list)) = Len(list)
         /\ Len(list) \in Nat /\ DOMAIN list = 1 .. Len(list)
<1> DEFINE n == Len(list)
           R == Range(list)
<1>1. /\ n \in Nat /\ DOMAIN list = 1 .. n /\ R = {list[i] : i \in 1 .. n}
      /\ \A i, j \in 1 .. n : list[i] = list[j] => i = j
      /\ list = [i \in 1 .. n |-> list[i]]
  <2>1. list \in Seq(S) /\ \A i, j \in DOMAIN list : list[i] = list[j] => i = j
    BY DEF IsOrder
  <2>2. n \in Nat /\ DOMAIN list = 1 .. n /\ list \in [1 .. n -> S]
    BY <2>1, LenProperties
  <2> HIDE DEF n
  <2> QED
    BY <2>1, <2>2 DEF Range
<1> HIDE DEF n, R
<1>2. list \in Bijection(1 .. n, R)
  <2>1. list \in [1 .. n -> R]
    BY <1>1
  <2> QED
    BY <1>1, <2>1 DEF Bijection, Injection, Surjection, IsInjective
<1>3. ExistsBijection(1 .. n, R)
  BY <1>2 DEF ExistsBijection
<1>4. Cardinality(R) = n
  BY <1>1, <1>3, FS_CountingElements
<1>5. IsFiniteSet(R)
  BY <1>1, <1>3, FS_Interval, FS_Bijection
<1> QED
  BY <1>1, <1>4, <1>5 DEF n, R

(* A member has one place in an order. *)
LEMMA PlaceFacts ==
  ASSUME NEW S, NEW list, IsOrder(list, S), NEW x \in Range(list)
  PROVE  PlaceOf(list, x) \in 1 .. Len(list) /\ list[PlaceOf(list, x)] = x
<1>1. DOMAIN list = 1 .. Len(list)
  BY CountOrder
<1>2. \E i \in DOMAIN list : list[i] = x
  BY DEF Range
<1> QED
  BY <1>1, <1>2 DEF PlaceOf

(* Ranks tell rows apart, and none is as large as their number.            *)
LEMMA RankFacts ==
  ASSUME NEW rows, IsRows(rows), IsPlaced(rows), NEW b \in DOMAIN rows
  PROVE  /\ Rank(rows, b) \in 0 .. Cardinality(DOMAIN rows) - 1
         /\ IsFiniteSet(Before(rows, b))
         /\ Cardinality(Upto(rows, b)) = Rank(rows, b) + 1
         /\ \A c \in DOMAIN rows : Pos(rows, b) < Pos(rows, c) => Rank(rows, b) < Rank(rows, c)
<1> DEFINE D == DOMAIN rows
           A == Before(rows, b)
           U == Upto(rows, b)
<1>1. IsFiniteSet(D) /\ A \subseteq D /\ U \subseteq D
  BY DEF IsRows, Before, Upto
<1>2. U = A \cup {b} /\ b \notin A
  BY DEF IsPlaced, Before, Upto
<1>3. ASSUME NEW c \in D, Pos(rows, b) < Pos(rows, c)
      PROVE  U \subseteq Before(rows, c)
  BY <1>3 DEF IsPlaced, Before, Upto
<1>4. \A c \in D : Before(rows, c) \subseteq D
  BY DEF Before
<1> HIDE DEF A, U, D
<1>5. IsFiniteSet(A) /\ Cardinality(A) \in Nat
  BY <1>1, FS_Subset, FS_CardinalityType
<1>6. IsFiniteSet(U) /\ Cardinality(U) = Cardinality(A) + 1
  BY <1>2, <1>5, FS_AddElement
<1>7. Cardinality(U) <= Cardinality(D) /\ Cardinality(D) \in Nat
  BY <1>1, FS_Subset, FS_CardinalityType
<1>8. ASSUME NEW c \in D, Pos(rows, b) < Pos(rows, c)
      PROVE  Rank(rows, b) < Rank(rows, c)
  <2>1. IsFiniteSet(Before(rows, c)) /\ Cardinality(Before(rows, c)) \in Nat
    BY <1>1, <1>4, <1>8, FS_Subset, FS_CardinalityType
  <2>2. Cardinality(U) <= Cardinality(Before(rows, c))
    BY <1>3, <1>8, <2>1, FS_Subset
  <2> QED
    BY <1>5, <1>6, <2>1, <2>2 DEF Rank, A
<1> QED
  BY <1>5, <1>6, <1>7, <1>8 DEF Rank, A, U, D

(* There is a row of each rank. *)
LEMMA RankFound ==
  ASSUME NEW rows, IsRows(rows), IsPlaced(rows),
         NEW i \in 0 .. Cardinality(DOMAIN rows) - 1
  PROVE  \E b \in DOMAIN rows : Rank(rows, b) = i
<1> DEFINE D == DOMAIN rows
           n == Cardinality(D)
           f == [b \in D |-> Rank(rows, b)]
<1>1. IsFiniteSet(D) /\ n \in Nat
  BY FS_CardinalityType DEF IsRows
<1>2. f \in [D -> 0 .. n - 1]
  BY RankFacts
<1>3. ASSUME NEW b \in D, NEW c \in D, f[b] = f[c]
      PROVE  b = c
  <2>1. /\ Rank(rows, b) \in 0 .. n - 1 /\ Rank(rows, c) \in 0 .. n - 1
        /\ Pos(rows, b) < Pos(rows, c) => Rank(rows, b) < Rank(rows, c)
        /\ Pos(rows, c) < Pos(rows, b) => Rank(rows, c) < Rank(rows, b)
    BY RankFacts
  <2>2. Rank(rows, b) = Rank(rows, c)
    BY <1>3
  <2>3. Pos(rows, b) \in Nat /\ Pos(rows, c) \in Nat
    BY DEF IsPlaced
  <2>4. Pos(rows, b) = Pos(rows, c)
    BY <1>1, <2>1, <2>2, <2>3
  <2> QED
    BY <2>4 DEF IsPlaced
<1> HIDE DEF f
<1>4. f \in Injection(D, 0 .. n - 1)
  BY <1>2, <1>3 DEF Injection, IsInjective
<1>5. IsFiniteSet(0 .. n - 1) /\ Cardinality(0 .. n - 1) = n
  <2> HIDE DEF n
  <2>1. IsFiniteSet(0 .. n - 1) /\ Cardinality(0 .. n - 1) = IF 0 > n - 1 THEN 0 ELSE n - 1 - 0 + 1
    BY <1>1, FS_Interval
  <2> QED
    BY <1>1, <2>1
<1>6. f \in Surjection(D, 0 .. n - 1)
  BY <1>4, <1>5, FS_Injection
<1>7. \E b \in D : f[b] = i
  BY <1>6 DEF Surjection
<1> QED
  BY <1>7 DEF f

(* ByPosition() lists the rows as they are placed: each has as many before *)
(* it as its rank says.                                                    *)
LEMMA ByPositionFacts ==
  ASSUME NEW rows, IsRows(rows), IsPlaced(rows)
  PROVE  LET list == ByPosition(rows)
         IN  /\ Lists(list, DOMAIN rows) /\ Ascends(list, rows)
             /\ Len(list) = Cardinality(DOMAIN rows) /\ Len(list) \in Nat
             /\ \A i \in 1 .. Len(list) : list[i] \in DOMAIN rows /\ Rank(rows, list[i]) = i - 1
<1> DEFINE D == DOMAIN rows
           n == Cardinality(D)
           list == ByPosition(rows)
           Fits(b, i) == Cardinality(Before(rows, b)) < i /\ Cardinality(Upto(rows, b)) >= i
<1>1. IsFiniteSet(D) /\ n \in Nat
  BY FS_CardinalityType DEF IsRows
<1>2. list = [i \in 1 .. n |-> CHOOSE b \in D : Fits(b, i)]
  BY DEF ByPosition, Before, Upto, Pos
<1>3. \A b \in D : \A i \in 1 .. n : Fits(b, i) <=> Rank(rows, b) = i - 1
  <2> TAKE b \in D
  <2> TAKE i \in 1 .. n
  <2>1. Rank(rows, b) \in 0 .. n - 1 /\ Cardinality(Upto(rows, b)) = Rank(rows, b) + 1
    BY RankFacts
  <2>2. Cardinality(Before(rows, b)) = Rank(rows, b)
    BY DEF Rank
  <2> QED
    BY <1>1, <2>1, <2>2
<1>4. \A i \in 1 .. n : list[i] \in D /\ Rank(rows, list[i]) = i - 1
  <2> TAKE i \in 1 .. n
  <2>1. i - 1 \in 0 .. n - 1
    BY <1>1
  <2>2. \E b \in D : Rank(rows, b) = i - 1
    BY <2>1, RankFound
  <2>3. \E b \in D : Fits(b, i)
    BY <1>3, <2>2
  <2> HIDE DEF Fits
  <2>4. list[i] = CHOOSE b \in D : Fits(b, i)
    BY <1>2
  <2>5. list[i] \in D /\ Fits(list[i], i)
    BY <2>3, <2>4
  <2> QED
    BY <1>3, <2>5
<1>5. list = [i \in 1 .. n |-> list[i]]
  BY <1>2
<1> HIDE DEF list
<1>6. list \in Seq(D) /\ Len(list) = n /\ DOMAIN list = 1 .. n
  <2>1. list \in [1 .. n -> D]
    BY <1>4, <1>5
  <2> QED
    BY <1>1, <2>1, SeqDef, LenProperties
<1>7. \A i, j \in 1 .. n : list[i] = list[j] => i = j
  BY <1>1, <1>4
<1>8. Range(list) = D
  <2>1. \A b \in D : \E i \in 1 .. n : list[i] = b
    <3> TAKE b \in D
    <3>1. Rank(rows, b) \in 0 .. n - 1
      BY RankFacts
    <3> DEFINE i == Rank(rows, b) + 1
    <3>2. i \in 1 .. n /\ i - 1 = Rank(rows, b)
      BY <1>1, <3>1
    <3>3. list[i] \in D /\ Rank(rows, list[i]) = Rank(rows, b)
      BY <1>4, <3>2
    <3> HIDE DEF i
    <3>4. /\ Rank(rows, list[i]) \in 0 .. n - 1
          /\ Pos(rows, b) < Pos(rows, list[i]) => Rank(rows, b) < Rank(rows, list[i])
          /\ Pos(rows, list[i]) < Pos(rows, b) => Rank(rows, list[i]) < Rank(rows, b)
      BY <3>3, RankFacts
    <3>5. Pos(rows, b) \in Nat /\ Pos(rows, list[i]) \in Nat
      BY <3>3 DEF IsPlaced
    <3>6. Pos(rows, b) = Pos(rows, list[i])
      BY <1>1, <3>1, <3>3, <3>4, <3>5
    <3> QED
      BY <3>2, <3>3, <3>6 DEF IsPlaced
  <2> QED
    BY <1>4, <1>6, <2>1 DEF Range
<1>9. Ascends(list, rows)
  <2> SUFFICES ASSUME NEW i \in 1 .. n, NEW j \in 1 .. n, i < j
               PROVE  Pos(rows, list[i]) < Pos(rows, list[j])
    BY <1>6 DEF Ascends
  <2>1. list[i] \in D /\ list[j] \in D /\ Rank(rows, list[i]) = i - 1 /\ Rank(rows, list[j]) = j - 1
    BY <1>4
  <2>2. Pos(rows, list[i]) \in Nat /\ Pos(rows, list[j]) \in Nat /\ list[i] # list[j]
    BY <1>7, <2>1 DEF IsPlaced
  <2>3. Pos(rows, list[j]) < Pos(rows, list[i]) => Rank(rows, list[j]) < Rank(rows, list[i])
    BY <2>1, RankFacts
  <2>4. Pos(rows, list[i]) # Pos(rows, list[j])
    BY <2>1, <2>2 DEF IsPlaced
  <2> QED
    BY <1>1, <2>1, <2>2, <2>3, <2>4
<1> QED
  BY <1>1, <1>4, <1>6, <1>7, <1>8, <1>9 DEF Lists, IsOrder, list

(* Without gaps, a row's rank is its position. *)
LEMMA RankIsPosition ==
  ASSUME NEW rows, IsRows(rows), IsPlaced(rows), ~HasGaps(rows), NEW b \in DOMAIN rows
  PROVE  Rank(rows, b) = Pos(rows, b)
<1> DEFINE D == DOMAIN rows
           n == Cardinality(D)
           f == [c \in D |-> Pos(rows, c)]
           A == Before(rows, b)
           p == Pos(rows, b)
           g == [c \in A |-> Pos(rows, c)]
<1>1. IsFiniteSet(D) /\ n \in Nat
  BY FS_CardinalityType DEF IsRows
<1>2. \A c \in D : Pos(rows, c) \in 0 .. n - 1
  BY <1>1 DEF IsPlaced, HasGaps, Pos
<1>3. f \in Injection(D, 0 .. n - 1)
  <2>1. \A c, d \in D : Pos(rows, c) = Pos(rows, d) => c = d
    BY DEF IsPlaced
  <2> HIDE DEF D
  <2> QED
    BY <1>2, <2>1 DEF Injection, IsInjective
<1>4. IsFiniteSet(0 .. n - 1) /\ Cardinality(0 .. n - 1) = n
  <2>1. IsFiniteSet(0 .. n - 1) /\ Cardinality(0 .. n - 1) = IF 0 > n - 1 THEN 0 ELSE n - 1 - 0 + 1
    BY <1>1, FS_Interval, SMTT(60)
  <2> QED
    BY <1>1, <2>1
<1> HIDE DEF f
<1>5. f \in Surjection(D, 0 .. n - 1)
  BY <1>3, <1>4, FS_Injection
<1>6. \A q \in 0 .. n - 1 : \E c \in D : Pos(rows, c) = q
  <2>1. \A q \in 0 .. n - 1 : \E c \in D : f[c] = q
    BY <1>5 DEF Surjection
  <2> QED
    BY <2>1 DEF f
<1>7. p \in Nat /\ p <= n - 1
  BY <1>1, <1>2
<1>8. g \in Bijection(A, 0 .. p - 1)
  <2>1. \A c \in A : c \in D /\ Pos(rows, c) \in 0 .. p - 1
    BY <1>2, <1>7 DEF Before
  <2>2. \A c, d \in A : Pos(rows, c) = Pos(rows, d) => c = d
    BY <2>1 DEF IsPlaced
  <2>3. \A q \in 0 .. p - 1 : \E c \in A : Pos(rows, c) = q
    <3> TAKE q \in 0 .. p - 1
    <3>1. q \in 0 .. n - 1 /\ q < p
      BY <1>1, <1>7
    <3>2. PICK c \in D : Pos(rows, c) = q
      BY <1>6, <3>1
    <3> QED
      BY <3>1, <3>2 DEF Before
  <2> HIDE DEF A, p
  <2>4. g \in [A -> 0 .. p - 1] /\ \A c \in A : g[c] = Pos(rows, c)
    BY <2>1
  <2> HIDE DEF g
  <2> QED
    BY <2>2, <2>3, <2>4 DEF Bijection, Injection, Surjection, IsInjective
<1>9. Cardinality(A) = p
  <2>1. IsFiniteSet(A)
    BY RankFacts
  <2>2. ExistsBijection(A, 0 .. p - 1)
    BY <1>8 DEF ExistsBijection
  <2>3. Cardinality(0 .. p - 1) = IF 0 > p - 1 THEN 0 ELSE p - 1 - 0 + 1
    BY <1>7, FS_Interval
  <2> HIDE DEF A, p
  <2>4. Cardinality(0 .. p - 1) = Cardinality(A)
    BY <2>1, <2>2, FS_Bijection
  <2> QED
    BY <1>7, <2>3, <2>4
<1> QED
  BY <1>9 DEF Rank

IsArranged(g, list) == \A b \in DOMAIN g : Pos(g, b) = PlaceOf(list, b) - 1

(* reorder_list_by_slugs() succeeds with each list of all blocks. *)
LEMMA RowsArranged ==
  ASSUME NEW rows, IsRows(rows), IsPlaced(rows), NEW list, Lists(list, DOMAIN rows)
  PROVE  \E g : /\ Arranged(Table(rows), list) = Table(g)
                /\ IsRows(g) /\ IsPlaced(g) /\ Alike(g, rows) /\ IsArranged(g, list)
<1> DEFINE D == DOMAIN rows
           t == Arranged(Table(rows), list)
           P == [b \in D |-> PlaceOf(list, b) - 1]
           T == [b \in D |-> Type(rows, b)]
           O == [b \in D |-> About(rows, b)]
           g == t.rows
<1>1. /\ Len(list) \in Nat /\ DOMAIN list = 1 .. Len(list) /\ Range(list) = D
      /\ Cardinality(D) = Len(list) /\ IsFiniteSet(D)
  BY CountOrder DEF Lists
<1>2. \A b \in D : PlaceOf(list, b) \in 1 .. Len(list) /\ list[PlaceOf(list, b)] = b
  BY PlaceFacts DEF Lists
<1>3. t.ok = TRUE
  <2>1. \A b, c \in D : -1 - rows[b].position # rows[c].position
    BY DEF IsPlaced, Pos
  <2>2. \A i \in DOMAIN list, b \in D : -1 - rows[b].position # i - 1
    BY <1>1 DEF IsPlaced, Pos
  <2> QED
    BY <1>1, <2>1, <2>2 DEF Arranged, Table
<1>4. t = Table(g)
  BY <1>3 DEF Arranged, Table
<1>5. g = RowsOf(D, P, T, O)
  <2>1. g = [b \in D |-> [rows[b] EXCEPT !.position =
                            IF b \in Range(list) THEN PlaceOf(list, b) - 1
                            ELSE -1 - rows[b].position]]
    BY DEF Arranged, Table
  <2>2. ASSUME NEW b \in D
        PROVE  [rows[b] EXCEPT !.position =
                  IF b \in Range(list) THEN PlaceOf(list, b) - 1 ELSE -1 - rows[b].position]
               = [position |-> P[b], type |-> T[b], of |-> O[b]]
    <3>1. rows[b] = [position |-> Pos(rows, b), type |-> Type(rows, b), of |-> About(rows, b)]
      BY DEF IsRows
    <3>2. P[b] = PlaceOf(list, b) - 1 /\ T[b] = Type(rows, b) /\ O[b] = About(rows, b)
      OBVIOUS
    <3>3. b \in Range(list)
      BY <1>1
    <3> HIDE DEF P, T, O
    <3> QED
      BY <3>1, <3>2, <3>3
  <2> HIDE DEF g, P, T, O, D
  <2> QED
    BY <2>1, <2>2 DEF RowsOf
<1> HIDE DEF g, P, T, O
<1>6. /\ IsRows(g) /\ DOMAIN g = D
      /\ \A b \in D : Pos(g, b) = P[b] /\ Type(g, b) = T[b] /\ About(g, b) = O[b]
  BY <1>1, <1>5, RowsMade
<1>7. \A b \in D : Pos(g, b) = PlaceOf(list, b) - 1 /\ Type(g, b) = Type(rows, b) /\ About(g, b) = About(rows, b)
  BY <1>6 DEF P, T, O
<1>8. IsPlaced(g)
  <2>1. \A b \in D : Pos(g, b) \in Nat
    BY <1>1, <1>2, <1>7
  <2>2. ASSUME NEW b \in D, NEW c \in D, Pos(g, b) = Pos(g, c)
        PROVE  b = c
    <3>1. PlaceOf(list, b) - 1 = PlaceOf(list, c) - 1
      BY <1>7, <2>2
    <3>2. PlaceOf(list, b) = PlaceOf(list, c)
      BY <1>1, <1>2, <3>1
    <3> QED
      BY <1>2, <3>2
  <2> QED
    BY <1>6, <2>1, <2>2 DEF IsPlaced
<1>9. Alike(g, rows) /\ IsArranged(g, list)
  BY <1>6, <1>7 DEF Alike, IsArranged
<1> QED
  BY <1>4, <1>6, <1>8, <1>9

(* Without gaps, rows put back in their order are where they were. *)
LEMMA OrderKept ==
  ASSUME NEW rows, IsRows(rows), IsPlaced(rows), ~HasGaps(rows),
         NEW g, IsRows(g), Alike(g, rows), IsArranged(g, ByPosition(rows))
  PROVE  g = rows
<1> DEFINE list == ByPosition(rows)
<1>1. /\ IsOrder(list, DOMAIN rows) /\ Range(list) = DOMAIN rows
      /\ \A i \in 1 .. Len(list) : list[i] \in DOMAIN rows /\ Rank(rows, list[i]) = i - 1
  BY ByPositionFacts DEF Lists
<1>2. ASSUME NEW b \in DOMAIN rows
      PROVE  Pos(g, b) = Pos(rows, b)
  <2>0. Pos(g, b) = PlaceOf(list, b) - 1
    BY DEF IsArranged, Alike
  <2>1. PlaceOf(list, b) \in 1 .. Len(list) /\ list[PlaceOf(list, b)] = b
    BY <1>1, PlaceFacts
  <2>2. Rank(rows, b) = PlaceOf(list, b) - 1
    BY <1>1, <2>1
  <2> QED
    BY <2>0, <2>2, RankIsPosition
<1> QED
  BY <1>2, RowsEqual

-----------------------------------------------------------------------------
(* Several blocks are deleted or created, one after the other.             *)

(* What holds of 0, and of n + 1 if of n, holds up to m. *)
LEMMA UpTo ==
  ASSUME NEW m \in Nat, NEW S, 0 \in S,
         \A n \in 0 .. m - 1 : n \in S => n + 1 \in S
  PROVE  \A n \in 0 .. m : n \in S
<1> SUFFICES ASSUME NEW n \in 0 .. m, n \notin S
             PROVE  FALSE
  OBVIOUS
<1> DEFINE T == {i \in 0 .. n : i \in S}
           f == [i \in T |-> i + 1]
<1>1. IsFiniteSet(T)
  <2>1. IsFiniteSet(0 .. n)
    BY FS_Interval
  <2> QED
    BY <2>1, FS_Subset
<1>2. IsFiniteSet(T \ {0}) /\ Cardinality(T \ {0}) = Cardinality(T) - 1
  <2>1. 0 \in T
    OBVIOUS
  <2> HIDE DEF T
  <2> QED
    BY <1>1, <2>1, FS_RemoveElement
<1>3. f \in Injection(T, T \ {0})
  <2>1. \A i \in T : i + 1 \in T \ {0}
    OBVIOUS
  <2>2. \A i, j \in T : i + 1 = j + 1 => i = j
    OBVIOUS
  <2> HIDE DEF T
  <2> QED
    BY <2>1, <2>2 DEF Injection, IsInjective
<1> HIDE DEF f
<1>4. Cardinality(T) <= Cardinality(T) - 1
  BY <1>2, <1>3, FS_Injection
<1> QED
  BY <1>1, <1>4, FS_CardinalityType

(* The tables on the way: gaps are closed, ... *)
Removing(f, m, base, rows, list) ==
  f = [i \in 0 .. m |->
         IF i = 0 THEN base ELSE RemoveGap(f[i - 1], rows[list[i]].position)]

(* ... and rows created. *)
Creating(f, m, base, old, list) ==
  f = [i \in 0 .. m |->
         IF i = 0 THEN base
         ELSE Created(MakeGap(f[i - 1], old[list[i]].position), list[i], old[list[i]])]

(* There are such tables, from one to the next, *)
LEMMA RemovingExists ==
  ASSUME NEW m \in Nat, NEW base, NEW rows, NEW list
  PROVE  \E f : Removing(f, m, base, rows, list)
<1> DEFINE S == {n \in 0 .. m : \E f : Removing(f, n, base, rows, list)}
<1>1. 0 \in S
  <2> DEFINE f == [i \in 0 .. 0 |-> base]
  <2>1. Removing(f, 0, base, rows, list)
    BY DEF Removing
  <2> QED
    BY <2>1
<1>2. ASSUME NEW n \in 0 .. m - 1, n \in S
      PROVE  n + 1 \in S
  <2>1. PICK f : Removing(f, n, base, rows, list)
    BY <1>2
  <2> DEFINE g == [i \in 0 .. n + 1 |->
                     IF i = n + 1 THEN RemoveGap(f[n], rows[list[n + 1]].position) ELSE f[i]]
             h == [i \in 0 .. n + 1 |->
                     IF i = 0 THEN base ELSE RemoveGap(g[i - 1], rows[list[i]].position)]
  <2>2. \A i \in 0 .. n : f[i] = IF i = 0 THEN base
                                 ELSE RemoveGap(f[i - 1], rows[list[i]].position)
    BY <2>1, Zenon DEF Removing
  <2>3. ASSUME NEW i \in 0 .. n + 1
        PROVE  g[i] = h[i]
    <3>1. CASE i = n + 1
      <4>1. n \in 0 .. n + 1 /\ n # n + 1 /\ i # 0 /\ i - 1 = n
        BY <3>1
      <4>2. g[i] = RemoveGap(f[n], rows[list[n + 1]].position)
        BY <3>1
      <4>3. g[n] = f[n]
        BY <4>1
      <4>4. h[i] = RemoveGap(g[i - 1], rows[list[i]].position)
        BY <4>1
      <4> HIDE DEF g, h
      <4> QED
        BY <3>1, <4>1, <4>2, <4>3, <4>4
    <3>2. CASE i \in 0 .. n
      <4>1. g[i] = f[i]
        BY <3>2
      <4>2. CASE i = 0
        BY <2>2, <4>1, <4>2
      <4>3. CASE i # 0
        <5>1. i - 1 \in 0 .. n + 1 /\ i - 1 # n + 1
          BY <3>2, <4>3
        <5>2. g[i - 1] = f[i - 1]
          BY <5>1
        <5>3. h[i] = RemoveGap(g[i - 1], rows[list[i]].position)
          BY <4>3
        <5> HIDE DEF g, h
        <5> QED
          BY <2>2, <3>2, <4>1, <4>3, <5>2, <5>3
      <4> QED
        BY <4>2, <4>3
    <3> QED
      BY <3>1, <3>2
  <2>4. g = h
    <3>1. DOMAIN g = 0 .. n + 1 /\ DOMAIN h = 0 .. n + 1
      OBVIOUS
    <3>2. g = [i \in 0 .. n + 1 |-> g[i]] /\ h = [i \in 0 .. n + 1 |-> h[i]]
      OBVIOUS
    <3> HIDE DEF g, h
    <3> QED
      BY <2>3, <3>1, <3>2
  <2>5. Removing(g, n + 1, base, rows, list)
    BY <2>4, Zenon DEF Removing
  <2> QED
    BY <2>5
<1> HIDE DEF S
<1>3. m \in S
  BY <1>1, <1>2, UpTo
<1> QED
  BY <1>3 DEF S

(* ... both ways. *)
LEMMA CreatingExists ==
  ASSUME NEW m \in Nat, NEW base, NEW old, NEW list
  PROVE  \E f : Creating(f, m, base, old, list)
<1> DEFINE N(t, i) == Created(MakeGap(t, old[list[i]].position), list[i], old[list[i]])
           S == {n \in 0 .. m : \E f : Creating(f, n, base, old, list)}
<1>1. 0 \in S
  <2> DEFINE f == [i \in 0 .. 0 |-> base]
  <2>1. Creating(f, 0, base, old, list)
    BY DEF Creating
  <2> QED
    BY <2>1
<1>2. ASSUME NEW n \in 0 .. m - 1, n \in S
      PROVE  n + 1 \in S
  <2>1. PICK f : Creating(f, n, base, old, list)
    BY <1>2
  <2> DEFINE g == [i \in 0 .. n + 1 |-> IF i = n + 1 THEN N(f[n], n + 1) ELSE f[i]]
             h == [i \in 0 .. n + 1 |-> IF i = 0 THEN base ELSE N(g[i - 1], i)]
  <2>2. \A i \in 0 .. n : f[i] = IF i = 0 THEN base ELSE N(f[i - 1], i)
    BY <2>1, Zenon DEF Creating
  <2>6. h = [i \in 0 .. n + 1 |->
               IF i = 0 THEN base
               ELSE Created(MakeGap(g[i - 1], old[list[i]].position), list[i], old[list[i]])]
    OBVIOUS
  <2> HIDE DEF N
  <2>3. ASSUME NEW i \in 0 .. n + 1
        PROVE  g[i] = h[i]
    <3>1. CASE i = n + 1
      <4>1. n \in 0 .. n + 1 /\ n # n + 1 /\ i # 0 /\ i - 1 = n
        BY <3>1
      <4>2. g[i] = N(f[n], n + 1)
        BY <3>1
      <4>3. g[n] = f[n]
        BY <4>1
      <4>4. h[i] = N(g[i - 1], i)
        BY <4>1
      <4> HIDE DEF g, h
      <4> QED
        BY <3>1, <4>1, <4>2, <4>3, <4>4
    <3>2. CASE i \in 0 .. n
      <4>1. g[i] = f[i]
        BY <3>2
      <4>2. CASE i = 0
        BY <2>2, <4>1, <4>2
      <4>3. CASE i # 0
        <5>1. i - 1 \in 0 .. n + 1 /\ i - 1 # n + 1
          BY <3>2, <4>3
        <5>2. g[i - 1] = f[i - 1]
          BY <5>1
        <5>3. h[i] = N(g[i - 1], i)
          BY <4>3
        <5> HIDE DEF g, h
        <5> QED
          BY <2>2, <3>2, <4>1, <4>3, <5>2, <5>3
      <4> QED
        BY <4>2, <4>3
    <3> QED
      BY <3>1, <3>2
  <2>4. g = h
    <3>1. g = [i \in 0 .. n + 1 |-> g[i]] /\ h = [i \in 0 .. n + 1 |-> h[i]]
      OBVIOUS
    <3> HIDE DEF g, h
    <3> QED
      BY <2>3, <3>1
  <2> HIDE DEF g, h
  <2>5. Creating(g, n + 1, base, old, list)
    BY <2>4, <2>6, Zenon DEF Creating
  <2> QED
    BY <2>5
<1> HIDE DEF S
<1>3. m \in S
  BY <1>1, <1>2, UpTo
<1> QED
  BY <1>3 DEF S

(* What is left while the blocks after the j-th are deleted. *)
Remains(g, rows, B, list, j) ==
  /\ IsRows(g) /\ IsPlaced(g) /\ Alike(g, Without(rows, B))
  /\ \A k \in 1 .. j : IsFree(g, Pos(rows, list[k]))

Leaves(H, rows, B, list) ==
  LET m == Len(list) IN
  /\ H[m] = Without(rows, B)
  /\ \A j \in 0 .. m : Remains(H[j], rows, B, list, j)
  /\ \A j \in 1 .. m : Shut(H[j - 1], H[j], Pos(rows, list[j]))

(* DeletedTogether() succeeds, one block after the other. *)
LEMMA BlocksDeleted ==
  ASSUME NEW rows, IsRows(rows), IsPlaced(rows), NEW B, B \subseteq DOMAIN rows
  PROVE  \E H : /\ DeletedTogether(rows, B) = Table(H[0])
                /\ Leaves(H, rows, B, ByPosition(Restrict(rows, B)))
<1> DEFINE old == Restrict(rows, B)
           L == ByPosition(old)
           m == Len(L)
           list == Reverse(L)
           base == Table(Without(rows, B))
<1>1. IsRows(old) /\ IsPlaced(old) /\ DOMAIN old = B /\ Agree(old, rows, B)
  BY SomeRows
<1> HIDE DEF old
<1>2. /\ m \in Nat /\ IsOrder(L, B) /\ Range(L) = B /\ Ascends(L, old)
      /\ \A i \in 1 .. m : L[i] \in B
  BY <1>1, ByPositionFacts DEF Lists
<1>3. DOMAIN L = 1 .. m
  BY <1>2, CountOrder
<1> HIDE DEF L
<1>4. Len(list) = m /\ \A i \in 1 .. m : list[i] = L[m - i + 1]
  <2>1. list = [i \in 1 .. m |-> L[m - i + 1]]
    BY DEF Reverse
  <2>2. list \in [1 .. m -> B]
    BY <1>2, <2>1
  <2> HIDE DEF list
  <2>3. Len(list) = m
    BY <1>2, <2>2, SeqDef, LenProperties
  <2> QED
    BY <2>1, <2>3
<1>5. PICK f : /\ Removing(f, m, base, rows, list)
               /\ DeletedTogether(rows, B) = f[m]
  <2> DEFINE h == CHOOSE after : after =
                    [i \in 0 .. Len(list) |->
                       IF i = 0 THEN base ELSE RemoveGap(after[i - 1], rows[list[i]].position)]
  <2>1. DeletedTogether(rows, B) = h[Len(list)]
    BY DEF DeletedTogether, old, L
  <2>2. \E g : g = [i \in 0 .. Len(list) |->
                      IF i = 0 THEN base ELSE RemoveGap(g[i - 1], rows[list[i]].position)]
    <3> HIDE DEF list, base
    <3>1. \E g : Removing(g, Len(list), base, rows, list)
      BY <1>2, <1>4, RemovingExists
    <3> QED
      BY <3>1, Zenon DEF Removing
  <2>3. Removing(h, m, base, rows, list)
    <3> HIDE DEF list, base, m
    <3> QED
      BY <1>4, <2>2 DEF Removing
  <2> HIDE DEF h, list, base
  <2> QED
    BY <1>4, <2>1, <2>3
<1> DEFINE p(j) == Pos(rows, L[j])
<1>6. f[0] = base /\ \A i \in 1 .. m : f[i] = RemoveGap(f[i - 1], p(m - i + 1))
  <2> HIDE DEF list, base
  <2>1. \A i \in 0 .. m : f[i] = IF i = 0 THEN base
                                 ELSE RemoveGap(f[i - 1], rows[list[i]].position)
    BY <1>5, Zenon DEF Removing
  <2>2. f[0] = base
    BY <1>2, <2>1
  <2>3. \A i \in 1 .. m : f[i] = RemoveGap(f[i - 1], rows[list[i]].position)
    BY <1>2, <2>1
  <2> HIDE DEF m
  <2> QED
    BY <1>4, <2>2, <2>3 DEF Pos
<1> HIDE DEF list
<1>7. \A j \in 1 .. m : p(j) \in Nat /\ \A k \in 1 .. j - 1 : p(k) < p(j)
  <2>1. \A j \in 1 .. m : p(j) = Pos(old, L[j]) /\ p(j) \in Nat
    BY <1>1, <1>2 DEF Agree, IsPlaced
  <2>2. \A i, j \in 1 .. m : i < j => Pos(old, L[i]) < Pos(old, L[j])
    BY <1>2, <1>3 DEF Ascends
  <2> HIDE DEF p, m
  <2> QED
    BY <1>2, <2>1, <2>2
<1> DEFINE IsFine(i) == f[i] = Table(f[i].rows) /\ Remains(f[i].rows, rows, B, L, m - i)
           IsShut(i) == Shut(f[i].rows, f[i - 1].rows, p(m - i + 1))
           S == {i \in 0 .. m : IsFine(i)}
<1> HIDE DEF m
<1>8. /\ IsRows(Without(rows, B)) /\ IsPlaced(Without(rows, B))
      /\ \A b \in B : IsFree(Without(rows, B), Pos(rows, b))
  BY OtherRows
<1>9. 0 \in S
  <2>1. f[0].rows = Without(rows, B) /\ f[0] = Table(f[0].rows)
    BY <1>6 DEF Table
  <2>2. Alike(Without(rows, B), Without(rows, B))
    BY DEF Alike
  <2>3. \A k \in 1 .. m : IsFree(Without(rows, B), Pos(rows, L[k]))
    BY <1>2, <1>8
  <2>4. Remains(Without(rows, B), rows, B, L, m - 0)
    BY <1>2, <1>8, <2>2, <2>3 DEF Remains
  <2> QED
    BY <1>2, <2>1, <2>4
<1>10. ASSUME NEW i \in 0 .. m - 1, IsFine(i)
       PROVE  IsFine(i + 1) /\ IsShut(i + 1)
  <2> DEFINE g == f[i].rows
             q == p(m - i)
  <2>1. /\ m - i \in 1 .. m /\ i + 1 \in 1 .. m /\ m - (i + 1) + 1 = m - i
        /\ i + 1 - 1 = i /\ m - (i + 1) = m - i - 1 /\ m - i - 1 \in Nat
    BY <1>2
  <2>2. f[i] = Table(g) /\ Remains(g, rows, B, L, m - i)
    BY <1>10
  <2>3. f[i + 1] = RemoveGap(f[i], q)
    BY <1>6, <2>1
  <2>4. q \in Nat /\ \A k \in 1 .. m - i - 1 : p(k) < q /\ p(k) \in Nat
    <3>1. \A k \in 1 .. m - i - 1 : k \in 1 .. m
      BY <1>2, <2>1
    <3> HIDE DEF p
    <3> QED
      BY <1>7, <2>1, <3>1
  <2> HIDE DEF g
  <2>5. IsFree(g, q) /\ \A k \in 1 .. m - i - 1 : IsFree(g, p(k))
    <3>1. \A k \in 1 .. m - i : IsFree(g, p(k))
      BY <2>2 DEF Remains
    <3>2. \A k \in 1 .. m - i - 1 : k \in 1 .. m - i
      BY <1>2, <2>1
    <3> HIDE DEF p
    <3> QED
      BY <1>2, <2>1, <3>1, <3>2
  <2> HIDE DEF p, q
  <2>6. IsRows(g) /\ IsPlaced(g) /\ Alike(g, Without(rows, B))
    BY <2>2 DEF Remains
  <2>7. PICK h : RemoveGap(Table(g), q) = Table(h) /\ Shut(h, g, q)
    BY <2>4, <2>5, <2>6, GapRemoved
  <2>8. IsPlaced(h) /\ \A k \in 1 .. m - i - 1 : IsFree(h, p(k))
    BY <2>4, <2>5, <2>6, <2>7, ShutPlaced
  <2>9. f[i + 1] = Table(h)
    BY <2>2, <2>3, <2>7
  <2>10. f[i + 1].rows = h
    BY <2>9 DEF Table
  <2>11. IsRows(h) /\ Alike(h, Without(rows, B))
    BY <2>6, <2>7 DEF Shut, Alike
  <2>12. Remains(h, rows, B, L, m - (i + 1))
    BY <2>1, <2>8, <2>11 DEF Remains, p
  <2>13. Shut(h, g, p(m - (i + 1) + 1)) /\ f[i + 1 - 1].rows = g
    BY <2>1, <2>7 DEF q, g
  <2> QED
    BY <2>9, <2>10, <2>12, <2>13
<1> HIDE DEF p
<1>11. \A i \in 0 .. m - 1 : i \in S => i + 1 \in S
  <2> TAKE i \in 0 .. m - 1
  <2>1. i + 1 \in 0 .. m
    BY <1>2
  <2>2. IsFine(i) => IsFine(i + 1)
    BY <1>10
  <2> HIDE DEF IsFine
  <2> QED
    BY <2>1, <2>2
<1>12. \A i \in 0 .. m : i \in S
  <2> HIDE DEF S
  <2> QED
    BY <1>2, <1>9, <1>11, UpTo
<1>13. \A i \in 0 .. m : IsFine(i)
  <2> HIDE DEF IsFine
  <2> QED
    BY <1>12
<1>14. \A i \in 0 .. m - 1 : IsShut(i + 1)
  <2> TAKE i \in 0 .. m - 1
  <2>1. IsFine(i)
    BY <1>2, <1>13
  <2> QED
    BY <1>10, <2>1
<1> DEFINE H == [j \in 0 .. m |-> f[m - j].rows]
<1>15. \A j \in 0 .. m : H[j] = f[m - j].rows /\ m - j \in 0 .. m /\ m - (m - j) = j
  BY <1>2
<1>16. H[0] = f[m].rows /\ H[m] = f[0].rows
  BY <1>2, <1>15
<1>17. DeletedTogether(rows, B) = Table(H[0])
  <2>1. f[m] = Table(f[m].rows)
    BY <1>2, <1>13
  <2> HIDE DEF H
  <2> QED
    BY <1>5, <1>16, <2>1
<1>18. H[m] = Without(rows, B)
  BY <1>6, <1>16 DEF Table
<1>19. \A j \in 0 .. m : Remains(H[j], rows, B, L, j)
  <2> TAKE j \in 0 .. m
  <2>1. Remains(f[m - j].rows, rows, B, L, m - (m - j))
    BY <1>13, <1>15
  <2> HIDE DEF H
  <2> QED
    BY <1>15, <2>1
<1>20. ASSUME NEW j \in 1 .. m
       PROVE  Shut(H[j - 1], H[j], Pos(rows, L[j]))
  <2>1. /\ m - j \in 0 .. m - 1 /\ m - (m - j + 1) + 1 = j /\ m - j + 1 - 1 = m - j
        /\ j \in 0 .. m /\ j - 1 \in 0 .. m /\ m - (j - 1) = m - j + 1
    BY <1>2
  <2>2. IsShut(m - j + 1)
    BY <1>14, <2>1
  <2>3. Shut(f[m - j + 1].rows, f[m - j].rows, p(j))
    BY <2>1, <2>2
  <2>4. H[j] = f[m - j].rows /\ H[j - 1] = f[m - j + 1].rows
    BY <1>15, <2>1
  <2> HIDE DEF H
  <2> QED
    BY <2>3, <2>4 DEF p
<1> HIDE DEF H
<1>21. Leaves(H, rows, B, L)
  BY <1>18, <1>19, <1>20 DEF Leaves, m
<1> QED
  BY <1>17, <1>21 DEF L, old

(* What there is once j of the blocks are back. *)
Grown(g, rows, old, list, j) ==
  /\ IsRows(g) /\ IsPlaced(g) /\ DOMAIN g = DOMAIN rows \cup {list[k] : k \in 1 .. j}
  /\ \A c \in DOMAIN rows : Type(g, c) = Type(rows, c) /\ About(g, c) = About(rows, c)
  /\ \A k \in 1 .. j : /\ Type(g, list[k]) = Type(old, list[k])
                       /\ About(g, list[k]) = About(old, list[k])

Grows(R, rows, old, list) ==
  LET m == Len(list) IN
  /\ R[0] = rows
  /\ \A j \in 0 .. m : Grown(R[j], rows, old, list, j)
  /\ \A j \in 1 .. m : Added(R[j], R[j - 1], list[j], old[list[j]])

(* Recreated() succeeds wherever the other blocks are by then. *)
LEMMA BlocksCreated ==
  ASSUME NEW rows, IsRows(rows), IsPlaced(rows), NEW old, IsRows(old), IsPlaced(old),
         DOMAIN rows \cap DOMAIN old = {}
  PROVE  \E R : /\ Recreated(rows, old) = Table(R[Len(ByPosition(old))])
                /\ Grows(R, rows, old, ByPosition(old))
<1> DEFINE L == ByPosition(old)
           m == Len(L)
           base == Table(rows)
           p(j) == old[L[j]].position
<1>1. /\ m \in Nat /\ IsOrder(L, DOMAIN old) /\ Range(L) = DOMAIN old
      /\ \A i \in 1 .. m : L[i] \in DOMAIN old
  BY ByPositionFacts DEF Lists
<1>2. DOMAIN L = 1 .. m /\ \A i, j \in 1 .. m : L[i] = L[j] => i = j
  BY <1>1, CountOrder DEF IsOrder
<1> HIDE DEF L
<1>3. PICK f : Creating(f, m, base, old, L) /\ Recreated(rows, old) = f[m]
  <2> DEFINE h == CHOOSE after : after =
                    [i \in 0 .. m |->
                       IF i = 0 THEN base
                       ELSE Created(MakeGap(after[i - 1], old[L[i]].position), L[i], old[L[i]])]
  <2>1. Recreated(rows, old) = h[m]
    BY DEF Recreated, L
  <2>2. \E g : g = [i \in 0 .. m |->
                      IF i = 0 THEN base
                      ELSE Created(MakeGap(g[i - 1], old[L[i]].position), L[i], old[L[i]])]
    <3> HIDE DEF base, m
    <3>1. \E g : Creating(g, m, base, old, L)
      BY <1>1, CreatingExists
    <3> QED
      BY <3>1, Zenon DEF Creating
  <2>3. Creating(h, m, base, old, L)
    <3> HIDE DEF base, m
    <3> QED
      BY <2>2 DEF Creating
  <2> HIDE DEF h, base
  <2> QED
    BY <2>1, <2>3
<1>4. f[0] = base /\ \A i \in 1 .. m : f[i] = Created(MakeGap(f[i - 1], p(i)), L[i], old[L[i]])
  <2> HIDE DEF base
  <2>1. \A i \in 0 .. m : f[i] = IF i = 0 THEN base
                                 ELSE Created(MakeGap(f[i - 1], p(i)), L[i], old[L[i]])
    BY <1>3, Zenon DEF Creating
  <2> HIDE DEF p, m
  <2> QED
    BY <1>1, <2>1
<1>5. \A i \in 1 .. m : /\ IsRow(old[L[i]]) /\ p(i) \in Nat
                        /\ old[L[i]].type = Type(old, L[i]) /\ old[L[i]].of = About(old, L[i])
  <2>1. \A b \in DOMAIN old : old[b] = [position |-> Pos(old, b), type |-> Type(old, b), of |-> About(old, b)]
    BY DEF IsRows
  <2>2. \A b \in DOMAIN old : IsRow(old[b])
    BY <2>1 DEF IsRow, Pos, Type, About
  <2> QED
    BY <1>1, <2>2 DEF IsPlaced, Pos, Type, About
<1> DEFINE IsFine(i) == f[i] = Table(f[i].rows) /\ Grown(f[i].rows, rows, old, L, i)
           IsNext(i) == Added(f[i].rows, f[i - 1].rows, L[i], old[L[i]])
           S == {i \in 0 .. m : IsFine(i)}
<1> HIDE DEF m
<1>6. 0 \in S
  <2>1. f[0].rows = rows /\ f[0] = Table(f[0].rows)
    BY <1>4 DEF Table
  <2>2. Grown(rows, rows, old, L, 0)
    BY DEF Grown
  <2> QED
    BY <1>1, <2>1, <2>2
<1>7. ASSUME NEW i \in 0 .. m - 1, IsFine(i)
      PROVE  IsFine(i + 1) /\ IsNext(i + 1)
  <2> DEFINE g == f[i].rows
             b == L[i + 1]
             row == old[b]
  <2>1. i + 1 \in 1 .. m /\ i + 1 - 1 = i /\ \A k \in 1 .. i : k \in 1 .. m /\ k # i + 1
    BY <1>1
  <2>2. f[i] = Table(g) /\ Grown(g, rows, old, L, i)
    BY <1>7
  <2> HIDE DEF g
  <2>3. f[i + 1] = Created(MakeGap(Table(g), row.position), b, row)
    BY <1>4, <2>1, <2>2
  <2>4. /\ IsRows(g) /\ IsPlaced(g) /\ DOMAIN g = DOMAIN rows \cup {L[k] : k \in 1 .. i}
        /\ \A c \in DOMAIN rows : Type(g, c) = Type(rows, c) /\ About(g, c) = About(rows, c)
        /\ \A k \in 1 .. i : Type(g, L[k]) = Type(old, L[k]) /\ About(g, L[k]) = About(old, L[k])
    BY <2>2 DEF Grown
  <2>5. /\ IsRow(row) /\ row.position \in Nat
        /\ row.type = Type(old, b) /\ row.of = About(old, b)
    BY <1>5, <2>1
  <2>6. b \notin DOMAIN g
    <3>1. b \in DOMAIN old
      BY <1>1, <2>1
    <3>2. \A k \in 1 .. i : L[k] # b
      BY <1>2, <2>1
    <3> QED
      BY <2>4, <3>1, <3>2
  <2>7. PICK h : /\ Created(MakeGap(Table(g), row.position), b, row) = Table(h)
                 /\ Added(h, g, b, row)
    <3> HIDE DEF b, row
    <3> QED
      BY <2>4, <2>5, <2>6, RowAdded
  <2>8. f[i + 1] = Table(h)
    BY <2>3, <2>7
  <2>9. f[i + 1].rows = h
    BY <2>8 DEF Table
  <2>10. /\ IsRows(h) /\ IsPlaced(h) /\ DOMAIN h = DOMAIN g \cup {b}
         /\ Type(h, b) = Type(old, b) /\ About(h, b) = About(old, b)
         /\ \A c \in DOMAIN g : Type(h, c) = Type(g, c) /\ About(h, c) = About(g, c)
    BY <2>5, <2>7 DEF Added
  <2>11. DOMAIN h = DOMAIN rows \cup {L[k] : k \in 1 .. i + 1}
    <3>1. \A k : k \in 1 .. i + 1 <=> k \in 1 .. i \/ k = i + 1
      BY <1>1, <2>1
    <3> QED
      BY <2>4, <2>10, <3>1
  <2>12. \A c \in DOMAIN rows : Type(h, c) = Type(rows, c) /\ About(h, c) = About(rows, c)
    BY <2>4, <2>10
  <2>13. ASSUME NEW k \in 1 .. i + 1
         PROVE  Type(h, L[k]) = Type(old, L[k]) /\ About(h, L[k]) = About(old, L[k])
    <3>1. CASE k = i + 1
      BY <2>10, <3>1
    <3>2. CASE k # i + 1
      <4>1. k \in 1 .. i
        BY <1>1, <2>1, <3>2
      <4> QED
        BY <2>4, <2>10, <4>1
    <3> QED
      BY <3>1, <3>2
  <2>14. Grown(h, rows, old, L, i + 1)
    BY <2>10, <2>11, <2>12, <2>13 DEF Grown
  <2> QED
    BY <2>1, <2>7, <2>8, <2>9, <2>14 DEF g
<1>8. \A i \in 0 .. m - 1 : i \in S => i + 1 \in S
  <2> TAKE i \in 0 .. m - 1
  <2>1. i + 1 \in 0 .. m
    BY <1>1
  <2>2. IsFine(i) => IsFine(i + 1)
    BY <1>7
  <2> HIDE DEF IsFine
  <2> QED
    BY <2>1, <2>2
<1>9. \A i \in 0 .. m : i \in S
  <2> HIDE DEF S
  <2> QED
    BY <1>1, <1>6, <1>8, UpTo
<1>10. \A i \in 0 .. m : IsFine(i)
  <2> HIDE DEF IsFine
  <2> QED
    BY <1>9
<1>11. ASSUME NEW j \in 1 .. m
       PROVE  IsNext(j)
  <2>1. j - 1 \in 0 .. m - 1 /\ j - 1 \in 0 .. m /\ j - 1 + 1 = j
    BY <1>1
  <2>2. IsFine(j - 1)
    BY <1>10, <2>1
  <2>3. IsNext(j - 1 + 1)
    BY <1>7, <2>1, <2>2
  <2> HIDE DEF IsNext
  <2> QED
    BY <2>1, <2>3
<1> DEFINE R == [j \in 0 .. m |-> f[j].rows]
<1>12. R[0] = rows
  BY <1>1, <1>4 DEF Table
<1>13. \A j \in 0 .. m : Grown(R[j], rows, old, L, j)
  BY <1>10
<1>14. ASSUME NEW j \in 1 .. m
       PROVE  Added(R[j], R[j - 1], L[j], old[L[j]])
  <2>1. j - 1 \in 0 .. m /\ j \in 0 .. m
    BY <1>1
  <2>2. R[j] = f[j].rows /\ R[j - 1] = f[j - 1].rows
    BY <2>1
  <2> HIDE DEF R
  <2> QED
    BY <1>11, <2>2
<1>15. Recreated(rows, old) = Table(R[m])
  <2>1. m \in 0 .. m
    BY <1>1
  <2>2. R[m] = f[m].rows /\ f[m] = Table(f[m].rows)
    BY <1>10, <2>1
  <2> HIDE DEF R
  <2> QED
    BY <1>3, <2>2
<1> HIDE DEF R
<1>16. Grows(R, rows, old, L)
  BY <1>12, <1>13, <1>14 DEF Grows, m
<1> QED
  BY <1>15, <1>16 DEF L, m

(* Blocks that were deleted together and come back are where they were. *)
LEMMA BlocksReturned ==
  ASSUME NEW rows, IsRows(rows), IsPlaced(rows), NEW B, B \subseteq DOMAIN rows,
         NEW H, Leaves(H, rows, B, ByPosition(Restrict(rows, B))),
         NEW R, Grows(R, H[0], Restrict(rows, B), ByPosition(Restrict(rows, B)))
  PROVE  R[Len(ByPosition(Restrict(rows, B)))] = rows
<1> DEFINE old == Restrict(rows, B)
           L == ByPosition(old)
           m == Len(L)
           p(j) == Pos(rows, L[j])
           C == DOMAIN rows \ B
<1>1. IsRows(old) /\ IsPlaced(old) /\ DOMAIN old = B /\ Agree(old, rows, B)
  BY SomeRows
<1>0. Leaves(H, rows, B, L) /\ Grows(R, H[0], old, L)
  OBVIOUS
<1> HIDE DEF old
<1>2. /\ m \in Nat /\ IsOrder(L, B) /\ Range(L) = B /\ Ascends(L, old)
      /\ \A i \in 1 .. m : L[i] \in B
  BY <1>1, ByPositionFacts DEF Lists
<1>3. DOMAIN L = 1 .. m
  BY <1>2, CountOrder
<1>4. B = {L[k] : k \in 1 .. m}
  BY <1>2, <1>3 DEF Range
<1> HIDE DEF L
<1>5. /\ H[m] = Without(rows, B)
      /\ \A j \in 0 .. m : Remains(H[j], rows, B, L, j)
      /\ \A j \in 1 .. m : Shut(H[j - 1], H[j], p(j))
  BY <1>0 DEF Leaves
<1>6. /\ R[0] = H[0]
      /\ \A j \in 0 .. m : Grown(R[j], H[0], old, L, j)
      /\ \A j \in 1 .. m : Added(R[j], R[j - 1], L[j], old[L[j]])
  BY <1>0 DEF Grows
<1>7. \A j \in 1 .. m : p(j) \in Nat /\ old[L[j]].position = p(j)
  BY <1>1, <1>2 DEF Agree, IsPlaced, Pos
<1>8. \A i, j \in 1 .. m : i < j => p(i) < p(j)
  <2>1. \A j \in 1 .. m : p(j) = Pos(old, L[j])
    BY <1>1, <1>2 DEF Agree
  <2>2. \A i, j \in 1 .. m : i < j => Pos(old, L[i]) < Pos(old, L[j])
    BY <1>2, <1>3 DEF Ascends
  <2> HIDE DEF p, m
  <2> QED
    BY <2>1, <2>2
<1>9. DOMAIN Without(rows, B) = C /\ Agree(Without(rows, B), rows, C)
  BY OtherRows
<1> HIDE DEF m, p, C
<1>10. ASSUME NEW j \in 0 .. m
       PROVE  DOMAIN H[j] = C /\ \A c \in C : Pos(H[j], c) \in Nat
  <2>1. Remains(H[j], rows, B, L, j)
    BY <1>5
  <2> QED
    BY <1>9, <2>1 DEF Remains, Alike, IsPlaced
<1> DEFINE IsBack(j) == /\ \A c \in C : Pos(R[j], c) = Pos(H[j], c)
                        /\ \A k \in 1 .. j : Pos(R[j], L[k]) = p(k)
           S == {j \in 0 .. m : IsBack(j)}
<1>11. IsBack(0)
  BY <1>6
<1>12. ASSUME NEW j \in 0 .. m - 1, IsBack(j)
       PROVE  IsBack(j + 1)
  <2> DEFINE q == p(j + 1)
  <2>1. /\ j + 1 \in 1 .. m /\ j + 1 - 1 = j /\ j + 1 \in 0 .. m /\ j \in 0 .. m
        /\ \A k \in 1 .. j : k \in 1 .. m /\ k < j + 1
    BY <1>2
  <2>2. Shut(H[j], H[j + 1], q) /\ Added(R[j + 1], R[j], L[j + 1], old[L[j + 1]])
    BY <1>5, <1>6, <2>1
  <2>3. q \in Nat /\ old[L[j + 1]].position = q
    BY <1>7, <2>1
  <2>4. DOMAIN R[j] = C \cup {L[k] : k \in 1 .. j}
    <3>1. Grown(R[j], H[0], old, L, j)
      BY <1>6, <2>1
    <3>2. DOMAIN H[0] = C
      BY <1>2, <1>10
    <3> QED
      BY <3>1, <3>2 DEF Grown
  <2> HIDE DEF q
  <2>5. ASSUME NEW c \in C
        PROVE  Pos(R[j + 1], c) = Pos(H[j + 1], c)
    <3>1. /\ Pos(H[j], c) \in Nat /\ Pos(H[j + 1], c) \in Nat /\ c \in DOMAIN H[j + 1]
          /\ c \in DOMAIN R[j]
      BY <1>10, <2>1, <2>4
    <3>2. Pos(R[j], c) = Pos(H[j], c)
      BY <1>12
    <3>3. Pos(H[j], c) = IF Pos(H[j + 1], c) > q THEN Pos(H[j + 1], c) - 1 ELSE Pos(H[j + 1], c)
      BY <2>2, <3>1 DEF Shut
    <3>4. Pos(R[j + 1], c) = IF Pos(R[j], c) >= q THEN Pos(R[j], c) + 1 ELSE Pos(R[j], c)
      BY <2>2, <2>3, <3>1 DEF Added
    <3>5. Pos(H[j + 1], c) # q
      <4>1. Remains(H[j + 1], rows, B, L, j + 1)
        BY <1>5, <2>1
      <4>2. IsFree(H[j + 1], q)
        <5>1. j + 1 \in 1 .. j + 1
          BY <2>1
        <5> QED
          BY <4>1, <5>1 DEF Remains, q, p
      <4> QED
        BY <3>1, <4>2 DEF IsFree, Pos
    <3> QED
      BY <2>3, <3>1, <3>2, <3>3, <3>4, <3>5
  <2>6. ASSUME NEW k \in 1 .. j + 1
        PROVE  Pos(R[j + 1], L[k]) = p(k)
    <3>1. CASE k = j + 1
      BY <2>2, <2>3, <3>1 DEF Added, q
    <3>2. CASE k # j + 1
      <4>1. k \in 1 .. j /\ k \in 1 .. m /\ k < j + 1
        BY <2>1, <3>2
      <4>2. p(k) < q /\ p(k) \in Nat
        BY <1>7, <1>8, <2>1, <4>1 DEF q
      <4>3. Pos(R[j], L[k]) = p(k) /\ L[k] \in DOMAIN R[j]
        BY <1>12, <2>4, <4>1
      <4>4. Pos(R[j + 1], L[k]) = IF Pos(R[j], L[k]) >= q THEN Pos(R[j], L[k]) + 1 ELSE Pos(R[j], L[k])
        BY <2>2, <2>3, <4>3 DEF Added
      <4> QED
        BY <2>3, <4>2, <4>3, <4>4
    <3> QED
      BY <3>1, <3>2
  <2> QED
    BY <2>5, <2>6
<1>13. \A j \in 0 .. m - 1 : j \in S => j + 1 \in S
  <2> TAKE j \in 0 .. m - 1
  <2>1. j + 1 \in 0 .. m
    BY <1>2
  <2>2. IsBack(j) => IsBack(j + 1)
    BY <1>12
  <2> HIDE DEF IsBack
  <2> QED
    BY <2>1, <2>2
<1>14. 0 \in S
  <2> HIDE DEF IsBack
  <2> QED
    BY <1>2, <1>11
<1>15. m \in S
  <2> HIDE DEF S
  <2> QED
    BY <1>2, <1>13, <1>14, UpTo
<1>16. IsBack(m)
  <2> HIDE DEF IsBack
  <2> QED
    BY <1>15
<1> DEFINE g == R[m]
<1>17. /\ IsRows(g) /\ DOMAIN g = C \cup B
       /\ \A c \in C : Type(g, c) = Type(H[0], c) /\ About(g, c) = About(H[0], c)
       /\ \A k \in 1 .. m : Type(g, L[k]) = Type(old, L[k]) /\ About(g, L[k]) = About(old, L[k])
  <2>1. Grown(g, H[0], old, L, m) /\ DOMAIN H[0] = C
    BY <1>2, <1>6, <1>10
  <2> HIDE DEF g
  <2> QED
    BY <1>4, <2>1 DEF Grown
<1>18. \A c \in C : Type(H[0], c) = Type(rows, c) /\ About(H[0], c) = About(rows, c)
  <2>1. Remains(H[0], rows, B, L, 0)
    BY <1>2, <1>5
  <2> QED
    BY <1>9, <2>1 DEF Remains, Alike, Agree
<1>19. \A c \in C : Pos(g, c) = Pos(rows, c)
  BY <1>5, <1>9, <1>16 DEF Agree
<1>20. \A b \in B : Pos(g, b) = Pos(rows, b) /\ Type(g, b) = Type(rows, b) /\ About(g, b) = About(rows, b)
  <2> TAKE b \in B
  <2>1. PICK k \in 1 .. m : b = L[k]
    BY <1>4
  <2>2. Pos(g, b) = Pos(rows, b)
    BY <1>16, <2>1 DEF p
  <2>3. Type(g, b) = Type(old, b) /\ About(g, b) = About(old, b)
    BY <1>17, <2>1
  <2> QED
    BY <1>1, <2>2, <2>3 DEF Agree
<1> HIDE DEF g
<1>21. Alike(g, rows)
  BY <1>17, <1>18, <1>20 DEF Alike, C
<1>22. \A b \in DOMAIN rows : Pos(g, b) = Pos(rows, b)
  BY <1>19, <1>20 DEF C
<1>23. g = rows
  BY <1>17, <1>21, <1>22, RowsEqual
<1> QED
  BY <1>23 DEF g, m, L, old

-----------------------------------------------------------------------------
(* Workflows.                                                              *)

State(custom, blocks, steps, order) ==
  [custom |-> custom, blocks |-> blocks, steps |-> steps, order |-> order]

Live(steps, order) == {s \in steps : TabOf[s] \in Range(order)}

(* What blocks of a type may be about. *)
MayBe(type, of, steps, order) ==
  /\ type = "Chart" => of \in Live(steps, order)
  /\ type = "Table" => of \in Range(order)
  /\ type = "Text"  => of \in Markdowns

AreAlive(rows, steps, order) ==
  \A b \in DOMAIN rows : MayBe(Type(rows, b), About(rows, b), steps, order)

AreParts(steps, order) == IsOrder(order, Range(FirstTabs)) /\ steps \subseteq DOMAIN TabOf

Sound(w) ==
  /\ w = State(w.custom, w.blocks, w.steps, w.order) /\ w.custom \in BOOLEAN
  /\ w.custom \/ DOMAIN w.blocks = {}
  /\ IsRows(w.blocks) /\ IsPlaced(w.blocks)
  /\ AreParts(w.steps, w.order) /\ AreAlive(w.blocks, w.steps, w.order)

(* Workflows that differ in the positions of blocks at most. *)
Like(u, w) ==
  u.custom = w.custom /\ u.steps = w.steps /\ u.order = w.order /\ Alike(u.blocks, w.blocks)

(* There is one empty table. *)
LEMMA NoRows ==
  /\ IsRows(<<>>) /\ IsPlaced(<<>>) /\ DOMAIN <<>> = {}
  /\ \A rows : IsRows(rows) /\ DOMAIN rows = {} => rows = <<>>
<1>1. DOMAIN <<>> = {}
  OBVIOUS
<1>2. IsRows(<<>>)
  <2>1. <<>> = [b \in {} |-> [position |-> Pos(<<>>, b), type |-> Type(<<>>, b), of |-> About(<<>>, b)]]
    BY <1>1
  <2> QED
    BY <1>1, <2>1, FS_EmptySet DEF IsRows
<1>3. ASSUME NEW rows, IsRows(rows), DOMAIN rows = {}
      PROVE  rows = <<>>
  <2>1. Alike(rows, <<>>)
    BY <1>1, <1>3 DEF Alike
  <2> QED
    BY <1>1, <1>2, <1>3, <2>1, RowsEqual
<1> QED
  BY <1>1, <1>2, <1>3 DEF IsPlaced

(* A workflow made of sound parts is sound. *)
LEMMA StateFacts ==
  ASSUME NEW c, NEW rows, NEW steps, NEW order
  PROVE  LET w == State(c, rows, steps, order)
         IN  /\ w.custom = c /\ w.blocks = rows /\ w.steps = steps /\ w.order = order
             /\ w = State(w.custom, w.blocks, w.steps, w.order)
             /\ /\ c \in BOOLEAN /\ (c \/ DOMAIN rows = {})
                /\ IsRows(rows) /\ IsPlaced(rows)
                /\ AreParts(steps, order) /\ AreAlive(rows, steps, order)
                => Sound(w)
<1> DEFINE w == State(c, rows, steps, order)
<1>1. w.custom = c /\ w.blocks = rows /\ w.steps = steps /\ w.order = order
  BY DEF State
<1> HIDE DEF w
<1>2. w = State(w.custom, w.blocks, w.steps, w.order)
  BY <1>1 DEF w
<1> QED
  BY <1>1, <1>2 DEF Sound, w

(* Being alike. *)
LEMMA LikeFacts ==
  ASSUME NEW u, NEW v, NEW w
  PROVE  /\ Like(u, u)
         /\ Like(u, v) => Like(v, u)
         /\ Like(u, v) /\ Like(v, w) => Like(u, w)
BY DEF Like, Alike

(* The steps before s in a report. *)
Earlier(w, s) ==
  {r \in LiveSteps(w) : \/ PlaceOf(w.order, TabOf[r]) < PlaceOf(w.order, TabOf[s])
                        \/ TabOf[r] = TabOf[s] /\ r < s}

(* No two steps have as many before them. *)
LEMMA EarlierFacts ==
  ASSUME NEW w, AreParts(w.steps, w.order)
  PROVE  /\ IsFiniteSet(LiveSteps(w))
         /\ \A s \in LiveSteps(w) : Cardinality(Earlier(w, s)) \in Nat
         /\ \A r, s \in LiveSteps(w) :
              Cardinality(Earlier(w, r)) = Cardinality(Earlier(w, s)) => r = s
<1> DEFINE S == LiveSteps(w)
           place(s) == PlaceOf(w.order, TabOf[s])
           n == Len(w.order)
           E(s) == Earlier(w, s)
<1>1. S \subseteq w.steps /\ \A s \in S : TabOf[s] \in Range(w.order)
  BY DEF LiveSteps
<1>2. IsFiniteSet(S) /\ S \subseteq Nat
  <2>1. S \subseteq DOMAIN TabOf
    BY <1>1 DEF AreParts
  <2> HIDE DEF S
  <2> QED
    BY <2>1, TabsAndSteps, FS_Subset
<1>3. n \in Nat
  BY CountOrder DEF AreParts
<1>4. \A s \in S : place(s) \in 1 .. n /\ w.order[place(s)] = TabOf[s]
  BY <1>1, PlaceFacts DEF AreParts
<1>5. \A s \in S : \A r : r \in E(s) <=> /\ r \in S
                                         /\ place(r) < place(s) \/ (TabOf[r] = TabOf[s] /\ r < s)
  BY DEF Earlier
<1> HIDE DEF S, place, E, n
<1>6. \A s \in S : IsFiniteSet(E(s)) /\ Cardinality(E(s)) \in Nat
  <2> TAKE s \in S
  <2>1. E(s) \subseteq S
    BY <1>5
  <2> QED
    BY <1>2, <2>1, FS_Subset, FS_CardinalityType
<1>7. ASSUME NEW r \in S, NEW s \in S, r \in E(s)
      PROVE  Cardinality(E(r)) < Cardinality(E(s))
  <2>1. r \notin E(r)
    BY <1>2, <1>3, <1>4, <1>5
  <2>2. E(r) \cup {r} \subseteq E(s)
    <3> SUFFICES ASSUME NEW q \in E(r)
                 PROVE  q \in E(s)
      BY <1>7
    <3>1. q \in S /\ (place(q) < place(r) \/ (TabOf[q] = TabOf[r] /\ q < r))
      BY <1>5
    <3>2. place(r) < place(s) \/ (TabOf[r] = TabOf[s] /\ r < s)
      BY <1>5, <1>7
    <3>3. place(q) \in Nat /\ place(r) \in Nat /\ place(s) \in Nat
      BY <1>3, <1>4, <3>1
    <3>4. /\ TabOf[q] = TabOf[r] => place(q) = place(r)
          /\ TabOf[r] = TabOf[s] => place(r) = place(s)
      BY DEF place
    <3>5. q \in Nat /\ r \in Nat /\ s \in Nat
      BY <1>2, <3>1
    <3>6. place(q) < place(s) \/ (TabOf[q] = TabOf[s] /\ q < s)
      BY <3>1, <3>2, <3>3, <3>4, <3>5
    <3> QED
      BY <1>5, <3>1, <3>6
  <2>3. IsFiniteSet(E(r) \cup {r}) /\ Cardinality(E(r) \cup {r}) = Cardinality(E(r)) + 1
    BY <1>6, <2>1, FS_AddElement
  <2>4. Cardinality(E(r) \cup {r}) <= Cardinality(E(s))
    BY <1>6, <2>2, FS_Subset
  <2> QED
    BY <1>6, <2>3, <2>4
<1>8. ASSUME NEW r \in S, NEW s \in S, r # s
      PROVE  r \in E(s) \/ s \in E(r)
  <2>1. place(r) \in Nat /\ place(s) \in Nat /\ r \in Nat /\ s \in Nat
    BY <1>2, <1>3, <1>4
  <2>2. CASE place(r) = place(s)
    <3>1. TabOf[r] = TabOf[s]
      BY <1>4, <2>2
    <3> QED
      BY <1>5, <1>8, <2>1, <3>1
  <2>3. CASE place(r) # place(s)
    BY <1>5, <2>1, <2>3
  <2> QED
    BY <2>2, <2>3
<1>9. \A r, s \in S : Cardinality(E(r)) = Cardinality(E(s)) => r = s
  <2> SUFFICES ASSUME NEW r \in S, NEW s \in S, r # s
               PROVE  Cardinality(E(r)) # Cardinality(E(s))
    OBVIOUS
  <2> QED
    BY <1>6, <1>7, <1>8
<1> QED
  BY <1>2, <1>6, <1>9 DEF S, E

AutoSlugs == {AutoSlug(s) : s \in DOMAIN TabOf}

(* The auto-report is a table of charts of live steps. *)
LEMMA AutoFacts ==
  ASSUME NEW w, AreParts(w.steps, w.order)
  PROVE  /\ IsRows(AutoReport(w)) /\ IsPlaced(AutoReport(w))
         /\ AreAlive(AutoReport(w), w.steps, w.order)
         /\ DOMAIN AutoReport(w) \subseteq AutoSlugs
<1> DEFINE S == LiveSteps(w)
           D == {AutoSlug(s) : s \in S}
           P == [b \in D |-> Cardinality(Earlier(w, b[2]))]
           T == [b \in D |-> "Chart"]
           O == [b \in D |-> b[2]]
           g == AutoReport(w)
<1>1. \A s : AutoSlug(s)[2] = s
  BY DEF AutoSlug
<1>2. g = RowsOf(D, P, T, O)
  <2>1. g = [b \in D |-> Chart(b[2], Cardinality(Earlier(w, b[2])))]
    BY DEF AutoReport, Earlier
  <2>2. \A b \in D : Chart(b[2], Cardinality(Earlier(w, b[2])))
                     = [position |-> P[b], type |-> T[b], of |-> O[b]]
    BY DEF Chart
  <2> HIDE DEF D, P, T, O, g
  <2> QED
    BY <2>1, <2>2 DEF RowsOf
<1>3. /\ IsFiniteSet(S) /\ \A s \in S : Cardinality(Earlier(w, s)) \in Nat
      /\ \A r, s \in S : Cardinality(Earlier(w, r)) = Cardinality(Earlier(w, s)) => r = s
  BY EarlierFacts
<1>4. IsFiniteSet(D)
  <2> DEFINE f == [s \in S |-> AutoSlug(s)]
  <2>1. f \in Surjection(S, D)
    BY DEF Surjection
  <2> HIDE DEF f, D, S
  <2> QED
    BY <1>3, <2>1, FS_Surjection
<1>5. \A b \in D : b[2] \in S /\ b = AutoSlug(b[2])
  BY <1>1
<1>6. S \subseteq DOMAIN TabOf /\ S = Live(w.steps, w.order)
  BY DEF LiveSteps, Live, AreParts
<1> HIDE DEF g, P, T, O, D
<1>7. /\ IsRows(g) /\ DOMAIN g = D
      /\ \A b \in D : Pos(g, b) = P[b] /\ Type(g, b) = T[b] /\ About(g, b) = O[b]
  BY <1>2, <1>4, RowsMade
<1>8. \A b \in D : Pos(g, b) = Cardinality(Earlier(w, b[2])) /\ Type(g, b) = "Chart" /\ About(g, b) = b[2]
  BY <1>7 DEF P, T, O
<1> HIDE DEF S
<1>9. IsPlaced(g)
  <2>1. \A b \in D : Pos(g, b) \in Nat
    BY <1>3, <1>5, <1>8
  <2>2. ASSUME NEW b \in D, NEW c \in D, Pos(g, b) = Pos(g, c)
        PROVE  b = c
    <3>1. b[2] = c[2]
      BY <1>3, <1>5, <1>8, <2>2
    <3> QED
      BY <1>5, <3>1
  <2> QED
    BY <1>7, <2>1, <2>2 DEF IsPlaced
<1>10. AreAlive(g, w.steps, w.order)
  BY <1>5, <1>6, <1>7, <1>8 DEF AreAlive, MayBe
<1>11. D \subseteq AutoSlugs
  BY <1>5, <1>6 DEF AutoSlugs
<1> QED
  BY <1>7, <1>9, <1>10, <1>11 DEF g

(* The blocks that commands go by. *)
LEMMA BlocksFacts ==
  ASSUME NEW w, Sound(w)
  PROVE  /\ IsRows(Blocks(w)) /\ IsPlaced(Blocks(w)) /\ AreAlive(Blocks(w), w.steps, w.order)
         /\ DOMAIN Blocks(w) \subseteq DOMAIN w.blocks \cup AutoSlugs
         /\ w.custom => Blocks(w) = w.blocks
         /\ ~w.custom => w.blocks = <<>>
         /\ \A x : Like(x, w) => Alike(Blocks(x), Blocks(w))
<1>1. AreParts(w.steps, w.order)
  BY DEF Sound
<1>2. IsRows(AutoReport(w)) /\ IsPlaced(AutoReport(w)) /\ AreAlive(AutoReport(w), w.steps, w.order)
      /\ DOMAIN AutoReport(w) \subseteq AutoSlugs
  BY <1>1, AutoFacts
<1>3. w.custom \in BOOLEAN
  BY DEF Sound
<1>4. ~w.custom => w.blocks = <<>>
  BY NoRows DEF Sound
<1>5. ASSUME NEW x, Like(x, w)
      PROVE  Alike(Blocks(x), Blocks(w))
  <2>1. x.custom = w.custom /\ x.steps = w.steps /\ x.order = w.order /\ Alike(x.blocks, w.blocks)
    BY <1>5 DEF Like
  <2>2. AutoReport(x) = AutoReport(w)
    BY <2>1, Zenon DEF AutoReport, LiveSteps
  <2>3. Alike(AutoReport(x), AutoReport(w))
    BY <2>2 DEF Alike
  <2> QED
    BY <1>3, <2>1, <2>3 DEF Blocks
<1> QED
  BY <1>2, <1>3, <1>4, <1>5 DEF Blocks, Sound

-----------------------------------------------------------------------------
(* Commands there and back.                                                *)

(* A command's result: it is not refused, and leads to v or its like. *)
Leads(result, v) == \E y : result = Fine(y) /\ Sound(y) /\ Like(y, v)

Goes(u, e, v)    == \A x : Sound(x) /\ Like(x, u) => Leads(Forward(x, e), v)
Returns(u, e, v) == \A x : Sound(x) /\ Like(x, v) => Leads(Backward(x, e), u)

(* Both ways to the very states. *)
IsExact(u, e, v) == Forward(u, e) = Fine(v) /\ Backward(v, e) = Fine(u)

Closes(w, e) == e.command = "ReorderBlocks" /\ HasGaps(w.blocks)

Does(w, e, v) ==
  /\ Forward(w, e) = Fine(v) /\ Sound(v)
  /\ Goes(w, e, v) /\ Returns(w, e, v)
  /\ Closes(w, e) \/ IsExact(w, e, v)
  /\ DOMAIN v.blocks \subseteq DOMAIN w.blocks \cup AutoSlugs \cup {e.slug}

(* What the results are. *)
LEMMA ResultsAre ==
  ASSUME NEW w, Sound(w), NEW g, NEW steps, NEW order
  PROVE  /\ WithTable(w, Table(g)) = Fine(State(TRUE, g, w.steps, w.order))
         /\ BackToAuto(w) = Fine(State(FALSE, <<>>, w.steps, w.order))
         /\ Back(w, Table(g)) = Fine(State(w.custom, g, w.steps, w.order))
         /\ Back([w EXCEPT !.steps = steps], Table(g)) = Fine(State(w.custom, g, steps, w.order))
         /\ Back([w EXCEPT !.order = order], Table(g)) = Fine(State(w.custom, g, w.steps, order))
         /\ [w EXCEPT !.steps = steps] = State(w.custom, w.blocks, steps, w.order)
         /\ [w EXCEPT !.order = order] = State(w.custom, w.blocks, w.steps, order)
         /\ [w EXCEPT !.blocks = g] = State(w.custom, g, w.steps, w.order)
<1>1. w = [custom |-> w.custom, blocks |-> w.blocks, steps |-> w.steps, order |-> w.order]
  BY DEF Sound, State
<1>2. ASSUME NEW c, NEW h
      PROVE  [w EXCEPT !.custom = c, !.blocks = h] = State(c, h, w.steps, w.order)
  <2>1. [w EXCEPT !.custom = c] = State(c, w.blocks, w.steps, w.order)
    BY <1>1 DEF State
  <2>2. [State(c, w.blocks, w.steps, w.order) EXCEPT !.blocks = h] = State(c, h, w.steps, w.order)
    BY DEF State
  <2> QED
    BY <2>1, <2>2
<1>3. /\ [w EXCEPT !.custom = TRUE, !.blocks = g] = State(TRUE, g, w.steps, w.order)
      /\ [w EXCEPT !.custom = FALSE, !.blocks = <<>>] = State(FALSE, <<>>, w.steps, w.order)
  BY <1>2, Zenon
<1>4. [w EXCEPT !.blocks = g] = State(w.custom, g, w.steps, w.order)
  BY <1>1 DEF State
<1>5. [w EXCEPT !.steps = steps] = State(w.custom, w.blocks, steps, w.order)
  BY <1>1 DEF State
<1>6. [w EXCEPT !.order = order] = State(w.custom, w.blocks, w.steps, order)
  BY <1>1 DEF State
<1>7. [State(w.custom, w.blocks, steps, w.order) EXCEPT !.blocks = g]
      = State(w.custom, g, steps, w.order)
  BY DEF State
<1>8. [State(w.custom, w.blocks, w.steps, order) EXCEPT !.blocks = g]
      = State(w.custom, g, w.steps, order)
  BY DEF State
<1>9. Table(g).rows = g /\ Table(g).ok = TRUE
  BY DEF Table
<1>10. WithTable(w, Table(g)) = Fine(State(TRUE, g, w.steps, w.order))
  BY <1>3, <1>9 DEF WithTable, Fine
<1>11. BackToAuto(w) = Fine(State(FALSE, <<>>, w.steps, w.order))
  BY <1>3 DEF BackToAuto
<1>12. Back(w, Table(g)) = Fine(State(w.custom, g, w.steps, w.order))
  BY <1>4, <1>9 DEF Back, Fine
<1>13. Back([w EXCEPT !.steps = steps], Table(g)) = Fine(State(w.custom, g, steps, w.order))
  BY <1>5, <1>7, <1>9 DEF Back, Fine
<1>14. Back([w EXCEPT !.order = order], Table(g)) = Fine(State(w.custom, g, w.steps, order))
  BY <1>6, <1>8, <1>9 DEF Back, Fine
<1> QED
  BY <1>4, <1>5, <1>6, <1>10, <1>11, <1>12, <1>13, <1>14

(* Two results of one kind are alike. *)
LEMMA AlikeResults ==
  ASSUME NEW f, NEW g, Alike(f, g), NEW b, NEW row, NEW u, NEW v
  PROVE  /\ Added(u, f, b, row) /\ Added(v, g, b, row) => Alike(u, v)
         /\ Lost(u, f, b) /\ Lost(v, g, b) => Alike(u, v)
         /\ b \notin DOMAIN v /\ Added(g, v, b, row) /\ Lost(u, f, b) => Alike(u, v)
         /\ b \in DOMAIN v /\ Lost(g, v, b) /\ Added(u, f, b, v[b]) => Alike(u, v)
<1>1. ASSUME Added(u, f, b, row), Added(v, g, b, row)
      PROVE  Alike(u, v)
  BY <1>1 DEF Added, Alike
<1>2. ASSUME Lost(u, f, b), Lost(v, g, b)
      PROVE  Alike(u, v)
  BY <1>2 DEF Lost, Alike
<1>3. ASSUME b \notin DOMAIN v, Added(g, v, b, row), Lost(u, f, b)
      PROVE  Alike(u, v)
  BY <1>3 DEF Added, Lost, Alike
<1>4. ASSUME b \in DOMAIN v, Lost(g, v, b), Added(u, f, b, v[b])
      PROVE  Alike(u, v)
  BY <1>4 DEF Added, Lost, Alike, Type, About
<1> QED
  BY <1>1, <1>2, <1>3, <1>4

(* What is alive stays so in alike rows, and when blocks come and go. *)
LEMMA AliveFacts ==
  ASSUME NEW rows, NEW steps, NEW order, AreAlive(rows, steps, order), NEW g, NEW b, NEW row
  PROVE  /\ Alike(g, rows) => AreAlive(g, steps, order)
         /\ Lost(g, rows, b) => AreAlive(g, steps, order)
         /\ Added(g, rows, b, row) /\ MayBe(row.type, row.of, steps, order) =>
              AreAlive(g, steps, order)
<1>1. ASSUME Alike(g, rows)
      PROVE  AreAlive(g, steps, order)
  BY <1>1 DEF Alike, AreAlive
<1>2. ASSUME Lost(g, rows, b)
      PROVE  AreAlive(g, steps, order)
  BY <1>2 DEF Lost, AreAlive
<1>3. ASSUME Added(g, rows, b, row), MayBe(row.type, row.of, steps, order)
      PROVE  AreAlive(g, steps, order)
  BY <1>3 DEF Added, AreAlive
<1> QED
  BY <1>1, <1>2, <1>3

(* AddBlock there ... *)
LEMMA AddBlockForth ==
  ASSUME NEW x, Sound(x), NEW b, b \notin DOMAIN Blocks(x),
         NEW row, IsRow(row), row.position \in Nat, MayBe(row.type, row.of, x.steps, x.order),
         NEW e, e.command = "AddBlock", e.slug = b, e.forth = row
  PROVE  \E g : /\ Forward(x, e) = Fine(State(TRUE, g, x.steps, x.order))
                /\ Added(g, Blocks(x), b, row) /\ Sound(State(TRUE, g, x.steps, x.order))
<1>1. /\ IsRows(Blocks(x)) /\ IsPlaced(Blocks(x)) /\ AreAlive(Blocks(x), x.steps, x.order)
      /\ AreParts(x.steps, x.order)
  BY BlocksFacts DEF Sound
<1>2. PICK g : /\ Created(MakeGap(Table(Blocks(x)), row.position), b, row) = Table(g)
               /\ Added(g, Blocks(x), b, row)
  BY <1>1, RowAdded
<1>3. Forward(x, e) = WithTable(x, Table(g))
  <2>1. Forward(x, e) = WithTable(x, Created(MakeGap(Table(Blocks(x)), e.forth.position),
                                             e.slug, e.forth))
    BY DEF Forward
  <2> QED
    BY <1>2, <2>1
<1>4. Forward(x, e) = Fine(State(TRUE, g, x.steps, x.order))
  BY <1>3, ResultsAre
<1>5. AreAlive(g, x.steps, x.order)
  BY <1>1, <1>2, AliveFacts
<1>6. IsRows(g) /\ IsPlaced(g)
  BY <1>2 DEF Added
<1>7. Sound(State(TRUE, g, x.steps, x.order))
  BY <1>1, <1>5, <1>6, StateFacts
<1> QED
  BY <1>2, <1>4, <1>7

(* ... and back. *)
LEMMA AddBlockBack ==
  ASSUME NEW x, Sound(x), x.custom, NEW b \in DOMAIN x.blocks,
         NEW e, e.command = "AddBlock", e.slug = b, e.wasAuto = FALSE
  PROVE  \E g : /\ Backward(x, e) = Fine(State(TRUE, g, x.steps, x.order))
                /\ Lost(g, x.blocks, b) /\ Sound(State(TRUE, g, x.steps, x.order))
<1>1. /\ IsRows(x.blocks) /\ IsPlaced(x.blocks) /\ AreAlive(x.blocks, x.steps, x.order)
      /\ AreParts(x.steps, x.order) /\ x.custom = TRUE
  BY DEF Sound
<1>2. PICK g : Deleted(x.blocks, b) = Table(g) /\ Lost(g, x.blocks, b)
  BY <1>1, RowDeleted
<1>3. Backward(x, e) = Back(x, Table(g))
  <2>1. Backward(x, e) = Back(x, Deleted(x.blocks, e.slug))
    BY DEF Backward
  <2> QED
    BY <1>2, <2>1
<1>4. Backward(x, e) = Fine(State(TRUE, g, x.steps, x.order))
  BY <1>1, <1>3, ResultsAre
<1>5. AreAlive(g, x.steps, x.order)
  BY <1>1, <1>2, AliveFacts
<1>6. IsRows(g) /\ IsPlaced(g)
  BY <1>2 DEF Lost
<1>7. Sound(State(TRUE, g, x.steps, x.order))
  BY <1>1, <1>5, <1>6, StateFacts
<1> QED
  BY <1>2, <1>4, <1>7

(* The first command on a block is undone to the auto-report. *)
LEMMA AutoBack ==
  ASSUME NEW w, Sound(w), ~w.custom,
         NEW v, v.steps = w.steps, v.order = w.order,
         NEW e, e.command \in {"AddBlock", "DeleteBlock", "ReorderBlocks"}, e.wasAuto
  PROVE  Returns(w, e, v) /\ (Sound(v) => Backward(v, e) = Fine(w))
<1>1. /\ w = State(FALSE, <<>>, w.steps, w.order)
      /\ w.blocks = <<>> /\ w.custom = FALSE
  <2>1. w.blocks = <<>> /\ w.custom = FALSE /\ w = State(w.custom, w.blocks, w.steps, w.order)
    BY BlocksFacts DEF Sound
  <2> QED
    BY <2>1
<1>2. ASSUME NEW x, Sound(x), x.steps = w.steps, x.order = w.order
      PROVE  Backward(x, e) = Fine(w)
  <2>1. Backward(x, e) = BackToAuto(x)
    BY DEF Backward
  <2>2. BackToAuto(x) = Fine(State(FALSE, <<>>, x.steps, x.order))
    BY <1>2, ResultsAre
  <2> QED
    BY <1>1, <1>2, <2>1, <2>2
<1>3. Like(w, w)
  BY LikeFacts
<1>4. ASSUME NEW x, Sound(x), Like(x, v)
      PROVE  Leads(Backward(x, e), w)
  BY <1>2, <1>3, <1>4 DEF Like, Leads
<1> QED
  BY <1>2, <1>4 DEF Returns

(* A result like v. *)
LEMMA LeadsTo ==
  ASSUME NEW v, NEW c, NEW g, NEW steps, NEW order, NEW r,
         r = Fine(State(c, g, steps, order)), Sound(State(c, g, steps, order)),
         c = v.custom, steps = v.steps, order = v.order, Alike(g, v.blocks)
  PROVE  Leads(r, v)
<1> DEFINE y == State(c, g, steps, order)
<1>1. y.custom = c /\ y.blocks = g /\ y.steps = steps /\ y.order = order
  BY StateFacts
<1>2. r = Fine(y) /\ Sound(y)
  OBVIOUS
<1> HIDE DEF y
<1>3. Like(y, v)
  BY <1>1 DEF Like
<1> QED
  BY <1>2, <1>3 DEF Leads

(* AddBlock goes there and back. *)
LEMMA AddBlockDoes ==
  ASSUME NEW w, Sound(w), NEW b, b \notin DOMAIN Blocks(w),
         NEW row, IsRow(row), row.position \in Nat, MayBe(row.type, row.of, w.steps, w.order),
         NEW e, e.command = "AddBlock", e.slug = b, e.forth = row, e.wasAuto = ~w.custom
  PROVE  \E v : Does(w, e, v)
<1>1. PICK g : /\ Forward(w, e) = Fine(State(TRUE, g, w.steps, w.order))
               /\ Added(g, Blocks(w), b, row) /\ Sound(State(TRUE, g, w.steps, w.order))
  BY AddBlockForth
<1>0. PICK v : v = State(TRUE, g, w.steps, w.order)
  OBVIOUS
<1>2. v.custom = TRUE /\ v.blocks = g /\ v.steps = w.steps /\ v.order = w.order
  BY <1>0 DEF State
<1>3. Forward(w, e) = Fine(v) /\ Sound(v)
  BY <1>0, <1>1
<1>4. /\ IsRows(Blocks(w)) /\ IsPlaced(Blocks(w))
      /\ DOMAIN Blocks(w) \subseteq DOMAIN w.blocks \cup AutoSlugs
      /\ \A x : Like(x, w) => Alike(Blocks(x), Blocks(w))
      /\ w.custom => Blocks(w) = w.blocks
  BY BlocksFacts
<1>5. Goes(w, e, v)
  <2> SUFFICES ASSUME NEW x, Sound(x), Like(x, w)
               PROVE  Leads(Forward(x, e), v)
    BY DEF Goes
  <2>1. Alike(Blocks(x), Blocks(w)) /\ x.steps = w.steps /\ x.order = w.order
    BY <1>4 DEF Like
  <2>2. b \notin DOMAIN Blocks(x) /\ MayBe(row.type, row.of, x.steps, x.order)
    BY <2>1 DEF Alike
  <2>3. PICK h : /\ Forward(x, e) = Fine(State(TRUE, h, x.steps, x.order))
                 /\ Added(h, Blocks(x), b, row) /\ Sound(State(TRUE, h, x.steps, x.order))
    BY <2>2, AddBlockForth
  <2>4. Alike(h, v.blocks)
    BY <1>1, <1>2, <2>1, <2>3, AlikeResults
  <2> QED
    BY <1>2, <2>1, <2>3, <2>4, LeadsTo
<1>6. ASSUME w.custom
      PROVE  Returns(w, e, v) /\ Backward(v, e) = Fine(w)
  <2>1. w.custom = TRUE /\ Blocks(w) = w.blocks /\ e.wasAuto = FALSE
    BY <1>4, <1>6 DEF Sound
  <2>2. b \in DOMAIN g
    BY <1>1 DEF Added
  <2>3. Returns(w, e, v)
    <3> SUFFICES ASSUME NEW x, Sound(x), Like(x, v)
                 PROVE  Leads(Backward(x, e), w)
      BY DEF Returns
    <3>1. x.custom = TRUE /\ Alike(x.blocks, g) /\ x.steps = w.steps /\ x.order = w.order
      BY <1>2 DEF Like
    <3>2. b \in DOMAIN x.blocks
      BY <2>2, <3>1 DEF Alike
    <3>3. PICK h : /\ Backward(x, e) = Fine(State(TRUE, h, x.steps, x.order))
                   /\ Lost(h, x.blocks, b) /\ Sound(State(TRUE, h, x.steps, x.order))
      BY <2>1, <3>1, <3>2, AddBlockBack
    <3>4. Alike(h, w.blocks)
      BY <1>1, <2>1, <3>1, <3>3, AlikeResults, ZenonT(60)
    <3> QED
      BY <2>1, <3>1, <3>3, <3>4, LeadsTo
  <2>4. Backward(v, e) = Fine(w)
    <3>1. PICK h : /\ Backward(v, e) = Fine(State(TRUE, h, v.steps, v.order))
                   /\ Lost(h, v.blocks, b) /\ Sound(State(TRUE, h, v.steps, v.order))
      BY <1>2, <1>3, <2>1, <2>2, AddBlockBack
    <3>2. h = w.blocks
      BY <1>1, <1>2, <1>4, <2>1, <3>1, AddedLost
    <3>3. w = State(w.custom, w.blocks, w.steps, w.order)
      BY DEF Sound
    <3> QED
      BY <1>2, <2>1, <3>1, <3>2, <3>3
  <2> QED
    BY <2>3, <2>4
<1>7. ASSUME ~w.custom
      PROVE  Returns(w, e, v) /\ Backward(v, e) = Fine(w)
  <2>1. /\ e.wasAuto /\ e.command \in {"AddBlock", "DeleteBlock", "ReorderBlocks"}
        /\ v.steps = w.steps /\ v.order = w.order /\ Sound(w) /\ ~w.custom
    BY <1>2, <1>7
  <2>2. Returns(w, e, v) /\ (Sound(v) => Backward(v, e) = Fine(w))
    BY ONLY <2>1, AutoBack
  <2> QED
    BY <1>3, <2>2
<1>8. Returns(w, e, v) /\ Backward(v, e) = Fine(w)
  BY <1>3, <1>6, <1>7
<1>9. DOMAIN v.blocks \subseteq DOMAIN w.blocks \cup AutoSlugs \cup {e.slug}
  BY <1>1, <1>2, <1>4 DEF Added
<1>10. Does(w, e, v)
  BY <1>3, <1>5, <1>8, <1>9 DEF Does, IsExact
<1> QED
  BY <1>10

(* DeleteBlock there ... *)
LEMMA DeleteBlockForth ==
  ASSUME NEW x, Sound(x), NEW b \in DOMAIN Blocks(x),
         NEW e, e.command = "DeleteBlock", e.slug = b
  PROVE  \E g : /\ Forward(x, e) = Fine(State(TRUE, g, x.steps, x.order))
                /\ Lost(g, Blocks(x), b) /\ Sound(State(TRUE, g, x.steps, x.order))
<1>1. /\ IsRows(Blocks(x)) /\ IsPlaced(Blocks(x)) /\ AreAlive(Blocks(x), x.steps, x.order)
      /\ AreParts(x.steps, x.order)
  BY BlocksFacts DEF Sound
<1>2. PICK g : Deleted(Blocks(x), b) = Table(g) /\ Lost(g, Blocks(x), b)
  BY <1>1, RowDeleted
<1>3. Forward(x, e) = WithTable(x, Table(g))
  <2>1. Forward(x, e) = WithTable(x, Deleted(Table(Blocks(x)).rows, e.slug))
    BY DEF Forward
  <2>2. Table(Blocks(x)).rows = Blocks(x)
    BY DEF Table
  <2> QED
    BY <1>2, <2>1, <2>2
<1>4. Forward(x, e) = Fine(State(TRUE, g, x.steps, x.order))
  BY <1>3, ResultsAre
<1>5. AreAlive(g, x.steps, x.order)
  BY <1>1, <1>2, AliveFacts
<1>6. IsRows(g) /\ IsPlaced(g)
  BY <1>2 DEF Lost
<1>7. Sound(State(TRUE, g, x.steps, x.order))
  BY <1>1, <1>5, <1>6, StateFacts
<1> QED
  BY <1>2, <1>4, <1>7

(* ... and back. *)
LEMMA DeleteBlockBack ==
  ASSUME NEW x, Sound(x), x.custom, NEW b, b \notin DOMAIN x.blocks,
         NEW row, IsRow(row), row.position \in Nat, MayBe(row.type, row.of, x.steps, x.order),
         NEW e, e.command = "DeleteBlock", e.slug = b, e.back = row, e.wasAuto = FALSE
  PROVE  \E g : /\ Backward(x, e) = Fine(State(TRUE, g, x.steps, x.order))
                /\ Added(g, x.blocks, b, row) /\ Sound(State(TRUE, g, x.steps, x.order))
<1>1. /\ IsRows(x.blocks) /\ IsPlaced(x.blocks) /\ AreAlive(x.blocks, x.steps, x.order)
      /\ AreParts(x.steps, x.order) /\ x.custom = TRUE
  BY DEF Sound
<1>2. PICK g : /\ Created(MakeGap(Table(x.blocks), row.position), b, row) = Table(g)
               /\ Added(g, x.blocks, b, row)
  BY <1>1, RowAdded
<1>3. Backward(x, e) = Back(x, Table(g))
  <2>1. Backward(x, e) = Back(x, Created(MakeGap(Table(x.blocks), e.back.position), e.slug, e.back))
    BY DEF Backward
  <2> QED
    BY <1>2, <2>1
<1>4. Backward(x, e) = Fine(State(TRUE, g, x.steps, x.order))
  BY <1>1, <1>3, ResultsAre
<1>5. AreAlive(g, x.steps, x.order)
  BY <1>1, <1>2, AliveFacts
<1>6. IsRows(g) /\ IsPlaced(g)
  BY <1>2 DEF Added
<1>7. Sound(State(TRUE, g, x.steps, x.order))
  BY <1>1, <1>5, <1>6, StateFacts
<1> QED
  BY <1>2, <1>4, <1>7

(* A row of a table. *)
LEMMA RowFacts ==
  ASSUME NEW rows, IsRows(rows), IsPlaced(rows), NEW b \in DOMAIN rows
  PROVE  /\ IsRow(rows[b]) /\ rows[b].position \in Nat
         /\ rows[b].type = Type(rows, b) /\ rows[b].of = About(rows, b)
<1>1. rows[b] = [position |-> Pos(rows, b), type |-> Type(rows, b), of |-> About(rows, b)]
  BY DEF IsRows
<1> QED
  BY <1>1 DEF IsRow, IsPlaced, Pos, Type, About

(* DeleteBlock goes there and back. *)
LEMMA DeleteBlockDoes ==
  ASSUME NEW w, Sound(w), NEW b \in DOMAIN Blocks(w), NEW row, row = Blocks(w)[b],
         NEW e, e.command = "DeleteBlock", e.slug = b, e.back = row, e.wasAuto = ~w.custom
  PROVE  \E v : Does(w, e, v)
<1>1. PICK g : /\ Forward(w, e) = Fine(State(TRUE, g, w.steps, w.order))
               /\ Lost(g, Blocks(w), b) /\ Sound(State(TRUE, g, w.steps, w.order))
  BY DeleteBlockForth
<1>0. PICK v : v = State(TRUE, g, w.steps, w.order)
  OBVIOUS
<1>2. v.custom = TRUE /\ v.blocks = g /\ v.steps = w.steps /\ v.order = w.order
  BY <1>0 DEF State
<1>3. Forward(w, e) = Fine(v) /\ Sound(v)
  BY <1>0, <1>1
<1>4. /\ IsRows(Blocks(w)) /\ IsPlaced(Blocks(w)) /\ AreAlive(Blocks(w), w.steps, w.order)
      /\ DOMAIN Blocks(w) \subseteq DOMAIN w.blocks \cup AutoSlugs
      /\ \A x : Like(x, w) => Alike(Blocks(x), Blocks(w))
      /\ w.custom => Blocks(w) = w.blocks
  BY BlocksFacts
<1>5. Goes(w, e, v)
  <2> SUFFICES ASSUME NEW x, Sound(x), Like(x, w)
               PROVE  Leads(Forward(x, e), v)
    BY DEF Goes
  <2>1. Alike(Blocks(x), Blocks(w)) /\ x.steps = w.steps /\ x.order = w.order
    BY <1>4 DEF Like
  <2>2. b \in DOMAIN Blocks(x)
    BY <2>1 DEF Alike
  <2>3. PICK h : /\ Forward(x, e) = Fine(State(TRUE, h, x.steps, x.order))
                 /\ Lost(h, Blocks(x), b) /\ Sound(State(TRUE, h, x.steps, x.order))
    BY <2>2, DeleteBlockForth
  <2>4. Alike(h, v.blocks)
    BY <1>1, <1>2, <2>1, <2>3, AlikeResults
  <2> QED
    BY <1>2, <2>1, <2>3, <2>4, LeadsTo
<1>6. ASSUME w.custom
      PROVE  Returns(w, e, v) /\ Backward(v, e) = Fine(w)
  <2>1. w.custom = TRUE /\ Blocks(w) = w.blocks /\ e.wasAuto = FALSE
    BY <1>4, <1>6 DEF Sound
  <2>2. b \notin DOMAIN g /\ b \in DOMAIN w.blocks /\ row = w.blocks[b]
    BY <1>1, <2>1 DEF Lost
  <2>3. IsRow(row) /\ row.position \in Nat /\ MayBe(row.type, row.of, w.steps, w.order)
    <3>1. /\ IsRow(row) /\ row.position \in Nat
          /\ row.type = Type(w.blocks, b) /\ row.of = About(w.blocks, b)
      BY <1>4, <2>1, <2>2, RowFacts
    <3> QED
      BY <1>4, <2>1, <2>2, <3>1 DEF AreAlive
  <2>4. Returns(w, e, v)
    <3> SUFFICES ASSUME NEW x, Sound(x), Like(x, v)
                 PROVE  Leads(Backward(x, e), w)
      BY DEF Returns
    <3>1. x.custom = TRUE /\ Alike(x.blocks, g) /\ x.steps = w.steps /\ x.order = w.order
      BY <1>2 DEF Like
    <3>2. b \notin DOMAIN x.blocks /\ MayBe(row.type, row.of, x.steps, x.order)
      BY <2>2, <2>3, <3>1 DEF Alike
    <3>3. PICK h : /\ Backward(x, e) = Fine(State(TRUE, h, x.steps, x.order))
                   /\ Added(h, x.blocks, b, row) /\ Sound(State(TRUE, h, x.steps, x.order))
      BY <2>1, <2>3, <3>1, <3>2, DeleteBlockBack
    <3>4. Alike(h, w.blocks)
      <4>1. Lost(g, w.blocks, b) /\ Added(h, x.blocks, b, w.blocks[b])
        BY <1>1, <2>1, <2>2, <3>3
      <4> QED
        BY <2>2, <3>1, <4>1, AlikeResults
    <3> QED
      BY <2>1, <3>1, <3>3, <3>4, LeadsTo
  <2>5. Backward(v, e) = Fine(w)
    <3>1. b \notin DOMAIN v.blocks /\ MayBe(row.type, row.of, v.steps, v.order)
      BY <1>2, <2>2, <2>3
    <3>2. PICK h : /\ Backward(v, e) = Fine(State(TRUE, h, v.steps, v.order))
                   /\ Added(h, v.blocks, b, row) /\ Sound(State(TRUE, h, v.steps, v.order))
      BY <1>2, <1>3, <2>1, <2>3, <3>1, DeleteBlockBack
    <3>3. Lost(v.blocks, w.blocks, b) /\ IsRows(w.blocks) /\ IsPlaced(w.blocks)
      BY <1>1, <1>2, <1>4, <2>1
    <3>4. h = w.blocks
      BY <2>2, <3>2, <3>3, LostAdded
    <3>5. w = State(w.custom, w.blocks, w.steps, w.order)
      BY DEF Sound
    <3> QED
      BY <1>2, <2>1, <3>2, <3>4, <3>5
  <2> QED
    BY <2>4, <2>5
<1>7. ASSUME ~w.custom
      PROVE  Returns(w, e, v) /\ Backward(v, e) = Fine(w)
  <2>1. /\ e.wasAuto /\ e.command \in {"AddBlock", "DeleteBlock", "ReorderBlocks"}
        /\ v.steps = w.steps /\ v.order = w.order /\ Sound(w) /\ ~w.custom
    BY <1>2, <1>7
  <2>2. Returns(w, e, v) /\ (Sound(v) => Backward(v, e) = Fine(w))
    BY ONLY <2>1, AutoBack
  <2> QED
    BY <1>3, <2>2
<1>8. Returns(w, e, v) /\ Backward(v, e) = Fine(w)
  BY <1>3, <1>6, <1>7
<1>9. DOMAIN v.blocks \subseteq DOMAIN w.blocks \cup AutoSlugs \cup {e.slug}
  BY <1>1, <1>2, <1>4 DEF Lost
<1>10. Does(w, e, v)
  BY <1>3, <1>5, <1>8, <1>9 DEF Does, IsExact
<1> QED
  BY <1>10

(* ReorderBlocks there ... *)
LEMMA ReorderBlocksForth ==
  ASSUME NEW x, Sound(x), NEW list, Lists(list, DOMAIN Blocks(x)),
         NEW e, e.command = "ReorderBlocks", e.forth = list
  PROVE  \E g : /\ Forward(x, e) = Fine(State(TRUE, g, x.steps, x.order))
                /\ Alike(g, Blocks(x)) /\ Sound(State(TRUE, g, x.steps, x.order))
<1>1. /\ IsRows(Blocks(x)) /\ IsPlaced(Blocks(x)) /\ AreAlive(Blocks(x), x.steps, x.order)
      /\ AreParts(x.steps, x.order)
  BY BlocksFacts DEF Sound
<1>2. PICK g : /\ Arranged(Table(Blocks(x)), list) = Table(g)
               /\ IsRows(g) /\ IsPlaced(g) /\ Alike(g, Blocks(x))
               /\ IsArranged(g, list)
  BY <1>1, RowsArranged
<1>3. Forward(x, e) = WithTable(x, Table(g))
  <2>1. Forward(x, e) = WithTable(x, Arranged(Table(Blocks(x)), e.forth))
    BY DEF Forward
  <2> QED
    BY <1>2, <2>1
<1>4. Forward(x, e) = Fine(State(TRUE, g, x.steps, x.order))
  BY <1>3, ResultsAre
<1>5. AreAlive(g, x.steps, x.order)
  BY <1>1, <1>2, AliveFacts
<1>6. Sound(State(TRUE, g, x.steps, x.order))
  BY <1>1, <1>2, <1>5, StateFacts
<1> QED
  BY <1>2, <1>4, <1>6

(* ... and back. *)
LEMMA ReorderBlocksBack ==
  ASSUME NEW x, Sound(x), x.custom, NEW list, Lists(list, DOMAIN x.blocks),
         NEW e, e.command = "ReorderBlocks", e.back = list, e.wasAuto = FALSE
  PROVE  \E g : /\ Backward(x, e) = Fine(State(TRUE, g, x.steps, x.order))
                /\ Alike(g, x.blocks) /\ Sound(State(TRUE, g, x.steps, x.order))
                /\ IsRows(g) /\ IsArranged(g, list)
<1>1. /\ IsRows(x.blocks) /\ IsPlaced(x.blocks) /\ AreAlive(x.blocks, x.steps, x.order)
      /\ AreParts(x.steps, x.order) /\ x.custom = TRUE
  BY DEF Sound
<1>2. PICK g : /\ Arranged(Table(x.blocks), list) = Table(g)
               /\ IsRows(g) /\ IsPlaced(g) /\ Alike(g, x.blocks)
               /\ IsArranged(g, list)
  BY <1>1, RowsArranged
<1>3. Backward(x, e) = Back(x, Table(g))
  <2>1. Backward(x, e) = Back(x, Arranged(Table(x.blocks), e.back))
    BY DEF Backward
  <2> QED
    BY <1>2, <2>1
<1>4. Backward(x, e) = Fine(State(TRUE, g, x.steps, x.order))
  BY <1>1, <1>3, ResultsAre
<1>5. AreAlive(g, x.steps, x.order)
  BY <1>1, <1>2, AliveFacts
<1>6. Sound(State(TRUE, g, x.steps, x.order))
  BY <1>1, <1>2, <1>5, StateFacts
<1> QED
  BY <1>2, <1>4, <1>6

(* ReorderBlocks goes there and back, but for the gaps that it closes. *)
LEMMA ReorderBlocksDoes ==
  ASSUME NEW w, Sound(w), NEW new, Lists(new, DOMAIN Blocks(w)),
         NEW old, old = ByPosition(Blocks(w)),
         NEW e, e.command = "ReorderBlocks", e.back = old, e.forth = new, e.wasAuto = ~w.custom
  PROVE  \E v : Does(w, e, v)
<1>1. PICK g : /\ Forward(w, e) = Fine(State(TRUE, g, w.steps, w.order))
               /\ Alike(g, Blocks(w)) /\ Sound(State(TRUE, g, w.steps, w.order))
  BY ReorderBlocksForth
<1>0. PICK v : v = State(TRUE, g, w.steps, w.order)
  OBVIOUS
<1>2. v.custom = TRUE /\ v.blocks = g /\ v.steps = w.steps /\ v.order = w.order
  BY <1>0 DEF State
<1>3. Forward(w, e) = Fine(v) /\ Sound(v)
  BY <1>0, <1>1
<1>4. /\ IsRows(Blocks(w)) /\ IsPlaced(Blocks(w))
      /\ DOMAIN Blocks(w) \subseteq DOMAIN w.blocks \cup AutoSlugs
      /\ \A x : Like(x, w) => Alike(Blocks(x), Blocks(w))
      /\ w.custom => Blocks(w) = w.blocks
  BY BlocksFacts
<1>5. Lists(old, DOMAIN Blocks(w))
  BY <1>4, ByPositionFacts
<1>6. Goes(w, e, v)
  <2> SUFFICES ASSUME NEW x, Sound(x), Like(x, w)
               PROVE  Leads(Forward(x, e), v)
    BY DEF Goes
  <2>1. Alike(Blocks(x), Blocks(w)) /\ x.steps = w.steps /\ x.order = w.order
    BY <1>4 DEF Like
  <2>2. Lists(new, DOMAIN Blocks(x))
    BY <2>1 DEF Alike
  <2>3. PICK h : /\ Forward(x, e) = Fine(State(TRUE, h, x.steps, x.order))
                 /\ Alike(h, Blocks(x)) /\ Sound(State(TRUE, h, x.steps, x.order))
    BY <2>2, ReorderBlocksForth
  <2>4. Alike(h, v.blocks)
    BY <1>1, <1>2, <2>1, <2>3 DEF Alike
  <2> QED
    BY <1>2, <2>1, <2>3, <2>4, LeadsTo
<1>7. ASSUME w.custom
      PROVE  Returns(w, e, v) /\ (~HasGaps(w.blocks) => Backward(v, e) = Fine(w))
  <2>1. w.custom = TRUE /\ Blocks(w) = w.blocks /\ e.wasAuto = FALSE
    BY <1>4, <1>7 DEF Sound
  <2>2. DOMAIN g = DOMAIN w.blocks
    BY <1>1, <2>1 DEF Alike
  <2>3. Returns(w, e, v)
    <3> SUFFICES ASSUME NEW x, Sound(x), Like(x, v)
                 PROVE  Leads(Backward(x, e), w)
      BY DEF Returns
    <3>1. x.custom = TRUE /\ Alike(x.blocks, g) /\ x.steps = w.steps /\ x.order = w.order
      BY <1>2 DEF Like
    <3>2. Lists(old, DOMAIN x.blocks)
      BY <1>5, <2>1, <2>2, <3>1 DEF Alike
    <3>3. PICK h : /\ Backward(x, e) = Fine(State(TRUE, h, x.steps, x.order))
                   /\ Alike(h, x.blocks) /\ Sound(State(TRUE, h, x.steps, x.order))
                   /\ IsRows(h) /\ IsArranged(h, old)
      BY <2>1, <3>1, <3>2, ReorderBlocksBack
    <3>4. Alike(h, w.blocks)
      BY <1>1, <2>1, <3>1, <3>3 DEF Alike
    <3> QED
      BY <2>1, <3>1, <3>3, <3>4, LeadsTo
  <2>4. ASSUME ~HasGaps(w.blocks)
        PROVE  Backward(v, e) = Fine(w)
    <3>1. Lists(old, DOMAIN v.blocks)
      BY <1>2, <1>5, <2>1, <2>2
    <3>2. PICK h : /\ Backward(v, e) = Fine(State(TRUE, h, v.steps, v.order))
                   /\ Alike(h, v.blocks) /\ Sound(State(TRUE, h, v.steps, v.order))
                   /\ IsRows(h) /\ IsArranged(h, old)
      BY <1>2, <1>3, <2>1, <3>1, ReorderBlocksBack
    <3>3. Alike(h, w.blocks)
      BY <1>1, <1>2, <2>1, <3>2 DEF Alike
    <3>4. h = w.blocks
      BY <1>2, <1>4, <2>1, <2>2, <2>4, <3>2, <3>3, OrderKept
    <3>5. w = State(w.custom, w.blocks, w.steps, w.order)
      BY DEF Sound
    <3> QED
      BY <1>2, <2>1, <3>2, <3>4, <3>5
  <2> QED
    BY <2>3, <2>4
<1>8. ASSUME ~w.custom
      PROVE  Returns(w, e, v) /\ Backward(v, e) = Fine(w)
  <2>1. /\ e.wasAuto /\ e.command \in {"AddBlock", "DeleteBlock", "ReorderBlocks"}
        /\ v.steps = w.steps /\ v.order = w.order /\ Sound(w) /\ ~w.custom
    BY <1>2, <1>8
  <2>2. Returns(w, e, v) /\ (Sound(v) => Backward(v, e) = Fine(w))
    BY ONLY <2>1, AutoBack
  <2> QED
    BY <1>3, <2>2
<1>9. Returns(w, e, v) /\ (~HasGaps(w.blocks) => Backward(v, e) = Fine(w))
  BY <1>3, <1>7, <1>8
<1>10. DOMAIN v.blocks \subseteq DOMAIN w.blocks \cup AutoSlugs \cup {e.slug}
  BY <1>1, <1>2, <1>4 DEF Alike
<1>11. Does(w, e, v)
  BY <1>3, <1>6, <1>9, <1>10 DEF Does, IsExact, Closes
<1> QED
  BY <1>11

-----------------------------------------------------------------------------
(* The order of tabs.                                                      *)

(* InsertAt() and RemoveAt(), place by place. *)
IsInserted(r, list, p, t) ==
  \A i \in 1 .. Len(list) + 1 :
    r[i] = IF i < p THEN list[i] ELSE IF i = p THEN t ELSE list[i - 1]

IsRemoved(r, list, p) ==
  \A i \in 1 .. Len(list) - 1 : r[i] = IF i < p THEN list[i] ELSE list[i + 1]

(* InsertAt() makes a sequence, ... *)
LEMMA InsertFacts ==
  ASSUME NEW T, NEW list \in Seq(T), NEW t \in T, NEW p \in 1 .. Len(list) + 1,
         NEW r, r = InsertAt(list, p, t)
  PROVE  /\ r \in Seq(T) /\ Len(r) = Len(list) + 1 /\ Len(list) \in Nat
         /\ IsInserted(r, list, p, t)
<1> DEFINE n == Len(list)
           a == SubSeq(list, 1, p - 1)
           b == SubSeq(list, p, n)
           c == a \o <<t>>
<1>1. n \in Nat /\ \A i \in 1 .. n : list[i] \in T
  BY LenProperties, ElementOfSeq
<1>2. p \in Int /\ 1 <= p /\ p <= n + 1
  BY <1>1
<1>3. a \in Seq(T) /\ Len(a) = p - 1 /\ \A i \in 1 .. p - 1 : a[i] = list[i]
  <2>1. \A i \in 1 .. p - 1 : list[i] \in T
    BY <1>1, <1>2
  <2>2. /\ a \in Seq(T) /\ Len(a) = IF 1 <= p - 1 THEN p - 1 - 1 + 1 ELSE 0
        /\ \A i \in 1 .. p - 1 - 1 + 1 : a[i] = list[1 + i - 1]
    BY <1>2, <2>1, SubSeqProperties
  <2> HIDE DEF a
  <2> QED
    BY <1>2, <2>2
<1>4. b \in Seq(T) /\ Len(b) = n - p + 1 /\ \A i \in 1 .. n - p + 1 : b[i] = list[p + i - 1]
  <2>1. \A i \in p .. n : list[i] \in T
    BY <1>1, <1>2
  <2>2. /\ b \in Seq(T) /\ Len(b) = IF p <= n THEN n - p + 1 ELSE 0
        /\ \A i \in 1 .. n - p + 1 : b[i] = list[p + i - 1]
    BY <1>1, <1>2, <2>1, SubSeqProperties
  <2> HIDE DEF b
  <2> QED
    BY <1>1, <1>2, <2>2
<1>5. r = c \o b
  BY DEF InsertAt
<1> HIDE DEF n, a, b
<1>6. /\ c \in Seq(T) /\ Len(c) = p
      /\ \A i \in 1 .. p : c[i] = IF i <= p - 1 THEN a[i] ELSE t
  <2>1. <<t>> \in Seq(T) /\ Len(<<t>>) = 1 /\ <<t>>[1] = t
    OBVIOUS
  <2>2. /\ c \in Seq(T) /\ Len(c) = p - 1 + 1
        /\ \A i \in 1 .. p - 1 + 1 : c[i] = IF i <= p - 1 THEN a[i] ELSE <<t>>[i - (p - 1)]
    BY <1>3, <2>1, ConcatProperties
  <2> HIDE DEF c
  <2>3. ASSUME NEW i \in 1 .. p
        PROVE  c[i] = IF i <= p - 1 THEN a[i] ELSE t
    <3>1. CASE i <= p - 1
      BY <1>2, <2>2, <3>1
    <3>2. CASE ~(i <= p - 1)
      <4>1. i = p /\ i \in 1 .. p - 1 + 1 /\ i - (p - 1) = 1
        BY <1>2, <3>2
      <4> QED
        BY <2>1, <2>2, <3>2, <4>1
    <3> QED
      BY <3>1, <3>2
  <2> QED
    BY <1>2, <2>2, <2>3
<1> HIDE DEF c
<1>7. /\ r \in Seq(T) /\ Len(r) = p + (n - p + 1)
      /\ \A i \in 1 .. p + (n - p + 1) : r[i] = IF i <= p THEN c[i] ELSE b[i - p]
  <2> DEFINE q == c \o b
  <2>1. c \in Seq(T) /\ b \in Seq(T)
    BY <1>4, <1>6
  <2>2. /\ q \in Seq(T) /\ Len(q) = Len(c) + Len(b)
        /\ \A i \in 1 .. Len(c) + Len(b) : q[i] = IF i <= Len(c) THEN c[i] ELSE b[i - Len(c)]
    BY ONLY <2>1, ConcatProperties
  <2>3. r = q /\ Len(c) = p /\ Len(b) = n - p + 1
    BY <1>4, <1>5, <1>6
  <2> HIDE DEF q
  <2> QED
    BY ONLY <2>2, <2>3
<1>8. Len(r) = n + 1
  BY <1>1, <1>2, <1>7
<1>9. ASSUME NEW i \in 1 .. n + 1
      PROVE  r[i] = IF i < p THEN list[i] ELSE IF i = p THEN t ELSE list[i - 1]
  <2>1. r[i] = IF i <= p THEN c[i] ELSE b[i - p]
    BY <1>1, <1>2, <1>7
  <2>2. CASE i < p
    BY <1>2, <1>3, <1>6, <2>1, <2>2
  <2>3. CASE i = p
    BY <1>2, <1>6, <2>1, <2>3
  <2>4. CASE i > p
    <3>1. i - p \in 1 .. n - p + 1 /\ p + (i - p) - 1 = i - 1
      BY <1>1, <1>2, <2>4
    <3> QED
      BY <1>2, <1>4, <2>1, <2>4, <3>1
  <2> QED
    BY <1>2, <2>2, <2>3, <2>4
<1> QED
  BY <1>1, <1>7, <1>8, <1>9 DEF n, IsInserted

(* ... and so does RemoveAt(). *)
LEMMA RemoveFacts ==
  ASSUME NEW T, NEW list \in Seq(T), NEW p \in 1 .. Len(list), NEW r, r = RemoveAt(list, p)
  PROVE  /\ r \in Seq(T) /\ Len(r) = Len(list) - 1 /\ Len(list) \in Nat
         /\ IsRemoved(r, list, p)
<1> DEFINE n == Len(list)
           a == SubSeq(list, 1, p - 1)
           b == SubSeq(list, p + 1, n)
<1>1. n \in Nat /\ \A i \in 1 .. n : list[i] \in T
  BY LenProperties, ElementOfSeq
<1>2. p \in Int /\ 1 <= p /\ p <= n
  BY <1>1
<1>3. a \in Seq(T) /\ Len(a) = p - 1 /\ \A i \in 1 .. p - 1 : a[i] = list[i]
  <2>1. \A i \in 1 .. p - 1 : list[i] \in T
    BY <1>1, <1>2
  <2>2. /\ a \in Seq(T) /\ Len(a) = IF 1 <= p - 1 THEN p - 1 - 1 + 1 ELSE 0
        /\ \A i \in 1 .. p - 1 - 1 + 1 : a[i] = list[1 + i - 1]
    BY <1>2, <2>1, SubSeqProperties
  <2> HIDE DEF a
  <2> QED
    BY <1>2, <2>2
<1>4. b \in Seq(T) /\ Len(b) = n - p /\ \A i \in 1 .. n - p : b[i] = list[p + i]
  <2>1. \A i \in p + 1 .. n : list[i] \in T
    BY <1>1, <1>2
  <2>2. p + 1 \in Int /\ n \in Int
    BY <1>1, <1>2
  <2>3. /\ b \in Seq(T) /\ Len(b) = IF p + 1 <= n THEN n - (p + 1) + 1 ELSE 0
        /\ \A i \in 1 .. n - (p + 1) + 1 : b[i] = list[p + 1 + i - 1]
    BY <2>1, <2>2, SubSeqProperties
  <2> HIDE DEF b
  <2>4. n - (p + 1) + 1 = n - p /\ \A i \in 1 .. n - p : p + 1 + i - 1 = p + i
    BY <1>1, <1>2
  <2>5. Len(b) = n - p
    BY ONLY <1>1, <1>2, <2>3
  <2>6. \A i \in 1 .. n - p : b[i] = list[p + i]
    <3> TAKE i \in 1 .. n - p
    <3>1. b[i] = list[p + 1 + i - 1]
      BY ONLY <2>3, <2>4
    <3> QED
      BY ONLY <2>4, <3>1
  <2> QED
    BY <2>3, <2>5, <2>6
<1>5. r = a \o b
  BY DEF RemoveAt
<1> HIDE DEF n, a, b
<1>6. /\ r \in Seq(T) /\ Len(r) = p - 1 + (n - p)
      /\ \A i \in 1 .. p - 1 + (n - p) : r[i] = IF i <= p - 1 THEN a[i] ELSE b[i - (p - 1)]
  BY <1>3, <1>4, <1>5, ConcatProperties
<1>7. p - 1 + (n - p) = n - 1
  BY <1>1, <1>2
<1>8. ASSUME NEW i \in 1 .. n - 1
      PROVE  r[i] = IF i < p THEN list[i] ELSE list[i + 1]
  <2>1. CASE i < p
    BY <1>2, <1>3, <1>6, <1>7, <2>1
  <2>2. CASE ~(i < p)
    <3>1. i - (p - 1) \in 1 .. n - p /\ p + (i - (p - 1)) = i + 1 /\ ~(i <= p - 1)
      BY <1>1, <1>2, <2>2
    <3> QED
      BY <1>4, <1>6, <1>7, <2>2, <3>1
  <2> QED
    BY <2>1, <2>2
<1> QED
  BY <1>1, <1>6, <1>7, <1>8 DEF n, IsRemoved

(* A tab taken out can be put in again. *)
LEMMA OrderRemoved ==
  ASSUME NEW T, NEW list, IsOrder(list, T), NEW p \in 1 .. Len(list),
         NEW r, r = RemoveAt(list, p)
  PROVE  /\ IsOrder(r, T) /\ list[p] \notin Range(r) /\ p \in 1 .. Len(r) + 1
         /\ InsertAt(r, p, list[p]) = list /\ Range(r) = Range(list) \ {list[p]}
<1> DEFINE n == Len(list)
<1>1. /\ list \in Seq(T) /\ DOMAIN list = 1 .. n /\ n \in Nat /\ list[p] \in T
      /\ \A i, j \in 1 .. n : list[i] = list[j] => i = j
  BY LenProperties, ElementOfSeq DEF IsOrder
<1>2. r \in Seq(T) /\ Len(r) = n - 1 /\ IsRemoved(r, list, p)
  <2>1. list \in Seq(T) /\ p \in 1 .. Len(list) /\ r = RemoveAt(list, p)
    BY <1>1
  <2> QED
    BY ONLY <2>1, RemoveFacts
<1>3. n >= 1 /\ p \in 1 .. n
  BY <1>1
<1> HIDE DEF n
<1>4. DOMAIN r = 1 .. n - 1 /\ n - 1 \in Nat
  BY <1>1, <1>2, <1>3, LenProperties
<1>5. ASSUME NEW i \in 1 .. n - 1
      PROVE  /\ i < p => i \in 1 .. n /\ r[i] = list[i]
             /\ ~(i < p) => i + 1 \in 1 .. n /\ r[i] = list[i + 1] /\ i + 1 # p
  <2>1. r[i] = IF i < p THEN list[i] ELSE list[i + 1]
    BY <1>2 DEF IsRemoved, n
  <2> QED
    BY <1>1, <1>3, <2>1
<1>6. ASSUME NEW i \in 1 .. n - 1, NEW j \in 1 .. n - 1, r[i] = r[j]
      PROVE  i = j
  BY <1>1, <1>3, <1>5, <1>6
<1>8. IsOrder(r, T)
  BY <1>2, <1>4, <1>6 DEF IsOrder
<1>9. \A i \in 1 .. n - 1 : r[i] # list[p]
  BY <1>1, <1>3, <1>5
<1>10. p \in 1 .. Len(r) + 1
  BY <1>1, <1>2, <1>3
<1>11. InsertAt(r, p, list[p]) = list
  <2> DEFINE q == InsertAt(r, p, list[p])
  <2>0. q \in Seq(T) /\ Len(q) = Len(r) + 1 /\ IsInserted(q, r, p, list[p])
    BY <1>1, <1>2, <1>10, InsertFacts
  <2> HIDE DEF q
  <2>1. /\ q \in Seq(T) /\ Len(q) = n - 1 + 1
        /\ \A i \in 1 .. n - 1 + 1 :
             q[i] = IF i < p THEN r[i] ELSE IF i = p THEN list[p] ELSE r[i - 1]
    BY <1>2, <2>0 DEF IsInserted
  <2>2. ASSUME NEW i \in 1 .. n
        PROVE  q[i] = list[i]
    <3>1. i \in 1 .. n - 1 + 1
      BY <1>1
    <3>2. CASE i < p
      <4>1. i \in 1 .. n - 1
        BY <1>1, <1>3, <3>2
      <4> QED
        BY <1>5, <2>1, <3>1, <3>2, <4>1
    <3>3. CASE i = p
      BY <2>1, <3>1, <3>3
    <3>4. CASE i > p
      <4>1. i - 1 \in 1 .. n - 1 /\ ~(i - 1 < p) /\ i - 1 + 1 = i /\ ~(i < p) /\ i # p
        BY <1>1, <1>3, <3>4
      <4> QED
        BY <1>5, <2>1, <3>1, <4>1
    <3> QED
      BY <1>3, <3>2, <3>3, <3>4
  <2>3. n - 1 + 1 = n /\ Len(list) = n
    BY <1>1 DEF n
  <2> QED
    BY <1>1, <2>1, <2>2, <2>3, SeqEqual DEF q
<1>12. \A x : x \in Range(r) <=> x \in Range(list) \ {list[p]}
  <2>1. \A i \in 1 .. n - 1 : r[i] \in Range(list) \ {list[p]}
    BY <1>1, <1>5, <1>9, SMTT(60) DEF Range
  <2>2. ASSUME NEW i \in 1 .. n, list[i] # list[p]
        PROVE  \E k \in 1 .. n - 1 : r[k] = list[i]
    <3>1. i # p
      BY <2>2
    <3>2. CASE i < p
      <4>1. i \in 1 .. n - 1
        BY <1>1, <1>3, <3>2
      <4> QED
        BY <1>5, <3>2, <4>1
    <3>3. CASE i > p
      <4>1. i - 1 \in 1 .. n - 1 /\ ~(i - 1 < p) /\ i - 1 + 1 = i
        BY <1>1, <1>3, <3>3
      <4> QED
        BY <1>5, <4>1
    <3> QED
      BY <1>3, <3>1, <3>2, <3>3
  <2>3. Range(r) = {r[i] : i \in 1 .. n - 1} /\ Range(list) = {list[i] : i \in 1 .. n}
    BY <1>1, <1>4 DEF Range
  <2> QED
    BY <2>1, <2>2, <2>3
<1>13. list[p] \notin Range(r)
  BY <1>12
<1> QED
  BY <1>8, <1>10, <1>11, <1>12, <1>13

(* The members of S in any order. *)
LEMMA AllOfThem ==
  ASSUME NEW S, IsFiniteSet(S), NEW new \in SetToSeqs(S)
  PROVE  Lists(new, S)
<1> DEFINE n == Cardinality(S)
<1>1. new \in [1 .. n -> S] /\ \A i, j \in 1 .. n : i # j => new[i] # new[j]
  BY DEF SetToSeqs
<1>2. n \in Nat
  BY FS_CardinalityType
<1> HIDE DEF n
<1>3. new \in Injection(1 .. n, S)
  BY <1>1 DEF Injection, IsInjective
<1>4. IsFiniteSet(1 .. n) /\ Cardinality(1 .. n) = n
  <2>1. IsFiniteSet(1 .. n) /\ Cardinality(1 .. n) = IF 1 > n THEN 0 ELSE n - 1 + 1
    BY <1>2, FS_Interval
  <2> QED
    BY <1>2, <2>1
<1>5. new \in Surjection(1 .. n, S)
  BY <1>3, <1>4, FS_Injection DEF n
<1>6. \A s \in S : \E i \in 1 .. n : new[i] = s
  BY <1>5 DEF Surjection
<1>7. DOMAIN new = 1 .. n /\ \A i \in 1 .. n : new[i] \in S
  BY <1>1
<1>8. Range(new) = S
  BY <1>6, <1>7 DEF Range
<1>9. new \in Seq(S)
  BY <1>1, <1>2, SeqDef
<1> QED
  BY <1>1, <1>7, <1>8, <1>9 DEF Lists, IsOrder

-----------------------------------------------------------------------------
(* Commands on steps and tabs, which take blocks with them.                *)

(* What is left in alike tables is alike. *)
LEMMA AlikeLeft ==
  ASSUME NEW rows, IsRows(rows), IsPlaced(rows), NEW f, IsRows(f), IsPlaced(f), Alike(f, rows),
         NEW B, B \subseteq DOMAIN rows
  PROVE  Alike(Without(f, B), Without(rows, B))
<1> DEFINE u == Without(f, B)
           v == Without(rows, B)
<1>1. DOMAIN f = DOMAIN rows
  BY DEF Alike
<1>2. DOMAIN u = DOMAIN f \ B /\ Agree(u, f, DOMAIN f \ B)
  BY <1>1, OtherRows
<1>3. DOMAIN v = DOMAIN rows \ B /\ Agree(v, rows, DOMAIN rows \ B)
  BY OtherRows
<1> HIDE DEF u, v
<1>4. Alike(u, v)
  BY <1>1, <1>2, <1>3 DEF Agree, Alike
<1> QED
  BY <1>4 DEF u, v

Gone(g, rows, B) == IsRows(g) /\ IsPlaced(g) /\ Alike(g, Without(rows, B))

(* Blocks that are deleted together come back where they were. *)
LEMMA TogetherThereAndBack ==
  ASSUME NEW rows, IsRows(rows), IsPlaced(rows), NEW B, B \subseteq DOMAIN rows
  PROVE  \E g : /\ DeletedTogether(rows, B) = Table(g) /\ Gone(g, rows, B)
                /\ Recreated(g, Restrict(rows, B)) = Table(rows)
<1> DEFINE old == Restrict(rows, B)
           L == ByPosition(old)
<1>1. PICK H : DeletedTogether(rows, B) = Table(H[0]) /\ Leaves(H, rows, B, L)
  BY BlocksDeleted
<1>2. IsRows(old) /\ IsPlaced(old) /\ DOMAIN old = B
  BY SomeRows
<1>3. Len(L) \in Nat
  BY <1>2, ByPositionFacts
<1> HIDE DEF L, old
<1>4. Remains(H[0], rows, B, L, 0)
  BY <1>1, <1>3 DEF Leaves
<1>5. Gone(H[0], rows, B)
  BY <1>4 DEF Remains, Gone
<1>6. DOMAIN H[0] \cap DOMAIN old = {}
  <2>1. DOMAIN Without(rows, B) = DOMAIN rows \ B
    BY OtherRows
  <2> QED
    BY <1>2, <1>5, <2>1 DEF Gone, Alike
<1>7. PICK R : Recreated(H[0], old) = Table(R[Len(ByPosition(old))]) /\ Grows(R, H[0], old, ByPosition(old))
  BY <1>2, <1>5, <1>6, BlocksCreated DEF Gone
<1>8. R[Len(ByPosition(old))] = rows
  BY <1>1, <1>7, BlocksReturned DEF L, old
<1>9. Recreated(H[0], old) = Table(rows)
  BY <1>7, <1>8
<1> QED
  BY <1>1, <1>5, <1>9 DEF old

(* ... and, if the others have moved, come back somewhere. *)
LEMMA TogetherBack ==
  ASSUME NEW rows, IsRows(rows), IsPlaced(rows), NEW B, B \subseteq DOMAIN rows,
         NEW g, Gone(g, rows, B)
  PROVE  \E h : /\ Recreated(g, Restrict(rows, B)) = Table(h)
                /\ IsRows(h) /\ IsPlaced(h) /\ Alike(h, rows)
<1> DEFINE old == Restrict(rows, B)
           L == ByPosition(old)
           m == Len(L)
           C == DOMAIN rows \ B
<1>1. IsRows(old) /\ IsPlaced(old) /\ DOMAIN old = B /\ Agree(old, rows, B)
  BY SomeRows
<1>2. DOMAIN Without(rows, B) = C /\ Agree(Without(rows, B), rows, C)
  BY OtherRows
<1> HIDE DEF old
<1>3. m \in Nat /\ DOMAIN L = 1 .. m /\ Range(L) = B
  BY <1>1, ByPositionFacts, CountOrder DEF Lists
<1> HIDE DEF L, m
<1>4. B = {L[k] : k \in 1 .. m}
  BY <1>3 DEF Range
<1>5. IsRows(g) /\ IsPlaced(g) /\ DOMAIN g = C /\ \A c \in C : Type(g, c) = Type(rows, c) /\ About(g, c) = About(rows, c)
  BY <1>2 DEF Gone, Alike, Agree
<1>6. PICK R : Recreated(g, old) = Table(R[m]) /\ Grows(R, g, old, L)
  <2>1. DOMAIN g \cap DOMAIN old = {}
    BY <1>1, <1>5
  <2> QED
    BY <1>1, <1>5, <2>1, BlocksCreated DEF L, m
<1>7. Grown(R[m], g, old, L, m)
  BY <1>3, <1>6 DEF Grows, m
<1>8. PICK h : h = R[m]
  OBVIOUS
<1>9. /\ IsRows(h) /\ IsPlaced(h) /\ DOMAIN h = DOMAIN g \cup {L[k] : k \in 1 .. m}
      /\ \A c \in DOMAIN g : Type(h, c) = Type(g, c) /\ About(h, c) = About(g, c)
      /\ \A k \in 1 .. m : Type(h, L[k]) = Type(old, L[k]) /\ About(h, L[k]) = About(old, L[k])
  BY <1>7, <1>8 DEF Grown
<1>10. DOMAIN h = DOMAIN rows
  BY <1>4, <1>5, <1>9
<1>11. \A b \in B : Type(h, b) = Type(rows, b) /\ About(h, b) = About(rows, b)
  <2> TAKE b \in B
  <2>1. PICK k \in 1 .. m : b = L[k]
    BY <1>4
  <2>2. Type(h, b) = Type(old, b) /\ About(h, b) = About(old, b)
    BY <1>9, <2>1
  <2> QED
    BY <1>1, <2>2 DEF Agree
<1>12. Alike(h, rows)
  BY <1>5, <1>9, <1>10, <1>11 DEF Alike
<1> QED
  BY <1>6, <1>8, <1>9, <1>12 DEF old

(* A Text block with another text. *)
Rewritten(g, rows, b, m) ==
  /\ IsRows(g) /\ DOMAIN g = DOMAIN rows
  /\ \A c \in DOMAIN rows :
       /\ Pos(g, c) = Pos(rows, c) /\ Type(g, c) = Type(rows, c)
       /\ About(g, c) = IF c = b THEN m ELSE About(rows, c)

(* What SetBlockMarkdown does, both ways. *)
LEMMA MarkdownWritten ==
  ASSUME NEW x, Sound(x), NEW b \in DOMAIN x.blocks, Type(x.blocks, b) = "Text",
         NEW m \in Markdowns
  PROVE  \E g : /\ [x EXCEPT !.blocks[b].of = m] = State(x.custom, g, x.steps, x.order)
                /\ Rewritten(g, x.blocks, b, m) /\ Sound(State(x.custom, g, x.steps, x.order))
<1> DEFINE D == DOMAIN x.blocks
           P == [c \in D |-> Pos(x.blocks, c)]
           T == [c \in D |-> Type(x.blocks, c)]
           O == [c \in D |-> IF c = b THEN m ELSE About(x.blocks, c)]
           g == [x.blocks EXCEPT ![b] = [x.blocks[b] EXCEPT !.of = m]]
<1>1. /\ IsRows(x.blocks) /\ IsPlaced(x.blocks) /\ AreAlive(x.blocks, x.steps, x.order)
      /\ AreParts(x.steps, x.order) /\ x.custom \in BOOLEAN /\ x.custom
  BY DEF Sound
<1>2. [x EXCEPT !.blocks[b].of = m] = State(x.custom, g, x.steps, x.order)
  <2>1. [x EXCEPT !.blocks[b].of = m] = [x EXCEPT !.blocks = g]
    OBVIOUS
  <2> HIDE DEF g
  <2> QED
    BY <2>1, ResultsAre
<1>3. g = RowsOf(D, P, T, O)
  <2>1. \A c \in D : x.blocks[c] = [position |-> Pos(x.blocks, c), type |-> Type(x.blocks, c),
                                    of |-> About(x.blocks, c)]
    BY <1>1 DEF IsRows
  <2>2. [x.blocks[b] EXCEPT !.of = m]
        = [position |-> Pos(x.blocks, b), type |-> Type(x.blocks, b), of |-> m]
    <3>1. x.blocks[b] = [position |-> Pos(x.blocks, b), type |-> Type(x.blocks, b),
                         of |-> About(x.blocks, b)]
      BY <2>1
    <3> QED
      BY <3>1
  <2>3. x.blocks = [c \in D |-> x.blocks[c]]
    BY <1>1 DEF IsRows
  <2>4. g = [c \in D |-> IF c = b THEN [x.blocks[b] EXCEPT !.of = m] ELSE x.blocks[c]]
    BY <2>3
  <2>5. ASSUME NEW c \in D
        PROVE  (IF c = b THEN [x.blocks[b] EXCEPT !.of = m] ELSE x.blocks[c])
               = [position |-> P[c], type |-> T[c], of |-> O[c]]
    BY <2>1, <2>2
  <2> HIDE DEF g, P, T, O, D
  <2> QED
    BY <2>4, <2>5 DEF RowsOf
<1>4. IsFiniteSet(D)
  BY <1>1 DEF IsRows
<1> HIDE DEF g, P, T, O
<1>5. /\ IsRows(g) /\ DOMAIN g = D
      /\ \A c \in D : Pos(g, c) = P[c] /\ Type(g, c) = T[c] /\ About(g, c) = O[c]
  BY <1>3, <1>4, RowsMade
<1>6. Rewritten(g, x.blocks, b, m)
  BY <1>5 DEF P, T, O, Rewritten
<1>7. IsPlaced(g)
  BY <1>1, <1>6 DEF Rewritten, IsPlaced
<1>8. AreAlive(g, x.steps, x.order)
  <2> SUFFICES ASSUME NEW c \in D
               PROVE  MayBe(Type(g, c), About(g, c), x.steps, x.order)
    BY <1>5 DEF AreAlive
  <2>1. MayBe(Type(x.blocks, c), About(x.blocks, c), x.steps, x.order)
    BY <1>1 DEF AreAlive
  <2> QED
    BY <1>6, <2>1 DEF Rewritten, MayBe
<1>9. Sound(State(x.custom, g, x.steps, x.order))
  BY <1>1, <1>5, <1>7, <1>8, StateFacts
<1> QED
  BY <1>2, <1>6, <1>9

(* SetBlockMarkdown goes there and back. *)
LEMMA SetBlockMarkdownDoes ==
  ASSUME NEW w, Sound(w), NEW b \in DOMAIN w.blocks, Type(w.blocks, b) = "Text",
         NEW m \in Markdowns,
         NEW e, e.command = "SetBlockMarkdown", e.slug = b,
         e.back = About(w.blocks, b), e.forth = m
  PROVE  \E v : Does(w, e, v)
<1> DEFINE old == About(w.blocks, b)
<1>1. PICK g : /\ [w EXCEPT !.blocks[b].of = m] = State(w.custom, g, w.steps, w.order)
               /\ Rewritten(g, w.blocks, b, m) /\ Sound(State(w.custom, g, w.steps, w.order))
  BY MarkdownWritten
<1>2. PICK v : v = State(w.custom, g, w.steps, w.order)
  OBVIOUS
<1>3. v.custom = w.custom /\ v.blocks = g /\ v.steps = w.steps /\ v.order = w.order
  BY <1>2 DEF State
<1>4. \A x : /\ Forward(x, e) = Fine([x EXCEPT !.blocks[b].of = m])
             /\ Backward(x, e) = Fine([x EXCEPT !.blocks[b].of = old])
  <2> TAKE x
  <2>1. Forward(x, e) = Fine([x EXCEPT !.blocks[e.slug].of = e.forth])
    BY DEF Forward
  <2>2. Backward(x, e) = Fine([x EXCEPT !.blocks[e.slug].of = e.back])
    BY DEF Backward
  <2> QED
    BY <2>1, <2>2
<1>5. Forward(w, e) = Fine(v) /\ Sound(v)
  <2>1. Forward(w, e) = Fine([w EXCEPT !.blocks[b].of = m])
    BY <1>4
  <2> QED
    BY ONLY <1>1, <1>2, <2>1
<1>6. IsRows(w.blocks) /\ AreAlive(w.blocks, w.steps, w.order)
  BY DEF Sound
<1>7. old \in Markdowns /\ DOMAIN g = DOMAIN w.blocks /\ Type(g, b) = "Text"
  BY <1>1, <1>6 DEF AreAlive, MayBe, Rewritten
<1> HIDE DEF old
<1>8. Goes(w, e, v)
  <2> SUFFICES ASSUME NEW x, Sound(x), Like(x, w)
               PROVE  Leads(Forward(x, e), v)
    BY DEF Goes
  <2>1. /\ x.custom = w.custom /\ Alike(x.blocks, w.blocks) /\ x.steps = w.steps
        /\ x.order = w.order /\ b \in DOMAIN x.blocks /\ Type(x.blocks, b) = "Text"
    BY DEF Like, Alike
  <2>2. PICK h : /\ [x EXCEPT !.blocks[b].of = m] = State(x.custom, h, x.steps, x.order)
                 /\ Rewritten(h, x.blocks, b, m) /\ Sound(State(x.custom, h, x.steps, x.order))
    BY <2>1, MarkdownWritten
  <2>3. Alike(h, v.blocks)
    BY <1>1, <1>3, <2>1, <2>2 DEF Rewritten, Alike
  <2>4. Forward(x, e) = Fine(State(x.custom, h, x.steps, x.order))
    <3>1. Forward(x, e) = Fine([x EXCEPT !.blocks[b].of = m])
      BY <1>4
    <3> QED
      BY ONLY <2>2, <3>1
  <2> QED
    BY <1>3, <2>1, <2>2, <2>3, <2>4, LeadsTo
<1>9. ASSUME NEW x, Sound(x), Like(x, v)
      PROVE  \E h : /\ Backward(x, e) = Fine(State(w.custom, h, w.steps, w.order))
                    /\ Sound(State(w.custom, h, w.steps, w.order))
                    /\ Rewritten(h, x.blocks, b, old) /\ Alike(h, w.blocks)
  <2>1. /\ x.custom = w.custom /\ Alike(x.blocks, g) /\ x.steps = w.steps
        /\ x.order = w.order
    BY <1>3, <1>9 DEF Like
  <2>2. b \in DOMAIN x.blocks /\ Type(x.blocks, b) = "Text"
    BY <1>7, <2>1 DEF Alike
  <2>3. PICK h : /\ [x EXCEPT !.blocks[b].of = old] = State(x.custom, h, x.steps, x.order)
                 /\ Rewritten(h, x.blocks, b, old) /\ Sound(State(x.custom, h, x.steps, x.order))
    BY <1>7, <1>9, <2>2, MarkdownWritten
  <2>4. Alike(h, w.blocks)
    BY <1>1, <2>1, <2>3 DEF Rewritten, Alike, old
  <2>5. Backward(x, e) = Fine(State(x.custom, h, x.steps, x.order))
    <3>1. Backward(x, e) = Fine([x EXCEPT !.blocks[b].of = old])
      BY <1>4
    <3> QED
      BY ONLY <2>3, <3>1
  <2> QED
    BY <2>1, <2>3, <2>4, <2>5
<1>10. Returns(w, e, v)
  <2> SUFFICES ASSUME NEW x, Sound(x), Like(x, v)
               PROVE  Leads(Backward(x, e), w)
    BY DEF Returns
  <2>1. PICK h : /\ Backward(x, e) = Fine(State(w.custom, h, w.steps, w.order))
                 /\ Sound(State(w.custom, h, w.steps, w.order))
                 /\ Rewritten(h, x.blocks, b, old) /\ Alike(h, w.blocks)
    BY <1>9
  <2> QED
    BY <2>1, LeadsTo
<1>11. Backward(v, e) = Fine(w)
  <2>1. PICK h : /\ Backward(v, e) = Fine(State(w.custom, h, w.steps, w.order))
                 /\ Sound(State(w.custom, h, w.steps, w.order))
                 /\ Rewritten(h, v.blocks, b, old) /\ Alike(h, w.blocks)
    BY <1>5, <1>9, LikeFacts
  <2>2. h = w.blocks
    <3>1. IsRows(h) /\ \A c \in DOMAIN w.blocks : Pos(h, c) = Pos(w.blocks, c)
      BY <1>1, <1>3, <1>7, <2>1 DEF Rewritten
    <3> QED
      BY <1>6, <2>1, <3>1, RowsEqual
  <2>3. w = State(w.custom, w.blocks, w.steps, w.order)
    BY DEF Sound
  <2> QED
    BY <2>1, <2>2, <2>3
<1>12. DOMAIN v.blocks \subseteq DOMAIN w.blocks \cup AutoSlugs \cup {e.slug}
  BY <1>3, <1>7
<1>13. Does(w, e, v)
  BY <1>5, <1>8, <1>10, <1>11, <1>12 DEF Does, IsExact
<1> QED
  BY <1>13

(* AddStep goes there and back. *)
LEMMA AddStepDoes ==
  ASSUME NEW w, Sound(w), NEW s \in DOMAIN TabOf, s \notin w.steps,
         NEW e, e.command = "AddStep", e.of = s
  PROVE  \E v : Does(w, e, v)
<1>1. \A x : /\ Forward(x, e) = Fine([x EXCEPT !.steps = x.steps \cup {s}])
             /\ Backward(x, e) = Fine([x EXCEPT !.steps = x.steps \ {s}])
  <2> TAKE x
  <2>1. Forward(x, e) = Fine([x EXCEPT !.steps = @ \cup {e.of}])
    BY DEF Forward
  <2>2. Backward(x, e) = Fine([x EXCEPT !.steps = @ \ {e.of}])
    BY DEF Backward
  <2> QED
    BY <2>1, <2>2
<1> DEFINE S == w.steps \cup {s}
<1>2. PICK v : v = State(w.custom, w.blocks, S, w.order)
  OBVIOUS
<1>3. v.custom = w.custom /\ v.blocks = w.blocks /\ v.steps = S /\ v.order = w.order
  BY <1>2 DEF State
<1>4. ASSUME NEW x, Sound(x), Like(x, w)
      PROVE  /\ Forward(x, e) = Fine(State(w.custom, x.blocks, S, w.order))
             /\ Sound(State(w.custom, x.blocks, S, w.order)) /\ Alike(x.blocks, w.blocks)
  <2>1. /\ x.custom = w.custom /\ Alike(x.blocks, w.blocks) /\ x.steps = w.steps
        /\ x.order = w.order
    BY <1>4 DEF Like
  <2>2. Forward(x, e) = Fine(State(w.custom, x.blocks, S, w.order))
    <3>1. Forward(x, e) = Fine([x EXCEPT !.steps = x.steps \cup {s}])
      BY <1>1
    <3>2. [x EXCEPT !.steps = x.steps \cup {s}]
          = State(x.custom, x.blocks, x.steps \cup {s}, x.order)
      BY <1>4, ResultsAre
    <3> QED
      BY ONLY <2>1, <3>1, <3>2
  <2>3. /\ IsRows(x.blocks) /\ IsPlaced(x.blocks) /\ AreAlive(x.blocks, w.steps, w.order)
        /\ AreParts(w.steps, w.order) /\ w.custom \in BOOLEAN
        /\ w.custom \/ DOMAIN x.blocks = {}
    BY <1>4, <2>1 DEF Sound
  <2>4. AreParts(S, w.order)
    BY <2>3 DEF AreParts
  <2>5. AreAlive(x.blocks, S, w.order)
    BY <2>3 DEF AreAlive, MayBe, Live
  <2> QED
    BY <2>1, <2>2, <2>3, <2>4, <2>5, StateFacts
<1>5. ASSUME NEW x, Sound(x), Like(x, v)
      PROVE  /\ Backward(x, e) = Fine(State(w.custom, x.blocks, w.steps, w.order))
             /\ Sound(State(w.custom, x.blocks, w.steps, w.order)) /\ Alike(x.blocks, w.blocks)
  <2>1. /\ x.custom = w.custom /\ Alike(x.blocks, w.blocks) /\ x.steps = S
        /\ x.order = w.order
    BY <1>3, <1>5 DEF Like
  <2>2. Backward(x, e) = Fine(State(w.custom, x.blocks, w.steps, w.order))
    <3>1. Backward(x, e) = Fine([x EXCEPT !.steps = x.steps \ {s}])
      BY <1>1
    <3>2. [x EXCEPT !.steps = x.steps \ {s}]
          = State(x.custom, x.blocks, x.steps \ {s}, x.order)
      BY <1>5, ResultsAre
    <3>3. x.steps \ {s} = w.steps
      BY <2>1
    <3> QED
      BY ONLY <2>1, <3>1, <3>2, <3>3
  <2>3. /\ IsRows(x.blocks) /\ IsPlaced(x.blocks)
        /\ AreParts(w.steps, w.order) /\ w.custom \in BOOLEAN
        /\ w.custom \/ DOMAIN x.blocks = {}
    BY <1>5, <2>1 DEF Sound
  <2>4. AreAlive(x.blocks, w.steps, w.order)
    <3>1. AreAlive(w.blocks, w.steps, w.order)
      BY DEF Sound
    <3> QED
      BY <2>1, <3>1, AliveFacts
  <2> QED
    BY <2>1, <2>2, <2>3, <2>4, StateFacts
<1>6. Forward(w, e) = Fine(v) /\ Sound(v)
  BY <1>2, <1>4, LikeFacts
<1>7. Goes(w, e, v)
  <2> SUFFICES ASSUME NEW x, Sound(x), Like(x, w)
               PROVE  Leads(Forward(x, e), v)
    BY DEF Goes
  <2> HIDE DEF S
  <2> QED
    BY <1>3, <1>4, LeadsTo
<1>8. Returns(w, e, v)
  <2> SUFFICES ASSUME NEW x, Sound(x), Like(x, v)
               PROVE  Leads(Backward(x, e), w)
    BY DEF Returns
  <2> QED
    BY <1>5, LeadsTo
<1>9. Backward(v, e) = Fine(w)
  <2>1. w = State(w.custom, w.blocks, w.steps, w.order)
    BY DEF Sound
  <2>2. Backward(v, e) = Fine(State(w.custom, v.blocks, w.steps, w.order))
    BY <1>5, <1>6, LikeFacts
  <2> QED
    BY <1>3, <2>1, <2>2
<1>10. Does(w, e, v)
  BY <1>3, <1>6, <1>7, <1>8, <1>9 DEF Does, IsExact
<1> QED
  BY <1>10

(* What becomes of a workflow when several of its rows go or come. *)
Becomes(c, table, steps, order) == [wf |-> State(c, table.rows, steps, order), ok |-> table.ok]

(* ... as backward() of DeleteStep and DeleteTab, and their forward(), write it. *)
LEMMA BackBecomes ==
  ASSUME NEW x, Sound(x), NEW table, NEW steps, NEW order
  PROVE  /\ Back([x EXCEPT !.steps = steps], table) = Becomes(x.custom, table, steps, x.order)
         /\ Back([x EXCEPT !.order = order], table) = Becomes(x.custom, table, x.steps, order)
<1>1. /\ [x EXCEPT !.steps = steps] = State(x.custom, x.blocks, steps, x.order)
      /\ [x EXCEPT !.order = order] = State(x.custom, x.blocks, x.steps, order)
  BY ResultsAre
<1>2. [State(x.custom, x.blocks, steps, x.order) EXCEPT !.blocks = table.rows]
      = State(x.custom, table.rows, steps, x.order)
  BY DEF State
<1>3. [State(x.custom, x.blocks, x.steps, order) EXCEPT !.blocks = table.rows]
      = State(x.custom, table.rows, x.steps, order)
  BY DEF State
<1>4. Back([x EXCEPT !.steps = steps], table) = Becomes(x.custom, table, steps, x.order)
  BY <1>1, <1>2 DEF Back, Becomes
<1>5. Back([x EXCEPT !.order = order], table) = Becomes(x.custom, table, x.steps, order)
  BY <1>1, <1>3 DEF Back, Becomes
<1> QED
  BY <1>4, <1>5

(* Rows B go, and whatever else the command e does to steps and tabs ... *)
Takes(w, e, B, steps, order) ==
  \A x : Sound(x) /\ Like(x, w) =>
           Forward(x, e) = Becomes(w.custom, DeletedTogether(x.blocks, B), steps, order)

(* ... is undone when they come back. *)
Brings(w, e, B, steps, order) ==
  \A x : Sound(x) /\ x.custom = w.custom /\ x.steps = steps /\ x.order = order =>
           Backward(x, e) = Becomes(w.custom, Recreated(x.blocks, Restrict(w.blocks, B)),
                                    w.steps, w.order)

(* Such a command goes there and back. *)
LEMMA TogetherDoes ==
  ASSUME NEW w, Sound(w), NEW B, B \subseteq DOMAIN w.blocks, NEW steps, NEW order,
         AreParts(steps, order), AreAlive(Without(w.blocks, B), steps, order),
         NEW e, Takes(w, e, B, steps, order), Brings(w, e, B, steps, order)
  PROVE  \E v : Does(w, e, v)
<1> DEFINE c == w.custom
           left == Without(w.blocks, B)
<1>1. /\ IsRows(w.blocks) /\ IsPlaced(w.blocks) /\ AreAlive(w.blocks, w.steps, w.order)
      /\ AreParts(w.steps, w.order) /\ c \in BOOLEAN /\ (c \/ DOMAIN w.blocks = {})
      /\ w = State(c, w.blocks, w.steps, w.order)
  BY DEF Sound
<1>2. IsRows(left) /\ IsPlaced(left) /\ DOMAIN left = DOMAIN w.blocks \ B
  BY <1>1, OtherRows
<1>3. \A g, s, o : Becomes(c, Table(g), s, o) = Fine(State(c, g, s, o))
  BY DEF Becomes, Table, Fine
<1> HIDE DEF c, left
<1>4. ASSUME NEW x, Sound(x), Like(x, w)
      PROVE  \E h : /\ Forward(x, e) = Fine(State(c, h, steps, order))
                    /\ Gone(h, x.blocks, B) /\ Alike(h, left)
                    /\ Recreated(h, Restrict(x.blocks, B)) = Table(x.blocks)
                    /\ Sound(State(c, h, steps, order))
  <2>1. IsRows(x.blocks) /\ IsPlaced(x.blocks) /\ Alike(x.blocks, w.blocks)
    BY <1>4 DEF Sound, Like
  <2>2. B \subseteq DOMAIN x.blocks
    BY <2>1 DEF Alike
  <2>3. PICK h : /\ DeletedTogether(x.blocks, B) = Table(h) /\ Gone(h, x.blocks, B)
                 /\ Recreated(h, Restrict(x.blocks, B)) = Table(x.blocks)
    BY <2>1, <2>2, TogetherThereAndBack
  <2>4. Forward(x, e) = Fine(State(c, h, steps, order))
    BY <1>3, <1>4, <2>3 DEF Takes, c
  <2>5. Alike(h, left)
    <3>1. Alike(Without(x.blocks, B), left)
      BY <1>1, <2>1, AlikeLeft DEF left
    <3> QED
      BY <2>3, <3>1 DEF Gone, Alike
  <2>6. AreAlive(h, steps, order)
    BY <2>5, AliveFacts DEF left
  <2>7. c \/ DOMAIN h = {}
    BY <1>1, <1>2, <2>5 DEF Alike
  <2>8. Sound(State(c, h, steps, order))
    BY <1>1, <2>3, <2>6, <2>7, StateFacts DEF Gone
  <2> QED
    BY <2>3, <2>4, <2>5, <2>8
<1>5. PICK g : /\ Forward(w, e) = Fine(State(c, g, steps, order))
               /\ Gone(g, w.blocks, B) /\ Alike(g, left)
               /\ Recreated(g, Restrict(w.blocks, B)) = Table(w.blocks)
               /\ Sound(State(c, g, steps, order))
  BY <1>4, LikeFacts
<1>6. PICK v : v = State(c, g, steps, order)
  OBVIOUS
<1>7. v.custom = c /\ v.blocks = g /\ v.steps = steps /\ v.order = order
  BY <1>6 DEF State
<1>8. Forward(w, e) = Fine(v) /\ Sound(v)
  BY <1>5, <1>6
<1>9. Goes(w, e, v)
  <2> SUFFICES ASSUME NEW x, Sound(x), Like(x, w)
               PROVE  Leads(Forward(x, e), v)
    BY DEF Goes
  <2>1. PICK h : /\ Forward(x, e) = Fine(State(c, h, steps, order))
                 /\ Alike(h, left) /\ Sound(State(c, h, steps, order))
    BY <1>4
  <2>2. Alike(h, v.blocks)
    BY <1>5, <1>7, <2>1 DEF Alike
  <2> QED
    BY <1>7, <2>1, <2>2, LeadsTo
<1>10. Returns(w, e, v)
  <2> SUFFICES ASSUME NEW x, Sound(x), Like(x, v)
               PROVE  Leads(Backward(x, e), w)
    BY DEF Returns
  <2>1. /\ x.custom = c /\ x.steps = steps /\ x.order = order
        /\ Alike(x.blocks, g) /\ IsRows(x.blocks) /\ IsPlaced(x.blocks)
    BY <1>7 DEF Like, Sound
  <2>2. Backward(x, e) = Becomes(c, Recreated(x.blocks, Restrict(w.blocks, B)), w.steps, w.order)
    BY <2>1 DEF Brings, c
  <2>3. Gone(x.blocks, w.blocks, B)
    BY <1>5, <2>1 DEF Gone, Alike
  <2>4. PICK h : /\ Recreated(x.blocks, Restrict(w.blocks, B)) = Table(h)
                 /\ IsRows(h) /\ IsPlaced(h) /\ Alike(h, w.blocks)
    BY <1>1, <2>3, TogetherBack
  <2>5. Backward(x, e) = Fine(State(c, h, w.steps, w.order))
    BY <1>3, <2>2, <2>4
  <2>6. Sound(State(c, h, w.steps, w.order))
    <3>1. AreAlive(h, w.steps, w.order)
      BY <1>1, <2>4, AliveFacts
    <3>2. c \/ DOMAIN h = {}
      BY <1>1, <2>4 DEF Alike
    <3> QED
      BY <1>1, <2>4, <3>1, <3>2, StateFacts
  <2> QED
    BY <2>4, <2>5, <2>6, LeadsTo DEF c
<1>11. Backward(v, e) = Fine(w)
  <2>1. Backward(v, e) = Becomes(c, Recreated(v.blocks, Restrict(w.blocks, B)), w.steps, w.order)
    BY <1>7, <1>8 DEF Brings, c
  <2>2. Recreated(v.blocks, Restrict(w.blocks, B)) = Table(w.blocks)
    BY <1>5, <1>7
  <2>3. Backward(v, e) = Fine(State(c, w.blocks, w.steps, w.order))
    BY <1>3, <2>1, <2>2
  <2> QED
    BY <1>1, <2>3
<1>12. DOMAIN v.blocks \subseteq DOMAIN w.blocks \cup AutoSlugs \cup {e.slug}
  BY <1>2, <1>5, <1>7 DEF Alike
<1>13. Does(w, e, v)
  BY <1>8, <1>9, <1>10, <1>11, <1>12 DEF Does, IsExact
<1> QED
  BY <1>13

(* A step goes with its charts, and comes back with them. *)
LEMMA DeleteStepDoes ==
  ASSUME NEW w, Sound(w), NEW s \in LiveSteps(w),
         NEW e, e.command = "DeleteStep", e.of = s,
         e.back = Restrict(w.blocks, RowsOfStep(w, s))
  PROVE  \E v : Does(w, e, v)
<1> DEFINE B == RowsOfStep(w, s)
           S == w.steps \ {s}
<1>1. /\ IsRows(w.blocks) /\ IsPlaced(w.blocks) /\ AreAlive(w.blocks, w.steps, w.order)
      /\ AreParts(w.steps, w.order)
  BY DEF Sound
<1>2. /\ B \subseteq DOMAIN w.blocks
      /\ \A b \in DOMAIN w.blocks :
           b \in B <=> Type(w.blocks, b) = "Chart" /\ About(w.blocks, b) = s
  BY DEF RowsOfStep, Type, About
<1>3. s \in w.steps
  BY DEF LiveSteps
<1>4. AreParts(S, w.order)
  BY <1>1 DEF AreParts
<1>5. \A x : /\ Forward(x, e) = Back([x EXCEPT !.steps = x.steps \ {s}],
                                     DeletedTogether(x.blocks, RowsOfStep(x, s)))
             /\ Backward(x, e) = Back([x EXCEPT !.steps = x.steps \cup {s}],
                                      Recreated(x.blocks, Restrict(w.blocks, B)))
  <2> TAKE x
  <2>1. Forward(x, e) = Back([x EXCEPT !.steps = @ \ {e.of}],
                             DeletedTogether(x.blocks, RowsOfStep(x, e.of)))
    BY DEF Forward
  <2>2. Backward(x, e) = Back([x EXCEPT !.steps = @ \cup {e.of}], Recreated(x.blocks, e.back))
    BY DEF Backward
  <2> HIDE DEF B
  <2>3. e.back = Restrict(w.blocks, B)
    BY DEF B
  <2> QED
    BY <2>1, <2>2, <2>3
<1> HIDE DEF B, S
<1>6. AreAlive(Without(w.blocks, B), S, w.order)
  <2>1. /\ DOMAIN Without(w.blocks, B) = DOMAIN w.blocks \ B
        /\ Agree(Without(w.blocks, B), w.blocks, DOMAIN w.blocks \ B)
    BY <1>1, <1>2, OtherRows
  <2> SUFFICES ASSUME NEW b \in DOMAIN w.blocks \ B
               PROVE  MayBe(Type(w.blocks, b), About(w.blocks, b), S, w.order)
    BY <2>1 DEF AreAlive, Agree
  <2>2. MayBe(Type(w.blocks, b), About(w.blocks, b), w.steps, w.order)
    BY <1>1 DEF AreAlive
  <2>3. ~(Type(w.blocks, b) = "Chart" /\ About(w.blocks, b) = s)
    BY <1>2
  <2> QED
    BY <2>2, <2>3 DEF MayBe, Live, S
<1>7. Takes(w, e, B, S, w.order)
  <2> SUFFICES ASSUME NEW x, Sound(x), Like(x, w)
               PROVE  Forward(x, e) = Becomes(w.custom, DeletedTogether(x.blocks, B), S, w.order)
    BY DEF Takes
  <2>1. x.custom = w.custom /\ x.steps = w.steps /\ x.order = w.order /\ Alike(x.blocks, w.blocks)
    BY DEF Like
  <2>2. RowsOfStep(x, s) = B
    <3>1. \A b : b \in RowsOfStep(x, s) <=> /\ b \in DOMAIN x.blocks
                                            /\ Type(x.blocks, b) = "Chart" /\ About(x.blocks, b) = s
      BY DEF RowsOfStep, Type, About
    <3> QED
      BY <1>2, <2>1, <3>1 DEF Alike
  <2>3. Forward(x, e) = Back([x EXCEPT !.steps = x.steps \ {s}], DeletedTogether(x.blocks, B))
    BY <1>5, <2>2
  <2>4. x.steps \ {s} = S
    BY <2>1 DEF S
  <2>5. Back([x EXCEPT !.steps = S], DeletedTogether(x.blocks, B))
        = Becomes(x.custom, DeletedTogether(x.blocks, B), S, x.order)
    BY BackBecomes
  <2> QED
    BY ONLY <2>1, <2>3, <2>4, <2>5
<1>8. Brings(w, e, B, S, w.order)
  <2> SUFFICES ASSUME NEW x, Sound(x), x.custom = w.custom, x.steps = S, x.order = w.order
               PROVE  Backward(x, e) = Becomes(w.custom, Recreated(x.blocks, Restrict(w.blocks, B)),
                                               w.steps, w.order)
    BY DEF Brings
  <2> DEFINE t == Recreated(x.blocks, Restrict(w.blocks, B))
  <2>1. Backward(x, e) = Back([x EXCEPT !.steps = x.steps \cup {s}], t)
    BY <1>5
  <2> HIDE DEF t
  <2>2. x.steps \cup {s} = w.steps
    BY <1>3 DEF S
  <2>3. Back([x EXCEPT !.steps = w.steps], t) = Becomes(x.custom, t, w.steps, x.order)
    BY BackBecomes
  <2>4. Backward(x, e) = Becomes(w.custom, t, w.steps, w.order)
    BY ONLY <2>1, <2>2, <2>3, x.custom = w.custom, x.order = w.order
  <2> QED
    BY <2>4 DEF t
<1> QED
  BY <1>2, <1>4, <1>6, <1>7, <1>8, TogetherDoes

(* A tab goes with its tables and with the charts of its steps, and comes back with them. *)
LEMMA DeleteTabDoes ==
  ASSUME NEW w, Sound(w), NEW i \in DOMAIN w.order, NEW t, t = w.order[i],
         NEW e, e.command = "DeleteTab", e.of = t, e.at = i,
         e.back = Restrict(w.blocks, RowsOfTab(w, t))
  PROVE  \E v : Does(w, e, v)
<1> DEFINE B == RowsOfTab(w, t)
           O == RemoveAt(w.order, i)
<1>1. /\ IsRows(w.blocks) /\ IsPlaced(w.blocks) /\ AreAlive(w.blocks, w.steps, w.order)
      /\ AreParts(w.steps, w.order)
  BY DEF Sound
<1>2. /\ B \subseteq DOMAIN w.blocks
      /\ \A b \in DOMAIN w.blocks :
           b \in B <=> \/ Type(w.blocks, b) = "Table" /\ About(w.blocks, b) = t
                       \/ Type(w.blocks, b) = "Chart" /\ TabOf[About(w.blocks, b)] = t
  BY DEF RowsOfTab, Type, About
<1>3. IsOrder(w.order, Range(FirstTabs)) /\ i \in 1 .. Len(w.order) /\ PlaceOf(w.order, t) = i
  <2>1. IsOrder(w.order, Range(FirstTabs)) /\ DOMAIN w.order = 1 .. Len(w.order)
    BY <1>1, CountOrder DEF AreParts
  <2>2. t \in Range(w.order)
    BY DEF Range
  <2>3. PlaceOf(w.order, t) \in 1 .. Len(w.order) /\ w.order[PlaceOf(w.order, t)] = t
    BY <2>1, <2>2, PlaceFacts
  <2> QED
    BY <2>1, <2>3 DEF IsOrder
<1>4. /\ IsOrder(O, Range(FirstTabs)) /\ InsertAt(O, i, t) = w.order
      /\ Range(O) = Range(w.order) \ {t}
  BY <1>3, OrderRemoved
<1>5. \A x : /\ Forward(x, e) = Back([x EXCEPT !.order = RemoveAt(x.order, PlaceOf(x.order, t))],
                                     DeletedTogether(x.blocks, RowsOfTab(x, t)))
             /\ Backward(x, e) = Back([x EXCEPT !.order = InsertAt(x.order, i, t)],
                                      Recreated(x.blocks, Restrict(w.blocks, B)))
  <2> TAKE x
  <2>1. Forward(x, e) = Back([x EXCEPT !.order = RemoveAt(@, PlaceOf(@, e.of))],
                             DeletedTogether(x.blocks, RowsOfTab(x, e.of)))
    BY DEF Forward
  <2>2. Backward(x, e) = Back([x EXCEPT !.order = InsertAt(@, e.at, e.of)],
                              Recreated(x.blocks, e.back))
    BY DEF Backward
  <2>3. e.back = Restrict(w.blocks, B) /\ e.of = t /\ e.at = i
    OBVIOUS
  <2> HIDE DEF B
  <2> QED
    BY ONLY <2>1, <2>2, <2>3
<1> HIDE DEF B, O
<1>6. AreParts(w.steps, O)
  BY <1>1, <1>4 DEF AreParts
<1>7. AreAlive(Without(w.blocks, B), w.steps, O)
  <2>1. /\ DOMAIN Without(w.blocks, B) = DOMAIN w.blocks \ B
        /\ Agree(Without(w.blocks, B), w.blocks, DOMAIN w.blocks \ B)
    BY <1>1, <1>2, OtherRows
  <2> SUFFICES ASSUME NEW b \in DOMAIN w.blocks \ B
               PROVE  MayBe(Type(w.blocks, b), About(w.blocks, b), w.steps, O)
    BY <2>1 DEF AreAlive, Agree
  <2>2. MayBe(Type(w.blocks, b), About(w.blocks, b), w.steps, w.order)
    BY <1>1 DEF AreAlive
  <2>3. /\ ~(Type(w.blocks, b) = "Table" /\ About(w.blocks, b) = t)
        /\ ~(Type(w.blocks, b) = "Chart" /\ TabOf[About(w.blocks, b)] = t)
    BY <1>2
  <2> QED
    BY <1>4, <2>2, <2>3 DEF MayBe, Live
<1>8. Takes(w, e, B, w.steps, O)
  <2> SUFFICES ASSUME NEW x, Sound(x), Like(x, w)
               PROVE  Forward(x, e) = Becomes(w.custom, DeletedTogether(x.blocks, B), w.steps, O)
    BY DEF Takes
  <2>1. x.custom = w.custom /\ x.steps = w.steps /\ x.order = w.order /\ Alike(x.blocks, w.blocks)
    BY DEF Like
  <2>2. RowsOfTab(x, t) = B
    <3>1. \A b : b \in RowsOfTab(x, t) <=>
                   /\ b \in DOMAIN x.blocks
                   /\ \/ Type(x.blocks, b) = "Table" /\ About(x.blocks, b) = t
                      \/ Type(x.blocks, b) = "Chart" /\ TabOf[About(x.blocks, b)] = t
      BY DEF RowsOfTab, Type, About
    <3> QED
      BY <1>2, <2>1, <3>1 DEF Alike
  <2>3. Forward(x, e) = Back([x EXCEPT !.order = RemoveAt(x.order, PlaceOf(x.order, t))],
                             DeletedTogether(x.blocks, B))
    BY <1>5, <2>2
  <2>4. RemoveAt(x.order, PlaceOf(x.order, t)) = O
    BY <1>3, <2>1 DEF O
  <2>5. Back([x EXCEPT !.order = O], DeletedTogether(x.blocks, B))
        = Becomes(x.custom, DeletedTogether(x.blocks, B), x.steps, O)
    BY ONLY Sound(x), BackBecomes, ZenonT(60)
  <2> QED
    BY ONLY <2>1, <2>3, <2>4, <2>5
<1>9. Brings(w, e, B, w.steps, O)
  <2> SUFFICES ASSUME NEW x, Sound(x), x.custom = w.custom, x.steps = w.steps, x.order = O
               PROVE  Backward(x, e) = Becomes(w.custom, Recreated(x.blocks, Restrict(w.blocks, B)),
                                               w.steps, w.order)
    BY DEF Brings
  <2> DEFINE y == Recreated(x.blocks, Restrict(w.blocks, B))
  <2>1. Backward(x, e) = Back([x EXCEPT !.order = InsertAt(x.order, i, t)], y)
    BY <1>5
  <2> HIDE DEF y
  <2>2. InsertAt(x.order, i, t) = w.order
    BY <1>4
  <2>3. Back([x EXCEPT !.order = w.order], y) = Becomes(x.custom, y, x.steps, w.order)
    <3>1. \A o : Back([x EXCEPT !.order = o], y) = Becomes(x.custom, y, x.steps, o)
      BY ONLY Sound(x), BackBecomes, ZenonT(60)
    <3> QED
      BY ONLY <3>1, Zenon
  <2>4. Backward(x, e) = Becomes(w.custom, y, w.steps, w.order)
    BY ONLY <2>1, <2>2, <2>3, x.custom = w.custom, x.steps = w.steps
  <2> QED
    BY <2>4 DEF y
<1> QED
  BY <1>2, <1>6, <1>7, <1>8, <1>9, TogetherDoes

(* Tabs are put in order and back. *)
LEMMA ReorderTabsDoes ==
  ASSUME NEW w, Sound(w), NEW new \in SetToSeqs(Range(w.order)),
         NEW e, e.command = "ReorderTabs", e.back = w.order, e.forth = new
  PROVE  \E v : Does(w, e, v)
<1> DEFINE old == w.order
           c == w.custom
           S == w.steps
<1>1. /\ IsRows(w.blocks) /\ IsPlaced(w.blocks) /\ AreAlive(w.blocks, S, old)
      /\ AreParts(S, old) /\ c \in BOOLEAN /\ (c \/ DOMAIN w.blocks = {})
      /\ w = State(c, w.blocks, S, old)
  BY DEF Sound
<1>2. \A x : /\ Forward(x, e) = Fine([x EXCEPT !.order = new])
             /\ Backward(x, e) = Fine([x EXCEPT !.order = old])
  <2> TAKE x
  <2>1. Forward(x, e) = Fine([x EXCEPT !.order = e.forth])
    BY DEF Forward
  <2>2. Backward(x, e) = Fine([x EXCEPT !.order = e.back])
    BY DEF Backward
  <2> QED
    BY <2>1, <2>2
<1> HIDE DEF old, c, S
<1>3. Range(new) = Range(old) /\ AreParts(S, new)
  <2>1. IsOrder(old, Range(FirstTabs)) /\ S \subseteq DOMAIN TabOf
    BY <1>1 DEF AreParts
  <2>2. IsFiniteSet(Range(old))
    BY <2>1, CountOrder
  <2>3. Lists(new, Range(old))
    BY <2>2, AllOfThem DEF old
  <2>4. Range(new) = Range(old) /\ new \in Seq(Range(old))
        /\ \A i, j \in DOMAIN new : new[i] = new[j] => i = j
    BY <2>3 DEF Lists, IsOrder
  <2>5. Range(old) \subseteq Range(FirstTabs)
    <3>1. DOMAIN old = 1 .. Len(old) /\ old \in Seq(Range(FirstTabs))
      BY <2>1, CountOrder DEF IsOrder
    <3> QED
      BY <3>1, ElementOfSeq DEF Range
  <2>6. new \in Seq(Range(FirstTabs))
    <3>1. DOMAIN new = 1 .. Len(new) /\ Len(new) \in Nat
      BY <2>4, LenProperties
    <3>2. \A k \in 1 .. Len(new) : new[k] \in Range(FirstTabs)
      BY <2>4, <2>5, ElementOfSeq
    <3>3. new = [k \in 1 .. Len(new) |-> new[k]]
      BY <2>4, <3>1
    <3>4. new \in [1 .. Len(new) -> Range(FirstTabs)]
      BY <3>1, <3>2, <3>3
    <3> QED
      BY <3>1, <3>4, SeqDef
  <2> QED
    BY <2>1, <2>4, <2>6 DEF AreParts, IsOrder
<1>4. \A rows : AreAlive(rows, S, old) <=> AreAlive(rows, S, new)
  BY <1>3 DEF AreAlive, MayBe, Live
<1>5. PICK v : v = State(c, w.blocks, S, new)
  OBVIOUS
<1>6. v.custom = c /\ v.blocks = w.blocks /\ v.steps = S /\ v.order = new
  BY <1>5 DEF State
<1>7. ASSUME NEW x, Sound(x), x.custom = c, x.steps = S, Alike(x.blocks, w.blocks)
      PROVE  /\ Forward(x, e) = Fine(State(c, x.blocks, S, new))
             /\ Sound(State(c, x.blocks, S, new))
             /\ Backward(x, e) = Fine(State(c, x.blocks, S, old))
             /\ Sound(State(c, x.blocks, S, old))
  <2>1. /\ [x EXCEPT !.order = new] = State(c, x.blocks, S, new)
        /\ [x EXCEPT !.order = old] = State(c, x.blocks, S, old)
    <3>1. /\ [x EXCEPT !.order = new] = State(x.custom, x.blocks, x.steps, new)
          /\ [x EXCEPT !.order = old] = State(x.custom, x.blocks, x.steps, old)
      BY ONLY <1>7, ResultsAre
    <3> QED
      BY ONLY <1>7, <3>1
  <2>2. /\ Forward(x, e) = Fine(State(c, x.blocks, S, new))
        /\ Backward(x, e) = Fine(State(c, x.blocks, S, old))
    BY <1>2, <2>1
  <2>3. /\ IsRows(x.blocks) /\ IsPlaced(x.blocks)
        /\ c \in BOOLEAN /\ (c \/ DOMAIN x.blocks = {})
    BY <1>1, <1>7 DEF Sound
  <2>4. AreAlive(x.blocks, S, old) /\ AreAlive(x.blocks, S, new)
    BY <1>1, <1>4, <1>7, AliveFacts
  <2>5. Sound(State(c, x.blocks, S, new))
    BY <1>3, <2>3, <2>4, StateFacts
  <2>6. Sound(State(c, x.blocks, S, old))
    BY <1>1, <2>3, <2>4, StateFacts
  <2> QED
    BY <2>2, <2>5, <2>6
<1>8. Forward(w, e) = Fine(v) /\ Sound(v)
  <2>1. Alike(w.blocks, w.blocks)
    BY DEF Alike
  <2> QED
    BY <1>5, <1>7, <2>1 DEF c, S
<1>9. Goes(w, e, v)
  <2> SUFFICES ASSUME NEW x, Sound(x), Like(x, w)
               PROVE  Leads(Forward(x, e), v)
    BY DEF Goes
  <2>1. x.custom = c /\ x.steps = S /\ Alike(x.blocks, w.blocks)
    BY DEF Like, c, S
  <2> QED
    BY <1>6, <1>7, <2>1, LeadsTo
<1>10. Returns(w, e, v)
  <2> SUFFICES ASSUME NEW x, Sound(x), Like(x, v)
               PROVE  Leads(Backward(x, e), w)
    BY DEF Returns
  <2>1. x.custom = c /\ x.steps = S /\ Alike(x.blocks, w.blocks)
    BY <1>6 DEF Like
  <2> QED
    BY <1>7, <2>1, LeadsTo DEF c, S, old
<1>11. Backward(v, e) = Fine(w)
  <2>1. Alike(v.blocks, w.blocks)
    BY <1>6 DEF Alike
  <2>2. Backward(v, e) = Fine(State(c, v.blocks, S, old))
    BY <1>6, <1>7, <1>8, <2>1
  <2> QED
    BY <1>1, <1>6, <2>2
<1>12. DOMAIN v.blocks \subseteq DOMAIN w.blocks \cup AutoSlugs \cup {e.slug}
  BY <1>6
<1>13. Does(w, e, v)
  BY <1>8, <1>9, <1>10, <1>11, <1>12 DEF Does, IsExact
<1> QED
  BY <1>13

-----------------------------------------------------------------------------
(* What a command touches, there and back.                                 *)

(* All rows but B stay, but for their positions. *)
Alone(f, g, B) ==
  \A b : b \notin B =>
    /\ b \in DOMAIN f <=> b \in DOMAIN g
    /\ b \in DOMAIN g => Type(f, b) = Type(g, b) /\ About(f, b) = About(g, b)

(* The rows of f are all gone, or all there. *)
AllOrNone(f, g) ==
  \/ DOMAIN f \cap DOMAIN g = {}
  \/ /\ DOMAIN f \subseteq DOMAIN g
     /\ \A b \in DOMAIN f : Type(f, b) = Type(g, b) /\ About(f, b) = About(g, b)

TouchesReport(e, x, y) ==
  /\ x.steps = y.steps /\ x.order = y.order
  /\ \/ e.wasAuto = TRUE
     \/ /\ e.wasAuto = FALSE /\ x.custom = TRUE /\ y.custom = TRUE
        /\ Alone(x.blocks, y.blocks, IF e.command = "ReorderBlocks" THEN {} ELSE {e.slug})

TouchesText(e, x, y) ==
  /\ x.custom = y.custom /\ x.steps = y.steps /\ x.order = y.order
  /\ e.slug \in DOMAIN x.blocks /\ e.slug \in DOMAIN y.blocks
  /\ Alone(x.blocks, y.blocks, {e.slug})

TouchesRows(e, x, y) ==
  /\ x.custom = y.custom
  /\ Alone(x.blocks, y.blocks, DOMAIN e.back)
  /\ AllOrNone(e.back, x.blocks) /\ AllOrNone(e.back, y.blocks)

TouchesStep(e, x, y) ==
  /\ x.order = y.order
  /\ \A s : s # e.of => (s \in x.steps <=> s \in y.steps)

TouchesTab(e, x, y) ==
  /\ x.steps = y.steps
  /\ \A t : t # e.of => (t \in Range(x.order) <=> t \in Range(y.order))

TouchesTabs(x, y) == x.steps = y.steps /\ Range(x.order) = Range(y.order)

Touches(e, x, y) ==
  \/ e.command \in {"AddBlock", "DeleteBlock", "ReorderBlocks"} /\ TouchesReport(e, x, y)
  \/ e.command = "SetBlockMarkdown" /\ TouchesText(e, x, y)
  \/ e.command = "AddStep" /\ TouchesStep(e, x, y) /\ x.custom = y.custom /\ Alone(x.blocks, y.blocks, {})
  \/ e.command = "DeleteStep" /\ TouchesStep(e, x, y) /\ TouchesRows(e, x, y)
  \/ e.command = "DeleteTab" /\ TouchesTab(e, x, y) /\ TouchesRows(e, x, y)
  \/ e.command = "ReorderTabs" /\ TouchesTabs(x, y) /\ x.custom = y.custom /\ Alone(x.blocks, y.blocks, {})

(* It is the same both ways, *)
LEMMA TouchesBack ==
  ASSUME NEW e, NEW x, NEW y, Touches(e, x, y)
  PROVE  Touches(e, y, x)
<1>1. \A f, g, B : Alone(f, g, B) => Alone(g, f, B)
  BY DEF Alone
<1>2. CASE e.command \in {"AddBlock", "DeleteBlock", "ReorderBlocks"} /\ TouchesReport(e, x, y)
  BY <1>1, <1>2 DEF TouchesReport, Touches
<1>3. CASE e.command = "SetBlockMarkdown" /\ TouchesText(e, x, y)
  BY <1>1, <1>3 DEF TouchesText, Touches
<1>4. TouchesStep(e, x, y) => TouchesStep(e, y, x)
  BY DEF TouchesStep
<1>5. TouchesRows(e, x, y) => TouchesRows(e, y, x)
  BY <1>1 DEF TouchesRows
<1>6. TouchesTab(e, x, y) => TouchesTab(e, y, x)
  BY DEF TouchesTab
<1>7. TouchesTabs(x, y) => TouchesTabs(y, x)
  BY DEF TouchesTabs
<1> QED
  BY <1>1, <1>2, <1>3, <1>4, <1>5, <1>6, <1>7 DEF Touches

(* ... and for whatever is like it. *)
LEMMA TouchesLike ==
  ASSUME NEW e, NEW x, NEW y, Touches(e, x, y), NEW u, Like(u, x)
  PROVE  Touches(e, u, y)
<1>1. u.custom = x.custom /\ u.steps = x.steps /\ u.order = x.order /\ Alike(u.blocks, x.blocks)
  BY DEF Like
<1>2. \A g, B : Alone(x.blocks, g, B) => Alone(u.blocks, g, B)
  BY <1>1 DEF Alone, Alike
<1>3. \A f : AllOrNone(f, x.blocks) => AllOrNone(f, u.blocks)
  BY <1>1 DEF AllOrNone, Alike
<1>4. DOMAIN u.blocks = DOMAIN x.blocks
  BY <1>1 DEF Alike
<1>5. TouchesReport(e, x, y) => TouchesReport(e, u, y)
  BY <1>1, <1>2 DEF TouchesReport
<1>6. TouchesText(e, x, y) => TouchesText(e, u, y)
  BY <1>1, <1>2, <1>4 DEF TouchesText
<1>7. TouchesRows(e, x, y) => TouchesRows(e, u, y)
  BY <1>1, <1>2, <1>3 DEF TouchesRows
<1>8. TouchesStep(e, x, y) => TouchesStep(e, u, y)
  BY <1>1 DEF TouchesStep
<1>9. TouchesTab(e, x, y) => TouchesTab(e, u, y)
  BY <1>1 DEF TouchesTab
<1>10. TouchesTabs(x, y) => TouchesTabs(u, y)
  BY <1>1 DEF TouchesTabs
<1> QED
  BY <1>1, <1>2, <1>5, <1>6, <1>7, <1>8, <1>9, <1>10 DEF Touches

(* Wherever e leads from w, it touches no more than that. *)
Suits(w, e) == \A v : Forward(w, e) = Fine(v) => Touches(e, w, v)

(* AddBlock, *)
LEMMA AddBlockSuits ==
  ASSUME NEW w, Sound(w), NEW b, b \notin DOMAIN Blocks(w),
         NEW row, IsRow(row), row.position \in Nat, MayBe(row.type, row.of, w.steps, w.order),
         NEW e, e.command = "AddBlock", e.slug = b, e.forth = row, e.wasAuto = ~w.custom
  PROVE  Suits(w, e)
<1> SUFFICES ASSUME NEW v, Forward(w, e) = Fine(v)
             PROVE  Touches(e, w, v)
  BY DEF Suits
<1>1. PICK g : /\ Forward(w, e) = Fine(State(TRUE, g, w.steps, w.order))
               /\ Added(g, Blocks(w), b, row)
  BY AddBlockForth
<1>2. v.custom = TRUE /\ v.blocks = g /\ v.steps = w.steps /\ v.order = w.order
  BY <1>1 DEF Fine, State
<1>3. w.custom \in BOOLEAN /\ (w.custom => Blocks(w) = w.blocks)
  BY BlocksFacts DEF Sound
<1>4. w.custom => Alone(w.blocks, g, {b})
  BY <1>1, <1>3 DEF Added, Alone
<1>5. TouchesReport(e, w, v)
  BY <1>2, <1>3, <1>4 DEF TouchesReport
<1> QED
  BY <1>5 DEF Touches

(* DeleteBlock, *)
LEMMA DeleteBlockSuits ==
  ASSUME NEW w, Sound(w), NEW b \in DOMAIN Blocks(w),
         NEW e, e.command = "DeleteBlock", e.slug = b, e.wasAuto = ~w.custom
  PROVE  Suits(w, e)
<1> SUFFICES ASSUME NEW v, Forward(w, e) = Fine(v)
             PROVE  Touches(e, w, v)
  BY DEF Suits
<1>1. PICK g : /\ Forward(w, e) = Fine(State(TRUE, g, w.steps, w.order))
               /\ Lost(g, Blocks(w), b)
  BY DeleteBlockForth
<1>2. v.custom = TRUE /\ v.blocks = g /\ v.steps = w.steps /\ v.order = w.order
  BY <1>1 DEF Fine, State
<1>3. w.custom \in BOOLEAN /\ (w.custom => Blocks(w) = w.blocks)
  BY BlocksFacts DEF Sound
<1>4. w.custom => Alone(w.blocks, g, {b})
  BY <1>1, <1>3 DEF Lost, Alone
<1>5. TouchesReport(e, w, v)
  BY <1>2, <1>3, <1>4 DEF TouchesReport
<1> QED
  BY <1>5 DEF Touches

(* ReorderBlocks, *)
LEMMA ReorderBlocksSuits ==
  ASSUME NEW w, Sound(w), NEW list, Lists(list, DOMAIN Blocks(w)),
         NEW e, e.command = "ReorderBlocks", e.forth = list, e.wasAuto = ~w.custom
  PROVE  Suits(w, e)
<1> SUFFICES ASSUME NEW v, Forward(w, e) = Fine(v)
             PROVE  Touches(e, w, v)
  BY DEF Suits
<1>1. PICK g : /\ Forward(w, e) = Fine(State(TRUE, g, w.steps, w.order))
               /\ Alike(g, Blocks(w))
  BY ReorderBlocksForth
<1>2. v.custom = TRUE /\ v.blocks = g /\ v.steps = w.steps /\ v.order = w.order
  BY <1>1 DEF Fine, State
<1>3. w.custom \in BOOLEAN /\ (w.custom => Blocks(w) = w.blocks)
  BY BlocksFacts DEF Sound
<1>4. w.custom => Alone(w.blocks, g, {})
  BY <1>1, <1>3 DEF Alike, Alone
<1>5. TouchesReport(e, w, v)
  BY <1>2, <1>3, <1>4 DEF TouchesReport
<1> QED
  BY <1>5 DEF Touches

(* SetBlockMarkdown, *)
LEMMA SetBlockMarkdownSuits ==
  ASSUME NEW w, Sound(w), NEW b \in DOMAIN w.blocks, Type(w.blocks, b) = "Text",
         NEW m \in Markdowns,
         NEW e, e.command = "SetBlockMarkdown", e.slug = b, e.forth = m
  PROVE  Suits(w, e)
<1> SUFFICES ASSUME NEW v, Forward(w, e) = Fine(v)
             PROVE  Touches(e, w, v)
  BY DEF Suits
<1>1. PICK g : /\ [w EXCEPT !.blocks[b].of = m] = State(w.custom, g, w.steps, w.order)
               /\ Rewritten(g, w.blocks, b, m)
  BY MarkdownWritten
<1>2. Forward(w, e) = Fine(State(w.custom, g, w.steps, w.order))
  <2>1. Forward(w, e) = Fine([w EXCEPT !.blocks[e.slug].of = e.forth])
    BY DEF Forward
  <2> QED
    BY <1>1, <2>1
<1>3. v.custom = w.custom /\ v.blocks = g /\ v.steps = w.steps /\ v.order = w.order
  BY <1>2 DEF Fine, State
<1>4. Alone(w.blocks, g, {b}) /\ b \in DOMAIN g
  BY <1>1 DEF Rewritten, Alone
<1>5. TouchesText(e, w, v)
  BY <1>3, <1>4 DEF TouchesText
<1> QED
  BY <1>5 DEF Touches

(* and AddStep touch what they should. *)
LEMMA AddStepSuits ==
  ASSUME NEW w, Sound(w), NEW e, e.command = "AddStep"
  PROVE  Suits(w, e)
<1> SUFFICES ASSUME NEW v, Forward(w, e) = Fine(v)
             PROVE  Touches(e, w, v)
  BY DEF Suits
<1>1. PICK S : S = w.steps \cup {e.of}
  OBVIOUS
<1>2. Forward(w, e) = Fine(State(w.custom, w.blocks, S, w.order))
  <2>1. Forward(w, e) = Fine([w EXCEPT !.steps = @ \cup {e.of}])
    BY DEF Forward
  <2>2. Forward(w, e) = Fine([w EXCEPT !.steps = S])
    BY <1>1, <2>1
  <2> QED
    BY <2>2, ResultsAre
<1>3. v.custom = w.custom /\ v.blocks = w.blocks /\ v.steps = S /\ v.order = w.order
  BY <1>2 DEF Fine, State
<1>4. TouchesStep(e, w, v) /\ Alone(w.blocks, v.blocks, {})
  BY <1>1, <1>3 DEF TouchesStep, Alone
<1> QED
  BY <1>3, <1>4 DEF Touches

(* Rows that go together. *)
LEMMA RowsSuit ==
  ASSUME NEW rows, IsRows(rows), IsPlaced(rows), NEW B, B \subseteq DOMAIN rows,
         NEW g, Gone(g, rows, B), NEW old, old = Restrict(rows, B)
  PROVE  DOMAIN old = B /\ Alone(rows, g, B) /\ AllOrNone(old, rows) /\ AllOrNone(old, g)
<1>1. DOMAIN old = B /\ Agree(old, rows, B)
  BY SomeRows
<1>2. DOMAIN Without(rows, B) = DOMAIN rows \ B /\ Agree(Without(rows, B), rows, DOMAIN rows \ B)
  BY OtherRows
<1>3. Alone(rows, g, B)
  BY <1>2 DEF Gone, Alike, Agree, Alone
<1>4. AllOrNone(old, rows)
  BY <1>1 DEF Agree, AllOrNone
<1>5. AllOrNone(old, g)
  BY <1>1, <1>2 DEF Gone, Alike, AllOrNone
<1> QED
  BY <1>1, <1>3, <1>4, <1>5

(* So does DeleteStep, *)
LEMMA DeleteStepSuits ==
  ASSUME NEW w, Sound(w), NEW s, NEW e, e.command = "DeleteStep", e.of = s,
         e.back = Restrict(w.blocks, RowsOfStep(w, s))
  PROVE  Suits(w, e)
<1> SUFFICES ASSUME NEW v, Forward(w, e) = Fine(v)
             PROVE  Touches(e, w, v)
  BY DEF Suits
<1>1. PICK B : B = RowsOfStep(w, s)
  OBVIOUS
<1>2. B \subseteq DOMAIN w.blocks
  BY <1>1 DEF RowsOfStep
<1>3. IsRows(w.blocks) /\ IsPlaced(w.blocks)
  BY DEF Sound
<1>4. PICK g : DeletedTogether(w.blocks, B) = Table(g) /\ Gone(g, w.blocks, B)
  BY <1>2, <1>3, TogetherThereAndBack
<1>5. PICK S : S = w.steps \ {s}
  OBVIOUS
<1>6. Forward(w, e) = Fine(State(w.custom, g, S, w.order))
  <2>1. Forward(w, e) = Back([w EXCEPT !.steps = @ \ {e.of}],
                             DeletedTogether(w.blocks, RowsOfStep(w, e.of)))
    BY DEF Forward
  <2>2. Forward(w, e) = Back([w EXCEPT !.steps = S], Table(g))
    BY <1>1, <1>4, <1>5, <2>1
  <2> QED
    BY <2>2, ResultsAre, ZenonT(60)
<1>7. v.custom = w.custom /\ v.blocks = g /\ v.steps = S /\ v.order = w.order
  BY <1>6 DEF Fine, State
<1>8. TouchesRows(e, w, v)
  <2>1. DOMAIN e.back = B /\ Alone(w.blocks, g, B) /\ AllOrNone(e.back, w.blocks) /\ AllOrNone(e.back, g)
    BY <1>1, <1>2, <1>3, <1>4, RowsSuit
  <2> QED
    BY <1>7, <2>1 DEF TouchesRows
<1>9. TouchesStep(e, w, v)
  BY <1>5, <1>7 DEF TouchesStep
<1> QED
  BY <1>8, <1>9 DEF Touches

(* DeleteTab, *)
LEMMA DeleteTabSuits ==
  ASSUME NEW w, Sound(w), NEW i \in DOMAIN w.order, NEW t, t = w.order[i],
         NEW e, e.command = "DeleteTab", e.of = t,
         e.back = Restrict(w.blocks, RowsOfTab(w, t))
  PROVE  Suits(w, e)
<1> SUFFICES ASSUME NEW v, Forward(w, e) = Fine(v)
             PROVE  Touches(e, w, v)
  BY DEF Suits
<1>1. PICK B : B = RowsOfTab(w, t)
  OBVIOUS
<1>2. B \subseteq DOMAIN w.blocks
  BY <1>1 DEF RowsOfTab
<1>3. IsRows(w.blocks) /\ IsPlaced(w.blocks) /\ IsOrder(w.order, Range(FirstTabs))
  BY DEF Sound, AreParts
<1>4. PICK g : DeletedTogether(w.blocks, B) = Table(g) /\ Gone(g, w.blocks, B)
  BY <1>2, <1>3, TogetherThereAndBack
<1>5. PICK p : p = PlaceOf(w.order, t)
  OBVIOUS
<1>6. PICK O : O = RemoveAt(w.order, p)
  OBVIOUS
<1>7. p \in 1 .. Len(w.order) /\ w.order[p] = t
  <2>1. t \in Range(w.order)
    BY DEF Range
  <2> QED
    BY <1>3, <1>5, <2>1, PlaceFacts
<1>8. Range(O) = Range(w.order) \ {t}
  BY <1>3, <1>6, <1>7, OrderRemoved
<1>9. Forward(w, e) = Fine(State(w.custom, g, w.steps, O))
  <2>1. Forward(w, e) = Back([w EXCEPT !.order = RemoveAt(@, PlaceOf(@, e.of))],
                             DeletedTogether(w.blocks, RowsOfTab(w, e.of)))
    BY DEF Forward
  <2>2. Forward(w, e) = Back([w EXCEPT !.order = O], Table(g))
    BY <1>1, <1>4, <1>5, <1>6, <2>1
  <2>3. Back([w EXCEPT !.order = O], Table(g)) = Becomes(w.custom, Table(g), w.steps, O)
    BY ONLY Sound(w), BackBecomes, ZenonT(60)
  <2>4. Becomes(w.custom, Table(g), w.steps, O) = Fine(State(w.custom, g, w.steps, O))
    BY DEF Becomes, Table, Fine
  <2> QED
    BY <2>2, <2>3, <2>4
<1>10. v.custom = w.custom /\ v.blocks = g /\ v.steps = w.steps /\ v.order = O
  BY <1>9 DEF Fine, State
<1>11. TouchesRows(e, w, v)
  <2>1. DOMAIN e.back = B /\ Alone(w.blocks, g, B) /\ AllOrNone(e.back, w.blocks) /\ AllOrNone(e.back, g)
    BY <1>1, <1>2, <1>3, <1>4, RowsSuit
  <2> QED
    BY <1>10, <2>1 DEF TouchesRows
<1>12. TouchesTab(e, w, v)
  BY <1>8, <1>10 DEF TouchesTab
<1> QED
  BY <1>11, <1>12 DEF Touches

(* and ReorderTabs. *)
LEMMA ReorderTabsSuits ==
  ASSUME NEW w, Sound(w), NEW new \in SetToSeqs(Range(w.order)),
         NEW e, e.command = "ReorderTabs", e.forth = new
  PROVE  Suits(w, e)
<1> SUFFICES ASSUME NEW v, Forward(w, e) = Fine(v)
             PROVE  Touches(e, w, v)
  BY DEF Suits
<1>1. IsFiniteSet(Range(w.order))
  BY CountOrder DEF Sound, AreParts
<1>2. Range(new) = Range(w.order)
  BY <1>1, AllOfThem DEF Lists
<1>3. Forward(w, e) = Fine(State(w.custom, w.blocks, w.steps, new))
  <2>1. Forward(w, e) = Fine([w EXCEPT !.order = e.forth])
    BY DEF Forward
  <2> QED
    BY <2>1, ResultsAre, ZenonT(60)
<1>4. v.custom = w.custom /\ v.blocks = w.blocks /\ v.steps = w.steps /\ v.order = new
  BY <1>3 DEF Fine, State
<1>5. TouchesTabs(w, v) /\ Alone(w.blocks, v.blocks, {})
  BY <1>2, <1>4 DEF TouchesTabs, Alone
<1> QED
  BY <1>4, <1>5 DEF Touches

-----------------------------------------------------------------------------
(* The delta chain.                                                        *)

(* Deltas with ids 1 .. n, each after those before it. *)
IsChain(ds, n) ==
  /\ n \in Nat /\ ds \in Seq(Range(ds))
  /\ \A i \in 1 .. Len(ds) : ds[i].id \in Nat /\ 0 < ds[i].id /\ ds[i].id <= n
  /\ \A i, j \in 1 .. Len(ds) : i < j => ds[i].id < ds[j].id

(* The first k are applied. *)
IsAt(k, ds, l) == k \in 0 .. Len(ds) /\ l = IF k = 0 THEN 0 ELSE ds[k].id

(* The last delta splits the chain at one place. *)
LEMMA SplitFacts ==
  ASSUME NEW ds, NEW n, IsChain(ds, n), NEW k, NEW l, IsAt(k, ds, l)
  PROVE  /\ k \in 0 .. Len(ds) /\ Len(ds) \in Nat /\ k \in Nat /\ l \in Nat
         /\ \A i \in DOMAIN ds : ds[i].id <= l <=> i <= k
         /\ \A m \in 0 .. Len(ds) : (\A i \in DOMAIN ds : ds[i].id <= l <=> i <= m) => m = k
<1>1. Len(ds) \in Nat /\ DOMAIN ds = 1 .. Len(ds)
  BY LenProperties DEF IsChain
<1>2. k \in 0 .. Len(ds) /\ k \in Nat /\ k <= Len(ds)
  BY <1>1 DEF IsAt
<1>3. \A i \in DOMAIN ds : ds[i].id <= l <=> i <= k
  <2> TAKE i \in DOMAIN ds
  <2>1. CASE k = 0
    BY <1>1, <2>1 DEF IsAt, IsChain
  <2>2. CASE k # 0
    <3>1. l = ds[k].id /\ k \in 1 .. Len(ds) /\ i \in 1 .. Len(ds)
      BY <1>1, <1>2, <2>2 DEF IsAt
    <3>2. i < k => ds[i].id < ds[k].id
      BY <3>1 DEF IsChain
    <3>3. k < i => ds[k].id < ds[i].id
      BY <3>1 DEF IsChain
    <3>4. ds[i].id \in Nat /\ ds[k].id \in Nat
      BY <3>1 DEF IsChain
    <3>5. i < k \/ i = k \/ k < i
      BY <3>1
    <3> QED
      BY <3>1, <3>2, <3>3, <3>4, <3>5
  <2> QED
    BY <2>1, <2>2
<1>4. l \in Nat
  BY <1>2 DEF IsAt, IsChain
<1>5. ASSUME NEW m \in 0 .. Len(ds), \A i \in DOMAIN ds : ds[i].id <= l <=> i <= m
      PROVE  m = k
  <2>1. m \in Nat /\ m <= Len(ds)
    BY <1>1
  <2>2. CASE m < k
    <3>1. k \in DOMAIN ds /\ k <= k /\ ~(k <= m)
      BY <1>1, <1>2, <2>1, <2>2
    <3> QED
      BY <1>3, <1>5, <3>1
  <2>3. CASE k < m
    <3>1. m \in DOMAIN ds /\ m <= m /\ ~(m <= k)
      BY <1>1, <1>2, <2>1, <2>3
    <3> QED
      BY <1>3, <1>5, <3>1
  <2> QED
    BY <1>2, <2>1, <2>2, <2>3
<1> QED
  BY <1>1, <1>2, <1>3, <1>4, <1>5

(* The deltas that are applied, and those undone. *)
LEMMA AppliedFacts ==
  ASSUME NEW n, IsChain(deltas, n), NEW k, IsAt(k, deltas, last)
  PROVE  /\ NApplied = k /\ k \in 0 .. Len(deltas) /\ Len(deltas) \in Nat /\ k \in Nat
         /\ Applied \in Seq(Range(deltas)) /\ Len(Applied) = k
         /\ \A i \in 1 .. k : Applied[i] = deltas[i]
         /\ Undone \in Seq(Range(deltas)) /\ Len(Undone) = Len(deltas) - k
         /\ \A i \in 1 .. Len(deltas) - k : Undone[i] = deltas[k + i]
<1> DEFINE R == Range(deltas)
<1>1. /\ k \in 0 .. Len(deltas) /\ Len(deltas) \in Nat /\ k \in Nat
      /\ \A i \in DOMAIN deltas : deltas[i].id <= last <=> i <= k
      /\ \A m \in 0 .. Len(deltas) :
           (\A i \in DOMAIN deltas : deltas[i].id <= last <=> i <= m) => m = k
  BY SplitFacts
<1>2. NApplied = k
  BY <1>1 DEF NApplied
<1>3. deltas \in Seq(R) /\ \A i \in 1 .. Len(deltas) : deltas[i] \in R
  BY ElementOfSeq DEF IsChain
<1> HIDE DEF R
<1>4. Applied \in Seq(R) /\ Len(Applied) = k /\ \A i \in 1 .. k : Applied[i] = deltas[i]
  <2>1. 1 \in Int /\ k \in Int /\ \A i \in 1 .. k : deltas[i] \in R
    BY <1>1, <1>3
  <2>2. /\ SubSeq(deltas, 1, k) \in Seq(R)
        /\ Len(SubSeq(deltas, 1, k)) = IF 1 <= k THEN k - 1 + 1 ELSE 0
        /\ \A i \in 1 .. k - 1 + 1 : SubSeq(deltas, 1, k)[i] = deltas[1 + i - 1]
    BY <2>1, SubSeqProperties
  <2>3. Applied = SubSeq(deltas, 1, k)
    BY <1>2 DEF Applied
  <2> QED
    BY <1>1, <2>2, <2>3
<1>5. /\ Undone \in Seq(R) /\ Len(Undone) = Len(deltas) - k
      /\ \A i \in 1 .. Len(deltas) - k : Undone[i] = deltas[k + i]
  <2>1. k + 1 \in Int /\ Len(deltas) \in Int /\ \A i \in k + 1 .. Len(deltas) : deltas[i] \in R
    BY <1>1, <1>3
  <2>2. /\ SubSeq(deltas, k + 1, Len(deltas)) \in Seq(R)
        /\ Len(SubSeq(deltas, k + 1, Len(deltas))) =
             IF k + 1 <= Len(deltas) THEN Len(deltas) - (k + 1) + 1 ELSE 0
        /\ \A i \in 1 .. Len(deltas) - (k + 1) + 1 :
             SubSeq(deltas, k + 1, Len(deltas))[i] = deltas[(k + 1) + i - 1]
    BY <2>1, SubSeqProperties
  <2>3. Undone = SubSeq(deltas, k + 1, Len(deltas))
    BY <1>2 DEF Undone
  <2>4. ASSUME NEW i \in 1 .. Len(deltas) - k
        PROVE  Undone[i] = deltas[k + i]
    <3>1. i \in 1 .. Len(deltas) - (k + 1) + 1 /\ (k + 1) + i - 1 = k + i
      BY <1>1
    <3> QED
      BY <2>2, <2>3, <3>1
  <2>5. Len(Undone) = Len(deltas) - k
    BY <1>1, <2>2, <2>3
  <2> QED
    BY <2>2, <2>3, <2>4, <2>5
<1> QED
  BY <1>1, <1>2, <1>4, <1>5 DEF R

(* do() cuts the chain and appends a delta. *)
IsNext(n, k, e, new) ==
  IsChain(deltas, n) /\ IsAt(k, deltas, last) /\ e.id = n + 1 /\ new = Append(Applied, e)

IsLonger(n, k, e, new) ==
  /\ IsChain(new, n + 1) /\ Len(new) = k + 1 /\ IsAt(k + 1, new, e.id)
  /\ \A i \in 1 .. k : new[i] = deltas[i]
  /\ new[k + 1] = e

(* There is one delta more after those that were applied. *)
LEMMA ChainGrows ==
  ASSUME NEW n, NEW k, NEW e, NEW new, IsNext(n, k, e, new)
  PROVE  IsLonger(n, k, e, new)
<1>1. /\ IsChain(deltas, n) /\ IsAt(k, deltas, last) /\ e.id = n + 1
      /\ new = Append(Applied, e)
  BY DEF IsNext
<1>2. /\ k \in 0 .. Len(deltas) /\ Len(deltas) \in Nat /\ k \in Nat
      /\ Applied \in Seq(Range(deltas)) /\ Len(Applied) = k
      /\ \A i \in 1 .. k : Applied[i] = deltas[i]
  BY <1>1, AppliedFacts
<1> DEFINE R == Range(deltas) \cup {e}
<1>3. Applied \in Seq(R)
  <2>1. /\ Applied = [i \in 1 .. k |-> Applied[i]]
        /\ \A i \in 1 .. k : Applied[i] \in Range(deltas)
    BY <1>2, LenProperties, ElementOfSeq
  <2>2. Applied \in [1 .. k -> R]
    BY <2>1
  <2> HIDE DEF R
  <2> QED
    BY <1>2, <2>2, SeqDef
<1>4. e \in R
  OBVIOUS
<1> HIDE DEF R
<1>5. /\ new \in Seq(R) /\ Len(new) = k + 1 /\ \A i \in 1 .. k : new[i] = deltas[i]
      /\ new[k + 1] = e
  BY <1>1, <1>2, <1>3, <1>4, AppendProperties
<1>6. DOMAIN new = 1 .. k + 1
  BY <1>5, LenProperties
<1>7. new \in Seq(Range(new))
  <2>1. new = [i \in 1 .. k + 1 |-> new[i]]
    BY <1>5, <1>6, LenProperties
  <2>2. PICK S : S = Range(new)
    OBVIOUS
  <2>3. \A i \in 1 .. k + 1 : new[i] \in S
    BY <1>6, <2>2 DEF Range
  <2>4. k + 1 \in Nat /\ new \in [1 .. k + 1 -> S]
    BY ONLY <1>2, <2>1, <2>3
  <2>5. new \in Seq(S)
    BY ONLY <2>4, SeqDef
  <2> QED
    BY <2>2, <2>5
<1>8. n \in Nat /\ \A i \in 1 .. k : i \in 1 .. Len(deltas)
  BY <1>1, <1>2 DEF IsChain
<1>9. ASSUME NEW i \in 1 .. k + 1
      PROVE  new[i].id \in Nat /\ 0 < new[i].id /\ new[i].id <= n + 1 /\ (i <= k => new[i].id <= n)
  <2>1. CASE i \in 1 .. k
    <3>1. new[i] = deltas[i] /\ i \in 1 .. Len(deltas)
      BY <1>5, <1>8, <2>1
    <3>2. deltas[i].id \in Nat /\ 0 < deltas[i].id /\ deltas[i].id <= n
      BY <1>1, <3>1 DEF IsChain
    <3> QED
      BY <1>8, <3>1, <3>2
  <2>2. CASE i = k + 1
    BY <1>1, <1>2, <1>5, <1>8, <2>2
  <2> QED
    BY <1>2, <2>1, <2>2
<1>10. ASSUME NEW i \in 1 .. k + 1, NEW j \in 1 .. k + 1, i < j
       PROVE  new[i].id < new[j].id
  <2>1. CASE j \in 1 .. k
    <3>1. /\ i \in 1 .. k /\ new[i] = deltas[i] /\ new[j] = deltas[j]
          /\ i \in 1 .. Len(deltas) /\ j \in 1 .. Len(deltas)
      BY <1>2, <1>5, <1>8, <1>10, <2>1
    <3> QED
      BY <1>1, <1>10, <3>1 DEF IsChain
  <2>2. CASE j = k + 1
    <3>1. i <= k /\ new[j].id = n + 1
      BY <1>1, <1>2, <1>5, <1>10, <2>2
    <3>2. new[i].id \in Nat /\ new[i].id <= n
      BY <1>9, <3>1
    <3>3. PICK a : a = new[i].id
      OBVIOUS
    <3>4. PICK b : b = new[j].id
      OBVIOUS
    <3>5. a \in Nat /\ a <= n /\ b = n + 1
      BY <3>1, <3>2, <3>3, <3>4
    <3>6. a < b
      BY ONLY <1>8, <3>5
    <3> QED
      BY ONLY <3>3, <3>4, <3>6
  <2> QED
    BY <1>2, <2>1, <2>2
<1>11. IsChain(new, n + 1)
  BY <1>5, <1>7, <1>8, <1>9, <1>10 DEF IsChain
<1>12. IsAt(k + 1, new, e.id)
  BY <1>2, <1>5 DEF IsAt
<1> QED
  BY <1>5, <1>11, <1>12 DEF IsLonger

-----------------------------------------------------------------------------
(* The deltas tell a story: there was a workflow between any two, and each *)
(* delta goes from the one before it to the one after it, and back -- to   *)
(* the very same unless a gap has been closed (c).                         *)

Links(u, e, v, c) ==
  /\ Goes(u, e, v) /\ Returns(u, e, v) /\ Touches(e, u, v)
  /\ c \/ (IsExact(u, e, v) /\ e.before = Seen(u) /\ e.after = Seen(v))

(* Slugs that n commands may have given to blocks. *)
Known(n) == {NewSlug(i) : i \in 0 .. n - 1} \cup AutoSlugs \cup {None}

Tells(D, ds, n, c) ==
  /\ \A k \in 0 .. Len(ds) : Sound(D[k]) /\ DOMAIN D[k].blocks \subseteq Known(n)
  /\ \A k \in 1 .. Len(ds) : Links(D[k - 1], ds[k], D[k], c)

HasStory(ds, k, w, n, c) == \E D : Tells(D, ds, n, c) /\ Like(w, D[k]) /\ (c \/ w = D[k])

Inv ==
  /\ IsChain(deltas, now) /\ Sound(wf) /\ ~failed /\ closed \in BOOLEAN
  /\ \E k \in 0 .. Len(deltas) : IsAt(k, deltas, last) /\ HasStory(deltas, k, wf, now, closed)

(* A delta is followed there ... *)
LEMMA StoryForth ==
  ASSUME NEW w, Sound(w), NEW es, Len(es) \in Nat, NEW k \in 1 .. Len(es), NEW n, NEW c,
         HasStory(es, k - 1, w, n, c), NEW e, e = es[k]
  PROVE  \E y : /\ Forward(w, e) = Fine(y) /\ Sound(y) /\ HasStory(es, k, y, n, c)
                /\ Touches(e, w, y)
                /\ c \/ (e.before = Seen(w) /\ e.after = Seen(y))
<1>1. PICK D : Tells(D, es, n, c) /\ Like(w, D[k - 1]) /\ (c \/ w = D[k - 1])
  BY DEF HasStory
<1>2. PICK u : u = D[k - 1]
  OBVIOUS
<1>3. PICK v : v = D[k]
  OBVIOUS
<1>4. Links(u, e, v, c)
  BY <1>1, <1>2, <1>3 DEF Tells
<1>5. Like(w, u) /\ (c \/ w = u)
  BY <1>1, <1>2
<1>6. Leads(Forward(w, e), v)
  BY <1>4, <1>5 DEF Links, Goes
<1>7. PICK y : Forward(w, e) = Fine(y) /\ Sound(y) /\ Like(y, v)
  BY <1>6 DEF Leads
<1>8. c \/ (y = v /\ e.before = Seen(w) /\ e.after = Seen(y))
  <2> SUFFICES ASSUME ~c
               PROVE  y = v /\ e.before = Seen(w) /\ e.after = Seen(y)
    OBVIOUS
  <2>1. w = u /\ Forward(u, e) = Fine(v) /\ e.before = Seen(u) /\ e.after = Seen(v)
    BY <1>4, <1>5 DEF Links, IsExact
  <2>2. Fine(y).wf = y /\ Fine(v).wf = v
    BY DEF Fine
  <2> QED
    BY <1>7, <2>1, <2>2
<1>9. HasStory(es, k, y, n, c)
  BY <1>1, <1>3, <1>7, <1>8 DEF HasStory
<1>10. Touches(e, w, y)
  <2>1. Touches(e, u, v)
    BY <1>4 DEF Links
  <2>2. Touches(e, v, w)
    BY <1>5, <2>1, TouchesLike, TouchesBack
  <2> QED
    BY <1>7, <2>2, TouchesLike, TouchesBack
<1> QED
  BY <1>7, <1>8, <1>9, <1>10

(* ... and back. *)
LEMMA StoryBack ==
  ASSUME NEW w, Sound(w), NEW es, Len(es) \in Nat, NEW k \in 1 .. Len(es), NEW n, NEW c,
         HasStory(es, k, w, n, c), NEW e, e = es[k]
  PROVE  \E y : /\ Backward(w, e) = Fine(y) /\ Sound(y) /\ HasStory(es, k - 1, y, n, c)
                /\ Touches(e, w, y)
                /\ c \/ (e.after = Seen(w) /\ e.before = Seen(y))
<1>1. PICK D : Tells(D, es, n, c) /\ Like(w, D[k]) /\ (c \/ w = D[k])
  BY DEF HasStory
<1>2. PICK u : u = D[k - 1]
  OBVIOUS
<1>3. PICK v : v = D[k]
  OBVIOUS
<1>4. Links(u, e, v, c)
  BY <1>1, <1>2, <1>3 DEF Tells
<1>5. Like(w, v) /\ (c \/ w = v)
  BY <1>1, <1>3
<1>6. Leads(Backward(w, e), u)
  BY <1>4, <1>5 DEF Links, Returns
<1>7. PICK y : Backward(w, e) = Fine(y) /\ Sound(y) /\ Like(y, u)
  BY <1>6 DEF Leads
<1>8. c \/ (y = u /\ e.after = Seen(w) /\ e.before = Seen(y))
  <2> SUFFICES ASSUME ~c
               PROVE  y = u /\ e.after = Seen(w) /\ e.before = Seen(y)
    OBVIOUS
  <2>1. w = v /\ Backward(v, e) = Fine(u) /\ e.before = Seen(u) /\ e.after = Seen(v)
    BY <1>4, <1>5 DEF Links, IsExact
  <2>2. Fine(y).wf = y /\ Fine(u).wf = u
    BY DEF Fine
  <2> QED
    BY <1>7, <2>1, <2>2
<1>9. HasStory(es, k - 1, y, n, c)
  BY <1>1, <1>2, <1>7, <1>8 DEF HasStory
<1>10. Touches(e, w, y)
  <2>1. Touches(e, v, u)
    BY <1>4, TouchesBack DEF Links
  <2>2. Touches(e, u, w)
    BY <1>5, <2>1, TouchesLike, TouchesBack
  <2> QED
    BY <1>7, <2>2, TouchesLike, TouchesBack
<1> QED
  BY <1>7, <1>8, <1>9, <1>10

(* A new delta goes on from the workflow there is. *)
LEMMA LinksOn ==
  ASSUME NEW u, NEW w, Like(w, u), NEW e, NEW v, Does(w, e, v), Touches(e, w, v),
         e.before = Seen(w), e.after = Seen(v), NEW c, c \/ w = u,
         NEW d, d = (c \/ Closes(w, e))
  PROVE  Links(u, e, v, d)
<1>1. Goes(w, e, v) /\ Returns(w, e, v) /\ (Closes(w, e) \/ IsExact(w, e, v))
  BY DEF Does
<1>2. Goes(u, e, v)
  <2> SUFFICES ASSUME NEW x, Sound(x), Like(x, u)
               PROVE  Leads(Forward(x, e), v)
    BY DEF Goes
  <2>1. Like(x, w)
    BY LikeFacts
  <2> QED
    BY <1>1, <2>1 DEF Goes
<1>3. Returns(u, e, v)
  <2> SUFFICES ASSUME NEW x, Sound(x), Like(x, v)
               PROVE  Leads(Backward(x, e), u)
    BY DEF Returns
  <2>1. Leads(Backward(x, e), w)
    BY <1>1 DEF Returns
  <2>2. PICK y : Backward(x, e) = Fine(y) /\ Sound(y) /\ Like(y, w)
    BY <2>1 DEF Leads
  <2>3. Like(y, u)
    BY <2>2, LikeFacts
  <2> QED
    BY <2>2, <2>3 DEF Leads
<1>4. d \/ (IsExact(u, e, v) /\ e.before = Seen(u) /\ e.after = Seen(v))
  BY <1>1
<1>5. Touches(e, u, v)
  BY LikeFacts, TouchesLike
<1> QED
  BY <1>2, <1>3, <1>4, <1>5 DEF Links

(* The story with the new delta, after those that were applied. *)
LEMMA StoryGrows ==
  ASSUME NEW w, Sound(w), NEW es, Len(es) \in Nat, NEW k \in 0 .. Len(es), NEW n \in Nat,
         NEW c \in BOOLEAN, HasStory(es, k, w, n, c),
         NEW e, NEW v, Does(w, e, v), Touches(e, w, v), e.before = Seen(w), e.after = Seen(v),
         e.slug \in Known(n + 1), NEW d, d = (c \/ Closes(w, e)),
         NEW new, Len(new) = k + 1, \A i \in 1 .. k : new[i] = es[i], new[k + 1] = e
  PROVE  HasStory(new, k + 1, v, n + 1, d)
<1>1. PICK D : Tells(D, es, n, c) /\ Like(w, D[k]) /\ (c \/ w = D[k])
  BY DEF HasStory
<1>2. PICK C : C = [i \in 0 .. k + 1 |-> IF i = k + 1 THEN v ELSE D[i]]
  OBVIOUS
<1>3. C[k + 1] = v /\ \A i \in 0 .. k : C[i] = D[i]
  BY <1>2
<1>4. Known(n) \subseteq Known(n + 1) /\ AutoSlugs \subseteq Known(n)
  BY DEF Known
<1>5. ASSUME NEW i \in 0 .. k
      PROVE  Sound(D[i]) /\ DOMAIN D[i].blocks \subseteq Known(n)
  <2>1. i \in 0 .. Len(es)
    OBVIOUS
  <2> QED
    BY <1>1, <2>1 DEF Tells
<1>6. Sound(v) /\ DOMAIN v.blocks \subseteq Known(n + 1)
  <2>1. Sound(v) /\ DOMAIN v.blocks \subseteq DOMAIN w.blocks \cup AutoSlugs \cup {e.slug}
    BY DEF Does
  <2>2. PICK u : u = D[k]
    OBVIOUS
  <2>3. k \in 0 .. k
    OBVIOUS
  <2>4. DOMAIN u.blocks \subseteq Known(n)
    BY <1>5, <2>2, <2>3
  <2>5. DOMAIN w.blocks = DOMAIN u.blocks
    BY <1>1, <2>2 DEF Like, Alike
  <2> QED
    BY <1>4, <2>1, <2>4, <2>5
<1>7. ASSUME NEW i \in 0 .. k + 1
      PROVE  Sound(C[i]) /\ DOMAIN C[i].blocks \subseteq Known(n + 1)
  <2>1. CASE i \in 0 .. k
    BY <1>3, <1>4, <1>5, <2>1
  <2>2. CASE i = k + 1
    BY <1>3, <1>6, <2>2
  <2> QED
    BY <2>1, <2>2
<1>8. ASSUME NEW i \in 1 .. k + 1
      PROVE  Links(C[i - 1], new[i], C[i], d)
  <2>1. CASE i \in 1 .. k
    <3>1. i \in 0 .. k /\ i - 1 \in 0 .. k /\ i \in 1 .. Len(es)
      BY <2>1
    <3>2. C[i] = D[i] /\ C[i - 1] = D[i - 1] /\ new[i] = es[i]
      BY <1>3, <2>1, <3>1
    <3>3. PICK x : x = D[i - 1]
      OBVIOUS
    <3>4. PICK y : y = D[i]
      OBVIOUS
    <3>5. PICK f : f = es[i]
      OBVIOUS
    <3>6. Links(x, f, y, c)
      BY <1>1, <3>1, <3>3, <3>4, <3>5 DEF Tells
    <3>7. Links(x, f, y, d)
      BY <3>6 DEF Links
    <3> QED
      BY ONLY <3>2, <3>3, <3>4, <3>5, <3>7
  <2>2. CASE i = k + 1
    <3>1. i - 1 = k /\ k \in 0 .. k
      BY <2>2
    <3>2. PICK u : u = D[k]
      OBVIOUS
    <3>3. Like(w, u) /\ (c \/ w = u)
      BY <1>1, <3>2
    <3>4. Links(u, e, v, d)
      BY <3>3, LinksOn
    <3> QED
      BY <1>3, <2>2, <3>1, <3>2, <3>4
  <2> QED
    BY <2>1, <2>2
<1>9. Tells(C, new, n + 1, d)
  BY <1>7, <1>8 DEF Tells
<1>10. Like(v, C[k + 1]) /\ v = C[k + 1]
  BY <1>3, LikeFacts
<1> QED
  BY <1>9, <1>10 DEF HasStory

-----------------------------------------------------------------------------
(* What handlers do.                                                       *)

(* Deltas of one command. *)
SameCommand(d, e) ==
  /\ d.command = e.command /\ d.slug = e.slug /\ d.of = e.of /\ d.at = e.at
  /\ d.back = e.back /\ d.forth = e.forth /\ d.wasAuto = e.wasAuto

(* They lead to the same. *)
LEMMA SameWays ==
  ASSUME NEW d, NEW e, SameCommand(d, e), NEW x
  PROVE  Forward(x, d) = Forward(x, e) /\ Backward(x, d) = Backward(x, e)
<1>1. Forward(x, d) = Forward(x, e)
  BY DEF SameCommand, Forward
<1>2. Backward(x, d) = Backward(x, e)
  BY DEF SameCommand, Backward
<1> QED
  BY <1>1, <1>2

IsDelta(w, e, command, slug, of, at, back, forth) ==
  /\ e.command = command /\ e.slug = slug /\ e.of = of /\ e.at = at
  /\ e.back = back /\ e.forth = forth /\ e.wasAuto = ~w.custom

CanDo(w, command, slug, of, at, back, forth) ==
  \A e : IsDelta(w, e, command, slug, of, at, back, forth) => Suits(w, e) /\ \E v : Does(w, e, v)

(* What a command has done. *)
HasDone(e, v, slug) ==
  /\ Does(wf, e, v) /\ Touches(e, wf, v)
  /\ wf' = v /\ deltas' = Append(Applied, e) /\ last' = e.id
  /\ e.id = now + 1 /\ now' = now + 1 /\ failed' = failed
  /\ e.slug = slug /\ e.before = Seen(wf) /\ e.after = Seen(v)
  /\ closed' = (closed \/ Closes(wf, e))

(* do() commits if the command can be done. *)
LEMMA DoCommits ==
  ASSUME NEW command, NEW slug, NEW of, NEW at, NEW back, NEW forth,
         CanDo(wf, command, slug, of, at, back, forth),
         Do(command, slug, of, at, back, forth)
  PROVE  \E e, v : HasDone(e, v, slug)
<1> DEFINE a == [id |-> now + 1, command |-> command, slug |-> slug, of |-> of, at |-> at,
                 back |-> back, forth |-> forth, wasAuto |-> ~wf.custom,
                 before |-> Seen(wf), after |-> Seen(wf)]
<1>1. PICK d : d = a
  OBVIOUS
<1>2. PICK e : e = [d EXCEPT !.after = Seen(Forward(wf, d).wf)]
  OBVIOUS
<1>3. /\ now' = now + 1
      /\ Commit(Forward(wf, d), Append(Applied, e), d.id)
      /\ closed' = (closed \/ (command = "ReorderBlocks" /\ HasGaps(wf.blocks)))
  <2>1. /\ now' = now + 1
        /\ Commit(Forward(wf, a),
                  Append(Applied, [a EXCEPT !.after = Seen(Forward(wf, a).wf)]), a.id)
        /\ closed' = (closed \/ (command = "ReorderBlocks" /\ HasGaps(wf.blocks)))
    BY DEF Do
  <2> HIDE DEF a
  <2> QED
    BY ONLY <1>1, <1>2, <2>1
<1>4. IsDelta(wf, d, command, slug, of, at, back, forth) /\ d.id = now + 1 /\ d.before = Seen(wf)
  BY <1>1 DEF IsDelta
<1>5. DOMAIN d = {"id", "command", "slug", "of", "at", "back", "forth", "wasAuto", "before", "after"}
  BY <1>1
<1> HIDE DEF a
<1>6. /\ SameCommand(e, d) /\ IsDelta(wf, e, command, slug, of, at, back, forth)
      /\ e.id = now + 1 /\ e.before = Seen(wf) /\ e.after = Seen(Forward(wf, d).wf)
  <2>1. /\ e.command = d.command /\ e.slug = d.slug /\ e.of = d.of /\ e.at = d.at
        /\ e.back = d.back /\ e.forth = d.forth /\ e.wasAuto = d.wasAuto
        /\ e.id = d.id /\ e.before = d.before /\ e.after = Seen(Forward(wf, d).wf)
    BY ONLY <1>2, <1>5
  <2> QED
    BY <1>4, <2>1 DEF SameCommand, IsDelta
<1>7. PICK v : Does(wf, e, v) /\ Touches(e, wf, v)
  BY <1>6 DEF CanDo, Suits, Does
<1>8. Forward(wf, d) = Fine(v)
  <2>1. Forward(wf, e) = Fine(v)
    BY <1>7 DEF Does
  <2> QED
    BY <1>6, <2>1, SameWays
<1>9. Fine(v).wf = v /\ Fine(v).ok = TRUE
  BY DEF Fine
<1>10. wf' = v /\ deltas' = Append(Applied, e) /\ last' = d.id /\ failed' = failed
  BY <1>3, <1>8, <1>9 DEF Commit
<1>11. e.after = Seen(v)
  BY <1>6, <1>8, <1>9
<1>12. closed' = (closed \/ Closes(wf, e))
  <2>1. e.command = command
    BY <1>6 DEF IsDelta
  <2> QED
    BY <1>3, <2>1 DEF Closes
<1>13. e.slug = slug
  BY <1>6 DEF IsDelta
<1>14. HasDone(e, v, slug)
  BY <1>3, <1>4, <1>6, <1>7, <1>10, <1>11, <1>12, <1>13 DEF HasDone
<1> QED
  BY <1>14

(* Some command with a slug that is known now has been done. *)
HandlerDid == \E slug \in Known(now + 1) : \E e, v : HasDone(e, v, slug)

(* do() of a command that can be done is a step of this kind. *)
LEMMA DoIsDone ==
  ASSUME NEW command, NEW slug \in Known(now + 1), NEW of, NEW at, NEW back, NEW forth,
         CanDo(wf, command, slug, of, at, back, forth),
         Do(command, slug, of, at, back, forth)
  PROVE  HandlerDid
<1>1. PICK e, v : HasDone(e, v, slug)
  BY DoCommits
<1> QED
  BY <1>1 DEF HandlerDid

(* What blocks may be added. *)
Fits(row, w) ==
  IsRow(row) /\ row.position \in Nat /\ MayBe(row.type, row.of, w.steps, w.order)

(* Rows as AddBlock makes them. *)
LEMMA NewRows ==
  ASSUME NEW p \in Nat, NEW type, NEW of, NEW w, MayBe(type, of, w.steps, w.order),
         NEW row, row = [position |-> p, type |-> type, of |-> of]
  PROVE  Fits(row, w)
<1>1. row.position = p /\ row.type = type /\ row.of = of
  OBVIOUS
<1>2. IsRow(row)
  BY <1>1 DEF IsRow
<1> QED
  BY <1>1, <1>2 DEF Fits

(* AddBlock can be done at any position. *)
LEMMA AddBlockCan ==
  ASSUME Inv, NEW row, Fits(row, wf)
  PROVE  CanDo(wf, "AddBlock", NewSlug(now), 0, 0, 0, row)
<1>1. Sound(wf) /\ now \in Nat
  BY DEF Inv, IsChain
<1>2. DOMAIN wf.blocks \subseteq Known(now)
  <2>1. PICK k \in 0 .. Len(deltas) : HasStory(deltas, k, wf, now, closed)
    BY DEF Inv
  <2>2. PICK D : Tells(D, deltas, now, closed) /\ Like(wf, D[k])
    BY <2>1 DEF HasStory
  <2>3. PICK u : u = D[k]
    OBVIOUS
  <2>4. DOMAIN u.blocks \subseteq Known(now)
    BY <2>2, <2>3 DEF Tells
  <2> QED
    BY <2>2, <2>3, <2>4 DEF Like, Alike
<1>3. NewSlug(now) \notin Known(now)
  <2>1. \A i \in 0 .. now - 1 : i # now
    BY <1>1
  <2>2. \A i : NewSlug(i)[1] = "new" /\ NewSlug(i)[2] = i
    BY DEF NewSlug
  <2>3. \A s : AutoSlug(s)[1] = "auto"
    BY DEF AutoSlug
  <2>4. None[1] = ""
    BY DEF None
  <2>5. \A i \in 0 .. now - 1 : NewSlug(now) # NewSlug(i)
    BY <2>1, <2>2
  <2>6. NewSlug(now) # None /\ \A s : NewSlug(now) # AutoSlug(s)
    BY <2>2, <2>3, <2>4
  <2> QED
    BY <2>5, <2>6 DEF Known, AutoSlugs
<1>4. AutoSlugs \subseteq Known(now)
  BY DEF Known
<1>5. NewSlug(now) \notin DOMAIN Blocks(wf)
  BY <1>1, <1>2, <1>3, <1>4, BlocksFacts
<1> SUFFICES ASSUME NEW e, IsDelta(wf, e, "AddBlock", NewSlug(now), 0, 0, 0, row)
             PROVE  Suits(wf, e) /\ \E v : Does(wf, e, v)
  BY DEF CanDo
<1>6. e.command = "AddBlock" /\ e.slug = NewSlug(now) /\ e.forth = row /\ e.wasAuto = ~wf.custom
  BY DEF IsDelta
<1> QED
  BY <1>1, <1>5, <1>6, AddBlockSuits, AddBlockDoes DEF Fits

(* AddBlock. *)
LEMMA AddBlockDone == ASSUME Inv, AddBlock PROVE HandlerDid
<1>1. Sound(wf) /\ now \in Nat /\ LiveSteps(wf) = Live(wf.steps, wf.order)
  BY DEF Inv, IsChain, LiveSteps, Live
<1>2. NewSlug(now) \in Known(now + 1)
  BY <1>1 DEF Known
<1>3. \A row : Fits(row, wf) /\ Do("AddBlock", NewSlug(now), 0, 0, 0, row) => HandlerDid
  BY <1>2, AddBlockCan, DoIsDone
<1>4. PICK p \in Nat :
        \/ \E s \in LiveSteps(wf) : Do("AddBlock", NewSlug(now), 0, 0, 0, Chart(s, p))
        \/ \E t \in Range(wf.order) :
             Do("AddBlock", NewSlug(now), 0, 0, 0, [position |-> p, type |-> "Table", of |-> t])
        \/ \E m \in Markdowns :
             Do("AddBlock", NewSlug(now), 0, 0, 0, [position |-> p, type |-> "Text", of |-> m])
  <2>1. \A n : \A p \in 0 .. n : p \in Nat
    OBVIOUS
  <2> QED
    BY <2>1 DEF AddBlock
<1>5. ASSUME NEW s \in LiveSteps(wf), Do("AddBlock", NewSlug(now), 0, 0, 0, Chart(s, p))
      PROVE  HandlerDid
  <2>1. MayBe("Chart", s, wf.steps, wf.order)
    BY <1>1, <1>5 DEF MayBe
  <2>2. Fits(Chart(s, p), wf)
    BY <2>1, NewRows DEF Chart
  <2> QED
    BY <1>3, <1>5, <2>2
<1>6. ASSUME NEW t \in Range(wf.order),
             Do("AddBlock", NewSlug(now), 0, 0, 0, [position |-> p, type |-> "Table", of |-> t])
      PROVE  HandlerDid
  <2>1. MayBe("Table", t, wf.steps, wf.order)
    BY DEF MayBe
  <2>2. PICK row : row = [position |-> p, type |-> "Table", of |-> t]
    OBVIOUS
  <2>3. Fits(row, wf)
    BY <2>1, <2>2, NewRows
  <2> QED
    BY ONLY <1>3, <1>6, <2>2, <2>3
<1>7. ASSUME NEW m \in Markdowns,
             Do("AddBlock", NewSlug(now), 0, 0, 0, [position |-> p, type |-> "Text", of |-> m])
      PROVE  HandlerDid
  <2>1. MayBe("Text", m, wf.steps, wf.order)
    BY DEF MayBe
  <2>2. PICK row : row = [position |-> p, type |-> "Text", of |-> m]
    OBVIOUS
  <2>3. Fits(row, wf)
    BY <2>1, <2>2, NewRows
  <2> QED
    BY ONLY <1>3, <1>7, <2>2, <2>3
<1> QED
  BY <1>4, <1>5, <1>6, <1>7

(* Slugs of blocks there are, and of none, are known. *)
LEMMA SlugsKnown ==
  ASSUME Inv
  PROVE  None \in Known(now + 1) /\ DOMAIN Blocks(wf) \subseteq Known(now + 1)
<1>1. Sound(wf) /\ now \in Nat
  BY DEF Inv, IsChain
<1>2. PICK k \in 0 .. Len(deltas) : HasStory(deltas, k, wf, now, closed)
  BY DEF Inv
<1>3. PICK D : Tells(D, deltas, now, closed) /\ Like(wf, D[k])
  BY <1>2 DEF HasStory
<1>4. PICK u : u = D[k]
  OBVIOUS
<1>5. DOMAIN u.blocks \subseteq Known(now)
  BY <1>3, <1>4 DEF Tells
<1>6. DOMAIN wf.blocks = DOMAIN u.blocks
  BY <1>3, <1>4 DEF Like, Alike
<1>7. Known(now) \subseteq Known(now + 1) /\ None \in Known(now + 1) /\ AutoSlugs \subseteq Known(now + 1)
  BY <1>1 DEF Known
<1>8. DOMAIN Blocks(wf) \subseteq DOMAIN wf.blocks \cup AutoSlugs
  BY <1>1, BlocksFacts
<1> QED
  BY <1>5, <1>6, <1>7, <1>8

(* DeleteBlock. *)
LEMMA DeleteBlockDone == ASSUME Inv, DeleteBlock PROVE HandlerDid
<1>1. Sound(wf)
  BY DEF Inv
<1>2. PICK b \in DOMAIN Blocks(wf) : Do("DeleteBlock", b, 0, 0, Blocks(wf)[b], 0)
  BY DEF DeleteBlock
<1>3. PICK row : row = Blocks(wf)[b]
  OBVIOUS
<1>4. CanDo(wf, "DeleteBlock", b, 0, 0, row, 0)
  <2> SUFFICES ASSUME NEW e, IsDelta(wf, e, "DeleteBlock", b, 0, 0, row, 0)
               PROVE  Suits(wf, e) /\ \E v : Does(wf, e, v)
    BY DEF CanDo
  <2>1. e.command = "DeleteBlock" /\ e.slug = b /\ e.back = row /\ e.wasAuto = ~wf.custom
    BY DEF IsDelta
  <2> QED
    BY <1>1, <1>3, <2>1, DeleteBlockSuits, DeleteBlockDoes
<1>5. Do("DeleteBlock", b, 0, 0, row, 0)
  BY <1>2, <1>3
<1> QED
  BY <1>4, <1>5, SlugsKnown, DoIsDone

(* ReorderBlocks. *)
LEMMA ReorderBlocksDone == ASSUME Inv, ReorderBlocks PROVE HandlerDid
<1>1. Sound(wf)
  BY DEF Inv
<1>2. PICK old : old = ByPosition(Blocks(wf))
  OBVIOUS
<1>3. PICK new \in SetToSeqs(Range(old)) : Do("ReorderBlocks", None, 0, 0, old, new)
  BY <1>2 DEF ReorderBlocks
<1>4. Lists(new, DOMAIN Blocks(wf))
  <2>1. Lists(old, DOMAIN Blocks(wf))
    BY <1>1, <1>2, BlocksFacts, ByPositionFacts
  <2>2. Range(old) = DOMAIN Blocks(wf) /\ IsFiniteSet(Range(old))
    BY <2>1, CountOrder DEF Lists
  <2>3. Lists(new, Range(old))
    BY <1>3, <2>2, AllOfThem
  <2> QED
    BY <2>2, <2>3
<1>5. CanDo(wf, "ReorderBlocks", None, 0, 0, old, new)
  <2> SUFFICES ASSUME NEW e, IsDelta(wf, e, "ReorderBlocks", None, 0, 0, old, new)
               PROVE  Suits(wf, e) /\ \E v : Does(wf, e, v)
    BY DEF CanDo
  <2>1. e.command = "ReorderBlocks" /\ e.back = old /\ e.forth = new /\ e.wasAuto = ~wf.custom
    BY DEF IsDelta
  <2> QED
    BY <1>1, <1>2, <1>4, <2>1, ReorderBlocksSuits, ReorderBlocksDoes
<1> QED
  BY <1>3, <1>5, SlugsKnown, DoIsDone

(* SetBlockMarkdown. *)
LEMMA SetBlockMarkdownDone == ASSUME Inv, SetBlockMarkdown PROVE HandlerDid
<1>1. Sound(wf)
  BY DEF Inv
<1>2. PICK b \in DOMAIN wf.blocks :
        /\ wf.blocks[b].type = "Text"
        /\ \E m \in Markdowns : Do("SetBlockMarkdown", b, 0, 0, wf.blocks[b].of, m)
  BY DEF SetBlockMarkdown
<1>3. PICK m \in Markdowns : Do("SetBlockMarkdown", b, 0, 0, wf.blocks[b].of, m)
  BY <1>2
<1>4. PICK old : old = wf.blocks[b].of
  OBVIOUS
<1>5. Type(wf.blocks, b) = "Text" /\ old = About(wf.blocks, b)
  BY <1>2, <1>4 DEF Type, About
<1>6. CanDo(wf, "SetBlockMarkdown", b, 0, 0, old, m)
  <2> SUFFICES ASSUME NEW e, IsDelta(wf, e, "SetBlockMarkdown", b, 0, 0, old, m)
               PROVE  Suits(wf, e) /\ \E v : Does(wf, e, v)
    BY DEF CanDo
  <2>1. e.command = "SetBlockMarkdown" /\ e.slug = b /\ e.back = old /\ e.forth = m
    BY DEF IsDelta
  <2> QED
    BY <1>1, <1>5, <2>1, SetBlockMarkdownSuits, SetBlockMarkdownDoes
<1>7. b \in DOMAIN Blocks(wf)
  <2>1. wf.custom
    BY <1>1 DEF Sound
  <2> QED
    BY <1>1, <2>1, BlocksFacts
<1>8. Do("SetBlockMarkdown", b, 0, 0, old, m)
  BY <1>3, <1>4
<1> QED
  BY <1>6, <1>7, <1>8, SlugsKnown, DoIsDone

(* AddStep. *)
LEMMA AddStepDone == ASSUME Inv, AddStep PROVE HandlerDid
<1>1. Sound(wf)
  BY DEF Inv
<1>2. PICK s \in DOMAIN TabOf : s \notin wf.steps /\ Do("AddStep", None, s, 0, 0, 0)
  BY DEF AddStep
<1>3. CanDo(wf, "AddStep", None, s, 0, 0, 0)
  <2> SUFFICES ASSUME NEW e, IsDelta(wf, e, "AddStep", None, s, 0, 0, 0)
               PROVE  Suits(wf, e) /\ \E v : Does(wf, e, v)
    BY DEF CanDo
  <2>1. e.command = "AddStep" /\ e.of = s
    BY DEF IsDelta
  <2> QED
    BY <1>1, <1>2, <2>1, AddStepSuits, AddStepDoes
<1> QED
  BY <1>2, <1>3, SlugsKnown, DoIsDone

(* DeleteStep. *)
LEMMA DeleteStepDone == ASSUME Inv, DeleteStep PROVE HandlerDid
<1>1. Sound(wf)
  BY DEF Inv
<1>2. PICK s \in LiveSteps(wf) :
        Do("DeleteStep", None, s, 0, Restrict(wf.blocks, RowsOfStep(wf, s)), 0)
  BY DEF DeleteStep
<1>3. PICK old : old = Restrict(wf.blocks, RowsOfStep(wf, s))
  OBVIOUS
<1>4. CanDo(wf, "DeleteStep", None, s, 0, old, 0)
  <2> SUFFICES ASSUME NEW e, IsDelta(wf, e, "DeleteStep", None, s, 0, old, 0)
               PROVE  Suits(wf, e) /\ \E v : Does(wf, e, v)
    BY DEF CanDo
  <2>1. e.command = "DeleteStep" /\ e.of = s /\ e.back = old
    BY DEF IsDelta
  <2> QED
    BY <1>1, <1>3, <2>1, DeleteStepSuits, DeleteStepDoes
<1>5. Do("DeleteStep", None, s, 0, old, 0)
  BY <1>2, <1>3
<1> QED
  BY <1>4, <1>5, SlugsKnown, DoIsDone

(* DeleteTab. *)
LEMMA DeleteTabDone == ASSUME Inv, DeleteTab PROVE HandlerDid
<1>1. Sound(wf)
  BY DEF Inv
<1>2. PICK i \in DOMAIN wf.order :
        Do("DeleteTab", None, wf.order[i], i,
           Restrict(wf.blocks, RowsOfTab(wf, wf.order[i])), 0)
  BY DEF DeleteTab
<1>3. PICK t : t = wf.order[i]
  OBVIOUS
<1>4. PICK old : old = Restrict(wf.blocks, RowsOfTab(wf, t))
  OBVIOUS
<1>5. CanDo(wf, "DeleteTab", None, t, i, old, 0)
  <2> SUFFICES ASSUME NEW e, IsDelta(wf, e, "DeleteTab", None, t, i, old, 0)
               PROVE  Suits(wf, e) /\ \E v : Does(wf, e, v)
    BY DEF CanDo
  <2>1. e.command = "DeleteTab" /\ e.of = t /\ e.at = i /\ e.back = old
    BY DEF IsDelta
  <2> QED
    BY <1>1, <1>3, <1>4, <2>1, DeleteTabSuits, DeleteTabDoes
<1>6. Do("DeleteTab", None, t, i, old, 0)
  BY <1>2, <1>3, <1>4
<1> QED
  BY <1>5, <1>6, SlugsKnown, DoIsDone

(* ReorderTabs. *)
LEMMA ReorderTabsDone == ASSUME Inv, ReorderTabs PROVE HandlerDid
<1>1. Sound(wf)
  BY DEF Inv
<1>2. PICK new \in SetToSeqs(Range(wf.order)) : Do("ReorderTabs", None, 0, 0, wf.order, new)
  BY DEF ReorderTabs
<1>3. CanDo(wf, "ReorderTabs", None, 0, 0, wf.order, new)
  <2> SUFFICES ASSUME NEW e, IsDelta(wf, e, "ReorderTabs", None, 0, 0, wf.order, new)
               PROVE  Suits(wf, e) /\ \E v : Does(wf, e, v)
    BY DEF CanDo
  <2>1. e.command = "ReorderTabs" /\ e.back = wf.order /\ e.forth = new
    BY DEF IsDelta
  <2> QED
    BY <1>1, <1>2, <2>1, ReorderTabsSuits, ReorderTabsDoes
<1> QED
  BY <1>2, <1>3, SlugsKnown, DoIsDone

-----------------------------------------------------------------------------
(* Steps.                                                                  *)

(* What undo, redo and the commands do to the deltas and to what is seen.  *)
GoesBack ==
  \E k \in 1 .. Len(deltas) :
    /\ IsAt(k, deltas, last) /\ IsAt(k - 1, deltas, last') /\ deltas' = deltas
    /\ Seen(wf) = deltas[k].after /\ Seen(wf') = deltas[k].before

GoesOn ==
  \E k \in 1 .. Len(deltas) :
    /\ IsAt(k - 1, deltas, last) /\ IsAt(k, deltas, last') /\ deltas' = deltas
    /\ Seen(wf) = deltas[k].before /\ Seen(wf') = deltas[k].after

GoesFurther ==
  \E k \in 0 .. Len(deltas) :
    /\ IsAt(k, deltas, last) /\ IsAt(k + 1, deltas', last') /\ Len(deltas') = k + 1
    /\ \A i \in 1 .. k : deltas'[i] = deltas[i]
    /\ deltas'[k + 1].before = Seen(wf)

(* A step along the delta e, there or back. *)
Follows(e) ==
  Touches(e, wf, wf') /\ (Forward(wf, e) = Fine(wf') \/ Backward(wf, e) = Fine(wf'))

(* The commands. *)
LEMMA CommandStep ==
  ASSUME Inv, HandlerDid
  PROVE  /\ Inv' /\ GoesFurther /\ (closed => closed')
         /\ \E e : deltas' = Append(Applied, e) /\ Follows(e)
<1>0. PICK slug \in Known(now + 1) : \E e, v : HasDone(e, v, slug)
  BY DEF HandlerDid
<1>1. PICK e, v : HasDone(e, v, slug)
  BY <1>0
<1>2. /\ Does(wf, e, v) /\ Touches(e, wf, v) /\ wf' = v /\ deltas' = Append(Applied, e) /\ last' = e.id
      /\ e.id = now + 1 /\ now' = now + 1 /\ failed' = failed
      /\ e.slug = slug /\ e.before = Seen(wf) /\ e.after = Seen(v)
      /\ closed' = (closed \/ Closes(wf, e))
  BY <1>1 DEF HasDone
<1>3. PICK k \in 0 .. Len(deltas) :
        IsAt(k, deltas, last) /\ HasStory(deltas, k, wf, now, closed)
  BY DEF Inv
<1>4. /\ IsChain(deltas, now) /\ Sound(wf) /\ ~failed /\ closed \in BOOLEAN /\ now \in Nat
      /\ Len(deltas) \in Nat
  BY LenProperties DEF Inv, IsChain
<1>5. PICK new : new = deltas'
  OBVIOUS
<1>6. IsLonger(now, k, e, new)
  <2>1. IsNext(now, k, e, new)
    BY <1>2, <1>3, <1>4, <1>5 DEF IsNext
  <2> QED
    BY <2>1, ChainGrows
<1>7. /\ IsChain(new, now + 1) /\ Len(new) = k + 1 /\ IsAt(k + 1, new, e.id)
      /\ (\A i \in 1 .. k : new[i] = deltas[i]) /\ new[k + 1] = e
  BY <1>6 DEF IsLonger
<1>8. PICK d : d = (closed \/ Closes(wf, e))
  OBVIOUS
<1>9. HasStory(new, k + 1, v, now + 1, d)
  BY <1>2, <1>3, <1>4, <1>7, <1>8, StoryGrows, ZenonT(60)
<1>10. Sound(v)
  BY <1>2 DEF Does
<1>11. k + 1 \in 0 .. Len(new)
  BY <1>4, <1>7
<1>12. IsChain(deltas', now') /\ Sound(wf') /\ ~failed' /\ closed' \in BOOLEAN
  BY <1>2, <1>4, <1>5, <1>7, <1>10
<1>13. \E m \in 0 .. Len(deltas') :
         IsAt(m, deltas', last') /\ HasStory(deltas', m, wf', now', closed')
  BY <1>2, <1>5, <1>7, <1>8, <1>9, <1>11
<1>14. Inv'
  BY <1>12, <1>13 DEF Inv
<1>15. GoesFurther
  BY <1>2, <1>3, <1>5, <1>7 DEF GoesFurther
<1>16. Follows(e)
  BY <1>2 DEF Does, Follows
<1> QED
  BY <1>2, <1>4, <1>14, <1>15, <1>16

(* Undo. *)
LEMMA UndoStep ==
  ASSUME Inv, Undo
  PROVE  Inv' /\ (closed \/ GoesBack) /\ closed' = closed /\ Follows(Last(Applied))
<1>1. PICK k \in 0 .. Len(deltas) :
        IsAt(k, deltas, last) /\ HasStory(deltas, k, wf, now, closed)
  BY DEF Inv
<1>2. IsChain(deltas, now) /\ Sound(wf) /\ ~failed /\ closed \in BOOLEAN
  BY DEF Inv
<1>3. /\ Len(deltas) \in Nat /\ k \in Nat
      /\ Applied \in Seq(Range(deltas)) /\ Len(Applied) = k
      /\ \A i \in 1 .. k : Applied[i] = deltas[i]
  BY <1>1, <1>2, AppliedFacts
<1>4. k # 0 /\ k \in 1 .. k /\ k \in 1 .. Len(deltas) /\ k - 1 \in 0 .. Len(deltas)
  <2>1. Applied # <<>>
    BY DEF Undo
  <2> QED
    BY <1>3, <2>1, EmptySeq
<1>5. Last(Applied) = deltas[k] /\ (k # 1 => k - 1 \in 1 .. k)
  BY <1>3, <1>4 DEF Last
<1>6. PICK e : e = deltas[k]
  OBVIOUS
<1>7. PICK l : l = IF k = 1 THEN 0 ELSE deltas[k - 1].id
  OBVIOUS
<1>8. Commit(Backward(wf, e), deltas, l)
  <2>1. Commit(Backward(wf, Last(Applied)), deltas, IF k = 1 THEN 0 ELSE Applied[k - 1].id)
    BY <1>3 DEF Undo
  <2>2. k # 1 => Applied[k - 1] = deltas[k - 1]
    BY <1>3, <1>5
  <2>3. (IF k = 1 THEN 0 ELSE Applied[k - 1].id) = l
    BY <1>7, <2>2
  <2> QED
    BY <1>5, <1>6, <2>1, <2>3
<1>9. IsAt(k - 1, deltas, l)
  BY <1>3, <1>4, <1>7 DEF IsAt
<1>10. PICK y : /\ Backward(wf, e) = Fine(y) /\ Sound(y)
                /\ HasStory(deltas, k - 1, y, now, closed) /\ Touches(e, wf, y)
                /\ closed \/ (e.after = Seen(wf) /\ e.before = Seen(y))
  BY <1>1, <1>2, <1>3, <1>4, <1>6, StoryBack
<1>11. wf' = y /\ deltas' = deltas /\ last' = l /\ failed' = failed
  <2>1. Fine(y).wf = y /\ Fine(y).ok = TRUE
    BY DEF Fine
  <2> QED
    BY <1>8, <1>10, <2>1 DEF Commit
<1>12. now' = now /\ closed' = closed
  BY DEF Undo
<1>13. \E m \in 0 .. Len(deltas') :
         IsAt(m, deltas', last') /\ HasStory(deltas', m, wf', now', closed')
  BY <1>4, <1>9, <1>10, <1>11, <1>12
<1>14. IsChain(deltas', now') /\ Sound(wf') /\ ~failed' /\ closed' \in BOOLEAN
  BY <1>2, <1>10, <1>11, <1>12
<1>15. Inv'
  BY <1>13, <1>14 DEF Inv
<1>16. closed \/ GoesBack
  BY <1>1, <1>4, <1>6, <1>9, <1>10, <1>11 DEF GoesBack
<1>17. Follows(Last(Applied))
  BY <1>5, <1>6, <1>10, <1>11 DEF Follows
<1> QED
  BY <1>12, <1>15, <1>16, <1>17

(* Redo. *)
LEMMA RedoStep ==
  ASSUME Inv, Redo
  PROVE  Inv' /\ (closed \/ GoesOn) /\ closed' = closed /\ Follows(Head(Undone))
<1>1. PICK j \in 0 .. Len(deltas) :
        IsAt(j, deltas, last) /\ HasStory(deltas, j, wf, now, closed)
  BY DEF Inv
<1>2. IsChain(deltas, now) /\ Sound(wf) /\ ~failed /\ closed \in BOOLEAN
  BY DEF Inv
<1>3. /\ Len(deltas) \in Nat /\ j \in Nat
      /\ Undone \in Seq(Range(deltas)) /\ Len(Undone) = Len(deltas) - j
      /\ \A i \in 1 .. Len(deltas) - j : Undone[i] = deltas[j + i]
  BY <1>1, <1>2, AppliedFacts
<1>4. Len(deltas) - j # 0 /\ 1 \in 1 .. Len(deltas) - j
  <2>1. Undone # <<>>
    BY DEF Redo
  <2> QED
    BY <1>1, <1>3, <2>1, EmptySeq
<1>5. PICK k : k = j + 1
  OBVIOUS
<1>6. k \in 1 .. Len(deltas) /\ k - 1 = j /\ k \in 0 .. Len(deltas) /\ k # 0
  BY <1>3, <1>4, <1>5
<1>7. PICK e : e = deltas[k]
  OBVIOUS
<1>8. Head(Undone) = e
  <2>1. Head(Undone) = Undone[1]
    BY <1>3, <1>4, HeadTailProperties
  <2> QED
    BY <1>3, <1>4, <1>5, <1>7, <2>1
<1>9. Commit(Forward(wf, e), deltas, e.id)
  BY <1>8 DEF Redo
<1>10. IsAt(k, deltas, e.id)
  BY <1>6, <1>7 DEF IsAt
<1>11. PICK y : /\ Forward(wf, e) = Fine(y) /\ Sound(y)
                /\ HasStory(deltas, k, y, now, closed) /\ Touches(e, wf, y)
                /\ closed \/ (e.before = Seen(wf) /\ e.after = Seen(y))
  <2>1. HasStory(deltas, k - 1, wf, now, closed)
    BY <1>1, <1>6
  <2> QED
    BY <1>2, <1>3, <1>6, <1>7, <2>1, StoryForth
<1>12. wf' = y /\ deltas' = deltas /\ last' = e.id /\ failed' = failed
  <2>1. Fine(y).wf = y /\ Fine(y).ok = TRUE
    BY DEF Fine
  <2> QED
    BY <1>9, <1>11, <2>1 DEF Commit
<1>13. now' = now /\ closed' = closed
  BY DEF Redo
<1>14. \E m \in 0 .. Len(deltas') :
         IsAt(m, deltas', last') /\ HasStory(deltas', m, wf', now', closed')
  BY <1>6, <1>10, <1>11, <1>12, <1>13
<1>15. IsChain(deltas', now') /\ Sound(wf') /\ ~failed' /\ closed' \in BOOLEAN
  BY <1>2, <1>11, <1>12, <1>13
<1>16. Inv'
  BY <1>14, <1>15 DEF Inv
<1>17. closed \/ GoesOn
  BY <1>1, <1>6, <1>7, <1>10, <1>11, <1>12 DEF GoesOn
<1>18. Follows(Head(Undone))
  BY <1>8, <1>11, <1>12 DEF Follows
<1> QED
  BY <1>13, <1>16, <1>17, <1>18

(* The first state. *)
LEMMA InvInit == ASSUME Init PROVE Inv
<1>1. PICK w : w = wf
  OBVIOUS
<1>2. /\ w = [custom |-> FALSE, blocks |-> <<>>, steps |-> FirstSteps, order |-> FirstTabs]
      /\ deltas = <<>> /\ last = 0 /\ now = 0 /\ ~failed /\ closed = FALSE
  BY <1>1 DEF Init
<1>3. PICK c : c = FALSE
  OBVIOUS
<1>4. w = State(c, <<>>, FirstSteps, FirstTabs)
  BY <1>2, <1>3 DEF State
<1>5. AreParts(FirstSteps, FirstTabs)
  <2>1. FirstSteps \subseteq DOMAIN TabOf
    BY ReportBounds
  <2>2. FirstTabs \in Seq(Range(FirstTabs)) /\ IsInjective(FirstTabs)
    BY TabsAndSteps
  <2>3. IsOrder(FirstTabs, Range(FirstTabs))
    BY <2>2 DEF IsOrder, IsInjective
  <2> QED
    BY <2>1, <2>3 DEF AreParts
<1>6. IsRows(<<>>) /\ IsPlaced(<<>>) /\ DOMAIN <<>> = {}
  BY NoRows
<1>7. AreAlive(<<>>, FirstSteps, FirstTabs)
  BY <1>6 DEF AreAlive
<1>8. c \in BOOLEAN
  BY <1>3
<1>9. Sound(w) /\ w.blocks = <<>>
  BY <1>4, <1>5, <1>6, <1>7, <1>8, StateFacts
<1>10. Len(deltas) = 0 /\ deltas \in Seq(Range(deltas))
  BY <1>2, EmptySeq DEF Range
<1>11. IsChain(deltas, now) /\ IsAt(0, deltas, last)
  BY <1>2, <1>10 DEF IsChain, IsAt
<1>12. HasStory(deltas, 0, w, now, closed)
  <2>1. PICK D : D = [i \in {0} |-> w]
    OBVIOUS
  <2>2. D[0] = w /\ \A i \in 0 .. 0 : i = 0
    BY <2>1
  <2>3. DOMAIN w.blocks = {}
    BY <1>6, <1>9
  <2>4. Tells(D, deltas, now, closed)
    BY <1>9, <1>10, <2>2, <2>3 DEF Tells
  <2>5. Like(w, w)
    BY LikeFacts
  <2> QED
    BY <2>2, <2>4, <2>5 DEF HasStory
<1>13. 0 \in 0 .. Len(deltas)
  BY <1>10
<1>14. \E k \in 0 .. Len(deltas) :
         IsAt(k, deltas, last) /\ HasStory(deltas, k, wf, now, closed)
  BY <1>1, <1>11, <1>12, <1>13
<1>15. closed \in BOOLEAN
  BY <1>2
<1> QED
  BY <1>1, <1>2, <1>9, <1>11, <1>14, <1>15 DEF Inv

(* Every step keeps the story, and is a step in the history as seen.       *)
Outcome == closed' \/ (closed' = closed /\ (GoesBack \/ GoesOn \/ GoesFurther \/ UNCHANGED vars))

(* The invariant is inductive. *)
LEMMA NextOutcome == ASSUME Inv, [Next]_vars PROVE Inv' /\ Outcome
<1>1. ASSUME HandlerDid
      PROVE  Inv' /\ Outcome
  <2>1. Inv' /\ GoesFurther /\ (closed => closed')
    BY <1>1, CommandStep
  <2>2. closed \in BOOLEAN /\ closed' \in BOOLEAN
    BY <2>1 DEF Inv
  <2> QED
    BY <2>1, <2>2 DEF Outcome
<1>2. CASE UNCHANGED vars
  <2>1. Inv'
    BY <1>2 DEF Inv, vars
  <2>2. closed' = closed
    BY <1>2 DEF vars
  <2> QED
    BY <1>2, <2>1, <2>2 DEF Outcome
<1>3. CASE Undo
  <2>1. Inv' /\ (closed \/ GoesBack) /\ closed' = closed
    BY <1>3, UndoStep
  <2> QED
    BY <2>1 DEF Outcome
<1>4. CASE Redo
  <2>1. Inv' /\ (closed \/ GoesOn) /\ closed' = closed
    BY <1>4, RedoStep
  <2> QED
    BY <2>1 DEF Outcome
<1>5. CASE AddBlock
  BY <1>1, <1>5, AddBlockDone
<1>6. CASE DeleteBlock
  BY <1>1, <1>6, DeleteBlockDone
<1>7. CASE ReorderBlocks
  BY <1>1, <1>7, ReorderBlocksDone
<1>8. CASE SetBlockMarkdown
  BY <1>1, <1>8, SetBlockMarkdownDone
<1>9. CASE AddStep
  BY <1>1, <1>9, AddStepDone
<1>10. CASE DeleteStep
  BY <1>1, <1>10, DeleteStepDone
<1>11. CASE DeleteTab
  BY <1>1, <1>11, DeleteTabDone
<1>12. CASE ReorderTabs
  BY <1>1, <1>12, ReorderTabsDone
<1> QED
  BY <1>2, <1>3, <1>4, <1>5, <1>6, <1>7, <1>8, <1>9, <1>10, <1>11, <1>12 DEF Next

(* The story goes on: any delta can be undone and redone from whatever     *)
(* positions blocks have come to be at.                                    *)
LEMMA Invariance == Spec => []Inv
<1>1. Inv /\ [Next]_vars => Inv'
  BY NextOutcome
<1>2. Init => Inv
  BY InvInit
<1> QED
  BY <1>1, <1>2, PTL DEF Spec

(* Through any do, undo and redo, a report that is not custom has no rows, *)
(* and blocks are about steps and tabs that live (models/block.py):        *)
(* DeleteStep and DeleteTab take the blocks with them that would be left.  *)
THEOREM ReportStaysSound == Spec => []ReportIsSound
<1>1. ASSUME Inv
      PROVE  ReportIsSound
  <2>1. PICK w : w = wf
    OBVIOUS
  <2>2. Sound(w)
    BY <1>1, <2>1 DEF Inv
  <2>3. /\ IsRows(w.blocks) /\ IsPlaced(w.blocks) /\ AreAlive(w.blocks, w.steps, w.order)
        /\ w.custom \/ DOMAIN w.blocks = {}
    BY <2>2 DEF Sound
  <2>4. w.blocks = <<>> \/ w.custom
    BY <2>3, NoRows
  <2>5. ASSUME NEW b \in DOMAIN w.blocks
        PROVE  /\ w.blocks[b].position \in Nat
               /\ w.blocks[b].type = "Chart" => w.blocks[b].of \in LiveSteps(w)
               /\ w.blocks[b].type = "Table" => w.blocks[b].of \in Range(w.order)
               /\ w.blocks[b].type = "Text"  => w.blocks[b].of \in Markdowns
    <3>1. MayBe(Type(w.blocks, b), About(w.blocks, b), w.steps, w.order)
      BY <2>3 DEF AreAlive
    <3>2. Pos(w.blocks, b) \in Nat
      BY <2>3 DEF IsPlaced
    <3> QED
      BY <3>1, <3>2 DEF MayBe, Live, LiveSteps, Pos, Type, About
  <2> QED
    BY <2>1, <2>4, <2>5 DEF ReportIsSound
<1> QED
  BY <1>1, Invariance, PTL

(* Postgres refuses no row of any do, undo or redo, whatever the positions *)
(* that browsers asked for: cjwstate/models/dbutil.py moves rows in an     *)
(* order in which no two ever have one position.                           *)
THEOREM CommandsAreNotRefused == Spec => []NoCommandIsRefused
<1>1. Inv => NoCommandIsRefused
  BY DEF Inv, NoCommandIsRefused
<1> QED
  BY <1>1, Invariance, PTL

-----------------------------------------------------------------------------
(* The refinement: what the deltas keep of the report before and after     *)
(* them is a history.                                                      *)

BeforeEach(ds) == [i \in DOMAIN ds |-> ds[i].before]
AfterEach(ds)  == [i \in DOMAIN ds |-> ds[i].after]

(* What deltas ds keep is in S.                                            *)
Holds(S, ds) == \A i \in 1 .. Len(ds) : ds[i].before \in S /\ ds[i].after \in S

(* p and f are what was before the first k of ds, and after the others.    *)
IsMapped(S, ds, k, p, f) ==
  /\ p \in Seq(S) /\ Len(p) = k /\ \A i \in 1 .. k : p[i] = ds[i].before
  /\ f \in Seq(S) /\ Len(f) = Len(ds) - k
  /\ \A i \in 1 .. Len(ds) - k : f[i] = ds[k + i].after

(* One content for each delta. *)
LEMMA OneForEach ==
  ASSUME NEW S, NEW R, NEW ds \in Seq(R), Holds(S, ds)
  PROVE  /\ BeforeEach(ds) \in Seq(S) /\ Len(BeforeEach(ds)) = Len(ds)
         /\ AfterEach(ds) \in Seq(S) /\ Len(AfterEach(ds)) = Len(ds)
         /\ \A i \in 1 .. Len(ds) : BeforeEach(ds)[i] = ds[i].before /\ AfterEach(ds)[i] = ds[i].after
<1>1. DOMAIN ds = 1 .. Len(ds) /\ Len(ds) \in Nat
  BY LenProperties
<1>2. /\ BeforeEach(ds) = [i \in 1 .. Len(ds) |-> ds[i].before]
      /\ AfterEach(ds) = [i \in 1 .. Len(ds) |-> ds[i].after]
  BY <1>1 DEF BeforeEach, AfterEach
<1>3. \A i \in 1 .. Len(ds) : BeforeEach(ds)[i] = ds[i].before /\ AfterEach(ds)[i] = ds[i].after
  BY <1>2
<1>4. PICK n : n = Len(ds)
  OBVIOUS
<1>5. n \in Nat /\ BeforeEach(ds) \in [1 .. n -> S] /\ AfterEach(ds) \in [1 .. n -> S]
  BY <1>1, <1>2, <1>4 DEF Holds
<1>6. BeforeEach(ds) \in Seq(S) /\ AfterEach(ds) \in Seq(S)
  BY ONLY <1>5, SeqDef
<1>7. Len(BeforeEach(ds)) = n /\ Len(AfterEach(ds)) = n
  BY <1>5, <1>6, LenProperties
<1> QED
  BY <1>3, <1>4, <1>6, <1>7

(* ... of a part of them. *)
LEMMA PartsMapped ==
  ASSUME NEW S, NEW R, NEW ds \in Seq(R), Holds(S, ds), NEW k \in 0 .. Len(ds),
         NEW old, old = SubSeq(ds, 1, k), NEW new, new = SubSeq(ds, k + 1, Len(ds))
  PROVE  IsMapped(S, ds, k, BeforeEach(old), AfterEach(new))
<1>1. Len(ds) \in Nat /\ k \in Nat /\ k <= Len(ds)
  BY LenProperties
<1>2. \A i \in 1 .. Len(ds) : ds[i] \in R
  BY ElementOfSeq
<1>3. old \in Seq(R) /\ Len(old) = k /\ \A i \in 1 .. k : old[i] = ds[i]
  <2>1. 1 \in Int /\ k \in Int /\ \A i \in 1 .. k : ds[i] \in R
    BY <1>1, <1>2
  <2>2. /\ SubSeq(ds, 1, k) \in Seq(R) /\ Len(SubSeq(ds, 1, k)) = IF 1 <= k THEN k - 1 + 1 ELSE 0
        /\ \A i \in 1 .. k - 1 + 1 : SubSeq(ds, 1, k)[i] = ds[1 + i - 1]
    BY <2>1, SubSeqProperties
  <2> QED
    BY <1>1, <2>2
<1>4. /\ new \in Seq(R) /\ Len(new) = Len(ds) - k
      /\ \A i \in 1 .. Len(ds) - k : new[i] = ds[k + i]
  <2>1. k + 1 \in Int /\ Len(ds) \in Int /\ \A i \in k + 1 .. Len(ds) : ds[i] \in R
    BY <1>1, <1>2
  <2>2. /\ SubSeq(ds, k + 1, Len(ds)) \in Seq(R)
        /\ Len(SubSeq(ds, k + 1, Len(ds)))
             = IF k + 1 <= Len(ds) THEN Len(ds) - (k + 1) + 1 ELSE 0
        /\ \A i \in 1 .. Len(ds) - (k + 1) + 1 :
             SubSeq(ds, k + 1, Len(ds))[i] = ds[k + 1 + i - 1]
    BY <2>1, SubSeqProperties
  <2> QED
    BY <1>1, <2>2
<1>5. Holds(S, old) /\ Holds(S, new)
  <2>1. \A i \in 1 .. k : i \in 1 .. Len(ds)
    BY <1>1
  <2>2. \A i \in 1 .. Len(ds) - k : k + i \in 1 .. Len(ds)
    BY <1>1
  <2> QED
    BY <1>3, <1>4, <2>1, <2>2 DEF Holds
<1>6. /\ BeforeEach(old) \in Seq(S) /\ Len(BeforeEach(old)) = k
      /\ \A i \in 1 .. k : BeforeEach(old)[i] = ds[i].before
  <2>1. /\ BeforeEach(old) \in Seq(S) /\ Len(BeforeEach(old)) = Len(old)
        /\ \A i \in 1 .. Len(old) : BeforeEach(old)[i] = old[i].before
    BY <1>3, <1>5, OneForEach, ZenonT(60)
  <2> QED
    BY <1>3, <2>1
<1>7. AfterEach(new) \in Seq(S) /\ Len(AfterEach(new)) = Len(ds) - k
  BY <1>4, <1>5, OneForEach
<1>8. ASSUME NEW i \in 1 .. Len(ds) - k PROVE AfterEach(new)[i] = ds[k + i].after
  <2>1. i \in 1 .. Len(new)
    BY <1>4
  <2>2. AfterEach(new)[i] = new[i].after
    BY <1>4, <1>5, <2>1, OneForEach
  <2> QED
    BY <1>4, <2>2
<1> QED
  BY <1>6, <1>7, <1>8 DEF IsMapped

(* That is what the mapping gives, ... *)
LEMMA Mapped ==
  ASSUME NEW S, IsChain(deltas, now), Holds(S, deltas), NEW k, IsAt(k, deltas, last)
  PROVE  IsMapped(S, deltas, k, BeforeEach(Applied), AfterEach(Undone))
<1>1. NApplied = k /\ k \in 0 .. Len(deltas)
  BY AppliedFacts
<1>2. Applied = SubSeq(deltas, 1, k) /\ Undone = SubSeq(deltas, k + 1, Len(deltas))
  BY <1>1 DEF Applied, Undone
<1>3. PICK S0 : S0 = Range(deltas)
  OBVIOUS
<1>4. deltas \in Seq(S0)
  BY <1>3 DEF IsChain
<1> QED
  BY <1>1, <1>2, <1>4, PartsMapped

(* ... after a step too. *)
LEMMA MappedNext ==
  ASSUME NEW S, IsChain(deltas', now'), Holds(S, deltas'), NEW k, IsAt(k, deltas', last')
  PROVE  IsMapped(S, deltas', k, BeforeEach(Applied)', AfterEach(Undone)')
<1>1. /\ k \in 0 .. Len(deltas')
      /\ \A i \in DOMAIN deltas' : deltas'[i].id <= last' <=> i <= k
      /\ \A m \in 0 .. Len(deltas') :
           (\A i \in DOMAIN deltas' : deltas'[i].id <= last' <=> i <= m) => m = k
  BY SplitFacts
<1>2. NApplied' = k
  BY <1>1 DEF NApplied
<1>3. Applied' = SubSeq(deltas', 1, k) /\ Undone' = SubSeq(deltas', k + 1, Len(deltas'))
  BY <1>2 DEF Applied, Undone
<1>4. PICK S0 : S0 = Range(deltas')
  OBVIOUS
<1>5. deltas' \in Seq(S0)
  BY <1>4 DEF IsChain
<1>6. PICK old : old = Applied'
  OBVIOUS
<1>7. PICK new : new = Undone'
  OBVIOUS
<1>8. IsMapped(S, deltas', k, BeforeEach(old), AfterEach(new))
  BY <1>1, <1>3, <1>5, <1>6, <1>7, PartsMapped
<1>9. BeforeEach(Applied)' = BeforeEach(old) /\ AfterEach(Undone)' = AfterEach(new)
  BY <1>6, <1>7 DEF BeforeEach, AfterEach
<1> QED
  BY <1>8, <1>9

(* The last of p is gone from q, and s is before f in g.                   *)
Shorter(S, p, f, q, g, s) ==
  /\ p \in Seq(S) /\ f \in Seq(S) /\ q \in Seq(S) /\ g \in Seq(S) /\ s \in S
  /\ Len(p) > 0 /\ Len(q) = Len(p) - 1 /\ Len(g) = Len(f) + 1
  /\ \A i \in 1 .. Len(q) : q[i] = p[i]
  /\ g[1] = s /\ \A i \in 1 .. Len(f) : g[i + 1] = f[i]

(* In terms of UndoHistory: *)
LEMMA UndoneSequences ==
  ASSUME NEW S, NEW p, NEW f, NEW q, NEW g, NEW s, Shorter(S, p, f, q, g, s)
  PROVE  p # <<>> /\ q = Front(p) /\ g = <<s>> \o f
<1> USE DEF Shorter
<1>1. Len(p) \in Nat /\ Len(f) \in Nat /\ p # <<>>
  BY LenProperties
<1>2. q = SubSeq(p, 1, Len(p) - 1)
  <2>1. \A i \in 1 .. Len(p) - 1 : p[i] \in S
    BY <1>1, ElementOfSeq
  <2>2. /\ SubSeq(p, 1, Len(p) - 1) \in Seq(S)
        /\ Len(SubSeq(p, 1, Len(p) - 1)) = Len(p) - 1
        /\ \A i \in 1 .. Len(p) - 1 : SubSeq(p, 1, Len(p) - 1)[i] = p[i]
    <3> DEFINE n == Len(p) - 1
    <3>1. n \in Int /\ 1 \in Int /\ \A i \in 1 .. n : p[i] \in S
      BY <1>1, <2>1
    <3>2. n - 1 + 1 = n /\ (IF 1 <= n THEN n - 1 + 1 ELSE 0) = n
      BY <1>1
    <3> HIDE DEF n
    <3>3. /\ SubSeq(p, 1, n) \in Seq(S)
          /\ Len(SubSeq(p, 1, n)) = IF 1 <= n THEN n - 1 + 1 ELSE 0
          /\ \A i \in 1 .. n - 1 + 1 : SubSeq(p, 1, n)[i] = p[1 + i - 1]
      BY ONLY <3>1, SubSeqProperties
    <3>4. \A i \in 1 .. n : SubSeq(p, 1, n)[i] = p[i]
      BY ONLY <3>1, <3>2, <3>3
    <3> QED
      BY <3>2, <3>3, <3>4 DEF n
  <2> QED
    BY <2>2, SeqEqual
<1>3. g = <<s>> \o f
  <2>1. <<s>> \in Seq(S) /\ Len(<<s>>) = 1 /\ <<s>>[1] = s
    OBVIOUS
  <2>2. /\ <<s>> \o f \in Seq(S) /\ Len(<<s>> \o f) = 1 + Len(f)
        /\ \A i \in 1 .. 1 + Len(f) : (<<s>> \o f)[i] = IF i <= 1 THEN <<s>>[i] ELSE f[i - 1]
    BY <2>1, ConcatProperties
  <2>3. ASSUME NEW i \in 1 .. Len(g) PROVE g[i] = (<<s>> \o f)[i]
    <3>1. CASE i = 1
      BY <1>1, <2>1, <2>2, <3>1
    <3>2. CASE i # 1
      <4>1. i - 1 \in 1 .. Len(f) /\ (i - 1) + 1 = i /\ i \in 1 .. 1 + Len(f) /\ ~(i <= 1)
        BY <1>1, <3>2
      <4>2. (<<s>> \o f)[i] = f[i - 1]
        BY <2>2, <4>1
      <4>3. g[(i - 1) + 1] = f[i - 1]
        BY <4>1
      <4> QED
        BY <4>1, <4>2, <4>3
    <3> QED
      BY <3>1, <3>2
  <2>4. Len(g) = Len(<<s>> \o f)
    BY <1>1, <2>2
  <2> QED
    BY <2>2, <2>3, <2>4, SeqEqual
<1> QED
  BY <1>1, <1>2, <1>3 DEF Front

(* s is after p in q, and the first of f is gone from g.                   *)
Longer(S, p, f, q, g, s) ==
  /\ p \in Seq(S) /\ f \in Seq(S) /\ q \in Seq(S) /\ g \in Seq(S) /\ s \in S
  /\ Len(f) > 0 /\ Len(q) = Len(p) + 1 /\ Len(g) = Len(f) - 1
  /\ \A i \in 1 .. Len(p) : q[i] = p[i]
  /\ q[Len(p) + 1] = s /\ \A i \in 1 .. Len(g) : g[i] = f[i + 1]

(* In terms of UndoHistory: *)
LEMMA RedoneSequences ==
  ASSUME NEW S, NEW p, NEW f, NEW q, NEW g, NEW s, Longer(S, p, f, q, g, s)
  PROVE  f # <<>> /\ q = Append(p, s) /\ g = Tail(f)
<1> USE DEF Longer
<1>1. Len(p) \in Nat /\ Len(f) \in Nat /\ f # <<>>
  BY LenProperties
<1>2. q = Append(p, s)
  <2>1. /\ Append(p, s) \in Seq(S) /\ Len(Append(p, s)) = Len(p) + 1
        /\ \A i \in 1 .. Len(p) : Append(p, s)[i] = p[i]
        /\ Append(p, s)[Len(p) + 1] = s
    BY AppendProperties
  <2>2. \A i \in 1 .. Len(q) : q[i] = Append(p, s)[i]
    BY <1>1, <2>1
  <2> QED
    BY <2>1, <2>2, SeqEqual
<1>3. g = Tail(f)
  <2>1. /\ Tail(f) \in Seq(S) /\ Len(Tail(f)) = Len(f) - 1
        /\ \A i \in 1 .. Len(Tail(f)) : Tail(f)[i] = f[i + 1]
    BY <1>1, HeadTailProperties
  <2> QED
    BY <2>1, SeqEqual
<1> QED
  BY <1>1, <1>2, <1>3

(* The reports that there are, before a step and after it.                *)
Reports(ds) == {ds[i].before : i \in 1 .. Len(ds)} \cup {ds[i].after : i \in 1 .. Len(ds)}

AllReports == Reports(deltas) \cup Reports(deltas') \cup {Seen(wf)}

(* The places of the last delta, then and now.                             *)
Steady(k, l) ==
  /\ IsChain(deltas, now) /\ IsAt(k, deltas, last)
  /\ IsChain(deltas', now') /\ IsAt(l, deltas', last')

(* The history then and now, as the sequences they are.                    *)
LEMMA MappedSteps ==
  ASSUME NEW k, NEW l, Steady(k, l), NEW S, S = AllReports
  PROVE  /\ IsMapped(S, deltas, k, BeforeEach(Applied), AfterEach(Undone))
         /\ IsMapped(S, deltas', l, BeforeEach(Applied)', AfterEach(Undone)')
         /\ k \in 0 .. Len(deltas) /\ l \in 0 .. Len(deltas')
         /\ Len(deltas) \in Nat /\ Len(deltas') \in Nat
         /\ Seen(wf) \in S
<1>1. Holds(S, deltas) /\ Holds(S, deltas') /\ Seen(wf) \in S
  BY DEF AllReports, Reports, Holds
<1>2. IsMapped(S, deltas, k, BeforeEach(Applied), AfterEach(Undone))
  BY <1>1, Mapped DEF Steady
<1>3. IsMapped(S, deltas', l, BeforeEach(Applied)', AfterEach(Undone)')
  BY <1>1, MappedNext DEF Steady
<1>4. k \in 0 .. Len(deltas) /\ l \in 0 .. Len(deltas')
  BY DEF Steady, IsAt
<1>5. Len(deltas) \in Nat /\ Len(deltas') \in Nat
  BY LenProperties DEF Steady, IsChain
<1> QED
  BY <1>1, <1>2, <1>3, <1>4, <1>5

(* Undo shows what there was before the command. *)
LEMMA RefinesUndo ==
  ASSUME IsChain(deltas, now), IsChain(deltas', now'), GoesBack
  PROVE  History!Undo
<1> DEFINE p == BeforeEach(Applied)
           f == AfterEach(Undone)
           q == BeforeEach(Applied)'
           g == AfterEach(Undone)'
<1>1. PICK k \in 1 .. Len(deltas) :
        /\ IsAt(k, deltas, last) /\ IsAt(k - 1, deltas, last') /\ deltas' = deltas
        /\ Seen(wf) = deltas[k].after /\ Seen(wf') = deltas[k].before
  BY DEF GoesBack
<1>2. PICK l : l = k - 1
  OBVIOUS
<1>3. PICK S : S = AllReports
  OBVIOUS
<1>4. PICK ds : ds = deltas
  OBVIOUS
<1>5. PICK s : s = Seen(wf)
  OBVIOUS
<1>6. Steady(k, l)
  BY <1>1, <1>2 DEF Steady
<1>7. /\ IsMapped(S, ds, k, p, f) /\ IsMapped(S, ds, l, q, g)
      /\ Len(ds) \in Nat /\ k \in 1 .. Len(ds) /\ s \in S
  <2>1. /\ IsMapped(S, deltas, k, p, f) /\ IsMapped(S, deltas', l, q, g)
        /\ Len(deltas) \in Nat /\ Seen(wf) \in S
    BY <1>3, <1>6, MappedSteps
  <2> HIDE DEF p, f, q, g
  <2> QED
    BY <1>1, <1>4, <1>5, <2>1
<1> HIDE DEF p, f, q, g
<1>8. /\ p \in Seq(S) /\ Len(p) = k /\ \A i \in 1 .. k : p[i] = ds[i].before
      /\ f \in Seq(S) /\ Len(f) = Len(ds) - k
      /\ \A i \in 1 .. Len(ds) - k : f[i] = ds[k + i].after
  BY <1>7 DEF IsMapped
<1>9. /\ q \in Seq(S) /\ Len(q) = l /\ \A i \in 1 .. l : q[i] = ds[i].before
      /\ g \in Seq(S) /\ Len(g) = Len(ds) - l
      /\ \A i \in 1 .. Len(ds) - l : g[i] = ds[l + i].after
  BY <1>7 DEF IsMapped
<1>10. /\ k \in Nat /\ l \in Nat /\ k = l + 1 /\ k > 0 /\ k <= Len(ds)
  BY <1>2, <1>7
<1>11. \A i \in 1 .. Len(q) : q[i] = p[i]
  <2> SUFFICES ASSUME NEW i \in 1 .. l PROVE q[i] = p[i]
    BY <1>9
  <2>1. i \in 1 .. k
    BY <1>10
  <2> QED
    BY <1>8, <1>9, <2>1
<1>12. g[1] = s
  <2>1. 1 \in 1 .. Len(ds) - l /\ l + 1 = k
    BY <1>7, <1>10
  <2>2. g[1] = ds[k].after
    BY <1>9, <2>1
  <2> QED
    BY <1>1, <1>4, <1>5, <2>2
<1>13. ASSUME NEW i \in 1 .. Len(f) PROVE g[i + 1] = f[i]
  <2>1. i + 1 \in 1 .. Len(ds) - l /\ l + (i + 1) = k + i /\ i \in 1 .. Len(ds) - k
    BY <1>7, <1>8, <1>10
  <2>2. g[i + 1] = ds[k + i].after
    BY <1>9, <2>1
  <2>3. f[i] = ds[k + i].after
    BY <1>8, <2>1
  <2> QED
    BY <2>2, <2>3
<1>14. Len(p) > 0 /\ Len(q) = Len(p) - 1 /\ Len(g) = Len(f) + 1
  BY <1>7, <1>8, <1>9, <1>10
<1>15. p # <<>> /\ q = Front(p) /\ g = <<s>> \o f
  <2>1. \A i \in 1 .. Len(f) : g[i + 1] = f[i]
    BY <1>13
  <2>2. Shorter(S, p, f, q, g, s)
    BY ONLY <1>7, <1>8, <1>9, <1>11, <1>12, <1>14, <2>1 DEF Shorter
  <2> QED
    BY ONLY <2>2, UndoneSequences
<1>16. Seen(wf)' = Last(p)
  <2>1. Last(p) = ds[k].before
    BY <1>8, <1>10 DEF Last
  <2>2. Seen(wf)' = Seen(wf')
    BY DEF Seen
  <2> QED
    BY <1>1, <1>4, <2>1, <2>2
<1> QED
  BY <1>5, <1>15, <1>16 DEF History!Undo, History!Front, History!Last, Front, Last, p, f, q, g,
       BeforeEach, AfterEach

(* Redo shows what there was after it. *)
LEMMA RefinesRedo ==
  ASSUME IsChain(deltas, now), IsChain(deltas', now'), GoesOn
  PROVE  History!Redo
<1> DEFINE p == BeforeEach(Applied)
           f == AfterEach(Undone)
           q == BeforeEach(Applied)'
           g == AfterEach(Undone)'
<1>1. PICK n \in 1 .. Len(deltas) :
        /\ IsAt(n - 1, deltas, last) /\ IsAt(n, deltas, last') /\ deltas' = deltas
        /\ Seen(wf) = deltas[n].before /\ Seen(wf') = deltas[n].after
  BY DEF GoesOn
<1>2. PICK k : k = n - 1
  OBVIOUS
<1>3. PICK S : S = AllReports
  OBVIOUS
<1>4. PICK ds : ds = deltas
  OBVIOUS
<1>5. PICK s : s = Seen(wf)
  OBVIOUS
<1>6. Steady(k, n)
  BY <1>1, <1>2 DEF Steady
<1>7. /\ IsMapped(S, ds, k, p, f) /\ IsMapped(S, ds, n, q, g)
      /\ Len(ds) \in Nat /\ n \in 1 .. Len(ds) /\ s \in S
  <2>1. /\ IsMapped(S, deltas, k, p, f) /\ IsMapped(S, deltas', n, q, g)
        /\ Len(deltas) \in Nat /\ Seen(wf) \in S
    BY <1>3, <1>6, MappedSteps
  <2> HIDE DEF p, f, q, g
  <2> QED
    BY <1>1, <1>4, <1>5, <2>1
<1> HIDE DEF p, f, q, g
<1>8. /\ p \in Seq(S) /\ Len(p) = k /\ \A i \in 1 .. k : p[i] = ds[i].before
      /\ f \in Seq(S) /\ Len(f) = Len(ds) - k
      /\ \A i \in 1 .. Len(ds) - k : f[i] = ds[k + i].after
  BY <1>7 DEF IsMapped
<1>9. /\ q \in Seq(S) /\ Len(q) = n /\ \A i \in 1 .. n : q[i] = ds[i].before
      /\ g \in Seq(S) /\ Len(g) = Len(ds) - n
      /\ \A i \in 1 .. Len(ds) - n : g[i] = ds[n + i].after
  BY <1>7 DEF IsMapped
<1>10. /\ k \in Nat /\ n \in Nat /\ n = k + 1 /\ n <= Len(ds)
  BY <1>2, <1>7
<1>11. \A i \in 1 .. Len(p) : q[i] = p[i]
  <2> SUFFICES ASSUME NEW i \in 1 .. k PROVE q[i] = p[i]
    BY <1>8
  <2>1. i \in 1 .. n
    BY <1>10
  <2> QED
    BY <1>8, <1>9, <2>1
<1>12. q[Len(p) + 1] = s
  <2>1. n \in 1 .. n /\ Len(p) + 1 = n
    BY <1>8, <1>10
  <2> QED
    BY <1>1, <1>4, <1>5, <1>9, <2>1
<1>13. ASSUME NEW i \in 1 .. Len(g) PROVE g[i] = f[i + 1]
  <2>1. i \in 1 .. Len(ds) - n /\ n + i = k + (i + 1) /\ i + 1 \in 1 .. Len(ds) - k
    BY <1>7, <1>9, <1>10
  <2>2. g[i] = ds[n + i].after
    BY <1>9, <2>1
  <2>3. f[i + 1] = ds[k + (i + 1)].after
    BY <1>8, <2>1
  <2> QED
    BY <2>1, <2>2, <2>3
<1>14. Len(f) > 0 /\ Len(q) = Len(p) + 1 /\ Len(g) = Len(f) - 1
  BY <1>7, <1>8, <1>9, <1>10
<1>15. f # <<>> /\ q = Append(p, s) /\ g = Tail(f)
  <2>1. \A i \in 1 .. Len(g) : g[i] = f[i + 1]
    BY <1>13
  <2>2. Longer(S, p, f, q, g, s)
    BY ONLY <1>7, <1>8, <1>9, <1>11, <1>12, <1>14, <2>1 DEF Longer
  <2> QED
    BY ONLY <2>2, RedoneSequences
<1>16. Seen(wf)' = Head(f)
  <2>1. 1 \in 1 .. Len(ds) - k
    BY <1>7, <1>10
  <2>2. f[1] = ds[n].after
    BY <1>8, <1>10, <2>1
  <2>3. Head(f) = f[1]
    BY <1>8, <1>15, HeadTailProperties
  <2>4. Seen(wf)' = Seen(wf')
    BY DEF Seen
  <2> QED
    BY <1>1, <1>4, <2>2, <2>3, <2>4
<1> QED
  BY <1>5, <1>15, <1>16 DEF History!Redo, p, f, q, g, BeforeEach, AfterEach

(* A report as readers see it. *)
LEMMA ReportSeen == ASSUME NEW w, Sound(w) PROVE IsReport(Seen(w))
<1>1. Seen(w).custom = w.custom
  BY DEF Seen
<1>2. CASE w.custom
  BY <1>1, <1>2 DEF IsReport
<1>3. CASE ~w.custom
  <2>1. IsRows(w.blocks) /\ IsPlaced(w.blocks) /\ DOMAIN w.blocks = {}
    BY <1>3 DEF Sound
  <2>2. PICK l : l = ByPosition(w.blocks)
    OBVIOUS
  <2>3. Range(l) = {}
    BY <2>1, <2>2, ByPositionFacts DEF Lists
  <2>4. DOMAIN l = {}
    BY <2>3 DEF Range
  <2>5. Seen(w).list = [i \in DOMAIN l |-> <<l[i], w.blocks[l[i]].type, w.blocks[l[i]].of>>]
    BY <2>2 DEF Seen
  <2>6. Seen(w).list = <<>>
    BY <2>4, <2>5
  <2> QED
    BY <2>6 DEF IsReport
<1> QED
  BY <1>2, <1>3

(* A new command forgets what could be redone. *)
LEMMA RefinesDo ==
  ASSUME IsChain(deltas, now), IsChain(deltas', now'), Sound(wf'), GoesFurther
  PROVE  History!Do
<1> DEFINE p == BeforeEach(Applied)
           f == AfterEach(Undone)
           q == BeforeEach(Applied)'
           g == AfterEach(Undone)'
<1>1. PICK k \in 0 .. Len(deltas) :
        /\ IsAt(k, deltas, last) /\ IsAt(k + 1, deltas', last') /\ Len(deltas') = k + 1
        /\ \A i \in 1 .. k : deltas'[i] = deltas[i]
        /\ deltas'[k + 1].before = Seen(wf)
  BY DEF GoesFurther
<1>2. PICK l : l = k + 1
  OBVIOUS
<1>3. PICK S : S = AllReports
  OBVIOUS
<1>4. PICK ds : ds = deltas
  OBVIOUS
<1>5. PICK es : es = deltas'
  OBVIOUS
<1>6. PICK s : s = Seen(wf)
  OBVIOUS
<1>7. Steady(k, l)
  BY <1>1, <1>2 DEF Steady
<1>8. /\ IsMapped(S, ds, k, p, f) /\ IsMapped(S, es, l, q, g)
      /\ Len(ds) \in Nat /\ k \in 0 .. Len(ds) /\ s \in S
  <2>1. /\ IsMapped(S, deltas, k, p, f) /\ IsMapped(S, deltas', l, q, g)
        /\ Len(deltas) \in Nat /\ Seen(wf) \in S
    BY <1>3, <1>7, MappedSteps
  <2> HIDE DEF p, f, q, g
  <2> QED
    BY <1>1, <1>4, <1>5, <1>6, <2>1
<1> HIDE DEF p, f, q, g
<1>9. p \in Seq(S) /\ Len(p) = k /\ \A i \in 1 .. k : p[i] = ds[i].before
  BY <1>8 DEF IsMapped
<1>10. /\ q \in Seq(S) /\ Len(q) = l /\ \A i \in 1 .. l : q[i] = es[i].before
       /\ g \in Seq(S) /\ Len(g) = Len(es) - l
  BY <1>8 DEF IsMapped
<1>11. k \in Nat /\ l = k + 1 /\ Len(es) = l
  BY <1>1, <1>2, <1>5, <1>8
<1>12. ASSUME NEW i \in 1 .. k PROVE q[i] = p[i]
  <2>1. i \in 1 .. l
    BY <1>11
  <2>2. es[i] = ds[i]
    BY <1>1, <1>4, <1>5
  <2> QED
    BY <1>9, <1>10, <2>1, <2>2
<1>13. q[k + 1] = s
  BY <1>1, <1>5, <1>6, <1>10, <1>11
<1>14. q = Append(p, s)
  <2>1. /\ Append(p, s) \in Seq(S) /\ Len(Append(p, s)) = Len(p) + 1
        /\ \A i \in 1 .. Len(p) : Append(p, s)[i] = p[i]
        /\ Append(p, s)[Len(p) + 1] = s
    BY <1>8, <1>9, AppendProperties
  <2>2. \A i \in 1 .. Len(q) : q[i] = Append(p, s)[i]
    BY <1>9, <1>10, <1>11, <1>12, <1>13, <2>1
  <2>3. Len(q) = Len(Append(p, s))
    BY <1>9, <1>10, <1>11, <2>1
  <2> QED
    BY <1>10, <2>1, <2>2, <2>3, SeqEqual
<1>15. g = <<>>
  <2>1. Len(g) = 0
    BY <1>10, <1>11
  <2> QED
    BY <1>10, <2>1, EmptySeq
<1>16. IsReport(Seen(wf)')
  <2>1. PICK w : w = wf'
    OBVIOUS
  <2>2. IsReport(Seen(w))
    BY <2>1, ReportSeen
  <2>3. Seen(wf)' = Seen(w)
    BY <2>1 DEF Seen
  <2> QED
    BY <2>2, <2>3
<1> QED
  BY <1>6, <1>14, <1>15, <1>16 DEF History!Do, p, f, q, g, BeforeEach, AfterEach

(* The first states are ones in which UndoHistory starts. *)
LEMMA RefinesInit == ASSUME Init PROVE History!Init
<1>1. Sound(wf) /\ Inv
  BY InvInit DEF Inv
<1>2. IsReport(Seen(wf))
  BY <1>1, ReportSeen
<1>3. deltas = <<>> /\ last = 0 /\ closed = FALSE
  BY DEF Init
<1>4. Len(deltas) = 0 /\ IsAt(0, deltas, last) /\ IsChain(deltas, now)
  <2>1. Len(deltas) = 0
    BY <1>3, EmptySeq
  <2> QED
    BY <1>1, <1>3, <2>1 DEF IsAt, Inv
<1>5. IsMapped({}, deltas, 0, BeforeEach(Applied), AfterEach(Undone))
  <2>1. Holds({}, deltas)
    BY <1>4 DEF Holds
  <2> QED
    BY <1>4, <2>1, Mapped
<1>6. BeforeEach(Applied) = <<>> /\ AfterEach(Undone) = <<>>
  <2>1. Len(BeforeEach(Applied)) = 0 /\ Len(AfterEach(Undone)) = 0
    BY <1>4, <1>5 DEF IsMapped
  <2> QED
    BY <1>5, <2>1, EmptySeq DEF IsMapped
<1> QED
  BY <1>2, <1>3, <1>6 DEF History!Init, BeforeEach, AfterEach

(* Every step is one of UndoHistory's. *)
LEMMA RefinesNext == ASSUME Inv, [Next]_vars PROVE [History!Next]_(History!vars)
<1>1. Inv' /\ Outcome
  BY NextOutcome
<1>2. IsChain(deltas, now) /\ IsChain(deltas', now') /\ Sound(wf')
  BY <1>1 DEF Inv
<1>3. CASE closed'
  BY <1>3 DEF History!Next
<1>4. CASE closed' = closed /\ GoesBack
  <2>1. History!Undo
    BY <1>2, <1>4, RefinesUndo
  <2> QED
    BY <1>4, <2>1 DEF History!Next
<1>5. CASE closed' = closed /\ GoesOn
  <2>1. History!Redo
    BY <1>2, <1>5, RefinesRedo
  <2> QED
    BY <1>5, <2>1 DEF History!Next
<1>6. CASE closed' = closed /\ GoesFurther
  <2>1. History!Do
    BY <1>2, <1>6, RefinesDo
  <2> QED
    BY <1>6, <2>1 DEF History!Next
<1>7. CASE UNCHANGED vars
  <2>1. wf' = wf /\ deltas' = deltas /\ last' = last /\ closed' = closed
    BY <1>7 DEF vars
  <2>2. BeforeEach(Applied)' = BeforeEach(Applied) /\ AfterEach(Undone)' = AfterEach(Undone)
    BY <2>1 DEF BeforeEach, AfterEach, Applied, Undone, NApplied
  <2>3. Seen(wf)' = Seen(wf)
    BY <2>1 DEF Seen
  <2> QED
    BY <2>1, <2>2, <2>3 DEF History!vars, BeforeEach, AfterEach
<1> QED
  BY <1>1, <1>3, <1>4, <1>5, <1>6, <1>7 DEF Outcome

(* Undo and redo keep what UndoHistory promises of the report as readers   *)
(* see it (backward() and forward() of all eight commands, and dbutil.py): *)
(* undo shows each block where it was before the command, the auto-report  *)
(* included, and redo where it was after it -- until ReorderBlocks closes  *)
(* a gap that an AddBlock past the end has left.                           *)
THEOREM ReportHistoryIsKept == Spec => ImplementsUndoHistory
<1>1. Init => History!Init
  BY RefinesInit
<1>2. Inv /\ [Next]_vars => [History!Next]_(History!vars)
  BY RefinesNext
<1> QED
  BY <1>1, <1>2, Invariance, PTL DEF Spec, ImplementsUndoHistory, History!Spec

-----------------------------------------------------------------------------
(* What a page is told.                                                    *)

(* Blocks are listed by their positions. *)
LEMMA SamePlaces ==
  ASSUME NEW f, IsRows(f), IsPlaced(f), NEW g, IsRows(g), IsPlaced(g),
         DOMAIN f = DOMAIN g, \A b \in DOMAIN g : Pos(f, b) = Pos(g, b)
  PROVE  ByPosition(f) = ByPosition(g)
<1> DEFINE D == DOMAIN g
           n == Cardinality(D)
           F == ByPosition(f)
           G == ByPosition(g)
<1>1. \A b \in D : Rank(f, b) = Rank(g, b)
  <2> TAKE b \in D
  <2>1. Before(f, b) = Before(g, b)
    BY DEF Before
  <2> QED
    BY <2>1 DEF Rank
<1>2. /\ IsOrder(F, D) /\ Len(F) = n /\ n \in Nat
      /\ \A i \in 1 .. n : F[i] \in D /\ Rank(f, F[i]) = i - 1
  BY ByPositionFacts DEF Lists
<1>3. /\ IsOrder(G, D) /\ Len(G) = n
      /\ \A i \in 1 .. n : G[i] \in D /\ Rank(g, G[i]) = i - 1
  BY ByPositionFacts DEF Lists
<1> HIDE DEF F, G, n
<1>4. ASSUME NEW i \in 1 .. n
      PROVE  F[i] = G[i]
  <2>1. F[i] \in D /\ G[i] \in D /\ Rank(g, F[i]) = Rank(g, G[i])
    BY <1>1, <1>2, <1>3, <1>4
  <2>2. /\ Rank(g, F[i]) \in Int
        /\ Pos(g, F[i]) < Pos(g, G[i]) => Rank(g, F[i]) < Rank(g, G[i])
        /\ Pos(g, G[i]) < Pos(g, F[i]) => Rank(g, G[i]) < Rank(g, F[i])
    BY <2>1, RankFacts
  <2>3. Pos(g, F[i]) \in Nat /\ Pos(g, G[i]) \in Nat
    BY <2>1 DEF IsPlaced
  <2>4. Pos(g, F[i]) = Pos(g, G[i])
    BY <2>1, <2>2, <2>3
  <2> QED
    BY <2>1, <2>4 DEF IsPlaced
<1>5. F \in [1 .. n -> D] /\ G \in [1 .. n -> D]
  BY <1>2, <1>3, LenProperties DEF IsOrder
<1>6. F = G
  <2>1. F = [i \in 1 .. n |-> F[i]] /\ G = [i \in 1 .. n |-> G[i]]
    BY <1>5
  <2>2. [i \in 1 .. n |-> F[i]] = [i \in 1 .. n |-> G[i]]
    BY <1>4
  <2> QED
    BY <2>1, <2>2
<1> QED
  BY <1>6 DEF F, G

(* The ids of steps are those of the steps. *)
LEMMA AscendingFacts ==
  ASSUME NEW S, IsFiniteSet(S), S \subseteq Nat
  PROVE  Range(Ascending(S)) \subseteq S
<1> DEFINE P == [s \in S |-> s]
           g == RowsOf(S, P, P, P)
           n == Cardinality(S)
<1>1. /\ IsRows(g) /\ DOMAIN g = S
      /\ \A s \in S : Pos(g, s) = P[s] /\ Type(g, s) = P[s] /\ About(g, s) = P[s]
  BY RowsMade
<1> HIDE DEF g
<1>2. \A s \in S : Pos(g, s) = s
  BY <1>1
<1>3. IsPlaced(g)
  BY <1>1, <1>2 DEF IsPlaced
<1>4. ASSUME NEW i \in 1 .. n
      PROVE  Ascending(S)[i] \in S
  <2>1. n \in Nat
    BY FS_CardinalityType
  <2>2. i - 1 \in 0 .. n - 1
    BY <2>1
  <2>3. PICK s \in S : Rank(g, s) = i - 1
    BY <1>1, <1>3, <2>2, RankFound
  <2>4. Cardinality({r \in S : r < s}) = i - 1
    <3>1. Before(g, s) = {r \in S : r < s}
      BY <1>1, <1>2 DEF Before
    <3> QED
      BY <2>3, <3>1 DEF Rank
  <2>5. Ascending(S)[i] = CHOOSE r \in S : Cardinality({q \in S : q < r}) = i - 1
    BY DEF Ascending
  <2> QED
    BY <2>4, <2>5
<1>5. DOMAIN Ascending(S) = 1 .. n
  BY DEF Ascending
<1> QED
  BY <1>4, <1>5 DEF Range

(* No rows go, *)
LEMMA NoneDeleted ==
  ASSUME NEW rows, IsRows(rows), IsPlaced(rows),
         NEW g, DeletedTogether(rows, {}) = Table(g)
  PROVE  DOMAIN g = DOMAIN rows /\ \A b \in DOMAIN rows : Pos(g, b) = Pos(rows, b)
<1> DEFINE old == Restrict(rows, {})
           L == ByPosition(old)
<1>1. PICK B : B = {}
  OBVIOUS
<1>2. B \subseteq DOMAIN rows /\ old = Restrict(rows, B)
  BY <1>1
<1>3. IsRows(old) /\ IsPlaced(old) /\ DOMAIN old = {}
  <2> HIDE DEF old
  <2>1. IsRows(old) /\ IsPlaced(old) /\ DOMAIN old = B
    BY <1>2, SomeRows
  <2> QED
    BY <1>1, <2>1
<1>4. PICK H : DeletedTogether(rows, B) = Table(H[0]) /\ Leaves(H, rows, B, L)
  BY <1>2, BlocksDeleted
<1>5. Len(L) = 0
  BY <1>3, ByPositionFacts, FS_EmptySet
<1> HIDE DEF L, old
<1>6. H[0] = Without(rows, B)
  BY <1>4, <1>5 DEF Leaves
<1>7. g = H[0]
  <2>1. Table(g).rows = g /\ Table(H[0]).rows = H[0]
    BY DEF Table
  <2> QED
    BY <1>1, <1>4, <2>1
<1>8. DOMAIN g = DOMAIN rows \ B /\ Agree(g, rows, DOMAIN rows \ B)
  BY <1>2, <1>6, <1>7, OtherRows
<1> QED
  BY <1>1, <1>8 DEF Agree

(* and none come. *)
LEMMA NoneRecreated ==
  ASSUME NEW rows, IsRows(rows), IsPlaced(rows)
  PROVE  Recreated(rows, <<>>) = Table(rows)
<1>1. PICK old : old = <<>>
  OBVIOUS
<1>2. IsRows(old) /\ IsPlaced(old) /\ DOMAIN old = {}
  BY <1>1, NoRows
<1>3. DOMAIN rows \cap DOMAIN old = {}
  BY <1>2
<1>4. PICK R : /\ Recreated(rows, old) = Table(R[Len(ByPosition(old))])
               /\ Grows(R, rows, old, ByPosition(old))
  BY <1>2, <1>3, BlocksCreated
<1>5. Len(ByPosition(old)) = 0
  BY <1>2, ByPositionFacts, FS_EmptySet
<1>6. R[0] = rows
  BY <1>4 DEF Grows
<1> QED
  BY <1>1, <1>4, <1>5, <1>6

(* Rows that are all where they were. *)
InPlace(f, g) == DOMAIN f = DOMAIN g /\ \A b \in DOMAIN g : Pos(f, b) = Pos(g, b)

(* Another text leaves a block where it is. *)
LEMMA TextInPlace ==
  ASSUME NEW x, Sound(x), NEW y, NEW b \in DOMAIN x.blocks, NEW m,
         Fine([x EXCEPT !.blocks[b].of = m]) = Fine(y)
  PROVE  InPlace(x.blocks, y.blocks)
<1> DEFINE g == [x.blocks EXCEPT ![b] = [x.blocks[b] EXCEPT !.of = m]]
<1>1. [x EXCEPT !.blocks[b].of = m] = State(x.custom, g, x.steps, x.order)
  <2>1. [x EXCEPT !.blocks[b].of = m] = [x EXCEPT !.blocks = g]
    OBVIOUS
  <2> HIDE DEF g
  <2> QED
    BY <2>1, ResultsAre
<1>2. y.blocks = g
  <2> HIDE DEF g
  <2>1. Fine(State(x.custom, g, x.steps, x.order)) = Fine(y)
    BY <1>1
  <2> QED
    BY <2>1 DEF Fine, State
<1>3. \A c \in DOMAIN x.blocks :
        x.blocks[c] = [position |-> Pos(x.blocks, c), type |-> Type(x.blocks, c),
                       of |-> About(x.blocks, c)]
  BY DEF Sound, IsRows
<1>4. [x.blocks[b] EXCEPT !.of = m].position = x.blocks[b].position
  <2>1. x.blocks[b] = [position |-> Pos(x.blocks, b), type |-> Type(x.blocks, b),
                       of |-> About(x.blocks, b)]
    BY <1>3
  <2> QED
    BY <2>1
<1>5. DOMAIN g = DOMAIN x.blocks
  OBVIOUS
<1>6. \A c \in DOMAIN x.blocks : g[c] = IF c = b THEN [x.blocks[b] EXCEPT !.of = m] ELSE x.blocks[c]
  OBVIOUS
<1> HIDE DEF g
<1> QED
  BY <1>2, <1>4, <1>5, <1>6 DEF InPlace, Pos

(* Commands whose update does not list the blocks leave them in place. *)
Unlisted(e) ==
  \/ e.command \in {"AddStep", "SetBlockMarkdown", "ReorderTabs"}
  \/ e.command \in {"DeleteStep", "DeleteTab"} /\ e.back = <<>>

LEMMA UnlistedInPlace ==
  ASSUME NEW x, Sound(x), NEW y, NEW e, Unlisted(e), Touches(e, x, y),
         Forward(x, e) = Fine(y) \/ Backward(x, e) = Fine(y)
  PROVE  InPlace(x.blocks, y.blocks)
<1>1. IsRows(x.blocks) /\ IsPlaced(x.blocks)
  BY DEF Sound
<1>2. e.command \notin {"AddBlock", "DeleteBlock", "ReorderBlocks"}
  BY DEF Unlisted
<1>3. ASSUME NEW S, NEW O, NEW t,
             \/ Fine([x EXCEPT !.steps = S]) = Fine(y)
             \/ Fine([x EXCEPT !.order = O]) = Fine(y)
      PROVE  y.blocks = x.blocks
  <2>1. /\ [x EXCEPT !.steps = S] = State(x.custom, x.blocks, S, x.order)
        /\ [x EXCEPT !.order = O] = State(x.custom, x.blocks, x.steps, O)
    BY ONLY Sound(x), ResultsAre
  <2>2. y = State(x.custom, x.blocks, S, x.order) \/ y = State(x.custom, x.blocks, x.steps, O)
    BY <1>3, <2>1 DEF Fine
  <2> QED
    BY <2>2 DEF State
<1>4. y.blocks = x.blocks => InPlace(x.blocks, y.blocks)
  BY DEF InPlace
<1>5. CASE e.command = "AddStep"
  <2>1. PICK S, T : S = x.steps \cup {e.of} /\ T = x.steps \ {e.of}
    OBVIOUS
  <2>2. Forward(x, e) = Fine([x EXCEPT !.steps = S])
    BY <1>5, <2>1 DEF Forward
  <2>3. Backward(x, e) = Fine([x EXCEPT !.steps = T])
    BY <1>5, <2>1 DEF Backward
  <2> QED
    BY <1>3, <1>4, <2>2, <2>3
<1>6. CASE e.command = "ReorderTabs"
  <2>1. Forward(x, e) = Fine([x EXCEPT !.order = e.forth])
    BY <1>6 DEF Forward
  <2>2. Backward(x, e) = Fine([x EXCEPT !.order = e.back])
    BY <1>6 DEF Backward
  <2> QED
    BY <1>3, <1>4, <2>1, <2>2
<1>7. CASE e.command = "SetBlockMarkdown"
  <2>1. e.slug \in DOMAIN x.blocks
    BY <1>7 DEF Touches, TouchesText
  <2>2. Forward(x, e) = Fine([x EXCEPT !.blocks[e.slug].of = e.forth])
    BY <1>7 DEF Forward
  <2>3. Backward(x, e) = Fine([x EXCEPT !.blocks[e.slug].of = e.back])
    BY <1>7 DEF Backward
  <2>4. PICK b : b = e.slug
    OBVIOUS
  <2>5. PICK m, n : m = e.forth /\ n = e.back
    OBVIOUS
  <2>6. Fine([x EXCEPT !.blocks[b].of = m]) = Fine(y) \/ Fine([x EXCEPT !.blocks[b].of = n]) = Fine(y)
    BY <2>2, <2>3, <2>4, <2>5
  <2> QED
    BY <2>1, <2>4, <2>6, TextInPlace
<1>8. CASE e.command \in {"DeleteStep", "DeleteTab"}
  <2>1. e.back = <<>> /\ TouchesRows(e, x, y)
    BY <1>8 DEF Unlisted, Touches
  <2>2. DOMAIN y.blocks = DOMAIN x.blocks
    BY <2>1, NoRows DEF TouchesRows, Alone
  <2>3. ASSUME NEW B, B \subseteq DOMAIN x.blocks, NEW c, NEW S, NEW O,
               Becomes(c, DeletedTogether(x.blocks, B), S, O) = Fine(y)
        PROVE  InPlace(x.blocks, y.blocks)
    <3>1. PICK g : DeletedTogether(x.blocks, B) = Table(g) /\ Gone(g, x.blocks, B)
      BY <1>1, <2>3, TogetherThereAndBack
    <3>2. y.blocks = g
      <4>1. Becomes(c, Table(g), S, O) = Fine(State(c, g, S, O))
        BY DEF Becomes, Table, Fine
      <4>2. y = State(c, g, S, O)
        BY <2>3, <3>1, <4>1 DEF Fine
      <4> QED
        BY <4>2 DEF State
    <3>3. DOMAIN g = DOMAIN x.blocks \ B
      BY <1>1, <2>3, <3>1, OtherRows DEF Gone, Alike
    <3>4. B = {}
      BY <2>2, <2>3, <3>2, <3>3
    <3> QED
      BY <1>1, <3>1, <3>2, <3>4, NoneDeleted DEF InPlace
  <2>4. ASSUME NEW c, NEW S, NEW O, Becomes(c, Recreated(x.blocks, <<>>), S, O) = Fine(y)
        PROVE  InPlace(x.blocks, y.blocks)
    <3>1. PICK r : r = x.blocks
      OBVIOUS
    <3>2. Becomes(c, Recreated(x.blocks, <<>>), S, O) = Becomes(c, Table(r), S, O)
      BY <1>1, <3>1, NoneRecreated
    <3>3. Becomes(c, Table(r), S, O) = Fine(State(c, r, S, O))
      BY DEF Becomes, Table, Fine
    <3>4. y = State(c, r, S, O)
      BY <2>4, <3>2, <3>3 DEF Fine
    <3>5. y.blocks = x.blocks
      BY <3>1, <3>4 DEF State
    <3> QED
      BY <1>4, <3>5
  <2>5. CASE e.command = "DeleteStep"
    <3>1. PICK S, T, B : S = x.steps \ {e.of} /\ T = x.steps \cup {e.of} /\ B = RowsOfStep(x, e.of)
      OBVIOUS
    <3>2. B \subseteq DOMAIN x.blocks
      BY <3>1 DEF RowsOfStep
    <3>3. Forward(x, e) = Becomes(x.custom, DeletedTogether(x.blocks, B), S, x.order)
      <4>1. Forward(x, e) = Back([x EXCEPT !.steps = S], DeletedTogether(x.blocks, B))
        BY <2>5, <3>1 DEF Forward
      <4>2. Back([x EXCEPT !.steps = S], DeletedTogether(x.blocks, B))
            = Becomes(x.custom, DeletedTogether(x.blocks, B), S, x.order)
        BY ONLY Sound(x), BackBecomes
      <4> QED
        BY <4>1, <4>2
    <3>4. Backward(x, e) = Becomes(x.custom, Recreated(x.blocks, <<>>), T, x.order)
      <4>1. Backward(x, e) = Back([x EXCEPT !.steps = T], Recreated(x.blocks, <<>>))
        BY <2>1, <2>5, <3>1 DEF Backward
      <4>2. Back([x EXCEPT !.steps = T], Recreated(x.blocks, <<>>))
            = Becomes(x.custom, Recreated(x.blocks, <<>>), T, x.order)
        BY ONLY Sound(x), BackBecomes
      <4> QED
        BY <4>1, <4>2
    <3>5. \/ Becomes(x.custom, DeletedTogether(x.blocks, B), S, x.order) = Fine(y)
          \/ Becomes(x.custom, Recreated(x.blocks, <<>>), T, x.order) = Fine(y)
      BY <3>3, <3>4
    <3> QED
      BY <2>3, <2>4, <3>2, <3>5
  <2>6. CASE e.command = "DeleteTab"
    <3>1. PICK N, O, B : /\ N = RemoveAt(x.order, PlaceOf(x.order, e.of))
                         /\ O = InsertAt(x.order, e.at, e.of) /\ B = RowsOfTab(x, e.of)
      OBVIOUS
    <3>2. B \subseteq DOMAIN x.blocks
      BY <3>1 DEF RowsOfTab
    <3>3. Forward(x, e) = Becomes(x.custom, DeletedTogether(x.blocks, B), x.steps, N)
      <4>1. Forward(x, e) = Back([x EXCEPT !.order = N], DeletedTogether(x.blocks, B))
        BY <2>6, <3>1 DEF Forward
      <4>2. Back([x EXCEPT !.order = N], DeletedTogether(x.blocks, B))
            = Becomes(x.custom, DeletedTogether(x.blocks, B), x.steps, N)
        BY ONLY Sound(x), BackBecomes, ZenonT(60)
      <4> QED
        BY <4>1, <4>2
    <3>4. Backward(x, e) = Becomes(x.custom, Recreated(x.blocks, <<>>), x.steps, O)
      <4>1. Backward(x, e) = Back([x EXCEPT !.order = O], Recreated(x.blocks, <<>>))
        BY <2>1, <2>6, <3>1 DEF Backward
      <4>2. Back([x EXCEPT !.order = O], Recreated(x.blocks, <<>>))
            = Becomes(x.custom, Recreated(x.blocks, <<>>), x.steps, O)
        BY ONLY Sound(x), BackBecomes, ZenonT(60)
      <4> QED
        BY <4>1, <4>2
    <3>5. \/ Becomes(x.custom, DeletedTogether(x.blocks, B), x.steps, N) = Fine(y)
          \/ Becomes(x.custom, Recreated(x.blocks, <<>>), x.steps, O) = Fine(y)
      BY <3>3, <3>4
    <3> QED
      BY <2>3, <2>4, <3>2, <3>5
  <2> QED
    BY <1>8, <2>5, <2>6
<1> QED
  BY <1>5, <1>6, <1>7, <1>8 DEF Unlisted

(* What a page knows of a workflow: the tabs, and the steps of tabs T, ... *)
KnowsTabs(c, w, T) ==
  /\ "order" \in DOMAIN c.workflow /\ c.workflow["order"] = w.order
  /\ \A t \in Range(w.order) : t \in DOMAIN c.tabs /\ c.tabs[t] = StepIds(w, t)
  /\ \A s \in w.steps : TabOf[s] \in T => s \in c.steps

(* ... and the report. *)
KnowsReport(c, w) ==
  /\ "custom" \in DOMAIN c.workflow /\ c.workflow["custom"] = w.custom
  /\ w.custom =>
       /\ "list" \in DOMAIN c.workflow /\ c.workflow["list"] = Slugs(w)
       /\ \A b \in DOMAIN w.blocks : b \in DOMAIN c.blocks /\ c.blocks[b] = Content(w.blocks[b])

(* An update that says what a page which knows x must learn to know y. *)
TellsTabs(u, x, y) ==
  /\ IF "order" \in DOMAIN u.workflow THEN u.workflow["order"] = y.order ELSE x.order = y.order
  /\ \A t \in Range(y.order) :
       /\ t \notin u.clear_tabs
       /\ IF t \in DOMAIN u.tabs THEN u.tabs[t] = StepIds(y, t)
          ELSE t \in Range(x.order) /\ StepIds(x, t) = StepIds(y, t)
  /\ \A s \in y.steps : s \notin u.clear_steps /\ (s \in u.steps \/ s \in x.steps)

TellsReport(u, x, y) ==
  /\ IF "custom" \in DOMAIN u.workflow THEN u.workflow["custom"] = y.custom
     ELSE x.custom = y.custom
  /\ y.custom =>
       /\ IF "list" \in DOMAIN u.workflow THEN u.workflow["list"] = Slugs(y)
          ELSE x.custom /\ Slugs(x) = Slugs(y)
       /\ \A b \in DOMAIN y.blocks :
            /\ b \notin u.clear_blocks
            /\ IF b \in DOMAIN u.blocks THEN u.blocks[b] = Content(y.blocks[b])
               ELSE /\ x.custom /\ b \in DOMAIN x.blocks
                    /\ Content(x.blocks[b]) = Content(y.blocks[b])

LEMMA Applying ==
  ASSUME NEW c, NEW u
  PROVE  LET d == Apply(c, u) IN
         /\ DOMAIN d.workflow = DOMAIN u.workflow \cup DOMAIN c.workflow
         /\ \A k \in DOMAIN u.workflow : d.workflow[k] = u.workflow[k]
         /\ \A k \in DOMAIN c.workflow : k \notin DOMAIN u.workflow => d.workflow[k] = c.workflow[k]
         /\ d.steps = (c.steps \cup u.steps) \ u.clear_steps
         /\ DOMAIN d.tabs = (DOMAIN u.tabs \cup DOMAIN c.tabs) \ u.clear_tabs
         /\ \A t \in DOMAIN d.tabs : d.tabs[t] = IF t \in DOMAIN u.tabs THEN u.tabs[t] ELSE c.tabs[t]
         /\ DOMAIN d.blocks = (DOMAIN u.blocks \cup DOMAIN c.blocks) \ u.clear_blocks
         /\ \A b \in DOMAIN d.blocks :
              d.blocks[b] = IF b \in DOMAIN u.blocks THEN u.blocks[b] ELSE c.blocks[b]
<1> DEFINE d == Apply(c, u)
<1>1. /\ d.workflow = Over(u.workflow, c.workflow)
      /\ d.steps = (c.steps \cup u.steps) \ u.clear_steps
      /\ d.tabs = Without(Over(u.tabs, c.tabs), u.clear_tabs)
      /\ d.blocks = Without(Over(u.blocks, c.blocks), u.clear_blocks)
  BY DEF Apply
<1> HIDE DEF d
<1>2. /\ DOMAIN d.workflow = DOMAIN u.workflow \cup DOMAIN c.workflow
      /\ \A k \in DOMAIN u.workflow : d.workflow[k] = u.workflow[k]
      /\ \A k \in DOMAIN c.workflow : k \notin DOMAIN u.workflow => d.workflow[k] = c.workflow[k]
  BY <1>1 DEF Over
<1>3. /\ DOMAIN d.tabs = (DOMAIN u.tabs \cup DOMAIN c.tabs) \ u.clear_tabs
      /\ \A t \in DOMAIN d.tabs : d.tabs[t] = IF t \in DOMAIN u.tabs THEN u.tabs[t] ELSE c.tabs[t]
  BY <1>1 DEF Over, Without, Restrict
<1>4. /\ DOMAIN d.blocks = (DOMAIN u.blocks \cup DOMAIN c.blocks) \ u.clear_blocks
      /\ \A b \in DOMAIN d.blocks :
           d.blocks[b] = IF b \in DOMAIN u.blocks THEN u.blocks[b] ELSE c.blocks[b]
  BY <1>1 DEF Over, Without, Restrict
<1> QED
  BY <1>1, <1>2, <1>3, <1>4 DEF d

(* It is enough to be told that. *)
LEMMA TabsLearnt ==
  ASSUME NEW c, NEW u, NEW x, NEW y, NEW T, KnowsTabs(c, x, T), TellsTabs(u, x, y)
  PROVE  KnowsTabs(Apply(c, u), y, T)
<1>1. PICK d : d = Apply(c, u)
  OBVIOUS
<1>2. /\ DOMAIN d.workflow = DOMAIN u.workflow \cup DOMAIN c.workflow
      /\ \A k \in DOMAIN u.workflow : d.workflow[k] = u.workflow[k]
      /\ \A k \in DOMAIN c.workflow : k \notin DOMAIN u.workflow => d.workflow[k] = c.workflow[k]
      /\ d.steps = (c.steps \cup u.steps) \ u.clear_steps
      /\ DOMAIN d.tabs = (DOMAIN u.tabs \cup DOMAIN c.tabs) \ u.clear_tabs
      /\ \A t \in DOMAIN d.tabs : d.tabs[t] = IF t \in DOMAIN u.tabs THEN u.tabs[t] ELSE c.tabs[t]
  BY <1>1, Applying
<1>3. "order" \in DOMAIN d.workflow /\ d.workflow["order"] = y.order
  BY <1>2 DEF KnowsTabs, TellsTabs
<1>4. \A t \in Range(y.order) : t \in DOMAIN d.tabs /\ d.tabs[t] = StepIds(y, t)
  BY <1>2 DEF KnowsTabs, TellsTabs
<1>5. \A s \in y.steps : TabOf[s] \in T => s \in d.steps
  BY <1>2 DEF KnowsTabs, TellsTabs
<1> QED
  BY <1>1, <1>3, <1>4, <1>5 DEF KnowsTabs

LEMMA ReportLearnt ==
  ASSUME NEW c, NEW u, NEW x, NEW y, KnowsReport(c, x), TellsReport(u, x, y)
  PROVE  KnowsReport(Apply(c, u), y)
<1>1. PICK d : d = Apply(c, u)
  OBVIOUS
<1>2. /\ DOMAIN d.workflow = DOMAIN u.workflow \cup DOMAIN c.workflow
      /\ \A k \in DOMAIN u.workflow : d.workflow[k] = u.workflow[k]
      /\ \A k \in DOMAIN c.workflow : k \notin DOMAIN u.workflow => d.workflow[k] = c.workflow[k]
      /\ DOMAIN d.blocks = (DOMAIN u.blocks \cup DOMAIN c.blocks) \ u.clear_blocks
      /\ \A b \in DOMAIN d.blocks :
           d.blocks[b] = IF b \in DOMAIN u.blocks THEN u.blocks[b] ELSE c.blocks[b]
  BY <1>1, Applying
<1>3. "custom" \in DOMAIN d.workflow /\ d.workflow["custom"] = y.custom
  BY <1>2 DEF KnowsReport, TellsReport
<1>4. y.custom => "list" \in DOMAIN d.workflow /\ d.workflow["list"] = Slugs(y)
  BY <1>2 DEF KnowsReport, TellsReport
<1>5. y.custom => \A b \in DOMAIN y.blocks :
                    b \in DOMAIN d.blocks /\ d.blocks[b] = Content(y.blocks[b])
  BY <1>2 DEF KnowsReport, TellsReport
<1> QED
  BY <1>1, <1>3, <1>4, <1>5 DEF KnowsReport

(* Updates, by what they say. *)
Saying(f, tabs, steps, blocks, noTabs, noSteps, noBlocks) ==
  [workflow |-> f, tabs |-> tabs, steps |-> steps, blocks |-> blocks,
   clear_tabs |-> noTabs, clear_steps |-> noSteps, clear_blocks |-> noBlocks]

LEMMA SayingFacts ==
  ASSUME NEW f, NEW tabs, NEW steps, NEW blocks, NEW noTabs, NEW noSteps, NEW noBlocks,
         NEW u, u = Saying(f, tabs, steps, blocks, noTabs, noSteps, noBlocks), NEW z
  PROVE  /\ u.workflow = f /\ u.tabs = tabs /\ u.steps = steps /\ u.blocks = blocks
         /\ u.clear_tabs = noTabs /\ u.clear_steps = noSteps /\ u.clear_blocks = noBlocks
         /\ [u EXCEPT !.workflow = z] = Saying(z, tabs, steps, blocks, noTabs, noSteps, noBlocks)
         /\ [u EXCEPT !.tabs = z] = Saying(f, z, steps, blocks, noTabs, noSteps, noBlocks)
         /\ [u EXCEPT !.steps = z] = Saying(f, tabs, z, blocks, noTabs, noSteps, noBlocks)
         /\ [u EXCEPT !.blocks = z] = Saying(f, tabs, steps, z, noTabs, noSteps, noBlocks)
         /\ [u EXCEPT !.clear_tabs = z] = Saying(f, tabs, steps, blocks, z, noSteps, noBlocks)
         /\ [u EXCEPT !.clear_steps = z] = Saying(f, tabs, steps, blocks, noTabs, z, noBlocks)
         /\ [u EXCEPT !.clear_blocks = z] = Saying(f, tabs, steps, blocks, noTabs, noSteps, z)
BY DEF Saying

(* The list of blocks, or the order of tabs, and nothing else. *)
LEMMA HeadersSaid ==
  ASSUME NEW w
  PROVE  /\ \E f : /\ BlockList(NoUpdate, w) = Saying(f, <<>>, {}, <<>>, {}, {}, {})
                   /\ DOMAIN f = {"list"} /\ f["list"] = Slugs(w)
         /\ \E f : /\ TabList(NoUpdate, w) = Saying(f, <<>>, {}, <<>>, {}, {}, {})
                   /\ DOMAIN f = {"order"} /\ f["order"] = w.order
<1>0. DOMAIN <<>> = {}
  OBVIOUS
<1>1. ASSUME NEW l, NEW f, f = Over([list |-> l], <<>>)
      PROVE  DOMAIN f = {"list"} /\ f["list"] = l
  <2>1. DOMAIN [list |-> l] = {"list"} /\ [list |-> l]["list"] = l
    OBVIOUS
  <2> QED
    BY <1>0, <1>1, <2>1 DEF Over
<1>2. ASSUME NEW l, NEW f, f = Over([order |-> l], <<>>)
      PROVE  DOMAIN f = {"order"} /\ f["order"] = l
  <2>1. DOMAIN [order |-> l] = {"order"} /\ [order |-> l]["order"] = l
    OBVIOUS
  <2> QED
    BY <1>0, <1>2, <2>1 DEF Over
<1>3. PICK u : u = NoUpdate
  OBVIOUS
<1>4. u = Saying(<<>>, <<>>, {}, <<>>, {}, {}, {}) /\ u.workflow = <<>>
  BY <1>3 DEF NoUpdate, Saying
<1>5. PICK f : f = Over([list |-> Slugs(w)], u.workflow)
  OBVIOUS
<1>6. PICK g : g = Over([order |-> w.order], u.workflow)
  OBVIOUS
<1>7. BlockList(u, w) = [u EXCEPT !.workflow = f]
  BY <1>5 DEF BlockList
<1>8. TabList(u, w) = [u EXCEPT !.workflow = g]
  BY <1>6 DEF TabList
<1>9. /\ BlockList(u, w) = Saying(f, <<>>, {}, <<>>, {}, {}, {})
      /\ TabList(u, w) = Saying(g, <<>>, {}, <<>>, {}, {}, {})
  BY ONLY <1>4, <1>7, <1>8, SayingFacts
<1>10. DOMAIN f = {"list"} /\ f["list"] = Slugs(w)
  BY <1>1, <1>4, <1>5
<1>11. DOMAIN g = {"order"} /\ g["order"] = w.order
  BY <1>2, <1>4, <1>6
<1> QED
  BY <1>3, <1>9, <1>10, <1>11

(* What is said of AddBlock, DeleteBlock and ReorderBlocks: all, ... *)
SaysAll(w, f, blocks, noBlocks) ==
  /\ "custom" \in DOMAIN f /\ f["custom"] = w.custom
  /\ w.custom => /\ DOMAIN blocks = DOMAIN w.blocks /\ noBlocks = {}
                 /\ \A b \in DOMAIN blocks : blocks[b] = Content(w.blocks[b])

(* ... or of one block. *)
SaysOne(w, e, f, blocks, noBlocks) ==
  /\ "custom" \notin DOMAIN f
  /\ \A b \in DOMAIN w.blocks :
       /\ b \notin noBlocks
       /\ IF b \in DOMAIN blocks THEN blocks[b] = Content(w.blocks[b])
          ELSE e.command # "ReorderBlocks" => b # e.slug

SaysReport(u, w, e) ==
  \E f, blocks, noBlocks :
    /\ u = Saying(f, <<>>, {}, blocks, {}, {}, noBlocks)
    /\ "order" \notin DOMAIN f /\ "list" \in DOMAIN f /\ f["list"] = Slugs(w)
    /\ IF e.wasAuto THEN SaysAll(w, f, blocks, noBlocks) ELSE SaysOne(w, e, f, blocks, noBlocks)

LEMMA ReportSaid ==
  ASSUME NEW w, w.custom \in BOOLEAN, NEW e, e.wasAuto \in BOOLEAN,
         e.command \in {"AddBlock", "DeleteBlock", "ReorderBlocks"}
  PROVE  SaysReport(UpdateOf(e, w), w, e)
<1>0. DOMAIN <<>> = {}
  OBVIOUS
<1>1. PICK u, f : /\ u = BlockList(NoUpdate, w) /\ u = Saying(f, <<>>, {}, <<>>, {}, {}, {})
                  /\ DOMAIN f = {"list"} /\ f["list"] = Slugs(w)
  BY HeadersSaid
<1>2. u.workflow = f
  BY <1>1 DEF Saying
<1>3. \A z, B : /\ [u EXCEPT !.blocks = z] = Saying(f, <<>>, {}, z, {}, {}, {})
                /\ [u EXCEPT !.clear_blocks = B] = Saying(f, <<>>, {}, <<>>, {}, {}, B)
  <2> TAKE z, B
  <2>1. u = Saying(f, <<>>, {}, <<>>, {}, {}, {})
    BY <1>1
  <2> QED
    BY ONLY <2>1, SayingFacts
<1>4. CASE e.wasAuto
  <2>1. UpdateOf(e, w) = WholeReport(u, e, w)
    BY <1>1, <1>4 DEF UpdateOf
  <2>2. ASSUME NEW c, NEW g, g = Over([custom |-> c], f)
        PROVE  /\ DOMAIN g = {"custom", "list"} /\ g["custom"] = c /\ g["list"] = Slugs(w)
               /\ IsCustom(u, c) = Saying(g, <<>>, {}, <<>>, {}, {}, {})
    <3>1. DOMAIN [custom |-> c] = {"custom"} /\ [custom |-> c]["custom"] = c
      OBVIOUS
    <3>2. DOMAIN g = {"custom", "list"} /\ g["custom"] = c /\ g["list"] = f["list"]
      BY <1>1, <2>2, <3>1 DEF Over
    <3>3. IsCustom(u, c) = [u EXCEPT !.workflow = g]
      BY <1>2, <2>2 DEF IsCustom
    <3>4. [u EXCEPT !.workflow = g] = Saying(g, <<>>, {}, <<>>, {}, {}, {})
      <4>1. u = Saying(f, <<>>, {}, <<>>, {}, {}, {})
        BY <1>1
      <4> QED
        BY ONLY <4>1, SayingFacts
    <3> QED
      BY <1>1, <3>2, <3>3, <3>4
  <2>3. PICK c, g : c = w.custom /\ g = Over([custom |-> c], f)
    OBVIOUS
  <2>4. PICK v : v = IsCustom(u, c)
    OBVIOUS
  <2>5. /\ DOMAIN g = {"custom", "list"} /\ g["custom"] = c /\ g["list"] = Slugs(w)
        /\ v = Saying(g, <<>>, {}, <<>>, {}, {}, {})
    BY <2>2, <2>3, <2>4
  <2>6. PICK z : z = Contents(w, DOMAIN w.blocks)
    OBVIOUS
  <2>7. DOMAIN z = DOMAIN w.blocks /\ \A b \in DOMAIN z : z[b] = Content(w.blocks[b])
    BY <2>6 DEF Contents
  <2>8. PICK B : B = {AutoSlug(s) : s \in e.before.steps} \cup ({e.slug} \ {None})
    OBVIOUS
  <2>9. CASE w.custom
    <3>1. WholeReport(u, e, w) = [v EXCEPT !.blocks = z]
      BY <2>3, <2>4, <2>6, <2>9 DEF WholeReport, WithBlocks
    <3>2. [v EXCEPT !.blocks = z] = Saying(g, <<>>, {}, z, {}, {}, {})
      BY ONLY <2>5, SayingFacts
    <3>3. UpdateOf(e, w) = Saying(g, <<>>, {}, z, {}, {}, {})
      BY <2>1, <3>1, <3>2
    <3>4. SaysAll(w, g, z, {})
      BY <2>3, <2>5, <2>7 DEF SaysAll
    <3> QED
      BY <1>4, <2>5, <3>3, <3>4 DEF SaysReport
  <2>10. CASE ~w.custom
    <3>1. WholeReport(u, e, w) = [v EXCEPT !.clear_blocks = B]
      BY <2>3, <2>4, <2>8, <2>10 DEF WholeReport, ClearBlocks
    <3>2. [v EXCEPT !.clear_blocks = B] = Saying(g, <<>>, {}, <<>>, {}, {}, B)
      BY ONLY <2>5, SayingFacts
    <3>3. UpdateOf(e, w) = Saying(g, <<>>, {}, <<>>, {}, {}, B)
      BY <2>1, <3>1, <3>2
    <3>4. SaysAll(w, g, <<>>, B)
      BY <2>3, <2>5, <2>10 DEF SaysAll
    <3> QED
      BY <1>4, <2>5, <3>3, <3>4 DEF SaysReport
  <2> QED
    BY <2>9, <2>10
<1>5. CASE ~e.wasAuto /\ e.command = "ReorderBlocks"
  <2>1. UpdateOf(e, w) = Saying(f, <<>>, {}, <<>>, {}, {}, {})
    BY <1>1, <1>5 DEF UpdateOf
  <2>2. SaysOne(w, e, f, <<>>, {})
    BY <1>0, <1>1, <1>5 DEF SaysOne
  <2> QED
    BY <1>1, <1>5, <2>1, <2>2 DEF SaysReport
<1>6. CASE ~e.wasAuto /\ e.command # "ReorderBlocks"
  <2>1. UpdateOf(e, w) = OneBlock(u, e.slug, w)
    BY <1>1, <1>6 DEF UpdateOf
  <2>2. CASE e.slug \in DOMAIN w.blocks
    <3>1. PICK z : z = Contents(w, {e.slug})
      OBVIOUS
    <3>2. DOMAIN z = {e.slug} /\ \A b \in DOMAIN z : z[b] = Content(w.blocks[b])
      BY <3>1 DEF Contents
    <3>3. UpdateOf(e, w) = Saying(f, <<>>, {}, z, {}, {}, {})
      BY <1>3, <2>1, <2>2, <3>1 DEF OneBlock, WithBlocks
    <3>4. SaysOne(w, e, f, z, {})
      BY <1>1, <1>6, <3>2 DEF SaysOne
    <3> QED
      BY <1>1, <1>6, <3>3, <3>4 DEF SaysReport
  <2>3. CASE e.slug \notin DOMAIN w.blocks
    <3>1. UpdateOf(e, w) = Saying(f, <<>>, {}, <<>>, {}, {}, {e.slug})
      BY <1>3, <2>1, <2>3 DEF OneBlock, ClearBlocks
    <3>2. SaysOne(w, e, f, <<>>, {e.slug})
      BY <1>0, <1>1, <1>6, <2>3 DEF SaysOne
    <3> QED
      BY <1>1, <1>6, <3>1, <3>2 DEF SaysReport
  <2> QED
    BY <2>2, <2>3
<1> QED
  BY <1>4, <1>5, <1>6

(* The blocks that went with a step or a tab, or have come back. *)
LEMMA RowsSaid ==
  ASSUME NEW w, NEW e, NEW f, NEW tabs, NEW steps, NEW noTabs, NEW noSteps,
         NEW u, u = Saying(f, tabs, steps, <<>>, noTabs, noSteps, {})
  PROVE  \E g, blocks, noBlocks :
           /\ OldBlocks(u, e, w) = Saying(g, tabs, steps, blocks, noTabs, noSteps, noBlocks)
           /\ DOMAIN f \subseteq DOMAIN g /\ DOMAIN g \subseteq DOMAIN f \cup {"list"}
           /\ \A k \in DOMAIN f : k # "list" => g[k] = f[k]
           /\ IF e.back = <<>> THEN g = f /\ DOMAIN blocks = {} /\ noBlocks = {}
              ELSE /\ "list" \in DOMAIN g /\ g["list"] = Slugs(w)
                   /\ IF DOMAIN e.back \subseteq DOMAIN w.blocks
                      THEN /\ DOMAIN blocks = DOMAIN e.back /\ noBlocks = {}
                           /\ \A b \in DOMAIN blocks : blocks[b] = Content(e.back[b])
                      ELSE DOMAIN blocks = {} /\ noBlocks = DOMAIN e.back
<1>0. DOMAIN <<>> = {}
  OBVIOUS
<1>1. CASE e.back = <<>>
  <2>1. OldBlocks(u, e, w) = u
    BY <1>1 DEF OldBlocks
  <2> QED
    BY <1>0, <1>1, <2>1
<1>2. CASE e.back # <<>>
  <2>1. PICK l, g : l = Slugs(w) /\ g = Over([list |-> l], f)
    OBVIOUS
  <2>2. /\ DOMAIN g = DOMAIN f \cup {"list"} /\ g["list"] = l
        /\ \A k \in DOMAIN f : k # "list" => g[k] = f[k]
    <3>1. DOMAIN [list |-> l] = {"list"} /\ [list |-> l]["list"] = l
      OBVIOUS
    <3> QED
      BY <2>1, <3>1 DEF Over
  <2>3. PICK v : v = BlockList(u, w)
    OBVIOUS
  <2>4. v = Saying(g, tabs, steps, <<>>, noTabs, noSteps, {})
    <3>1. u.workflow = f
      BY ONLY u = Saying(f, tabs, steps, <<>>, noTabs, noSteps, {}), SayingFacts
    <3>2. v = [u EXCEPT !.workflow = g]
      BY <2>1, <2>3, <3>1 DEF BlockList
    <3>3. [u EXCEPT !.workflow = g] = Saying(g, tabs, steps, <<>>, noTabs, noSteps, {})
      BY ONLY u = Saying(f, tabs, steps, <<>>, noTabs, noSteps, {}), SayingFacts
    <3> QED
      BY <3>2, <3>3
  <2>5. CASE DOMAIN e.back \subseteq DOMAIN w.blocks
    <3>1. PICK z : z = [b \in DOMAIN e.back |-> Content(e.back[b])]
      OBVIOUS
    <3>2. OldBlocks(u, e, w) = [v EXCEPT !.blocks = z]
      BY <1>2, <2>3, <2>5, <3>1 DEF OldBlocks, WithBlocks
    <3>3. [v EXCEPT !.blocks = z] = Saying(g, tabs, steps, z, noTabs, noSteps, {})
      BY ONLY <2>4, SayingFacts
    <3>4. DOMAIN z = DOMAIN e.back /\ \A b \in DOMAIN z : z[b] = Content(e.back[b])
      BY <3>1
    <3>5. OldBlocks(u, e, w) = Saying(g, tabs, steps, z, noTabs, noSteps, {})
      BY <3>2, <3>3
    <3> QED
      BY <1>2, <2>1, <2>2, <2>5, <3>4, <3>5
  <2>6. CASE ~(DOMAIN e.back \subseteq DOMAIN w.blocks)
    <3>1. PICK B : B = DOMAIN e.back
      OBVIOUS
    <3>2. OldBlocks(u, e, w) = [v EXCEPT !.clear_blocks = B]
      BY <1>2, <2>3, <2>6, <3>1 DEF OldBlocks, ClearBlocks
    <3>3. [v EXCEPT !.clear_blocks = B] = Saying(g, tabs, steps, <<>>, noTabs, noSteps, B)
      BY ONLY <2>4, SayingFacts
    <3>4. OldBlocks(u, e, w) = Saying(g, tabs, steps, <<>>, noTabs, noSteps, B)
      BY <3>2, <3>3
    <3> QED
      BY <1>0, <1>2, <2>1, <2>2, <2>6, <3>1, <3>4
  <2> QED
    BY <2>5, <2>6
<1> QED
  BY <1>1, <1>2

(* Of a step: the steps of its tab too. *)
SaysStep(u, w, s) ==
  \E tabs, steps, noSteps :
    /\ u = Saying(<<>>, tabs, steps, <<>>, {}, noSteps, {})
    /\ DOMAIN tabs = {TabOf[s]} /\ \A t \in DOMAIN tabs : tabs[t] = StepIds(w, t)
    /\ IF s \in w.steps THEN steps = {s} /\ noSteps = {} ELSE steps = {} /\ noSteps = {s}

LEMMA StepSaid == ASSUME NEW w, NEW s PROVE SaysStep(OneStep(NoUpdate, s, w), w, s)
<1>1. PICK u : u = NoUpdate
  OBVIOUS
<1>2. u = Saying(<<>>, <<>>, {}, <<>>, {}, {}, {})
  BY <1>1 DEF NoUpdate, Saying
<1>3. PICK z, v : z = [t \in {TabOf[s]} |-> StepIds(w, t)] /\ v = [u EXCEPT !.tabs = z]
  OBVIOUS
<1>4. DOMAIN z = {TabOf[s]} /\ \A t \in DOMAIN z : z[t] = StepIds(w, t)
  BY <1>3
<1>5. v = Saying(<<>>, z, {}, <<>>, {}, {}, {})
  <2>1. [u EXCEPT !.tabs = z] = Saying(<<>>, z, {}, <<>>, {}, {}, {})
    BY ONLY <1>2, SayingFacts
  <2> QED
    BY <1>3, <2>1
<1>6. OneStep(u, s, w) = IF s \in w.steps THEN [v EXCEPT !.steps = {s}] ELSE [v EXCEPT !.clear_steps = {s}]
  BY <1>3 DEF OneStep
<1>7. PICK S : S = {s}
  OBVIOUS
<1>8. /\ [v EXCEPT !.steps = S] = Saying(<<>>, z, S, <<>>, {}, {}, {})
      /\ [v EXCEPT !.clear_steps = S] = Saying(<<>>, z, {}, <<>>, {}, S, {})
  BY ONLY <1>5, SayingFacts
<1>9. CASE s \in w.steps
  <2>1. OneStep(u, s, w) = Saying(<<>>, z, S, <<>>, {}, {}, {})
    BY <1>6, <1>7, <1>8, <1>9
  <2> QED
    BY <1>1, <1>4, <1>7, <1>9, <2>1 DEF SaysStep
<1>10. CASE s \notin w.steps
  <2>1. OneStep(u, s, w) = Saying(<<>>, z, {}, <<>>, {}, S, {})
    BY <1>6, <1>7, <1>8, <1>10
  <2> QED
    BY <1>1, <1>4, <1>7, <1>10, <2>1 DEF SaysStep
<1> QED
  BY <1>9, <1>10

(* Of a tab, and of the order of tabs. *)
SaysTab(u, w, t) ==
  \E f, tabs, noTabs :
    /\ u = Saying(f, tabs, {}, <<>>, noTabs, {}, {})
    /\ DOMAIN f = {"order"} /\ f["order"] = w.order
    /\ IF t \in Range(w.order)
       THEN DOMAIN tabs = {t} /\ tabs[t] = StepIds(w, t) /\ noTabs = {}
       ELSE DOMAIN tabs = {} /\ noTabs = {t}

LEMMA TabSaid == ASSUME NEW w, NEW t PROVE SaysTab(OneTab(NoUpdate, t, w), w, t)
<1>0. DOMAIN <<>> = {}
  OBVIOUS
<1>1. PICK u, f : /\ u = TabList(NoUpdate, w) /\ u = Saying(f, <<>>, {}, <<>>, {}, {}, {})
                  /\ DOMAIN f = {"order"} /\ f["order"] = w.order
  BY HeadersSaid
<1>2. u = Saying(f, <<>>, {}, <<>>, {}, {}, {})
  BY <1>1
<1>3. PICK z, B : z = [r \in {t} |-> StepIds(w, r)] /\ B = {t}
  OBVIOUS
<1>4. DOMAIN z = {t} /\ z[t] = StepIds(w, t)
  BY <1>3
<1>5. /\ [u EXCEPT !.tabs = z] = Saying(f, z, {}, <<>>, {}, {}, {})
      /\ [u EXCEPT !.clear_tabs = B] = Saying(f, <<>>, {}, <<>>, B, {}, {})
  BY ONLY <1>2, SayingFacts
<1>6. CASE t \in Range(w.order)
  <2>1. OneTab(NoUpdate, t, w) = Saying(f, z, {}, <<>>, {}, {}, {})
    BY <1>1, <1>3, <1>5, <1>6 DEF OneTab
  <2> QED
    BY <1>1, <1>4, <1>6, <2>1 DEF SaysTab
<1>7. CASE t \notin Range(w.order)
  <2>1. OneTab(NoUpdate, t, w) = Saying(f, <<>>, {}, <<>>, B, {}, {})
    BY <1>1, <1>3, <1>5, <1>7 DEF OneTab
  <2> QED
    BY <1>0, <1>1, <1>3, <1>7, <2>1 DEF SaysTab
<1> QED
  BY <1>6, <1>7

LEMMA SameStepIds ==
  ASSUME NEW x, NEW y, NEW t, \A s : TabOf[s] = t => (s \in x.steps <=> s \in y.steps)
  PROVE  StepIds(x, t) = StepIds(y, t)
<1>1. {s \in x.steps : TabOf[s] = t} = {s \in y.steps : TabOf[s] = t}
  OBVIOUS
<1> QED
  BY <1>1 DEF StepIds

LEMMA SameContent ==
  ASSUME NEW f, NEW g, NEW B, Alone(f, g, B), NEW b \in DOMAIN g, b \notin B
  PROVE  b \in DOMAIN f /\ Content(f[b]) = Content(g[b])
BY DEF Alone, Content, Type, About

LEMMA SameSlugs ==
  ASSUME NEW x, Sound(x), NEW y, Sound(y), NEW e, Unlisted(e), Touches(e, x, y),
         Forward(x, e) = Fine(y) \/ Backward(x, e) = Fine(y)
  PROVE  Slugs(x) = Slugs(y)
<1>1. InPlace(x.blocks, y.blocks)
  BY UnlistedInPlace
<1>2. /\ IsRows(x.blocks) /\ IsPlaced(x.blocks) /\ IsRows(y.blocks) /\ IsPlaced(y.blocks)
      /\ DOMAIN x.blocks = DOMAIN y.blocks
      /\ \A b \in DOMAIN y.blocks : Pos(x.blocks, b) = Pos(y.blocks, b)
  BY <1>1 DEF InPlace, Sound
<1>3. ByPosition(x.blocks) = ByPosition(y.blocks)
  BY <1>2, SamePlaces
<1> QED
  BY <1>3 DEF Slugs

(* An update of a step or a tab tells of the report what there is to tell. *)
LEMMA RowsTell ==
  ASSUME NEW x, NEW y, NEW e, TouchesRows(e, x, y), e.back = <<>> => Slugs(x) = Slugs(y),
         NEW f, "list" \notin DOMAIN f, "custom" \notin DOMAIN f,
         NEW tabs, NEW steps, NEW noTabs, NEW noSteps,
         NEW u, u = Saying(f, tabs, steps, <<>>, noTabs, noSteps, {}),
         NEW v, v = OldBlocks(u, e, y)
  PROVE  /\ TellsReport(v, x, y)
         /\ v.tabs = tabs /\ v.steps = steps /\ v.clear_tabs = noTabs /\ v.clear_steps = noSteps
         /\ "order" \in DOMAIN v.workflow <=> "order" \in DOMAIN f
         /\ "order" \in DOMAIN f => v.workflow["order"] = f["order"]
<1>1. PICK g, blocks, noBlocks :
        /\ v = Saying(g, tabs, steps, blocks, noTabs, noSteps, noBlocks)
        /\ DOMAIN f \subseteq DOMAIN g /\ DOMAIN g \subseteq DOMAIN f \cup {"list"}
        /\ \A k \in DOMAIN f : k # "list" => g[k] = f[k]
        /\ IF e.back = <<>> THEN g = f /\ DOMAIN blocks = {} /\ noBlocks = {}
           ELSE /\ "list" \in DOMAIN g /\ g["list"] = Slugs(y)
                /\ IF DOMAIN e.back \subseteq DOMAIN y.blocks
                   THEN /\ DOMAIN blocks = DOMAIN e.back /\ noBlocks = {}
                        /\ \A b \in DOMAIN blocks : blocks[b] = Content(e.back[b])
                   ELSE DOMAIN blocks = {} /\ noBlocks = DOMAIN e.back
  BY RowsSaid
<1>2. v = Saying(g, tabs, steps, blocks, noTabs, noSteps, noBlocks)
  BY <1>1
<1>3. /\ v.workflow = g /\ v.tabs = tabs /\ v.steps = steps /\ v.blocks = blocks
      /\ v.clear_tabs = noTabs /\ v.clear_steps = noSteps /\ v.clear_blocks = noBlocks
  BY ONLY <1>2, SayingFacts
<1>4. "custom" \notin DOMAIN g /\ x.custom = y.custom
  BY <1>1 DEF TouchesRows
<1>5. IF "list" \in DOMAIN g THEN g["list"] = Slugs(y) ELSE Slugs(x) = Slugs(y)
  BY <1>1
<1>6. /\ Alone(x.blocks, y.blocks, DOMAIN e.back) /\ AllOrNone(e.back, y.blocks)
      /\ e.back = <<>> => DOMAIN e.back = {}
  BY NoRows DEF TouchesRows
<1>7. ASSUME NEW b \in DOMAIN y.blocks
      PROVE  /\ b \notin noBlocks
             /\ IF b \in DOMAIN blocks THEN blocks[b] = Content(y.blocks[b])
                ELSE b \in DOMAIN x.blocks /\ Content(x.blocks[b]) = Content(y.blocks[b])
  <2>1. CASE b \in DOMAIN e.back
    <3>1. /\ DOMAIN e.back \subseteq DOMAIN y.blocks
          /\ Type(e.back, b) = Type(y.blocks, b) /\ About(e.back, b) = About(y.blocks, b)
      BY <1>6, <1>7, <2>1 DEF AllOrNone
    <3>2. DOMAIN blocks = DOMAIN e.back /\ noBlocks = {} /\ blocks[b] = Content(e.back[b])
      BY <1>1, <1>6, <2>1, <3>1
    <3>3. Content(e.back[b]) = Content(y.blocks[b])
      BY <3>1 DEF Content, Type, About
    <3> QED
      BY <2>1, <3>2, <3>3
  <2>2. CASE b \notin DOMAIN e.back
    <3>1. b \in DOMAIN x.blocks /\ Content(x.blocks[b]) = Content(y.blocks[b])
      BY <1>6, <1>7, <2>2, SameContent
    <3>2. b \notin noBlocks /\ b \notin DOMAIN blocks
      BY <1>1, <2>2
    <3> QED
      BY <3>1, <3>2
  <2> QED
    BY <2>1, <2>2
<1>8. TellsReport(v, x, y)
  BY <1>3, <1>4, <1>5, <1>7 DEF TellsReport
<1> QED
  BY <1>1, <1>3, <1>8

(* An update tells a page all that a command has changed. *)
LEMMA UpdateTells ==
  ASSUME NEW x, Sound(x), NEW y, Sound(y), NEW e, Touches(e, x, y),
         Forward(x, e) = Fine(y) \/ Backward(x, e) = Fine(y)
  PROVE  TellsTabs(UpdateOf(e, y), x, y) /\ TellsReport(UpdateOf(e, y), x, y)
<1>0. DOMAIN <<>> = {}
  OBVIOUS
<1> DEFINE u == UpdateOf(e, y)
<1>1. y.custom \in BOOLEAN /\ x.custom \in BOOLEAN
  BY DEF Sound
<1>2. CASE e.command \in {"AddBlock", "DeleteBlock", "ReorderBlocks"}
  <2>1. TouchesReport(e, x, y)
    BY <1>2 DEF Touches
  <2>2. e.wasAuto \in BOOLEAN /\ x.steps = y.steps /\ x.order = y.order
    BY <2>1 DEF TouchesReport
  <2>3. PICK f, blocks, noBlocks :
          /\ u = Saying(f, <<>>, {}, blocks, {}, {}, noBlocks)
          /\ "order" \notin DOMAIN f /\ "list" \in DOMAIN f /\ f["list"] = Slugs(y)
          /\ IF e.wasAuto THEN SaysAll(y, f, blocks, noBlocks) ELSE SaysOne(y, e, f, blocks, noBlocks)
    <3>1. SaysReport(u, y, e)
      BY <1>1, <1>2, <2>2, ReportSaid
    <3> QED
      BY <3>1 DEF SaysReport
  <2>4. u = Saying(f, <<>>, {}, blocks, {}, {}, noBlocks)
    BY <2>3
  <2> HIDE DEF u
  <2>5. /\ u.workflow = f /\ u.tabs = <<>> /\ u.steps = {} /\ u.blocks = blocks
        /\ u.clear_tabs = {} /\ u.clear_steps = {} /\ u.clear_blocks = noBlocks
    BY ONLY <2>4, SayingFacts
  <2>6. TellsTabs(u, x, y)
    <3>1. \A t : StepIds(x, t) = StepIds(y, t)
      BY <2>2, SameStepIds
    <3> QED
      BY <1>0, <2>2, <2>3, <2>5, <3>1 DEF TellsTabs
  <2>7. CASE e.wasAuto
    <3>1. TellsReport(u, x, y)
      BY <2>3, <2>5, <2>7 DEF TellsReport, SaysAll
    <3> QED
      BY <2>6, <3>1 DEF u
  <2>8. CASE ~e.wasAuto
    <3>1. /\ x.custom = TRUE /\ y.custom = TRUE
          /\ Alone(x.blocks, y.blocks, IF e.command = "ReorderBlocks" THEN {} ELSE {e.slug})
      BY <2>1, <2>8 DEF TouchesReport
    <3>2. ASSUME NEW b \in DOMAIN y.blocks, b \notin DOMAIN blocks
          PROVE  b \in DOMAIN x.blocks /\ Content(x.blocks[b]) = Content(y.blocks[b])
      <4>1. PICK B : B = IF e.command = "ReorderBlocks" THEN {} ELSE {e.slug}
        OBVIOUS
      <4>2. b \notin B
        BY <2>3, <2>8, <3>2, <4>1 DEF SaysOne
      <4> QED
        BY <3>1, <4>1, <4>2, SameContent
    <3>3. TellsReport(u, x, y)
      BY <2>3, <2>5, <2>8, <3>1, <3>2 DEF TellsReport, SaysOne
    <3> QED
      BY <2>6, <3>3 DEF u
  <2> QED
    BY <2>2, <2>7, <2>8
<1>3. Unlisted(e) => Slugs(x) = Slugs(y)
  BY SameSlugs
<1>4. CASE e.command = "SetBlockMarkdown"
  <2>1. TouchesText(e, x, y)
    BY <1>4 DEF Touches
  <2>2. x.steps = y.steps /\ x.order = y.order /\ x.custom = y.custom /\ e.slug \in DOMAIN y.blocks
        /\ Alone(x.blocks, y.blocks, {e.slug})
    BY <2>1 DEF TouchesText
  <2>3. PICK z, n : z = Contents(y, {e.slug}) /\ n = NoUpdate
    OBVIOUS
  <2>4. n = Saying(<<>>, <<>>, {}, <<>>, {}, {}, {})
    BY <2>3 DEF NoUpdate, Saying
  <2>5. u = [n EXCEPT !.blocks = z]
    BY <1>4, <2>3 DEF UpdateOf, WithBlocks
  <2>6. [n EXCEPT !.blocks = z] = Saying(<<>>, <<>>, {}, z, {}, {}, {})
    BY ONLY <2>4, SayingFacts
  <2> HIDE DEF u
  <2>7. u = Saying(<<>>, <<>>, {}, z, {}, {}, {})
    BY <2>5, <2>6
  <2>8. /\ u.workflow = <<>> /\ u.tabs = <<>> /\ u.steps = {} /\ u.blocks = z
        /\ u.clear_tabs = {} /\ u.clear_steps = {} /\ u.clear_blocks = {}
    BY ONLY <2>7, SayingFacts
  <2>9. DOMAIN z = {e.slug} /\ z[e.slug] = Content(y.blocks[e.slug])
    BY <2>3 DEF Contents
  <2>10. Slugs(x) = Slugs(y)
    BY <1>3, <1>4 DEF Unlisted
  <2>11. \A t : StepIds(x, t) = StepIds(y, t)
    BY <2>2, SameStepIds
  <2>12. TellsTabs(u, x, y)
    BY <1>0, <2>2, <2>8, <2>11 DEF TellsTabs
  <2>13. \A b \in DOMAIN y.blocks : b # e.slug =>
           b \in DOMAIN x.blocks /\ Content(x.blocks[b]) = Content(y.blocks[b])
    BY <2>2, SameContent
  <2>14. TellsReport(u, x, y)
    BY <1>0, <2>2, <2>8, <2>9, <2>10, <2>13 DEF TellsReport
  <2> QED
    BY <2>12, <2>14 DEF u
<1>5. CASE e.command = "ReorderTabs"
  <2>1. /\ x.steps = y.steps /\ Range(x.order) = Range(y.order) /\ x.custom = y.custom
        /\ Alone(x.blocks, y.blocks, {})
    BY <1>5 DEF Touches, TouchesTabs
  <2>2. PICK f : /\ TabList(NoUpdate, y) = Saying(f, <<>>, {}, <<>>, {}, {}, {})
                 /\ DOMAIN f = {"order"} /\ f["order"] = y.order
    BY HeadersSaid
  <2>3. u = Saying(f, <<>>, {}, <<>>, {}, {}, {})
    BY <1>5, <2>2 DEF UpdateOf
  <2> HIDE DEF u
  <2>4. /\ u.workflow = f /\ u.tabs = <<>> /\ u.steps = {} /\ u.blocks = <<>>
        /\ u.clear_tabs = {} /\ u.clear_steps = {} /\ u.clear_blocks = {}
    BY ONLY <2>3, SayingFacts
  <2>5. Slugs(x) = Slugs(y)
    BY <1>3, <1>5 DEF Unlisted
  <2>6. \A t : StepIds(x, t) = StepIds(y, t)
    BY <2>1, SameStepIds
  <2>7. TellsTabs(u, x, y)
    BY <1>0, <2>1, <2>2, <2>4, <2>6 DEF TellsTabs
  <2>8. \A b \in DOMAIN y.blocks : b \in DOMAIN x.blocks /\ Content(x.blocks[b]) = Content(y.blocks[b])
    BY <2>1, SameContent
  <2>9. TellsReport(u, x, y)
    BY <1>0, <2>1, <2>2, <2>4, <2>5, <2>8 DEF TellsReport
  <2> QED
    BY <2>7, <2>9 DEF u
<1>6. ASSUME TouchesStep(e, x, y), NEW v,
             \E tabs, steps, noSteps :
               /\ v.tabs = tabs /\ v.steps = steps /\ v.clear_tabs = {} /\ v.clear_steps = noSteps
               /\ "order" \notin DOMAIN v.workflow
               /\ DOMAIN tabs = {TabOf[e.of]} /\ \A t \in DOMAIN tabs : tabs[t] = StepIds(y, t)
               /\ IF e.of \in y.steps THEN steps = {e.of} /\ noSteps = {}
                  ELSE steps = {} /\ noSteps = {e.of}
      PROVE  TellsTabs(v, x, y)
  <2>1. x.order = y.order /\ \A s : s # e.of => (s \in x.steps <=> s \in y.steps)
    BY <1>6 DEF TouchesStep
  <2>2. \A t : t # TabOf[e.of] => StepIds(x, t) = StepIds(y, t)
    BY <2>1, SameStepIds
  <2> QED
    BY <1>6, <2>1, <2>2 DEF TellsTabs
<1>7. PICK tabs, steps, noSteps :
        /\ OneStep(NoUpdate, e.of, y) = Saying(<<>>, tabs, steps, <<>>, {}, noSteps, {})
        /\ DOMAIN tabs = {TabOf[e.of]} /\ \A t \in DOMAIN tabs : tabs[t] = StepIds(y, t)
        /\ IF e.of \in y.steps THEN steps = {e.of} /\ noSteps = {} ELSE steps = {} /\ noSteps = {e.of}
  <2>1. SaysStep(OneStep(NoUpdate, e.of, y), y, e.of)
    BY StepSaid
  <2> QED
    BY <2>1 DEF SaysStep
<1>8. CASE e.command = "AddStep"
  <2>1. TouchesStep(e, x, y) /\ x.custom = y.custom /\ Alone(x.blocks, y.blocks, {})
    BY <1>8 DEF Touches
  <2>2. u = Saying(<<>>, tabs, steps, <<>>, {}, noSteps, {})
    BY <1>7, <1>8 DEF UpdateOf
  <2> HIDE DEF u
  <2>3. /\ u.workflow = <<>> /\ u.tabs = tabs /\ u.steps = steps /\ u.blocks = <<>>
        /\ u.clear_tabs = {} /\ u.clear_steps = noSteps /\ u.clear_blocks = {}
    BY ONLY <2>2, SayingFacts
  <2>4. TellsTabs(u, x, y)
    BY <1>0, <1>6, <1>7, <2>1, <2>3
  <2>5. Slugs(x) = Slugs(y)
    BY <1>3, <1>8 DEF Unlisted
  <2>6. \A b \in DOMAIN y.blocks : b \in DOMAIN x.blocks /\ Content(x.blocks[b]) = Content(y.blocks[b])
    BY <2>1, SameContent
  <2>7. TellsReport(u, x, y)
    BY <1>0, <2>1, <2>3, <2>5, <2>6 DEF TellsReport
  <2> QED
    BY <2>4, <2>7 DEF u
<1>9. CASE e.command = "DeleteStep"
  <2>1. TouchesStep(e, x, y) /\ TouchesRows(e, x, y)
    BY <1>9 DEF Touches
  <2>2. PICK w : w = OneStep(NoUpdate, e.of, y)
    OBVIOUS
  <2>3. u = OldBlocks(w, e, y)
    BY <1>9, <2>2 DEF UpdateOf
  <2> HIDE DEF u
  <2>4. e.back = <<>> => Slugs(x) = Slugs(y)
    BY <1>3, <1>9 DEF Unlisted
  <2>5. PICK f : f = <<>>
    OBVIOUS
  <2>6. w = Saying(f, tabs, steps, <<>>, {}, noSteps, {}) /\ DOMAIN f = {}
    BY <1>0, <1>7, <2>2, <2>5
  <2>7. /\ TellsReport(u, x, y)
        /\ u.tabs = tabs /\ u.steps = steps /\ u.clear_tabs = {} /\ u.clear_steps = noSteps
        /\ "order" \in DOMAIN u.workflow <=> "order" \in DOMAIN f
    <3>1. "list" \notin DOMAIN f /\ "custom" \notin DOMAIN f
      BY <2>6
    <3>2. w = Saying(f, tabs, steps, <<>>, {}, noSteps, {})
      BY <2>6
    <3> QED
      BY ONLY <2>1, <2>3, <2>4, <3>1, <3>2, RowsTell
  <2>8. TellsTabs(u, x, y)
    BY <1>6, <1>7, <2>1, <2>6, <2>7
  <2> QED
    BY <2>7, <2>8 DEF u
<1>10. CASE e.command = "DeleteTab"
  <2>1. TouchesTab(e, x, y) /\ TouchesRows(e, x, y)
    BY <1>10 DEF Touches
  <2>2. PICK w : w = OneTab(NoUpdate, e.of, y)
    OBVIOUS
  <2>3. u = OldBlocks(w, e, y)
    BY <1>10, <2>2 DEF UpdateOf
  <2> HIDE DEF u
  <2>4. e.back = <<>> => Slugs(x) = Slugs(y)
    BY <1>3, <1>10 DEF Unlisted
  <2>5. PICK f, sent, noTabs :
          /\ w = Saying(f, sent, {}, <<>>, noTabs, {}, {})
          /\ DOMAIN f = {"order"} /\ f["order"] = y.order
          /\ IF e.of \in Range(y.order)
             THEN DOMAIN sent = {e.of} /\ sent[e.of] = StepIds(y, e.of) /\ noTabs = {}
             ELSE DOMAIN sent = {} /\ noTabs = {e.of}
    <3>1. SaysTab(w, y, e.of)
      BY <2>2, TabSaid
    <3> QED
      BY <3>1 DEF SaysTab
  <2>6. /\ TellsReport(u, x, y)
        /\ u.tabs = sent /\ u.steps = {} /\ u.clear_tabs = noTabs /\ u.clear_steps = {}
        /\ "order" \in DOMAIN u.workflow <=> "order" \in DOMAIN f
        /\ "order" \in DOMAIN f => u.workflow["order"] = f["order"]
    <3>1. "list" \notin DOMAIN f /\ "custom" \notin DOMAIN f
      BY <2>5
    <3>2. w = Saying(f, sent, {}, <<>>, noTabs, {}, {})
      BY <2>5
    <3> QED
      BY ONLY <2>1, <2>3, <2>4, <3>1, <3>2, RowsTell
  <2>7. x.steps = y.steps /\ \A t : t # e.of => (t \in Range(x.order) <=> t \in Range(y.order))
    BY <2>1 DEF TouchesTab
  <2>8. \A t : StepIds(x, t) = StepIds(y, t)
    BY <2>7, SameStepIds
  <2>9. TellsTabs(u, x, y)
    BY <2>5, <2>6, <2>7, <2>8 DEF TellsTabs
  <2> QED
    BY <2>6, <2>9 DEF u
<1> QED
  BY <1>2, <1>4, <1>5, <1>8, <1>9, <1>10 DEF Touches

-----------------------------------------------------------------------------
(* A browser.                                                              *)

(* The page, and what is sent when it connects: all there is, and all but  *)
(* the blocks.                                                             *)
LEMMA PageTold ==
  ASSUME NEW c, NEW w, NEW T, T = Range(FirstTabs) \ (Range(FirstTabs) \ Range(w.order))
  PROVE  /\ KnowsTabs(Apply(c, ToClientside(w)), w, T)
         /\ KnowsReport(c, w) => KnowsReport(Apply(c, ToClientside(w)), w)
         /\ KnowsTabs(Apply(c, Page(w)), w, T) /\ KnowsReport(Apply(c, Page(w)), w)
<1>0. DOMAIN <<>> = {}
  OBVIOUS
<1>1. PICK f : f = [order |-> w.order, custom |-> w.custom, list |-> Slugs(w)]
  OBVIOUS
<1>2. /\ DOMAIN f = {"order", "custom", "list"}
      /\ f["order"] = w.order /\ f["custom"] = w.custom /\ f["list"] = Slugs(w)
  BY <1>1
<1>3. PICK tabs : tabs = [t \in Range(w.order) |-> StepIds(w, t)]
  OBVIOUS
<1>4. DOMAIN tabs = Range(w.order) /\ \A t \in DOMAIN tabs : tabs[t] = StepIds(w, t)
  BY <1>3
<1>5. PICK S : S = LiveSteps(w)
  OBVIOUS
<1>6. PICK z : z = Contents(w, DOMAIN w.blocks)
  OBVIOUS
<1>7. DOMAIN z = DOMAIN w.blocks /\ \A b \in DOMAIN z : z[b] = Content(w.blocks[b])
  BY <1>6 DEF Contents
<1>8. PICK u : u = ToClientside(w)
  OBVIOUS
<1>9. u = Saying(f, tabs, S, <<>>, {}, {}, {})
  BY <1>1, <1>3, <1>5, <1>8 DEF ToClientside, NoUpdate, Saying
<1>10. PICK v : v = Page(w)
  OBVIOUS
<1>11. v = Saying(f, tabs, S, z, {}, {}, {})
  <2>1. v = [u EXCEPT !.blocks = z]
    BY <1>6, <1>8, <1>10 DEF Page
  <2>2. [u EXCEPT !.blocks = z] = Saying(f, tabs, S, z, {}, {}, {})
    BY ONLY <1>9, SayingFacts
  <2> QED
    BY <2>1, <2>2
<1>12. /\ u.workflow = f /\ u.tabs = tabs /\ u.steps = S /\ u.blocks = <<>>
       /\ u.clear_tabs = {} /\ u.clear_steps = {} /\ u.clear_blocks = {}
  BY ONLY <1>9, SayingFacts
<1>13. /\ v.workflow = f /\ v.tabs = tabs /\ v.steps = S /\ v.blocks = z
       /\ v.clear_tabs = {} /\ v.clear_steps = {} /\ v.clear_blocks = {}
  BY ONLY <1>11, SayingFacts
<1>14. ASSUME NEW q, q.workflow = f, q.tabs = tabs, q.steps = S, q.clear_tabs = {}, q.clear_steps = {}
       PROVE  KnowsTabs(Apply(c, q), w, T)
  <2>1. PICK d : d = Apply(c, q)
    OBVIOUS
  <2>2. /\ DOMAIN d.workflow = DOMAIN q.workflow \cup DOMAIN c.workflow
        /\ \A k \in DOMAIN q.workflow : d.workflow[k] = q.workflow[k]
        /\ d.steps = (c.steps \cup q.steps) \ q.clear_steps
        /\ DOMAIN d.tabs = (DOMAIN q.tabs \cup DOMAIN c.tabs) \ q.clear_tabs
        /\ \A t \in DOMAIN d.tabs : d.tabs[t] = IF t \in DOMAIN q.tabs THEN q.tabs[t] ELSE c.tabs[t]
    BY <2>1, Applying
  <2>3. "order" \in DOMAIN d.workflow /\ d.workflow["order"] = w.order
    BY <1>2, <1>14, <2>2
  <2>4. \A t \in Range(w.order) : t \in DOMAIN d.tabs /\ d.tabs[t] = StepIds(w, t)
    BY <1>4, <1>14, <2>2
  <2>5. \A s \in w.steps : TabOf[s] \in T => s \in d.steps
    BY <1>5, <1>14, <2>2 DEF LiveSteps
  <2> QED
    BY <2>1, <2>3, <2>4, <2>5 DEF KnowsTabs
<1>15. KnowsTabs(Apply(c, u), w, T) /\ KnowsTabs(Apply(c, v), w, T)
  BY <1>12, <1>13, <1>14
<1>16. KnowsReport(c, w) => KnowsReport(Apply(c, u), w)
  <2>1. TellsReport(u, w, w)
    BY <1>0, <1>2, <1>12 DEF TellsReport
  <2> QED
    BY <2>1, ReportLearnt
<1>17. KnowsReport(Apply(c, v), w)
  <2>1. PICK d : d = Apply(c, v)
    OBVIOUS
  <2>2. /\ DOMAIN d.workflow = DOMAIN v.workflow \cup DOMAIN c.workflow
        /\ \A k \in DOMAIN v.workflow : d.workflow[k] = v.workflow[k]
        /\ DOMAIN d.blocks = (DOMAIN v.blocks \cup DOMAIN c.blocks) \ v.clear_blocks
        /\ \A b \in DOMAIN d.blocks :
             d.blocks[b] = IF b \in DOMAIN v.blocks THEN v.blocks[b] ELSE c.blocks[b]
    BY <2>1, Applying
  <2>3. /\ {"custom", "list"} \subseteq DOMAIN d.workflow
        /\ d.workflow["custom"] = w.custom /\ d.workflow["list"] = Slugs(w)
    BY <1>2, <1>13, <2>2
  <2>4. \A b \in DOMAIN w.blocks : b \in DOMAIN d.blocks /\ d.blocks[b] = Content(w.blocks[b])
    BY <1>7, <1>13, <2>2
  <2> QED
    BY <2>1, <2>3, <2>4 DEF KnowsReport
<1> QED
  BY <1>8, <1>10, <1>15, <1>16, <1>17

(* The tabs whose steps the page was sent. *)
SeenTabs == Range(FirstTabs) \ unseen

(* A page that has had every update in turn knows the workflow; or it will *)
(* when it gets the one that is held back.                                 *)
IsCurrent ==
  /\ link \in {"none", "away", "loaded", "connected"}
  /\ behind \in BOOLEAN /\ missed \in BOOLEAN /\ overtaken \in BOOLEAN
  /\ held = <<>> \/ held = <<held[1]>>
  /\ (link = "connected" /\ ~behind) =>
       /\ held = <<>> => KnowsTabs(client, wf, SeenTabs)
       /\ (held # <<>> /\ ~overtaken) => KnowsTabs(Apply(client, held[1]), wf, SeenTabs)
  /\ ~missed =>
       /\ (link \in {"loaded", "connected"} /\ held = <<>>) => KnowsReport(client, wf)
       /\ (link = "connected" /\ held # <<>> /\ ~overtaken) =>
            KnowsReport(Apply(client, held[1]), wf)

(* What a step along a delta sends. *)
LEMMA SentOn ==
  ASSUME Inv, Inv', IsCurrent, NEW e, Follows(e), Send(UpdateOf(e, wf'))
  PROVE  IsCurrent'
<1>1. PICK u : u = UpdateOf(e, wf')
  OBVIOUS
<1>2. TellsTabs(u, wf, wf') /\ TellsReport(u, wf, wf')
  <2>1. PICK x, y : x = wf /\ y = wf'
    OBVIOUS
  <2>2. Sound(x) /\ Sound(y)
    BY <2>1 DEF Inv
  <2>3. Touches(e, x, y) /\ (Forward(x, e) = Fine(y) \/ Backward(x, e) = Fine(y))
    BY <2>1 DEF Follows
  <2>4. TellsTabs(UpdateOf(e, y), x, y) /\ TellsReport(UpdateOf(e, y), x, y)
    BY ONLY <2>2, <2>3, UpdateTells
  <2> QED
    BY <1>1, <2>1, <2>4
<1>3. Send(u)
  BY <1>1
<1>4. link' = link /\ unseen' = unseen
  BY <1>3 DEF Send
<1>5. SeenTabs' = SeenTabs
  BY <1>4 DEF SeenTabs
<1>6. CASE Received(u) /\ overtaken' = (held # <<>>) /\ held' = held
  <2>1. CASE link = "connected"
    <3>1. client' = Apply(client, u) /\ behind' = behind /\ missed' = missed
      BY <1>6, <2>1 DEF Received
    <3>2. held' = <<>> => (KnowsTabs(client, wf, SeenTabs) => KnowsTabs(client', wf', SeenTabs'))
      BY <1>2, <1>5, <3>1, TabsLearnt
    <3>3. held' = <<>> => (KnowsReport(client, wf) => KnowsReport(client', wf'))
      BY <1>2, <3>1, ReportLearnt
    <3>4. overtaken' \in BOOLEAN /\ (held' # <<>> => overtaken')
      BY <1>6
    <3> QED
      BY <1>4, <1>6, <2>1, <3>1, <3>2, <3>3, <3>4 DEF IsCurrent
  <2>2. CASE link # "connected"
    <3>1. behind' = (behind \/ link = "loaded") /\ missed' = (missed \/ link = "loaded")
      BY <1>6, <2>2 DEF Received
    <3>2. overtaken' \in BOOLEAN /\ behind' \in BOOLEAN /\ missed' \in BOOLEAN
      BY <1>6, <3>1
    <3>3. link = "loaded" => missed'
      BY <3>1
    <3> QED
      BY <1>4, <1>6, <2>2, <3>2, <3>3 DEF IsCurrent
  <2> QED
    BY <2>1, <2>2
<1>7. CASE /\ held = <<>> /\ held' = <<u>> /\ overtaken' = FALSE
           /\ client' = client /\ behind' = behind /\ missed' = missed
  <2>1. held' # <<>> /\ held'[1] = u /\ held' = <<held'[1]>>
    BY <1>7
  <2>2. KnowsTabs(client, wf, SeenTabs) => KnowsTabs(Apply(client', held'[1]), wf', SeenTabs')
    BY <1>2, <1>5, <1>7, <2>1, TabsLearnt
  <2>3. KnowsReport(client, wf) => KnowsReport(Apply(client', held'[1]), wf')
    BY <1>2, <1>7, <2>1, ReportLearnt
  <2> QED
    BY <1>4, <1>7, <2>1, <2>2, <2>3 DEF IsCurrent
<1> QED
  BY <1>3, <1>6, <1>7 DEF Send

(* What commands, undo and redo send. *)
LEMMA ServerSends ==
  ASSUME Inv, IsCurrent, ServerDoes \/ ServerUndoes \/ ServerRedoes
  PROVE  Inv' /\ [Next]_vars /\ IsCurrent'
<1>1. CASE ServerUndoes
  <2>1. Undo /\ Send(UpdateOf(Last(Applied), wf'))
    BY <1>1 DEF ServerUndoes
  <2>2. Inv' /\ Follows(Last(Applied))
    BY <2>1, UndoStep
  <2>3. PICK e : e = Last(Applied)
    OBVIOUS
  <2>4. IsCurrent'
    BY <2>1, <2>2, <2>3, SentOn
  <2> QED
    BY <2>1, <2>2, <2>4 DEF Next
<1>2. CASE ServerRedoes
  <2>1. Redo /\ Send(UpdateOf(Head(Undone), wf'))
    BY <1>2 DEF ServerRedoes
  <2>2. Inv' /\ Follows(Head(Undone))
    BY <2>1, RedoStep
  <2>3. PICK e : e = Head(Undone)
    OBVIOUS
  <2>4. IsCurrent'
    BY <2>1, <2>2, <2>3, SentOn
  <2> QED
    BY <2>1, <2>2, <2>4 DEF Next
<1>3. CASE ServerDoes
  <2>1. \/ AddBlock \/ DeleteBlock \/ ReorderBlocks \/ SetBlockMarkdown
        \/ AddStep \/ DeleteStep \/ DeleteTab \/ ReorderTabs
    BY <1>3 DEF ServerDoes
  <2>2. HandlerDid
    BY <2>1, AddBlockDone, DeleteBlockDone, ReorderBlocksDone, SetBlockMarkdownDone,
       AddStepDone, DeleteStepDone, DeleteTabDone, ReorderTabsDone
  <2>3. Inv' /\ \E e : deltas' = Append(Applied, e) /\ Follows(e)
    BY <2>2, CommandStep
  <2>4. PICK e : deltas' = Append(Applied, e) /\ Follows(e)
    BY <2>3
  <2>5. ~failed'
    BY <2>3 DEF Inv
  <2>6. Last(deltas') = e
    <3>1. PICK p : p = Applied
      OBVIOUS
    <3>2. PICK R : R = Range(deltas)
      OBVIOUS
    <3>3. p \in Seq(R)
      BY <3>1, <3>2, AppliedFacts DEF Inv
    <3>4. p \in Seq(R \cup {e}) /\ e \in R \cup {e}
      <4>1. R \subseteq R \cup {e}
        OBVIOUS
      <4> QED
        BY <3>3, <4>1
    <3>5. Len(Append(p, e)) = Len(p) + 1 /\ Append(p, e)[Len(p) + 1] = e
      BY <3>4, AppendProperties
    <3>6. Last(Append(p, e)) = e
      BY <3>5 DEF Last
    <3> QED
      BY <2>4, <3>1, <3>6
  <2>7. Send(UpdateOf(e, wf'))
    BY <1>3, <2>5, <2>6 DEF ServerDoes
  <2>8. IsCurrent'
    BY <2>3, <2>4, <2>7, SentOn
  <2> QED
    BY <2>1, <2>3, <2>8 DEF Next
<1> QED
  BY <1>1, <1>2, <1>3

(* What else happens to a page. *)
LEMMA PageSteps ==
  ASSUME Inv, IsCurrent,
         SendHeld \/ LoadPage \/ Connect \/ Disconnect \/ UNCHANGED <<vars, clientVars>>
  PROVE  UNCHANGED vars /\ IsCurrent'
<1>1. CASE SendHeld
  <2>1. UNCHANGED vars /\ link' = link /\ unseen' = unseen /\ held # <<>> /\ held' = <<>>
        /\ overtaken' = FALSE
    BY <1>1 DEF SendHeld
  <2>2. wf' = wf /\ SeenTabs' = SeenTabs
    BY <2>1 DEF vars, SeenTabs
  <2>3. CASE link = "connected"
    <3>1. /\ client' = Apply(client, held[1])
          /\ behind' = (behind \/ overtaken) /\ missed' = (missed \/ overtaken)
      BY <1>1, <2>3 DEF SendHeld
    <3>2. behind' \in BOOLEAN /\ missed' \in BOOLEAN
      BY <3>1
    <3>3. (~behind' => ~behind /\ ~overtaken) /\ (~missed' => ~missed /\ ~overtaken)
      BY <3>1
    <3> QED
      BY <2>1, <2>2, <2>3, <3>1, <3>2, <3>3 DEF IsCurrent
  <2>4. CASE link # "connected"
    <3>1. behind' = (behind \/ link = "loaded") /\ missed' = (missed \/ link = "loaded")
      BY <1>1, <2>4 DEF SendHeld, Received
    <3>2. behind' \in BOOLEAN /\ missed' \in BOOLEAN /\ (link = "loaded" => missed')
      BY <3>1
    <3> QED
      BY <2>1, <2>4, <3>2 DEF IsCurrent
  <2> QED
    BY <2>1, <2>3, <2>4
<1>2. CASE LoadPage
  <2>1. /\ UNCHANGED vars /\ held' = held /\ link' = "loaded"
        /\ client' = Apply(Blank, Page(wf)) /\ behind' = FALSE /\ missed' = FALSE
        /\ overtaken' = (held # <<>>)
    BY <1>2 DEF LoadPage
  <2>2. wf' = wf
    BY <2>1 DEF vars
  <2>3. KnowsReport(Apply(Blank, Page(wf)), wf)
    BY PageTold
  <2>4. overtaken' \in BOOLEAN
    BY <2>1
  <2> QED
    BY <2>1, <2>2, <2>3, <2>4 DEF IsCurrent
<1>3. CASE Connect
  <2>1. /\ UNCHANGED vars /\ held' = held /\ link = "loaded" /\ link' = "connected"
        /\ client' = Apply(client, ToClientside(wf)) /\ behind' = FALSE /\ missed' = missed
        /\ overtaken' = (held # <<>>) /\ unseen' = Range(FirstTabs) \ Range(wf.order)
    BY <1>3 DEF Connect
  <2>2. wf' = wf
    BY <2>1 DEF vars
  <2>3. SeenTabs' = Range(FirstTabs) \ (Range(FirstTabs) \ Range(wf.order))
    BY <2>1 DEF SeenTabs
  <2>4. KnowsTabs(client', wf', SeenTabs')
    BY <2>1, <2>2, <2>3, PageTold
  <2>5. KnowsReport(client, wf) => KnowsReport(client', wf')
    <3>1. PICK T : T = Range(FirstTabs) \ (Range(FirstTabs) \ Range(wf.order))
      OBVIOUS
    <3>2. KnowsReport(client, wf) => KnowsReport(Apply(client, ToClientside(wf)), wf)
      BY ONLY <3>1, PageTold
    <3> QED
      BY <2>1, <2>2, <3>2
  <2>6. overtaken' \in BOOLEAN /\ (held' # <<>> => overtaken')
    BY <2>1
  <2> QED
    BY <2>1, <2>4, <2>5, <2>6 DEF IsCurrent
<1>4. CASE Disconnect
  <2>1. /\ UNCHANGED vars /\ link = "connected" /\ link' = "loaded"
        /\ client' = client /\ held' = held /\ overtaken' = overtaken
        /\ behind' = behind /\ missed' = missed /\ unseen' = unseen
    BY <1>4 DEF Disconnect
  <2>2. wf' = wf
    BY <2>1 DEF vars
  <2> QED
    BY <2>1, <2>2 DEF IsCurrent
<1>5. CASE UNCHANGED <<vars, clientVars>>
  BY <1>5 DEF vars, clientVars, IsCurrent, SeenTabs
<1> QED
  BY <1>1, <1>2, <1>3, <1>4, <1>5

(* A browser only looks on. *)
LEMMA ClientStep ==
  ASSUME Inv, IsCurrent, [ClientNext]_<<vars, clientVars>>
  PROVE  Inv' /\ [Next]_vars /\ IsCurrent'
<1>1. CASE ServerDoes \/ ServerUndoes \/ ServerRedoes
  BY <1>1, ServerSends
<1>2. CASE SendHeld \/ LoadPage \/ Connect \/ Disconnect \/ UNCHANGED <<vars, clientVars>>
  <2>1. UNCHANGED vars /\ IsCurrent'
    BY <1>2, PageSteps
  <2>2. Inv'
    BY <2>1, NextOutcome
  <2> QED
    BY <2>1, <2>2
<1> QED
  BY <1>1, <1>2 DEF ClientNext

LEMMA ClientStart == ASSUME ClientInit PROVE Inv /\ IsCurrent
<1>1. Inv
  BY InvInit DEF ClientInit
<1>2. IsCurrent
  BY DEF ClientInit, IsCurrent
<1> QED
  BY <1>1, <1>2

LEMMA ClientInvariance == ClientSpec => [](Inv /\ IsCurrent)
<1>1. ClientInit => Inv /\ IsCurrent
  BY ClientStart
<1>2. Inv /\ IsCurrent /\ [ClientNext]_<<vars, clientVars>> => (Inv /\ IsCurrent)'
  BY ClientStep
<1> QED
  BY <1>1, <1>2, PTL DEF ClientSpec

(* A browser changes nothing of what the server does: what is proved of    *)
(* Spec holds beside it (websockets_notify() only sends).                  *)
THEOREM ClientsOnlyLookOn == ClientSpec => Spec
<1>1. ClientInit => Init
  BY DEF ClientInit
<1>2. Inv /\ IsCurrent /\ [ClientNext]_<<vars, clientVars>> => [Next]_vars
  BY ClientStep
<1> QED
  BY <1>1, <1>2, ClientInvariance, PTL DEF ClientSpec, Spec

(* A page that is connected and has had every update in turn shows what    *)
(* the server has, through any do, undo and redo, with whatever delta      *)
(* (load_clientside_update() of all eight commands, applyUpdate.js): each  *)
(* update tells all that its command has changed.                          *)
THEOREM ClientStaysCurrent == ClientSpec => []ClientKeepsUp
<1>1. ASSUME Inv, IsCurrent
      PROVE  ClientKeepsUp
  <2> SUFFICES ASSUME link = "connected", held = <<>>, ~behind
               PROVE  ClientKeepsUp
    BY DEF ClientKeepsUp
  <2>1. PICK w, c : w = wf /\ c = client
    OBVIOUS
  <2>2. Sound(w) /\ AreParts(w.steps, w.order)
    BY <1>1, <2>1 DEF Inv, Sound
  <2>3. KnowsTabs(c, w, SeenTabs)
    BY <1>1, <2>1 DEF IsCurrent
  <2>4. c.workflow.order = w.order
    BY <2>3 DEF KnowsTabs
  <2>5. ASSUME NEW t \in Range(w.order)
        PROVE  /\ t \in DOMAIN c.tabs /\ c.tabs[t] = StepIds(w, t)
               /\ t \notin unseen => Range(c.tabs[t]) \subseteq c.steps
    <3>1. t \in DOMAIN c.tabs /\ c.tabs[t] = StepIds(w, t)
      BY <2>3, <2>5 DEF KnowsTabs
    <3>2. PICK S : S = {s \in w.steps : TabOf[s] = t}
      OBVIOUS
    <3>3. IsFiniteSet(S) /\ S \subseteq Nat
      <4>1. S \subseteq DOMAIN TabOf
        BY <2>2, <3>2 DEF AreParts
      <4> QED
        BY <4>1, TabsAndSteps, FS_Subset
    <3>4. Range(c.tabs[t]) \subseteq S
      BY <3>1, <3>2, <3>3, AscendingFacts DEF StepIds
    <3>5. t \in Range(FirstTabs)
      <4>1. w.order \in Seq(Range(FirstTabs))
        BY <2>2 DEF AreParts, IsOrder
      <4>2. Range(w.order) \subseteq Range(FirstTabs)
        <5>1. PICK R : R = Range(FirstTabs)
          OBVIOUS
        <5>2. PICK l : l = w.order
          OBVIOUS
        <5>3. l \in Seq(R)
          BY <4>1, <5>1, <5>2
        <5>4. \A i \in DOMAIN l : l[i] \in R
          BY <5>3
        <5> QED
          BY <5>1, <5>2, <5>4 DEF Range
      <4> QED
        BY <2>5, <4>2
    <3>6. t \notin unseen => S \subseteq c.steps
      BY <2>3, <3>2, <3>5 DEF KnowsTabs, SeenTabs
    <3> QED
      BY <3>1, <3>4, <3>6
  <2>6. ASSUME ~missed
        PROVE  /\ c.workflow.custom = w.custom
               /\ w.custom =>
                    /\ c.workflow.list = Slugs(w)
                    /\ DOMAIN w.blocks \subseteq DOMAIN c.blocks
                    /\ Contents(w, DOMAIN w.blocks) = Restrict(c.blocks, DOMAIN w.blocks)
    <3>1. KnowsReport(c, w)
      BY <1>1, <2>1, <2>6 DEF IsCurrent
    <3>2. c.workflow.custom = w.custom /\ (w.custom => c.workflow.list = Slugs(w))
      BY <3>1 DEF KnowsReport
    <3>3. w.custom => \A b \in DOMAIN w.blocks :
                        b \in DOMAIN c.blocks /\ c.blocks[b] = Content(w.blocks[b])
      BY <3>1 DEF KnowsReport
    <3>4. w.custom => /\ DOMAIN w.blocks \subseteq DOMAIN c.blocks
                      /\ Contents(w, DOMAIN w.blocks) = Restrict(c.blocks, DOMAIN w.blocks)
      BY <3>3 DEF Contents, Restrict
    <3> QED
      BY <3>2, <3>4
  <2> QED
    BY <2>1, <2>4, <2>5, <2>6 DEF ClientKeepsUp
<1> QED
  BY <1>1, ClientInvariance, PTL
=============================================================================
