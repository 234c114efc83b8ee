---------------------------- MODULE ReportHistory ---------------------------
(***************************************************************************)
(* The report of one workflow through do, undo and redo: the commands on   *)
(* blocks in cjwstate/models/commands/, the blocks that DeleteStep and     *)
(* DeleteTab take with them, and cjwstate/models/dbutil.py, which moves    *)
(* blocks one row at a time because Postgres lets no two of them have one  *)
(* position, not even inside a transaction.                                *)
(*                                                                         *)
(* A workflow starts with no blocks and an "auto-report": a chart of each  *)
(* step that has one, in the order of tabs and steps.  The first command   *)
(* on a block makes a custom report of it.                                 *)
(***************************************************************************)
EXTENDS Integers, SequencesExt

CONSTANTS FirstTabs,    \* the tabs, in order
          TabOf,        \* TabOf[s]: the tab of step s; each step has a chart
          FirstSteps,   \* the steps that exist at first
          Markdowns,    \* what users write in Text blocks
          MaxBlocks,    \* bound: blocks in the report
          MaxLag,       \* bound: blocks that others deleted and a browser still counts
          MaxEdits      \* bound: commands

ASSUME ReportBounds == /\ FirstSteps \subseteq DOMAIN TabOf
                       /\ {MaxBlocks, MaxLag, MaxEdits} \subseteq Nat

ASSUME TabsAndSteps ==
  /\ FirstTabs \in Seq(Range(FirstTabs)) /\ IsInjective(FirstTabs)
  /\ IsFiniteSet(DOMAIN TabOf) /\ DOMAIN TabOf \subseteq Nat

VARIABLES
  wf,      \* workflow.has_custom_report, the rows of table "block" by slug, the
           \* steps that are not deleted, and the order of live_tabs
  deltas,  \* the rows of table "delta"
  last,    \* workflow.last_delta_id
  now,     \* commands so far
  failed,  \* has Postgres refused a command? (auxiliary)
  closed   \* has ReorderBlocks closed gaps between positions? (auxiliary)

vars == <<wf, deltas, last, now, failed, closed>>

-----------------------------------------------------------------------------
(* A table of blocks is [rows, ok]: ok until an update would give a block  *)
(* the position of another.                                                *)

Table(rows) == [rows |-> rows, ok |-> TRUE]

IsFree(rows, p) == \A b \in DOMAIN rows : rows[b].position # p

(* The i-th row has fewer than i before it.                                *)
ByPosition(rows) ==
  [i \in 1 .. Cardinality(DOMAIN rows) |->
     CHOOSE b \in DOMAIN rows :
       /\ Cardinality({c \in DOMAIN rows : rows[c].position < rows[b].position}) < i
       /\ Cardinality({c \in DOMAIN rows : rows[c].position <= rows[b].position}) >= i]

(* The rows B move one at a time: the last goes first if dir is 1, and the *)
(* first if it is -1.                                                      *)
Moved(table, B, by, dir) ==
  LET rows == table.rows
      old(b) == rows[b].position
      new(b) == old(b) + by
      first(c, b) == c \in B /\ dir * old(c) > dir * old(b)
  IN  [rows |-> [b \in DOMAIN rows |->
                   IF b \in B THEN [rows[b] EXCEPT !.position = @ + by] ELSE rows[b]],
       ok   |-> table.ok /\ \A b \in B : \A c \in DOMAIN rows \ {b} :
                              new(b) # IF first(c, b) THEN new(c) ELSE old(c)]

From(rows, p)  == {b \in DOMAIN rows : rows[b].position >= p}
After(rows, p) == {b \in DOMAIN rows : rows[b].position > p}

(* Mutant: the rows are moved from the first on.                           *)
MakeGapForwards(table, p) == Moved(table, From(table.rows, p), 1, -1)

(* make_gap_in_list(): from the last row back.                             *)
MakeGap(table, p) == Moved(table, From(table.rows, p), 1, 1)

(* remove_gap_from_list() *)
RemoveGap(table, p) == Moved(table, After(table.rows, p), -1, -1)

PlaceOf(list, x) == CHOOSE i \in DOMAIN list : list[i] = x

(* reorder_list_by_slugs(): by way of negative numbers. *)
Arranged(table, list) ==
  LET rows == table.rows
      away(b) == -1 - rows[b].position
  IN  [rows |-> [b \in DOMAIN rows |->
                   [rows[b] EXCEPT !.position =
                      IF b \in Range(list) THEN PlaceOf(list, b) - 1 ELSE away(b)]],
       ok   |-> /\ table.ok
                /\ Cardinality(DOMAIN rows) = Len(list)
                /\ \A b, c \in DOMAIN rows : away(b) # rows[c].position
                /\ \A i \in DOMAIN list, b \in DOMAIN rows :
                     away(b) = i - 1 => \E j \in 1 .. i : list[j] = b]

Created(table, b, row) ==
  [rows |-> [c \in DOMAIN table.rows \cup {b} |-> IF c = b THEN row ELSE table.rows[c]],
   ok   |-> table.ok /\ b \notin DOMAIN table.rows /\ IsFree(table.rows, row.position)]

Without(rows, B) == Restrict(rows, DOMAIN rows \ B)

(* block.delete(), remove_gap_from_list() *)
Deleted(rows, b) == RemoveGap(Table(Without(rows, {b})), rows[b].position)

(* ... of several blocks (DeleteStep.forward, DeleteTab.forward), from the *)
(* last ...                                                                *)
DeletedTogether(rows, B) ==
  LET list == Reverse(ByPosition(Restrict(rows, B)))
      after[i \in 0 .. Len(list)] ==
        IF i = 0 THEN Table(Without(rows, B)) ELSE RemoveGap(after[i - 1], rows[list[i]].position)
  IN  after[Len(list)]

(* ... and back (DeleteStep.backward, DeleteTab.backward), from the first. *)
Recreated(rows, old) ==
  LET list == ByPosition(old)
      after[i \in 0 .. Len(list)] ==
        IF i = 0 THEN Table(rows)
        ELSE Created(MakeGap(after[i - 1], old[list[i]].position), list[i], old[list[i]])
  IN  after[Len(list)]

-----------------------------------------------------------------------------
(* build_auto_report_for_workflow(): a block for each live step. *)

LiveSteps(w) == {s \in w.steps : TabOf[s] \in Range(w.order)}

AutoSlug(s) == <<"auto", s>>
NewSlug(id) == <<"new", id>>

Chart(s, p) == [position |-> p, type |-> "Chart", of |-> s]

AutoReport(w) ==
  LET place(t) == PlaceOf(w.order, t)
      before(r, s) == \/ place(TabOf[r]) < place(TabOf[s])
                      \/ TabOf[r] = TabOf[s] /\ r < s
  IN  [b \in {AutoSlug(s) : s \in LiveSteps(w)} |->
         Chart(b[2], Cardinality({r \in LiveSteps(w) : before(r, b[2])}))]

Blocks(w) == IF w.custom THEN w.blocks ELSE AutoReport(w)

(* The rows of a step, of a tab and of its steps (_blocks_q()). *)
RowsOfStep(w, s) == {b \in DOMAIN w.blocks : w.blocks[b].type = "Chart" /\ w.blocks[b].of = s}

(* Mutant: a tab's charts are left.                                        *)
TablesOfTab(w, t) ==
  {b \in DOMAIN w.blocks : w.blocks[b].type = "Table" /\ w.blocks[b].of = t}

RowsOfTab(w, t) ==
  {b \in DOMAIN w.blocks :
     LET row == w.blocks[b]
     IN  \/ row.type = "Table" /\ row.of = t
         \/ row.type = "Chart" /\ TabOf[row.of] = t}

WithTable(w, table) == [wf |-> [w EXCEPT !.custom = TRUE, !.blocks = table.rows], ok |-> table.ok]
Back(w, table)      == [wf |-> [w EXCEPT !.blocks = table.rows], ok |-> table.ok]
Fine(w)             == [wf |-> w, ok |-> TRUE]

(* DeleteBlock of an auto-report saves the other blocks in order; AddBlock *)
(* and ReorderBlocks save them all, and go on from there.                  *)
Forward(w, e) ==
  LET report == Table(Blocks(w)) IN
  CASE e.command = "AddBlock" ->
         WithTable(w, Created(MakeGap(report, e.forth.position), e.slug, e.forth))
    [] e.command = "DeleteBlock" -> WithTable(w, Deleted(report.rows, e.slug))
    [] e.command = "ReorderBlocks" -> WithTable(w, Arranged(report, e.forth))
    [] e.command = "SetBlockMarkdown" -> Fine([w EXCEPT !.blocks[e.slug].of = e.forth])
    [] e.command = "AddStep" -> Fine([w EXCEPT !.steps = @ \cup {e.of}])
    [] e.command = "DeleteStep" ->
         Back([w EXCEPT !.steps = @ \ {e.of}], DeletedTogether(w.blocks, RowsOfStep(w, e.of)))
    [] e.command = "DeleteTab" ->
         Back([w EXCEPT !.order = RemoveAt(@, PlaceOf(@, e.of))],
              DeletedTogether(w.blocks, RowsOfTab(w, e.of)))
    [] e.command = "ReorderTabs" -> Fine([w EXCEPT !.order = e.forth])

(* Mutant: undo leaves a custom report.                                    *)
BackToAutoKeepsCustom(w) == Fine([w EXCEPT !.blocks = <<>>])

BackToAuto(w) == Fine([w EXCEPT !.custom = FALSE, !.blocks = <<>>])

Backward(w, e) ==
  IF e.wasAuto /\ e.command \in {"AddBlock", "DeleteBlock", "ReorderBlocks"} THEN BackToAuto(w)
  ELSE CASE e.command = "AddBlock" -> Back(w, Deleted(w.blocks, e.slug))
         [] e.command = "DeleteBlock" ->
              Back(w, Created(MakeGap(Table(w.blocks), e.back.position), e.slug, e.back))
         [] e.command = "ReorderBlocks" -> Back(w, Arranged(Table(w.blocks), e.back))
         [] e.command = "SetBlockMarkdown" -> Fine([w EXCEPT !.blocks[e.slug].of = e.back])
         [] e.command = "AddStep" -> Fine([w EXCEPT !.steps = @ \ {e.of}])
         [] e.command = "DeleteStep" ->
              Back([w EXCEPT !.steps = @ \cup {e.of}], Recreated(w.blocks, e.back))
         [] e.command = "DeleteTab" ->
              Back([w EXCEPT !.order = InsertAt(@, e.at, e.of)], Recreated(w.blocks, e.back))
         [] e.command = "ReorderTabs" -> Fine([w EXCEPT !.order = e.back])

-----------------------------------------------------------------------------
(* The delta chain (cjwstate/commands.py): the transaction commits, or     *)
(* IntegrityError rolls it back.                                           *)

(* The applied ones come first. *)
NApplied == CHOOSE n \in 0 .. Len(deltas) :
              \A i \in DOMAIN deltas : deltas[i].id <= last <=> i <= n
Applied  == SubSeq(deltas, 1, NApplied)
Undone   == SubSeq(deltas, NApplied + 1, Len(deltas))

Commit(result, es, l) ==
  IF result.ok
  THEN wf' = result.wf /\ deltas' = es /\ last' = l /\ UNCHANGED failed
  ELSE failed' = TRUE /\ UNCHANGED <<wf, deltas, last>>

(* The report as readers see it, which each delta keeps from before and   *)
(* after it (auxiliary).                                                   *)
Seen(w) == [custom |-> w.custom, steps |-> LiveSteps(w), tabs |-> w.order,
            list |-> LET list == ByPosition(w.blocks)
                     IN  [i \in DOMAIN list |->
                            <<list[i], w.blocks[list[i]].type, w.blocks[list[i]].of>>]]

HasGaps(rows) == \E b \in DOMAIN rows : rows[b].position >= Cardinality(DOMAIN rows)

Do(command, slug, of, at, back, forth) ==
  LET e == [id |-> now + 1, command |-> command, slug |-> slug, of |-> of, at |-> at,
            back |-> back, forth |-> forth, wasAuto |-> ~wf.custom,
            before |-> Seen(wf), after |-> Seen(wf)]
      result == Forward(wf, e)
  IN  /\ now < MaxEdits /\ now' = now + 1
      /\ Commit(result, Append(Applied, [e EXCEPT !.after = Seen(result.wf)]), e.id)
      /\ closed' = (closed \/ (command = "ReorderBlocks" /\ HasGaps(wf.blocks)))

Undo ==
  /\ Applied # <<>>
  /\ LET n == Len(Applied)
     IN  Commit(Backward(wf, Last(Applied)), deltas, IF n = 1 THEN 0 ELSE Applied[n - 1].id)
  /\ UNCHANGED <<now, closed>>

Redo ==
  /\ Undone # <<>>
  /\ Commit(Forward(wf, Head(Undone)), deltas, Head(Undone).id)
  /\ UNCHANGED <<now, closed>>

None == <<"", 0>>

(* AddBlock, of something that lives.  The position is the browser's, and  *)
(* nobody checks it: somebody may just have deleted other blocks.          *)
AddBlock ==
  /\ Cardinality(DOMAIN Blocks(wf)) < MaxBlocks
  /\ \E p \in 0 .. Cardinality(DOMAIN Blocks(wf)) + MaxLag :
       \/ \E s \in LiveSteps(wf) : Do("AddBlock", NewSlug(now), 0, 0, 0, Chart(s, p))
       \/ \E t \in Range(wf.order) :
            Do("AddBlock", NewSlug(now), 0, 0, 0, [position |-> p, type |-> "Table", of |-> t])
       \/ \E m \in Markdowns :
            Do("AddBlock", NewSlug(now), 0, 0, 0, [position |-> p, type |-> "Text", of |-> m])

DeleteBlock ==
  \E b \in DOMAIN Blocks(wf) : Do("DeleteBlock", b, 0, 0, Blocks(wf)[b], 0)

ReorderBlocks ==
  LET old == ByPosition(Blocks(wf)) IN
  \E new \in SetToSeqs(Range(old)) \ {old} : Do("ReorderBlocks", None, 0, 0, old, new)

SetBlockMarkdown ==
  \E b \in DOMAIN wf.blocks :
    /\ wf.blocks[b].type = "Text"
    /\ \E m \in Markdowns \ {wf.blocks[b].of} :
         Do("SetBlockMarkdown", b, 0, 0, wf.blocks[b].of, m)

AddStep == \E s \in DOMAIN TabOf :
  /\ s \notin wf.steps
  /\ \A i \in DOMAIN deltas : deltas[i].command \in {"AddStep", "DeleteStep"} => deltas[i].of # s
  /\ TabOf[s] \in Range(wf.order)
  /\ Do("AddStep", None, s, 0, 0, 0)

DeleteStep ==
  \E s \in LiveSteps(wf) :
    Do("DeleteStep", None, s, 0, Restrict(wf.blocks, RowsOfStep(wf, s)), 0)

DeleteTab ==
  /\ Len(wf.order) > 1
  /\ \E i \in DOMAIN wf.order :
       LET t == wf.order[i]
       IN  Do("DeleteTab", None, t, i, Restrict(wf.blocks, RowsOfTab(wf, t)), 0)

ReorderTabs ==
  \E new \in SetToSeqs(Range(wf.order)) \ {wf.order} :
    Do("ReorderTabs", None, 0, 0, wf.order, new)

Init ==
  /\ wf = [custom |-> FALSE, blocks |-> <<>>, steps |-> FirstSteps, order |-> FirstTabs]
  /\ deltas = <<>> /\ last = 0 /\ now = 0
  /\ failed = FALSE /\ closed = FALSE

Next ==
  \/ Undo \/ Redo
  \/ AddBlock \/ DeleteBlock \/ ReorderBlocks \/ SetBlockMarkdown
  \/ AddStep \/ DeleteStep \/ DeleteTab \/ ReorderTabs

Spec == Init /\ [][Next]_vars

-----------------------------------------------------------------------------
(* Properties.                                                             *)

(* A report that is not custom has no rows ("If (and only if) a Workflow's *)
(* has_custom_report is True, there can be zero or more Blocks",           *)
(* models/block.py); positions are from 0; and blocks are about steps and  *)
(* tabs that live -- "When deleting a Tab, you must explicitly delete its  *)
(* Blocks first" -- through all undos and redos.                           *)
ReportIsSound ==
  /\ wf.blocks = <<>> \/ wf.custom
  /\ \A b \in DOMAIN wf.blocks :
       LET row == wf.blocks[b] IN
       /\ row.position \in Nat
       /\ row.type = "Chart" => row.of \in LiveSteps(wf)
       /\ row.type = "Table" => row.of \in Range(wf.order)
       /\ row.type = "Text"  => row.of \in Markdowns

(* Postgres refuses no do, undo or redo: the rows move in an order in      *)
(* which no two have one position ("write one row at a time to avoid       *)
(* conflict", dbutil.py), and slugs stay unique.                           *)
NoCommandIsRefused == ~failed

(* Undo and redo keep what UndoHistory promises of the report as readers   *)
(* see it: undo gives back each block of a deleted step or tab, between    *)
(* the same neighbours, and the auto-report.  Unless ReorderBlocks has     *)
(* closed a gap, which its undo does not open again: the positions that    *)
(* older deltas go by are another block's then, and redo puts a block in   *)
(* another place than the user had put it.                                 *)
IsReport(r) == r.custom \/ r.list = <<>>

History == INSTANCE UndoHistory WITH
  IsState <- IsReport,
  past <- [i \in DOMAIN Applied |-> Applied[i].before],
  present <- Seen(wf), future <- [i \in DOMAIN Undone |-> Undone[i].after],
  raced <- closed

ImplementsUndoHistory == History!Spec
=============================================================================
