---------------------------- MODULE UndoHistory ----------------------------
(***************************************************************************)
(* What undo and redo promise of one piece of a workflow: the order of its *)
(* tabs, its steps, its report.  A history is the states the user may go   *)
(* back to, the state on screen, and the states the user may go forward to *)
(* again.  Old ends of it may be forgotten.                                *)
(*                                                                         *)
(* Once two users have raced for one tab, nothing is promised any more.    *)
(***************************************************************************)
EXTENDS SequencesExt

CONSTANTS IsState(_)   \* is it a state the piece may be in?

VARIABLES past, present, future, raced

vars == <<past, present, future, raced>>

Init ==
  /\ IsState(present)
  /\ past = <<>> /\ future = <<>> /\ raced = FALSE

Do ==
  /\ past' = Append(past, present)
  /\ IsState(present')
  /\ future' = <<>>

Undo ==
  /\ past # <<>>
  /\ past' = Front(past)
  /\ present' = Last(past)
  /\ future' = <<present>> \o future

Redo ==
  /\ future # <<>>
  /\ past' = Append(past, present)
  /\ present' = Head(future)
  /\ future' = Tail(future)

Forget ==
  /\ \E i \in 1 .. Len(past) + 1 : past' = SubSeq(past, i, Len(past))
  /\ \E j \in 0 .. Len(future) : future' = SubSeq(future, 1, j)
  /\ UNCHANGED present

Next == raced' \/ (UNCHANGED raced /\ (Do \/ Undo \/ Redo \/ Forget))

Spec == Init /\ [][Next]_vars
=============================================================================
