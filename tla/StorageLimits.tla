--------------------------- MODULE StorageLimits ----------------------------
(***************************************************************************)
(* cjwstate/util.py: which of a step's fetched versions, or of its         *)
(* uploaded files, go when another comes.                                  *)
(***************************************************************************)
EXTENDS Integers, SequencesExt

CONSTANTS MaxRows,   \* settings.MAX_N_FETCHES_PER_STEP, MAX_N_FILES_PER_STEP
          MaxBytes   \* settings.MAX_BYTES_FETCHES_PER_STEP, MAX_BYTES_FILES_PER_STEP

ASSUME LimitsAreNumbers == {MaxRows, MaxBytes} \subseteq Nat

(* find_deletable_ids(): never the newest; and of the others those past    *)
(* one of the limits, counted from the newest.                             *)
Deletable(stored) ==
  LET NotOlder(v) == {w \in DOMAIN stored : w >= v}
  IN  {v \in DOMAIN stored :
         /\ \E w \in DOMAIN stored : w > v
         /\ \/ Cardinality(NotOlder(v)) > MaxRows
            \/ SumFunctionOnSet(stored, NotOlder(v)) > MaxBytes}
=============================================================================
