--------------------------- MODULE MCStepHistory ----------------------------
(* Three tabs: one of two steps, and two of one step.  At first the third  *)
(* tab reads the second and the second the first; or the first two are in  *)
(* a cycle, and a step reads both.                                         *)
EXTENDS StepHistory

StepsOfThreeTabs == <<<<1, 2>>, <<3>>, <<4>>>>
SomeFirstReads   == {<<{}, {}, {1}, {2}>>, <<{}, {2}, {1}, {1, 2}>>}
SomeReads        == {{}, {1, 3}}
TwoNames         == {"Tab 1", "Tab 2"}
=============================================================================
