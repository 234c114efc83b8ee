-------------------------- MODULE MCReportHistory ---------------------------
(* Two tabs and a step in the first; each tab may get another.              *)
EXTENDS ClientSync

TwoTabs    == <<1, 2>>
ThreeSteps == <<1, 1, 2>>
=============================================================================
