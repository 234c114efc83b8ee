--------------------------- MODULE MCRenderQueue ---------------------------
(* Two renderers and a workflow of two steps.  Nothing tells the renderers *)
(* apart; the run of safety properties uses it.                            *)
EXTENDS RenderQueue, TLC

CONSTANTS r1, r2

Symmetry == Permutations({r1, r2})

(* A third edit only where nothing fails and cron does not come. *)
ThreeEditsWithoutTrouble == edits < MaxEdits \/ visits + nfaults = 0
=============================================================================
