---------------------------- MODULE MCRenderLock ----------------------------
(* Two clients.  In MCRenderLock.cfg the first runs two tasks at once, as  *)
(* the unit tests do; in MCRenderLockProduction.cfg each runs one.         *)
EXTENDS RenderLock

CONSTANTS c1, c2, a1, a2, b1

MCClientOf == [t \in Tasks |-> IF t \in {a1, a2} THEN c1 ELSE c2]
=============================================================================
