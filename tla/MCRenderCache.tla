---------------------------- MODULE MCRenderCache ----------------------------
(* A tab of two steps, each of which may give one of two tables or none.    *)
EXTENDS RenderCache

TwoTables == {1, 2}
=============================================================================
