---------------------------- MODULE MCTabHistory ----------------------------
(* One user, or two whom nothing tells apart. *)
EXTENDS TabHistory

CONSTANTS u1, u2

Symmetry == Permutations({u1, u2})
=============================================================================
