------------------------- MODULE MCFetchedVersions --------------------------
(* Two fetchers, of results of which two small ones fit in the limits, or  *)
(* one large one alone: it is itself over the limit.                       *)
EXTENDS FetchedVersions

SmallAndLarge == {1, 3}
=============================================================================
