----------------------------- MODULE MCListing -----------------------------
(***************************************************************************)
(* A small instance of ContentListing: two writers, two items, and limits  *)
(* below, at and above what the handlers allow.                            *)
(***************************************************************************)
EXTENDS ContentListing, TLC

CONSTANTS p1, p2, i1, i2

MCTitleRank == (i1 :> 1) @@ (i2 :> 2)

MCRawLimits == {Malformed, -1, 0, 1, 2, 3}

Symmetry == Permutations({p1, p2})
=============================================================================
