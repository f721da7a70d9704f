--------------------------- MODULE MCItemRequests ---------------------------
(***************************************************************************)
(* Instances of ItemRequests for TLC.                                      *)
(***************************************************************************)
EXTENDS ItemRequests, TLC

\* Bound: up to a step before zero, and up to two steps after the clock, with a
\* single one, 32, between those of renumbered items and those of fresh ones.
OrderRange == (-8 .. 24) \cup {32} \cup (40 .. 56)

\* Bound: an empty list, one or two items and room for more; three fresh ones, and three
\* with too small a gap, near the clock and after a renumbering.
WatchedOrders ==
  { <<0, 0, 0>>, <<40, 0, 0>>, <<40, 48, 0>>, <<8, 16, 0>>,
    <<40, 48, 56>>, <<48, 40, 40>>, <<24, 8, 9>> }

Symmetry == Permutations(Requests)
=============================================================================
