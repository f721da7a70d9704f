---------------------------- MODULE MCItemOrder ----------------------------
(***************************************************************************)
(* Instances of ItemOrder for TLC.                                         *)
(***************************************************************************)
EXTENDS ItemOrder

\* Up to a step before the first compacted order, and up to two steps after the clock.
OrderRange == -8 .. 56
=============================================================================
