--------------------------- MODULE MCListRequests ---------------------------
(***************************************************************************)
(* Instances of ListRequests for TLC.                                      *)
(***************************************************************************)
EXTENDS ListRequests, TLC

Symmetry == Permutations(Users) \cup Permutations(RoomIds) \cup Permutations(Requests)
=============================================================================
