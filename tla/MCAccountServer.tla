--------------------------- MODULE MCAccountServer ---------------------------
(***************************************************************************)
(* Instances of AccountServer for TLC.                                     *)
(***************************************************************************)
EXTENDS AccountServer, TLC

Symmetry == Permutations(Users) \cup Permutations(Usernames) \cup Permutations(Keys)
              \cup Permutations(Passwords) \cup Permutations(Requests)
=============================================================================
