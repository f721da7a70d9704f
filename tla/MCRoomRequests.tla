--------------------------- MODULE MCRoomRequests ---------------------------
\* Model-checking instance of RoomRequests.  Names of users, rooms, tokens and
\* requests are interchangeable; the runs that check liveness or a refinement do
\* without the symmetry.
EXTENDS RoomRequests, TLC

Symmetry == Permutations(Users) \cup Permutations(RoomIds)
              \cup Permutations(Tokens) \cup Permutations(Requests)
=============================================================================
