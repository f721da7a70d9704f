------------------------------ MODULE MCRooms ------------------------------
\* Model-checking instance of Rooms: user, room and token names are
\* interchangeable, so states that differ in names only are checked once.
EXTENDS Rooms, TLC

Symmetry == Permutations(Users) \cup Permutations(RoomIds) \cup Permutations(Tokens)
=============================================================================
