CONSTANTS
  Users = {u1, u2}
  RoomIds = {r1, r2}
  Tokens = {t1}
  ListIds = {l1}
  Requests = {q1, q2}
  NoRoom = NoRoom
  NoToken = NoToken
  NoList = NoList
SPECIFICATION Spec
SYMMETRY Symmetry
CHECK_DEADLOCK FALSE
INVARIANTS TypeOK NoLostListFinalization ListVotesFromRoom OrphansExplained
