CONSTANTS
  Users = {u1, u2}
  RoomIds = {r1}
  Tokens = {t1}
  ListIds = {l1}
  Requests = {q1, q2}
  NoRoom = NoRoom
  NoToken = NoToken
  NoList = NoList
SPECIFICATION FairSpec
CHECK_DEADLOCK FALSE
PROPERTIES CleanupCompletes ListUnanimityResolves
