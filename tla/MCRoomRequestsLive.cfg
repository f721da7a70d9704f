SPECIFICATION FairSpec
CONSTANTS
  Users = {u1, u2}
  RoomIds = {r1}
  Tokens = {t1}
  Requests = {q1, q2}
  NoRoom = NoRoom
  NoToken = NoToken

PROPERTIES UnanimityResolves
CHECK_DEADLOCK FALSE
