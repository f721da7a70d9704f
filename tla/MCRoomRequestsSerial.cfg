SPECIFICATION Spec
CONSTANTS
  Users = {u1, u2}
  RoomIds = {r1, r2, r3}
  Tokens = {t1}
  Requests = {q1}
  NoRoom = NoRoom
  NoToken = NoToken
PROPERTIES SerialSpec
CHECK_DEADLOCK FALSE
