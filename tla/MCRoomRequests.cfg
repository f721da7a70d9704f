SPECIFICATION Spec
CONSTANTS
  Users = {u1, u2}
  RoomIds = {r1, r2}
  Tokens = {t1}
  Requests = {q1, q2}
  NoRoom = NoRoom
  NoToken = NoToken
SYMMETRY Symmetry
INVARIANTS TypeOK MemberOfOwnRoom NoLostFinalization
PROPERTIES DetachedOnlyByVote DanglingExplained GhostsExplained
CHECK_DEADLOCK FALSE
