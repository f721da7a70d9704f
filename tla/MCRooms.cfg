SPECIFICATION Spec
CONSTANTS
  Users = {u1, u2, u3}
  RoomIds = {r1, r2, r3, r4}
  Tokens = {t1, t2}
  NoRoom = NoRoom
  NoToken = NoToken
SYMMETRY Symmetry
INVARIANTS TypeOK RoomLink VotesFromMembers
PROPERTIES DeletedByConsent DetachedOnlyByVote
CHECK_DEADLOCK FALSE
