CONSTANTS
  Users = {u1, u2}
  Usernames = {n1, n2}
  Passwords = {p1, p2}
  Requests = {q1, q2}
  NoUser = NoUser
  NoName = NoName
  NoPassword = NoPassword
  NoKey = NoKey
SPECIFICATION Spec
SYMMETRY Symmetry
CHECK_DEADLOCK FALSE
INVARIANTS SignupStaysPossible
