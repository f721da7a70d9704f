CONSTANTS
  Users = {u1, u2}
  Usernames = {n1, n2}
  Passwords = {p1, p2}
  Requests = {q1, q2}
  Keys = {k1, k2}
  NoUser = NoUser
  NoName = NoName
  NoPassword = NoPassword
  NoKey = NoKey
  NoFile = NoFile
  Unsealed = Unsealed
SPECIFICATION ServerSpec
SYMMETRY Symmetry
CHECK_DEADLOCK FALSE
INVARIANTS TypeOK ServerTypeOK UsernamesDiffer KeyForPasswordInForce PasswordsReadable
