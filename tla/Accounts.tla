------------------------------ MODULE Accounts ------------------------------
(***************************************************************************)
(* Usernames, passwords and API keys, as far as the users collection holds *)
(* them: registration, log-in, password change, profile change, deletion.  *)
(* Requests are in flight together, one database call per action, and each *)
(* works on what it has read.                                              *)
(*                                                                         *)
(* A key is 32 random bytes: it is never generated twice, and once it is   *)
(* overwritten it opens nothing again.  So of the stored key the model     *)
(* keeps only what was proved to get it: the password the request that set *)
(* it had checked, or set itself.  Hashing and encryption of a password    *)
(* keep apart what differs, so a stored password stands for itself.  Keys  *)
(* that have expired only turn requests away; expiry is left out.          *)
(***************************************************************************)
EXTENDS FiniteSets

CONSTANTS Users, Usernames, Passwords,
          Requests,     \* as many requests can be in flight at once
          NoUser,       \* the request has no user yet
          NoName,       \* username is absent
          NoPassword,   \* password_enc is empty
          NoKey         \* api_key_hash and api_key_lookup are absent

ASSUME AbsenceAssumption ==
  NoUser \notin Users /\ NoName \notin Usernames /\ NoPassword \notin Passwords
  /\ NoKey \notin Passwords \cup {NoPassword}

VARIABLES
  account,    \* is the user document still to come, present, or deleted
  username,
  password,
  keyFor,     \* the password proved for the stored key, NoPassword if none was asked
  req,        \* the requests in flight
  overtaken   \* history: accounts left with a key for another password, see Next

docs == <<account, username, password, keyFor>>
vars == <<account, username, password, keyFor, req, overtaken>>

\* name and pw are the username and password to register, to log in with or to
\* change to; current is current_password.
Request == [op: {"register", "login", "password", "profile", "delete"},
            step: {"find", "put", "readUser", "writePassword", "setKey", "writeName", "delete"},
            user: Users \cup {NoUser}, name: Usernames \cup {NoName},
            current: Passwords \cup {NoPassword}, pw: Passwords \cup {NoPassword}]
NoRequest == [step |-> "idle"]

TypeOK ==
  /\ account \in [Users -> {"unused", "active", "deleted"}]
  /\ username \in [Users -> Usernames \cup {NoName}]
  /\ password \in [Users -> Passwords \cup {NoPassword}]
  /\ keyFor \in [Users -> Passwords \cup {NoPassword, NoKey}]
  /\ \A u \in Users : account[u] # "active" =>
       username[u] = NoName /\ password[u] = NoPassword /\ keyFor[u] = NoKey
  /\ req \in [Requests -> Request \cup {NoRequest}]
  /\ overtaken \subseteq Users

Init ==
  /\ account = [u \in Users |-> "unused"]
  /\ username = [u \in Users |-> NoName]
  /\ password = [u \in Users |-> NoPassword]
  /\ keyFor = [u \in Users |-> NoKey]
  /\ req = [q \in Requests |-> NoRequest]
  /\ overtaken = {}

Active(u) == account[u] = "active"
At(q, op, step) == req[q].step = step /\ req[q].op = op
Answer(q) == req' = [req EXCEPT ![q] = NoRequest]
GoTo(q, step) == req' = [req EXCEPT ![q].step = step]

Taken(n, u) == \E v \in Users \ {u} : Active(v) /\ username[v] = n

\* The unique index on username turns a write down.  It indexes a document
\* without a username like one whose username is null.
IndexRefuses(n, u) == Taken(n, u)

Begin(q, r) == req[q] = NoRequest /\ req' = [req EXCEPT ![q] = r] /\ UNCHANGED docs

----------------------------------------------------------------------------
\* POST /users: one transaction; the key comes with the answer.
CreateUserWithSoloRoom(u) ==
  /\ account[u] = "unused"
  /\ ~IndexRefuses(NoName, u)
  /\ account' = [account EXCEPT ![u] = "active"]
  /\ keyFor' = [keyFor EXCEPT ![u] = NoPassword]
  /\ UNCHANGED <<username, password, req>>

\* POST /auth/register: look the name up, then insert.  A look-up that fails counts
\* as one that finds nobody.
BeginRegister(q, n, p) ==
  Begin(q, [op |-> "register", step |-> "find", user |-> NoUser, name |-> n,
            current |-> NoPassword, pw |-> p])

RegisterFind(q) ==
  /\ At(q, "register", "find")
  /\ (Taken(req[q].name, NoUser) /\ Answer(q)) \/ GoTo(q, "put")
  /\ UNCHANGED docs

RegisterPut(q, u) ==
  /\ At(q, "register", "put")
  /\ account[u] = "unused"
  /\ ~IndexRefuses(req[q].name, u)
  /\ account' = [account EXCEPT ![u] = "active"]
  /\ username' = [username EXCEPT ![u] = req[q].name]
  /\ password' = [password EXCEPT ![u] = req[q].pw]
  /\ Answer(q)
  /\ UNCHANGED keyFor

----------------------------------------------------------------------------
\* POST /auth/login: the document found by name is checked, then a key is set.
BeginLogin(q, n, p) ==
  Begin(q, [op |-> "login", step |-> "find", user |-> NoUser, name |-> n,
            current |-> NoPassword, pw |-> p])

LoginFind(q, u) ==
  /\ At(q, "login", "find")
  /\ Active(u) /\ username[u] = req[q].name /\ password[u] = req[q].pw
  /\ req' = [req EXCEPT ![q].user = u, ![q].step = "setKey"]
  /\ UNCHANGED docs

\* Variant: the key is set only where there is none.
SetAPIKey_IfAbsent(q) ==
  /\ req[q].step = "setKey"
  /\ keyFor' = [keyFor EXCEPT ![req[q].user] = IF @ = NoKey THEN req[q].pw ELSE @]
  /\ Answer(q)
  /\ UNCHANGED <<account, username, password>>

\* Variant: the update inserts what it does not find.
SetAPIKey_Upsert(q) ==
  /\ req[q].step = "setKey"
  /\ keyFor' = [keyFor EXCEPT ![req[q].user] = req[q].pw]
  /\ Answer(q)
  /\ UNCHANGED <<account, username, password>>

\* Log-in and password change end with it; no effect on a deleted document.
SetAPIKey(q) ==
  /\ req[q].step = "setKey"
  /\ keyFor' = [keyFor EXCEPT ![req[q].user] = IF Active(req[q].user) THEN req[q].pw ELSE @]
  /\ Answer(q)
  /\ UNCHANGED <<account, username, password>>

----------------------------------------------------------------------------
\* The other endpoints need a key: the middleware finds its user document.
BeginAuthenticated(q, u, op, step, n, c, p) ==
  /\ Active(u) /\ keyFor[u] # NoKey
  /\ Begin(q, [op |-> op, step |-> step, user |-> u, name |-> n, current |-> c, pw |-> p])

\* POST /me/password.  The current password is asked for if there is one.
ChangePasswordRead(q) ==
  LET u == req[q].user
  IN  /\ At(q, "password", "readUser")
      /\ IF Active(u) /\ password[u] \in {NoPassword, req[q].current}
           THEN GoTo(q, "writePassword") ELSE Answer(q)
      /\ UNCHANGED docs

UpdatePasswordEnc(q) ==
  LET u == req[q].user
  IN  /\ At(q, "password", "writePassword")
      /\ password' = [password EXCEPT ![u] = IF Active(u) THEN req[q].pw ELSE @]
      /\ GoTo(q, "setKey")
      /\ UNCHANGED <<account, username, keyFor>>

\* PATCH /me with a username: look it up, here too for what that is worth, then
\* write it.
ProfileFind(q) ==
  /\ At(q, "profile", "find")
  /\ (Taken(req[q].name, req[q].user) /\ Answer(q)) \/ GoTo(q, "writeName")
  /\ UNCHANGED docs

\* Variant: the look-up is relied on.
UpdateUsername_NoIndex(q) ==
  LET u == req[q].user
  IN  /\ At(q, "profile", "writeName")
      /\ username' = [username EXCEPT ![u] = IF Active(u) THEN req[q].name ELSE @]
      /\ Answer(q)
      /\ UNCHANGED <<account, password, keyFor>>

UpdateUsername(q) ==
  LET u == req[q].user
  IN  /\ At(q, "profile", "writeName")
      /\ ~IndexRefuses(req[q].name, u)
      /\ username' = [username EXCEPT ![u] = IF Active(u) THEN req[q].name ELSE @]
      /\ Answer(q)
      /\ UNCHANGED <<account, password, keyFor>>

\* DELETE /me: the document goes.  Rooms.tla has what happens to the room.
DeleteAccount(q) ==
  LET u == req[q].user
  IN  /\ At(q, "delete", "delete")
      /\ account' = [account EXCEPT ![u] = "deleted"]
      /\ username' = [username EXCEPT ![u] = NoName]
      /\ password' = [password EXCEPT ![u] = NoPassword]
      /\ keyFor' = [keyFor EXCEPT ![u] = NoKey]
      /\ Answer(q)

\* A call fails, the index or a check turns the request down, the client or the
\* server goes away: what was written stays.
Fail(q) ==
  /\ req[q] # NoRequest
  /\ Answer(q)
  /\ UNCHANGED docs

----------------------------------------------------------------------------
\* An account stays overtaken until a key is set for the password in force.
History(users) ==
  overtaken' = {u \in overtaken \cup users :
                  account'[u] = "active" /\ keyFor'[u] # password'[u]}

Begins(q) ==
  \/ \E n \in Usernames, p \in Passwords : BeginRegister(q, n, p) \/ BeginLogin(q, n, p)
  \/ \E u \in Users :
       \/ \E c \in Passwords \cup {NoPassword}, p \in Passwords :
            BeginAuthenticated(q, u, "password", "readUser", NoName, c, p)
       \/ \E n \in Usernames :
            BeginAuthenticated(q, u, "profile", "find", n, NoPassword, NoPassword)
       \/ BeginAuthenticated(q, u, "delete", "delete", NoName, NoPassword, NoPassword)

Step(q) ==
  \/ RegisterFind(q)
  \/ \E u \in Users : RegisterPut(q, u) \/ LoginFind(q, u)
  \/ SetAPIKey(q)
  \/ ChangePasswordRead(q)
  \/ UpdatePasswordEnc(q)
  \/ ProfileFind(q)
  \/ UpdateUsername(q)
  \/ DeleteAccount(q)

\* A request sets the key for a password that is no longer the account's.
Overtakes(q) == req[q].step = "setKey" /\ req[q].pw # password[req[q].user]

\* A password change ends between its two writes.
Interrupted(q) == At(q, "password", "setKey")

Next ==
  \/ \E u \in Users : CreateUserWithSoloRoom(u) /\ History({})
  \/ \E q \in Requests : Begins(q) /\ History({})
  \/ \E q \in Requests :
       Step(q) /\ History(IF Overtakes(q) THEN {req[q].user} ELSE {})
  \/ \E q \in Requests :
       Fail(q) /\ History(IF Interrupted(q) THEN {req[q].user} ELSE {})

Spec == Init /\ [][Next]_vars

----------------------------------------------------------------------------
\* Properties.

\* Names are looked up before they are written, by registration and by profile
\* changes, with anything in between; two accounts never share one all the same.
\* This holds for the absent name too.
UsernamesDiffer ==
  \A u, v \in Users : Active(u) /\ Active(v) /\ username[u] = username[v] => u = v

\* The stored key was given for the password in force, unless a password change
\* that has written its password has yet to replace the key, was interrupted before
\* it did, or lost the race against another log-in or change for the last word.
\* Whoever only knew an earlier password has no key otherwise.
KeyForPasswordInForce ==
  \A u \in Users \ overtaken :
    Active(u) /\ keyFor[u] # NoKey =>
      \/ keyFor[u] = password[u]
      \/ \E q \in Requests : At(q, "password", "setKey") /\ req[q].user = u
                             /\ req[q].pw = password[u]

\* README.md:44: POST /users creates a user.  It can do so again and again.
SignupStaysPossible ==
  \A u \in Users : account[u] = "unused" => ENABLED CreateUserWithSoloRoom(u)
=============================================================================
