--------------------------- MODULE AccountsProofs ---------------------------
(***************************************************************************)
(* Proofs about Accounts, for every set of users, names and passwords and  *)
(* for any number of requests in flight.                                   *)
(***************************************************************************)
EXTENDS Accounts, TLAPS

\* A request past its authentication, or past its look-up, has a user.
NeedsUser(r) ==
  \/ r.step \in {"readUser", "writePassword", "setKey", "writeName", "delete"}
  \/ r.step = "find" /\ r.op = "profile"
UserKnown ==
  \A q \in Requests :
    NeedsUser(req[q]) => req[q].user \in Users

Typed == TypeOK /\ UserKnown

USE AbsenceAssumption DEF Active, At, Answer, GoTo

\* What a request is, whatever step it is at.
LEMMA RequestShape ==
  ASSUME TypeOK, NEW q \in Requests, req[q].step # "idle"
  PROVE  req[q] \in Request
  BY DEF TypeOK, NoRequest, Request

LEMMA InitTyped == Init => Typed
  BY DEF Init, Typed, TypeOK, UserKnown, NeedsUser, NoRequest

\* The documents are well formed.
DocsOK ==
  /\ account \in [Users -> {"unused", "active", "deleted"}]
  /\ username \in [Users -> Usernames \cup {NoName}]
  /\ password \in [Users -> Passwords \cup {NoPassword}]
  /\ keyFor \in [Users -> Passwords \cup {NoPassword, NoKey}]
  /\ \A u \in Users : account[u] # "active" =>
       username[u] = NoName /\ password[u] = NoPassword /\ keyFor[u] = NoKey

\* A step changes no request but its own.
LEMMA SetRequestTyped ==
  ASSUME Typed, DocsOK', NEW q \in Requests, NEW x, NEW us \in SUBSET Users, History(us),
         x = NoRequest \/ (x \in Request /\ (NeedsUser(x) => x.user \in Users)),
         req' = [req EXCEPT ![q] = x]
  PROVE  Typed'
<1>1. req' \in [Requests -> Request \cup {NoRequest}]
  BY DEF Typed, TypeOK
<1>2. UserKnown'
  BY DEF Typed, TypeOK, UserKnown, NeedsUser, NoRequest
<1>3. overtaken' \subseteq Users
  BY DEF Typed, TypeOK, History
<1> QED BY <1>1, <1>2, <1>3 DEF Typed, TypeOK, DocsOK

LEMMA AnswerTyped ==
  ASSUME Typed, DocsOK', NEW q \in Requests, NEW us \in SUBSET Users, History(us), Answer(q)
  PROVE  Typed'
  BY SetRequestTyped

LEMMA DocsKept == ASSUME Typed, UNCHANGED docs PROVE DocsOK'
  BY DEF Typed, TypeOK, DocsOK, docs

LEMMA CreateUserTyped ==
  ASSUME Typed, NEW u \in Users, CreateUserWithSoloRoom(u), History({})
  PROVE  Typed'
<1>1. DocsOK'
  BY DEF Typed, TypeOK, DocsOK, CreateUserWithSoloRoom
<1>2. overtaken' \subseteq Users
  BY DEF Typed, TypeOK, History
<1> QED BY <1>1, <1>2 DEF Typed, TypeOK, UserKnown, DocsOK, CreateUserWithSoloRoom

LEMMA BeginsTyped ==
  ASSUME Typed, NEW q \in Requests, Begins(q), History({})
  PROVE  Typed'
<1>1. CASE \E n \in Usernames, p \in Passwords : BeginRegister(q, n, p)
  <2>1. PICK n \in Usernames, p \in Passwords : BeginRegister(q, n, p)
    BY <1>1
  <2> DEFINE x == [op |-> "register", step |-> "find", user |-> NoUser, name |-> n,
                   current |-> NoPassword, pw |-> p]
  <2>2. x \in Request
    BY DEF Request
  <2>3. req' = [req EXCEPT ![q] = x] /\ UNCHANGED docs
    BY <2>1 DEF BeginRegister, Begin
  <2>4. ~NeedsUser(x)
    BY DEF NeedsUser
  <2> HIDE DEF x
  <2> QED BY <2>2, <2>3, <2>4, DocsKept, SetRequestTyped
<1>2. CASE \E n \in Usernames, p \in Passwords : BeginLogin(q, n, p)
  <2>1. PICK n \in Usernames, p \in Passwords : BeginLogin(q, n, p)
    BY <1>2
  <2> DEFINE x == [op |-> "login", step |-> "find", user |-> NoUser, name |-> n,
                   current |-> NoPassword, pw |-> p]
  <2>2. x \in Request
    BY DEF Request
  <2>3. req' = [req EXCEPT ![q] = x] /\ UNCHANGED docs
    BY <2>1 DEF BeginLogin, Begin
  <2>4. ~NeedsUser(x)
    BY DEF NeedsUser
  <2> HIDE DEF x
  <2> QED BY <2>2, <2>3, <2>4, DocsKept, SetRequestTyped
<1>3. ASSUME NEW u \in Users, NEW op \in {"password", "profile", "delete"},
             NEW step \in {"readUser", "find", "delete"},
             NEW n \in Usernames \cup {NoName}, NEW c \in Passwords \cup {NoPassword},
             NEW p \in Passwords \cup {NoPassword},
             BeginAuthenticated(q, u, op, step, n, c, p)
      PROVE  Typed'
  <2> DEFINE x == [op |-> op, step |-> step, user |-> u, name |-> n, current |-> c, pw |-> p]
  <2>1. x \in Request /\ x.user \in Users
    BY DEF Request
  <2>2. req' = [req EXCEPT ![q] = x] /\ UNCHANGED docs
    BY <1>3 DEF BeginAuthenticated, Begin
  <2> HIDE DEF x
  <2> QED BY <2>1, <2>2, DocsKept, SetRequestTyped
<1>4. CASE \E u \in Users, c \in Passwords \cup {NoPassword}, p \in Passwords :
             BeginAuthenticated(q, u, "password", "readUser", NoName, c, p)
  BY <1>3, <1>4
<1>5. CASE \E u \in Users, n \in Usernames :
             BeginAuthenticated(q, u, "profile", "find", n, NoPassword, NoPassword)
  BY <1>3, <1>5
<1>6. CASE \E u \in Users :
             BeginAuthenticated(q, u, "delete", "delete", NoName, NoPassword, NoPassword)
  BY <1>3, <1>6
<1> QED BY <1>1, <1>2, <1>4, <1>5, <1>6 DEF Begins

\* The requests that only read, write a key, a password or a name, or delete.
LEMMA StepTyped ==
  ASSUME Typed, NEW q \in Requests, NEW us \in SUBSET Users, Step(q), History(us)
  PROVE  Typed'
<1>a. ASSUME NEW step \in {"put", "readUser", "writePassword", "setKey", "writeName"},
             req[q].step # "idle", DocsOK', GoTo(q, step),
             step \in {"readUser", "writePassword", "setKey", "writeName"} =>
               req[q].user \in Users
      PROVE  Typed'
  <2> DEFINE x == [req[q] EXCEPT !.step = step]
  <2>1. x \in Request /\ (NeedsUser(x) => x.user \in Users)
    BY <1>a, RequestShape DEF Request, Typed, NeedsUser
  <2>2. req' = [req EXCEPT ![q] = x]
    BY <1>a DEF Typed, TypeOK
  <2> HIDE DEF x
  <2> QED BY <2>1, <2>2, <1>a, SetRequestTyped
<1>1. CASE RegisterFind(q)
  <2>1. DocsOK' /\ req[q].step # "idle"
    BY <1>1, DocsKept DEF RegisterFind
  <2> QED BY <1>1, <2>1, <1>a, AnswerTyped DEF RegisterFind
<1>2. ASSUME NEW u \in Users, RegisterPut(q, u) PROVE Typed'
  <2>1. req[q] \in Request
    BY <1>2, RequestShape DEF RegisterPut, Typed
  <2>2. DocsOK'
    BY <1>2, <2>1 DEF RegisterPut, Typed, TypeOK, DocsOK, Request
  <2> QED BY <1>2, <2>2, AnswerTyped DEF RegisterPut
<1>3. ASSUME NEW u \in Users, LoginFind(q, u) PROVE Typed'
  <2> DEFINE x == [[req[q] EXCEPT !.user = u] EXCEPT !.step = "setKey"]
  <2>1. x \in Request /\ x.user \in Users
    BY <1>3, RequestShape DEF LoginFind, Request, Typed
  <2>2. req' = [req EXCEPT ![q] = x]
    BY <1>3 DEF LoginFind, Typed, TypeOK
  <2>3. DocsOK'
    BY <1>3, DocsKept DEF LoginFind
  <2> HIDE DEF x
  <2> QED BY <2>1, <2>2, <2>3, SetRequestTyped
<1>4. CASE SetAPIKey(q)
  <2>1. req[q] \in Request
    BY <1>4, RequestShape DEF SetAPIKey, Typed
  <2>2. DocsOK'
    BY <1>4, <2>1 DEF SetAPIKey, Typed, TypeOK, DocsOK, Request
  <2> QED BY <1>4, <2>2, AnswerTyped DEF SetAPIKey
<1>5. CASE ChangePasswordRead(q)
  <2>1. DocsOK' /\ req[q].step = "readUser" /\ req[q].user \in Users
    BY <1>5, DocsKept DEF ChangePasswordRead, Typed, UserKnown, NeedsUser
  <2> QED BY <1>5, <2>1, <1>a, AnswerTyped DEF ChangePasswordRead
<1>6. CASE UpdatePasswordEnc(q)
  <2>1. req[q] \in Request /\ req[q].step = "writePassword" /\ req[q].user \in Users
    BY <1>6, RequestShape DEF UpdatePasswordEnc, Typed, UserKnown, NeedsUser
  <2>2. DocsOK'
    BY <1>6, <2>1 DEF UpdatePasswordEnc, Typed, TypeOK, DocsOK, Request
  <2> QED BY <1>6, <2>1, <2>2, <1>a DEF UpdatePasswordEnc
<1>7. CASE ProfileFind(q)
  <2>1. DocsOK' /\ req[q].step # "idle"
    BY <1>7, DocsKept DEF ProfileFind
  <2>2. req[q].user \in Users
    BY <1>7 DEF ProfileFind, Typed, UserKnown, NeedsUser
  <2> QED BY <1>7, <2>1, <2>2, <1>a, AnswerTyped DEF ProfileFind
<1>8. CASE UpdateUsername(q)
  <2>1. req[q] \in Request
    BY <1>8, RequestShape DEF UpdateUsername, Typed
  <2>2. DocsOK'
    BY <1>8, <2>1 DEF UpdateUsername, Typed, TypeOK, DocsOK, Request
  <2> QED BY <1>8, <2>2, AnswerTyped DEF UpdateUsername
<1>9. CASE DeleteAccount(q)
  <2>1. DocsOK'
    BY <1>9 DEF DeleteAccount, Typed, TypeOK, DocsOK
  <2> QED BY <1>9, <2>1, AnswerTyped DEF DeleteAccount
<1> QED BY <1>1, <1>2, <1>3, <1>4, <1>5, <1>6, <1>7, <1>8, <1>9 DEF Step

LEMMA FailTyped ==
  ASSUME Typed, NEW q \in Requests, NEW us \in SUBSET Users, Fail(q), History(us)
  PROVE  Typed'
  BY DocsKept, AnswerTyped DEF Fail

LEMMA StutterTyped == ASSUME Typed, UNCHANGED vars PROVE Typed'
  BY DEF Typed, TypeOK, UserKnown, NeedsUser, vars

\* The user of a request that gives its account an excuse.
LEMMA ExcusedUser ==
  ASSUME Typed, NEW q \in Requests, req[q].step = "setKey"
  PROVE  req[q].user \in Users
  BY DEF Typed, UserKnown, NeedsUser

LEMMA NextTyped == ASSUME Typed, [Next]_vars PROVE Typed'
<1>1. ASSUME NEW u \in Users, CreateUserWithSoloRoom(u), History({}) PROVE Typed'
  BY <1>1, CreateUserTyped
<1>2. ASSUME NEW q \in Requests, Begins(q), History({}) PROVE Typed'
  BY <1>2, BeginsTyped
<1>3. ASSUME NEW q \in Requests, Step(q),
             History(IF Overtakes(q) THEN {req[q].user} ELSE {})
      PROVE  Typed'
  <2>1. (IF Overtakes(q) THEN {req[q].user} ELSE {}) \in SUBSET Users
    BY ExcusedUser DEF Overtakes
  <2> QED BY <1>3, <2>1, StepTyped
<1>4. ASSUME NEW q \in Requests, Fail(q),
             History(IF Interrupted(q) THEN {req[q].user} ELSE {})
      PROVE  Typed'
  <2>1. (IF Interrupted(q) THEN {req[q].user} ELSE {}) \in SUBSET Users
    BY ExcusedUser DEF Interrupted
  <2> QED BY <1>4, <2>1, FailTyped
<1> QED BY <1>1, <1>2, <1>3, <1>4, StutterTyped DEF Next

LEMMA TypedInvariant == Spec => []Typed
<1>1. Typed /\ [Next]_vars => Typed'
  BY NextTyped
<1> QED BY <1>1, InitTyped, PTL DEF Spec

\* The documents and the requests in flight stay well formed.
THEOREM TypeCorrect == Spec => []TypeOK
<1>1. Typed => TypeOK
  BY DEF Typed
<1> QED BY <1>1, TypedInvariant, PTL

----------------------------------------------------------------------------
\* Usernames.

\* A step gives a username to one account at most, and only one the index has
\* let through.
LEMMA UsernamesDifferStep ==
  ASSUME Typed, UsernamesDiffer, [Next]_vars
  PROVE  UsernamesDiffer'
<1>1. ASSUME NEW w \in Users, NEW n,
             ~Taken(n, w),
             \A u \in Users \ {w} : Active(u)' => Active(u) /\ username'[u] = username[u],
             Active(w)' => username'[w] = n
      PROVE  UsernamesDiffer'
  BY <1>1 DEF UsernamesDiffer, Taken
<1>2. ASSUME \A u \in Users : Active(u)' => Active(u) /\ username'[u] = username[u]
      PROVE  UsernamesDiffer'
  BY <1>2 DEF UsernamesDiffer
<1>3. ASSUME NEW u \in Users, CreateUserWithSoloRoom(u) PROVE UsernamesDiffer'
  <2>1. ~Taken(NoName, u) /\ username'[u] = NoName
    BY <1>3 DEF CreateUserWithSoloRoom, IndexRefuses, Typed, TypeOK
  <2>2. \A v \in Users \ {u} : Active(v)' => Active(v) /\ username'[v] = username[v]
    BY <1>3 DEF CreateUserWithSoloRoom, Typed, TypeOK
  <2> QED BY <2>1, <2>2, <1>1
<1>4. ASSUME NEW q \in Requests, Step(q) PROVE UsernamesDiffer'
  <2>1. ASSUME NEW u \in Users, RegisterPut(q, u) PROVE UsernamesDiffer'
    <3>1. ~Taken(req[q].name, u) /\ username'[u] = req[q].name
      BY <2>1 DEF RegisterPut, IndexRefuses, Typed, TypeOK
    <3>2. \A v \in Users \ {u} : Active(v)' => Active(v) /\ username'[v] = username[v]
      BY <2>1 DEF RegisterPut, Typed, TypeOK
    <3> QED BY <3>1, <3>2, <1>1
  <2>2. CASE UpdateUsername(q)
    <3>1. PICK u \in Users : u = req[q].user
      BY <2>2 DEF UpdateUsername, Typed, UserKnown, NeedsUser
    <3>2. ~Taken(req[q].name, u) /\ (Active(u)' => username'[u] = req[q].name)
      BY <2>2, <3>1 DEF UpdateUsername, IndexRefuses, Typed, TypeOK
    <3>3. \A v \in Users \ {u} : Active(v)' => Active(v) /\ username'[v] = username[v]
      BY <2>2, <3>1 DEF UpdateUsername, Typed, TypeOK
    <3> QED BY <3>2, <3>3, <1>1
  <2>3. CASE DeleteAccount(q)
    <3>1. \A v \in Users : Active(v)' => Active(v) /\ username'[v] = username[v]
      BY <2>3 DEF DeleteAccount, Typed, TypeOK
    <3> QED BY <3>1, <1>2
  <2>4. CASE UNCHANGED <<account, username>>
    BY <2>4, <1>2
  <2> QED BY <1>4, <2>1, <2>2, <2>3, <2>4 DEF Step, RegisterFind, LoginFind, SetAPIKey,
             ChangePasswordRead, UpdatePasswordEnc, ProfileFind, docs
<1>5. CASE UNCHANGED <<account, username>>
  BY <1>5, <1>2
<1>6. ASSUME NEW q \in Requests, Begins(q) \/ Fail(q) PROVE UNCHANGED <<account, username>>
  BY <1>6 DEF Begins, BeginRegister, BeginLogin, BeginAuthenticated, Begin, Fail, docs
<1> QED BY <1>3, <1>4, <1>5, <1>6 DEF Next, vars

\* However registrations and profile changes interleave, accounts differ in
\* their usernames.
THEOREM UsernamesDifferHolds == Spec => []UsernamesDiffer
<1>1. Init => UsernamesDiffer
  BY DEF Init, UsernamesDiffer
<1>2. Typed /\ UsernamesDiffer /\ [Next]_vars => UsernamesDiffer'
  BY UsernamesDifferStep
<1> QED BY <1>1, <1>2, TypedInvariant, PTL DEF Spec

----------------------------------------------------------------------------
\* Keys and passwords.

\* A password change that has written its password and has yet to set the key.
Changing(u) ==
  \E q \in Requests : At(q, "password", "setKey") /\ req[q].user = u
                      /\ req[q].pw = password[u]

\* A change under way is not disturbed by steps of other requests.
LEMMA ChangingGoesOn ==
  ASSUME Typed, NEW u \in Users, NEW q \in Requests, NEW x,
         Changing(u), password'[u] = password[u], req' = [req EXCEPT ![q] = x],
         ~(At(q, "password", "setKey") /\ req[q].user = u /\ req[q].pw = password[u])
  PROVE  Changing(u)'
<1>1. PICK p \in Requests : At(p, "password", "setKey") /\ req[p].user = u
                            /\ req[p].pw = password[u]
  BY DEF Changing
<1>2. p # q /\ req'[p] = req[p]
  BY <1>1 DEF Typed, TypeOK
<1> QED BY <1>1, <1>2 DEF Changing

LEMMA KeyForPasswordInForceStep ==
  ASSUME Typed, KeyForPasswordInForce, [Next]_vars
  PROVE  KeyForPasswordInForce'
<1> SUFFICES ASSUME NEW u \in Users, u \notin overtaken', Active(u)', keyFor'[u] # NoKey,
                    keyFor'[u] # password'[u]
             PROVE  Changing(u)'
  BY DEF KeyForPasswordInForce, Changing
\* Unless the step excuses u, whose key and password it leaves alone.
<1>1. ASSUME NEW us, History(us), Active(u), keyFor'[u] = keyFor[u], password'[u] = password[u]
      PROVE  Changing(u) /\ u \notin us
  <2>1. u \notin overtaken /\ u \notin us
    BY <1>1 DEF History
  <2> QED BY <1>1, <2>1 DEF KeyForPasswordInForce, Changing
\* A step of a request that moves on.
<1>2. ASSUME NEW us, History(us), NEW q \in Requests, NEW x, req' = [req EXCEPT ![q] = x],
             Active(u), keyFor'[u] = keyFor[u], password'[u] = password[u],
             At(q, "password", "setKey") /\ req[q].user = u => u \in us
      PROVE  Changing(u)'
  BY <1>1, <1>2, ChangingGoesOn
<1>3. ASSUME NEW v \in Users, CreateUserWithSoloRoom(v), History({}) PROVE Changing(u)'
  <2>1. u # v
    BY <1>3 DEF CreateUserWithSoloRoom, Typed, TypeOK
  <2>2. Active(u) /\ keyFor'[u] = keyFor[u] /\ password'[u] = password[u]
    BY <1>3, <2>1 DEF CreateUserWithSoloRoom, Typed, TypeOK
  <2>3. Changing(u)
    BY <2>2, <1>1, <1>3
  <2> QED BY <2>2, <2>3, <1>3 DEF Changing, CreateUserWithSoloRoom
<1>4. ASSUME NEW q \in Requests, Begins(q), History({}) PROVE Changing(u)'
  <2>1. PICK x : Begin(q, x)
    BY <1>4 DEF Begins, BeginRegister, BeginLogin, BeginAuthenticated
  <2>2. req[q] = NoRequest /\ UNCHANGED docs /\ req' = [req EXCEPT ![q] = x]
    BY <2>1 DEF Begin
  <2>3. ~At(q, "password", "setKey")
    BY <2>2 DEF NoRequest
  <2> QED BY <2>2, <2>3, <1>2, <1>4 DEF docs
<1>5. ASSUME NEW q \in Requests, Step(q),
             History(IF Overtakes(q) THEN {req[q].user} ELSE {})
      PROVE  Changing(u)'
  <2>1. CASE SetAPIKey(q)
    <3>1. CASE req[q].user = u
      <4>1. keyFor'[u] = req[q].pw /\ password'[u] = password[u] /\ Active(u)
        BY <2>1, <3>1 DEF SetAPIKey, Typed, TypeOK
      <4>2. Overtakes(q)
        BY <2>1, <3>1, <4>1 DEF SetAPIKey, Overtakes
      <4>3. u \in overtaken'
        BY <1>5, <3>1, <4>2 DEF History
      <4> QED BY <4>3
    <3>2. CASE req[q].user # u
      <4>1. keyFor'[u] = keyFor[u] /\ password'[u] = password[u] /\ Active(u)
        BY <2>1, <3>2 DEF SetAPIKey, Typed, TypeOK
      <4> QED BY <4>1, <3>2, <2>1, <1>5, <1>2 DEF SetAPIKey
    <3> QED BY <3>1, <3>2
  <2>2. CASE UpdatePasswordEnc(q)
    <3>1. CASE req[q].user = u
      <4>1. password'[u] = req[q].pw /\ req[q].op = "password"
        BY <2>2, <3>1 DEF UpdatePasswordEnc, Typed, TypeOK
      <4>2. req'[q] = [req[q] EXCEPT !.step = "setKey"] /\ req[q] \in Request
        BY <2>2, RequestShape DEF UpdatePasswordEnc, Typed, TypeOK
      <4>3. req'[q].step = "setKey" /\ req'[q].op = "password" /\ req'[q].user = u
            /\ req'[q].pw = password'[u]
        BY <4>1, <4>2, <3>1 DEF Request
      <4> QED BY <4>3 DEF Changing
    <3>2. CASE req[q].user # u
      <4>1. keyFor'[u] = keyFor[u] /\ password'[u] = password[u] /\ Active(u)
        BY <2>2, <3>2 DEF UpdatePasswordEnc, Typed, TypeOK
      <4>2. req' = [req EXCEPT ![q] = [req[q] EXCEPT !.step = "setKey"]]
        BY <2>2 DEF UpdatePasswordEnc, Typed, TypeOK
      <4> QED BY <4>1, <4>2, <3>2, <1>5, <1>2
    <3> QED BY <3>1, <3>2
  <2>3. ASSUME NEW v \in Users, RegisterPut(q, v) PROVE Changing(u)'
    <3>1. u # v
      BY <2>3 DEF RegisterPut, Typed, TypeOK
    <3>2. Active(u) /\ keyFor'[u] = keyFor[u] /\ password'[u] = password[u]
      BY <2>3, <3>1 DEF RegisterPut, Typed, TypeOK
    <3> QED BY <2>3, <3>2, <1>5, <1>2 DEF RegisterPut
  <2>4. CASE DeleteAccount(q)
    <3>1. Active(u) /\ keyFor'[u] = keyFor[u] /\ password'[u] = password[u]
      BY <2>4 DEF DeleteAccount, Typed, TypeOK
    <3> QED BY <2>4, <3>1, <1>5, <1>2 DEF DeleteAccount
  <2>5. ASSUME UNCHANGED <<account, keyFor, password>>, req[q].step # "setKey",
               NEW x, req' = [req EXCEPT ![q] = x]
        PROVE  Changing(u)'
    BY <2>5, <1>5, <1>2
  <2>6. CASE UpdateUsername(q)
    BY <2>6, <2>5 DEF UpdateUsername
  <2>7. CASE RegisterFind(q) \/ ChangePasswordRead(q) \/ ProfileFind(q)
    <3>1. UNCHANGED <<account, keyFor, password>> /\ req[q].step # "setKey"
      BY <2>7 DEF RegisterFind, ChangePasswordRead, ProfileFind, docs
    <3>2. PICK x : req' = [req EXCEPT ![q] = x]
      <4>1. Answer(q) \/ \E step : GoTo(q, step)
        BY <2>7 DEF RegisterFind, ChangePasswordRead, ProfileFind
      <4>2. ASSUME NEW step, GoTo(q, step)
            PROVE  req' = [req EXCEPT ![q] = [req[q] EXCEPT !.step = step]]
        BY <4>2 DEF Typed, TypeOK
      <4> QED BY <4>1, <4>2
    <3> QED BY <3>1, <3>2, <2>5
  <2>8. ASSUME NEW v \in Users, LoginFind(q, v) PROVE Changing(u)'
    <3>1. UNCHANGED <<account, keyFor, password>> /\ req[q].step # "setKey"
      BY <2>8 DEF LoginFind, docs
    <3>2. req' = [req EXCEPT ![q] = [[req[q] EXCEPT !.user = v] EXCEPT !.step = "setKey"]]
      BY <2>8 DEF LoginFind, Typed, TypeOK
    <3> QED BY <3>1, <3>2, <2>5
  <2> QED BY <1>5, <2>1, <2>2, <2>3, <2>4, <2>6, <2>7, <2>8 DEF Step
<1>6. ASSUME NEW q \in Requests, Fail(q),
             History(IF Interrupted(q) THEN {req[q].user} ELSE {})
      PROVE  Changing(u)'
  <2>1. UNCHANGED <<account, keyFor, password>>
    BY <1>6 DEF Fail, docs
  <2>2. At(q, "password", "setKey") /\ req[q].user = u =>
          u \in (IF Interrupted(q) THEN {req[q].user} ELSE {})
    BY DEF Interrupted
  <2> QED BY <2>1, <2>2, <1>6, <1>2 DEF Fail
<1>7. CASE UNCHANGED vars
  BY <1>7 DEF vars, KeyForPasswordInForce, Changing
<1> QED BY <1>3, <1>4, <1>5, <1>6, <1>7 DEF Next

\* However log-ins and password changes interleave, the stored key was given for
\* the password in force, with the exceptions KeyForPasswordInForce names.
THEOREM KeyForPasswordInForceHolds == Spec => []KeyForPasswordInForce
<1>1. Init => KeyForPasswordInForce
  BY DEF Init, KeyForPasswordInForce
<1>2. Typed /\ KeyForPasswordInForce /\ [Next]_vars => KeyForPasswordInForce'
  BY KeyForPasswordInForceStep
<1> QED BY <1>1, <1>2, TypedInvariant, PTL DEF Spec

=============================================================================
