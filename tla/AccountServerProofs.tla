------------------------- MODULE AccountServerProofs -------------------------
(***************************************************************************)
(* Proofs about AccountServer, for every set of users, names, passwords    *)
(* and keys and for any number of requests in flight: what AccountsProofs  *)
(* shows of the requests holds through crashes and restarts, and passwords *)
(* stay readable.                                                          *)
(***************************************************************************)
EXTENDS AccountServer, AccountsProofs

USE AbsenceAssumption, KeysAssumption DEF Active, At, Answer, GoTo, Up

\* A key serves from the file it was read from or written to, until that is lost.
KeyOnFile == Up => key = keyFile \/ (keyFile = NoFile /\ key \in lost)

\* Passwords are encrypted with a key that is, or was, on file.
SealedFromFile == \A u \in Users : sealed[u] \in {Unsealed, keyFile} \cup lost

ServerInv == Typed /\ ServerTypeOK /\ KeyOnFile /\ SealedFromFile

LEMMA ServerInitInv == ServerInit => ServerInv
<1> SUFFICES ASSUME ServerInit PROVE ServerInv
  OBVIOUS
<1>1. Typed
  BY InitTyped DEF ServerInit
<1>2. ServerTypeOK
  BY DEF ServerInit, Init, ServerTypeOK
<1> QED BY <1>1, <1>2 DEF ServerInit, ServerInv, KeyOnFile, SealedFromFile

----------------------------------------------------------------------------
\* Starts, stops and the key file.

LEMMA LoadOrCreateKeyInv ==
  ASSUME ServerInv, NEW readable \in BOOLEAN, LoadOrCreateKey(readable)
  PROVE  ServerInv'
<1>1. Typed'
  BY StutterTyped DEF LoadOrCreateKey, ServerInv
<1>2. ServerTypeOK'
  BY DEF LoadOrCreateKey, CreateKey, ServerInv, ServerTypeOK, vars
<1>3. KeyOnFile'
  BY DEF LoadOrCreateKey, CreateKey, ServerInv, ServerTypeOK, KeyOnFile
<1>4. SealedFromFile'
  BY DEF LoadOrCreateKey, CreateKey, ServerInv, ServerTypeOK, SealedFromFile
<1> QED BY <1>1, <1>2, <1>3, <1>4 DEF ServerInv

LEMMA LoseFileInv == ASSUME ServerInv, LoseFile PROVE ServerInv'
<1>1. Typed'
  BY StutterTyped DEF LoseFile, ServerInv
<1>2. ServerTypeOK'
  BY DEF LoseFile, ServerInv, ServerTypeOK, vars
<1>3. KeyOnFile' /\ SealedFromFile'
  BY DEF LoseFile, ServerInv, ServerTypeOK, KeyOnFile, SealedFromFile
<1> QED BY <1>1, <1>2, <1>3 DEF ServerInv

LEMMA StopInv == ASSUME ServerInv, Stop PROVE ServerInv'
<1>1. Typed'
  <2>1. DocsOK'
    BY DocsKept DEF Stop, ServerInv
  <2>2. overtaken' \subseteq Users
    BY ExcusedUser DEF Stop, History, Interrupted, ServerInv, Typed, TypeOK
  <2>3. UserKnown'
    BY DEF Stop, UserKnown, NeedsUser, NoRequest
  <2>4. req' \in [Requests -> Request \cup {NoRequest}]
    BY DEF Stop
  <2> QED BY <2>1, <2>2, <2>3, <2>4 DEF Typed, TypeOK, DocsOK
<1>2. ServerTypeOK'
  BY DEF Stop, ServerInv, ServerTypeOK, docs
<1>3. KeyOnFile' /\ SealedFromFile'
  BY DEF Stop, ServerInv, KeyOnFile, SealedFromFile
<1> QED BY <1>1, <1>2, <1>3 DEF ServerInv

----------------------------------------------------------------------------
\* Requests.

\* A password comes into being only where it is encrypted.
LEMMA NewPasswordsEncrypted ==
  ASSUME Typed, Next, NEW u \in Users, password[u] = NoPassword, password'[u] # NoPassword
  PROVE  u \in Encrypted
<1>1. ASSUME NEW q \in Requests, NEW v \in Users, RegisterPut(q, v) PROVE u \in Encrypted
  BY <1>1 DEF RegisterPut, Encrypted, Typed, TypeOK
<1>2. ASSUME NEW q \in Requests, UpdatePasswordEnc(q) PROVE u \in Encrypted
  <2>1. req[q].user = u
    BY <1>2 DEF UpdatePasswordEnc, Typed, TypeOK
  <2>2. req'[q].step = "setKey"
    <3>1. req[q] \in Request
      BY <1>2, RequestShape DEF UpdatePasswordEnc, Typed
    <3>2. req'[q] = [req[q] EXCEPT !.step = "setKey"]
      BY <1>2 DEF UpdatePasswordEnc, Typed, TypeOK
    <3> QED BY <3>1, <3>2 DEF Request
  <2> QED BY <1>2, <2>1, <2>2 DEF UpdatePasswordEnc, Encrypted
<1>3. ASSUME NEW q \in Requests, DeleteAccount(q) PROVE FALSE
  BY <1>3 DEF DeleteAccount, Typed, TypeOK
<1>4. ASSUME UNCHANGED password PROVE FALSE
  BY <1>4
<1>5. ASSUME NEW v \in Users, CreateUserWithSoloRoom(v) PROVE FALSE
  BY <1>5 DEF CreateUserWithSoloRoom
<1>6. ASSUME NEW q \in Requests, Begins(q) \/ Fail(q) PROVE FALSE
  BY <1>6 DEF Begins, BeginRegister, BeginLogin, BeginAuthenticated, Begin, Fail, docs
<1>7. ASSUME NEW q \in Requests, Step(q) PROVE u \in Encrypted
  BY <1>1, <1>2, <1>3, <1>4, <1>7 DEF Step, RegisterFind, LoginFind, SetAPIKey,
     ChangePasswordRead, ProfileFind, UpdateUsername, docs
<1> QED BY <1>5, <1>6, <1>7 DEF Next

LEMMA ServeInv == ASSUME ServerInv, Serve PROVE ServerInv'
<1>1. Typed'
  BY NextTyped DEF Serve, ServerInv
<1>2. key \in Keys /\ key \in {keyFile} \cup lost
  BY DEF Serve, ServerInv, ServerTypeOK, KeyOnFile
<1>3. ASSUME NEW u \in Users
      PROVE  /\ sealed'[u] \in {Unsealed, keyFile} \cup lost
             /\ sealed'[u] \in Keys \cup {Unsealed}
             /\ sealed'[u] = Unsealed <=> password'[u] = NoPassword
  <2>1. sealed'[u] = IF password'[u] = NoPassword THEN Unsealed
                     ELSE IF u \in Encrypted THEN key ELSE sealed[u]
    BY DEF Serve
  <2>2. sealed[u] \in Keys \cup {Unsealed} /\ sealed[u] \in {Unsealed, keyFile} \cup lost
        /\ (sealed[u] = Unsealed <=> password[u] = NoPassword)
    BY DEF ServerInv, ServerTypeOK, SealedFromFile
  <2>3. password'[u] # NoPassword /\ u \notin Encrypted => password[u] # NoPassword
    BY NewPasswordsEncrypted DEF Serve, ServerInv
  <2> QED BY <1>2, <2>1, <2>2, <2>3
<1>4. ServerTypeOK'
  <2>1. sealed' \in [Users -> Keys \cup {Unsealed}]
    BY <1>3 DEF Serve
  <2> QED BY <1>3, <2>1 DEF Serve, ServerInv, ServerTypeOK
<1>5. KeyOnFile' /\ SealedFromFile'
  BY <1>3 DEF Serve, ServerInv, KeyOnFile, SealedFromFile
<1> QED BY <1>1, <1>4, <1>5 DEF ServerInv

LEMMA ServerNextInv == ASSUME ServerInv, [ServerNext]_all_vars PROVE ServerInv'
<1>1. CASE UNCHANGED all_vars
  <2>1. Typed'
    BY <1>1, StutterTyped DEF ServerInv, all_vars
  <2> QED BY <1>1, <2>1 DEF ServerInv, ServerTypeOK, KeyOnFile, SealedFromFile, all_vars,
             server_vars, vars
<1> QED BY <1>1, LoadOrCreateKeyInv, LoseFileInv, StopInv, ServeInv DEF ServerNext

LEMMA ServerInvariant == ServerSpec => []ServerInv
<1>1. ServerInv /\ [ServerNext]_all_vars => ServerInv'
  BY ServerNextInv
<1> QED BY <1>1, ServerInitInv, PTL DEF ServerSpec

----------------------------------------------------------------------------
\* Through starts and stops, documents, requests, the key and the key file stay
\* well formed; a password and a key that encrypts it come and go together.
THEOREM ServerTypeCorrect == ServerSpec => [](TypeOK /\ ServerTypeOK)
<1>1. ServerInv => TypeOK /\ ServerTypeOK
  BY DEF ServerInv, Typed
<1> QED BY <1>1, ServerInvariant, PTL

\* Whenever the server runs, it can decrypt every stored password whose key was
\* not lost with the key file.
THEOREM PasswordsReadableHolds == ServerSpec => []PasswordsReadable
<1>1. ServerInv => PasswordsReadable
  BY DEF ServerInv, ServerTypeOK, KeyOnFile, SealedFromFile, PasswordsReadable, Decrypts
<1> QED BY <1>1, ServerInvariant, PTL

----------------------------------------------------------------------------
\* The requests' own invariants, on a server that may stop in the middle of any.

\* What is not a step of a request leaves the documents alone.
LEMMA OutsideRequests ==
  ASSUME [ServerNext]_all_vars
  PROVE  [Next]_vars \/ Stop
  BY DEF ServerNext, Serve, LoadOrCreateKey, LoseFile, all_vars

\* Through crashes and restarts, accounts differ in their usernames.
THEOREM ServerUsernamesDiffer == ServerSpec => []UsernamesDiffer
<1>1. ServerInit => UsernamesDiffer
  BY DEF ServerInit, Init, UsernamesDiffer
<1>2. Typed /\ UsernamesDiffer /\ [ServerNext]_all_vars => UsernamesDiffer'
  BY OutsideRequests, UsernamesDifferStep DEF Stop, docs, UsernamesDiffer
<1>3. ServerInv => Typed
  BY DEF ServerInv
<1> QED BY <1>1, <1>2, <1>3, ServerInvariant, PTL DEF ServerSpec

\* A stop between the two writes of a password change leaves the account overtaken.
LEMMA StopKeepsKeys ==
  ASSUME Typed, KeyForPasswordInForce, Stop
  PROVE  KeyForPasswordInForce'
<1> SUFFICES ASSUME NEW u \in Users, u \notin overtaken', Active(u)', keyFor'[u] # NoKey,
                    keyFor'[u] # password'[u]
             PROVE  FALSE
  BY DEF KeyForPasswordInForce
<1>1. UNCHANGED docs
  BY DEF Stop
<1>2. u \notin overtaken
  BY <1>1 DEF Stop, History, docs
<1>3. PICK q \in Requests : At(q, "password", "setKey") /\ req[q].user = u
  BY <1>1, <1>2 DEF KeyForPasswordInForce, docs
<1>4. u \in overtaken'
  BY <1>1, <1>3 DEF Stop, History, Interrupted, docs
<1> QED BY <1>4

\* Through crashes and restarts, the stored key was given for the password in
\* force, with the exceptions KeyForPasswordInForce names.
THEOREM ServerKeyForPasswordInForce == ServerSpec => []KeyForPasswordInForce
<1>1. ServerInit => KeyForPasswordInForce
  BY DEF ServerInit, Init, KeyForPasswordInForce
<1>2. Typed /\ KeyForPasswordInForce /\ [ServerNext]_all_vars => KeyForPasswordInForce'
  BY OutsideRequests, KeyForPasswordInForceStep, StopKeepsKeys
<1>3. ServerInv => Typed
  BY DEF ServerInv
<1> QED BY <1>1, <1>2, <1>3, ServerInvariant, PTL DEF ServerSpec

=============================================================================
