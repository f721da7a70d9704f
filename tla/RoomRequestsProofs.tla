------------------------- MODULE RoomRequestsProofs -------------------------
(***************************************************************************)
(* Proofs about RoomRequests, for every set of users, rooms and tokens and *)
(* for any number of requests in flight.                                   *)
(***************************************************************************)
EXTENDS RoomRequests, TLAPS

\* Given the status of each room, rm: the rooms a request knows of have been
\* created, and a request that has checked for a room works on one.
RequestOK(rm, rq) ==
  rq.step # "idle" =>
    /\ rq.own # NoRoom => rm[rq.own] # "unused"
    /\ rq.step \in {"share", "vote", "tally", "votedTx", "cancel", "joinOwn",
                    "delete", "deleteSoloTx", "leaveTx"} => rq.own # NoRoom
    /\ rq.step \in {"joinOwn", "joinTx"} =>
         rq.target \in RoomIds /\ rm[rq.target] # "unused"
    /\ \A r \in rq.solo : rm[r] # "unused"
RequestsOK == \A q \in Requests : RequestOK(room, req[q])

\* A room_id has been given to a room that was created.
RoomIdsCreated == \A u \in Users : roomId[u] # NoRoom => room[roomId[u]] # "unused"

Typed == TypeOK /\ RequestsOK /\ RoomIdsCreated

\* A room loses its last member only by excuse.
MembersRemain == \A r \in RoomIds \ excused : Live(r) => members[r] # {}

\* The votes in a room, and those a deletion to come is based on, were cast.
VotesRecorded ==
  /\ \A r \in RoomIds : Live(r) => votes[r] \subseteq hasVoted[r]
  /\ \A q \in Requests : req[q].step = "votedTx" => req[q].seen \subseteq hasVoted[req[q].own]

USE NoRoomAssumption, NoTokenAssumption DEF StoreTypeOK, Active, Live, At, Answer

\* What a request is, whatever step it is at.
LEMMA RequestShape ==
  ASSUME TypeOK, NEW q \in Requests, req[q].step # "idle"
  PROVE  req[q] \in Request
  BY DEF TypeOK, NoRequest, Request

LEMMA InitTyped == Init => Typed
  BY DEF Init, EmptyStore, Typed, TypeOK, RequestsOK, RequestOK, NoRequest, RoomIdsCreated

\* What every write to the store keeps.
StoreKept ==
  /\ StoreTypeOK'
  /\ RoomIdsCreated'
  /\ \A r \in RoomIds : room[r] # "unused" => room'[r] # "unused"

\* A step changes no request but its own.
LEMMA SetRequestTyped ==
  ASSUME Typed, StoreKept, NEW q \in Requests, NEW x, NEW d, History(d),
         x = NoRequest \/ (x \in Request /\ RequestOK(room', x)),
         req' = [req EXCEPT ![q] = x]
  PROVE  Typed'
<1>1. req' \in [Requests -> Request \cup {NoRequest}]
  BY DEF Typed, TypeOK
<1>2. RequestsOK'
  <2>1. ASSUME NEW p \in Requests PROVE RequestOK(room', req'[p])
    <3>1. CASE p = q
      BY <3>1 DEF Typed, TypeOK, RequestOK, NoRequest
    <3>2. CASE p # q /\ req[p] = NoRequest
      BY <3>2 DEF Typed, TypeOK, RequestOK, NoRequest
    <3>3. CASE p # q /\ req[p] \in Request
      BY <3>3 DEF Typed, TypeOK, RequestsOK, RequestOK, Request, StoreKept
    <3> QED
      BY <3>1, <3>2, <3>3 DEF Typed, TypeOK
  <2> QED
    BY <2>1 DEF RequestsOK
<1>3. hasVoted' \in [RoomIds -> SUBSET Users] /\ excused' \subseteq RoomIds
  BY DEF Typed, TypeOK, History, StoreKept
<1> QED
  BY <1>1, <1>2, <1>3 DEF Typed, TypeOK, RequestsOK, StoreKept

LEMMA AnswerTyped ==
  ASSUME Typed, StoreKept, NEW q \in Requests, NEW d, History(d), Answer(q)
  PROVE  Typed'
  BY SetRequestTyped

LEMMA UnchangedKept == ASSUME Typed, UNCHANGED store PROVE StoreKept
  BY DEF Typed, TypeOK, StoreKept, RoomIdsCreated, store

\* The transactions keep the store well formed.
LEMMA CreateSoloRoomTxKept ==
  ASSUME Typed, NEW u \in Users, NEW r \in RoomIds, CreateSoloRoomTx(u, r) PROVE StoreKept
  BY DEF Typed, TypeOK, StoreKept, RoomIdsCreated, CreateSoloRoomTx, SetRoomID

LEMMA CreateUserTxKept ==
  ASSUME Typed, NEW u \in Users, NEW r \in RoomIds, CreateUserTx(u, r) PROVE StoreKept
  BY DEF Typed, TypeOK, StoreKept, RoomIdsCreated, CreateUserTx

LEMMA JoinRoomTxKept ==
  ASSUME Typed, NEW u \in Users, NEW r \in RoomIds, room[r] # "unused",
         NEW solo \in SUBSET RoomIds, \A s \in solo : room[s] # "unused",
         JoinRoomTx(u, r, solo)
  PROVE  StoreKept
<1>1. StoreTypeOK'
  BY DEF Typed, TypeOK, JoinRoomTx, Without, DeleteRooms, SetRoomID
<1>2. RoomIdsCreated' /\ \A s \in RoomIds : room[s] # "unused" => room'[s] # "unused"
  BY DEF Typed, TypeOK, RoomIdsCreated, JoinRoomTx, DeleteRooms, SetRoomID
<1> QED
  BY <1>1, <1>2 DEF StoreKept

LEMMA DeleteVotedRoomTxKept ==
  ASSUME Typed, NEW r \in RoomIds, NEW ms \in SUBSET Users, DeleteVotedRoomTx(r, ms)
  PROVE  StoreKept
  BY DEF Typed, TypeOK, StoreKept, RoomIdsCreated, DeleteVotedRoomTx, Without, DeleteRooms,
         SetRoomID

LEMMA DeleteSoloAccountTxKept ==
  ASSUME Typed, NEW u \in Users, NEW r \in RoomIds, DeleteSoloAccountTx(u, r) PROVE StoreKept
  BY DEF Typed, TypeOK, StoreKept, RoomIdsCreated, DeleteSoloAccountTx, Without, DeleteRooms,
         SetRoomID

LEMMA LeaveTxKept ==
  ASSUME Typed, NEW u \in Users, NEW r \in RoomIds, LeaveRoomAndDeleteAccountTx(u, r)
  PROVE  StoreKept
  BY DEF Typed, TypeOK, StoreKept, RoomIdsCreated, LeaveRoomAndDeleteAccountTx,
         RemoveDeletionVote, SetRoomID

LEMMA DeleteRoomlessKept ==
  ASSUME Typed, NEW u \in Users, DeleteRoomlessAccount(u) PROVE StoreKept
  BY DEF Typed, TypeOK, StoreKept, RoomIdsCreated, DeleteRoomlessAccount

----------------------------------------------------------------------------
\* Type correctness, action by action.

LEMMA ArriveTyped == ASSUME Typed, Arrive PROVE Typed'
<1>1. History({})
  BY DEF Arrive
<1>2. ASSUME NEW u \in Users, Register(u) PROVE Typed'
  <2>1. StoreKept
    BY <1>2 DEF Register, Typed, TypeOK, StoreKept, RoomIdsCreated
  <2> QED
    BY <1>1, <1>2, <2>1
    DEF Register, StoreKept, Typed, TypeOK, RequestsOK, RequestOK, Request, NoRequest, History
<1>3. ASSUME NEW u \in Users, NEW r \in RoomIds, CreateUserWithSoloRoom(u, r) PROVE Typed'
  <2>1. StoreKept
    BY <1>3, CreateUserTxKept DEF CreateUserWithSoloRoom
  <2> QED
    BY <1>1, <1>3, <2>1
    DEF CreateUserWithSoloRoom, StoreKept, Typed, TypeOK, RequestsOK, RequestOK, Request,
        NoRequest, History
<1>4. ASSUME NEW q \in Requests, NEW u \in Users, NEW first \in Steps, Begin(q, u, first),
             first \in {"join", "create", "deleteUser"}
               \/ (first \in {"share", "vote", "cancel", "delete"} /\ roomId[u] # NoRoom)
      PROVE  Typed'
  <2> DEFINE x == [step |-> first, user |-> u, own |-> roomId[u], target |-> NoRoom,
                   solo |-> {}, seen |-> {}, fresh |-> FALSE]
  <2>1. StoreKept
    BY <1>4, UnchangedKept DEF Begin
  <2>2. x \in Request /\ RequestOK(room', x)
    BY <1>4, <2>1 DEF Typed, TypeOK, RoomIdsCreated, Request, RequestOK, Begin, store
  <2> QED
    BY <1>1, <1>4, <2>1, <2>2, SetRequestTyped DEF Begin
<1>5. ASSUME NEW q \in Requests, NEW u \in Users, BeginInRoom(q, u) PROVE Typed'
  <2>1. PICK first \in {"share", "vote", "cancel"} : Begin(q, u, first)
    BY <1>5 DEF BeginInRoom
  <2>2. first \in Steps /\ roomId[u] # NoRoom
    BY <1>5 DEF BeginInRoom, Steps
  <2> QED
    BY <1>4, <2>1, <2>2
<1>6. ASSUME NEW q \in Requests, NEW u \in Users, BeginJoin(q, u) PROVE Typed'
  <2>1. Begin(q, u, "join") /\ "join" \in Steps
    BY <1>6 DEF BeginJoin, Steps
  <2> QED
    BY <1>4, <2>1
<1>7. ASSUME NEW q \in Requests, NEW u \in Users, BeginCreate(q, u) PROVE Typed'
  <2>1. Begin(q, u, "create") /\ "create" \in Steps
    BY <1>7 DEF BeginCreate, Steps
  <2> QED
    BY <1>4, <2>1
<1>8. ASSUME NEW q \in Requests, NEW u \in Users, BeginDelete(q, u) PROVE Typed'
  <2>1. CASE roomId[u] = NoRoom
    <3>1. Begin(q, u, "deleteUser") /\ "deleteUser" \in Steps
      BY <1>8, <2>1 DEF BeginDelete, Steps
    <3> QED
      BY <1>4, <3>1
  <2>2. CASE roomId[u] # NoRoom
    <3>1. Begin(q, u, "delete") /\ "delete" \in Steps
      BY <1>8, <2>2 DEF BeginDelete, Steps
    <3> QED
      BY <1>4, <2>2, <3>1
  <2> QED
    BY <2>1, <2>2
<1> QED
  BY <1>2, <1>3, <1>5, <1>6, <1>7, <1>8 DEF Arrive

LEMMA StepTyped == ASSUME Typed, NEW q \in Requests, Step(q) PROVE Typed'
<1> DEFINE u == req[q].user
           r == req[q].own
<1>1. History({})
  BY DEF Step
<1>2. ASSUME ~At(q, "idle") PROVE req[q] \in Request /\ RequestOK(room, req[q])
  BY <1>2, RequestShape DEF Typed, RequestsOK
<1>3. ASSUME StoreKept, Answer(q) PROVE Typed'
  BY <1>1, <1>3, AnswerTyped
<1>4. ASSUME UNCHANGED store, NEW x \in Request, RequestOK(room', x), req' = [req EXCEPT ![q] = x]
      PROVE  Typed'
  BY <1>1, <1>4, UnchangedKept, SetRequestTyped
<1>5. ASSUME NEW s \in RoomIds, CreateSoloRoom(q, s) PROVE Typed'
  BY <1>2, <1>3, <1>5, CreateSoloRoomTxKept DEF CreateSoloRoom, Request
<1>6. ASSUME NEW t \in Tokens, RotateShareToken(q, t) PROVE Typed'
  <2>1. u \in Users /\ r \in RoomIds
    BY <1>2, <1>6 DEF RotateShareToken, Request, RequestOK
  <2>2. StoreKept
    BY <1>6, <2>1 DEF RotateShareToken, SetShareToken, Typed, TypeOK, StoreKept, RoomIdsCreated
  <2> QED
    BY <1>3, <1>6, <2>2 DEF RotateShareToken
<1>7. ASSUME NEW s \in RoomIds, JoinReadTarget(q, s) PROVE Typed'
  <2> DEFINE x == [req[q] EXCEPT !.target = s,
                                 !.step = IF r = NoRoom THEN "joinTx" ELSE "joinOwn"]
  <2>1. req[q] \in Request
    BY <1>2, <1>7 DEF JoinReadTarget
  <2>2. UNCHANGED store /\ req' = [req EXCEPT ![q] = x]
    BY <1>7, <2>1 DEF JoinReadTarget, Typed, TypeOK, Request
  <2>3. x \in Request
    BY <2>1 DEF Request, Steps
  <2>4. /\ room' = room /\ room[s] # "unused" /\ (r # NoRoom => room[r] # "unused")
        /\ \A t \in req[q].solo : room[t] # "unused"
    BY <1>2, <1>7, <2>2 DEF JoinReadTarget, RequestOK, store
  <2>5. RequestOK(room', x)
    BY <2>1, <2>4 DEF RequestOK, Request
  <2> QED
    BY <1>4, <2>2, <2>3, <2>5
<1>8. ASSUME JoinReadOwn(q) PROVE Typed'
  <2>1. req[q] \in Request /\ RequestOK(room, req[q]) /\ r \in RoomIds
    BY <1>2, <1>8 DEF JoinReadOwn, Request, RequestOK
  <2>2. CASE Live(r)
    <3> DEFINE alone == IF IsSoloRoomOf(u, members[r]) THEN {r} ELSE {}
               x == [req[q] EXCEPT !.step = "joinTx", !.solo = alone]
    <3>1. UNCHANGED store /\ req' = [req EXCEPT ![q] = x]
      BY <1>8, <2>1, <2>2 DEF JoinReadOwn, Typed, TypeOK, Request
    <3>2. alone \in SUBSET RoomIds /\ \A s \in alone : room[s] # "unused"
      BY <2>1, <2>2
    <3>3. x \in Request
      BY <2>1, <3>2 DEF Request, Steps
    <3>4. RequestOK(room', x)
      <4> HIDE DEF alone
      <4> QED
        BY <1>8, <2>1, <3>1, <3>2 DEF JoinReadOwn, Request, RequestOK, store
    <3> QED
      BY <1>4, <3>1, <3>3, <3>4
  <2>3. CASE ~Live(r)
    BY <1>3, <1>8, <2>3, UnchangedKept DEF JoinReadOwn
  <2> QED
    BY <2>2, <2>3
<1>9. ASSUME JoinCommit(q) PROVE Typed'
  BY <1>2, <1>3, <1>9, JoinRoomTxKept DEF JoinCommit, Request, RequestOK
<1>10. ASSUME VoteWrite(q) PROVE Typed'
  <2> DEFINE x == [req[q] EXCEPT !.step = "tally", !.fresh = votes'[r] # votes[r]]
  <2>1. req[q] \in Request /\ RequestOK(room, req[q]) /\ r \in RoomIds
    BY <1>2, <1>10 DEF VoteWrite, Request, RequestOK
  <2>2. StoreKept /\ room' = room
    BY <1>10, <2>1 DEF VoteWrite, VoteFor, Request, Typed, TypeOK, StoreKept, RoomIdsCreated
  <2>3. req' = [req EXCEPT ![q] = x]
    BY <1>10, <2>1 DEF VoteWrite, Typed, TypeOK, Request
  <2>4. x \in Request /\ RequestOK(room', x)
    BY <1>10, <2>1, <2>2 DEF VoteWrite, Request, RequestOK, Steps
  <2> QED
    BY <1>1, <2>2, <2>3, <2>4, SetRequestTyped
<1>11. ASSUME VoteTally(q) PROVE Typed'
  <2>1. req[q] \in Request /\ RequestOK(room, req[q]) /\ r \in RoomIds
    BY <1>2, <1>11 DEF VoteTally, Request, RequestOK
  <2>2. CASE Live(r) /\ AllVoted(members[r], votes[r])
    <3> DEFINE x == [req[q] EXCEPT !.step = "votedTx", !.seen = members[r]]
    <3>1. UNCHANGED store /\ req' = [req EXCEPT ![q] = x]
      BY <1>11, <2>1, <2>2 DEF VoteTally, Typed, TypeOK, Request
    <3>2. members[r] \in SUBSET Users
      BY <2>1 DEF Typed, TypeOK
    <3>3. x \in Request /\ RequestOK(room', x)
      BY <1>11, <2>1, <3>1, <3>2 DEF VoteTally, Request, RequestOK, Steps, store
    <3> QED
      BY <1>4, <3>1, <3>3
  <2>3. CASE ~(Live(r) /\ AllVoted(members[r], votes[r]))
    BY <1>3, <1>11, <2>3, UnchangedKept DEF VoteTally
  <2> QED
    BY <2>2, <2>3
<1>12. ASSUME VoteCommit(q) PROVE Typed'
  BY <1>2, <1>3, <1>12, DeleteVotedRoomTxKept DEF VoteCommit, Request, RequestOK
<1>13. ASSUME CancelDeletionVote(q) PROVE Typed'
  <2>1. StoreKept
    BY <1>2, <1>13 DEF CancelDeletionVote, RemoveDeletionVote, Request, RequestOK, Typed,
                       TypeOK, StoreKept, RoomIdsCreated
  <2> QED
    BY <1>3, <1>13, <2>1 DEF CancelDeletionVote
<1>14. ASSUME DeleteReadRoom(q) PROVE Typed'
  <2>1. req[q] \in Request /\ RequestOK(room, req[q]) /\ r \in RoomIds
    BY <1>2, <1>14 DEF DeleteReadRoom, Request, RequestOK
  <2>2. CASE Live(r)
    <3> DEFINE x == [req[q] EXCEPT !.step = IF AtMostOneMember(members[r]) THEN "deleteSoloTx"
                                                                          ELSE "leaveTx"]
    <3>1. UNCHANGED store /\ req' = [req EXCEPT ![q] = x]
      BY <1>14, <2>1, <2>2 DEF DeleteReadRoom, GoTo, Typed, TypeOK, Request
    <3>2. x \in Request /\ RequestOK(room', x)
      BY <1>14, <2>1, <3>1 DEF DeleteReadRoom, Request, RequestOK, Steps, store
    <3> QED
      BY <1>4, <3>1, <3>2
  <2>3. CASE ~Live(r)
    BY <1>3, <1>14, <2>3, UnchangedKept DEF DeleteReadRoom
  <2> QED
    BY <2>2, <2>3
<1>15. ASSUME DeleteSoloCommit(q) PROVE Typed'
  BY <1>2, <1>3, <1>15, DeleteSoloAccountTxKept DEF DeleteSoloCommit, Request, RequestOK
<1>16. ASSUME LeaveCommit(q) PROVE Typed'
  BY <1>2, <1>3, <1>16, LeaveTxKept DEF LeaveCommit, Request, RequestOK
<1>17. ASSUME DeleteUserCommit(q) PROVE Typed'
  BY <1>2, <1>3, <1>17, DeleteRoomlessKept DEF DeleteUserCommit, Request
<1> QED
  BY <1>5, <1>6, <1>7, <1>8, <1>9, <1>10, <1>11, <1>12, <1>13, <1>14, <1>15, <1>16, <1>17
  DEF Step

LEMMA FailTyped ==
  ASSUME Typed, NEW q \in Requests, Fail(q), NEW d, History(d) PROVE Typed'
  BY UnchangedKept, AnswerTyped DEF Fail

LEMMA StutterTyped == ASSUME Typed, UNCHANGED vars PROVE Typed'
<1>1. StoreKept
  BY UnchangedKept DEF vars, store
<1> QED
  BY <1>1 DEF Typed, TypeOK, StoreKept, RequestsOK, RequestOK, vars

LEMMA NextTyped == ASSUME Typed, [Next]_vars PROVE Typed'
  BY ArriveTyped, StepTyped, FailTyped, StutterTyped DEF Next

LEMMA TypedInvariant == Spec => []Typed
  BY InitTyped, NextTyped, PTL DEF Spec

\* Every interleaving of the database calls leaves documents and requests well
\* formed: no deleted document keeps a field, and no transaction works on a
\* room that was never created.
THEOREM TypeCorrect == Spec => []TypeOK
<1>1. Typed => TypeOK
  BY DEF Typed
<1> QED
  BY <1>1, TypedInvariant, PTL

----------------------------------------------------------------------------
\* A user belongs to the room the user document names.

\* Steps that write neither room_id, nor member_ids, nor any room's existence.
LEMMA OtherStepsKeepRooms ==
  ASSUME [Next]_vars
  PROVE  \/ UNCHANGED <<roomId, room, members>>
         \/ \E u \in Users, r \in RoomIds : CreateUserTx(u, r)
         \/ \E q \in Requests : \/ \E r \in RoomIds : CreateSoloRoom(q, r)
                               \/ JoinCommit(q)
                               \/ VoteCommit(q)
                               \/ DeleteSoloCommit(q)
                               \/ LeaveCommit(q)
                               \/ DeleteUserCommit(q)
<1>1. CASE Arrive
  BY <1>1 DEF Arrive, Register, CreateUserWithSoloRoom, BeginInRoom, BeginJoin, BeginCreate,
              BeginDelete, Begin, store
<1>2. ASSUME NEW q \in Requests, Step(q)
      PROVE  \/ UNCHANGED <<roomId, room, members>>
             \/ \E r \in RoomIds : CreateSoloRoom(q, r)
             \/ JoinCommit(q) \/ VoteCommit(q) \/ DeleteSoloCommit(q) \/ LeaveCommit(q)
             \/ DeleteUserCommit(q)
  BY <1>2 DEF Step, CreateSoloRoom, RotateShareToken, JoinReadTarget, JoinReadOwn, VoteWrite,
              VoteTally, CancelDeletionVote, DeleteReadRoom, store
<1>3. CASE \E q \in Requests : Fail(q)
  BY <1>3 DEF Fail, store
<1> QED
  BY <1>1, <1>2, <1>3 DEF Next, vars

LEMMA MemberOfOwnRoomStep ==
  ASSUME Typed, MemberOfOwnRoom, [Next]_vars PROVE MemberOfOwnRoom'
<1> USE DEF Typed, TypeOK, MemberOfOwnRoom, RoomIdsCreated, SetRoomID
<1>1. ASSUME NEW q \in Requests, ~At(q, "idle")
      PROVE  req[q] \in Request /\ RequestOK(room, req[q])
  BY <1>1, RequestShape DEF RequestsOK
<1>2. CASE UNCHANGED <<roomId, room, members>>
  BY <1>2
<1>3. ASSUME NEW u \in Users, NEW r \in RoomIds, CreateUserTx(u, r) PROVE MemberOfOwnRoom'
  BY <1>3 DEF CreateUserTx
<1>4. ASSUME NEW q \in Requests, NEW r \in RoomIds, CreateSoloRoom(q, r) PROVE MemberOfOwnRoom'
  BY <1>1, <1>4 DEF CreateSoloRoom, CreateSoloRoomTx, Request
<1>5. ASSUME NEW q \in Requests, JoinCommit(q) PROVE MemberOfOwnRoom'
  <2> DEFINE u == req[q].user
             r == req[q].target
             solo == req[q].solo
  <2>1. u \in Users /\ r \in RoomIds /\ solo \in SUBSET RoomIds /\ JoinRoomTx(u, r, solo)
    BY <1>1, <1>5 DEF JoinCommit, Request, RequestOK
  <2> HIDE DEF u, r, solo
  <2>2. ASSUME NEW s \in RoomIds, room'[s] = "live"
        PROVE  room[s] = "live" /\ members[s] \subseteq members'[s] /\ (s = r => u \in members'[s])
    BY <2>1, <2>2 DEF JoinRoomTx, DeleteRooms, Without
  <2>3. \A v \in Users : roomId'[v] = roomId[v] \/ (v = u /\ roomId'[v] = r)
    BY <2>1 DEF JoinRoomTx
  <2> QED
    BY <2>1, <2>2, <2>3
<1>6. ASSUME NEW q \in Requests, VoteCommit(q) PROVE MemberOfOwnRoom'
  BY <1>1, <1>6 DEF VoteCommit, DeleteVotedRoomTx, DeleteRooms, Without, Request, RequestOK
<1>7. ASSUME NEW q \in Requests, DeleteSoloCommit(q) PROVE MemberOfOwnRoom'
  BY <1>1, <1>7 DEF DeleteSoloCommit, DeleteSoloAccountTx, DeleteRooms, Without, Request, RequestOK
<1>8. ASSUME NEW q \in Requests, LeaveCommit(q) PROVE MemberOfOwnRoom'
  BY <1>1, <1>8 DEF LeaveCommit, LeaveRoomAndDeleteAccountTx, Request, RequestOK
<1>9. ASSUME NEW q \in Requests, DeleteUserCommit(q) PROVE MemberOfOwnRoom'
  BY <1>1, <1>9 DEF DeleteUserCommit, DeleteRoomlessAccount, Request
<1> QED
  BY <1>2, <1>3, <1>4, <1>5, <1>6, <1>7, <1>8, <1>9, OtherStepsKeepRooms

\* However many requests interleave, a user whose room_id names an existing room
\* is in its member_ids: the joins, the leaves and the deletions keep the two
\* fields, which live in two collections, in step.
THEOREM MemberOfOwnRoomHolds == Spec => []MemberOfOwnRoom
<1>1. Init => MemberOfOwnRoom
  BY DEF Init, EmptyStore, MemberOfOwnRoom
<1>2. Typed /\ MemberOfOwnRoom /\ [Next]_vars => MemberOfOwnRoom'
  BY MemberOfOwnRoomStep
<1> QED
  BY <1>1, <1>2, TypedInvariant, PTL DEF Spec

----------------------------------------------------------------------------
\* Which steps leave a room_id that dangles, or a member whose room it is not.

\* What a request has read can be out of date, but no more than this: the user
\* existed; a user with an account stays in the room that was the user's own, as
\* long as there is one; so it is never a room the user goes on to join, and no
\* other is deleted as solo.
ReadingOK(q) ==
  LET u == req[q].user
      r == req[q].own
  IN  req[q].step # "idle" =>
        /\ account[u] # "unused"
        /\ req[q].step \in {"create", "deleteUser"} => r = NoRoom
        /\ Active(u) /\ Live(r) => u \in members[r]
        /\ Active(u) /\ req[q].step \in {"joinOwn", "joinTx"} => req[q].target # r
        /\ req[q].solo \subseteq {r}
ReadingsOK == \A q \in Requests : ReadingOK(q)

\* No account and no room comes back, and nobody with an account leaves a room.
StoreStep ==
  /\ \A u \in Users : account[u] # "unused" => account'[u] # "unused" /\ (Active(u)' => Active(u))
  /\ \A r \in RoomIds : room[r] # "unused" => (Live(r)' => Live(r))
  /\ \A u \in Users, r \in RoomIds :
       Active(u)' /\ Live(r)' /\ u \in members[r] => u \in members'[r]

LEMMA NextStoreStep == ASSUME Typed, [Next]_vars PROVE StoreStep
<1> USE DEF Typed, TypeOK
<1>1. ASSUME NEW q \in Requests, ~At(q, "idle")
      PROVE  req[q] \in Request /\ RequestOK(room, req[q]) /\ req[q].user \in Users
  BY <1>1, RequestShape DEF RequestsOK, Request
<1>2. CASE UNCHANGED <<account, room, members>>
  BY <1>2 DEF StoreStep
<1>3. CASE Arrive
  <2>1. ASSUME NEW u \in Users, Register(u) PROVE StoreStep
    BY <2>1 DEF Register, StoreStep
  <2>2. ASSUME NEW u \in Users, NEW r \in RoomIds, CreateUserTx(u, r) PROVE StoreStep
    BY <2>2 DEF CreateUserTx, StoreStep
  <2> QED
    BY <1>2, <1>3, <2>1, <2>2 DEF Arrive, CreateUserWithSoloRoom, BeginInRoom, BeginJoin,
       BeginCreate, BeginDelete, Begin, store
<1>4. ASSUME NEW q \in Requests, Step(q) PROVE StoreStep
  <2>1. ASSUME NEW r \in RoomIds, CreateSoloRoom(q, r) PROVE StoreStep
    BY <2>1 DEF CreateSoloRoom, CreateSoloRoomTx, StoreStep
  <2>2. ASSUME JoinCommit(q) PROVE StoreStep
    BY <1>1, <2>2 DEF JoinCommit, JoinRoomTx, DeleteRooms, Without, StoreStep, RequestOK, Request
  <2>3. ASSUME VoteCommit(q) PROVE StoreStep
    BY <1>1, <2>3 DEF VoteCommit, DeleteVotedRoomTx, DeleteRooms, Without, StoreStep, RequestOK
  <2>4. ASSUME DeleteSoloCommit(q) PROVE StoreStep
    BY <1>1, <2>4 DEF DeleteSoloCommit, DeleteSoloAccountTx, DeleteRooms, Without, StoreStep,
       RequestOK
  <2>5. ASSUME LeaveCommit(q) PROVE StoreStep
    BY <1>1, <2>5 DEF LeaveCommit, LeaveRoomAndDeleteAccountTx, StoreStep, RequestOK
  <2>6. ASSUME DeleteUserCommit(q) PROVE StoreStep
    BY <1>1, <2>6 DEF DeleteUserCommit, DeleteRoomlessAccount, StoreStep
  <2> QED
    BY <1>2, <1>4, <2>1, <2>2, <2>3, <2>4, <2>5, <2>6 DEF Step, RotateShareToken, JoinReadTarget,
       JoinReadOwn, VoteWrite, VoteTally, CancelDeletionVote, DeleteReadRoom, store
<1>5. CASE \E q \in Requests : Fail(q)
  BY <1>2, <1>5 DEF Fail, store
<1> QED
  BY <1>2, <1>3, <1>4, <1>5 DEF Next, vars

\* A request that has read nothing new.
LEMMA ReadingKept ==
  ASSUME Typed, StoreStep, NEW q \in Requests, ReadingOK(q), req'[q] = req[q]
  PROVE  ReadingOK(q)'
<1>1. CASE req[q].step = "idle"
  BY <1>1 DEF ReadingOK
<1>2. CASE req[q].step # "idle"
  <2>1. req[q] \in Request /\ RequestOK(room, req[q]) /\ req[q].user \in Users
    BY <1>2, RequestShape DEF Typed, RequestsOK, Request
  <2> QED
    BY <1>2, <2>1 DEF ReadingOK, StoreStep, RequestOK
<1> QED
  BY <1>1, <1>2

\* What a request reads next.
LEMMA ReadingNext ==
  ASSUME Typed, MemberOfOwnRoom, [Next]_vars, NEW q \in Requests, ReadingOK(q),
         req'[q] # req[q], req'[q] # NoRequest
  PROVE  ReadingOK(q)'
<1> USE DEF Typed, TypeOK
<1>1. ASSUME ~At(q, "idle") PROVE req[q] \in Request /\ RequestOK(room, req[q])
  BY <1>1, RequestShape DEF RequestsOK
<1>2. \A p \in Requests : Answer(p) => p # q
  BY DEF NoRequest
<1>3. ASSUME NEW p \in Requests, NEW u \in Users, NEW first \in Steps, Begin(p, u, first),
             first \notin {"joinOwn", "joinTx"},
             first \in {"create", "deleteUser"} => roomId[u] = NoRoom
      PROVE  ReadingOK(q)'
  BY <1>3 DEF Begin, store, ReadingOK, MemberOfOwnRoom
<1>4. CASE Arrive
  <2>1. ASSUME NEW p \in Requests, NEW u \in Users,
               BeginInRoom(p, u) \/ BeginJoin(p, u) \/ BeginCreate(p, u) \/ BeginDelete(p, u)
        PROVE  ReadingOK(q)'
    BY <1>3, <2>1 DEF BeginInRoom, BeginJoin, BeginCreate, BeginDelete, Steps
  <2> QED
    BY <1>4, <2>1 DEF Arrive, Register, CreateUserWithSoloRoom
<1>5. ASSUME NEW p \in Requests, Step(p) PROVE ReadingOK(q)'
  <2>1. CASE p # q
    BY <1>5, <2>1 DEF Step, CreateSoloRoom, RotateShareToken, JoinReadTarget, JoinReadOwn,
       JoinCommit, VoteWrite, VoteTally, VoteCommit, CancelDeletionVote, DeleteReadRoom, GoTo,
       DeleteSoloCommit, LeaveCommit, DeleteUserCommit
  <2>2. CASE p = q
    <3>1. ASSUME NEW r \in RoomIds, JoinReadTarget(q, r) PROVE ReadingOK(q)'
      BY <1>1, <3>1 DEF JoinReadTarget, store, ReadingOK, Request
    <3>2. ASSUME JoinReadOwn(q) PROVE ReadingOK(q)'
      BY <1>1, <1>2, <3>2 DEF JoinReadOwn, store, ReadingOK, Request
    <3>3. ASSUME VoteWrite(q) PROVE ReadingOK(q)'
      BY <1>1, <3>3 DEF VoteWrite, ReadingOK, Request
    <3>4. ASSUME VoteTally(q) PROVE ReadingOK(q)'
      BY <1>1, <1>2, <3>4 DEF VoteTally, store, ReadingOK, Request
    <3>5. ASSUME DeleteReadRoom(q) PROVE ReadingOK(q)'
      BY <1>1, <1>2, <3>5 DEF DeleteReadRoom, GoTo, store, ReadingOK, Request
    <3> QED
      BY <1>2, <1>5, <2>2, <3>1, <3>2, <3>3, <3>4, <3>5 DEF Step, CreateSoloRoom,
         RotateShareToken, JoinCommit, VoteCommit, CancelDeletionVote, DeleteSoloCommit,
         LeaveCommit, DeleteUserCommit
  <2> QED
    BY <2>1, <2>2
<1>6. CASE \E p \in Requests : Fail(p)
  BY <1>2, <1>6 DEF Fail
<1> QED
  BY <1>4, <1>5, <1>6 DEF Next, vars

LEMMA ReadingsStep ==
  ASSUME Typed, MemberOfOwnRoom, ReadingsOK, [Next]_vars PROVE ReadingsOK'
<1>1. \A q \in Requests : req'[q] = NoRequest => ReadingOK(q)'
  BY DEF ReadingOK, NoRequest
<1> QED
  BY <1>1, NextStoreStep, ReadingKept, ReadingNext DEF ReadingsOK

LEMMA ReadingsInvariant == Spec => [](Typed /\ MemberOfOwnRoom /\ ReadingsOK)
<1>1. Init => ReadingsOK
  BY DEF Init, ReadingsOK, ReadingOK, NoRequest
<1>2. Typed /\ MemberOfOwnRoom /\ ReadingsOK /\ [Next]_vars => ReadingsOK'
  BY ReadingsStep
<1> QED
  BY <1>1, <1>2, TypedInvariant, MemberOfOwnRoomHolds, PTL DEF Spec

LEMMA DanglingExplainedStep ==
  ASSUME Typed, ReadingsOK, [Next]_vars, NEW u \in Users, ~Dangles(u), Dangles(u)'
  PROVE  \E q \in Requests : req'[q] = NoRequest /\ OvertakenBy(q, u)
<1> USE DEF Typed, TypeOK, SetRoomID, Dangles, OvertakenBy
<1> DEFINE Goal == \E q \in Requests : req'[q] = NoRequest /\ OvertakenBy(q, u)
<1>1. ASSUME NEW q \in Requests, ~At(q, "idle")
      PROVE  /\ req[q] \in Request /\ RequestOK(room, req[q]) /\ req[q].user \in Users
             /\ ReadingOK(q)
  BY <1>1, RequestShape DEF RequestsOK, ReadingsOK, Request
<1>2. \A q \in Requests : Answer(q) => req'[q] = NoRequest
  OBVIOUS
<1>3. ASSUME NEW v \in Users, NEW r \in RoomIds, CreateUserTx(v, r) PROVE Goal
  BY <1>3 DEF CreateUserTx
<1>4. ASSUME NEW q \in Requests, NEW r \in RoomIds, CreateSoloRoom(q, r) PROVE Goal
  BY <1>1, <1>4 DEF CreateSoloRoom, CreateSoloRoomTx
<1>5. ASSUME NEW q \in Requests, JoinCommit(q) PROVE Goal
  <2> DEFINE r == roomId'[u]
  <2>1. /\ req'[q] = NoRequest /\ req[q].step = "joinTx" /\ r \in RoomIds
        /\ ~Live(r) \/ r \in req[q].solo
    BY <1>1, <1>2, <1>5 DEF JoinCommit, JoinRoomTx, DeleteRooms, RequestOK
  <2>2. CASE req[q].user # u
    BY <1>5, <2>1, <2>2 DEF JoinCommit, JoinRoomTx
  <2>3. CASE req[q].user = u
    <3>1. Active(u) /\ r = req[q].target
      BY <1>5, <2>1, <2>3 DEF JoinCommit, JoinRoomTx
    <3>2. r \notin req[q].solo
      BY <1>1, <2>1, <2>3, <3>1 DEF ReadingOK
    <3> QED
      BY <2>1, <2>3, <3>1, <3>2
  <2> QED
    BY <2>2, <2>3
<1>6. ASSUME NEW q \in Requests, VoteCommit(q) PROVE Goal
  BY <1>1, <1>2, <1>6 DEF VoteCommit, DeleteVotedRoomTx, DeleteRooms
<1>7. ASSUME NEW q \in Requests, DeleteSoloCommit(q) PROVE Goal
  BY <1>1, <1>2, <1>7 DEF DeleteSoloCommit, DeleteSoloAccountTx, DeleteRooms
<1>8. ASSUME NEW q \in Requests, LeaveCommit(q) PROVE Goal
  BY <1>8 DEF LeaveCommit, LeaveRoomAndDeleteAccountTx
<1>9. ASSUME NEW q \in Requests, DeleteUserCommit(q) PROVE Goal
  BY <1>9 DEF DeleteUserCommit, DeleteRoomlessAccount
<1> QED
  BY <1>3, <1>4, <1>5, <1>6, <1>7, <1>8, <1>9, OtherStepsKeepRooms

\* However many requests interleave, a room_id comes to name a room that is gone
\* only where a join and a deletion overtake each other, in one of the four
\* ways listed: never for the members that a vote has read, for the user whose
\* account ends with the room, or for a joiner whose own room goes.
THEOREM DanglingExplainedHolds == Spec => DanglingExplained
<1>1. Typed /\ ReadingsOK /\ [Next]_vars =>
        [\A u \in Users : ~Dangles(u) /\ Dangles(u)' =>
           \E q \in Requests : req'[q] = NoRequest /\ OvertakenBy(q, u)]_vars
  BY DanglingExplainedStep
<1> QED
  BY <1>1, ReadingsInvariant, PTL DEF Spec, DanglingExplained

LEMMA GhostsExplainedStep ==
  ASSUME Typed, ReadingsOK, [Next]_vars, NEW u \in Users, NEW r \in RoomIds,
         ~Ghost(u, r), Ghost(u, r)'
  PROVE  \E q \in Requests :
           ~At(q, "idle") /\ req'[q] = NoRequest /\ LeavesBehind(q, u, r)
<1> USE DEF Typed, TypeOK, SetRoomID, Ghost, LeavesBehind
<1> DEFINE Goal == \E q \in Requests :
                     ~At(q, "idle") /\ req'[q] = NoRequest /\ LeavesBehind(q, u, r)
<1>1. ASSUME NEW q \in Requests, ~At(q, "idle")
      PROVE  /\ req[q] \in Request /\ RequestOK(room, req[q]) /\ req[q].user \in Users
             /\ ReadingOK(q)
  BY <1>1, RequestShape DEF RequestsOK, ReadingsOK, Request
<1>2. \A q \in Requests : Answer(q) => req'[q] = NoRequest
  OBVIOUS
<1>3. ASSUME NEW v \in Users, NEW s \in RoomIds, CreateUserTx(v, s) PROVE Goal
  BY <1>3 DEF CreateUserTx
<1>4. ASSUME NEW q \in Requests, NEW s \in RoomIds, CreateSoloRoom(q, s) PROVE Goal
  <2>1. req[q].step = "create" /\ req'[q] = NoRequest /\ req[q].own = NoRoom
    BY <1>1, <1>2, <1>4 DEF CreateSoloRoom, ReadingOK
  <2> QED
    BY <1>1, <1>4, <2>1 DEF CreateSoloRoom, CreateSoloRoomTx
<1>5. ASSUME NEW q \in Requests, JoinCommit(q) PROVE Goal
  <2>1. /\ req'[q] = NoRequest /\ req[q].step = "joinTx" /\ req[q].user \in Users
        /\ req[q].solo \subseteq {req[q].own} /\ Live(r) /\ r \notin req[q].solo
        /\ u \in members[r] \/ (r = req[q].target /\ u = req[q].user)
    BY <1>1, <1>2, <1>5 DEF JoinCommit, JoinRoomTx, DeleteRooms, Without, ReadingOK, RequestOK
  <2>2. CASE u \in members[r]
    BY <1>5, <2>1, <2>2 DEF JoinCommit, JoinRoomTx
  <2>3. CASE u \notin members[r]
    BY <1>5, <2>1, <2>3 DEF JoinCommit, JoinRoomTx
  <2> QED
    BY <2>2, <2>3
<1>6. ASSUME NEW q \in Requests, VoteCommit(q) PROVE Goal
  BY <1>1, <1>2, <1>6 DEF VoteCommit, DeleteVotedRoomTx, DeleteRooms, Without
<1>7. ASSUME NEW q \in Requests, DeleteSoloCommit(q) PROVE Goal
  BY <1>1, <1>2, <1>7 DEF DeleteSoloCommit, DeleteSoloAccountTx, DeleteRooms, Without
<1>8. ASSUME NEW q \in Requests, LeaveCommit(q) PROVE Goal
  BY <1>1, <1>2, <1>8 DEF LeaveCommit, LeaveRoomAndDeleteAccountTx
<1>9. ASSUME NEW q \in Requests, DeleteUserCommit(q) PROVE Goal
  BY <1>1, <1>2, <1>9 DEF DeleteUserCommit, DeleteRoomlessAccount, ReadingOK
<1> QED
  BY <1>3, <1>4, <1>5, <1>6, <1>7, <1>8, <1>9, OtherStepsKeepRooms

\* However many requests interleave, member_ids comes to list a user whose room
\* it is not only by an account that is gone, a user document out of date, a join
\* out of a shared room, or a vote that clears the room_id of a former member.
THEOREM GhostsExplainedHolds == Spec => GhostsExplained
<1>1. Typed /\ ReadingsOK /\ [Next]_vars =>
        [\A u \in Users, r \in RoomIds : ~Ghost(u, r) /\ Ghost(u, r)' =>
           \E q \in Requests :
             ~At(q, "idle") /\ req'[q] = NoRequest /\ LeavesBehind(q, u, r)]_vars
  BY GhostsExplainedStep
<1> QED
  BY <1>1, ReadingsInvariant, PTL DEF Spec, GhostsExplained

----------------------------------------------------------------------------
\* Nobody loses a room_id without having voted.

\* A request is about to delete a voted room only because its tally found
\* every member's vote there.
LEMMA VotedTxComesFromTally ==
  ASSUME Typed, Next, NEW q \in Requests, req'[q].step = "votedTx", req'[q] # req[q]
  PROVE  /\ UNCHANGED store
         /\ req[q] \in Request /\ req[q].own \in RoomIds
         /\ AllVoted(members[req[q].own], votes[req[q].own])
         /\ req'[q].own = req[q].own
         /\ req'[q].seen = members[req[q].own]
         /\ req[q].step = "tally"
<1> USE DEF Typed, TypeOK
<1>1. ASSUME Arrive PROVE FALSE
  BY <1>1 DEF Arrive, Register, CreateUserWithSoloRoom, BeginInRoom, BeginJoin, BeginCreate,
              BeginDelete, Begin
<1>2. ASSUME NEW p \in Requests, Fail(p) PROVE FALSE
  BY <1>2 DEF Fail, NoRequest
<1>3. ASSUME NEW p \in Requests, Step(p) PROVE p = q /\ VoteTally(q)
  <2>1. ASSUME req[p].step # "idle" PROVE req[p] \in Request
    BY <2>1, RequestShape
  <2>2. ASSUME Answer(p) PROVE FALSE
    BY <2>2 DEF NoRequest
  <2>3. ASSUME NEW r \in RoomIds, JoinReadTarget(p, r) PROVE FALSE
    BY <2>1, <2>3 DEF JoinReadTarget, Request
  <2>4. ASSUME JoinReadOwn(p) PROVE FALSE
    BY <2>1, <2>2, <2>4 DEF JoinReadOwn, Request
  <2>5. ASSUME VoteWrite(p) PROVE FALSE
    BY <2>1, <2>5 DEF VoteWrite, Request
  <2>6. ASSUME DeleteReadRoom(p) PROVE FALSE
    BY <2>1, <2>2, <2>6 DEF DeleteReadRoom, GoTo, Request
  <2>7. ASSUME VoteTally(p) PROVE p = q
    BY <2>1, <2>2, <2>7 DEF VoteTally, Request
  <2> QED
    BY <1>3, <2>2, <2>3, <2>4, <2>5, <2>6, <2>7
    DEF Step, CreateSoloRoom, RotateShareToken, JoinCommit, VoteCommit, CancelDeletionVote,
        DeleteSoloCommit, LeaveCommit, DeleteUserCommit
<1>4. VoteTally(q)
  BY <1>1, <1>2, <1>3 DEF Next
<1>5. req[q] \in Request /\ RequestOK(room, req[q])
  BY <1>4, RequestShape DEF VoteTally, RequestsOK
<1>6. ~Answer(q)
  BY DEF NoRequest
<1> QED
  BY <1>4, <1>5, <1>6 DEF VoteTally, RequestOK, Request

LEMMA VotesRecordedStep == ASSUME Typed, VotesRecorded, [Next]_vars PROVE VotesRecorded'
<1> USE DEF VotesRecorded
<1>1. CASE UNCHANGED vars
  BY <1>1 DEF vars
<1>2. CASE Next
  <2>1. PICK d : History(d)
    BY <1>2 DEF Next, Arrive, Step
  <2>2. Typed'
    BY <1>2, NextTyped
  <2>3. ASSUME NEW r \in RoomIds, room'[r] = "live" PROVE votes'[r] \subseteq hasVoted'[r]
    BY <2>1, <2>3 DEF History
  <2>4. ASSUME NEW q \in Requests, req'[q].step = "votedTx"
        PROVE  req'[q].seen \subseteq hasVoted'[req'[q].own]
    <3>1. req'[q].own \in RoomIds
      BY <2>2, <2>4 DEF Typed, TypeOK, RequestsOK, RequestOK, Request, NoRequest
    <3>2. hasVoted'[req'[q].own] = hasVoted[req'[q].own] \cup votes'[req'[q].own]
      BY <2>1, <2>4, <3>1 DEF History
    <3>3. CASE req'[q] = req[q]
      BY <2>4, <3>2, <3>3
    <3>4. CASE req'[q] # req[q]
      BY <1>2, <2>4, <3>2, <3>4, VotedTxComesFromTally DEF AllVoted, store
    <3> QED
      BY <3>3, <3>4
  <2> QED
    BY <2>3, <2>4
<1> QED
  BY <1>1, <1>2

LEMMA DetachedOnlyByVoteStep ==
  ASSUME Typed, VotesRecorded, [Next]_vars, NEW u \in Users,
         Active(u), account'[u] = "active", roomId[u] # NoRoom, roomId'[u] = NoRoom
  PROVE  \E r \in RoomIds : room'[r] = "deleted" /\ u \in hasVoted[r]
<1> USE DEF Typed, TypeOK, SetRoomID
<1>1. ASSUME NEW q \in Requests, ~At(q, "idle")
      PROVE  req[q] \in Request /\ RequestOK(room, req[q])
  BY <1>1, RequestShape DEF RequestsOK
<1>2. ASSUME NEW v \in Users, NEW r \in RoomIds, CreateUserTx(v, r) PROVE FALSE
  BY <1>2 DEF CreateUserTx
<1>3. ASSUME NEW q \in Requests PROVE /\ ~\E r \in RoomIds : CreateSoloRoom(q, r)
                                      /\ ~JoinCommit(q)
                                      /\ ~DeleteSoloCommit(q)
                                      /\ ~LeaveCommit(q)
                                      /\ ~DeleteUserCommit(q)
  <2>1. ASSUME NEW r \in RoomIds, CreateSoloRoom(q, r) PROVE FALSE
    BY <2>1 DEF CreateSoloRoom, CreateSoloRoomTx
  <2>2. ASSUME JoinCommit(q) PROVE FALSE
    BY <1>1, <2>2 DEF JoinCommit, JoinRoomTx, RequestOK
  <2>3. ASSUME DeleteSoloCommit(q) PROVE FALSE
    BY <2>3 DEF DeleteSoloCommit, DeleteSoloAccountTx
  <2>4. ASSUME LeaveCommit(q) PROVE FALSE
    BY <2>4 DEF LeaveCommit, LeaveRoomAndDeleteAccountTx
  <2>5. ASSUME DeleteUserCommit(q) PROVE FALSE
    BY <2>5 DEF DeleteUserCommit, DeleteRoomlessAccount
  <2> QED
    BY <2>1, <2>2, <2>3, <2>4, <2>5
<1>4. PICK q \in Requests : VoteCommit(q)
  BY <1>2, <1>3, OtherStepsKeepRooms
<1>5. req[q].own \in RoomIds /\ room[req[q].own] # "unused" /\ u \in req[q].seen
  BY <1>1, <1>4 DEF VoteCommit, DeleteVotedRoomTx, RequestOK, Request
<1>6. room'[req[q].own] = "deleted"
  BY <1>4, <1>5 DEF VoteCommit, DeleteVotedRoomTx, DeleteRooms
<1> QED
  BY <1>4, <1>5, <1>6 DEF VotesRecorded, VoteCommit

\* With any number of overlapping requests, no user with an account is put out
\* of a room except by the deletion of a room in which the user had voted.
THEOREM DetachedOnlyByVoteHolds == Spec => DetachedOnlyByVote
<1>1. Init => VotesRecorded
  BY DEF Init, EmptyStore, VotesRecorded, NoRequest
<1>2. Typed /\ VotesRecorded /\ [Next]_vars => VotesRecorded'
  BY VotesRecordedStep
<1>3. Typed /\ VotesRecorded /\ [Next]_vars => [DetachStep]_vars
  BY DetachedOnlyByVoteStep DEF DetachStep
<1> QED
  BY <1>1, <1>2, <1>3, TypedInvariant, PTL DEF Spec, DetachedOnlyByVote

----------------------------------------------------------------------------
\* No unanimous vote is overlooked.

\* The request is counting the votes of room r, or has counted them all.
Counting(q, r) == req[q].step \in {"tally", "votedTx"} /\ req[q].own = r

\* The members and votes of a room that is there after a step.
LEMMA VotesOfLiveRoom ==
  ASSUME Typed, Next, NEW r \in RoomIds, room'[r] = "live"
  PROVE  \/ room[r] = "unused" /\ members'[r] # {} /\ votes'[r] = {}
         \/ room[r] = "live" /\ votes'[r] \subseteq votes[r]
         \/ room[r] = "live" /\ \E q \in Requests : Counting(q, r)'
<1> USE DEF Typed, TypeOK, SetRoomID
<1> DEFINE Goal == \/ room[r] = "unused" /\ members'[r] # {} /\ votes'[r] = {}
                   \/ room[r] = "live" /\ votes'[r] \subseteq votes[r]
                   \/ room[r] = "live" /\ \E q \in Requests : Counting(q, r)'
<1>1. ASSUME NEW q \in Requests, ~At(q, "idle")
      PROVE  req[q] \in Request /\ RequestOK(room, req[q])
  BY <1>1, RequestShape DEF RequestsOK
<1>2. ASSUME room' = room, votes' = votes PROVE Goal
  BY <1>2
<1>3. ASSUME NEW v \in Users, NEW s \in RoomIds,
             CreateUserTx(v, s) \/ CreateSoloRoomTx(v, s)
      PROVE  Goal
  <2>1. room[s] = "unused" /\ members'[s] = {v} /\ votes' = votes
    BY <1>3 DEF CreateUserTx, CreateSoloRoomTx
  <2>2. s # r => room[r] = room'[r]
    BY <1>3 DEF CreateUserTx, CreateSoloRoomTx
  <2>3. votes[s] = {}
    BY <2>1
  <2> QED
    BY <2>1, <2>2, <2>3
<1>4. CASE Arrive
  BY <1>2, <1>3, <1>4 DEF Arrive, Register, CreateUserWithSoloRoom, BeginInRoom, BeginJoin,
                          BeginCreate, BeginDelete, Begin, store
<1>5. ASSUME NEW q \in Requests, Fail(q) PROVE Goal
  BY <1>2, <1>5 DEF Fail, store
<1>6. ASSUME NEW q \in Requests, Step(q) PROVE Goal
  <2>1. ASSUME NEW s \in RoomIds, CreateSoloRoom(q, s) PROVE Goal
    BY <1>1, <1>3, <2>1 DEF CreateSoloRoom, Request
  <2>2. ASSUME JoinCommit(q) PROVE Goal
    BY <2>2 DEF JoinCommit, JoinRoomTx, DeleteRooms, Without
  <2>3. ASSUME VoteWrite(q) PROVE Goal
    <3>1. req[q] \in Request
      BY <1>1, <2>3 DEF VoteWrite
    <3>2. CASE req[q].own = r
      BY <2>3, <3>1, <3>2 DEF VoteWrite, Counting, Request
    <3>3. CASE req[q].own # r
      BY <2>3, <3>3 DEF VoteWrite, VoteFor
    <3> QED
      BY <3>2, <3>3
  <2>4. ASSUME VoteCommit(q) PROVE Goal
    BY <2>4 DEF VoteCommit, DeleteVotedRoomTx, DeleteRooms, Without
  <2>5. ASSUME CancelDeletionVote(q) PROVE Goal
    BY <2>5 DEF CancelDeletionVote, RemoveDeletionVote
  <2>6. ASSUME DeleteSoloCommit(q) PROVE Goal
    BY <2>6 DEF DeleteSoloCommit, DeleteSoloAccountTx, DeleteRooms, Without
  <2>7. ASSUME LeaveCommit(q) PROVE Goal
    BY <2>7 DEF LeaveCommit, LeaveRoomAndDeleteAccountTx, RemoveDeletionVote
  <2>8. ASSUME DeleteUserCommit(q) PROVE Goal
    BY <2>8 DEF DeleteUserCommit, DeleteRoomlessAccount
  <2> QED
    BY <1>2, <1>6, <2>1, <2>2, <2>3, <2>4, <2>5, <2>6, <2>7, <2>8
    DEF Step, RotateShareToken, JoinReadTarget, JoinReadOwn, VoteTally, DeleteReadRoom, store
<1> QED
  BY <1>4, <1>5, <1>6 DEF Next

\* A request that counts keeps counting as long as all votes are in, unless it
\* fails and the room is excused.
LEMMA CountingGoesOn ==
  ASSUME Typed, Next, NEW q \in Requests, NEW r \in RoomIds, Counting(q, r),
         room[r] = "live", room'[r] = "live", r \notin excused', AllVoted(members[r], votes[r])
  PROVE  Counting(q, r)'
<1> USE DEF Typed, TypeOK, Counting
<1>1. req[q] \in Request
  BY RequestShape
<1>2. CASE req'[q] = req[q]
  BY <1>2
<1>3. CASE Arrive
  BY <1>1, <1>3 DEF Arrive, Register, CreateUserWithSoloRoom, BeginInRoom, BeginJoin,
              BeginCreate, BeginDelete, Begin, NoRequest
<1>4. ASSUME NEW p \in Requests, Fail(p),
             History(IF req[p].step \in {"tally", "votedTx"} THEN {req[p].own} ELSE {})
      PROVE  p # q
  BY <1>4 DEF History
<1>5. ASSUME Step(q) PROVE Counting(q, r)'
  <2>1. ASSUME VoteTally(q) PROVE Counting(q, r)'
    BY <1>1, <2>1 DEF VoteTally, Request
  <2>2. ~VoteCommit(q)
    BY DEF VoteCommit, DeleteVotedRoomTx, DeleteRooms
  <2> QED
    BY <1>5, <2>1, <2>2
    DEF Step, CreateSoloRoom, RotateShareToken, JoinReadTarget, JoinReadOwn, JoinCommit,
        VoteWrite, CancelDeletionVote, DeleteReadRoom, DeleteSoloCommit, LeaveCommit,
        DeleteUserCommit
<1>6. ASSUME NEW p \in Requests, p # q, Step(p) \/ Fail(p) PROVE req'[q] = req[q]
  BY <1>6 DEF Step, Fail, CreateSoloRoom, RotateShareToken, JoinReadTarget, JoinReadOwn, JoinCommit,
              VoteWrite, VoteTally, VoteCommit, CancelDeletionVote, DeleteReadRoom, GoTo,
              DeleteSoloCommit, LeaveCommit, DeleteUserCommit
<1>7. CASE \E p \in Requests : Step(p)
  BY <1>2, <1>5, <1>6, <1>7
<1>8. CASE \E p \in Requests :
             Fail(p) /\ History(IF req[p].step \in {"tally", "votedTx"} THEN {req[p].own} ELSE {})
  BY <1>2, <1>4, <1>6, <1>8
<1> QED
  BY <1>3, <1>7, <1>8 DEF Next

LEMMA NoLostFinalizationStep ==
  ASSUME Typed, MembersRemain, NoLostFinalization, [Next]_vars
  PROVE  MembersRemain' /\ NoLostFinalization'
<1>1. CASE UNCHANGED vars
  BY <1>1 DEF vars, MembersRemain, NoLostFinalization, AllVoted
<1>2. CASE Next
  <2>1. PICK d : History(d)
    BY <1>2 DEF Next, Arrive, Step
  <2>2. ASSUME NEW r \in RoomIds \ excused', room'[r] = "live"
        PROVE  members'[r] # {} /\ (AllVoted(members'[r], votes'[r]) =>
                                       \E q \in Requests : Counting(q, r)')
    <3>1. r \notin excused /\ members[r] \subseteq members'[r]
      BY <2>1, <2>2 DEF History
    <3>2. CASE room[r] = "live"
      <4>1. members[r] # {}
        BY <3>1, <3>2 DEF MembersRemain
      <4>2. ASSUME votes'[r] \subseteq votes[r], AllVoted(members'[r], votes'[r])
            PROVE  \E q \in Requests : Counting(q, r)'
        <5>1. AllVoted(members[r], votes[r])
          BY <3>1, <4>2 DEF AllVoted
        <5>2. PICK q \in Requests : Counting(q, r)
          BY <3>1, <3>2, <4>1, <5>1 DEF NoLostFinalization, Counting
        <5> QED
          BY <1>2, <2>2, <3>2, <5>1, <5>2, CountingGoesOn
      <4> QED
        BY <1>2, <2>2, <3>1, <3>2, <4>1, <4>2, VotesOfLiveRoom
    <3>3. CASE room[r] # "live"
      <4>1. members'[r] # {} /\ votes'[r] = {}
        BY <1>2, <2>2, <3>3, VotesOfLiveRoom
      <4> QED
        BY <4>1 DEF AllVoted
    <3> QED
      BY <3>2, <3>3
  <2> QED
    BY <2>2 DEF MembersRemain, NoLostFinalization, Counting
<1> QED
  BY <1>1, <1>2

\* Whatever the number of voters and the order of their writes and reads, a
\* unanimous vote always has a request left that will find it so, as long as
\* no member leaves and no voter's request fails.
THEOREM NoLostFinalizationHolds == Spec => []NoLostFinalization
<1>1. Init => MembersRemain /\ NoLostFinalization
  BY DEF Init, EmptyStore, MembersRemain, NoLostFinalization
<1>2. Typed /\ MembersRemain /\ NoLostFinalization /\ [Next]_vars
        => MembersRemain' /\ NoLostFinalization'
  BY NoLostFinalizationStep
<1> QED
  BY <1>1, <1>2, TypedInvariant, PTL DEF Spec

----------------------------------------------------------------------------
\* One request at a time is one of the whole requests of Rooms.

\* What the one request in flight has read is still so: nothing but accounts,
\* with new rooms, comes in between.  A vote that it has written and not yet
\* counted is the only difference to the votes of Rooms.
AloneOK(q) ==
  LET rq == req[q]
      u == rq.user
      r == rq.own
  IN  rq.step # "idle" =>
        /\ Active(u) /\ r = roomId[u]
        /\ rq.step \in {"create", "deleteUser"} => r = NoRoom
        /\ rq.step \in {"join", "joinOwn"} => rq.solo = {}
        /\ rq.step \in {"joinOwn", "joinTx"} =>
             Live(rq.target) /\ shareToken[rq.target] # NoToken /\ u \notin members[rq.target]
        /\ rq.step = "joinTx" =>
             /\ r # NoRoom => Live(r)
             /\ rq.solo = IF r # NoRoom /\ IsSoloRoomOf(u, members[r]) THEN {r} ELSE {}
        /\ rq.step \in {"tally", "votedTx"} /\ (Live(r) \/ rq.fresh) => Live(r) /\ u \in votes[r]
        /\ rq.step = "votedTx" =>
             Live(r) /\ rq.seen = members[r] /\ AllVoted(members[r], votes[r])
        /\ rq.step = "deleteSoloTx" => Live(r) /\ AtMostOneMember(members[r])
        /\ rq.step = "leaveTx" => Live(r) /\ ~AtMostOneMember(members[r])

\* A step of the store that leaves the rooms and users in use as they are.
NothingInUseChanges ==
  /\ \A u \in Users : Active(u) => Active(u)' /\ roomId'[u] = roomId[u]
  /\ \A r \in RoomIds : room[r] # "unused" =>
       /\ room'[r] = room[r] /\ members'[r] = members[r]
       /\ votes'[r] = votes[r] /\ shareToken'[r] = shareToken[r]

LEMMA AloneAfterOthers ==
  ASSUME Typed, NEW q \in Requests, AloneOK(q), NothingInUseChanges, req'[q] = req[q]
  PROVE  AloneOK(q)'
<1> SUFFICES ASSUME req[q].step # "idle" PROVE AloneOK(q)'
  BY DEF AloneOK
<1>1. req[q] \in Request /\ RequestOK(room, req[q])
  BY RequestShape DEF Typed, RequestsOK
<1> QED
  BY <1>1 DEF AloneOK, NothingInUseChanges, RequestOK, Request

LEMMA AloneAfterArrival ==
  ASSUME Typed, NEW q \in Requests, Requests = {q}, AloneOK(q), Arrive
  PROVE  AloneOK(q)'
<1>1. ASSUME NEW u \in Users, Register(u) PROVE AloneOK(q)'
  <2>1. NothingInUseChanges /\ req' = req
    BY <1>1 DEF Register, NothingInUseChanges, Typed, TypeOK
  <2> QED
    BY <2>1, AloneAfterOthers
<1>2. ASSUME NEW u \in Users, NEW r \in RoomIds, CreateUserWithSoloRoom(u, r) PROVE AloneOK(q)'
  <2>1. NothingInUseChanges /\ req' = req
    BY <1>2 DEF CreateUserWithSoloRoom, CreateUserTx, NothingInUseChanges, Typed, TypeOK
  <2> QED
    BY <2>1, AloneAfterOthers
<1>3. ASSUME NEW u \in Users, NEW first \in {"share", "vote", "cancel", "join", "delete"}, Begin(q, u, first)
      PROVE  AloneOK(q)'
  BY <1>3 DEF Begin, AloneOK, store, Typed, TypeOK
<1>4. ASSUME NEW u \in Users, NEW first \in {"create", "deleteUser"}, roomId[u] = NoRoom, Begin(q, u, first)
      PROVE  AloneOK(q)'
  BY <1>4 DEF Begin, AloneOK, store, Typed, TypeOK
<1> QED
  BY <1>1, <1>2, <1>3, <1>4 DEF Arrive, BeginInRoom, BeginJoin, BeginCreate, BeginDelete

LEMMA AloneAfterStep ==
  ASSUME Typed, NEW q \in Requests, AloneOK(q), Step(q)
  PROVE  AloneOK(q)'
<1> DEFINE u == req[q].user
           r == req[q].own
<1>1. ASSUME ~At(q, "idle") PROVE req[q] \in Request /\ RequestOK(room, req[q])
  BY <1>1, RequestShape DEF Typed, RequestsOK
<1>2. ASSUME Answer(q) PROVE AloneOK(q)'
  BY <1>2 DEF AloneOK, NoRequest, Typed, TypeOK
<1>3. ASSUME NEW s \in RoomIds, JoinReadTarget(q, s) PROVE AloneOK(q)'
  BY <1>1, <1>3 DEF JoinReadTarget, AloneOK, store, Typed, TypeOK, Request, RequestOK
<1>4. ASSUME JoinReadOwn(q) PROVE AloneOK(q)'
  <2>1. req[q] \in Request /\ RequestOK(room, req[q]) /\ r \in RoomIds /\ UNCHANGED store
    BY <1>1, <1>4 DEF JoinReadOwn, Request, RequestOK
  <2>2. CASE Live(r)
    <3> DEFINE alone == IF IsSoloRoomOf(u, members[r]) THEN {r} ELSE {}
               x == [req[q] EXCEPT !.step = "joinTx", !.solo = alone]
    <3>1. req' = [req EXCEPT ![q] = x]
      BY <1>4, <2>1, <2>2 DEF JoinReadOwn, Typed, TypeOK, Request
    <3>2. /\ x.step = "joinTx" /\ x.solo = alone /\ x.user = u /\ x.own = r
          /\ x.target = req[q].target
      BY <2>1 DEF Request
    <3> HIDE DEF x
    <3>3. req'[q] = x
      BY <3>1 DEF Typed, TypeOK
    <3> QED
      BY <1>4, <2>1, <2>2, <3>2, <3>3 DEF JoinReadOwn, AloneOK, store
  <2>3. CASE ~Live(r)
    BY <1>2, <1>4, <2>3 DEF JoinReadOwn
  <2> QED
    BY <2>2, <2>3
<1>5. ASSUME VoteWrite(q) PROVE AloneOK(q)'
  BY <1>1, <1>5 DEF VoteWrite, VoteFor, AloneOK, Typed, TypeOK, Request, RequestOK
<1>6. ASSUME VoteTally(q) PROVE AloneOK(q)'
  BY <1>1, <1>2, <1>6 DEF VoteTally, AloneOK, store, Typed, TypeOK, Request, RequestOK
<1>7. ASSUME DeleteReadRoom(q) PROVE AloneOK(q)'
  BY <1>1, <1>2, <1>7 DEF DeleteReadRoom, GoTo, AloneOK, store, Typed, TypeOK, Request, RequestOK
<1> QED
  BY <1>2, <1>3, <1>4, <1>5, <1>6, <1>7 DEF Step, CreateSoloRoom, RotateShareToken, JoinCommit,
     VoteCommit, CancelDeletionVote, DeleteSoloCommit, LeaveCommit, DeleteUserCommit

LEMMA AloneAfterNext ==
  ASSUME Typed, NEW q \in Requests, Requests = {q}, AloneOK(q), [Next]_vars
  PROVE  AloneOK(q)'
<1>1. ASSUME Fail(q) PROVE AloneOK(q)'
  BY <1>1 DEF Fail, AloneOK, NoRequest, Typed, TypeOK
<1>2. ASSUME UNCHANGED vars PROVE AloneOK(q)'
  BY <1>2, AloneAfterOthers DEF vars, NothingInUseChanges
<1> QED
  BY <1>1, <1>2, AloneAfterArrival, AloneAfterStep DEF Next

\* The votes that Rooms sees.
Uncounted(rq) == rq.step \in {"tally", "votedTx"} /\ rq.fresh
Counted(rq, vs) ==
  [r \in RoomIds |-> IF Uncounted(rq) /\ r = rq.own THEN vs[r] \ {rq.user} ELSE vs[r]]

LEMMA CountedOf ==
  ASSUME NEW rqs, NEW vs, NEW q, Requests = {q}
  PROVE  [r \in RoomIds |-> vs[r] \ {rqs[p].user : p \in
            {p \in Requests : /\ rqs[p].step \in {"tally", "votedTx"}
                              /\ rqs[p].own = r
                              /\ rqs[p].fresh}}]
           = Counted(rqs[q], vs)
<1> DEFINE counting(r) == {p \in Requests : /\ rqs[p].step \in {"tally", "votedTx"}
                                            /\ rqs[p].own = r
                                            /\ rqs[p].fresh}
<1>1. ASSUME NEW r \in RoomIds
      PROVE  vs[r] \ {rqs[p].user : p \in counting(r)} =
               IF Uncounted(rqs[q]) /\ r = rqs[q].own THEN vs[r] \ {rqs[q].user} ELSE vs[r]
  <2>1. CASE Uncounted(rqs[q]) /\ r = rqs[q].own
    <3>1. counting(r) = {q}
      BY <2>1 DEF Uncounted
    <3> HIDE DEF counting
    <3> QED
      BY <2>1, <3>1
  <2>2. CASE ~(Uncounted(rqs[q]) /\ r = rqs[q].own)
    <3>1. counting(r) = {}
      BY <2>2 DEF Uncounted
    <3> HIDE DEF counting
    <3> QED
      BY <2>2, <3>1
  <2> QED
    BY <2>1, <2>2
<1> QED
  BY <1>1 DEF Counted

LEMMA Published ==
  ASSUME NEW q, Requests = {q}
  PROVE  PublishedVotes = Counted(req[q], votes) /\ PublishedVotes' = Counted(req'[q], votes')
  BY CountedOf DEF PublishedVotes

LEMMA AllCounted ==
  ASSUME NEW rq, NEW vs \in [RoomIds -> SUBSET Users], ~Uncounted(rq)
  PROVE  Counted(rq, vs) = vs
  BY DEF Counted

----------------------------------------------------------------------------
\* The steps, one kind at a time, for the one request.

\* A request ends, or goes on, and nothing is to be seen of it.
LEMMA SilentStep ==
  ASSUME NEW q, Requests = {q}, UNCHANGED store, Counted(req'[q], votes) = Counted(req[q], votes)
  PROVE  UNCHANGED Serial!store
<1>1. PublishedVotes' = PublishedVotes
  BY Published DEF store
<1> QED
  BY <1>1 DEF Serial!store, store

LEMMA ArriveSerial ==
  ASSUME Typed, NEW q, Requests = {q}, Arrive PROVE Serial!Next \/ UNCHANGED Serial!store
<1>1. votes \in [RoomIds -> SUBSET Users]
  BY DEF Typed, TypeOK
<1>2. ASSUME NEW u \in Users, Register(u) PROVE Serial!Next
  <2>1. PublishedVotes' = PublishedVotes
    BY <1>2, Published DEF Register
  <2>2. Serial!Register(u)
    BY <1>2, <2>1 DEF Register, Serial!Register
  <2> QED
    BY <2>2 DEF Serial!Next
<1>3. ASSUME NEW u \in Users, NEW r \in RoomIds, CreateUserWithSoloRoom(u, r) PROVE Serial!Next
  <2>1. PublishedVotes' = PublishedVotes
    BY <1>3, Published DEF CreateUserWithSoloRoom, CreateUserTx
  <2>2. Serial!CreateUserWithSoloRoom(u, r)
    BY <1>3, <2>1 DEF CreateUserWithSoloRoom, CreateUserTx, Serial!CreateUserWithSoloRoom,
                      Serial!CreateUserTx
  <2> QED
    BY <2>2 DEF Serial!Next
<1>4. ASSUME NEW u \in Users, NEW first \in Steps \ {"tally", "votedTx"}, Begin(q, u, first)
      PROVE  UNCHANGED Serial!store
  <2>1. req'[q].step = first /\ req[q] = NoRequest /\ UNCHANGED store
    BY <1>4 DEF Begin, Typed, TypeOK
  <2>2. ~Uncounted(req[q]) /\ ~Uncounted(req'[q])
    BY <2>1 DEF Uncounted, NoRequest
  <2> QED
    BY <1>1, <2>1, <2>2, AllCounted, SilentStep
<1> QED
  BY <1>2, <1>3, <1>4
  DEF Arrive, BeginInRoom, BeginJoin, BeginCreate, BeginDelete, Steps

\* A request that ends with a write, other than of a vote, does all it does then.
LEMMA CommitSerial ==
  ASSUME Typed, NEW q, Requests = {q}, AloneOK(q),
         req[q].step \notin {"idle", "vote", "tally", "votedTx"}, Step(q), req'[q] = NoRequest,
         Typed'
  PROVE  Serial!Next \/ UNCHANGED Serial!store
<1> DEFINE u == req[q].user
           r == req[q].own
<1>1. req[q] \in Request /\ RequestOK(room, req[q]) /\ u \in Users /\ Active(u) /\ r = roomId[u]
  BY RequestShape DEF Typed, RequestsOK, Request, AloneOK
<1>2. PublishedVotes = votes /\ PublishedVotes' = votes'
  <2>1. ~Uncounted(req[q]) /\ ~Uncounted(req'[q])
    BY DEF Uncounted, NoRequest
  <2>2. votes \in [RoomIds -> SUBSET Users] /\ votes' \in [RoomIds -> SUBSET Users]
    BY DEF Typed, TypeOK
  <2> QED
    BY <2>1, <2>2, AllCounted, Published
<1>3. ASSUME NEW s \in RoomIds, CreateSoloRoom(q, s) PROVE Serial!Next
  <2>1. Serial!CreateSoloRoom(u, s)
    BY <1>1, <1>2, <1>3 DEF CreateSoloRoom, CreateSoloRoomTx, SetRoomID, AloneOK,
       Serial!CreateSoloRoom, Serial!CreateSoloRoomTx, Serial!SetRoomID, Serial!Active
  <2> QED
    BY <1>1, <2>1 DEF Serial!Next
<1>4. ASSUME NEW t \in Tokens, RotateShareToken(q, t) PROVE Serial!Next
  <2>1. Serial!RotateShareToken(u, t)
    BY <1>1, <1>2, <1>4 DEF RotateShareToken, SetShareToken, RequestOK,
       Serial!RotateShareToken, Serial!SetShareToken, Serial!Active
  <2> QED
    BY <1>1, <2>1 DEF Serial!Next
<1>5. ASSUME JoinCommit(q) PROVE Serial!Next
  <2> DEFINE s == req[q].target
             t == shareToken[s]
  <2>1. /\ JoinRoomTx(u, s, req[q].solo) /\ req[q].step = "joinTx"
        /\ s \in RoomIds /\ Live(s) /\ t # NoToken /\ u \notin members[s]
        /\ r # NoRoom => Live(r)
        /\ req[q].solo = IF r # NoRoom /\ IsSoloRoomOf(u, members[r]) THEN {r} ELSE {}
    BY <1>1, <1>5 DEF JoinCommit, AloneOK
  <2>2. t \in Tokens
    BY <2>1 DEF Typed, TypeOK
  <2>3. Serial!SoloRoomOf(u) = req[q].solo
    BY <1>1, <2>1 DEF Serial!SoloRoomOf, Serial!IsSoloRoomOf, IsSoloRoomOf
  <2>4. Serial!JoinRoomTx(u, s, req[q].solo)
    BY <1>2, <2>1 DEF JoinRoomTx, Serial!JoinRoomTx, Without, DeleteRooms, SetRoomID,
       Serial!Without, Serial!DeleteRooms, Serial!SetRoomID, Serial!Active
  <2>5. Serial!JoinRoom(u, s, t)
    BY <1>1, <2>1, <2>3, <2>4 DEF Serial!JoinRoom, Serial!Active, Serial!Live
  <2> QED
    BY <1>1, <2>1, <2>2, <2>5 DEF Serial!Next
<1>6. ASSUME CancelDeletionVote(q) PROVE Serial!Next
  <2>1. Serial!CancelDeletionVote(u)
    BY <1>1, <1>2, <1>6 DEF CancelDeletionVote, RemoveDeletionVote, RequestOK,
       Serial!CancelDeletionVote, Serial!RemoveDeletionVote, Serial!Active
  <2> QED
    BY <1>1, <2>1 DEF Serial!Next
<1>7. ASSUME DeleteSoloCommit(q) PROVE Serial!Next
  <2>1. Serial!DeleteAccount(u)
    BY <1>1, <1>2, <1>7 DEF DeleteSoloCommit, DeleteSoloAccountTx, AloneOK, DeleteRooms, Without,
       SetRoomID, Serial!DeleteAccount, Serial!DeleteSoloAccountTx, Serial!DeleteRooms,
       Serial!Without, Serial!SetRoomID, Serial!Active, Serial!Live, Serial!AtMostOneMember,
       AtMostOneMember
  <2> QED
    BY <1>1, <2>1 DEF Serial!Next
<1>8. ASSUME LeaveCommit(q) PROVE Serial!Next
  <2>1. Serial!DeleteAccount(u)
    BY <1>1, <1>2, <1>8 DEF LeaveCommit, LeaveRoomAndDeleteAccountTx, AloneOK, RemoveDeletionVote,
       SetRoomID, Serial!DeleteAccount, Serial!LeaveRoomAndDeleteAccountTx,
       Serial!RemoveDeletionVote, Serial!SetRoomID, Serial!Active, Serial!Live,
       Serial!AtMostOneMember, AtMostOneMember
  <2> QED
    BY <1>1, <2>1 DEF Serial!Next
<1>9. ASSUME DeleteUserCommit(q) PROVE Serial!Next
  <2>1. Serial!DeleteAccount(u)
    BY <1>1, <1>2, <1>9 DEF DeleteUserCommit, DeleteRoomlessAccount, AloneOK,
       Serial!DeleteAccount, Serial!DeleteRoomlessAccount, Serial!Active
  <2> QED
    BY <1>1, <2>1 DEF Serial!Next
<1>10. ASSUME UNCHANGED store PROVE UNCHANGED Serial!store
  BY <1>2, <1>10 DEF store, Serial!store
<1> QED
  BY <1>3, <1>4, <1>5, <1>6, <1>7, <1>8, <1>9, <1>10 DEF Step, JoinReadTarget, JoinReadOwn,
     VoteWrite, VoteTally, VoteCommit, DeleteReadRoom

\* A read that the request goes on from.
LEMMA ReadSerial ==
  ASSUME Typed, NEW q, Requests = {q}, Step(q), UNCHANGED store, req'[q] # NoRequest
  PROVE  UNCHANGED Serial!store
<1>1. votes \in [RoomIds -> SUBSET Users] /\ req \in [Requests -> Request \cup {NoRequest}]
  BY DEF Typed, TypeOK
<1>2. ASSUME ~Uncounted(req[q]), ~Uncounted(req'[q]) PROVE UNCHANGED Serial!store
  BY <1>1, <1>2, AllCounted, SilentStep
<1>3. ASSUME NEW s \in RoomIds, JoinReadTarget(q, s) PROVE ~Uncounted(req[q]) /\ ~Uncounted(req'[q])
  BY <1>1, <1>3, RequestShape DEF JoinReadTarget, Uncounted, Typed, Request
<1>4. ASSUME JoinReadOwn(q) PROVE ~Uncounted(req[q]) /\ ~Uncounted(req'[q])
  <2>1. req[q] \in Request
    BY <1>4, RequestShape DEF JoinReadOwn, Typed
  <2>2. req[q].step = "joinOwn" /\ req'[q].step = "joinTx"
    BY <1>1, <1>4, <2>1 DEF JoinReadOwn, Request
  <2> QED
    BY <2>2 DEF Uncounted
<1>5. ASSUME DeleteReadRoom(q) PROVE ~Uncounted(req[q]) /\ ~Uncounted(req'[q])
  BY <1>1, <1>5, RequestShape DEF DeleteReadRoom, GoTo, Uncounted, Typed, Request
<1>6. ASSUME VoteTally(q) PROVE Counted(req'[q], votes) = Counted(req[q], votes)
  <2>1. req[q] \in Request /\ req[q].step = "tally"
    BY <1>6, RequestShape DEF VoteTally, Typed
  <2>2. /\ req'[q].step = "votedTx" /\ req'[q].fresh = req[q].fresh
        /\ req'[q].own = req[q].own /\ req'[q].user = req[q].user
    BY <1>1, <1>6, <2>1 DEF VoteTally, Request
  <2> QED
    BY <2>1, <2>2 DEF Counted, Uncounted
<1>7. ASSUME VoteWrite(q) PROVE ~Uncounted(req[q]) /\ ~Uncounted(req'[q])
  BY <1>1, <1>7, RequestShape DEF VoteWrite, Uncounted, Typed, Request, store
<1>8. Answer(q) => req'[q] = NoRequest
  BY <1>1
<1> QED
  BY <1>2, <1>3, <1>4, <1>5, <1>6, <1>7, <1>8, SilentStep DEF Step, CreateSoloRoom,
     RotateShareToken, JoinCommit, VoteCommit, CancelDeletionVote, DeleteSoloCommit, LeaveCommit,
     DeleteUserCommit

\* A vote is written: it is not counted yet.
LEMMA VoteWriteSerial ==
  ASSUME Typed, NEW q, Requests = {q}, VoteWrite(q) PROVE UNCHANGED Serial!store
<1> DEFINE u == req[q].user
           r == req[q].own
<1>1. /\ req[q] \in Request /\ r \in RoomIds /\ votes \in [RoomIds -> SUBSET Users]
      /\ req[q].step = "vote"
  BY RequestShape DEF VoteWrite, Typed, TypeOK, RequestsOK, RequestOK, Request
<1>2. /\ votes' = VoteFor(r, u) /\ UNCHANGED <<account, roomId, room, members, shareToken>>
      /\ req'[q].step = "tally" /\ req'[q].fresh = (votes'[r] # votes[r])
      /\ req'[q].own = r /\ req'[q].user = u
  BY <1>1 DEF VoteWrite, Typed, TypeOK, Request
<1>3. /\ \A s \in RoomIds : s # r => votes'[s] = votes[s]
      /\ votes'[r] # votes[r] => votes'[r] \ {u} = votes[r]
  BY <1>1, <1>2 DEF VoteFor
<1> HIDE DEF u, r
<1>4. Counted(req'[q], votes') = [s \in RoomIds |-> votes[s]]
  <2>1. ASSUME NEW s \in RoomIds
        PROVE  votes[s] = IF Uncounted(req'[q]) /\ s = r THEN votes'[s] \ {u} ELSE votes'[s]
    BY <1>2, <1>3 DEF Uncounted
  <2> QED
    BY <1>2, <2>1 DEF Counted
<1>5. Counted(req[q], votes) = votes
  BY <1>1, AllCounted DEF Uncounted
<1>6. PublishedVotes' = PublishedVotes
  BY <1>1, <1>4, <1>5, Published
<1> QED
  BY <1>2, <1>6 DEF Serial!store

\* A vote is counted, or left to itself.
LEMMA VoteEndsSerial ==
  ASSUME Typed, NEW q, Requests = {q}, AloneOK(q), req[q].step \in {"tally", "votedTx"},
         UNCHANGED store, req'[q] = NoRequest
  PROVE  Serial!Next \/ UNCHANGED Serial!store
<1> DEFINE u == req[q].user
           r == req[q].own
<1>1. /\ u \in Users /\ Active(u) /\ r = roomId[u] /\ r \in RoomIds
      /\ votes \in [RoomIds -> SUBSET Users]
      /\ Live(r) \/ req[q].fresh => Live(r) /\ u \in votes[r]
  BY RequestShape DEF Typed, TypeOK, RequestsOK, RequestOK, Request, AloneOK
<1>2. PublishedVotes' = votes
  BY <1>1, Published, AllCounted DEF Uncounted, NoRequest, store
<1>3. CASE req[q].fresh
  <2>1. PublishedVotes = [s \in RoomIds |-> IF s = r THEN votes[s] \ {u} ELSE votes[s]]
    BY <1>3, Published DEF Counted, Uncounted
  <2>2. Live(r) /\ u \in votes[r]
    BY <1>1, <1>3
  <2> HIDE DEF u, r
  <2>3. votes = [PublishedVotes EXCEPT ![r] = @ \cup {u}]
    <3>1. PublishedVotes[r] \cup {u} = votes[r]
      BY <1>1, <2>1, <2>2
    <3>2. [PublishedVotes EXCEPT ![r] = @ \cup {u}] =
            [s \in RoomIds |-> IF s = r THEN votes[r] ELSE votes[s]]
      BY <1>1, <2>1, <3>1
    <3> QED
      BY <1>1, <3>2
  <2>4. Serial!VoteDeletionInterrupted(u)
    BY <1>1, <1>2, <2>2, <2>3 DEF Serial!VoteDeletionInterrupted, Serial!VoteFor, Serial!Active,
       Serial!Live, store
  <2> QED
    BY <1>1, <2>4 DEF Serial!Next
<1>4. CASE ~req[q].fresh
  <2>1. PublishedVotes = votes
    BY <1>1, <1>4, Published, AllCounted DEF Uncounted
  <2> QED
    BY <1>2, <2>1 DEF store, Serial!store
<1> QED
  BY <1>3, <1>4

\* The vote of all is acted on.
LEMMA VoteCommitSerial ==
  ASSUME Typed, NEW q, Requests = {q}, AloneOK(q), VoteCommit(q), Typed'
  PROVE  Serial!Next
<1> DEFINE u == req[q].user
           r == req[q].own
<1>1. /\ u \in Users /\ Active(u) /\ r = roomId[u] /\ Live(r) /\ r \in RoomIds
      /\ u \in votes[r] /\ votes \in [RoomIds -> SUBSET Users]
      /\ req[q].seen = members[r] /\ AllVoted(members[r], votes[r])
  BY RequestShape DEF VoteCommit, Typed, TypeOK, RequestsOK, Request, AloneOK
<1>2. /\ votes' = Without({r}, votes, {}) /\ room' = DeleteRooms({r})
      /\ members' = Without({r}, members, {}) /\ shareToken' = Without({r}, shareToken, NoToken)
      /\ roomId' = SetRoomID(members[r], NoRoom) /\ account' = account
      /\ req'[q] = NoRequest
  BY <1>1 DEF VoteCommit, DeleteVotedRoomTx, Typed, TypeOK
<1>3. PublishedVotes = Counted(req[q], votes) /\ PublishedVotes' = votes'
  <2>1. votes' \in [RoomIds -> SUBSET Users]
    BY DEF Typed, TypeOK
  <2>2. ~Uncounted(req'[q])
    BY <1>2 DEF Uncounted, NoRequest
  <2> QED
    BY <2>1, <2>2, Published, AllCounted
<1> HIDE DEF u, r
<1>4. /\ \A s \in RoomIds : s # r => PublishedVotes[s] = votes[s]
      /\ PublishedVotes[r] \cup {u} = votes[r]
  BY <1>1, <1>3 DEF Counted, u, r
<1>5. PublishedVotes' = Without({r}, PublishedVotes, {})
  BY <1>2, <1>3, <1>4 DEF Without
<1>6. Serial!VoteDeletion(u)
  BY <1>1, <1>2, <1>4, <1>5 DEF Serial!VoteDeletion, Serial!DeleteVotedRoomTx, Serial!AllVoted,
     AllVoted, Serial!Active, Serial!Live, Serial!DeleteRooms, DeleteRooms, Serial!Without,
     Without, Serial!SetRoomID, SetRoomID
<1> QED
  BY <1>1, <1>6 DEF Serial!Next

LEMMA NextSerial ==
  ASSUME Typed, NEW q, Requests = {q}, AloneOK(q), [Next]_vars, Typed'
  PROVE  [Serial!Next]_(Serial!store)
<1>1. CASE Arrive
  BY <1>1, ArriveSerial
<1>2. CASE Fail(q)
  <2>1. UNCHANGED store /\ req'[q] = NoRequest
    BY <1>2 DEF Fail, Typed, TypeOK
  <2>2. CASE req[q].step \in {"tally", "votedTx"}
    BY <2>1, <2>2, VoteEndsSerial
  <2>3. CASE req[q].step \notin {"tally", "votedTx"}
    <3>1. ~Uncounted(req[q]) /\ ~Uncounted(req'[q]) /\ votes \in [RoomIds -> SUBSET Users]
      BY <2>1, <2>3 DEF Uncounted, NoRequest, Typed, TypeOK
    <3> QED
      BY <2>1, <3>1, AllCounted, SilentStep
  <2> QED
    BY <2>2, <2>3
<1>3. CASE Step(q)
  <2>1. \/ req[q].step \in {"tally", "votedTx"} /\ (VoteTally(q) \/ VoteCommit(q))
        \/ req[q].step = "vote" /\ VoteWrite(q)
        \/ req[q].step \notin {"idle", "vote", "tally", "votedTx"}
    BY <1>3 DEF Step, CreateSoloRoom, RotateShareToken, JoinReadTarget, JoinReadOwn, JoinCommit,
       VoteWrite, VoteTally, VoteCommit, CancelDeletionVote, DeleteReadRoom, DeleteSoloCommit,
       LeaveCommit, DeleteUserCommit
  <2>2. CASE VoteTally(q)
    BY <1>3, <2>2, ReadSerial, VoteEndsSerial DEF VoteTally
  <2>3. CASE VoteCommit(q)
    BY <2>3, VoteCommitSerial
  <2>4. CASE VoteWrite(q)
    BY <2>4, VoteWriteSerial
  <2>5. CASE req[q].step \notin {"idle", "vote", "tally", "votedTx"}
    <3>1. CASE req'[q] = NoRequest
      BY <1>3, <2>5, <3>1, CommitSerial
    <3>2. CASE req'[q] # NoRequest
      <4>1. Answer(q) => req'[q] = NoRequest
        BY DEF Typed, TypeOK
      <4>2. UNCHANGED store
        BY <1>3, <2>5, <3>2, <4>1 DEF Step, CreateSoloRoom, RotateShareToken, JoinReadTarget,
           JoinReadOwn, JoinCommit, VoteWrite, VoteTally, VoteCommit, CancelDeletionVote,
           DeleteReadRoom, DeleteSoloCommit, LeaveCommit, DeleteUserCommit
      <4> QED
        BY <1>3, <3>2, <4>2, ReadSerial
    <3> QED
      BY <3>1, <3>2
  <2> QED
    BY <2>1, <2>2, <2>3, <2>4, <2>5
<1>4. CASE UNCHANGED vars
  <2>1. PublishedVotes' = PublishedVotes
    BY <1>4, Published DEF vars
  <2> QED
    BY <1>4, <2>1 DEF vars, Serial!store
<1> QED
  BY <1>1, <1>2, <1>3, <1>4 DEF Next

\* A server that handles one request at a time does, call by call, what Rooms
\* says of whole requests: the documents that a request has read are still so when
\* it writes, the reads in between are not to be seen, and a vote is published when
\* it is counted, or when its request is interrupted.  All that is proved of Rooms
\* holds of such a server.
THEOREM OneAtATime == (\E q : Requests = {q}) => (Spec => SerialSpec)
<1> SUFFICES ASSUME NEW q, Requests = {q} PROVE Spec => SerialSpec
  OBVIOUS
<1> DEFINE Alone == Typed /\ AloneOK(q)
<1>1. Init => Alone /\ Serial!Init
  <2> SUFFICES ASSUME Init PROVE Alone /\ Serial!Init
    OBVIOUS
  <2>1. Typed /\ AloneOK(q)
    BY InitTyped DEF Init, AloneOK, NoRequest
  <2>2. PublishedVotes = votes
    <3>1. ~Uncounted(req[q]) /\ votes \in [RoomIds -> SUBSET Users]
      BY <2>1 DEF Init, Uncounted, NoRequest, Typed, TypeOK
    <3> QED
      BY <3>1, Published, AllCounted
  <2> QED
    BY <2>1, <2>2 DEF Init, EmptyStore, Serial!Init, Serial!EmptyStore
<1>2. Alone /\ [Next]_vars => Alone'
  BY NextTyped, AloneAfterNext
<1>3. Alone /\ [Next]_vars => [Serial!Next]_(Serial!store)
  BY NextTyped, NextSerial
<1> QED
  BY <1>1, <1>2, <1>3, PTL DEF Spec, SerialSpec, Serial!Spec

=============================================================================
