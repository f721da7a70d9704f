------------------------- MODULE ListRequestsProofs -------------------------
(***************************************************************************)
(* Proofs about ListRequests, for every set of users, rooms, tokens and    *)
(* lists and for any number of requests in flight.                         *)
(***************************************************************************)
EXTENDS ListRequests, TLAPS

\* A request past the membership check works for somebody who has been in its
\* room; one that has read its list works on a list of that room, as long as
\* there is one; and a tally to come counts only people still in the room, but
\* for the lists that are excused.
RequestOK(q) ==
  /\ req[q].step \notin {"idle", "check"} =>
       room[req[q].own] # "unused" /\ req[q].user \in everMembers[req[q].own]
  /\ req[q].step \in {"add", "members", "finalize", "remove"} =>
       /\ req[q].list \in ListIds
       /\ list[req[q].list] # "unused"
       /\ Exists(req[q].list) => listRoom[req[q].list] = req[q].own
  /\ req[q].step = "finalize" /\ list[req[q].list] = "live" /\ req[q].list \notin excused =>
       req[q].seen \subseteq members[req[q].own]
RequestsOK == \A q \in Requests : RequestOK(q)

\* A list belongs to a room that was created, and has votes of that room.
ListOK(l) ==
  Exists(l) => /\ listRoom[l] \in RoomIds
               /\ room[listRoom[l]] # "unused"
               /\ listVotes[l] \subseteq everMembers[listRoom[l]]
ListsOK == \A l \in ListIds : ListOK(l)

LiveRoomsInhabited == \A r \in RoomIds : Live(r) => members[r] # {}
MembersRecorded == \A r \in RoomIds : members[r] \subseteq everMembers[r]

Typed == TypeOK /\ RequestsOK /\ ListsOK /\ LiveRoomsInhabited /\ MembersRecorded

\* As long as the votes of all members are in, somebody will act on them.
DecisionUnderWay ==
  \A l \in ListIds \ excused :
    Unanimous(l) => \E q \in Requests : req[q].step \in {"members", "finalize"} /\ req[q].list = l

USE NoRoomAssumption, NoTokenAssumption, NoListAssumption DEF StoreTypeOK, Active, Live, At

LEMMA RequestShape ==
  ASSUME TypeOK, NEW q \in Requests, req[q].step # "idle"
  PROVE  req[q] \in Request
  BY DEF TypeOK, NoRequest, Request

LEMMA InitTyped == Init => Typed
  BY DEF Init, EmptyStore, Typed, TypeOK, RequestsOK, RequestOK, NoRequest, ListsOK, ListOK,
         LiveRoomsInhabited, MembersRecorded, Exists

----------------------------------------------------------------------------
\* What the other endpoints do to the store.  Rooms are created once, never
\* return, and are never left without a member.
StoreKept ==
  /\ StoreTypeOK'
  /\ LiveRoomsInhabited'
  /\ \A r \in RoomIds : /\ room[r] # "unused" => room'[r] # "unused"
                        /\ room[r] = "deleted" => room'[r] = "deleted"

LEMMA UnchangedKept == ASSUME Typed, UNCHANGED store PROVE StoreKept
  BY DEF Typed, TypeOK, StoreKept, LiveRoomsInhabited, store

LEMMA ChangeMembershipKept == ASSUME Typed, ChangeMembership PROVE StoreKept
<1> USE DEF Typed, TypeOK, StoreKept, LiveRoomsInhabited
<1>1. ASSUME NEW u \in Users, House!Register(u) PROVE StoreKept
  BY <1>1 DEF House!Register
<1>2. ASSUME NEW u \in Users, NEW r \in RoomIds, House!CreateUserWithSoloRoom(u, r)
      PROVE  StoreKept
  BY <1>2 DEF House!CreateUserWithSoloRoom, House!CreateUserTx
<1>3. ASSUME NEW u \in Users, NEW r \in RoomIds, House!CreateSoloRoom(u, r)
      PROVE  StoreKept
  BY <1>3 DEF House!CreateSoloRoom, House!CreateSoloRoomTx, House!SetRoomID, House!Active
<1>4. ASSUME NEW u \in Users, NEW t \in Tokens, House!RotateShareToken(u, t)
      PROVE  StoreKept
  BY <1>4 DEF House!RotateShareToken, House!SetShareToken, House!Active
<1>5. ASSUME NEW u \in Users, NEW r \in RoomIds, NEW t \in Tokens, House!JoinRoom(u, r, t)
      PROVE  StoreKept
  <2> DEFINE solo == House!SoloRoomOf(u)
  <2>1. solo \in SUBSET RoomIds
    BY DEF House!SoloRoomOf
  <2>2. House!JoinRoomTx(u, r, solo) /\ room[r] = "live"
    BY <1>5 DEF House!JoinRoom, House!Live
  <2> HIDE DEF solo
  <2> QED
    BY <2>1, <2>2 DEF House!JoinRoomTx, House!Without, House!DeleteRooms, House!SetRoomID,
                      House!Active
<1> QED
  BY <1>1, <1>2, <1>3, <1>4, <1>5 DEF ChangeMembership

LEMMA EndMembershipKept == ASSUME Typed, EndMembership PROVE StoreKept
<1> USE DEF Typed, TypeOK, StoreKept, LiveRoomsInhabited
<1>1. ASSUME NEW u \in Users, House!VoteDeletion(u) PROVE StoreKept
  <2> DEFINE r == roomId[u]
  <2>1. r \in RoomIds
    BY <1>1 DEF House!VoteDeletion, House!Live
  <2>2. CASE House!DeleteVotedRoomTx(r, members[r])
    BY <2>1, <2>2 DEF House!DeleteVotedRoomTx, House!Without, House!DeleteRooms,
                      House!SetRoomID, House!Active
  <2>3. CASE votes' = House!VoteFor(r, u) /\ UNCHANGED <<account, roomId, room, members, shareToken>>
    BY <2>1, <2>3 DEF House!VoteFor
  <2> QED
    BY <1>1, <2>2, <2>3 DEF House!VoteDeletion
<1>2. ASSUME NEW u \in Users, House!VoteDeletionInterrupted(u) PROVE StoreKept
  BY <1>2 DEF House!VoteDeletionInterrupted, House!VoteFor, House!Live
<1>3. ASSUME NEW u \in Users, House!CancelDeletionVote(u) PROVE StoreKept
  BY <1>3 DEF House!CancelDeletionVote, House!RemoveDeletionVote, House!Active
<1>4. ASSUME NEW u \in Users, House!DeleteAccount(u) PROVE StoreKept
  <2> DEFINE r == roomId[u]
  <2>1. CASE House!DeleteRoomlessAccount(u)
    BY <2>1 DEF House!DeleteRoomlessAccount
  <2>2. CASE House!Live(r) /\ House!DeleteSoloAccountTx(u, r)
    BY <2>2 DEF House!DeleteSoloAccountTx, House!Without, House!DeleteRooms, House!SetRoomID,
                House!Active, House!Live
  <2>3. CASE /\ House!Live(r) /\ ~House!AtMostOneMember(members[r])
             /\ House!LeaveRoomAndDeleteAccountTx(u, r)
    <3>1. members[r] \ {u} # {}
      BY <2>3 DEF House!AtMostOneMember
    <3>2. StoreTypeOK'
      BY <2>3 DEF House!LeaveRoomAndDeleteAccountTx, House!RemoveDeletionVote,
                  House!SetRoomID, House!Active, House!Live
    <3>3. room' = room /\ members' = [members EXCEPT ![r] = @ \ {u}] /\ r \in RoomIds
      BY <2>3 DEF House!LeaveRoomAndDeleteAccountTx, House!Live
    <3> QED
      BY <3>1, <3>2, <3>3
  <2> QED
    BY <1>4, <2>1, <2>2, <2>3 DEF House!DeleteAccount
<1> QED
  BY <1>1, <1>2, <1>3, <1>4 DEF EndMembership

----------------------------------------------------------------------------
\* What every step does to the lists: a list is created once, stays in its room,
\* and is live only before it is anything else.
WorldStep(dropped) ==
  /\ StoreKept
  /\ History(dropped)
  /\ \A l \in ListIds :
       list[l] # "unused" =>
         /\ list'[l] # "unused"
         /\ Exists(l)' => Exists(l) /\ listRoom'[l] = listRoom[l]
         /\ list'[l] = "live" => list[l] = "live"

LEMMA HistoryKept ==
  ASSUME Typed, NEW d, History(d), StoreTypeOK'
  PROVE  /\ MembersRecorded'
         /\ \A r \in RoomIds : everMembers[r] \subseteq everMembers'[r]
         /\ everMembers' \in [RoomIds -> SUBSET Users]
         /\ excused' \in SUBSET ListIds
  BY DEF History, Typed, TypeOK, MembersRecorded

\* A request that does nothing stays as it should be.
LEMMA OtherRequestKept ==
  ASSUME Typed, NEW d, WorldStep(d), NEW p \in Requests, req'[p] = req[p]
  PROVE  RequestOK(p)'
<1>1. CASE req[p] = NoRequest
  BY <1>1 DEF RequestOK, NoRequest
<1>2. CASE req[p] \in Request
  <2> DEFINE r == req[p].own
             l == req[p].list
  <2>1. r \in RoomIds /\ RequestOK(p)
    BY <1>2 DEF Request, Typed, RequestsOK
  <2>2. req[p].step \notin {"idle", "check"} =>
          room'[r] # "unused" /\ req[p].user \in everMembers'[r]
    BY <2>1, HistoryKept DEF WorldStep, StoreKept, RequestOK
  <2>3. req[p].step \in {"add", "members", "finalize", "remove"} =>
          /\ l \in ListIds
          /\ list'[l] # "unused"
          /\ Exists(l)' => listRoom'[l] = r
    BY <2>1 DEF WorldStep, RequestOK
  <2>4. req[p].step = "finalize" /\ list'[l] = "live" /\ l \notin excused' =>
          req[p].seen \subseteq members'[r]
    <3> SUFFICES ASSUME req[p].step = "finalize", list'[l] = "live", l \notin excused'
                 PROVE  req[p].seen \subseteq members'[r]
      OBVIOUS
    <3>1. l \in ListIds /\ list[l] = "live" /\ listRoom[l] = r
      BY <2>1 DEF RequestOK, WorldStep, Exists
    <3>2. l \notin excused /\ members[r] \subseteq members'[r]
      BY <3>1 DEF WorldStep, History
    <3> QED
      BY <2>1, <3>1, <3>2 DEF RequestOK
  <2> QED
    BY <2>2, <2>3, <2>4 DEF RequestOK, Exists
<1> QED
  BY <1>1, <1>2 DEF Typed, TypeOK

LEMMA RequestsKept ==
  ASSUME Typed, NEW d, WorldStep(d), req' = req
  PROVE  RequestsOK'
  BY OtherRequestKept DEF RequestsOK

LEMMA SetRequestKept ==
  ASSUME Typed, NEW d, WorldStep(d), NEW q \in Requests, NEW x, req' = [req EXCEPT ![q] = x],
         x = NoRequest \/ (x \in Request /\ RequestOK(q)')
  PROVE  RequestsOK' /\ req' \in [Requests -> Request \cup {NoRequest}]
<1>1. req' \in [Requests -> Request \cup {NoRequest}] /\ req'[q] = x
  BY DEF Typed, TypeOK
<1>2. ASSUME NEW p \in Requests PROVE RequestOK(p)'
  <2>1. CASE p = q
    BY <1>1, <2>1 DEF RequestOK, NoRequest
  <2>2. CASE p # q
    <3>1. req'[p] = req[p]
      BY <2>2 DEF Typed, TypeOK
    <3> QED
      BY <3>1, OtherRequestKept
  <2> QED
    BY <2>1, <2>2
<1> QED
  BY <1>1, <1>2 DEF RequestsOK

LEMMA AnswerKept ==
  ASSUME Typed, NEW d, WorldStep(d), NEW q \in Requests, Answer(q)
  PROVE  RequestsOK' /\ req' \in [Requests -> Request \cup {NoRequest}]
  BY SetRequestKept DEF Answer

\* A list with no more votes than before stays as it should be.
LEMMA ListKept ==
  ASSUME Typed, NEW d, WorldStep(d), NEW l \in ListIds, list[l] # "unused",
         listVotes'[l] \subseteq listVotes[l]
  PROVE  ListOK(l)'
<1> SUFFICES ASSUME Exists(l)' PROVE ListOK(l)'
  BY DEF ListOK
<1>1. Exists(l) /\ listRoom'[l] = listRoom[l] /\ ListOK(l)
  BY DEF WorldStep, Typed, ListsOK
<1> QED
  BY <1>1, HistoryKept DEF ListOK, WorldStep, StoreKept, Exists

LEMMA UnusedListKept ==
  ASSUME NEW l \in ListIds, list'[l] = "unused" PROVE ListOK(l)'
  BY DEF ListOK, Exists

\* Steps that leave the lists alone.
LEMMA SameListsKept ==
  ASSUME Typed, NEW d, StoreKept, History(d), UNCHANGED lists
  PROVE  WorldStep(d) /\ ListsOK'
<1>1. WorldStep(d)
  BY DEF WorldStep, lists, Exists
<1>2. ASSUME NEW l \in ListIds PROVE ListOK(l)'
  BY <1>1, ListKept, UnusedListKept DEF lists
<1> QED
  BY <1>1, <1>2 DEF ListsOK

\* A step that leaves the lists alone and either all requests, or all but one,
\* which it answers.
LEMMA QuietTyped ==
  ASSUME Typed, NEW d, StoreKept, History(d), UNCHANGED lists,
         due' \in SUBSET RoomIds, doomed' \in SUBSET ListIds, stranded' \in SUBSET ListIds,
         req' = req \/ \E q \in Requests : Answer(q)
  PROVE  Typed'
<1>1. WorldStep(d) /\ ListsOK'
  BY SameListsKept
<1>2. RequestsOK' /\ req' \in [Requests -> Request \cup {NoRequest}]
  <2>1. CASE req' = req
    BY <1>1, <2>1, RequestsKept DEF Typed, TypeOK
  <2>2. CASE \E q \in Requests : Answer(q)
    BY <1>1, <2>2, AnswerKept
  <2> QED
    BY <2>1, <2>2
<1>3. TypeOK'
  BY <1>2, HistoryKept DEF TypeOK, Typed, StoreKept, lists
<1> QED
  BY <1>1, <1>2, <1>3, HistoryKept DEF Typed, StoreKept

\* A step of one request that leaves store, lists and cleanup alone.
LEMMA ReaderTyped ==
  ASSUME Typed, History({}), UNCHANGED <<store, lists, cleanup, stranded>>,
         NEW q \in Requests, NEW x \in Request, req' = [req EXCEPT ![q] = x], RequestOK(q)'
  PROVE  Typed'
<1>1. StoreKept
  BY UnchangedKept
<1>2. WorldStep({}) /\ ListsOK'
  BY <1>1, SameListsKept
<1>3. RequestsOK' /\ req' \in [Requests -> Request \cup {NoRequest}]
  BY <1>2, SetRequestKept
<1>4. TypeOK'
  BY <1>1, <1>3, HistoryKept DEF TypeOK, Typed, StoreKept, lists, cleanup
<1> QED
  BY <1>1, <1>2, <1>3, <1>4, HistoryKept DEF Typed, StoreKept

----------------------------------------------------------------------------
\* Type correctness, action by action.

LEMMA MembershipTyped ==
  ASSUME Typed, (ChangeMembership \/ EndMembership), History({})
  PROVE  Typed'
<1>1. StoreKept
  BY ChangeMembershipKept, EndMembershipKept
<1>2. /\ due' \in SUBSET RoomIds
      /\ doomed' \in SUBSET ListIds
      /\ stranded' \in SUBSET ListIds
      /\ UNCHANGED <<lists, req>>
  BY DEF ChangeMembership, EndMembership, RoomsGone, ListsOf, Typed, TypeOK, cleanup
<1> QED
  BY <1>1, <1>2, QuietTyped

LEMMA BeginTyped ==
  ASSUME Typed, NEW q \in Requests, NEW u \in Users, NEW op \in {"create", "vote", "cancel"},
         Begin(q, u, op), History({})
  PROVE  Typed'
<1> DEFINE x == [op |-> op, step |-> "check", user |-> u, own |-> roomId[u],
                 list |-> NoList, seen |-> {}]
<1>1. x \in Request
  BY DEF Begin, Request, Typed, TypeOK
<1>2. req' = [req EXCEPT ![q] = x] /\ req'[q] = x
  BY DEF Begin, Typed, TypeOK
<1>3. RequestOK(q)'
  BY <1>2 DEF RequestOK
<1> QED
  BY <1>1, <1>2, <1>3, ReaderTyped DEF Begin

LEMMA EnsureRoomMembershipTyped ==
  ASSUME Typed, NEW q \in Requests, EnsureRoomMembership(q), History({})
  PROVE  Typed'
<1> DEFINE r == req[q].own
           next == IF req[q].op = "create" THEN "put" ELSE "read"
           x == [req[q] EXCEPT !.step = next]
<1>1. req[q] \in Request /\ req[q].user \in Users
  BY RequestShape DEF EnsureRoomMembership, Typed, Request
<1>2. CASE Live(r) /\ req[q].user \in members[r]
  <2>1. next \in {"put", "read"} /\ req' = [req EXCEPT ![q] = x]
    BY <1>1, <1>2 DEF EnsureRoomMembership
  <2>2. x \in Request /\ x.step = next /\ x.own = r /\ x.user = req[q].user
    BY <1>1, <2>1 DEF Request
  <2>3. req'[q] = x
    BY <2>1 DEF Typed, TypeOK
  <2>4. room'[r] # "unused" /\ req[q].user \in everMembers'[r]
    <3>1. room' = room /\ req[q].user \in everMembers[r] /\ StoreTypeOK'
      BY <1>2 DEF EnsureRoomMembership, Typed, TypeOK, MembersRecorded, store
    <3> QED
      BY <1>2, <3>1, HistoryKept
  <2>5. RequestOK(q)'
    <3> HIDE DEF x, next
    <3> QED
      BY <2>1, <2>2, <2>3, <2>4 DEF RequestOK
  <2> QED
    <3> HIDE DEF x
    <3> QED
      BY <2>1, <2>2, <2>5, ReaderTyped DEF EnsureRoomMembership
<1>3. CASE ~(Live(r) /\ req[q].user \in members[r])
  <2>1. Answer(q) /\ UNCHANGED <<store, lists, cleanup, stranded>>
    BY <1>3 DEF EnsureRoomMembership
  <2> QED
    BY <2>1, UnchangedKept, QuietTyped DEF cleanup, Typed, TypeOK
<1> QED
  BY <1>2, <1>3

LEMMA PutListTyped ==
  ASSUME Typed, NEW q \in Requests, NEW l \in ListIds, PutList(q, l), History({})
  PROVE  Typed'
<1> DEFINE r == req[q].own
<1>1. r \in RoomIds /\ room[r] # "unused"
  BY RequestShape DEF PutList, Typed, RequestsOK, RequestOK, Request
<1>2. StoreKept
  BY UnchangedKept DEF PutList
<1>3. WorldStep({})
  BY <1>2 DEF WorldStep, PutList, Typed, TypeOK, Exists
<1>4. RequestsOK' /\ req' \in [Requests -> Request \cup {NoRequest}]
  BY <1>3, AnswerKept DEF PutList
<1>5. ASSUME NEW k \in ListIds PROVE ListOK(k)'
  <2>1. CASE k = l
    BY <1>1, <1>2, <2>1, HistoryKept DEF PutList, ListOK, Typed, TypeOK, StoreKept
  <2>2. CASE list[k] = "unused" /\ k # l
    BY <2>2, UnusedListKept DEF PutList, Typed, TypeOK
  <2>3. CASE list[k] # "unused"
    BY <1>3, <2>3, ListKept DEF PutList
  <2> QED
    BY <2>1, <2>2, <2>3
<1>6. TypeOK'
  BY <1>1, <1>2, <1>4, HistoryKept DEF TypeOK, Typed, StoreKept, PutList, cleanup
<1> QED
  BY <1>2, <1>4, <1>5, <1>6, HistoryKept DEF Typed, StoreKept, ListsOK

LEMMA ReadListTyped ==
  ASSUME Typed, NEW q \in Requests, NEW l \in ListIds, ReadList(q, l), History({})
  PROVE  Typed'
<1> DEFINE r == req[q].own
           next == IF req[q].op = "vote" THEN "add" ELSE "remove"
           x == [req[q] EXCEPT !.list = l, !.step = next]
<1>1. req[q] \in Request /\ r \in RoomIds /\ RequestOK(q)
  BY RequestShape DEF ReadList, Typed, Request, RequestsOK
<1>2. next \in {"add", "remove"} /\ req' = [req EXCEPT ![q] = x]
  BY <1>1 DEF ReadList
<1>3. /\ x \in Request /\ x.step = next /\ x.list = l
      /\ x.own = r /\ x.user = req[q].user /\ req'[q] = x
  BY <1>1, <1>2 DEF Request, Typed, TypeOK
<1>4. room[r] # "unused" /\ req[q].user \in everMembers[r] /\ StoreTypeOK' /\ room' = room
  BY <1>1 DEF ReadList, RequestOK, store, Typed, TypeOK
<1>5. RequestOK(q)'
  <2> HIDE DEF x, next
  <2> QED
    BY <1>1, <1>2, <1>3, <1>4, HistoryKept DEF RequestOK, ReadList, Exists, lists
<1> HIDE DEF x
<1> QED
  BY <1>2, <1>3, <1>5, ReaderTyped DEF ReadList

LEMMA AddDeletionVoteTyped ==
  ASSUME Typed, NEW q \in Requests, AddDeletionVote(q), History({})
  PROVE  Typed'
<1> DEFINE r == req[q].own
           l == req[q].list
           u == req[q].user
           x == [req[q] EXCEPT !.step = "members"]
<1>1. /\ req[q] \in Request /\ r \in RoomIds /\ u \in Users /\ l \in ListIds
      /\ RequestOK(q) /\ u \in everMembers[r] /\ list[l] # "unused"
      /\ Exists(l) => listRoom[l] = r
  BY RequestShape DEF AddDeletionVote, Typed, Request, RequestsOK, RequestOK
<1>2. x \in Request /\ x.step = "members" /\ x.own = r /\ x.list = l /\ x.user = u
  BY <1>1 DEF Request
<1>3. req' = [req EXCEPT ![q] = x] /\ req'[q] = x
  BY <1>1 DEF AddDeletionVote, Typed, TypeOK
<1>4. StoreKept
  BY UnchangedKept DEF AddDeletionVote
<1>5. WorldStep({})
  BY <1>4 DEF WorldStep, AddDeletionVote, Exists
<1> HIDE DEF x
<1>6. RequestOK(q)'
  BY <1>1, <1>2, <1>3, <1>4, HistoryKept DEF RequestOK, AddDeletionVote, Exists, StoreKept
<1>7. RequestsOK' /\ req' \in [Requests -> Request \cup {NoRequest}]
  BY <1>2, <1>3, <1>5, <1>6, SetRequestKept
<1>8. ASSUME NEW k \in ListIds PROVE ListOK(k)'
  <2>1. CASE k = l
    <3>1. ListOK(l)
      BY <1>1 DEF Typed, ListsOK
    <3>2. list' = list /\ listRoom' = listRoom /\ listVotes'[l] \subseteq listVotes[l] \cup {u}
      BY <1>1 DEF AddDeletionVote, Typed, TypeOK
    <3>3. Exists(l) => r \in RoomIds /\ room'[r] # "unused"
                       /\ listVotes'[l] \subseteq everMembers'[r]
      BY <1>1, <1>4, <3>1, <3>2, HistoryKept DEF ListOK, StoreKept
    <3> QED
      BY <1>1, <2>1, <3>2, <3>3 DEF ListOK, Exists
  <2>2. CASE k # l
    <3>1. listVotes'[k] = listVotes[k] /\ list'[k] = list[k]
      BY <2>2 DEF AddDeletionVote, Typed, TypeOK
    <3> QED
      BY <1>5, <3>1, ListKept, UnusedListKept
  <2> QED
    BY <2>1, <2>2
<1>9. TypeOK'
  BY <1>1, <1>4, <1>7, HistoryKept
  DEF TypeOK, Typed, StoreKept, AddDeletionVote, cleanup, Exists
<1> QED
  BY <1>4, <1>7, <1>8, <1>9, HistoryKept DEF Typed, StoreKept, ListsOK

LEMMA ReadMembersTyped ==
  ASSUME Typed, NEW q \in Requests, ReadMembers(q), History({})
  PROVE  Typed'
<1> DEFINE r == req[q].own
           x == [req[q] EXCEPT !.step = "finalize", !.seen = members[r]]
<1>1. req[q] \in Request /\ r \in RoomIds /\ RequestOK(q)
  BY RequestShape DEF ReadMembers, Typed, Request, RequestsOK
<1>2. CASE Live(r)
  <2>1. req' = [req EXCEPT ![q] = x] /\ members[r] \in SUBSET Users
    BY <1>1, <1>2 DEF ReadMembers, Typed, TypeOK
  <2>2. /\ x \in Request /\ x.step = "finalize" /\ x.list = req[q].list
        /\ x.own = r /\ x.user = req[q].user /\ x.seen = members[r] /\ req'[q] = x
    BY <1>1, <2>1 DEF Request, Typed, TypeOK
  <2>3. StoreTypeOK' /\ room' = room /\ members' = members
    BY DEF ReadMembers, store, Typed, TypeOK
  <2> HIDE DEF x
  <2>4. RequestOK(q)'
    BY <1>1, <2>2, <2>3, HistoryKept DEF RequestOK, ReadMembers, Exists, lists
  <2> QED
    BY <2>1, <2>2, <2>4, ReaderTyped DEF ReadMembers
<1>3. CASE ~Live(r)
  <2>1. Answer(q) /\ UNCHANGED <<store, lists, cleanup, stranded>>
    BY <1>3 DEF ReadMembers
  <2> QED
    BY <2>1, UnchangedKept, QuietTyped DEF cleanup, Typed, TypeOK
<1> QED
  BY <1>2, <1>3

LEMMA FinalizeTyped ==
  ASSUME Typed, NEW q \in Requests, FinalizeDeleteIfVotedByAll(q), History({})
  PROVE  Typed'
<1> DEFINE l == req[q].list
<1>1. l \in ListIds
  BY DEF FinalizeDeleteIfVotedByAll, Typed, RequestsOK, RequestOK
<1>2. StoreKept
  BY UnchangedKept DEF FinalizeDeleteIfVotedByAll
<1>3. WorldStep({})
  BY <1>1, <1>2 DEF WorldStep, FinalizeDeleteIfVotedByAll, Typed, TypeOK, Exists
<1>4. RequestsOK' /\ req' \in [Requests -> Request \cup {NoRequest}]
  BY <1>3, AnswerKept DEF FinalizeDeleteIfVotedByAll
<1>5. ASSUME NEW k \in ListIds PROVE ListOK(k)'
  <2>1. list[k] = "unused" => list'[k] = "unused"
    BY <1>1 DEF FinalizeDeleteIfVotedByAll, Typed, TypeOK
  <2> QED
    BY <1>3, <2>1, ListKept, UnusedListKept DEF FinalizeDeleteIfVotedByAll
<1>6. TypeOK'
  BY <1>1, <1>2, <1>4, HistoryKept
  DEF TypeOK, Typed, StoreKept, FinalizeDeleteIfVotedByAll, cleanup
<1> QED
  BY <1>2, <1>4, <1>5, <1>6, HistoryKept DEF Typed, StoreKept, ListsOK

LEMMA RemoveVoteTyped ==
  ASSUME Typed, NEW q \in Requests, RemoveListDeletionVote(q), History({})
  PROVE  Typed'
<1> DEFINE l == req[q].list
<1>1. l \in ListIds
  BY DEF RemoveListDeletionVote, Typed, RequestsOK, RequestOK
<1>2. StoreKept
  BY UnchangedKept DEF RemoveListDeletionVote
<1>3. WorldStep({})
  BY <1>2 DEF WorldStep, RemoveListDeletionVote, Exists
<1>4. RequestsOK' /\ req' \in [Requests -> Request \cup {NoRequest}]
  BY <1>3, AnswerKept DEF RemoveListDeletionVote
<1>5. ASSUME NEW k \in ListIds PROVE ListOK(k)'
  <2>1. listVotes'[k] \subseteq listVotes[k] /\ list'[k] = list[k]
    BY <1>1 DEF RemoveListDeletionVote, Typed, TypeOK
  <2> QED
    BY <1>3, <2>1, ListKept, UnusedListKept
<1>6. TypeOK'
  BY <1>1, <1>2, <1>4, HistoryKept DEF TypeOK, Typed, StoreKept, RemoveListDeletionVote, cleanup
<1> QED
  BY <1>2, <1>4, <1>5, <1>6, HistoryKept DEF Typed, StoreKept, ListsOK

LEMMA FailTyped ==
  ASSUME Typed, NEW q \in Requests, Fail(q), NEW d, History(d)
  PROVE  Typed'
<1>1. Answer(q) /\ UNCHANGED <<store, lists, cleanup, stranded>>
  BY DEF Fail
<1> QED
  BY <1>1, UnchangedKept, QuietTyped DEF cleanup, Typed, TypeOK

LEMMA CleanTyped ==
  ASSUME Typed, Clean
  PROVE  Typed'
<1>1. ASSUME NEW r \in RoomIds, CleanupRead(r), History({}) PROVE Typed'
  <2>1. /\ StoreKept /\ UNCHANGED <<lists, req>>
        /\ due' \in SUBSET RoomIds /\ doomed' \in SUBSET ListIds /\ stranded' \in SUBSET ListIds
    BY <1>1, UnchangedKept DEF CleanupRead, ListsOf, Typed, TypeOK
  <2> QED
    BY <1>1, <2>1, QuietTyped
<1>2. ASSUME NEW l \in ListIds, CleanupRemove(l), History({}) PROVE Typed'
  <2>1. StoreKept
    BY <1>2, UnchangedKept DEF CleanupRemove
  <2>2. WorldStep({})
    BY <1>2, <2>1 DEF WorldStep, CleanupRemove, Typed, TypeOK, Exists
  <2>3. RequestsOK' /\ req' = req
    BY <1>2, <2>2, RequestsKept DEF CleanupRemove
  <2>4. ASSUME NEW k \in ListIds PROVE ListOK(k)'
    <3>1. CASE k = l
      BY <1>2, <3>1 DEF CleanupRemove, ListOK, Exists, Typed, TypeOK
    <3>2. CASE k # l
      <4>1. listVotes'[k] = listVotes[k] /\ list'[k] = list[k]
        BY <1>2, <3>2 DEF CleanupRemove, Typed, TypeOK
      <4> QED
        BY <2>2, <4>1, ListKept, UnusedListKept
    <3> QED
      BY <3>1, <3>2
  <2>5. TypeOK'
    BY <1>2, <2>1, <2>3, HistoryKept DEF TypeOK, Typed, StoreKept, CleanupRemove
  <2> QED
    BY <1>2, <2>1, <2>3, <2>4, <2>5, HistoryKept DEF Typed, StoreKept, ListsOK
<1> QED
  BY <1>1, <1>2 DEF Clean

LEMMA CleanupFailsTyped ==
  ASSUME Typed, CleanupFails, History({})
  PROVE  Typed'
<1>1. /\ StoreKept /\ UNCHANGED <<lists, req>>
      /\ due' \in SUBSET RoomIds /\ doomed' \in SUBSET ListIds /\ stranded' \in SUBSET ListIds
  BY UnchangedKept DEF CleanupFails, ListsOf, Typed, TypeOK
<1> QED
  BY <1>1, QuietTyped

LEMMA NextTyped == ASSUME Typed, [Next]_vars PROVE Typed'
<1>1. CASE UNCHANGED vars
  BY <1>1 DEF vars, Typed, TypeOK, RequestsOK, RequestOK, ListsOK, ListOK, Exists,
              LiveRoomsInhabited, MembersRecorded
<1>2. ASSUME NEW q \in Requests, Step(q) PROVE Typed'
  BY <1>2, EnsureRoomMembershipTyped, PutListTyped, ReadListTyped, AddDeletionVoteTyped,
     ReadMembersTyped, FinalizeTyped, RemoveVoteTyped DEF Step
<1> QED
  BY <1>1, <1>2, MembershipTyped, BeginTyped, FailTyped, CleanTyped, CleanupFailsTyped DEF Next

\* The documents, the requests in flight and the cleanup always have their
\* shape, whatever requests overlap.
THEOREM TypeCorrect == Spec => []TypeOK
<1>1. Typed /\ [Next]_vars => Typed'
  BY NextTyped
<1>2. Typed => TypeOK
  BY DEF Typed
<1> QED
  BY InitTyped, <1>1, <1>2, PTL DEF Spec

\* No interleaving of moves between rooms, votes, failures and cleanups leaves a
\* list with a vote of somebody who was never in its room.
THEOREM VotesFromRoom == Spec => []ListVotesFromRoom
<1>1. Typed /\ [Next]_vars => Typed'
  BY NextTyped
<1>2. Typed => ListVotesFromRoom
  BY DEF Typed, ListsOK, ListOK, ListVotesFromRoom
<1> QED
  BY InitTyped, <1>1, <1>2, PTL DEF Spec

----------------------------------------------------------------------------
\* Orphans.

\* A step that leaves the lists and the plans of the cleanup alone, and deletes
\* no room whose lists it does not account for.
LEMMA RoomsGoneExplained ==
  ASSUME Typed, OrphansExplained, StoreKept, UNCHANGED <<lists, doomed>>,
         due \subseteq due', stranded \subseteq stranded',
         RoomsGone \subseteq due' \/ ListsOf(RoomsGone) \subseteq stranded'
  PROVE  OrphansExplained'
<1> SUFFICES ASSUME NEW l \in ListIds, l \notin stranded', list'[l] = "live",
                    ~Live(listRoom[l])'
             PROVE  listRoom'[l] \in due' \/ l \in doomed'
  BY DEF OrphansExplained
<1> DEFINE r == listRoom[l]
<1>1. l \notin stranded /\ list[l] = "live" /\ listRoom' = listRoom
  BY DEF lists
<1>2. r \in RoomIds /\ room[r] # "unused"
  BY <1>1 DEF Typed, ListsOK, ListOK, Exists
<1>3. CASE Live(r)
  <2>1. r \in RoomsGone /\ l \in ListsOf(RoomsGone)
    BY <1>1, <1>2, <1>3 DEF RoomsGone, ListsOf, StoreKept, Typed, TypeOK
  <2> QED
    BY <1>1, <2>1
<1>4. CASE ~Live(r)
  BY <1>1, <1>4 DEF OrphansExplained
<1> QED
  BY <1>3, <1>4

LEMMA OrphansKept ==
  ASSUME Typed, OrphansExplained, [Next]_vars
  PROVE  OrphansExplained'
<1>1. ASSUME UNCHANGED <<store, lists, cleanup, stranded>> PROVE OrphansExplained'
  BY <1>1 DEF OrphansExplained, store, lists, cleanup
<1>2. CASE UNCHANGED vars
  BY <1>1, <1>2 DEF vars, store, lists, cleanup
<1>3. CASE ChangeMembership
  <2>1. StoreKept /\ UNCHANGED <<lists, doomed>> /\ due \subseteq due'
    BY <1>3, ChangeMembershipKept DEF ChangeMembership, cleanup
  <2>2. stranded \subseteq stranded' /\ ListsOf(RoomsGone) \subseteq stranded'
    BY <1>3 DEF ChangeMembership
  <2> QED
    BY <2>1, <2>2, RoomsGoneExplained
<1>4. CASE EndMembership
  <2>1. StoreKept /\ UNCHANGED <<lists, doomed, stranded>>
    BY <1>4, EndMembershipKept DEF EndMembership
  <2>2. due \subseteq due' /\ RoomsGone \subseteq due'
    BY <1>4 DEF EndMembership
  <2> QED
    BY <2>1, <2>2, RoomsGoneExplained
<1>5. ASSUME NEW q \in Requests, NEW u \in Users, NEW op \in {"create", "vote", "cancel"},
             Begin(q, u, op)
      PROVE  OrphansExplained'
  BY <1>1, <1>5 DEF Begin
<1>6. ASSUME NEW q \in Requests, Step(q) PROVE OrphansExplained'
  <2>1. CASE EnsureRoomMembership(q) \/ ReadMembers(q) \/ \E l \in ListIds : ReadList(q, l)
    BY <1>1, <2>1 DEF EnsureRoomMembership, ReadMembers, ReadList
  <2>2. ASSUME NEW l \in ListIds, PutList(q, l) PROVE OrphansExplained'
    BY <2>2 DEF PutList, OrphansExplained, store, cleanup, Typed, TypeOK
  <2>3. CASE AddDeletionVote(q) \/ RemoveListDeletionVote(q)
    BY <2>3 DEF AddDeletionVote, RemoveListDeletionVote, OrphansExplained, store, cleanup
  <2>4. CASE FinalizeDeleteIfVotedByAll(q)
    <3>1. \A l \in ListIds : list'[l] = "live" => list[l] = "live"
      BY <2>4 DEF FinalizeDeleteIfVotedByAll, Typed, TypeOK
    <3> QED
      BY <2>4, <3>1 DEF FinalizeDeleteIfVotedByAll, OrphansExplained, store, cleanup
  <2> QED
    BY <1>6, <2>1, <2>2, <2>3, <2>4 DEF Step
<1>7. ASSUME NEW q \in Requests, Fail(q) PROVE OrphansExplained'
  BY <1>1, <1>7 DEF Fail
<1>8. ASSUME NEW r \in RoomIds, CleanupRead(r) PROVE OrphansExplained'
  BY <1>8 DEF CleanupRead, ListsOf, OrphansExplained, store, lists
<1>9. ASSUME NEW l \in ListIds, CleanupRemove(l) PROVE OrphansExplained'
  BY <1>9 DEF CleanupRemove, OrphansExplained, store, Typed, TypeOK
<1>10. CASE CleanupFails
  BY <1>10 DEF CleanupFails, ListsOf, OrphansExplained, store, lists
<1> QED
  BY <1>2, <1>3, <1>4, <1>5, <1>6, <1>7, <1>8, <1>9, <1>10 DEF Next, Clean

\* The three ways for a list to outlive its room without a cleanup in sight are
\* all there are.
THEOREM NoOtherOrphans == Spec => []OrphansExplained
<1>1. Init => OrphansExplained
  BY DEF Init, OrphansExplained
<1>2. Typed /\ [Next]_vars => Typed'
  BY NextTyped
<1>3. Typed /\ OrphansExplained /\ [Next]_vars => OrphansExplained'
  BY OrphansKept
<1> QED
  BY InitTyped, <1>1, <1>2, <1>3, PTL DEF Spec

----------------------------------------------------------------------------
\* No decision is lost.
\* What every step does to the store and to the history.
LEMMA NextKept ==
  ASSUME Typed, Next
  PROVE  StoreKept /\ \E d : History(d)
<1>1. ASSUME UNCHANGED store PROVE StoreKept
  BY <1>1, UnchangedKept
<1>2. ASSUME NEW q \in Requests, Step(q) PROVE UNCHANGED store /\ History({})
  BY <1>2 DEF Step, EnsureRoomMembership, PutList, ReadList, AddDeletionVote, ReadMembers,
              FinalizeDeleteIfVotedByAll, RemoveListDeletionVote
<1>3. Clean => UNCHANGED store /\ History({})
  BY DEF Clean, CleanupRead, CleanupRemove
<1>4. CleanupFails => UNCHANGED store
  BY DEF CleanupFails
<1>5. ASSUME NEW q \in Requests, Fail(q) PROVE UNCHANGED store
  BY <1>5 DEF Fail
<1>6. ASSUME NEW q \in Requests, NEW u \in Users, NEW op \in {"create", "vote", "cancel"},
             Begin(q, u, op)
      PROVE  UNCHANGED store
  BY <1>6 DEF Begin
<1> QED
  BY <1>1, <1>2, <1>3, <1>4, <1>5, <1>6, ChangeMembershipKept, EndMembershipKept DEF Next

\* Only a vote adds votes to a list, and only an insertion makes it live.
LEMMA ListSteps ==
  ASSUME Typed, Next, NEW l \in ListIds, list'[l] = "live"
  PROVE  \/ /\ list[l] = "live"
            /\ listRoom'[l] = listRoom[l]
            /\ \/ listVotes'[l] \subseteq listVotes[l]
               \/ \E q \in Requests : AddDeletionVote(q) /\ req[q].list = l
         \/ listVotes'[l] = {}
<1>1. CASE UNCHANGED lists
  BY <1>1 DEF lists
<1>2. ASSUME NEW q \in Requests, NEW k \in ListIds, PutList(q, k)
      PROVE  listVotes'[l] = {} \/ (list[l] = "live" /\ listRoom'[l] = listRoom[l]
                                     /\ listVotes' = listVotes)
  BY <1>2 DEF PutList, Typed, TypeOK
<1>3. ASSUME NEW q \in Requests, AddDeletionVote(q)
      PROVE  list' = list /\ listRoom' = listRoom
             /\ (req[q].list # l => listVotes'[l] = listVotes[l])
  BY <1>3 DEF AddDeletionVote, Typed, TypeOK
<1>4. ASSUME NEW q \in Requests, FinalizeDeleteIfVotedByAll(q)
      PROVE  list[l] = "live" /\ UNCHANGED <<listRoom, listVotes>>
  BY <1>4 DEF FinalizeDeleteIfVotedByAll, Typed, TypeOK
<1>5. ASSUME NEW q \in Requests, RemoveListDeletionVote(q)
      PROVE  list' = list /\ listRoom' = listRoom /\ listVotes'[l] \subseteq listVotes[l]
  BY <1>5 DEF RemoveListDeletionVote, Typed, TypeOK
<1>6. ASSUME NEW k \in ListIds, CleanupRemove(k)
      PROVE  list[l] = "live" /\ listRoom'[l] = listRoom[l] /\ listVotes'[l] = listVotes[l]
  BY <1>6 DEF CleanupRemove, Typed, TypeOK
<1>7. ASSUME NEW q \in Requests, Step(q),
             ~UNCHANGED lists
      PROVE  \/ \E k \in ListIds : PutList(q, k)
             \/ AddDeletionVote(q)
             \/ FinalizeDeleteIfVotedByAll(q)
             \/ RemoveListDeletionVote(q)
  BY <1>7 DEF Step, EnsureRoomMembership, ReadList, ReadMembers
<1>8. ASSUME ~UNCHANGED lists
      PROVE  (\E q \in Requests : Step(q)) \/ \E k \in ListIds : CleanupRemove(k)
  BY <1>8 DEF Next, ChangeMembership, EndMembership, Begin, Fail, Clean, CleanupRead, CleanupFails
<1> QED
  BY <1>1, <1>2, <1>3, <1>4, <1>5, <1>6, <1>7, <1>8

\* What happened to a request that is not where it was.
LEMMA RequestSteps ==
  ASSUME Typed, Next, NEW p \in Requests, req'[p] # req[p], req[p] # NoRequest
  PROVE  \/ Step(p)
         \/ Fail(p) /\ History(IF req[p].step \in {"members", "finalize"} THEN {req[p].list} ELSE {})
<1>1. ASSUME NEW q \in Requests, Step(q) PROVE q = p
  BY <1>1 DEF Step, EnsureRoomMembership, PutList, ReadList, AddDeletionVote, ReadMembers,
              FinalizeDeleteIfVotedByAll, RemoveListDeletionVote, Answer, Typed, TypeOK
<1>2. ASSUME NEW q \in Requests, Fail(q) PROVE q = p
  BY <1>2 DEF Fail, Answer, Typed, TypeOK
<1>3. ASSUME NEW q \in Requests, NEW u \in Users, NEW op \in {"create", "vote", "cancel"},
             Begin(q, u, op)
      PROVE  FALSE
  BY <1>3 DEF Begin, Typed, TypeOK
<1>4. ~ChangeMembership /\ ~EndMembership /\ ~Clean /\ ~CleanupFails
  BY DEF ChangeMembership, EndMembership, Clean, CleanupRead, CleanupRemove, CleanupFails
<1> QED
  BY <1>1, <1>2, <1>3, <1>4 DEF Next

LEMMA DecisionKept ==
  ASSUME Typed, DecisionUnderWay, Next
  PROVE  DecisionUnderWay'
<1> SUFFICES ASSUME NEW l \in ListIds, l \notin excused', Unanimous(l)'
             PROVE  \E q \in Requests : req'[q].step \in {"members", "finalize"}
                                       /\ req'[q].list = l
  BY DEF DecisionUnderWay
<1> DEFINE r == listRoom[l]
<1>1. StoreKept /\ \E d : History(d)
  BY NextKept
<1>2. listVotes'[l] # {} /\ list'[l] = "live"
  BY <1>1 DEF Unanimous, AllVoted, StoreKept, LiveRoomsInhabited
<1>3. /\ list[l] = "live" /\ listRoom'[l] = r
      /\ \/ listVotes'[l] \subseteq listVotes[l]
         \/ \E q \in Requests : AddDeletionVote(q) /\ req[q].list = l
  BY <1>2, ListSteps
<1>4. l \notin excused /\ members[r] \subseteq members'[r]
  BY <1>1, <1>2, <1>3 DEF History
<1>5. r \in RoomIds /\ Live(r)
  <2>1. r \in RoomIds /\ room[r] # "unused" /\ room'[r] = "live"
    BY <1>3 DEF Typed, ListsOK, ListOK, Exists, Unanimous
  <2> QED
    BY <1>1, <2>1 DEF StoreKept, Typed, TypeOK
<1>6. members'[r] \subseteq listVotes'[l]
  BY <1>3 DEF Unanimous, AllVoted
<1>7. CASE \E q \in Requests : AddDeletionVote(q) /\ req[q].list = l
  <2>1. PICK q \in Requests : AddDeletionVote(q) /\ req[q].list = l
    BY <1>7
  <2>2. req[q] \in Request
    BY <2>1, RequestShape DEF AddDeletionVote, Typed
  <2>3. req'[q].step = "members" /\ req'[q].list = l
    BY <2>1, <2>2 DEF AddDeletionVote, Typed, TypeOK, Request
  <2> QED
    BY <2>3
<1>8. CASE listVotes'[l] \subseteq listVotes[l]
  <2>1. Unanimous(l)
    BY <1>3, <1>4, <1>5, <1>6, <1>8 DEF Unanimous, AllVoted
  <2>2. PICK p \in Requests : req[p].step \in {"members", "finalize"} /\ req[p].list = l
    BY <1>4, <2>1 DEF DecisionUnderWay
  <2>3. req[p] \in Request /\ req[p].own = r
    BY <1>3, <2>2, RequestShape DEF Typed, RequestsOK, RequestOK, Exists
  <2>4. CASE req'[p] = req[p]
    BY <2>2, <2>4
  <2>5. ASSUME Fail(p), History({l}) PROVE FALSE
    BY <1>2, <2>5 DEF History
  <2>6. CASE Step(p)
    <3>1. CASE ReadMembers(p)
      <4>1. req'[p].step = "finalize" /\ req'[p].list = l
        BY <1>5, <2>2, <2>3, <3>1 DEF ReadMembers, Typed, TypeOK, Request
      <4> QED
        BY <4>1
    <3>2. CASE FinalizeDeleteIfVotedByAll(p)
      <4>1. req[p].seen \subseteq members[r]
        BY <1>3, <1>4, <2>2, <2>3, <3>2
        DEF FinalizeDeleteIfVotedByAll, Typed, RequestsOK, RequestOK
      <4>2. AllVoted(req[p].seen, listVotes[l])
        BY <2>1, <4>1 DEF Unanimous, AllVoted
      <4>3. list'[l] = "deleted"
        BY <1>3, <2>2, <3>2, <4>2 DEF FinalizeDeleteIfVotedByAll, Typed, TypeOK
      <4> QED
        BY <1>2, <4>3
    <3> QED
      BY <2>2, <2>6, <3>1, <3>2 DEF Step, EnsureRoomMembership, PutList, ReadList,
         AddDeletionVote, RemoveListDeletionVote
  <2>7. CASE req'[p] # req[p]
    <3>1. req[p] # NoRequest
      BY <2>2 DEF NoRequest
    <3> QED
      BY <2>2, <2>5, <2>6, <2>7, <3>1, RequestSteps
  <2> QED
    BY <2>4, <2>7
<1> QED
  BY <1>3, <1>7, <1>8

\* However votes, withdrawals, arrivals and tallies overlap: when all members'
\* votes for a list are in, a request under way is going to find them.
THEOREM NoDecisionLost == Spec => []NoLostListFinalization
<1>1. Init => DecisionUnderWay
  BY DEF Init, DecisionUnderWay, Unanimous
<1>2. Typed /\ [Next]_vars => Typed'
  BY NextTyped
<1>3. Typed /\ DecisionUnderWay /\ [Next]_vars => DecisionUnderWay'
  <2>1. CASE UNCHANGED vars
    BY <2>1 DEF vars, DecisionUnderWay, Unanimous
  <2> QED
    BY <2>1, DecisionKept
<1>4. Typed /\ DecisionUnderWay => NoLostListFinalization
  <2> SUFFICES ASSUME Typed, DecisionUnderWay, NEW l \in ListIds \ excused, Unanimous(l)
               PROVE  \E q \in Requests :
                        /\ req[q].step \in {"members", "finalize"}
                        /\ req[q].list = l
                        /\ req[q].step = "finalize" => AllVoted(req[q].seen, listVotes[l])
    BY DEF NoLostListFinalization
  <2>1. PICK q \in Requests : req[q].step \in {"members", "finalize"} /\ req[q].list = l
    BY DEF DecisionUnderWay
  <2>2. req[q].step = "finalize" => AllVoted(req[q].seen, listVotes[l])
    BY <2>1 DEF Typed, RequestsOK, RequestOK, Unanimous, Exists, AllVoted
  <2> QED
    BY <2>1, <2>2
<1> QED
  BY InitTyped, <1>1, <1>2, <1>3, <1>4, PTL DEF Spec
=============================================================================
