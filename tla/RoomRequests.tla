---------------------------- MODULE RoomRequests ----------------------------
(***************************************************************************)
(* The room endpoints as the server runs them: net/http gives each request *)
(* a goroutine, and a request is a sequence of database calls with other   *)
(* requests' calls in between.  A request works on what it has read: the   *)
(* user document the authentication middleware put in its context, and the *)
(* room documents its service has fetched.  None of it is read again in    *)
(* the transaction that acts on it.                                        *)
(*                                                                         *)
(* A request whose first check on the user document fails is answered with *)
(* an error and never gets further, so it does not begin here.             *)
(***************************************************************************)
EXTENDS RoomStore

CONSTANT Requests   \* as many requests can be in flight at once

VARIABLES
  req,       \* what each request in flight has still to do, and has read
  hasVoted,  \* history: who ever had a vote recorded in the room
  excused    \* history: rooms that lost a member, or the request of a vote,
             \* in a way that leaves nobody to act on the votes

vars == <<account, roomId, room, members, votes, shareToken, req, hasVoted, excused>>

Steps == {"create", "share", "join", "joinOwn", "joinTx", "vote", "tally",
          "votedTx", "cancel", "delete", "deleteSoloTx", "leaveTx", "deleteUser"}

\* own is room_id in the user document the request read; target, the room to
\* join; solo, the rooms the join deletes; seen, the member_ids the tally read;
\* fresh, the vote this request added and has not accounted for.
Request == [step: Steps, user: Users, own: RoomIds \cup {NoRoom},
            target: RoomIds \cup {NoRoom}, solo: SUBSET RoomIds,
            seen: SUBSET Users, fresh: BOOLEAN]

NoRequest == [step |-> "idle"]

TypeOK ==
  /\ StoreTypeOK
  /\ req \in [Requests -> Request \cup {NoRequest}]
  /\ hasVoted \in [RoomIds -> SUBSET Users]
  /\ excused \subseteq RoomIds

Init ==
  /\ EmptyStore
  /\ req = [q \in Requests |-> NoRequest]
  /\ hasVoted = [r \in RoomIds |-> {}]
  /\ excused = {}

----------------------------------------------------------------------------
\* Accounts are created by one write or one transaction that reads nothing.

Register(u) ==
  /\ account[u] = "unused"
  /\ account' = [account EXCEPT ![u] = "active"]
  /\ UNCHANGED <<roomId, room, members, votes, shareToken, req>>

CreateUserWithSoloRoom(u, r) ==
  /\ CreateUserTx(u, r)
  /\ UNCHANGED req

----------------------------------------------------------------------------
\* A request begins: the middleware reads the user document.

Begin(q, u, first) ==
  /\ req[q] = NoRequest
  /\ Active(u)
  /\ req' = [req EXCEPT ![q] =
               [step |-> first, user |-> u, own |-> roomId[u], target |-> NoRoom,
                solo |-> {}, seen |-> {}, fresh |-> FALSE]]
  /\ UNCHANGED store

BeginInRoom(q, u) ==
  /\ roomId[u] # NoRoom
  /\ \E first \in {"share", "vote", "cancel"} : Begin(q, u, first)

BeginJoin(q, u) == Begin(q, u, "join")

BeginCreate(q, u) == roomId[u] = NoRoom /\ Begin(q, u, "create")

\* DeleteAccount reads the user document again, and so does not use a stale one.
BeginDelete(q, u) ==
  Begin(q, u, IF roomId[u] = NoRoom THEN "deleteUser" ELSE "delete")

At(q, step) == req[q].step = step
Answer(q) == req' = [req EXCEPT ![q] = NoRequest]
GoTo(q, step) == req' = [req EXCEPT ![q].step = step]

----------------------------------------------------------------------------
\* POST /rooms and POST /rooms/share.

CreateSoloRoom(q, r) ==
  /\ At(q, "create")
  /\ CreateSoloRoomTx(req[q].user, r)
  /\ Answer(q)

RotateShareToken(q, t) ==
  /\ At(q, "share")
  /\ shareToken' = SetShareToken(req[q].own, req[q].user, t)
  /\ Answer(q)
  /\ UNCHANGED <<account, roomId, room, members, votes>>

----------------------------------------------------------------------------
\* POST /rooms/join and POST /rooms/{room_id}/join.

\* Variant: a member may join the room again.
JoinReadTarget_MayBeMember(q, r) ==
  /\ At(q, "join")
  /\ Live(r)
  /\ shareToken[r] # NoToken
  /\ req' = [req EXCEPT ![q].target = r,
                        ![q].step = IF req[q].own = NoRoom THEN "joinTx" ELSE "joinOwn"]
  /\ UNCHANGED store

\* The target room is read; its token and member_ids are checked.
JoinReadTarget(q, r) ==
  /\ At(q, "join")
  /\ Live(r)
  /\ shareToken[r] # NoToken
  /\ req[q].user \notin members[r]
  /\ req' = [req EXCEPT ![q].target = r,
                        ![q].step = IF req[q].own = NoRoom THEN "joinTx" ELSE "joinOwn"]
  /\ UNCHANGED store

\* The joiner's own room is read: is it a solo room to delete?
JoinReadOwn(q) ==
  /\ At(q, "joinOwn")
  /\ IF Live(req[q].own)
       THEN req' = [req EXCEPT
                      ![q].step = "joinTx",
                      ![q].solo = IF IsSoloRoomOf(req[q].user, members[req[q].own])
                                    THEN {req[q].own} ELSE {}]
       ELSE Answer(q)
  /\ UNCHANGED store

JoinCommit(q) ==
  /\ At(q, "joinTx")
  /\ JoinRoomTx(req[q].user, req[q].target, req[q].solo)
  /\ Answer(q)

----------------------------------------------------------------------------
\* POST /rooms/deletion/vote and POST /rooms/deletion/cancel.

VoteWrite(q) ==
  LET r == req[q].own
      u == req[q].user
  IN  /\ At(q, "vote")
      /\ votes' = VoteFor(r, u)
      /\ req' = [req EXCEPT ![q].step = "tally", ![q].fresh = votes'[r] # votes[r]]
      /\ UNCHANGED <<account, roomId, room, members, shareToken>>

\* Variant: a vote in a room of one member is not acted on.
VoteTally_SharedOnly(q) ==
  LET r == req[q].own
  IN  /\ At(q, "tally")
      /\ IF Live(r) /\ AllVoted(members[r], votes[r]) /\ ~AtMostOneMember(members[r])
           THEN req' = [req EXCEPT ![q].step = "votedTx", ![q].seen = members[r]]
           ELSE Answer(q)
      /\ UNCHANGED store

\* The room is read back, and deleted in a transaction if all have voted.
VoteTally(q) ==
  LET r == req[q].own
  IN  /\ At(q, "tally")
      /\ IF Live(r) /\ AllVoted(members[r], votes[r])
           THEN req' = [req EXCEPT ![q].step = "votedTx", ![q].seen = members[r]]
           ELSE Answer(q)
      /\ UNCHANGED store

VoteCommit(q) ==
  /\ At(q, "votedTx")
  /\ DeleteVotedRoomTx(req[q].own, req[q].seen)
  /\ Answer(q)

CancelDeletionVote(q) ==
  /\ At(q, "cancel")
  /\ votes' = RemoveDeletionVote(req[q].own, req[q].user)
  /\ Answer(q)
  /\ UNCHANGED <<account, roomId, room, members, shareToken>>

----------------------------------------------------------------------------
\* DELETE /me.

DeleteReadRoom(q) ==
  LET r == req[q].own
  IN  /\ At(q, "delete")
      /\ IF Live(r)
           THEN GoTo(q, IF AtMostOneMember(members[r]) THEN "deleteSoloTx" ELSE "leaveTx")
           ELSE Answer(q)
      /\ UNCHANGED store

DeleteSoloCommit(q) ==
  /\ At(q, "deleteSoloTx")
  /\ DeleteSoloAccountTx(req[q].user, req[q].own)
  /\ Answer(q)

LeaveCommit(q) ==
  /\ At(q, "leaveTx")
  /\ LeaveRoomAndDeleteAccountTx(req[q].user, req[q].own)
  /\ Answer(q)

DeleteUserCommit(q) ==
  /\ At(q, "deleteUser")
  /\ DeleteRoomlessAccount(req[q].user)
  /\ Answer(q)

----------------------------------------------------------------------------
\* A call of the request fails before it takes effect, its context is cancelled
\* because the client is gone, or a check turns it down (no room has the token,
\* the user is a member already): what was written stays.
Fail(q) ==
  /\ ~At(q, "idle")
  /\ Answer(q)
  /\ UNCHANGED store

\* The history variables follow the store.  They forget a room once nothing can
\* depend on it: its document is gone and no transaction over it is to come.
History(dropped) ==
  /\ hasVoted' = [r \in RoomIds |->
       IF \/ room'[r] = "live"
          \/ \E q \in Requests : req'[q].step = "votedTx" /\ req'[q].own = r
         THEN hasVoted[r] \cup votes'[r] ELSE {}]
  /\ excused' = {r \in RoomIds : /\ room'[r] = "live"
                                 /\ \/ r \in excused \cup dropped
                                    \/ ~(members[r] \subseteq members'[r])}

\* The goroutine of a request does its next database call.
Step(q) ==
  /\ \/ \E r \in RoomIds : CreateSoloRoom(q, r)
     \/ \E t \in Tokens : RotateShareToken(q, t)
     \/ \E r \in RoomIds : JoinReadTarget(q, r)
     \/ JoinReadOwn(q)
     \/ JoinCommit(q)
     \/ VoteWrite(q)
     \/ VoteTally(q)
     \/ VoteCommit(q)
     \/ CancelDeletionVote(q)
     \/ DeleteReadRoom(q)
     \/ DeleteSoloCommit(q)
     \/ LeaveCommit(q)
     \/ DeleteUserCommit(q)
  /\ History({})

Arrive ==
  /\ \/ \E u \in Users : Register(u)
     \/ \E u \in Users, r \in RoomIds : CreateUserWithSoloRoom(u, r)
     \/ \E q \in Requests, u \in Users :
          BeginInRoom(q, u) \/ BeginJoin(q, u) \/ BeginCreate(q, u) \/ BeginDelete(q, u)
  /\ History({})

Next ==
  \/ Arrive
  \/ \E q \in Requests : Step(q)
  \/ \E q \in Requests :
       Fail(q) /\ History(IF req[q].step \in {"tally", "votedTx"} THEN {req[q].own} ELSE {})

Spec == Init /\ [][Next]_vars

\* The Go scheduler runs every goroutine and the driver returns from every
\* call; nothing makes a user send a request.
FairSpec == Spec /\ \A q \in Requests : WF_vars(Step(q))

----------------------------------------------------------------------------
\* Properties.

\* However requests interleave, a user whose room_id names an existing room is
\* listed in that room's member_ids, so the $in filters on member_ids (share,
\* settings, lists) never turn a user away from the user's own room.
MemberOfOwnRoom ==
  \A u \in Users : Live(roomId[u]) => u \in members[roomId[u]]

\* The write-then-read order of VoteDeletion loses no decision: when every
\* member's vote is in, some request has yet to read the votes or has read them
\* all and is about to delete the room, unless a member left the room by
\* deleting the account or the request of a voter failed half way.
NoLostFinalization ==
  \A r \in RoomIds \ excused :
    Live(r) /\ members[r] # {} /\ AllVoted(members[r], votes[r]) =>
      \E q \in Requests : req[q].step \in {"tally", "votedTx"} /\ req[q].own = r

\* A user with an account loses a room_id only to the deletion of a room in
\* which the user had voted for it (which may be a room the user has left).
DetachStep ==
  \A u \in Users :
    Active(u) /\ account'[u] = "active" /\ roomId[u] # NoRoom /\ roomId'[u] = NoRoom =>
      \E r \in RoomIds : room'[r] = "deleted" /\ u \in hasVoted[r]
DetachedOnlyByVote == [][DetachStep]_vars

\* What leaves a user with a room_id that names a deleted room, and so without a
\* way to create, join or leave one, is a deletion that a join has overtaken, or a
\* join that a deletion has: the user joined a room that was deleted after the
\* join had read it; or joined one after its members had been read for the tally
\* of a vote, or while it was found to be somebody else's solo room.
Dangles(u) == roomId[u] # NoRoom /\ ~Live(roomId[u])
OvertakenBy(q, u) ==
  LET r == roomId'[u]
  IN  \/ At(q, "joinTx") /\ req[q].user = u /\ req[q].target = r /\ ~Live(r)
      \/ At(q, "votedTx") /\ req[q].own = r /\ u \notin req[q].seen
      \/ At(q, "joinTx") /\ r \in req[q].solo /\ req[q].user # u
      \/ At(q, "deleteSoloTx") /\ req[q].own = r /\ req[q].user # u
DanglingExplained ==
  [][\A u \in Users : ~Dangles(u) /\ Dangles(u)' =>
       \E q \in Requests : req'[q] = NoRequest /\ OvertakenBy(q, u)]_vars

\* A room comes to list somebody whose room it is not, whose vote it then waits
\* for, only by a request for an account that is gone; by one that acts on a
\* user document read before the room was the user's own; by joining another
\* room out of a shared one; or when the deletion of a room that the user had
\* left in that way clears the room_id.
Ghost(u, r) == Live(r) /\ u \in members[r] /\ roomId[u] # r
LeavesBehind(q, u, r) ==
  \/ req[q].user = u /\ ~Active(u) /\ req[q].step \in {"create", "joinTx"}
  \/ req[q].user = u /\ Active(u) /\ req[q].own # roomId[u]
  \/ req[q].user = u /\ At(q, "joinTx") /\ req[q].own = r /\ req[q].solo = {}
  \/ At(q, "votedTx") /\ req[q].own # r /\ u \in req[q].seen
GhostsExplained ==
  [][\A u \in Users, r \in RoomIds : ~Ghost(u, r) /\ Ghost(u, r)' =>
       \E q \in Requests :
         ~At(q, "idle") /\ req'[q] = NoRequest /\ LeavesBehind(q, u, r)]_vars

\* A unanimous vote does not stay pending: the room is deleted, or somebody
\* cancels a vote, joins, or leaves.
UnanimityResolves ==
  \A r \in RoomIds :
    (r \notin excused /\ Live(r) /\ members[r] # {} /\ AllVoted(members[r], votes[r]))
      ~> (r \in excused \/ ~Live(r) \/ ~AllVoted(members[r], votes[r]))

\* README.md:54: when all current members have voted, the room is deleted and
\* all users' room_id values are cleared.  Once a vote has deleted a room, no
\* user document still names it.
VoteLeavesNobodyBehind ==
  [][\A q \in Requests :
       /\ req[q].step = "votedTx" /\ req'[q] = NoRequest
       /\ Live(req[q].own) /\ room'[req[q].own] = "deleted"
       => \A u \in Users : roomId'[u] # req[q].own]_vars

\* Requests that do not overlap behave like the whole-request actions of Rooms.
\* The vote of a request still counting counts as cast when the request ends.
PublishedVotes ==
  [r \in RoomIds |-> votes[r] \ {req[q].user : q \in
     {p \in Requests : /\ req[p].step \in {"tally", "votedTx"}
                       /\ req[p].own = r
                       /\ req[p].fresh}}]
Serial == INSTANCE Rooms WITH votes <- PublishedVotes
SerialSpec == Serial!Spec
=============================================================================
