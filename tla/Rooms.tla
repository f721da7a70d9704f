------------------------------- MODULE Rooms -------------------------------
(***************************************************************************)
(* What the room endpoints promise when requests do not overlap: every     *)
(* action is one whole HTTP request, from authentication to response.      *)
(* RoomRequests.tla breaks the same requests into their database calls.    *)
(***************************************************************************)
EXTENDS RoomStore

Init == EmptyStore

\* POST /auth/register: a user document without a room.
Register(u) ==
  /\ account[u] = "unused"
  /\ account' = [account EXCEPT ![u] = "active"]
  /\ UNCHANGED <<roomId, room, members, votes, shareToken>>

\* POST /users.
CreateUserWithSoloRoom(u, r) == CreateUserTx(u, r)

\* POST /rooms: 409 when the user already has a room.
CreateSoloRoom(u, r) ==
  /\ Active(u)
  /\ roomId[u] = NoRoom
  /\ CreateSoloRoomTx(u, r)

\* POST /rooms/share.
RotateShareToken(u, t) ==
  /\ Active(u)
  /\ roomId[u] # NoRoom
  /\ shareToken' = SetShareToken(roomId[u], u, t)
  /\ UNCHANGED <<account, roomId, room, members, votes>>

\* Variant: the joiner's room is deleted without looking at who else is in it.
SoloRoomOf_AnyRoom(u) == IF roomId[u] # NoRoom THEN {roomId[u]} ELSE {}

\* The room to delete after the join: the joiner's own, if nobody else is in it.
SoloRoomOf(u) ==
  IF roomId[u] # NoRoom /\ IsSoloRoomOf(u, members[roomId[u]]) THEN {roomId[u]} ELSE {}

\* POST /rooms/join and POST /rooms/{room_id}/join.
JoinRoom(u, r, t) ==
  /\ Active(u)
  /\ Live(r)
  /\ shareToken[r] = t
  /\ u \notin members[r]
  /\ roomId[u] # NoRoom => Live(roomId[u])
  /\ JoinRoomTx(u, r, SoloRoomOf(u))

\* POST /rooms/deletion/vote: the vote, the tally and, when it is unanimous,
\* the deletion.
VoteDeletion(u) ==
  LET r == roomId[u]
      voted == votes[r] \cup {u}
  IN  /\ Active(u)
      /\ Live(r)
      /\ IF AllVoted(members[r], voted)
           THEN DeleteVotedRoomTx(r, members[r])
           ELSE /\ votes' = VoteFor(r, u)
                /\ UNCHANGED <<account, roomId, room, members, shareToken>>

\* The same request when the database fails it, or its client goes away, after
\* the vote is written: the vote stays, the tally is never acted on.
VoteDeletionInterrupted(u) ==
  /\ Active(u)
  /\ Live(roomId[u])
  /\ votes' = VoteFor(roomId[u], u)
  /\ UNCHANGED <<account, roomId, room, members, shareToken>>

\* POST /rooms/deletion/cancel.
CancelDeletionVote(u) ==
  /\ Active(u)
  /\ roomId[u] # NoRoom
  /\ votes' = RemoveDeletionVote(roomId[u], u)
  /\ UNCHANGED <<account, roomId, room, members, shareToken>>

\* DELETE /me: an error, and no change, when room_id names no room document.
DeleteAccount(u) ==
  LET r == roomId[u]
  IN  /\ Active(u)
      /\ \/ r = NoRoom /\ DeleteRoomlessAccount(u)
         \/ Live(r) /\ AtMostOneMember(members[r]) /\ DeleteSoloAccountTx(u, r)
         \/ Live(r) /\ ~AtMostOneMember(members[r]) /\ LeaveRoomAndDeleteAccountTx(u, r)

Next ==
  \E u \in Users :
    \/ Register(u)
    \/ \E r \in RoomIds : CreateUserWithSoloRoom(u, r)
    \/ \E r \in RoomIds : CreateSoloRoom(u, r)
    \/ \E t \in Tokens : RotateShareToken(u, t)
    \/ \E r \in RoomIds, t \in Tokens : JoinRoom(u, r, t)
    \/ VoteDeletion(u)
    \/ VoteDeletionInterrupted(u)
    \/ CancelDeletionVote(u)
    \/ DeleteAccount(u)

Spec == Init /\ [][Next]_store

----------------------------------------------------------------------------
\* Properties.

TypeOK == StoreTypeOK

\* A user's room_id always names a room document that exists and that lists the
\* user.  Every endpoint relies on it: a user for whom it fails can neither see
\* a room, nor create or join one, nor delete the account.
RoomLink ==
  \A u \in Users : roomId[u] # NoRoom => Live(roomId[u]) /\ u \in members[roomId[u]]

\* Only members have votes recorded in a room, so that a recorded vote never
\* belongs to somebody who could be counted without being asked.
VotesFromMembers == \A r \in RoomIds : votes[r] \subseteq members[r]

\* A room goes away only with the consent of everybody in it: all members but
\* the one whose request deletes it have voted for the deletion.  This covers
\* the vote, the solo room deleted by a join and by the end of an account.
ConsentStep ==
  \A r \in RoomIds : Live(r) /\ room'[r] = "deleted" =>
    \E u \in members[r] : members[r] \ {u} \subseteq votes[r]
DeletedByConsent == [][ConsentStep]_store

\* A user with an account loses a room_id only when a room that lists the user
\* is deleted, after the user has voted for it or when everybody else has.  The
\* room need not be the one room_id names: joining another room does not take
\* the user off the list of a shared room left behind.
DetachStep ==
  \A u \in Users :
    Active(u) /\ account'[u] = "active" /\ roomId[u] # NoRoom /\ roomId'[u] = NoRoom =>
      \E r \in RoomIds :
        /\ Live(r) /\ room'[r] = "deleted" /\ u \in members[r]
        /\ u \in votes[r] \/ members[r] \ {u} \subseteq votes[r]
DetachedOnlyByVote == [][DetachStep]_store
=============================================================================
