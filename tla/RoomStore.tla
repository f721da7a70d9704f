----------------------------- MODULE RoomStore -----------------------------
(***************************************************************************)
(* The users and rooms collections of the MongoDB store, as far as         *)
(* membership, deletion votes and share tokens go, and the writes the      *)
(* services make to them.  Each operator below named after a repository    *)
(* method gives the field that method writes; an UpdateOne whose filter    *)
(* matches no document changes nothing and reports no error.  The ...Tx    *)
(* actions are the closures the services pass to WithTransaction: all the  *)
(* writes of one closure commit together (the deployment is a replica set) *)
(* and two closures that touch the same document never overlap.            *)
(***************************************************************************)
CONSTANTS Users,    \* user ids; ids.NewID never repeats, so each is used once
          RoomIds,  \* room ids, used once each as well
          Tokens,   \* the share codes that can be drawn
          NoRoom,   \* room_id is absent from the user document
          NoToken   \* share_token is absent from the room document

ASSUME NoRoomAssumption == NoRoom \notin RoomIds
ASSUME NoTokenAssumption == NoToken \notin Tokens

VARIABLES
  account,     \* is the user document still to come, present, or deleted
  roomId,      \* room_id of each user document
  room,        \* is the room document still to come, present, or deleted
  members,     \* member_ids of each room document
  votes,       \* the keys of deletion_votes
  shareToken   \* share_token

store == <<account, roomId, room, members, votes, shareToken>>

Active(u) == account[u] = "active"
Live(r) == r \in RoomIds /\ room[r] = "live"

\* A document that is not in the collection has none of the fields.
StoreTypeOK ==
  /\ account \in [Users -> {"unused", "active", "deleted"}]
  /\ roomId \in [Users -> RoomIds \cup {NoRoom}]
  /\ room \in [RoomIds -> {"unused", "live", "deleted"}]
  /\ members \in [RoomIds -> SUBSET Users]
  /\ votes \in [RoomIds -> SUBSET Users]
  /\ shareToken \in [RoomIds -> Tokens \cup {NoToken}]
  /\ \A u \in Users : ~Active(u) => roomId[u] = NoRoom
  /\ \A r \in RoomIds : room[r] # "live" =>
       members[r] = {} /\ votes[r] = {} /\ shareToken[r] = NoToken

EmptyStore ==
  /\ account = [u \in Users |-> "unused"]
  /\ roomId = [u \in Users |-> NoRoom]
  /\ room = [r \in RoomIds |-> "unused"]
  /\ members = [r \in RoomIds |-> {}]
  /\ votes = [r \in RoomIds |-> {}]
  /\ shareToken = [r \in RoomIds |-> NoToken]

----------------------------------------------------------------------------
\* Reads.

\* The checks made on a room document that count its members: len(...) <= 1,
\* and len(...) == 1 with the caller as the one element.
AtMostOneMember(ms) == \A m, n \in ms : m = n
IsSoloRoomOf(u, ms) == ms = {u}

\* Variant: one vote is taken for all.
AllVoted_Any(ms, vs) == ms \cap vs # {}

\* Every entry of member_ids has an entry in deletion_votes.
AllVoted(ms, vs) == ms \subseteq vs

----------------------------------------------------------------------------
\* Writes of one field by one repository call.

\* Variant: an update inserts what it does not find.
SetRoomID_Upsert(us, r) == [u \in Users |-> IF u \in us THEN r ELSE roomId[u]]

\* users.SetRoomID for every user of us: no effect on a deleted document.
SetRoomID(us, r) ==
  [u \in Users |-> IF u \in us /\ Active(u) THEN r ELSE roomId[u]]

SetShareToken(r, u, t) ==
  [shareToken EXCEPT ![r] = IF u \in members[r] THEN t ELSE @]

VoteFor(r, u) ==
  [votes EXCEPT ![r] = IF room[r] = "live" THEN @ \cup {u} ELSE @]

RemoveDeletionVote(r, u) == [votes EXCEPT ![r] = @ \ {u}]

\* rooms.Delete for every room of rs: the documents and their fields go.
DeleteRooms(rs) ==
  [r \in RoomIds |-> IF r \in rs /\ room[r] = "live" THEN "deleted" ELSE room[r]]
Without(rs, field, absent) ==
  [r \in RoomIds |-> IF r \in rs THEN absent ELSE field[r]]

----------------------------------------------------------------------------
\* The transactions.

\* services.CreateSoloRoom: rooms.Put, users.SetRoomID.
CreateSoloRoomTx(u, r) ==
  /\ room[r] = "unused"
  /\ room' = [room EXCEPT ![r] = "live"]
  /\ members' = [members EXCEPT ![r] = {u}]
  /\ roomId' = SetRoomID({u}, r)
  /\ UNCHANGED <<account, votes, shareToken>>

\* services.CreateUserWithSoloRoom: users.Put, rooms.Put.
CreateUserTx(u, r) ==
  /\ account[u] = "unused"
  /\ room[r] = "unused"
  /\ account' = [account EXCEPT ![u] = "active"]
  /\ roomId' = [roomId EXCEPT ![u] = r]
  /\ room' = [room EXCEPT ![r] = "live"]
  /\ members' = [members EXCEPT ![r] = {u}]
  /\ UNCHANGED <<votes, shareToken>>

\* Variant: returns after the Delete of the solo room, without AddMember.
JoinRoomTx_SoloReturnsEarly(u, r, solo) ==
  /\ members' = IF solo = {} THEN [members EXCEPT ![r] = @ \cup {u}]
                             ELSE Without(solo, members, {})
  /\ shareToken' = Without(solo \cup {r}, shareToken, NoToken)
  /\ votes' = Without(solo, votes, {})
  /\ room' = DeleteRooms(solo)
  /\ roomId' = SetRoomID({u}, r)
  /\ UNCHANGED account

\* services.JoinRoom: AddMember, RemoveShareToken, SetRoomID and, when solo is
\* not empty, Delete of the solo room the joiner leaves.
JoinRoomTx(u, r, solo) ==
  LET joined == [members EXCEPT ![r] = IF room[r] = "live" THEN @ \cup {u} ELSE @]
      unshared == [shareToken EXCEPT ![r] = NoToken]
  IN  /\ members' = Without(solo, joined, {})
      /\ shareToken' = Without(solo, unshared, NoToken)
      /\ votes' = Without(solo, votes, {})
      /\ room' = DeleteRooms(solo)
      /\ roomId' = SetRoomID({u}, r)
      /\ UNCHANGED account

\* Variant: clears every room_id instead of those of the room's members.
DeleteVotedRoomTx_ClearsAll(r, ms) ==
  /\ room' = DeleteRooms({r})
  /\ members' = Without({r}, members, {})
  /\ votes' = Without({r}, votes, {})
  /\ shareToken' = Without({r}, shareToken, NoToken)
  /\ roomId' = SetRoomID(Users, NoRoom)
  /\ UNCHANGED account

\* Variant: the room is marked as deleted, as lists are.
DeleteVotedRoomTx_Soft(r, ms) ==
  /\ room' = DeleteRooms({r})
  /\ roomId' = SetRoomID(ms, NoRoom)
  /\ UNCHANGED <<account, members, votes, shareToken>>

\* Variant: the room_ids stay.
DeleteVotedRoomTx_RoomOnly(r, ms) ==
  /\ room' = DeleteRooms({r})
  /\ members' = Without({r}, members, {})
  /\ votes' = Without({r}, votes, {})
  /\ shareToken' = Without({r}, shareToken, NoToken)
  /\ UNCHANGED <<account, roomId>>

\* services.VoteDeletion: Delete the room, SetRoomID(nil) for each id of the
\* member_ids the tally read.
DeleteVotedRoomTx(r, ms) ==
  /\ room' = DeleteRooms({r})
  /\ members' = Without({r}, members, {})
  /\ votes' = Without({r}, votes, {})
  /\ shareToken' = Without({r}, shareToken, NoToken)
  /\ roomId' = SetRoomID(ms, NoRoom)
  /\ UNCHANGED account

\* services.DeleteAccount, in a room of one member: Delete the room, clear
\* room_id, delete the user.
DeleteSoloAccountTx(u, r) ==
  /\ room' = DeleteRooms({r})
  /\ members' = Without({r}, members, {})
  /\ votes' = Without({r}, votes, {})
  /\ shareToken' = Without({r}, shareToken, NoToken)
  /\ roomId' = SetRoomID({u}, NoRoom)
  /\ account' = [account EXCEPT ![u] = "deleted"]

\* Variant: the vote of the member who leaves stays.
LeaveTx_KeepsVote(u, r) ==
  /\ members' = [members EXCEPT ![r] = @ \ {u}]
  /\ roomId' = SetRoomID({u}, NoRoom)
  /\ account' = [account EXCEPT ![u] = "deleted"]
  /\ UNCHANGED <<room, votes, shareToken>>

\* Variant: the user who is deleted stays in member_ids.
LeaveTx_KeepsMember(u, r) ==
  /\ votes' = RemoveDeletionVote(r, u)
  /\ roomId' = SetRoomID({u}, NoRoom)
  /\ account' = [account EXCEPT ![u] = "deleted"]
  /\ UNCHANGED <<room, members, shareToken>>

\* services.DeleteAccount, in a shared room: RemoveMember, RemoveDeletionVote,
\* clear room_id, delete the user.
LeaveRoomAndDeleteAccountTx(u, r) ==
  /\ members' = [members EXCEPT ![r] = @ \ {u}]
  /\ votes' = RemoveDeletionVote(r, u)
  /\ roomId' = SetRoomID({u}, NoRoom)
  /\ account' = [account EXCEPT ![u] = "deleted"]
  /\ UNCHANGED <<room, shareToken>>

\* services.DeleteAccount, with no room: users.Delete.
DeleteRoomlessAccount(u) ==
  /\ account' = [account EXCEPT ![u] = "deleted"]
  /\ roomId' = [roomId EXCEPT ![u] = NoRoom]
  /\ UNCHANGED <<room, members, votes, shareToken>>
=============================================================================
