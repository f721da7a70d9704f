---------------------------- MODULE RoomsProofs ----------------------------
(***************************************************************************)
(* Proofs about Rooms, for every set of users, rooms and tokens.           *)
(* RoomLink and VotesFromMembers are inductive together and need the type  *)
(* invariant, whose last two conjuncts say that documents that are not in  *)
(* the collections have no fields.                                         *)
(***************************************************************************)
EXTENDS Rooms, TLAPS

Inv == TypeOK /\ RoomLink /\ VotesFromMembers

\* The definitions every step needs.
USE NoRoomAssumption, NoTokenAssumption
    DEF Inv, TypeOK, StoreTypeOK, RoomLink, VotesFromMembers, Active, Live

LEMMA InitInv == Init => Inv
  BY DEF Init, EmptyStore

LEMMA RegisterInv ==
  ASSUME Inv, NEW u \in Users, Register(u) PROVE Inv'
  BY DEF Register

LEMMA CreateUserInv ==
  ASSUME Inv, NEW u \in Users, NEW r \in RoomIds, CreateUserWithSoloRoom(u, r)
  PROVE  Inv'
  BY DEF CreateUserWithSoloRoom, CreateUserTx

LEMMA CreateSoloRoomInv ==
  ASSUME Inv, NEW u \in Users, NEW r \in RoomIds, CreateSoloRoom(u, r)
  PROVE  Inv'
  BY DEF CreateSoloRoom, CreateSoloRoomTx, SetRoomID

LEMMA RotateShareTokenInv ==
  ASSUME Inv, NEW u \in Users, NEW t \in Tokens, RotateShareToken(u, t)
  PROVE  Inv'
  BY DEF RotateShareToken, SetShareToken

\* The solo room a join deletes is nobody else's.
LEMMA JoinRoomInv ==
  ASSUME Inv, NEW u \in Users, NEW r \in RoomIds, NEW t \in Tokens, JoinRoom(u, r, t)
  PROVE  Inv'
<1> DEFINE solo == SoloRoomOf(u)
<1>1. solo \subseteq RoomIds /\ r \notin solo
  BY DEF JoinRoom, SoloRoomOf, IsSoloRoomOf
<1>2. \A s \in solo : members[s] = {u} /\ Live(s)
  BY DEF JoinRoom, SoloRoomOf, IsSoloRoomOf
<1>3. TypeOK'
  BY <1>1, <1>2 DEF JoinRoom, JoinRoomTx, Without, DeleteRooms, SetRoomID
<1>4. RoomLink'
  BY <1>1, <1>2 DEF JoinRoom, JoinRoomTx, Without, DeleteRooms, SetRoomID
<1>5. VotesFromMembers'
  BY <1>1, <1>2 DEF JoinRoom, JoinRoomTx, Without
<1> QED
  BY <1>3, <1>4, <1>5

\* Whoever names the room is listed in it, so that the deletion reaches all.
LEMMA VoteDeletionInv ==
  ASSUME Inv, NEW u \in Users, VoteDeletion(u) PROVE Inv'
<1> DEFINE r == roomId[u]
<1>1. CASE AllVoted(members[r], votes[r] \cup {u})
  <2>1. DeleteVotedRoomTx(r, members[r])
    BY <1>1 DEF VoteDeletion
  <2> QED
    BY <2>1 DEF VoteDeletion, DeleteVotedRoomTx, Without, DeleteRooms, SetRoomID
<1>2. CASE ~AllVoted(members[r], votes[r] \cup {u})
  BY <1>2 DEF VoteDeletion, VoteFor
<1> QED
  BY <1>1, <1>2

LEMMA VoteDeletionInterruptedInv ==
  ASSUME Inv, NEW u \in Users, VoteDeletionInterrupted(u) PROVE Inv'
  BY DEF VoteDeletionInterrupted, VoteFor

LEMMA CancelDeletionVoteInv ==
  ASSUME Inv, NEW u \in Users, CancelDeletionVote(u) PROVE Inv'
  BY DEF CancelDeletionVote, RemoveDeletionVote

LEMMA DeleteAccountInv ==
  ASSUME Inv, NEW u \in Users, DeleteAccount(u) PROVE Inv'
<1> DEFINE r == roomId[u]
<1>1. CASE r = NoRoom /\ DeleteRoomlessAccount(u)
  BY <1>1 DEF DeleteAccount, DeleteRoomlessAccount
<1>2. CASE Live(r) /\ AtMostOneMember(members[r]) /\ DeleteSoloAccountTx(u, r)
  <2>1. members[r] = {u}
    BY <1>2 DEF AtMostOneMember
  <2> QED
    BY <1>2, <2>1 DEF DeleteAccount, DeleteSoloAccountTx, Without, DeleteRooms, SetRoomID
<1>3. CASE Live(r) /\ LeaveRoomAndDeleteAccountTx(u, r)
  BY <1>3 DEF DeleteAccount, LeaveRoomAndDeleteAccountTx, RemoveDeletionVote, SetRoomID
<1> QED
  BY <1>1, <1>2, <1>3 DEF DeleteAccount

LEMMA NextInv == Inv /\ [Next]_store => Inv'
<1> SUFFICES ASSUME Inv, [Next]_store PROVE Inv'
  OBVIOUS
<1>1. CASE UNCHANGED store
  BY <1>1 DEF store
<1>2. CASE Next
  BY <1>2, RegisterInv, CreateUserInv, CreateSoloRoomInv, RotateShareTokenInv, JoinRoomInv,
     VoteDeletionInv, VoteDeletionInterruptedInv, CancelDeletionVoteInv, DeleteAccountInv
  DEF Next
<1> QED
  BY <1>1, <1>2

\* Every state of the store is well formed and satisfies the inductive invariant.
THEOREM Invariance == Spec => []Inv
  BY InitInv, NextInv, PTL DEF Spec

\* The users and rooms collections keep their types, and a document that is not
\* there has no fields.
THEOREM TypeCorrect == Spec => []TypeOK
  BY Invariance, PTL

\* A user's room_id always names an existing room that lists the user.
THEOREM RoomLinkHolds == Spec => []RoomLink
  BY Invariance, PTL

\* Votes recorded in a room are votes of its members.
THEOREM VotesFromMembersHold == Spec => []VotesFromMembers
  BY Invariance, PTL

----------------------------------------------------------------------------
\* What a step may do to a room and to the link of a user, in a state of Inv.

LEMMA ConsentLemma == Inv /\ [Next]_store => [ConsentStep]_store
<1> SUFFICES ASSUME Inv, Next, NEW r \in RoomIds, Live(r), room'[r] = "deleted"
             PROVE  \E u \in members[r] : members[r] \ {u} \subseteq votes[r]
  BY DEF ConsentStep
<1>1. ASSUME NEW u \in Users, NEW s \in RoomIds, NEW t \in Tokens, JoinRoom(u, s, t)
      PROVE  members[r] = {u}
  BY <1>1 DEF JoinRoom, JoinRoomTx, DeleteRooms, SoloRoomOf, IsSoloRoomOf
<1>2. ASSUME NEW u \in Users, VoteDeletion(u)
      PROVE  roomId[u] = r /\ u \in members[r] /\ members[r] \subseteq votes[r] \cup {u}
  <2>1. AllVoted(members[roomId[u]], votes[roomId[u]] \cup {u})
    BY <1>2 DEF VoteDeletion
  <2>2. roomId[u] = r
    BY <1>2, <2>1 DEF VoteDeletion, DeleteVotedRoomTx, DeleteRooms
  <2> QED
    BY <2>1, <2>2 DEF AllVoted
<1>3. ASSUME NEW u \in Users, DeleteAccount(u)
      PROVE  u \in members[r] /\ members[r] \ {u} = {}
  <2>1. Live(roomId[u]) /\ AtMostOneMember(members[roomId[u]])
          /\ DeleteSoloAccountTx(u, roomId[u])
    BY <1>3 DEF DeleteAccount, DeleteRoomlessAccount, LeaveRoomAndDeleteAccountTx
  <2>2. roomId[u] = r
    BY <2>1 DEF DeleteSoloAccountTx, DeleteRooms
  <2> QED
    BY <2>1, <2>2 DEF AtMostOneMember
<1>4. ASSUME NEW u \in Users,
             \/ Register(u)
             \/ \E s \in RoomIds : CreateUserWithSoloRoom(u, s) \/ CreateSoloRoom(u, s)
             \/ \E t \in Tokens : RotateShareToken(u, t)
             \/ VoteDeletionInterrupted(u)
             \/ CancelDeletionVote(u)
      PROVE  FALSE
  BY <1>4 DEF Register, CreateUserWithSoloRoom, CreateUserTx, CreateSoloRoom,
              CreateSoloRoomTx, RotateShareToken, VoteDeletionInterrupted, CancelDeletionVote
<1> QED
  BY <1>1, <1>2, <1>3, <1>4 DEF Next

\* A room is deleted only with the consent of all its members.
THEOREM ConsentHolds == Spec => DeletedByConsent
  BY Invariance, ConsentLemma, PTL DEF Spec, DeletedByConsent

LEMMA DetachLemma == Inv /\ [Next]_store => [DetachStep]_store
<1> SUFFICES ASSUME Inv, Next, NEW u \in Users,
                    Active(u), account'[u] = "active", roomId[u] # NoRoom, roomId'[u] = NoRoom
             PROVE  \E r \in RoomIds :
                      /\ Live(r) /\ room'[r] = "deleted" /\ u \in members[r]
                      /\ u \in votes[r] \/ members[r] \ {u} \subseteq votes[r]
  BY DEF DetachStep
<1>1. PICK v \in Users : VoteDeletion(v)
  <2>1. ASSUME NEW v \in Users,
               \/ Register(v)
               \/ \E s \in RoomIds : CreateUserWithSoloRoom(v, s) \/ CreateSoloRoom(v, s)
               \/ \E t \in Tokens : RotateShareToken(v, t)
               \/ VoteDeletionInterrupted(v)
               \/ CancelDeletionVote(v)
        PROVE  FALSE
    BY <2>1 DEF Register, CreateUserWithSoloRoom, CreateUserTx, CreateSoloRoom,
                CreateSoloRoomTx, SetRoomID, RotateShareToken, VoteDeletionInterrupted,
                CancelDeletionVote
  <2>2. ASSUME NEW v \in Users, NEW s \in RoomIds, NEW t \in Tokens, JoinRoom(v, s, t)
        PROVE  FALSE
    BY <2>2 DEF JoinRoom, JoinRoomTx, SetRoomID
  <2>3. ASSUME NEW v \in Users, DeleteAccount(v)
        PROVE  FALSE
    BY <2>3 DEF DeleteAccount, DeleteRoomlessAccount, DeleteSoloAccountTx,
                LeaveRoomAndDeleteAccountTx, SetRoomID
  <2> QED
    BY <2>1, <2>2, <2>3 DEF Next
<1> DEFINE r == roomId[v]
<1>2. AllVoted(members[r], votes[r] \cup {v}) /\ DeleteVotedRoomTx(r, members[r]) /\ Live(r)
  BY <1>1 DEF VoteDeletion
<1>3. u \in members[r] /\ room'[r] = "deleted"
  BY <1>2 DEF DeleteVotedRoomTx, DeleteRooms, SetRoomID
<1>4. u \in votes[r] \/ members[r] \ {u} \subseteq votes[r]
  BY <1>2, <1>3 DEF AllVoted
<1> QED
  BY <1>2, <1>3, <1>4

\* A user is detached from a room only by a vote on a room that lists the user.
THEOREM DetachedOnlyByVoteHolds == Spec => DetachedOnlyByVote
  BY Invariance, DetachLemma, PTL DEF Spec, DetachedOnlyByVote
=============================================================================
