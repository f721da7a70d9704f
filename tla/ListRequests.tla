---------------------------- MODULE ListRequests ----------------------------
(***************************************************************************)
(* The lists of a room: their creation, the votes for their deletion, and  *)
(* the goroutine that removes them once their room is gone.  List requests *)
(* run one database call at a time, interleaved with each other, with the  *)
(* cleanup and with the requests of Rooms.tla, each of these taken whole   *)
(* (RoomRequests.tla takes them apart).  A list request works on the user  *)
(* document the authentication middleware has read.                        *)
(***************************************************************************)
EXTENDS RoomStore

CONSTANTS ListIds,   \* list ids; ids.NewID never repeats, so each is used once
          NoList,    \* the request has not found its list yet
          Requests   \* as many list requests can be in flight at once

ASSUME NoListAssumption == NoList \notin ListIds

VARIABLES
  list,         \* is the document still to come, live, soft-deleted, or removed
  listRoom,     \* room_id of each list document
  listVotes,    \* the keys of its deletion_votes
  due,          \* rooms whose cleanup goroutine has not read the lists yet
  doomed,       \* lists a cleanup goroutine has read and will remove
  req,          \* the list requests in flight
  everMembers,  \* history: who has ever been a member of the room
  excused,      \* history: lists whose votes nobody may be left to act on
  stranded      \* history: lists no cleanup will find

lists == <<list, listRoom, listVotes>>
cleanup == <<due, doomed>>
vars == <<account, roomId, room, members, votes, shareToken, list, listRoom, listVotes,
          due, doomed, req, everMembers, excused, stranded>>

House == INSTANCE Rooms

\* op is the endpoint, own the room_id in the URL, which equals the one in the
\* user document that was read; seen, the member_ids read for the tally.
Request == [op: {"create", "vote", "cancel"},
            step: {"check", "put", "read", "add", "members", "finalize", "remove"},
            user: Users, own: RoomIds, list: ListIds \cup {NoList}, seen: SUBSET Users]

NoRequest == [step |-> "idle"]

TypeOK ==
  /\ StoreTypeOK
  /\ list \in [ListIds -> {"unused", "live", "deleted", "removed"}]
  /\ listRoom \in [ListIds -> RoomIds \cup {NoRoom}]
  /\ listVotes \in [ListIds -> SUBSET Users]
  /\ \A l \in ListIds : list[l] \in {"unused", "removed"} =>
       listRoom[l] = NoRoom /\ listVotes[l] = {}
  /\ due \subseteq RoomIds
  /\ doomed \subseteq ListIds
  /\ req \in [Requests -> Request \cup {NoRequest}]
  /\ everMembers \in [RoomIds -> SUBSET Users]
  /\ excused \subseteq ListIds
  /\ stranded \subseteq ListIds

Init ==
  /\ EmptyStore
  /\ list = [l \in ListIds |-> "unused"]
  /\ listRoom = [l \in ListIds |-> NoRoom]
  /\ listVotes = [l \in ListIds |-> {}]
  /\ due = {}
  /\ doomed = {}
  /\ req = [q \in Requests |-> NoRequest]
  /\ everMembers = [r \in RoomIds |-> {}]
  /\ excused = {}
  /\ stranded = {}

At(q, step) == req[q].step = step
Answer(q) == req' = [req EXCEPT ![q] = NoRequest]

Exists(l) == list[l] \in {"live", "deleted"}
ListsOf(rs) == {l \in ListIds : list[l] = "live" /\ listRoom[l] \in rs}

----------------------------------------------------------------------------
\* What the other endpoints do to the room and user documents.

RoomsGone == {r \in RoomIds : Live(r) /\ room'[r] = "deleted"}

\* A join that deletes the joiner's solo room starts no cleanup.
ChangeMembership ==
  /\ \E u \in Users :
       \/ House!Register(u)
       \/ \E r \in RoomIds : House!CreateUserWithSoloRoom(u, r) \/ House!CreateSoloRoom(u, r)
       \/ \E t \in Tokens : House!RotateShareToken(u, t)
       \/ \E r \in RoomIds, t \in Tokens : House!JoinRoom(u, r, t)
  /\ stranded' = stranded \cup ListsOf(RoomsGone)
  /\ UNCHANGED <<lists, cleanup, req>>

\* Variant: deleting the account of the last member starts no cleanup.
EndMembership_VoteCleansOnly ==
  /\ \E u \in Users :
       \/ House!VoteDeletion(u) /\ due' = due \cup RoomsGone
       \/ House!DeleteAccount(u) /\ UNCHANGED due
       \/ (House!CancelDeletionVote(u) \/ House!VoteDeletionInterrupted(u)) /\ UNCHANGED due
  /\ UNCHANGED <<lists, doomed, req, stranded>>

\* VoteDeletion and DeleteAccount start a cleanup when they delete a room.
EndMembership ==
  /\ \E u \in Users :
       \/ House!VoteDeletion(u)
       \/ House!VoteDeletionInterrupted(u)
       \/ House!CancelDeletionVote(u)
       \/ House!DeleteAccount(u)
  /\ due' = due \cup RoomsGone
  /\ UNCHANGED <<lists, doomed, req, stranded>>

----------------------------------------------------------------------------
\* List requests.

\* The middleware reads the user; the room in the URL must be the user's.
Begin(q, u, op) ==
  /\ req[q] = NoRequest
  /\ Active(u)
  /\ roomId[u] # NoRoom
  /\ req' = [req EXCEPT ![q] = [op |-> op, step |-> "check", user |-> u, own |-> roomId[u],
                                list |-> NoList, seen |-> {}]]
  /\ UNCHANGED <<store, lists, cleanup, stranded>>

\* The room is read and has to list the user.
EnsureRoomMembership(q) ==
  /\ At(q, "check")
  /\ IF Live(req[q].own) /\ req[q].user \in members[req[q].own]
       THEN req' = [req EXCEPT ![q].step = IF req[q].op = "create" THEN "put" ELSE "read"]
       ELSE Answer(q)
  /\ UNCHANGED <<store, lists, cleanup, stranded>>

\* The list is inserted, be its room still there or not.
PutList(q, l) ==
  LET r == req[q].own
  IN  /\ At(q, "put")
      /\ list[l] = "unused"
      /\ list' = [list EXCEPT ![l] = "live"]
      /\ listRoom' = [listRoom EXCEPT ![l] = r]
      /\ stranded' = IF Live(r) \/ r \in due THEN stranded ELSE stranded \cup {l}
      /\ Answer(q)
      /\ UNCHANGED <<store, listVotes, cleanup>>

\* Variant: the list may belong to any room.
ReadList_AnyRoom(q, l) ==
  /\ At(q, "read")
  /\ Exists(l)
  /\ req' = [req EXCEPT ![q].list = l,
                        ![q].step = IF req[q].op = "vote" THEN "add" ELSE "remove"]
  /\ UNCHANGED <<store, lists, cleanup, stranded>>

\* The list is read and has to be one of the room's; it may be soft-deleted.
ReadList(q, l) ==
  /\ At(q, "read")
  /\ Exists(l)
  /\ listRoom[l] = req[q].own
  /\ req' = [req EXCEPT ![q].list = l,
                        ![q].step = IF req[q].op = "vote" THEN "add" ELSE "remove"]
  /\ UNCHANGED <<store, lists, cleanup, stranded>>

\* Variant: the update inserts what it does not find.
AddDeletionVote_Upsert(q) ==
  LET l == req[q].list
  IN  /\ At(q, "add")
      /\ listVotes' = [listVotes EXCEPT ![l] = @ \cup {req[q].user}]
      /\ req' = [req EXCEPT ![q].step = "members"]
      /\ UNCHANGED <<store, list, listRoom, cleanup, stranded>>

\* The vote is recorded, if the list is still there.
AddDeletionVote(q) ==
  LET l == req[q].list
  IN  /\ At(q, "add")
      /\ listVotes' = [listVotes EXCEPT ![l] = IF Exists(l) THEN @ \cup {req[q].user} ELSE @]
      /\ req' = [req EXCEPT ![q].step = "members"]
      /\ UNCHANGED <<store, list, listRoom, cleanup, stranded>>

\* The member_ids are read for the tally; no room, no tally.
ReadMembers(q) ==
  /\ At(q, "members")
  /\ IF Live(req[q].own)
       THEN req' = [req EXCEPT ![q].step = "finalize", ![q].seen = members[req[q].own]]
       ELSE Answer(q)
  /\ UNCHANGED <<store, lists, cleanup, stranded>>

\* Variant: the voter's own vote does not count.
FinalizeDelete_OthersOnly(q) ==
  LET l == req[q].list
  IN  /\ At(q, "finalize")
      /\ list' = [list EXCEPT ![l] =
           IF @ = "live" /\ AllVoted(req[q].seen, listVotes[l] \ {req[q].user})
             THEN "deleted" ELSE @]
      /\ Answer(q)
      /\ UNCHANGED <<store, listRoom, listVotes, cleanup, stranded>>

\* One update whose filter asks for a vote of every member read.
FinalizeDeleteIfVotedByAll(q) ==
  LET l == req[q].list
  IN  /\ At(q, "finalize")
      /\ list' = [list EXCEPT ![l] =
           IF @ = "live" /\ AllVoted(req[q].seen, listVotes[l]) THEN "deleted" ELSE @]
      /\ Answer(q)
      /\ UNCHANGED <<store, listRoom, listVotes, cleanup, stranded>>

RemoveListDeletionVote(q) ==
  /\ At(q, "remove")
  /\ listVotes' = [listVotes EXCEPT ![req[q].list] = @ \ {req[q].user}]
  /\ Answer(q)
  /\ UNCHANGED <<store, list, listRoom, cleanup, stranded>>

\* A call fails, the client goes away, or a check turns the request down.
Fail(q) ==
  /\ ~At(q, "idle")
  /\ Answer(q)
  /\ UNCHANGED <<store, lists, cleanup, stranded>>

----------------------------------------------------------------------------
\* The goroutine cleanupRoomResources.

\* It reads the lists of the room that are not soft-deleted.
CleanupRead(r) ==
  /\ r \in due
  /\ due' = due \ {r}
  /\ doomed' = doomed \cup ListsOf({r})
  /\ UNCHANGED <<store, lists, req, stranded>>

\* It removes them one by one.
CleanupRemove(l) ==
  /\ l \in doomed
  /\ doomed' = doomed \ {l}
  /\ list' = [list EXCEPT ![l] = "removed"]
  /\ listRoom' = [listRoom EXCEPT ![l] = NoRoom]
  /\ listVotes' = [listVotes EXCEPT ![l] = {}]
  /\ UNCHANGED <<store, due, req, stranded>>

\* It ignores the error of a removal and stops at that of the read.  A server
\* that stops takes the goroutine with it, and nothing starts it again.
CleanupFails ==
  /\ \/ \E r \in due : /\ due' = due \ {r}
                       /\ stranded' = stranded \cup ListsOf({r})
                       /\ UNCHANGED doomed
     \/ \E l \in doomed : /\ doomed' = doomed \ {l}
                          /\ stranded' = stranded \cup {l}
                          /\ UNCHANGED due
  /\ UNCHANGED <<store, lists, req>>

----------------------------------------------------------------------------
\* A list is excused for good when its room loses a member, or when a request
\* that added a vote fails.
History(dropped) ==
  /\ everMembers' = [r \in RoomIds |-> everMembers[r] \cup members'[r]]
  /\ excused' = {l \in ListIds :
       /\ list'[l] = "live"
       /\ \/ l \in excused \cup dropped
          \/ list[l] = "live" /\ ~(members[listRoom[l]] \subseteq members'[listRoom[l]])}

Step(q) ==
  /\ \/ EnsureRoomMembership(q)
     \/ \E l \in ListIds : PutList(q, l) \/ ReadList(q, l)
     \/ AddDeletionVote(q)
     \/ ReadMembers(q)
     \/ FinalizeDeleteIfVotedByAll(q)
     \/ RemoveListDeletionVote(q)
  /\ History({})

Clean ==
  /\ \/ \E r \in RoomIds : CleanupRead(r)
     \/ \E l \in ListIds : CleanupRemove(l)
  /\ History({})

Next ==
  \/ ChangeMembership /\ History({})
  \/ EndMembership /\ History({})
  \/ \E q \in Requests, u \in Users, op \in {"create", "vote", "cancel"} :
       Begin(q, u, op) /\ History({})
  \/ \E q \in Requests : Step(q)
  \/ \E q \in Requests :
       Fail(q) /\ History(IF req[q].step \in {"members", "finalize"} THEN {req[q].list} ELSE {})
  \/ Clean
  \/ CleanupFails /\ History({})

Spec == Init /\ [][Next]_vars

\* The goroutines of requests and of the cleanup run, and their calls return.
FairSpec == Spec /\ WF_vars(Clean) /\ \A q \in Requests : WF_vars(Step(q))

----------------------------------------------------------------------------
\* Properties.

\* All members of the list's room have voted for its deletion.
Unanimous(l) ==
  /\ list[l] = "live"
  /\ Live(listRoom[l])
  /\ AllVoted(members[listRoom[l]], listVotes[l])

\* The member_ids are read after the vote is written and the votes are checked
\* by the update itself, so no decision is lost: as long as all members' votes
\* are in, a request that will act on them is under way, unless a member left
\* the room by deleting the account or the request of a voter failed.
NoLostListFinalization ==
  \A l \in ListIds \ excused :
    Unanimous(l) => \E q \in Requests :
      /\ req[q].step \in {"members", "finalize"}
      /\ req[q].list = l
      /\ req[q].step = "finalize" => AllVoted(req[q].seen, listVotes[l])

\* Only people who have been in the room have a vote on its lists, whatever
\* rooms they have moved to while their requests were under way.
ListVotesFromRoom ==
  \A l \in ListIds : Exists(l) => listVotes[l] \subseteq everMembers[listRoom[l]]

\* A list that outlives its room is about to be cleaned up, but for the three
\* ways to slip through: the room was dissolved by its only member joining
\* another, the list was inserted after the cleanup had looked, or the cleanup
\* failed.
OrphansExplained ==
  \A l \in ListIds \ stranded :
    list[l] = "live" /\ ~Live(listRoom[l]) => listRoom[l] \in due \/ l \in doomed

\* The lists of a deleted room are eventually removed, with the same exceptions.
CleanupCompletes ==
  \A l \in ListIds :
    (l \notin stranded /\ list[l] = "live" /\ ~Live(listRoom[l]))
      ~> (l \in stranded \/ list[l] # "live")

\* A list whose deletion all members have voted for does not stay.
ListUnanimityResolves ==
  \A l \in ListIds :
    (l \notin excused /\ Unanimous(l)) ~> (l \in excused \/ ~Unanimous(l))
=============================================================================
