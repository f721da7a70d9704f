-------------------------------- MODULE Items --------------------------------
(***************************************************************************)
(* What lists and their items say: items are created (with a category, see *)
(* Categorization), edited, ticked, cleared to the pantry and deleted, and *)
(* so are the display fields of lists and of the room edited.  Documents   *)
(* are edited one field at a time, one update for each field given.        *)
(* Requests run one database call at a time, interleaved with each other,  *)
(* with the end of lists and of memberships, and with restarts.            *)
(*                                                                         *)
(* There is one room.  Where its members and lists come from, and how they *)
(* go, is in Rooms and ListRequests; here they just go.  The order of      *)
(* items is in ItemOrder.                                                  *)
(***************************************************************************)
EXTENDS Categorization

CONSTANTS Users,
          Items, Lists, Room,   \* ids of documents
          NoDoc,
          Invalid,  \* an unknown icon, an empty name, notes or description too long
          Mixes     \* bound: what the clients of one behaviour ask for, see Begin


VARIABLES
  clients,    \* the mix of this behaviour
  members,    \* member_ids of the room, which is deleted with the last of them
  list,       \* is each list live, soft-deleted or removed
  item,       \* is each item still to come, there, or deleted
  itemList,   \* its list_id
  archived,   \* the items with is_archived
  content,    \* the other fields of items, lists and the room
  req,        \* the requests in flight
  reopened    \* history: items un-ticked after they were archived

docs == <<members, list, item, itemList, archived, content>>
item_vars == <<clients, docs, req, reopened>>
vars == <<item_vars, category_vars>>

\* The fields in the order in which they are written.
ItemFields == <<"description", "completed", "quantity", "unit", "category", "is_starred">>
ListFields == <<"name", "description", "icon", "notes">>
RoomFields == <<"display_name", "description">>

NewItem == [description |-> "", completed |-> FALSE, quantity |-> "", unit |-> "",
            category |-> "", is_starred |-> FALSE]
NewList == [name |-> "", description |-> "", icon |-> "", notes |-> ""]
NewRoom == [display_name |-> "", description |-> ""]

FieldNames == UNION {DOMAIN NewItem, DOMAIN NewList, DOMAIN NewRoom}
FieldsOf(d) ==
  IF d \in Items THEN DOMAIN NewItem ELSE IF d \in Lists THEN DOMAIN NewList ELSE DOMAIN NewRoom

Ops == {"createItem", "updateItem", "deleteItem", "archive", "updateList", "settings"}

\* Fields are written in the order of the code.
Fields(op) ==
  CASE op = "updateItem" -> ItemFields [] op = "updateList" -> ListFields
    [] op = "settings" -> RoomFields [] OTHER -> <<>>

\* What clients ask for: an item to create has a description, an edit names
\* fields of the document (the decoder knows no others).
ASSUME ItemsAssumption ==
  /\ NoDoc \notin Items \cup Lists \cup {Room}
  /\ Items \cap Lists = {} /\ Room \notin Items \cup Lists
  /\ \A mix \in Mixes :
       /\ mix.members \subseteq Users /\ mix.items \in Nat
       /\ mix.deploys \in BOOLEAN /\ mix.ends \in BOOLEAN
       /\ \A ask \in mix.asks["createItem"] :
            DOMAIN ask = {"description", "category"} /\ ask.description \in Descriptions
       /\ \A op \in Ops \ {"createItem"} : \A ask \in mix.asks[op] :
            DOMAIN ask \subseteq {Fields(op)[n] : n \in DOMAIN Fields(op)}

\* ask gives a value to each field asked for, todo are those still to write;
\* unseen are the items that clearing a list has not come to yet;
\* lost is history: those written by others since, or not written as the list
\* or the membership had ended.
Request == [op: Ops, user: Users, doc: Items \cup Lists \cup {Room},
            step: {"room", "find", "categorize", "put", "write", "archive", "remove"},
            ask: UNION {clients.asks[op] : op \in Ops},
            todo: SUBSET FieldNames, lost: SUBSET FieldNames, unseen: SUBSET Items]
NoRequest == [step |-> "idle"]

There(i) == item[i] = "there"
Exists(l) == list[l] # "removed"

TypeOK ==
  /\ CategorizationTypeOK
  /\ clients \in Mixes
  /\ members \subseteq Users
  /\ list \in [Lists -> {"live", "deleted", "removed"}]
  /\ item \in [Items -> {"unused", "there", "deleted"}]
  /\ itemList \in [Items -> Lists \cup {NoDoc}]
  /\ archived \subseteq {i \in Items : There(i)}
  /\ content = [d \in Items \cup Lists \cup {Room} |-> [f \in FieldsOf(d) |-> content[d][f]]]
  /\ \A i \in Items : ~There(i) => content[i] = NewItem
  /\ \A l \in Lists : ~Exists(l) => content[l] = NewList
  /\ members = {} => content[Room] = NewRoom
  /\ req \in [Requests -> Request \cup {NoRequest}]
  /\ reopened \subseteq archived

Init ==
  /\ clients \in Mixes
  /\ members = clients.members
  /\ list = [l \in Lists |-> "live"]
  /\ item = [i \in Items |-> "unused"]
  /\ itemList = [i \in Items |-> NoDoc]
  /\ archived = {}
  /\ content = [d \in Items \cup Lists \cup {Room} |->
       IF d \in Items THEN NewItem ELSE IF d \in Lists THEN NewList ELSE NewRoom]
  /\ req = [q \in Requests |-> NoRequest]
  /\ reopened = {}
  /\ server = (IF clients.deploys THEN "down" ELSE "keyword")
  /\ release = Max(Releases)
  /\ CategorizationInit

At(q, step) == req[q].step = step
Is(q, op) == req[q].op = op
Answer(q) == req' = [req EXCEPT ![q] = NoRequest]
GoTo(q, step) == req' = [req EXCEPT ![q].step = step]

----------------------------------------------------------------------------
\* Requests begin.

\* Variant: the service validates settings, after the name is written.
Validated_InService(op, ask) == TRUE

\* Settings are validated before anything is written, list fields when it is
\* their turn.
Validated(op, ask) == op = "settings" => \A f \in DOMAIN ask : ask[f] # Invalid

\* The documents an endpoint is about.
Docs(op) ==
  CASE op \in {"updateItem", "deleteItem"} -> {i \in Items : item[i] # "unused"}
    [] op = "settings" -> {Room}
    [] OTHER -> Lists

\* The middleware reads a member; the handler has checked what is asked.
Begin(q, u, op, d, ask) ==
  /\ server # "down" /\ req[q] = NoRequest
  /\ u \in members /\ d \in Docs(op) /\ Validated(op, ask)
  /\ req' = [req EXCEPT ![q] =
       [op |-> op, user |-> u, doc |-> d, step |-> IF op = "settings" THEN "write" ELSE "room",
        ask |-> ask, todo |-> DOMAIN ask, lost |-> {},
        unseen |-> IF op = "archive" THEN Items ELSE {}]]
  /\ UNCHANGED <<docs, category_vars>>

----------------------------------------------------------------------------
\* The checks.

\* The room is read and has to list the user.
EnsureRoomMembership(q) ==
  /\ At(q, "room")
  /\ IF req[q].user \in members THEN GoTo(q, "find") ELSE Answer(q)
  /\ UNCHANGED <<docs, category_vars>>

\* The item has to be there, its list need not; else the list has to be live.
Found(q) ==
  LET d == req[q].doc
  IN  IF d \in Items THEN There(d) ELSE list[d] = "live"

FirstStep(q) ==
  CASE Is(q, "createItem") -> IF req[q].ask.category = "" THEN "categorize" ELSE "put"
    [] Is(q, "updateItem") \/ Is(q, "updateList") -> "write"
    [] Is(q, "archive") -> "archive"
    [] Is(q, "deleteItem") -> "remove"

Find(q) ==
  /\ At(q, "find")
  /\ IF Found(q) THEN GoTo(q, FirstStep(q)) ELSE Answer(q)
  /\ IF Found(q) /\ FirstStep(q) = "categorize"
       THEN Categorize(q, req[q].ask.description) ELSE UNCHANGED category_vars
  /\ UNCHANGED docs

----------------------------------------------------------------------------
\* POST .../items: the item is inserted, be its list still live or not.
PutItem(q, i) ==
  /\ At(q, "put") \/ (At(q, "categorize") /\ AtQuery(q, "answered"))
  /\ item[i] = "unused" /\ Cardinality({j \in Items : item[j] # "unused"}) < clients.items
  /\ item' = [item EXCEPT ![i] = "there"]
  /\ itemList' = [itemList EXCEPT ![i] = req[q].doc]
  /\ content' = [content EXCEPT ![i] = [NewItem EXCEPT !.description = req[q].ask.description,
       !.category = IF At(q, "put") THEN req[q].ask.category ELSE query[q].cat]]
  /\ Answer(q)
  /\ query' = [query EXCEPT ![q] = NoQuery]
  /\ UNCHANGED <<members, list, archived, server, release, index, seeded, ran, answers, missed>>

\* DELETE .../items/{item_id}.
RemoveItem(q) ==
  LET i == req[q].doc
  IN  /\ At(q, "remove")
      /\ item' = [item EXCEPT ![i] = "deleted"]
      /\ itemList' = [itemList EXCEPT ![i] = NoDoc]
      /\ archived' = archived \ {i}
      /\ content' = [content EXCEPT ![i] = NewItem]
      /\ Answer(q)
      /\ UNCHANGED <<members, list, category_vars>>

\* Variant: all of the list is cleared.
ArchiveCompletedByList_All(q, i) ==
  /\ At(q, "archive") /\ i \in req[q].unseen
  /\ archived' = IF There(i) /\ itemList[i] = req[q].doc THEN archived \cup {i} ELSE archived
  /\ IF req[q].unseen = {i} THEN Answer(q) ELSE req' = [req EXCEPT ![q].unseen = @ \ {i}]
  /\ UNCHANGED <<members, list, item, itemList, content, category_vars>>

\* POST .../items/archive-completed: an UpdateMany comes to the documents one by
\* one and updates each that is ticked by then.
ArchiveCompletedByList(q, i) ==
  /\ At(q, "archive") /\ i \in req[q].unseen
  /\ archived' = IF There(i) /\ itemList[i] = req[q].doc /\ content[i].completed
                   THEN archived \cup {i} ELSE archived
  /\ IF req[q].unseen = {i} THEN Answer(q) ELSE req' = [req EXCEPT ![q].unseen = @ \ {i}]
  /\ UNCHANGED <<members, list, item, itemList, content, category_vars>>

----------------------------------------------------------------------------
\* PATCH of an item, a list or the room settings, field by field.

\* Variant: cleared items are not edited.
Matches_NotArchived(q) ==
  CASE Is(q, "updateItem") -> There(req[q].doc) /\ req[q].doc \notin archived
    [] Is(q, "updateList") -> list[req[q].doc] = "live"
    [] Is(q, "settings") -> req[q].user \in members

\* Variant: updates insert what they do not find.
Matches_Upsert(q) == TRUE

\* The filter of the update.  That it matches nothing is not noticed.
Matches(q) ==
  CASE Is(q, "updateItem") -> There(req[q].doc)
    [] Is(q, "updateList") -> list[req[q].doc] = "live"
    [] Is(q, "settings") -> req[q].user \in members

\* The first field that is still to write.
NextField(q) ==
  LET fields == Fields(req[q].op)
  IN  fields[CHOOSE n \in DOMAIN fields :
        fields[n] \in req[q].todo /\ \A m \in 1 .. (n - 1) : fields[m] \notin req[q].todo]

\* A value that will not do; items and the description of a list take any.
Refuses(q) ==
  /\ req[q].ask[NextField(q)] = Invalid
  /\ ~Is(q, "updateItem") /\ ~(Is(q, "updateList") /\ NextField(q) = "description")

RefuseField(q) ==
  /\ At(q, "write") /\ req[q].todo # {} /\ Refuses(q)
  /\ Answer(q)
  /\ UNCHANGED <<docs, category_vars>>

\* The list or the membership that the request was based on has ended.
Ended(q) == (Is(q, "updateList") /\ list[req[q].doc] # "live")
              \/ (Is(q, "settings") /\ req[q].user \notin members)

WriteField(q) ==
  LET d == req[q].doc
      f == NextField(q)
      others == {p \in Requests \ {q} : ~At(p, "idle") /\ req[p].doc = d}
      overwritten(p) == f \in DOMAIN req[p].ask /\ f \notin req[p].todo
  IN  /\ At(q, "write") /\ req[q].todo # {} /\ ~Refuses(q)
      /\ content' = IF Matches(q) THEN [content EXCEPT ![d][f] = req[q].ask[f]] ELSE content
      /\ req' = [p \in Requests |->
           CASE p = q -> [req[q] EXCEPT !.todo = @ \ {f},
                                        !.lost = IF Ended(q) THEN @ \cup {f} ELSE @]
             [] p \in others -> [req[p] EXCEPT !.lost = IF overwritten(p) THEN @ \cup {f} ELSE @]
             [] OTHER -> req[p]]
      /\ UNCHANGED <<members, list, item, itemList, archived, category_vars>>

\* The document is read for the answer: as it is now, and if it is still there.
StillThere(q) ==
  LET d == req[q].doc
  IN  CASE d \in Items -> There(d) [] d \in Lists -> Exists(d) [] d = Room -> members # {}

Reread(q) ==
  /\ At(q, "write") /\ req[q].todo = {}
  /\ Answer(q)
  /\ UNCHANGED <<docs, category_vars>>

\* A call fails or the client goes away: what was written stays.
Fail(q) ==
  /\ ~At(q, "idle")
  /\ Answer(q)
  /\ query' = [query EXCEPT ![q] = NoQuery]
  /\ UNCHANGED <<docs, server, release, index, seeded, ran, answers, missed>>

----------------------------------------------------------------------------
\* What the environment does.

\* A list is voted out, or removed as the room is gone.  Its items stay.
EndList(l) ==
  /\ clients.ends
  /\ \/ list[l] = "live" /\ list' = [list EXCEPT ![l] = "deleted"] /\ UNCHANGED content
     \/ /\ members = {} /\ Exists(l)
        /\ list' = [list EXCEPT ![l] = "removed"]
        /\ content' = [content EXCEPT ![l] = NewList]
  /\ UNCHANGED <<members, item, itemList, archived, req, category_vars>>

EndMembership(u) ==
  /\ clients.ends
  /\ u \in members
  /\ members' = members \ {u}
  /\ content' = IF members' = {} THEN [content EXCEPT ![Room] = NewRoom] ELSE content
  /\ UNCHANGED <<list, item, itemList, archived, req, category_vars>>

\* A release is deployed, or the server restarted.
Deploy ==
  /\ clients.deploys
  /\ \/ \E v \in Releases, indexed, embedder \in BOOLEAN, stored \in SUBSET Descriptions :
          Start(v, indexed, embedder, stored) /\ UNCHANGED req
     \/ Stop /\ req' = [q \in Requests |-> NoRequest]
  /\ UNCHANGED docs

----------------------------------------------------------------------------
Step(q) ==
  \/ EnsureRoomMembership(q) \/ Find(q)
  \/ \E i \in Items : PutItem(q, i) \/ ArchiveCompletedByList(q, i)
  \/ RemoveItem(q)
  \/ RefuseField(q) \/ WriteField(q) \/ Reread(q)

History ==
  reopened' = {i \in archived' : (i \in reopened \/ (i \in archived /\ content[i].completed))
                                   /\ ~content'[i].completed}

Next ==
  /\ \/ \E q \in Requests, u \in Users, op \in Ops : \E d \in Docs(op), ask \in clients.asks[op] :
          Begin(q, u, op, d, ask)
     \/ \E q \in Requests : Step(q) \/ Fail(q)
     \/ \E q \in Requests : CategorizationStep(q) /\ UNCHANGED <<docs, req>>
     \/ \E l \in Lists : EndList(l)
     \/ \E u \in Users : EndMembership(u)
     \/ Deploy
  /\ History
  /\ UNCHANGED clients

Spec == Init /\ [][Next]_vars

----------------------------------------------------------------------------
\* What the clients are shown.

\* GET .../items.
ListItems(l, includeCompleted) ==
  {i \in Items : /\ There(i) /\ itemList[i] = l /\ i \notin archived
                 /\ content[i].completed => includeCompleted}

\* Variant: the pantry shows what has been bought.
GetPantry_Completed ==
  {content[i].description : i \in {j \in archived : content[j].completed}}

\* GET /rooms/{room_id}/pantry, by description; the room's archived items of
\* whatever list.
GetPantry == {content[i].description : i \in archived}

----------------------------------------------------------------------------
\* Properties.

\* A request that is answered 200 has had its way: each field it asked for has
\* the value asked for when the document is read for the answer, unless another
\* request has written that field since, or the list was voted out or the user
\* left the room under the request.  Clearing a list does not count.
AcknowledgedHolds ==
  \A q \in Requests : At(q, "write") /\ req[q].todo = {} /\ StillThere(q) =>
    \A f \in DOMAIN req[q].ask \ req[q].lost : content[req[q].doc][f] = req[q].ask[f]

\* A request that is turned down for what it asks has written nothing before,
\* but for lists, whose icon and notes are looked at after the name is written.
LateRefusals ==
  \A q \in Requests : At(q, "write") /\ req[q].todo # {} /\ Refuses(q) =>
    req[q].todo = DOMAIN req[q].ask \/ NextField(q) \in {"icon", "notes"}

\* An item that is not ticked is hidden from its list only if it was un-ticked
\* when it had been cleared already.
HiddenItemsTicked ==
  \A i \in archived : content[i].completed \/ i \in reopened

\* Nothing gets lost from sight: as long as a list is live, its items are shown
\* there, the open ones among those to buy, or in the pantry, where an open one is
\* only if it was un-ticked after it had been cleared.
NothingVanishes ==
  \A i \in Items : There(i) /\ list[itemList[i]] = "live" =>
    \/ i \in ListItems(itemList[i], content[i].completed)
    \/ /\ content[i].completed \/ i \in reopened
       /\ content[i].description \in GetPantry
=============
