----------------------------- MODULE ItemsProofs -----------------------------
(***************************************************************************)
(* Proofs about Items, for every set of users, items, lists, requests and  *)
(* descriptions, and for all clients whose requests the handlers let       *)
(* through.                                                                *)
(***************************************************************************)
EXTENDS Items, CategorizationProofs

AllDocs == Items \cup Lists \cup {Room}

\* The documents have their shape.
DocsOK ==
  /\ members \subseteq Users
  /\ list \in [Lists -> {"live", "deleted", "removed"}]
  /\ item \in [Items -> {"unused", "there", "deleted"}]
  /\ itemList \in [Items -> Lists \cup {NoDoc}]
  /\ archived \subseteq {i \in Items : There(i)}
  /\ content = [d \in AllDocs |-> [f \in FieldsOf(d) |-> content[d][f]]]
  /\ \A i \in Items : ~There(i) => content[i] = NewItem
  /\ \A l \in Lists : ~Exists(l) => content[l] = NewList
  /\ members = {} => content[Room] = NewRoom

\* The fields that were written and not written over are as they were asked
\* for, unless the document is gone.
Written(q) ==
  StillThere(q) => \A f \in DOMAIN req[q].ask \ (req[q].todo \cup req[q].lost) :
                     content[req[q].doc][f] = req[q].ask[f]

\* A request works on a document of the kind its endpoint is about, and only
\* while a server runs.  It has written nothing before it writes, it has not
\* written anything of a list before the name, and settings are validated.
RequestOK(q) ==
  req[q].step # "idle" =>
    /\ server # "down"
    /\ req[q].op \in Ops /\ req[q].ask \in clients.asks[req[q].op]
    /\ req[q].op \in {"updateItem", "deleteItem"} =>
         req[q].doc \in Items /\ item[req[q].doc] # "unused"
    /\ req[q].op \in {"createItem", "archive", "updateList"} => req[q].doc \in Lists
    /\ req[q].op = "settings" =>
         /\ req[q].doc = Room
         /\ \A f \in DOMAIN req[q].ask : req[q].ask[f] # Invalid
    /\ req[q].op = "settings" => req[q].step = "write"
    /\ req[q].step \in {"categorize", "put"} => req[q].op = "createItem"
    /\ req[q].step = "archive" => req[q].op = "archive"
    /\ req[q].step = "remove" => req[q].op = "deleteItem"
    /\ req[q].step = "write" => req[q].op \in {"updateItem", "updateList", "settings"}
    /\ req[q].todo \subseteq DOMAIN req[q].ask
    /\ req[q].step # "write" => req[q].todo = DOMAIN req[q].ask
    /\ req[q].op = "updateList" /\ "name" \in req[q].todo => req[q].todo = DOMAIN req[q].ask
    /\ req[q].step = "write" => Written(q)
RequestsOK == \A q \in Requests : RequestOK(q)

ItemsInv == TypeOK /\ CategorizationInv /\ RequestsOK /\ HiddenItemsTicked

USE DEF At, Is, There, Exists, AllDocs

----------------------------------------------------------------------------
\* What is asked for.

LEMMA RequestShape ==
  ASSUME TypeOK, NEW q \in Requests, req[q].step # "idle"
  PROVE  /\ req[q] \in Request
         /\ req[q].op \in Ops /\ req[q].user \in Users /\ req[q].doc \in AllDocs
         /\ req[q].todo \in SUBSET FieldNames /\ req[q].lost \in SUBSET FieldNames
         /\ req[q].step \in {"room", "find", "categorize", "put", "write", "archive", "remove"}
<1>1. req[q] \in Request
  BY DEF TypeOK, NoRequest
<1> QED
  BY <1>1 DEF Request

LEMMA TypeParts == TypeOK <=> /\ CategorizationTypeOK /\ clients \in Mixes /\ DocsOK
                              /\ req \in [Requests -> Request \cup {NoRequest}]
                              /\ reopened \subseteq archived
  BY DEF TypeOK, DocsOK

LEMMA FieldSets ==
  /\ DOMAIN NewItem = {"description", "completed", "quantity", "unit", "category", "is_starred"}
  /\ DOMAIN NewList = {"name", "description", "icon", "notes"}
  /\ DOMAIN NewRoom = {"display_name", "description"}
  BY DEF NewItem, NewList, NewRoom

LEMMA FieldOrders ==
  /\ Fields("updateItem") = ItemFields /\ DOMAIN ItemFields = 1 .. 6
  /\ {ItemFields[n] : n \in 1 .. 6} = DOMAIN NewItem
  /\ Fields("updateList") = ListFields /\ DOMAIN ListFields = 1 .. 4
  /\ {ListFields[n] : n \in 1 .. 4} = DOMAIN NewList
  /\ Fields("settings") = RoomFields /\ DOMAIN RoomFields = 1 .. 2
  /\ {RoomFields[n] : n \in 1 .. 2} = DOMAIN NewRoom
<1>1. {ItemFields[n] : n \in 1 .. 6} = DOMAIN NewItem
  <2>1. /\ ItemFields[1] = "description" /\ ItemFields[2] = "completed"
        /\ ItemFields[3] = "quantity" /\ ItemFields[4] = "unit"
        /\ ItemFields[5] = "category" /\ ItemFields[6] = "is_starred"
    BY DEF ItemFields
  <2>2. \A n \in 1 .. 6 : n = 1 \/ n = 2 \/ n = 3 \/ n = 4 \/ n = 5 \/ n = 6
    OBVIOUS
  <2> HIDE DEF ItemFields
  <2>3. \A x : x \in {ItemFields[n] : n \in 1 .. 6} => x \in DOMAIN NewItem
    BY <2>1, <2>2, FieldSets
  <2>4. \A x : x \in DOMAIN NewItem => x \in {ItemFields[n] : n \in 1 .. 6}
    BY <2>1, FieldSets
  <2> QED
    BY <2>3, <2>4
<1>2. {ListFields[n] : n \in 1 .. 4} = DOMAIN NewList
  <2>1. /\ ListFields[1] = "name" /\ ListFields[2] = "description"
        /\ ListFields[3] = "icon" /\ ListFields[4] = "notes"
    BY DEF ListFields
  <2>2. \A x : x \in {ListFields[n] : n \in 1 .. 4} => x \in DOMAIN NewList
    BY <2>1, OneToFour, FieldSets
  <2>3. \A x : x \in DOMAIN NewList => x \in {ListFields[n] : n \in 1 .. 4}
    BY <2>1, FieldSets
  <2> QED
    BY <2>2, <2>3
<1>3. {RoomFields[n] : n \in 1 .. 2} = DOMAIN NewRoom
  <2>1. RoomFields[1] = "display_name" /\ RoomFields[2] = "description"
    BY DEF RoomFields
  <2>2. \A n \in 1 .. 2 : n = 1 \/ n = 2
    OBVIOUS
  <2>3. \A x : x \in {RoomFields[n] : n \in 1 .. 2} => x \in DOMAIN NewRoom
    BY <2>1, <2>2, FieldSets
  <2>4. \A x : x \in DOMAIN NewRoom => x \in {RoomFields[n] : n \in 1 .. 2}
    BY <2>1, FieldSets
  <2> QED
    BY <2>3, <2>4
<1>4. /\ Fields("updateItem") = ItemFields /\ DOMAIN ItemFields = 1 .. 6
      /\ Fields("updateList") = ListFields /\ DOMAIN ListFields = 1 .. 4
      /\ Fields("settings") = RoomFields /\ DOMAIN RoomFields = 1 .. 2
  BY DEF Fields, ItemFields, ListFields, RoomFields
<1> QED
  BY <1>1, <1>2, <1>3, <1>4

\* An edit asks for fields that its document has.
LEMMA AsksFit ==
  ASSUME ItemsInv, NEW q \in Requests, req[q].step = "write"
  PROVE  /\ DOMAIN req[q].ask \subseteq FieldsOf(req[q].doc)
         /\ DOMAIN req[q].ask \subseteq {Fields(req[q].op)[n] : n \in DOMAIN Fields(req[q].op)}
<1>1. /\ req[q].op \in {"updateItem", "updateList", "settings"} /\ req[q].op \in Ops
      /\ req[q].ask \in clients.asks[req[q].op] /\ clients \in Mixes
      /\ req[q].op = "updateItem" => req[q].doc \in Items
      /\ req[q].op = "updateList" => req[q].doc \in Lists
      /\ req[q].op = "settings" => req[q].doc = Room
  BY DEF ItemsInv, RequestsOK, RequestOK, TypeOK
<1>2. DOMAIN req[q].ask \subseteq {Fields(req[q].op)[n] : n \in DOMAIN Fields(req[q].op)}
  BY <1>1, ItemsAssumption
<1>3. {Fields(req[q].op)[n] : n \in DOMAIN Fields(req[q].op)} = FieldsOf(req[q].doc)
  BY <1>1, FieldOrders, ItemsAssumption DEF FieldsOf
<1> QED
  BY <1>2, <1>3

\* The next field is one that is still to write, and the name comes first.
LEMMA NextFieldToDo ==
  ASSUME ItemsInv, NEW q \in Requests, req[q].step = "write", req[q].todo # {}
  PROVE  /\ NextField(q) \in req[q].todo
         /\ NextField(q) \in DOMAIN req[q].ask
         /\ NextField(q) \in FieldsOf(req[q].doc)
         /\ req[q].op = "updateList" /\ "name" \in req[q].todo => NextField(q) = "name"
<1> DEFINE fields == Fields(req[q].op)
           first(n) == fields[n] \in req[q].todo
                         /\ \A m \in 1 .. (n - 1) : fields[m] \notin req[q].todo
           S == {n \in DOMAIN fields : fields[n] \in req[q].todo}
<1>1. /\ req[q].todo \subseteq DOMAIN req[q].ask
      /\ DOMAIN req[q].ask \subseteq {fields[n] : n \in DOMAIN fields}
      /\ DOMAIN req[q].ask \subseteq FieldsOf(req[q].doc)
      /\ req[q].op \in {"updateItem", "updateList", "settings"}
  BY AsksFit DEF ItemsInv, RequestsOK, RequestOK
<1>2. DOMAIN fields \subseteq Nat /\ \A n \in DOMAIN fields : 1 .. (n - 1) \subseteq DOMAIN fields
  <2>1. DOMAIN fields = 1 .. 6 \/ DOMAIN fields = 1 .. 4 \/ DOMAIN fields = 1 .. 2
    BY <1>1, FieldOrders
  <2> QED
    BY <2>1
<1> HIDE DEF fields
<1>3. S \in SUBSET Nat /\ S # {}
  BY <1>1, <1>2
<1>4. PICK n \in S : \A m \in S : n <= m
  BY <1>3, LeastNatural
<1>5. n \in DOMAIN fields /\ first(n)
  <2>1. ASSUME NEW m \in 1 .. (n - 1) PROVE fields[m] \notin req[q].todo
    BY <1>2, <1>3, <1>4
  <2> QED
    BY <2>1
<1> DEFINE k == CHOOSE j \in DOMAIN fields : first(j)
<1>6. k \in DOMAIN fields /\ first(k)
  BY <1>5
<1>7. NextField(q) = fields[k]
  BY DEF NextField, fields
<1> HIDE DEF k
<1>8. ASSUME req[q].op = "updateList", "name" \in req[q].todo PROVE fields[k] = "name"
  <2>1. fields[1] = "name" /\ DOMAIN fields = 1 .. 4
    BY <1>8, FieldOrders DEF fields, ListFields
  <2>2. k = 1
    BY <1>6, <1>8, <2>1
  <2> QED
    BY <2>1, <2>2
<1> QED
  BY <1>1, <1>6, <1>7, <1>8

----------------------------------------------------------------------------
\* What every step does.

\* One document gets other fields.
LEMMA SetContent ==
  ASSUME content = [d \in AllDocs |-> [f \in FieldsOf(d) |-> content[d][f]]],
         NEW e \in AllDocs, NEW v, v = [f \in FieldsOf(e) |-> v[f]],
         content' = [content EXCEPT ![e] = v]
  PROVE  /\ content' = [d \in AllDocs |-> [f \in FieldsOf(d) |-> content'[d][f]]]
         /\ content'[e] = v
         /\ \A d \in AllDocs : d # e => content'[d] = content[d]
<1>1. content'[e] = v /\ \A d \in AllDocs : d # e => content'[d] = content[d]
  OBVIOUS
<1>2. \A d \in AllDocs : content'[d] = [f \in FieldsOf(d) |-> content'[d][f]]
  BY <1>1
<1>3. content' = [d \in AllDocs |-> content'[d]]
  OBVIOUS
<1> QED
  BY <1>1, <1>2, <1>3

\* Nobody joins, nothing comes back, and a document that stays there and is not
\* edited keeps its fields.
DocsStep ==
  /\ UNCHANGED clients
  /\ members' \subseteq members
  /\ \A l \in Lists : Exists(l)' => Exists(l)
  /\ \A i \in Items :
       item[i] # "unused" => item'[i] # "unused" /\ (There(i)' => There(i))
DocsKeep ==
  /\ \A i \in Items : There(i) /\ There(i)' => content'[i] = content[i]
  /\ \A l \in Lists : Exists(l)' => content'[l] = content[l]
  /\ members' # {} => content'[Room] = content[Room]

LEMMA SameDocs ==
  ASSUME UNCHANGED <<clients, docs>>
  PROVE  DocsStep /\ DocsKeep
  BY DEF docs, DocsStep, DocsKeep

\* A request that does nothing stays as it should be.
LEMMA OtherRequestKept ==
  ASSUME ItemsInv, DocsStep, DocsKeep, NEW p \in Requests, req'[p] = req[p],
         server # "down" => server' # "down"
  PROVE  RequestOK(p)'
<1> SUFFICES ASSUME req[p].step # "idle" PROVE RequestOK(p)'
  BY DEF RequestOK
<1>1. RequestOK(p) /\ req[p].doc \in AllDocs
  BY RequestShape DEF ItemsInv, RequestsOK
<1>2. ASSUME req[p].step = "write" PROVE Written(p)'
  <2> DEFINE d == req[p].doc
  <2>1. Written(p)
    BY <1>1, <1>2 DEF RequestOK
  <2>2. d \in Items => item[d] # "unused"
    BY <1>1, <1>2, ItemsAssumption DEF RequestOK
  <2>3. StillThere(p)' => StillThere(p) /\ content'[d] = content[d]
    BY <1>1, <2>2, ItemsAssumption DEF StillThere, DocsStep, DocsKeep
  <2> QED
    BY <2>1, <2>3 DEF Written
<1>3. req[p].doc \in Items /\ item[req[p].doc] # "unused" => item'[req[p].doc] # "unused"
  BY DEF DocsStep
<1>4. clients' = clients /\ server' # "down"
  BY <1>1 DEF RequestOK, DocsStep
<1> QED
  BY <1>1, <1>2, <1>3, <1>4 DEF RequestOK

LEMMA RequestsKept ==
  ASSUME ItemsInv, DocsStep, DocsKeep, req' = req, server # "down" => server' # "down"
  PROVE  RequestsOK' /\ req' \in [Requests -> Request' \cup {NoRequest}]
<1>1. Request' = Request
  BY DEF DocsStep, Request
<1>2. RequestsOK'
  BY OtherRequestKept DEF RequestsOK
<1> QED
  BY <1>1, <1>2 DEF ItemsInv, TypeOK

LEMMA SetRequestKept ==
  ASSUME ItemsInv, DocsStep, DocsKeep, server # "down" => server' # "down",
         NEW q \in Requests, NEW x, req' = [req EXCEPT ![q] = x],
         x = NoRequest \/ (x \in Request /\ RequestOK(q)')
  PROVE  RequestsOK' /\ req' \in [Requests -> Request' \cup {NoRequest}]
<1>1. Request' = Request
  BY DEF DocsStep, Request
<1>2. req' \in [Requests -> Request \cup {NoRequest}] /\ req'[q] = x
  BY DEF ItemsInv, TypeOK
<1>3. ASSUME NEW p \in Requests PROVE RequestOK(p)'
  <2>1. CASE p = q
    BY <1>2, <2>1 DEF RequestOK, NoRequest
  <2>2. CASE p # q
    <3>1. req'[p] = req[p]
      BY <2>2 DEF ItemsInv, TypeOK
    <3> QED
      BY <3>1, OtherRequestKept
  <2> QED
    BY <2>1, <2>2
<1> QED
  BY <1>1, <1>2, <1>3 DEF RequestsOK

LEMMA AnswerKept ==
  ASSUME ItemsInv, DocsStep, DocsKeep, server # "down" => server' # "down",
         NEW q \in Requests, Answer(q)
  PROVE  RequestsOK' /\ req' \in [Requests -> Request' \cup {NoRequest}]
  BY SetRequestKept DEF Answer

\* The parts of the invariant put together.
LEMMA Assemble ==
  ASSUME ItemsInv, DocsStep, DocsOK', CategorizationInv', History,
         RequestsOK' /\ req' \in [Requests -> Request' \cup {NoRequest}],
         \A i \in archived' \ archived : content[i].completed /\ content'[i] = content[i]
  PROVE  ItemsInv'
<1>1. TypeOK'
  <2>1. reopened' \subseteq archived'
    BY DEF History
  <2>2. clients' \in Mixes
    BY DEF ItemsInv, TypeOK, DocsStep
  <2> QED
    BY <2>1, <2>2 DEF TypeOK, DocsOK, CategorizationInv
<1>2. HiddenItemsTicked'
  <2> SUFFICES ASSUME NEW i \in archived', ~content'[i].completed PROVE i \in reopened'
    BY DEF HiddenItemsTicked
  <2>1. i \in archived
    OBVIOUS
  <2>2. content[i].completed \/ i \in reopened
    BY <2>1 DEF ItemsInv, HiddenItemsTicked
  <2> QED
    BY <2>1, <2>2 DEF History
<1> QED
  BY <1>1, <1>2 DEF ItemsInv

LEMMA SameDocsOK == ASSUME ItemsInv, UNCHANGED docs PROVE DocsOK'
  BY TypeParts DEF ItemsInv, DocsOK, docs

\* A step that leaves the documents alone.
LEMMA QuietStep ==
  ASSUME ItemsInv, UNCHANGED <<clients, docs>>, CategorizationInv', History,
         server # "down" => server' # "down",
         \/ req' = req
         \/ \E q \in Requests : Answer(q)
         \/ \E q \in Requests : \E x \in Request : req' = [req EXCEPT ![q] = x] /\ RequestOK(q)'
  PROVE  ItemsInv'
<1>1. DocsStep /\ DocsKeep /\ DocsOK'
  BY SameDocs, SameDocsOK
<1>2. RequestsOK' /\ req' \in [Requests -> Request' \cup {NoRequest}]
  BY <1>1, RequestsKept, AnswerKept, SetRequestKept
<1>3. archived' = archived
  BY DEF docs
<1> QED
  BY <1>1, <1>2, <1>3, Assemble

----------------------------------------------------------------------------
\* The invariant, action by action.

LEMMA InitInv == Init => ItemsInv
<1> SUFFICES ASSUME Init PROVE ItemsInv
  OBVIOUS
<1>1. release \in Releases
  BY LastRelease DEF Init
<1>2. server \in {"down", "keyword"} /\ \A q \in Requests : query[q] = NoQuery
  BY DEF Init, CategorizationInit
<1>3. CategorizationTypeOK
  BY <1>1, <1>2 DEF Init, CategorizationInit, CategorizationTypeOK
<1>4. CategorizationInv
  BY <1>2, <1>3 DEF Init, CategorizationInit, CategorizationInv, QueriesOK, QueryOK, NoQuery,
                    ServerOK, AnswersExpected, AnchorsInForce, EntriesExplained
<1>5. DocsOK
  <2>1. \A d \in AllDocs : content[d] = IF d \in Items THEN NewItem
                                       ELSE IF d \in Lists THEN NewList ELSE NewRoom
    BY DEF Init
  <2>2. content = [d \in AllDocs |-> [f \in FieldsOf(d) |-> content[d][f]]]
    <3>1. \A d \in AllDocs : content[d] = [f \in FieldsOf(d) |-> content[d][f]]
      BY <2>1 DEF FieldsOf, NewItem, NewList, NewRoom
    <3>2. content = [d \in AllDocs |-> content[d]]
      BY DEF Init
    <3> QED
      BY <3>1, <3>2
  <2>3. members \subseteq Users
    BY ItemsAssumption DEF Init
  <2> QED
    BY <2>1, <2>2, <2>3, ItemsAssumption DEF Init, DocsOK
<1>6. RequestsOK
  BY DEF Init, RequestsOK, RequestOK, NoRequest
<1> QED
  BY <1>3, <1>4, <1>5, <1>6 DEF ItemsInv, TypeOK, DocsOK, Init, HiddenItemsTicked

LEMMA BeginKept ==
  ASSUME ItemsInv, NEW q \in Requests, NEW u \in Users, NEW op \in Ops, NEW d \in Docs(op),
         NEW ask \in clients.asks[op], Begin(q, u, op, d, ask), History, UNCHANGED clients
  PROVE  ItemsInv'
<1> DEFINE x == [op |-> op, user |-> u, doc |-> d,
                 step |-> IF op = "settings" THEN "write" ELSE "room",
                 ask |-> ask, todo |-> DOMAIN ask, lost |-> {},
                 unseen |-> IF op = "archive" THEN Items ELSE {}]
<1>1. req' = [req EXCEPT ![q] = x] /\ UNCHANGED <<docs, category_vars>> /\ server # "down"
  BY DEF Begin
<1>2. /\ op \in {"updateItem", "deleteItem"} => d \in Items /\ item[d] # "unused"
      /\ op \in {"createItem", "archive", "updateList"} => d \in Lists
      /\ op = "settings" => d = Room
  BY DEF Docs, Ops
<1>3. DOMAIN ask \subseteq FieldNames
  <2>1. clients \in Mixes
    BY DEF ItemsInv, TypeOK
  <2>2. CASE op = "createItem"
    BY <2>1, <2>2, ItemsAssumption, FieldSets DEF FieldNames
  <2>3. CASE op \in {"updateItem", "updateList", "settings"}
    BY <2>1, <2>3, ItemsAssumption, FieldSets, FieldOrders DEF FieldNames
  <2>4. CASE op \in {"deleteItem", "archive"}
    <3>1. DOMAIN Fields(op) = {}
      BY <2>4 DEF Fields
    <3>2. DOMAIN ask \subseteq {Fields(op)[n] : n \in DOMAIN Fields(op)}
      BY <2>1, <2>4, ItemsAssumption
    <3> QED
      BY <3>1, <3>2
  <2> QED
    BY <2>2, <2>3, <2>4 DEF Ops
<1>4. x \in Request
  <2>1. d \in Items \cup Lists \cup {Room}
    BY <1>2 DEF Ops
  <2>2. ask \in UNION {clients.asks[o] : o \in Ops}
    OBVIOUS
  <2> QED
    BY <1>3, <2>1, <2>2 DEF Request
<1>5. req'[q] = x
  BY <1>1 DEF ItemsInv, TypeOK
<1>6. op = "settings" => \A f \in DOMAIN ask : ask[f] # Invalid
  BY DEF Begin, Validated
<1>7. RequestOK(q)'
  BY <1>1, <1>2, <1>5, <1>6 DEF RequestOK, Written, docs, category_vars
<1>8. CategorizationInv'
  BY <1>1, CategorizationSame DEF ItemsInv
<1> HIDE DEF x
<1> QED
  BY <1>1, <1>4, <1>7, <1>8, QuietStep DEF category_vars

\* A request moves on without writing.
LEMMA GoToKept ==
  ASSUME ItemsInv, NEW q \in Requests, req[q].step \in {"room", "find"}, req[q].op # "settings",
         NEW step \in {"find", "categorize", "put", "write", "archive", "remove"},
         GoTo(q, step), UNCHANGED <<clients, docs, server>>, History, CategorizationInv',
         step \in {"categorize", "put"} => req[q].op = "createItem",
         step = "archive" => req[q].op = "archive",
         step = "remove" => req[q].op = "deleteItem",
         step = "write" => req[q].op \in {"updateItem", "updateList"}
  PROVE  ItemsInv'
<1> DEFINE x == [req[q] EXCEPT !.step = step]
<1>1. req[q] \in Request /\ RequestOK(q)
  BY RequestShape DEF ItemsInv, RequestsOK
<1>2. req' = [req EXCEPT ![q] = x] /\ req'[q] = x
  BY <1>1 DEF GoTo, ItemsInv, TypeOK
<1>3. /\ x \in Request /\ x.step = step /\ x.op = req[q].op /\ x.doc = req[q].doc
      /\ x.ask = req[q].ask /\ x.todo = req[q].todo /\ x.lost = req[q].lost
  BY <1>1 DEF Request
<1> HIDE DEF x
<1>4. req[q].todo = DOMAIN req[q].ask
  BY <1>1 DEF RequestOK
<1>5. RequestOK(q)'
  BY <1>1, <1>2, <1>3, <1>4 DEF RequestOK, Written, docs
<1> QED
  BY <1>2, <1>3, <1>5, QuietStep

LEMMA AnsweredOnly ==
  ASSUME ItemsInv, NEW q \in Requests, Answer(q), UNCHANGED <<clients, docs, server>>, History,
         CategorizationInv'
  PROVE  ItemsInv'
  BY QuietStep

LEMMA EnsureRoomMembershipKept ==
  ASSUME ItemsInv, NEW q \in Requests, EnsureRoomMembership(q), History, UNCHANGED clients
  PROVE  ItemsInv'
<1>1. UNCHANGED <<clients, docs, server>> /\ CategorizationInv' /\ req[q].step = "room"
  BY CategorizationSame DEF EnsureRoomMembership, ItemsInv, category_vars
<1>2. req[q].op # "settings"
  BY <1>1 DEF ItemsInv, RequestsOK, RequestOK
<1> QED
  BY <1>1, <1>2, GoToKept, AnsweredOnly DEF EnsureRoomMembership

LEMMA FindKept ==
  ASSUME ItemsInv, NEW q \in Requests, Find(q), History, UNCHANGED clients
  PROVE  ItemsInv'
<1>1. req[q].step = "find" /\ UNCHANGED <<clients, docs>>
  BY DEF Find
<1>2. RequestOK(q) /\ req[q].op \in Ops /\ req[q].op # "settings" /\ server # "down"
  BY <1>1 DEF ItemsInv, RequestsOK, RequestOK
<1>3. CASE Found(q)
  <2> DEFINE step == FirstStep(q)
  <2>1. /\ step \in {"categorize", "put", "write", "archive", "remove"}
        /\ step \in {"categorize", "put"} => req[q].op = "createItem"
        /\ step = "archive" => req[q].op = "archive"
        /\ step = "remove" => req[q].op = "deleteItem"
        /\ step = "write" => req[q].op \in {"updateItem", "updateList"}
    BY <1>2 DEF FirstStep, Ops
  <2>2. GoTo(q, step)
    BY <1>3 DEF Find
  <2>3. CASE step = "categorize"
    <3>1. Categorize(q, req[q].ask.description)
      BY <1>3, <2>3 DEF Find
    <3>2. req[q].ask.description \in Descriptions
      BY <1>1, <1>2, <2>1, <2>3, ItemsAssumption DEF ItemsInv, TypeOK, RequestOK
    <3>3. CategorizationInv' /\ server' = server
      BY <1>2, <3>1, <3>2, CategorizeKept DEF ItemsInv, Categorize
    <3> QED
      BY <1>1, <1>2, <2>1, <2>2, <3>3, GoToKept
  <2>4. CASE step # "categorize"
    <3>1. CategorizationInv' /\ server' = server
      BY <1>3, <2>4, CategorizationSame DEF Find, ItemsInv, category_vars
    <3> QED
      BY <1>1, <1>2, <2>1, <2>2, <3>1, GoToKept
  <2> QED
    BY <2>3, <2>4
<1>4. CASE ~Found(q)
  BY <1>1, <1>4, AnsweredOnly, CategorizationSame DEF Find, ItemsInv, category_vars
<1> QED
  BY <1>3, <1>4

LEMMA RefuseFieldKept ==
  ASSUME ItemsInv, NEW q \in Requests, RefuseField(q) \/ Reread(q), History, UNCHANGED clients
  PROVE  ItemsInv'
  BY AnsweredOnly, CategorizationSame DEF RefuseField, Reread, ItemsInv, category_vars

LEMMA FailKept ==
  ASSUME ItemsInv, NEW q \in Requests, Fail(q), History, UNCHANGED clients
  PROVE  ItemsInv'
  BY AnsweredOnly, QueryEnds DEF Fail, ItemsInv, rest

LEMMA CategorizationKept ==
  ASSUME ItemsInv, NEW q \in Requests, CategorizationStep(q), UNCHANGED <<docs, req>>, History,
         UNCHANGED clients
  PROVE  ItemsInv'
<1>1. CategorizationInv' /\ server' = server
  BY CategorizationStepKept
  DEF ItemsInv, CategorizationStep, Lookup, LookupFails, Embed, EmbedFails, Upsert, UpsertFails
<1> QED
  BY <1>1, QuietStep

LEMMA PutItemKept ==
  ASSUME ItemsInv, NEW q \in Requests, NEW i \in Items, PutItem(q, i), History, UNCHANGED clients
  PROVE  ItemsInv'
<1> DEFINE cat == IF At(q, "put") THEN req[q].ask.category ELSE query[q].cat
           v == [NewItem EXCEPT !.description = req[q].ask.description, !.category = cat]
<1>1. /\ item[i] = "unused" /\ item' = [item EXCEPT ![i] = "there"]
      /\ itemList' = [itemList EXCEPT ![i] = req[q].doc]
      /\ content' = [content EXCEPT ![i] = v]
      /\ Answer(q) /\ query' = [query EXCEPT ![q] = NoQuery]
      /\ UNCHANGED <<clients, members, list, archived, rest, answers>>
      /\ req[q].step \in {"put", "categorize"}
  BY DEF PutItem, rest
<1>2. req[q].doc \in Lists
  BY <1>1 DEF ItemsInv, RequestsOK, RequestOK
<1>3. DocsOK
  BY TypeParts DEF ItemsInv
<1>4. v = [f \in FieldsOf(i) |-> v[f]]
  BY DEF NewItem, FieldsOf
<1> HIDE DEF v
<1>5. /\ content' = [d \in AllDocs |-> [f \in FieldsOf(d) |-> content'[d][f]]]
      /\ \A d \in AllDocs : d # i => content'[d] = content[d]
  BY <1>1, <1>3, <1>4, SetContent DEF DocsOK
<1>6. DocsOK'
  BY <1>1, <1>2, <1>3, <1>5, ItemsAssumption DEF DocsOK
<1>7. DocsStep /\ DocsKeep
  BY <1>1, <1>3, <1>5, ItemsAssumption DEF DocsStep, DocsKeep, DocsOK
<1>8. CategorizationInv'
  BY <1>1, QueryEnds DEF ItemsInv
<1>9. RequestsOK' /\ req' \in [Requests -> Request' \cup {NoRequest}]
  BY <1>1, <1>7, AnswerKept DEF rest
<1> QED
  BY <1>1, <1>6, <1>7, <1>8, <1>9, Assemble

LEMMA RemoveItemKept ==
  ASSUME ItemsInv, NEW q \in Requests, RemoveItem(q), History, UNCHANGED clients
  PROVE  ItemsInv'
<1> DEFINE i == req[q].doc
<1>1. /\ item' = [item EXCEPT ![i] = "deleted"]
      /\ itemList' = [itemList EXCEPT ![i] = NoDoc]
      /\ archived' = archived \ {i}
      /\ content' = [content EXCEPT ![i] = NewItem]
      /\ Answer(q) /\ UNCHANGED <<clients, members, list, category_vars>>
      /\ req[q].step = "remove"
  BY DEF RemoveItem
<1>2. i \in Items
  BY <1>1 DEF ItemsInv, RequestsOK, RequestOK
<1>3. DocsOK
  BY TypeParts DEF ItemsInv
<1>4. NewItem = [f \in FieldsOf(i) |-> NewItem[f]]
  BY <1>2 DEF NewItem, FieldsOf
<1>5. /\ content' = [d \in AllDocs |-> [f \in FieldsOf(d) |-> content'[d][f]]]
      /\ content'[i] = NewItem
      /\ \A d \in AllDocs : d # i => content'[d] = content[d]
  BY <1>1, <1>2, <1>3, <1>4, SetContent DEF DocsOK
<1>6. DocsOK'
  BY <1>1, <1>2, <1>3, <1>5, ItemsAssumption DEF DocsOK
<1>7. DocsStep /\ DocsKeep
  BY <1>1, <1>2, <1>3, <1>5, ItemsAssumption DEF DocsStep, DocsKeep, DocsOK
<1>8. CategorizationInv' /\ server' = server
  BY <1>1, CategorizationSame DEF ItemsInv, category_vars
<1>9. RequestsOK' /\ req' \in [Requests -> Request' \cup {NoRequest}]
  BY <1>1, <1>7, <1>8, AnswerKept
<1> QED
  BY <1>1, <1>6, <1>7, <1>8, <1>9, Assemble

LEMMA ArchiveKept ==
  ASSUME ItemsInv, NEW q \in Requests, NEW i \in Items, ArchiveCompletedByList(q, i), History,
         UNCHANGED clients
  PROVE  ItemsInv'
<1> DEFINE x == [req[q] EXCEPT !.unseen = @ \ {i}]
<1>1. /\ archived' = IF There(i) /\ itemList[i] = req[q].doc /\ content[i].completed
                      THEN archived \cup {i} ELSE archived
      /\ UNCHANGED <<clients, members, list, item, itemList, content, category_vars>>
      /\ req[q].step = "archive"
  BY DEF ArchiveCompletedByList
<1>2. DocsOK'
  BY <1>1, TypeParts DEF ItemsInv, DocsOK
<1>3. DocsStep /\ DocsKeep
  BY <1>1 DEF DocsStep, DocsKeep
<1>4. CategorizationInv' /\ server' = server
  BY <1>1, CategorizationSame DEF ItemsInv, category_vars
<1>5. RequestsOK' /\ req' \in [Requests -> Request' \cup {NoRequest}]
  <2>1. CASE Answer(q)
    BY <1>3, <1>4, <2>1, AnswerKept
  <2>2. CASE ~Answer(q)
    <3>1. req[q] \in Request /\ RequestOK(q)
      BY <1>1, RequestShape DEF ItemsInv, RequestsOK
    <3>2. req' = [req EXCEPT ![q] = x] /\ req'[q] = x
      BY <2>2 DEF ArchiveCompletedByList, ItemsInv, TypeOK
    <3>3. /\ x \in Request /\ x.step = "archive" /\ x.op = req[q].op /\ x.doc = req[q].doc
          /\ x.ask = req[q].ask /\ x.todo = req[q].todo
      BY <1>1, <3>1 DEF Request
    <3> HIDE DEF x
    <3>4. RequestOK(q)'
      BY <1>1, <1>4, <3>1, <3>2, <3>3 DEF RequestOK
    <3> QED
      BY <1>3, <1>4, <3>2, <3>3, <3>4, SetRequestKept
  <2> QED
    BY <2>1, <2>2
<1>6. \A j \in archived' \ archived : content[j].completed /\ content'[j] = content[j]
  BY <1>1
<1> QED
  BY <1>2, <1>3, <1>4, <1>5, <1>6, Assemble

LEMMA EndListKept ==
  ASSUME ItemsInv, NEW l \in Lists, EndList(l), History, UNCHANGED clients
  PROVE  ItemsInv'
<1>1. UNCHANGED <<clients, members, item, itemList, archived, req, category_vars>>
  BY DEF EndList
<1>2. DocsOK
  BY TypeParts DEF ItemsInv
<1>3. DocsOK' /\ DocsStep /\ DocsKeep
  <2>1. CASE list[l] = "live" /\ list' = [list EXCEPT ![l] = "deleted"] /\ UNCHANGED content
    BY <1>1, <1>2, <2>1 DEF DocsOK, DocsStep, DocsKeep
  <2>2. CASE /\ Exists(l) /\ list' = [list EXCEPT ![l] = "removed"]
             /\ content' = [content EXCEPT ![l] = NewList]
    <3>1. NewList = [f \in FieldsOf(l) |-> NewList[f]]
      BY ItemsAssumption DEF NewList, FieldsOf
    <3>2. /\ content' = [d \in AllDocs |-> [f \in FieldsOf(d) |-> content'[d][f]]]
          /\ content'[l] = NewList
          /\ \A d \in AllDocs : d # l => content'[d] = content[d]
      BY <1>2, <2>2, <3>1, SetContent DEF DocsOK
    <3> QED
      BY <1>1, <1>2, <2>2, <3>2, ItemsAssumption DEF DocsOK, DocsStep, DocsKeep
  <2> QED
    BY <2>1, <2>2 DEF EndList
<1>4. CategorizationInv' /\ server' = server
  BY <1>1, CategorizationSame DEF ItemsInv, category_vars
<1>5. RequestsOK' /\ req' \in [Requests -> Request' \cup {NoRequest}]
  BY <1>1, <1>3, <1>4, RequestsKept
<1> QED
  BY <1>1, <1>3, <1>4, <1>5, Assemble

LEMMA EndMembershipKept ==
  ASSUME ItemsInv, NEW u \in Users, EndMembership(u), History, UNCHANGED clients
  PROVE  ItemsInv'
<1>1. /\ UNCHANGED <<clients, list, item, itemList, archived, req, category_vars>>
      /\ members' = members \ {u}
  BY DEF EndMembership
<1>2. DocsOK
  BY TypeParts DEF ItemsInv
<1>3. DocsOK' /\ DocsStep /\ DocsKeep
  <2>1. CASE members' # {} /\ content' = content
    BY <1>1, <1>2, <2>1 DEF DocsOK, DocsStep, DocsKeep
  <2>2. CASE members' = {} /\ content' = [content EXCEPT ![Room] = NewRoom]
    <3>1. NewRoom = [f \in FieldsOf(Room) |-> NewRoom[f]]
      BY ItemsAssumption DEF NewRoom, FieldsOf
    <3>2. /\ content' = [d \in AllDocs |-> [f \in FieldsOf(d) |-> content'[d][f]]]
          /\ content'[Room] = NewRoom
          /\ \A d \in AllDocs : d # Room => content'[d] = content[d]
      BY <1>2, <2>2, <3>1, SetContent DEF DocsOK
    <3> QED
      BY <1>1, <1>2, <2>2, <3>2, ItemsAssumption DEF DocsOK, DocsStep, DocsKeep
  <2> QED
    BY <2>1, <2>2 DEF EndMembership
<1>4. CategorizationInv' /\ server' = server
  BY <1>1, CategorizationSame DEF ItemsInv, category_vars
<1>5. RequestsOK' /\ req' \in [Requests -> Request' \cup {NoRequest}]
  BY <1>1, <1>3, <1>4, RequestsKept
<1> QED
  BY <1>1, <1>3, <1>4, <1>5, Assemble

LEMMA DeployKept ==
  ASSUME ItemsInv, Deploy, History, UNCHANGED clients
  PROVE  ItemsInv'
<1>1. UNCHANGED docs
  BY DEF Deploy
<1>2. ASSUME NEW v \in Releases, NEW indexed \in BOOLEAN, NEW embedder \in BOOLEAN,
             NEW stored \in SUBSET Descriptions, Start(v, indexed, embedder, stored), req' = req
      PROVE  ItemsInv'
  BY <1>1, <1>2, StartKept, QuietStep DEF ItemsInv, Start
<1>3. CASE Stop /\ req' = [q \in Requests |-> NoRequest]
  <2>1. CategorizationInv'
    BY <1>3, StopKept DEF ItemsInv
  <2>2. DocsStep /\ DocsOK' /\ archived' = archived
    BY <1>1, SameDocs, SameDocsOK DEF docs
  <2>3. RequestsOK' /\ req' \in [Requests -> Request' \cup {NoRequest}]
    BY <1>3 DEF RequestsOK, RequestOK, NoRequest
  <2> QED
    BY <2>1, <2>2, <2>3, Assemble
<1> QED
  BY <1>2, <1>3 DEF Deploy

\* The value of one field of one document is written, if the filter of the update
\* still matches it; the other fields, and the other documents, are left alone.
LEMMA WriteFieldContent ==
  ASSUME ItemsInv, NEW q \in Requests, WriteField(q)
  PROVE  LET d == req[q].doc
             f == NextField(q)
         IN  /\ DocsOK'
             /\ Matches(q) => content'[d][f] = req[q].ask[f]
             /\ \A g \in FieldsOf(d) \ {f} : content'[d][g] = content[d][g]
             /\ \A e \in AllDocs \ {d} : content'[e] = content[e]
<1> DEFINE d == req[q].doc
           f == NextField(q)
           v == [content[d] EXCEPT ![f] = req[q].ask[f]]
<1>1. /\ req[q].step = "write" /\ req[q].todo # {} /\ d \in AllDocs
      /\ UNCHANGED <<members, list, item, itemList, archived>>
      /\ content' = IF Matches(q) THEN [content EXCEPT ![d] = v] ELSE content
  BY RequestShape DEF WriteField, ItemsInv
<1>2. DocsOK
  BY TypeParts DEF ItemsInv
<1>3. f \in FieldsOf(d)
  BY <1>1, NextFieldToDo
<1>4. content[d] = [g \in FieldsOf(d) |-> content[d][g]]
  BY <1>1, <1>2 DEF DocsOK
<1> HIDE DEF f
<1>5. /\ v = [g \in FieldsOf(d) |-> v[g]]
      /\ v[f] = req[q].ask[f]
      /\ \A g \in FieldsOf(d) \ {f} : v[g] = content[d][g]
  BY <1>3, <1>4
<1> HIDE DEF v
<1>6. CASE Matches(q)
  <2>1. /\ content' = [e \in AllDocs |-> [g \in FieldsOf(e) |-> content'[e][g]]]
        /\ content'[d] = v
        /\ \A e \in AllDocs : e # d => content'[e] = content[e]
    BY <1>1, <1>2, <1>5, <1>6, SetContent DEF DocsOK
  <2>2. /\ d \in Items => There(d)
        /\ d \in Lists => Exists(d)
        /\ d = Room => members # {}
    <3>1. RequestOK(q) /\ req[q].op \in {"updateItem", "updateList", "settings"}
      BY <1>1 DEF ItemsInv, RequestsOK, RequestOK
    <3> QED
      BY <1>1, <1>6, <3>1, ItemsAssumption DEF Matches, RequestOK
  <2>3. DocsOK'
    BY <1>1, <1>2, <2>1, <2>2, ItemsAssumption DEF DocsOK
  <2> QED
    BY <1>5, <2>1, <2>3 DEF f
<1>7. CASE ~Matches(q)
  <2>1. DocsOK'
    BY <1>1, <1>2, <1>7 DEF DocsOK
  <2> QED
    BY <1>1, <1>7, <2>1 DEF f
<1> QED
  BY <1>6, <1>7

LEMMA WriteFieldKept ==
  ASSUME ItemsInv, NEW q \in Requests, WriteField(q), History, UNCHANGED clients
  PROVE  ItemsInv'
<1> DEFINE d == req[q].doc
           f == NextField(q)
<1>1. /\ req[q].step = "write" /\ req[q].todo # {} /\ req[q] \in Request
      /\ UNCHANGED <<clients, members, list, item, itemList, archived, category_vars>>
      /\ d \in AllDocs /\ RequestOK(q) /\ req[q].lost \in SUBSET FieldNames
  BY RequestShape DEF WriteField, ItemsInv, RequestsOK
<1>2. /\ f \in req[q].todo /\ f \in DOMAIN req[q].ask /\ f \in FieldNames
      /\ req[q].op = "updateList" /\ "name" \in req[q].todo => f = "name"
      /\ DOMAIN req[q].ask \subseteq FieldsOf(d)
  BY <1>1, NextFieldToDo, AsksFit, RequestShape DEF ItemsInv
<1>3. /\ DocsOK'
      /\ Matches(q) => content'[d][f] = req[q].ask[f]
      /\ \A g \in FieldsOf(d) \ {f} : content'[d][g] = content[d][g]
      /\ \A e \in AllDocs \ {d} : content'[e] = content[e]
  BY WriteFieldContent
<1> DEFINE written == [req[q] EXCEPT !.todo = @ \ {f},
                                     !.lost = IF Ended(q) THEN @ \cup {f} ELSE @]
           overwritten(p) == f \in DOMAIN req[p].ask /\ f \notin req[p].todo
           touched(p) == [req[p] EXCEPT !.lost = IF overwritten(p) THEN @ \cup {f} ELSE @]
<1>4. /\ req' = [p \in Requests |-> req'[p]]
      /\ req'[q] = written
      /\ \A p \in Requests \ {q} :
           req'[p] = IF req[p].step # "idle" /\ req[p].doc = d THEN touched(p) ELSE req[p]
  BY DEF WriteField
<1> HIDE DEF f
<1>5. /\ written \in Request /\ written.todo = req[q].todo \ {f}
      /\ (~Ended(q) => written.lost = req[q].lost) /\ (Ended(q) => written.lost = req[q].lost \cup {f})
      /\ written.op = req[q].op /\ written.doc = d /\ written.ask = req[q].ask
      /\ written.step = "write" /\ written.user = req[q].user
  BY <1>1, <1>2 DEF Request
<1>6. \A p \in Requests : req[p] \in Request =>
        /\ touched(p) \in Request /\ req[p].lost \subseteq touched(p).lost
        /\ overwritten(p) => f \in touched(p).lost
        /\ touched(p).op = req[p].op /\ touched(p).doc = req[p].doc
        /\ touched(p).ask = req[p].ask /\ touched(p).todo = req[p].todo
        /\ touched(p).step = req[p].step /\ touched(p).user = req[p].user
  BY <1>2 DEF Request
<1> HIDE DEF written, touched
<1>7. RequestOK(q)'
  <2>1. Written(q)'
    <3> SUFFICES ASSUME StillThere(q)', NEW g \in DOMAIN req[q].ask,
                        g \notin written.todo, g \notin written.lost
                 PROVE  content'[d][g] = req[q].ask[g]
      BY <1>4, <1>5 DEF Written
    <3>1. StillThere(q)
      BY <1>1, <1>4, <1>5 DEF StillThere
    <3>2. CASE g = f
      <4>1. ~Ended(q)
        BY <1>5, <3>2
      <4>2. Matches(q)
        BY <1>1, <3>1, <4>1, ItemsAssumption DEF Ended, Matches, StillThere, RequestOK
      <4> QED
        BY <1>3, <3>2, <4>2
    <3>3. CASE g # f
      <4>1. content[d][g] = req[q].ask[g]
        BY <1>1, <1>5, <3>1, <3>3 DEF RequestOK, Written
      <4> QED
        BY <1>2, <1>3, <3>3, <4>1
    <3> QED
      BY <3>2, <3>3
  <2>2. server' = server /\ item' = item /\ clients' = clients
    BY <1>1 DEF category_vars
  <2> QED
    BY <1>1, <1>2, <1>4, <1>5, <2>1, <2>2 DEF RequestOK
<1>8. ASSUME NEW p \in Requests \ {q}, req[p].step # "idle" PROVE RequestOK(p)'
  <2>1. req[p] \in Request /\ RequestOK(p) /\ req[p].doc \in AllDocs
    BY <1>8, RequestShape DEF ItemsInv, RequestsOK
  <2>2. /\ req'[p].op = req[p].op /\ req'[p].doc = req[p].doc
        /\ req'[p].ask = req[p].ask /\ req'[p].todo = req[p].todo
        /\ req'[p].step = req[p].step /\ req'[p].user = req[p].user
        /\ req[p].lost \subseteq req'[p].lost
        /\ req[p].doc = d /\ overwritten(p) => f \in req'[p].lost
    BY <1>4, <1>6, <1>8, <2>1
  <2>3. ASSUME req[p].step = "write" PROVE Written(p)'
    <3> SUFFICES ASSUME StillThere(p)', NEW g \in DOMAIN req[p].ask,
                        g \notin req'[p].todo, g \notin req'[p].lost
                 PROVE  content'[req[p].doc][g] = req[p].ask[g]
      BY <2>2 DEF Written
    <3>1. StillThere(p)
      BY <1>1, <2>2 DEF StillThere
    <3>2. content[req[p].doc][g] = req[p].ask[g]
      BY <2>1, <2>2, <2>3, <3>1 DEF RequestOK, Written
    <3>3. CASE req[p].doc = d
      <4>1. g # f
        BY <2>2, <3>3
      <4>2. g \in FieldsOf(d)
        BY <2>3, <3>3, AsksFit
      <4> QED
        BY <1>3, <3>2, <3>3, <4>1, <4>2
    <3>4. CASE req[p].doc # d
      BY <1>3, <2>1, <3>2, <3>4
    <3> QED
      BY <3>3, <3>4
  <2>4. server' = server /\ item' = item /\ clients' = clients
    BY <1>1 DEF category_vars
  <2> QED
    BY <2>1, <2>2, <2>3, <2>4 DEF RequestOK
<1>9. RequestsOK'
  <2>1. ASSUME NEW p \in Requests \ {q}, req[p].step = "idle" PROVE RequestOK(p)'
    <3>1. req'[p] = req[p]
      BY <1>4, <2>1
    <3> QED
      BY <2>1, <3>1 DEF RequestOK
  <2> QED
    BY <1>7, <1>8, <2>1 DEF RequestsOK
<1>10. req' \in [Requests -> Request' \cup {NoRequest}]
  <2>1. Request' = Request
    BY <1>1 DEF Request
  <2>2. ASSUME NEW p \in Requests PROVE req'[p] \in Request \cup {NoRequest}
    BY <1>4, <1>5, <1>6, RequestShape DEF ItemsInv, TypeOK
  <2> QED
    BY <1>4, <2>1, <2>2
<1>11. DocsStep /\ CategorizationInv' /\ archived' = archived
  BY <1>1, CategorizationSame DEF DocsStep, ItemsInv
<1> QED
  BY <1>3, <1>9, <1>10, <1>11, Assemble

LEMMA NextInv == ItemsInv /\ [Next]_vars => ItemsInv'
<1> SUFFICES ASSUME ItemsInv, [Next]_vars PROVE ItemsInv'
  OBVIOUS
<1>1. CASE UNCHANGED vars
  <2>1. UNCHANGED <<clients, docs, req, reopened, category_vars>>
    BY <1>1 DEF vars, item_vars
  <2>2. CategorizationInv' /\ DocsOK' /\ DocsStep /\ DocsKeep /\ server' = server
    BY <2>1, CategorizationSame, SameDocs, SameDocsOK DEF ItemsInv, category_vars
  <2>3. RequestsOK' /\ req' \in [Requests -> Request' \cup {NoRequest}]
    BY <2>1, <2>2, RequestsKept
  <2>4. CategorizationTypeOK'
    BY <2>2 DEF CategorizationInv
  <2> QED
    BY <2>1, <2>2, <2>3, <2>4 DEF ItemsInv, TypeOK, DocsOK, HiddenItemsTicked, docs
<1>2. CASE Next
  <2>1. History /\ UNCHANGED clients
    BY <1>2 DEF Next
  <2>2. CASE \E q \in Requests, u \in Users, op \in Ops :
               \E d \in Docs(op), ask \in clients.asks[op] : Begin(q, u, op, d, ask)
    BY <2>1, <2>2, BeginKept
  <2>3. ASSUME NEW q \in Requests, Step(q) PROVE ItemsInv'
    BY <2>1, <2>3, EnsureRoomMembershipKept, FindKept, PutItemKept, RemoveItemKept, ArchiveKept,
       RefuseFieldKept, WriteFieldKept DEF Step
  <2>4. ASSUME NEW q \in Requests, Fail(q) PROVE ItemsInv'
    BY <2>1, <2>4, FailKept
  <2>5. CASE \E q \in Requests : CategorizationStep(q) /\ UNCHANGED <<docs, req>>
    BY <2>1, <2>5, CategorizationKept
  <2>6. CASE \E l \in Lists : EndList(l)
    BY <2>1, <2>6, EndListKept
  <2>7. CASE \E u \in Users : EndMembership(u)
    BY <2>1, <2>7, EndMembershipKept
  <2>8. CASE Deploy
    BY <2>1, <2>8, DeployKept
  <2> QED
    BY <1>2, <2>2, <2>3, <2>4, <2>5, <2>6, <2>7, <2>8 DEF Next
<1> QED
  BY <1>1, <1>2

LEMMA Invariance == Spec => []ItemsInv
  BY InitInv, NextInv, PTL DEF Spec

----------------------------------------------------------------------------
\* What the invariant says.

\* Documents, requests, categorizations and the index keep their shape: no item
\* that is not there is archived, no document that is gone keeps fields.
THEOREM TypeCorrect == Spec => []TypeOK
<1>1. ItemsInv => TypeOK
  BY DEF ItemsInv
<1> QED
  BY Invariance, <1>1, PTL

\* After the seeding of a start has succeeded, each anchor of the release that
\* runs has its own category in the index, until a look-up fails.
THEOREM AnchorsStayInForce == Spec => []AnchorsInForce
<1>1. ItemsInv => AnchorsInForce
  BY DEF ItemsInv, CategorizationInv
<1> QED
  BY Invariance, <1>1, PTL

\* The index remembers anchors and votes of the nearest anchors, of releases
\* that have run, and no fallback.
THEOREM EntriesStayExplained == Spec => []EntriesExplained
<1>1. ItemsInv => EntriesExplained
  BY DEF ItemsInv, CategorizationInv
<1> QED
  BY Invariance, <1>1, PTL

\* Requests that no failing call disturbs get one answer for one description
\* from one run of the server, hits, misses and those that overlap alike.
THEOREM OneAnswerInARun == Spec => []OneAnswerPerRun
<1>1. ItemsInv => OneAnswerPerRun
  BY OneAnswer DEF ItemsInv
<1> QED
  BY Invariance, <1>1, PTL

\* An edit that is answered has had its way, but for fields that others have
\* written since and for a list or a membership that ended under it.
THEOREM AcknowledgedStays == Spec => []AcknowledgedHolds
<1>1. ItemsInv => AcknowledgedHolds
  BY DEF ItemsInv, RequestsOK, RequestOK, Written, AcknowledgedHolds
<1> QED
  BY Invariance, <1>1, PTL

\* Only the icon and the notes of a list can be refused after something has
\* been written.
THEOREM RefusedInTime == Spec => []LateRefusals
<1>1. ItemsInv => LateRefusals
  <2> SUFFICES ASSUME ItemsInv, NEW q \in Requests, At(q, "write"), req[q].todo # {}, Refuses(q)
               PROVE  req[q].todo = DOMAIN req[q].ask \/ NextField(q) \in {"icon", "notes"}
    BY DEF LateRefusals
  <2>1. RequestOK(q) /\ req[q].op \in {"updateItem", "updateList", "settings"}
    BY DEF ItemsInv, RequestsOK, RequestOK
  <2>2. /\ NextField(q) \in req[q].todo /\ NextField(q) \in DOMAIN req[q].ask
        /\ NextField(q) \in FieldsOf(req[q].doc)
    BY NextFieldToDo
  <2>3. req[q].op = "updateList" /\ req[q].ask[NextField(q)] = Invalid
    BY <2>1, <2>2 DEF Refuses, RequestOK
  <2>4. NextField(q) \in {"name", "description", "icon", "notes"}
    BY <2>1, <2>2, <2>3, FieldSets, ItemsAssumption DEF RequestOK, FieldsOf
  <2>5. NextField(q) # "description"
    BY <2>3 DEF Refuses
  <2> QED
    BY <2>1, <2>2, <2>3, <2>4, <2>5 DEF RequestOK
<1> QED
  BY Invariance, <1>1, PTL

\* What is cleared from a list is ticked, or was un-ticked in the pantry.
THEOREM HiddenStayTicked == Spec => []HiddenItemsTicked
<1>1. ItemsInv => HiddenItemsTicked
  BY DEF ItemsInv
<1> QED
  BY Invariance, <1>1, PTL

\* An item of a live list can be found, on the list or in the pantry, and an open
\* one is in the pantry only because it was un-ticked there.
THEOREM NothingOutOfSight == Spec => []NothingVanishes
<1>1. ItemsInv => NothingVanishes
  BY DEF ItemsInv, HiddenItemsTicked, NothingVanishes, ListItems, GetPantry
<1> QED
  BY Invariance, <1>1, PTL
=============
