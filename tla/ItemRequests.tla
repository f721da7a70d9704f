---------------------------- MODULE ItemRequests ----------------------------
(***************************************************************************)
(* The requests of ItemOrder as they run on the server: what is written    *)
(* comes from a list read before, and a renumbering is one update for each *)
(* item.  Such requests overlap each other and the whole requests of       *)
(* ItemOrder, and may end between any two calls.                           *)
(***************************************************************************)
EXTENDS ItemOrder, Sequences

CONSTANTS Requests,   \* as many can be in flight at once
          Watched     \* bound: the orders from which on requests overlap

ASSUME ItemRequestsAssumption == Watched \subseteq [Items -> Orders]

VARIABLES
  req,      \* the requests in flight
  touched   \* history: items that others have changed since a request read the list

request_vars == <<vars, req, touched>>

\* todo are the updates still to come, each an item and its order.  As history,
\* shown and read are what ListByList gave, and goal the orders to be reached.
Request == [op: {"create", "move"}, item: Items, prev: Items \cup {None}, next: Items \cup {None},
            step: {"list", "write", "answer"}, todo: Seq(Items \X Orders),
            shown: SUBSET Items, read: [Items -> Orders], goal: [Items -> Orders]]
NoRequest == [step |-> "idle"]

At(q, step) == req[q].step = step

RequestsTypeOK ==
  /\ TypeOK
  /\ req \in [Requests -> Request \cup {NoRequest}]
  /\ touched \in [Requests -> SUBSET Items]
  /\ \A q \in Requests : At(q, "write") <=> (~At(q, "idle") /\ req[q].todo # <<>>)
  /\ \A p, q \in Requests : ~At(p, "idle") /\ ~At(q, "idle") /\ p # q /\ req[p].op = "create"
       /\ req[q].op = "create" => req[p].item # req[q].item

RequestsInit ==
  /\ Init
  /\ req = [q \in Requests |-> NoRequest]
  /\ touched = [q \in Requests |-> {}]

----------------------------------------------------------------------------
\* POST .../items and PATCH .../items/{item_id}/position, call by call.

Begin(q, op, x, p, n) ==
  /\ At(q, "idle") /\ order \in Watched
  /\ req' = [req EXCEPT ![q] = [op |-> op, item |-> x, prev |-> p, next |-> n, step |-> "list",
       todo |-> <<>>, shown |-> {}, read |-> order, goal |-> order]]
  /\ UNCHANGED vars

Arriving == {req[q].item : q \in {p \in Requests : ~At(p, "idle") /\ req[p].op = "create"}}

\* created_at is read here, so that it gives the order in which requests begin,
\* as far as milliseconds tell.
BeginCreate(q, i) ==
  /\ doc[i] = "unused" /\ i \notin Arriving
  /\ \A j \in Items : j < i => doc[j] # "unused" \/ j \in Arriving
  /\ Begin(q, "create", i, None, None)

\* The item is looked up.  The client gives the items between which it was
\* dropped in the list it shows.
BeginMove(q, x, p, n) ==
  /\ x \in There
  /\ {p, n} \subseteq (There \ {x}) \cup {None}
  /\ p # None /\ n # None => Before(p, n)
  /\ \A i \in There \ {x, p, n} : (p # None /\ Before(i, p)) \/ (n # None /\ Before(n, i))
  /\ Begin(q, "move", x, p, n)

\* The items in the order in which ListByList gives them.
Shown == [k \in 1 .. Cardinality(There) |-> CHOOSE i \in There : Rank(i) = k]

\* Variant: renumbered from the last item to the first.
Renumbering_Backwards ==
  LET nth(k) == Cardinality(There) + 1 - k
  IN  [k \in DOMAIN Shown |-> <<Shown[nth(k)], Step * nth(k)>>]

\* Compaction: the items in the order read, each with the next multiple of Step.
Renumbering == [k \in DOMAIN Shown |-> <<Shown[k], Step * k>>]

\* Variant: after a renumbering the neighbours' old orders are used.
Updates_OldNeighbours(x, p, n, now) ==
  IF p \in There /\ n \in There /\ order[n] - order[p] <= Epsilon
    THEN Append(Renumbering, <<x, Midpoint(order[p], order[n])>>)
    ELSE << <<x, PlacedBetween(x, p, n, now)[x]>> >>

\* The updates of a move.  The neighbours' new orders come up on the way.
Updates(x, p, n, now) ==
  IF p \in There /\ n \in There /\ order[n] - order[p] <= Epsilon
    THEN LET new == [k \in DOMAIN Renumbering |-> Renumbering[k][2]]
             at(i) == CHOOSE k \in DOMAIN Renumbering : Renumbering[k][1] = i
         IN  Append(Renumbering, <<x, Midpoint(new[at(p)], new[at(n)])>>)
    ELSE << <<x, PlacedBetween(x, p, n, now)[x]>> >>

\* Variant: a new item is put by the number of items there are.
ListByList_Counting(q, now) ==
  LET x == req[q].item
  IN  /\ At(q, "list")
      /\ req' = [req EXCEPT ![q] = [@ EXCEPT !.step = "write", !.shown = There, !.read = order,
           !.todo = IF req[q].op = "create" THEN << <<x, Step * (Cardinality(There) + 1)>> >>
                    ELSE Updates(x, req[q].prev, req[q].next, now)]]
      /\ UNCHANGED vars

\* ListByList for a request: the list is read and all that is to be written decided.
ListByList(q, now) ==
  LET x == req[q].item
      todo == IF req[q].op = "create" THEN << <<x, AppendOrder(now)>> >>
              ELSE Updates(x, req[q].prev, req[q].next, now)
  IN  /\ At(q, "list")
      /\ \A k \in DOMAIN todo : todo[k][2] \in Orders
      /\ req' = [req EXCEPT ![q] = [@ EXCEPT !.step = "write", !.todo = todo,
           !.shown = There, !.read = order,
           !.goal = IF req[q].op = "create" THEN order
                    ELSE PlacedBetween(x, req[q].prev, req[q].next, now)]]
      /\ UNCHANGED vars

PutItem(q) ==
  /\ At(q, "write") /\ req[q].op = "create"
  /\ doc' = [doc EXCEPT ![req[q].item] = "there"]
  /\ order' = [order EXCEPT ![req[q].item] = Head(req[q].todo)[2]]
  /\ req' = [req EXCEPT ![q] = NoRequest]

\* Variant: an update inserts what it does not find.
UpdateOrder_Upsert(q) ==
  LET i == Head(req[q].todo)[1]
  IN  /\ At(q, "write") /\ req[q].op = "move"
      /\ order' = [order EXCEPT ![i] = Head(req[q].todo)[2]]
      /\ req' = [req EXCEPT ![q] = [@ EXCEPT !.todo = Tail(req[q].todo),
           !.step = IF Len(req[q].todo) = 1 THEN "answer" ELSE "write"]]
      /\ UNCHANGED doc

\* An item deleted since is not found, which is not noticed.
UpdateOrder(q) ==
  LET i == Head(req[q].todo)[1]
  IN  /\ At(q, "write") /\ req[q].op = "move"
      /\ order' = IF i \in There THEN [order EXCEPT ![i] = Head(req[q].todo)[2]] ELSE order
      /\ req' = [req EXCEPT ![q] = [@ EXCEPT !.todo = Tail(req[q].todo),
           !.step = IF Len(req[q].todo) = 1 THEN "answer" ELSE "write"]]
      /\ UNCHANGED doc

\* The item is read for the answer.
Answer(q) ==
  /\ At(q, "answer")
  /\ req' = [req EXCEPT ![q] = NoRequest]
  /\ UNCHANGED vars

\* A call fails, or the client goes away: what was written stays.  An item that
\* was not inserted counts as deleted.
Fail(q) ==
  /\ ~At(q, "idle")
  /\ doc' = IF req[q].op = "create" THEN [doc EXCEPT ![req[q].item] = "deleted"] ELSE doc
  /\ req' = [req EXCEPT ![q] = NoRequest]
  /\ UNCHANGED order

----------------------------------------------------------------------------
Call(q) ==
  \/ \E i \in Items : BeginCreate(q, i)
  \/ \E x \in Items, p, n \in Items \cup {None} : BeginMove(q, x, p, n)
  \/ \E now \in Clocks : ListByList(q, now)
  \/ PutItem(q) \/ UpdateOrder(q) \/ Answer(q) \/ Fail(q)

Changed == {i \in Items : doc'[i] # doc[i] \/ order'[i] # order[i]}

\* Whoever has read the list is told what others change.
History(others) ==
  touched' = [q \in Requests |->
    IF req'[q].step \notin {"write", "answer"} THEN {}
    ELSE IF q \in others THEN touched[q] \cup Changed ELSE touched[q]]

\* Whole requests meet no others, but for deletions, which are one call.
RequestsNext ==
  \/ (\A q \in Requests : At(q, "idle")) /\ Next /\ UNCHANGED <<req, touched>>
  \/ \E i \in Items : DeleteItem(i) /\ UNCHANGED req /\ History(Requests)
  \/ \E q \in Requests : Call(q) /\ History(Requests \ {q})

RequestsSpec == RequestsInit /\ [][RequestsNext]_request_vars

----------------------------------------------------------------------------
\* Properties.

\* A move that is answered has done, call by call, what ItemOrder says it does at
\* once to the list as it was read: with every item that nobody else has changed.
MovesReachTheirGoal ==
  \A q \in Requests : At(q, "answer") =>
    \A i \in req[q].shown \ touched[q] : order[i] = req[q].goal[i]

\* Under a renumbering, and when it ends half-way, the items stay in the order in
\* which they were read, but for those that others change and the moved one, as
\* long as no item had an order below those given out: orders near the clock.
HalfRenumberedInOrder ==
  \A q \in Requests : At(q, "write") =>
    LET shown == req[q].shown \ (touched[q] \cup {req[q].item})
        was == req[q].read
    IN  (\A i \in req[q].shown : was[i] >= Step * Cardinality(req[q].shown)) =>
          \A i, j \in shown :
            was[i] < was[j] \/ (was[i] = was[j] /\ i < j) => Before(i, j)

\* A new item is shown after all that were there when the list was read for it
\* and that nobody has changed since.  Of items inserted meanwhile nothing is said:
\* those that have read the same list get the same order.
NewItemsLast ==
  [][\A q \in Requests, x \in Items : PutItem(q) /\ x = req[q].item =>
       \A i \in req[q].shown \ touched[q] : Before(i, x)']_request_vars
=============================================================================
