----------------------------- MODULE ItemOrder -----------------------------
(***************************************************************************)
(* The display order of the items of one list.  Each item has a float64    *)
(* order; the list is shown by increasing order, equal orders by creation. *)
(* The service keeps the order values so that a move writes one item:      *)
(* halfway between two neighbours, or a step beyond one.  Only when two    *)
(* neighbours are too close are all items renumbered.                      *)
(*                                                                         *)
(* Orders are integers here, on the grid of a small floating-point format: *)
(* below Coarse every integer is representable, from Coarse on only the    *)
(* multiples of Ulp.  Orders start from the clock in nanoseconds, near     *)
(* 1.7e18, where float64 has a spacing of 256, so that the step of 1000    *)
(* becomes four times the spacing.  After a renumbering they are multiples *)
(* of 1000, where the spacing is far below epsilon (1e-7).  Hence          *)
(* Step = 4 * Ulp, Epsilon = 1 and every clock reading is at least Coarse. *)
(* Requests do not overlap in this module.                                 *)
(***************************************************************************)
EXTENDS Integers, FiniteSets

CONSTANTS Items,     \* 1, 2, ...: item ids, in the order of created_at
          Clocks,    \* readings of time.Now().UnixNano()
          Coarse,    \* from here on the spacing of orders is Ulp
          Ulp,
          Step,      \* 1000
          Epsilon,   \* below this a gap is too small to split
          None,      \* no neighbour given, or not found
          Orders     \* bound: the orders the model follows

ASSUME ItemOrderAssumption ==
  /\ Items \subseteq Nat /\ IsFiniteSet(Items) /\ None \notin Items
  /\ Ulp \in Nat \ {0} /\ Coarse \in Nat \ {0} /\ Coarse % Ulp = 0
  /\ Step = 4 * Ulp /\ Epsilon \in Nat \ {0} /\ Epsilon < Step
  /\ Orders \subseteq Int /\ 0 \in Orders
  /\ \A t \in Clocks : t \in Nat /\ t >= Coarse /\ t % Ulp = 0

VARIABLES
  doc,    \* is the item document still to come, there, or deleted
  order   \* its order, 0 when there is no document

vars == <<doc, order>>

There == {i \in Items : doc[i] = "there"}

TypeOK ==
  /\ doc \in [Items -> {"unused", "there", "deleted"}]
  /\ order \in [Items -> Orders]
  /\ \A i \in Items : order[i] >= Coarse => order[i] % Ulp = 0
  /\ \A i \in Items \ There : order[i] = 0

\* Round to the grid; a tie goes to the neighbour with the even multiple.
Round(x) ==
  LET low == x - (x % Ulp)
  IN  IF x < Coarse \/ x = low THEN x
      ELSE IF 2 * (x - low) < Ulp \/ (2 * (x - low) = Ulp /\ (x \div Ulp) % 2 = 0)
             THEN low ELSE low + Ulp

\* ListByList sorts by order, then by created_at.
Before(i, j) == order[i] < order[j] \/ (order[i] = order[j] /\ i < j)
Rank(i) == Cardinality({j \in There : Before(j, i)}) + 1

\* The largest order, or 0 if that is larger.
Top ==
  LET orders == {0} \cup {order[i] : i \in There}
  IN  CHOOSE m \in orders : \A k \in orders : k <= m

\* Variant: every item gets the same new order as the one before it.
Compacted_NoIncrement == [i \in Items |-> IF i \in There THEN Step ELSE 0]

\* Orders after a compaction.
Compacted == [i \in Items |-> IF i \in There THEN Step * Rank(i) ELSE 0]

\* Variant: the whole gap is added.
Midpoint_WholeGap(p, n) == Round(p + (n - p))

Midpoint(p, n) == Round(p + (n - p) \div 2)

----------------------------------------------------------------------------
Init ==
  /\ doc = [i \in Items |-> "unused"]
  /\ order = [i \in Items |-> 0]

InBounds(f) == \A i \in Items : f[i] \in Orders

\* Where CreateItem, and a move without neighbours, put an item.
AppendOrder(now) == IF Top > 0 THEN Round(Top + Step) ELSE now

\* POST .../items: appended.
CreateItem(i, now) ==
  /\ doc[i] = "unused" /\ \A j \in Items : j < i => doc[j] # "unused"
  /\ doc' = [doc EXCEPT ![i] = "there"]
  /\ order' = [order EXCEPT ![i] = AppendOrder(now)]
  /\ InBounds(order')

\* DELETE .../items/{item_id}.
DeleteItem(i) ==
  /\ i \in There
  /\ doc' = [doc EXCEPT ![i] = "deleted"]
  /\ order' = [order EXCEPT ![i] = 0]

\* Variant: a step after the one neighbour, whichever it is.
PlacedBetween_AlwaysAfter(x, p, n, now) ==
  CASE p \in There /\ n \in There /\ order[n] - order[p] > Epsilon ->
         [order EXCEPT ![x] = Midpoint(order[p], order[n])]
    [] p \in There /\ n \in There /\ order[n] - order[p] <= Epsilon ->
         [Compacted EXCEPT ![x] = Midpoint(Compacted[p], Compacted[n])]
    [] p \in There /\ n \notin There -> [order EXCEPT ![x] = Round(order[p] + Step)]
    [] p \notin There /\ n \in There -> [order EXCEPT ![x] = Round(order[n] + Step)]
    [] OTHER -> [order EXCEPT ![x] = AppendOrder(now)]

\* The orders after x is put between p and n; a neighbour that is not one of
\* the list's items counts as not given.
PlacedBetween(x, p, n, now) ==
  CASE p \in There /\ n \in There /\ order[n] - order[p] > Epsilon ->
         [order EXCEPT ![x] = Midpoint(order[p], order[n])]
    [] p \in There /\ n \in There /\ order[n] - order[p] <= Epsilon ->
         [Compacted EXCEPT ![x] = Midpoint(Compacted[p], Compacted[n])]
    [] p \in There /\ n \notin There -> [order EXCEPT ![x] = Round(order[p] + Step)]
    [] p \notin There /\ n \in There -> [order EXCEPT ![x] = Round(order[n] - Step)]
    [] OTHER -> [order EXCEPT ![x] = AppendOrder(now)]

\* PATCH .../items/{item_id}/position.  The client takes p and n from a list
\* without x, so that x, p and n differ; they need not follow each other, as the
\* client does not show every item and may show an old list.
UpdateItemPosition(x, p, n, now) ==
  /\ x \in There
  /\ order' = PlacedBetween(x, p, n, now)
  /\ InBounds(order')
  /\ UNCHANGED doc

Next ==
  \/ \E i \in Items, now \in Clocks : CreateItem(i, now)
  \/ \E i \in Items : DeleteItem(i)
  \/ \E x \in Items, now \in Clocks : \E p, n \in (Items \ {x}) \cup {None} :
       (p = n => p = None) /\ UpdateItemPosition(x, p, n, now)

Spec == Init /\ [][Next]_vars

----------------------------------------------------------------------------
\* Properties.

\* The move of x between p and n, which are shown in that order.
Moves(x, p, n) ==
  /\ Before(p, n)
  /\ \E now \in Clocks : UpdateItemPosition(x, p, n, now)

\* No request changes how the items it is not about follow each other, whether
\* or not it renumbers them.
OthersKeepOrder ==
  [][\E x \in Items : \A i, j \in (There \cap There') \ {x} : Before(i, j) => Before(i, j)']_vars

\* A moved item never ends up beyond one of its neighbours, and it ends up
\* strictly between them as long as orders are below Coarse.
WithinNeighbours ==
  [][\A x \in There : \A p, n \in There \ {x} : Moves(x, p, n) =>
       /\ order'[p] <= order'[x] /\ order'[x] <= order'[n]
       /\ order'[n] < Coarse => order'[p] < order'[x] /\ order'[x] < order'[n]]_vars

\* A new item is shown last; an item moved after the last one is shown last,
\* before the first one is shown first.
EndsAreReached ==
  [][\A x \in There', now \in Clocks :
       /\ CreateItem(x, now) => \A i \in There : Before(i, x)'
       /\ \A p \in There \ {x} :
            (\A i \in There \ {x, p} : Before(i, p)) /\ UpdateItemPosition(x, p, None, now)
              => \A i \in There \ {x} : Before(i, x)'
       /\ \A n \in There \ {x} :
            (\A i \in There \ {x, n} : Before(n, i)) /\ UpdateItemPosition(x, None, n, now)
              => \A i \in There \ {x} : Before(x, i)']_vars

\* list_service.go:396: UpdateItemPosition repositions an item between its
\* neighbours; if the gap is insufficient it compacts orders first.
LandsBetween ==
  [][\A x \in There : \A p, n \in There \ {x} :
       Moves(x, p, n) => Before(p, x)' /\ Before(x, n)']_vars
=============================================================================
