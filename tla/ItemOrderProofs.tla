-------------------------- MODULE ItemOrderProofs --------------------------
(***************************************************************************)
(* Proofs about ItemOrder and ItemRequests, for every list of items, every *)
(* floating-point grid, every clock, whatever bounds on the orders and any *)
(* number of requests.                                                     *)
(***************************************************************************)
EXTENDS ItemRequests, FiniteSetTheorems, WellFoundedInduction, TLAPS

----------------------------------------------------------------------------
\* Multiples.

LEMMA DivMod ==
  ASSUME NEW x \in Int, NEW b \in Nat \ {0}
  PROVE  x % b \in 0 .. (b - 1) /\ x \div b \in Int /\ x = b * (x \div b) + (x % b)
  OBVIOUS

LEMMA MulMono ==
  ASSUME NEW k \in Int, NEW l \in Int, NEW b \in Nat \ {0}
  PROVE  b * k <= b * l <=> k <= l
  OBVIOUS

LEMMA ModMul ==
  ASSUME NEW k \in Int, NEW b \in Nat \ {0}
  PROVE  (b * k) % b = 0
  OBVIOUS

\* The difference of two multiples is none or at least one unit.
LEMMA Multiples ==
  ASSUME NEW b \in Nat \ {0}, NEW x \in Int, NEW y \in Int, x % b = 0, y % b = 0
  PROVE  /\ x < y => x + b <= y
         /\ (x + b) % b = 0 /\ (x + 4 * b) % b = 0 /\ (x - 4 * b) % b = 0
<1> DEFINE k == x \div b
           l == y \div b
<1>1. k \in Int /\ l \in Int /\ x = b * k /\ y = b * l
  BY DivMod
<1> HIDE DEF k, l
<1>2. /\ x + b = b * (k + 1) /\ x + 4 * b = b * (k + 4) /\ x - 4 * b = b * (k - 4)
      /\ k + 1 \in Int /\ k + 4 \in Int /\ k - 4 \in Int
  BY <1>1
<1>3. x < y => k + 1 <= l
  BY <1>1, MulMono
<1>4. k + 1 <= l => b * (k + 1) <= b * l
  BY <1>1, <1>2, MulMono
<1> QED
  BY <1>1, <1>2, <1>3, <1>4, ModMul

----------------------------------------------------------------------------
\* The grid of orders.

OnGrid(x) == x >= Coarse => x % Ulp = 0

LEMMA Constants ==
  /\ Ulp \in Nat \ {0} /\ Coarse \in Nat \ {0} /\ Coarse % Ulp = 0
  /\ Step = 4 * Ulp /\ Step \in Nat \ {0} /\ Epsilon \in Nat \ {0} /\ Epsilon < Step
  BY ItemOrderAssumption

\* The multiple below an order is on the grid, and so is the next.
LEMMA LowGrid ==
  ASSUME NEW x \in Int, x >= Coarse
  PROVE  LET low == x - (x % Ulp)
         IN  /\ low \in Int /\ low % Ulp = 0 /\ (low + Ulp) % Ulp = 0
             /\ Coarse <= low /\ low <= x /\ x < low + Ulp
<1> DEFINE k == x \div Ulp
           low == x - (x % Ulp)
<1>1. k \in Int /\ x % Ulp \in 0 .. (Ulp - 1) /\ x = Ulp * k + (x % Ulp)
  BY DivMod, Constants
<1>2. low \in Int /\ low = Ulp * k /\ low <= x /\ x < low + Ulp
  BY <1>1, Constants
<1> HIDE DEF k, low
<1>3. low % Ulp = 0
  BY <1>1, <1>2, ModMul, Constants
<1>4. (low + Ulp) % Ulp = 0 /\ (low < Coarse => low + Ulp <= Coarse)
  <2>1. /\ Ulp \in Nat \ {0} /\ low \in Int /\ Coarse \in Int
        /\ low % Ulp = 0 /\ Coarse % Ulp = 0
    BY <1>2, <1>3, Constants
  <2> QED
    BY ONLY <2>1, Multiples
<1>5. Coarse <= low
  BY <1>2, <1>4, Constants
<1> QED
  BY <1>2, <1>3, <1>4, <1>5 DEF low

\* Rounding leaves the grid alone, ends on the grid, and passes no point of it.
LEMMA RoundGrid ==
  ASSUME NEW x \in Int
  PROVE  /\ Round(x) \in Int /\ OnGrid(Round(x))
         /\ OnGrid(x) => Round(x) = x
         /\ \A g \in Int : OnGrid(g) =>
              (g <= x => g <= Round(x)) /\ (x <= g => Round(x) <= g)
<1> DEFINE low == x - (x % Ulp)
<1>1. CASE x < Coarse
  <2>1. Round(x) = x
    BY <1>1 DEF Round
  <2> QED
    BY <1>1, <2>1, Constants DEF OnGrid
<1>2. CASE x >= Coarse
  <2>1. /\ low \in Int /\ low % Ulp = 0 /\ (low + Ulp) % Ulp = 0
        /\ Coarse <= low /\ low <= x /\ x < low + Ulp
    BY <1>2, LowGrid
  <2>2. Round(x) \in {low, low + Ulp} /\ (x = low => Round(x) = low)
    BY <1>2, Constants DEF Round
  <2>3. OnGrid(x) => x = low
    BY <1>2 DEF OnGrid
  <2> HIDE DEF low
  <2>4. ASSUME NEW g \in Int, OnGrid(g)
        PROVE  (g <= x => g <= low) /\ (x <= g /\ x # low => low + Ulp <= g)
    <3>1. CASE g < Coarse
      BY <1>2, <2>1, <3>1, Constants
    <3>2. CASE g >= Coarse
      <4>1. g % Ulp = 0
        BY <2>4, <3>2 DEF OnGrid
      <4>2. (low < g => low + Ulp <= g)
        BY <2>1, <4>1, Multiples, Constants
      <4> QED
        BY <2>1, <4>2, Constants
    <3> QED
      BY <3>1, <3>2, Constants
  <2> QED
    BY <1>2, <2>1, <2>2, <2>3, <2>4, Constants DEF OnGrid
<1> QED
  BY <1>1, <1>2, Constants

\* A step up or down from a point of the grid arrives somewhere else.
LEMMA StepMoves ==
  ASSUME NEW x \in Int, OnGrid(x)
  PROVE  x < Round(x + Step) /\ Round(x - Step) < x
<1>1. x + Step \in Int /\ x - Step \in Int /\ x < x + Step /\ x - Step < x
  BY Constants
<1>2. Coarse \in Int /\ OnGrid(Coarse)
  BY Constants DEF OnGrid
<1>3. CASE x >= Coarse
  <2>1. OnGrid(x + Step) /\ OnGrid(x - Step)
    <3>1. Ulp \in Nat \ {0} /\ x % Ulp = 0 /\ Step = 4 * Ulp
      BY <1>3, Constants DEF OnGrid
    <3>2. (x + 4 * Ulp) % Ulp = 0 /\ (x - 4 * Ulp) % Ulp = 0
      BY ONLY <3>1, x \in Int, Multiples
    <3> QED
      BY <3>1, <3>2 DEF OnGrid
  <2> QED
    BY <1>1, <2>1, RoundGrid
<1>4. CASE x < Coarse
  <2>1. OnGrid(x - Step) /\ (x + Step < Coarse => OnGrid(x + Step))
    BY <1>1, <1>2, <1>4 DEF OnGrid
  <2>2. x + Step >= Coarse => Coarse <= Round(x + Step)
    BY <1>1, <1>2, RoundGrid
  <2>3. Round(x + Step) \in Int
    BY <1>1, RoundGrid
  <2> QED
    BY <1>1, <1>2, <1>4, <2>1, <2>2, <2>3, RoundGrid
<1> QED
  BY <1>2, <1>3, <1>4

\* The midpoint of two orders is between them, strictly if the grid is fine there.
LEMMA MidpointBetween ==
  ASSUME NEW p \in Int, NEW n \in Int
  PROVE  /\ Midpoint(p, n) \in Int /\ OnGrid(Midpoint(p, n))
         /\ OnGrid(p) /\ OnGrid(n) /\ p + 1 < n =>
              /\ p <= Midpoint(p, n) /\ Midpoint(p, n) <= n
              /\ n < Coarse => p < Midpoint(p, n) /\ Midpoint(p, n) < n
<1> DEFINE m == p + (n - p) \div 2
<1>1. m \in Int /\ (p + 1 < n => p < m /\ m < n)
  OBVIOUS
<1>2. Midpoint(p, n) = Round(m)
  BY DEF Midpoint
<1> HIDE DEF m
<1>3. Round(m) \in Int /\ OnGrid(Round(m)) /\ (OnGrid(m) => Round(m) = m)
  BY <1>1, RoundGrid
<1>4. p <= m /\ OnGrid(p) => p <= Round(m)
  BY <1>1, RoundGrid
<1>5. m <= n /\ OnGrid(n) => Round(m) <= n
  BY <1>1, RoundGrid
<1>6. m < Coarse => OnGrid(m)
  BY <1>1, Constants DEF OnGrid
<1> QED
  BY <1>1, <1>2, <1>3, <1>4, <1>5, <1>6, Constants

----------------------------------------------------------------------------
\* The list as it is shown.

LEMMA Shape ==
  ASSUME TypeOK
  PROVE  /\ There \in SUBSET Items /\ IsFiniteSet(There) /\ None \notin There
         /\ \A i \in Items : i \in Nat /\ order[i] \in Int /\ OnGrid(order[i])
<1>1. There \in SUBSET Items /\ IsFiniteSet(Items)
  BY ItemOrderAssumption DEF There
<1>2. IsFiniteSet(There)
  BY <1>1, FS_Subset
<1> QED
  BY <1>1, <1>2, ItemOrderAssumption DEF TypeOK, OnGrid

LEMMA Ahead ==
  ASSUME TypeOK, NEW i \in There
  PROVE  LET ahead == {j \in There : Before(j, i)}
         IN  IsFiniteSet(ahead) /\ Cardinality(ahead) \in Nat
<1>1. {j \in There : Before(j, i)} \subseteq There
  OBVIOUS
<1> QED
  BY <1>1, Shape, FS_Subset, FS_CardinalityType

\* Items are ranked as they are shown.
LEMMA RankOrders ==
  ASSUME TypeOK
  PROVE  /\ \A i \in There : Rank(i) \in Nat \ {0}
         /\ \A i, j \in There : Before(i, j) => Rank(i) < Rank(j)
<1>1. ASSUME NEW i \in There PROVE Rank(i) \in Nat \ {0}
  BY Ahead DEF Rank
<1>2. ASSUME NEW i \in There, NEW j \in There, Before(i, j) PROVE Rank(i) < Rank(j)
  <2> DEFINE A == {k \in There : Before(k, i)}
             B == {k \in There : Before(k, j)}
  <2>1. A \subseteq B /\ i \in B /\ i \notin A
    BY <1>2, Shape DEF Before
  <2>2. IsFiniteSet(A) /\ Cardinality(A) \in Nat /\ IsFiniteSet(B) /\ Cardinality(B) \in Nat
    BY Ahead
  <2>3. Rank(i) = Cardinality(A) + 1 /\ Rank(j) = Cardinality(B) + 1
    BY DEF Rank
  <2> HIDE DEF A, B
  <2>4. Cardinality(A) <= Cardinality(B) /\ Cardinality(A) # Cardinality(B)
    BY <2>1, <2>2, FS_Subset
  <2> QED
    BY <2>2, <2>3, <2>4
<1> QED
  BY <1>1, <1>2

\* Each rank is that of one item.
LEMMA RankCounts ==
  ASSUME TypeOK
  PROVE  /\ Cardinality(There) \in Nat
         /\ \A i \in There : Rank(i) \in 1 .. Cardinality(There)
         /\ \A i, j \in There : Rank(i) = Rank(j) => i = j
         /\ \A k \in 1 .. Cardinality(There) : \E i \in There : Rank(i) = k
<1> DEFINE n == Cardinality(There)
           f == [i \in There |-> Rank(i)]
<1>1. n \in Nat /\ IsFiniteSet(There)
  BY Shape, FS_CardinalityType
<1>2. ASSUME NEW i \in There PROVE Rank(i) \in 1 .. n
  <2>1. {j \in There : Before(j, i)} \in SUBSET (There \ {i})
    BY Shape DEF Before
  <2>2. IsFiniteSet(There \ {i}) /\ Cardinality(There \ {i}) = n - 1
    BY <1>1, FS_RemoveElement
  <2>3. Cardinality({j \in There : Before(j, i)}) <= n - 1
    BY <2>1, <2>2, FS_Subset
  <2> QED
    BY <1>1, <2>3, Ahead DEF Rank
<1>3. ASSUME NEW i \in There, NEW j \in There, Rank(i) = Rank(j) PROVE i = j
  <2>1. ~Before(i, j) /\ ~Before(j, i)
    BY <1>3, RankOrders
  <2> QED
    BY <2>1, Shape DEF Before
<1>4. f \in [There -> 1 .. n] /\ \A i, j \in There : f[i] = f[j] => i = j
  BY <1>2, <1>3
<1>5. IsFiniteSet(1 .. n) /\ Cardinality(1 .. n) = n
  BY <1>1, FS_Interval
<1> HIDE DEF f
<1>6. f \in Surjection(There, 1 .. n)
  BY <1>1, <1>4, <1>5, FS_Injection DEF Injection, IsInjective
<1>7. \A k \in 1 .. n : \E i \in There : f[i] = k
  BY <1>6 DEF Surjection
<1> QED
  BY <1>1, <1>2, <1>3, <1>7 DEF f

\* A non-empty set of numbers has a least one.
LEMMA LeastNatural ==
  ASSUME NEW S \in SUBSET Nat, S # {}
  PROVE  \E x \in S : \A y \in S : x <= y
<1>1. \A x, y \in Nat : y < x => <<y, x>> \in OpToRel(<, Nat)
  BY DEF OpToRel
<1>2. ASSUME NEW less, IsWellFoundedOn(less, Nat), \A x, y \in Nat : y < x => <<y, x>> \in less
      PROVE  \E x \in S : \A y \in S : x <= y
  <2>1. PICK x \in S : \A y \in S : ~(<<y, x>> \in less)
    BY <1>2, WFMin
  <2>2. ASSUME NEW y \in S PROVE x <= y
    <3>1. ~(y < x)
      BY <1>2, <2>1
    <3> QED
      BY <3>1
  <2> QED
    BY <2>2
<1> QED
  BY <1>1, <1>2, NatLessThanWellFounded

\* No order is beyond Top, which is on the grid.
LEMMA TopIsTop ==
  ASSUME TypeOK
  PROVE  /\ Top \in Int /\ OnGrid(Top)
         /\ \A i \in There : order[i] <= Top
<1> DEFINE orders == {0} \cup {order[i] : i \in There}
<1>1. \A k \in orders : k \in Int /\ OnGrid(k)
  BY Shape, Constants DEF OnGrid
<1>2. \E m \in orders : \A k \in orders : k <= m
  <2>1. CASE There = {}
    BY <2>1
  <2>2. CASE There # {}
    <3> DEFINE S == {Cardinality(There) + 1 - Rank(i) : i \in There}
    <3>1. ASSUME NEW i \in There PROVE Cardinality(There) + 1 - Rank(i) \in Nat
      <4>1. {j \in There : Before(j, i)} \in SUBSET There
        OBVIOUS
      <4>2. Cardinality({j \in There : Before(j, i)}) <= Cardinality(There)
        BY <4>1, Shape, FS_Subset
      <4>3. Cardinality(There) \in Nat
        BY Shape, FS_CardinalityType
      <4> QED
        BY <4>2, <4>3, Ahead DEF Rank
    <3>2. S \in SUBSET Nat /\ S # {}
      BY <2>2, <3>1
    <3>3. PICK last \in There :
            \A i \in There : Cardinality(There) + 1 - Rank(last) <= Cardinality(There) + 1 - Rank(i)
      <4>1. PICK x \in S : \A y \in S : x <= y
        BY <3>2, LeastNatural
      <4> QED
        BY <4>1
    <3>4. ASSUME NEW i \in There PROVE order[i] <= order[last]
      <4>1. Cardinality(There) \in Nat /\ Rank(i) \in Nat /\ Rank(last) \in Nat
        BY Shape, FS_CardinalityType, RankOrders
      <4>2. ~(Rank(last) < Rank(i))
        BY <3>3, <4>1
      <4>3. ~Before(last, i)
        BY <4>2, RankOrders
      <4> QED
        BY <4>3, Shape DEF Before
    <3> DEFINE m == IF order[last] > 0 THEN order[last] ELSE 0
    <3>5. m \in orders
      OBVIOUS
    <3>6. \A k \in orders : k <= m
      BY <3>4, Shape
    <3> QED
      BY <3>5, <3>6
  <2> QED
    BY <2>1, <2>2
<1>3. Top \in orders /\ \A k \in orders : k <= Top
  BY <1>2 DEF Top
<1> QED
  BY <1>1, <1>3

\* An appended item goes beyond all the others.
LEMMA AppendedLast ==
  ASSUME TypeOK, NEW now \in Clocks
  PROVE  /\ AppendOrder(now) \in Int /\ OnGrid(AppendOrder(now))
         /\ \A i \in There : order[i] < AppendOrder(now)
<1>1. now \in Int /\ now > 0 /\ OnGrid(now)
  BY ItemOrderAssumption DEF OnGrid
<1>2. CASE Top > 0
  <2>1. Top + Step \in Int /\ Top < Round(Top + Step)
    BY TopIsTop, StepMoves, Constants
  <2>2. Round(Top + Step) \in Int /\ OnGrid(Round(Top + Step))
    BY <2>1, RoundGrid
  <2>3. AppendOrder(now) = Round(Top + Step)
    BY <1>2 DEF AppendOrder
  <2> QED
    BY <2>1, <2>2, <2>3, TopIsTop, Shape
<1>3. CASE ~(Top > 0)
  BY <1>1, <1>3, TopIsTop, Shape DEF AppendOrder
<1> QED
  BY <1>2, <1>3

\* A renumbering gives every item a multiple of Step, and keeps the list as it was.
LEMMA CompactedKeepsOrder ==
  ASSUME TypeOK
  PROVE  /\ Compacted = [i \in Items |-> Compacted[i]]
         /\ \A i \in Items : Compacted[i] \in Int /\ OnGrid(Compacted[i])
         /\ \A i \in Items \ There : Compacted[i] = 0
         /\ \A i, j \in There : Before(i, j) => Compacted[i] + Step <= Compacted[j]
<1>1. Compacted = [i \in Items |-> IF i \in There THEN Step * Rank(i) ELSE 0]
  BY DEF Compacted
<1>2. ASSUME NEW i \in There
      PROVE  Compacted[i] \in Int /\ OnGrid(Compacted[i]) /\ Compacted[i] = Step * Rank(i)
  <2>1. Compacted[i] = Step * Rank(i) /\ Rank(i) \in Int
    BY <1>1, RankOrders, Shape
  <2>2. Step * Rank(i) = Ulp * (4 * Rank(i)) /\ 4 * Rank(i) \in Int
    BY <2>1, Constants
  <2>3. (Ulp * (4 * Rank(i))) % Ulp = 0
    BY <2>2, ModMul, Constants
  <2> QED
    BY <2>1, <2>2, <2>3, Constants DEF OnGrid
<1>3. \A i \in Items \ There : Compacted[i] = 0 /\ OnGrid(0)
  BY <1>1, Constants DEF OnGrid
<1>4. ASSUME NEW i \in There, NEW j \in There, Before(i, j)
      PROVE  Compacted[i] + Step <= Compacted[j]
  <2>1. Rank(i) \in Int /\ Rank(j) \in Int /\ Rank(i) + 1 <= Rank(j)
    BY <1>4, RankOrders
  <2>2. Step * (Rank(i) + 1) <= Step * Rank(j)
    BY <2>1, MulMono, Constants
  <2>3. Step * (Rank(i) + 1) = Step * Rank(i) + Step
    BY <2>1, Constants
  <2> QED
    BY <1>2, <2>2, <2>3
<1>5. Compacted = [i \in Items |-> Compacted[i]]
  BY <1>1
<1>6. \A i \in Items : i \in There \/ i \in Items \ There
  OBVIOUS
<1> QED
  BY <1>2, <1>3, <1>4, <1>5, <1>6

----------------------------------------------------------------------------
\* Moves.

\* The neighbours are too close for another item.
TooClose(p, n) == p \in There /\ n \in There /\ order[n] - order[p] <= Epsilon

\* A move gives the moved item some point of the grid.  The other items keep
\* their orders, or all of them are renumbered.
LEMMA Placed ==
  ASSUME TypeOK, NEW x \in Items, NEW now \in Clocks,
         NEW p \in (Items \ {x}) \cup {None}, NEW n \in (Items \ {x}) \cup {None}
  PROVE  \E v \in Int : OnGrid(v) /\
           IF TooClose(p, n)
             THEN /\ PlacedBetween(x, p, n, now) = [Compacted EXCEPT ![x] = v]
                  /\ v = Midpoint(Compacted[p], Compacted[n])
             ELSE PlacedBetween(x, p, n, now) = [order EXCEPT ![x] = v]
<1>1. \A i \in There : i \in Items /\ order[i] \in Int /\ Compacted[i] \in Int
  BY Shape, CompactedKeepsOrder
<1>2. \A k \in Int : Round(k) \in Int /\ OnGrid(Round(k))
  BY RoundGrid
<1>3. \A k, l \in Int : Midpoint(k, l) \in Int /\ OnGrid(Midpoint(k, l))
  BY MidpointBetween
<1>4. CASE p \in There /\ n \in There /\ order[n] - order[p] > Epsilon
  <2>1. ~(order[n] - order[p] <= Epsilon)
    BY <1>1, <1>4, Constants
  <2>2. PlacedBetween(x, p, n, now) = [order EXCEPT ![x] = Midpoint(order[p], order[n])]
    BY <1>4, <2>1 DEF PlacedBetween
  <2>3. Midpoint(order[p], order[n]) \in Int /\ OnGrid(Midpoint(order[p], order[n]))
    BY <1>1, <1>3, <1>4
  <2> QED
    BY <2>1, <2>2, <2>3 DEF TooClose
<1>5. CASE p \in There /\ n \in There /\ ~(order[n] - order[p] > Epsilon)
  <2>1. order[n] - order[p] <= Epsilon
    BY <1>1, <1>5, Constants
  <2>2. PlacedBetween(x, p, n, now)
          = [Compacted EXCEPT ![x] = Midpoint(Compacted[p], Compacted[n])]
    BY <1>5, <2>1 DEF PlacedBetween
  <2> QED
    BY <1>1, <1>3, <1>5, <2>1, <2>2 DEF TooClose
<1>6. CASE p \in There /\ n \notin There
  <2>1. PlacedBetween(x, p, n, now) = [order EXCEPT ![x] = Round(order[p] + Step)]
    BY <1>6 DEF PlacedBetween
  <2>2. order[p] + Step \in Int
    BY <1>1, <1>6, Constants
  <2> QED
    BY <1>2, <1>6, <2>1, <2>2 DEF TooClose
<1>7. CASE p \notin There /\ n \in There
  <2>1. PlacedBetween(x, p, n, now) = [order EXCEPT ![x] = Round(order[n] - Step)]
    BY <1>7 DEF PlacedBetween
  <2>2. order[n] - Step \in Int
    BY <1>1, <1>7, Constants
  <2> QED
    BY <1>2, <1>7, <2>1, <2>2 DEF TooClose
<1>8. CASE p \notin There /\ n \notin There
  <2>1. PlacedBetween(x, p, n, now) = [order EXCEPT ![x] = AppendOrder(now)]
    BY <1>8 DEF PlacedBetween
  <2> QED
    BY <1>8, <2>1, AppendedLast DEF TooClose
<1> QED
  BY <1>4, <1>5, <1>6, <1>7, <1>8

\* What a move does, seen from the items.
LEMMA MoveOrders ==
  ASSUME TypeOK, NEW x \in Items, NEW now \in Clocks,
         NEW p \in (Items \ {x}) \cup {None}, NEW n \in (Items \ {x}) \cup {None},
         UpdateItemPosition(x, p, n, now)
  PROVE  /\ x \in There /\ There' = There /\ doc' = doc
         /\ order' \in [Items -> Orders] /\ order'[x] \in Int /\ OnGrid(order'[x])
         /\ \/ \A i \in Items \ {x} : order'[i] = order[i]
            \/ \A i \in Items \ {x} : order'[i] = Compacted[i]
<1>1. /\ x \in There /\ doc' = doc /\ \A i \in Items : order'[i] \in Orders
      /\ order' = PlacedBetween(x, p, n, now)
  BY DEF UpdateItemPosition, InBounds
<1>2. PICK v \in Int :
        OnGrid(v) /\ order' \in {[order EXCEPT ![x] = v], [Compacted EXCEPT ![x] = v]}
  BY <1>1, Placed
<1>3. order = [i \in Items |-> order[i]] /\ Compacted = [i \in Items |-> Compacted[i]]
  BY CompactedKeepsOrder DEF TypeOK
<1>4. /\ order' = [i \in Items |-> order'[i]] /\ order'[x] = v
      /\ \/ \A i \in Items \ {x} : order'[i] = order[i]
         \/ \A i \in Items \ {x} : order'[i] = Compacted[i]
  <2>1. CASE order' = [order EXCEPT ![x] = v]
    BY <1>3, <2>1
  <2>2. CASE order' = [Compacted EXCEPT ![x] = v]
    BY <1>3, <2>2
  <2> QED
    BY <1>2, <2>1, <2>2
<1>5. order' \in [Items -> Orders]
  BY <1>1, <1>4
<1> QED
  BY <1>1, <1>2, <1>4, <1>5 DEF There

LEMMA InitTyped == Init => TypeOK
<1>1. 0 % Ulp = 0
  BY Constants
<1> QED
  BY <1>1, Constants, ItemOrderAssumption DEF Init, TypeOK, There

LEMMA CreateTyped ==
  ASSUME TypeOK, NEW i \in Items, NEW now \in Clocks, CreateItem(i, now)
  PROVE  /\ TypeOK'
         /\ There' = There \cup {i} /\ i \notin There
         /\ order' = [order EXCEPT ![i] = AppendOrder(now)]
<1>1. /\ doc[i] = "unused" /\ doc' = [doc EXCEPT ![i] = "there"]
      /\ order' = [order EXCEPT ![i] = AppendOrder(now)] /\ \A j \in Items : order'[j] \in Orders
  BY DEF CreateItem, InBounds
<1>2. There' = There \cup {i} /\ i \notin There
  BY <1>1 DEF TypeOK, There
<1>3. order' \in [Items -> Orders] /\ order'[i] = AppendOrder(now)
  BY <1>1 DEF TypeOK
<1>4. \A j \in Items \ {i} : order'[j] = order[j]
  BY <1>1 DEF TypeOK
<1>5. \A j \in Items : order'[j] >= Coarse => order'[j] % Ulp = 0
  BY <1>3, <1>4, AppendedLast DEF TypeOK, OnGrid
<1>6. doc' \in [Items -> {"unused", "there", "deleted"}]
  BY <1>1 DEF TypeOK
<1>7. \A j \in Items \ There' : order'[j] = 0
  BY <1>2, <1>4 DEF TypeOK
<1> QED
  BY <1>1, <1>2, <1>3, <1>5, <1>6, <1>7 DEF TypeOK

LEMMA DeleteTyped ==
  ASSUME TypeOK, NEW i \in Items, DeleteItem(i)
  PROVE  /\ TypeOK' /\ There' = There \ {i}
         /\ \A j \in Items \ {i} : order'[j] = order[j]
<1>1. /\ i \in There /\ doc' = [doc EXCEPT ![i] = "deleted"] /\ order' = [order EXCEPT ![i] = 0]
  BY DEF DeleteItem
<1>2. There' = There \ {i}
  BY <1>1 DEF TypeOK, There
<1>3. /\ order' \in [Items -> Orders] /\ order'[i] = 0
      /\ \A j \in Items \ {i} : order'[j] = order[j]
  BY <1>1, ItemOrderAssumption DEF TypeOK
<1>4. ~(0 >= Coarse)
  BY Constants
<1>5. \A j \in Items : order'[j] >= Coarse => order'[j] % Ulp = 0
  BY <1>3, <1>4 DEF TypeOK
<1>6. doc' \in [Items -> {"unused", "there", "deleted"}]
  BY <1>1 DEF TypeOK
<1>7. \A j \in Items \ There' : order'[j] = 0
  BY <1>2, <1>3 DEF TypeOK
<1> QED
  BY <1>2, <1>3, <1>5, <1>6, <1>7 DEF TypeOK

LEMMA MoveTyped ==
  ASSUME TypeOK, NEW x \in Items, NEW now \in Clocks,
         NEW p \in (Items \ {x}) \cup {None}, NEW n \in (Items \ {x}) \cup {None},
         UpdateItemPosition(x, p, n, now)
  PROVE  TypeOK'
<1>1. /\ x \in There /\ There' = There /\ doc' = doc
      /\ order' \in [Items -> Orders] /\ order'[x] \in Int /\ OnGrid(order'[x])
      /\ \/ \A i \in Items \ {x} : order'[i] = order[i]
         \/ \A i \in Items \ {x} : order'[i] = Compacted[i]
  BY MoveOrders
<1>2. /\ \A i \in Items : OnGrid(order[i]) /\ OnGrid(Compacted[i])
      /\ \A i \in Items \ There : order[i] = 0 /\ Compacted[i] = 0
  BY Shape, CompactedKeepsOrder DEF TypeOK
<1>3. \A i \in Items : OnGrid(order'[i])
  BY <1>1, <1>2
<1>4. \A i \in Items \ There : order'[i] = 0
  BY <1>1, <1>2
<1> QED
  BY <1>1, <1>3, <1>4 DEF TypeOK, OnGrid

LEMMA NextTyped == TypeOK /\ [Next]_vars => TypeOK'
<1> SUFFICES ASSUME TypeOK, [Next]_vars PROVE TypeOK'
  OBVIOUS
<1>1. CASE UNCHANGED vars
  BY <1>1 DEF vars, TypeOK, There
<1>2. CASE Next
  BY <1>2, CreateTyped, DeleteTyped, MoveTyped DEF Next
<1> QED
  BY <1>1, <1>2

\* Orders stay on the grid, within the bound, and belong to items that are there.
THEOREM TypeCorrect == Spec => []TypeOK
  BY InitTyped, NextTyped, PTL DEF Spec

\* Creating, deleting and moving an item, with a renumbering or without, leaves
\* the others as they follow each other.
LEMMA OthersKept ==
  ASSUME TypeOK, Next
  PROVE  \E x \in Items : \A i, j \in (There \cap There') \ {x} : Before(i, j) => Before(i, j)'
<1> DEFINE Kept == \E x \in Items : \A i, j \in (There \cap There') \ {x} :
                     Before(i, j) => Before(i, j)'
<1> SUFFICES Kept
  OBVIOUS
<1>1. ASSUME NEW x \in Items, \A i \in There \ {x} : order'[i] = order[i] PROVE Kept
  BY <1>1 DEF Before
<1>2. ASSUME NEW x \in Items, NEW now \in Clocks, CreateItem(x, now) PROVE Kept
  BY <1>1, <1>2, CreateTyped, Shape DEF TypeOK
<1>3. ASSUME NEW x \in Items, DeleteItem(x) PROVE Kept
  BY <1>1, <1>3, DeleteTyped, Shape
<1>4. ASSUME NEW x \in Items, NEW now \in Clocks,
             NEW p \in (Items \ {x}) \cup {None}, NEW n \in (Items \ {x}) \cup {None},
             UpdateItemPosition(x, p, n, now)
      PROVE  Kept
  <2>1. CASE \A i \in Items \ {x} : order'[i] = order[i]
    BY <1>1, <2>1, Shape
  <2>2. CASE \A i \in Items \ {x} : order'[i] = Compacted[i]
    <3>1. ASSUME NEW i \in There \ {x}, NEW j \in There \ {x}, Before(i, j)
          PROVE  order'[i] < order'[j]
      <4>1. Compacted[i] + Step <= Compacted[j] /\ Compacted[i] \in Int /\ Compacted[j] \in Int
        BY <3>1, CompactedKeepsOrder, Shape
      <4>2. Compacted[i] < Compacted[j]
        BY <4>1, Constants
      <4> QED
        BY <2>2, <4>2, Shape
    <3> QED
      BY <3>1 DEF Before
  <2> QED
    BY <1>4, <2>1, <2>2, MoveOrders
<1> QED
  BY <1>2, <1>3, <1>4 DEF Next

\* No whole request disturbs the items that it is not about.
THEOREM OthersStayInOrder == Spec => OthersKeepOrder
<1> DEFINE Kept == \E x \in Items : \A i, j \in (There \cap There') \ {x} :
                     Before(i, j) => Before(i, j)'
<1>1. TypeOK /\ [Next]_vars => [Kept]_vars
  BY OthersKept
<1> QED
  BY <1>1, TypeCorrect, PTL DEF Spec, OthersKeepOrder

LEMMA BetweenNeighbours ==
  ASSUME TypeOK, NEW x \in There, NEW p \in There \ {x}, NEW n \in There \ {x}, Moves(x, p, n)
  PROVE  /\ order'[p] <= order'[x] /\ order'[x] <= order'[n]
         /\ order'[n] < Coarse => order'[p] < order'[x] /\ order'[x] < order'[n]
<1>1. PICK now \in Clocks : UpdateItemPosition(x, p, n, now)
  BY DEF Moves
<1>2. order' = PlacedBetween(x, p, n, now) /\ Before(p, n)
  BY <1>1 DEF UpdateItemPosition, Moves
<1>3. /\ \A i \in Items : order[i] \in Int /\ Compacted[i] \in Int
      /\ \A i \in Items : OnGrid(order[i]) /\ OnGrid(Compacted[i])
      /\ x \in Items /\ p \in Items /\ n \in Items
  BY Shape, CompactedKeepsOrder
<1>4. ASSUME NEW f \in [Items -> Int], OnGrid(f[p]), OnGrid(f[n]), f[p] + 1 < f[n],
             order' = [f EXCEPT ![x] = Midpoint(f[p], f[n])]
      PROVE  /\ order'[p] <= order'[x] /\ order'[x] <= order'[n]
             /\ order'[n] < Coarse => order'[p] < order'[x] /\ order'[x] < order'[n]
  <2>1. order'[x] = Midpoint(f[p], f[n]) /\ order'[p] = f[p] /\ order'[n] = f[n]
    BY <1>3, <1>4
  <2>2. f[p] \in Int /\ f[n] \in Int
    BY <1>3, <1>4
  <2> QED
    BY <1>4, <2>1, <2>2, MidpointBetween
<1>5. CASE order[n] - order[p] > Epsilon
  <2>1. ~(order[n] - order[p] <= Epsilon) /\ order[p] + 1 < order[n]
    BY <1>3, <1>5, Constants
  <2>2. order' = [order EXCEPT ![x] = Midpoint(order[p], order[n])]
    BY <1>2, <1>5, <2>1 DEF PlacedBetween
  <2>3. order \in [Items -> Int]
    BY <1>3 DEF TypeOK
  <2> QED
    BY <1>3, <1>4, <2>1, <2>2, <2>3
<1>6. CASE ~(order[n] - order[p] > Epsilon)
  <2>1. order[n] - order[p] <= Epsilon
    BY <1>3, <1>6, Constants
  <2>2. order' = [Compacted EXCEPT ![x] = Midpoint(Compacted[p], Compacted[n])]
    BY <1>2, <1>6, <2>1 DEF PlacedBetween
  <2>3. Compacted[p] + Step <= Compacted[n]
    BY <1>2, CompactedKeepsOrder
  <2>4. Compacted[p] + 1 < Compacted[n]
    BY <1>3, <2>3, Constants
  <2>5. Compacted \in [Items -> Int]
    <3>1. Compacted = [i \in Items |-> Compacted[i]]
      BY CompactedKeepsOrder
    <3> QED
      BY <1>3, <3>1
  <2> QED
    BY <1>3, <1>4, <2>2, <2>4, <2>5
<1> QED
  BY <1>5, <1>6

\* Renumbered before or not, a moved item is between its neighbours, and on no
\* order of theirs where orders can be told apart.
THEOREM MovedWithinNeighbours == Spec => WithinNeighbours
<1> DEFINE Within == \A x \in There : \A p, n \in There \ {x} : Moves(x, p, n) =>
                       /\ order'[p] <= order'[x] /\ order'[x] <= order'[n]
                       /\ order'[n] < Coarse => order'[p] < order'[x] /\ order'[x] < order'[n]
<1>1. TypeOK => [Within]_vars
  BY BetweenNeighbours
<1> QED
  BY <1>1, TypeCorrect, PTL DEF Spec, WithinNeighbours

\* A step beyond the one neighbour is beyond all that were shown on that side.
LEMMA MoveBeyond ==
  ASSUME TypeOK, NEW x \in There, NEW now \in Clocks
  PROVE  /\ \A p \in There \ {x} :
              (\A i \in There \ {x, p} : Before(i, p)) /\ UpdateItemPosition(x, p, None, now)
                => \A i \in There \ {x} : Before(i, x)'
         /\ \A n \in There \ {x} :
              (\A i \in There \ {x, n} : Before(n, i)) /\ UpdateItemPosition(x, None, n, now)
                => \A i \in There \ {x} : Before(x, i)'
<1> USE Shape
<1>1. ASSUME NEW p \in There \ {x}, \A i \in There \ {x, p} : Before(i, p),
             UpdateItemPosition(x, p, None, now), NEW i \in There \ {x}
      PROVE  Before(i, x)'
  <2>1. order' = [order EXCEPT ![x] = Round(order[p] + Step)]
    BY <1>1 DEF UpdateItemPosition, PlacedBetween
  <2>2. order[p] < Round(order[p] + Step) /\ Round(order[p] + Step) \in Int
    <3>1. order[p] + Step \in Int
      BY Constants
    <3> QED
      BY <3>1, StepMoves, RoundGrid
  <2>3. order[i] <= order[p]
    BY <1>1 DEF Before
  <2>4. order'[i] = order[i] /\ order'[x] = Round(order[p] + Step)
    BY <2>1 DEF TypeOK
  <2> QED
    BY <2>2, <2>3, <2>4 DEF Before
<1>2. ASSUME NEW n \in There \ {x}, \A i \in There \ {x, n} : Before(n, i),
             UpdateItemPosition(x, None, n, now), NEW i \in There \ {x}
      PROVE  Before(x, i)'
  <2>1. order' = [order EXCEPT ![x] = Round(order[n] - Step)]
    BY <1>2 DEF UpdateItemPosition, PlacedBetween
  <2>2. Round(order[n] - Step) < order[n] /\ Round(order[n] - Step) \in Int
    <3>1. order[n] - Step \in Int
      BY Constants
    <3> QED
      BY <3>1, StepMoves, RoundGrid
  <2>3. order[n] <= order[i]
    BY <1>2 DEF Before
  <2>4. order'[i] = order[i] /\ order'[x] = Round(order[n] - Step)
    BY <2>1 DEF TypeOK
  <2> QED
    BY <2>2, <2>3, <2>4 DEF Before
<1> QED
  BY <1>1, <1>2

\* What is appended comes beyond all there is.
LEMMA CreateBeyond ==
  ASSUME TypeOK, NEW x \in There', NEW now \in Clocks, CreateItem(x, now), NEW i \in There
  PROVE  Before(i, x)'
<1>1. x \in Items
  BY DEF There
<1>2. order' = [order EXCEPT ![x] = AppendOrder(now)] /\ i # x /\ i \in Items
  BY <1>1, CreateTyped, Shape
<1>3. order'[i] = order[i] /\ order'[x] = AppendOrder(now)
  BY <1>1, <1>2 DEF TypeOK
<1> QED
  BY <1>3, AppendedLast DEF Before

LEMMA AtTheEnds ==
  ASSUME TypeOK, NEW x \in There', NEW now \in Clocks
  PROVE  /\ CreateItem(x, now) => \A i \in There : Before(i, x)'
         /\ \A p \in There \ {x} :
              (\A i \in There \ {x, p} : Before(i, p)) /\ UpdateItemPosition(x, p, None, now)
                => \A i \in There \ {x} : Before(i, x)'
         /\ \A n \in There \ {x} :
              (\A i \in There \ {x, n} : Before(n, i)) /\ UpdateItemPosition(x, None, n, now)
                => \A i \in There \ {x} : Before(x, i)'
<1>1. \A p, n : UpdateItemPosition(x, p, n, now) => x \in There
  BY DEF UpdateItemPosition
<1> QED
  BY <1>1, CreateBeyond, MoveBeyond

\* What is appended is shown last, what is moved to an end of the list is shown
\* there, whatever the orders, the rounding and the clock.
THEOREM EndsReached == Spec => EndsAreReached
<1> DEFINE Ends ==
      \A x \in There', now \in Clocks :
        /\ CreateItem(x, now) => \A i \in There : Before(i, x)'
        /\ \A p \in There \ {x} :
             (\A i \in There \ {x, p} : Before(i, p)) /\ UpdateItemPosition(x, p, None, now)
               => \A i \in There \ {x} : Before(i, x)'
        /\ \A n \in There \ {x} :
             (\A i \in There \ {x, n} : Before(n, i)) /\ UpdateItemPosition(x, None, n, now)
               => \A i \in There \ {x} : Before(x, i)'
<1>1. TypeOK => [Ends]_vars
  BY AtTheEnds
<1> QED
  BY <1>1, TypeCorrect, PTL DEF Spec, EndsAreReached
----------------------------------------------------------------------------
\* What a request decides to write.

LEMMA RenumberingIs ==
  ASSUME TypeOK
  PROVE  LET count == Cardinality(There)
         IN  /\ count \in Nat /\ DOMAIN Renumbering = 1 .. count
             /\ Renumbering = [k \in 1 .. count |-> Renumbering[k]]
             /\ \A k \in 1 .. count :
                  /\ Renumbering[k] = <<Shown[k], Step * k>>
                  /\ Shown[k] \in There /\ Rank(Shown[k]) = k
             /\ \A i \in There : /\ Rank(i) \in 1 .. count /\ Shown[Rank(i)] = i
                                 /\ Compacted[i] = Step * Rank(i)
<1> DEFINE count == Cardinality(There)
<1>1. count \in Nat /\ DOMAIN Shown = 1 .. count
  BY RankCounts DEF Shown
<1>2. ASSUME NEW k \in 1 .. count PROVE Shown[k] \in There /\ Rank(Shown[k]) = k
  <2>1. \E i \in There : Rank(i) = k
    BY RankCounts
  <2>2. Shown[k] = CHOOSE i \in There : Rank(i) = k
    BY DEF Shown
  <2> QED
    BY <2>1, <2>2
<1>3. ASSUME NEW i \in There
      PROVE  Rank(i) \in 1 .. count /\ Shown[Rank(i)] = i /\ Compacted[i] = Step * Rank(i)
  <2>1. Rank(i) \in 1 .. count
    BY RankCounts
  <2>2. Shown[Rank(i)] \in There /\ Rank(Shown[Rank(i)]) = Rank(i)
    BY <1>2, <2>1
  <2>3. i \in Items
    BY Shape
  <2> QED
    BY <2>1, <2>2, <2>3, RankCounts DEF Compacted
<1>4. Renumbering = [k \in 1 .. count |-> <<Shown[k], Step * k>>]
  BY <1>1 DEF Renumbering
<1> HIDE DEF count
<1>5. /\ DOMAIN Renumbering = 1 .. count
      /\ Renumbering = [k \in 1 .. count |-> Renumbering[k]]
      /\ \A k \in 1 .. count : Renumbering[k] = <<Shown[k], Step * k>>
  BY <1>4
<1> QED
  BY <1>1, <1>2, <1>3, <1>5 DEF count

\* The updates of a move that renumbers: each item its new order, and at last x.
LEMMA RenumberingUpdates ==
  ASSUME TypeOK, NEW x \in Items, NEW now \in Clocks, NEW p, NEW n, TooClose(p, n)
  PROVE  LET count == Cardinality(There)
             mid == Midpoint(Compacted[p], Compacted[n])
             todo == Updates(x, p, n, now)
         IN  /\ DOMAIN todo = 1 .. (count + 1) /\ Len(todo) = count + 1
             /\ todo = [k \in 1 .. (count + 1) |-> todo[k]]
             /\ \A k \in 1 .. count : todo[k] = <<Shown[k], Step * k>>
             /\ todo[count + 1] = <<x, mid>>
<1> DEFINE count == Cardinality(There)
           new == [k \in DOMAIN Renumbering |-> Renumbering[k][2]]
           at(i) == CHOOSE k \in DOMAIN Renumbering : Renumbering[k][1] = i
           last == <<x, Midpoint(new[at(p)], new[at(n)])>>
<1>1. ASSUME NEW i \in There PROVE new[at(i)] = Compacted[i]
  <2>1. Rank(i) \in DOMAIN Renumbering /\ Renumbering[Rank(i)][1] = i
    BY RenumberingIs
  <2>2. at(i) \in DOMAIN Renumbering /\ Renumbering[at(i)][1] = i
    BY <2>1
  <2> HIDE DEF at
  <2>3. Shown[at(i)] = i /\ at(i) \in 1 .. count
    BY <2>2, RenumberingIs
  <2>4. at(i) = Rank(i)
    BY <2>3, RenumberingIs
  <2> QED
    BY <2>2, <2>4, RenumberingIs
<1>2. last = <<x, Midpoint(Compacted[p], Compacted[n])>>
  BY <1>1 DEF TooClose
<1>3. Updates(x, p, n, now) = Append(Renumbering, last)
  BY DEF Updates, TooClose
<1> HIDE DEF last
<1>4. /\ count \in Nat /\ Renumbering = [k \in 1 .. count |-> Renumbering[k]]
      /\ \A k \in 1 .. count : Renumbering[k] = <<Shown[k], Step * k>>
  BY RenumberingIs
<1> HIDE DEF count
<1>5. Renumbering \in Seq({Renumbering[k] : k \in 1 .. count}) /\ Len(Renumbering) = count
  BY <1>4
<1>6. /\ Append(Renumbering, last) = [k \in 1 .. (count + 1) |-> Append(Renumbering, last)[k]]
      /\ \A k \in 1 .. count : Append(Renumbering, last)[k] = Renumbering[k]
      /\ Append(Renumbering, last)[count + 1] = last
      /\ Len(Append(Renumbering, last)) = count + 1
      /\ DOMAIN Append(Renumbering, last) = 1 .. (count + 1)
  BY <1>4, <1>5
<1> QED
  BY <1>2, <1>3, <1>4, <1>6 DEF count

Pending(r, i) == \E k \in DOMAIN r.todo : r.todo[k][1] = i
ReadBefore(r, i, j) == r.read[i] < r.read[j] \/ (r.read[i] = r.read[j] /\ i < j)
GoalBefore(r, i, j) == r.goal[i] < r.goal[j] \/ (r.goal[i] = r.goal[j] /\ i < j)
Others(r) == r.shown \ {r.item}

\* The updates of a move, before and between any two of them: the last one of an
\* item gives it its goal, the other items come in the order in which they were
\* read, so that those still to come were behind those that have been written,
\* and have kept orders beyond the ones given out.
PlanOK(r) ==
  /\ \A k, m \in DOMAIN r.todo :
       k < m /\ r.todo[k][1] # r.item /\ r.todo[m][1] # r.item =>
         ReadBefore(r, r.todo[k][1], r.todo[m][1])
  /\ \A k \in DOMAIN r.todo :
       /\ r.todo[k][1] \in Others(r) \cup {r.item}
       /\ r.todo[k][1] \in r.shown
            /\ (\A m \in DOMAIN r.todo : k < m => r.todo[m][1] # r.todo[k][1]) =>
              r.todo[k][2] = r.goal[r.todo[k][1]]
  /\ \A i, j \in Others(r) : Pending(r, j) /\ ~Pending(r, i) => ReadBefore(r, i, j)
  /\ \A i, j \in Others(r) : ReadBefore(r, i, j) => GoalBefore(r, i, j)
  /\ \A i, j \in Others(r) : ReadBefore(r, i, j) /\ Pending(r, j) =>
       r.goal[i] < Step * Cardinality(r.shown)

\* A plan as ListByList makes it for a move.
Planned(r, now) ==
  /\ r.todo = Updates(r.item, r.prev, r.next, now)
  /\ r.goal = PlacedBetween(r.item, r.prev, r.next, now)
  /\ r.shown = There /\ r.read = order
  /\ r.item \in Items
  /\ r.prev \in (Items \ {r.item}) \cup {None} /\ r.next \in (Items \ {r.item}) \cup {None}
  /\ \A k \in DOMAIN r.todo : r.todo[k][2] \in Orders

PlanFacts(r) ==
  /\ PlanOK(r)
  /\ r.todo \in Seq(Items \X Orders) /\ r.todo # <<>>
  /\ \A k \in DOMAIN r.todo : OnGrid(r.todo[k][2])
  /\ r.goal \in [Items -> Orders]
  /\ \A i \in There : ~Pending(r, i) => r.goal[i] = order[i]

LEMMA PlanOne ==
  ASSUME TypeOK, NEW r, NEW now \in Clocks, Planned(r, now), ~TooClose(r.prev, r.next)
  PROVE  PlanFacts(r)
<1> DEFINE x == r.item
<1>1. PICK v \in Int : OnGrid(v) /\ r.goal = [order EXCEPT ![x] = v]
  <2>1. /\ x \in Items /\ r.goal = PlacedBetween(x, r.prev, r.next, now)
        /\ r.prev \in (Items \ {x}) \cup {None} /\ r.next \in (Items \ {x}) \cup {None}
    BY DEF Planned
  <2> QED
    BY <2>1, Placed
<1>2. r.goal[x] = v /\ \A i \in Items \ {x} : r.goal[i] = order[i]
  BY <1>1 DEF TypeOK, Planned
<1>3. r.todo = << <<x, v>> >>
  BY <1>2 DEF Planned, Updates, TooClose
<1>4. DOMAIN r.todo = {1} /\ r.todo[1] = <<x, v>> /\ r.todo[1][1] = x /\ r.todo[1][2] = v
  BY <1>3
<1>5. v \in Orders
  BY <1>4 DEF Planned
<1>6. r.goal \in [Items -> Orders] /\ r.todo \in Seq(Items \X Orders) /\ r.todo # <<>>
  BY <1>1, <1>3, <1>5 DEF TypeOK, Planned
<1>7. \A i, j \in Others(r) : ReadBefore(r, i, j) => GoalBefore(r, i, j)
  BY <1>2, Shape DEF Planned, Others, ReadBefore, GoalBefore
<1>8. \A i : Pending(r, i) <=> i = x
  BY <1>4 DEF Pending
<1>9. PlanOK(r)
  BY <1>2, <1>4, <1>7, <1>8 DEF PlanOK, Others
<1> QED
  BY <1>1, <1>2, <1>4, <1>6, <1>8, <1>9, Shape DEF PlanFacts, Planned

LEMMA PlanAll ==
  ASSUME TypeOK, NEW r, NEW now \in Clocks, Planned(r, now), TooClose(r.prev, r.next)
  PROVE  PlanFacts(r)
<1> DEFINE x == r.item
           count == Cardinality(There)
           mid == Midpoint(Compacted[r.prev], Compacted[r.next])
<1>1. /\ count \in Nat /\ mid \in Int /\ OnGrid(mid)
      /\ r.goal = [Compacted EXCEPT ![x] = mid] /\ x \in Items
  <2>1. /\ x \in Items /\ r.goal = PlacedBetween(x, r.prev, r.next, now)
        /\ r.prev \in (Items \ {x}) \cup {None} /\ r.next \in (Items \ {x}) \cup {None}
    BY DEF Planned
  <2>2. \E v \in Int : OnGrid(v) /\ r.goal = [Compacted EXCEPT ![x] = v] /\ v = mid
    BY <2>1, Placed
  <2> QED
    BY <2>1, <2>2, RankCounts
<1>2. /\ DOMAIN r.todo = 1 .. (count + 1)
      /\ \A k \in 1 .. count : r.todo[k][1] = Shown[k] /\ r.todo[k][2] = Step * k
      /\ r.todo[count + 1][1] = x /\ r.todo[count + 1][2] = mid
  <2>1. x \in Items /\ r.todo = Updates(x, r.prev, r.next, now)
    BY DEF Planned
  <2>2. /\ DOMAIN r.todo = 1 .. (count + 1)
        /\ \A k \in 1 .. count : r.todo[k] = <<Shown[k], Step * k>>
        /\ r.todo[count + 1] = <<x, mid>>
    BY <2>1, RenumberingUpdates
  <2> HIDE DEF count, mid
  <2> QED
    BY <2>2
<1>3. /\ \A i \in There : /\ i \in Items /\ Rank(i) \in 1 .. count /\ Shown[Rank(i)] = i
                          /\ Compacted[i] = Step * Rank(i)
      /\ \A k \in 1 .. count : Shown[k] \in There /\ Rank(Shown[k]) = k
      /\ Compacted = [i \in Items |-> Compacted[i]]
      /\ \A i \in Items : Compacted[i] \in Int /\ OnGrid(Compacted[i])
      /\ \A i \in Items \ There : Compacted[i] = 0
  BY RenumberingIs, Shape, CompactedKeepsOrder
<1> HIDE DEF count, mid
<1>4. r.goal[x] = mid /\ \A i \in Items \ {x} : r.goal[i] = Compacted[i]
  BY <1>1, <1>3
<1>5. \A k \in 1 .. (count + 1) : k \in 1 .. count \/ k = count + 1
  BY <1>1
<1>6. ASSUME NEW i \in There
      PROVE  \E k \in DOMAIN r.todo : r.todo[k][1] = i /\ r.todo[k][2] = Compacted[i]
  <2> DEFINE k == Rank(i)
  <2>1. k \in 1 .. count /\ Shown[k] = i /\ Compacted[i] = Step * k
    BY <1>3
  <2> HIDE DEF k
  <2>2. k \in 1 .. (count + 1)
    BY <1>1, <2>1
  <2>3. r.todo[k][1] = Shown[k] /\ r.todo[k][2] = Step * k
    BY <1>2, <2>1
  <2> QED
    BY <1>2, <2>1, <2>2, <2>3
<1>7. \A k \in DOMAIN r.todo : r.todo[k][1] \in Items /\ OnGrid(r.todo[k][2])
  <2>1. ASSUME NEW k \in 1 .. count PROVE Shown[k] \in Items /\ OnGrid(Step * k)
    <3>1. Shown[k] \in There /\ Rank(Shown[k]) = k
      BY <1>3
    <3>2. Compacted[Shown[k]] = Step * k
      BY <1>3, <3>1
    <3> QED
      BY <1>3, <3>1, <3>2
  <2> QED
    BY <1>1, <1>2, <1>5, <2>1
<1>8. r.todo \in Seq(Items \X Orders) /\ r.todo # <<>>
  <2>1. /\ r.todo = [k \in 1 .. (count + 1) |-> r.todo[k]] /\ Len(r.todo) = count + 1
        /\ \A k \in 1 .. (count + 1) : r.todo[k] = <<r.todo[k][1], r.todo[k][2]>>
    <3>1. x \in Items /\ r.todo = Updates(x, r.prev, r.next, now)
      BY DEF Planned
    <3>2. /\ r.todo = [k \in 1 .. (count + 1) |-> r.todo[k]] /\ Len(r.todo) = count + 1
          /\ \A k \in 1 .. count : r.todo[k] = <<Shown[k], Step * k>>
          /\ r.todo[count + 1] = <<x, mid>>
      BY <3>1, RenumberingUpdates DEF count, mid
    <3>3. ASSUME NEW k \in 1 .. (count + 1) PROVE r.todo[k] = <<r.todo[k][1], r.todo[k][2]>>
      <4>1. CASE k \in 1 .. count
        <5>1. r.todo[k] = <<Shown[k], Step * k>>
          BY <3>2, <4>1
        <5> QED
          BY <5>1
      <4>2. CASE k = count + 1
        BY <3>2, <4>2
      <4> QED
        BY <1>5, <4>1, <4>2
    <3> QED
      BY <3>2, <3>3
  <2>2. \A k \in 1 .. (count + 1) : r.todo[k][1] \in Items /\ r.todo[k][2] \in Orders
    BY <1>2, <1>7 DEF Planned
  <2>3. ASSUME NEW k \in 1 .. (count + 1) PROVE r.todo[k] \in Items \X Orders
    <3>1. r.todo[k] = <<r.todo[k][1], r.todo[k][2]>>
      BY <2>1
    <3>2. r.todo[k][1] \in Items /\ r.todo[k][2] \in Orders
      BY <2>2
    <3> QED
      BY <3>1, <3>2
  <2>4. r.todo \in [1 .. (count + 1) -> Items \X Orders]
    BY <2>1, <2>3
  <2> QED
    BY <1>1, <2>1, <2>4
<1>9. r.goal \in [Items -> Orders]
  <2>1. ASSUME NEW i \in There PROVE Compacted[i] \in Orders
    BY <1>6, <2>1 DEF Planned
  <2>2. count + 1 \in 1 .. (count + 1) /\ r.todo[count + 1][2] = mid
    BY <1>1, <1>2
  <2>3. mid \in Orders
    BY <1>2, <2>2 DEF Planned
  <2>4. \A i \in Items : Compacted[i] \in Orders
    BY <1>3, <2>1, ItemOrderAssumption
  <2> QED
    BY <1>1, <1>3, <2>3, <2>4
<1>10. \A i, j \in There : Before(i, j) <=> Rank(i) < Rank(j)
  <2>1. \A i, j \in There : ~Before(i, j) => i = j \/ Before(j, i)
    BY Shape DEF Before
  <2>2. \A i \in There : Rank(i) \in Nat
    BY RankOrders
  <2> QED
    BY <2>1, <2>2, RankOrders
<1>11. \A i, j \in There : ReadBefore(r, i, j) <=> Before(i, j)
  BY DEF Planned, ReadBefore, Before
<1>12. PlanOK(r)
  <2>1. ASSUME NEW k \in DOMAIN r.todo, NEW m \in DOMAIN r.todo, k < m,
               r.todo[k][1] # x, r.todo[m][1] # x
        PROVE  ReadBefore(r, r.todo[k][1], r.todo[m][1])
    <3>1. k \in 1 .. count /\ m \in 1 .. count
      BY <1>2, <1>5, <2>1
    <3>2. r.todo[k][1] = Shown[k] /\ r.todo[m][1] = Shown[m]
      BY <1>2, <3>1
    <3> QED
      BY <1>3, <1>10, <1>11, <2>1, <3>1, <3>2
  <2>2. ASSUME NEW k \in DOMAIN r.todo
        PROVE  /\ r.todo[k][1] \in Others(r) \cup {x}
               /\ (\A m \in DOMAIN r.todo : k < m => r.todo[m][1] # r.todo[k][1])
                    => r.todo[k][2] = r.goal[r.todo[k][1]]
    <3>1. CASE k = count + 1
      BY <1>2, <1>4, <3>1
    <3>2. CASE k \in 1 .. count
      <4>1. r.todo[k][1] = Shown[k] /\ r.todo[k][2] = Step * k /\ Shown[k] \in There
        BY <1>2, <1>3, <3>2
      <4>2. count + 1 \in DOMAIN r.todo /\ k < count + 1 /\ r.todo[count + 1][1] = x
        BY <1>1, <1>2, <3>2
      <4>3. Shown[k] # x => r.todo[k][2] = r.goal[r.todo[k][1]]
        BY <1>3, <1>4, <3>2, <4>1
      <4> QED
        BY <4>1, <4>2, <4>3 DEF Others, Planned
    <3> QED
      BY <1>2, <1>5, <3>1, <3>2
  <2>3. \A i \in Others(r) : i \in There /\ i # x /\ Pending(r, i)
    BY <1>6 DEF Others, Planned, Pending
  <2>4. ASSUME NEW i \in Others(r), NEW j \in Others(r), ReadBefore(r, i, j)
        PROVE  GoalBefore(r, i, j) /\ r.goal[i] < Step * Cardinality(r.shown)
    <3>1. Rank(i) < Rank(j) /\ r.goal[i] = Step * Rank(i) /\ r.goal[j] = Step * Rank(j)
      BY <1>3, <1>4, <1>10, <1>11, <2>3, <2>4
    <3>2. Rank(i) \in Int /\ Rank(j) \in Int /\ count \in Int /\ Rank(j) <= count
      BY <1>1, <1>3, <2>3
    <3>3. Step * Rank(i) < Step * Rank(j) /\ Step * Rank(j) <= Step * count
      <4>1. ~(Rank(j) <= Rank(i))
        BY <3>1, <3>2
      <4>2. ~(Step * Rank(j) <= Step * Rank(i))
        BY <3>2, <4>1, MulMono, Constants
      <4>3. Step * Rank(j) <= Step * count
        BY <3>2, MulMono, Constants
      <4> QED
        BY <3>2, <4>2, <4>3, Constants
    <3>4. /\ Step * Rank(i) \in Int /\ Step * Rank(j) \in Int /\ Step * count \in Int
          /\ r.shown = There
      BY <3>2, Constants DEF Planned
    <3> QED
      BY <3>1, <3>3, <3>4 DEF GoalBefore, count
  <2> QED
    BY <2>1, <2>2, <2>3, <2>4 DEF PlanOK
<1> QED
  BY <1>6, <1>7, <1>8, <1>9, <1>12 DEF PlanFacts, Pending

----------------------------------------------------------------------------
\* The inductive invariant of the requests.

Untouched(q) == req[q].shown \ touched[q]

\* A new item comes beyond all that were read for it.
CreateOK(q) ==
  /\ doc[req[q].item] = "unused"
  /\ req[q].step = "write" =>
       /\ Len(req[q].todo) = 1
       /\ \A i \in req[q].shown : req[q].read[i] < req[q].todo[1][2]
       /\ \A i \in Untouched(q) : i \in There /\ order[i] = req[q].read[i]

\* An item that nobody else has changed has its goal when its updates are done,
\* and the order read before.
ProgressOK(q) ==
  \A i \in Untouched(q) :
    /\ i \in There
    /\ ~Pending(req[q], i) => order[i] = req[q].goal[i]
    /\ i # req[q].item /\ Pending(req[q], i) => order[i] = req[q].read[i]

RequestOK(q) ==
  req[q].step # "idle" =>
    /\ req[q].prev \in (Items \ {req[q].item}) \cup {None}
    /\ req[q].next \in (Items \ {req[q].item}) \cup {None}
    /\ req[q].step = "answer" => req[q].op = "move"
    /\ \A k \in DOMAIN req[q].todo : OnGrid(req[q].todo[k][2])
    /\ req[q].op = "create" => CreateOK(q)
    /\ req[q].op = "move" /\ req[q].step \in {"write", "answer"} => PlanOK(req[q]) /\ ProgressOK(q)
RequestsOK == \A q \in Requests : RequestOK(q)

RequestsInv == RequestsTypeOK /\ RequestsOK

USE DEF At

LEMMA RequestShape ==
  ASSUME RequestsTypeOK, NEW q \in Requests, req[q].step # "idle"
  PROVE  /\ req[q] \in Request
         /\ req[q].op \in {"create", "move"} /\ req[q].item \in Items
         /\ req[q].step \in {"list", "write", "answer"}
         /\ req[q].shown \in SUBSET Items
         /\ req[q].read \in [Items -> Orders] /\ req[q].goal \in [Items -> Orders]
         /\ req[q].todo \in Seq(Items \X Orders)
<1>1. req[q] \in Request
  BY DEF RequestsTypeOK, NoRequest
<1> QED
  BY <1>1 DEF Request

LEMMA TouchedKept ==
  ASSUME RequestsTypeOK, NEW others \in SUBSET Requests, History(others)
  PROVE  /\ touched' \in [Requests -> SUBSET Items]
         /\ \A p \in others : req'[p].step \in {"write", "answer"} =>
              touched'[p] = touched[p] \cup Changed
         /\ \A p \in Requests \ others : req'[p].step \in {"write", "answer"} =>
              touched'[p] = touched[p]
<1>1. Changed \in SUBSET Items
  BY DEF Changed
<1> HIDE DEF Changed
<1> QED
  BY <1>1 DEF History, RequestsTypeOK

\* What others change counts as touched, and what they leave alone is as it was.
LEMMA OtherKept ==
  ASSUME RequestsInv, NEW p \in Requests, req'[p] = req[p],
         req[p].step \in {"write", "answer"} => touched'[p] = touched[p] \cup Changed,
         req[p].step # "idle" /\ req[p].op = "create" => doc'[req[p].item] = doc[req[p].item]
  PROVE  RequestOK(p)'
<1> SUFFICES ASSUME req[p].step # "idle" PROVE RequestOK(p)'
  BY DEF RequestOK
<1>1. RequestOK(p) /\ req[p].shown \in SUBSET Items
  BY RequestShape DEF RequestsInv, RequestsOK
<1>2. ASSUME req[p].step \in {"write", "answer"}, NEW i \in Untouched(p)'
      PROVE  i \in Untouched(p) /\ order'[i] = order[i] /\ (i \in There => i \in There')
  BY <1>1, <1>2 DEF Untouched, Changed, There
<1>3. req[p].op = "create" => CreateOK(p)'
  BY <1>1, <1>2 DEF RequestOK, CreateOK
<1>4. req[p].op = "move" /\ req[p].step \in {"write", "answer"} => ProgressOK(p)'
  BY <1>1, <1>2 DEF RequestOK, ProgressOK
<1> QED
  BY <1>1, <1>3, <1>4 DEF RequestOK

\* One request changes, and the others see at most what it has changed.
LEMMA SetRequestKept ==
  ASSUME RequestsInv, TypeOK', NEW q \in Requests, NEW x, req' = [req EXCEPT ![q] = x],
         History(Requests \ {q}),
         \/ x = NoRequest
         \/ /\ x \in Request /\ RequestOK(q)'
            /\ x.step = "write" <=> x.todo # <<>>
            /\ \A p \in Requests \ {q} : x.op = "create" /\ req[p].step # "idle"
                 /\ req[p].op = "create" => req[p].item # x.item,
         \A p \in Requests \ {q} : req[p].step # "idle" /\ req[p].op = "create" =>
           doc'[req[p].item] = doc[req[p].item]
  PROVE  RequestsInv'
<1>1. /\ req'[q] = x /\ \A p \in Requests \ {q} : req'[p] = req[p]
      /\ req' \in [Requests -> Request \cup {NoRequest}]
  BY DEF RequestsInv, RequestsTypeOK
<1>2. /\ touched' \in [Requests -> SUBSET Items]
      /\ \A p \in Requests \ {q} : req'[p].step \in {"write", "answer"} =>
           touched'[p] = touched[p] \cup Changed
  BY TouchedKept DEF RequestsInv
<1>3. ASSUME NEW p \in Requests \ {q} PROVE RequestOK(p)'
  BY <1>1, <1>2, OtherKept
<1>4. RequestOK(q)'
  BY <1>1 DEF RequestOK, NoRequest
<1>5. x.step = "idle" \/ (x \in Request /\ x.step # "idle")
  BY DEF NoRequest, Request
<1>6. \A p \in Requests : At(p, "write")' <=> (~At(p, "idle")' /\ req'[p].todo # <<>>)
  <2>1. ASSUME NEW p \in Requests \ {q}
        PROVE  At(p, "write")' <=> (~At(p, "idle")' /\ req'[p].todo # <<>>)
    BY <1>1 DEF RequestsInv, RequestsTypeOK
  <2>2. x.step = "write" <=> (x.step # "idle" /\ x.todo # <<>>)
    BY <1>5 DEF NoRequest
  <2> QED
    BY <1>1, <2>1, <2>2
<1>7. \A a, b \in Requests :
        ~At(a, "idle")' /\ ~At(b, "idle")' /\ a # b /\ req'[a].op = "create"
          /\ req'[b].op = "create" => req'[a].item # req'[b].item
  <2>1. \A a, b \in Requests \ {q} :
          ~At(a, "idle") /\ ~At(b, "idle") /\ a # b /\ req[a].op = "create"
            /\ req[b].op = "create" => req[a].item # req[b].item
    BY DEF RequestsInv, RequestsTypeOK
  <2>2. \A p \in Requests \ {q} : x.step # "idle" /\ x.op = "create" /\ req[p].step # "idle"
                 /\ req[p].op = "create" => req[p].item # x.item
    BY DEF NoRequest
  <2> QED
    BY <1>1, <2>1, <2>2
<1>8. RequestsOK'
  BY <1>3, <1>4 DEF RequestsOK
<1> QED
  BY <1>1, <1>2, <1>6, <1>7, <1>8 DEF RequestsInv, RequestsTypeOK

----------------------------------------------------------------------------
\* The invariant, action by action.

LEMMA RequestsInitInv == RequestsInit => RequestsInv
<1> SUFFICES ASSUME RequestsInit PROVE RequestsInv
  OBVIOUS
<1>1. TypeOK
  BY InitTyped DEF RequestsInit
<1> QED
  BY <1>1 DEF RequestsInit, RequestsInv, RequestsTypeOK, RequestsOK, RequestOK, NoRequest

LEMMA BeginKept ==
  ASSUME RequestsInv, NEW q \in Requests, NEW op \in {"create", "move"}, NEW x \in Items,
         NEW p \in (Items \ {x}) \cup {None}, NEW n \in (Items \ {x}) \cup {None},
         Begin(q, op, x, p, n), History(Requests \ {q}),
         op = "create" => doc[x] = "unused" /\ x \notin Arriving
  PROVE  RequestsInv'
<1> DEFINE r == [op |-> op, item |-> x, prev |-> p, next |-> n, step |-> "list",
                 todo |-> <<>>, shown |-> {}, read |-> order, goal |-> order]
<1>1. req' = [req EXCEPT ![q] = r] /\ UNCHANGED vars
  BY DEF Begin
<1>2. TypeOK /\ TypeOK'
  BY <1>1 DEF RequestsInv, RequestsTypeOK, TypeOK, There, vars
<1>3. r \in Request
  BY <1>2 DEF Request, TypeOK
<1>4. req'[q] = r
  BY <1>1 DEF RequestsInv, RequestsTypeOK
<1>5. RequestOK(q)'
  BY <1>1, <1>4 DEF RequestOK, CreateOK, vars
<1>6. \A a \in Requests \ {q} :
        op = "create" /\ req[a].step # "idle" /\ req[a].op = "create" => req[a].item # x
  BY DEF Arriving
<1> QED
  BY <1>1, <1>2, <1>3, <1>5, <1>6, SetRequestKept DEF vars

LEMMA BeginCreateKept ==
  ASSUME RequestsInv, NEW q \in Requests, NEW i \in Items, BeginCreate(q, i),
         History(Requests \ {q})
  PROVE  RequestsInv'
  BY BeginKept DEF BeginCreate

LEMMA BeginMoveKept ==
  ASSUME RequestsInv, NEW q \in Requests, NEW x \in Items,
         NEW p \in Items \cup {None}, NEW n \in Items \cup {None},
         BeginMove(q, x, p, n), History(Requests \ {q})
  PROVE  RequestsInv'
<1>1. p \in (Items \ {x}) \cup {None} /\ n \in (Items \ {x}) \cup {None}
  BY ItemOrderAssumption DEF BeginMove, There
<1> QED
  BY <1>1, BeginKept DEF BeginMove

LEMMA ListByListKept ==
  ASSUME RequestsInv, NEW q \in Requests, NEW now \in Clocks, ListByList(q, now),
         History(Requests \ {q})
  PROVE  RequestsInv'
<1> DEFINE x == req[q].item
           todo == IF req[q].op = "create" THEN << <<x, AppendOrder(now)>> >>
                   ELSE Updates(x, req[q].prev, req[q].next, now)
           goal == IF req[q].op = "create" THEN order
                   ELSE PlacedBetween(x, req[q].prev, req[q].next, now)
           r == [req[q] EXCEPT !.step = "write", !.todo = todo,
                               !.shown = There, !.read = order, !.goal = goal]
<1>1. /\ req[q].step = "list" /\ \A k \in DOMAIN todo : todo[k][2] \in Orders
      /\ req' = [req EXCEPT ![q] = r] /\ UNCHANGED vars
  BY DEF ListByList
<1>2. /\ TypeOK /\ TypeOK' /\ There \in SUBSET Items /\ order \in [Items -> Orders]
      /\ There' = There /\ order' = order /\ doc' = doc
  BY <1>1 DEF RequestsInv, RequestsTypeOK, TypeOK, There, vars
<1>3. /\ req[q] \in Request /\ RequestOK(q) /\ req[q].op \in {"create", "move"} /\ x \in Items
  BY <1>1, RequestShape DEF RequestsInv, RequestsOK
<1> HIDE DEF todo, goal
<1>4. /\ r.step = "write" /\ r.todo = todo /\ r.shown = There /\ r.read = order /\ r.goal = goal
      /\ r.op = req[q].op /\ r.item = x /\ r.prev = req[q].prev /\ r.next = req[q].next
      /\ todo \in Seq(Items \X Orders) /\ goal \in [Items -> Orders] => r \in Request
  BY <1>2, <1>3 DEF Request
<1> HIDE DEF r
<1>5. req'[q] = r
  BY <1>1 DEF RequestsInv, RequestsTypeOK
<1>6. req[q].prev \in (Items \ {x}) \cup {None} /\ req[q].next \in (Items \ {x}) \cup {None}
  BY <1>1, <1>3 DEF RequestOK
<1>7. todo \in Seq(Items \X Orders) /\ todo # <<>> /\ goal \in [Items -> Orders] /\ RequestOK(q)'
  <2>1. CASE req[q].op = "create"
    <3>1. todo = << <<x, AppendOrder(now)>> >> /\ goal = order
      BY <2>1 DEF todo, goal
    <3>2. DOMAIN todo = {1} /\ Len(todo) = 1 /\ todo[1][2] = AppendOrder(now)
      BY <3>1
    <3>3. AppendOrder(now) \in Orders
      BY <1>1, <3>2
    <3>4. OnGrid(AppendOrder(now)) /\ \A i \in There : order[i] < AppendOrder(now)
      BY <1>2, AppendedLast
    <3>5. doc[x] = "unused"
      BY <1>1, <1>3, <2>1 DEF RequestOK, CreateOK
    <3>6. CreateOK(q)'
      BY <1>2, <1>4, <1>5, <3>2, <3>4, <3>5 DEF CreateOK, Untouched
    <3>7. todo \in Seq(Items \X Orders) /\ todo # <<>>
      BY <1>3, <3>1, <3>3
    <3> QED
      BY <1>2, <1>4, <1>5, <1>6, <2>1, <3>1, <3>2, <3>4, <3>6, <3>7 DEF RequestOK
  <2>2. CASE req[q].op = "move"
    <3>1. /\ todo = Updates(x, req[q].prev, req[q].next, now)
          /\ goal = PlacedBetween(x, req[q].prev, req[q].next, now)
      BY <2>2 DEF todo, goal
    <3>2. Planned(r, now)
      BY <1>1, <1>3, <1>4, <1>6, <3>1 DEF Planned
    <3>3. PlanFacts(r)
      BY <1>2, <3>2, PlanOne, PlanAll
    <3>4. ProgressOK(q)'
      BY <1>2, <1>4, <1>5, <3>3 DEF ProgressOK, Untouched, PlanFacts
    <3> QED
      BY <1>4, <1>5, <1>6, <2>2, <3>3, <3>4 DEF RequestOK, PlanFacts
  <2> QED
    BY <1>3, <2>1, <2>2
<1>8. \A p \in Requests \ {q} : r.op = "create" /\ req[p].step # "idle"
        /\ req[p].op = "create" => req[p].item # r.item
  BY <1>1, <1>4 DEF RequestsInv, RequestsTypeOK
<1> QED
  BY <1>1, <1>2, <1>4, <1>7, <1>8, SetRequestKept

LEMMA AnswerKept ==
  ASSUME RequestsInv, NEW q \in Requests, Answer(q), History(Requests \ {q})
  PROVE  RequestsInv'
<1>1. req' = [req EXCEPT ![q] = NoRequest] /\ UNCHANGED vars
  BY DEF Answer
<1>2. TypeOK'
  BY <1>1 DEF RequestsInv, RequestsTypeOK, TypeOK, There, vars
<1> QED
  BY <1>1, <1>2, SetRequestKept DEF vars

LEMMA FailKept ==
  ASSUME RequestsInv, NEW q \in Requests, Fail(q), History(Requests \ {q})
  PROVE  RequestsInv'
<1>1. /\ req[q].step # "idle" /\ req' = [req EXCEPT ![q] = NoRequest] /\ order' = order
      /\ doc' = IF req[q].op = "create" THEN [doc EXCEPT ![req[q].item] = "deleted"] ELSE doc
  BY DEF Fail
<1>2. /\ req[q].item \in Items /\ RequestOK(q)
      /\ TypeOK
  BY <1>1, RequestShape DEF RequestsInv, RequestsOK, RequestsTypeOK
<1>3. There' = There
  BY <1>1, <1>2 DEF RequestOK, CreateOK, TypeOK, There
<1>4. TypeOK'
  BY <1>1, <1>2, <1>3 DEF TypeOK
<1>5. \A p \in Requests \ {q} : req[p].step # "idle" /\ req[p].op = "create" =>
        doc'[req[p].item] = doc[req[p].item]
  BY <1>1, <1>2, RequestShape DEF RequestsInv, RequestsTypeOK, TypeOK
<1> QED
  BY <1>1, <1>4, <1>5, SetRequestKept

LEMMA PutItemFacts ==
  ASSUME RequestsInv, NEW q \in Requests, PutItem(q)
  PROVE  LET x == req[q].item
             v == req[q].todo[1][2]
         IN  /\ x \in Items /\ x \notin There /\ v \in Orders /\ OnGrid(v)
             /\ order' = [order EXCEPT ![x] = v] /\ doc' = [doc EXCEPT ![x] = "there"]
             /\ req' = [req EXCEPT ![q] = NoRequest]
             /\ RequestOK(q) /\ CreateOK(q) /\ req[q].step = "write"
<1> DEFINE x == req[q].item
           v == req[q].todo[1][2]
<1>1. /\ req[q].step = "write" /\ req[q].op = "create"
      /\ doc' = [doc EXCEPT ![x] = "there"]
      /\ order' = [order EXCEPT ![x] = Head(req[q].todo)[2]]
      /\ req' = [req EXCEPT ![q] = NoRequest]
  BY DEF PutItem
<1>2. /\ RequestOK(q) /\ CreateOK(q) /\ x \in Items /\ req[q].todo \in Seq(Items \X Orders)
      /\ Len(req[q].todo) = 1
  BY <1>1, RequestShape DEF RequestsInv, RequestsOK, RequestOK, CreateOK
<1>3. /\ 1 \in DOMAIN req[q].todo /\ req[q].todo[1] \in Items \X Orders
      /\ Head(req[q].todo) = req[q].todo[1]
  BY <1>2
<1>4. v \in Orders /\ OnGrid(v)
  BY <1>1, <1>2, <1>3 DEF RequestOK
<1>5. x \notin There
  BY <1>2 DEF CreateOK, There
<1> QED
  BY <1>1, <1>2, <1>3, <1>4, <1>5

LEMMA PutItemKept ==
  ASSUME RequestsInv, NEW q \in Requests, PutItem(q), History(Requests \ {q})
  PROVE  RequestsInv'
<1> DEFINE x == req[q].item
           v == req[q].todo[1][2]
<1>1. /\ x \in Items /\ x \notin There /\ v \in Orders /\ OnGrid(v)
      /\ order' = [order EXCEPT ![x] = v] /\ doc' = [doc EXCEPT ![x] = "there"]
      /\ req' = [req EXCEPT ![q] = NoRequest]
      /\ req[q].step = "write" /\ req[q].op = "create" /\ TypeOK
  BY PutItemFacts DEF RequestsInv, RequestsTypeOK, PutItem
<1> HIDE DEF v
<1>2. There' = There \cup {x}
  BY <1>1 DEF TypeOK, There
<1>3. /\ order' \in [Items -> Orders] /\ order'[x] = v
      /\ \A i \in Items \ {x} : order'[i] = order[i]
  BY <1>1 DEF TypeOK
<1>4. \A i \in Items : order'[i] >= Coarse => order'[i] % Ulp = 0
  BY <1>1, <1>3 DEF TypeOK, OnGrid
<1>5. \A i \in Items \ There' : order'[i] = 0
  BY <1>1, <1>2, <1>3 DEF TypeOK
<1>6. doc' \in [Items -> {"unused", "there", "deleted"}]
  BY <1>1 DEF TypeOK
<1>7. TypeOK'
  BY <1>3, <1>4, <1>5, <1>6 DEF TypeOK
<1>8. \A p \in Requests \ {q} : req[p].step # "idle" /\ req[p].op = "create" =>
        doc'[req[p].item] = doc[req[p].item]
  BY <1>1, RequestShape DEF RequestsInv, RequestsTypeOK, TypeOK
<1> QED
  BY <1>1, <1>7, <1>8, SetRequestKept

\* One update of a move.
LEMMA UpdateOrderFacts ==
  ASSUME RequestsInv, NEW q \in Requests, UpdateOrder(q)
  PROVE  LET i == req[q].todo[1][1]
             v == req[q].todo[1][2]
         IN  /\ i \in Items /\ v \in Orders /\ OnGrid(v)
             /\ order' = IF i \in There THEN [order EXCEPT ![i] = v] ELSE order
             /\ doc' = doc /\ There' = There /\ TypeOK /\ TypeOK'
<1> DEFINE i == req[q].todo[1][1]
           v == req[q].todo[1][2]
<1>1. /\ req[q].step = "write" /\ doc' = doc
      /\ order' = IF Head(req[q].todo)[1] \in There
                    THEN [order EXCEPT ![Head(req[q].todo)[1]] = Head(req[q].todo)[2]] ELSE order
  BY DEF UpdateOrder
<1>2. /\ RequestOK(q) /\ req[q].todo \in Seq(Items \X Orders) /\ req[q].todo # <<>> /\ TypeOK
  BY <1>1, RequestShape DEF RequestsInv, RequestsOK, RequestsTypeOK
<1>3. /\ 1 \in DOMAIN req[q].todo /\ req[q].todo[1] \in Items \X Orders
      /\ Head(req[q].todo) = req[q].todo[1]
  BY <1>2
<1>4. i \in Items /\ v \in Orders /\ OnGrid(v)
  BY <1>1, <1>2, <1>3 DEF RequestOK
<1>5. order' = IF i \in There THEN [order EXCEPT ![i] = v] ELSE order
  BY <1>1, <1>3
<1> HIDE DEF i, v
<1>6. There' = There
  BY <1>1 DEF There
<1>7. TypeOK'
  <2>1. CASE i \in There
    BY <1>1, <1>2, <1>4, <1>5, <1>6, <2>1 DEF TypeOK, OnGrid
  <2>2. CASE i \notin There
    BY <1>1, <1>2, <1>5, <1>6, <2>2 DEF TypeOK
  <2> QED
    BY <2>1, <2>2
<1> QED
  BY <1>1, <1>2, <1>4, <1>5, <1>6, <1>7 DEF i, v

\* What is left of a plan is a plan.
LEMMA TailPlan ==
  ASSUME NEW r \in Request, NEW s, PlanOK(r), r.todo # <<>>, s.todo = Tail(r.todo),
         s.item = r.item, s.shown = r.shown, s.read = r.read, s.goal = r.goal
  PROVE  /\ PlanOK(s) /\ s.todo \in Seq(Items \X Orders)
         /\ \A k \in DOMAIN s.todo : k + 1 \in DOMAIN r.todo /\ s.todo[k] = r.todo[k + 1]
         /\ 1 \in DOMAIN r.todo
         /\ \A k \in DOMAIN r.todo : k = 1 \/ k - 1 \in DOMAIN s.todo
         /\ \A i : Pending(r, i) <=> i = r.todo[1][1] \/ Pending(s, i)
         /\ ~Pending(s, r.todo[1][1]) /\ r.todo[1][1] \in r.shown =>
              r.todo[1][2] = r.goal[r.todo[1][1]]
         /\ Pending(s, r.todo[1][1]) => r.todo[1][1] = r.item
<1> DEFINE h == r.todo[1][1]
<1>1. r.todo \in Seq(Items \X Orders) /\ r.item \in Items
  BY DEF Request
<1>2. /\ s.todo \in Seq(Items \X Orders) /\ 1 \in DOMAIN r.todo
      /\ \A k \in DOMAIN s.todo : k + 1 \in DOMAIN r.todo /\ s.todo[k] = r.todo[k + 1] /\ k \in Nat
      /\ \A k \in DOMAIN r.todo : k \in Nat /\ k >= 1
      /\ \A k \in DOMAIN r.todo : k = 1 \/ (k - 1 \in DOMAIN s.todo /\ s.todo[k - 1] = r.todo[k])
  BY <1>1
<1> HIDE DEF h
<1>3. \A i : Pending(r, i) <=> i = h \/ Pending(s, i)
  <2>1. ASSUME NEW i, Pending(s, i) PROVE Pending(r, i)
    BY <1>2, <2>1 DEF Pending
  <2>2. ASSUME NEW i, Pending(r, i) PROVE i = h \/ Pending(s, i)
    BY <1>2, <2>2 DEF Pending, h
  <2>3. Pending(r, h)
    BY <1>2 DEF Pending, h
  <2> QED
    BY <2>1, <2>2, <2>3
<1>4. ASSUME NEW i \in Items PROVE ~ReadBefore(r, i, i)
  <2>1. r.read \in [Items -> Orders] /\ Orders \subseteq Int /\ Items \subseteq Nat
    BY ItemOrderAssumption DEF Request
  <2>2. r.read[i] \in Orders
    BY <2>1
  <2>3. r.read[i] \in Int /\ i \in Nat
    BY <1>4, <2>1, <2>2, Zenon
  <2> QED
    BY <2>3 DEF ReadBefore
<1>5. \A i, j : /\ ReadBefore(s, i, j) <=> ReadBefore(r, i, j)
                /\ GoalBefore(s, i, j) <=> GoalBefore(r, i, j)
  BY DEF ReadBefore, GoalBefore
<1>6. ASSUME NEW j, Pending(s, j), j # r.item, h # r.item PROVE ReadBefore(r, h, j)
  <2>1. PICK k \in DOMAIN s.todo : s.todo[k][1] = j
    BY <1>6 DEF Pending
  <2>2. k + 1 \in DOMAIN r.todo /\ r.todo[k + 1][1] = j /\ 1 < k + 1
    <3>1. k \in 1 .. Len(s.todo)
      BY <1>2
    <3> QED
      BY <1>2, <2>1, <3>1
  <2> QED
    BY <1>2, <1>6, <2>2 DEF PlanOK, h
<1>7. Pending(s, h) => h = r.item
  <2>1. h \in Items
    BY <1>1, <1>2 DEF h
  <2> QED
    BY <1>4, <1>6, <2>1
<1>8. ~Pending(s, h) /\ h \in r.shown => r.todo[1][2] = r.goal[h]
  <2> SUFFICES ASSUME ~Pending(s, h), h \in r.shown PROVE r.todo[1][2] = r.goal[h]
    OBVIOUS
  <2>1. ASSUME NEW m \in DOMAIN r.todo, 1 < m PROVE r.todo[m][1] # h
    <3>1. m # 1
      BY <2>1
    <3> QED
      BY <1>2, <3>1 DEF Pending
  <2> QED
    BY <1>2, <2>1 DEF PlanOK, h
<1>9. PlanOK(s)
  <2>1. ASSUME NEW k \in DOMAIN s.todo, NEW m \in DOMAIN s.todo, k < m,
               s.todo[k][1] # s.item, s.todo[m][1] # s.item
        PROVE  ReadBefore(s, s.todo[k][1], s.todo[m][1])
    <3>1. /\ k + 1 \in DOMAIN r.todo /\ s.todo[k] = r.todo[k + 1] /\ k \in Nat
          /\ m + 1 \in DOMAIN r.todo /\ s.todo[m] = r.todo[m + 1] /\ m \in Nat
      BY <1>2
    <3>2. k + 1 < m + 1
      BY <2>1, <3>1
    <3>3. ReadBefore(r, r.todo[k + 1][1], r.todo[m + 1][1])
      BY <2>1, <3>1, <3>2 DEF PlanOK
    <3> QED
      BY <1>5, <3>1, <3>3
  <2>2. ASSUME NEW k \in DOMAIN s.todo
        PROVE  /\ s.todo[k][1] \in Others(s) \cup {s.item}
               /\ s.todo[k][1] \in s.shown
                    /\ (\A m \in DOMAIN s.todo : k < m => s.todo[m][1] # s.todo[k][1]) =>
                      s.todo[k][2] = s.goal[s.todo[k][1]]
    <3>1. k + 1 \in DOMAIN r.todo /\ s.todo[k] = r.todo[k + 1]
      BY <1>2
    <3>2. (\A m \in DOMAIN s.todo : k < m => s.todo[m][1] # s.todo[k][1]) =>
            \A m \in DOMAIN r.todo : k + 1 < m => r.todo[m][1] # r.todo[k + 1][1]
      <4> SUFFICES ASSUME \A m \in DOMAIN s.todo : k < m => s.todo[m][1] # s.todo[k][1],
                          NEW m \in DOMAIN r.todo, k + 1 < m
                   PROVE  r.todo[m][1] # r.todo[k + 1][1]
        OBVIOUS
      <4>1. k \in Nat /\ m \in Nat
        BY <1>2
      <4>2. m # 1 /\ k < m - 1
        BY <4>1
      <4>3. m - 1 \in DOMAIN s.todo /\ s.todo[m - 1] = r.todo[m]
        BY <1>2, <4>2
      <4> QED
        BY <3>1, <4>2, <4>3
    <3> QED
      BY <3>1, <3>2 DEF PlanOK, Others
  <2>3. ASSUME NEW i \in Others(s), NEW j \in Others(s), Pending(s, j), ~Pending(s, i)
        PROVE  ReadBefore(s, i, j)
    BY <1>3, <1>5, <1>6, <2>3 DEF PlanOK, Others
  <2>4. \A i, j \in Others(s) : ReadBefore(s, i, j) => GoalBefore(s, i, j)
    BY <1>5 DEF PlanOK, Others
  <2>5. \A i, j \in Others(s) : ReadBefore(s, i, j) /\ Pending(s, j) =>
          s.goal[i] < Step * Cardinality(s.shown)
    BY <1>3, <1>5 DEF PlanOK, Others
  <2> QED
    BY <2>1, <2>2, <2>3, <2>4, <2>5 DEF PlanOK
<1> QED
  BY <1>2, <1>3, <1>7, <1>8, <1>9 DEF h

LEMMA TailOfOne ==
  ASSUME NEW T, NEW s \in Seq(T), s # <<>>
  PROVE  Tail(s) \in Seq(T) /\ (Tail(s) = <<>> <=> Len(s) = 1)
<1>1. Tail(s) \in Seq(T) /\ Len(Tail(s)) = Len(s) - 1 /\ Len(s) \in Nat
  OBVIOUS
<1>2. \A t \in Seq(T) : t = <<>> <=> Len(t) = 0
  OBVIOUS
<1> QED
  BY <1>1, <1>2

LEMMA UpdateOrderKept ==
  ASSUME RequestsInv, NEW q \in Requests, UpdateOrder(q), History(Requests \ {q})
  PROVE  RequestsInv'
<1> DEFINE r == req[q]
           s == [req[q] EXCEPT !.todo = Tail(req[q].todo),
                               !.step = IF Len(req[q].todo) = 1 THEN "answer" ELSE "write"]
           h == r.todo[1][1]
           v == r.todo[1][2]
<1>1. r.step = "write" /\ r.op = "move" /\ req' = [req EXCEPT ![q] = s]
  <2>1. req[q].step = "write" /\ req[q].op = "move"
    BY DEF UpdateOrder
  <2>2. req' = [req EXCEPT ![q] = s]
    BY DEF UpdateOrder
  <2> QED
    BY <2>1, <2>2
<1>2. /\ r \in Request /\ r.todo \in Seq(Items \X Orders) /\ r.todo # <<>>
      /\ r.shown \in SUBSET Items /\ r.item \in Items /\ RequestOK(q)
  BY <1>1, RequestShape DEF RequestsInv, RequestsOK, RequestsTypeOK
<1>3. PlanOK(r) /\ ProgressOK(q)
  BY <1>1, <1>2 DEF RequestOK
<1>4. /\ h \in Items /\ v \in Orders /\ OnGrid(v)
      /\ order' = IF h \in There THEN [order EXCEPT ![h] = v] ELSE order
      /\ doc' = doc /\ There' = There /\ TypeOK /\ TypeOK'
  BY UpdateOrderFacts
<1>5. /\ s.todo = Tail(r.todo) /\ s.step = (IF Len(r.todo) = 1 THEN "answer" ELSE "write")
      /\ s.op = r.op /\ s.item = r.item /\ s.prev = r.prev /\ s.next = r.next
      /\ s.shown = r.shown /\ s.read = r.read /\ s.goal = r.goal
      /\ s.todo \in Seq(Items \X Orders) => s \in Request
  BY <1>2 DEF Request
<1>6. Tail(r.todo) \in Seq(Items \X Orders) /\ (Tail(r.todo) = <<>> <=> Len(r.todo) = 1)
  BY <1>2, TailOfOne
<1> HIDE DEF s, h, v
<1>7. /\ PlanOK(s)
      /\ \A k \in DOMAIN s.todo : k + 1 \in DOMAIN r.todo /\ s.todo[k] = r.todo[k + 1]
      /\ \A i : Pending(r, i) <=> i = h \/ Pending(s, i)
      /\ ~Pending(s, h) /\ h \in r.shown => v = r.goal[h]
      /\ Pending(s, h) => h = r.item
  BY <1>2, <1>3, <1>5, TailPlan DEF h, v
<1>8. req'[q] = s
  BY <1>1 DEF RequestsInv, RequestsTypeOK
<1>9. touched'[q] = touched[q]
  BY <1>5, <1>8, TouchedKept DEF RequestsInv
<1>10. \A i \in Items : order'[i] = IF i = h /\ h \in There THEN v ELSE order[i]
  BY <1>4 DEF TypeOK
<1>11. ProgressOK(q)'
  <2> SUFFICES ASSUME NEW i \in r.shown \ touched[q]
               PROVE  /\ i \in There
                      /\ ~Pending(s, i) => order'[i] = r.goal[i]
                      /\ i # r.item /\ Pending(s, i) => order'[i] = r.read[i]
    BY <1>4, <1>5, <1>8, <1>9 DEF ProgressOK, Untouched
  <2>1. /\ i \in There /\ i \in Items
        /\ ~Pending(r, i) => order[i] = r.goal[i]
        /\ i # r.item /\ Pending(r, i) => order[i] = r.read[i]
    BY <1>2, <1>3 DEF ProgressOK, Untouched
  <2> QED
    BY <1>7, <1>10, <2>1
<1>12. RequestOK(q)'
  BY <1>1, <1>2, <1>5, <1>7, <1>8, <1>11 DEF RequestOK
<1> QED
  BY <1>1, <1>4, <1>5, <1>6, <1>12, SetRequestKept

\* Steps of no request.
LEMMA DeleteItemKept ==
  ASSUME RequestsInv, NEW i \in Items, DeleteItem(i), UNCHANGED req, History(Requests)
  PROVE  RequestsInv'
<1>1. TypeOK' /\ i \in There /\ doc' = [doc EXCEPT ![i] = "deleted"]
  BY DeleteTyped DEF RequestsInv, RequestsTypeOK, DeleteItem
<1>2. /\ touched' \in [Requests -> SUBSET Items]
      /\ \A p \in Requests : req'[p].step \in {"write", "answer"} =>
           touched'[p] = touched[p] \cup Changed
  BY TouchedKept DEF RequestsInv
<1>3. ASSUME NEW p \in Requests PROVE RequestOK(p)'
  <2>1. req[p].step # "idle" /\ req[p].op = "create" =>
          doc'[req[p].item] = doc[req[p].item]
    <3> SUFFICES ASSUME req[p].step # "idle", req[p].op = "create"
                 PROVE  doc'[req[p].item] = doc[req[p].item]
      OBVIOUS
    <3>1. doc[req[p].item] = "unused" /\ req[p].item \in Items
      BY RequestShape DEF RequestsInv, RequestsOK, RequestOK, CreateOK
    <3> QED
      BY <1>1, <3>1 DEF There, RequestsInv, RequestsTypeOK, TypeOK
  <2> QED
    BY <1>2, <2>1, OtherKept
<1> QED
  BY <1>1, <1>2, <1>3 DEF RequestsInv, RequestsTypeOK, RequestsOK

LEMMA RequestsNextInv == RequestsInv /\ [RequestsNext]_request_vars => RequestsInv'
<1> SUFFICES ASSUME RequestsInv, [RequestsNext]_request_vars PROVE RequestsInv'
  OBVIOUS
<1>1. CASE UNCHANGED request_vars
  <2>1. UNCHANGED <<doc, order, req, touched>>
    BY <1>1 DEF request_vars, vars
  <2>2. TypeOK' /\ There' = There
    BY <2>1 DEF RequestsInv, RequestsTypeOK, TypeOK, There
  <2>3. RequestsTypeOK'
    BY <2>1, <2>2 DEF RequestsInv, RequestsTypeOK
  <2>4. RequestsOK'
    BY <2>1, <2>2 DEF RequestsInv, RequestsOK, RequestOK, CreateOK, ProgressOK, Untouched
  <2> QED
    BY <2>3, <2>4 DEF RequestsInv
<1>2. CASE (\A q \in Requests : At(q, "idle")) /\ Next /\ UNCHANGED <<req, touched>>
  <2>1. TypeOK'
    BY <1>2, NextTyped DEF RequestsInv, RequestsTypeOK
  <2> QED
    BY <1>2, <2>1 DEF RequestsInv, RequestsTypeOK, RequestsOK, RequestOK
<1>3. CASE \E i \in Items : DeleteItem(i) /\ UNCHANGED req /\ History(Requests)
  BY <1>3, DeleteItemKept
<1>4. ASSUME NEW q \in Requests, Call(q), History(Requests \ {q}) PROVE RequestsInv'
  BY <1>4, BeginCreateKept, BeginMoveKept, ListByListKept, PutItemKept, UpdateOrderKept,
     AnswerKept, FailKept DEF Call
<1> QED
  BY <1>1, <1>2, <1>3, <1>4 DEF RequestsNext

LEMMA RequestsInvariance == RequestsSpec => []RequestsInv
  BY RequestsInitInv, RequestsNextInv, PTL DEF RequestsSpec

----------------------------------------------------------------------------
\* What holds of requests that overlap.

\* Requests keep their shape, no two create the same item, and orders stay on
\* the grid whatever updates reach them in which order.
THEOREM RequestsTypeCorrect == RequestsSpec => []RequestsTypeOK
<1>1. RequestsInv => RequestsTypeOK
  BY DEF RequestsInv
<1> QED
  BY RequestsInvariance, <1>1, PTL

\* The calls of a move add up to the one step that ItemOrder has for it, for all
\* items that nobody else has changed: the renumbering, item by item, ends in the
\* orders of Compacted, with the moved item between the new orders of its
\* neighbours.
THEOREM GoalsReached == RequestsSpec => []MovesReachTheirGoal
<1>1. RequestsInv => MovesReachTheirGoal
  <2> SUFFICES ASSUME RequestsInv, NEW q \in Requests, req[q].step = "answer",
                      NEW i \in req[q].shown \ touched[q]
               PROVE  order[i] = req[q].goal[i]
    BY DEF MovesReachTheirGoal
  <2>1. RequestOK(q) /\ ProgressOK(q)
    BY RequestShape DEF RequestsInv, RequestsOK, RequestOK
  <2>2. req[q].todo = <<>>
    BY DEF RequestsInv, RequestsTypeOK
  <2>3. ~Pending(req[q], i)
    BY <2>2 DEF Pending
  <2> QED
    BY <2>1, <2>3 DEF ProgressOK, Untouched
<1> QED
  BY RequestsInvariance, <1>1, PTL

\* A list whose renumbering is interrupted, or still going on, is shown in the
\* order in which it was read, from the orders that a new list begins with.
THEOREM HalfRenumberedKeepsOrder == RequestsSpec => []HalfRenumberedInOrder
<1>1. ASSUME RequestsInv, NEW q \in Requests, req[q].step = "write",
             \A i \in req[q].shown : req[q].read[i] >= Step * Cardinality(req[q].shown),
             NEW i \in Untouched(q) \ {req[q].item}, NEW j \in Untouched(q) \ {req[q].item},
             ReadBefore(req[q], i, j)
      PROVE  Before(i, j)
  <2> DEFINE r == req[q]
  <2>1. /\ RequestOK(q) /\ r.op \in {"create", "move"} /\ r.shown \in SUBSET Items
        /\ r.read \in [Items -> Orders] /\ TypeOK
    BY <1>1, RequestShape DEF RequestsInv, RequestsOK, RequestsTypeOK
  <2>2. CASE r.op = "create"
    <3>1. order[i] = r.read[i] /\ order[j] = r.read[j]
      BY <1>1, <2>1, <2>2 DEF RequestOK, CreateOK
    <3> QED
      BY <1>1, <3>1 DEF ReadBefore, Before
  <2>3. CASE r.op = "move"
    <3>1. PlanOK(r) /\ ProgressOK(q)
      BY <1>1, <2>1, <2>3 DEF RequestOK
    <3>2. /\ i \in Others(r) /\ j \in Others(r) /\ j \in r.shown
          /\ Pending(r, i) => order[i] = r.read[i]
          /\ Pending(r, j) => order[j] = r.read[j]
          /\ ~Pending(r, i) => order[i] = r.goal[i]
          /\ ~Pending(r, j) => order[j] = r.goal[j]
      BY <1>1, <3>1 DEF ProgressOK, Untouched, Others
    <3> HIDE DEF r
    <3>3. CASE Pending(r, i) /\ Pending(r, j)
      BY <1>1, <3>2, <3>3 DEF ReadBefore, Before, r
    <3>4. CASE ~Pending(r, i) /\ ~Pending(r, j)
      <4>1. GoalBefore(r, i, j)
        BY <1>1, <3>1, <3>2 DEF PlanOK, r
      <4> QED
        BY <3>2, <3>4, <4>1 DEF GoalBefore, Before
    <3>5. CASE ~Pending(r, i) /\ Pending(r, j)
      <4>1. r.goal[i] < Step * Cardinality(r.shown)
        BY <1>1, <3>1, <3>2, <3>5 DEF PlanOK, r
      <4>2. r.read[j] >= Step * Cardinality(r.shown)
        BY <1>1, <3>2 DEF r
      <4>3. order[i] \in Int /\ order[j] \in Int /\ Step * Cardinality(r.shown) \in Int
        <5>1. Cardinality(r.shown) \in Nat
          BY <2>1, FS_Subset, FS_CardinalityType, ItemOrderAssumption DEF r
        <5> QED
          BY <2>1, <3>2, <5>1, Constants, Shape DEF Others, r
      <4> QED
        BY <3>2, <3>5, <4>1, <4>2, <4>3 DEF Before
    <3>6. CASE Pending(r, i) /\ ~Pending(r, j)
      <4>1. ReadBefore(r, j, i)
        BY <3>1, <3>2, <3>6 DEF PlanOK
      <4>2. i \in Items /\ j \in Items /\ ReadBefore(r, i, j)
        BY <1>1, <2>1, <3>2 DEF Others, r
      <4>3. r.read[i] \in Orders /\ r.read[j] \in Orders
        BY <2>1, <4>2 DEF r
      <4>4. Orders \subseteq Int /\ Items \subseteq Nat
        BY ItemOrderAssumption
      <4>5. r.read[i] \in Int /\ r.read[j] \in Int /\ i \in Nat /\ j \in Nat
        BY <4>2, <4>3, <4>4, Zenon
      <4> QED
        BY <4>1, <4>2, <4>5 DEF ReadBefore
    <3> QED
      BY <3>3, <3>4, <3>5, <3>6
  <2> QED
    BY <2>1, <2>2, <2>3
<1>2. RequestsInv => HalfRenumberedInOrder
  BY <1>1 DEF HalfRenumberedInOrder, Untouched, ReadBefore
<1> QED
  BY RequestsInvariance, <1>2, PTL

\* An item that is inserted comes after all that were read for it and are as
\* they were, however many requests came in between.
THEOREM NewItemsComeLast == RequestsSpec => NewItemsLast
<1> DEFINE Last == \A q \in Requests, x \in Items : PutItem(q) /\ x = req[q].item =>
                     \A i \in req[q].shown \ touched[q] : Before(i, x)'
<1>1. ASSUME RequestsInv, NEW q \in Requests, NEW x \in Items, x = req[q].item, PutItem(q),
             NEW i \in Untouched(q)
      PROVE  Before(i, x)'
  <2> DEFINE v == req[q].todo[1][2]
  <2>1. /\ x \in Items /\ x \notin There /\ v \in Orders /\ order' = [order EXCEPT ![x] = v]
        /\ CreateOK(q) /\ req[q].step = "write" /\ TypeOK
    BY <1>1, PutItemFacts DEF RequestsInv, RequestsTypeOK
  <2>2. i \in There /\ order[i] = req[q].read[i] /\ i \in req[q].shown
    BY <1>1, <2>1 DEF CreateOK, Untouched
  <2>3. order[i] < v
    BY <2>1, <2>2 DEF CreateOK
  <2>4. i \in Items /\ i # x
    BY <2>1, <2>2, Shape
  <2>5. order'[i] = order[i] /\ order'[x] = v
    BY <2>1, <2>4 DEF TypeOK
  <2> QED
    BY <2>3, <2>5 DEF Before
<1>2. RequestsInv => [Last]_request_vars
  BY <1>1 DEF Untouched
<1> QED
  BY <1>2, RequestsInvariance, PTL DEF NewItemsLast

\* Call by call, too, the items that a call is not about stay in their order:
\* a renumbering passes no item by another on its way, or only the one it writes.
THEOREM RequestsLeaveOthersInOrder == RequestsSpec => OthersKeepOrder
<1> DEFINE Kept == \E x \in Items : \A i, j \in (There \cap There') \ {x} :
                     Before(i, j) => Before(i, j)'
<1>1. ASSUME NEW x \in Items, \A i \in Items \ {x} : order'[i] = order[i] PROVE Kept
  BY <1>1 DEF Before, There
<1>2. ASSUME RequestsInv, NEW q \in Requests, Call(q) PROVE Kept \/ UNCHANGED vars
  <2>1. ASSUME PutItem(q) PROVE Kept
    <3>1. /\ req[q].item \in Items /\ TypeOK
          /\ order' = [order EXCEPT ![req[q].item] = req[q].todo[1][2]]
      BY <1>2, <2>1, PutItemFacts DEF RequestsInv, RequestsTypeOK
    <3>2. \A i \in Items \ {req[q].item} : order'[i] = order[i]
      BY <3>1 DEF TypeOK
    <3> QED
      BY <1>1, <3>1, <3>2
  <2>2. ASSUME UpdateOrder(q) PROVE Kept
    <3> DEFINE h == req[q].todo[1][1]
               v == req[q].todo[1][2]
    <3>1. h \in Items /\ TypeOK /\ order' = IF h \in There THEN [order EXCEPT ![h] = v] ELSE order
      BY <1>2, <2>2, UpdateOrderFacts
    <3> HIDE DEF h, v
    <3>2. \A i \in Items \ {h} : order'[i] = order[i]
      BY <3>1 DEF TypeOK
    <3> QED
      BY <1>1, <3>1, <3>2
  <2>3. ASSUME Fail(q) PROVE Kept
    <3>1. req[q].item \in Items /\ order' = order
      BY <1>2, <2>3, RequestShape DEF Fail, RequestsInv
    <3> QED
      BY <1>1, <3>1
  <2> QED
    BY <1>2, <2>1, <2>2, <2>3 DEF Call, BeginCreate, BeginMove, Begin, ListByList, Answer
<1>3. ASSUME RequestsInv, NEW i \in Items, DeleteItem(i) PROVE Kept
  <2>1. \A j \in Items \ {i} : order'[j] = order[j]
    BY <1>3 DEF DeleteItem, RequestsInv, RequestsTypeOK, TypeOK
  <2> QED
    BY <1>1, <2>1
<1>4. RequestsInv /\ [RequestsNext]_request_vars => [Kept]_vars
  <2> SUFFICES ASSUME RequestsInv, RequestsNext PROVE Kept \/ UNCHANGED vars
    BY DEF request_vars
  <2>1. TypeOK
    BY DEF RequestsInv, RequestsTypeOK
  <2>2. Next => Kept
    BY <2>1, OthersKept
  <2> QED
    BY <1>2, <1>3, <2>2 DEF RequestsNext
<1> QED
  BY <1>4, RequestsInvariance, PTL DEF RequestsSpec, OthersKeepOrder

\* Whole moves among requests in flight put their item between its neighbours.
THEOREM RequestsMoveWithinNeighbours == RequestsSpec => WithinNeighbours
<1> DEFINE Within == \A x \in There : \A p, n \in There \ {x} : Moves(x, p, n) =>
                       /\ order'[p] <= order'[x] /\ order'[x] <= order'[n]
                       /\ order'[n] < Coarse => order'[p] < order'[x] /\ order'[x] < order'[n]
<1>1. RequestsInv => [Within]_vars
  BY BetweenNeighbours DEF RequestsInv, RequestsTypeOK
<1> QED
  BY <1>1, RequestsInvariance, PTL DEF WithinNeighbours

\* They reach the ends of the list, as it is left by whatever went on before.
THEOREM RequestsReachEnds == RequestsSpec => EndsAreReached
<1> DEFINE Ends ==
      \A x \in There', now \in Clocks :
        /\ CreateItem(x, now) => \A i \in There : Before(i, x)'
        /\ \A p \in There \ {x} :
             (\A i \in There \ {x, p} : Before(i, p)) /\ UpdateItemPosition(x, p, None, now)
               => \A i \in There \ {x} : Before(i, x)'
        /\ \A n \in There \ {x} :
             (\A i \in There \ {x, n} : Before(n, i)) /\ UpdateItemPosition(x, None, n, now)
               => \A i \in There \ {x} : Before(x, i)'
<1>1. RequestsInv => [Ends]_vars
  BY AtTheEnds DEF RequestsInv, RequestsTypeOK
<1> QED
  BY <1>1, RequestsInvariance, PTL DEF EndsAreReached
=============================================================================
