---------------------------- MODULE NamesProofs ----------------------------
(***************************************************************************)
(* What machines make of nicknames, for every set of them.                 *)
(*                                                                         *)
(* The table of members: sorting it gives what Topology says, successors   *)
(* go round through everybody, and a change of membership redirects one    *)
(* machine.  The position of a nickname in the sorted table is the number  *)
(* of smaller nicknames; everything rests on its being a bijection.        *)
(*                                                                         *)
(* Presence: however the files spell nicknames, a launched machine knows   *)
(* itself and its peers in the datagrams that announce them, because a     *)
(* nickname has no separator in it and is in the spelling that is compared. *)
(***************************************************************************)
EXTENDS Names, RingTable, FiniteSetTheorems, SequenceTheorems, WellFoundedInduction, TLAPS

-----------------------------------------------------------------------------
\* Positions in the sorted table

Below(S, ap) == {m \in S : m < ap}
Rank(S, ap) == Cardinality(Below(S, ap))

\* Positions are ordered as nicknames are.
LEMMA RankOrder ==
  ASSUME NEW S \in SUBSET Nat, IsFiniteSet(S), NEW a \in S, NEW b \in S
  PROVE  /\ Rank(S, a) \in 0 .. Cardinality(S) - 1
         /\ a < b <=> Rank(S, a) < Rank(S, b)
         /\ a = b <=> Rank(S, a) = Rank(S, b)
<1>1. Cardinality(S) \in Nat
  BY FS_CardinalityType
<1>2. ASSUME NEW x \in S
      PROVE  Rank(S, x) \in 0 .. Cardinality(S) - 1
  <2>1. Below(S, x) \in SUBSET S /\ x \notin Below(S, x)
    BY DEF Below
  <2>2. IsFiniteSet(Below(S, x)) /\ Rank(S, x) <= Cardinality(S)
    BY <2>1, FS_Subset DEF Rank
  <2>3. Rank(S, x) # Cardinality(S)
    BY <2>1, FS_Subset DEF Rank
  <2>4. Rank(S, x) \in Nat
    BY <2>2, FS_CardinalityType DEF Rank
  <2>5. QED
    BY <1>1, <2>2, <2>3, <2>4
<1>3. ASSUME NEW x \in S, NEW y \in S, x < y
      PROVE  Rank(S, x) < Rank(S, y)
  <2>1. Below(S, x) \in SUBSET Below(S, y)
    <3>1. \A m \in S : m < x => m < y
      <4>1. TAKE m \in S
      <4>2. m \in Nat /\ x \in Nat /\ y \in Nat
        OBVIOUS
      <4>3. QED
        BY <1>3, <4>2
    <3>2. QED
      BY <3>1 DEF Below
  <2>2. x \in Below(S, y) /\ x \notin Below(S, x)
    BY <1>3 DEF Below
  <2>3. IsFiniteSet(Below(S, y))
    BY FS_Subset DEF Below
  <2>4. Rank(S, x) <= Rank(S, y) /\ Rank(S, x) # Rank(S, y)
    BY <2>1, <2>2, <2>3, FS_Subset DEF Rank
  <2>5. QED
    BY <1>1, <1>2, <2>4
<1>4. a \in Nat /\ b \in Nat /\ Rank(S, a) \in Int /\ Rank(S, b) \in Int
  BY <1>1, <1>2
<1>5. (a < b => Rank(S, a) < Rank(S, b)) /\ (b < a => Rank(S, b) < Rank(S, a))
  BY <1>3
<1>6. QED
  BY <1>2, <1>4, <1>5

LEMMA SameRank ==
  ASSUME NEW S \in SUBSET Nat, IsFiniteSet(S), NEW a \in S, NEW b \in S,
         Rank(S, a) = Rank(S, b)
  PROVE  a = b
BY RankOrder

\* Every position is somebody's.
LEMMA RankOnto ==
  ASSUME NEW S \in SUBSET Nat, IsFiniteSet(S), NEW i \in 0 .. Cardinality(S) - 1
  PROVE  \E a \in S : Rank(S, a) = i
<1> DEFINE f == [a \in S |-> Rank(S, a)]
           T == 0 .. Cardinality(S) - 1
<1>1. Cardinality(S) \in Nat
  BY FS_CardinalityType
<1>2. IsFiniteSet(T) /\ Cardinality(T) = Cardinality(S)
  BY <1>1, FS_Interval
<1>3. f \in [S -> T] /\ \A a, b \in S : f[a] = f[b] => a = b
  BY RankOrder
<1>4. f \in Injection(S, T)
  BY <1>3 DEF Injection, IsInjective
<1>5. f \in Surjection(S, T)
  BY <1>2, <1>4, FS_Injection
<1>6. QED
  BY <1>5 DEF Surjection

-----------------------------------------------------------------------------
\* The successor

\* A nonempty set of naturals has a first one.
LEMMA FirstOf ==
  ASSUME NEW S \in SUBSET Nat, S # {}
  PROVE  \E x \in S : \A y \in S : x <= y
<1> DEFINE lt == {p \in Nat \X Nat : p[1] < p[2]}
<1>1. IsWellFoundedOn(lt, Nat)
  BY NatLessThanWellFounded, Zenon DEF OpToRel
<1>2. PICK x \in S : \A y \in S : ~ (<<y, x>> \in lt)
  BY <1>1, WFMin
<1>3. \A y \in S : x <= y
  <2>1. TAKE y \in S
  <2>2. x \in Nat /\ y \in Nat /\ (y < x => <<y, x>> \in lt)
    OBVIOUS
  <2>3. QED
    BY <1>2, <2>2
<1>4. QED
  BY <1>3

\* The smallest element of a set, when there is one.
LEMMA MinIs ==
  ASSUME NEW S \in SUBSET Nat, NEW x \in S, \A y \in S : x <= y
  PROVE  Min(S) = x
<1>1. \A z \in S : (\A y \in S : z <= y) => z = x
  <2>1. TAKE z \in S
  <2>2. HAVE \A y \in S : z <= y
  <2>3. z <= x /\ x <= z /\ z \in Nat /\ x \in Nat
    BY <2>2
  <2>4. QED
    BY <2>3
<1>2. QED
  BY <1>1 DEF Min

\* The position after this one, or the first one.
Following(S, r) == IF r + 1 < Cardinality(S) THEN r + 1 ELSE 0

\* Ring.successor: the member at the next position, or at the first one.
LEMMA SuccessorRank ==
  ASSUME NEW S \in SUBSET Nat, IsFiniteSet(S), NEW a \in S
  PROVE  /\ Successor(S, a) \in S
         /\ Rank(S, Successor(S, a)) = Following(S, Rank(S, a))
<1>1. Cardinality(S) \in Nat /\ Rank(S, a) \in 0 .. Cardinality(S) - 1
  BY FS_CardinalityType, RankOrder
<1>2. Following(S, Rank(S, a)) \in 0 .. Cardinality(S) - 1
  BY <1>1 DEF Following
<1>3. PICK b \in S : Rank(S, b) = Following(S, Rank(S, a))
  BY <1>2, RankOnto
<1>4. \A y \in S : Rank(S, y) \in Nat /\ Rank(S, y) < Cardinality(S)
  BY <1>1, RankOrder
<1>5. CASE Rank(S, a) + 1 < Cardinality(S)
  <2>1. a < b
    BY <1>1, <1>3, <1>5, RankOrder DEF Following
  <2>2. \A y \in After(S, a) : b <= y
    <3>1. TAKE y \in After(S, a)
    <3>2. y \in S /\ Rank(S, a) < Rank(S, y)
      BY RankOrder DEF After
    <3>3. ~(Rank(S, y) < Rank(S, b))
      BY <1>1, <1>3, <1>4, <1>5, <3>2 DEF Following
    <3>4. QED
      BY <3>2, <3>3, RankOrder
  <2>3. Min(After(S, a)) = b
    BY <2>1, <2>2, MinIs DEF After
  <2>4. QED
    BY <1>3, <2>1, <2>3 DEF Successor, After
<1>6. CASE ~(Rank(S, a) + 1 < Cardinality(S))
  <2>1. After(S, a) = {}
    <3>1. \A y \in S : ~(Rank(S, a) < Rank(S, y))
      BY <1>1, <1>4, <1>6
    <3>2. \A y \in S : ~(a < y)
      BY <3>1, RankOrder
    <3>3. QED
      BY <3>2 DEF After
  <2>2. \A y \in S : b <= y
    <3>1. TAKE y \in S
    <3>2. ~(Rank(S, y) < Rank(S, b))
      BY <1>3, <1>4, <1>6 DEF Following
    <3>3. QED
      BY <3>2, RankOrder
  <2>3. Min(S) = b
    BY <2>2, MinIs
  <2>4. QED
    BY <1>3, <2>1, <2>3 DEF Successor
<1>7. QED
  BY <1>5, <1>6

\* Two members never have the same successor.
LEMMA SuccessorsDiffer ==
  ASSUME NEW S \in SUBSET Nat, IsFiniteSet(S), NEW a \in S, NEW b \in S,
         Successor(S, a) = Successor(S, b)
  PROVE  a = b
<1>1. Cardinality(S) \in Nat
  BY FS_CardinalityType
<1>2. Following(S, Rank(S, a)) = Following(S, Rank(S, b))
  BY SuccessorRank
<1>3. Rank(S, a) \in 0 .. Cardinality(S) - 1 /\ Rank(S, b) \in 0 .. Cardinality(S) - 1
  BY RankOrder
<1>4. Rank(S, a) = Rank(S, b)
  BY <1>1, <1>2, <1>3 DEF Following
<1>5. QED
  BY <1>4, RankOrder

-----------------------------------------------------------------------------
\* The table

TableInv == members \in SUBSET Apelido /\ Me \in members

LEMMA TableFacts ==
  ASSUME TableInv
  PROVE  /\ members \in SUBSET Nat /\ IsFiniteSet(members)
         /\ Cardinality(members) \in Nat \ {0}
<1>1. members \in SUBSET Nat /\ IsFiniteSet(members) /\ members # {}
  BY RingTableAssumption, FS_Subset DEF TableInv
<1>2. QED
  BY <1>1, FS_CardinalityType, FS_EmptySet

\* Ring.order: at every position the member of that rank.
LEMMA OrderIs ==
  ASSUME TableInv
  PROVE  /\ DOMAIN Order = 1 .. Cardinality(members) /\ Len(Order) = Cardinality(members)
         /\ \A i \in DOMAIN Order : Order[i] \in members /\ Rank(members, Order[i]) = i - 1
         /\ \A a \in members : Rank(members, a) + 1 \in DOMAIN Order
                               /\ Order[Rank(members, a) + 1] = a
<1> DEFINE n == Cardinality(members)
<1>1. members \in SUBSET Nat /\ IsFiniteSet(members) /\ n \in Nat
  BY TableFacts
<1>2. Order = [i \in 1 .. n |-> CHOOSE ap \in members : Rank(members, ap) = i - 1]
  BY DEF Order, Rank, Below
<1> HIDE DEF n
<1>3. DOMAIN Order = 1 .. n /\ Len(Order) = n
  BY <1>1, <1>2
<1>4. ASSUME NEW i \in 1 .. n
      PROVE  Order[i] \in members /\ Rank(members, Order[i]) = i - 1
  <2>1. \E a \in members : Rank(members, a) = i - 1
    BY <1>1, RankOnto DEF n
  <2>2. QED
    BY <1>2, <2>1
<1>5. ASSUME NEW a \in members
      PROVE  Rank(members, a) + 1 \in 1 .. n /\ Order[Rank(members, a) + 1] = a
  <2> DEFINE i == Rank(members, a) + 1
  <2>1. Rank(members, a) \in 0 .. n - 1
    BY <1>1, RankOrder DEF n
  <2>2. i \in 1 .. n /\ i - 1 = Rank(members, a)
    BY <1>1, <2>1
  <2>3. Order[i] \in members /\ Rank(members, Order[i]) = Rank(members, a)
    BY <1>4, <2>2
  <2>4. QED
    BY <1>1, <2>2, <2>3, RankOrder
<1>6. QED
  BY <1>3, <1>4, <1>5 DEF n

\* Ring.successor as it is coded is the one of Topology.
LEMMA CodedIs ==
  ASSUME TableInv, NEW a \in members
  PROVE  CodedSuccessor(a) = Successor(members, a)
<1> DEFINE n == Cardinality(members)
           j == CHOOSE i \in DOMAIN Order : Order[i] = a
<1>1. members \in SUBSET Nat /\ IsFiniteSet(members) /\ n \in Nat \ {0}
  BY TableFacts
<1>2. j \in DOMAIN Order /\ Order[j] = a
  BY OrderIs
<1>3. CodedSuccessor(a) = Order[(j % Len(Order)) + 1]
  BY DEF CodedSuccessor
<1> HIDE DEF n, j
<1>4. j \in 1 .. n /\ Len(Order) = n /\ Rank(members, a) = j - 1
  BY <1>2, OrderIs DEF n
<1>5. j % n = IF j < n THEN j ELSE 0
  BY <1>1, <1>4
<1>6. j % n = Following(members, Rank(members, a)) /\ (j % n) + 1 \in 1 .. n
  BY <1>1, <1>4, <1>5 DEF Following, n
<1>7. CodedSuccessor(a) \in members /\ Rank(members, CodedSuccessor(a)) = j % n
  BY <1>1, <1>3, <1>4, <1>5, <1>6, OrderIs DEF n
<1>8. /\ Successor(members, a) \in members
      /\ Rank(members, Successor(members, a)) = j % n
  BY <1>1, <1>6, SuccessorRank
<1>9. \A x, y \in members : Rank(members, x) = Rank(members, y) => x = y
  BY <1>1, SameRank
<1>10. QED
  BY <1>7, <1>8, <1>9

-----------------------------------------------------------------------------
\* The way round

\* The position k places after position r.
Ahead(r, k) == IF r + k < Cardinality(members) THEN r + k ELSE r + k - Cardinality(members)

\* Passing on k times from one member leads k positions further.
LEMMA WayRound ==
  ASSUME TableInv, NEW ap \in members, NEW walk,
         walk = [k \in 0 .. Cardinality(members) |->
                   IF k = 0 THEN ap ELSE CodedSuccessor(walk[k - 1])]
  PROVE  \A k \in 0 .. Cardinality(members) :
           /\ walk[k] \in members
           /\ Rank(members, walk[k]) = Ahead(Rank(members, ap), k)
<1> DEFINE n == Cardinality(members)
           r == Rank(members, ap)
           Good(k) == walk[k] \in members /\ Rank(members, walk[k]) = Ahead(r, k)
           Bad == {k \in 0 .. n : ~Good(k)}
<1>1. members \in SUBSET Nat /\ IsFiniteSet(members) /\ n \in Nat \ {0} /\ r \in 0 .. n - 1
  BY TableFacts, RankOrder
<1>2. walk[0] = ap /\ \A k \in 1 .. n : walk[k] = CodedSuccessor(walk[k - 1])
  <2>1. \A k \in 0 .. n : walk[k] = IF k = 0 THEN ap ELSE CodedSuccessor(walk[k - 1])
    OBVIOUS
  <2>2. QED
    BY <1>1, <2>1
<1>3. Good(0)
  BY <1>1, <1>2 DEF Ahead
<1>4. ASSUME NEW k \in 1 .. n, Good(k - 1)
      PROVE  Good(k)
  <2>1. walk[k] = Successor(members, walk[k - 1])
    BY <1>2, <1>4, CodedIs
  <2>2. walk[k] \in members /\ Rank(members, walk[k]) = Following(members, Ahead(r, k - 1))
    BY <1>1, <1>4, <2>1, SuccessorRank
  <2>3. Following(members, Ahead(r, k - 1)) = Ahead(r, k)
    BY <1>1 DEF Following, Ahead
  <2>4. QED
    BY <2>2, <2>3
<1> HIDE DEF Good
<1>5. Bad = {}
  <2>1. SUFFICES ASSUME Bad # {}
                 PROVE  FALSE
    OBVIOUS
  <2>2. Bad \in SUBSET Nat
    BY <1>1
  <2>3. PICK k \in Bad : \A i \in Bad : k <= i
    BY <2>1, <2>2, FirstOf
  <2>4. k \in 1 .. n /\ k - 1 \in 0 .. n /\ ~(k <= k - 1)
    BY <1>1, <1>3, <2>3
  <2>5. Good(k - 1)
    BY <2>3, <2>4
  <2>6. QED
    BY <1>4, <2>3, <2>4, <2>5
<1>6. QED
  BY <1>5 DEF Good

\* Such a walk there is.
LEMMA WalkExists ==
  ASSUME TableInv, NEW ap \in members
  PROVE  \E walk : walk = [k \in 0 .. Cardinality(members) |->
                            IF k = 0 THEN ap ELSE CodedSuccessor(walk[k - 1])]
<1> DEFINE n == Cardinality(members)
           r == Rank(members, ap)
           walk == [k \in 0 .. n |-> Order[Ahead(r, k) + 1]]
           next == [k \in 0 .. n |-> IF k = 0 THEN ap ELSE CodedSuccessor(walk[k - 1])]
<1>1. members \in SUBSET Nat /\ IsFiniteSet(members) /\ n \in Nat \ {0} /\ r \in 0 .. n - 1
  BY TableFacts, RankOrder
<1>2. \A k \in 0 .. n : Ahead(r, k) \in 0 .. n - 1
  BY <1>1 DEF Ahead
<1>3. DOMAIN Order = 1 .. n /\ \A i \in DOMAIN Order :
        Order[i] \in members /\ Rank(members, Order[i]) = i - 1
  BY OrderIs
<1>4. \A k \in 0 .. n : walk[k] \in members /\ Rank(members, walk[k]) = Ahead(r, k)
  <2>1. TAKE k \in 0 .. n
  <2>2. Ahead(r, k) + 1 \in DOMAIN Order /\ (Ahead(r, k) + 1) - 1 = Ahead(r, k)
    BY <1>1, <1>2, <1>3
  <2>3. walk[k] = Order[Ahead(r, k) + 1]
    OBVIOUS
  <2>4. QED
    BY <1>3, <2>2, <2>3
<1>5. walk[0] = ap
  <2>1. Ahead(r, 0) = r
    BY <1>1 DEF Ahead
  <2>2. QED
    BY <1>1, <2>1, OrderIs
<1>6. \A x, y \in members : Rank(members, x) = Rank(members, y) => x = y
  BY <1>1, SameRank
<1>7. ASSUME NEW k \in 1 .. n
      PROVE  walk[k] = CodedSuccessor(walk[k - 1])
  <2>1. k - 1 \in 0 .. n /\ k \in 0 .. n
    BY <1>1
  <2>2. walk[k - 1] \in members /\ Rank(members, walk[k - 1]) = Ahead(r, k - 1)
    BY <1>4, <2>1
  <2>3. /\ CodedSuccessor(walk[k - 1]) \in members
        /\ Rank(members, CodedSuccessor(walk[k - 1])) = Following(members, Ahead(r, k - 1))
    BY <1>1, <2>2, CodedIs, SuccessorRank
  <2>4. Following(members, Ahead(r, k - 1)) = Ahead(r, k)
    BY <1>1 DEF Following, Ahead
  <2>5. walk[k] \in members /\ Rank(members, walk[k]) = Ahead(r, k)
    BY <1>4, <2>1
  <2> HIDE DEF walk
  <2>6. QED
    BY <1>6, <2>3, <2>4, <2>5
<1>8. \A k \in 0 .. n : walk[k] = next[k]
  <2>1. TAKE k \in 0 .. n
  <2>2. k = 0 \/ k \in 1 .. n
    BY <1>1
  <2>3. next[k] = IF k = 0 THEN ap ELSE CodedSuccessor(walk[k - 1])
    OBVIOUS
  <2> HIDE DEF walk, next
  <2>4. QED
    BY <1>5, <1>7, <2>2, <2>3
<1>9. walk = next
  BY <1>8
<1>10. QED
  BY <1>9

-----------------------------------------------------------------------------
\* Members that come and go

\* The successor is the only member with nobody in between.
LEMMA SuccessorIs ==
  ASSUME NEW S \in SUBSET Nat, IsFiniteSet(S), NEW a \in S, NEW s \in S
  PROVE  s = Successor(S, a) <=>
           \/ a < s /\ \A y \in S : a < y => s <= y
           \/ \A y \in S : y <= a /\ s <= y
<1> DEFINE Is(x) == \/ a < x /\ \A y \in S : a < y => x <= y
                    \/ \A y \in S : y <= a /\ x <= y
<1>1. \A x, z \in S : Is(x) /\ Is(z) => x = z
  <2>1. TAKE x \in S, z \in S
  <2>2. x \in Nat /\ z \in Nat /\ a \in Nat
    OBVIOUS
  <2>3. QED
    BY <2>2
<1>2. Is(Successor(S, a))
  <2> DEFINE t == Successor(S, a)
             r == Rank(S, a)
  <2>1. t \in S /\ Rank(S, t) = Following(S, r)
    BY SuccessorRank
  <2> HIDE DEF t
  <2>2. Cardinality(S) \in Nat /\ \A y \in S : Rank(S, y) \in 0 .. Cardinality(S) - 1
    BY FS_CardinalityType, RankOrder
  <2>3. CASE r + 1 < Cardinality(S)
    <3>1. r < Rank(S, t) /\ \A y \in S : r < Rank(S, y) => ~(Rank(S, y) < Rank(S, t))
      BY <2>1, <2>2, <2>3 DEF Following
    <3>2. a < t /\ \A y \in S : a < y => ~(y < t)
      BY <2>1, <3>1, RankOrder
    <3>3. \A y \in S : y \in Nat /\ t \in Nat
      BY <2>1
    <3>4. QED
      BY <3>2, <3>3 DEF t
  <2>4. CASE ~(r + 1 < Cardinality(S))
    <3>1. \A y \in S : ~(r < Rank(S, y)) /\ ~(Rank(S, y) < Rank(S, t))
      BY <2>1, <2>2, <2>4 DEF Following
    <3>2. \A y \in S : ~(a < y) /\ ~(y < t)
      BY <2>1, <3>1, RankOrder
    <3>3. \A y \in S : y \in Nat /\ t \in Nat /\ a \in Nat
      BY <2>1
    <3>4. QED
      BY <3>2, <3>3 DEF t
  <2>5. QED
    BY <2>3, <2>4
<1>3. Successor(S, a) \in S
  BY SuccessorRank
<1> HIDE DEF Is
<1>4. s = Successor(S, a) <=> Is(s)
  BY <1>1, <1>2, <1>3
<1>5. QED
  BY <1>4 DEF Is

\* Of two tables that differ by one member, a member has different
\* successors only if that member is its successor.
LEMMA OnlyBefore ==
  ASSUME NEW S \in SUBSET Nat, IsFiniteSet(S), NEW x \in Nat, NEW a \in S,
         Successor(S \cup {x}, a) # Successor(S, a)
  PROVE  Successor(S \cup {x}, a) = x
<1> DEFINE T == S \cup {x}
           t == Successor(T, a)
<1>1. T \in SUBSET Nat /\ IsFiniteSet(T) /\ a \in T
  BY FS_AddElement
<1>2. t \in T
  BY <1>1, SuccessorRank
<1> HIDE DEF T
<1>3. t = Successor(T, a)
  OBVIOUS
<1> HIDE DEF t
<1>4. \/ a < t /\ \A y \in T : a < y => t <= y
      \/ \A y \in T : y <= a /\ t <= y
  BY <1>1, <1>2, <1>3, SuccessorIs
<1>5. ASSUME t \in S
      PROVE  t = Successor(S, a)
  <2>1. \/ a < t /\ \A y \in S : a < y => t <= y
        \/ \A y \in S : y <= a /\ t <= y
    BY <1>4 DEF T
  <2>2. QED
    BY <1>5, <2>1, SuccessorIs
<1>6. QED
  BY <1>2, <1>5, <1>3 DEF T

\* So only one member is redirected.
LEMMA OneIsRedirected ==
  ASSUME NEW S \in SUBSET Nat, IsFiniteSet(S), NEW x \in Nat
  PROVE  Cardinality({a \in S : Successor(S \cup {x}, a) # Successor(S, a)}) <= 1
<1> DEFINE D == {a \in S : Successor(S \cup {x}, a) # Successor(S, a)}
<1>1. \A a, b \in D : a = b
  <2>1. TAKE a \in D, b \in D
  <2>2. Successor(S \cup {x}, a) = x /\ Successor(S \cup {x}, b) = x
    BY OnlyBefore
  <2>3. S \cup {x} \in SUBSET Nat /\ IsFiniteSet(S \cup {x})
    BY FS_AddElement
  <2>4. QED
    BY <2>2, <2>3, SuccessorsDiffer
<1>2. D = {} \/ \E a : D = {a}
  BY <1>1
<1>3. Cardinality({}) = 0 /\ \A a : Cardinality({a}) = 1
  BY FS_EmptySet, FS_Singleton
<1>4. Cardinality(D) = 0 \/ Cardinality(D) = 1
  BY <1>2, <1>3
<1>5. QED
  BY <1>4

-----------------------------------------------------------------------------
\* Theorems

\* A machine is always in its own table (start, _remove_member), which has
\* known nicknames only.
THEOREM TableInvariant == Spec => []TableInv
<1>1. Init => TableInv
  BY RingTableAssumption DEF Init, TableInv
<1>2. TableInv /\ [Next]_members => TableInv'
  BY DEF TableInv, Next, UpdateEntry, RemoveEntry
<1>3. QED
  BY <1>1, <1>2, PTL DEF Spec

\* What Ring.successor and Ring.controller_apelido compute by sorting are the
\* closed forms all the other modules use.
THEOREM SortingAgrees == Spec => []ClosedFormsAgree
<1>1. TableInv => ClosedFormsAgree
  <2>1. SUFFICES ASSUME TableInv
                 PROVE  ClosedFormsAgree
    OBVIOUS
  <2>2. members \in SUBSET Nat /\ IsFiniteSet(members) /\ Cardinality(members) \in Nat \ {0}
    BY <2>1, TableFacts
  <2>3. Order[1] \in members /\ Rank(members, Order[1]) = 0
    BY <2>1, <2>2, OrderIs
  <2>4. \A y \in members : Order[1] <= y
    <3>1. TAKE y \in members
    <3>2. Rank(members, y) \in 0 .. Cardinality(members) - 1
      BY <2>2, RankOrder
    <3>3. ~(Rank(members, y) < Rank(members, Order[1]))
      BY <2>2, <2>3, <3>2
    <3>4. ~(y < Order[1]) /\ y \in Nat /\ Order[1] \in Nat
      BY <2>2, <2>3, <3>3, RankOrder
    <3>5. QED
      BY <3>4
  <2>5. Min(members) = Order[1]
    BY <2>2, <2>3, <2>4, MinIs
  <2>6. QED
    BY <2>1, <2>5, CodedIs DEF ClosedFormsAgree, ControllerApelido, CodedController
<1>2. QED
  BY <1>1, TableInvariant, PTL

\* What every machine passes on to its successor visits all the members of a
\* table once, and comes back, however many they are.
THEOREM RingIsOneCycle == Spec => []OneCycle
<1>1. TableInv => OneCycle
  <2>1. SUFFICES ASSUME TableInv, NEW ap \in members
                 PROVE  LET after[k \in 0 .. Cardinality(members)] ==
                              IF k = 0 THEN ap ELSE CodedSuccessor(after[k - 1])
                        IN /\ {after[k] : k \in 1 .. Cardinality(members)} = members
                           /\ after[Cardinality(members)] = ap
    BY DEF OneCycle
  <2> DEFINE n == Cardinality(members)
             r == Rank(members, ap)
             IsWalk(w) == w = [k \in 0 .. n |-> IF k = 0 THEN ap ELSE CodedSuccessor(w[k - 1])]
             after == CHOOSE w : IsWalk(w)
  <2>2. IsWalk(after)
    <3>1. \E w : IsWalk(w)
      BY <2>1, WalkExists
    <3> HIDE DEF IsWalk
    <3>2. QED
      BY <3>1
  <2>3. \A k \in 0 .. n : after[k] \in members /\ Rank(members, after[k]) = Ahead(r, k)
    <3> HIDE DEF after
    <3>1. QED
      BY <2>1, <2>2, WayRound
  <2>4. members \in SUBSET Nat /\ IsFiniteSet(members) /\ n \in Nat \ {0} /\ r \in 0 .. n - 1
    BY <2>1, TableFacts, RankOrder
  <2>5. \A x, y \in members : Rank(members, x) = Rank(members, y) => x = y
    BY <2>4, SameRank
  <2>6. after[n] = ap
    <3> HIDE DEF after
    <3>1. Ahead(r, n) = r /\ n \in 0 .. n
      BY <2>4 DEF Ahead
    <3>2. after[n] \in members /\ Rank(members, after[n]) = Rank(members, ap)
      BY <2>3, <3>1
    <3>3. QED
      BY <2>5, <3>2
  <2>7. ASSUME NEW b \in members
        PROVE  \E k \in 1 .. n : after[k] = b
    <3> HIDE DEF after
    <3> DEFINE q == Rank(members, b)
               k == IF q > r THEN q - r ELSE q - r + n
    <3>1. q \in 0 .. n - 1
      BY <2>4, RankOrder
    <3> HIDE DEF q, r, n
    <3>2. k \in 1 .. n /\ k \in 0 .. n /\ Ahead(r, k) = q
      BY <2>4, <3>1 DEF Ahead, n
    <3>3. after[k] \in members /\ Rank(members, after[k]) = Rank(members, b)
      BY <2>3, <3>2 DEF q
    <3>4. after[k] = b
      BY <2>5, <3>3
    <3>5. QED
      BY <3>2, <3>4
  <2>8. \A k \in 1 .. n : after[k] \in members
    <3> HIDE DEF after
    <3>1. \A k \in 1 .. n : k \in 0 .. n
      BY <2>4
    <3>2. QED
      BY <2>3, <3>1
  <2>9. {after[k] : k \in 1 .. n} = members
    <3> HIDE DEF after
    <3>1. QED
      BY <2>7, <2>8
  <2>10. QED
    BY <2>6, <2>9
<1>2. QED
  BY <1>1, TableInvariant, PTL

\* A member that comes or goes changes the successor of one other member at
\* most: what is in flight to the others goes where it would have gone
\* (update, remove).
THEOREM RedirectsOne == Spec => OneRedirected
<1> DEFINE Changed == {ap \in members \cap members' :
                         Successor(members, ap) # Successor(members', ap)}
<1>1. ASSUME TableInv, Next
      PROVE  Cardinality(Changed) <= 1
  <2>1. members \in SUBSET Nat /\ IsFiniteSet(members) /\ Apelido \subseteq Nat
    BY <1>1, TableFacts, RingTableAssumption
  <2>2. PICK ap \in Apelido : UpdateEntry(ap) \/ RemoveEntry(ap)
    BY <1>1 DEF Next
  <2>3. CASE UpdateEntry(ap)
    <3>1. members' = members \cup {ap}
      BY <2>3 DEF UpdateEntry
    <3>2. Changed = {a \in members : Successor(members \cup {ap}, a) # Successor(members, a)}
      BY <3>1
    <3>3. QED
      BY <2>1, <3>2, OneIsRedirected
  <2>4. CASE RemoveEntry(ap)
    <3> DEFINE S == members \ {ap}
    <3>1. members' = S
      BY <2>4 DEF RemoveEntry
    <3>2. S \in SUBSET Nat /\ IsFiniteSet(S) /\ ap \in Nat
      BY <2>1, FS_RemoveElement
    <3>3. CASE ap \in members
      <4>1. S \cup {ap} = members
        BY <3>3
      <4>2. Changed = {a \in S : Successor(S \cup {ap}, a) # Successor(S, a)}
        BY <3>1, <4>1
      <4>3. QED
        BY <3>2, <4>2, OneIsRedirected
    <3>4. CASE ap \notin members
      <4>1. Changed = {}
        BY <3>1, <3>4
      <4>2. QED
        BY <4>1, FS_EmptySet
    <3>5. QED
      BY <3>3, <3>4
  <2>5. QED
    BY <2>2, <2>3, <2>4
<1>2. TableInv /\ [Next]_members => [Cardinality(Changed) <= 1]_members
  BY <1>1
<1>3. QED
  BY <1>2, TableInvariant, PTL DEF Spec, OneRedirected

-----------------------------------------------------------------------------
\* What a machine takes from its files

\* A nonempty finite set of naturals has a last one.
LEMMA MaxIs ==
  ASSUME NEW S \in SUBSET Nat, IsFiniteSet(S), S # {}
  PROVE  Max(S) \in S /\ \A y \in S : Max(S) >= y
<1>1. Cardinality(S) \in Nat /\ Cardinality(S) # 0
  BY FS_CardinalityType, FS_EmptySet
<1>2. Cardinality(S) - 1 \in 0 .. Cardinality(S) - 1
  BY <1>1
<1>3. PICK x \in S : Rank(S, x) = Cardinality(S) - 1
  BY <1>2, RankOnto
<1>4. \A y \in S : x >= y
  <2>1. TAKE y \in S
  <2>2. Rank(S, y) \in 0 .. Cardinality(S) - 1 /\ (x < y => Rank(S, x) < Rank(S, y))
    BY RankOrder
  <2>3. x \in Nat /\ y \in Nat
    OBVIOUS
  <2>4. QED
    BY <1>1, <1>3, <2>2, <2>3
<1>5. QED
  BY <1>4 DEF Max

LEMMA StripIs ==
  ASSUME NEW line \in Seq(Symbols)
  PROVE  Strip(line) \in Seq(Symbols)
<1> DEFINE ink == {i \in DOMAIN line : line[i] # BLANK}
<1>1. CASE ink = {}
  BY <1>1, EmptySeq DEF Strip
<1>2. CASE ink # {}
  <2>1. DOMAIN line = 1 .. Len(line) /\ Len(line) \in Nat
    BY LenProperties
  <2>2. IsFiniteSet(1 .. Len(line)) /\ ink \in SUBSET (1 .. Len(line))
    BY <2>1, FS_Interval
  <2>3. IsFiniteSet(ink) /\ ink \in SUBSET Nat
    BY <2>1, <2>2, FS_Subset
  <2> HIDE DEF ink
  <2>4. Max(ink) \in ink
    BY <1>2, <2>3, MaxIs
  <2>5. Min(ink) \in ink
    <3>1. PICK x \in ink : \A y \in ink : x <= y
      BY <1>2, <2>3, FirstOf
    <3>2. Min(ink) = x
      BY <2>3, <3>1, MinIs
    <3>3. QED
      BY <3>2
  <2>6. Min(ink) \in 1 .. Len(line) /\ Max(ink) \in 1 .. Len(line)
    BY <2>2, <2>4, <2>5
  <2> DEFINE a == Min(ink)
             b == Max(ink)
  <2> HIDE DEF a, b
  <2>7. a \in Int /\ b \in Int /\ \A i \in a .. b : i \in 1 .. Len(line)
    <3>1. a \in 1 .. Len(line) /\ b \in 1 .. Len(line)
      BY <2>6 DEF a, b
    <3>2. QED
      BY <2>1, <3>1
  <2>8. SubSeq(line, a, b) \in Seq(Symbols)
    <3>1. \A i \in a .. b : line[i] \in Symbols
      BY <2>7, ElementOfSeq
    <3>2. QED
      BY <2>7, <3>1, SubSeqProperties
  <2>9. QED
    BY <1>2, <2>8 DEF Strip, a, b, ink
<1>3. QED
  BY <1>1, <1>2

LEMMA FirstUsefulLine ==
  ASSUME NEW lines \in Seq(Seq(Symbols)), Cardinality(Useful(lines)) >= 5
  PROVE  UsefulLine(lines, 1) \in Seq(Symbols)
<1> DEFINE S == Useful(lines)
<1>1. DOMAIN lines = 1 .. Len(lines) /\ Len(lines) \in Nat
  BY LenProperties
<1>2. IsFiniteSet(1 .. Len(lines)) /\ S \in SUBSET (1 .. Len(lines))
  BY <1>1, FS_Interval DEF Useful
<1>3. IsFiniteSet(S) /\ S \in SUBSET Nat
  BY <1>1, <1>2, FS_Subset
<1>4. Cardinality(S) \in Nat /\ Cardinality(S) >= 5
  BY <1>3, FS_CardinalityType
<1> HIDE DEF S
<1>5. PICK first \in S : Rank(S, first) = 0
  <2>1. 0 \in 0 .. Cardinality(S) - 1
    BY <1>4
  <2>2. QED
    BY <1>3, <2>1, RankOnto
<1> DEFINE i == CHOOSE i \in S : Cardinality({j \in S : j < i}) = 1 - 1
<1>6. i \in S
  <2>1. Cardinality({j \in S : j < first}) = 1 - 1
    BY <1>5 DEF Rank, Below
  <2>2. QED
    BY <2>1
<1>7. UsefulLine(lines, 1) = Strip(lines[i])
  BY DEF UsefulLine, S
<1> HIDE DEF i
<1>8. lines[i] \in Seq(Symbols)
  BY <1>2, <1>6, ElementOfSeq
<1>9. QED
  BY <1>7, <1>8, StripIs

\* What a machine may be called: nothing that a datagram would divide, and in
\* the spelling that is compared.
IsNickname(apelido) ==
  /\ apelido \in Seq(Symbols)
  /\ \A i \in 1 .. Len(apelido) : apelido[i] # SEP
  /\ Normalised(apelido) = apelido

LEMMA NicknameIs ==
  ASSUME NEW word \in Seq(Symbols), Nickname(word) # None
  PROVE  IsNickname(Nickname(word))
<1> DEFINE ap == Normalised(word)
<1>1. Nickname(word) = ap /\ SEP \notin Range(ap)
  BY DEF Nickname
<1>2. DOMAIN word = 1 .. Len(word) /\ Len(word) \in Nat /\ \A i \in 1 .. Len(word) : word[i] \in Symbols
  BY LenProperties, ElementOfSeq
<1>3. \A i \in 1 .. Len(word) : Upper[word[i]] \in Symbols /\ Upper[Upper[word[i]]] = Upper[word[i]]
  BY <1>2, PacketUpper
<1>4. ap = [i \in 1 .. Len(word) |-> Upper[word[i]]]
  BY <1>2 DEF Normalised
<1>5. ap \in [1 .. Len(word) -> Symbols] /\ DOMAIN ap = 1 .. Len(word)
  BY <1>3, <1>4
<1> HIDE DEF ap
<1>6. ap \in Seq(Symbols)
  BY <1>2, <1>5, SeqDef
<1>7. Len(ap) = Len(word)
  <2>1. DOMAIN ap = 1 .. Len(ap) /\ Len(ap) \in Nat
    BY <1>6, LenProperties
  <2>2. QED
    BY <1>2, <1>5, <2>1
<1>8. \A i \in 1 .. Len(ap) : ap[i] # SEP
  BY <1>1, <1>5, <1>7 DEF Range
<1>9. Normalised(ap) = ap
  <2>1. \A i \in 1 .. Len(word) : Upper[ap[i]] = ap[i]
    BY <1>3, <1>4
  <2>2. Normalised(ap) = [i \in 1 .. Len(word) |-> Upper[ap[i]]]
    BY <1>5 DEF Normalised
  <2>3. ap = [i \in 1 .. Len(word) |-> ap[i]]
    BY <1>5
  <2> DEFINE u == [i \in 1 .. Len(word) |-> Upper[ap[i]]]
             v == [i \in 1 .. Len(word) |-> ap[i]]
  <2>4. u = v
    BY <2>1
  <2>5. QED
    BY <2>2, <2>3, <2>4
<1>10. QED
  BY <1>1, <1>6, <1>8, <1>9 DEF IsNickname

\* A machine that was launched, and where it looks for the others.
LEMMA LaunchedIs ==
  ASSUME NEW configFile \in Seq(Seq(Symbols)), NEW file, NEW m, m = Launch(configFile, file),
         m # None
  PROVE  /\ IsNickname(m.apelido)
         /\ file = None => m.mode = "lan"
         /\ file # None => /\ m.mode # "lan"
                           /\ m.peers = ParsePeers(file) /\ m.peers # None
                           /\ m.apelido \in DOMAIN m.peers
<1> DEFINE cfg == FromLines(configFile)
           peers == IF file = None THEN <<>> ELSE ParsePeers(file)
<1>1. cfg # None /\ peers # None
  BY DEF Launch
<1>2. IsNickname(cfg.apelido)
  <2>1. /\ Cardinality(Useful(configFile)) >= 5
        /\ Nickname(UsefulLine(configFile, 1)) # None
        /\ cfg.apelido = Nickname(UsefulLine(configFile, 1))
    BY <1>1 DEF FromLines
  <2>2. QED
    BY <2>1, FirstUsefulLine, NicknameIs
<1> HIDE DEF cfg
<1>3. CASE file = None
  <2>1. m = [apelido |-> cfg.apelido, mode |-> "lan", peers |-> <<>>]
    BY <1>1, <1>3 DEF Launch, cfg
  <2>2. QED
    BY <1>2, <1>3, <2>1
<1>4. CASE file # None
  <2>1. /\ m = [apelido |-> cfg.apelido, mode |-> "local", peers |-> peers]
        /\ cfg.apelido \in DOMAIN peers
    BY <1>1, <1>4 DEF Launch, cfg
  <2>2. QED
    BY <1>1, <1>2, <1>4, <2>1
<1>5. QED
  BY <1>3, <1>4

\* Who is in the map of peers has a line in the file, and is where it says.
LEMMA PeersAre ==
  ASSUME NEW file, NEW peers, peers = ParsePeers(file), peers # None,
         NEW apelido \in DOMAIN peers
  PROVE  \E line \in {l \in Range(file) : Counts(l) /\ PeerName(l) = apelido} :
           peers[apelido] = PeerPlace(line)
<1> DEFINE entries == {i \in DOMAIN file : Counts(file[i])}
           names == {PeerName(file[i]) : i \in entries}
           line(ap) == CHOOSE i \in entries : PeerName(file[i]) = ap
<1>1. peers = [ap \in names |-> PeerPlace(file[line(ap)])]
  BY DEF ParsePeers
<1>2. apelido \in names /\ peers[apelido] = PeerPlace(file[line(apelido)])
  BY <1>1
<1>3. line(apelido) \in entries /\ PeerName(file[line(apelido)]) = apelido
  BY <1>2
<1>4. file[line(apelido)] \in Range(file) /\ Counts(file[line(apelido)])
  BY <1>3 DEF Range
<1>5. QED
  BY <1>2, <1>3, <1>4

-----------------------------------------------------------------------------
\* Its presence, symbol by symbol

Announced(prefix, apelido, ip) == <<prefix, SEP>> \o apelido \o <<SEP, ip>>

LEMMA AnnouncedIs ==
  ASSUME NEW prefix \in {P_DISCOVER, P_HELLO}, NEW ap \in Seq(Symbols), NEW ip \in Addresses,
         NEW d, d = Announced(prefix, ap, ip)
  PROVE  /\ d \in Seq(Symbols) /\ Len(d) = Len(ap) + 4 /\ Len(ap) \in Nat
         /\ DOMAIN d = 1 .. Len(ap) + 4
         /\ d[1] = prefix /\ d[2] = SEP
         /\ \A i \in 1 .. Len(ap) : d[2 + i] = ap[i]
         /\ d[Len(ap) + 3] = SEP /\ d[Len(ap) + 4] = ip
         /\ prefix # SEP /\ ip # SEP /\ ip # NUL
<1> DEFINE h == <<prefix, SEP>>
           t == <<SEP, ip>>
           n == Len(ap)
<1>1. /\ prefix \in Symbols /\ SEP \in Symbols /\ ip \in Symbols
      /\ prefix # SEP /\ ip # SEP /\ ip # NUL
  BY NamesPresence, PacketSymbols
<1>2. /\ h \in Seq(Symbols) /\ Len(h) = 2 /\ h[1] = prefix /\ h[2] = SEP
      /\ t \in Seq(Symbols) /\ Len(t) = 2 /\ t[1] = SEP /\ t[2] = ip
  BY <1>1
<1>3. n \in Nat
  BY LenProperties
<1> HIDE DEF h, t, n
<1> DEFINE b == h \o ap
<1>4. /\ b \in Seq(Symbols) /\ Len(b) = 2 + n
      /\ \A i \in 1 .. 2 + n : b[i] = IF i <= 2 THEN h[i] ELSE ap[i - 2]
  <2>1. /\ b \in Seq(Symbols) /\ Len(b) = Len(h) + Len(ap)
        /\ \A i \in 1 .. Len(h) + Len(ap) : b[i] = IF i <= Len(h) THEN h[i] ELSE ap[i - Len(h)]
    BY <1>2, ConcatProperties
  <2>2. QED
    BY <1>2, <2>1 DEF n
<1>5. d = b \o t
  BY DEF Announced, h, t
<1> HIDE DEF b
<1>6. /\ d \in Seq(Symbols) /\ Len(d) = n + 4
      /\ \A i \in 1 .. n + 4 : d[i] = IF i <= 2 + n THEN b[i] ELSE t[i - (2 + n)]
  <2>1. /\ b \o t \in Seq(Symbols) /\ Len(b \o t) = Len(b) + Len(t)
        /\ \A i \in 1 .. Len(b) + Len(t) : (b \o t)[i] = IF i <= Len(b) THEN b[i] ELSE t[i - Len(b)]
    BY <1>2, <1>4, ConcatProperties
  <2>2. Len(b) + Len(t) = n + 4 /\ Len(b) = 2 + n
    BY <1>2, <1>3, <1>4
  <2>3. QED
    BY <1>5, <2>1, <2>2
<1>7. d[1] = prefix /\ d[2] = SEP
  <2>1. d[1] = b[1] /\ d[2] = b[2] /\ b[1] = h[1] /\ b[2] = h[2]
    BY <1>3, <1>4, <1>6
  <2>2. QED
    BY <1>2, <2>1
<1>8. \A i \in 1 .. n : d[2 + i] = ap[i]
  <2>1. TAKE i \in 1 .. n
  <2>2. 2 + i \in 1 .. n + 4 /\ 2 + i \in 1 .. 2 + n /\ 2 + i <= 2 + n /\ ~(2 + i <= 2) /\ (2 + i) - 2 = i
    BY <1>3
  <2>3. QED
    BY <1>4, <1>6, <2>2
<1>9. d[n + 3] = SEP /\ d[n + 4] = ip
  <2>1. /\ n + 3 \in 1 .. n + 4 /\ ~(n + 3 <= 2 + n) /\ (n + 3) - (2 + n) = 1
        /\ n + 4 \in 1 .. n + 4 /\ ~(n + 4 <= 2 + n) /\ (n + 4) - (2 + n) = 2
    BY <1>3
  <2>2. QED
    BY <1>2, <1>6, <2>1
<1>10. DOMAIN d = 1 .. n + 4
  BY <1>6, LenProperties
<1>11. QED
  BY <1>1, <1>3, <1>6, <1>7, <1>8, <1>9, <1>10 DEF n

\* Three parts are joined in order.
Joined(p1, p2, p3) == p1 \o <<SEP>> \o p2 \o <<SEP>> \o p3

LEMMA JoinOfThree ==
  ASSUME NEW p1, NEW p2, NEW p3
  PROVE  Join(<<p1, p2, p3>>) = Joined(p1, p2, p3)
<1> DEFINE parts == <<p1, p2, p3>>
           a2 == p1 \o <<SEP>> \o p2
           a3 == a2 \o <<SEP>> \o p3
           w == <<p1, a2, a3>>
           Extend(f, k) == f[k - 1] \o <<SEP>> \o parts[k]
           IsUpTo(f) == f = [k \in DOMAIN parts |-> IF k = 1 THEN parts[1] ELSE Extend(f, k)]
           upTo == CHOOSE f : IsUpTo(f)
<1>1. /\ DOMAIN parts = 1 .. 3 /\ Len(parts) = 3
      /\ parts[1] = p1 /\ parts[2] = p2 /\ parts[3] = p3
  OBVIOUS
<1>2. Join(parts) = upTo[Len(parts)]
  BY DEF Join
<1> HIDE DEF parts
<1>3. IsUpTo(w)
  <2> DEFINE t == [k \in DOMAIN parts |-> IF k = 1 THEN parts[1] ELSE Extend(w, k)]
  <2>1. w[1] = p1 /\ w[2] = a2 /\ w[3] = a3 /\ w = [k \in 1 .. 3 |-> w[k]]
    <3> HIDE DEF a2, a3
    <3>1. QED
      OBVIOUS
  <2> HIDE DEF w
  <2>2. Extend(w, 2) = a2 /\ Extend(w, 3) = a3
    <3>1. Extend(w, 2) = w[1] \o <<SEP>> \o p2 /\ Extend(w, 3) = w[2] \o <<SEP>> \o p3
      BY <1>1
    <3>2. QED
      BY <2>1, <3>1
  <2> HIDE DEF Extend, a2, a3
  <2>3. t[1] = p1 /\ t[2] = Extend(w, 2) /\ t[3] = Extend(w, 3) /\ t = [k \in 1 .. 3 |-> t[k]]
    BY <1>1
  <2> HIDE DEF t
  <2>4. \A k \in 1 .. 3 : k = 1 \/ k = 2 \/ k = 3
    OBVIOUS
  <2>5. \A k \in 1 .. 3 : w[k] = t[k]
    BY <2>1, <2>2, <2>3, <2>4
  <2>6. w = t
    BY <2>1, <2>3, <2>5
  <2>7. QED
    BY <2>6 DEF t
<1>4. IsUpTo(upTo)
  <2> HIDE DEF IsUpTo
  <2>1. QED
    BY <1>3
<1> HIDE DEF upTo
<1>5. upTo[1] = p1 /\ upTo[2] = Extend(upTo, 2) /\ upTo[3] = Extend(upTo, 3)
  <2> HIDE DEF Extend
  <2>1. \A k \in 1 .. 3 : upTo[k] = IF k = 1 THEN parts[1] ELSE Extend(upTo, k)
    BY <1>1, <1>4
  <2>2. QED
    BY <1>1, <2>1
<1>6. upTo[2] = upTo[1] \o <<SEP>> \o p2 /\ upTo[3] = upTo[2] \o <<SEP>> \o p3
  <2>1. 2 - 1 = 1 /\ 3 - 1 = 2
    OBVIOUS
  <2>2. QED
    BY <1>1, <1>5, <2>1
<1>7. upTo[3] = a3
  <2>1. upTo[2] = a2
    BY <1>5, <1>6
  <2> HIDE DEF a2
  <2>2. QED
    BY <1>6, <2>1
<1>8. QED
  BY <1>1, <1>2, <1>7 DEF parts, Joined

LEMMA OneAndOne ==
  ASSUME NEW S, NEW x \in S, NEW y \in S
  PROVE  <<x>> \o <<y>> = <<x, y>>
<1> DEFINE a == <<x>>
           b == <<y>>
           c == <<x, y>>
<1>1. /\ a \in Seq(S) /\ b \in Seq(S) /\ c \in Seq(S)
      /\ Len(a) = 1 /\ Len(b) = 1 /\ Len(c) = 2 /\ a[1] = x /\ b[1] = y /\ c[1] = x /\ c[2] = y
  OBVIOUS
<1> HIDE DEF a, b, c
<1> DEFINE ab == a \o b
<1>2. /\ ab \in Seq(S) /\ Len(ab) = Len(a) + Len(b)
      /\ \A i \in 1 .. Len(a) + Len(b) : ab[i] = IF i <= Len(a) THEN a[i] ELSE b[i - Len(a)]
  BY <1>1, ConcatProperties
<1> HIDE DEF ab
<1>3. Len(ab) = 2 /\ ab[1] = x /\ ab[2] = y
  BY <1>1, <1>2
<1>4. \A i \in 1 .. 2 : i = 1 \/ i = 2
  OBVIOUS
<1>5. ab = c
  BY <1>1, <1>2, <1>3, <1>4, SeqEqual
<1>6. QED
  BY <1>5 DEF ab, a, b, c

LEMMA BuildPresenceIs ==
  ASSUME NEW prefix \in {P_DISCOVER, P_HELLO}, NEW ap \in Seq(Symbols), NEW ip \in Addresses
  PROVE  BuildPresence(prefix, ap, <<ip>>) = Announced(prefix, ap, ip)
<1> DEFINE a == <<prefix>>
           s == <<SEP>>
           b == <<ip>>
<1>1. a \in Seq(Symbols) /\ s \in Seq(Symbols) /\ b \in Seq(Symbols)
  BY NamesPresence, PacketSymbols
<1>2. a \o s = <<prefix, SEP>> /\ s \o b = <<SEP, ip>>
  <2>1. prefix \in Symbols /\ SEP \in Symbols /\ ip \in Symbols
    BY NamesPresence, PacketSymbols
  <2>2. QED
    BY <2>1, OneAndOne
<1>3. BuildPresence(prefix, ap, b) = Join(<<a, ap, b>>)
  BY DEF BuildPresence
<1>4. Join(<<a, ap, b>>) = Joined(a, ap, b)
  <2> HIDE DEF a, b
  <2>1. QED
    BY JoinOfThree
<1>5. Joined(a, ap, b) = a \o s \o ap \o s \o b
  BY DEF Joined
<1> HIDE DEF a, s, b
<1> DEFINE x == (a \o s) \o ap
<1>6. (x \o s) \o b = x \o (s \o b)
  <2>1. a \o s \in Seq(Symbols)
    BY <1>1, ConcatProperties
  <2>2. x \in Seq(Symbols)
    BY <2>1, ConcatProperties
  <2> HIDE DEF x
  <2>3. QED
    BY <1>1, <2>2, ConcatAssociative
<1>7. BuildPresence(prefix, ap, b) = Announced(prefix, ap, ip)
  BY <1>2, <1>3, <1>4, <1>6, <1>5, Zenon DEF Announced
<1>8. QED
  BY <1>7 DEF b

\* Its two separators are about the nickname.
LEMMA PresenceCuts ==
  ASSUME NEW prefix \in {P_DISCOVER, P_HELLO}, NEW ap \in Seq(Symbols), NEW ip \in Addresses,
         \A i \in 1 .. Len(ap) : ap[i] # SEP,
         NEW d, d = Announced(prefix, ap, ip)
  PROVE  /\ SepAt(d) = {2, Len(ap) + 3} /\ Cardinality(SepAt(d)) = 2
         /\ Cut(d, 1) = 2 /\ Cut(d, 2) = Len(ap) + 3
<1> DEFINE n == Len(ap)
<1>1. /\ n \in Nat /\ DOMAIN d = 1 .. n + 4
      /\ d[1] # SEP /\ d[2] = SEP /\ d[n + 3] = SEP /\ d[n + 4] # SEP
      /\ \A i \in 1 .. n : d[2 + i] # SEP
  <2>1. n \in Nat /\ DOMAIN d = 1 .. n + 4
    BY AnnouncedIs
  <2>2. d[1] = prefix /\ prefix # SEP /\ d[2] = SEP
    BY AnnouncedIs
  <2>3. d[n + 3] = SEP /\ d[n + 4] = ip /\ ip # SEP
    BY AnnouncedIs
  <2>4. d \in Seq(Symbols) /\ \A i \in 1 .. n : d[2 + i] = ap[i]
    BY AnnouncedIs
  <2> HIDE DEF P_DISCOVER, P_HELLO
  <2>5. QED
    BY <2>1, <2>2, <2>3, <2>4
<1> HIDE DEF n
<1>2. SepAt(d) = {2, n + 3}
  <2>1. ASSUME NEW i \in 1 .. n + 4, i # 2, i # n + 3
        PROVE  d[i] # SEP
    <3>1. i = 1 \/ i = n + 4 \/ (i - 2 \in 1 .. n /\ 2 + (i - 2) = i)
      BY <1>1, <2>1
    <3>2. QED
      BY <1>1, <3>1
  <2>2. 2 \in 1 .. n + 4 /\ n + 3 \in 1 .. n + 4
    BY <1>1
  <2>3. QED
    BY <1>1, <2>1, <2>2 DEF SepAt
<1>3. Cardinality({2}) = 1 /\ Cardinality({2, n + 3}) = 2
  <2>1. 2 # n + 3
    BY <1>1
  <2>2. Cardinality({2}) = 1 /\ IsFiniteSet({2})
    BY FS_Singleton
  <2>3. Cardinality({2} \cup {n + 3}) = Cardinality({2}) + 1
    BY <2>1, <2>2, FS_AddElement
  <2>4. {2} \cup {n + 3} = {2, n + 3}
    OBVIOUS
  <2>5. Cardinality({2, n + 3}) = Cardinality({2}) + 1
    BY <2>3, <2>4, Zenon
  <2>6. QED
    BY <2>2, <2>5
<1>4. {j \in SepAt(d) : j <= 2} = {2} /\ {j \in SepAt(d) : j <= n + 3} = {2, n + 3}
  BY <1>1, <1>2
<1>5. Cut(d, 1) = 2
  <2>1. 2 \in SepAt(d) /\ Cardinality({j \in SepAt(d) : j <= 2}) = 1
    BY <1>2, <1>3, <1>4, Zenon
  <2>2. Cardinality({j \in SepAt(d) : j <= n + 3}) # 1
    <3>1. Cardinality({j \in SepAt(d) : j <= n + 3}) = 2
      BY <1>3, <1>4, Zenon
    <3>2. QED
      BY <3>1
  <2>3. \A i \in SepAt(d) : i = 2 \/ i = n + 3
    BY <1>2
  <2>4. \A i \in SepAt(d) : Cardinality({j \in SepAt(d) : j <= i}) = 1 => i = 2
    BY <2>2, <2>3, Zenon
  <2>5. QED
    BY <2>1, <2>4, Zenon DEF Cut
<1>6. Cut(d, 2) = n + 3
  <2>1. n + 3 \in SepAt(d) /\ Cardinality({j \in SepAt(d) : j <= n + 3}) = 2
    BY <1>2, <1>3, <1>4, Zenon
  <2>2. Cardinality({j \in SepAt(d) : j <= 2}) # 2
    <3>1. Cardinality({j \in SepAt(d) : j <= 2}) = 1
      BY <1>3, <1>4, Zenon
    <3>2. QED
      BY <3>1
  <2>3. \A i \in SepAt(d) : i = 2 \/ i = n + 3
    BY <1>2
  <2>4. \A i \in SepAt(d) : Cardinality({j \in SepAt(d) : j <= i}) = 2 => i = n + 3
    BY <2>2, <2>3, Zenon
  <2>5. QED
    BY <2>1, <2>4, Zenon DEF Cut
<1>7. QED
  BY <1>2, <1>3, <1>5, <1>6 DEF n

LEMMA Piece ==
  ASSUME NEW S, NEW s \in Seq(S), NEW i \in 1 .. Len(s)
  PROVE  SubSeq(s, i, i) = <<s[i]>>
<1> DEFINE one == <<s[i]>>
           sub == SubSeq(s, i, i)
<1>1. i \in Int /\ (\A j \in i .. i : s[j] \in S) /\ s[i] \in S
  BY LenProperties, ElementOfSeq
<1>2. sub \in Seq(S) /\ Len(sub) = 1 /\ sub[1] = s[i]
  BY <1>1, SubSeqProperties
<1>3. one \in Seq(S) /\ Len(one) = 1 /\ one[1] = s[i]
  BY <1>1
<1> HIDE DEF one, sub
<1>4. \A j \in 1 .. Len(sub) : sub[j] = one[j]
  BY <1>2, <1>3
<1>5. sub = one
  BY <1>2, <1>3, <1>4, SeqEqual
<1>6. QED
  BY <1>5 DEF one, sub

\* Divided once, the prefix is in front; divided twice, it has its three fields.
LEMMA PresenceParts ==
  ASSUME NEW prefix \in {P_DISCOVER, P_HELLO}, NEW ap \in Seq(Symbols), NEW ip \in Addresses,
         \A i \in 1 .. Len(ap) : ap[i] # SEP,
         NEW d, d = Announced(prefix, ap, ip)
  PROVE  /\ Split(d, 1)[1] = <<prefix>>
         /\ Split(d, 2) = << <<prefix>>, ap, <<ip>> >>
<1> DEFINE n == Len(ap)
<1>1. /\ d \in Seq(Symbols) /\ Len(d) = n + 4 /\ n \in Nat /\ d[1] = prefix /\ d[n + 4] = ip
      /\ \A i \in 1 .. n : d[2 + i] = ap[i]
  BY AnnouncedIs
<1>2. Cardinality(SepAt(d)) = 2 /\ Cut(d, 1) = 2 /\ Cut(d, 2) = n + 3
  BY PresenceCuts
<1> HIDE DEF n
<1>3. SubSeq(d, 1, 1) = <<prefix>> /\ SubSeq(d, n + 4, n + 4) = <<ip>>
  <2>1. 1 \in 1 .. Len(d) /\ n + 4 \in 1 .. Len(d)
    BY <1>1
  <2>2. SubSeq(d, 1, 1) = <<d[1]>> /\ SubSeq(d, n + 4, n + 4) = <<d[n + 4]>>
    BY <1>1, <2>1, Piece
  <2>3. QED
    BY <1>1, <2>2
<1>4. SubSeq(d, 3, n + 2) = ap
  <2> DEFINE s == SubSeq(d, 3, n + 2)
  <2>1. 3 \in Int /\ n + 2 \in Int /\ \A i \in 3 .. n + 2 : d[i] \in Symbols
    <3>1. \A i \in 3 .. n + 2 : i \in 1 .. Len(d)
      BY <1>1
    <3>2. QED
      BY <1>1, <3>1, ElementOfSeq
  <2>2. /\ s \in Seq(Symbols)
        /\ Len(s) = IF 3 <= n + 2 THEN (n + 2) - 3 + 1 ELSE 0
        /\ \A i \in 1 .. (n + 2) - 3 + 1 : s[i] = d[3 + i - 1]
    BY <2>1, SubSeqProperties
  <2> HIDE DEF s
  <2>3. Len(s) = n /\ (n + 2) - 3 + 1 = n /\ \A i \in 1 .. n : 3 + i - 1 = 2 + i
    BY <1>1, <2>2
  <2>4. \A i \in 1 .. n : s[i] = ap[i]
    BY <1>1, <2>2, <2>3
  <2>5. s = ap
    BY <2>2, <2>3, <2>4, SeqEqual DEF n
  <2>6. QED
    BY <2>5 DEF s
<1>5. Split(d, 1)[1] = <<prefix>>
  <2> DEFINE cuts == [k \in 0 .. 2 |-> IF k = 0 THEN 0 ELSE IF k = 2 THEN Len(d) + 1 ELSE Cut(d, k)]
  <2>1. Split(d, 1) = [k \in 1 .. 2 |-> SubSeq(d, cuts[k - 1] + 1, cuts[k] - 1)]
    BY <1>2 DEF Split
  <2>2. cuts[0] = 0 /\ cuts[1] = 2
    BY <1>2
  <2> HIDE DEF cuts
  <2>3. 1 \in 1 .. 2 /\ 1 - 1 = 0 /\ 0 + 1 = 1 /\ 2 - 1 = 1
    OBVIOUS
  <2>4. Split(d, 1)[1] = SubSeq(d, cuts[1 - 1] + 1, cuts[1] - 1)
    BY <2>1, <2>3, Zenon
  <2>5. Split(d, 1)[1] = SubSeq(d, 1, 1)
    BY <2>2, <2>3, <2>4, Zenon
  <2>6. QED
    BY <1>3, <2>5, Zenon
<1>6. Split(d, 2) = << <<prefix>>, ap, <<ip>> >>
  <2> DEFINE cuts == [k \in 0 .. 3 |-> IF k = 0 THEN 0 ELSE IF k = 3 THEN Len(d) + 1 ELSE Cut(d, k)]
             parts == Split(d, 2)
             t == << <<prefix>>, ap, <<ip>> >>
  <2>1. parts = [k \in 1 .. 3 |-> SubSeq(d, cuts[k - 1] + 1, cuts[k] - 1)]
    BY <1>2 DEF Split
  <2>2. cuts[0] = 0 /\ cuts[1] = 2 /\ cuts[2] = n + 3 /\ cuts[3] = (n + 4) + 1
    BY <1>1, <1>2
  <2> HIDE DEF cuts
  <2>3. /\ parts[1] = SubSeq(d, cuts[0] + 1, cuts[1] - 1)
        /\ parts[2] = SubSeq(d, cuts[1] + 1, cuts[2] - 1)
        /\ parts[3] = SubSeq(d, cuts[2] + 1, cuts[3] - 1)
    BY <2>1
  <2> HIDE DEF parts
  <2>4. /\ 0 + 1 = 1 /\ 2 - 1 = 1 /\ 2 + 1 = 3 /\ (n + 3) - 1 = n + 2
        /\ (n + 3) + 1 = n + 4 /\ ((n + 4) + 1) - 1 = n + 4
    BY <1>1
  <2>5. parts[1] = <<prefix>> /\ parts[2] = ap /\ parts[3] = <<ip>>
    BY <1>3, <1>4, <2>2, <2>3, <2>4
  <2>6. parts = [k \in 1 .. 3 |-> parts[k]]
    BY <2>1
  <2>7. t = [k \in 1 .. 3 |-> t[k]] /\ t[1] = <<prefix>> /\ t[2] = ap /\ t[3] = <<ip>>
    OBVIOUS
  <2> HIDE DEF t
  <2>8. \A k \in 1 .. 3 : k = 1 \/ k = 2 \/ k = 3
    OBVIOUS
  <2>9. \A k \in 1 .. 3 : parts[k] = t[k]
    BY <2>5, <2>7, <2>8
  <2>10. parts = t
    BY <2>6, <2>7, <2>9
  <2>11. QED
    BY <2>10 DEF parts, t
<1>7. QED
  BY <1>5, <1>6

\* What every machine makes of it: the nickname its sender calls itself.
LEMMA ParsePresenceIs ==
  ASSUME NEW prefix \in {P_DISCOVER, P_HELLO}, NEW ap, IsNickname(ap), NEW ip \in Addresses,
         NEW p, p = Parse(BuildPresence(prefix, ap, <<ip>>))
  PROVE  p.type \in {"DISCOVER", "HELLO"} /\ p.apelido = ap /\ p.ip = <<ip>>
<1> DEFINE d == Announced(prefix, ap, ip)
           p1 == <<prefix>>
           p3 == <<ip>>
<1>1. /\ ap \in Seq(Symbols) /\ Normalised(ap) = ap
      /\ \A i \in 1 .. Len(ap) : ap[i] # SEP
  BY DEF IsNickname
<1>2. BuildPresence(prefix, ap, <<ip>>) = d
  BY <1>1, BuildPresenceIs
<1>3. d \in Seq(Symbols) /\ Len(d) = Len(ap) + 4 /\ Len(ap) \in Nat /\ d[Len(ap) + 4] = ip /\ ip # NUL
  BY <1>1, AnnouncedIs
<1>4. Split(d, 1)[1] = p1 /\ Split(d, 2) = <<p1, ap, p3>>
  BY <1>1, PresenceParts
<1>5. SepAt(d) # {}
  <2>1. SepAt(d) = {2, Len(ap) + 3}
    BY <1>1, PresenceCuts
  <2>2. QED
    BY <2>1
<1> HIDE DEF d
<1>6. WithoutNul(d) = d
  <2>1. Last(d) = d[Len(d)]
    BY DEF Last
  <2>2. Last(d) # NUL
    BY <1>3, <2>1
  <2>3. QED
    BY <2>2 DEF WithoutNul
<1>7. d # BuildToken
  <2>1. Len(BuildToken) = 1
    BY DEF BuildToken
  <2>2. Len(d) # 1
    BY <1>3
  <2>3. QED
    BY <2>1, <2>2, Zenon
<1>8. p1 \in {<<P_DISCOVER>>, <<P_HELLO>>} /\ p1 # <<P_DATA>>
  BY DEF P_DATA, P_DISCOVER, P_HELLO
<1> DEFINE kind == IF p1 = <<P_DISCOVER>> THEN "DISCOVER" ELSE "HELLO"
<1>9. ParsePresence(d) = [type |-> kind, apelido |-> ap, ip |-> p3, raw |-> d]
  <2> DEFINE parts == <<p1, ap, p3>>
  <2>1. ~(Len(parts) < 3) /\ parts[1] = p1 /\ parts[2] = ap /\ parts[3] = p3
    OBVIOUS
  <2>2. Split(d, 2) = parts
    BY <1>4
  <2> HIDE DEF parts
  <2>3. QED
    BY <1>1, <2>1, <2>2 DEF ParsePresence
<1> HIDE DEF p1, p3
<1>10. p = ParsePresence(d)
  BY <1>2, <1>4, <1>5, <1>6, <1>7, <1>8 DEF Parse
<1>11. QED
  BY <1>9, <1>10 DEF p3

-----------------------------------------------------------------------------
\* The files of two machines

FilesInv == configs \in ConfigFiles \X ConfigFiles

LEMMA FilesStay == LaunchSpec => []FilesInv
<1>1. LaunchInit => FilesInv
  BY DEF LaunchInit, FilesInv
<1>2. FilesInv /\ [AddPeer]_<<configs, peersFile>> => FilesInv'
  BY DEF FilesInv, AddPeer
<1>3. QED
  BY <1>1, <1>2, PTL DEF LaunchSpec

LEMMA MachineIs ==
  ASSUME FilesInv, NEW i \in 1 .. 2, NEW m, m = Machine(i), m # None
  PROVE  /\ IsNickname(m.apelido)
         /\ peersFile = None => m.mode = "lan"
         /\ peersFile # None => /\ m.mode # "lan"
                                /\ m.peers = ParsePeers(peersFile) /\ m.peers # None
                                /\ m.apelido \in DOMAIN m.peers
<1>1. configs[i] \in Seq(Seq(Symbols))
  <2>1. configs[i] \in ConfigFiles
    <3>1. i = 1 \/ i = 2
      OBVIOUS
    <3>2. QED
      BY <3>1 DEF FilesInv
  <2>2. QED
    BY <2>1, NamesFiles
<1>2. QED
  BY <1>1, LaunchedIs DEF Machine

\* A machine that was launched knows its own DISCOVER by its nickname, in
\* whatever spelling the files have it (on_datagram).
THEOREM IgnoresItself == LaunchSpec => []OwnEchoIgnored
<1>1. FilesInv => OwnEchoIgnored
  <2> SUFFICES ASSUME FilesInv, NEW i \in 1 .. 2, NEW ip \in Addresses, Machine(i) # None
               PROVE  Hears(Machine(i), BuildPresence(P_DISCOVER, Machine(i).apelido, <<ip>>)) = None
    BY DEF OwnEchoIgnored
  <2> DEFINE m == Machine(i)
             d == BuildPresence(P_DISCOVER, m.apelido, <<ip>>)
  <2>1. IsNickname(m.apelido)
    BY MachineIs
  <2> HIDE DEF m
  <2>2. Parse(d).apelido = m.apelido
    BY <2>1, ParsePresenceIs
  <2> HIDE DEF d
  <2>3. Hears(m, d) = None
    BY <2>2 DEF Hears
  <2>4. QED
    BY <2>3 DEF m, d
<1>2. QED
  BY <1>1, FilesStay, PTL

\* Two machines that were launched hear each other by the nickname each calls
\* itself, at its address or at that of its line in the peers file
\* (_addr_for, _parse_peers).
THEOREM HearEachOther == LaunchSpec => []PeersHeard
<1>1. FilesInv => PeersHeard
  <2> DEFINE m == Machine(1)
             other == Machine(2)
             places(ip) ==
               IF peersFile = None THEN {<< <<ip>>, 6000 >>}
               ELSE {PeerPlace(line) : line \in {l \in Range(peersFile) :
                                                   Counts(l) /\ PeerName(l) = other.apelido}}
  <2> SUFFICES ASSUME FilesInv, m # None, other # None, m.apelido # other.apelido,
                      NEW ip \in Addresses
               PROVE  \E place \in places(ip) :
                        Hears(m, BuildPresence(P_HELLO, other.apelido, <<ip>>))
                          = [apelido |-> other.apelido, addr |-> place]
    BY DEF PeersHeard
  <2> DEFINE d == BuildPresence(P_HELLO, other.apelido, <<ip>>)
             p == Parse(d)
  <2>1. IsNickname(other.apelido)
    BY MachineIs
  <2>2. peersFile = None => m.mode = "lan"
    BY MachineIs
  <2>3. peersFile # None => m.mode # "lan" /\ m.peers = ParsePeers(peersFile) /\ m.peers # None
    BY MachineIs
  <2>4. peersFile # None => other.peers = ParsePeers(peersFile) /\ other.apelido \in DOMAIN other.peers
    BY MachineIs
  <2> HIDE DEF m, other
  <2>5. p.type \in {"DISCOVER", "HELLO"} /\ p.apelido = other.apelido /\ p.ip = <<ip>>
    BY <2>1, ParsePresenceIs
  <2> HIDE DEF d, p
  <2>6. CASE peersFile = None
    <3>1. Hears(m, d) = [apelido |-> other.apelido, addr |-> << <<ip>>, 6000 >>]
      BY <2>2, <2>5, <2>6 DEF Hears, Located, AddrFor, p
    <3>2. << <<ip>>, 6000 >> \in places(ip)
      BY <2>6
    <3>3. QED
      BY <3>1, <3>2 DEF d
  <2>7. CASE peersFile # None
    <3>1. other.apelido \in DOMAIN m.peers
      BY <2>3, <2>4, <2>7
    <3>2. PICK line \in {l \in Range(peersFile) : Counts(l) /\ PeerName(l) = other.apelido} :
            m.peers[other.apelido] = PeerPlace(line)
      BY <2>3, <2>7, <3>1, PeersAre
    <3>3. Hears(m, d) = [apelido |-> other.apelido, addr |-> PeerPlace(line)]
      BY <2>3, <2>5, <2>7, <3>1, <3>2 DEF Hears, Located, AddrFor, p
    <3>4. PeerPlace(line) \in places(ip)
      BY <2>7
    <3> HIDE DEF places
    <3>5. QED
      BY <3>3, <3>4, Zenon DEF d
  <2>8. QED
    BY <2>6, <2>7
<1>2. QED
  BY <1>1, FilesStay, PTL
=============================================================================
