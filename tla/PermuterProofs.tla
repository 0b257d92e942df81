--------------------------- MODULE PermuterProofs ---------------------------
(***************************************************************************)
(* Proofs about Permuter, for any number of elements and any keys.         *)
(***************************************************************************)
EXTENDS Permuter, TLAPS, FiniteSetTheorems, WellFoundedInduction

\* A set of natural numbers that is not empty has a first element.
LEMMA FirstExists ==
  ASSUME NEW S \in SUBSET Nat, S # {}
  PROVE  \E i \in S : \A j \in S : i <= j
<1> DEFINE Less == OpToRel(<, Nat)
<1>1. IsWellFoundedOn(Less, Nat)
  BY NatLessThanWellFounded DEF Less
<1>2. PICK i \in S : \A j \in S : ~ (<<j, i>> \in Less)
  BY <1>1, WFMin
<1>3. \A j, k \in Nat : <<j, k>> \in Less <=> j < k
  BY DEF Less, OpToRel
<1>4. \A j \in S : ~ (j < i)
  BY <1>2, <1>3
<1>5. \A j \in S : i <= j
  BY <1>4
<1> QED
  BY <1>5

\* Two places of an array change places: it holds the same elements as before.
LEMMA SwapKeepsElements ==
  ASSUME NEW f \in Arrangements, NEW i \in Indices, NEW j \in Indices
  PROVE  Swap(f, i, j) \in Arrangements
<1> DEFINE g == Swap(f, i, j)
<1>1. f \in [Indices -> Indices]
  BY DEF Arrangements, Bijection, Injection
<1>2. g \in [Indices -> Indices]
  BY <1>1 DEF Swap
<1>3. /\ g[i] = f[j] /\ g[j] = f[i]
      /\ \A k \in Indices \ {i, j} : g[k] = f[k]
  BY <1>1 DEF Swap
<1>4. \A x, y \in Indices : f[x] = f[y] => x = y
  BY DEF Arrangements, Bijection, Injection, IsInjective
<1>5. \A x \in Indices : \E y \in Indices : f[y] = x
  BY DEF Arrangements, Bijection, Surjection
<1> HIDE DEF g
<1>6. \A x, y \in Indices : g[x] = g[y] => x = y
  BY <1>3, <1>4
<1>7. \A x \in Indices : \E y \in Indices : g[y] = x
  BY <1>3, <1>5
<1> QED
  BY <1>2, <1>6, <1>7 DEF g, Arrangements, Bijection, Injection, IsInjective, Surjection

\* There is a largest mobile element, if there is a mobile one, and it faces a
\* place inside the array.
LEMMA MovesInside ==
  ASSUME TypeOK, Mobile # {}
  PROVE  /\ LargestMobile \in Indices /\ Faced(LargestMobile) \in Indices
         /\ Compare(LargestMobile, Faced(LargestMobile)) > 0
         /\ \A i \in Mobile : Compare(LargestMobile, i) >= 0
<1>1. elems \in [Indices -> Indices] /\ key \in [Indices -> 1 .. MaxKey]
  BY DEF TypeOK, Arrangements, Bijection, Injection
<1>2. Mobile \in SUBSET Indices /\ Mobile \in SUBSET Nat /\ MaxKey \in Nat
  BY PermuterAssumption DEF Mobile, Indices
<1> DEFINE size(i) == key[elems[i]]
           below   == {MaxKey - size(i) : i \in Mobile}
<1>3. \A i \in Indices : size(i) \in 1 .. MaxKey
  BY <1>1
<1>4. below \in SUBSET Nat /\ below # {}
  <2>1. \A i \in Mobile : MaxKey - size(i) \in Nat
    <3> HIDE DEF size
    <3> QED
      BY <1>2, <1>3
  <2> QED
    BY <2>1
<1>5. PICK b \in below : \A c \in below : b <= c
  <2> HIDE DEF below
  <2> QED
    BY <1>4, FirstExists
<1>6. PICK m \in Mobile : b = MaxKey - size(m)
  BY <1>5
<1>7. \A j \in Mobile : Compare(m, j) >= 0
  <2> SUFFICES ASSUME NEW j \in Mobile PROVE Compare(m, j) >= 0
    OBVIOUS
  <2>1. b <= MaxKey - size(j)
    BY <1>5
  <2>2. size(m) \in 1 .. MaxKey /\ size(j) \in 1 .. MaxKey
    BY <1>2, <1>3
  <2> QED
    BY <2>1, <2>2, <1>2, <1>6 DEF Compare
<1> DEFINE largest == {i \in Mobile : \A j \in Mobile : Compare(i, j) >= 0}
<1>8. largest \in SUBSET Nat /\ largest # {}
  BY <1>2, <1>7
<1>9. \E i \in largest : \A j \in largest : i <= j
  <2> HIDE DEF largest
  <2> QED
    BY <1>8, FirstExists
<1>10. LargestMobile \in largest
  BY <1>9 DEF LargestMobile
<1>11. LargestMobile \in Mobile /\ \A i \in Mobile : Compare(LargestMobile, i) >= 0
  BY <1>10
<1> QED
  BY <1>11 DEF Mobile, IsMobile

\* The values of an arrangement are keys.
LEMMA KeysOfElements ==
  ASSUME NEW s \in Arrangements, key \in [Indices -> 1 .. MaxKey]
  PROVE  KeysOf(s) \in [Indices -> 1 .. MaxKey]
BY DEF KeysOf, Arrangements, Bijection, Injection

LEMMA InitTypes == Init => TypeOK
<1> SUFFICES ASSUME Init PROVE TypeOK
  OBVIOUS
<1>1. elems \in Arrangements /\ key \in [Indices -> 1 .. MaxKey]
  BY DEF Init, Sorted
<1>2. seen \subseteq [Indices -> 1 .. MaxKey]
  BY <1>1, KeysOfElements DEF Init
<1>3. index \in 0 .. MaxIndex /\ resets \in 0 .. MaxResets
  BY PermuterAssumption DEF Init
<1> QED
  BY <1>1, <1>2, <1>3 DEF Init, TypeOK

LEMMA NextTypes == ASSUME TypeOK, [Next]_vars PROVE TypeOK'
<1>1. /\ key \in [Indices -> 1 .. MaxKey] /\ elems \in Arrangements
      /\ directions \in [Indices -> {"left", "right"}]
      /\ index \in 0 .. MaxIndex /\ ended \in BOOLEAN
      /\ seen \subseteq [Indices -> 1 .. MaxKey] /\ resets \in 0 .. MaxResets
      /\ MaxIndex \in Nat /\ MaxResets \in Nat
  BY PermuterAssumption DEF TypeOK
<1>2. CASE NextPermutation
  <2> DEFINE m == LargestMobile
  <2>1. m \in Indices /\ Faced(m) \in Indices
    BY <1>2, MovesInside DEF NextPermutation
  <2>2. elems' = Swap(elems, m, Faced(m)) /\ directions' = Swap(Flipped(m), m, Faced(m))
    BY <1>2 DEF NextPermutation
  <2>3. UNCHANGED <<key, ended, resets>> /\ index' = index + 1 /\ index < MaxIndex
    BY <1>2 DEF NextPermutation
  <2> HIDE DEF m
  <2>4. elems' \in Arrangements
    BY <1>1, <2>1, <2>2, SwapKeepsElements
  <2>5. Flipped(m) \in [Indices -> {"left", "right"}]
    BY <1>1 DEF Flipped, Flip
  <2>6. directions' \in [Indices -> {"left", "right"}]
    BY <2>1, <2>2, <2>5 DEF Swap
  <2>7. seen' = seen \cup {[i \in Indices |-> key[elems'[i]]]}
    BY <1>2 DEF NextPermutation, KeysOf
  <2>8. [i \in Indices |-> key[elems'[i]]] \in [Indices -> 1 .. MaxKey]
    BY <2>4, <1>1, KeysOfElements DEF KeysOf
  <2>9. index' \in 0 .. MaxIndex
    BY <1>1, <2>3
  <2> QED
    BY <1>1, <2>3, <2>4, <2>6, <2>7, <2>8, <2>9 DEF TypeOK
<1>3. CASE NoMore
  BY <1>1, <1>3 DEF NoMore, TypeOK
<1>4. CASE Reset
  <2>1. elems' \in Arrangements /\ key' = key
    BY <1>4 DEF Reset, Restart, Sorted
  <2>2. seen' = {[i \in Indices |-> key'[elems'[i]]]}
    BY <1>4 DEF Reset, Restart, KeysOf
  <2>3. [i \in Indices |-> key'[elems'[i]]] \in [Indices -> 1 .. MaxKey]
    BY <2>1, <1>1, KeysOfElements DEF KeysOf
  <2>4. resets' = resets + 1 /\ resets < MaxResets /\ index' = 0 /\ ended' = FALSE
    BY <1>4 DEF Reset, Restart
  <2>5. resets' \in 0 .. MaxResets /\ index' \in 0 .. MaxIndex
    BY <2>4, <1>1
  <2>6. directions' \in [Indices -> {"left", "right"}]
    BY <1>4 DEF Reset, Restart
  <2> QED
    BY <1>1, <2>1, <2>2, <2>3, <2>4, <2>5, <2>6 DEF TypeOK
<1>5. CASE UNCHANGED vars
  BY <1>1, <1>5 DEF vars, TypeOK
<1> QED
  BY <1>2, <1>3, <1>4, <1>5 DEF Next
-----------------------------------------------------------------------------
\* However often it moves elements and starts again, the permuter never asks for
\* a place outside the array, and the array holds every element once.
THEOREM PermuterTypes == Spec => []TypeOK
<1>1. TypeOK /\ [Next]_vars => TypeOK'
  BY NextTypes
<1> QED
  BY InitTypes, <1>1, PTL DEF Spec
-----------------------------------------------------------------------------
(***************************************************************************)
(* No array comes twice.  What an array of keys has behind it is told by   *)
(* one digit per key: how many of the smaller keys an element with that    *)
(* key has passed since it last turned.  A step of the permuter leaves the *)
(* digits of the smaller keys alone and adds one to the digit of the key   *)
(* that moves, so the arrays come in the order of their digits.            *)
(***************************************************************************)
Keys == 1 .. MaxKey

\* The pairs of places whose keys, in this order, are in a relation.
Pairs(a, R) == {z \in Indices \X Indices : z[1] < z[2] /\ <<a[z[1]], a[z[2]]>> \in R}

\* Two keys smaller than k, the larger one first.
Inverted(k) == {z \in Keys \X Keys : z[2] < z[1] /\ z[1] < k}

\* An element with key k turns when a smaller one moves, which makes or undoes one
\* inversion of smaller keys.
Turned(a, k) == Cardinality(Pairs(a, Inverted(k))) % 2 = 1

\* A smaller key and k, in the order they have when the one has passed the other.
PassedLeft(k)  == {z \in Keys \X Keys : z[1] = k /\ z[2] < k}
PassedRight(k) == {z \in Keys \X Keys : z[1] < k /\ z[2] = k}

Digit(a, k) == Cardinality(Pairs(a, IF Turned(a, k) THEN PassedRight(k) ELSE PassedLeft(k)))

\* The digits of a come before those of b; smaller keys weigh more.
Precedes(a, b) ==
  \E k \in Keys : Digit(a, k) < Digit(b, k) /\ \A l \in Keys : l < k => Digit(a, l) = Digit(b, l)

LEMMA PairsAreFinite ==
  ASSUME NEW a, NEW R
  PROVE  IsFiniteSet(Pairs(a, R)) /\ Cardinality(Pairs(a, R)) \in Nat
<1>1. IsFiniteSet(Indices)
  <2>1. 0 \in Int /\ N - 1 \in Int
    BY PermuterAssumption
  <2> QED
    BY <2>1, FS_Interval DEF Indices
<1>2. IsFiniteSet(Indices \X Indices)
  BY <1>1, FS_Product
<1>3. Pairs(a, R) \in SUBSET (Indices \X Indices)
  BY DEF Pairs
<1>4. IsFiniteSet(Pairs(a, R))
  BY <1>2, <1>3, FS_Subset
<1> QED
  BY <1>4, FS_CardinalityType

LEMMA DigitIsNat == ASSUME NEW a, NEW k PROVE Digit(a, k) \in Nat
BY PairsAreFinite DEF Digit

\* The keys at two neighbouring places are exchanged.
Exchanged(a, b, p) ==
  /\ a \in [Indices -> Keys] /\ b \in [Indices -> Keys]
  /\ p \in Indices /\ p + 1 \in Indices
  /\ b[p] = a[p + 1] /\ b[p + 1] = a[p]
  /\ \A i \in Indices \ {p, p + 1} : b[i] = a[i]

\* All the other pairs stay, at other places perhaps.
LEMMA OtherPairsStay ==
  ASSUME NEW a, NEW b, NEW p, NEW R, Exchanged(a, b, p)
  PROVE  Cardinality(Pairs(a, R) \ {<<p, p + 1>>}) = Cardinality(Pairs(b, R) \ {<<p, p + 1>>})
<1> DEFINE S == Pairs(a, R) \ {<<p, p + 1>>}
           T == Pairs(b, R) \ {<<p, p + 1>>}
           other(i) == IF i = p THEN p + 1 ELSE IF i = p + 1 THEN p ELSE i
           f == [z \in S |-> <<other(z[1]), other(z[2])>>]
<1>1. /\ p \in Int /\ p + 1 \in Indices /\ p \in Indices
      /\ \A i \in Indices : i \in Int
  BY PermuterAssumption DEF Exchanged, Indices
<1>2. \A i \in Indices : /\ other(i) \in Indices /\ other(other(i)) = i
                         /\ b[other(i)] = a[i] /\ a[other(i)] = b[i]
  BY <1>1 DEF Exchanged
<1>3. \A i, j \in Indices : i < j /\ <<i, j>> # <<p, p + 1>>
        => other(i) < other(j) /\ <<other(i), other(j)>> # <<p, p + 1>>
  <2> SUFFICES ASSUME NEW i \in Indices, NEW j \in Indices, i < j, <<i, j>> # <<p, p + 1>>
               PROVE  other(i) < other(j) /\ <<other(i), other(j)>> # <<p, p + 1>>
    OBVIOUS
  <2>1. i \in Int /\ j \in Int
    BY <1>1
  <2>2. ~ (i = p /\ j = p + 1)
    OBVIOUS
  <2>3. other(i) < other(j) /\ ~ (other(i) = p /\ other(j) = p + 1)
    BY <1>1, <2>1, <2>2
  <2> QED
    BY <2>3
<1>4. \A i, j : <<i, j>> \in S <=> /\ i \in Indices /\ j \in Indices /\ i < j
                                   /\ <<a[i], a[j]>> \in R /\ <<i, j>> # <<p, p + 1>>
  BY DEF Pairs
<1>5. \A i, j : <<i, j>> \in T <=> /\ i \in Indices /\ j \in Indices /\ i < j
                                   /\ <<b[i], b[j]>> \in R /\ <<i, j>> # <<p, p + 1>>
  BY DEF Pairs
<1>6. /\ \A z \in S : z = <<z[1], z[2]>> /\ z[1] \in Indices /\ z[2] \in Indices
      /\ \A z \in T : z = <<z[1], z[2]>> /\ z[1] \in Indices /\ z[2] \in Indices
  BY DEF Pairs
<1>7. IsFiniteSet(S)
  BY PairsAreFinite, FS_RemoveElement
<1> HIDE DEF S, T, other
<1>8. \A z \in S : <<other(z[1]), other(z[2])>> \in T
  <2> SUFFICES ASSUME NEW z \in S PROVE <<other(z[1]), other(z[2])>> \in T
    OBVIOUS
  <2>1. PICK i, j : z = <<i, j>> /\ i \in Indices /\ j \in Indices
    BY <1>6
  <2>2. i < j /\ <<a[i], a[j]>> \in R /\ <<i, j>> # <<p, p + 1>>
    BY <1>4, <2>1
  <2>3. other(i) \in Indices /\ other(j) \in Indices /\ b[other(i)] = a[i] /\ b[other(j)] = a[j]
    BY <1>2, <2>1
  <2>4. other(i) < other(j) /\ <<other(i), other(j)>> # <<p, p + 1>>
    BY <1>3, <2>1, <2>2
  <2>5. <<other(i), other(j)>> \in T
    BY <1>5, <2>2, <2>3, <2>4
  <2> QED
    BY <2>1, <2>5
<1>9. \A z \in T : \E y \in S : f[y] = z
  <2> SUFFICES ASSUME NEW z \in T PROVE \E y \in S : f[y] = z
    OBVIOUS
  <2>1. PICK i, j : z = <<i, j>> /\ i \in Indices /\ j \in Indices
    BY <1>6
  <2>2. i < j /\ <<b[i], b[j]>> \in R /\ <<i, j>> # <<p, p + 1>>
    BY <1>5, <2>1
  <2>3. other(i) \in Indices /\ other(j) \in Indices /\ a[other(i)] = b[i] /\ a[other(j)] = b[j]
    BY <1>2, <2>1
  <2>4. other(i) < other(j) /\ <<other(i), other(j)>> # <<p, p + 1>>
    BY <1>3, <2>1, <2>2
  <2>5. <<other(i), other(j)>> \in S
    BY <1>4, <2>2, <2>3, <2>4
  <2>6. other(other(i)) = i /\ other(other(j)) = j
    BY <1>2, <2>1
  <2>7. f[<<other(i), other(j)>>] = <<i, j>>
    BY <2>5, <2>6
  <2> QED
    BY <2>1, <2>5, <2>7
<1>10. \A y, z \in S : f[y] = f[z] => y = z
  <2> SUFFICES ASSUME NEW y \in S, NEW z \in S, f[y] = f[z] PROVE y = z
    OBVIOUS
  <2>1. other(y[1]) = other(z[1]) /\ other(y[2]) = other(z[2])
    OBVIOUS
  <2>2. y[1] = z[1] /\ y[2] = z[2]
    BY <1>2, <1>6, <2>1
  <2> QED
    BY <1>6, <2>2
<1>11. f \in [S -> T]
  BY <1>8
<1> HIDE DEF f
<1>12. f \in Bijection(S, T)
  BY <1>9, <1>10, <1>11 DEF Bijection, Injection, IsInjective, Surjection
<1>13. ExistsBijection(S, T)
  BY <1>12 DEF ExistsBijection
<1>14. Cardinality(T) = Cardinality(S)
  BY <1>7, <1>13, FS_Bijection
<1> QED
  BY <1>14 DEF S, T

\* An exchange adds a pair if only the new order is in the relation, and takes one
\* away if only the old one is.
LEMMA ExchangeCounts ==
  ASSUME NEW a, NEW b, NEW p, NEW R, Exchanged(a, b, p)
  PROVE  \E c \in Nat :
           /\ Cardinality(Pairs(a, R)) = IF <<a[p], a[p + 1]>> \in R THEN c + 1 ELSE c
           /\ Cardinality(Pairs(b, R)) = IF <<a[p + 1], a[p]>> \in R THEN c + 1 ELSE c
<1> DEFINE z == <<p, p + 1>>
           c == Cardinality(Pairs(a, R) \ {z})
<1>1. /\ IsFiniteSet(Pairs(a, R)) /\ IsFiniteSet(Pairs(b, R))
      /\ Cardinality(Pairs(a, R)) \in Nat /\ Cardinality(Pairs(b, R)) \in Nat
  BY PairsAreFinite
<1>2. p \in Indices /\ p + 1 \in Indices /\ p < p + 1 /\ b[p] = a[p + 1] /\ b[p + 1] = a[p]
  BY DEF Exchanged, Indices
<1>3. z \in Pairs(a, R) <=> <<a[p], a[p + 1]>> \in R
  BY <1>2 DEF Pairs
<1>4. z \in Pairs(b, R) <=> <<a[p + 1], a[p]>> \in R
  BY <1>2 DEF Pairs
<1>5. IsFiniteSet(Pairs(a, R) \ {z}) /\ c = IF z \in Pairs(a, R) THEN Cardinality(Pairs(a, R)) - 1
                                            ELSE Cardinality(Pairs(a, R))
  BY <1>1, FS_RemoveElement
<1>6. Cardinality(Pairs(b, R) \ {z}) = IF z \in Pairs(b, R) THEN Cardinality(Pairs(b, R)) - 1
                                       ELSE Cardinality(Pairs(b, R))
  BY <1>1, FS_RemoveElement
<1>7. c = Cardinality(Pairs(b, R) \ {z})
  BY OtherPairsStay
<1>8. c \in Nat
  BY <1>5, FS_CardinalityType
<1> HIDE DEF c, z
<1>9. Cardinality(Pairs(a, R)) = IF <<a[p], a[p + 1]>> \in R THEN c + 1 ELSE c
  BY <1>1, <1>3, <1>5, <1>8
<1>10. Cardinality(Pairs(b, R)) = IF <<a[p + 1], a[p]>> \in R THEN c + 1 ELSE c
  BY <1>1, <1>4, <1>6, <1>7, <1>8
<1> QED
  BY <1>8, <1>9, <1>10

\* The two keys that are exchanged: k moves past the smaller key j.
Moves(a, p, k, j) ==
  /\ k \in Keys /\ j \in Keys /\ j < k
  /\ (a[p] = k /\ a[p + 1] = j) \/ (a[p] = j /\ a[p + 1] = k)

\* When k moves past a smaller key, exactly the larger keys turn.
LEMMA LargerTurn ==
  ASSUME NEW a, NEW b, NEW p, NEW k, NEW j, Exchanged(a, b, p), Moves(a, p, k, j),
         NEW l \in Keys
  PROVE  /\ l <= k => (Turned(b, l) <=> Turned(a, l))
         /\ k < l => (Turned(b, l) <=> ~ Turned(a, l))
<1> DEFINE R == Inverted(l)
<1>1. k \in Keys /\ j \in Keys /\ j < k /\ k \in Int /\ j \in Int /\ l \in Int
  BY DEF Moves, Keys
<1>2. ~ (<<j, k>> \in R)
  BY <1>1 DEF Inverted
<1>3. <<k, j>> \in R <=> k < l
  BY <1>1 DEF Inverted
<1> HIDE DEF R
<1>4. PICK c \in Nat : /\ Cardinality(Pairs(a, R)) = IF <<a[p], a[p + 1]>> \in R THEN c + 1 ELSE c
                       /\ Cardinality(Pairs(b, R)) = IF <<a[p + 1], a[p]>> \in R THEN c + 1 ELSE c
  BY ExchangeCounts
<1> DEFINE x == Cardinality(Pairs(a, R))
           y == Cardinality(Pairs(b, R))
<1>5. (Turned(a, l) <=> x % 2 = 1) /\ (Turned(b, l) <=> y % 2 = 1)
  BY DEF Turned, R
<1>6. /\ k < l => (x = c + 1 /\ y = c) \/ (x = c /\ y = c + 1)
      /\ ~ (k < l) => x = c /\ y = c
  <2>1. CASE a[p] = k /\ a[p + 1] = j
    BY <1>2, <1>3, <1>4, <2>1
  <2>2. CASE a[p] = j /\ a[p + 1] = k
    BY <1>2, <1>3, <1>4, <2>2
  <2> QED
    BY <2>1, <2>2 DEF Moves
<1> HIDE DEF x, y
<1>7. (c + 1) % 2 = 1 <=> ~ (c % 2 = 1)
  BY <1>4
<1> QED
  BY <1>1, <1>5, <1>6, <1>7

\* When k moves the way it faces, its digit goes up and those of the smaller
\* keys stay.
LEMMA DigitGoesUp ==
  ASSUME NEW a, NEW b, NEW p, NEW k, NEW j, Exchanged(a, b, p), Moves(a, p, k, j),
         a[p] = k <=> Turned(a, k)
  PROVE  /\ Digit(b, k) = Digit(a, k) + 1
         /\ \A l \in Keys : l < k => Digit(a, l) = Digit(b, l)
<1>1. k \in Keys /\ j \in Keys /\ j < k /\ k \in Int /\ j \in Int /\ j # k
  BY DEF Moves, Keys
<1>2. \A l \in Keys : l <= k => (Turned(b, l) <=> Turned(a, l))
  BY LargerTurn
<1>3. \A l \in Keys : l < k => Digit(a, l) = Digit(b, l)
  <2> SUFFICES ASSUME NEW l \in Keys, l < k PROVE Digit(a, l) = Digit(b, l)
    OBVIOUS
  <2> DEFINE R == IF Turned(a, l) THEN PassedRight(l) ELSE PassedLeft(l)
  <2>1. l \in Int /\ (Turned(b, l) <=> Turned(a, l))
    BY <1>1, <1>2 DEF Keys
  <2>2. ~ (<<k, j>> \in PassedRight(l)) /\ ~ (<<j, k>> \in PassedRight(l))
    BY <1>1, <2>1 DEF PassedRight
  <2>3. ~ (<<k, j>> \in PassedLeft(l)) /\ ~ (<<j, k>> \in PassedLeft(l))
    BY <1>1, <2>1 DEF PassedLeft
  <2>4. ~ (<<k, j>> \in R) /\ ~ (<<j, k>> \in R)
    BY <2>2, <2>3
  <2>5. Digit(a, l) = Cardinality(Pairs(a, R)) /\ Digit(b, l) = Cardinality(Pairs(b, R))
    BY <2>1 DEF Digit
  <2> HIDE DEF R
  <2>6. PICK c \in Nat : /\ Cardinality(Pairs(a, R)) = IF <<a[p], a[p + 1]>> \in R THEN c + 1 ELSE c
                         /\ Cardinality(Pairs(b, R)) = IF <<a[p + 1], a[p]>> \in R THEN c + 1 ELSE c
    BY ExchangeCounts
  <2>7. ~ (<<a[p], a[p + 1]>> \in R) /\ ~ (<<a[p + 1], a[p]>> \in R)
    BY <2>4 DEF Moves
  <2> QED
    BY <2>5, <2>6, <2>7
<1>4. Digit(b, k) = Digit(a, k) + 1
  <2> DEFINE R == IF Turned(a, k) THEN PassedRight(k) ELSE PassedLeft(k)
  <2>1. Turned(b, k) <=> Turned(a, k)
    BY <1>1, <1>2
  <2>2. Digit(a, k) = Cardinality(Pairs(a, R)) /\ Digit(b, k) = Cardinality(Pairs(b, R))
    BY <2>1 DEF Digit
  <2>3. <<j, k>> \in PassedRight(k) /\ ~ (<<k, j>> \in PassedRight(k))
    BY <1>1 DEF PassedRight
  <2>4. <<k, j>> \in PassedLeft(k) /\ ~ (<<j, k>> \in PassedLeft(k))
    BY <1>1 DEF PassedLeft
  <2>5. <<a[p + 1], a[p]>> \in R /\ ~ (<<a[p], a[p + 1]>> \in R)
    <3>1. CASE Turned(a, k)
      <4>1. a[p] = k /\ a[p + 1] = j
        BY <3>1, <1>1 DEF Moves
      <4> QED
        BY <3>1, <4>1, <2>3
    <3>2. CASE ~ Turned(a, k)
      <4>1. a[p] = j /\ a[p + 1] = k
        BY <3>2, <1>1 DEF Moves
      <4> QED
        BY <3>2, <4>1, <2>4
    <3> QED
      BY <3>1, <3>2
  <2> HIDE DEF R
  <2>6. PICK c \in Nat : /\ Cardinality(Pairs(a, R)) = IF <<a[p], a[p + 1]>> \in R THEN c + 1 ELSE c
                         /\ Cardinality(Pairs(b, R)) = IF <<a[p + 1], a[p]>> \in R THEN c + 1 ELSE c
    BY ExchangeCounts
  <2> QED
    BY <2>2, <2>5, <2>6
<1> QED
  BY <1>3, <1>4

LEMMA PrecedesNotItself == ASSUME NEW a PROVE ~ Precedes(a, a)
<1>1. \A k : Digit(a, k) \in Nat
  BY DigitIsNat
<1> QED
  BY <1>1 DEF Precedes

LEMMA PrecedesTransitive ==
  ASSUME NEW a, NEW b, NEW c, Precedes(a, b), Precedes(b, c)
  PROVE  Precedes(a, c)
<1>1. PICK k \in Keys : Digit(a, k) < Digit(b, k) /\ \A l \in Keys : l < k => Digit(a, l) = Digit(b, l)
  BY DEF Precedes
<1>2. PICK m \in Keys : Digit(b, m) < Digit(c, m) /\ \A l \in Keys : l < m => Digit(b, l) = Digit(c, l)
  BY DEF Precedes
<1>3. \A l \in Keys : l \in Int /\ Digit(a, l) \in Nat /\ Digit(b, l) \in Nat /\ Digit(c, l) \in Nat
  BY DigitIsNat DEF Keys
<1>4. CASE k <= m
  <2>1. Digit(a, k) < Digit(c, k)
    BY <1>1, <1>2, <1>3, <1>4
  <2>2. \A l \in Keys : l < k => Digit(a, l) = Digit(c, l)
    BY <1>1, <1>2, <1>3, <1>4
  <2> QED
    BY <2>1, <2>2 DEF Precedes
<1>5. CASE m < k
  <2>1. Digit(a, m) < Digit(c, m)
    BY <1>1, <1>2, <1>3, <1>5
  <2>2. \A l \in Keys : l < m => Digit(a, l) = Digit(c, l)
    BY <1>1, <1>2, <1>3, <1>5
  <2> QED
    BY <2>1, <2>2 DEF Precedes
<1> QED
  BY <1>3, <1>4, <1>5
-----------------------------------------------------------------------------
\* An element faces right when the smaller ones before it have moved an odd number
\* of times.
Facing == \A i \in Indices : directions[i] = "right" <=> Turned(KeysOf(elems), key[elems[i]])

\* All the arrays that came precede the one there is now.
Ascending == \A s \in seen : s = KeysOf(elems) \/ Precedes(s, KeysOf(elems))

Counted == IsFiniteSet(seen) /\ Cardinality(seen) = index + 1

\* No array that precedes the one there is now was left out.
Gapless ==
  KeysDiffer => \A s \in Arrangements : Precedes(KeysOf(s), KeysOf(elems)) => KeysOf(s) \in seen

Listed == KeysOf(elems) \in seen /\ seen \subseteq {KeysOf(s) : s \in Arrangements}

Stopped == ended => Mobile = {}

IInv == TypeOK /\ Facing /\ Ascending /\ Counted /\ Gapless /\ Listed /\ Stopped

\* A sorted array has no inversions, so nothing in it has turned.
LEMMA SortedFacesLeft ==
  ASSUME key \in [Indices -> Keys], NEW s \in Sorted, NEW k
  PROVE  ~ Turned([i \in Indices |-> key[s[i]]], k)
<1> DEFINE a == [i \in Indices |-> key[s[i]]]
<1>1. \A i, j \in Indices : i < j => key[s[i]] <= key[s[j]]
  BY DEF Sorted
<1>2. \A i \in Indices : s[i] \in Indices /\ key[s[i]] \in Int
  BY DEF Sorted, Arrangements, Bijection, Injection, Keys
<1>3. \A i, j \in Indices : i < j => ~ (<<a[i], a[j]>> \in Inverted(k))
  BY <1>1, <1>2 DEF Inverted
<1> HIDE DEF a
<1>4. Pairs(a, Inverted(k)) = {}
  BY <1>3 DEF Pairs
<1>5. Cardinality(Pairs(a, Inverted(k))) = 0
  BY <1>4, FS_EmptySet
<1>6. ~ Turned(a, k)
  BY <1>5 DEF Turned
<1> QED
  BY <1>6 DEF a

\* The step exchanges a key with the smaller one it faces.
LEMMA StepMoves ==
  ASSUME TypeOK, NextPermutation
  PROVE  \E m, f, p \in Indices :
           /\ f = Faced(m)
           /\ elems' = Swap(elems, m, f) /\ directions' = Swap(Flipped(m), m, f)
           /\ Exchanged(KeysOf(elems), KeysOf(elems'), p)
           /\ Moves(KeysOf(elems), p, key[elems[m]], key[elems[f]])
           /\ p = IF directions[m] = "right" THEN m ELSE f
           /\ \A i \in Mobile : key[elems[i]] <= key[elems[m]]
<1> DEFINE m == LargestMobile
           f == Faced(m)
           p == IF directions[m] = "right" THEN m ELSE f
           a == KeysOf(elems)
           b == KeysOf(elems')
<1>1. m \in Indices /\ f \in Indices /\ Compare(m, f) > 0
  BY MovesInside DEF NextPermutation
<1>2. elems' = Swap(elems, m, f) /\ directions' = Swap(Flipped(m), m, f)
  BY DEF NextPermutation
<1>3. /\ elems \in [Indices -> Indices] /\ key \in [Indices -> Keys]
      /\ directions \in [Indices -> {"left", "right"}]
  BY DEF TypeOK, Arrangements, Bijection, Injection, Keys
<1>4. f = IF directions[m] = "right" THEN m + 1 ELSE m - 1
  BY <1>1, <1>3 DEF Faced
<1>5. f = Faced(m)
  OBVIOUS
<1> HIDE DEF m, f
<1>6. /\ m \in Int /\ f \in Int /\ m # f
      /\ {p, p + 1} = {m, f} /\ p \in Indices /\ p + 1 \in Indices
      /\ (p = m /\ p + 1 = f) \/ (p = f /\ p + 1 = m)
  BY <1>1, <1>4 DEF Indices
<1>7. elems' \in [Indices -> Indices] /\ elems'[m] = elems[f] /\ elems'[f] = elems[m]
      /\ \A i \in Indices \ {m, f} : elems'[i] = elems[i]
  BY <1>1, <1>2, <1>3, <1>6 DEF Swap
<1>8. a \in [Indices -> Keys] /\ b \in [Indices -> Keys]
  BY <1>3, <1>7 DEF KeysOf
<1>9. /\ a[m] = key[elems[m]] /\ a[f] = key[elems[f]] /\ b[m] = a[f] /\ b[f] = a[m]
      /\ \A i \in Indices \ {m, f} : b[i] = a[i]
  BY <1>1, <1>7 DEF KeysOf
<1>10. p = IF directions[m] = "right" THEN m ELSE f
  OBVIOUS
<1> HIDE DEF a, b, p
<1>11. Exchanged(a, b, p)
  BY <1>6, <1>8, <1>9 DEF Exchanged
<1>12. key[elems[m]] \in Keys /\ key[elems[f]] \in Keys /\ key[elems[f]] < key[elems[m]]
  BY <1>1, <1>3 DEF Compare, Keys
<1>13. Moves(a, p, key[elems[m]], key[elems[f]])
  BY <1>6, <1>9, <1>12 DEF Moves
<1>14. \A i \in Mobile : key[elems[i]] <= key[elems[m]]
  <2>1. \A i \in Mobile : i \in Indices
    BY DEF Mobile
  <2>2. \A i \in Mobile : key[elems[i]] \in Keys
    BY <1>3, <2>1
  <2>3. \A i \in Mobile : Compare(m, i) >= 0
    BY MovesInside DEF m, NextPermutation
  <2> QED
    BY <1>12, <2>2, <2>3 DEF Compare, Keys
<1> QED
  BY <1>1, <1>2, <1>5, <1>6, <1>10, <1>11, <1>13, <1>14 DEF a, b

LEMMA StepKeepsFacing == ASSUME TypeOK, Facing, NextPermutation PROVE Facing'
<1>1. PICK m, f, p \in Indices :
        /\ f = Faced(m)
        /\ elems' = Swap(elems, m, f) /\ directions' = Swap(Flipped(m), m, f)
        /\ Exchanged(KeysOf(elems), KeysOf(elems'), p)
        /\ Moves(KeysOf(elems), p, key[elems[m]], key[elems[f]])
        /\ p = IF directions[m] = "right" THEN m ELSE f
  BY StepMoves
<1> DEFINE a == KeysOf(elems)
           b == KeysOf(elems')
<1>2. /\ elems \in [Indices -> Indices] /\ key \in [Indices -> Keys] /\ key' = key
      /\ directions \in [Indices -> {"left", "right"}]
  BY DEF TypeOK, Arrangements, Bijection, Injection, Keys, NextPermutation
<1>3. \A l \in Keys : /\ l <= key[elems[m]] => (Turned(b, l) <=> Turned(a, l))
                      /\ key[elems[m]] < l => (Turned(b, l) <=> ~ Turned(a, l))
  BY <1>1, LargerTurn
<1>4. \A i \in Indices : directions[i] = "right" <=> Turned(a, key[elems[i]])
  BY DEF Facing
<1> HIDE DEF a, b
\* An element that was at place i faces the right way in the new array.
<1>5. \A i \in Indices : Flipped(m)[i] = "right" <=> Turned(b, key[elems[i]])
  <2> SUFFICES ASSUME NEW i \in Indices
               PROVE  Flipped(m)[i] = "right" <=> Turned(b, key[elems[i]])
    OBVIOUS
  <2>1. key[elems[i]] \in Keys /\ key[elems[i]] \in Int /\ key[elems[m]] \in Int
    BY <1>2 DEF Keys
  <2>2. Flipped(m)[i] = IF key[elems[i]] > key[elems[m]] THEN Flip(directions[i]) ELSE directions[i]
    BY <2>1 DEF Flipped, Compare
  <2>3. Flip(directions[i]) = "right" <=> ~ (directions[i] = "right")
    BY <1>2 DEF Flip
  <2>4. CASE key[elems[i]] > key[elems[m]]
    BY <1>3, <1>4, <2>1, <2>2, <2>3, <2>4
  <2>5. CASE key[elems[i]] <= key[elems[m]]
    BY <1>3, <1>4, <2>1, <2>2, <2>5
  <2> QED
    BY <2>1, <2>4, <2>5
<1>6. \A i \in Indices : directions'[i] = "right" <=> Turned(b, key[elems'[i]])
  <2> SUFFICES ASSUME NEW i \in Indices
               PROVE  directions'[i] = "right" <=> Turned(b, key[elems'[i]])
    OBVIOUS
  <2> DEFINE o == IF i = m THEN f ELSE IF i = f THEN m ELSE i
  <2>1. o \in Indices
    OBVIOUS
  <2>2. elems'[i] = elems[o]
    BY <1>1, <1>2 DEF Swap
  <2>3. Flipped(m) \in [Indices -> {"left", "right"}]
    BY <1>2 DEF Flipped, Flip
  <2>4. directions'[i] = Flipped(m)[o]
    BY <1>1, <2>3 DEF Swap
  <2> HIDE DEF o
  <2> QED
    BY <1>5, <2>1, <2>2, <2>4
<1>7. b = [i \in Indices |-> key'[elems'[i]]]
  BY <1>2 DEF b, KeysOf
<1> QED
  BY <1>2, <1>6, <1>7 DEF Facing, KeysOf

LEMMA StepKeepsCount ==
  ASSUME TypeOK, Facing, Ascending, Counted, NextPermutation
  PROVE  Ascending' /\ Counted'
<1>1. PICK m, f, p \in Indices :
        /\ f = Faced(m)
        /\ Exchanged(KeysOf(elems), KeysOf(elems'), p)
        /\ Moves(KeysOf(elems), p, key[elems[m]], key[elems[f]])
        /\ p = IF directions[m] = "right" THEN m ELSE f
  BY StepMoves
<1> DEFINE a == KeysOf(elems)
           b == KeysOf(elems')
<1>2. a[m] = key[elems[m]] /\ a[f] = key[elems[f]]
  BY DEF KeysOf
<1>3. key[elems[f]] < key[elems[m]] /\ key[elems[f]] \in Int /\ key[elems[m]] \in Int
  BY <1>1 DEF Moves, Keys
<1>4. directions[m] = "right" <=> Turned(a, key[elems[m]])
  BY DEF Facing
<1>5. key' = key /\ index' = index + 1 /\ seen' = seen \cup {b} /\ index \in Nat
  BY PermuterAssumption DEF NextPermutation, TypeOK
<1>6. \A s \in seen : s = a \/ Precedes(s, a)
  BY DEF Ascending
<1>7. b = KeysOf(elems)'
  BY <1>5 DEF KeysOf
<1> HIDE DEF a, b
<1>8. a[p] = key[elems[m]] <=> Turned(a, key[elems[m]])
  BY <1>1, <1>2, <1>3, <1>4
<1>9. Precedes(a, b)
  <2> DEFINE k == key[elems[m]]
  <2>1. Digit(b, k) = Digit(a, k) + 1 /\ \A l \in Keys : l < k => Digit(a, l) = Digit(b, l)
    BY <1>1, <1>8, DigitGoesUp DEF a, b
  <2>2. k \in Keys /\ Digit(a, k) \in Nat
    BY <1>1, DigitIsNat DEF Moves
  <2> QED
    BY <2>1, <2>2 DEF Precedes
<1>10. \A s \in seen : Precedes(s, b)
  BY <1>6, <1>9, PrecedesTransitive
<1>11. b \notin seen
  BY <1>10, PrecedesNotItself
<1>12. IsFiniteSet(seen') /\ Cardinality(seen') = Cardinality(seen) + 1
  BY <1>5, <1>11, FS_AddElement DEF Counted
<1>13. Counted'
  BY <1>5, <1>12 DEF Counted
<1>14. \A s \in seen' : s = b \/ Precedes(s, b)
  BY <1>5, <1>10
<1>15. Ascending'
  BY <1>14, <1>7 DEF Ascending
<1> QED
  BY <1>13, <1>15

\* A new array, in order.
LEMMA RestartFits ==
  ASSUME key \in [Indices -> Keys], NEW s \in Sorted, NEW d, NEW g, NEW n,
         d = [i \in Indices |-> "left"], g = {KeysOf(s)}, n = 0
  PROVE  /\ \A i \in Indices : d[i] = "right" <=> Turned(KeysOf(s), key[s[i]])
         /\ \A t \in g : t = KeysOf(s) \/ Precedes(t, KeysOf(s))
         /\ IsFiniteSet(g) /\ Cardinality(g) = n + 1
<1>1. \A k : ~ Turned(KeysOf(s), k)
  BY SortedFacesLeft DEF KeysOf
<1>2. IsFiniteSet({KeysOf(s)}) /\ Cardinality({KeysOf(s)}) = 1
  BY FS_Singleton
<1> QED
  BY <1>1, <1>2
-----------------------------------------------------------------------------
(***************************************************************************)
(* No array is left out.  The digit of a key is at most the number of the  *)
(* elements with smaller keys, and the keys that cannot move any more are  *)
(* at that limit: nothing fits between an array and the next one.  Where   *)
(* only the smallest key comes more than once, the digits tell the array.  *)
(***************************************************************************)
\* An element with key k and a smaller one.
Above(k) == {z \in Indices \X Indices : key[z[1]] = k /\ key[z[2]] < k}

\* Each smaller element is on one side of k, whatever the arrangement.
LEMMA SidesAddUp ==
  ASSUME key \in [Indices -> Keys], NEW s \in Arrangements, NEW k \in Keys
  PROVE  Cardinality(Pairs(KeysOf(s), PassedLeft(k))) + Cardinality(Pairs(KeysOf(s), PassedRight(k)))
           = Cardinality(Above(k))
<1> DEFINE a == KeysOf(s)
           L == Pairs(a, PassedLeft(k))
           R == Pairs(a, PassedRight(k))
           g == [z \in L \cup R |-> IF a[z[1]] = k THEN <<s[z[1]], s[z[2]]>> ELSE <<s[z[2]], s[z[1]]>>]
<1>1. /\ s \in [Indices -> Indices]
      /\ \A i, j \in Indices : s[i] = s[j] => i = j
      /\ \A e \in Indices : \E i \in Indices : s[i] = e
      /\ \A i \in Indices : i \in Int
      /\ k \in Int
  <2>1. s \in [Indices -> Indices] /\ \A i, j \in Indices : s[i] = s[j] => i = j
    BY DEF Arrangements, Bijection, Injection, IsInjective
  <2>2. \A e \in Indices : \E i \in Indices : s[i] = e
    BY DEF Arrangements, Bijection, Surjection
  <2>3. (\A i \in Indices : i \in Int) /\ k \in Int
    BY PermuterAssumption DEF Indices, Keys
  <2> QED
    BY <2>1, <2>2, <2>3
<1>2. \A i \in Indices : a[i] = key[s[i]] /\ a[i] \in Keys /\ a[i] \in Int
  BY <1>1 DEF KeysOf, Keys
<1>3. \A i, j : <<i, j>> \in L <=> i \in Indices /\ j \in Indices /\ i < j /\ a[i] = k /\ a[j] < k
  BY <1>2 DEF Pairs, PassedLeft
<1>4. \A i, j : <<i, j>> \in R <=> i \in Indices /\ j \in Indices /\ i < j /\ a[i] < k /\ a[j] = k
  BY <1>2 DEF Pairs, PassedRight
<1>5. \A z \in L \cup R : z = <<z[1], z[2]>> /\ z[1] \in Indices /\ z[2] \in Indices
  BY DEF Pairs
<1>6. \A e, o : <<e, o>> \in Above(k) <=> e \in Indices /\ o \in Indices /\ key[e] = k /\ key[o] < k
  BY DEF Above
<1>7. \A y \in Above(k) : y = <<y[1], y[2]>> /\ y[1] \in Indices /\ y[2] \in Indices
  BY DEF Above
<1>8. IsFiniteSet(L) /\ IsFiniteSet(R)
  BY PairsAreFinite
<1> HIDE DEF a, L, R
<1>9. L \cap R = {}
  <2> SUFFICES ASSUME NEW z \in L, z \in R PROVE FALSE
    OBVIOUS
  <2>1. PICK i, j : z = <<i, j>> /\ i \in Indices /\ j \in Indices
    BY <1>5
  <2> QED
    BY <2>1, <1>1, <1>2, <1>3, <1>4
<1>10. Cardinality(L \cup R) = Cardinality(L) + Cardinality(R) /\ IsFiniteSet(L \cup R)
  <2>1. Cardinality(L \cup R) = Cardinality(L) + Cardinality(R) - Cardinality(L \cap R)
    BY <1>8, FS_Union
  <2>2. Cardinality(L \cap R) = 0
    BY <1>9, FS_EmptySet
  <2>3. Cardinality(L) \in Nat /\ Cardinality(R) \in Nat
    BY <1>8, FS_CardinalityType
  <2> QED
    BY <1>8, <2>1, <2>2, <2>3, FS_Union
<1>11. \A z \in L \cup R : g[z] \in Above(k)
  <2> SUFFICES ASSUME NEW z \in L \cup R PROVE g[z] \in Above(k)
    OBVIOUS
  <2>1. PICK i, j : z = <<i, j>> /\ i \in Indices /\ j \in Indices
    BY <1>5
  <2>2. g[z] = IF a[i] = k THEN <<s[i], s[j]>> ELSE <<s[j], s[i]>>
    BY <2>1
  <2>3. (a[i] = k /\ a[j] < k) \/ (a[i] < k /\ a[j] = k)
    BY <1>3, <1>4, <2>1
  <2>4. s[i] \in Indices /\ s[j] \in Indices /\ a[i] = key[s[i]] /\ a[j] = key[s[j]] /\ a[i] \in Int /\ a[j] \in Int
    BY <1>1, <1>2, <2>1
  <2> HIDE DEF g
  <2>5. CASE a[i] = k /\ a[j] < k
    <3>1. g[z] = <<s[i], s[j]>>
      BY <2>2, <2>5
    <3>2. <<s[i], s[j]>> \in Above(k)
      BY <2>4, <2>5 DEF Above
    <3> QED
      BY <3>1, <3>2
  <2>6. CASE a[i] < k /\ a[j] = k
    <3>1. a[i] # k
      BY <1>1, <2>4, <2>6
    <3>2. g[z] = <<s[j], s[i]>>
      BY <2>2, <3>1
    <3>3. <<s[j], s[i]>> \in Above(k)
      BY <2>4, <2>6 DEF Above
    <3> QED
      BY <3>2, <3>3
  <2> QED
    BY <2>3, <2>5, <2>6
<1>12. \A y \in Above(k) : \E z \in L \cup R : g[z] = y
  <2> SUFFICES ASSUME NEW y \in Above(k) PROVE \E z \in L \cup R : g[z] = y
    OBVIOUS
  <2>1. PICK e, o : y = <<e, o>> /\ e \in Indices /\ o \in Indices
    BY <1>7
  <2>2. key[e] = k /\ key[o] < k
    BY <1>6, <2>1
  <2>3. PICK i \in Indices : s[i] = e
    BY <1>1, <2>1
  <2>4. PICK j \in Indices : s[j] = o
    BY <1>1, <2>1
  <2>5. a[i] = k /\ a[j] < k /\ i \in Int /\ j \in Int /\ a[j] \in Int
    BY <1>1, <1>2, <2>2, <2>3, <2>4
  <2>6. CASE i < j
    <3>1. <<i, j>> \in L
      BY <1>3, <2>5, <2>6
    <3>2. g[<<i, j>>] = <<s[i], s[j]>>
      BY <2>5, <3>1
    <3> QED
      BY <2>1, <2>3, <2>4, <3>1, <3>2
  <2>7. CASE j < i
    <3>1. <<j, i>> \in R
      BY <1>4, <2>5, <2>7
    <3>2. a[j] # k
      BY <1>1, <2>5
    <3>3. g[<<j, i>>] = <<s[i], s[j]>>
      BY <3>1, <3>2
    <3> QED
      BY <2>1, <2>3, <2>4, <3>1, <3>3
  <2>8. i < j \/ j < i
    <3>1. i # j
      BY <1>1, <2>5
    <3> QED
      BY <2>5, <3>1
  <2> QED
    BY <2>6, <2>7, <2>8
<1>13. \A y, z \in L \cup R : g[y] = g[z] => y = z
  <2> SUFFICES ASSUME NEW y \in L \cup R, NEW z \in L \cup R, g[y] = g[z] PROVE y = z
    OBVIOUS
  <2>1. PICK i, j : y = <<i, j>> /\ i \in Indices /\ j \in Indices
    BY <1>5
  <2>2. PICK m, n : z = <<m, n>> /\ m \in Indices /\ n \in Indices
    BY <1>5
  <2>3. /\ g[y] = IF a[i] = k THEN <<s[i], s[j]>> ELSE <<s[j], s[i]>>
        /\ g[z] = IF a[m] = k THEN <<s[m], s[n]>> ELSE <<s[n], s[m]>>
    BY <2>1, <2>2
  <2>4. i \in Int /\ j \in Int /\ m \in Int /\ n \in Int /\ i < j /\ m < n
    BY <1>1, <1>3, <1>4, <2>1, <2>2
  <2> HIDE DEF g
  <2>5. (i = m /\ j = n) \/ (i = n /\ j = m)
    <3>1. (s[i] = s[m] /\ s[j] = s[n]) \/ (s[i] = s[n] /\ s[j] = s[m])
      <4> DEFINE u == s[i] v == s[j] x == s[m] w == s[n]
      <4>1. IF a[i] = k THEN g[y] = <<u, v>> ELSE g[y] = <<v, u>>
        BY <2>3
      <4>2. IF a[m] = k THEN g[z] = <<x, w>> ELSE g[z] = <<w, x>>
        BY <2>3
      <4> HIDE DEF u, v, x, w
      <4>3. (u = x /\ v = w) \/ (u = w /\ v = x)
        BY <4>1, <4>2
      <4> QED
        BY <4>3 DEF u, v, x, w
    <3> QED
      BY <1>1, <2>1, <2>2, <3>1
  <2>6. i = m /\ j = n
    BY <2>4, <2>5
  <2> QED
    BY <2>1, <2>2, <2>6
<1>14. g \in [L \cup R -> Above(k)]
  BY <1>11
<1> HIDE DEF g
<1>15. g \in Bijection(L \cup R, Above(k))
  BY <1>12, <1>13, <1>14 DEF Bijection, Injection, IsInjective, Surjection
<1>16. Cardinality(Above(k)) = Cardinality(L \cup R)
  BY <1>10, <1>15, FS_Bijection DEF ExistsBijection
<1> QED
  BY <1>10, <1>16 DEF L, R, a

\* All the smaller elements have been passed since the key last turned.
Through(a, k) == Pairs(a, IF Turned(a, k) THEN PassedLeft(k) ELSE PassedRight(k)) = {}

\* Then no arrangement has a larger digit.
LEMMA ThroughIsLargest ==
  ASSUME key \in [Indices -> Keys], NEW s \in Arrangements, NEW t \in Arrangements, NEW k \in Keys,
         Through(KeysOf(s), k)
  PROVE  Digit(KeysOf(t), k) <= Digit(KeysOf(s), k)
<1> DEFINE left(a)  == Cardinality(Pairs(a, PassedLeft(k)))
           right(a) == Cardinality(Pairs(a, PassedRight(k)))
           total    == Cardinality(Above(k))
<1>1. left(KeysOf(s)) + right(KeysOf(s)) = total /\ left(KeysOf(t)) + right(KeysOf(t)) = total
  BY SidesAddUp
<1>2. \A a : /\ left(a) \in Nat /\ right(a) \in Nat
             /\ Digit(a, k) = IF Turned(a, k) THEN right(a) ELSE left(a)
  BY PairsAreFinite DEF Digit
<1>3. IF Turned(KeysOf(s), k) THEN left(KeysOf(s)) = 0 ELSE right(KeysOf(s)) = 0
  BY FS_EmptySet DEF Through
<1> HIDE DEF left, right, total
<1>4. Digit(KeysOf(s), k) = total
  BY <1>1, <1>2, <1>3
<1> QED
  BY <1>1, <1>2, <1>4

\* An element that faces left, and that no larger one keeps from moving, has only
\* larger ones before it.
LEMMA LeftIsPassed ==
  ASSUME TypeOK, KeysDiffer, NEW k \in Keys, \A i \in Mobile : key[elems[i]] < k,
         NEW i \in Indices, directions[i] = "left", k <= key[elems[i]],
         NEW e \in Indices, key[e] < key[elems[i]]
  PROVE  \A j \in Indices : j < i => key[elems[j]] > key[elems[i]]
<1> DEFINE a(x) == key[elems[x]]
           Stuck == {x \in Indices : /\ directions[x] = "left" /\ k <= a(x)
                                     /\ \E o \in Indices : key[o] < a(x)
                                     /\ \E j \in Indices : j < x /\ ~ (a(j) > a(x))}
<1>1. /\ elems \in [Indices -> Indices] /\ key \in [Indices -> Keys]
      /\ directions \in [Indices -> {"left", "right"}]
      /\ \A x, y \in Indices : elems[x] = elems[y] => x = y
  BY DEF TypeOK, Arrangements, Bijection, Injection, IsInjective, Keys
<1>2. /\ \A x \in Indices : x \in Nat /\ a(x) \in Int
      /\ \A o \in Indices : key[o] \in Int
      /\ k \in Int /\ N \in Nat
  <2>1. N \in Nat /\ k \in Int
    BY PermuterAssumption DEF Keys
  <2>2. \A x \in Indices : x \in Nat
    BY <2>1 DEF Indices
  <2>3. \A o \in Indices : key[o] \in Keys /\ elems[o] \in Indices
    BY <1>1
  <2>4. \A o \in Keys : o \in Int
    BY DEF Keys
  <2> QED
    BY <2>1, <2>2, <2>3, <2>4
<1>3. SUFFICES ASSUME Stuck # {} PROVE FALSE
  OBVIOUS
<1>4. PICK x \in Stuck : \A y \in Stuck : x <= y
  <2>1. Stuck \in SUBSET Nat
    BY <1>2
  <2> HIDE DEF Stuck
  <2> QED
    BY <1>3, <2>1, FirstExists
<1>5. PICK o \in Indices : key[o] < a(x)
  BY <1>4
<1>6. PICK j \in Indices : j < x /\ ~ (a(j) > a(x))
  BY <1>4
<1>7. x \in Indices /\ directions[x] = "left" /\ k <= a(x)
  BY <1>4
<1>8. ~ IsMobile(x)
  BY <1>2, <1>7 DEF Mobile
<1> DEFINE y == x - 1
<1>9. y \in Indices /\ Faced(x) = y /\ y \in Int /\ x = y + 1 /\ j <= y
  BY <1>2, <1>6, <1>7 DEF Faced, Indices
<1> HIDE DEF y
<1>10. a(y) >= a(x)
  BY <1>2, <1>7, <1>8, <1>9 DEF IsMobile, Compare
<1>11. a(y) # a(x)
  <2>1. elems[x] \in Indices /\ elems[y] \in Indices /\ elems[x] # elems[y]
    BY <1>1, <1>7, <1>9, <1>2
  <2>2. a(y) = a(x) => elems[x] \in Larger /\ elems[y] \in Larger
    BY <1>5, <2>1 DEF Larger
  <2> QED
    BY <2>1, <2>2 DEF KeysDiffer
<1>12. a(y) > a(x)
  BY <1>2, <1>7, <1>9, <1>10, <1>11
<1>13. ~ IsMobile(y)
  BY <1>2, <1>7, <1>9, <1>12 DEF Mobile
<1>14. directions[y] = "left"
  <2>1. Compare(y, x) > 0
    BY <1>2, <1>7, <1>9, <1>12 DEF Compare
  <2>2. directions[y] # "left" => Faced(y) = x
    BY <1>9 DEF Faced
  <2> QED
    BY <1>7, <1>13, <2>1, <2>2 DEF IsMobile
<1>15. j # y /\ j < y
  BY <1>2, <1>6, <1>9, <1>12
<1>16. y \in Stuck
  <2>1. k <= a(y) /\ key[o] < a(y) /\ ~ (a(j) > a(y))
    BY <1>2, <1>5, <1>6, <1>7, <1>9, <1>12
  <2> QED
    BY <1>9, <1>14, <1>15, <2>1
<1> QED
  BY <1>2, <1>4, <1>9, <1>16

\* And one that faces right has only larger ones after it.
LEMMA RightIsPassed ==
  ASSUME TypeOK, KeysDiffer, NEW k \in Keys, \A i \in Mobile : key[elems[i]] < k,
         NEW i \in Indices, directions[i] = "right", k <= key[elems[i]],
         NEW e \in Indices, key[e] < key[elems[i]]
  PROVE  \A j \in Indices : i < j => key[elems[j]] > key[elems[i]]
<1> DEFINE a(x) == key[elems[x]]
           Stuck == {x \in Indices : /\ directions[x] = "right" /\ k <= a(x)
                                     /\ \E o \in Indices : key[o] < a(x)
                                     /\ \E j \in Indices : x < j /\ ~ (a(j) > a(x))}
           ToEnd == {N - 1 - x : x \in Stuck}
<1>1. /\ elems \in [Indices -> Indices] /\ key \in [Indices -> Keys]
      /\ directions \in [Indices -> {"left", "right"}]
      /\ \A x, y \in Indices : elems[x] = elems[y] => x = y
  BY DEF TypeOK, Arrangements, Bijection, Injection, IsInjective, Keys
<1>2. /\ \A x \in Indices : x \in Nat /\ a(x) \in Int /\ x <= N - 1
      /\ \A o \in Indices : key[o] \in Int
      /\ k \in Int /\ N \in Nat
  <2>1. N \in Nat /\ k \in Int
    BY PermuterAssumption DEF Keys
  <2>2. \A x \in Indices : x \in Nat /\ x <= N - 1
    BY <2>1 DEF Indices
  <2>3. \A o \in Indices : key[o] \in Keys /\ elems[o] \in Indices
    BY <1>1
  <2>4. \A o \in Keys : o \in Int
    BY DEF Keys
  <2> QED
    BY <2>1, <2>2, <2>3, <2>4
<1>3. SUFFICES ASSUME Stuck # {} PROVE FALSE
  OBVIOUS
<1>4. PICK x \in Stuck : \A y \in Stuck : y <= x
  <2>1. \A y \in Stuck : y \in Nat /\ y <= N - 1
    BY <1>2
  <2> HIDE DEF Stuck
  <2>2. ToEnd \in SUBSET Nat /\ ToEnd # {}
    BY <1>2, <1>3, <2>1
  <2> HIDE DEF ToEnd
  <2>3. PICK n \in ToEnd : \A m \in ToEnd : n <= m
    BY <2>2, FirstExists
  <2>4. PICK x \in Stuck : n = N - 1 - x
    BY <2>3 DEF ToEnd
  <2>5. \A y \in Stuck : n <= N - 1 - y
    BY <2>3 DEF ToEnd
  <2> QED
    BY <1>2, <2>1, <2>4, <2>5
<1>5. PICK o \in Indices : key[o] < a(x)
  BY <1>4
<1>6. PICK j \in Indices : x < j /\ ~ (a(j) > a(x))
  BY <1>4
<1>7. x \in Indices /\ directions[x] = "right" /\ k <= a(x)
  BY <1>4
<1>8. ~ IsMobile(x)
  BY <1>2, <1>7 DEF Mobile
<1> DEFINE y == x + 1
<1>9. y \in Indices /\ Faced(x) = y /\ y \in Int /\ x = y - 1 /\ y <= j
  BY <1>2, <1>6, <1>7 DEF Faced, Indices
<1> HIDE DEF y
<1>10. a(y) >= a(x)
  BY <1>2, <1>7, <1>8, <1>9 DEF IsMobile, Compare
<1>11. a(y) # a(x)
  <2>1. elems[x] \in Indices /\ elems[y] \in Indices /\ elems[x] # elems[y]
    BY <1>1, <1>7, <1>9, <1>2
  <2>2. a(y) = a(x) => elems[x] \in Larger /\ elems[y] \in Larger
    BY <1>5, <2>1 DEF Larger
  <2> QED
    BY <2>1, <2>2 DEF KeysDiffer
<1>12. a(y) > a(x)
  BY <1>2, <1>7, <1>9, <1>10, <1>11
<1>13. ~ IsMobile(y)
  BY <1>2, <1>7, <1>9, <1>12 DEF Mobile
<1>14. directions[y] = "right"
  <2>1. Compare(y, x) > 0
    BY <1>2, <1>7, <1>9, <1>12 DEF Compare
  <2>2. directions[y] = "left" => Faced(y) = x
    BY <1>9 DEF Faced
  <2> QED
    BY <1>1, <1>7, <1>9, <1>13, <2>1, <2>2 DEF IsMobile
<1>15. y < j
  <2>1. j # y
    BY <1>6, <1>12
  <2> QED
    BY <1>2, <1>9, <2>1
<1>16. y \in Stuck
  <2>1. k <= a(y) /\ key[o] < a(y) /\ ~ (a(j) > a(y))
    BY <1>2, <1>5, <1>6, <1>7, <1>9, <1>12
  <2> QED
    BY <1>9, <1>14, <1>15, <2>1
<1> QED
  BY <1>2, <1>4, <1>9, <1>16

\* The keys larger than any that can move have passed all the smaller ones.
LEMMA LargerAreThrough ==
  ASSUME TypeOK, Facing, KeysDiffer, NEW k \in Keys, \A i \in Mobile : key[elems[i]] < k
  PROVE  Through(KeysOf(elems), k)
<1> DEFINE a == KeysOf(elems)
<1>1. elems \in [Indices -> Indices] /\ key \in [Indices -> Keys]
      /\ directions \in [Indices -> {"left", "right"}]
  BY DEF TypeOK, Arrangements, Bijection, Injection, Keys
<1>2. \A i \in Indices : /\ a[i] = key[elems[i]] /\ a[i] \in Int /\ elems[i] \in Indices
                         /\ directions[i] = "right" <=> Turned(a, a[i])
  BY <1>1 DEF KeysOf, Facing, Keys
<1>3. k \in Int /\ \A i \in Indices : i \in Int
  BY PermuterAssumption DEF Keys, Indices
<1> HIDE DEF a
<1>4. ASSUME Turned(a, k), NEW i \in Indices, NEW j \in Indices, i < j, a[i] = k, a[j] < k
      PROVE  FALSE
  <2>1. directions[i] = "right" /\ k <= key[elems[i]] /\ key[elems[j]] < key[elems[i]]
    BY <1>2, <1>3, <1>4
  <2>2. elems[j] \in Indices
    BY <1>2, <1>4
  <2>3. key[elems[j]] > key[elems[i]]
    BY <1>4, <2>1, <2>2, RightIsPassed
  <2> QED
    BY <1>2, <1>4, <2>1, <2>3
<1>5. ASSUME ~ Turned(a, k), NEW i \in Indices, NEW j \in Indices, i < j, a[i] < k, a[j] = k
      PROVE  FALSE
  <2>1. directions[j] = "left" /\ k <= key[elems[j]] /\ key[elems[i]] < key[elems[j]]
    BY <1>1, <1>2, <1>3, <1>5
  <2>2. elems[i] \in Indices
    BY <1>2, <1>5
  <2>3. key[elems[i]] > key[elems[j]]
    BY <1>5, <2>1, <2>2, LeftIsPassed
  <2> QED
    BY <1>2, <1>5, <2>1, <2>3
<1>6. CASE Turned(a, k)
  <2>1. Pairs(a, PassedLeft(k)) = {}
    BY <1>4, <1>6 DEF Pairs, PassedLeft
  <2> QED
    BY <1>6, <2>1 DEF Through, a
<1>7. CASE ~ Turned(a, k)
  <2>1. Pairs(a, PassedRight(k)) = {}
    BY <1>5, <1>7 DEF Pairs, PassedRight
  <2> QED
    BY <1>7, <2>1 DEF Through, a
<1> QED
  BY <1>6, <1>7

\* When they turn they have everything to pass again.
LEMMA TurnedStartAgain ==
  ASSUME NEW a, NEW b, NEW p, NEW k, NEW j, Exchanged(a, b, p), Moves(a, p, k, j),
         NEW l \in Keys, k < l, Through(a, l)
  PROVE  Digit(b, l) = 0
<1> DEFINE R == IF Turned(a, l) THEN PassedLeft(l) ELSE PassedRight(l)
<1>1. Turned(b, l) <=> ~ Turned(a, l)
  BY LargerTurn
<1>2. Digit(b, l) = Cardinality(Pairs(b, R))
  BY <1>1 DEF Digit
<1>3. Cardinality(Pairs(a, R)) = 0
  BY FS_EmptySet DEF Through
<1>4. k \in Int /\ j \in Int /\ l \in Int /\ j < k
  BY DEF Moves, Keys
<1>5. ~ (<<k, j>> \in R) /\ ~ (<<j, k>> \in R)
  BY <1>4 DEF PassedLeft, PassedRight
<1> HIDE DEF R
<1>6. PICK c \in Nat : /\ Cardinality(Pairs(a, R)) = IF <<a[p], a[p + 1]>> \in R THEN c + 1 ELSE c
                       /\ Cardinality(Pairs(b, R)) = IF <<a[p + 1], a[p]>> \in R THEN c + 1 ELSE c
  BY ExchangeCounts
<1>7. ~ (<<a[p], a[p + 1]>> \in R) /\ ~ (<<a[p + 1], a[p]>> \in R)
  BY <1>5 DEF Moves
<1> QED
  BY <1>2, <1>3, <1>6, <1>7
-----------------------------------------------------------------------------
\* The places before i whose keys are not larger than k.
Lower(a, k, i) == {j \in Indices : j < i /\ a[j] <= k}

LEMMA LowerIsFinite ==
  ASSUME NEW a, NEW k, NEW i
  PROVE  IsFiniteSet(Lower(a, k, i)) /\ Cardinality(Lower(a, k, i)) \in Nat
<1>1. IsFiniteSet(Indices)
  <2>1. 0 \in Int /\ N - 1 \in Int
    BY PermuterAssumption
  <2> QED
    BY <2>1, FS_Interval DEF Indices
<1>2. IsFiniteSet(Lower(a, k, i))
  BY <1>1, FS_Subset DEF Lower
<1> QED
  BY <1>2, FS_CardinalityType

\* A later place has more of them before it.
LEMMA LowerGrows ==
  ASSUME NEW a, NEW k, NEW i \in Indices, NEW j \in Indices, i < j, a[i] <= k
  PROVE  Cardinality(Lower(a, k, i)) < Cardinality(Lower(a, k, j))
<1>1. \A x \in Indices : x \in Int
  BY PermuterAssumption DEF Indices
<1>2. Lower(a, k, i) \cup {i} \in SUBSET Lower(a, k, j) /\ i \notin Lower(a, k, i)
  BY <1>1 DEF Lower
<1>3. Cardinality(Lower(a, k, i) \cup {i}) = Cardinality(Lower(a, k, i)) + 1
  BY <1>2, LowerIsFinite, FS_AddElement
<1>4. Cardinality(Lower(a, k, i) \cup {i}) <= Cardinality(Lower(a, k, j))
  BY <1>2, LowerIsFinite, FS_Subset
<1> QED
  BY <1>3, <1>4, LowerIsFinite

\* The one element with key k, at place u, counts for the places after it.
LEMMA LowerCountsOne ==
  ASSUME NEW a \in [Indices -> Keys], NEW k \in Int, NEW h, h = k - 1, NEW u \in Indices, a[u] = k,
         \A i \in Indices : a[i] = k => i = u, NEW i \in Indices
  PROVE  Cardinality(Lower(a, k, i)) = IF u < i THEN Cardinality(Lower(a, h, i)) + 1
                                       ELSE Cardinality(Lower(a, h, i))
<1>1. h \in Int /\ \A x \in Indices : a[x] \in Int
  BY DEF Keys
<1>2. CASE u < i
  <2>1. Lower(a, k, i) = Lower(a, h, i) \cup {u}
    BY <1>1, <1>2 DEF Lower
  <2>2. u \notin Lower(a, h, i)
    BY <1>1 DEF Lower
  <2>3. IsFiniteSet(Lower(a, h, i))
    BY LowerIsFinite
  <2>4. Cardinality(Lower(a, h, i) \cup {u}) = Cardinality(Lower(a, h, i)) + 1
    BY <2>2, <2>3, FS_AddElement
  <2> QED
    BY <1>2, <2>1, <2>4
<1>3. CASE ~ (u < i)
  <2>1. Lower(a, k, i) = Lower(a, h, i)
    BY <1>1, <1>3 DEF Lower
  <2> QED
    BY <1>3, <2>1
<1> QED
  BY <1>2, <1>3

\* They are the elements that have passed k to the right of them.
LEMMA LowerIsPassedRight ==
  ASSUME NEW a \in [Indices -> Keys], NEW k \in Keys, NEW u \in Indices, a[u] = k,
         \A i \in Indices : a[i] = k => i = u
  PROVE  Cardinality(Lower(a, k, u)) = Cardinality(Pairs(a, PassedRight(k)))
<1> DEFINE S == Lower(a, k, u)
           T == Pairs(a, PassedRight(k))
           f == [j \in S |-> <<j, u>>]
<1>1. k \in Int /\ \A x \in Indices : a[x] \in Int /\ a[x] \in Keys /\ x \in Int
  BY PermuterAssumption DEF Keys, Indices
<1>2. \A j : j \in S <=> j \in Indices /\ j < u /\ a[j] < k
  BY <1>1 DEF Lower
<1>3. \A i, j : <<i, j>> \in T <=> i \in Indices /\ j = u /\ i < u /\ a[i] < k
  BY <1>1 DEF Pairs, PassedRight
<1>4. \A z \in T : z = <<z[1], z[2]>>
  BY DEF Pairs
<1>5. IsFiniteSet(S)
  BY LowerIsFinite
<1> HIDE DEF S, T
<1>6. f \in [S -> T]
  BY <1>2, <1>3
<1>7. \A z \in T : \E j \in S : f[j] = z
  <2> SUFFICES ASSUME NEW z \in T PROVE \E j \in S : f[j] = z
    OBVIOUS
  <2>1. PICK i, j : z = <<i, j>>
    BY <1>4
  <2>2. i \in S /\ j = u
    BY <1>2, <1>3, <2>1
  <2> QED
    BY <2>1, <2>2
<1>8. \A i, j \in S : f[i] = f[j] => i = j
  OBVIOUS
<1> HIDE DEF f
<1>9. f \in Bijection(S, T)
  BY <1>6, <1>7, <1>8 DEF Bijection, Injection, IsInjective, Surjection
<1> QED
  BY <1>5, <1>9, FS_Bijection DEF ExistsBijection, S, T

\* One more inversion for each smaller element that k has passed to its left.
LEMMA InversionsAddUp ==
  ASSUME NEW a, NEW k \in Keys, k + 1 \in Keys
  PROVE  Cardinality(Pairs(a, Inverted(k + 1)))
           = Cardinality(Pairs(a, Inverted(k))) + Cardinality(Pairs(a, PassedLeft(k)))
<1> DEFINE S == Pairs(a, Inverted(k))
           T == Pairs(a, PassedLeft(k))
<1>1. \A z \in Keys \X Keys : z[1] \in Int /\ z[2] \in Int
  BY DEF Keys
<1>2. k \in Int
  BY DEF Keys
<1>3. Inverted(k + 1) = Inverted(k) \cup PassedLeft(k)
  <2>1. \A z \in Keys \X Keys : z[1] < k + 1 <=> z[1] < k \/ z[1] = k
    BY <1>1, <1>2
  <2> QED
    BY <1>1, <1>2, <2>1 DEF Inverted, PassedLeft
<1>4. \A z \in Inverted(k) : z \notin PassedLeft(k)
  BY <1>1, <1>2 DEF Inverted, PassedLeft
<1>5. Pairs(a, Inverted(k + 1)) = S \cup T
  BY <1>3 DEF Pairs
<1>6. S \cap T = {}
  BY <1>4 DEF Pairs
<1>7. Cardinality(S \cap T) = 0
  BY <1>6, FS_EmptySet
<1>8. IsFiniteSet(S) /\ IsFiniteSet(T) /\ Cardinality(S) \in Nat /\ Cardinality(T) \in Nat
  BY PairsAreFinite
<1> HIDE DEF S, T
<1>9. Cardinality(S \cup T) = Cardinality(S) + Cardinality(T) - Cardinality(S \cap T)
  BY <1>8, FS_Union
<1>10. Cardinality(S \cup T) = Cardinality(S) + Cardinality(T)
  BY <1>7, <1>8, <1>9
<1> QED
  BY <1>5, <1>10 DEF S, T

\* Where the digits agree the keys face the same way and have passed as many.
LEMMA DigitsTellTurns ==
  ASSUME key \in [Indices -> Keys], NEW s \in Arrangements, NEW t \in Arrangements,
         \A k \in Keys : Digit(KeysOf(s), k) = Digit(KeysOf(t), k), NEW k \in Keys
  PROVE  Cardinality(Pairs(KeysOf(s), PassedRight(k))) = Cardinality(Pairs(KeysOf(t), PassedRight(k)))
<1> DEFINE a == KeysOf(s)
           c == KeysOf(t)
           left(x, n)  == Cardinality(Pairs(x, PassedLeft(n)))
           right(x, n) == Cardinality(Pairs(x, PassedRight(n)))
           below(x, n) == Cardinality(Pairs(x, Inverted(n)))
           Differ == {n \in Keys : ~ (Turned(a, n) <=> Turned(c, n))}
<1>1. \A x, n : left(x, n) \in Nat /\ right(x, n) \in Nat /\ below(x, n) \in Nat
  BY PairsAreFinite
<1>2. \A n \in Keys : left(a, n) + right(a, n) = left(c, n) + right(c, n)
  BY SidesAddUp
<1>3. \A x, n : /\ Digit(x, n) = IF Turned(x, n) THEN right(x, n) ELSE left(x, n)
                /\ Turned(x, n) <=> below(x, n) % 2 = 1
  BY DEF Digit, Turned
<1>4. \A n \in Keys : n + 1 \in Keys => \A x : below(x, n + 1) = below(x, n) + left(x, n)
  BY InversionsAddUp
<1>5. \A x : below(x, 1) = 0
  <2>1. Inverted(1) = {}
    BY DEF Inverted, Keys
  <2>2. \A x : Pairs(x, Inverted(1)) = {}
    BY <2>1 DEF Pairs
  <2> QED
    BY <2>2, FS_EmptySet
<1>6. Differ \in SUBSET Nat /\ \A n \in Keys : n \in Nat /\ n >= 1
  BY DEF Keys
<1>7. \A n \in Keys : Digit(a, n) = Digit(c, n)
  OBVIOUS
<1> HIDE DEF a, c, left, right, below
<1>8. \A n \in Keys : (Turned(a, n) <=> Turned(c, n)) => left(a, n) = left(c, n) /\ right(a, n) = right(c, n)
  BY <1>1, <1>2, <1>3, <1>7
<1>9. Differ = {}
  <2> SUFFICES ASSUME Differ # {} PROVE FALSE
    OBVIOUS
  <2>1. PICK m \in Differ : \A n \in Differ : m <= n
    <3> HIDE DEF Differ
    <3> QED
      BY <1>6, FirstExists
  <2>2. m # 1
    BY <1>3, <1>5, <2>1
  <2> DEFINE n == m - 1
  <2>3. n \in Keys /\ n + 1 = m /\ n < m
    <3>1. MaxKey \in Nat /\ m \in 1 .. MaxKey
      BY <2>1, PermuterAssumption DEF Keys
    <3> QED
      BY <2>2, <3>1 DEF Keys
  <2>4. Turned(a, n) <=> Turned(c, n)
    BY <1>6, <2>1, <2>3
  <2>5. m \in Keys /\ ~ (Turned(a, m) <=> Turned(c, m))
    BY <2>1
  <2> HIDE DEF n
  <2>6. left(a, n) = left(c, n)
    BY <1>8, <2>3, <2>4
  <2>7. below(a, m) = below(a, n) + left(a, n) /\ below(c, m) = below(c, n) + left(c, n)
    BY <1>4, <2>3, <2>5
  <2>8. below(a, n) % 2 = 1 <=> below(c, n) % 2 = 1
    BY <1>3, <2>4
  <2>9. below(a, m) % 2 = 1 <=> below(c, m) % 2 = 1
    BY <1>1, <2>6, <2>7, <2>8
  <2> QED
    BY <1>3, <2>5, <2>9
<1>10. right(a, k) = right(c, k)
  BY <1>8, <1>9
<1> QED
  BY <1>10 DEF a, c, right

\* An element that is not among the smallest is the only one with its key.
LEMMA OnlyOne ==
  ASSUME key \in [Indices -> Keys], KeysDiffer, NEW s \in Arrangements, NEW k \in Keys,
         NEW e \in Indices, key[e] < k, NEW u \in Indices, KeysOf(s)[u] = k
  PROVE  \A i \in Indices : KeysOf(s)[i] = k => i = u
<1> SUFFICES ASSUME NEW i \in Indices, KeysOf(s)[i] = k PROVE i = u
  OBVIOUS
<1>1. /\ s[i] \in Indices /\ s[u] \in Indices
      /\ s[i] = s[u] => i = u
  BY DEF Arrangements, Bijection, Injection, IsInjective
<1>2. key[s[i]] = k /\ key[s[u]] = k
  BY DEF KeysOf
<1>3. s[i] \in Larger /\ s[u] \in Larger
  BY <1>1, <1>2 DEF Larger
<1> QED
  BY <1>1, <1>2, <1>3 DEF KeysDiffer

\* The arrays without the keys larger than k are the same.
Agree(a, c, k) ==
  \A i, j \in Indices : a[i] <= k /\ c[j] <= k /\ Cardinality(Lower(a, k, i)) = Cardinality(Lower(c, k, j))
                          => a[i] = c[j]

LEMMA AgreeStep ==
  ASSUME key \in [Indices -> Keys], KeysDiffer, NEW s \in Arrangements, NEW t \in Arrangements,
         NEW k \in Keys, Agree(KeysOf(s), KeysOf(t), k - 1),
         Cardinality(Pairs(KeysOf(s), PassedRight(k))) = Cardinality(Pairs(KeysOf(t), PassedRight(k)))
  PROVE  Agree(KeysOf(s), KeysOf(t), k)
<1> DEFINE a == KeysOf(s)
           c == KeysOf(t)
<1>1. /\ s \in [Indices -> Indices] /\ t \in [Indices -> Indices]
      /\ \A e \in Indices : \E i \in Indices : s[i] = e
      /\ \A e \in Indices : \E i \in Indices : t[i] = e
  BY DEF Arrangements, Bijection, Injection, Surjection
<1>2. /\ a \in [Indices -> Keys] /\ c \in [Indices -> Keys]
      /\ \A i \in Indices : a[i] = key[s[i]] /\ c[i] = key[t[i]]
  BY <1>1 DEF KeysOf
<1>3. k \in Int /\ \A i \in Indices : i \in Int /\ a[i] \in Int /\ c[i] \in Int
  <2>1. \A n \in Keys : n \in Int
    BY DEF Keys
  <2> QED
    BY <1>2, <2>1, PermuterAssumption DEF Indices
<1>4. Cardinality(Pairs(a, PassedRight(k))) = Cardinality(Pairs(c, PassedRight(k))) /\ Agree(a, c, k - 1)
  OBVIOUS
<1>5. ASSUME NEW u \in Indices, a[u] = k, NEW e \in Indices, key[e] < k
      PROVE  \A i \in Indices : a[i] = k => i = u
  BY <1>5, OnlyOne
<1>6. ASSUME NEW u \in Indices, c[u] = k, NEW e \in Indices, key[e] < k
      PROVE  \A i \in Indices : c[i] = k => i = u
  BY <1>6, OnlyOne
<1> HIDE DEF a, c
<1> SUFFICES ASSUME NEW i \in Indices, NEW j \in Indices, a[i] <= k, c[j] <= k,
                    Cardinality(Lower(a, k, i)) = Cardinality(Lower(c, k, j))
             PROVE  a[i] = c[j]
  BY DEF Agree, a, c
<1>7. CASE \A e \in Indices : ~ (key[e] < k)
  <2>1. key[s[i]] \in Int /\ key[t[j]] \in Int /\ s[i] \in Indices /\ t[j] \in Indices
    BY <1>1, <1>2, <1>3
  <2>2. a[i] >= k /\ c[j] >= k
    BY <1>2, <1>3, <1>7, <2>1
  <2> QED
    BY <1>3, <2>2
<1>8. CASE \A e \in Indices : key[e] # k
  <2>1. \A x \in Indices : (a[x] <= k <=> a[x] <= k - 1) /\ (c[x] <= k <=> c[x] <= k - 1)
    <3>1. \A x \in Indices : a[x] # k /\ c[x] # k
      BY <1>1, <1>2, <1>8
    <3> QED
      BY <1>3, <3>1
  <2>2. Lower(a, k, i) = Lower(a, k - 1, i) /\ Lower(c, k, j) = Lower(c, k - 1, j)
    BY <2>1 DEF Lower
  <2> QED
    BY <1>4, <2>1, <2>2 DEF Agree
<1>9. ASSUME NEW e \in Indices, key[e] < k, NEW o \in Indices, key[o] = k
      PROVE  a[i] = c[j]
  <2>1. PICK u \in Indices : a[u] = k
    BY <1>1, <1>2, <1>9
  <2>2. PICK v \in Indices : c[v] = k
    BY <1>1, <1>2, <1>9
  <2>3. \A x \in Indices : (a[x] = k => x = u) /\ (c[x] = k => x = v)
    BY <1>5, <1>6, <1>9, <2>1, <2>2
  <2> DEFINE ri == Cardinality(Lower(a, k, i))
             rj == Cardinality(Lower(c, k, j))
             ru == Cardinality(Lower(a, k, u))
             rv == Cardinality(Lower(c, k, v))
             h  == k - 1
             qi == Cardinality(Lower(a, h, i))
             qj == Cardinality(Lower(c, h, j))
  <2> HIDE DEF h
  <2>4. ri \in Nat /\ rj \in Nat /\ ru \in Nat /\ rv \in Nat /\ qi \in Nat /\ qj \in Nat
    BY LowerIsFinite
  <2>5. ri = rj
    OBVIOUS
  <2>6. ru = rv
    BY <1>2, <1>4, <2>1, <2>2, <2>3, LowerIsPassedRight
  <2>7. ri = IF u < i THEN qi + 1 ELSE qi
    <3>1. h = k - 1 /\ k \in Int /\ \A x \in Indices : a[x] = k => x = u
      BY <1>3, <2>3 DEF h
    <3> QED
      BY <1>2, <2>1, <3>1, LowerCountsOne
  <2>8. rj = IF v < j THEN qj + 1 ELSE qj
    <3>1. h = k - 1 /\ k \in Int /\ \A x \in Indices : c[x] = k => x = v
      BY <1>3, <2>3 DEF h
    <3> QED
      BY <1>2, <2>2, <3>1, LowerCountsOne
  <2>9. (u < i => ru < ri) /\ (i < u => ri < ru)
    BY <1>3, <2>1, LowerGrows
  <2>10. (v < j => rv < rj) /\ (j < v => rj < rv)
    BY <1>3, <2>2, LowerGrows
  <2>11. Agree(a, c, h) /\ i \in Int /\ j \in Int /\ u \in Int /\ v \in Int
    BY <1>3, <1>4 DEF h
  <2>12. (i = u => ri = ru) /\ (j = v => rj = rv)
    OBVIOUS
  <2>13. a[i] <= h /\ c[j] <= h /\ qi = qj => a[i] = c[j]
    BY <2>11 DEF Agree
  <2> HIDE DEF ri, rj, ru, rv, qi, qj
  <2>14. (i = u <=> j = v) /\ (u < i <=> v < j)
    BY <2>4, <2>5, <2>6, <2>9, <2>10, <2>11, <2>12
  <2>15. CASE i = u
    BY <2>1, <2>2, <2>14, <2>15
  <2>16. CASE i # u
    <3>1. a[i] <= h /\ c[j] <= h
      <4>1. a[i] # k /\ c[j] # k
        BY <2>3, <2>14, <2>16
      <4> QED
        BY <1>3, <4>1 DEF h
    <3>2. qi = qj
      <4>1. CASE u < i
        <5>1. v < j
          BY <2>14, <4>1
        <5>2. ri = qi + 1
          BY <2>7, <4>1
        <5>3. rj = qj + 1
          BY <2>8, <5>1
        <5>4. \A x, y \in Nat : x + 1 = y + 1 => x = y
          OBVIOUS
        <5>5. qi + 1 = qj + 1
          BY <2>5, <5>2, <5>3
        <5> QED
          BY <2>4, <5>4, <5>5
      <4>2. CASE ~ (u < i)
        <5>1. ~ (v < j)
          BY <2>14, <4>2
        <5> QED
          BY <2>5, <2>7, <2>8, <4>2, <5>1
      <4> QED
        BY <4>1, <4>2
    <3> QED
      BY <2>13, <3>1, <3>2
  <2> QED
    BY <2>15, <2>16
<1> QED
  BY <1>7, <1>8, <1>9

\* The digits tell the array.
LEMMA DigitsTell ==
  ASSUME key \in [Indices -> Keys], KeysDiffer, NEW s \in Arrangements, NEW t \in Arrangements,
         \A k \in Keys : Digit(KeysOf(s), k) = Digit(KeysOf(t), k)
  PROVE  KeysOf(s) = KeysOf(t)
<1> DEFINE a == KeysOf(s)
           c == KeysOf(t)
           Disagree == {k \in 0 .. MaxKey : ~ Agree(a, c, k)}
<1>1. a \in [Indices -> Keys] /\ c \in [Indices -> Keys] /\ MaxKey \in Nat
  BY PermuterAssumption DEF KeysOf, Arrangements, Bijection, Injection
<1>2. \A k \in Keys : Cardinality(Pairs(a, PassedRight(k))) = Cardinality(Pairs(c, PassedRight(k)))
  BY DigitsTellTurns
<1>3. \A k \in Keys : Agree(a, c, k - 1) => Agree(a, c, k)
  BY <1>2, AgreeStep
<1> HIDE DEF a, c
<1>4. \A i \in Indices : a[i] \in 1 .. MaxKey /\ c[i] \in 1 .. MaxKey
  BY <1>1 DEF Keys
<1>5. Agree(a, c, 0)
  <2>1. \A i \in Indices : ~ (a[i] <= 0)
    BY <1>1, <1>4
  <2> QED
    BY <2>1 DEF Agree
<1>6. Disagree = {}
  <2> SUFFICES ASSUME Disagree # {} PROVE FALSE
    OBVIOUS
  <2>1. Disagree \in SUBSET Nat
    BY <1>1
  <2>2. PICK k \in Disagree : \A n \in Disagree : k <= n
    <3> HIDE DEF Disagree
    <3> QED
      BY <2>1, FirstExists
  <2>3. k # 0
    BY <1>5, <2>2
  <2>4. k \in Keys /\ k - 1 \in 0 .. MaxKey /\ ~ (k <= k - 1)
    BY <1>1, <2>2, <2>3 DEF Keys
  <2>5. Agree(a, c, k - 1)
    BY <2>2, <2>4
  <2> QED
    BY <1>3, <2>2, <2>4, <2>5
<1>7. Agree(a, c, MaxKey)
  BY <1>1, <1>6
<1>8. \A i \in Indices : a[i] = c[i]
  <2> SUFFICES ASSUME NEW i \in Indices PROVE a[i] = c[i]
    OBVIOUS
  <2>1. \A j \in Indices : a[j] <= MaxKey /\ c[j] <= MaxKey
    BY <1>1, <1>4
  <2>2. Lower(a, MaxKey, i) = Lower(c, MaxKey, i)
    BY <2>1 DEF Lower
  <2> QED
    BY <1>7, <2>1, <2>2 DEF Agree
<1>9. a = c
  BY <1>1, <1>8
<1> QED
  BY <1>9 DEF a, c

LEMMA SmallerDigits ==
  ASSUME key \in [Indices -> Keys], KeysDiffer, NEW s \in Arrangements, NEW t \in Arrangements,
         \A k \in Keys : Digit(KeysOf(t), k) <= Digit(KeysOf(s), k)
  PROVE  KeysOf(t) = KeysOf(s) \/ Precedes(KeysOf(t), KeysOf(s))
<1> DEFINE a == KeysOf(s)
           c == KeysOf(t)
           Differ == {k \in Keys : Digit(c, k) # Digit(a, k)}
<1>1. CASE Differ = {}
  BY <1>1, DigitsTell
<1>2. CASE Differ # {}
  <2>1. Differ \in SUBSET Nat
    BY DEF Keys
  <2>2. PICK k \in Differ : \A l \in Differ : k <= l
    <3> HIDE DEF Differ
    <3> QED
      BY <1>2, <2>1, FirstExists
  <2>3. \A l \in Keys : /\ Digit(c, l) <= Digit(a, l)
                        /\ Digit(c, l) \in Nat /\ Digit(a, l) \in Nat /\ l \in Nat
    BY DigitIsNat DEF Keys
  <2>4. k \in Keys /\ Digit(c, k) # Digit(a, k)
    BY <2>2
  <2>5. \A l \in Keys : l < k => Digit(c, l) = Digit(a, l)
    BY <2>2, <2>3, <2>4
  <2> HIDE DEF a, c
  <2>6. Digit(c, k) < Digit(a, k)
    BY <2>3, <2>4
  <2>7. Precedes(c, a)
    BY <2>4, <2>5, <2>6 DEF Precedes
  <2> QED
    BY <2>7 DEF a, c
<1> QED
  BY <1>1, <1>2

\* Nothing comes between an array and the next one.
LEMMA NothingBetween ==
  ASSUME TypeOK, Facing, KeysDiffer, NextPermutation, NEW t \in Arrangements,
         Precedes(KeysOf(t), KeysOf(elems'))
  PROVE  KeysOf(t) = KeysOf(elems) \/ Precedes(KeysOf(t), KeysOf(elems))
<1>1. PICK m, f, p \in Indices :
        /\ f = Faced(m)
        /\ Exchanged(KeysOf(elems), KeysOf(elems'), p)
        /\ Moves(KeysOf(elems), p, key[elems[m]], key[elems[f]])
        /\ p = IF directions[m] = "right" THEN m ELSE f
        /\ \A i \in Mobile : key[elems[i]] <= key[elems[m]]
  BY StepMoves
<1> DEFINE a == KeysOf(elems)
           b == KeysOf(elems')
           c == KeysOf(t)
           k == key[elems[m]]
<1>2. elems \in Arrangements /\ key \in [Indices -> Keys]
  BY DEF TypeOK, Keys
<1>3. k \in Keys /\ k \in Int /\ key[elems[f]] < k /\ key[elems[f]] \in Int
  BY <1>1 DEF Moves, Keys
<1>4. a[p] = k <=> Turned(a, k)
  <2>1. a[m] = k /\ a[f] = key[elems[f]] /\ (directions[m] = "right" <=> Turned(a, k))
    BY DEF KeysOf, Facing
  <2> QED
    BY <1>1, <1>3, <2>1
<1>5. Digit(b, k) = Digit(a, k) + 1 /\ \A l \in Keys : l < k => Digit(a, l) = Digit(b, l)
  BY <1>1, <1>4, DigitGoesUp
<1>6. \A l \in Keys : k < l => Through(a, l)
  <2> SUFFICES ASSUME NEW l \in Keys, k < l PROVE Through(a, l)
    OBVIOUS
  <2>1. \A i \in Mobile : key[elems[i]] \in Int
    BY <1>2 DEF Mobile, Arrangements, Bijection, Injection, Keys
  <2>2. \A i \in Mobile : key[elems[i]] < l
    BY <1>1, <1>3, <2>1 DEF Keys
  <2> QED
    BY <2>2, LargerAreThrough
<1>7. \A l \in Keys : k < l => Digit(b, l) = 0
  BY <1>1, <1>6, TurnedStartAgain
<1>8. \A l \in Keys : k < l => Digit(c, l) <= Digit(a, l)
  BY <1>2, <1>6, ThroughIsLargest
<1>9. \A l \in Keys : l \in Int /\ Digit(a, l) \in Nat /\ Digit(b, l) \in Nat /\ Digit(c, l) \in Nat
  BY DigitIsNat DEF Keys
<1>10. (\A l \in Keys : Digit(c, l) <= Digit(a, l)) => c = a \/ Precedes(c, a)
  BY <1>2, SmallerDigits
<1>11. PICK n \in Keys : Digit(c, n) < Digit(b, n) /\ \A l \in Keys : l < n => Digit(c, l) = Digit(b, l)
  BY DEF Precedes
<1> HIDE DEF a, b, c, k
<1>12. CASE n < k
  <2>1. Digit(c, n) < Digit(a, n) /\ \A l \in Keys : l < n => Digit(c, l) = Digit(a, l)
    BY <1>3, <1>5, <1>9, <1>11, <1>12
  <2>2. Precedes(c, a)
    BY <2>1 DEF Precedes
  <2> QED
    BY <2>2 DEF a, c
<1>13. CASE n = k
  <2>1. \A l \in Keys : l < k => Digit(c, l) = Digit(a, l)
    BY <1>5, <1>11, <1>13
  <2>2. Digit(c, k) <= Digit(a, k)
    BY <1>3, <1>5, <1>9, <1>11, <1>13
  <2>3. \A l \in Keys : Digit(c, l) <= Digit(a, l)
    BY <1>3, <1>8, <1>9, <2>1, <2>2
  <2> QED
    BY <1>10, <2>3 DEF a, c
<1>14. CASE k < n
  BY <1>7, <1>9, <1>11, <1>14
<1> QED
  BY <1>3, <1>9, <1>12, <1>13, <1>14

LEMMA StepKeepsGapless ==
  ASSUME TypeOK, TypeOK', Facing, Gapless, Listed, Stopped, NextPermutation
  PROVE  Gapless' /\ Listed' /\ Stopped'
<1>1. key' = key /\ seen' = seen \cup {KeysOf(elems')} /\ ended' = ended /\ ~ ended
  BY DEF NextPermutation
<1>2. elems' \in Arrangements
  BY DEF TypeOK
<1>3. KeysOf(elems)' = KeysOf(elems') /\ \A s : KeysOf(s)' = KeysOf(s)
  BY <1>1 DEF KeysOf
<1>4. KeysDiffer' <=> KeysDiffer
  BY <1>1 DEF KeysDiffer, Larger
<1>5. Gapless'
  <2> SUFFICES ASSUME KeysDiffer, NEW s \in Arrangements, Precedes(KeysOf(s), KeysOf(elems'))
               PROVE  KeysOf(s) \in seen'
    BY <1>3, <1>4 DEF Gapless
  <2>1. KeysOf(s) = KeysOf(elems) \/ Precedes(KeysOf(s), KeysOf(elems))
    BY NothingBetween
  <2>2. KeysOf(s) \in seen
    BY <2>1 DEF Gapless, Listed
  <2> QED
    BY <1>1, <2>2
<1>6. Listed'
  BY <1>1, <1>2, <1>3 DEF Listed
<1> QED
  BY <1>1, <1>5, <1>6 DEF Stopped

\* Nothing precedes the sorted array.
LEMMA SortedIsFirst ==
  ASSUME key \in [Indices -> Keys], NEW s \in Sorted, NEW c
  PROVE  ~ Precedes(c, KeysOf(s))
<1> DEFINE a == KeysOf(s)
<1>1. \A i, j \in Indices : i < j => key[s[i]] <= key[s[j]]
  BY DEF Sorted
<1>2. \A i \in Indices : a[i] = key[s[i]] /\ a[i] \in Int
  BY DEF Sorted, Arrangements, Bijection, Injection, Keys, KeysOf
<1>3. \A k : ~ Turned(a, k)
  BY SortedFacesLeft DEF KeysOf
<1> HIDE DEF a
<1>4. \A k \in Keys : Pairs(a, PassedLeft(k)) = {}
  <2> SUFFICES ASSUME NEW k \in Keys, NEW i \in Indices, NEW j \in Indices, i < j, a[i] = k, a[j] < k
               PROVE  FALSE
    BY DEF Pairs, PassedLeft
  <2> QED
    BY <1>1, <1>2
<1>5. \A k \in Keys : Digit(a, k) = 0
  BY <1>3, <1>4, FS_EmptySet DEF Digit
<1>6. \A k : Digit(c, k) \in Nat
  BY DigitIsNat
<1>7. ~ Precedes(c, a)
  BY <1>5, <1>6 DEF Precedes
<1> QED
  BY <1>7 DEF a
-----------------------------------------------------------------------------
LEMMA InitFits == Init => IInv
<1> SUFFICES ASSUME Init PROVE IInv
  OBVIOUS
<1>1. key \in [Indices -> Keys] /\ elems \in Sorted
  BY DEF Init, Keys
<1>2. directions = [i \in Indices |-> "left"] /\ seen = {KeysOf(elems)} /\ index = 0
  BY DEF Init
<1>3. Facing /\ Ascending /\ Counted
  BY <1>1, <1>2, RestartFits DEF Facing, Ascending, Counted
<1>4. Gapless
  BY <1>1, SortedIsFirst DEF Gapless
<1>5. Listed /\ Stopped
  BY <1>1, <1>2 DEF Listed, Stopped, Init, Sorted
<1> QED
  BY <1>3, <1>4, <1>5, InitTypes DEF IInv

LEMMA NextFits == ASSUME IInv, [Next]_vars PROVE IInv'
<1>1. TypeOK /\ Facing /\ Ascending /\ Counted /\ Gapless /\ Listed /\ Stopped /\ TypeOK'
  BY NextTypes DEF IInv
<1>2. CASE NextPermutation
  BY <1>1, <1>2, StepKeepsFacing, StepKeepsCount, StepKeepsGapless DEF IInv
<1>3. CASE NoMore
  <2>1. UNCHANGED <<key, elems, directions, index, seen>>
    BY <1>3 DEF NoMore
  <2>2. Facing' /\ Ascending' /\ Counted'
    BY <1>1, <2>1 DEF Facing, Ascending, Counted, KeysOf
  <2>3. Gapless' /\ Listed'
    BY <1>1, <2>1 DEF Gapless, Listed, KeysOf, KeysDiffer, Larger
  <2>4. Mobile' = {}
    BY <1>3, <2>1 DEF NoMore, Mobile, IsMobile, Faced, Compare
  <2> QED
    BY <1>1, <2>2, <2>3, <2>4 DEF IInv, Stopped
<1>4. CASE Reset
  <2>1. key' = key /\ key \in [Indices -> Keys] /\ elems' \in Sorted
    BY <1>1, <1>4 DEF Reset, Restart, TypeOK, Keys
  <2>2. directions' = [i \in Indices |-> "left"] /\ seen' = {KeysOf(elems')} /\ index' = 0
    BY <1>4 DEF Reset, Restart
  <2>3. KeysOf(elems') = [i \in Indices |-> key'[elems'[i]]]
    BY <2>1 DEF KeysOf
  <2>4. /\ \A i \in Indices : directions'[i] = "right" <=> Turned(KeysOf(elems'), key[elems'[i]])
        /\ \A t \in seen' : t = KeysOf(elems') \/ Precedes(t, KeysOf(elems'))
        /\ IsFiniteSet(seen') /\ Cardinality(seen') = index' + 1
    BY <2>1, <2>2, RestartFits
  <2>5. Facing' /\ Ascending' /\ Counted'
    BY <2>1, <2>3, <2>4 DEF Facing, Ascending, Counted, KeysOf
  <2>6. elems' \in Arrangements /\ KeysOf(elems)' = KeysOf(elems') /\ \A s : KeysOf(s)' = KeysOf(s)
    BY <2>1 DEF KeysOf, Sorted
  <2>7. Gapless'
    BY <2>1, <2>6, SortedIsFirst DEF Gapless
  <2>8. Listed' /\ Stopped'
    BY <1>4, <2>2, <2>6 DEF Listed, Stopped, Reset, Restart
  <2> QED
    BY <1>1, <2>5, <2>7, <2>8 DEF IInv
<1>5. CASE UNCHANGED vars
  <2>1. UNCHANGED <<key, elems, directions, index, ended, seen>>
    BY <1>5 DEF vars
  <2>2. Facing' /\ Ascending' /\ Counted'
    BY <1>1, <2>1 DEF Facing, Ascending, Counted, KeysOf
  <2>3. Gapless' /\ Listed'
    BY <1>1, <2>1 DEF Gapless, Listed, KeysOf, KeysDiffer, Larger
  <2>4. Stopped'
    BY <1>1, <2>1 DEF Stopped, Mobile, IsMobile, Faced, Compare
  <2> QED
    BY <1>1, <2>2, <2>3, <2>4 DEF IInv
<1> QED
  BY <1>2, <1>3, <1>4, <1>5 DEF Next

\* Between two resets the permuter never makes an array of keys a second time, also
\* where elements compare equal, and index says how many it made.
THEOREM PermuterNoRepeat == Spec => []NoRepeat
<1>1. IInv /\ [Next]_vars => IInv'
  BY NextFits
<1>2. IInv => NoRepeat
  BY DEF IInv, Counted, NoRepeat
<1> QED
  BY InitFits, <1>1, <1>2, PTL DEF Spec

LEMMA EndIsComplete == ASSUME IInv PROVE Complete
<1> SUFFICES ASSUME ended, KeysDiffer PROVE seen = {KeysOf(s) : s \in Arrangements}
  BY DEF Complete
<1>1. TypeOK /\ Facing /\ Gapless /\ Listed /\ Mobile = {}
  BY DEF IInv, Stopped
<1>2. elems \in Arrangements /\ key \in [Indices -> Keys]
  BY <1>1 DEF TypeOK, Keys
<1>3. \A k \in Keys : Through(KeysOf(elems), k)
  BY <1>1, LargerAreThrough
<1>4. ASSUME NEW t \in Arrangements PROVE KeysOf(t) \in seen
  <2>1. \A k \in Keys : Digit(KeysOf(t), k) <= Digit(KeysOf(elems), k)
    BY <1>2, <1>3, ThroughIsLargest
  <2>2. KeysOf(t) = KeysOf(elems) \/ Precedes(KeysOf(t), KeysOf(elems))
    BY <1>2, <2>1, SmallerDigits
  <2> QED
    BY <1>1, <2>2 DEF Gapless, Listed
<1>5. seen \subseteq {KeysOf(s) : s \in Arrangements}
  BY <1>1 DEF Listed
<1> QED
  BY <1>4, <1>5

\* When next_permutation returns NULL it has made every arrangement, for any number
\* of elements no two of which compare equal, the smallest ones excepted.
THEOREM PermuterComplete == Spec => []Complete
<1>1. IInv /\ [Next]_vars => IInv'
  BY NextFits
<1>2. IInv => Complete
  BY EndIsComplete
<1> QED
  BY InitFits, <1>1, <1>2, PTL DEF Spec

-----------------------------------------------------------------------------
(***************************************************************************)
(* nth_permutation and nth_combination: numbers and their digits.  The     *)
(* base of a digit is a product of those below it.                         *)
(***************************************************************************)
\* What holds for 0, and for one more whenever it holds for some number below
\* m, holds up to m.
LEMMA UpTo ==
  ASSUME NEW m \in Nat, NEW S, 0 \in S, \A n \in 1 .. m : n - 1 \in S => n \in S
  PROVE  0 .. m \subseteq S /\ m \in S
<1> DEFINE Missing == (0 .. m) \ S
<1>1. SUFFICES ASSUME Missing # {} PROVE FALSE
  BY <1>1
<1>2. Missing \in SUBSET Nat
  OBVIOUS
<1>3. PICK n \in Missing : \A k \in Missing : n <= k
  <2> HIDE DEF Missing
  <2> QED
    BY <1>1, <1>2, FirstExists
<1>4. n \in 1 .. m /\ n - 1 \in 0 .. m
  BY <1>3
<1>5. n - 1 \notin Missing
  <2>1. ~ (n <= n - 1)
    BY <1>4
  <2> HIDE DEF Missing
  <2> QED
    BY <1>3, <2>1
<1> QED
  BY <1>4, <1>5

\* The products of the factors r[1], ... r[k], for k up to n.
Products(f, r, n) ==
  f \in [0 .. n -> Nat] /\ f[0] = 1 /\ \A k \in 1 .. n : f[k] = r[k] * f[k - 1]

LEMMA ProductsUpTo ==
  ASSUME NEW r \in [Nat -> Nat], NEW n \in Nat
  PROVE  \E f : Products(f, r, n)
<1> DEFINE S == {k \in Nat : \E f : Products(f, r, k)}
<1>1. 0 \in S
  <2> DEFINE f == [k \in 0 .. 0 |-> 1]
  <2>1. Products(f, r, 0)
    BY DEF Products
  <2> QED
    BY <2>1
<1>2. ASSUME NEW k \in 1 .. n, k - 1 \in S PROVE k \in S
  <2>0. k \in Nat /\ k - 1 \in Nat /\ r[k] \in Nat
    OBVIOUS
  <2>1. PICK f : Products(f, r, k - 1)
    BY <1>2
  <2>2. /\ f \in [0 .. k - 1 -> Nat] /\ f[0] = 1
        /\ \A j \in 1 .. k - 1 : f[j] = r[j] * f[j - 1]
    BY <2>1 DEF Products
  <2> DEFINE g == [j \in 0 .. k |-> IF j = k THEN r[k] * f[k - 1] ELSE f[j]]
  <2>3. r[k] * f[k - 1] \in Nat
    <3>1. f[k - 1] \in Nat
      BY <2>0, <2>2
    <3> QED
      BY <2>0, <3>1
  <2>4. g \in [0 .. k -> Nat]
    <3> SUFFICES ASSUME NEW j \in 0 .. k PROVE g[j] \in Nat
      BY Zenon
    <3>1. j = k \/ j \in 0 .. k - 1
      BY <2>0
    <3>2. j \in 0 .. k - 1 => j # k
      BY <2>0
    <3> QED
      BY <2>0, <2>2, <2>3, <3>1, <3>2
  <2>5. g[0] = 1
    BY <2>0, <2>2
  <2>6. ASSUME NEW j \in 1 .. k PROVE g[j] = r[j] * g[j - 1]
    <3>1. j \in 0 .. k /\ j - 1 \in 0 .. k /\ j - 1 # k
      BY <2>0
    <3>2. g[j - 1] = f[j - 1]
      BY <3>1
    <3>3. CASE j = k
      BY <3>1, <3>2, <3>3
    <3>4. CASE j # k
      <4>1. j \in 1 .. k - 1 /\ g[j] = f[j]
        BY <2>0, <3>1, <3>4
      <4> QED
        BY <2>2, <3>2, <4>1
    <3> QED
      BY <3>3, <3>4
  <2> HIDE DEF g
  <2>7. Products(g, r, k)
    BY <2>4, <2>5, <2>6 DEF Products
  <2> QED
    BY <2>0, <2>7
<1> HIDE DEF S
<1>3. n \in S
  BY <1>1, <1>2, UpTo
<1> QED
  BY <1>3 DEF S

LEMMA ProductsAgree ==
  ASSUME NEW r \in [Nat -> Nat], NEW n \in Nat, NEW m \in Nat, n <= m, NEW f, NEW g,
         Products(f, r, n), Products(g, r, m)
  PROVE  f[n] = g[n]
<1> DEFINE S == {k \in 0 .. n : f[k] = g[k]}
<1>1. 0 \in S
  BY DEF Products
<1>2. ASSUME NEW k \in 1 .. n, k - 1 \in S PROVE k \in S
  <2>1. k \in 1 .. m /\ k \in 0 .. n
    OBVIOUS
  <2>2. f[k] = r[k] * f[k - 1] /\ g[k] = r[k] * g[k - 1]
    BY <2>1 DEF Products
  <2> QED
    BY <1>2, <2>1, <2>2
<1> HIDE DEF S
<1>3. n \in S
  BY <1>1, <1>2, UpTo
<1> QED
  BY <1>3 DEF S

LEMMA ProductsExist ==
  ASSUME NEW r \in [Nat -> Nat]
  PROVE  \E f \in [Nat -> Nat] : f[0] = 1 /\ \A k \in Nat \ {0} : f[k] = r[k] * f[k - 1]
<1> DEFINE p(n) == CHOOSE f : Products(f, r, n)
           h == [n \in Nat |-> p(n)[n]]
<1>1. \A n \in Nat : Products(p(n), r, n)
  BY ProductsUpTo
<1> HIDE DEF p
<1>2. h \in [Nat -> Nat] /\ h[0] = 1
  BY <1>1 DEF Products
<1>3. ASSUME NEW k \in Nat \ {0} PROVE h[k] = r[k] * h[k - 1]
  <2>1. k - 1 \in Nat /\ k - 1 <= k /\ k \in 1 .. k
    OBVIOUS
  <2>2. p(k)[k] = r[k] * p(k)[k - 1]
    BY <1>1, <2>1 DEF Products
  <2>3. p(k - 1)[k - 1] = p(k)[k - 1]
    BY <1>1, <2>1, ProductsAgree
  <2> QED
    BY <2>1, <2>2, <2>3
<1> HIDE DEF h
<1> QED
  BY <1>2, <1>3

\* The bases of digits, where the digit k is below r[k + 1].
Bases(B, r) ==
  /\ B \in [Nat -> Nat \ {0}] /\ r \in [Nat -> Nat] /\ B[0] = 1
  /\ \A k \in Nat : B[k + 1] = r[k + 1] * B[k]

LEMMA FactorialsAre == Bases(Factorial, [k \in Nat |-> k])
<1> DEFINE r == [k \in Nat |-> k]
<1>1. r \in [Nat -> Nat] /\ \A k \in Nat : r[k] = k
  OBVIOUS
<1> HIDE DEF r
<1>2. PICK f \in [Nat -> Nat] : f[0] = 1 /\ \A k \in Nat \ {0} : f[k] = r[k] * f[k - 1]
  BY <1>1, ProductsExist
<1>3. f = [n \in Nat |-> IF n < 2 THEN 1 ELSE n * f[n - 1]]
  <2>1. ASSUME NEW n \in Nat PROVE f[n] = IF n < 2 THEN 1 ELSE n * f[n - 1]
    <3>1. n = 0 \/ n = 1 \/ n >= 2
      OBVIOUS
    <3>2. f[1] = r[1] * f[0]
      BY <1>2
    <3> QED
      BY <1>1, <1>2, <3>1, <3>2
  <2> QED
    BY <2>1
<1>4. Factorial = [n \in Nat |-> IF n < 2 THEN 1 ELSE n * Factorial[n - 1]]
  BY <1>3 DEF Factorial
<1>5. \A n \in Nat : Factorial[n] = IF n < 2 THEN 1 ELSE n * Factorial[n - 1]
  BY <1>4
<1>6. \A n \in Nat : Factorial[n] \in Nat \ {0}
  <2> SUFFICES ASSUME NEW n \in Nat PROVE Factorial[n] \in Nat \ {0}
    OBVIOUS
  <2> DEFINE S == {k \in Nat : Factorial[k] \in Nat \ {0}}
  <2>1. 0 \in S
    BY <1>5
  <2>2. ASSUME NEW k \in 1 .. n, k - 1 \in S PROVE k \in S
    <3>1. Factorial[k] = IF k < 2 THEN 1 ELSE k * Factorial[k - 1]
      BY <1>5
    <3>2. Factorial[k - 1] \in Nat \ {0} /\ k \in Nat /\ k # 0
      BY <2>2
    <3>3. k * Factorial[k - 1] \in Nat \ {0}
      BY <3>2
    <3> QED
      BY <3>1, <3>2, <3>3
  <2> HIDE DEF S
  <2>3. n \in S
    BY <2>1, <2>2, UpTo
  <2> QED
    BY <2>3 DEF S
<1>7. Factorial \in [Nat -> Nat \ {0}]
  BY <1>4, <1>6
<1>8. ASSUME NEW k \in Nat PROVE Factorial[k + 1] = r[k + 1] * Factorial[k]
  <2>1. k + 1 \in Nat /\ r[k + 1] = k + 1 /\ (k + 1) - 1 = k
    BY <1>1
  <2>2. Factorial[k + 1] = IF k + 1 < 2 THEN 1 ELSE (k + 1) * Factorial[k]
    BY <1>5, <2>1
  <2>3. k = 0 => Factorial[k] = 1 /\ k + 1 = 1
    BY <1>5
  <2>4. Factorial[k] \in Nat
    BY <1>6
  <2> QED
    BY <2>1, <2>2, <2>3, <2>4
<1>9. Factorial[0] = 1
  BY <1>5
<1> QED
  BY <1>1, <1>7, <1>8, <1>9 DEF Bases, r

LEMMA PowersAre == Bases(PowerOf2, [k \in Nat |-> 2])
<1> DEFINE r == [k \in Nat |-> 2]
<1>1. r \in [Nat -> Nat] /\ \A k \in Nat : r[k] = 2
  OBVIOUS
<1> HIDE DEF r
<1>2. PICK f \in [Nat -> Nat] : f[0] = 1 /\ \A k \in Nat \ {0} : f[k] = r[k] * f[k - 1]
  BY <1>1, ProductsExist
<1>3. f = [n \in Nat |-> IF n = 0 THEN 1 ELSE 2 * f[n - 1]]
  BY <1>1, <1>2
<1>4. PowerOf2 = [n \in Nat |-> IF n = 0 THEN 1 ELSE 2 * PowerOf2[n - 1]]
  BY <1>3 DEF PowerOf2
<1>5. \A n \in Nat : PowerOf2[n] = IF n = 0 THEN 1 ELSE 2 * PowerOf2[n - 1]
  BY <1>4
<1>6. \A n \in Nat : PowerOf2[n] \in Nat \ {0}
  <2> SUFFICES ASSUME NEW n \in Nat PROVE PowerOf2[n] \in Nat \ {0}
    OBVIOUS
  <2> DEFINE S == {k \in Nat : PowerOf2[k] \in Nat \ {0}}
  <2>1. 0 \in S
    BY <1>5
  <2>2. ASSUME NEW k \in 1 .. n, k - 1 \in S PROVE k \in S
    BY <1>5, <2>2
  <2> HIDE DEF S
  <2>3. n \in S
    BY <2>1, <2>2, UpTo
  <2> QED
    BY <2>3 DEF S
<1>7. PowerOf2 \in [Nat -> Nat \ {0}]
  BY <1>4, <1>6
<1>8. ASSUME NEW k \in Nat PROVE PowerOf2[k + 1] = r[k + 1] * PowerOf2[k]
  <2>1. k + 1 \in Nat /\ r[k + 1] = 2 /\ (k + 1) - 1 = k /\ k + 1 # 0
    BY <1>1
  <2> QED
    BY <1>5, <2>1
<1>9. PowerOf2[0] = 1
  BY <1>5
<1> QED
  BY <1>1, <1>7, <1>8, <1>9 DEF Bases, r

LEMMA DivMod ==
  ASSUME NEW a \in Int, NEW b \in Nat \ {0}
  PROVE  /\ a \div b \in Int /\ a % b \in Nat /\ a % b < b
         /\ a = b * (a \div b) + (a % b)
OBVIOUS

\* There is only one quotient and one remainder.
LEMMA DivModUnique ==
  ASSUME NEW b \in Nat \ {0}, NEW q \in Int, NEW t \in Nat, NEW a \in Int,
         a = b * q + t, t < b
  PROVE  a \div b = q /\ a % b = t
<1> DEFINE q1 == a \div b
           t1 == a % b
<1>1. q1 \in Int /\ t1 \in Nat /\ t1 < b /\ a = b * q1 + t1
  BY DivMod
<1> HIDE DEF q1, t1
<1>2. b * (q1 - q) = t - t1
  BY <1>1
<1>3. ~ (q1 - q >= 1)
  <2> SUFFICES ASSUME q1 - q >= 1 PROVE FALSE
    OBVIOUS
  <2>1. b * (q1 - q) >= b
    BY <1>1
  <2> QED
    BY <1>1, <1>2, <2>1
<1>4. ~ (q1 - q <= -1)
  <2> SUFFICES ASSUME q1 - q <= -1 PROVE FALSE
    OBVIOUS
  <2>1. b * (q1 - q) <= -b
    BY <1>1
  <2> QED
    BY <1>1, <1>2, <2>1
<1>5. q1 = q
  BY <1>1, <1>3, <1>4
<1>6. t1 = t
  BY <1>1, <1>2, <1>5
<1> QED
  BY <1>5, <1>6 DEF q1, t1

DigitOf(B, n, k) == (n % B[k + 1]) \div B[k]

DigitFits(B, r, n, k) ==
  /\ DigitOf(B, n, k) \in 0 .. r[k + 1] - 1
  /\ n % B[k + 1] = B[k] * DigitOf(B, n, k) + (n % B[k])
  /\ (n \div B[k]) % r[k + 1] = DigitOf(B, n, k)

\* A number modulo the next base is its digit times the base, and what it is
\* modulo this base.
LEMMA DigitIs ==
  ASSUME NEW B, NEW r, Bases(B, r), NEW n \in Nat, NEW k \in Nat
  PROVE  DigitFits(B, r, n, k)
<1> DEFINE b == B[k]
           f == r[k + 1]
           q == n \div b
           s == n % b
           h == q \div f
           d == q % f
<1>1. b \in Nat \ {0} /\ f \in Nat /\ B[k + 1] = f * b /\ f * b \in Nat \ {0}
  BY DEF Bases
<1>2. f # 0
  BY <1>1
<1>3. q \in Nat /\ s \in Nat /\ s < b /\ n = b * q + s
  <2> HIDE DEF b, f
  <2>1. q \in Int /\ s \in Nat /\ s < b /\ n = b * q + s
    BY <1>1, DivMod
  <2> HIDE DEF q, s
  <2>2. ~ (q <= -1)
    <3> SUFFICES ASSUME q <= -1 PROVE FALSE
      OBVIOUS
    <3>1. b * q <= -b
      BY <1>1, <2>1
    <3> QED
      BY <1>1, <2>1, <3>1
  <2> QED
    BY <2>1, <2>2
<1> HIDE DEF q, s, b, f
<1>4. h \in Int /\ d \in Nat /\ d < f /\ q = f * h + d
  BY <1>1, <1>2, <1>3, DivMod
<1> HIDE DEF h, d
<1>5. n = (f * b) * h + (b * d + s)
  <2>1. b * q = (f * b) * h + b * d
    BY <1>1, <1>4
  <2> QED
    BY <1>1, <1>3, <1>4, <2>1
<1>6. b * d + s \in Nat /\ b * d + s < f * b
  <2>1. b * d \in Nat
    BY <1>1, <1>4
  <2>2. b * (d + 1) <= b * f
    <3>1. d + 1 <= f
      BY <1>1, <1>4
    <3> QED
      BY <1>1, <1>4, <3>1
  <2>3. b * (d + 1) = b * d + b /\ b * f = f * b
    BY <1>1, <1>4
  <2> QED
    BY <1>1, <1>3, <1>4, <2>1, <2>2, <2>3
<1>7. n % (f * b) = b * d + s
  <2> DEFINE c == f * b
             t == b * d + s
  <2>1. c \in Nat \ {0} /\ t \in Nat /\ t < c /\ n = c * h + t
    BY <1>1, <1>5, <1>6
  <2> HIDE DEF c, t
  <2>2. n % c = t
    BY <1>4, <2>1, DivModUnique
  <2> QED
    BY <2>2 DEF c, t
<1>8. (b * d + s) \div b = d
  BY <1>1, <1>3, <1>4, <1>6, DivModUnique
<1>9. DigitOf(B, n, k) = d
  BY <1>1, <1>7, <1>8 DEF DigitOf, b
<1>10. d \in 0 .. f - 1
  BY <1>1, <1>4
<1> QED
  BY <1>1, <1>7, <1>9, <1>10 DEF DigitFits, b, f, s, d, q

\* Numbers with the same digits are the same.
LEMMA DigitsMake ==
  ASSUME NEW B, NEW r, Bases(B, r), NEW m \in Nat, NEW n \in Nat, NEW j \in Nat,
         m < B[j], n < B[j], \A k \in 0 .. j - 1 : DigitOf(B, m, k) = DigitOf(B, n, k)
  PROVE  m = n
<1> DEFINE S == {k \in 0 .. j : m % B[k] = n % B[k]}
<1>1. 0 \in S
  <2>1. B[0] = 1
    BY DEF Bases
  <2> QED
    BY <2>1
<1>2. ASSUME NEW k \in 1 .. j, k - 1 \in S PROVE k \in S
  <2>1. k - 1 \in Nat /\ k - 1 \in 0 .. j - 1 /\ (k - 1) + 1 = k
    OBVIOUS
  <2>2. \A x \in Nat : x % B[(k - 1) + 1] = B[k - 1] * DigitOf(B, x, k - 1) + (x % B[k - 1])
    <3>1. \A x \in Nat : DigitFits(B, r, x, k - 1)
      BY <2>1, DigitIs
    <3> QED
      BY <3>1 DEF DigitFits
  <2>3. m % B[k - 1] = n % B[k - 1]
    BY <1>2
  <2>4. m % B[k] = n % B[k]
    BY <2>1, <2>2, <2>3
  <2> QED
    BY <2>4
<1> HIDE DEF S
<1>3. j \in S
  BY <1>1, <1>2, UpTo
<1>4. B[j] \in Nat \ {0}
  BY DEF Bases
<1>5. m % B[j] = m /\ n % B[j] = n
  BY <1>4
<1> QED
  BY <1>3, <1>5 DEF S

(***************************************************************************)
(* nth_permutation: each digit picks one of the elements that are free.    *)
(***************************************************************************)
\* There is an element with any number of smaller ones, below that of all.
LEMMA RankExists ==
  ASSUME NEW S \in SUBSET Indices, NEW i \in Nat, i < Cardinality(S)
  PROVE  \E j \in S : Cardinality({k \in S : k < j}) = i
<1> DEFINE Below(j) == {k \in S : k < j}
           T == {j \in Nat : Cardinality(Below(j)) > i}
<1>0. N \in Nat /\ S \subseteq 0 .. N - 1
  BY PermuterAssumption DEF Indices
<1>1. \A j : IsFiniteSet(Below(j)) /\ Cardinality(Below(j)) \in Nat
  <2>1. IsFiniteSet(0 .. N - 1)
    BY <1>0, FS_Interval
  <2>2. \A j : Below(j) \in SUBSET (0 .. N - 1)
    BY <1>0
  <2> QED
    BY <2>1, <2>2, FS_Subset, FS_CardinalityType
<1>b. \A k \in S : k < N /\ ~ (k < 0)
  BY <1>0
<1>2. N \in T
  <2>1. Below(N) = S
    BY <1>b, Zenon
  <2> QED
    BY <1>0, <2>1
<1>3. PICK j \in T : \A k \in T : j <= k
  <2>1. T \in SUBSET Nat /\ T # {}
    BY <1>2
  <2> HIDE DEF T
  <2> QED
    BY <2>1, FirstExists
<1>4. j \in Nat /\ Cardinality(Below(j)) > i
  BY <1>3
<1>5. j # 0
  <2> SUFFICES ASSUME j = 0 PROVE FALSE
    OBVIOUS
  <2>1. Below(0) = {}
    BY <1>b, Zenon
  <2>2. Cardinality(Below(0)) = 0
    BY <2>1, FS_EmptySet
  <2> QED
    BY <1>4, <2>2
<1> DEFINE h == j - 1
<1>6. h \in Nat /\ j = h + 1 /\ h \notin T
  BY <1>3, <1>4, <1>5
<1>7. ~ (Cardinality(Below(h)) > i)
  BY <1>6
<1> HIDE DEF T, h
<1>8. \A k \in S : k \in Nat /\ (k < j <=> k < h \/ k = h)
  BY <1>0, <1>6
<1>9. ~ (h < h)
  BY <1>6
<1>10. CASE h \in S
  <2>1. Below(j) = Below(h) \cup {h} /\ h \notin Below(h)
    BY <1>8, <1>9, <1>10
  <2>2. IsFiniteSet(Below(h)) /\ Cardinality(Below(h)) \in Nat
    BY <1>1
  <2>3. Cardinality(Below(h)) = i
    <3> HIDE DEF Below
    <3>1. Cardinality(Below(j)) = Cardinality(Below(h)) + 1
      BY <2>1, <2>2, FS_AddElement
    <3> QED
      BY <1>4, <1>7, <2>2, <3>1
  <2> QED
    BY <1>10, <2>3
<1>11. CASE h \notin S
  <2>1. Below(j) = Below(h)
    BY <1>8, <1>11
  <2> HIDE DEF Below
  <2> QED
    BY <1>4, <1>7, <2>1
<1> QED
  BY <1>10, <1>11

PermDigit(n, p) == (n % Factorial[p + 1]) \div Factorial[p]
Used(f, p) == {f[q] : q \in p + 1 .. N - 1}

\* The places from p on of the permutation numbered n.
Places(f, n, p) == f = [k \in p .. N - 1 |-> IthFree(Used(f, k), PermDigit(n, k))]

LEMMA PlacesExist ==
  ASSUME NEW n
  PROVE  \E f : Places(f, n, 0)
<1> DEFINE S == {k \in Nat : \E f : Places(f, n, N - k)}
<1>0. N \in Nat
  BY PermuterAssumption
<1>1. 0 \in S
  <2> DEFINE f == [k \in {} |-> 0]
  <2>1. N - 0 .. N - 1 = {}
    BY <1>0
  <2>2. Places(f, n, N - 0)
    BY <2>1 DEF Places
  <2> QED
    BY <2>2
<1>2. ASSUME NEW k \in 1 .. N, k - 1 \in S PROVE k \in S
  <2>0. k \in Nat /\ N - (k - 1) = (N - k) + 1 /\ N - k \in Nat
    BY <1>0
  <2> DEFINE p == N - k
  <2>1. PICK f : Places(f, n, p + 1)
    BY <1>2, <2>0
  <2> HIDE DEF p
  <2>p. p \in Nat /\ k \in Nat /\ p = N - k
    BY <2>0 DEF p
  <2>2. \A q \in p + 1 .. N - 1 : f[q] = IthFree(Used(f, q), PermDigit(n, q))
    BY <2>1 DEF Places
  <2> DEFINE g == [q \in p .. N - 1 |-> IthFree(Used(f, q), PermDigit(n, q))]
  <2>3. \A q \in p + 1 .. N - 1 : q \in p .. N - 1
    BY <1>0, <2>p
  <2>4. \A q \in p + 1 .. N - 1 : g[q] = f[q]
    BY <2>2, <2>3
  <2>5. ASSUME NEW q \in p .. N - 1 PROVE Used(g, q) = Used(f, q)
    <3>1. \A t \in q + 1 .. N - 1 : t \in p + 1 .. N - 1
      BY <1>0, <2>p
    <3>2. \A t \in q + 1 .. N - 1 : g[t] = f[t]
      BY <2>4, <3>1
    <3> HIDE DEF g
    <3> QED
      BY <3>2 DEF Used
  <2>6. g = [q \in p .. N - 1 |-> IthFree(Used(g, q), PermDigit(n, q))]
    BY <2>5
  <2>7. Places(g, n, p)
    BY <2>6 DEF Places
  <2> QED
    BY <2>p, <2>7
<1> HIDE DEF S
<1>3. N \in S
  BY <1>0, <1>1, <1>2, UpTo
<1> QED
  BY <1>0, <1>3 DEF S

LEMMA NthPermutationIs ==
  ASSUME NEW n
  PROVE  \A p \in Indices :
           NthPermutation(n)[p] = IthFree(Used(NthPermutation(n), p), PermDigit(n, p))
<1> DEFINE a == NthPermutation(n)
<1>1. \E f : f = [p \in Indices |-> IthFree({f[q] : q \in p + 1 .. N - 1},
                                         (n % Factorial[p + 1]) \div Factorial[p])]
  BY PlacesExist DEF Places, Used, PermDigit, Indices
<1>2. a = [p \in Indices |-> IthFree({a[q] : q \in p + 1 .. N - 1},
                                         (n % Factorial[p + 1]) \div Factorial[p])]
  BY <1>1 DEF NthPermutation
<1> HIDE DEF a
<1>3. \A p \in Indices : a[p] = IthFree(Used(a, p), PermDigit(n, p))
  BY <1>2 DEF Used, PermDigit
<1> QED
  BY <1>3 DEF a

\* Every digit is below the number of elements that are free.
LEMMA PicksFree ==
  ASSUME NEW n \in Nat, NEW f,
         \A p \in Indices : f[p] = IthFree(Used(f, p), PermDigit(n, p))
  PROVE  \A p \in Indices :
           /\ f[p] \in Indices \ Used(f, p)
           /\ Cardinality({k \in Indices \ Used(f, p) : k < f[p]}) = PermDigit(n, p)
<1> DEFINE Fits(p) ==
             /\ f[p] \in Indices \ Used(f, p)
             /\ Cardinality({k \in Indices \ Used(f, p) : k < f[p]}) = PermDigit(n, p)
           Small(p) ==
             Used(f, p) \subseteq Indices /\ Cardinality(Used(f, p)) = N - 1 - p
           S == {k \in Nat : Small(N - 1 - k) /\ (k < N => Fits(N - 1 - k))}
<1>0. N \in Nat /\ Indices = 0 .. N - 1 /\ IsFiniteSet(Indices) /\ Cardinality(Indices) = N
  <2>1. N \in Nat /\ 0 \in Int /\ N - 1 \in Int
    BY PermuterAssumption
  <2>2. Cardinality(0 .. N - 1) = IF 0 > N - 1 THEN 0 ELSE N - 1 - 0 + 1
    BY <2>1, FS_Interval
  <2>3. IsFiniteSet(0 .. N - 1)
    BY <2>1, FS_Interval
  <2>4. Cardinality(0 .. N - 1) = N
    BY <2>1, <2>2
  <2> QED
    BY <2>1, <2>3, <2>4 DEF Indices
<1>1. ASSUME NEW p \in Indices, Small(p) PROVE Fits(p)
  <2> DEFINE F == Indices \ Used(f, p)
  <2>1. F \in SUBSET Indices /\ IsFiniteSet(F) /\ IsFiniteSet(Used(f, p))
    BY <1>0, <1>1, FS_Subset
  <2>2. Cardinality(F) = p + 1
    <3>1. F \cup Used(f, p) = Indices /\ F \cap Used(f, p) = {}
      BY <1>1
    <3>2. Cardinality(F \cap Used(f, p)) = 0
      BY <3>1, FS_EmptySet
    <3>3. Cardinality(F \cup Used(f, p))
            = Cardinality(F) + Cardinality(Used(f, p)) - Cardinality(F \cap Used(f, p))
      BY <2>1, FS_Union
    <3>4. Cardinality(F) \in Nat
      BY <2>1, FS_CardinalityType
    <3>5. N \in Nat /\ p \in Int
      BY <1>0
    <3>6. Cardinality(F \cup Used(f, p)) = N
      BY <1>0, <3>1, Zenon
    <3>7. Cardinality(Used(f, p)) = N - 1 - p
      BY <1>1, Zenon
    <3> HIDE DEF F, Small
    <3> QED
      BY <3>2, <3>3, <3>4, <3>5, <3>6, <3>7
  <2>3. PermDigit(n, p) \in 0 .. p
    <3> DEFINE r == [k \in Nat |-> k]
    <3>1. p \in Nat /\ r[p + 1] - 1 = p
      BY <1>0
    <3>2. Bases(Factorial, r)
      BY FactorialsAre
    <3> HIDE DEF r
    <3>3. DigitFits(Factorial, r, n, p)
      BY <3>1, <3>2, DigitIs
    <3> QED
      BY <3>1, <3>3 DEF DigitFits, DigitOf, PermDigit
  <2>4. \E j \in F : Cardinality({k \in F : k < j}) = PermDigit(n, p)
    <3>1. PermDigit(n, p) \in Nat /\ PermDigit(n, p) < Cardinality(F)
      BY <1>0, <2>2, <2>3
    <3> HIDE DEF F
    <3> QED
      BY <2>1, <3>1, RankExists
  <2>5. f[p] = CHOOSE j \in F : Cardinality({k \in F : k < j}) = PermDigit(n, p)
    BY DEF IthFree
  <2> HIDE DEF F
  <2>6. f[p] \in F /\ Cardinality({k \in F : k < f[p]}) = PermDigit(n, p)
    BY <2>4, <2>5
  <2> QED
    BY <2>6 DEF F
<1>2. 0 \in S
  <2>1. Used(f, N - 1 - 0) = {}
    BY <1>0 DEF Used
  <2>2. Small(N - 1 - 0)
    <3>1. N - 1 - (N - 1 - 0) = 0 /\ Cardinality({}) = 0
      BY <1>0, FS_EmptySet
    <3> QED
      BY <2>1, <3>1
  <2>3. 0 < N => N - 1 - 0 \in Indices
    BY <1>0
  <2> QED
    BY <1>1, <2>2, <2>3
<1>3. ASSUME NEW k \in 1 .. N, k - 1 \in S PROVE k \in S
  <2> DEFINE p == N - 1 - k
  <2>0. p \in Int /\ N - 1 - (k - 1) = p + 1 /\ p + 1 \in Indices /\ k - 1 < N
    BY <1>0
  <2>1. Small(p + 1) /\ Fits(p + 1)
    BY <1>3, <2>0
  <2>2. Used(f, p) = Used(f, p + 1) \cup {f[p + 1]}
    <3>1. p + 1 .. N - 1 = (p + 2 .. N - 1) \cup {p + 1}
      BY <1>0, <2>0
    <3>2. (p + 1) + 1 = p + 2
      BY <2>0
    <3> QED
      BY <3>1, <3>2 DEF Used
  <2> HIDE DEF p
  <2>3. Small(p)
    <3>1. IsFiniteSet(Used(f, p + 1))
      BY <1>0, <2>1, FS_Subset
    <3>2. Cardinality(Used(f, p)) = Cardinality(Used(f, p + 1)) + 1
      <4>1. f[p + 1] \notin Used(f, p + 1)
        BY <2>1
      <4> HIDE DEF Small, Fits
      <4> QED
        BY <2>2, <3>1, <4>1, FS_AddElement
    <3>3. Used(f, p) \subseteq Indices
      BY <2>1, <2>2
    <3> QED
      BY <1>0, <2>0, <2>1, <3>2, <3>3
  <2>4. k < N => p \in Indices
    BY <1>0 DEF p
  <2>5. k < N => Fits(p)
    BY <1>1, <2>3, <2>4
  <2> QED
    BY <2>3, <2>5 DEF p
<1> HIDE DEF S
<1>4. 0 .. N \subseteq S
  BY <1>0, <1>2, <1>3, UpTo
<1>5. ASSUME NEW p \in Indices PROVE Fits(p)
  <2>1. N - 1 - p \in 0 .. N /\ N - 1 - p < N /\ N - 1 - (N - 1 - p) = p
    BY <1>0
  <2> QED
    BY <1>4, <2>1 DEF S
<1> QED
  BY <1>5

LEMMA IsArrangement ==
  ASSUME NEW n \in Nat
  PROVE  NthPermutation(n) \in Arrangements
<1> DEFINE f == NthPermutation(n)
<1>0. N \in Nat /\ Indices = 0 .. N - 1 /\ IsFiniteSet(Indices)
  BY PermuterAssumption, FS_Interval DEF Indices
<1>1. \A p \in Indices : f[p] \in Indices \ Used(f, p)
  BY NthPermutationIs, PicksFree
<1>2. f = [p \in Indices |-> f[p]]
  <2>1. \E g : g = [p \in Indices |-> IthFree({g[q] : q \in p + 1 .. N - 1},
                                         (n % Factorial[p + 1]) \div Factorial[p])]
    BY PlacesExist DEF Places, Used, PermDigit, Indices
  <2>2. f = [p \in Indices |-> IthFree({f[q] : q \in p + 1 .. N - 1},
                                         (n % Factorial[p + 1]) \div Factorial[p])]
    BY <2>1 DEF NthPermutation
  <2> HIDE DEF f
  <2> QED
    BY <2>2
<1> HIDE DEF f
<1>3. f \in [Indices -> Indices]
  BY <1>1, <1>2
<1>4. ASSUME NEW a \in Indices, NEW b \in Indices, a < b PROVE f[a] # f[b]
  <2>1. b \in a + 1 .. N - 1
    BY <1>0, <1>4
  <2> QED
    BY <1>1, <2>1 DEF Used
<1>5. \A a, b \in Indices : f[a] = f[b] => a = b
  <2>1. \A a, b \in Indices : a < b \/ b < a \/ a = b
    BY <1>0
  <2> QED
    BY <1>4, <2>1
<1>6. f \in Injection(Indices, Indices)
  BY <1>3, <1>5 DEF Injection, IsInjective
<1>7. f \in Surjection(Indices, Indices)
  BY <1>0, <1>6, FS_Injection
<1> QED
  BY <1>6, <1>7 DEF Arrangements, Bijection, f

LEMMA PermutationsDiffer ==
  ASSUME NEW m \in Nat, NEW n \in Nat, m < Factorial[N], n < Factorial[N],
         NthPermutation(m) = NthPermutation(n)
  PROVE  m = n
<1> DEFINE f == NthPermutation(m)
<1>0. N \in Nat /\ Indices = 0 .. N - 1
  BY PermuterAssumption DEF Indices
<1>1. \A p \in Indices : f[p] = IthFree(Used(f, p), PermDigit(m, p))
  BY NthPermutationIs
<1>2. \A p \in Indices : f[p] = IthFree(Used(f, p), PermDigit(n, p))
  BY NthPermutationIs
<1> HIDE DEF f
<1>3. \A p \in Indices : PermDigit(m, p) = PermDigit(n, p)
  <2>1. \A p \in Indices :
          Cardinality({k \in Indices \ Used(f, p) : k < f[p]}) = PermDigit(m, p)
    BY <1>1, PicksFree
  <2>2. \A p \in Indices :
          Cardinality({k \in Indices \ Used(f, p) : k < f[p]}) = PermDigit(n, p)
    BY <1>2, PicksFree
  <2> QED
    BY <2>1, <2>2
<1>4. \A k \in 0 .. N - 1 : DigitOf(Factorial, m, k) = DigitOf(Factorial, n, k)
  BY <1>0, <1>3 DEF DigitOf, PermDigit
<1> QED
  BY <1>0, <1>4, FactorialsAre, DigitsMake

LEMMA CombinationsDiffer ==
  ASSUME NEW m \in Nat, NEW n \in Nat, m < PowerOf2[N], n < PowerOf2[N],
         NthCombination(m) = NthCombination(n)
  PROVE  m = n
<1> DEFINE two == [k \in Nat |-> 2]
<1>0. N \in Nat /\ Indices = 0 .. N - 1
  BY PermuterAssumption DEF Indices
<1>1. \A x \in Nat, k \in Nat : DigitFits(PowerOf2, two, x, k)
  <2>1. Bases(PowerOf2, two)
    BY PowersAre
  <2> HIDE DEF two
  <2> QED
    BY <2>1, DigitIs
<1>2. \A x \in Nat, k \in Nat :
        /\ DigitOf(PowerOf2, x, k) \in {0, 1}
        /\ (x \div PowerOf2[k]) % 2 = DigitOf(PowerOf2, x, k)
  <2>1. \A k \in Nat : two[k + 1] = 2
    OBVIOUS
  <2> HIDE DEF two
  <2>2. 0 .. 2 - 1 = {0, 1}
    OBVIOUS
  <2> QED
    BY <1>1, <2>1, <2>2 DEF DigitFits
<1>3. ASSUME NEW k \in 0 .. N - 1
      PROVE  DigitOf(PowerOf2, m, k) = DigitOf(PowerOf2, n, k)
  <2>1. k \in Indices /\ k \in Nat
    BY <1>0
  <2>2. (m \div PowerOf2[k]) % 2 = 1 <=> (n \div PowerOf2[k]) % 2 = 1
    BY <2>1 DEF NthCombination
  <2> QED
    BY <1>2, <2>1, <2>2
<1> QED
  BY <1>0, <1>3, PowersAre, DigitsMake

\* The permutations that nth_permutation makes of the ints below N! differ, for
\* every N such that the factorials it divides by are ints, and the combinations
\* that nth_combination makes of the ints below 2^N differ for any N.
THEOREM PermuterUnranks == Spec => []Unranks
<1>1. TypeOK => Unranks
  <2> SUFFICES ASSUME TypeOK PROVE Unranks
    OBVIOUS
  <2>1. index \in Nat
    BY PermuterAssumption DEF TypeOK
  <2>2. Factorial[N] \in Nat /\ PowerOf2[N] \in Nat
    BY PermuterAssumption, FactorialsAre, PowersAre DEF Bases
  <2>3. \A n \in 0 .. index - 1 : n \in Nat /\ n < index /\ n # index
    BY <2>1
  <2>4. ASSUME index < Factorial[N], NEW n \in 0 .. index - 1
        PROVE  NthPermutation(n) # NthPermutation(index)
    <3>1. n < Factorial[N]
      BY <2>1, <2>2, <2>4
    <3> QED
      BY <2>1, <2>3, <2>4, <3>1, PermutationsDiffer
  <2>5. ASSUME index < PowerOf2[N], NEW n \in 0 .. index - 1
        PROVE  NthCombination(n) # NthCombination(index)
    <3>1. n < PowerOf2[N]
      BY <2>1, <2>2, <2>5
    <3> QED
      BY <2>1, <2>3, <2>5, <3>1, CombinationsDiffer
  <2> QED
    BY <2>1, <2>4, <2>5, IsArrangement DEF Unranks
<1> QED
  BY PermuterTypes, <1>1, PTL
=============================================================================
