----------------------------- MODULE CMapProofs -----------------------------
(***************************************************************************)
(* Proofs about CMap, for any capacity, any keys and any hash function.    *)
(***************************************************************************)
EXTENDS CMap, TLAPS, WellFoundedInduction, FiniteSetTheorems

\* An entry whose place no lookup of another entry comes through: a free one,
\* or the entry that was inserted last, when the table became full.
Anchor(q) == \A i \in Used \ {q} : q \notin Path(i)

\* The entries that delete has come past.
Passed(i) == Distance(start, i) <= Distance(start, at)

\* delete goes once round the table, at most, and the hole is behind it.
Scanning ==
  ~ Idle => /\ IsFree(hole)
            /\ Passed(hole)
            /\ stop # start => Distance(start, at) < Distance(start, stop)

\* While delete has been right, the hole is the only gap, and only in the paths
\* of entries that it has not come to; it does not go past the anchor.
OneGap(q) ==
  ~ Idle => /\ \A i \in Used : Path(i) \subseteq Used \cup {hole}
            /\ \A i \in Used : Passed(i) => hole \notin Path(i)
            /\ hole = q \/ Distance(start, hole) < Distance(start, q)

Order == tidy => \E q \in Index : Anchor(q) /\ OneGap(q)

IInv == TypeOK /\ Counted /\ Scanning /\ (Idle /\ tidy => NoGap) /\ Order
-----------------------------------------------------------------------------
(***************************************************************************)
(* Numbers, and places round the table.                                    *)
(***************************************************************************)
\* A set of natural numbers that is not empty has a first element.
LEMMA FirstExists ==
  ASSUME NEW S \in SUBSET Nat, S # {}
  PROVE  First(S) \in S /\ \A j \in S : First(S) <= j
<1> DEFINE Less == OpToRel(<, Nat)
<1>1. IsWellFoundedOn(Less, Nat)
  BY NatLessThanWellFounded DEF Less
<1>2. PICK i \in S : \A j \in S : ~ (<<j, i>> \in Less)
  BY <1>1, WFMin
<1>3. \A j, k \in Nat : <<j, k>> \in Less <=> j < k
  BY DEF Less, OpToRel
<1>4. \A j \in S : ~ (j < i)
  BY <1>2, <1>3
<1>5. \A j \in S : i <= j
  BY <1>4
<1> QED
  BY <1>5 DEF First

LEMMA CapacityPositive == Capacity \in Nat /\ Capacity > 0 /\ 0 \in Index
BY MapAssumption DEF Index

LEMMA HomeInIndex == ASSUME NEW k \in Keys PROVE Home(k) \in Index
<1>1. Hash[k] \in Nat
  BY MapAssumption
<1>2. Hash[k] % Capacity \in 0 .. Capacity - 1
  BY <1>1, CapacityPositive
<1> QED
  BY <1>2 DEF Home, Index

\* Distance(from, .) numbers the entries, from 0 at from on.
LEMMA Distances ==
  ASSUME NEW from \in Index, NEW p \in Index
  PROVE  /\ Distance(from, p) \in Index /\ Distance(from, p) \in Nat
         /\ Probe(from, Distance(from, p)) = p
         /\ Probe(from, p) \in Index
         /\ Distance(from, Probe(from, p)) = p
         /\ Distance(from, p) = 0 <=> p = from
         /\ \A r \in Index : Distance(from, r) = Distance(from, p) => r = p
BY CapacityPositive DEF Index, Distance, Probe

\* The entry after p is one step further, or it is the one at the start.
LEMMA NextDistance ==
  ASSUME NEW from \in Index, NEW p \in Index
  PROVE  /\ Probe(p, 1) \in Index
         /\ IF Probe(p, 1) = from THEN Distance(from, p) = Capacity - 1
            ELSE Distance(from, Probe(p, 1)) = Distance(from, p) + 1
BY CapacityPositive DEF Index, Distance, Probe

\* A probing that comes past j has come past all that it passed on the way to j.
LEMMA BeforeShorter ==
  ASSUME NEW h \in Index, NEW i \in Index, NEW j \in Before(h, i)
  PROVE  /\ j \in Index /\ Before(h, j) \subseteq Before(h, i)
         /\ i \notin Before(h, j) /\ j \notin Before(h, j)
BY CapacityPositive DEF Before, Index, Distance

\* Counted from s on: a probing that comes past y but not past q, which is
\* behind y, ends before q.
LEMMA EndsBefore ==
  ASSUME NEW s \in Index, NEW q \in Index, NEW y \in Index, NEW h \in Index,
         NEW z \in Index,
         y \in Before(h, z), q \notin Before(h, z),
         Distance(s, y) < Distance(s, q), Distance(s, y) < Distance(s, z)
  PROVE  Distance(s, z) <= Distance(s, q)
BY CapacityPositive DEF Before, Index, Distance

\* A probing for i, up to y from s on, that comes past neither q, which is
\* between y and z, nor y, does not come past z.
LEMMA StaysBehind ==
  ASSUME NEW s \in Index, NEW q \in Index, NEW y \in Index, NEW z \in Index,
         NEW h \in Index, NEW i \in Index,
         y \notin Before(h, i), i # q => q \notin Before(h, i), i # y,
         Distance(s, y) < Distance(s, q), Distance(s, z) <= Distance(s, q),
         Distance(s, y) < Distance(s, z), Distance(s, i) < Distance(s, z)
  PROVE  z \notin Before(h, i)
BY CapacityPositive DEF Before, Index, Distance

\* A probing that goes from y to beyond z, counted from s on, comes past z.
LEMMA ComesPast ==
  ASSUME NEW s \in Index, NEW y \in Index, NEW z \in Index,
         NEW h \in Index, NEW i \in Index, y \in Before(h, i),
         Distance(s, y) < Distance(s, z), Distance(s, z) < Distance(s, i)
  PROVE  z \in Before(h, i)
BY CapacityPositive DEF Before, Index, Distance

\* What an entry holds.
LEMMA Entries ==
  ASSUME NEW e \in Holding
  PROVE  /\ e # FREE /\ e.hash \in Index /\ e.key \in Keys /\ e.value \in Values
         /\ e.hash = Home(e.key) /\ PairOf(e) \in Pairs
<1>1. PICK k \in Keys, v \in Values : e = Entry(k, v, Hash[k] % Capacity)
  BY DEF Holding
<1>2. Home(k) \in Index
  BY HomeInIndex
<1>3. Entry(k, v, Hash[k] % Capacity) # FREE
  BY <1>2, CapacityPositive DEF Entry, FREE, Home, Index
<1> QED
  BY <1>1, <1>2, <1>3 DEF Entry, Home, PairOf, Pairs

LEMMA NewEntry ==
  ASSUME NEW k \in Keys, NEW v \in Values
  PROVE  /\ Entry(k, v, Home(k)) \in Holding
         /\ PairOf(Entry(k, v, Home(k))) = <<k, v>>
BY DEF Entry, Holding, Home, PairOf
-----------------------------------------------------------------------------
(***************************************************************************)
(* Facts about one state.                                                  *)
(***************************************************************************)
LEMMA UsedEntries ==
  ASSUME TypeOK
  PROVE  /\ Used \subseteq Index
         /\ \A i \in Index \ Used : entries[i] = FREE
         /\ \A i \in Used : entries[i] \in Holding /\ entries[i] # FREE
         /\ \A i \in Used : entries[i].hash \in Index /\ PairOf(entries[i]) \in Pairs
<1>1. Used \subseteq Index /\ \A i \in Index \ Used : entries[i] = FREE
  BY DEF Used, IsFree
<1>2. \A i \in Used : entries[i] \in Holding /\ entries[i] # FREE
  BY DEF Used, IsFree, TypeOK
<1> QED
  BY <1>1, <1>2, Entries

LEMMA IndexFinite == IsFiniteSet(Index) /\ Cardinality(Index) = Capacity
BY CapacityPositive, FS_Interval DEF Index

LEMMA IndexSubsets ==
  ASSUME NEW S \in SUBSET Index
  PROVE  IsFiniteSet(S) /\ Cardinality(S) \in 0 .. Capacity
<1>1. IsFiniteSet(S) /\ Cardinality(S) <= Capacity
  BY IndexFinite, FS_Subset
<1> QED
  BY <1>1, FS_CardinalityType, CapacityPositive

\* The entries that hold a pair are a finite set, and kept counts them.
LEMMA PairCounts ==
  ASSUME TypeOK, Counted, NEW p \in Pairs
  PROVE  LET of == {i \in Used : PairOf(entries[i]) = p}
         IN kept[p] = Cardinality(of) /\ IsFiniteSet(of) /\ Cardinality(of) \in Nat
<1> DEFINE of == {i \in Used : PairOf(entries[i]) = p}
<1>1. of \in SUBSET Index
  BY UsedEntries
<1>2. IsFiniteSet(of) /\ Cardinality(of) \in Nat
  BY <1>1, IndexSubsets, CapacityPositive
<1>3. kept[p] = Cardinality(of)
  BY DEF Counted
<1> QED
  BY <1>2, <1>3

\* While no entry is being removed, a table that is not full has a free entry,
\* and the entry for a new key is the first free one from its hash on.
LEMMA VacantFree ==
  ASSUME TypeOK, Counted, Idle, size # Capacity, NEW h \in Index
  PROVE  /\ Vacant(h) \in Index \ Used
         /\ Before(h, Vacant(h)) \subseteq Used
<1> DEFINE free == {i \in Index : IsFree(Probe(h, i))}
<1>1. Used # Index
  BY CapacityPositive, IndexFinite DEF Counted, Idle
<1>2. PICK p \in Index : IsFree(p)
  BY <1>1 DEF Used
<1>3. Distance(h, p) \in free
  BY <1>2, Distances
<1>4. free \subseteq Nat
  BY DEF Index
<1>5. First(free) \in free /\ \A j \in free : First(free) <= j
  BY <1>3, <1>4, FirstExists
<1>6. Vacant(h) = Probe(h, First(free))
  BY <1>3 DEF Vacant
<1>7. Vacant(h) \in Index /\ IsFree(Vacant(h)) /\ Distance(h, Vacant(h)) = First(free)
  BY <1>5, <1>6, Distances
<1>8. ASSUME NEW r \in Index, Distance(h, r) < Distance(h, Vacant(h)), IsFree(r)
      PROVE  FALSE
  <2>1. Distance(h, r) \in free /\ Distance(h, r) \in Nat
    BY <1>8, Distances
  <2>2. First(free) <= Distance(h, r) /\ First(free) \in Nat
    BY <2>1, <1>4, <1>5
  <2> QED
    BY <2>1, <2>2, <1>7, <1>8
<1> QED
  BY <1>7, <1>8 DEF Used, Before

\* The entry that a lookup finds holds the key.
LEMMA FoundMatches ==
  ASSUME TypeOK, NEW k \in Keys, LookupIndex(k) # NONE
  PROVE  LookupIndex(k) \in Of(k) /\ LookupIndex(k) \in Used
<1> DEFINE found == Probe(Home(k), First(Stops(k)))
<1>1. Stops(k) # {} /\ ~ IsFree(found) /\ LookupIndex(k) = found
  BY DEF LookupIndex
<1>2. Stops(k) \subseteq Nat
  BY DEF Stops, Index
<1>3. First(Stops(k)) \in Stops(k)
  BY <1>1, <1>2, FirstExists
<1>4. First(Stops(k)) \in Index /\ Matches(found, k)
  BY <1>1, <1>3 DEF Stops
<1>5. found \in Index
  BY <1>4, HomeInIndex, Distances
<1> QED
  BY <1>1, <1>4, <1>5 DEF Of, Used, Matches

\* Where no free entry is on a path, a lookup finds a key that is in the table.
LEMMA NoGapFinds ==
  ASSUME TypeOK, Counted, Idle, NoGap
  PROVE  AllFound
<1> SUFFICES ASSUME NEW k \in Keys
             PROVE  IF Of(k) = {} THEN LookupIndex(k) = NONE /\ Lookup(k) = {}
                    ELSE LookupIndex(k) \in Of(k) /\ Lookup(k) = {ValueOf(LookupIndex(k))}
  BY DEF AllFound
<1>1. CASE Of(k) = {}
  <2>1. LookupIndex(k) = NONE
    BY <1>1, FoundMatches
  <2> QED
    BY <1>1, <2>1 DEF Lookup
<1>2. CASE Of(k) # {}
  <2> DEFINE home  == Home(k)
             found == Probe(home, First(Stops(k)))
  <2>1. PICK i \in Used : entries[i].key = k
    BY <1>2 DEF Of
  <2>2. i \in Index /\ home \in Index /\ entries[i].hash = home /\ ~ IsFree(i)
    BY <2>1, UsedEntries, Entries, HomeInIndex DEF Used
  <2>3. Distance(home, i) \in Stops(k)
    BY <2>1, <2>2, Distances DEF Stops, Matches
  <2>4. Stops(k) \subseteq Index /\ Stops(k) \subseteq Nat
    BY DEF Stops, Index
  <2>5. First(Stops(k)) \in Stops(k) /\ First(Stops(k)) <= Distance(home, i)
    BY <2>3, <2>4, FirstExists
  <2>6. found \in Index /\ Distance(home, found) = First(Stops(k))
    BY <2>2, <2>4, <2>5, Distances
  <2>7. Distance(home, found) \in Nat /\ Distance(home, i) \in Nat
    BY <2>2, <2>6, Distances
  <2>8. ~ IsFree(found)
    <3>1. CASE found = i
      BY <3>1, <2>2
    <3>2. CASE found # i
      <4>1. Distance(home, found) # Distance(home, i)
        BY <3>2, <2>2, <2>6, Distances
      <4>2. Distance(home, found) < Distance(home, i)
        BY <4>1, <2>5, <2>6, <2>7
      <4>3. found \in Path(i)
        BY <4>2, <2>2, <2>6 DEF Path, Before
      <4> QED
        BY <4>3, <2>1 DEF NoGap, Used
    <3> QED
      BY <3>1, <3>2
  <2>9. LookupIndex(k) = found /\ found # NONE
    BY <2>3, <2>6, <2>8 DEF LookupIndex, NONE, Index
  <2>10. size # 0
    <3>1. IsFiniteSet(Used)
      BY UsedEntries, IndexSubsets
    <3> QED
      BY <3>1, <2>1, FS_EmptySet, UsedEntries, IndexSubsets DEF Counted, Idle
  <2> QED
    BY <1>2, <2>9, <2>10, FoundMatches DEF Lookup
<1> QED
  BY <1>1, <1>2
-----------------------------------------------------------------------------
(***************************************************************************)
(* The steps.                                                              *)
(***************************************************************************)
LEMMA InitKeeps == ASSUME Init PROVE IInv
<1>1. Used = {} /\ Idle
  BY DEF Init, Used, IsFree, Idle
<1>2. Cardinality(Used) = 0
  BY <1>1, FS_EmptySet
<1>3. TypeOK
  BY CapacityPositive DEF Init, TypeOK
<1>4. \A p \in Pairs : {i \in Used : PairOf(entries[i]) = p} = {}
  BY <1>1
<1>5. Counted
  BY <1>1, <1>2, <1>4, FS_EmptySet DEF Init, Counted
<1>6. NoGap /\ Anchor(0) /\ OneGap(0) /\ Scanning
  BY <1>1 DEF NoGap, Anchor, OneGap, Scanning
<1> QED
  BY <1>3, <1>5, <1>6, CapacityPositive DEF IInv, Order

LEMMA InsertKeeps ==
  ASSUME IInv, NEW k \in Keys, NEW v \in Values, Insert(k, v)
  PROVE  IInv'
<1> DEFINE q == Vacant(Home(k))
           e == Entry(k, v, Home(k))
<1> USE DEF IInv
<1>1. /\ q \in Index \ Used
      /\ Before(Home(k), q) \subseteq Used
  BY VacantFree, HomeInIndex DEF Insert
<1>2. /\ e \in Holding /\ e # FREE /\ PairOf(e) = <<k, v>> /\ <<k, v>> \in Pairs
      /\ e.hash = Home(k)
  BY NewEntry, Entries DEF Entry, Pairs
<1>3. entries' = [entries EXCEPT ![q] = e]
  BY DEF Insert
<1> HIDE DEF q, e
<1>4. /\ Idle /\ hole = NONE
      /\ UNCHANGED <<start, hole, at, stop, tidy>> /\ size' = size + 1
      /\ kept' = [kept EXCEPT ![<<k, v>>] = @ + 1]
      /\ size # Capacity /\ UNCHANGED removing
  BY DEF Insert, Idle, removing
<1>5. Used' = Used \cup {q}
  BY <1>1, <1>2, <1>3 DEF Used, IsFree, TypeOK
<1>6. /\ entries'[q] = e
      /\ \A i \in Used : entries'[i] = entries[i]
  BY <1>1, <1>3, UsedEntries DEF TypeOK
<1>7. TypeOK'
  <2>1. (entries \in [Index -> Holding \cup {FREE}])'
    BY <1>2, <1>3 DEF TypeOK
  <2>2. (size \in 0 .. Capacity)'
    BY <1>4, CapacityPositive DEF TypeOK
  <2>3. (kept \in [Pairs -> Nat])'
    BY <1>2, <1>4 DEF TypeOK
  <2>4. ({start, hole, at, stop} \subseteq Index \/ {start, hole, at, stop} = {NONE})'
    BY <1>4 DEF TypeOK
  <2> QED
    BY <2>1, <2>2, <2>3, <2>4, <1>4 DEF TypeOK
<1>8. Counted'
  <2>1. Cardinality(Used') = Cardinality(Used) + 1
    BY <1>1, <1>5, UsedEntries, IndexSubsets, FS_AddElement
  <2>2. (size = Cardinality(Used) + (IF Idle THEN 0 ELSE 1))'
    BY <2>1, <1>4, UsedEntries, IndexSubsets DEF Counted, Idle
  <2>3. ASSUME NEW p \in Pairs
        PROVE  kept'[p] = Cardinality({i \in Used' : PairOf(entries'[i]) = p})
    <3> DEFINE of == {i \in Used : PairOf(entries[i]) = p}
    <3>1. kept[p] = Cardinality(of) /\ IsFiniteSet(of) /\ Cardinality(of) \in Nat
      BY PairCounts
    <3>2. CASE p = <<k, v>>
      <4>1. {i \in Used' : PairOf(entries'[i]) = p} = of \cup {q} /\ q \notin of
        BY <3>2, <1>1, <1>2, <1>5, <1>6
      <4>2. kept'[p] = kept[p] + 1
        BY <3>2, <1>2, <1>4 DEF TypeOK
      <4>3. Cardinality(of \cup {q}) = Cardinality(of) + 1
        BY <4>1, <3>1, FS_AddElement
      <4> QED
        BY <4>1, <4>2, <4>3, <3>1
    <3>3. CASE p # <<k, v>>
      <4>1. {i \in Used' : PairOf(entries'[i]) = p} = of
        BY <3>3, <1>1, <1>2, <1>5, <1>6
      <4> QED
        BY <4>1, <3>1, <3>3, <1>4 DEF TypeOK
    <3> QED
      BY <3>2, <3>3
  <2> QED
    BY <2>2, <2>3 DEF Counted
<1>9. Scanning'
  BY <1>4 DEF Scanning, Idle
<1>10. ASSUME tidy PROVE NoGap' /\ Order'
  <2>1. \A i \in Used : Before(entries[i].hash, i) \subseteq Used
    BY <1>10, <1>4 DEF NoGap, Path
  <2>2. \A i \in Used' : Before(entries'[i].hash, i) \subseteq Used
    BY <2>1, <1>1, <1>2, <1>5, <1>6
  <2>3. \A i \in Used' \ {q} : q \notin Before(entries'[i].hash, i)
    BY <2>2, <1>1
  <2>4. NoGap'
    BY <2>2, <1>5 DEF NoGap, Path
  <2>5. Order'
    BY <2>3, <1>1, <1>4 DEF Order, Anchor, Path, OneGap, Idle
  <2> QED
    BY <2>4, <2>5
<1>11. (Idle /\ tidy => NoGap)' /\ Order'
  BY <1>4, <1>10 DEF Order
<1> QED
  BY <1>7, <1>8, <1>9, <1>11

LEMMA RemoveKeeps ==
  ASSUME IInv, NEW k \in Keys, Remove(k)
  PROVE  IInv'
<1> DEFINE r == LookupIndex(k)
<1> USE DEF IInv
<1>1. r \in Used
  BY FoundMatches DEF Remove
<1>2. r \in Index /\ entries[r].hash \in Index /\ PairOf(entries[r]) \in Pairs
  BY <1>1, UsedEntries
<1>3. /\ entries' = [entries EXCEPT ![r] = FREE]
      /\ kept' = [kept EXCEPT ![PairOf(entries[r])] = @ - 1]
      /\ start' = r /\ hole' = r /\ at' = r /\ stop' = entries[r].hash
      /\ Idle /\ UNCHANGED <<size, tidy>>
  BY DEF Remove
<1>4. ~ Idle'
  BY <1>2, <1>3, CapacityPositive DEF Idle, NONE, Index
<1> HIDE DEF r
<1>5. Used' = Used \ {r}
  BY <1>2, <1>3 DEF Used, IsFree, TypeOK
<1>6. \A i \in Used' : entries'[i] = entries[i]
  BY <1>3, <1>5, UsedEntries DEF TypeOK
<1>7. ASSUME NEW p \in Pairs
      PROVE  /\ kept'[p] \in Nat
             /\ kept'[p] = Cardinality({i \in Used' : PairOf(entries'[i]) = p})
  <2> DEFINE of == {i \in Used : PairOf(entries[i]) = p}
  <2>1. kept[p] = Cardinality(of) /\ IsFiniteSet(of) /\ Cardinality(of) \in Nat
    BY PairCounts
  <2>2. CASE p = PairOf(entries[r])
    <3>1. {i \in Used' : PairOf(entries'[i]) = p} = of \ {r} /\ r \in of
      BY <2>2, <1>1, <1>5, <1>6
    <3>2. kept'[p] = kept[p] - 1
      BY <2>2, <1>2, <1>3 DEF TypeOK
    <3>3. IsFiniteSet(of \ {r}) /\ Cardinality(of \ {r}) = Cardinality(of) - 1
      BY <3>1, <2>1, FS_RemoveElement
    <3>4. Cardinality(of \ {r}) \in Nat
      BY <3>3, FS_CardinalityType
    <3> QED
      BY <3>1, <3>2, <3>3, <3>4, <2>1
  <2>3. CASE p # PairOf(entries[r])
    <3>1. {i \in Used' : PairOf(entries'[i]) = p} = of
      BY <2>3, <1>1, <1>5, <1>6
    <3>2. kept'[p] = kept[p]
      BY <2>3, <1>2, <1>3 DEF TypeOK
    <3> QED
      BY <3>1, <3>2, <2>1
  <2> QED
    BY <2>2, <2>3
<1>8. TypeOK'
  <2>1. (entries \in [Index -> Holding \cup {FREE}])'
    BY <1>3 DEF TypeOK
  <2>2. (kept \in [Pairs -> Nat])'
    BY <1>3, <1>7 DEF TypeOK
  <2>3. ({start, hole, at, stop} \subseteq Index \/ {start, hole, at, stop} = {NONE})'
    BY <1>2, <1>3
  <2> QED
    BY <2>1, <2>2, <2>3, <1>3 DEF TypeOK
<1>9. Counted'
  <2>1. Cardinality(Used') = Cardinality(Used) - 1 /\ Cardinality(Used) \in Nat
    BY <1>1, <1>5, UsedEntries, IndexSubsets, FS_RemoveElement, CapacityPositive
  <2>2. size' = Cardinality(Used') + 1
    BY <2>1, <1>3 DEF Counted
  <2> QED
    BY <2>2, <1>4, <1>7 DEF Counted
<1>10. Scanning'
  <2>1. IsFree(hole)'
    BY <1>2, <1>3 DEF IsFree, TypeOK
  <2>2. Passed(hole)'
    BY <1>2, <1>3, Distances DEF Passed
  <2>3. (stop # start => Distance(start, at) < Distance(start, stop))'
    <3>1. /\ Distance(r, r) = 0 /\ Distance(r, entries[r].hash) \in Nat
          /\ Distance(r, entries[r].hash) = 0 => entries[r].hash = r
      BY <1>2, Distances
    <3> QED
      BY <3>1, <1>3
  <2> QED
    BY <2>1, <2>2, <2>3 DEF Scanning
<1>11. ASSUME tidy PROVE Order'
  <2>1. PICK q \in Index : Anchor(q)
    BY <1>11 DEF Order
  <2>2. \A i \in Used' \ {q} : q \notin Before(entries'[i].hash, i)
    BY <2>1, <1>5, <1>6 DEF Anchor, Path
  <2>3. \A i \in Used' : Before(entries'[i].hash, i) \subseteq Used' \cup {r}
    BY <1>3, <1>5, <1>6, <1>11 DEF NoGap, Path
  <2>4. ASSUME NEW i \in Used', Distance(r, i) <= Distance(r, r)
        PROVE  r \notin Before(entries'[i].hash, i)
    <3>1. i \in Index
      BY <1>5, UsedEntries
    <3>2. Distance(r, r) = 0 /\ Distance(r, i) \in Nat /\ (Distance(r, i) = 0 => i = r)
      BY <3>1, <1>2, Distances
    <3> QED
      BY <3>2, <2>4, <1>5
  <2>5. r = q \/ Distance(r, r) < Distance(r, q)
    <3>1. Distance(r, r) = 0 /\ Distance(r, q) \in Nat /\ (Distance(r, q) = 0 => q = r)
      BY <2>1, <1>2, Distances
    <3> QED
      BY <3>1
  <2>6. (Anchor(q) /\ OneGap(q))'
    BY <2>2, <2>3, <2>4, <2>5, <1>3 DEF Anchor, OneGap, Path, Passed
  <2> QED
    BY <2>1, <2>6 DEF Order
<1> QED
  BY <1>3, <1>4, <1>8, <1>9, <1>10, <1>11 DEF Order

\* Where delete looks at an entry, that is one step further on from the start.
LEMMA NextStep ==
  ASSUME TypeOK, Scanning, Looking
  PROVE  /\ {start, hole, at, stop, next} \subseteq Index /\ next \in Used
         /\ next # hole
         /\ Distance(start, next) = Distance(start, at) + 1
         /\ Distance(start, hole) <= Distance(start, at)
         /\ stop # start => Distance(start, next) < Distance(start, stop)
<1>1. {start, hole, at, stop} \subseteq Index
  BY CapacityPositive DEF TypeOK, Looking, Idle
<1>2. next \in Index /\ next \in Used /\ next # stop /\ next # hole
  BY <1>1, NextDistance DEF Looking, next, Used, Scanning
<1>3. /\ Distance(start, at) \in Nat /\ Distance(start, next) \in Nat
      /\ Distance(start, stop) \in 0 .. Capacity - 1
      /\ Distance(start, next) # Distance(start, stop)
      /\ Distance(start, stop) \in Nat
  BY <1>1, <1>2, Distances DEF Index
<1>4. next # start
  <2>1. CASE stop = start
    BY <2>1, <1>2
  <2>2. CASE stop # start
    <3>1. Distance(start, at) < Distance(start, stop)
      BY <2>2 DEF Scanning, Looking
    <3> QED
      BY <3>1, <1>1, <1>3, NextDistance, CapacityPositive DEF next
  <2> QED
    BY <2>1, <2>2
<1>5. Distance(start, next) = Distance(start, at) + 1
  BY <1>1, <1>4, NextDistance DEF next
<1> QED
  BY <1>1, <1>2, <1>3, <1>5 DEF Scanning, Looking, Passed

LEMMA SkipKeeps ==
  ASSUME IInv, Skip
  PROVE  IInv'
<1> USE DEF IInv
<1>1. /\ Looking /\ ~ Moves /\ at' = next /\ tidy' = (tidy /\ Right)
      /\ UNCHANGED <<entries, size, kept, start, hole, stop>>
  BY DEF Skip
<1>2. ~ Idle /\ ~ Idle'
  BY <1>1 DEF Idle, Looking
<1>3. /\ {start, hole, at, stop, next} \subseteq Index /\ next \in Used
      /\ Distance(start, next) = Distance(start, at) + 1
      /\ Distance(start, hole) <= Distance(start, at)
      /\ stop # start => Distance(start, next) < Distance(start, stop)
  BY <1>1, NextStep
<1>4. TypeOK'
  BY <1>1, <1>3 DEF TypeOK
<1>5. Used' = Used
  BY <1>1 DEF Used, IsFree
<1>6. Counted'
  BY <1>1, <1>2, <1>5 DEF Counted
<1>7. Distance(start, hole) \in Nat /\ Distance(start, at) \in Nat
  BY <1>3, Distances
<1>8. Scanning'
  BY <1>1, <1>2, <1>3, <1>7 DEF Scanning, IsFree, Passed
<1>9. ASSUME tidy' PROVE Order'
  <2>1. tidy /\ hole \notin Path(next)
    BY <1>1, <1>9 DEF Right
  <2>2. PICK q \in Index : Anchor(q) /\ OneGap(q)
    BY <2>1 DEF Order
  <2>3. ASSUME NEW i \in Used, Distance(start, i) <= Distance(start, next)
        PROVE  hole \notin Path(i)
    <3>1. i \in Index
      BY UsedEntries
    <3>2. Distance(start, i) \in Nat /\ (Distance(start, i) = Distance(start, next) => i = next)
      BY <3>1, <1>3, Distances
    <3>3. i = next \/ Passed(i)
      BY <3>2, <2>3, <1>3, <1>7 DEF Passed
    <3> QED
      BY <3>3, <2>1, <2>2, <1>2 DEF OneGap
  <2>4. (Anchor(q) /\ OneGap(q))'
    BY <2>2, <2>3, <1>1, <1>2, <1>5 DEF Anchor, OneGap, Path, Passed
  <2> QED
    BY <2>2, <2>4 DEF Order
<1> QED
  BY <1>2, <1>4, <1>6, <1>8, <1>9 DEF Order

\* Moving an element does not change how many there are.
LEMMA MovedCount ==
  ASSUME NEW S, IsFiniteSet(S), NEW x \in S, NEW y, y \notin S
  PROVE  Cardinality((S \ {x}) \cup {y}) = Cardinality(S)
<1>1. IsFiniteSet(S \ {x}) /\ Cardinality(S \ {x}) = Cardinality(S) - 1
  BY FS_RemoveElement
<1>2. Cardinality((S \ {x}) \cup {y}) = Cardinality(S \ {x}) + 1
  BY <1>1, FS_AddElement
<1> QED
  BY <1>1, <1>2, FS_CardinalityType

LEMMA MoveKeeps ==
  ASSUME IInv, Move
  PROVE  IInv'
<1> DEFINE h == entries[next].hash
<1> USE DEF IInv
<1>1. /\ Looking /\ Moves /\ hole' = next /\ at' = next
      /\ entries' = [entries EXCEPT ![hole] = entries[next], ![next] = FREE]
      /\ tidy' = (tidy /\ Right)
      /\ UNCHANGED <<size, kept, start, stop>>
  BY DEF Move
<1>2. /\ {start, hole, at, stop, next} \subseteq Index /\ next \in Used /\ next # hole
      /\ Distance(start, next) = Distance(start, at) + 1
      /\ Distance(start, hole) <= Distance(start, at)
      /\ stop # start => Distance(start, next) < Distance(start, stop)
  BY <1>1, NextStep
<1>3. ~ Idle /\ ~ Idle' /\ hole \notin Used
  BY <1>1, <1>2, CapacityPositive DEF Idle, Looking, Scanning, Used, NONE, Index
<1>4. Distance(start, hole) \in Nat /\ Distance(start, at) \in Nat /\ h \in Index
  BY <1>2, Distances, UsedEntries
<1>5. Used' = (Used \ {next}) \cup {hole}
  BY <1>1, <1>2, UsedEntries DEF Used, IsFree, TypeOK
<1>6. /\ entries'[hole] = entries[next] /\ entries'[next] = FREE
      /\ \A i \in Used \ {next} : entries'[i] = entries[i]
  BY <1>1, <1>2, <1>3, UsedEntries DEF TypeOK
<1>7. TypeOK'
  BY <1>1, <1>2 DEF TypeOK
<1>8. Counted'
  <2>1. Cardinality(Used') = Cardinality(Used)
    <3>1. IsFiniteSet(Used) /\ Cardinality(Used) \in Nat
      BY UsedEntries, IndexSubsets, CapacityPositive
    <3> QED
      BY <3>1, <1>2, <1>3, <1>5, MovedCount
  <2>2. ASSUME NEW p \in Pairs
        PROVE  kept'[p] = Cardinality({i \in Used' : PairOf(entries'[i]) = p})
    <3> DEFINE of == {i \in Used : PairOf(entries[i]) = p}
    <3>1. /\ kept'[p] = Cardinality(of) /\ IsFiniteSet(of) /\ Cardinality(of) \in Nat
      BY PairCounts, <1>1
    <3>2. CASE p = PairOf(entries[next])
      <4>1. /\ {i \in Used' : PairOf(entries'[i]) = p} = (of \ {next}) \cup {hole}
            /\ next \in of /\ hole \notin of
        BY <3>2, <1>2, <1>3, <1>5, <1>6
      <4>2. Cardinality((of \ {next}) \cup {hole}) = Cardinality(of)
        BY <4>1, <3>1, MovedCount
      <4> QED
        BY <4>1, <4>2, <3>1
    <3>3. CASE p # PairOf(entries[next])
      <4>1. {i \in Used' : PairOf(entries'[i]) = p} = of
        BY <3>3, <1>2, <1>3, <1>5, <1>6
      <4> QED
        BY <4>1, <3>1
    <3> QED
      BY <3>2, <3>3
  <2> QED
    BY <2>1, <2>2, <1>1, <1>3 DEF Counted
<1>9. Scanning'
  <2>1. IsFree(hole)'
    BY <1>1, <1>6 DEF IsFree
  <2>2. Distance(start, next) <= Distance(start, next)
    BY <1>2, <1>4
  <2> QED
    BY <2>1, <2>2, <1>1, <1>2 DEF Scanning, Passed
<1>10. ASSUME tidy' PROVE Order'
  <2>1. tidy /\ hole \in Before(h, next)
    BY <1>1, <1>10 DEF Right, Path
  <2>2. PICK q \in Index : Anchor(q) /\ OneGap(q)
    BY <2>1 DEF Order
  <2>3. /\ \A i \in Used \ {q} : q \notin Before(entries[i].hash, i)
        /\ \A i \in Used : Before(entries[i].hash, i) \subseteq Used \cup {hole}
        /\ \A i \in Used : Distance(start, i) <= Distance(start, at)
                             => hole \notin Before(entries[i].hash, i)
        /\ hole = q \/ Distance(start, hole) < Distance(start, q)
    BY <2>2, <1>3 DEF Anchor, OneGap, Path, Passed
  <2>4. /\ Before(h, hole) \subseteq Before(h, next)
        /\ next \notin Before(h, hole) /\ hole \notin Before(h, hole)
    BY <2>1, <1>2, <1>4, BeforeShorter
  <2>5. next # q => q \notin Before(h, next)
    BY <2>3, <1>2
  <2>6. Distance(start, hole) < Distance(start, q)
    BY <2>1, <2>3, <2>5, <1>2
  <2>7. Distance(start, q) \in Nat /\ Distance(start, next) \in Nat
    BY <1>2, Distances
  <2>8. Distance(start, next) <= Distance(start, q)
    <3>1. CASE next = q
      BY <3>1, <2>7
    <3>2. CASE next # q
      BY <3>2, <2>1, <2>5, <2>6, <1>2, <1>4, EndsBefore
    <3> QED
      BY <3>1, <3>2
  <2>9. next = q \/ Distance(start, next) < Distance(start, q)
    BY <2>7, <2>8, <1>2, Distances
  <2>10. \A i \in Used' \ {q} : q \notin Before(entries'[i].hash, i)
    <3>1. q \notin Before(h, hole)
      BY <2>4, <2>5
    <3> QED
      BY <3>1, <2>3, <1>5, <1>6
  <2>11. \A i \in Used' : Before(entries'[i].hash, i) \subseteq Used' \cup {next}
    <3>1. Before(h, hole) \subseteq Used \cup {hole}
      BY <2>3, <2>4, <1>2
    <3> QED
      BY <3>1, <2>3, <1>5, <1>6
  <2>12. ASSUME NEW i \in Used', Distance(start, i) <= Distance(start, next)
         PROVE  next \notin Before(entries'[i].hash, i)
    <3>1. CASE i = hole
      BY <3>1, <2>4, <1>6
    <3>2. CASE i # hole
      <4>1. /\ i \in Used \ {next} /\ entries'[i] = entries[i]
            /\ i \in Index /\ entries[i].hash \in Index
        BY <3>2, <1>5, <1>6, UsedEntries
      <4>2. /\ Distance(start, i) \in Nat
            /\ Distance(start, i) = Distance(start, next) => i = next
        BY <4>1, <1>2, Distances
      <4>3. Distance(start, i) < Distance(start, next)
        BY <4>1, <4>2, <2>7, <2>12
      <4>4. hole \notin Before(entries[i].hash, i)
        BY <4>1, <4>2, <4>3, <2>3, <1>2, <1>4
      <4>5. i # q => q \notin Before(entries[i].hash, i)
        BY <4>1, <2>3
      <4>6. Distance(start, hole) < Distance(start, next)
        BY <1>2, <1>4
      <4>7. next \notin Before(entries[i].hash, i)
        <5> HIDE DEF h
        <5>1. start \in Index /\ hole \in Index /\ next \in Index
          BY <1>2
        <5> QED
          BY <5>1, <4>1, <4>3, <4>4, <4>5, <4>6, <3>2, <2>6, <2>8, StaysBehind
      <4> QED
        BY <4>1, <4>7
    <3> QED
      BY <3>1, <3>2
  <2>13. (Anchor(q) /\ OneGap(q))'
    BY <2>9, <2>10, <2>11, <2>12, <1>1 DEF Anchor, OneGap, Path, Passed
  <2> QED
    BY <2>13, <2>2 DEF Order
<1> QED
  BY <1>3, <1>7, <1>8, <1>9, <1>10 DEF Order

LEMMA RemovedKeeps ==
  ASSUME IInv, Removed
  PROVE  IInv'
<1> USE DEF IInv
<1>1. /\ ~ Idle /\ ~ Looking /\ size' = size - 1 /\ UNCHANGED <<entries, kept>>
      /\ start' = NONE /\ hole' = NONE /\ at' = NONE /\ stop' = NONE
      /\ tidy' = (tidy /\ (next = stop /\ stop # start
                             => \A i \in Used : hole \notin Path(i)))
  BY DEF Removed
<1>2. Idle'
  BY <1>1 DEF Idle
<1>3. {start, hole, at, stop, next} \subseteq Index
  BY <1>1, NextDistance DEF TypeOK, Idle, next
<1>4. Used' = Used /\ \A i : Path(i)' = Path(i)
  BY <1>1 DEF Used, IsFree, Path
<1>5. Cardinality(Used) \in 0 .. Capacity /\ size' = Cardinality(Used)
  BY <1>1, UsedEntries, IndexSubsets, CapacityPositive DEF Counted
<1>6. TypeOK'
  BY <1>1, <1>5 DEF TypeOK
<1>7. Counted'
  <2>1. size' = Cardinality(Used') + (IF Idle' THEN 0 ELSE 1)
    BY <1>2, <1>4, <1>5, CapacityPositive
  <2>2. ASSUME NEW p \in Pairs
        PROVE  kept'[p] = Cardinality({i \in Used' : PairOf(entries'[i]) = p})
    BY <1>1, <1>4 DEF Counted
  <2> QED
    BY <2>1, <2>2 DEF Counted
<1>8. ASSUME tidy' PROVE NoGap' /\ Order'
  <2>1. PICK q \in Index : Anchor(q) /\ OneGap(q)
    BY <1>1, <1>8 DEF Order
  <2>2. ASSUME NEW i \in Used, hole \in Path(i) PROVE FALSE
    <3>1. i \in Index /\ entries[i].hash \in Index /\ hole \in Before(entries[i].hash, i)
      BY <2>2, UsedEntries DEF Path
    <3>2. ~ Passed(i)
      BY <2>1, <2>2, <1>1 DEF OneGap
    <3>3. /\ Distance(start, i) \in Nat /\ Distance(start, at) \in Nat
          /\ Distance(start, i) \in 0 .. Capacity - 1
          /\ Distance(start, hole) \in Nat
          /\ Distance(start, hole) <= Distance(start, at)
      BY <3>1, <1>1, <1>3, Distances DEF Index, Scanning, Passed
    <3>4. Distance(start, at) < Distance(start, i)
      BY <3>2, <3>3 DEF Passed
    <3>5. next # start /\ Distance(start, next) = Distance(start, at) + 1
      BY <3>3, <3>4, <1>3, NextDistance, CapacityPositive DEF next
    <3>6. IsFree(next)
      BY <3>5, <2>2, <1>1, <1>8 DEF Looking
    <3>7. next # i /\ next # hole /\ next \notin Used
      BY <3>3, <3>5, <3>6 DEF Used
    <3>8. Distance(start, next) < Distance(start, i)
      BY <3>1, <3>3, <3>4, <3>5, <3>7, <1>3, Distances
    <3>9. next \in Path(i)
      <4>1. Distance(start, hole) < Distance(start, next)
        BY <3>3, <3>5
      <4> QED
        BY <4>1, <3>1, <3>8, <1>3, ComesPast DEF Path
    <3> QED
      BY <3>7, <3>9, <2>1, <1>1 DEF OneGap
  <2>3. \A i \in Used : Before(entries[i].hash, i) \subseteq Used
    BY <2>1, <2>2, <1>1 DEF OneGap, Path
  <2>4. NoGap'
    BY <2>3, <1>1, <1>4 DEF NoGap, Path
  <2>5. (Anchor(q) /\ OneGap(q))'
    BY <2>1, <1>1, <1>2, <1>4 DEF Anchor, OneGap, Path
  <2> QED
    BY <2>1, <2>4, <2>5 DEF Order
<1> QED
  BY <1>2, <1>6, <1>7, <1>8 DEF Order, Scanning

\* cmap_clear stops early, but not before it has erased every entry.
LEMMA ClearedUsed == ASSUME TypeOK, Counted, Idle PROVE Cleared = Used
<1>1. IsFiniteSet(Used) /\ size = Cardinality(Used) /\ size \in Nat
  BY UsedEntries, IndexSubsets, CapacityPositive DEF Counted
<1>2. ASSUME NEW i \in Used
      PROVE  Cardinality({j \in Used : j < i}) < size
  <2> DEFINE less == {j \in Used : j < i}
  <2>1. i \in Nat
    BY UsedEntries DEF Index
  <2>2. i \notin less /\ less \in SUBSET Used /\ less # Used
    BY <2>1, <1>2
  <2>3. Cardinality(less) <= size /\ Cardinality(less) # size /\ IsFiniteSet(less)
    BY <2>2, <1>1, FS_Subset
  <2>4. Cardinality(less) \in Nat
    BY <2>3, FS_CardinalityType
  <2> QED
    BY <2>3, <2>4, <1>1
<1> QED
  BY <1>2 DEF Cleared

LEMMA ClearKeeps ==
  ASSUME IInv, Clear
  PROVE  IInv'
<1> USE DEF IInv
<1>1. /\ Idle /\ size' = 0 /\ tidy' = TRUE /\ UNCHANGED <<start, hole, at, stop>>
      /\ entries' = [i \in Index |-> IF i \in Cleared THEN FREE ELSE entries[i]]
      /\ kept' = [p \in Pairs |->
                    kept[p] - Cardinality({i \in Cleared : PairOf(entries[i]) = p})]
  BY DEF Clear, removing
<1>2. Idle'
  BY <1>1 DEF Idle
<1>3. Cleared = Used
  BY <1>1, ClearedUsed
<1>4. entries' = [i \in Index |-> FREE]
  BY <1>1, <1>3, UsedEntries
<1>5. Used' = {}
  BY <1>4 DEF Used, IsFree
<1>6. ASSUME NEW p \in Pairs PROVE kept'[p] = 0
  <2> DEFINE of == {i \in Used : PairOf(entries[i]) = p}
  <2>1. kept[p] = Cardinality(of) /\ Cardinality(of) \in Nat
    BY PairCounts
  <2>2. kept'[p] = kept[p] - Cardinality(of)
    BY <1>1, <1>3
  <2> QED
    BY <2>1, <2>2
<1>7. TypeOK'
  <2>1. (entries \in [Index -> Holding \cup {FREE}])'
    BY <1>4
  <2>2. (kept \in [Pairs -> Nat])'
    BY <1>1, <1>6
  <2> QED
    BY <2>1, <2>2, <1>1, CapacityPositive DEF TypeOK
<1>8. Counted'
  <2>1. Cardinality(Used') = 0
    BY <1>5, FS_EmptySet
  <2>2. ASSUME NEW p \in Pairs
        PROVE  kept'[p] = Cardinality({i \in Used' : PairOf(entries'[i]) = p})
    <3>1. {i \in Used' : PairOf(entries'[i]) = p} = {}
      BY <1>5
    <3> QED
      BY <3>1, <1>6, FS_EmptySet
  <2>3. size' = Cardinality(Used') + (IF Idle' THEN 0 ELSE 1)
    BY <2>1, <1>1, <1>2
  <2> QED
    BY <2>2, <2>3 DEF Counted
<1>9. NoGap' /\ Order' /\ Scanning'
  BY <1>2, <1>5, CapacityPositive DEF NoGap, Order, Anchor, OneGap, Scanning
<1> QED
  BY <1>7, <1>8, <1>9

LEMMA StutterKeeps == ASSUME IInv, UNCHANGED vars PROVE IInv'
<1>1. UNCHANGED <<entries, size, kept, start, hole, at, stop, tidy>>
  BY DEF vars, removing
<1>2. Used' = Used /\ Idle' = Idle
  BY <1>1 DEF Used, IsFree, Idle
<1>3. TypeOK' /\ Counted' /\ Scanning'
  BY <1>1, <1>2 DEF IInv, TypeOK, Counted, Scanning, IsFree, Passed
<1>4. (Idle /\ tidy => NoGap)'
  BY <1>1, <1>2 DEF IInv, NoGap, Path
<1>5. Order'
  BY <1>1, <1>2 DEF IInv, Order, Anchor, OneGap, Path, Passed
<1> QED
  BY <1>3, <1>4, <1>5 DEF IInv

LEMMA StepKeeps == ASSUME IInv, [Next]_vars PROVE IInv'
BY InsertKeeps, RemoveKeeps, MoveKeeps, SkipKeeps, RemovedKeeps, ClearKeeps, StutterKeeps
   DEF Next
-----------------------------------------------------------------------------
(***************************************************************************)
(* Walks.  The rank of an entry is how many entries in use come before it. *)
(***************************************************************************)
Earlier(i) == {j \in Used : j < i}
Later(i)   == {j \in Used : j > i}
Rank(i)    == Cardinality(Earlier(i))

LEMMA UsedFinite ==
  ASSUME TypeOK, NEW S \in SUBSET Used
  PROVE  IsFiniteSet(S) /\ Cardinality(S) \in Nat /\ S \in SUBSET Nat /\ S \in SUBSET Index
<1>1. S \in SUBSET Index
  BY DEF Used
<1>2. Index \in SUBSET Nat
  BY CapacityPositive DEF Index
<1> QED
  BY <1>1, <1>2, IndexSubsets, CapacityPositive

LEMMA Ranks ==
  ASSUME TypeOK, NEW i \in Used
  PROVE  /\ Rank(i) \in Nat
         /\ Cardinality(Used) = Rank(i) + 1 + Cardinality(Later(i))
         /\ Later(i) # {} => /\ First(Later(i)) \in Later(i)
                            /\ Rank(First(Later(i))) = Rank(i) + 1
<1> DEFINE E == Earlier(i)
           L == Later(i)
<1>1. /\ E \in SUBSET Used /\ L \in SUBSET Used /\ E \cup {i} \in SUBSET Used
      /\ i \notin E /\ i \notin L /\ E \cap L = {}
  <2>1. \A j \in Used : j \in Int
    BY UsedFinite
  <2>2. i \in Int /\ ~ (i < i) /\ \A j \in Used : ~ (j < i /\ j > i)
    BY <2>1
  <2>3. E \subseteq Used /\ L \subseteq Used
    BY DEF Earlier, Later
  <2>4. i \notin E /\ i \notin L /\ E \cap L = {}
    BY <2>2 DEF Earlier, Later
  <2> QED
    BY <2>3, <2>4
<1>2. /\ IsFiniteSet(E) /\ IsFiniteSet(L) /\ IsFiniteSet(E \cup {i}) /\ L \in SUBSET Nat
      /\ Cardinality(E) \in Nat /\ Cardinality(L) \in Nat
  BY <1>1, UsedFinite
<1>3. Cardinality(E \cup {i}) = Rank(i) + 1
  BY <1>1, <1>2, FS_AddElement DEF Rank
<1>4. Used = (E \cup {i}) \cup L /\ (E \cup {i}) \cap L = {}
  <2>1. \A j \in Used : j \in Nat
    BY UsedFinite
  <2>2. \A j \in Used : j < i \/ j = i \/ j > i
    BY <2>1
  <2>3. Used \subseteq (E \cup {i}) \cup L
    BY <2>2 DEF Earlier, Later
  <2> QED
    BY <1>1, <2>3
<1>5. Cardinality(Used) = Rank(i) + 1 + Cardinality(L)
  <2>1. Cardinality((E \cup {i}) \cup L) =
          Cardinality(E \cup {i}) + Cardinality(L) - Cardinality((E \cup {i}) \cap L)
    BY <1>2, FS_Union
  <2>2. Cardinality((E \cup {i}) \cap L) = 0
    BY <1>4, FS_EmptySet
  <2>3. Cardinality(Used) = Cardinality((E \cup {i}) \cup L)
    BY <1>4
  <2> HIDE DEF E, L
  <2> QED
    BY <1>2, <1>3, <2>1, <2>2, <2>3 DEF Rank
<1>6. ASSUME L # {}
      PROVE  First(L) \in L /\ Rank(First(L)) = Rank(i) + 1
  <2>1. First(L) \in L /\ \A j \in L : First(L) <= j
    BY <1>2, <1>6, FirstExists
  <2>2. PICK f : f = First(L)
    OBVIOUS
  <2>3. f \in Used /\ f > i /\ \A j \in Used : j > i => f <= j
    BY <2>1, <2>2 DEF Later
  <2>4. Used \in SUBSET Nat
    BY UsedFinite
  <2>5. ASSUME NEW j \in Used
        PROVE  j < f <=> j < i \/ j = i
    BY <2>3, <2>4
  <2>6. Earlier(f) = E \cup {i}
    BY <1>1, <2>5 DEF Earlier
  <2> QED
    BY <1>3, <2>1, <2>2, <2>6 DEF Rank
<1> QED
  BY <1>2, <1>5, <1>6 DEF Rank

\* No two entries have one rank.
LEMMA RankOnce ==
  ASSUME TypeOK, NEW i \in Used, NEW j \in Used, Rank(i) = Rank(j)
  PROVE  i = j
<1>1. ASSUME NEW k \in Used, NEW l \in Used, k < l PROVE Rank(k) < Rank(l)
  <2>1. \A j1 \in Used : j1 \in Int
    BY UsedFinite
  <2>2. Earlier(k) \cup {k} \subseteq Earlier(l) /\ k \notin Earlier(k)
    <3>1. ~ (k < k) /\ \A j1 \in Used : j1 < k => j1 < l
      BY <1>1, <2>1
    <3> QED
      BY <1>1, <3>1 DEF Earlier
  <2>3. Earlier(k) \in SUBSET Used /\ Earlier(l) \in SUBSET Used
    BY DEF Earlier
  <2>4. /\ IsFiniteSet(Earlier(k)) /\ IsFiniteSet(Earlier(l))
        /\ Rank(k) \in Nat /\ Rank(l) \in Nat
    BY <2>3, UsedFinite DEF Rank
  <2>5. Cardinality(Earlier(k) \cup {k}) = Rank(k) + 1
    BY <2>2, <2>4, FS_AddElement DEF Rank
  <2>6. Cardinality(Earlier(k) \cup {k}) <= Rank(l)
    BY <2>2, <2>4, FS_Subset DEF Rank
  <2> QED
    BY <2>4, <2>5, <2>6
<1>2. i \in Nat /\ j \in Nat
  <2>1. Used \in SUBSET Nat
    BY UsedFinite
  <2> QED
    BY <2>1
<1>3. Rank(i) \in Nat /\ Rank(j) \in Nat
  BY Ranks
<1>4. ~ (i < j) /\ ~ (j < i)
  BY <1>1, <1>3
<1> QED
  BY <1>2, <1>4

\* The first entry in use has rank 0.
LEMMA FirstRank ==
  ASSUME TypeOK, Used # {}
  PROVE  First(Used) \in Used /\ Rank(First(Used)) = 0
<1>1. Used \in SUBSET Nat
  BY UsedFinite
<1>2. First(Used) \in Used /\ \A j \in Used : First(Used) <= j
  BY <1>1, FirstExists
<1>3. \A j \in Used : ~ (j < First(Used))
  <2>1. PICK f \in Used : f = First(Used)
    BY <1>2
  <2>2. \A j \in Used : j \in Int
    BY <1>1
  <2>3. \A j \in Used : f <= j
    BY <1>2, <2>1
  <2>4. \A j \in Used : ~ (j < f)
    BY <2>2, <2>3
  <2> QED
    BY <2>1, <2>4
<1>4. Earlier(First(Used)) = {}
  BY <1>3 DEF Earlier
<1> QED
  BY <1>2, <1>4, FS_EmptySet DEF Rank

\* There is an entry of every rank below the number of those in use.
LEMMA RankExists ==
  ASSUME TypeOK, NEW n \in 0 .. Cardinality(Used) - 1
  PROVE  \E i \in Used : Rank(i) = n
<1> DEFINE s == Cardinality(Used)
           Missing == {m \in 0 .. s - 1 : ~ \E i \in Used : Rank(i) = m}
<1>1. s \in Nat
  BY UsedFinite
<1>2. Used # {}
  BY <1>1, FS_EmptySet
<1>3. ASSUME Missing # {} PROVE FALSE
  <2>1. Missing \in SUBSET Nat
    BY <1>1
  <2>2. PICK m \in Missing : \A l \in Missing : m <= l
    BY <1>3, <2>1, FirstExists
  <2>3. m # 0
    BY <1>2, <2>2, FirstRank
  <2>4. m \in 0 .. s - 1 /\ m - 1 \in 0 .. s - 1 /\ m - 1 \notin Missing
    BY <1>1, <2>2, <2>3
  <2>5. PICK i \in Used : Rank(i) = m - 1
    BY <2>4
  <2> HIDE DEF s
  <2>6. s = (m - 1) + 1 + Cardinality(Later(i))
    BY <2>5, Ranks DEF s
  <2>7. Later(i) # {}
    <3> SUFFICES ASSUME Later(i) = {} PROVE FALSE
      OBVIOUS
    <3>1. Cardinality(Later(i)) = 0
      BY FS_EmptySet
    <3> QED
      BY <1>1, <2>4, <2>6, <3>1
  <2>8. First(Later(i)) \in Used /\ Rank(First(Later(i))) = m
    BY <2>4, <2>5, <2>7, Ranks DEF Later
  <2> QED
    BY <2>2, <2>8
<1> QED
  BY <1>3

\* What the recursive function in WalksAll satisfies, and what it is.
Walk(w) ==
  w = [n \in 0 .. Capacity |-> IF n = 0 THEN FirstEntry ELSE NextFrom(w[n - 1])]

ByRank ==
  [n \in 0 .. Capacity |->
     IF n < Cardinality(Used) THEN CHOOSE i \in Used : Rank(i) = n ELSE OUTSIDE]

LEMMA WalkOnce ==
  ASSUME NEW f, NEW g, Walk(f), Walk(g)
  PROVE  f = g
<1> DEFINE Differ == {n \in 0 .. Capacity : f[n] # g[n]}
<1>1. ASSUME Differ # {} PROVE FALSE
  <2>1. Differ \in SUBSET Nat
    BY CapacityPositive
  <2>2. PICK n \in Differ : \A m \in Differ : n <= m
    BY <1>1, <2>1, FirstExists
  <2>3. /\ f[n] = IF n = 0 THEN FirstEntry ELSE NextFrom(f[n - 1])
        /\ g[n] = IF n = 0 THEN FirstEntry ELSE NextFrom(g[n - 1])
    BY DEF Walk
  <2>4. n # 0 => n - 1 \in 0 .. Capacity /\ n - 1 \notin Differ
    BY <2>2, CapacityPositive
  <2> QED
    BY <2>2, <2>3, <2>4
<1>2. \A n \in 0 .. Capacity : f[n] = g[n]
  BY <1>1
<1>3. /\ f = [n \in 0 .. Capacity |-> f[n]]
      /\ g = [n \in 0 .. Capacity |-> g[n]]
  BY DEF Walk
<1> HIDE DEF Differ
<1> QED
  BY <1>2, <1>3

LEMMA RankedEntry ==
  ASSUME TypeOK, NEW n \in 0 .. Cardinality(Used) - 1
  PROVE  /\ n \in 0 .. Capacity
         /\ ByRank[n] \in Used /\ Rank(ByRank[n]) = n
<1>1. Cardinality(Used) \in 0 .. Capacity
  BY UsedFinite, IndexSubsets
<1>2. n \in 0 .. Capacity /\ n < Cardinality(Used)
  BY <1>1, CapacityPositive
<1>3. ByRank[n] = CHOOSE i \in Used : Rank(i) = n
  BY <1>2 DEF ByRank
<1> QED
  BY <1>2, <1>3, RankExists

LEMMA WalkIsByRank ==
  ASSUME TypeOK, size = Cardinality(Used), size # 0
  PROVE  Walk(ByRank)
<1>1. size \in 0 .. Capacity /\ size \in Nat
  BY IndexSubsets, UsedFinite DEF Used
<1>2. \A j \in Used : j \in Nat /\ j < Capacity
  BY CapacityPositive DEF Used, Index
<1>3. \A n \in 0 .. Capacity : ~ (n < size) => ByRank[n] = OUTSIDE
  BY DEF ByRank
<1>4. \A i : NextFrom(i) = IF Later(i) = {} THEN OUTSIDE ELSE First(Later(i))
  BY DEF NextFrom, Later
<1>5. ByRank[0] = FirstEntry
  <2>1. Used # {}
    BY <1>1, FS_EmptySet
  <2>2. 0 \in 0 .. Cardinality(Used) - 1
    BY <1>1
  <2>3. ByRank[0] = First(Used)
    BY <2>1, <2>2, FirstRank, RankedEntry, RankOnce
  <2>4. \A j \in Used : j > -1
    BY <1>2
  <2>5. Later(-1) = Used
    BY <2>4 DEF Later
  <2> QED
    BY <1>4, <2>1, <2>3, <2>5 DEF FirstEntry
<1>6. ASSUME NEW n \in 1 .. Capacity
      PROVE  ByRank[n] = NextFrom(ByRank[n - 1])
  <2>1. n \in Nat /\ n - 1 \in 0 .. Capacity /\ n \in 0 .. Capacity /\ n # 0
    BY CapacityPositive
  <2>2. CASE n <= size
    <3>1. PICK i : i = ByRank[n - 1]
      OBVIOUS
    <3>2. n - 1 \in 0 .. Cardinality(Used) - 1
      BY <1>1, <2>1, <2>2
    <3>3. i \in Used /\ Rank(i) = n - 1
      BY <3>1, <3>2, RankedEntry
    <3>4. size = n + Cardinality(Later(i))
      BY <2>1, <3>3, Ranks
    <3>5. Later(i) \in SUBSET Used
      BY DEF Later
    <3>6. Cardinality(Later(i)) \in Nat /\ (Cardinality(Later(i)) = 0 <=> Later(i) = {})
      BY <3>5, UsedFinite, FS_EmptySet
    <3>7. CASE n = size
      <4>1. Later(i) = {}
        BY <2>1, <3>4, <3>6, <3>7
      <4>2. ByRank[n] = OUTSIDE
        BY <1>3, <2>1, <3>7
      <4> QED
        BY <1>4, <3>1, <4>1, <4>2
    <3>8. CASE n < size
      <4>1. Later(i) # {}
        BY <2>1, <3>4, <3>6, <3>8
      <4>2. First(Later(i)) \in Used /\ Rank(First(Later(i))) = n
        BY <2>1, <3>3, <3>5, <4>1, Ranks
      <4>3. n \in 0 .. Cardinality(Used) - 1
        BY <1>1, <2>1, <3>8
      <4>4. ByRank[n] = First(Later(i))
        BY <4>2, <4>3, RankedEntry, RankOnce
      <4> QED
        BY <1>4, <3>1, <4>1, <4>4
    <3> QED
      BY <1>1, <2>1, <2>2, <3>7, <3>8
  <2>3. CASE n > size
    <3>1. ByRank[n] = OUTSIDE /\ ByRank[n - 1] = OUTSIDE
      <4>1. ~ (n < size) /\ ~ (n - 1 < size)
        BY <1>1, <2>1, <2>3
      <4> QED
        BY <1>3, <2>1, <4>1
    <3>2. \A j \in Used : ~ (j > Capacity)
      BY <1>2, CapacityPositive
    <3>3. Later(OUTSIDE) = {}
      BY <3>2 DEF Later, OUTSIDE
    <3> QED
      BY <1>4, <3>1, <3>3
  <2> QED
    BY <1>1, <2>1, <2>2, <2>3
<1>7. \A n \in 0 .. Capacity : n # 0 => n \in 1 .. Capacity
  BY CapacityPositive
<1>8. \A n \in 0 .. Capacity :
        ByRank[n] = IF n = 0 THEN FirstEntry ELSE NextFrom(ByRank[n - 1])
  BY <1>5, <1>6, <1>7
<1>9. ByRank = [n \in 0 .. Capacity |-> ByRank[n]]
  BY DEF ByRank
<1> QED
  BY <1>8, <1>9 DEF Walk

\* The walk comes to the entry of rank n in its n-th step.
LEMMA RankOfStep ==
  ASSUME TypeOK, NEW i \in Used
  PROVE  Rank(i) \in 0 .. Cardinality(Used) - 1 /\ ByRank[Rank(i)] = i
<1>1. Later(i) \in SUBSET Used
  BY DEF Later
<1>2. /\ Rank(i) \in Nat /\ Cardinality(Later(i)) \in Nat
      /\ Cardinality(Used) = Rank(i) + 1 + Cardinality(Later(i))
  BY <1>1, Ranks, UsedFinite
<1>3. Rank(i) \in 0 .. Cardinality(Used) - 1
  BY <1>2
<1> QED
  BY <1>3, RankedEntry, RankOnce

\* The steps in which the walk comes to a pair are as many as its entries.
VisitsOf(p) ==
  {n \in 0 .. size - 1 : ByRank[n] \in Used /\ PairOf(entries[ByRank[n]]) = p}

LEMMA PairVisits ==
  ASSUME TypeOK, Counted, size = Cardinality(Used), NEW p \in Pairs
  PROVE  Cardinality(VisitsOf(p)) = kept[p]
<1> DEFINE of == {i \in Used : PairOf(entries[i]) = p}
           rank == [i \in of |-> Rank(i)]
<1>1. rank \in [of -> VisitsOf(p)]
  BY RankOfStep DEF VisitsOf
<1>2. \A i, j \in of : rank[i] = rank[j] => i = j
  BY RankOnce
<1>3. \A n \in VisitsOf(p) : \E i \in of : rank[i] = n
  <2> SUFFICES ASSUME NEW n \in VisitsOf(p) PROVE \E i \in of : rank[i] = n
    OBVIOUS
  <2>1. n \in 0 .. Cardinality(Used) - 1 /\ ByRank[n] \in of
    BY DEF VisitsOf
  <2>2. Rank(ByRank[n]) = n
    BY <2>1, RankedEntry
  <2> QED
    BY <2>1, <2>2
<1>4. rank \in Bijection(of, VisitsOf(p))
  BY <1>1, <1>2, <1>3 DEF Bijection, Injection, Surjection, IsInjective
<1>5. ExistsBijection(of, VisitsOf(p))
  BY <1>4 DEF ExistsBijection
<1> HIDE DEF of
<1>6. IsFiniteSet(of) /\ kept[p] = Cardinality(of)
  BY PairCounts DEF of
<1> QED
  BY <1>5, <1>6, FS_Bijection

LEMMA WalkVisits == ASSUME TypeOK, Counted PROVE WalksAll
<1> DEFINE walk == CHOOSE w : Walk(w)
           Visits(p) ==
             {n \in 0 .. size - 1 : walk[n] \in Used /\ PairOf(entries[walk[n]]) = p}
<1>1. WalksAll <=>
        (Idle /\ size # 0 => \A p \in Pairs : Cardinality(Visits(p)) = kept[p])
  BY DEF WalksAll, Walk
<1> SUFFICES ASSUME Idle, size # 0, NEW p \in Pairs
             PROVE  Cardinality(Visits(p)) = kept[p]
  BY <1>1
<1>2. size = Cardinality(Used)
  <2>1. Cardinality(Used) \in Nat
    BY UsedFinite
  <2> QED
    BY <2>1 DEF Counted
<1>3. walk = ByRank
  <2>1. Walk(ByRank)
    BY <1>2, WalkIsByRank
  <2>2. Walk(walk)
    BY <2>1
  <2> QED
    BY <2>1, <2>2, WalkOnce
<1>4. Visits(p) = VisitsOf(p)
  BY <1>3 DEF VisitsOf
<1> HIDE DEF Visits
<1> QED
  BY <1>2, <1>4, PairVisits

-----------------------------------------------------------------------------
(***************************************************************************)
(* Theorems.                                                               *)
(***************************************************************************)
\* The table, the count of its entries and the removal that is going on stay
\* well formed, and while every removal has been right the hole it leaves is the
\* only gap in the way of a lookup.
THEOREM MapInvariant == Spec => []IInv
<1>1. Init => IInv
  BY InitKeeps
<1>2. IInv /\ [Next]_vars => IInv'
  BY StepKeeps
<1> QED
  BY <1>1, <1>2, PTL DEF Spec

\* size is the number of entries in use, and every pair that was inserted and
\* not cleaned up is in the table exactly as often as it was inserted, for every
\* capacity and hash function, whether or not the removals were right.
THEOREM MapCounted == Spec => []Counted
<1>1. IInv => Counted
  BY DEF IInv
<1> QED
  BY <1>1, MapInvariant, PTL

\* As long as delete has moved exactly the entries with the hole on their path,
\* a lookup finds every key in the table and no other.  So the comparison in
\* delete is the only reason for which a lookup can miss a key.
THEOREM MapFindable == Spec => []Findable
<1>1. IInv => Findable
  BY NoGapFinds DEF IInv, Findable
<1> QED
  BY <1>1, MapInvariant, PTL

\* Whatever was inserted, removed and cleared, in any order, a walk with
\* cmap_first and cmap_next comes in size steps to each pair that is left, as
\* often as it is in the table, also where a lookup would not find it.
THEOREM MapWalksAll == Spec => []WalksAll
<1>1. IInv => WalksAll
  BY WalkVisits DEF IInv
<1> QED
  BY <1>1, MapInvariant, PTL
=============================================================================
