-------------------------------- MODULE CMap --------------------------------
(***************************************************************************)
(* lib/cmap.c: a hash table with open addressing and linear probing.  The  *)
(* key of an entry is looked for from the entry at the key's hash on,      *)
(* round the table, up to the first free entry.                            *)
(***************************************************************************)
EXTENDS Integers, FiniteSets

CONSTANTS
  Capacity,      \* how many entries the table has
  Keys, Values,
  Hash           \* the hash function

ASSUME MapAssumption ==
  /\ Capacity \in Nat \ {0}
  /\ Hash \in [Keys -> Nat]

VARIABLES
  entries,       \* the table: entries[i] is FREE or holds a key and its value
  size,
  kept,          \* how often each pair was inserted and not cleaned up
  start, hole, at, stop,   \* the removal that is going on: see Remove
  tidy           \* every removal so far was right: see Right

removing == <<start, hole, at, stop>>
vars == <<entries, size, kept, removing, tidy>>

Index == 0 .. Capacity - 1
Pairs == Keys \X Values

FREE == [hash |-> -1]
Entry(k, v, h) == [key |-> k, value |-> v, hash |-> h]

Holding == {Entry(k, v, Hash[k] % Capacity) : k \in Keys, v \in Values}

IsFree(i) == entries[i] = FREE
Used == {i \in Index : ~ IsFree(i)}

\* The pair an entry holds.
PairOf(e) == <<e.key, e.value>>

Home(k) == Hash[k] % Capacity

\* (from + i) % capacity, for from and i below the capacity
Probe(from, i) == IF from + i < Capacity THEN from + i ELSE from + i - Capacity

\* The i with p = Probe(from, i): how far p is behind from.
Distance(from, p) == IF p >= from THEN p - from ELSE p - from + Capacity

\* The first element of a set of numbers.
First(S) == CHOOSE i \in S : \A j \in S : i <= j
-----------------------------------------------------------------------------
\* The entries that a probing from h on comes to before it comes to i.
Before(h, i) == {p \in Index : Distance(h, p) < Distance(h, i)}

\* Those that a lookup of the entry at i looks at before it comes there.
Path(i) == Before(entries[i].hash, i)

\* lookup_key and lookup_index: the probing goes on past the entries of other
\* keys and ends at a free entry, or when it has gone all the way around.
NONE == -1

Matches(i, k) == ~ IsFree(i) /\ entries[i].hash = Home(k) /\ entries[i].key = k

Stops(k) == {i \in Index : IsFree(Probe(Home(k), i)) \/ Matches(Probe(Home(k), i), k)}

LookupIndex(k) ==
  LET found == Probe(Home(k), First(Stops(k))) IN
  IF Stops(k) = {} \/ IsFree(found) THEN NONE ELSE found

ValueOf(i) == entries[i].value

Lookup(k) ==
  IF size = 0 \/ LookupIndex(k) = NONE THEN {} ELSE {ValueOf(LookupIndex(k))}

\* cmap_first, and cmap_next after the key in entry i: the entry the walk is at
\* next.  cm->end, where cmap_next should stop and return NULL, is never set, so
\* that after the last key the code reads memory behind the table: OUTSIDE.
OUTSIDE == Capacity

\* A mistake: the walk looks at entry i again.
NextFromAgain(i) ==
  LET later == {j \in Used : j >= i} IN IF later = {} THEN OUTSIDE ELSE First(later)

NextFrom(i) ==
  LET later == {j \in Used : j > i} IN IF later = {} THEN OUTSIDE ELSE First(later)

FirstEntry == IF size = 0 THEN NONE ELSE NextFrom(-1)
-----------------------------------------------------------------------------
Idle == hole = NONE

Init ==
  /\ entries = [i \in Index |-> FREE]
  /\ size = 0
  /\ kept = [p \in Pairs |-> 0]
  /\ start = NONE /\ hole = NONE /\ at = NONE /\ stop = NONE
  /\ tidy = TRUE

\* A mistake: the search for a free entry begins behind the hash.
VacantBehind(h) ==
  LET free == {i \in Index : IsFree(Probe(h, i))} IN
  Probe(h, CHOOSE i \in free : \A j \in free : j <= i)

\* The entry for a new key with hash h.
Vacant(h) ==
  LET free == {i \in Index : IsFree(Probe(h, i))} IN
  Probe(h, IF free = {} THEN Capacity - 1 ELSE First(free))

\* cmap_insert puts the pair in even if there is an entry for the key.
Insert(k, v) ==
  /\ Idle
  /\ size # Capacity
  /\ entries' = [entries EXCEPT ![Vacant(Home(k))] = Entry(k, v, Home(k))]
  /\ size' = size + 1
  /\ kept' = [kept EXCEPT ![<<k, v>>] = @ + 1]
  /\ UNCHANGED <<removing, tidy>>

\* cmap_remove erases the entry of the key, at start, and calls delete, which
\* looks at the entries behind it, one in each step until it ends: at is the one
\* it has come to, hole the free entry that it tries to fill, and stop the hash
\* of the entry that was erased.
Remove(k) ==
  LET i == LookupIndex(k) IN
  /\ Idle
  /\ i # NONE
  /\ entries' = [entries EXCEPT ![i] = FREE]
  /\ kept' = [kept EXCEPT ![PairOf(entries[i])] = @ - 1]
  /\ start' = i /\ hole' = i /\ at' = i
  /\ stop' = entries[i].hash
  /\ UNCHANGED <<size, tidy>>

next == Probe(at, 1)

Looking == ~ Idle /\ next # stop /\ ~ IsFree(next)

\* Whether next is moved, and whether it should be: if the hole is on its path.
Moves == entries[next].hash >= hole
Right == Moves <=> hole \in Path(next)

\* A mistake: an entry that is moved stays where it was, too.
MoveLeaves ==
  /\ Looking /\ Moves
  /\ entries' = [entries EXCEPT ![hole] = entries[next]]
  /\ hole' = next /\ at' = next
  /\ tidy' = (tidy /\ Right)
  /\ UNCHANGED <<size, kept, start, stop>>

Move ==
  /\ Looking /\ Moves
  /\ entries' = [entries EXCEPT ![hole] = entries[next], ![next] = FREE]
  /\ hole' = next /\ at' = next
  /\ tidy' = (tidy /\ Right)
  /\ UNCHANGED <<size, kept, start, stop>>

Skip ==
  /\ Looking /\ ~ Moves
  /\ at' = next
  /\ tidy' = (tidy /\ Right)
  /\ UNCHANGED <<entries, size, kept, start, hole, stop>>

\* delete ends at a free entry, or at stop: too early, if the path of an entry
\* that it has not looked at goes through the hole.
Removed ==
  /\ ~ Idle /\ ~ Looking
  /\ size' = size - 1
  /\ start' = NONE /\ hole' = NONE /\ at' = NONE /\ stop' = NONE
  /\ tidy' = (tidy /\ (next = stop /\ stop # start => \A i \in Used : hole \notin Path(i)))
  /\ UNCHANGED <<entries, kept>>

\* The entries that cmap_clear erases: it stops when it has erased size of them.
Cleared ==
  {i \in Used : size = 0 \/ Cardinality({j \in Used : j < i}) < size}

\* cmap_clear, and cmap_dispose, which goes on to free the table
Clear ==
  /\ Idle
  /\ entries' = [i \in Index |-> IF i \in Cleared THEN FREE ELSE entries[i]]
  /\ size' = 0
  /\ kept' = [p \in Pairs |->
                kept[p] - Cardinality({i \in Cleared : PairOf(entries[i]) = p})]
  /\ tidy' = TRUE
  /\ UNCHANGED removing

Next ==
  \/ \E k \in Keys : (\E v \in Values : Insert(k, v)) \/ Remove(k)
  \/ Move \/ Skip \/ Removed
  \/ Clear

Spec == Init /\ [][Next]_vars
-----------------------------------------------------------------------------
(***************************************************************************)
(* Properties.                                                             *)
(***************************************************************************)
\* The hash kept in an entry is the home of its key.
TypeOK ==
  /\ entries \in [Index -> Holding \cup {FREE}]
  /\ size \in 0 .. Capacity
  /\ kept \in [Pairs -> Nat]
  /\ {start, hole, at, stop} \subseteq Index \/ {start, hole, at, stop} = {NONE}
  /\ tidy \in BOOLEAN

\* No free entry comes between an entry and its hash.
NoGap == \A i \in Used : Path(i) \subseteq Used

Of(k) == {i \in Used : entries[i].key = k}

\* A lookup finds the keys that are in the table, and no others.
AllFound ==
  \A k \in Keys :
    IF Of(k) = {} THEN LookupIndex(k) = NONE /\ Lookup(k) = {}
    ELSE LookupIndex(k) \in Of(k) /\ Lookup(k) = {ValueOf(LookupIndex(k))}

\* Lookups are right after insertions, clears and tidy removals, whatever keys
\* share a hash and however the runs of entries go round the end of the table.
Findable == Idle /\ tidy => NoGap /\ AllFound

\* "@return Pointer to the value stored in the hash table.  If there is no such
\* key in the hash table then NULL" (cmap.h:72-73): after any removals a lookup
\* finds every key that is still in the table.
AlwaysFindable == Idle => AllFound

\* size counts the entries in use, and each pair that was inserted is in the
\* table, or was cleaned up, once: moving entries loses and doubles none, also
\* where it hides them from lookups.
Counted ==
  /\ size = Cardinality(Used) + (IF Idle THEN 0 ELSE 1)
  /\ \A p \in Pairs : kept[p] = Cardinality({i \in Used : PairOf(entries[i]) = p})

\* In size steps from cmap_first on, a walk comes to each pair as often as it
\* was inserted and not removed or cleared since: to the pairs of a key that was
\* inserted twice, and to those that a wrong move of delete hides from lookups.
\* The property ends with the last pair and does not say what cmap_next does
\* after it.
WalksAll ==
  LET walk[n \in 0 .. Capacity] ==
        IF n = 0 THEN FirstEntry ELSE NextFrom(walk[n - 1])
      Visits(p) ==
        {n \in 0 .. size - 1 : walk[n] \in Used /\ PairOf(entries[walk[n]]) = p}
  IN Idle /\ size # 0 => \A p \in Pairs : Cardinality(Visits(p)) = kept[p]
=============================================================================
