------------------------------ MODULE CVector ------------------------------
(***************************************************************************)
(* lib/cvector.c: a growing array of elements, as the garbage collector    *)
(* uses it for gc.allocated.  An element is a number; the client adds 1, 2,*)
(* 3, ... (gc_add is given an object it has not seen).  The cells of the   *)
(* array are numbered from 0, as in C; a cell that was never written holds *)
(* GARBAGE, and a cell that the vector no longer uses keeps what it held.  *)
(* Reading or writing outside the array raises fault, and so does calling  *)
(* the cleanup function, which frees the object, on anything but an        *)
(* element that was added and not cleaned up yet.                          *)
(***************************************************************************)
EXTENDS Integers, Sequences

CONSTANTS
  MaxElems,      \* bound: how many elements the client adds
  CapacityHint,  \* the capacity asked of cvec_init; 0 asks for the default
  Default,       \* DEFAULT_CAPACITY
  MidInsert      \* whether the client calls cvec_insert before the end

ASSUME VectorAssumption ==
  /\ MaxElems \in Nat
  /\ CapacityHint \in Nat
  /\ Default \in Nat \ {0}
  /\ MidInsert \in BOOLEAN

GARBAGE == 0

VARIABLES
  elems,         \* the array
  nelems,
  capacity,
  kept, removed, \* num_kept and num_removed of cvec_filter
  state,         \* "ready", "filter" while cvec_filter runs, or "disposed"
  added,         \* how many elements the client has added
  cleaned,       \* the elements the cleanup function was called on
  fault

vars == <<elems, nelems, capacity, kept, removed, state, added, cleaned, fault>>

New == added + 1
Room == added < MaxElems
Ready == state = "ready" /\ ~ fault

Read(i) == IF i \in DOMAIN elems THEN elems[i] ELSE GARBAGE

\* The elements that one may call the cleanup function on.
Sane(S) == S \subseteq (1 .. added) \ cleaned

Init ==
  /\ capacity = IF CapacityHint > 0 THEN CapacityHint ELSE Default
  /\ elems = [i \in 0 .. capacity - 1 |-> GARBAGE]
  /\ nelems = 0
  /\ kept = 0 /\ removed = 0
  /\ state = "ready"
  /\ added = 0
  /\ cleaned = {}
  /\ fault = FALSE

\* A mistake: the array grows one element too late.
FullTooLate == capacity < nelems

\* The array with room for one more element: cvec_double_size if it is full.
Full == capacity = nelems
NewCapacity == IF Full THEN 2 * capacity ELSE capacity
Grown == [i \in 0 .. NewCapacity - 1 |-> Read(i)]

\* cvec_append
AppendElem ==
  /\ Ready /\ Room
  /\ capacity' = NewCapacity
  /\ elems' = [Grown EXCEPT ![nelems] = New]
  /\ nelems' = nelems + 1
  /\ added' = New
  /\ fault' = (nelems \notin DOMAIN Grown)
  /\ UNCHANGED <<kept, removed, state, cleaned>>

\* cvec_insert: from the last cell down to the one after index, each cell is
\* copied into the one before it.
Insert(index) ==
  /\ Ready /\ Room
  /\ index \in 0 .. nelems
  /\ MidInsert \/ index = nelems
  /\ capacity' = NewCapacity
  /\ elems' = [i \in DOMAIN Grown |->
                 IF i = index THEN New
                 ELSE IF i \in index .. nelems - 1 THEN Grown[nelems]
                 ELSE Grown[i]]
  /\ nelems' = nelems + 1
  /\ added' = New
  /\ fault' = (nelems \notin DOMAIN Grown)
  /\ UNCHANGED <<kept, removed, state, cleaned>>

\* cvec_replace
Replace(index) ==
  /\ Ready /\ Room
  /\ index \in 0 .. nelems - 1
  /\ elems' = [elems EXCEPT ![index] = New]
  /\ added' = New
  /\ cleaned' = cleaned \cup {Read(index)}
  /\ fault' = ~ (index \in DOMAIN elems /\ Sane({Read(index)}))
  /\ UNCHANGED <<nelems, capacity, kept, removed, state>>

\* A mistake: the last element is not moved down.
RemoveLeavesLast(index) ==
  /\ Ready
  /\ index \in 0 .. nelems - 1
  /\ elems' = [i \in DOMAIN elems |->
                 IF i \in index .. nelems - 3 THEN Read(i + 1) ELSE elems[i]]
  /\ nelems' = nelems - 1
  /\ cleaned' = cleaned \cup {Read(index)}
  /\ fault' = ~ (0 .. nelems - 1 \subseteq DOMAIN elems /\ Sane({Read(index)}))
  /\ UNCHANGED <<capacity, kept, removed, state, added>>

\* A mistake: the last element is put in the place of the one removed.
RemoveSwaps(index) ==
  /\ Ready
  /\ index \in 0 .. nelems - 1
  /\ elems' = [elems EXCEPT ![index] = Read(nelems - 1)]
  /\ nelems' = nelems - 1
  /\ cleaned' = cleaned \cup {Read(index)}
  /\ fault' = ~ (0 .. nelems - 1 \subseteq DOMAIN elems /\ Sane({Read(index)}))
  /\ UNCHANGED <<capacity, kept, removed, state, added>>

\* cvec_remove: the elements after index move down, one by one.
Remove(index) ==
  /\ Ready
  /\ index \in 0 .. nelems - 1
  /\ elems' = [i \in DOMAIN elems |->
                 IF i \in index .. nelems - 2 THEN Read(i + 1) ELSE elems[i]]
  /\ nelems' = nelems - 1
  /\ cleaned' = cleaned \cup {Read(index)}
  /\ fault' = ~ (0 .. nelems - 1 \subseteq DOMAIN elems /\ Sane({Read(index)}))
  /\ UNCHANGED <<capacity, kept, removed, state, added>>

\* A mistake: the vector is not empty after it was cleared.
ClearKeepsCount(next) ==
  LET held == {Read(i) : i \in 0 .. nelems - 1} IN
  /\ Ready
  /\ cleaned' = cleaned \cup held
  /\ state' = next
  /\ fault' = ~ Sane(held)
  /\ UNCHANGED <<elems, nelems, capacity, kept, removed, added>>

\* cvec_clear, and cvec_dispose, which clears the vector and frees the array.
Clear(next) ==
  LET held == {Read(i) : i \in 0 .. nelems - 1} IN
  /\ Ready
  /\ cleaned' = cleaned \cup held
  /\ nelems' = 0
  /\ state' = next
  /\ fault' = ~ (/\ 0 .. nelems - 1 \subseteq DOMAIN elems
                 /\ Sane(held)
                 /\ \A i, j \in 0 .. nelems - 1 : i # j => Read(i) # Read(j))
  /\ UNCHANGED <<elems, capacity, kept, removed, added>>
-----------------------------------------------------------------------------
\* cvec_filter, one turn of its loop a step.  The predicate is the client's:
\* it may accept an element (is_reachable) or not.
Filter ==
  /\ Ready
  /\ state' = "filter"
  /\ kept' = 0 /\ removed' = 0
  /\ UNCHANGED <<elems, nelems, capacity, added, cleaned, fault>>

Filtering == state = "filter" /\ ~ fault
remaining == kept + removed

\* A mistake: what is kept stays where it is.
FilterKeepInPlace ==
  /\ Filtering
  /\ remaining < nelems
  /\ kept' = kept + 1
  /\ fault' = ~ ({kept, remaining} \subseteq DOMAIN elems)
  /\ UNCHANGED <<elems, nelems, capacity, removed, state, added, cleaned>>

FilterKeep ==
  /\ Filtering
  /\ remaining < nelems
  /\ elems' = IF removed > 0 THEN [elems EXCEPT ![kept] = Read(remaining)]
                             ELSE elems
  /\ kept' = kept + 1
  /\ fault' = ~ ({kept, remaining} \subseteq DOMAIN elems)
  /\ UNCHANGED <<nelems, capacity, removed, state, added, cleaned>>

FilterDrop ==
  /\ Filtering
  /\ remaining < nelems
  /\ cleaned' = cleaned \cup {Read(remaining)}
  /\ removed' = removed + 1
  /\ fault' = ~ (remaining \in DOMAIN elems /\ Sane({Read(remaining)}))
  /\ UNCHANGED <<elems, nelems, capacity, kept, state, added>>

\* A mistake: without anything to remove the filter is not ended.
FilterEndRemoved ==
  /\ Filtering
  /\ remaining = nelems /\ removed > 0
  /\ nelems' = kept
  /\ kept' = 0 /\ removed' = 0
  /\ state' = "ready"
  /\ UNCHANGED <<elems, capacity, added, cleaned, fault>>

FilterEnd ==
  /\ Filtering
  /\ remaining = nelems
  /\ nelems' = kept
  /\ kept' = 0 /\ removed' = 0
  /\ state' = "ready"
  /\ UNCHANGED <<elems, capacity, added, cleaned, fault>>

Next ==
  \/ AppendElem
  \/ \E index \in 0 .. nelems : Insert(index) \/ Replace(index) \/ Remove(index)
  \/ Clear("ready") \/ Clear("disposed")
  \/ Filter \/ FilterKeep \/ FilterDrop \/ FilterEnd

\* A call that has begun goes on.
Fairness == WF_vars(FilterKeep \/ FilterDrop) /\ WF_vars(FilterEnd)

Spec == Init /\ [][Next]_vars
FairSpec == Spec /\ Fairness
-----------------------------------------------------------------------------
(***************************************************************************)
(* Properties.                                                             *)
(***************************************************************************)
\* What the vector holds: in the course of a filter, what was kept and what
\* has not been looked at.
Count == nelems - removed
Items == [i \in 1 .. Count |->
            IF i <= kept THEN elems[i - 1] ELSE elems[i - 1 + removed]]

TypeOK ==
  /\ capacity \in Nat \ {0}
  /\ elems \in [0 .. capacity - 1 -> Nat]
  /\ nelems \in Nat /\ nelems <= capacity
  /\ kept \in Nat /\ removed \in Nat
  /\ remaining <= nelems
  /\ state \in {"ready", "filter", "disposed"}
  /\ state # "filter" => remaining = 0
  /\ added \in Nat
  /\ cleaned \subseteq Nat
  /\ fault \in BOOLEAN

\* The vector stays within its array and the cleanup function is never called
\* on an element that was cleaned up before, or on memory that holds none.
NoFault == ~ fault

\* Every element the client added is held or was cleaned up, and not both:
\* gc.allocated forgets no object.
NothingForgotten == {Items[i] : i \in 1 .. Count} = (1 .. added) \ cleaned

\* No element is held twice: freeing what the vector holds frees each once.
HeldOnce == \A i, j \in 1 .. Count : i # j => Items[i] # Items[j]

List == INSTANCE ElementList
          WITH items     <- Items,
               undecided <- IF state = "filter" THEN nelems - remaining ELSE 0

\* The array implements the list of elements that cvector.h describes.
ImplementsList == List!Spec

\* cvec_filter returns.
FilterReturns == state = "filter" ~> state = "ready"
=============================================================================
