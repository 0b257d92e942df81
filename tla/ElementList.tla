---------------------------- MODULE ElementList ----------------------------
(***************************************************************************)
(* What lib/cvector.h promises: a vector is a list of elements; an element *)
(* leaves it only by remove, replace, clear or filter, and the client's    *)
(* cleanup function is called on it then, once.  While a filter is going   *)
(* on the last `undecided` elements have not been shown to the predicate.  *)
(*                                                                         *)
(* Elements are numbered in the order in which the client adds them.       *)
(***************************************************************************)
EXTENDS Integers, Sequences

CONSTANT MaxElems     \* bound: how many elements the client adds

VARIABLES
  items,              \* the elements, in order
  added,              \* how many elements the client has added
  cleaned,            \* the elements the cleanup function was called on
  undecided,          \* elements the predicate has still to see
  state               \* "ready", "filter" or "disposed"

vars == <<items, added, cleaned, undecided, state>>

New == added + 1

Elements == {items[i] : i \in DOMAIN items}

\* The sequence s without its i-th element.
Without(s, i) == [j \in 1 .. Len(s) - 1 |-> IF j < i THEN s[j] ELSE s[j + 1]]

Init ==
  /\ items = <<>>
  /\ added = 0
  /\ cleaned = {}
  /\ undecided = 0
  /\ state = "ready"

Add ==
  /\ state = "ready"
  /\ added < MaxElems
  /\ items' = Append(items, New)
  /\ added' = New
  /\ UNCHANGED <<cleaned, undecided, state>>

Replace(i) ==
  /\ state = "ready"
  /\ added < MaxElems
  /\ items' = [items EXCEPT ![i] = New]
  /\ added' = New
  /\ cleaned' = cleaned \cup {items[i]}
  /\ UNCHANGED <<undecided, state>>

Remove(i) ==
  /\ state = "ready"
  /\ items' = Without(items, i)
  /\ cleaned' = cleaned \cup {items[i]}
  /\ UNCHANGED <<added, undecided, state>>

Clear(next) ==
  /\ state = "ready"
  /\ items' = <<>>
  /\ cleaned' = cleaned \cup Elements
  /\ state' = next
  /\ UNCHANGED <<added, undecided>>

Filter ==
  /\ state = "ready"
  /\ undecided' = Len(items)
  /\ state' = "filter"
  /\ UNCHANGED <<items, added, cleaned>>

\* The predicate accepts the first element it has not seen, or refuses it.
Keep ==
  /\ state = "filter"
  /\ undecided > 0
  /\ undecided' = undecided - 1
  /\ UNCHANGED <<items, added, cleaned, state>>

Drop ==
  LET i == Len(items) - undecided + 1 IN
  /\ state = "filter"
  /\ undecided > 0
  /\ items' = Without(items, i)
  /\ cleaned' = cleaned \cup {items[i]}
  /\ undecided' = undecided - 1
  /\ UNCHANGED <<added, state>>

Filtered ==
  /\ state = "filter"
  /\ undecided = 0
  /\ state' = "ready"
  /\ UNCHANGED <<items, added, cleaned, undecided>>

Next ==
  \/ Add
  \/ \E i \in DOMAIN items : Replace(i) \/ Remove(i)
  \/ Clear("ready") \/ Clear("disposed")
  \/ Filter \/ Keep \/ Drop \/ Filtered

Spec == Init /\ [][Next]_vars
=============================================================================
