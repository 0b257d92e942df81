------------------------------- MODULE Deque -------------------------------
(***************************************************************************)
(* What lib/clist.h promises: a list that elements can be put into and     *)
(* taken out of at any place.  An element that is popped, removed or       *)
(* cleared is given to the cleanup function; clist_erase leaves it to      *)
(* nobody.  Elements are numbered in the order in which they come.         *)
(***************************************************************************)
EXTENDS Integers, SequencesExt

CONSTANT MaxElems     \* bound: how many elements the client adds

VARIABLES
  items,              \* the elements, in order
  added,              \* how many elements the client has added
  cleaned,            \* the elements given to the cleanup function
  lost                \* the elements erased

vars == <<items, added, cleaned, lost>>

Init == items = <<>> /\ added = 0 /\ cleaned = {} /\ lost = {}

PutAt(i) ==
  /\ added < MaxElems
  /\ items' = InsertAt(items, i, added + 1)
  /\ added' = added + 1
  /\ UNCHANGED <<cleaned, lost>>

TakeAt(i) ==
  /\ items' = RemoveAt(items, i)
  /\ cleaned' = cleaned \cup {items[i]}
  /\ UNCHANGED <<added, lost>>

EraseAt(i) ==
  /\ items' = RemoveAt(items, i)
  /\ lost' = lost \cup {items[i]}
  /\ UNCHANGED <<added, cleaned>>

Clear ==
  /\ items' = <<>>
  /\ cleaned' = cleaned \cup ToSet(items)
  /\ UNCHANGED <<added, lost>>

Next ==
  \/ \E i \in 1 .. Len(items) + 1 : PutAt(i)
  \/ \E i \in DOMAIN items : TakeAt(i) \/ EraseAt(i)
  \/ Clear

Spec == Init /\ [][Next]_vars
=============================================================================
