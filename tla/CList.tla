------------------------------- MODULE CList -------------------------------
(***************************************************************************)
(* lib/clist.c: a doubly linked list.  Nodes are numbered in the order in  *)
(* which they are allocated, and hold the element of that number.          *)
(***************************************************************************)
EXTENDS Integers, SequencesExt

CONSTANT MaxElems     \* bound: how many elements the client adds

ASSUME ListAssumption == MaxElems \in Nat

VARIABLES
  front, back, nelems,
  next, previous,     \* the links of each node
  added,              \* how many nodes have been allocated
  live,               \* those that have not been freed
  dangling            \* erase or remove has taken the node at front or at back

vars == <<front, back, nelems, next, previous, added, live, dangling>>

NULL  == 0
Nodes == 1 .. MaxElems
New   == added + 1

\* if (n) n->link = value
SetLink(links, n, value) == IF n = NULL THEN links ELSE [links EXCEPT ![n] = value]

\* The nodes that one comes to from n, after 0 to k steps along the links, and
\* NULL from there on where these end.
Follow(n, links, k) ==
  LET at[i \in 0 .. k] ==
        IF i = 0 THEN n
        ELSE LET before == at[i - 1] IN IF before = NULL THEN NULL ELSE links[before]
  IN at

\* node_at: the node at place index, from 0
NodeAt(index) == Follow(front, next, nelems)[index]

\* clist_next and clist_prev follow the links, and assert that they lead to a node.
Forward  == [i \in 1 .. nelems |-> NodeAt(i - 1)]
Backward == [i \in 1 .. nelems |-> Follow(back, previous, nelems)[i - 1]]

\* A mistake: the list is counted from 1.
BeforeFromOne(index) == IF index = 0 THEN NULL ELSE NodeAt(index)

\* The node that comes before place index, from 0.
Before(index) == IF index = 0 THEN NULL ELSE NodeAt(index - 1)

Usable == ~ dangling
Room   == added < MaxElems
-----------------------------------------------------------------------------
\* Nodes that are not allocated have the links that new_node gives them.
Init ==
  /\ front = NULL /\ back = NULL
  /\ nelems = 0
  /\ next = [n \in Nodes |-> NULL] /\ previous = [n \in Nodes |-> NULL]
  /\ added = 0
  /\ live = {}
  /\ dangling = FALSE

\* new_node
Allocate ==
  /\ Usable /\ Room
  /\ added' = New
  /\ live' = live \cup {New}
  /\ nelems' = nelems + 1
  /\ UNCHANGED dangling

\* A mistake: the node that was in front does not know the new one.
PushFrontOneWay ==
  /\ Allocate
  /\ next' = [next EXCEPT ![New] = front]
  /\ front' = New
  /\ back' = IF back = NULL THEN New ELSE back
  /\ UNCHANGED previous

PushFront ==
  /\ Allocate
  /\ next' = [next EXCEPT ![New] = front]
  /\ previous' = SetLink(previous, front, New)
  /\ front' = New
  /\ back' = IF back = NULL THEN New ELSE back

PushBack ==
  /\ Allocate
  /\ previous' = [previous EXCEPT ![New] = back]
  /\ next' = SetLink(next, back, New)
  /\ back' = New
  /\ front' = IF front = NULL THEN New ELSE front

Insert(index) ==
  LET p == Before(index)
      n == IF p = NULL THEN front ELSE next[p]
  IN
  /\ Allocate
  /\ index \in 0 .. nelems - 1
  /\ next' = [SetLink(next, p, New) EXCEPT ![New] = n]
  /\ previous' = [SetLink(previous, n, New) EXCEPT ![New] = p]
  /\ front' = IF p = NULL THEN New ELSE front
  /\ back' = IF n = NULL THEN New ELSE back

\* The neighbours of n are linked with each other.  Neither clist_erase nor
\* clist_remove looks whether n is at front or at back: there the pointer goes on
\* pointing at n, and the model follows the list no further.
TakeOut(n) ==
  /\ Usable
  /\ next' = SetLink(next, previous[n], next[n])
  /\ previous' = SetLink(previous, next[n], previous[n])
  /\ nelems' = nelems - 1
  /\ dangling' = (n \in {front, back})
  /\ UNCHANGED <<front, back, added>>

\* delete_node: the cleanup function is called, and the node is freed.
Delete(n) == live' = live \ {n}

\* clist_erase, which frees nothing, and clist_remove of the element at index.
EraseNode(index)  == TakeOut(NodeAt(index)) /\ UNCHANGED live
RemoveNode(index) == TakeOut(NodeAt(index)) /\ Delete(NodeAt(index))

PopFront ==
  /\ Usable
  /\ nelems > 0
  /\ front' = next[front]
  /\ back' = IF front' = NULL THEN NULL ELSE back
  /\ previous' = SetLink(previous, front', NULL)
  /\ Delete(front)
  /\ nelems' = nelems - 1
  /\ UNCHANGED <<next, added, dangling>>

PopBack ==
  /\ Usable
  /\ nelems > 0
  /\ back' = previous[back]
  /\ front' = IF back' = NULL THEN NULL ELSE front
  /\ next' = SetLink(next, back', NULL)
  /\ Delete(back)
  /\ nelems' = nelems - 1
  /\ UNCHANGED <<previous, added, dangling>>

\* clist_clear and clist_dispose: clist_pop_front until nelems is 0.
Clear ==
  /\ Usable
  /\ nelems > 0
  /\ front' = Follow(front, next, nelems)[nelems]
  /\ back' = IF front' = NULL THEN NULL ELSE back
  /\ previous' = [n \in Nodes |->
                    IF n \in {front'} \cup ToSet(Tail(Forward)) THEN NULL ELSE previous[n]]
  /\ live' = live \ ToSet(Forward)
  /\ nelems' = 0
  /\ UNCHANGED <<next, added, dangling>>

Next ==
  \/ PushFront \/ PushBack
  \/ \E index \in 0 .. nelems - 1 : Insert(index) \/ EraseNode(index) \/ RemoveNode(index)
  \/ PopFront \/ PopBack
  \/ Clear

Spec == Init /\ [][Next]_vars
-----------------------------------------------------------------------------
(***************************************************************************)
(* Properties.                                                             *)
(***************************************************************************)

\* The links lead through the same nelems live nodes in both directions, from
\* front to back and from back to front, and end there.
Linked ==
  Usable =>
    /\ ToSet(Forward) \subseteq live
    /\ Backward = Reverse(Forward)
    /\ NodeAt(nelems) = NULL
    /\ Follow(back, previous, nelems)[nelems] = NULL
    /\ nelems = 0 <=> back = NULL

Elements == INSTANCE Deque WITH
  items <- Forward, cleaned <- (1 .. added) \ live, lost <- live \ ToSet(Forward)

\* Until an end is taken by erase or remove the list is one of elements: each
\* call puts in or takes out the one at its place, elements that are popped,
\* removed or cleared are cleaned up and freed once, and erased ones are lost.
ImplementsDeque ==
  /\ Elements!Init
  /\ [][~ dangling' =>
          /\ PushFront => Elements!PutAt(1)
          /\ PushBack => Elements!PutAt(nelems + 1)
          /\ \A index \in 0 .. nelems - 1 :
               /\ Insert(index) => Elements!PutAt(index + 1)
               /\ EraseNode(index) => Elements!EraseAt(index + 1)
               /\ RemoveNode(index) => Elements!TakeAt(index + 1)
          /\ PopFront => Elements!TakeAt(1)
          /\ PopBack => Elements!TakeAt(nelems)
          /\ Clear => Elements!Clear]_vars
=============================================================================
