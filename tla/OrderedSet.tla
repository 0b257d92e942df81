----------------------------- MODULE OrderedSet -----------------------------
(***************************************************************************)
(* What lib/cset.h promises: a set of elements no two of which are         *)
(* equivalent.  Every element that was put in is given to the cleanup      *)
(* function when it is taken out, once.                                    *)
(***************************************************************************)
EXTENDS Integers, Sequences

CONSTANTS
  Data,          \* the elements
  KeyOf          \* what the comparison function looks at

VARIABLES
  members,       \* the elements in the set
  cleaned        \* the elements that the last call cleaned up, in their order

vars == <<members, cleaned>>

Equivalent(d) == {m \in members : KeyOf[m] = KeyOf[d]}

\* s has each element of S once, in some order.
Lists(s, S) ==
  /\ s \in Seq(S)
  /\ \A d \in S : \E i \in 1 .. Len(s) : s[i] = d
  /\ \A i, j \in 1 .. Len(s) : s[i] = s[j] => i = j

Init == members = {} /\ cleaned = <<>>

\* "Insertion of an element into a set which contains an equivalent element
\* will result in no operation."
Insert(d) ==
  /\ members' = IF Equivalent(d) = {} THEN members \cup {d} ELSE members
  /\ cleaned' = <<>>

\* The insertion of a new element, when the allocation of its node fails: not
\* promised anywhere, and what cset.c does.
LoseAll(d) ==
  /\ Equivalent(d) = {}
  /\ members' = {}
  /\ cleaned' = <<>>

Remove(d) ==
  /\ members' = members \ Equivalent(d)
  /\ Lists(cleaned', Equivalent(d))

Clear ==
  /\ members' = {}
  /\ Lists(cleaned', members)

Next == (\E d \in Data : Insert(d) \/ LoseAll(d) \/ Remove(d)) \/ Clear

Spec == Init /\ [][Next]_vars
=============================================================================
