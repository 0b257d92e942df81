------------------------------ MODULE Permuter ------------------------------
(***************************************************************************)
(* lib/permutations.c: a permuter goes through the arrangements of an      *)
(* array in place, by the algorithm of Steinhaus, Johnson and Trotter: an  *)
(* element faces left or right, and the largest one that faces a smaller   *)
(* neighbour changes places with it.  The elements are 0, 1, ... ; what    *)
(* the comparison function sees of them is their key.                      *)
(***************************************************************************)
EXTENDS Integers, Sequences, FiniteSets, Functions

CONSTANTS
  N,             \* how many elements there are
  MaxInt,        \* INT_MAX
  MaxKey,        \* bound: the keys are 1 .. MaxKey
  MaxIndex,      \* bound: how many arrangements the client asks for
  MaxResets      \* bound: how often it starts again

ASSUME PermuterAssumption ==
  /\ {N, MaxInt, MaxKey, MaxIndex, MaxResets} \subseteq Nat
  /\ MaxIndex <= MaxInt     \* index is an int

VARIABLES
  key,           \* the client's elements, as the comparison function sees them
  elems,         \* elems[i] is the element at index i
  directions,
  index,
  ended,         \* next_permutation has returned NULL
  seen,          \* the arrays of keys since the permuter was last reset
  resets

vars == <<key, elems, directions, index, ended, seen, resets>>

Indices == 0 .. N - 1
Arrangements == Bijection(Indices, Indices)

\* compare, given two indices of the array
Compare(i, j) == key[elems[i]] - key[elems[j]]

\* qsort, external: any order of the elements in which their keys go up.
Sorted == {s \in Arrangements : \A i, j \in Indices : i < j => key[s[i]] <= key[s[j]]}

\* The neighbour an element faces, or an index outside the array.
Faced(i) == IF directions[i] = "left" THEN i - 1 ELSE i + 1

\* A mistake: nothing moves to the front of the array.
IsMobileNotFirst(i) == Faced(i) \in Indices \ {0} /\ Compare(i, Faced(i)) > 0

IsMobile(i) == Faced(i) \in Indices /\ Compare(i, Faced(i)) > 0

Mobile == {i \in Indices : IsMobile(i)}

\* find_largest_mobile: the first of the mobile elements with the largest key.
LargestMobile ==
  LET largest == {i \in Mobile : \A j \in Mobile : Compare(i, j) >= 0} IN
  CHOOSE i \in largest : \A j \in largest : i <= j

Flip(dir) == IF dir = "left" THEN "right" ELSE "left"

\* A mistake: the element is overwritten before it is read.
SwapLoses(f, i, j) == [f EXCEPT ![i] = f[j]]

\* The places i and j of an array exchanged: of the elements, and with them of
\* the directions.
Swap(f, i, j) == [f EXCEPT ![i] = f[j], ![j] = f[i]]

\* The values of an array of elements: two elements may have the same key.
KeysOf(s) == [i \in Indices |-> key[s[i]]]
-----------------------------------------------------------------------------
\* new_permuter and reset_permuter
Restart ==
  /\ elems' \in Sorted
  /\ directions' = [i \in Indices |-> "left"]
  /\ index' = 0
  /\ ended' = FALSE
  /\ seen' = {KeysOf(elems')}

Init ==
  /\ key \in [Indices -> 1 .. MaxKey]
  /\ elems \in Sorted
  /\ directions = [i \in Indices |-> "left"]
  /\ index = 0
  /\ ended = FALSE
  /\ seen = {KeysOf(elems)}
  /\ resets = 0

\* A mistake: the element that moves turns, too.
FlippedAlso(m) ==
  [i \in Indices |-> IF Compare(i, m) >= 0 THEN Flip(directions[i]) ELSE directions[i]]

\* The directions when the elements larger than the one that moves have turned.
Flipped(m) ==
  [i \in Indices |-> IF Compare(i, m) > 0 THEN Flip(directions[i]) ELSE directions[i]]

\* next_permutation
NextPermutation ==
  LET m == LargestMobile IN
  /\ ~ ended
  /\ Mobile # {}
  /\ index < MaxIndex
  /\ directions' = Swap(Flipped(m), m, Faced(m))
  /\ elems' = Swap(elems, m, Faced(m))
  /\ index' = index + 1
  /\ seen' = seen \cup {KeysOf(elems')}
  /\ UNCHANGED <<key, ended, resets>>

\* "no more permutations"
NoMore ==
  /\ ~ ended
  /\ Mobile = {}
  /\ ended' = TRUE
  /\ UNCHANGED <<key, elems, directions, index, seen, resets>>

Reset ==
  /\ resets < MaxResets
  /\ resets' = resets + 1
  /\ Restart
  /\ UNCHANGED key

Next == NextPermutation \/ NoMore \/ Reset

Spec == Init /\ [][Next]_vars

\* for_permutations calls next_permutation until it returns NULL.
FairSpec == Spec /\ WF_vars(NextPermutation \/ NoMore)
-----------------------------------------------------------------------------
(***************************************************************************)
(* nth_permutation and nth_combination, for a string of N characters that  *)
(* differ: the characters are 0 .. N - 1, and n is an int below N!, or     *)
(* below 2^N.  factorial returns an int.  These numbers are the code's     *)
(* where they are ints: FactorialsFit.                                     *)
(***************************************************************************)
Factorial[n \in Nat] == IF n < 2 THEN 1 ELSE n * Factorial[n - 1]

\* What nth_permutation divides by are ints: with the 32 bits of x86 the
\* factorials up to that of 12, and so strings of 13 characters at most.
FactorialsFit == \A i \in Indices : Factorial[i] <= MaxInt

\* ith_false: the place of the i-th character that is not used, from 0
IthFree(used, i) ==
  CHOOSE j \in Indices \ used : Cardinality({k \in Indices \ used : k < j}) = i

\* A mistake: the number is reduced before the digit is taken.
NthPermutationEarly(n) ==
  LET perm[p \in Indices] ==
        IthFree({perm[q] : q \in p + 1 .. N - 1}, (n % Factorial[p]) \div Factorial[p])
  IN perm

\* The digits of n for the bases N - 1, ... 0, each of which says which of the
\* characters that are left goes to that place.
NthPermutation(n) ==
  LET perm[p \in Indices] ==
        IthFree({perm[q] : q \in p + 1 .. N - 1}, (n % Factorial[p + 1]) \div Factorial[p])
  IN perm

\* The characters whose bits are set in n; they are copied in their order.
PowerOf2[i \in Nat] == IF i = 0 THEN 1 ELSE 2 * PowerOf2[i - 1]
NthCombination(n) == {i \in Indices : (n \div PowerOf2[i]) % 2 = 1}
-----------------------------------------------------------------------------
(***************************************************************************)
(* Properties.                                                             *)
(***************************************************************************)
\* Every element is in the array once, whatever was exchanged so far.
TypeOK ==
  /\ key \in [Indices -> 1 .. MaxKey]
  /\ elems \in Arrangements
  /\ directions \in [Indices -> {"left", "right"}]
  /\ index \in 0 .. MaxIndex
  /\ ended \in BOOLEAN
  /\ seen \subseteq [Indices -> 1 .. MaxKey]
  /\ resets \in 0 .. MaxResets

\* No array of keys comes twice, not even where elements have equal keys, and
\* index counts them.
NoRepeat == Cardinality(seen) = index + 1

\* "no more permutations": when next_permutation returns NULL every arrangement
\* has come, if no two elements have the same key, except the smallest one.
Larger     == {i \in Indices : \E j \in Indices : key[j] < key[i]}
KeysDiffer == \A i, j \in Larger : key[i] = key[j] => i = j
Complete   == ended /\ KeysDiffer => seen = {KeysOf(s) : s \in Arrangements}

\* A loop of for_permutations comes to its end.
Ends == []<>ended

\* The permutations that nth_permutation makes of the ints below N! differ, if
\* no factorial that it divides by overflows, and so do the combinations that
\* nth_combination makes of the ints below 2^N.
Unranks ==
  /\ FactorialsFit /\ index < Factorial[N] =>
       /\ NthPermutation(index) \in Arrangements
       /\ \A n \in 0 .. index - 1 : NthPermutation(n) # NthPermutation(index)
  /\ index < PowerOf2[N] => \A n \in 0 .. index - 1 : NthCombination(n) # NthCombination(index)
=============================================================================
