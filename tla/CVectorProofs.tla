--------------------------- MODULE CVectorProofs ---------------------------
(***************************************************************************)
(* Proofs about CVector, for any capacity and any number of elements.      *)
(***************************************************************************)
EXTENDS CVector, TLAPS, SequenceTheorems

\* The inductive invariant: the cleanup function is only ever called on
\* elements that were added.
IInv ==
  TypeOK /\ NoFault /\ NothingForgotten /\ HeldOnce /\ cleaned \subseteq 1 .. added

\* Outside of a filter the elements are the first nelems cells of the array.
LEMMA ReadyItems ==
  ASSUME TypeOK, state # "filter"
  PROVE  /\ kept = 0 /\ removed = 0 /\ Count = nelems
         /\ \A i \in 1 .. nelems : Items[i] = elems[i - 1]
<1>1. kept = 0 /\ removed = 0 /\ nelems \in Nat
  BY DEF TypeOK, remaining
<1> QED
  BY <1>1 DEF Count, Items

\* Doubling the array keeps its cells and leaves room for one more element.
LEMMA GrownType ==
  ASSUME TypeOK
  PROVE  /\ NewCapacity \in Nat \ {0} /\ nelems < NewCapacity /\ nelems \in Nat
         /\ Grown \in [0 .. NewCapacity - 1 -> Nat]
         /\ \A i \in 0 .. nelems - 1 : Grown[i] = elems[i]
<1>1. /\ NewCapacity \in Nat \ {0} /\ nelems < NewCapacity /\ capacity <= NewCapacity
      /\ nelems \in Nat /\ capacity \in Nat /\ nelems <= capacity
  BY DEF TypeOK, NewCapacity, Full
<1>2. /\ DOMAIN elems = 0 .. capacity - 1 /\ 0 \in Nat
      /\ \A i \in 0 .. capacity - 1 : elems[i] \in Nat
  BY DEF TypeOK
<1>3. \A i \in 0 .. NewCapacity - 1 :
        Read(i) = IF i \in 0 .. capacity - 1 THEN elems[i] ELSE 0
  BY <1>2 DEF Read, GARBAGE
<1>4. Grown \in [0 .. NewCapacity - 1 -> Nat]
  BY <1>2, <1>3 DEF Grown
<1>5. \A i \in 0 .. nelems - 1 : i \in 0 .. capacity - 1 /\ i \in 0 .. NewCapacity - 1
  BY <1>1
<1> QED
  BY <1>1, <1>3, <1>4, <1>5 DEF Grown

\* The elements a call may have: how each operation changes the list.
Same == Count' = Count /\ Items' = Items

Appended ==
  /\ Count' = Count + 1
  /\ \A i \in 1 .. Count : Items'[i] = Items[i]
  /\ Items'[Count + 1] = New

Replaced(k) ==
  /\ Count' = Count
  /\ \A i \in 1 .. Count : Items'[i] = IF i = k THEN New ELSE Items[i]

Shifted(k) ==
  /\ Count' = Count - 1
  /\ \A i \in 1 .. Count - 1 : Items'[i] = IF i < k THEN Items[i] ELSE Items[i + 1]
-----------------------------------------------------------------------------
LEMMA AppendItems ==
  ASSUME IInv, ~ MidInsert, AppendElem \/ \E index \in 0 .. nelems : Insert(index)
  PROVE  Appended /\ TypeOK' /\ NoFault'
<1>1. TypeOK /\ state = "ready" /\ kept = 0 /\ removed = 0
  BY ReadyItems DEF IInv, AppendElem, Insert, Ready
<1>2. /\ NewCapacity \in Nat \ {0} /\ nelems < NewCapacity /\ nelems \in Nat
      /\ Grown \in [0 .. NewCapacity - 1 -> Nat]
      /\ \A i \in 0 .. nelems - 1 : Grown[i] = elems[i]
  BY <1>1, GrownType
<1>3. DOMAIN Grown = 0 .. NewCapacity - 1 /\ nelems \in DOMAIN Grown
  BY <1>2
<1>4. elems' = [Grown EXCEPT ![nelems] = New]
  <2>1. CASE AppendElem
    BY <2>1 DEF AppendElem
  <2>2. ASSUME NEW index \in 0 .. nelems, Insert(index)
        PROVE  elems' = [Grown EXCEPT ![nelems] = New]
    <3>1. index = nelems /\ nelems .. nelems - 1 = {}
      BY <2>2, <1>2 DEF Insert
    <3>2. elems' = [i \in DOMAIN Grown |-> IF i = nelems THEN New ELSE Grown[i]]
      BY <2>2, <3>1 DEF Insert
    <3> QED
      BY <3>2, <1>2, <1>3
  <2> QED
    BY <2>1, <2>2
<1>5. /\ capacity' = NewCapacity /\ nelems' = nelems + 1 /\ added' = added + 1
      /\ kept' = kept /\ removed' = removed /\ state' = state /\ cleaned' = cleaned
      /\ fault' = FALSE
  BY <1>3 DEF AppendElem, Insert, New
<1>6. /\ elems' \in [0 .. capacity' - 1 -> Nat]
      /\ elems'[nelems] = New
      /\ \A i \in 0 .. nelems - 1 : elems'[i] = elems[i]
  <2>1. New \in Nat
    BY <1>1 DEF TypeOK, New
  <2> QED
    BY <1>2, <1>3, <1>4, <1>5, <2>1
<1>7. TypeOK'
  <2>1. /\ capacity' \in Nat \ {0} /\ nelems' \in Nat /\ nelems' <= capacity'
        /\ added' \in Nat
    BY <1>1, <1>2, <1>5 DEF TypeOK
  <2>2. /\ kept' = 0 /\ removed' = 0 /\ remaining' = 0 /\ remaining' <= nelems'
    BY <1>1, <1>2, <1>5 DEF remaining
  <2>3. elems' \in [0 .. capacity' - 1 -> Nat]
    BY <1>5, <1>6
  <2>4. state' = "ready" /\ fault' \in BOOLEAN /\ cleaned' \subseteq Nat
    BY <1>1, <1>5 DEF TypeOK
  <2> QED
    BY <2>1, <2>2, <2>3, <2>4 DEF TypeOK
<1>8. Appended
  <2>1. /\ Count' = nelems + 1
        /\ \A i \in 1 .. nelems + 1 : Items'[i] = elems'[i - 1]
    BY <1>1, <1>2, <1>5 DEF Count, Items
  <2>2. Count = nelems /\ \A i \in 1 .. nelems : Items[i] = elems[i - 1]
    BY <1>1, ReadyItems
  <2>3. \A i \in 1 .. nelems : i - 1 \in 0 .. nelems - 1 /\ i \in 1 .. nelems + 1
    BY <1>2
  <2>4. nelems + 1 \in 1 .. nelems + 1 /\ (nelems + 1) - 1 = nelems
    BY <1>2
  <2>5. ASSUME NEW i \in 1 .. nelems PROVE Items'[i] = Items[i]
    <3>1. i - 1 \in 0 .. nelems - 1
      BY <1>2
    <3>2. elems'[i - 1] = elems[i - 1]
      BY <3>1, <1>6
    <3>3. Items'[i] = elems'[i - 1]
      BY <2>1, <2>3
    <3> QED
      BY <3>2, <3>3, <2>2
  <2>6. Items'[nelems + 1] = New
    <3>1. Items'[nelems + 1] = elems'[(nelems + 1) - 1]
      BY <2>1, <2>4
    <3> QED
      BY <3>1, <2>4, <1>6
  <2> QED
    BY <2>1, <2>2, <2>5, <2>6 DEF Appended
<1> QED
  BY <1>5, <1>7, <1>8 DEF NoFault

\* A cell of the vector holds an element that may be cleaned up.
LEMMA CellSane ==
  ASSUME IInv, NEW i \in 1 .. Count
  PROVE  Items[i] \in (1 .. added) \ cleaned
BY DEF IInv, NothingForgotten, Items

LEMMA ReplaceItems ==
  ASSUME IInv, NEW index \in 0 .. nelems, Replace(index)
  PROVE  /\ Replaced(index + 1) /\ index + 1 \in 1 .. Count
         /\ TypeOK' /\ NoFault'
         /\ cleaned' = cleaned \cup {Items[index + 1]}
<1>1. /\ TypeOK /\ state = "ready" /\ kept = 0 /\ removed = 0 /\ Count = nelems
      /\ \A i \in 1 .. nelems : Items[i] = elems[i - 1]
  BY ReadyItems DEF IInv, Replace, Ready
<1>2. /\ index \in 0 .. nelems - 1 /\ nelems \in Nat /\ capacity \in Nat
      /\ nelems <= capacity /\ added \in Nat
      /\ elems \in [0 .. capacity - 1 -> Nat]
  BY <1>1 DEF Replace, TypeOK
<1>3. index \in DOMAIN elems /\ index + 1 \in 1 .. Count /\ Read(index) = Items[index + 1]
  BY <1>1, <1>2 DEF Read
<1>4. Items[index + 1] \in (1 .. added) \ cleaned
  BY <1>3, CellSane
<1>5. /\ elems' = [elems EXCEPT ![index] = New] /\ added' = added + 1
      /\ cleaned' = cleaned \cup {Items[index + 1]} /\ fault' = FALSE
      /\ nelems' = nelems /\ capacity' = capacity /\ kept' = kept
      /\ removed' = removed /\ state' = state
  BY <1>3, <1>4 DEF Replace, Sane, New
<1>6. elems' \in [0 .. capacity - 1 -> Nat]
  <2>1. New \in Nat
    BY <1>2 DEF New
  <2> QED
    BY <1>2, <1>5, <2>1
<1>7. TypeOK'
  <2>1. /\ capacity' \in Nat \ {0} /\ nelems' \in Nat /\ nelems' <= capacity'
        /\ added' \in Nat
    BY <1>1, <1>2, <1>5 DEF TypeOK
  <2>2. /\ kept' = 0 /\ removed' = 0 /\ remaining' = 0 /\ remaining' <= nelems'
    BY <1>1, <1>2, <1>5 DEF remaining
  <2>3. elems' \in [0 .. capacity' - 1 -> Nat]
    BY <1>5, <1>6
  <2>4. Items[index + 1] \in Nat
    BY <1>2, <1>4
  <2>5. state' = "ready" /\ fault' \in BOOLEAN /\ cleaned' \subseteq Nat
    BY <1>1, <1>5, <2>4 DEF TypeOK
  <2> QED
    BY <2>1, <2>2, <2>3, <2>5 DEF TypeOK
<1>8. Replaced(index + 1)
  <2>1. Count' = nelems /\ \A i \in 1 .. nelems : Items'[i] = elems'[i - 1]
    BY <1>1, <1>2, <1>5 DEF Count, Items
  <2>2. \A i \in 1 .. nelems : elems'[i - 1] = IF i = index + 1 THEN New ELSE elems[i - 1]
    BY <1>2, <1>5
  <2> QED
    BY <2>1, <2>2, <1>1 DEF Replaced
<1> QED
  BY <1>3, <1>5, <1>7, <1>8 DEF NoFault

LEMMA RemoveItems ==
  ASSUME IInv, NEW index \in 0 .. nelems, Remove(index)
  PROVE  /\ Shifted(index + 1) /\ index + 1 \in 1 .. Count
         /\ TypeOK' /\ NoFault'
         /\ cleaned' = cleaned \cup {Items[index + 1]}
<1>1. /\ TypeOK /\ state = "ready" /\ kept = 0 /\ removed = 0 /\ Count = nelems
      /\ \A i \in 1 .. nelems : Items[i] = elems[i - 1]
  BY ReadyItems DEF IInv, Remove, Ready
<1>2. /\ index \in 0 .. nelems - 1 /\ nelems \in Nat /\ capacity \in Nat
      /\ nelems <= capacity /\ added \in Nat
      /\ elems \in [0 .. capacity - 1 -> Nat]
  BY <1>1 DEF Remove, TypeOK
<1>3. index \in DOMAIN elems /\ index + 1 \in 1 .. Count /\ Read(index) = Items[index + 1]
      /\ 0 .. nelems - 1 \subseteq DOMAIN elems
  BY <1>1, <1>2 DEF Read
<1>4. Items[index + 1] \in (1 .. added) \ cleaned
  BY <1>3, CellSane
<1>5. /\ elems' = [i \in 0 .. capacity - 1 |->
                     IF i \in index .. nelems - 2 THEN elems[i + 1] ELSE elems[i]]
      /\ added' = added /\ nelems' = nelems - 1
      /\ cleaned' = cleaned \cup {Items[index + 1]} /\ fault' = FALSE
      /\ capacity' = capacity /\ kept' = kept
      /\ removed' = removed /\ state' = state
  <2>1. \A i \in index .. nelems - 2 : Read(i + 1) = elems[i + 1]
    BY <1>2 DEF Read
  <2> QED
    BY <1>2, <1>3, <1>4, <2>1 DEF Remove, Sane
<1>6. elems' \in [0 .. capacity - 1 -> Nat]
  BY <1>2, <1>5
<1>7. TypeOK'
  <2>1. /\ capacity' \in Nat \ {0} /\ nelems' \in Nat /\ nelems' <= capacity'
        /\ added' \in Nat
    BY <1>1, <1>2, <1>5 DEF TypeOK
  <2>2. /\ kept' = 0 /\ removed' = 0 /\ remaining' = 0 /\ remaining' <= nelems'
    BY <1>1, <1>2, <1>5 DEF remaining
  <2>3. elems' \in [0 .. capacity' - 1 -> Nat]
    BY <1>5, <1>6
  <2>4. Items[index + 1] \in Nat
    BY <1>2, <1>4
  <2>5. state' = "ready" /\ fault' \in BOOLEAN /\ cleaned' \subseteq Nat
    BY <1>1, <1>5, <2>4 DEF TypeOK
  <2> QED
    BY <2>1, <2>2, <2>3, <2>5 DEF TypeOK
<1>8. Shifted(index + 1)
  <2>1. Count' = nelems - 1 /\ \A i \in 1 .. nelems - 1 : Items'[i] = elems'[i - 1]
    BY <1>1, <1>2, <1>5 DEF Count, Items
  <2>2. \A i \in 1 .. nelems - 1 :
          elems'[i - 1] = IF i < index + 1 THEN elems[i - 1] ELSE elems[i]
    <3> TAKE i \in 1 .. nelems - 1
    <3>1. i - 1 \in 0 .. capacity - 1 /\ (i - 1) + 1 = i
          /\ (i - 1 \in index .. nelems - 2 <=> ~ (i < index + 1))
      BY <1>2
    <3> QED
      BY <3>1, <1>5
  <2>3. \A i \in 1 .. nelems - 1 : i \in 1 .. nelems /\ i + 1 \in 1 .. nelems
                                 /\ (i + 1) - 1 = i
    BY <1>2
  <2> QED
    BY <2>1, <2>2, <2>3, <1>1 DEF Shifted
<1> QED
  BY <1>3, <1>5, <1>7, <1>8 DEF NoFault

\* Starting a filter, and what it keeps, change nothing in the list.
LEMMA SameItems ==
  ASSUME IInv, Filter \/ FilterKeep \/ FilterEnd
  PROVE  Same /\ TypeOK' /\ NoFault' /\ added' = added /\ cleaned' = cleaned
<1>1. /\ TypeOK /\ kept \in Nat /\ removed \in Nat /\ nelems \in Nat /\ capacity \in Nat
      /\ kept + removed <= nelems /\ nelems <= capacity
      /\ elems \in [0 .. capacity - 1 -> Nat]
  BY DEF IInv, TypeOK, remaining
<1>2. CASE Filter
  <2>1. kept = 0 /\ removed = 0
    BY <1>1, <1>2, ReadyItems DEF Filter, Ready
  <2>2. /\ kept' = 0 /\ removed' = 0 /\ UNCHANGED <<elems, nelems, capacity, added, cleaned>>
        /\ state' = "filter" /\ fault' = fault /\ ~ fault
    BY <1>2 DEF Filter, Ready
  <2>3. Same
    BY <2>1, <2>2 DEF Same, Count, Items
  <2>4. remaining' = 0
    BY <2>2 DEF remaining
  <2>5. TypeOK'
    BY <1>1, <2>2, <2>4 DEF TypeOK
  <2> QED
    BY <2>2, <2>3, <2>5 DEF NoFault
<1>3. CASE FilterKeep
  <2>1. /\ remaining < nelems /\ kept' = kept + 1 /\ state = "filter"
        /\ UNCHANGED <<nelems, capacity, removed, state, added, cleaned>>
        /\ fault' = ~ ({kept, remaining} \subseteq DOMAIN elems)
    BY <1>3 DEF FilterKeep, Filtering
  <2>2. /\ kept \in 0 .. capacity - 1 /\ remaining \in 0 .. capacity - 1
        /\ remaining = kept + removed /\ fault' = FALSE
    <3>1. remaining = kept + removed
      BY DEF remaining
    <3>2. kept \in 0 .. capacity - 1 /\ remaining \in 0 .. capacity - 1
      BY <1>1, <2>1, <3>1
    <3> QED
      BY <1>1, <2>1, <3>1, <3>2
  <2>3. elems' = IF removed > 0 THEN [elems EXCEPT ![kept] = elems[remaining]] ELSE elems
    BY <1>1, <1>3, <2>2 DEF FilterKeep, Read
  <2>4. elems' \in [0 .. capacity - 1 -> Nat]
    BY <1>1, <2>2, <2>3
  <2>5. Count \in Nat /\ Count' = Count
    BY <1>1, <2>1 DEF Count
  <2>6. ASSUME NEW i \in 1 .. Count PROVE Items'[i] = Items[i]
    <3>1. /\ Items[i] = IF i <= kept THEN elems[i - 1] ELSE elems[i - 1 + removed]
          /\ Items'[i] = IF i <= kept + 1 THEN elems'[i - 1] ELSE elems'[i - 1 + removed]
      BY <2>1, <2>5, <2>6 DEF Items
    <3>2. /\ i - 1 \in 0 .. capacity - 1 /\ i - 1 + removed \in 0 .. capacity - 1
      BY <1>1, <2>6 DEF Count
    <3>3. CASE i <= kept
      BY <1>1, <2>3, <3>1, <3>2, <3>3
    <3>4. CASE i = kept + 1
      <4>1. Items[i] = elems[remaining] /\ Items'[i] = elems'[kept]
        BY <1>1, <2>2, <3>1, <3>4
      <4> QED
        BY <1>1, <2>2, <2>3, <4>1
    <3>5. CASE i > kept + 1
      <4>1. i - 1 + removed # kept
        BY <1>1, <3>5
      <4>2. Items[i] = elems[i - 1 + removed] /\ Items'[i] = elems'[i - 1 + removed]
        BY <1>1, <3>1, <3>5
      <4> QED
        BY <1>1, <2>3, <3>2, <4>1, <4>2
    <3> QED
      BY <1>1, <2>5, <3>3, <3>4, <3>5
  <2>7. Items' = Items
    <3>1. Items' = [i \in 1 .. Count |-> Items'[i]] /\ Items = [i \in 1 .. Count |-> Items[i]]
      BY <2>5 DEF Items
    <3> QED
      BY <2>6, <3>1
  <2>8. /\ kept' \in Nat /\ remaining' <= nelems'
    BY <1>1, <2>1, <2>2 DEF remaining
  <2> QED
    BY <1>1, <2>1, <2>2, <2>4, <2>5, <2>7, <2>8 DEF Same, TypeOK, NoFault
<1>4. CASE FilterEnd
  <2>1. /\ kept + removed = nelems /\ nelems' = kept /\ kept' = 0 /\ removed' = 0
        /\ state' = "ready" /\ fault' = fault /\ ~ fault
        /\ UNCHANGED <<elems, capacity, added, cleaned>>
    BY <1>4 DEF FilterEnd, Filtering, remaining
  <2>2. Count = kept /\ Count' = kept
    BY <1>1, <2>1 DEF Count
  <2>3. Items' = [i \in 1 .. kept |-> elems[i - 1]]
    BY <1>1, <2>1, <2>2 DEF Items
  <2>4. Items = [i \in 1 .. kept |-> elems[i - 1]]
    BY <2>2 DEF Items
  <2>5. TypeOK'
    <3>1. remaining' = 0
      BY <2>1 DEF remaining
    <3>2. kept <= capacity
      BY <1>1
    <3> QED
      BY <1>1, <2>1, <3>1, <3>2 DEF TypeOK
  <2> QED
    BY <2>1, <2>2, <2>3, <2>4, <2>5 DEF Same, NoFault
<1> QED
  BY <1>2, <1>3, <1>4

\* What a filter refuses leaves the list, in the place where the loop is.
LEMMA DropItems ==
  ASSUME IInv, FilterDrop
  PROVE  /\ Shifted(kept + 1) /\ kept + 1 \in 1 .. Count
         /\ TypeOK' /\ NoFault' /\ added' = added
         /\ cleaned' = cleaned \cup {Items[kept + 1]}
<1>1. /\ TypeOK /\ kept \in Nat /\ removed \in Nat /\ nelems \in Nat /\ capacity \in Nat
      /\ kept + removed < nelems /\ nelems <= capacity
      /\ elems \in [0 .. capacity - 1 -> Nat]
      /\ remaining = kept + removed
  BY DEF IInv, TypeOK, remaining, FilterDrop
<1>2. Count \in Nat /\ kept + 1 \in 1 .. Count
  BY <1>1 DEF Count
<1>3. remaining \in DOMAIN elems /\ Read(remaining) = Items[kept + 1]
  <2>1. Items[kept + 1] = elems[kept + 1 - 1 + removed]
    BY <1>1, <1>2 DEF Items
  <2>2. kept + 1 - 1 + removed = remaining
    BY <1>1
  <2>3. remaining \in 0 .. capacity - 1
    BY <1>1
  <2> QED
    BY <1>1, <2>1, <2>2, <2>3 DEF Read
<1>4. Items[kept + 1] \in (1 .. added) \ cleaned
  BY <1>2, CellSane
<1>5. /\ removed' = removed + 1 /\ state' = "filter" /\ state = "filter" /\ fault' = FALSE
      /\ cleaned' = cleaned \cup {Items[kept + 1]}
      /\ UNCHANGED <<elems, nelems, capacity, kept, state, added>>
  BY <1>3, <1>4 DEF FilterDrop, Filtering, Sane
<1>6. Count' = Count - 1
  BY <1>1, <1>5 DEF Count
<1>7. ASSUME NEW i \in 1 .. Count - 1
      PROVE  Items'[i] = IF i < kept + 1 THEN Items[i] ELSE Items[i + 1]
  <2>1. Items'[i] = IF i <= kept THEN elems[i - 1] ELSE elems[i - 1 + (removed + 1)]
    BY <1>5, <1>6, <1>7 DEF Items
  <2>2. i \in 1 .. Count /\ i + 1 \in 1 .. Count
    BY <1>2
  <2>3. /\ Items[i] = IF i <= kept THEN elems[i - 1] ELSE elems[i - 1 + removed]
        /\ Items[i + 1] = IF i + 1 <= kept THEN elems[i + 1 - 1]
                                           ELSE elems[i + 1 - 1 + removed]
    BY <2>2 DEF Items
  <2>4. i - 1 + (removed + 1) = i + 1 - 1 + removed
    BY <1>1
  <2> QED
    BY <1>1, <2>1, <2>3, <2>4
<1>8. TypeOK'
  <2>1. remaining' <= nelems' /\ removed' \in Nat
    <3>1. remaining' = kept + (removed + 1)
      BY <1>5 DEF remaining
    <3> QED
      BY <1>1, <1>5, <3>1
  <2>2. cleaned' \subseteq Nat /\ added' \in Nat
    <3>1. cleaned \subseteq Nat /\ added \in Nat
      BY <1>1 DEF TypeOK
    <3>2. Items[kept + 1] \in Nat
      BY <1>4, <3>1
    <3> QED
      BY <1>5, <3>1, <3>2
  <2>3. /\ capacity' \in Nat \ {0} /\ elems' \in [0 .. capacity' - 1 -> Nat]
        /\ nelems' \in Nat /\ nelems' <= capacity' /\ kept' \in Nat
    BY <1>1, <1>5 DEF TypeOK
  <2> QED
    BY <1>5, <2>1, <2>2, <2>3 DEF TypeOK
<1> QED
  BY <1>2, <1>5, <1>6, <1>7, <1>8 DEF Shifted, NoFault

\* cvec_clear cleans up every element, each once.
LEMMA ClearItems ==
  ASSUME IInv, NEW next \in {"ready", "disposed"}, Clear(next)
  PROVE  /\ Count' = 0 /\ Items' = <<>> /\ TypeOK' /\ NoFault' /\ added' = added
         /\ cleaned' = cleaned \cup {Items[i] : i \in 1 .. Count}
<1>1. /\ TypeOK /\ state = "ready" /\ kept = 0 /\ removed = 0 /\ Count = nelems
      /\ \A i \in 1 .. nelems : Items[i] = elems[i - 1]
  BY ReadyItems DEF IInv, Clear, Ready
<1>2. /\ nelems \in Nat /\ capacity \in Nat /\ nelems <= capacity
      /\ elems \in [0 .. capacity - 1 -> Nat]
  BY <1>1 DEF TypeOK
<1>3. ASSUME NEW i \in 0 .. nelems - 1
      PROVE  Read(i) = Items[i + 1] /\ i + 1 \in 1 .. Count /\ i \in DOMAIN elems
  <2>1. i + 1 \in 1 .. nelems /\ i \in 0 .. capacity - 1 /\ (i + 1) - 1 = i
    BY <1>2
  <2> QED
    BY <1>1, <1>2, <2>1 DEF Read
<1>4. \A i \in 1 .. Count : i - 1 \in 0 .. nelems - 1 /\ (i - 1) + 1 = i
  BY <1>1, <1>2
<1>5. {Read(i) : i \in 0 .. nelems - 1} = {Items[i] : i \in 1 .. Count}
  BY <1>3, <1>4
<1>6. Sane({Items[i] : i \in 1 .. Count})
  BY CellSane DEF Sane
<1>7. \A i, j \in 0 .. nelems - 1 : i # j => Read(i) # Read(j)
  <2> TAKE i, j \in 0 .. nelems - 1
  <2>1. i # j => i + 1 # j + 1
    OBVIOUS
  <2> QED
    BY <1>3, <2>1 DEF IInv, HeldOnce
<1>8. /\ nelems' = 0 /\ state' = next /\ fault' = FALSE
      /\ cleaned' = cleaned \cup {Items[i] : i \in 1 .. Count}
      /\ UNCHANGED <<elems, capacity, kept, removed, added>>
  BY <1>3, <1>5, <1>6, <1>7 DEF Clear
<1>9. Count' = 0 /\ Items' = <<>>
  BY <1>1, <1>8 DEF Count, Items
<1>10. TypeOK'
  <2>1. {Items[i] : i \in 1 .. Count} \subseteq Nat
    <3>1. \A x \in 1 .. added : x \in Nat
      BY <1>1 DEF TypeOK
    <3> QED
      BY <1>6, <3>1 DEF Sane
  <2>2. remaining' = 0
    BY <1>1, <1>8 DEF remaining
  <2>3. cleaned' \subseteq Nat
    <3>1. cleaned \subseteq Nat
      BY <1>1 DEF TypeOK
    <3> QED
      BY <1>8, <2>1, <3>1
  <2>4. /\ capacity' \in Nat \ {0} /\ elems' \in [0 .. capacity' - 1 -> Nat]
        /\ nelems' \in Nat /\ nelems' <= capacity' /\ kept' = 0 /\ removed' = 0
        /\ added' \in Nat
    BY <1>1, <1>2, <1>8 DEF TypeOK
  <2>5. /\ state' \in {"ready", "filter", "disposed"}
        /\ kept' \in Nat /\ removed' \in Nat /\ remaining' <= nelems'
    BY <1>8, <2>2, <2>4
  <2>6. fault' \in BOOLEAN
    BY <1>8, Zenon
  <2> QED
    BY <2>2, <2>3, <2>4, <2>5, <2>6 DEF TypeOK
<1> QED
  BY <1>8, <1>9, <1>10 DEF NoFault
-----------------------------------------------------------------------------
(***************************************************************************)
(* The elements held and the elements cleaned up are those that were       *)
(* added.                                                                  *)
(***************************************************************************)
Balanced == NothingForgotten /\ HeldOnce /\ cleaned \subseteq 1 .. added

LEMMA SameBalanced ==
  ASSUME IInv, Same, added' = added, cleaned' = cleaned
  PROVE  Balanced'
BY DEF IInv, Same, Balanced, NothingForgotten, HeldOnce

LEMMA AppendedBalanced ==
  ASSUME IInv, Appended, added' = New, cleaned' = cleaned
  PROVE  Balanced'
<1>1. added \in Nat /\ Count \in Nat
  BY DEF IInv, TypeOK, Count, remaining
<1>2. /\ Count' = Count + 1 /\ Items'[Count + 1] = added + 1
      /\ \A i \in 1 .. Count : Items'[i] = Items[i]
  BY DEF Appended, New
<1>3. 1 .. Count + 1 = (1 .. Count) \cup {Count + 1}
  BY <1>1
<1>4. \A i \in 1 .. Count : Items[i] \in 1 .. added
  BY CellSane
<1>5. {Items'[i] : i \in 1 .. Count + 1} = {Items[i] : i \in 1 .. Count} \cup {added + 1}
  BY <1>2, <1>3
<1>6. 1 .. added + 1 = (1 .. added) \cup {added + 1} /\ added + 1 \notin 1 .. added
  BY <1>1
<1>7. NothingForgotten'
  BY <1>2, <1>5, <1>6 DEF NothingForgotten, IInv, New
<1>8. HeldOnce'
  BY <1>1, <1>2, <1>3, <1>4, <1>6 DEF HeldOnce, IInv
<1> QED
  BY <1>6, <1>7, <1>8 DEF Balanced, IInv, New

\* Replacing an element: the old one is cleaned up, the new one is held.
LEMMA ReplacedBalanced ==
  ASSUME IInv, NEW k \in 1 .. Count, Replaced(k), added' = New,
         cleaned' = cleaned \cup {Items[k]}
  PROVE  Balanced'
<1>1. added \in Nat /\ Count \in Nat
  BY DEF IInv, TypeOK, Count, remaining
<1>2. Count' = Count /\ \A i \in 1 .. Count : Items'[i] = IF i = k THEN added + 1 ELSE Items[i]
  BY DEF Replaced, New
<1>3. \A i \in 1 .. Count : Items[i] \in (1 .. added) \ cleaned
  BY CellSane
<1>4. 1 .. added + 1 = (1 .. added) \cup {added + 1} /\ added + 1 \notin 1 .. added
  BY <1>1
<1>5. \A i \in 1 .. Count : i # k => Items[i] # Items[k]
  BY DEF IInv, HeldOnce
<1>6. {Items'[i] : i \in 1 .. Count} = ({Items[i] : i \in 1 .. Count} \ {Items[k]}) \cup {added + 1}
  BY <1>2, <1>5
<1>7. NothingForgotten'
  BY <1>2, <1>3, <1>4, <1>6 DEF NothingForgotten, IInv, New
<1>8. HeldOnce'
  BY <1>2, <1>3, <1>4 DEF HeldOnce, IInv
<1> QED
  BY <1>3, <1>4, <1>7, <1>8 DEF Balanced, IInv, New

LEMMA ShiftedBalanced ==
  ASSUME IInv, NEW k \in 1 .. Count, Shifted(k), added' = added,
         cleaned' = cleaned \cup {Items[k]}
  PROVE  Balanced'
<1>1. Count \in Nat
  BY DEF IInv, TypeOK, Count, remaining
<1>2. /\ Count' = Count - 1
      /\ \A i \in 1 .. Count - 1 : Items'[i] = Items[IF i < k THEN i ELSE i + 1]
  BY DEF Shifted
<1>3. \A i \in 1 .. Count : Items[i] \in (1 .. added) \ cleaned
  BY CellSane
<1>4. \A i, j \in 1 .. Count : i # j => Items[i] # Items[j]
  BY DEF IInv, HeldOnce
<1>5. \A i \in 1 .. Count - 1 : (IF i < k THEN i ELSE i + 1) \in (1 .. Count) \ {k}
  BY <1>1
<1>6. \A j \in (1 .. Count) \ {k} :
        \E i \in 1 .. Count - 1 : j = IF i < k THEN i ELSE i + 1
  <2> TAKE j \in (1 .. Count) \ {k}
  <2>1. CASE j < k
    BY <2>1, <1>1
  <2>2. CASE ~ (j < k)
    <3>1. j - 1 \in 1 .. Count - 1 /\ ~ (j - 1 < k) /\ j = (j - 1) + 1
      BY <2>2, <1>1
    <3> QED
      BY <3>1
  <2> QED
    BY <2>1, <2>2
<1>7. {Items'[i] : i \in 1 .. Count - 1} = {Items[j] : j \in (1 .. Count) \ {k}}
  BY <1>2, <1>5, <1>6
<1>8. {Items[j] : j \in (1 .. Count) \ {k}} = {Items[i] : i \in 1 .. Count} \ {Items[k]}
  BY <1>4
<1>9. NothingForgotten'
  BY <1>2, <1>7, <1>8 DEF NothingForgotten, IInv
<1>10. HeldOnce'
  <2> SUFFICES ASSUME NEW i \in 1 .. Count - 1, NEW j \in 1 .. Count - 1, i # j
               PROVE  Items'[i] # Items'[j]
    BY <1>2 DEF HeldOnce
  <2>1. (IF i < k THEN i ELSE i + 1) # (IF j < k THEN j ELSE j + 1)
    BY <1>1
  <2> QED
    BY <1>2, <1>4, <1>5, <2>1
<1> QED
  BY <1>3, <1>9, <1>10 DEF Balanced, IInv

LEMMA ClearedBalanced ==
  ASSUME IInv, Count' = 0, added' = added,
         cleaned' = cleaned \cup {Items[i] : i \in 1 .. Count}
  PROVE  Balanced'
<1>1. \A i \in 1 .. Count : Items[i] \in (1 .. added) \ cleaned
  BY CellSane
<1>2. cleaned' = 1 .. added
  BY DEF IInv, NothingForgotten
<1>3. 1 .. Count' = {}
  OBVIOUS
<1> QED
  BY <1>2, <1>3 DEF Balanced, NothingForgotten, HeldOnce
-----------------------------------------------------------------------------
LEMMA InitInv == Init => IInv
<1> SUFFICES ASSUME Init PROVE IInv
  OBVIOUS
<1>1. capacity \in Nat \ {0} /\ remaining = 0 /\ Count = 0 /\ elems \in [0 .. capacity - 1 -> Nat]
  BY VectorAssumption DEF Init, remaining, Count, GARBAGE
<1>2. TypeOK
  <2>1. /\ nelems = 0 /\ kept = 0 /\ removed = 0 /\ state = "ready" /\ added = 0
        /\ cleaned = {} /\ fault = FALSE /\ nelems <= capacity
    BY <1>1 DEF Init
  <2>3. fault \in BOOLEAN
    BY <2>1, Zenon
  <2>2. /\ nelems \in Nat /\ kept \in Nat /\ removed \in Nat
        /\ remaining <= nelems
        /\ state \in {"ready", "filter", "disposed"}
        /\ added \in Nat
        /\ cleaned \subseteq Nat
    BY <1>1, <2>1
  <2> QED
    BY <1>1, <2>1, <2>2, <2>3 DEF TypeOK
<1>3. 1 .. Count = {} /\ 1 .. added = {}
  BY <1>1 DEF Init
<1> QED
  BY <1>2, <1>3 DEF IInv, NoFault, NothingForgotten, HeldOnce, Init

LEMMA InvStep == ~ MidInsert /\ IInv /\ [Next]_vars => IInv'
<1> SUFFICES ASSUME ~ MidInsert, IInv, [Next]_vars
             PROVE  TypeOK' /\ NoFault' /\ Balanced'
  BY DEF Balanced, IInv
<1>1. CASE UNCHANGED vars
  BY <1>1 DEF vars, IInv, TypeOK, NoFault, Balanced, NothingForgotten, HeldOnce, Items,
     Count, remaining
<1>2. CASE AppendElem \/ \E index \in 0 .. nelems : Insert(index)
  <2>1. added' = New /\ cleaned' = cleaned
    BY <1>2 DEF AppendElem, Insert
  <2> QED
    BY <1>2, <2>1, AppendItems, AppendedBalanced
<1>3. ASSUME NEW index \in 0 .. nelems, Replace(index)
      PROVE  TypeOK' /\ NoFault' /\ Balanced'
  <2>1. added' = New
    BY <1>3 DEF Replace
  <2> QED
    BY <1>3, <2>1, ReplaceItems, ReplacedBalanced
<1>4. ASSUME NEW index \in 0 .. nelems, Remove(index)
      PROVE  TypeOK' /\ NoFault' /\ Balanced'
  <2>1. added' = added
    BY <1>4 DEF Remove
  <2> QED
    BY <1>4, <2>1, RemoveItems, ShiftedBalanced
<1>5. CASE Clear("ready") \/ Clear("disposed")
  BY <1>5, ClearItems, ClearedBalanced
<1>6. CASE Filter \/ FilterKeep \/ FilterEnd
  BY <1>6, SameItems, SameBalanced
<1>7. CASE FilterDrop
  BY <1>7, DropItems, ShiftedBalanced
<1> QED
  BY <1>1, <1>2, <1>3, <1>4, <1>5, <1>6, <1>7 DEF Next

THEOREM VectorInvariant == ~ MidInsert => (Spec => []IInv)
<1> SUFFICES ASSUME ~ MidInsert PROVE Spec => []IInv
  OBVIOUS
<1>1. IInv /\ [Next]_vars => IInv'
  BY InvStep
<1> QED
  BY InitInv, <1>1, PTL DEF Spec

\* As long as nothing is inserted before the end, the vector stays within its
\* array, for every capacity it begins with.
THEOREM VectorBounds == ~ MidInsert => (Spec => []TypeOK)
<1> SUFFICES ASSUME ~ MidInsert PROVE Spec => []TypeOK
  OBVIOUS
<1>1. IInv => TypeOK
  BY DEF IInv
<1> QED
  BY <1>1, VectorInvariant, PTL

\* The cleanup function is never called on an element twice, or on memory that
\* holds none.
THEOREM VectorReadsInside == ~ MidInsert => (Spec => []NoFault)
<1> SUFFICES ASSUME ~ MidInsert PROVE Spec => []NoFault
  OBVIOUS
<1>1. IInv => NoFault
  BY DEF IInv
<1> QED
  BY <1>1, VectorInvariant, PTL

\* It forgets no element: each is held or was cleaned up, and not both.
THEOREM VectorSafety == ~ MidInsert => (Spec => []NothingForgotten)
<1> SUFFICES ASSUME ~ MidInsert PROVE Spec => []NothingForgotten
  OBVIOUS
<1>1. IInv => NothingForgotten
  BY DEF IInv
<1> QED
  BY <1>1, VectorInvariant, PTL

\* It holds no element twice.
THEOREM VectorHoldsOnce == ~ MidInsert => (Spec => []HeldOnce)
<1> SUFFICES ASSUME ~ MidInsert PROVE Spec => []HeldOnce
  OBVIOUS
<1>1. IInv => HeldOnce
  BY DEF IInv
<1> QED
  BY <1>1, VectorInvariant, PTL
-----------------------------------------------------------------------------
(***************************************************************************)
(* The vector implements ElementList.                                      *)
(***************************************************************************)
LEMMA ItemsSeq ==
  ASSUME TypeOK
  PROVE  /\ Count \in Nat /\ Len(Items) = Count /\ DOMAIN Items = 1 .. Count
         /\ Items \in Seq({Items[i] : i \in 1 .. Count})
<1>1. Count \in Nat
  BY DEF TypeOK, Count, remaining
<1>2. DOMAIN Items = 1 .. Count /\ Items = [i \in 1 .. Count |-> Items[i]]
  BY DEF Items
<1>3. Items \in [1 .. Count -> {Items[i] : i \in 1 .. Count}]
  BY <1>2
<1>4. Items \in Seq({Items[i] : i \in 1 .. Count})
  BY <1>1, <1>3
<1>5. Len(Items) \in Nat /\ DOMAIN Items = 1 .. Len(Items)
  BY <1>4, LenProperties
<1> QED
  BY <1>1, <1>2, <1>4, <1>5

\* A list of the length of Items' with its elements is Items'.
LEMMA ItemsNext ==
  ASSUME TypeOK', NEW f, f = [i \in 1 .. Count' |-> f[i]],
         \A i \in 1 .. Count' : Items'[i] = f[i]
  PROVE  Items' = f
<1>1. Items' = [i \in 1 .. Count' |-> Items'[i]]
  BY DEF Items
<1> QED
  BY <1>1

LEMMA InitList == Init => List!Init
<1> SUFFICES ASSUME Init PROVE List!Init
  OBVIOUS
<1>1. Count = 0 /\ state = "ready" /\ added = 0 /\ cleaned = {}
  BY DEF Init, Count
<1>2. Items = <<>>
  BY <1>1 DEF Items
<1> QED
  BY <1>1, <1>2 DEF List!Init

LEMMA AddList ==
  ASSUME IInv, ~ MidInsert, AppendElem \/ \E index \in 0 .. nelems : Insert(index)
  PROVE  List!Add
<1>1. Appended /\ TypeOK' /\ TypeOK
  BY AppendItems DEF IInv
<1>2. /\ state = "ready" /\ state' = "ready" /\ added < MaxElems /\ added' = New
      /\ cleaned' = cleaned
  BY DEF AppendElem, Insert, Ready, Room
<1> DEFINE S == {Items[i] : i \in 1 .. Count} \cup {New}
           f == Append(Items, New)
<1>3. Items \in Seq(S) /\ Len(Items) = Count /\ Count \in Nat /\ New \in S
  BY <1>1, ItemsSeq
<1>4. /\ f \in Seq(S) /\ Len(f) = Count + 1 /\ f[Count + 1] = New
      /\ \A i \in 1 .. Count : f[i] = Items[i]
  BY <1>3, AppendProperties
<1>5. f = [i \in 1 .. Count + 1 |-> f[i]]
  BY <1>4, LenProperties
<1>6. 1 .. Count + 1 = (1 .. Count) \cup {Count + 1}
  BY <1>3
<1>7. Items' = f
  BY <1>1, <1>4, <1>5, <1>6, ItemsNext DEF Appended
<1> QED
  BY <1>2, <1>7 DEF List!Add, List!New, New

LEMMA ReplaceList ==
  ASSUME IInv, NEW index \in 0 .. nelems, Replace(index)
  PROVE  \E i \in DOMAIN Items : List!Replace(i)
<1> DEFINE k == index + 1
           f == [Items EXCEPT ![k] = New]
<1>1. /\ Replaced(k) /\ k \in 1 .. Count /\ TypeOK' /\ TypeOK
      /\ cleaned' = cleaned \cup {Items[k]}
  BY ReplaceItems DEF IInv
<1>2. /\ state = "ready" /\ state' = "ready" /\ added < MaxElems /\ added' = New
  BY DEF Replace, Ready, Room
<1>3. DOMAIN Items = 1 .. Count
  BY <1>1, ItemsSeq
<1>4. Items' = f
  <2>1. /\ Count' = Count /\ f = [i \in 1 .. Count |-> f[i]]
        /\ \A i \in 1 .. Count : f[i] = IF i = k THEN New ELSE Items[i]
    BY <1>1, <1>3 DEF Replaced
  <2>2. \A i \in 1 .. Count : Items'[i] = f[i]
    BY <1>1, <2>1 DEF Replaced
  <2> QED
    BY <1>1, <2>1, <2>2, ItemsNext
<1>5. List!Replace(k)
  BY <1>1, <1>2, <1>4 DEF List!Replace, List!New, New
<1> QED
  BY <1>1, <1>3, <1>5

LEMMA WithoutList ==
  ASSUME TypeOK, TypeOK', NEW k \in 1 .. Count, Shifted(k)
  PROVE  Items' = List!Without(Items, k)
<1> DEFINE f == List!Without(Items, k)
<1>1. Len(Items) = Count /\ Count \in Nat
  BY ItemsSeq
<1>2. f = [i \in 1 .. Count - 1 |-> IF i < k THEN Items[i] ELSE Items[i + 1]]
  BY <1>1 DEF List!Without
<1> QED
  BY <1>2, ItemsNext DEF Shifted

LEMMA RemoveList ==
  ASSUME IInv, NEW index \in 0 .. nelems, Remove(index)
  PROVE  \E i \in DOMAIN Items : List!Remove(i)
<1>1. /\ Shifted(index + 1) /\ index + 1 \in 1 .. Count /\ TypeOK' /\ TypeOK
      /\ cleaned' = cleaned \cup {Items[index + 1]}
  BY RemoveItems DEF IInv
<1>2. state = "ready" /\ state' = "ready" /\ added' = added
  BY DEF Remove, Ready
<1>3. Items' = List!Without(Items, index + 1) /\ DOMAIN Items = 1 .. Count
  BY <1>1, WithoutList, ItemsSeq
<1>4. List!Remove(index + 1)
  BY <1>1, <1>2, <1>3 DEF List!Remove
<1> QED
  BY <1>1, <1>3, <1>4

LEMMA ClearList ==
  ASSUME IInv, NEW next \in {"ready", "disposed"}, Clear(next)
  PROVE  List!Clear(next)
<1>1. /\ Items' = <<>> /\ added' = added
      /\ cleaned' = cleaned \cup {Items[i] : i \in 1 .. Count}
  BY ClearItems
<1>2. state = "ready" /\ state' = next
  BY DEF Clear, Ready
<1>3. List!Elements = {Items[i] : i \in 1 .. Count}
  BY ItemsSeq DEF IInv, List!Elements
<1>4. (IF state' = "filter" THEN nelems' - remaining' ELSE 0)
        = (IF state = "filter" THEN nelems - remaining ELSE 0)
  BY <1>2
<1> QED
  BY <1>1, <1>2, <1>3, <1>4 DEF List!Clear

\* The turns of the loop of cvec_filter.
LEMMA FilterList ==
  ASSUME IInv, Filter \/ FilterKeep \/ FilterDrop \/ FilterEnd
  PROVE  List!Filter \/ List!Keep \/ List!Drop \/ List!Filtered
<1>1. /\ TypeOK /\ kept \in Nat /\ removed \in Nat /\ nelems \in Nat
      /\ Len(Items) = Count /\ Count = nelems - removed
  BY ItemsSeq DEF IInv, TypeOK, Count
<1>2. CASE Filter
  <2>1. Same /\ added' = added /\ cleaned' = cleaned
    BY <1>2, SameItems
  <2>2. state = "ready" /\ removed = 0
    BY <1>1, <1>2, ReadyItems DEF Filter, Ready
  <2>3. /\ state' = "filter" /\ nelems' = nelems /\ remaining' = 0
    BY <1>2 DEF Filter, remaining
  <2>4. nelems' - remaining' = Len(Items)
    BY <1>1, <2>2, <2>3
  <2> QED
    BY <2>1, <2>2, <2>3, <2>4 DEF List!Filter, Same
<1>3. CASE FilterKeep
  <2>1. Same /\ added' = added /\ cleaned' = cleaned
    BY <1>3, SameItems
  <2>2. /\ state = "filter" /\ state' = "filter" /\ nelems' = nelems
        /\ remaining < nelems /\ remaining' = kept + 1 + removed
    BY <1>3 DEF FilterKeep, Filtering, remaining
  <2>3. nelems' - remaining' = (nelems - remaining) - 1 /\ nelems - remaining > 0
    BY <1>1, <2>2 DEF remaining
  <2> QED
    BY <2>1, <2>2, <2>3 DEF List!Keep, Same
<1>4. CASE FilterDrop
  <2>1. /\ Shifted(kept + 1) /\ kept + 1 \in 1 .. Count /\ TypeOK' /\ added' = added
        /\ cleaned' = cleaned \cup {Items[kept + 1]}
    BY <1>4, DropItems
  <2>2. /\ state = "filter" /\ state' = "filter" /\ nelems' = nelems
        /\ remaining < nelems /\ remaining' = kept + (removed + 1)
    BY <1>4 DEF FilterDrop, Filtering, remaining
  <2>3. nelems' - remaining' = (nelems - remaining) - 1 /\ nelems - remaining > 0
    BY <1>1, <2>2 DEF remaining
  <2>4. Len(Items) - (nelems - remaining) + 1 = kept + 1
    BY <1>1 DEF remaining
  <2>5. Items' = List!Without(Items, kept + 1)
    BY <1>1, <2>1, WithoutList
  <2> QED
    BY <2>1, <2>2, <2>3, <2>4, <2>5 DEF List!Drop
<1>5. CASE FilterEnd
  <2>1. Same /\ added' = added /\ cleaned' = cleaned
    BY <1>5, SameItems
  <2>2. state = "filter" /\ state' = "ready" /\ nelems - remaining = 0
    BY <1>1, <1>5 DEF FilterEnd, Filtering
  <2> QED
    BY <2>1, <2>2 DEF List!Filtered, Same
<1> QED
  BY <1>2, <1>3, <1>4, <1>5

LEMMA StepList == ~ MidInsert /\ IInv /\ [Next]_vars => [List!Next]_(List!vars)
<1> SUFFICES ASSUME ~ MidInsert, IInv, [Next]_vars
             PROVE  List!Next \/ UNCHANGED List!vars
  BY DEF List!vars
<1> USE DEF List!Next
<1>1. CASE UNCHANGED vars
  BY <1>1 DEF vars, List!vars, Items, Count, remaining
<1>2. CASE AppendElem \/ \E index \in 0 .. nelems : Insert(index)
  BY <1>2, AddList
<1>3. CASE \E index \in 0 .. nelems : Replace(index) \/ Remove(index)
  BY <1>3, ReplaceList, RemoveList
<1>4. CASE Clear("ready") \/ Clear("disposed")
  BY <1>4, ClearList
<1>5. CASE Filter \/ FilterKeep \/ FilterDrop \/ FilterEnd
  BY <1>5, FilterList
<1> QED
  BY <1>1, <1>2, <1>3, <1>4, <1>5 DEF Next

\* cvec_filter and the other operations do to the array what cvector.h says
\* they do to a list: in particular the elements kept stay in their order.
THEOREM VectorImplementsList == ~ MidInsert => (Spec => ImplementsList)
<1> SUFFICES ASSUME ~ MidInsert PROVE Spec => ImplementsList
  OBVIOUS
<1>1. IInv /\ [Next]_vars => [List!Next]_(List!vars)
  BY StepList
<1> QED
  BY InitList, <1>1, VectorInvariant, PTL DEF Spec, ImplementsList, List!Spec
=============================================================================
