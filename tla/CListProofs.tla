---------------------------- MODULE CListProofs ----------------------------
(***************************************************************************)
(* Proofs about CList, for any number of elements.                         *)
(***************************************************************************)
EXTENDS CList, TLAPS, SequenceTheorems, WellFoundedInduction

\* A set of natural numbers that is not empty has a first element.
LEMMA FirstExists ==
  ASSUME NEW S \in SUBSET Nat, S # {}
  PROVE  \E i \in S : \A j \in S : i <= j
<1> DEFINE Less == OpToRel(<, Nat)
<1>1. IsWellFoundedOn(Less, Nat)
  BY NatLessThanWellFounded DEF Less
<1>2. PICK i \in S : \A j \in S : ~ (<<j, i>> \in Less)
  BY <1>1, WFMin
<1>3. \A j, k \in Nat : <<j, k>> \in Less <=> j < k
  BY DEF Less, OpToRel
<1>4. \A j \in S : ~ (j < i)
  BY <1>2, <1>3
<1>5. \A j \in S : i <= j
  BY <1>4
<1> QED
  BY <1>5

-----------------------------------------------------------------------------
(***************************************************************************)
(* Chains.  The n nodes of q, all of them in lv, are linked in this order  *)
(* from f to b by nx, and in the opposite one by pv.                       *)
(***************************************************************************)
IsChain(q, n, f, b, nx, pv, lv) ==
  /\ q \in [1 .. n -> lv]
  /\ \A i, j \in 1 .. n : q[i] = q[j] => i = j
  /\ f = IF n = 0 THEN NULL ELSE q[1]
  /\ b = IF n = 0 THEN NULL ELSE q[n]
  /\ \A i \in 1 .. n : nx[q[i]] = IF i = n THEN NULL ELSE q[i + 1]
  /\ \A i \in 1 .. n : pv[q[i]] = IF i = 1 THEN NULL ELSE q[i - 1]

\* What the recursive function in Follow satisfies.
Follows(at, m, links, k) ==
  at = [i \in 0 .. k |->
          IF i = 0 THEN m ELSE IF at[i - 1] = NULL THEN NULL ELSE links[at[i - 1]]]

LEMMA FollowsOnce ==
  ASSUME NEW m, NEW links, NEW k \in Nat, NEW f, NEW g,
         Follows(f, m, links, k), Follows(g, m, links, k)
  PROVE  f = g
<1> DEFINE Differ == {i \in 0 .. k : f[i] # g[i]}
<1>1. ASSUME Differ # {} PROVE FALSE
  <2>1. Differ \in SUBSET Nat
    OBVIOUS
  <2>2. PICK i \in Differ : \A j \in Differ : i <= j
    BY <1>1, <2>1, FirstExists
  <2>3. /\ f[i] = IF i = 0 THEN m ELSE IF f[i - 1] = NULL THEN NULL ELSE links[f[i - 1]]
        /\ g[i] = IF i = 0 THEN m ELSE IF g[i - 1] = NULL THEN NULL ELSE links[g[i - 1]]
    BY DEF Follows
  <2>4. i # 0 => i - 1 \in 0 .. k /\ i - 1 \notin Differ
    BY <2>2
  <2> QED
    BY <2>2, <2>3, <2>4
<1>2. \A i \in 0 .. k : f[i] = g[i]
  BY <1>1
<1>3. f = [i \in 0 .. k |-> f[i]] /\ g = [i \in 0 .. k |-> g[i]]
  BY DEF Follows
<1> HIDE DEF Differ
<1> QED
  BY <1>2, <1>3

LEMMA FollowIs ==
  ASSUME NEW m, NEW links, NEW k \in Nat, NEW g, Follows(g, m, links, k)
  PROVE  Follow(m, links, k) = g
<1> DEFINE h == CHOOSE f : Follows(f, m, links, k)
<1>1. Follows(h, m, links, k)
  OBVIOUS
<1>2. Follow(m, links, k) = h
  BY DEF Follow, Follows
<1> QED
  BY <1>1, <1>2, FollowsOnce

\* The walks along a chain meet its nodes, in one order and in the other, and
\* come to NULL after them.
LEMMA ChainForward ==
  ASSUME NEW q, NEW n \in Nat, NEW f, NEW b, NEW nx, NEW pv, NEW lv,
         IsChain(q, n, f, b, nx, pv, lv), NULL \notin lv
  PROVE  \A i \in 0 .. n : Follow(f, nx, n)[i] = IF i = n THEN NULL ELSE q[i + 1]
<1> DEFINE g == [i \in 0 .. n |-> IF i = n THEN NULL ELSE q[i + 1]]
<1>1. g[0] = f
  BY DEF IsChain
<1>2. ASSUME NEW i \in 1 .. n
      PROVE  g[i] = IF g[i - 1] = NULL THEN NULL ELSE nx[g[i - 1]]
  <2>1. g[i - 1] = q[i] /\ q[i] # NULL
    BY DEF IsChain
  <2>2. g[i] = nx[q[i]]
    BY DEF IsChain
  <2> HIDE DEF g
  <2> QED
    BY <2>1, <2>2
<1>3. g = [i \in 0 .. n |-> g[i]]
  OBVIOUS
<1> HIDE DEF g
<1>4. \A i \in 0 .. n : i # 0 => i \in 1 .. n
  OBVIOUS
<1>5. Follows(g, f, nx, n)
  BY <1>1, <1>2, <1>3, <1>4 DEF Follows
<1>6. Follow(f, nx, n) = g
  BY <1>5, FollowIs
<1> QED
  BY <1>6 DEF g

LEMMA ChainBackward ==
  ASSUME NEW q, NEW n \in Nat, NEW f, NEW b, NEW nx, NEW pv, NEW lv,
         IsChain(q, n, f, b, nx, pv, lv), NULL \notin lv
  PROVE  \A i \in 0 .. n : Follow(b, pv, n)[i] = IF i = n THEN NULL ELSE q[n - i]
<1> DEFINE g == [i \in 0 .. n |-> IF i = n THEN NULL ELSE q[n - i]]
<1>1. g[0] = b
  BY DEF IsChain
<1>2. ASSUME NEW i \in 1 .. n
      PROVE  g[i] = IF g[i - 1] = NULL THEN NULL ELSE pv[g[i - 1]]
  <2> DEFINE j == n - (i - 1)
  <2>1. j \in 1 .. n /\ (j = 1 <=> i = n) /\ j - 1 = n - i /\ i - 1 \in 0 .. n /\ i - 1 # n
    OBVIOUS
  <2>2. g[i - 1] = q[j] /\ g[i] = IF j = 1 THEN NULL ELSE q[j - 1]
    BY <2>1
  <2> HIDE DEF g, j
  <2>3. q[j] # NULL /\ pv[q[j]] = IF j = 1 THEN NULL ELSE q[j - 1]
    BY <2>1 DEF IsChain
  <2> QED
    BY <2>2, <2>3
<1>3. g = [i \in 0 .. n |-> g[i]]
  OBVIOUS
<1> HIDE DEF g
<1>4. \A i \in 0 .. n : i # 0 => i \in 1 .. n
  OBVIOUS
<1>5. Follows(g, b, pv, n)
  BY <1>1, <1>2, <1>3, <1>4 DEF Follows
<1>6. Follow(b, pv, n) = g
  BY <1>5, FollowIs
<1> QED
  BY <1>6 DEF g

-----------------------------------------------------------------------------
(***************************************************************************)
(* Chains change.                                                          *)
(***************************************************************************)

\* The node before place k of q, and the one that is there.
Left(q, k)     == IF k = 1 THEN NULL ELSE q[k - 1]
Right(q, n, k) == IF k = n + 1 THEN NULL ELSE q[k]

\* q with x at place k, and q without its k-th node.
With(q, n, k, x) ==
  [i \in 1 .. n + 1 |-> IF i < k THEN q[i] ELSE IF i = k THEN x ELSE q[i - 1]]
Without(q, n, k) == [i \in 1 .. n - 1 |-> IF i < k THEN q[i] ELSE q[i + 1]]

LEMMA NodesNotNull == NULL \notin Nodes
BY ListAssumption DEF Nodes, NULL

LEMMA ChainWith ==
  ASSUME NEW q, NEW n \in Nat, NEW f, NEW b, NEW lv \in SUBSET Nodes,
         NEW nx \in [Nodes -> Nodes \cup {NULL}], NEW pv \in [Nodes -> Nodes \cup {NULL}],
         IsChain(q, n, f, b, nx, pv, lv),
         NEW k \in 1 .. n + 1, NEW x \in Nodes \ lv,
         NEW f1, f1 = IF Left(q, k) = NULL THEN x ELSE f,
         NEW b1, b1 = IF Right(q, n, k) = NULL THEN x ELSE b,
         NEW nx1, nx1 = [SetLink(nx, Left(q, k), x) EXCEPT ![x] = Right(q, n, k)],
         NEW pv1, pv1 = [SetLink(pv, Right(q, n, k), x) EXCEPT ![x] = Left(q, k)],
         NEW lv1, lv1 = lv \cup {x}
  PROVE  IsChain(With(q, n, k, x), n + 1, f1, b1, nx1, pv1, lv1)
<1> USE DEF Left, Right
<1> DEFINE r == With(q, n, k, x)
           p == Left(q, k)
           s == Right(q, n, k)
<1>1. /\ q \in [1 .. n -> lv]
      /\ \A i, j \in 1 .. n : q[i] = q[j] => i = j
      /\ \A i \in 1 .. n : nx[q[i]] = IF i = n THEN NULL ELSE q[i + 1]
      /\ \A i \in 1 .. n : pv[q[i]] = IF i = 1 THEN NULL ELSE q[i - 1]
  BY DEF IsChain
<1>2. \A i \in 1 .. n : q[i] \in Nodes /\ q[i] # NULL /\ q[i] # x
  BY <1>1, NodesNotNull
<1>3. /\ r \in [1 .. n + 1 -> lv1]
      /\ r[k] = x
      /\ \A i \in 1 .. k - 1 : r[i] = q[i]
      /\ \A i \in k + 1 .. n + 1 : r[i] = q[i - 1]
  BY <1>1 DEF With
<1>4. \A i \in 1 .. n + 1 : i \in 1 .. k - 1 \/ i = k \/ i \in k + 1 .. n + 1
  OBVIOUS
<1>5. nx1[x] = s /\ pv1[x] = p
  BY DEF SetLink
<1>6. \A m \in lv : /\ nx1[m] = IF m = p THEN x ELSE nx[m]
                    /\ pv1[m] = IF m = s THEN x ELSE pv[m]
  BY DEF SetLink, Nodes, NULL
<1>7. (p = NULL <=> k = 1) /\ (s = NULL <=> k = n + 1)
  BY <1>2
<1> HIDE DEF r
<1>8. \A i, j \in 1 .. n + 1 : r[i] = r[j] => i = j
  <2> SUFFICES ASSUME NEW i \in 1 .. n + 1, NEW j \in 1 .. n + 1, r[i] = r[j], i # j
               PROVE  FALSE
    OBVIOUS
  <2> DEFINE Origin(l) == IF l < k THEN l ELSE l - 1
  <2>1. \A l \in 1 .. n + 1 : l # k => Origin(l) \in 1 .. n /\ r[l] = q[Origin(l)]
    BY <1>3
  <2>2. i # k /\ j # k => Origin(i) # Origin(j)
    OBVIOUS
  <2> HIDE DEF Origin
  <2>3. CASE i # k /\ j # k
    BY <1>1, <2>1, <2>2, <2>3
  <2>4. CASE i = k \/ j = k
    <3>1. PICK l \in 1 .. n + 1 : l # k /\ r[l] = x
      BY <1>3, <2>4
    <3>2. Origin(l) \in 1 .. n /\ q[Origin(l)] = x
      BY <2>1, <3>1
    <3> QED
      BY <1>2, <3>2
  <2> QED
    BY <2>3, <2>4
<1>9. f1 = IF n + 1 = 0 THEN NULL ELSE r[1]
  BY <1>3, <1>7 DEF IsChain
<1>10. b1 = IF n + 1 = 0 THEN NULL ELSE r[n + 1]
  BY <1>3, <1>7 DEF IsChain
<1>11. ASSUME NEW i \in 1 .. n + 1
       PROVE  nx1[r[i]] = IF i = n + 1 THEN NULL ELSE r[i + 1]
  <2>1. CASE i = k
    BY <1>3, <1>5, <2>1
  <2>2. CASE i \in 1 .. k - 1
    <3>1. r[i] = q[i] /\ i \in 1 .. n /\ q[i] \in lv
      BY <1>1, <1>3, <2>2
    <3>2. q[i] = p <=> i = k - 1
      BY <1>1, <1>2, <2>2, <3>1
    <3> QED
      BY <1>1, <1>3, <1>6, <2>2, <3>1, <3>2
  <2>3. CASE i \in k + 1 .. n + 1
    <3>1. r[i] = q[i - 1] /\ i - 1 \in 1 .. n /\ q[i - 1] \in lv
      BY <1>1, <1>3, <2>3
    <3>2. q[i - 1] # p
      BY <1>1, <1>2, <2>3, <3>1
    <3> QED
      BY <1>1, <1>3, <1>6, <2>3, <3>1, <3>2
  <2> QED
    BY <1>4, <2>1, <2>2, <2>3
<1>12. ASSUME NEW i \in 1 .. n + 1
       PROVE  pv1[r[i]] = IF i = 1 THEN NULL ELSE r[i - 1]
  <2>1. CASE i = k
    BY <1>3, <1>5, <2>1
  <2>2. CASE i \in 1 .. k - 1
    <3>1. r[i] = q[i] /\ i \in 1 .. n /\ q[i] \in lv
      BY <1>1, <1>3, <2>2
    <3>2. q[i] # s
      <4>1. s = NULL \/ (k \in 1 .. n /\ s = q[k] /\ k # i)
        BY <2>2
      <4> QED
        BY <1>1, <1>2, <3>1, <4>1
    <3> QED
      BY <1>1, <1>3, <1>6, <2>2, <3>1, <3>2
  <2>3. CASE i \in k + 1 .. n + 1
    <3>1. r[i] = q[i - 1] /\ i - 1 \in 1 .. n /\ q[i - 1] \in lv
      BY <1>1, <1>3, <2>3
    <3>2. q[i - 1] = s <=> i = k + 1
      BY <1>1, <1>2, <2>3, <3>1
    <3>3. CASE i = k + 1
      BY <1>3, <1>6, <3>1, <3>2, <3>3
    <3>4. CASE i # k + 1
      <4>1. i - 1 \in k + 1 .. n + 1 /\ i - 1 # 1 /\ i # 1
        BY <2>3, <3>4
      <4>2. r[i - 1] = q[(i - 1) - 1]
        BY <1>3, <4>1
      <4> QED
        BY <1>1, <1>6, <3>1, <3>2, <3>4, <4>1, <4>2
    <3> QED
      BY <3>3, <3>4
  <2> QED
    BY <1>4, <2>1, <2>2, <2>3
<1>13. IsChain(r, n + 1, f1, b1, nx1, pv1, lv1)
  BY <1>3, <1>8, <1>9, <1>10, <1>11, <1>12 DEF IsChain
<1> QED
  BY <1>13 DEF r

\* The nodes p and s on both sides of x, the k-th of q, are linked with each other.
Joins(q, k, x, p, s, f, b, nx, pv, f1, b1, nx1, pv1) ==
  /\ x = q[k] /\ p = pv[x] /\ s = nx[x]
  /\ f1 = IF p = NULL THEN s ELSE f
  /\ b1 = IF s = NULL THEN p ELSE b
  /\ nx1 = SetLink(nx, p, s)
  /\ pv1 = SetLink(pv, s, p)

LEMMA ChainWithout ==
  ASSUME NEW q, NEW n \in Nat, NEW f, NEW b, NEW lv \in SUBSET Nodes,
         NEW nx \in [Nodes -> Nodes \cup {NULL}], NEW pv \in [Nodes -> Nodes \cup {NULL}],
         IsChain(q, n, f, b, nx, pv, lv),
         NEW k \in 1 .. n, NEW x,
         NEW p, NEW s, NEW f1, NEW b1, NEW nx1, NEW pv1,
         Joins(q, k, x, p, s, f, b, nx, pv, f1, b1, nx1, pv1),
         NEW lv1, lv1 \in {lv, lv \ {x}},
         NEW n1, n1 = n - 1
  PROVE  IsChain(Without(q, n, k), n1, f1, b1, nx1, pv1, lv1)
<1> USE DEF Joins
<1> DEFINE r == Without(q, n, k)
<1>1. /\ q \in [1 .. n -> lv]
      /\ \A i, j \in 1 .. n : q[i] = q[j] => i = j
      /\ \A i \in 1 .. n : nx[q[i]] = IF i = n THEN NULL ELSE q[i + 1]
      /\ \A i \in 1 .. n : pv[q[i]] = IF i = 1 THEN NULL ELSE q[i - 1]
  BY DEF IsChain
<1>2. \A i \in 1 .. n : q[i] \in Nodes /\ q[i] # NULL
  BY <1>1, NodesNotNull
<1>3. /\ r \in [1 .. n - 1 -> lv1]
      /\ \A i \in 1 .. k - 1 : r[i] = q[i]
      /\ \A i \in k .. n - 1 : r[i] = q[i + 1]
  BY <1>1 DEF Without
<1>4. \A i \in 1 .. n - 1 : i \in 1 .. k - 1 \/ i \in k .. n - 1
  OBVIOUS
<1>5. x \in lv /\ p = (IF k = 1 THEN NULL ELSE q[k - 1]) /\ s = (IF k = n THEN NULL ELSE q[k + 1])
  BY <1>1
<1>6. (p = NULL <=> k = 1) /\ (s = NULL <=> k = n)
  BY <1>2, <1>5
<1>7. \A m \in lv : /\ nx1[m] = IF m = p THEN s ELSE nx[m]
                    /\ pv1[m] = IF m = s THEN p ELSE pv[m]
  BY DEF SetLink, Nodes, NULL
<1> HIDE DEF r
<1>8. \A i, j \in 1 .. n - 1 : r[i] = r[j] => i = j
  <2> SUFFICES ASSUME NEW i \in 1 .. n - 1, NEW j \in 1 .. n - 1, r[i] = r[j], i # j
               PROVE  FALSE
    OBVIOUS
  <2> DEFINE Origin(l) == IF l < k THEN l ELSE l + 1
  <2>1. \A l \in 1 .. n - 1 : Origin(l) \in 1 .. n /\ r[l] = q[Origin(l)]
    BY <1>3
  <2>2. Origin(i) # Origin(j)
    OBVIOUS
  <2> HIDE DEF Before
  <2> QED
    BY <1>1, <2>1, <2>2
<1>9. f1 = IF n - 1 = 0 THEN NULL ELSE r[1]
  BY <1>3, <1>5, <1>6 DEF IsChain
<1>10. b1 = IF n - 1 = 0 THEN NULL ELSE r[n - 1]
  BY <1>3, <1>5, <1>6 DEF IsChain
<1>11. ASSUME NEW i \in 1 .. n - 1
       PROVE  nx1[r[i]] = IF i = n - 1 THEN NULL ELSE r[i + 1]
  <2>1. CASE i \in 1 .. k - 1
    <3>1. r[i] = q[i] /\ i \in 1 .. n /\ i # n /\ q[i] \in lv
      BY <1>1, <1>3, <2>1
    <3>2. q[i] = p <=> i = k - 1
      BY <1>1, <1>2, <1>5, <2>1, <3>1
    <3> QED
      BY <1>1, <1>3, <1>5, <1>7, <2>1, <3>1, <3>2
  <2>2. CASE i \in k .. n - 1
    <3>1. r[i] = q[i + 1] /\ i + 1 \in 1 .. n /\ q[i + 1] \in lv
      BY <1>1, <1>3, <2>2
    <3>2. q[i + 1] # p
      BY <1>1, <1>2, <1>5, <2>2, <3>1
    <3> QED
      BY <1>1, <1>3, <1>7, <2>2, <3>1, <3>2
  <2> QED
    BY <1>4, <2>1, <2>2
<1>12. ASSUME NEW i \in 1 .. n - 1
       PROVE  pv1[r[i]] = IF i = 1 THEN NULL ELSE r[i - 1]
  <2>1. CASE i \in 1 .. k - 1
    <3>1. r[i] = q[i] /\ i \in 1 .. n /\ q[i] \in lv
      BY <1>1, <1>3, <2>1
    <3>2. q[i] # s
      BY <1>1, <1>2, <1>5, <2>1, <3>1
    <3> QED
      BY <1>1, <1>3, <1>7, <2>1, <3>1, <3>2
  <2>2. CASE i \in k .. n - 1
    <3>1. r[i] = q[i + 1] /\ i + 1 \in 1 .. n /\ q[i + 1] \in lv
      BY <1>1, <1>3, <2>2
    <3>2. q[i + 1] = s <=> i = k
      BY <1>1, <1>2, <1>5, <2>2, <3>1
    <3> QED
      BY <1>1, <1>3, <1>5, <1>7, <2>2, <3>1, <3>2
  <2> QED
    BY <1>4, <2>1, <2>2
<1>13. IsChain(r, n - 1, f1, b1, nx1, pv1, lv1)
  BY <1>3, <1>8, <1>9, <1>10, <1>11, <1>12 DEF IsChain
<1> QED
  BY <1>13 DEF r
-----------------------------------------------------------------------------
(***************************************************************************)
(* Putting into and taking out of a sequence, place by place.              *)
(***************************************************************************)
LEMMA InsertAtIs ==
  ASSUME NEW S, NEW q \in Seq(S), NEW k \in 1 .. Len(q) + 1, NEW x \in S
  PROVE  InsertAt(q, k, x) = With(q, Len(q), k, x)
<1> DEFINE n == Len(q)
           a == SubSeq(q, 1, k - 1)
           b == SubSeq(q, k, n)
           ax == a \o <<x>>
           r == ax \o b
<1>1. n \in Nat /\ \A i \in 1 .. n : q[i] \in S
  OBVIOUS
<1> HIDE DEF n
<1>2. \A i \in 1 .. k - 1 : q[i] \in S
  BY <1>1 DEF n
<1>3. \A i \in k .. n : q[i] \in S
  BY <1>1 DEF n
<1>4. k \in Int /\ k - 1 \in Int /\ 1 <= k /\ k <= n + 1
  BY <1>1 DEF n
<1>5. /\ a \in Seq(S) /\ Len(a) = k - 1
      /\ \A i \in 1 .. k - 1 : a[i] = q[i]
  BY <1>1, <1>2, <1>4, SubSeqProperties
<1>6. /\ b \in Seq(S) /\ Len(b) = n - k + 1
      /\ \A i \in 1 .. n - k + 1 : b[i] = q[k + i - 1]
  BY <1>1, <1>3, <1>4, SubSeqProperties
<1>7. <<x>> \in Seq(S) /\ Len(<<x>>) = 1 /\ <<x>>[1] = x
  OBVIOUS
<1> HIDE DEF a, b
<1>8. /\ ax \in Seq(S) /\ Len(ax) = k
      /\ \A i \in 1 .. k : ax[i] = IF i <= k - 1 THEN a[i] ELSE x
  <2>1. /\ ax \in Seq(S) /\ Len(ax) = (k - 1) + 1
        /\ \A i \in 1 .. (k - 1) + 1 : ax[i] = IF i <= k - 1 THEN a[i] ELSE <<x>>[i - (k - 1)]
    BY <1>5, <1>7, ConcatProperties
  <2> QED
    BY <1>4, <1>7, <2>1
<1> HIDE DEF ax
<1>9. /\ r \in Seq(S) /\ Len(r) = n + 1
      /\ \A i \in 1 .. n + 1 : r[i] = IF i <= k THEN ax[i] ELSE b[i - k]
  <2>1. /\ r \in Seq(S) /\ Len(r) = Len(ax) + Len(b)
        /\ \A i \in 1 .. Len(ax) + Len(b) :
             r[i] = IF i <= Len(ax) THEN ax[i] ELSE b[i - Len(ax)]
    BY <1>6, <1>8, ConcatProperties
  <2>2. Len(ax) = k /\ Len(ax) + Len(b) = n + 1
    BY <1>1, <1>4, <1>6, <1>8
  <2> HIDE DEF r
  <2> QED
    BY <2>1, <2>2
<1> HIDE DEF r
<1>10. \A i \in 1 .. n + 1 : r[i] = IF i < k THEN q[i] ELSE IF i = k THEN x ELSE q[i - 1]
  <2> TAKE i \in 1 .. n + 1
  <2>1. CASE i < k
    BY <1>4, <1>5, <1>8, <1>9, <2>1
  <2>2. CASE i = k
    BY <1>4, <1>8, <1>9, <2>2
  <2>3. CASE i > k
    <3>1. i - k \in 1 .. n - k + 1 /\ k + (i - k) - 1 = i - 1 /\ ~ (i <= k)
      BY <1>1, <1>4, <2>3
    <3> QED
      BY <1>4, <1>6, <1>9, <2>3, <3>1
  <2> QED
    BY <1>4, <2>1, <2>2, <2>3
<1>11. r = [i \in 1 .. n + 1 |-> r[i]]
  BY <1>9
<1>12. InsertAt(q, k, x) = r
  BY DEF InsertAt, r, ax, a, b, n
<1> QED
  BY <1>10, <1>11, <1>12 DEF With, n

LEMMA RemoveAtIs ==
  ASSUME NEW S, NEW q \in Seq(S), NEW k \in 1 .. Len(q)
  PROVE  RemoveAt(q, k) = Without(q, Len(q), k)
<1> DEFINE n == Len(q)
           a == SubSeq(q, 1, k - 1)
           b == SubSeq(q, k + 1, n)
           r == a \o b
<1>1. n \in Nat /\ \A i \in 1 .. n : q[i] \in S
  OBVIOUS
<1> HIDE DEF n
<1>2. \A i \in 1 .. k - 1 : q[i] \in S
  BY <1>1 DEF n
<1>3. \A i \in k + 1 .. n : q[i] \in S
  BY <1>1 DEF n
<1>4. k \in Int /\ k - 1 \in Int /\ k + 1 \in Int /\ 1 <= k /\ k <= n
  BY <1>1 DEF n
<1>5. /\ a \in Seq(S) /\ Len(a) = k - 1
      /\ \A i \in 1 .. k - 1 : a[i] = q[i]
  BY <1>1, <1>2, <1>4, SubSeqProperties
<1>6. /\ b \in Seq(S) /\ Len(b) = n - k
      /\ \A i \in 1 .. n - k : b[i] = q[k + i]
  BY <1>1, <1>3, <1>4, SubSeqProperties
<1> HIDE DEF a, b
<1>7. /\ r \in Seq(S) /\ Len(r) = n - 1
      /\ \A i \in 1 .. n - 1 : r[i] = IF i <= k - 1 THEN a[i] ELSE b[i - (k - 1)]
  <2>1. /\ r \in Seq(S) /\ Len(r) = Len(a) + Len(b)
        /\ \A i \in 1 .. Len(a) + Len(b) :
             r[i] = IF i <= Len(a) THEN a[i] ELSE b[i - Len(a)]
    BY <1>5, <1>6, ConcatProperties
  <2>2. Len(a) = k - 1 /\ Len(a) + Len(b) = n - 1
    BY <1>1, <1>4, <1>5, <1>6
  <2> HIDE DEF r
  <2> QED
    BY <2>1, <2>2
<1> HIDE DEF r
<1>8. \A i \in 1 .. n - 1 : r[i] = IF i < k THEN q[i] ELSE q[i + 1]
  <2> TAKE i \in 1 .. n - 1
  <2>1. CASE i < k
    BY <1>4, <1>5, <1>7, <2>1
  <2>2. CASE ~ (i < k)
    <3>1. i - (k - 1) \in 1 .. n - k /\ k + (i - (k - 1)) = i + 1 /\ ~ (i <= k - 1)
      BY <1>1, <1>4, <2>2
    <3> QED
      BY <1>6, <1>7, <2>2, <3>1
  <2> QED
    BY <2>1, <2>2
<1>9. r = [i \in 1 .. n - 1 |-> r[i]]
  BY <1>7
<1>10. RemoveAt(q, k) = r
  BY DEF RemoveAt, r, a, b, n
<1> QED
  BY <1>8, <1>9, <1>10 DEF Without, n

\* The elements of the sequence afterwards.
LEMMA SetOfWith ==
  ASSUME NEW n \in Nat, NEW q, DOMAIN q = 1 .. n, NEW k \in 1 .. n + 1, NEW x
  PROVE  ToSet(With(q, n, k, x)) = ToSet(q) \cup {x}
<1> DEFINE r == With(q, n, k, x)
<1>1. \A i \in 1 .. n + 1 : r[i] = IF i < k THEN q[i] ELSE IF i = k THEN x ELSE q[i - 1]
  BY DEF With
<1>2. DOMAIN r = 1 .. n + 1 /\ DOMAIN q = 1 .. n
  BY DEF With
<1> HIDE DEF r
<1>3. ASSUME NEW i \in 1 .. n + 1 PROVE r[i] \in ToSet(q) \cup {x}
  <2>1. i < k => i \in 1 .. n
    OBVIOUS
  <2>2. i > k => i - 1 \in 1 .. n
    OBVIOUS
  <2> QED
    BY <1>1, <1>2, <2>1, <2>2 DEF ToSet
<1>4. ASSUME NEW i \in 1 .. n PROVE q[i] \in ToSet(r)
  <2>1. CASE i < k
    <3>1. r[i] = q[i] /\ i \in 1 .. n + 1
      BY <1>1, <2>1
    <3> QED
      BY <1>2, <3>1 DEF ToSet
  <2>2. CASE i >= k
    <3>1. r[i + 1] = q[i] /\ i + 1 \in 1 .. n + 1
      BY <1>1, <2>2
    <3> QED
      BY <1>2, <3>1 DEF ToSet
  <2> QED
    BY <2>1, <2>2
<1>5. x \in ToSet(r)
  <2>1. r[k] = x /\ k \in DOMAIN r
    BY <1>1, <1>2
  <2> QED
    BY <2>1 DEF ToSet
<1>6. ToSet(r) \subseteq ToSet(q) \cup {x}
  BY <1>2, <1>3 DEF ToSet
<1>7. ToSet(q) \subseteq ToSet(r)
  BY <1>2, <1>4 DEF ToSet
<1> QED
  BY <1>5, <1>6, <1>7 DEF r

LEMMA SetOfWithout ==
  ASSUME NEW n \in Nat, NEW q, DOMAIN q = 1 .. n, NEW k \in 1 .. n,
         \A i, j \in 1 .. n : q[i] = q[j] => i = j
  PROVE  ToSet(Without(q, n, k)) = ToSet(q) \ {q[k]}
<1> DEFINE r == Without(q, n, k)
<1>1. \A i \in 1 .. n - 1 : r[i] = IF i < k THEN q[i] ELSE q[i + 1]
  BY DEF Without
<1>2. DOMAIN r = 1 .. n - 1 /\ DOMAIN q = 1 .. n
  BY DEF Without
<1> HIDE DEF r
<1>3. ASSUME NEW i \in 1 .. n - 1 PROVE r[i] \in ToSet(q) \ {q[k]}
  <2> DEFINE j == IF i < k THEN i ELSE i + 1
  <2>1. j \in 1 .. n /\ j # k /\ r[i] = q[j]
    BY <1>1
  <2> HIDE DEF j
  <2> QED
    BY <1>2, <2>1 DEF ToSet
<1>4. ASSUME NEW i \in 1 .. n, i # k PROVE q[i] \in ToSet(r)
  <2> DEFINE j == IF i < k THEN i ELSE i - 1
  <2>1. j \in 1 .. n - 1 /\ r[j] = q[i]
    BY <1>1, <1>4
  <2> HIDE DEF j
  <2> QED
    BY <1>2, <2>1 DEF ToSet
<1>5. ToSet(r) \subseteq ToSet(q) \ {q[k]}
  BY <1>2, <1>3 DEF ToSet
<1>6. ToSet(q) \ {q[k]} \subseteq ToSet(r)
  BY <1>2, <1>4 DEF ToSet
<1> QED
  BY <1>5, <1>6 DEF r
-----------------------------------------------------------------------------
(***************************************************************************)
(* The inductive invariant.                                                *)
(***************************************************************************)
TypeOK ==
  /\ front \in Nodes \cup {NULL} /\ back \in Nodes \cup {NULL}
  /\ nelems \in Nat
  /\ next \in [Nodes -> Nodes \cup {NULL}]
  /\ previous \in [Nodes -> Nodes \cup {NULL}]
  /\ added \in 0 .. MaxElems
  /\ live \subseteq 1 .. added
  /\ dangling \in BOOLEAN

Chained == \E q : IsChain(q, nelems, front, back, next, previous, live)

\* Nodes that are not allocated have no links.
Fresh == \A n \in Nodes : n > added => next[n] = NULL /\ previous[n] = NULL

IInv == TypeOK /\ (Usable => Chained /\ Fresh)

LEMMA LiveNodes ==
  ASSUME TypeOK
  PROVE  live \in SUBSET Nodes /\ NULL \notin live
<1>1. added \in Nat /\ MaxElems \in Nat /\ added <= MaxElems
  BY ListAssumption DEF TypeOK
<1>2. 1 .. added \subseteq 1 .. MaxElems
  BY <1>1
<1>3. live \subseteq Nodes
  BY <1>2 DEF TypeOK, Nodes
<1> QED
  BY <1>3, NodesNotNull

LEMMA SetLinkType ==
  ASSUME NEW links \in [Nodes -> Nodes \cup {NULL}],
         NEW n \in Nodes \cup {NULL}, NEW m \in Nodes \cup {NULL}
  PROVE  SetLink(links, n, m) \in [Nodes -> Nodes \cup {NULL}]
BY DEF SetLink

\* Forward is the chain, for the list as it is and as it will be.
LEMMA WalkIs ==
  ASSUME NEW q, NEW n \in Nat, NEW f, NEW b, NEW nx, NEW pv, NEW lv,
         IsChain(q, n, f, b, nx, pv, lv), NULL \notin lv
  PROVE  /\ [i \in 1 .. n |-> Follow(f, nx, n)[i - 1]] = q
         /\ q \in Seq(lv) /\ Len(q) = n
         /\ \A i \in 1 .. n : Follow(f, nx, n)[i - 1] = q[i]
<1>1. \A i \in 0 .. n : Follow(f, nx, n)[i] = IF i = n THEN NULL ELSE q[i + 1]
  BY ChainForward
<1>2. \A i \in 1 .. n : i - 1 \in 0 .. n /\ i - 1 # n /\ (i - 1) + 1 = i
  OBVIOUS
<1>3. \A i \in 1 .. n : Follow(f, nx, n)[i - 1] = q[i]
  BY <1>1, <1>2
<1>4. q \in [1 .. n -> lv]
  BY DEF IsChain
<1> QED
  BY <1>3, <1>4

LEMMA ForwardIs ==
  ASSUME TypeOK, NEW q, IsChain(q, nelems, front, back, next, previous, live)
  PROVE  /\ Forward = q
         /\ \A i \in 1 .. nelems : NodeAt(i - 1) = q[i]
BY LiveNodes, WalkIs DEF TypeOK, Forward, NodeAt

LEMMA ForwardWillBe ==
  ASSUME TypeOK', NEW q, IsChain(q, nelems', front', back', next', previous', live')
  PROVE  Forward' = q
<1>1. NULL \notin live' /\ nelems' \in Nat
  BY ListAssumption DEF TypeOK, NULL
<1>2. [i \in 1 .. nelems' |-> Follow(front', next', nelems')[i - 1]] = q
  BY <1>1, WalkIs
<1> QED
  BY <1>2 DEF Forward, NodeAt

\* A node is put at place k of the chain q, between the nodes p and s.
LEMMA PutsAt ==
  ASSUME IInv, Allocate,
         NEW q, IsChain(q, nelems, front, back, next, previous, live),
         NEW k \in 1 .. nelems + 1,
         NEW p, p = Left(q, k), NEW s, s = Right(q, nelems, k),
         next' = [SetLink(next, p, New) EXCEPT ![New] = s],
         previous' = [SetLink(previous, s, New) EXCEPT ![New] = p],
         front' = IF p = NULL THEN New ELSE front,
         back' = IF s = NULL THEN New ELSE back
  PROVE  IInv' /\ Elements!PutAt(k)
<1>1. /\ added < MaxElems /\ added' = added + 1 /\ New = added + 1
      /\ live' = live \cup {New} /\ nelems' = nelems + 1
      /\ dangling' = dangling /\ ~ dangling
  BY DEF Allocate, Usable, Room, New
<1>2. added \in Nat /\ live \subseteq 1 .. added /\ MaxElems \in Nat
  BY ListAssumption DEF IInv, TypeOK
<1>3. New \in Nodes /\ New \notin live
  BY <1>1, <1>2 DEF Nodes
<1>4. q \in [1 .. nelems -> live] /\ nelems \in Nat
  BY DEF IsChain, IInv, TypeOK
<1>5. p \in Nodes \cup {NULL} /\ s \in Nodes \cup {NULL}
  BY <1>4, LiveNodes DEF IInv, Left, Right
<1>6. IsChain(With(q, nelems, k, New), nelems', front', back', next', previous', live')
  <2>1. /\ live \in SUBSET Nodes /\ New \in Nodes \ live
        /\ next \in [Nodes -> Nodes \cup {NULL}] /\ previous \in [Nodes -> Nodes \cup {NULL}]
    BY <1>3, LiveNodes DEF IInv, TypeOK
  <2> QED
    BY <1>1, <1>4, <2>1, ChainWith
<1>7. TypeOK'
  <2>1. /\ SetLink(next, p, New) \in [Nodes -> Nodes \cup {NULL}]
        /\ SetLink(previous, s, New) \in [Nodes -> Nodes \cup {NULL}]
    BY <1>3, <1>5, SetLinkType DEF IInv, TypeOK
  <2>2. next' \in [Nodes -> Nodes \cup {NULL}] /\ previous' \in [Nodes -> Nodes \cup {NULL}]
    BY <1>5, <2>1
  <2>3. added' \in 0 .. MaxElems /\ live' \subseteq 1 .. added'
    BY <1>1, <1>2
  <2>4. front' \in Nodes \cup {NULL} /\ back' \in Nodes \cup {NULL}
    BY <1>3 DEF IInv, TypeOK
  <2> QED
    BY <1>1, <1>4, <2>2, <2>3, <2>4 DEF IInv, TypeOK
<1>8. IInv'
  <2>1. Fresh'
    <3> SUFFICES ASSUME NEW n \in Nodes, n > added' PROVE next'[n] = NULL /\ previous'[n] = NULL
      BY DEF Fresh
    <3>1. n \in Int /\ n # New /\ n \notin live /\ n # NULL
      BY <1>1, <1>2, NodesNotNull DEF Nodes
    <3>2. p \in live \cup {NULL} /\ s \in live \cup {NULL}
      BY <1>4 DEF Left, Right
    <3>3. next'[n] = next[n] /\ previous'[n] = previous[n]
      BY <3>1, <3>2 DEF SetLink, IInv, TypeOK
    <3>4. n > added
      BY <1>1, <1>2, <3>1
    <3> QED
      BY <1>1, <3>3, <3>4 DEF IInv, Fresh, Usable
  <2> QED
    BY <1>1, <1>6, <1>7, <2>1 DEF IInv, Chained
<1>9. Forward = q /\ Forward' = With(q, nelems, k, New)
  BY <1>6, <1>7, ForwardIs, ForwardWillBe DEF IInv
<1>10. Forward' = InsertAt(Forward, k, added + 1)
  <2>1. q \in Seq(Nodes) /\ Len(q) = nelems
    BY <1>4, LiveNodes DEF IInv
  <2> QED
    BY <1>1, <1>3, <1>9, <2>1, InsertAtIs
<1>11. ToSet(Forward') = ToSet(Forward) \cup {New}
  <2>1. ToSet(With(q, nelems, k, New)) = ToSet(q) \cup {New}
    BY <1>4, SetOfWith
  <2> QED
    BY <1>9, <2>1
<1>12. live' \ ToSet(Forward') = live \ ToSet(Forward)
  BY <1>1, <1>3, <1>11
<1>13. (1 .. added') \ live' = (1 .. added) \ live
  BY <1>1, <1>2
<1>14. Elements!PutAt(k)
  BY <1>1, <1>10, <1>12, <1>13 DEF Elements!PutAt, Elements!InsertAt, InsertAt
<1> QED
  BY <1>8, <1>14

\* The node at place k of the chain q is taken out, and freed or not.
LEMMA TakesAt ==
  ASSUME IInv, Usable, ~ dangling',
         NEW q, IsChain(q, nelems, front, back, next, previous, live),
         NEW k \in 1 .. nelems, NEW x,
         Joins(q, k, x, previous[x], next[x],
               front, back, next, previous, front', back', next', previous'),
         nelems' = nelems - 1, added' = added,
         live' \in {live, live \ {x}}
  PROVE  /\ IInv'
         /\ live' = live \ {x} => Elements!TakeAt(k)
         /\ live' = live => Elements!EraseAt(k)
<1>1. /\ q \in [1 .. nelems -> live] /\ nelems \in Nat
      /\ \A i, j \in 1 .. nelems : q[i] = q[j] => i = j
  BY DEF IsChain, IInv, TypeOK
<1>2. x \in live /\ x \in Nodes
  BY <1>1, LiveNodes DEF IInv, Joins
<1>3. IsChain(Without(q, nelems, k), nelems', front', back', next', previous', live')
  <2>1. /\ live \in SUBSET Nodes
        /\ next \in [Nodes -> Nodes \cup {NULL}] /\ previous \in [Nodes -> Nodes \cup {NULL}]
    BY LiveNodes DEF IInv, TypeOK
  <2> QED
    BY <1>1, <2>1, ChainWithout
<1>4. TypeOK'
  <2>1. next[x] \in Nodes \cup {NULL} /\ previous[x] \in Nodes \cup {NULL}
    BY <1>2 DEF IInv, TypeOK
  <2>2. next' \in [Nodes -> Nodes \cup {NULL}] /\ previous' \in [Nodes -> Nodes \cup {NULL}]
    BY <2>1, SetLinkType DEF IInv, TypeOK, Joins
  <2>3. nelems' \in Nat
    BY <1>1
  <2>4. added' \in 0 .. MaxElems /\ live' \subseteq 1 .. added'
    BY DEF IInv, TypeOK
  <2>5. front' \in Nodes \cup {NULL} /\ back' \in Nodes \cup {NULL}
    BY <2>1 DEF IInv, TypeOK, Joins
  <2>6. dangling' = FALSE
    BY DEF IInv, TypeOK
  <2> QED
    BY <2>2, <2>3, <2>4, <2>5, <2>6 DEF TypeOK
<1>5. IInv'
  <2>1. Fresh'
    <3> SUFFICES ASSUME NEW n \in Nodes, n > added' PROVE next'[n] = NULL /\ previous'[n] = NULL
      BY DEF Fresh
    <3>1. n \notin live /\ n # NULL
      <4>1. n \in Int /\ added \in Int /\ live \subseteq 1 .. added /\ n > added
        BY DEF Nodes, IInv, TypeOK
      <4> QED
        BY <4>1, NodesNotNull
    <3>2. previous[x] \in live \cup {NULL} /\ next[x] \in live \cup {NULL}
      BY <1>1 DEF IsChain, Joins
    <3>3. next'[n] = next[n] /\ previous'[n] = previous[n]
      BY <3>1, <3>2 DEF SetLink, Joins, IInv, TypeOK
    <3> QED
      BY <3>3 DEF IInv, Fresh
  <2> QED
    BY <1>3, <1>4, <2>1 DEF IInv, Chained
<1>6. Forward = q /\ Forward' = Without(q, nelems, k)
  BY <1>3, <1>4, ForwardIs, ForwardWillBe DEF IInv
<1>7. Forward' = RemoveAt(Forward, k)
  <2>1. q \in Seq(Nodes) /\ Len(q) = nelems
    BY <1>1, LiveNodes DEF IInv
  <2> QED
    BY <1>6, <2>1, RemoveAtIs
<1>8. ToSet(Forward') = ToSet(Forward) \ {x}
  <2>1. ToSet(Without(q, nelems, k)) = ToSet(q) \ {q[k]}
    BY <1>1, SetOfWithout
  <2> QED
    BY <1>6, <2>1 DEF Joins
<1>9. x \in ToSet(Forward) /\ Forward[k] = x
  BY <1>1, <1>6 DEF ToSet, Joins
<1>10. ASSUME live' = live \ {x} PROVE Elements!TakeAt(k)
  <2>1. live' \ ToSet(Forward') = live \ ToSet(Forward)
    BY <1>8, <1>9, <1>10
  <2>2. (1 .. added') \ live' = ((1 .. added) \ live) \cup {Forward[k]}
    BY <1>2, <1>9, <1>10 DEF IInv, TypeOK
  <2> QED
    BY <1>7, <2>1, <2>2 DEF Elements!TakeAt, Elements!RemoveAt, RemoveAt
<1>11. ASSUME live' = live PROVE Elements!EraseAt(k)
  <2>1. live' \ ToSet(Forward') = (live \ ToSet(Forward)) \cup {Forward[k]}
    BY <1>2, <1>8, <1>9, <1>11
  <2>2. (1 .. added') \ live' = (1 .. added) \ live
    BY <1>11
  <2> QED
    BY <1>7, <2>1, <2>2 DEF Elements!EraseAt, Elements!RemoveAt, RemoveAt
<1> QED
  BY <1>5, <1>10, <1>11
-----------------------------------------------------------------------------
(***************************************************************************)
(* The operations.                                                         *)
(***************************************************************************)
LEMMA Ends ==
  ASSUME TypeOK, NEW q, IsChain(q, nelems, front, back, next, previous, live)
  PROVE  /\ nelems = 0 <=> front = NULL
         /\ nelems = 0 <=> back = NULL
         /\ nelems # 0 => front = q[1] /\ back = q[nelems]
<1>1. nelems \in Nat /\ q \in [1 .. nelems -> live] /\ NULL \notin live
  BY LiveNodes DEF TypeOK, IsChain
<1>2. nelems # 0 => q[1] # NULL /\ q[nelems] # NULL
  BY <1>1
<1> QED
  BY <1>2 DEF IsChain

LEMMA SameLink ==
  ASSUME NEW links \in [Nodes -> Nodes \cup {NULL}], NEW n \in Nodes, NEW m, links[n] = m
  PROVE  [links EXCEPT ![n] = m] = links
OBVIOUS

\* The node to come has no links, also when it is linked from another one.
LEMMA NewUnlinked ==
  ASSUME IInv, Usable, Room, NEW m \in live \cup {NULL}
  PROVE  /\ New \in Nodes
         /\ [SetLink(next, m, New) EXCEPT ![New] = NULL] = SetLink(next, m, New)
         /\ [SetLink(previous, m, New) EXCEPT ![New] = NULL] = SetLink(previous, m, New)
<1>1. /\ added \in Nat /\ MaxElems \in Nat /\ added < MaxElems
      /\ live \subseteq 1 .. added
  BY ListAssumption DEF IInv, TypeOK, Room
<1>2. New \in Nodes /\ New > added /\ New \notin live
  BY <1>1 DEF New, Nodes
<1>3. New # m
  BY <1>2, NodesNotNull
<1>4. m \in Nodes \cup {NULL}
  BY LiveNodes DEF IInv
<1>5. next[New] = NULL /\ previous[New] = NULL
  BY <1>2 DEF IInv, Fresh
<1>6. SetLink(next, m, New)[New] = NULL /\ SetLink(previous, m, New)[New] = NULL
  BY <1>2, <1>3, <1>5 DEF SetLink, IInv, TypeOK
<1>7. /\ SetLink(next, m, New) \in [Nodes -> Nodes \cup {NULL}]
      /\ SetLink(previous, m, New) \in [Nodes -> Nodes \cup {NULL}]
  BY <1>2, <1>4, SetLinkType DEF IInv, TypeOK
<1> QED
  BY <1>2, <1>6, <1>7, SameLink

LEMMA PushFrontPuts ==
  ASSUME IInv, PushFront
  PROVE  IInv' /\ Elements!PutAt(1)
<1>1. PICK q : IsChain(q, nelems, front, back, next, previous, live)
  BY DEF IInv, Chained, PushFront, Allocate
<1>2. nelems \in Nat /\ Usable /\ Room
  BY DEF IInv, TypeOK, PushFront, Allocate
<1>3. Left(q, 1) = NULL /\ Right(q, nelems, 1) = front
  BY <1>1, <1>2, Ends DEF Left, Right, IInv
<1>4. front \in live \cup {NULL}
  BY <1>1, <1>2 DEF IsChain
<1>5. next' = [SetLink(next, NULL, New) EXCEPT ![New] = front]
  BY DEF PushFront, SetLink
<1>6. previous' = [SetLink(previous, front, New) EXCEPT ![New] = NULL]
  BY <1>2, <1>4, NewUnlinked DEF PushFront
<1>7. front' = New /\ back' = IF front = NULL THEN New ELSE back
  BY <1>1, Ends DEF PushFront, IInv
<1>8. Allocate /\ 1 \in 1 .. nelems + 1
  BY <1>2 DEF PushFront
<1>9. PICK p, k : p = NULL /\ k = 1
  OBVIOUS
<1>10. /\ p = Left(q, k) /\ front = Right(q, nelems, k) /\ k \in 1 .. nelems + 1
       /\ next' = [SetLink(next, p, New) EXCEPT ![New] = front]
       /\ previous' = [SetLink(previous, front, New) EXCEPT ![New] = p]
       /\ front' = IF p = NULL THEN New ELSE front
  BY <1>3, <1>5, <1>6, <1>7, <1>8, <1>9
<1>11. IInv' /\ Elements!PutAt(k)
  BY <1>1, <1>7, <1>8, <1>10, PutsAt
<1> QED
  BY <1>9, <1>11

LEMMA PushBackPuts ==
  ASSUME IInv, PushBack
  PROVE  IInv' /\ Elements!PutAt(nelems + 1)
<1>1. PICK q : IsChain(q, nelems, front, back, next, previous, live)
  BY DEF IInv, Chained, PushBack, Allocate
<1>2. nelems \in Nat /\ Usable /\ Room
  BY DEF IInv, TypeOK, PushBack, Allocate
<1>3. Left(q, nelems + 1) = back /\ Right(q, nelems, nelems + 1) = NULL
  <2>1. nelems + 1 = 1 <=> nelems = 0
    BY <1>2
  <2>2. (nelems + 1) - 1 = nelems
    BY <1>2
  <2> QED
    BY <1>1, <2>1, <2>2, Ends DEF Left, Right, IInv
<1>4. back \in live \cup {NULL}
  BY <1>1, <1>2 DEF IsChain
<1>5. previous' = [SetLink(previous, NULL, New) EXCEPT ![New] = back]
  BY DEF PushBack, SetLink
<1>6. next' = [SetLink(next, back, New) EXCEPT ![New] = NULL]
  BY <1>2, <1>4, NewUnlinked DEF PushBack
<1>7. back' = New /\ front' = IF back = NULL THEN New ELSE front
  BY <1>1, Ends DEF PushBack, IInv
<1>8. Allocate /\ nelems + 1 \in 1 .. nelems + 1
  BY <1>2 DEF PushBack
<1> QED
  BY <1>1, <1>3, <1>5, <1>6, <1>7, <1>8, PutsAt

LEMMA InsertPuts ==
  ASSUME IInv, NEW index \in 0 .. nelems - 1, Insert(index)
  PROVE  IInv' /\ Elements!PutAt(index + 1)
<1>1. PICK q : IsChain(q, nelems, front, back, next, previous, live)
  BY DEF IInv, Chained, Insert, Allocate
<1>2. nelems \in Nat /\ index \in Nat /\ index + 1 \in 1 .. nelems
  BY DEF IInv, TypeOK
<1>3. Before(index) = Left(q, index + 1)
  <2>1. index # 0 => NodeAt(index - 1) = q[index]
    BY <1>1, <1>2, ForwardIs DEF IInv
  <2>2. index + 1 = 1 <=> index = 0
    BY <1>2
  <2>3. (index + 1) - 1 = index
    BY <1>2
  <2> QED
    BY <2>1, <2>2, <2>3 DEF Before, Left
<1>4. /\ \A i \in 1 .. nelems : q[i] # NULL
      /\ \A i \in 1 .. nelems : next[q[i]] = IF i = nelems THEN NULL ELSE q[i + 1]
  BY <1>1, LiveNodes DEF IInv, IsChain
<1> DEFINE p == Before(index)
           n == IF p = NULL THEN front ELSE next[p]
<1>5. n = Right(q, nelems, index + 1)
  <2>1. index + 1 # nelems + 1
    BY <1>2
  <2>2. CASE index = 0
    BY <1>1, <1>2, <2>1, <2>2, Ends DEF IInv, Before, Right
  <2>3. CASE index # 0
    <3>1. p = q[index] /\ index \in 1 .. nelems /\ index # nelems
      <4>1. index + 1 # 1 /\ (index + 1) - 1 = index
        BY <1>2, <2>3
      <4> QED
        BY <1>2, <1>3, <2>3, <4>1 DEF Left
    <3> QED
      BY <1>4, <2>1, <3>1 DEF Right
  <2> QED
    BY <2>2, <2>3
<1>6. /\ next' = [SetLink(next, p, New) EXCEPT ![New] = n]
      /\ previous' = [SetLink(previous, n, New) EXCEPT ![New] = p]
      /\ front' = (IF p = NULL THEN New ELSE front)
      /\ back' = (IF n = NULL THEN New ELSE back)
  BY DEF Insert
<1>7. Allocate /\ index + 1 \in 1 .. nelems + 1
  BY <1>2 DEF Insert
<1>8. p = Left(q, index + 1)
  BY <1>3
<1> HIDE DEF p, n
<1>9. PICK k : k = index + 1
  OBVIOUS
<1>10. IInv' /\ Elements!PutAt(k)
  BY <1>1, <1>5, <1>6, <1>7, <1>8, <1>9, PutsAt
<1> QED
  BY <1>9, <1>10
-----------------------------------------------------------------------------
LEMMA PopFrontTakes ==
  ASSUME IInv, PopFront
  PROVE  IInv' /\ Elements!TakeAt(1)
<1>1. PICK q : IsChain(q, nelems, front, back, next, previous, live)
  BY DEF IInv, Chained, PopFront
<1>2. nelems \in Nat /\ 1 \in 1 .. nelems /\ nelems # 0 /\ front = q[1]
  BY <1>1, Ends DEF IInv, TypeOK, PopFront
<1>3. previous[front] = NULL
  BY <1>1, <1>2 DEF IsChain
<1>4. Joins(q, 1, front, previous[front], next[front],
            front, back, next, previous, front', back', next', previous')
  BY <1>2, <1>3 DEF PopFront, Joins, SetLink
<1>5. /\ Usable /\ ~ dangling' /\ nelems' = nelems - 1 /\ added' = added
      /\ live' = live \ {front}
  BY DEF PopFront, Usable, Delete
<1> QED
  BY <1>1, <1>2, <1>4, <1>5, TakesAt

LEMMA PopBackTakes ==
  ASSUME IInv, PopBack
  PROVE  IInv' /\ Elements!TakeAt(nelems)
<1>1. PICK q : IsChain(q, nelems, front, back, next, previous, live)
  BY DEF IInv, Chained, PopBack
<1>2. nelems \in Nat /\ nelems \in 1 .. nelems /\ nelems # 0 /\ back = q[nelems]
  BY <1>1, Ends DEF IInv, TypeOK, PopBack
<1>3. next[back] = NULL
  BY <1>1, <1>2 DEF IsChain
<1>4. Joins(q, nelems, back, previous[back], next[back],
            front, back, next, previous, front', back', next', previous')
  BY <1>2, <1>3 DEF PopBack, Joins, SetLink
<1>5. /\ Usable /\ ~ dangling' /\ nelems' = nelems - 1 /\ added' = added
      /\ live' = live \ {back}
  BY DEF PopBack, Usable, Delete
<1> QED
  BY <1>1, <1>2, <1>4, <1>5, TakesAt

\* The neighbours of a node of the chain are nodes or NULL: NULL only at the ends.
LEMMA Neighbours ==
  ASSUME IInv, NEW q, IsChain(q, nelems, front, back, next, previous, live),
         NEW k \in 1 .. nelems
  PROVE  /\ q[k] = front <=> k = 1
         /\ q[k] = back <=> k = nelems
         /\ next[q[k]] = IF k = nelems THEN NULL ELSE q[k + 1]
         /\ previous[q[k]] = IF k = 1 THEN NULL ELSE q[k - 1]
         /\ \A i \in 1 .. nelems : q[i] # NULL /\ q[i] \in Nodes
<1>1. /\ nelems \in Nat /\ NULL \notin live /\ live \in SUBSET Nodes
      /\ nelems # 0 /\ 1 \in 1 .. nelems /\ nelems \in 1 .. nelems
  BY LiveNodes DEF IInv, TypeOK
<1> QED
  BY <1>1 DEF IsChain

LEMMA EraseTakes ==
  ASSUME IInv, ~ dangling', NEW index \in 0 .. nelems - 1, TakeOut(NodeAt(index)),
         live' \in {live, live \ {NodeAt(index)}}
  PROVE  /\ IInv'
         /\ live' = live \ {NodeAt(index)} => Elements!TakeAt(index + 1)
         /\ live' = live => Elements!EraseAt(index + 1)
<1>1. PICK q : IsChain(q, nelems, front, back, next, previous, live)
  BY DEF IInv, Chained, TakeOut
<1>2. PICK k : k = index + 1
  OBVIOUS
<1>3. nelems \in Nat /\ k \in 1 .. nelems /\ index = k - 1
  BY <1>2 DEF IInv, TypeOK
<1>4. NodeAt(index) = q[k]
  BY <1>1, <1>3, ForwardIs DEF IInv
<1>5. PICK x : x = q[k]
  OBVIOUS
<1>6. x # front /\ x # back
  BY <1>4, <1>5 DEF TakeOut
<1>7. previous[x] # NULL /\ next[x] # NULL
  <2>1. k # 1 /\ k # nelems
    BY <1>1, <1>3, <1>5, <1>6, Neighbours
  <2>2. k - 1 \in 1 .. nelems /\ k + 1 \in 1 .. nelems
    BY <1>3, <2>1
  <2> QED
    BY <1>1, <1>3, <1>5, <2>1, <2>2, Neighbours
<1>8. Joins(q, k, x, previous[x], next[x],
            front, back, next, previous, front', back', next', previous')
  BY <1>4, <1>5, <1>7 DEF TakeOut, Joins
<1>9. /\ Usable /\ nelems' = nelems - 1 /\ added' = added
      /\ live' \in {live, live \ {x}}
  BY <1>4, <1>5 DEF TakeOut
<1>10. /\ IInv'
       /\ live' = live \ {x} => Elements!TakeAt(k)
       /\ live' = live => Elements!EraseAt(k)
  BY <1>1, <1>3, <1>8, <1>9, TakesAt
<1> QED
  BY <1>2, <1>4, <1>5, <1>10

\* The node at an end is taken out, and front or back still points at it.
LEMMA EraseAtEnd ==
  ASSUME IInv, dangling', NEW index \in 0 .. nelems - 1, TakeOut(NodeAt(index)),
         live' \in {live, live \ {NodeAt(index)}}
  PROVE  IInv'
<1>1. PICK q : IsChain(q, nelems, front, back, next, previous, live)
  BY DEF IInv, Chained, TakeOut
<1>2. PICK k : k = index + 1
  OBVIOUS
<1>3. nelems \in Nat /\ k \in 1 .. nelems /\ index = k - 1
  BY <1>2 DEF IInv, TypeOK
<1>4. NodeAt(index) = q[k]
  BY <1>1, <1>3, ForwardIs DEF IInv
<1>5. PICK x : x = q[k]
  OBVIOUS
<1>6. /\ next' = SetLink(next, previous[x], next[x])
      /\ previous' = SetLink(previous, next[x], previous[x])
      /\ nelems' = nelems - 1 /\ added' = added /\ front' = front /\ back' = back
      /\ live' \in {live, live \ {x}} /\ x \in {front, back}
  BY <1>4, <1>5 DEF TakeOut
<1>7. x \in Nodes /\ x # NULL
  BY <1>1, <1>3, <1>5, Neighbours
<1>8. TypeOK'
  <2>1. next[x] \in Nodes \cup {NULL} /\ previous[x] \in Nodes \cup {NULL}
    BY <1>7 DEF IInv, TypeOK
  <2>2. next' \in [Nodes -> Nodes \cup {NULL}] /\ previous' \in [Nodes -> Nodes \cup {NULL}]
    BY <1>6, <2>1, SetLinkType DEF IInv, TypeOK
  <2>3. nelems' \in Nat
    BY <1>3, <1>6
  <2>4. added' \in 0 .. MaxElems /\ live' \subseteq 1 .. added'
    BY <1>6 DEF IInv, TypeOK
  <2> QED
    BY <1>6, <2>2, <2>3, <2>4 DEF IInv, TypeOK
<1> QED
  BY <1>8 DEF IInv, Usable

LEMMA ClearClears ==
  ASSUME IInv, Clear
  PROVE  IInv' /\ Elements!Clear
<1>1. PICK q : IsChain(q, nelems, front, back, next, previous, live)
  BY DEF IInv, Chained, Clear
<1>2. nelems \in Nat /\ nelems \in 0 .. nelems /\ NULL \notin live
  BY LiveNodes DEF IInv, TypeOK
<1>3. front' = NULL /\ back' = NULL
  BY <1>1, <1>2, ChainForward DEF Clear
<1>4. /\ nelems' = 0 /\ added' = added /\ next' = next /\ Usable /\ ~ dangling /\ ~ dangling'
      /\ live' = live \ ToSet(Forward)
  BY DEF Clear, Usable
<1>5. /\ previous' \in [Nodes -> Nodes \cup {NULL}]
      /\ \A n \in Nodes : previous'[n] \in {NULL, previous[n]}
  BY DEF Clear, IInv, TypeOK
<1>6. TypeOK'
  <2>1. next' \in [Nodes -> Nodes \cup {NULL}] /\ added' \in 0 .. MaxElems
        /\ live' \subseteq 1 .. added'
    BY <1>4 DEF IInv, TypeOK
  <2>2. dangling' \in BOOLEAN
    BY DEF Clear, IInv, TypeOK
  <2> QED
    BY <1>3, <1>4, <1>5, <2>1, <2>2 DEF TypeOK
<1>7. IsChain(<<>>, nelems', front', back', next', previous', live')
  BY <1>3, <1>4 DEF IsChain
<1>8. Fresh'
  BY <1>4, <1>5 DEF IInv, Fresh
<1>9. IInv'
  BY <1>4, <1>6, <1>7, <1>8 DEF IInv, Chained
<1>10. Forward' = <<>>
  BY <1>6, <1>7, ForwardWillBe
<1>11. ToSet(Forward') = {}
  BY <1>10 DEF ToSet
<1>12. ToSet(Forward) \subseteq live
  <2>1. Forward = q /\ q \in [1 .. nelems -> live]
    BY <1>1, ForwardIs DEF IInv, IsChain
  <2> QED
    BY <2>1 DEF ToSet
<1>13. live' \ ToSet(Forward') = live \ ToSet(Forward)
  BY <1>4, <1>11
<1>14. (1 .. added') \ live' = ((1 .. added) \ live) \cup ToSet(Forward)
  BY <1>4, <1>12 DEF IInv, TypeOK
<1> QED
  BY <1>4, <1>9, <1>10, <1>13, <1>14 DEF Elements!Clear, Elements!ToSet, ToSet
-----------------------------------------------------------------------------
LEMMA InitHolds == Init => IInv
<1> SUFFICES ASSUME Init PROVE IInv
  OBVIOUS
<1>1. TypeOK
  <2>1. added \in 0 .. MaxElems
    BY ListAssumption DEF Init
  <2>2. next \in [Nodes -> Nodes \cup {NULL}] /\ previous \in [Nodes -> Nodes \cup {NULL}]
    BY DEF Init
  <2> QED
    BY <2>1, <2>2 DEF Init, TypeOK
<1>2. IsChain(<<>>, nelems, front, back, next, previous, live)
  BY DEF Init, IsChain
<1>3. Fresh
  BY DEF Init, Fresh
<1> QED
  BY <1>1, <1>2, <1>3 DEF IInv, Chained

LEMMA StepKeeps == IInv /\ [Next]_vars => IInv'
<1> SUFFICES ASSUME IInv, [Next]_vars PROVE IInv'
  OBVIOUS
<1>1. CASE PushFront
  BY <1>1, PushFrontPuts
<1>2. CASE PushBack
  BY <1>2, PushBackPuts
<1>3. ASSUME NEW index \in 0 .. nelems - 1, Insert(index) PROVE IInv'
  BY <1>3, InsertPuts
<1>4. ASSUME NEW index \in 0 .. nelems - 1, EraseNode(index) \/ RemoveNode(index) PROVE IInv'
  <2>1. TakeOut(NodeAt(index)) /\ live' \in {live, live \ {NodeAt(index)}}
    BY <1>4 DEF EraseNode, RemoveNode, Delete
  <2>2. CASE dangling'
    BY <2>1, <2>2, EraseAtEnd
  <2>3. CASE ~ dangling'
    BY <2>1, <2>3, EraseTakes
  <2> QED
    BY <2>2, <2>3
<1>5. CASE PopFront
  BY <1>5, PopFrontTakes
<1>6. CASE PopBack
  BY <1>6, PopBackTakes
<1>7. CASE Clear
  BY <1>7, ClearClears
<1>8. CASE UNCHANGED vars
  <2>1. TypeOK'
    BY <1>8 DEF IInv, TypeOK, vars
  <2>2. Usable' => Chained' /\ Fresh'
    BY <1>8 DEF IInv, Usable, Chained, Fresh, vars
  <2> QED
    BY <2>1, <2>2 DEF IInv
<1> QED
  BY <1>1, <1>2, <1>3, <1>4, <1>5, <1>6, <1>7, <1>8 DEF Next

\* Until an end is taken by erase or remove, the nodes between front and back
\* are one chain of live ones in both directions, whatever the client calls.
THEOREM ListInvariant == Spec => []IInv
BY InitHolds, StepKeeps, PTL DEF Spec

LEMMA ChainIsLinked == IInv => Linked
<1> SUFFICES ASSUME IInv, Usable
             PROVE  /\ ToSet(Forward) \subseteq live
                    /\ Backward = Reverse(Forward)
                    /\ NodeAt(nelems) = NULL
                    /\ Follow(back, previous, nelems)[nelems] = NULL
                    /\ nelems = 0 <=> back = NULL
  BY DEF Linked
<1>1. PICK q : IsChain(q, nelems, front, back, next, previous, live)
  BY DEF IInv, Chained
<1>2. nelems \in Nat /\ nelems \in 0 .. nelems /\ NULL \notin live /\ q \in [1 .. nelems -> live]
  BY <1>1, LiveNodes DEF IInv, TypeOK, IsChain
<1>3. Forward = q /\ q \in Seq(live) /\ Len(q) = nelems
  BY <1>1, <1>2, ForwardIs, WalkIs DEF IInv
<1>4. \A i \in 0 .. nelems :
        Follow(back, previous, nelems)[i] = IF i = nelems THEN NULL ELSE q[nelems - i]
  BY <1>1, <1>2, ChainBackward
<1>5. Backward = Reverse(Forward)
  <2>1. ASSUME NEW i \in 1 .. nelems
        PROVE  Follow(back, previous, nelems)[i - 1] = q[(nelems - i) + 1]
    <3>1. i - 1 \in 0 .. nelems /\ i - 1 # nelems /\ nelems - (i - 1) = (nelems - i) + 1
      BY <1>2
    <3>2. Follow(back, previous, nelems)[i - 1] = q[nelems - (i - 1)]
      BY <1>4, <3>1
    <3> QED
      BY <3>1, <3>2
  <2>2. Reverse(q) = [i \in 1 .. nelems |-> q[(nelems - i) + 1]]
    BY <1>3 DEF Reverse
  <2> QED
    BY <1>3, <2>1, <2>2 DEF Backward
<1>6. NodeAt(nelems) = NULL
  BY <1>1, <1>2, ChainForward DEF NodeAt
<1>7. Follow(back, previous, nelems)[nelems] = NULL
  BY <1>2, <1>4
<1>8. ToSet(Forward) \subseteq live
  BY <1>2, <1>3 DEF ToSet
<1> QED
  BY <1>1, <1>5, <1>6, <1>7, <1>8, Ends DEF IInv

\* Walking along the list finds its nelems live nodes from either end, and then
\* NULL: what clist_next, clist_prev and node_at rely on.
THEOREM ListLinked == Spec => []Linked
BY ListInvariant, ChainIsLinked, PTL

LEMMA StepImplements ==
  ASSUME IInv, Next, ~ dangling'
  PROVE  /\ PushFront => Elements!PutAt(1)
         /\ PushBack => Elements!PutAt(nelems + 1)
         /\ \A index \in 0 .. nelems - 1 :
              /\ Insert(index) => Elements!PutAt(index + 1)
              /\ EraseNode(index) => Elements!EraseAt(index + 1)
              /\ RemoveNode(index) => Elements!TakeAt(index + 1)
         /\ PopFront => Elements!TakeAt(1)
         /\ PopBack => Elements!TakeAt(nelems)
         /\ Clear => Elements!Clear
<1>1. ASSUME NEW index \in 0 .. nelems - 1, EraseNode(index) PROVE Elements!EraseAt(index + 1)
  BY <1>1, EraseTakes DEF EraseNode
<1>2. ASSUME NEW index \in 0 .. nelems - 1, RemoveNode(index) PROVE Elements!TakeAt(index + 1)
  BY <1>2, EraseTakes DEF RemoveNode, Delete
<1> QED
  BY <1>1, <1>2, PushFrontPuts, PushBackPuts, InsertPuts, PopFrontTakes, PopBackTakes,
     ClearClears

\* The list of linked nodes is the sequence of elements that lib/clist.h
\* describes, each call doing to the one what it does to the other.
THEOREM ListImplementsDeque == Spec => ImplementsDeque
<1>1. Init => Elements!Init
  <2> SUFFICES ASSUME Init PROVE Elements!Init
    OBVIOUS
  <2>1. Forward = <<>>
    BY DEF Init, Forward
  <2>2. added = 0 /\ live = {}
    BY DEF Init
  <2>3. 1 .. added = {}
    BY <2>2
  <2> QED
    BY <2>1, <2>2, <2>3 DEF Elements!Init
<1> DEFINE Implements ==
      ~ dangling' =>
          /\ PushFront => Elements!PutAt(1)
          /\ PushBack => Elements!PutAt(nelems + 1)
          /\ \A index \in 0 .. nelems - 1 :
               /\ Insert(index) => Elements!PutAt(index + 1)
               /\ EraseNode(index) => Elements!EraseAt(index + 1)
               /\ RemoveNode(index) => Elements!TakeAt(index + 1)
          /\ PopFront => Elements!TakeAt(1)
          /\ PopBack => Elements!TakeAt(nelems)
          /\ Clear => Elements!Clear
<1>2. IInv /\ [Next]_vars => [Implements]_vars
  BY StepImplements
<1> QED
  BY <1>1, <1>2, ListInvariant, PTL DEF Spec, ImplementsDeque
=============================================================================
