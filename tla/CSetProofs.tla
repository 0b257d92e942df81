----------------------------- MODULE CSetProofs -----------------------------
(***************************************************************************)
(* Proofs about CSet, for any elements, any order of them and trees of any *)
(* height.                                                                 *)
(***************************************************************************)
EXTENDS CSet, TLAPS, FiniteSetTheorems, SequenceTheorems, WellFoundedInduction

\* A set of natural numbers that is not empty has a first element.
LEMMA FirstExists ==
  ASSUME NEW S \in SUBSET Nat, S # {}
  PROVE  \E i \in S : \A j \in S : i <= j
<1> DEFINE Less == OpToRel(<, Nat)
<1>1. IsWellFoundedOn(Less, Nat)
  BY NatLessThanWellFounded DEF Less
<1>2. PICK i \in S : \A j \in S : ~ (<<j, i>> \in Less)
  BY <1>1, WFMin
<1>3. \A j, k \in Nat : <<j, k>> \in Less <=> j < k
  BY DEF Less, OpToRel
<1>4. \A j \in S : ~ (j < i)
  BY <1>2, <1>3
<1>5. \A j \in S : i <= j
  BY <1>4
<1> QED
  BY <1>5

\* What holds for no levels, and for one more whenever it holds for some, holds
\* for all of them.
LEMMA LevelInduction ==
  ASSUME NEW S, 0 \in S, \A h \in 1 .. MaxHeight : h - 1 \in S => h \in S
  PROVE  0 .. MaxHeight \subseteq S
<1> DEFINE Missing == (0 .. MaxHeight) \ S
<1>1. SUFFICES ASSUME Missing # {} PROVE FALSE
  BY <1>1
<1>2. Missing \in SUBSET Nat
  OBVIOUS
<1>3. PICK h \in Missing : \A k \in Missing : h <= k
  <2> HIDE DEF Missing
  <2> QED
    BY <1>1, <1>2, FirstExists
<1>4. MaxHeight \in Nat /\ h \in 0 .. MaxHeight /\ h # 0
  BY SetAssumption
<1>5. h \in 1 .. MaxHeight /\ h - 1 \in 0 .. MaxHeight /\ h - 1 \notin Missing
  BY <1>3, <1>4
<1> QED
  BY <1>5

-----------------------------------------------------------------------------
(***************************************************************************)
(* The trees of bounded height.                                            *)
(***************************************************************************)
Records(S) ==
  [data : Data, left : S, right : S, height : Nat, nleft : Nat, nright : Nat]

Levels(f, n) ==
  f = [h \in 0 .. n |-> IF h = 0 THEN {NULL} ELSE {NULL} \cup Records(f[h - 1])]

LEMMA LevelsExtend ==
  ASSUME NEW n \in Nat, NEW f, Levels(f, n)
  PROVE  \E g : Levels(g, n + 1)
<1> DEFINE g == [h \in 0 .. n + 1 |-> IF h = n + 1 THEN {NULL} \cup Records(f[n]) ELSE f[h]]
<1>1. \A h \in 0 .. n : f[h] = IF h = 0 THEN {NULL} ELSE {NULL} \cup Records(f[h - 1])
  BY DEF Levels
<1>2. \A h \in 0 .. n : g[h] = f[h]
  OBVIOUS
<1>3. g[n + 1] = {NULL} \cup Records(f[n]) /\ g[n] = f[n]
  OBVIOUS
<1>4. g = [h \in 0 .. n + 1 |-> g[h]]
  OBVIOUS
<1> HIDE DEF g
<1>5. ASSUME NEW h \in 0 .. n + 1
      PROVE  g[h] = IF h = 0 THEN {NULL} ELSE {NULL} \cup Records(g[h - 1])
  <2>1. CASE h = n + 1
    <3>1. h # 0 /\ h - 1 = n
      BY <2>1
    <3> QED
      BY <1>3, <2>1, <3>1
  <2>2. CASE h # n + 1
    <3>1. h \in 0 .. n /\ (h # 0 => h - 1 \in 0 .. n)
      BY <2>2
    <3>2. h # 0 => g[h - 1] = f[h - 1]
      BY <1>2, <3>1
    <3> QED
      BY <1>1, <1>2, <3>1, <3>2
  <2> QED
    BY <2>1, <2>2
<1>6. Levels(g, n + 1)
  BY <1>4, <1>5 DEF Levels
<1> QED
  BY <1>6

LEMMA TreesUpToIs ==
  /\ TreesUpTo[0] = {NULL}
  /\ \A h \in 1 .. MaxHeight : TreesUpTo[h] = {NULL} \cup Records(TreesUpTo[h - 1])
<1> DEFINE S == {n \in 0 .. MaxHeight : \E f : Levels(f, n)}
<1>0. MaxHeight \in Nat
  BY SetAssumption
<1>1. 0 \in S
  <2>1. Levels([h \in 0 .. 0 |-> {NULL}], 0)
    BY DEF Levels
  <2> QED
    BY <1>0, <2>1
<1>2. ASSUME NEW h \in 1 .. MaxHeight, h - 1 \in S PROVE h \in S
  <2>1. PICK f : Levels(f, h - 1)
    BY <1>2
  <2>2. h - 1 \in Nat /\ (h - 1) + 1 = h
    OBVIOUS
  <2>3. \E g : Levels(g, h)
    BY <2>1, <2>2, LevelsExtend
  <2> QED
    BY <1>0, <2>3
<1> HIDE DEF S
<1>3. MaxHeight \in S
  BY <1>0, <1>1, <1>2, LevelInduction
<1>4. \E f : Levels(f, MaxHeight)
  BY <1>3 DEF S
<1>5. TreesUpTo = CHOOSE f : Levels(f, MaxHeight)
  BY DEF TreesUpTo, Levels, Records
<1>6. Levels(TreesUpTo, MaxHeight)
  BY <1>4, <1>5
<1>7. 0 \in 0 .. MaxHeight /\ \A h \in 1 .. MaxHeight : h \in 0 .. MaxHeight /\ h # 0
  BY <1>0
<1> QED
  BY <1>6, <1>7 DEF Levels

LEMMA LevelsGrow ==
  /\ \A h \in 0 .. MaxHeight : NULL \in TreesUpTo[h]
  /\ \A h \in 1 .. MaxHeight : TreesUpTo[h - 1] \subseteq TreesUpTo[h]
<1> DEFINE S == {h \in 0 .. MaxHeight : h # 0 => TreesUpTo[h - 1] \subseteq TreesUpTo[h]}
<1>0. MaxHeight \in Nat
  BY SetAssumption
<1>1. ASSUME NEW h \in 0 .. MaxHeight PROVE NULL \in TreesUpTo[h]
  BY TreesUpToIs
<1>2. 0 \in S
  BY <1>0
<1>3. ASSUME NEW h \in 1 .. MaxHeight, h - 1 \in S PROVE h \in S
  <2>1. CASE h = 1
    <3>1. TreesUpTo[h - 1] = {NULL}
      BY <2>1, TreesUpToIs
    <3> QED
      BY <1>0, <1>1, <3>1
  <2>2. CASE h # 1
    <3> DEFINE k == h - 1
    <3>1. k \in 1 .. MaxHeight
      BY <1>0, <2>2
    <3>2. TreesUpTo[k - 1] \subseteq TreesUpTo[k]
      BY <1>3, <3>1
    <3>3. TreesUpTo[k] = {NULL} \cup Records(TreesUpTo[k - 1])
      BY <3>1, TreesUpToIs
    <3>4. TreesUpTo[h] = {NULL} \cup Records(TreesUpTo[k])
      BY TreesUpToIs
    <3>5. Records(TreesUpTo[k - 1]) \subseteq Records(TreesUpTo[k])
      BY <3>2 DEF Records
    <3> QED
      BY <1>0, <3>3, <3>4, <3>5
  <2> QED
    BY <2>1, <2>2
<1> HIDE DEF S
<1>4. 0 .. MaxHeight \subseteq S
  BY <1>2, <1>3, LevelInduction
<1>5. \A h \in 1 .. MaxHeight : h \in 0 .. MaxHeight /\ h # 0
  BY <1>0
<1> QED
  BY <1>1, <1>4, <1>5 DEF S

\* What is not NULL is a node with trees of one level less.
LEMMA NodeOfLevel ==
  ASSUME NEW h \in 1 .. MaxHeight, NEW t \in TreesUpTo[h], t # NULL
  PROVE  t \in Records(TreesUpTo[h - 1])
BY TreesUpToIs

LEMMA NodeNotNull ==
  ASSUME NEW S, NEW t \in Records(S)
  PROVE  t # NULL
<1>1. t.height \in Nat
  BY DEF Records
<1>2. NULL.height = -1
  BY DEF NULL
<1> QED
  BY <1>1, <1>2

LEMMA TreesAre ==
  /\ NULL \in Trees
  /\ \A t \in Trees : t # NULL => t \in Records(Trees)
<1>0. MaxHeight \in Nat
  BY SetAssumption
<1>1. NULL \in Trees
  BY <1>0, LevelsGrow DEF Trees
<1>2. ASSUME NEW t \in Trees, t # NULL PROVE t \in Records(Trees)
  <2>1. MaxHeight \in 1 .. MaxHeight
    BY <1>0, <1>2, TreesUpToIs DEF Trees
  <2>2. t \in Records(TreesUpTo[MaxHeight - 1])
    BY <1>2, <2>1, NodeOfLevel DEF Trees
  <2>3. TreesUpTo[MaxHeight - 1] \subseteq Trees
    BY <2>1, LevelsGrow DEF Trees
  <2> QED
    BY <2>2, <2>3 DEF Records
<1> QED
  BY <1>1, <1>2

LEMMA LevelsMonotone ==
  ASSUME NEW i \in 0 .. MaxHeight
  PROVE  \A j \in i .. MaxHeight : TreesUpTo[i] \subseteq TreesUpTo[j]
<1> DEFINE S == {j \in 0 .. MaxHeight : i <= j => TreesUpTo[i] \subseteq TreesUpTo[j]}
<1>0. MaxHeight \in Nat
  BY SetAssumption
<1>1. 0 \in S
  <2>1. 0 \in 0 .. MaxHeight /\ (i <= 0 => i = 0)
    BY <1>0
  <2> QED
    BY <2>1
<1>2. ASSUME NEW h \in 1 .. MaxHeight, h - 1 \in S PROVE h \in S
  <2>1. h \in 0 .. MaxHeight /\ (i <= h => i = h \/ i <= h - 1)
    BY <1>0
  <2>2. TreesUpTo[h - 1] \subseteq TreesUpTo[h]
    BY LevelsGrow
  <2> QED
    BY <1>2, <2>1, <2>2
<1> HIDE DEF S
<1>3. 0 .. MaxHeight \subseteq S
  BY <1>1, <1>2, LevelInduction
<1>4. \A j \in i .. MaxHeight : j \in 0 .. MaxHeight /\ i <= j
  BY <1>0
<1> QED
  BY <1>3, <1>4 DEF S

LEMMA LevelsAreTrees == \A h \in 0 .. MaxHeight : TreesUpTo[h] \subseteq Trees
<1> DEFINE U == {h \in 0 .. MaxHeight : TreesUpTo[MaxHeight - h] \subseteq Trees}
<1>0. MaxHeight \in Nat
  BY SetAssumption
<1>1. 0 \in U
  BY <1>0 DEF Trees
<1>2. ASSUME NEW h \in 1 .. MaxHeight, h - 1 \in U PROVE h \in U
  <2> DEFINE k == MaxHeight - h + 1
  <2>1. k \in 1 .. MaxHeight /\ k - 1 = MaxHeight - h /\ k = MaxHeight - (h - 1)
    BY <1>0
  <2>2. TreesUpTo[k - 1] \subseteq TreesUpTo[k]
    BY <2>1, LevelsGrow
  <2>3. TreesUpTo[k] \subseteq Trees
    BY <1>2, <2>1
  <2>4. TreesUpTo[MaxHeight - h] \subseteq Trees
    BY <2>1, <2>2, <2>3
  <2> QED
    BY <1>0, <2>4
<1> HIDE DEF U
<1>3. 0 .. MaxHeight \subseteq U
  BY <1>1, <1>2, LevelInduction
<1>4. ASSUME NEW h \in 0 .. MaxHeight PROVE TreesUpTo[h] \subseteq Trees
  <2>1. MaxHeight - h \in U /\ MaxHeight - (MaxHeight - h) = h
    BY <1>0, <1>3
  <2> QED
    BY <2>1 DEF U
<1> QED
  BY <1>4

\* What holds for NULL, and for a node whenever it holds for its subtrees, holds
\* for all trees.
LEMMA TreeInduction ==
  ASSUME NEW S, NULL \in S,
         \A t \in Trees : t # NULL /\ t.left \in S /\ t.right \in S => t \in S
  PROVE  Trees \subseteq S
<1> DEFINE L == {h \in 0 .. MaxHeight : TreesUpTo[h] \subseteq S}
<1>0. MaxHeight \in Nat
  BY SetAssumption
<1>1. 0 \in L
  BY <1>0, TreesUpToIs
<1>2. ASSUME NEW h \in 1 .. MaxHeight, h - 1 \in L PROVE h \in L
  <2>1. h \in 0 .. MaxHeight
    BY <1>0
  <2>2. TreesUpTo[h] \subseteq Trees
    BY <2>1, LevelsAreTrees
  <2>3. ASSUME NEW t \in TreesUpTo[h] PROVE t \in S
    <3>1. CASE t # NULL
      <4>1. t \in Records(TreesUpTo[h - 1])
        BY <3>1, NodeOfLevel
      <4>2. t.left \in S /\ t.right \in S
        BY <1>2, <4>1 DEF Records
      <4> QED
        BY <2>2, <3>1, <4>2
    <3> QED
      BY <3>1
  <2> QED
    BY <2>1, <2>3
<1> HIDE DEF L
<1>3. MaxHeight \in L
  BY <1>0, <1>1, <1>2, LevelInduction
<1> QED
  BY <1>3 DEF L, Trees

-----------------------------------------------------------------------------
(***************************************************************************)
(* The functions on trees.  Each of them is given by an equation in f,     *)
(* which asks for the values of f at the subtrees only: there is a         *)
(* function that satisfies it.                                             *)
(***************************************************************************)
\* Nodes
NodesStep(f, t) ==
  IF t = NULL THEN {} ELSE {t} \cup f[t.left] \cup f[t.right]

NodesFun(f, S) == f = [t \in S |-> NodesStep(f, t)]

LEMMA NodesExists ==
  \E f : NodesFun(f, Trees)
<1> DEFINE S == {h \in 0 .. MaxHeight : \E f : NodesFun(f, TreesUpTo[h])}
<1>0. MaxHeight \in Nat
  BY SetAssumption
<1>1. 0 \in S
  <2> DEFINE f == [t \in {NULL} |-> NodesStep(<<>>, t)]
  <2>1. f = [t \in {NULL} |-> NodesStep(f, t)]
    <3>1. \A g : NodesStep(g, NULL) = NodesStep(<<>>, NULL)
      BY DEF NodesStep
    <3> QED
      BY <3>1
  <2>2. NodesFun(f, TreesUpTo[0])
    <3> HIDE DEF f
    <3> QED
      BY <2>1, TreesUpToIs DEF NodesFun
  <2> QED
    BY <1>0, <2>2
<1>2. ASSUME NEW h \in 1 .. MaxHeight, h - 1 \in S PROVE h \in S
  <2>1. PICK f : NodesFun(f, TreesUpTo[h - 1])
    BY <1>2
  <2> DEFINE g == [t \in TreesUpTo[h] |-> NodesStep(f, t)]
  <2>2. \A t \in TreesUpTo[h - 1] : f[t] = NodesStep(f, t)
    BY <2>1 DEF NodesFun
  <2>3. \A t \in TreesUpTo[h - 1] : g[t] = f[t]
    BY <2>2, LevelsGrow
  <2>4. \A t \in TreesUpTo[h] : g[t] = NodesStep(f, t)
    OBVIOUS
  <2>5. g = [t \in TreesUpTo[h] |-> g[t]]
    OBVIOUS
  <2> HIDE DEF g
  <2>6. ASSUME NEW t \in TreesUpTo[h] PROVE g[t] = NodesStep(g, t)
    <3>1. CASE t = NULL
      BY <2>4, <3>1 DEF NodesStep
    <3>2. CASE t # NULL
      <4>1. t \in Records(TreesUpTo[h - 1])
        BY <3>2, NodeOfLevel
      <4>2. g[t.left] = f[t.left] /\ g[t.right] = f[t.right]
        BY <2>3, <4>1 DEF Records
      <4>3. NodesStep(f, t) = NodesStep(g, t)
        BY <3>2, <4>2 DEF NodesStep
      <4> QED
        BY <2>4, <4>3
    <3> QED
      BY <3>1, <3>2
  <2>7. NodesFun(g, TreesUpTo[h])
    BY <2>5, <2>6 DEF NodesFun
  <2> QED
    BY <1>0, <2>7
<1> HIDE DEF S
<1>3. MaxHeight \in S
  BY <1>0, <1>1, <1>2, LevelInduction
<1> QED
  BY <1>3 DEF S, Trees

\* Deep
DeepStep(f, t) ==
  IF t = NULL THEN -1 ELSE 1 + Larger(f[t.left], f[t.right])

DeepFun(f, S) == f = [t \in S |-> DeepStep(f, t)]

LEMMA DeepExists ==
  \E f : DeepFun(f, Trees)
<1> DEFINE S == {h \in 0 .. MaxHeight : \E f : DeepFun(f, TreesUpTo[h])}
<1>0. MaxHeight \in Nat
  BY SetAssumption
<1>1. 0 \in S
  <2> DEFINE f == [t \in {NULL} |-> DeepStep(<<>>, t)]
  <2>1. f = [t \in {NULL} |-> DeepStep(f, t)]
    <3>1. \A g : DeepStep(g, NULL) = DeepStep(<<>>, NULL)
      BY DEF DeepStep
    <3> QED
      BY <3>1
  <2>2. DeepFun(f, TreesUpTo[0])
    <3> HIDE DEF f
    <3> QED
      BY <2>1, TreesUpToIs DEF DeepFun
  <2> QED
    BY <1>0, <2>2
<1>2. ASSUME NEW h \in 1 .. MaxHeight, h - 1 \in S PROVE h \in S
  <2>1. PICK f : DeepFun(f, TreesUpTo[h - 1])
    BY <1>2
  <2> DEFINE g == [t \in TreesUpTo[h] |-> DeepStep(f, t)]
  <2>2. \A t \in TreesUpTo[h - 1] : f[t] = DeepStep(f, t)
    BY <2>1 DEF DeepFun
  <2>3. \A t \in TreesUpTo[h - 1] : g[t] = f[t]
    BY <2>2, LevelsGrow
  <2>4. \A t \in TreesUpTo[h] : g[t] = DeepStep(f, t)
    OBVIOUS
  <2>5. g = [t \in TreesUpTo[h] |-> g[t]]
    OBVIOUS
  <2> HIDE DEF g
  <2>6. ASSUME NEW t \in TreesUpTo[h] PROVE g[t] = DeepStep(g, t)
    <3>1. CASE t = NULL
      BY <2>4, <3>1 DEF DeepStep
    <3>2. CASE t # NULL
      <4>1. t \in Records(TreesUpTo[h - 1])
        BY <3>2, NodeOfLevel
      <4>2. g[t.left] = f[t.left] /\ g[t.right] = f[t.right]
        BY <2>3, <4>1 DEF Records
      <4>3. DeepStep(f, t) = DeepStep(g, t)
        BY <3>2, <4>2 DEF DeepStep
      <4> QED
        BY <2>4, <4>3
    <3> QED
      BY <3>1, <3>2
  <2>7. DeepFun(g, TreesUpTo[h])
    BY <2>5, <2>6 DEF DeepFun
  <2> QED
    BY <1>0, <2>7
<1> HIDE DEF S
<1>3. MaxHeight \in S
  BY <1>0, <1>1, <1>2, LevelInduction
<1> QED
  BY <1>3 DEF S, Trees

\* DisposeNode
DisposeStep(f, t) ==
  IF t = NULL THEN <<>> ELSE f[t.left] \o f[t.right] \o <<t.data>>

DisposeFun(f, S) == f = [t \in S |-> DisposeStep(f, t)]

LEMMA DisposeExists ==
  \E f : DisposeFun(f, Trees)
<1> DEFINE S == {h \in 0 .. MaxHeight : \E f : DisposeFun(f, TreesUpTo[h])}
<1>0. MaxHeight \in Nat
  BY SetAssumption
<1>1. 0 \in S
  <2> DEFINE f == [t \in {NULL} |-> DisposeStep(<<>>, t)]
  <2>1. f = [t \in {NULL} |-> DisposeStep(f, t)]
    <3>1. \A g : DisposeStep(g, NULL) = DisposeStep(<<>>, NULL)
      BY DEF DisposeStep
    <3> QED
      BY <3>1
  <2>2. DisposeFun(f, TreesUpTo[0])
    <3> HIDE DEF f
    <3> QED
      BY <2>1, TreesUpToIs DEF DisposeFun
  <2> QED
    BY <1>0, <2>2
<1>2. ASSUME NEW h \in 1 .. MaxHeight, h - 1 \in S PROVE h \in S
  <2>1. PICK f : DisposeFun(f, TreesUpTo[h - 1])
    BY <1>2
  <2> DEFINE g == [t \in TreesUpTo[h] |-> DisposeStep(f, t)]
  <2>2. \A t \in TreesUpTo[h - 1] : f[t] = DisposeStep(f, t)
    BY <2>1 DEF DisposeFun
  <2>3. \A t \in TreesUpTo[h - 1] : g[t] = f[t]
    BY <2>2, LevelsGrow
  <2>4. \A t \in TreesUpTo[h] : g[t] = DisposeStep(f, t)
    OBVIOUS
  <2>5. g = [t \in TreesUpTo[h] |-> g[t]]
    OBVIOUS
  <2> HIDE DEF g
  <2>6. ASSUME NEW t \in TreesUpTo[h] PROVE g[t] = DisposeStep(g, t)
    <3>1. CASE t = NULL
      BY <2>4, <3>1 DEF DisposeStep
    <3>2. CASE t # NULL
      <4>1. t \in Records(TreesUpTo[h - 1])
        BY <3>2, NodeOfLevel
      <4>2. g[t.left] = f[t.left] /\ g[t.right] = f[t.right]
        BY <2>3, <4>1 DEF Records
      <4>3. DisposeStep(f, t) = DisposeStep(g, t)
        BY <3>2, <4>2 DEF DisposeStep
      <4> QED
        BY <2>4, <4>3
    <3> QED
      BY <3>1, <3>2
  <2>7. DisposeFun(g, TreesUpTo[h])
    BY <2>5, <2>6 DEF DisposeFun
  <2> QED
    BY <1>0, <2>7
<1> HIDE DEF S
<1>3. MaxHeight \in S
  BY <1>0, <1>1, <1>2, LevelInduction
<1> QED
  BY <1>3 DEF S, Trees

\* Last
LastStep(f, t) ==
  IF t = NULL \/ t.right = NULL THEN t ELSE f[t.right]

LastFun(f, S) == f = [t \in S |-> LastStep(f, t)]

LEMMA LastExists ==
  \E f : LastFun(f, Trees)
<1> DEFINE S == {h \in 0 .. MaxHeight : \E f : LastFun(f, TreesUpTo[h])}
<1>0. MaxHeight \in Nat
  BY SetAssumption
<1>1. 0 \in S
  <2> DEFINE f == [t \in {NULL} |-> LastStep(<<>>, t)]
  <2>1. f = [t \in {NULL} |-> LastStep(f, t)]
    <3>1. \A g : LastStep(g, NULL) = LastStep(<<>>, NULL)
      BY DEF LastStep
    <3> QED
      BY <3>1
  <2>2. LastFun(f, TreesUpTo[0])
    <3> HIDE DEF f
    <3> QED
      BY <2>1, TreesUpToIs DEF LastFun
  <2> QED
    BY <1>0, <2>2
<1>2. ASSUME NEW h \in 1 .. MaxHeight, h - 1 \in S PROVE h \in S
  <2>1. PICK f : LastFun(f, TreesUpTo[h - 1])
    BY <1>2
  <2> DEFINE g == [t \in TreesUpTo[h] |-> LastStep(f, t)]
  <2>2. \A t \in TreesUpTo[h - 1] : f[t] = LastStep(f, t)
    BY <2>1 DEF LastFun
  <2>3. \A t \in TreesUpTo[h - 1] : g[t] = f[t]
    BY <2>2, LevelsGrow
  <2>4. \A t \in TreesUpTo[h] : g[t] = LastStep(f, t)
    OBVIOUS
  <2>5. g = [t \in TreesUpTo[h] |-> g[t]]
    OBVIOUS
  <2> HIDE DEF g
  <2>6. ASSUME NEW t \in TreesUpTo[h] PROVE g[t] = LastStep(g, t)
    <3>1. CASE t = NULL
      BY <2>4, <3>1 DEF LastStep
    <3>2. CASE t # NULL
      <4>1. t \in Records(TreesUpTo[h - 1])
        BY <3>2, NodeOfLevel
      <4>2. g[t.left] = f[t.left] /\ g[t.right] = f[t.right]
        BY <2>3, <4>1 DEF Records
      <4>3. LastStep(f, t) = LastStep(g, t)
        BY <3>2, <4>2 DEF LastStep
      <4> QED
        BY <2>4, <4>3
    <3> QED
      BY <3>1, <3>2
  <2>7. LastFun(g, TreesUpTo[h])
    BY <2>5, <2>6 DEF LastFun
  <2> QED
    BY <1>0, <2>7
<1> HIDE DEF S
<1>3. MaxHeight \in S
  BY <1>0, <1>1, <1>2, LevelInduction
<1> QED
  BY <1>3 DEF S, Trees

\* Lookup
LookupStep(f, t, d) ==
  IF t = NULL \/ Matches(t, d) THEN t ELSE f[t[Direction(t, d)]]

LookupFun(f, S, d) == f = [t \in S |-> LookupStep(f, t, d)]

LEMMA LookupExists ==
  ASSUME NEW d
  PROVE  \E f : LookupFun(f, Trees, d)
<1> DEFINE S == {h \in 0 .. MaxHeight : \E f : LookupFun(f, TreesUpTo[h], d)}
<1>0. MaxHeight \in Nat
  BY SetAssumption
<1>1. 0 \in S
  <2> DEFINE f == [t \in {NULL} |-> LookupStep(<<>>, t, d)]
  <2>1. f = [t \in {NULL} |-> LookupStep(f, t, d)]
    <3>1. \A g : LookupStep(g, NULL, d) = LookupStep(<<>>, NULL, d)
      BY DEF LookupStep
    <3> QED
      BY <3>1
  <2>2. LookupFun(f, TreesUpTo[0], d)
    <3> HIDE DEF f
    <3> QED
      BY <2>1, TreesUpToIs DEF LookupFun
  <2> QED
    BY <1>0, <2>2
<1>2. ASSUME NEW h \in 1 .. MaxHeight, h - 1 \in S PROVE h \in S
  <2>1. PICK f : LookupFun(f, TreesUpTo[h - 1], d)
    BY <1>2
  <2> DEFINE g == [t \in TreesUpTo[h] |-> LookupStep(f, t, d)]
  <2>2. \A t \in TreesUpTo[h - 1] : f[t] = LookupStep(f, t, d)
    BY <2>1 DEF LookupFun
  <2>3. \A t \in TreesUpTo[h - 1] : g[t] = f[t]
    BY <2>2, LevelsGrow
  <2>4. \A t \in TreesUpTo[h] : g[t] = LookupStep(f, t, d)
    OBVIOUS
  <2>5. g = [t \in TreesUpTo[h] |-> g[t]]
    OBVIOUS
  <2> HIDE DEF g
  <2>6. ASSUME NEW t \in TreesUpTo[h] PROVE g[t] = LookupStep(g, t, d)
    <3>1. CASE t = NULL
      BY <2>4, <3>1 DEF LookupStep
    <3>2. CASE t # NULL
      <4>1. t \in Records(TreesUpTo[h - 1])
        BY <3>2, NodeOfLevel
      <4>2. g[t.left] = f[t.left] /\ g[t.right] = f[t.right]
        BY <2>3, <4>1 DEF Records
      <4>3. LookupStep(f, t, d) = LookupStep(g, t, d)
        <5>1. CASE Direction(t, d) = "left"
          BY <3>2, <4>2, <5>1 DEF LookupStep
        <5>2. CASE Direction(t, d) = "right"
          BY <3>2, <4>2, <5>2 DEF LookupStep
        <5> QED
          BY <5>1, <5>2 DEF Direction
      <4> QED
        BY <2>4, <4>3
    <3> QED
      BY <3>1, <3>2
  <2>7. LookupFun(g, TreesUpTo[h], d)
    BY <2>5, <2>6 DEF LookupFun
  <2> QED
    BY <1>0, <2>7
<1> HIDE DEF S
<1>3. MaxHeight \in S
  BY <1>0, <1>1, <1>2, LevelInduction
<1> QED
  BY <1>3 DEF S, Trees

\* Rank
RankStep(f, t, d) ==
  [rank \in Nat |->
    IF t = NULL THEN CSET_ERROR
    ELSE IF Matches(t, d) THEN rank + t.nleft
    ELSE IF Direction(t, d) = "right" THEN f[t.right][rank + 1 + t.nleft]
    ELSE f[t.left][rank]]

RankFun(f, S, d) == f = [t \in S |-> RankStep(f, t, d)]

LEMMA RankExists ==
  ASSUME NEW d
  PROVE  \E f : RankFun(f, Trees, d)
<1> DEFINE S == {h \in 0 .. MaxHeight : \E f : RankFun(f, TreesUpTo[h], d)}
<1>0. MaxHeight \in Nat
  BY SetAssumption
<1>1. 0 \in S
  <2> DEFINE f == [t \in {NULL} |-> RankStep(<<>>, t, d)]
  <2>1. f = [t \in {NULL} |-> RankStep(f, t, d)]
    <3>1. \A g : RankStep(g, NULL, d) = RankStep(<<>>, NULL, d)
      BY DEF RankStep
    <3> QED
      BY <3>1
  <2>2. RankFun(f, TreesUpTo[0], d)
    <3> HIDE DEF f
    <3> QED
      BY <2>1, TreesUpToIs DEF RankFun
  <2> QED
    BY <1>0, <2>2
<1>2. ASSUME NEW h \in 1 .. MaxHeight, h - 1 \in S PROVE h \in S
  <2>1. PICK f : RankFun(f, TreesUpTo[h - 1], d)
    BY <1>2
  <2> DEFINE g == [t \in TreesUpTo[h] |-> RankStep(f, t, d)]
  <2>2. \A t \in TreesUpTo[h - 1] : f[t] = RankStep(f, t, d)
    BY <2>1 DEF RankFun
  <2>3. \A t \in TreesUpTo[h - 1] : g[t] = f[t]
    BY <2>2, LevelsGrow
  <2>4. \A t \in TreesUpTo[h] : g[t] = RankStep(f, t, d)
    OBVIOUS
  <2>5. g = [t \in TreesUpTo[h] |-> g[t]]
    OBVIOUS
  <2> HIDE DEF g
  <2>6. ASSUME NEW t \in TreesUpTo[h] PROVE g[t] = RankStep(g, t, d)
    <3>1. CASE t = NULL
      BY <2>4, <3>1 DEF RankStep
    <3>2. CASE t # NULL
      <4>1. t \in Records(TreesUpTo[h - 1])
        BY <3>2, NodeOfLevel
      <4>2. g[t.left] = f[t.left] /\ g[t.right] = f[t.right]
        BY <2>3, <4>1 DEF Records
      <4>3. RankStep(f, t, d) = RankStep(g, t, d)
        BY <3>2, <4>2 DEF RankStep
      <4> QED
        BY <2>4, <4>3
    <3> QED
      BY <3>1, <3>2
  <2>7. RankFun(g, TreesUpTo[h], d)
    BY <2>5, <2>6 DEF RankFun
  <2> QED
    BY <1>0, <2>7
<1> HIDE DEF S
<1>3. MaxHeight \in S
  BY <1>0, <1>1, <1>2, LevelInduction
<1> QED
  BY <1>3 DEF S, Trees

\* InsertAt
InsertStep(f, t, d, memory) ==
  LET dir      == Direction(t, d)
      newChild == f[t[dir]]
  IN
  IF t = NULL THEN IF memory THEN NewNode(d) ELSE NULL
  ELSE IF Matches(t, d) THEN t
  ELSE IF newChild = NULL THEN NULL
  ELSE Balance(AssignChild(t, newChild, dir))

InsertFun(f, S, d, memory) == f = [t \in S |-> InsertStep(f, t, d, memory)]

LEMMA InsertExists ==
  ASSUME NEW d, NEW memory
  PROVE  \E f : InsertFun(f, Trees, d, memory)
<1> DEFINE S == {h \in 0 .. MaxHeight : \E f : InsertFun(f, TreesUpTo[h], d, memory)}
<1>0. MaxHeight \in Nat
  BY SetAssumption
<1>1. 0 \in S
  <2> DEFINE f == [t \in {NULL} |-> InsertStep(<<>>, t, d, memory)]
  <2>1. f = [t \in {NULL} |-> InsertStep(f, t, d, memory)]
    <3>1. \A g : InsertStep(g, NULL, d, memory) = InsertStep(<<>>, NULL, d, memory)
      BY DEF InsertStep
    <3> QED
      BY <3>1
  <2>2. InsertFun(f, TreesUpTo[0], d, memory)
    <3> HIDE DEF f
    <3> QED
      BY <2>1, TreesUpToIs DEF InsertFun
  <2> QED
    BY <1>0, <2>2
<1>2. ASSUME NEW h \in 1 .. MaxHeight, h - 1 \in S PROVE h \in S
  <2>1. PICK f : InsertFun(f, TreesUpTo[h - 1], d, memory)
    BY <1>2
  <2> DEFINE g == [t \in TreesUpTo[h] |-> InsertStep(f, t, d, memory)]
  <2>2. \A t \in TreesUpTo[h - 1] : f[t] = InsertStep(f, t, d, memory)
    BY <2>1 DEF InsertFun
  <2>3. \A t \in TreesUpTo[h - 1] : g[t] = f[t]
    BY <2>2, LevelsGrow
  <2>4. \A t \in TreesUpTo[h] : g[t] = InsertStep(f, t, d, memory)
    OBVIOUS
  <2>5. g = [t \in TreesUpTo[h] |-> g[t]]
    OBVIOUS
  <2> HIDE DEF g
  <2>6. ASSUME NEW t \in TreesUpTo[h] PROVE g[t] = InsertStep(g, t, d, memory)
    <3>1. CASE t = NULL
      BY <2>4, <3>1 DEF InsertStep
    <3>2. CASE t # NULL
      <4>1. t \in Records(TreesUpTo[h - 1])
        BY <3>2, NodeOfLevel
      <4>2. g[t.left] = f[t.left] /\ g[t.right] = f[t.right]
        BY <2>3, <4>1 DEF Records
      <4>3. InsertStep(f, t, d, memory) = InsertStep(g, t, d, memory)
        <5>1. CASE Direction(t, d) = "left"
          BY <3>2, <4>2, <5>1 DEF InsertStep
        <5>2. CASE Direction(t, d) = "right"
          BY <3>2, <4>2, <5>2 DEF InsertStep
        <5> QED
          BY <5>1, <5>2 DEF Direction
      <4> QED
        BY <2>4, <4>3
    <3> QED
      BY <3>1, <3>2
  <2>7. InsertFun(g, TreesUpTo[h], d, memory)
    BY <2>5, <2>6 DEF InsertFun
  <2> QED
    BY <1>0, <2>7
<1> HIDE DEF S
<1>3. MaxHeight \in S
  BY <1>0, <1>1, <1>2, LevelInduction
<1> QED
  BY <1>3 DEF S, Trees

\* RemoveAt
RemoveStep(f, t) ==
  [d \in Data |->
    LET dir  == Direction(t, d)
        rest == f[t[dir]][d]
    IN
    IF t = NULL THEN Without(NULL, NULL)
    ELSE IF Matches(t, d) THEN Without(RemoveNode(t, f[t.left]), t)
    ELSE Without(Balance(AssignChild(t, rest.tree, dir)), rest.removed)]

RemoveFun(f, S) == f = [t \in S |-> RemoveStep(f, t)]

LEMMA RemoveExists ==
  \E f : RemoveFun(f, Trees)
<1> DEFINE S == {h \in 0 .. MaxHeight : \E f : RemoveFun(f, TreesUpTo[h])}
<1>0. MaxHeight \in Nat
  BY SetAssumption
<1>1. 0 \in S
  <2> DEFINE f == [t \in {NULL} |-> RemoveStep(<<>>, t)]
  <2>1. f = [t \in {NULL} |-> RemoveStep(f, t)]
    <3>1. \A g : RemoveStep(g, NULL) = RemoveStep(<<>>, NULL)
      BY DEF RemoveStep
    <3> QED
      BY <3>1
  <2>2. RemoveFun(f, TreesUpTo[0])
    <3> HIDE DEF f
    <3> QED
      BY <2>1, TreesUpToIs DEF RemoveFun
  <2> QED
    BY <1>0, <2>2
<1>2. ASSUME NEW h \in 1 .. MaxHeight, h - 1 \in S PROVE h \in S
  <2>1. PICK f : RemoveFun(f, TreesUpTo[h - 1])
    BY <1>2
  <2> DEFINE g == [t \in TreesUpTo[h] |-> RemoveStep(f, t)]
  <2>2. \A t \in TreesUpTo[h - 1] : f[t] = RemoveStep(f, t)
    BY <2>1 DEF RemoveFun
  <2>3. \A t \in TreesUpTo[h - 1] : g[t] = f[t]
    BY <2>2, LevelsGrow
  <2>4. \A t \in TreesUpTo[h] : g[t] = RemoveStep(f, t)
    OBVIOUS
  <2>5. g = [t \in TreesUpTo[h] |-> g[t]]
    OBVIOUS
  <2> HIDE DEF g
  <2>6. ASSUME NEW t \in TreesUpTo[h] PROVE g[t] = RemoveStep(g, t)
    <3>1. CASE t = NULL
      BY <2>4, <3>1 DEF RemoveStep
    <3>2. CASE t # NULL
      <4>1. t \in Records(TreesUpTo[h - 1])
        BY <3>2, NodeOfLevel
      <4>2. g[t.left] = f[t.left] /\ g[t.right] = f[t.right]
        BY <2>3, <4>1 DEF Records
      <4>3. RemoveStep(f, t) = RemoveStep(g, t)
        <5>1. ASSUME NEW d PROVE f[t[Direction(t, d)]] = g[t[Direction(t, d)]]
          <6>1. CASE Direction(t, d) = "left"
            BY <4>2, <6>1
          <6>2. CASE Direction(t, d) = "right"
            BY <4>2, <6>2
          <6> QED
            BY <6>1, <6>2 DEF Direction
        <5> QED
          BY <3>2, <4>2, <5>1 DEF RemoveStep
      <4> QED
        BY <2>4, <4>3
    <3> QED
      BY <3>1, <3>2
  <2>7. RemoveFun(g, TreesUpTo[h])
    BY <2>5, <2>6 DEF RemoveFun
  <2> QED
    BY <1>0, <2>7
<1> HIDE DEF S
<1>3. MaxHeight \in S
  BY <1>0, <1>1, <1>2, LevelInduction
<1> QED
  BY <1>3 DEF S, Trees

-----------------------------------------------------------------------------
(***************************************************************************)
(* What the functions are at NULL and at a node.                           *)
(***************************************************************************)
LEMMA NodesOf ==
  /\ Nodes(NULL) = {}
  /\ \A t \in Trees : t # NULL => Nodes(t) = {t} \cup Nodes(t.left) \cup Nodes(t.right)
<1> DEFINE f == CHOOSE f : NodesFun(f, Trees)
<1>1. NodesFun(f, Trees)
  BY NodesExists
<1>2. \A t : Nodes(t) = f[t]
  BY DEF Nodes, NodesFun, NodesStep
<1> HIDE DEF f
<1>3. \A t \in Trees : f[t] = NodesStep(f, t)
  BY <1>1 DEF NodesFun
<1> QED
  BY <1>2, <1>3, TreesAre DEF NodesStep

LEMMA DeepOf ==
  /\ Deep(NULL) = -1
  /\ \A t \in Trees : t # NULL => Deep(t) = 1 + Larger(Deep(t.left), Deep(t.right))
<1> DEFINE f == CHOOSE f : DeepFun(f, Trees)
<1>1. DeepFun(f, Trees)
  BY DeepExists
<1>2. \A t : Deep(t) = f[t]
  BY DEF Deep, DeepFun, DeepStep
<1> HIDE DEF f
<1>3. \A t \in Trees : f[t] = DeepStep(f, t)
  BY <1>1 DEF DeepFun
<1> QED
  BY <1>2, <1>3, TreesAre DEF DeepStep

LEMMA DisposeOf ==
  /\ DisposeNode(NULL) = <<>>
  /\ \A t \in Trees : t # NULL =>
       DisposeNode(t) = DisposeNode(t.left) \o DisposeNode(t.right) \o <<t.data>>
<1> DEFINE f == CHOOSE f : DisposeFun(f, Trees)
<1>1. DisposeFun(f, Trees)
  BY DisposeExists
<1>2. \A t : DisposeNode(t) = f[t]
  BY DEF DisposeNode, DisposeFun, DisposeStep
<1> HIDE DEF f
<1>3. \A t \in Trees : f[t] = DisposeStep(f, t)
  BY <1>1 DEF DisposeFun
<1> QED
  BY <1>2, <1>3, TreesAre DEF DisposeStep

LEMMA LastOf ==
  \A t \in Trees : t # NULL => Last(t) = IF t.right = NULL THEN t ELSE Last(t.right)
<1> DEFINE f == CHOOSE f : LastFun(f, Trees)
<1>1. LastFun(f, Trees)
  BY LastExists
<1>2. \A t : Last(t) = f[t]
  BY DEF Last, LastFun, LastStep
<1> HIDE DEF f
<1>3. \A t \in Trees : f[t] = LastStep(f, t)
  BY <1>1 DEF LastFun
<1> QED
  BY <1>2, <1>3 DEF LastStep

\* Where the loop of lookup comes to from a node.
LookupIn(t, d) ==
  LET from[node \in Trees] ==
        IF node = NULL \/ Matches(node, d) THEN node ELSE from[node[Direction(node, d)]]
  IN from[t]

LEMMA LookupOf ==
  ASSUME NEW d
  PROVE  /\ Lookup(d) = LookupIn(root, d)
         /\ LookupIn(NULL, d) = NULL
         /\ \A t \in Trees : t # NULL =>
              LookupIn(t, d) = IF Matches(t, d) THEN t
                               ELSE IF Direction(t, d) = "left" THEN LookupIn(t.left, d)
                               ELSE LookupIn(t.right, d)
<1> DEFINE f == CHOOSE f : LookupFun(f, Trees, d)
<1>1. LookupFun(f, Trees, d)
  BY LookupExists
<1>2. \A t : LookupIn(t, d) = f[t]
  BY DEF LookupIn, LookupFun, LookupStep
<1>3. Lookup(d) = LookupIn(root, d)
  BY DEF LookupIn, Lookup
<1> HIDE DEF f
<1>4. \A t \in Trees : f[t] = LookupStep(f, t, d)
  BY <1>1 DEF LookupFun
<1>5. LookupIn(NULL, d) = NULL
  BY <1>2, <1>4, TreesAre DEF LookupStep
<1>6. ASSUME NEW t \in Trees, t # NULL
      PROVE  LookupIn(t, d) = IF Matches(t, d) THEN t
                              ELSE IF Direction(t, d) = "left" THEN LookupIn(t.left, d)
                              ELSE LookupIn(t.right, d)
  <2>1. LookupIn(t, d) = LookupStep(f, t, d)
    BY <1>2, <1>4
  <2>2. CASE Direction(t, d) = "left"
    BY <1>2, <1>6, <2>1, <2>2 DEF LookupStep
  <2>3. CASE Direction(t, d) = "right"
    BY <1>2, <1>6, <2>1, <2>3 DEF LookupStep
  <2> QED
    BY <2>2, <2>3 DEF Direction
<1> QED
  BY <1>3, <1>5, <1>6

\* What the loop of set_rank returns from a node and a rank on.
RankIn(t, d, n) ==
  LET from[node \in Trees] ==
        [rank \in Nat |->
          IF node = NULL THEN CSET_ERROR
          ELSE IF Matches(node, d) THEN rank + node.nleft
          ELSE IF Direction(node, d) = "right" THEN from[node.right][rank + 1 + node.nleft]
          ELSE from[node.left][rank]]
  IN from[t][n]

LEMMA RankOf ==
  ASSUME NEW d
  PROVE  /\ Rank(d) = RankIn(root, d, 0)
         /\ \A n \in Nat : RankIn(NULL, d, n) = CSET_ERROR
         /\ \A t \in Trees : t # NULL => \A n \in Nat :
              RankIn(t, d, n) = IF Matches(t, d) THEN n + t.nleft
                                ELSE IF Direction(t, d) = "right"
                                  THEN RankIn(t.right, d, n + 1 + t.nleft)
                                ELSE RankIn(t.left, d, n)
<1> DEFINE f == CHOOSE f : RankFun(f, Trees, d)
<1>1. RankFun(f, Trees, d)
  BY RankExists
<1>2. \A t, n : RankIn(t, d, n) = f[t][n]
  BY DEF RankIn, RankFun, RankStep
<1>3. Rank(d) = RankIn(root, d, 0)
  BY DEF RankIn, Rank
<1> HIDE DEF f
<1>4. \A t \in Trees : f[t] = RankStep(f, t, d)
  BY <1>1 DEF RankFun
<1>5. ASSUME NEW n \in Nat PROVE RankIn(NULL, d, n) = CSET_ERROR
  <2>1. RankIn(NULL, d, n) = RankStep(f, NULL, d)[n]
    BY <1>2, <1>4, TreesAre
  <2> QED
    BY <2>1 DEF RankStep
<1>6. ASSUME NEW t \in Trees, t # NULL, NEW n \in Nat
      PROVE  RankIn(t, d, n) = IF Matches(t, d) THEN n + t.nleft
                               ELSE IF Direction(t, d) = "right"
                                 THEN RankIn(t.right, d, n + 1 + t.nleft)
                               ELSE RankIn(t.left, d, n)
  <2>1. RankIn(t, d, n) = RankStep(f, t, d)[n]
    BY <1>2, <1>4
  <2> QED
    BY <1>2, <1>6, <2>1 DEF RankStep
<1> QED
  BY <1>3, <1>5, <1>6

LEMMA InsertOf ==
  ASSUME NEW d, NEW memory
  PROVE  /\ InsertAt(NULL, d, memory) = IF memory THEN NewNode(d) ELSE NULL
         /\ \A t \in Trees : t # NULL /\ Matches(t, d) => InsertAt(t, d, memory) = t
         /\ \A t \in Trees : t # NULL /\ ~ Matches(t, d) =>
              \A dir \in {"left", "right"} : dir = Direction(t, d) =>
                InsertAt(t, d, memory) =
                  IF InsertAt(t[dir], d, memory) = NULL THEN NULL
                  ELSE Balance(AssignChild(t, InsertAt(t[dir], d, memory), dir))
<1> DEFINE f == CHOOSE f : InsertFun(f, Trees, d, memory)
<1>1. InsertFun(f, Trees, d, memory)
  BY InsertExists
<1>2. \A t : InsertAt(t, d, memory) = f[t]
  BY DEF InsertAt, InsertFun, InsertStep
<1> HIDE DEF f
<1>4. \A t \in Trees : f[t] = InsertStep(f, t, d, memory)
  BY <1>1 DEF InsertFun
<1>5. InsertAt(NULL, d, memory) = IF memory THEN NewNode(d) ELSE NULL
  BY <1>2, <1>4, TreesAre DEF InsertStep
<1>6. \A t \in Trees : t # NULL /\ Matches(t, d) => InsertAt(t, d, memory) = t
  BY <1>2, <1>4 DEF InsertStep
<1>7. ASSUME NEW t \in Trees, t # NULL, ~ Matches(t, d),
             NEW dir \in {"left", "right"}, dir = Direction(t, d)
      PROVE  InsertAt(t, d, memory) =
               IF InsertAt(t[dir], d, memory) = NULL THEN NULL
               ELSE Balance(AssignChild(t, InsertAt(t[dir], d, memory), dir))
  <2>1. InsertAt(t, d, memory) = InsertStep(f, t, d, memory)
    BY <1>2, <1>4
  <2>2. InsertAt(t[dir], d, memory) = f[t[dir]]
    BY <1>2
  <2> QED
    BY <1>7, <2>1, <2>2 DEF InsertStep
<1> QED
  BY <1>5, <1>6, <1>7

\* What remove_at does to a tree for each element.
RemoveFrom(t) == [d \in Data |-> RemoveAt(t, d)]

LEMMA RemoveOf ==
  ASSUME NEW d \in Data
  PROVE  /\ RemoveAt(NULL, d) = Without(NULL, NULL)
         /\ \A t \in Trees : t # NULL /\ Matches(t, d) =>
              RemoveAt(t, d) = Without(RemoveNode(t, RemoveFrom(t.left)), t)
         /\ \A t \in Trees : t # NULL /\ ~ Matches(t, d) =>
              \A dir \in {"left", "right"} : dir = Direction(t, d) =>
                RemoveAt(t, d) =
                  Without(Balance(AssignChild(t, RemoveAt(t[dir], d).tree, dir)),
                          RemoveAt(t[dir], d).removed)
<1> DEFINE f == CHOOSE f : RemoveFun(f, Trees)
<1>1. RemoveFun(f, Trees)
  BY RemoveExists
<1>2. \A t, e : RemoveAt(t, e) = f[t][e]
  BY DEF RemoveAt, RemoveFun, RemoveStep
<1> HIDE DEF f
<1>3. \A t \in Trees : f[t] = RemoveStep(f, t)
  BY <1>1 DEF RemoveFun
<1>4. ASSUME NEW t \in Trees PROVE RemoveFrom(t) = f[t]
  <2>1. f[t] = [e \in Data |-> f[t][e]]
    BY <1>3 DEF RemoveStep
  <2> QED
    BY <1>2, <2>1 DEF RemoveFrom
<1>5. RemoveAt(NULL, d) = Without(NULL, NULL)
  BY <1>2, <1>3, TreesAre DEF RemoveStep
<1>6. ASSUME NEW t \in Trees, t # NULL, Matches(t, d)
      PROVE  RemoveAt(t, d) = Without(RemoveNode(t, RemoveFrom(t.left)), t)
  <2>1. RemoveAt(t, d) = RemoveStep(f, t)[d]
    BY <1>2, <1>3
  <2>2. RemoveFrom(t.left) = f[t.left]
    BY <1>4, <1>6, TreesAre DEF Records
  <2> QED
    BY <1>6, <2>1, <2>2 DEF RemoveStep
<1>7. ASSUME NEW t \in Trees, t # NULL, ~ Matches(t, d),
             NEW dir \in {"left", "right"}, dir = Direction(t, d)
      PROVE  RemoveAt(t, d) =
               Without(Balance(AssignChild(t, RemoveAt(t[dir], d).tree, dir)),
                       RemoveAt(t[dir], d).removed)
  <2>1. RemoveAt(t, d) = RemoveStep(f, t)[d]
    BY <1>2, <1>3
  <2>2. RemoveAt(t[dir], d) = f[t[dir]][d]
    BY <1>2
  <2> QED
    BY <1>7, <2>1, <2>2 DEF RemoveStep
<1> QED
  BY <1>5, <1>6, <1>7

-----------------------------------------------------------------------------
(***************************************************************************)
(* Search trees.  A node is sound if what it keeps is right, its subtrees  *)
(* differ by at most one level, and its element is between theirs; a tree  *)
(* is one if all its nodes are sound.                                      *)
(***************************************************************************)
Node(d, l, r) ==
  [data |-> d, left |-> l, right |-> r, height |-> 1 + Larger(l.height, r.height),
   nleft |-> GetSize(l), nright |-> GetSize(r)]

Divides(d, l, r) ==
  /\ \A e \in Elements(l) : KeyOf[e] < KeyOf[d]
  /\ \A e \in Elements(r) : KeyOf[d] < KeyOf[e]

Sound(n) ==
  /\ n = Node(n.data, n.left, n.right)
  /\ n.left.height - n.right.height \in -1 .. 1
  /\ Divides(n.data, n.left, n.right)

Avl(t) == \A n \in Nodes(t) : Sound(n)

Search == {t \in Trees : Avl(t)}

LEMMA ElementsOf ==
  /\ Elements(NULL) = {}
  /\ \A t \in Trees : t # NULL =>
       Elements(t) = {t.data} \cup Elements(t.left) \cup Elements(t.right)
BY NodesOf DEF Elements

LEMMA ElementsAre ==
  \A t \in Trees : Elements(t) \subseteq Data /\ IsFiniteSet(Elements(t))
<1> DEFINE S == {t \in Trees : Elements(t) \subseteq Data /\ IsFiniteSet(Elements(t))}
<1>1. NULL \in S
  BY ElementsOf, TreesAre, FS_EmptySet
<1>2. ASSUME NEW t \in Trees, t # NULL, t.left \in S, t.right \in S PROVE t \in S
  <2>1. t.data \in Data
    BY <1>2, TreesAre DEF Records
  <2>2. Elements(t) = {t.data} \cup Elements(t.left) \cup Elements(t.right)
    BY <1>2, ElementsOf
  <2>3. IsFiniteSet({t.data} \cup Elements(t.left) \cup Elements(t.right))
    BY <1>2, FS_Singleton, FS_Union
  <2> QED
    BY <1>2, <2>1, <2>2, <2>3
<1> HIDE DEF S
<1>3. Trees \subseteq S
  BY <1>1, <1>2, TreeInduction
<1> QED
  BY <1>3 DEF S

LEMMA SearchOf ==
  /\ NULL \in Search
  /\ \A t \in Trees : t # NULL =>
       (t \in Search <=> Sound(t) /\ t.left \in Search /\ t.right \in Search)
<1>1. NULL \in Search
  BY TreesAre, NodesOf DEF Search, Avl
<1>2. ASSUME NEW t \in Trees, t # NULL
      PROVE  t \in Search <=> Sound(t) /\ t.left \in Search /\ t.right \in Search
  <2>1. t.left \in Trees /\ t.right \in Trees
    BY <1>2, TreesAre DEF Records
  <2>2. Nodes(t) = {t} \cup Nodes(t.left) \cup Nodes(t.right)
    BY <1>2, NodesOf
  <2> QED
    BY <2>1, <2>2 DEF Search, Avl
<1> QED
  BY <1>1, <1>2

LEMMA LargerIs ==
  ASSUME NEW m \in Int, NEW n \in Int
  PROVE  /\ Larger(m, n) \in Int /\ Larger(m, n) >= m /\ Larger(m, n) >= n
         /\ Larger(m, n) = m \/ Larger(m, n) = n
BY DEF Larger

\* The height and the size that a tree keeps are those that it has.
Kept(t) ==
  /\ t.height \in Int /\ t.height >= -1 /\ (t # NULL => t.height >= 0)
  /\ Deep(t) = t.height
  /\ GetSize(t) \in Nat
  /\ GetSize(t) = Cardinality(Elements(t))

LEMMA DisjointUnion ==
  ASSUME NEW d, NEW A, NEW B, IsFiniteSet(A), IsFiniteSet(B),
         d \notin A, d \notin B, A \cap B = {}
  PROVE  /\ Cardinality({d} \cup A \cup B) = 1 + Cardinality(A) + Cardinality(B)
         /\ Cardinality(A) \in Nat /\ Cardinality(B) \in Nat
<1>1. IsFiniteSet(A \cup B) /\ Cardinality(A \cup B) = Cardinality(A) + Cardinality(B) - Cardinality(A \cap B)
  BY FS_Union
<1>2. Cardinality(A) \in Nat /\ Cardinality(B) \in Nat /\ Cardinality(A \cap B) = 0
  BY FS_CardinalityType, FS_EmptySet
<1>3. Cardinality((A \cup B) \cup {d}) = Cardinality(A \cup B) + 1
  BY <1>1, FS_AddElement
<1>4. {d} \cup A \cup B = (A \cup B) \cup {d}
  OBVIOUS
<1> QED
  BY <1>1, <1>2, <1>3, <1>4

LEMMA SearchKept == \A t \in Search : Kept(t)
<1> DEFINE S == {t \in Trees : t \in Search => Kept(t)}
<1>1. NULL \in S
  <2>1. Kept(NULL)
    <3>1. NULL.height = -1
      BY DEF NULL
    <3>2. GetSize(NULL) = 0 /\ Cardinality({}) = 0
      BY FS_EmptySet DEF GetSize
    <3> QED
      BY <3>1, <3>2, DeepOf, ElementsOf DEF Kept
  <2> QED
    BY <2>1, TreesAre
<1>2. ASSUME NEW t \in Trees, t # NULL, t.left \in S, t.right \in S PROVE t \in S
  <2> SUFFICES ASSUME t \in Search PROVE Kept(t)
    OBVIOUS
  <2> DEFINE l == t.left
             r == t.right
  <2>1. Sound(t) /\ Kept(l) /\ Kept(r) /\ l \in Trees /\ r \in Trees
    BY <1>2, SearchOf
  <2>2. t = Node(t.data, l, r) /\ Divides(t.data, l, r)
    BY <2>1 DEF Sound
  <2> HIDE DEF l, r
  <2>3. t.height = 1 + Larger(l.height, r.height) /\ t.nleft = GetSize(l) /\ t.nright = GetSize(r)
    BY <2>2 DEF Node
  <2>4. l.height \in Int /\ r.height \in Int /\ l.height >= -1
    BY <2>1 DEF Kept
  <2>5. t.height \in Int /\ t.height >= 0
    <3>1. /\ Larger(l.height, r.height) \in Int
          /\ Larger(l.height, r.height) >= l.height
      BY <2>4, LargerIs
    <3> QED
      BY <2>3, <2>4, <3>1
  <2>6. Deep(t) = t.height
    BY <1>2, <2>1, <2>3, DeepOf DEF Kept, l, r
  <2>7. GetSize(t) = 1 + GetSize(l) + GetSize(r)
    BY <1>2, <2>3 DEF GetSize
  <2>8. GetSize(t) = Cardinality(Elements(t)) /\ GetSize(t) \in Nat
    <3>1. Elements(t) = {t.data} \cup Elements(l) \cup Elements(r)
      BY <1>2, ElementsOf DEF l, r
    <3>2. Elements(l) \subseteq Data /\ Elements(r) \subseteq Data /\ t.data \in Data
      BY <1>2, <2>1, ElementsAre, TreesAre DEF Records
    <3>3. \A e \in Data : KeyOf[e] \in Int
      BY SetAssumption
    <3>4. t.data \notin Elements(l) /\ t.data \notin Elements(r)
      BY <2>2, <3>2, <3>3 DEF Divides
    <3>5. Elements(l) \cap Elements(r) = {}
      BY <2>2, <3>2, <3>3 DEF Divides
    <3>6. IsFiniteSet(Elements(l)) /\ IsFiniteSet(Elements(r))
      BY <2>1, ElementsAre
    <3>7. Cardinality(Elements(t)) = 1 + Cardinality(Elements(l)) + Cardinality(Elements(r))
      BY <3>1, <3>4, <3>5, <3>6, DisjointUnion
    <3> QED
      BY <2>1, <2>7, <3>7 DEF Kept
  <2> QED
    BY <2>5, <2>6, <2>8 DEF Kept
<1> HIDE DEF S
<1>3. Trees \subseteq S
  BY <1>1, <1>2, TreeInduction
<1> QED
  BY <1>3 DEF S, Search

\* A search tree has the levels that its height says.
LEMMA SearchLevels ==
  \A t \in Search : t.height + 1 \in 0 .. MaxHeight /\ t \in TreesUpTo[t.height + 1]
<1> DEFINE L == {h \in 0 .. MaxHeight :
                   \A t \in TreesUpTo[h] : t \in Search => t.height + 1 <= h}
           S == {t \in Trees : t \in Search => t \in TreesUpTo[t.height + 1]}
<1>0. MaxHeight \in Nat
  BY SetAssumption
<1>1. NULL.height = -1
  BY DEF NULL
<1>2. 0 \in L
  BY <1>0, <1>1, TreesUpToIs
<1>3. ASSUME NEW h \in 1 .. MaxHeight, h - 1 \in L PROVE h \in L
  <2>1. h \in 0 .. MaxHeight
    BY <1>0
  <2>2. ASSUME NEW t \in TreesUpTo[h], t \in Search PROVE t.height + 1 <= h
    <3>1. CASE t = NULL
      BY <1>1, <3>1
    <3>2. CASE t # NULL
      <4>1. t.left \in TreesUpTo[h - 1] /\ t.right \in TreesUpTo[h - 1]
        BY <3>2, NodeOfLevel DEF Records
      <4>2. t.left \in Search /\ t.right \in Search /\ Sound(t)
        BY <2>2, <3>2, SearchOf DEF Search
      <4>3. t.left.height + 1 <= h - 1 /\ t.right.height + 1 <= h - 1
        BY <1>3, <4>1, <4>2
      <4>4. t.height = 1 + Larger(t.left.height, t.right.height)
        BY <4>2 DEF Sound, Node
      <4>5. t.left.height \in Int /\ t.right.height \in Int
        BY <4>2, SearchKept DEF Kept
      <4>6. t.height = 1 + t.left.height \/ t.height = 1 + t.right.height
        BY <4>4, <4>5, LargerIs
      <4> QED
        BY <4>3, <4>5, <4>6
    <3> QED
      BY <3>1, <3>2
  <2> QED
    BY <2>1, <2>2
<1> HIDE DEF L
<1>4. MaxHeight \in L
  BY <1>0, <1>2, <1>3, LevelInduction
<1>5. ASSUME NEW t \in Search PROVE t.height + 1 \in 0 .. MaxHeight
  <2>1. t.height + 1 <= MaxHeight
    BY <1>4 DEF L, Search, Trees
  <2>2. t.height \in Int /\ t.height >= -1
    BY SearchKept DEF Kept
  <2> QED
    BY <1>0, <2>1, <2>2
<1>6. NULL \in S
  BY <1>1, TreesAre, TreesUpToIs
<1>7. ASSUME NEW t \in Trees, t # NULL, t.left \in S, t.right \in S PROVE t \in S
  <2> SUFFICES ASSUME t \in Search PROVE t \in TreesUpTo[t.height + 1]
    OBVIOUS
  <2> DEFINE l == t.left
             r == t.right
             k == t.height
  <2>1. l \in Search /\ r \in Search /\ Sound(t)
    BY <1>7, SearchOf
  <2>2. k = 1 + Larger(l.height, r.height)
    BY <2>1 DEF Sound, Node
  <2>3. /\ l.height \in Int /\ r.height \in Int /\ k \in Int /\ k >= 0
        /\ l.height >= -1 /\ r.height >= -1
    BY <1>7, <2>1, SearchKept DEF Kept
  <2>4. l \in TreesUpTo[l.height + 1] /\ r \in TreesUpTo[r.height + 1]
    BY <1>7, <2>1
  <2>5. k + 1 \in 1 .. MaxHeight /\ k \in 0 .. MaxHeight
    BY <1>0, <1>5, <2>3
  <2> DEFINE m == l.height + 1
             n == r.height + 1
  <2>6. /\ Larger(l.height, r.height) \in Int
        /\ Larger(l.height, r.height) >= l.height
        /\ Larger(l.height, r.height) >= r.height
    BY <2>3, LargerIs
  <2>7. m \in 0 .. MaxHeight /\ n \in 0 .. MaxHeight
    BY <1>5, <2>1
  <2>8. k \in m .. MaxHeight /\ k \in n .. MaxHeight
    <3>1. k >= m /\ k >= n
      <4> HIDE DEF k
      <4> QED
        BY <2>2, <2>3, <2>6
    <3> QED
      BY <2>5, <2>7, <3>1
  <2> HIDE DEF l, r, k, m, n
  <2>9. l \in TreesUpTo[k] /\ r \in TreesUpTo[k]
    BY <2>4, <2>7, <2>8, LevelsMonotone DEF m, n
  <2>10. t \in Records(TreesUpTo[k])
    BY <1>7, <2>9, TreesAre DEF Records, l, r
  <2>11. (k + 1) - 1 = k
    BY <2>3
  <2>12. t \in TreesUpTo[k + 1]
    BY <2>5, <2>10, <2>11, TreesUpToIs
  <2> QED
    BY <2>12 DEF k
<1> HIDE DEF S
<1>8. Trees \subseteq S
  BY <1>6, <1>7, TreeInduction
<1> QED
  BY <1>5, <1>8 DEF S, Search

\* A node over two search trees: a tree, if there is room for it, and a search
\* tree, if its element divides theirs and they are of about the same height.
LEMMA NodeParts ==
  ASSUME NEW d, NEW l, NEW r
  PROVE  /\ Node(d, l, r).data = d /\ Node(d, l, r).left = l /\ Node(d, l, r).right = r
         /\ Node(d, l, r).height = 1 + Larger(l.height, r.height)
         /\ Node(d, l, r).nleft = GetSize(l) /\ Node(d, l, r).nright = GetSize(r)
BY DEF Node

LEMMA NodeIsTree ==
  ASSUME NEW d \in Data, NEW l \in Search, NEW r \in Search,
         l.height + 2 <= MaxHeight, r.height + 2 <= MaxHeight
  PROVE  Node(d, l, r) \in Trees /\ Node(d, l, r) # NULL
<1> DEFINE m == l.height + 1
           n == r.height + 1
           k == Larger(m, n)
<1>0. MaxHeight \in Nat
  BY SetAssumption
<1>1. /\ l.height \in Int /\ l.height >= -1 /\ r.height \in Int /\ r.height >= -1
      /\ GetSize(l) \in Nat /\ GetSize(r) \in Nat
  BY SearchKept DEF Kept
<1>2. m \in 0 .. MaxHeight /\ n \in 0 .. MaxHeight
  BY SearchLevels
<1>3. k \in Int /\ k >= m /\ k >= n /\ k + 1 \in 1 .. MaxHeight /\ (k + 1) - 1 = k
  BY <1>0, <1>1, LargerIs DEF Larger
<1>4. l \in TreesUpTo[m] /\ r \in TreesUpTo[n]
  BY SearchLevels
<1> HIDE DEF m, n, k
<1>5. k \in m .. MaxHeight /\ k \in n .. MaxHeight
  BY <1>0, <1>2, <1>3
<1>6. l \in TreesUpTo[k] /\ r \in TreesUpTo[k]
  BY <1>2, <1>5, <1>4, LevelsMonotone
<1>7. 1 + Larger(l.height, r.height) \in Nat
  BY <1>1 DEF Larger
<1>8. Node(d, l, r) \in Records(TreesUpTo[k])
  BY <1>1, <1>6, <1>7 DEF Node, Records
<1>9. Node(d, l, r) \in TreesUpTo[k + 1]
  BY <1>3, <1>8, TreesUpToIs
<1>10. k + 1 \in 0 .. MaxHeight
  BY <1>3
<1> QED
  BY <1>8, <1>9, <1>10, LevelsAreTrees, NodeNotNull

LEMMA NodeIsSearch ==
  ASSUME NEW d \in Data, NEW l \in Search, NEW r \in Search,
         l.height + 2 <= MaxHeight, r.height + 2 <= MaxHeight,
         l.height - r.height \in -1 .. 1, Divides(d, l, r)
  PROVE  /\ Node(d, l, r) \in Search
         /\ Elements(Node(d, l, r)) = {d} \cup Elements(l) \cup Elements(r)
<1> DEFINE n == Node(d, l, r)
<1>1. n \in Trees /\ n # NULL
  BY NodeIsTree
<1>2. n.data = d /\ n.left = l /\ n.right = r
  BY NodeParts
<1> HIDE DEF n
<1>3. n = Node(d, l, r)
  BY DEF n
<1>4. Sound(n)
  BY <1>2, <1>3 DEF Sound
<1>5. n \in Search
  BY <1>1, <1>2, <1>4, SearchOf
<1>6. Elements(n) = {d} \cup Elements(l) \cup Elements(r)
  BY <1>1, <1>2, ElementsOf
<1> QED
  BY <1>5, <1>6 DEF n

-----------------------------------------------------------------------------
(***************************************************************************)
(* Rotations.                                                              *)
(***************************************************************************)
Raw(d, l, r, h, x, y) ==
  [data |-> d, left |-> l, right |-> r, height |-> h, nleft |-> x, nright |-> y]

LEMMA AssignIs ==
  ASSUME NEW d, NEW l, NEW r, NEW h, NEW x, NEW y, NEW c
  PROVE  /\ AssignChild(Raw(d, l, r, h, x, y), c, "left")
              = Raw(d, c, r, 1 + Larger(c.height, r.height), GetSize(c), y)
         /\ AssignChild(Raw(d, l, r, h, x, y), c, "right")
              = Raw(d, l, c, 1 + Larger(l.height, c.height), x, GetSize(c))
<1> DEFINE n == Raw(d, l, r, h, x, y)
<1>1. [n EXCEPT !["left"] = c, !["nleft"] = GetSize(c)] = Raw(d, c, r, h, GetSize(c), y)
  BY DEF Raw
<1>2. [n EXCEPT !["right"] = c, !["nright"] = GetSize(c)] = Raw(d, l, c, h, x, GetSize(c))
  BY DEF Raw
<1>3. AssignChild(n, c, "left") = UpdateHeight(Raw(d, c, r, h, GetSize(c), y))
  BY <1>1 DEF AssignChild
<1>4. AssignChild(n, c, "right") = UpdateHeight(Raw(d, l, c, h, x, GetSize(c)))
  BY <1>2 DEF AssignChild
<1>5. UpdateHeight(Raw(d, c, r, h, GetSize(c), y))
        = Raw(d, c, r, 1 + Larger(c.height, r.height), GetSize(c), y)
  BY DEF UpdateHeight, Raw
<1>6. UpdateHeight(Raw(d, l, c, h, x, GetSize(c)))
        = Raw(d, l, c, 1 + Larger(l.height, c.height), x, GetSize(c))
  BY DEF UpdateHeight, Raw
<1> QED
  BY <1>3, <1>4, <1>5, <1>6

LEMMA NodeIsRaw ==
  ASSUME NEW d, NEW l, NEW r
  PROVE  Node(d, l, r) = Raw(d, l, r, 1 + Larger(l.height, r.height), GetSize(l), GetSize(r))
BY DEF Node, Raw

LEMMA AssignNode ==
  ASSUME NEW d, NEW l, NEW r, NEW c
  PROVE  /\ AssignChild(Node(d, l, r), c, "left") = Node(d, c, r)
         /\ AssignChild(Node(d, l, r), c, "right") = Node(d, l, c)
BY NodeIsRaw, AssignIs

LEMMA RotateRight ==
  ASSUME NEW n, NEW m, NEW d, NEW r, NEW h, NEW x, NEW e, NEW a, NEW b,
         m = Node(e, a, b), m # NULL, n = Raw(d, m, r, h, x, GetSize(r))
  PROVE  Rotate(n, "right") = Node(e, a, Node(d, b, r))
<1>1. n["left"] = m
  BY DEF Raw
<1>2. m["right"] = b
  BY DEF Node
<1>3. AssignChild(n, b, "left") = Node(d, b, r)
  BY AssignIs, NodeIsRaw
<1>4. AssignChild(m, Node(d, b, r), "right") = Node(e, a, Node(d, b, r))
  BY AssignNode
<1>5. Opposite("right") = "left"
  BY DEF Opposite
<1> QED
  BY <1>1, <1>2, <1>3, <1>4, <1>5 DEF Rotate

LEMMA RotateLeft ==
  ASSUME NEW n, NEW m, NEW d, NEW l, NEW h, NEW y, NEW e, NEW a, NEW b,
         m = Node(e, a, b), m # NULL, n = Raw(d, l, m, h, GetSize(l), y)
  PROVE  Rotate(n, "left") = Node(e, Node(d, l, a), b)
<1>1. n["right"] = m
  BY DEF Raw
<1>2. m["left"] = a
  BY DEF Node
<1>3. AssignChild(n, a, "right") = Node(d, l, a)
  BY AssignIs, NodeIsRaw
<1>4. AssignChild(m, Node(d, l, a), "left") = Node(e, Node(d, l, a), b)
  BY AssignNode
<1>5. Opposite("left") = "right"
  BY DEF Opposite
<1> QED
  BY <1>1, <1>2, <1>3, <1>4, <1>5 DEF Rotate

\* One round of balance: nothing at a node in balance, a rotation, or two.
LEMMA SettleDone ==
  ASSUME NEW n, n.left.height - n.right.height \in -1 .. 1
  PROVE  Settle(n) = n
BY DEF Settle, GetBalance

LEMMA NodeFields ==
  ASSUME NEW d, NEW l, NEW r, NEW n, n = Node(d, l, r)
  PROVE  /\ n.left = l /\ n.right = r /\ n["left"] = l /\ n["right"] = r
         /\ n = Raw(d, l, r, 1 + Larger(l.height, r.height), GetSize(l), GetSize(r))
BY DEF Node, Raw

LEMMA SettleLeft ==
  ASSUME NEW d, NEW l, NEW r, NEW e, NEW a, NEW b, l = Node(e, a, b), l # NULL,
         a.height \in Int, b.height \in Int,
         l.height - r.height = 2, a.height >= b.height
  PROVE  Settle(Node(d, l, r)) = Node(e, a, Node(d, b, r))
<1> DEFINE n == Node(d, l, r)
<1>1. /\ n.left = l /\ n.right = r /\ n["left"] = l
      /\ n = Raw(d, l, r, 1 + Larger(l.height, r.height), GetSize(l), GetSize(r))
  BY NodeFields
<1>2. l.left = a /\ l.right = b
  BY NodeParts
<1> HIDE DEF n
<1>3. GetBalance(n) = 2 /\ GetBalance(n["left"]) = a.height - b.height
  BY <1>1, <1>2 DEF GetBalance
<1>4. ~ (GetBalance(n["left"]) <= -1)
  BY <1>3
<1>5. Settle(n) = Rotate(n, Opposite("left"))
  BY <1>3, <1>4 DEF Settle
<1>6. Rotate(n, "right") = Node(e, a, Node(d, b, r))
  BY <1>1, RotateRight
<1> QED
  BY <1>5, <1>6 DEF Opposite, n

LEMMA SettleRight ==
  ASSUME NEW d, NEW l, NEW r, NEW e, NEW a, NEW b, r = Node(e, a, b), r # NULL,
         a.height \in Int, b.height \in Int,
         l.height - r.height = -2, b.height >= a.height
  PROVE  Settle(Node(d, l, r)) = Node(e, Node(d, l, a), b)
<1> DEFINE n == Node(d, l, r)
<1>1. /\ n.left = l /\ n.right = r /\ n["right"] = r
      /\ n = Raw(d, l, r, 1 + Larger(l.height, r.height), GetSize(l), GetSize(r))
  BY NodeFields
<1>2. r.left = a /\ r.right = b
  BY NodeParts
<1> HIDE DEF n
<1>3. GetBalance(n) = -2 /\ GetBalance(n["right"]) = a.height - b.height
  BY <1>1, <1>2 DEF GetBalance
<1>4. ~ (GetBalance(n["right"]) >= 1)
  BY <1>3
<1>5. Settle(n) = Rotate(n, Opposite("right"))
  BY <1>3, <1>4 DEF Settle
<1>6. Rotate(n, "left") = Node(e, Node(d, l, a), b)
  BY <1>1, RotateLeft
<1> QED
  BY <1>5, <1>6 DEF Opposite, n

LEMMA RawLeft ==
  ASSUME NEW n, NEW d, NEW l, NEW r, NEW h, NEW x, NEW y, NEW c,
         n = Raw(d, l, r, h, x, y)
  PROVE  [n EXCEPT !["left"] = c] = Raw(d, c, r, h, x, y)
BY DEF Raw

LEMMA RawRight ==
  ASSUME NEW n, NEW d, NEW l, NEW r, NEW h, NEW x, NEW y, NEW c,
         n = Raw(d, l, r, h, x, y)
  PROVE  [n EXCEPT !["right"] = c] = Raw(d, l, c, h, x, y)
BY DEF Raw

LEMMA SettleLeftRight ==
  ASSUME NEW d, NEW l, NEW r, NEW e, NEW a, NEW b, l = Node(e, a, b), l # NULL,
         NEW f, NEW p, NEW q, b = Node(f, p, q), b # NULL,
         a.height \in Int, b.height \in Int,
         l.height - r.height = 2, a.height < b.height,
         Node(f, Node(e, a, p), q) # NULL
  PROVE  Settle(Node(d, l, r)) = Node(f, Node(e, a, p), Node(d, q, r))
<1> DEFINE n      == Node(d, l, r)
           turned == Node(f, Node(e, a, p), q)
           s      == [n EXCEPT !["left"] = Rotate(@, "left")]
<1>1. /\ n.left = l /\ n.right = r /\ n["left"] = l
      /\ n = Raw(d, l, r, 1 + Larger(l.height, r.height), GetSize(l), GetSize(r))
  BY NodeFields
<1>2. /\ l.left = a /\ l.right = b
      /\ l = Raw(e, a, b, 1 + Larger(a.height, b.height), GetSize(a), GetSize(b))
  BY NodeFields
<1>3. Rotate(l, "left") = turned
  BY <1>2, RotateLeft
<1> HIDE DEF turned, n
<1>4. s = Raw(d, turned, r, 1 + Larger(l.height, r.height), GetSize(l), GetSize(r))
  <2>1. s = [n EXCEPT !["left"] = turned]
    BY <1>1, <1>3
  <2> QED
    BY <1>1, <2>1, RawLeft
<1>5. GetBalance(n) = 2 /\ GetBalance(n["left"]) = a.height - b.height
  BY <1>1, <1>2 DEF GetBalance
<1>6. GetBalance(n["left"]) <= -1
  BY <1>5
<1>7. Settle(n) = Rotate(s, Opposite("left"))
  BY <1>5, <1>6 DEF Settle
<1> HIDE DEF s
<1>8. Rotate(s, "right") = Node(f, Node(e, a, p), Node(d, q, r))
  BY <1>4, RotateRight DEF turned
<1> QED
  BY <1>7, <1>8 DEF Opposite, n

LEMMA SettleRightLeft ==
  ASSUME NEW d, NEW l, NEW r, NEW e, NEW a, NEW b, r = Node(e, a, b), r # NULL,
         NEW f, NEW p, NEW q, a = Node(f, p, q), a # NULL,
         a.height \in Int, b.height \in Int,
         l.height - r.height = -2, b.height < a.height,
         Node(f, p, Node(e, q, b)) # NULL
  PROVE  Settle(Node(d, l, r)) = Node(f, Node(d, l, p), Node(e, q, b))
<1> DEFINE n      == Node(d, l, r)
           turned == Node(f, p, Node(e, q, b))
           s      == [n EXCEPT !["right"] = Rotate(@, "right")]
<1>1. /\ n.left = l /\ n.right = r /\ n["right"] = r
      /\ n = Raw(d, l, r, 1 + Larger(l.height, r.height), GetSize(l), GetSize(r))
  BY NodeFields
<1>2. /\ r.left = a /\ r.right = b
      /\ r = Raw(e, a, b, 1 + Larger(a.height, b.height), GetSize(a), GetSize(b))
  BY NodeFields
<1>3. Rotate(r, "right") = turned
  BY <1>2, RotateRight
<1> HIDE DEF turned, n
<1>4. s = Raw(d, l, turned, 1 + Larger(l.height, r.height), GetSize(l), GetSize(r))
  <2>1. s = [n EXCEPT !["right"] = turned]
    BY <1>1, <1>3
  <2> QED
    BY <1>1, <2>1, RawRight
<1>5. GetBalance(n) = -2 /\ GetBalance(n["right"]) = a.height - b.height
  BY <1>1, <1>2 DEF GetBalance
<1>6. GetBalance(n["right"]) >= 1
  BY <1>5
<1>7. Settle(n) = Rotate(s, Opposite("right"))
  BY <1>5, <1>6 DEF Settle
<1> HIDE DEF s
<1>8. Rotate(s, "left") = Node(f, Node(d, l, p), Node(e, q, b))
  BY <1>4, RotateLeft DEF turned
<1> QED
  BY <1>7, <1>8 DEF Opposite, n

\* What balance makes of a node: a search tree of the same elements, not higher
\* than the node and at most one level lower, and no lower if nothing is turned.
Settled(n, d, l, r) ==
  /\ n \in Search /\ n # NULL
  /\ Elements(n) = {d} \cup Elements(l) \cup Elements(r)
  /\ n.height = Larger(l.height, r.height) \/ n.height = 1 + Larger(l.height, r.height)
  /\ l.height - r.height \in -1 .. 1 => n.height = 1 + Larger(l.height, r.height)

LEMMA SearchParts ==
  ASSUME NEW t \in Search, t # NULL
  PROVE  /\ t = Node(t.data, t.left, t.right)
         /\ t.data \in Data /\ t.left \in Search /\ t.right \in Search
         /\ t.left.height - t.right.height \in -1 .. 1
         /\ Divides(t.data, t.left, t.right)
         /\ Elements(t) = {t.data} \cup Elements(t.left) \cup Elements(t.right)
         /\ t.height = 1 + Larger(t.left.height, t.right.height)
         /\ t.left.height + 2 <= MaxHeight /\ t.right.height + 2 <= MaxHeight
<1>0. MaxHeight \in Nat
  BY SetAssumption
<1>1. t \in Trees
  BY DEF Search
<1>2. Sound(t) /\ t.left \in Search /\ t.right \in Search /\ t.data \in Data
  BY <1>1, SearchOf, TreesAre DEF Records
<1>3. t.height = 1 + Larger(t.left.height, t.right.height)
  BY <1>2 DEF Sound, Node
<1>4. t.height + 1 \in 0 .. MaxHeight
  BY SearchLevels
<1>5. t.left.height \in Int /\ t.right.height \in Int
  BY <1>2, SearchKept DEF Kept
<1>6. t.left.height + 2 <= MaxHeight /\ t.right.height + 2 <= MaxHeight
  BY <1>0, <1>3, <1>4, <1>5 DEF Larger
<1> QED
  BY <1>1, <1>2, <1>3, <1>6, ElementsOf DEF Sound

LEMMA NullHeight ==
  /\ NULL.height = -1
  /\ \A t \in Search : t.height \in Int /\ t.height >= -1 /\ (t.height >= 0 <=> t # NULL)
<1>1. NULL.height = -1
  BY DEF NULL
<1> QED
  BY <1>1, SearchKept DEF Kept

LEMMA KeysAre ==
  /\ \A d \in Data : KeyOf[d] \in Int
  /\ \A t \in Search : Elements(t) \subseteq Data
BY SetAssumption, ElementsAre DEF Search

LEMMA SettleStays ==
  ASSUME NEW d, NEW l, NEW r, l.height - r.height \in -1 .. 1
  PROVE  Settle(Node(d, l, r)) = Node(d, l, r)
BY SettleDone, NodeParts

LEMMA BalanceLeft ==
  ASSUME NEW d \in Data, NEW l \in Search, NEW r \in Search,
         l.height = r.height + 2, l.height + 2 <= MaxHeight, Divides(d, l, r)
  PROVE  Settled(Balance(Node(d, l, r)), d, l, r)
<1> DEFINE e == l.data
           a == l.left
           b == l.right
<1>0. MaxHeight \in Nat
  BY SetAssumption
<1>1. l.height \in Int /\ r.height \in Int /\ r.height >= -1 /\ l # NULL
  BY NullHeight
<1>2. /\ l = Node(e, a, b)
      /\ e \in Data /\ a \in Search /\ b \in Search
      /\ a.height - b.height \in -1 .. 1
      /\ Divides(e, a, b)
      /\ Elements(l) = {e} \cup Elements(a) \cup Elements(b)
      /\ l.height = 1 + Larger(a.height, b.height)
  BY <1>1, SearchParts
<1> HIDE DEF e, a, b
<1>3. a.height \in Int /\ a.height >= -1 /\ b.height \in Int /\ b.height >= -1
  BY <1>2, NullHeight
<1>4. Larger(l.height, r.height) = l.height
  BY <1>1 DEF Larger
<1>5. CASE a.height >= b.height
  <2> DEFINE m == Node(d, b, r)
             n == Node(e, a, m)
  <2>1. a.height = r.height + 1 /\ b.height - r.height \in 0 .. 1
    BY <1>1, <1>2, <1>3, <1>5 DEF Larger
  <2>2. Divides(d, b, r)
    BY <1>2 DEF Divides
  <2>3. b.height + 2 <= MaxHeight /\ r.height + 2 <= MaxHeight
    BY <1>0, <1>1, <1>3, <2>1
  <2>4. m \in Search /\ Elements(m) = {d} \cup Elements(b) \cup Elements(r)
    BY <1>1, <1>2, <1>3, <2>1, <2>2, <2>3, NodeIsSearch
  <2>5. m.height = b.height + 1
    <3>1. m.height = 1 + Larger(b.height, r.height)
      BY NodeParts
    <3> QED
      BY <1>1, <1>3, <2>1, <3>1 DEF Larger
  <2>6. n.height = 1 + Larger(a.height, m.height)
    BY NodeParts
  <2>7. Settle(Node(d, l, r)) = n
    BY <1>1, <1>2, <1>3, <1>5, SettleLeft
  <2> HIDE DEF m
  <2>8. Divides(e, a, m)
    <3>1. ASSUME NEW x \in Elements(m) PROVE KeyOf[e] < KeyOf[x]
      <4>1. KeyOf[e] \in Int /\ KeyOf[d] \in Int /\ KeyOf[e] < KeyOf[d]
        BY <1>2, KeysAre DEF Divides
      <4>2. CASE x = d
        BY <4>1, <4>2
      <4>3. CASE x \in Elements(b)
        BY <1>2, <4>3 DEF Divides
      <4>4. CASE x \in Elements(r)
        <5>1. KeyOf[d] < KeyOf[x] /\ KeyOf[x] \in Int
          BY <4>4, KeysAre DEF Divides
        <5> QED
          BY <4>1, <5>1
      <4> QED
        BY <2>4, <4>2, <4>3, <4>4
    <3> QED
      BY <1>2, <3>1 DEF Divides
  <2>9. a.height - m.height \in -1 .. 1 /\ a.height + 2 <= MaxHeight /\ m.height + 2 <= MaxHeight
    BY <1>0, <1>1, <1>3, <2>1, <2>5
  <2>10. n \in Search /\ Elements(n) = {e} \cup Elements(a) \cup Elements(m)
    BY <1>2, <2>4, <2>8, <2>9, NodeIsSearch
  <2>11. Settle(n) = n
    BY <2>9, SettleStays
  <2>12. n.height = l.height \/ n.height = 1 + l.height
    BY <1>1, <1>3, <2>1, <2>5, <2>6 DEF Larger
  <2> HIDE DEF n
  <2>13. n # NULL
    BY <1>1, <2>10, <2>12, NullHeight
  <2>14. Elements(n) = {d} \cup Elements(l) \cup Elements(r)
    BY <1>2, <2>4, <2>10
  <2>15. ~ (l.height - r.height \in -1 .. 1)
    BY <1>1
  <2> QED
    BY <1>4, <2>7, <2>10, <2>11, <2>12, <2>13, <2>14, <2>15 DEF Settled, Balance
<1>6. CASE a.height < b.height
  <2> DEFINE f == b.data
             p == b.left
             q == b.right
             u == Node(e, a, p)
             v == Node(d, q, r)
             n == Node(f, u, v)
  <2>1. b.height = r.height + 1 /\ a.height = r.height /\ b # NULL
    BY <1>1, <1>2, <1>3, <1>6, NullHeight DEF Larger
  <2>2. /\ b = Node(f, p, q)
        /\ f \in Data /\ p \in Search /\ q \in Search
        /\ p.height - q.height \in -1 .. 1
        /\ Divides(f, p, q)
        /\ Elements(b) = {f} \cup Elements(p) \cup Elements(q)
        /\ b.height = 1 + Larger(p.height, q.height)
    BY <1>2, <2>1, SearchParts
  <2> HIDE DEF f, p, q
  <2>3. p.height \in Int /\ q.height \in Int
    BY <2>2, NullHeight
  <2>4. /\ p.height = r.height \/ p.height = r.height - 1
        /\ q.height = r.height \/ q.height = r.height - 1
    BY <1>1, <2>1, <2>2, <2>3 DEF Larger
  <2>5. /\ a.height + 2 <= MaxHeight /\ p.height + 2 <= MaxHeight
        /\ q.height + 2 <= MaxHeight /\ r.height + 2 <= MaxHeight
    BY <1>0, <1>1, <1>3, <2>1, <2>3, <2>4
  <2>6. /\ KeyOf[e] \in Int /\ KeyOf[d] \in Int /\ KeyOf[f] \in Int
        /\ KeyOf[e] < KeyOf[f] /\ KeyOf[f] < KeyOf[d]
    BY <1>2, <2>2, KeysAre DEF Divides
  <2>7. Divides(e, a, p) /\ Divides(d, q, r)
    BY <1>2, <2>2 DEF Divides
  <2>8. u \in Search /\ Elements(u) = {e} \cup Elements(a) \cup Elements(p)
    <3>1. a.height - p.height \in -1 .. 1
      BY <1>1, <2>1, <2>3, <2>4
    <3> QED
      BY <1>2, <2>2, <2>5, <2>7, <3>1, NodeIsSearch
  <2>9. v \in Search /\ Elements(v) = {d} \cup Elements(q) \cup Elements(r)
    <3>1. q.height - r.height \in -1 .. 1
      BY <1>1, <2>3, <2>4
    <3> QED
      BY <2>2, <2>5, <2>7, <3>1, NodeIsSearch
  <2>10. u.height = r.height + 1 /\ v.height = r.height + 1
    <3>1. u.height = 1 + Larger(a.height, p.height) /\ v.height = 1 + Larger(q.height, r.height)
      BY NodeParts
    <3> QED
      BY <1>1, <2>1, <2>3, <2>4, <3>1 DEF Larger
  <2> HIDE DEF u, v
  <2>11. u.height + 2 <= MaxHeight /\ v.height + 2 <= MaxHeight
    BY <1>0, <1>1, <2>10
  <2>12. Node(f, u, q) # NULL
    BY <2>2, <2>5, <2>8, <2>11, NodeIsTree
  <2>13. Settle(Node(d, l, r)) = n
    <3>1. l.height - r.height = 2
      BY <1>1
    <3> QED
      BY <1>1, <1>2, <1>3, <1>6, <2>1, <2>2, <2>12, <3>1, SettleLeftRight DEF u, v
  <2>14. Divides(f, u, v)
    <3>1. ASSUME NEW x \in Elements(u) PROVE KeyOf[x] < KeyOf[f]
      <4>1. CASE x = e
        BY <2>6, <4>1
      <4>2. CASE x \in Elements(a)
        <5>1. KeyOf[x] < KeyOf[e] /\ KeyOf[x] \in Int
          BY <1>2, <4>2, KeysAre DEF Divides
        <5> QED
          BY <2>6, <5>1
      <4>3. CASE x \in Elements(p)
        BY <2>2, <4>3 DEF Divides
      <4> QED
        BY <2>8, <4>1, <4>2, <4>3
    <3>2. ASSUME NEW x \in Elements(v) PROVE KeyOf[f] < KeyOf[x]
      <4>1. CASE x = d
        BY <2>6, <4>1
      <4>2. CASE x \in Elements(r)
        <5>1. KeyOf[d] < KeyOf[x] /\ KeyOf[x] \in Int
          BY <4>2, KeysAre DEF Divides
        <5> QED
          BY <2>6, <5>1
      <4>3. CASE x \in Elements(q)
        BY <2>2, <4>3 DEF Divides
      <4> QED
        BY <2>9, <4>1, <4>2, <4>3
    <3> QED
      BY <3>1, <3>2 DEF Divides
  <2>15. u.height - v.height \in -1 .. 1
    BY <1>1, <2>10
  <2>16. n \in Search /\ Elements(n) = {f} \cup Elements(u) \cup Elements(v)
    BY <2>2, <2>8, <2>9, <2>11, <2>14, <2>15, NodeIsSearch
  <2>17. Settle(n) = n
    BY <2>15, SettleStays
  <2>18. n.height = l.height
    <3>1. n.height = 1 + Larger(u.height, v.height)
      BY NodeParts
    <3> QED
      BY <1>1, <2>10, <3>1 DEF Larger
  <2> HIDE DEF n
  <2>19. n # NULL
    BY <1>1, <2>16, <2>18, NullHeight
  <2>20. Elements(n) = {d} \cup Elements(l) \cup Elements(r)
    BY <1>2, <2>2, <2>8, <2>9, <2>16
  <2>21. ~ (l.height - r.height \in -1 .. 1)
    BY <1>1
  <2> QED
    BY <1>4, <2>13, <2>16, <2>17, <2>18, <2>19, <2>20, <2>21 DEF Settled, Balance
<1> QED
  BY <1>3, <1>5, <1>6

LEMMA BalanceRight ==
  ASSUME NEW d \in Data, NEW l \in Search, NEW r \in Search,
         r.height = l.height + 2, r.height + 2 <= MaxHeight, Divides(d, l, r)
  PROVE  Settled(Balance(Node(d, l, r)), d, l, r)
<1> DEFINE e == r.data
           a == r.left
           b == r.right
<1>0. MaxHeight \in Nat
  BY SetAssumption
<1>1. l.height \in Int /\ r.height \in Int /\ l.height >= -1 /\ r # NULL
  BY NullHeight
<1>2. /\ r = Node(e, a, b)
      /\ e \in Data /\ a \in Search /\ b \in Search
      /\ a.height - b.height \in -1 .. 1
      /\ Divides(e, a, b)
      /\ Elements(r) = {e} \cup Elements(a) \cup Elements(b)
      /\ r.height = 1 + Larger(a.height, b.height)
  BY <1>1, SearchParts
<1> HIDE DEF e, a, b
<1>3. a.height \in Int /\ a.height >= -1 /\ b.height \in Int /\ b.height >= -1
  BY <1>2, NullHeight
<1>4. Larger(l.height, r.height) = r.height
  BY <1>1 DEF Larger
<1>5. CASE b.height >= a.height
  <2> DEFINE m == Node(d, l, a)
             n == Node(e, m, b)
  <2>1. /\ b.height = l.height + 1
        /\ a.height = l.height \/ a.height = l.height + 1
    BY <1>1, <1>2, <1>3, <1>5 DEF Larger
  <2>2. Divides(d, l, a)
    BY <1>2 DEF Divides
  <2>3. a.height + 2 <= MaxHeight /\ l.height + 2 <= MaxHeight
    BY <1>0, <1>1, <1>3, <2>1
  <2>4. m \in Search /\ Elements(m) = {d} \cup Elements(l) \cup Elements(a)
    <3>1. l.height - a.height \in -1 .. 1
      BY <1>1, <2>1
    <3> QED
      BY <1>2, <2>2, <2>3, <3>1, NodeIsSearch
  <2>5. m.height = a.height + 1
    <3>1. m.height = 1 + Larger(l.height, a.height)
      BY NodeParts
    <3> QED
      BY <1>1, <1>3, <2>1, <3>1 DEF Larger
  <2>6. n.height = 1 + Larger(m.height, b.height)
    BY NodeParts
  <2>7. Settle(Node(d, l, r)) = n
    <3>1. l.height - r.height = -2
      BY <1>1
    <3> QED
      BY <1>1, <1>2, <1>3, <1>5, <3>1, SettleRight
  <2> HIDE DEF m
  <2>8. Divides(e, m, b)
    <3>1. ASSUME NEW x \in Elements(m) PROVE KeyOf[x] < KeyOf[e]
      <4>1. KeyOf[e] \in Int /\ KeyOf[d] \in Int /\ KeyOf[d] < KeyOf[e]
        BY <1>2, KeysAre DEF Divides
      <4>2. CASE x = d
        BY <4>1, <4>2
      <4>3. CASE x \in Elements(a)
        BY <1>2, <4>3 DEF Divides
      <4>4. CASE x \in Elements(l)
        <5>1. KeyOf[x] < KeyOf[d] /\ KeyOf[x] \in Int
          BY <4>4, KeysAre DEF Divides
        <5> QED
          BY <4>1, <5>1
      <4> QED
        BY <2>4, <4>2, <4>3, <4>4
    <3> QED
      BY <1>2, <3>1 DEF Divides
  <2>9. m.height - b.height \in -1 .. 1 /\ b.height + 2 <= MaxHeight /\ m.height + 2 <= MaxHeight
    BY <1>0, <1>1, <1>3, <2>1, <2>5
  <2>10. n \in Search /\ Elements(n) = {e} \cup Elements(m) \cup Elements(b)
    BY <1>2, <2>4, <2>8, <2>9, NodeIsSearch
  <2>11. Settle(n) = n
    BY <2>9, SettleStays
  <2>12. n.height = r.height \/ n.height = 1 + r.height
    BY <1>1, <1>3, <2>1, <2>5, <2>6 DEF Larger
  <2> HIDE DEF n
  <2>13. n # NULL
    BY <1>1, <2>10, <2>12, NullHeight
  <2>14. Elements(n) = {d} \cup Elements(l) \cup Elements(r)
    BY <1>2, <2>4, <2>10
  <2>15. ~ (l.height - r.height \in -1 .. 1)
    BY <1>1
  <2> QED
    BY <1>4, <2>7, <2>10, <2>11, <2>12, <2>13, <2>14, <2>15 DEF Settled, Balance
<1>6. CASE b.height < a.height
  <2> DEFINE f == a.data
             p == a.left
             q == a.right
             u == Node(d, l, p)
             v == Node(e, q, b)
             n == Node(f, u, v)
  <2>1. a.height = l.height + 1 /\ b.height = l.height /\ a # NULL
    BY <1>1, <1>2, <1>3, <1>6, NullHeight DEF Larger
  <2>2. /\ a = Node(f, p, q)
        /\ f \in Data /\ p \in Search /\ q \in Search
        /\ p.height - q.height \in -1 .. 1
        /\ Divides(f, p, q)
        /\ Elements(a) = {f} \cup Elements(p) \cup Elements(q)
        /\ a.height = 1 + Larger(p.height, q.height)
    BY <1>2, <2>1, SearchParts
  <2> HIDE DEF f, p, q
  <2>3. p.height \in Int /\ q.height \in Int
    BY <2>2, NullHeight
  <2>4. /\ p.height = l.height \/ p.height = l.height - 1
        /\ q.height = l.height \/ q.height = l.height - 1
    BY <1>1, <2>1, <2>2, <2>3 DEF Larger
  <2>5. /\ b.height + 2 <= MaxHeight /\ p.height + 2 <= MaxHeight
        /\ q.height + 2 <= MaxHeight /\ l.height + 2 <= MaxHeight
    BY <1>0, <1>1, <1>3, <2>1, <2>3, <2>4
  <2>6. /\ KeyOf[e] \in Int /\ KeyOf[d] \in Int /\ KeyOf[f] \in Int
        /\ KeyOf[f] < KeyOf[e] /\ KeyOf[d] < KeyOf[f]
    BY <1>2, <2>2, KeysAre DEF Divides
  <2>7. Divides(d, l, p) /\ Divides(e, q, b)
    BY <1>2, <2>2 DEF Divides
  <2>8. u \in Search /\ Elements(u) = {d} \cup Elements(l) \cup Elements(p)
    <3>1. l.height - p.height \in -1 .. 1
      BY <1>1, <2>1, <2>3, <2>4
    <3> QED
      BY <1>2, <2>2, <2>5, <2>7, <3>1, NodeIsSearch
  <2>9. v \in Search /\ Elements(v) = {e} \cup Elements(q) \cup Elements(b)
    <3>1. q.height - b.height \in -1 .. 1
      BY <1>1, <2>1, <2>3, <2>4
    <3> QED
      BY <1>2, <2>2, <2>5, <2>7, <3>1, NodeIsSearch
  <2>10. u.height = l.height + 1 /\ v.height = l.height + 1
    <3>1. u.height = 1 + Larger(l.height, p.height) /\ v.height = 1 + Larger(q.height, b.height)
      BY NodeParts
    <3> QED
      BY <1>1, <2>1, <2>3, <2>4, <3>1 DEF Larger
  <2> HIDE DEF u, v
  <2>11. u.height + 2 <= MaxHeight /\ v.height + 2 <= MaxHeight
    BY <1>0, <1>1, <2>10
  <2>12. Node(f, p, v) # NULL
    BY <2>2, <2>5, <2>9, <2>11, NodeIsTree
  <2>13. Settle(Node(d, l, r)) = n
    <3>1. l.height - r.height = -2
      BY <1>1
    <3> QED
      BY <1>1, <1>2, <1>3, <1>6, <2>1, <2>2, <2>12, <3>1, SettleRightLeft DEF u, v
  <2>14. Divides(f, u, v)
    <3>1. ASSUME NEW x \in Elements(v) PROVE KeyOf[f] < KeyOf[x]
      <4>1. CASE x = e
        BY <2>6, <4>1
      <4>2. CASE x \in Elements(b)
        <5>1. KeyOf[e] < KeyOf[x] /\ KeyOf[x] \in Int
          BY <1>2, <4>2, KeysAre DEF Divides
        <5> QED
          BY <2>6, <5>1
      <4>3. CASE x \in Elements(q)
        BY <2>2, <4>3 DEF Divides
      <4> QED
        BY <2>9, <4>1, <4>2, <4>3
    <3>2. ASSUME NEW x \in Elements(u) PROVE KeyOf[x] < KeyOf[f]
      <4>1. CASE x = d
        BY <2>6, <4>1
      <4>2. CASE x \in Elements(l)
        <5>1. KeyOf[x] < KeyOf[d] /\ KeyOf[x] \in Int
          BY <4>2, KeysAre DEF Divides
        <5> QED
          BY <2>6, <5>1
      <4>3. CASE x \in Elements(p)
        BY <2>2, <4>3 DEF Divides
      <4> QED
        BY <2>8, <4>1, <4>2, <4>3
    <3> QED
      BY <3>1, <3>2 DEF Divides
  <2>15. u.height - v.height \in -1 .. 1
    BY <1>1, <2>10
  <2>16. n \in Search /\ Elements(n) = {f} \cup Elements(u) \cup Elements(v)
    BY <2>2, <2>8, <2>9, <2>11, <2>14, <2>15, NodeIsSearch
  <2>17. Settle(n) = n
    BY <2>15, SettleStays
  <2>18. n.height = r.height
    <3>1. n.height = 1 + Larger(u.height, v.height)
      BY NodeParts
    <3> QED
      BY <1>1, <2>10, <3>1 DEF Larger
  <2> HIDE DEF n
  <2>19. n # NULL
    BY <1>1, <2>16, <2>18, NullHeight
  <2>20. Elements(n) = {d} \cup Elements(l) \cup Elements(r)
    BY <1>2, <2>2, <2>8, <2>9, <2>16
  <2>21. ~ (l.height - r.height \in -1 .. 1)
    BY <1>1
  <2> QED
    BY <1>4, <2>13, <2>16, <2>17, <2>18, <2>19, <2>20, <2>21 DEF Settled, Balance
<1> QED
  BY <1>3, <1>5, <1>6

LEMMA BalanceNode ==
  ASSUME NEW d \in Data, NEW l \in Search, NEW r \in Search, Divides(d, l, r),
         l.height - r.height \in -2 .. 2,
         l.height + 2 <= MaxHeight, r.height + 2 <= MaxHeight
  PROVE  Settled(Balance(Node(d, l, r)), d, l, r)
<1> DEFINE n == Node(d, l, r)
<1>1. l.height \in Int /\ r.height \in Int
  BY NullHeight
<1>2. CASE l.height - r.height \in -1 .. 1
  <2>1. Balance(n) = n
    BY <1>2, SettleStays DEF Balance
  <2>2. n \in Search /\ Elements(n) = {d} \cup Elements(l) \cup Elements(r) /\ n # NULL
    BY <1>2, NodeIsSearch, NodeIsTree
  <2>3. n.height = 1 + Larger(l.height, r.height)
    BY NodeParts
  <2> HIDE DEF n
  <2> QED
    BY <2>1, <2>2, <2>3 DEF Settled, n
<1>3. CASE l.height = r.height + 2
  BY <1>3, BalanceLeft
<1>4. CASE r.height = l.height + 2
  BY <1>4, BalanceRight
<1> QED
  BY <1>1, <1>2, <1>3, <1>4

\* The loop of balance ends: wherever the code calls it, on a node whose subtrees
\* are in balance and differ by at most two levels, the node that it comes to after
\* two rounds is in balance, and a third leaves it as it is.
THEOREM BalanceEnds ==
  ASSUME NEW d \in Data, NEW l \in Search, NEW r \in Search, Divides(d, l, r),
         l.height - r.height \in -2 .. 2,
         l.height + 2 <= MaxHeight, r.height + 2 <= MaxHeight
  PROVE  /\ GetBalance(Balance(Node(d, l, r))) \in -1 .. 1
         /\ Settle(Balance(Node(d, l, r))) = Balance(Node(d, l, r))
<1> DEFINE n == Balance(Node(d, l, r))
<1>1. n \in Search /\ n # NULL
  BY BalanceNode DEF Settled
<1> HIDE DEF n
<1>2. /\ n = Node(n.data, n.left, n.right)
      /\ n.left.height - n.right.height \in -1 .. 1
  BY <1>1, SearchParts
<1>3. Settle(n) = n
  BY <1>2, SettleStays
<1> QED
  BY <1>2, <1>3 DEF GetBalance, n

-----------------------------------------------------------------------------
(***************************************************************************)
(* Insertion and removal.                                                  *)
(***************************************************************************)
Same(t, d) == {m \in Elements(t) : KeyOf[m] = KeyOf[d]}

\* The way that get_direction leads is the one to the equivalent elements.
LEMMA SameIs ==
  ASSUME NEW t \in Search, t # NULL, NEW d \in Data
  PROVE  /\ Matches(t, d) => Same(t, d) = {t.data}
         /\ ~ Matches(t, d) /\ Direction(t, d) = "left" =>
              Same(t, d) = Same(t.left, d) /\ KeyOf[d] < KeyOf[t.data]
         /\ ~ Matches(t, d) /\ Direction(t, d) = "right" =>
              Same(t, d) = Same(t.right, d) /\ KeyOf[t.data] < KeyOf[d]
<1>1. /\ t.data \in Data /\ t.left \in Search /\ t.right \in Search
      /\ Divides(t.data, t.left, t.right)
      /\ Elements(t) = {t.data} \cup Elements(t.left) \cup Elements(t.right)
  BY SearchParts
<1>2. KeyOf[d] \in Int /\ KeyOf[t.data] \in Int
  BY <1>1, KeysAre
<1>3. \A e \in Elements(t.left) : KeyOf[e] \in Int /\ KeyOf[e] < KeyOf[t.data]
  BY <1>1, KeysAre DEF Divides
<1>4. \A e \in Elements(t.right) : KeyOf[e] \in Int /\ KeyOf[t.data] < KeyOf[e]
  BY <1>1, KeysAre DEF Divides
<1>5. ASSUME Matches(t, d) PROVE Same(t, d) = {t.data}
  <2>1. KeyOf[t.data] = KeyOf[d]
    BY <1>5 DEF Matches
  <2>2. \A e \in Elements(t.left) \cup Elements(t.right) : KeyOf[e] # KeyOf[d]
    BY <1>2, <1>3, <1>4, <2>1
  <2> QED
    BY <1>1, <2>1, <2>2 DEF Same
<1>6. ASSUME ~ Matches(t, d), Direction(t, d) = "left"
      PROVE  Same(t, d) = Same(t.left, d) /\ KeyOf[d] < KeyOf[t.data]
  <2>1. KeyOf[d] < KeyOf[t.data]
    BY <1>2, <1>6 DEF Direction
  <2>2. \A e \in {t.data} \cup Elements(t.right) : KeyOf[e] # KeyOf[d]
    BY <1>2, <1>4, <2>1
  <2> QED
    BY <1>1, <2>1, <2>2 DEF Same
<1>7. ASSUME ~ Matches(t, d), Direction(t, d) = "right"
      PROVE  Same(t, d) = Same(t.right, d) /\ KeyOf[t.data] < KeyOf[d]
  <2>1. KeyOf[t.data] < KeyOf[d]
    BY <1>2, <1>7 DEF Direction, Matches
  <2>2. \A e \in {t.data} \cup Elements(t.left) : KeyOf[e] # KeyOf[d]
    BY <1>2, <1>3, <2>1
  <2> QED
    BY <1>1, <2>1, <2>2 DEF Same
<1> QED
  BY <1>5, <1>6, <1>7

\* What insert_at returns.
Inserted(n, t, d, memory) ==
  IF Same(t, d) = {} /\ ~ memory THEN n = NULL
  ELSE /\ n \in Search /\ n # NULL
       /\ n.height = t.height \/ n.height = t.height + 1
       /\ Elements(n) = IF Same(t, d) = {} THEN Elements(t) \cup {d} ELSE Elements(t)

LEMMA NewNodeIs ==
  ASSUME NEW d \in Data, 1 <= MaxHeight
  PROVE  NewNode(d) \in Search /\ NewNode(d) # NULL /\ Elements(NewNode(d)) = {d}
<1>1. NULL.height = -1 /\ GetSize(NULL) = 0
  BY DEF NULL, GetSize
<1>2. NewNode(d) = Node(d, NULL, NULL)
  BY <1>1 DEF NewNode, Node, Larger
<1>3. NULL \in Search /\ Divides(d, NULL, NULL) /\ NULL.height + 2 <= MaxHeight
  BY <1>1, SearchOf, ElementsOf, SetAssumption DEF Divides
<1>4. NULL.height - NULL.height \in -1 .. 1
  BY <1>1
<1>5. /\ Node(d, NULL, NULL) \in Search
      /\ Elements(Node(d, NULL, NULL)) = {d} \cup Elements(NULL) \cup Elements(NULL)
  BY <1>3, <1>4, NodeIsSearch
<1>6. Node(d, NULL, NULL) # NULL
  BY <1>3, NodeIsTree
<1> QED
  BY <1>2, <1>5, <1>6, ElementsOf

LEMMA InsertedAt ==
  ASSUME NEW d \in Data, NEW memory \in BOOLEAN
  PROVE  \A t \in Search : t.height + 1 < MaxHeight =>
           Inserted(InsertAt(t, d, memory), t, d, memory)
<1> DEFINE S == {t \in Trees : t \in Search /\ t.height + 1 < MaxHeight =>
                               Inserted(InsertAt(t, d, memory), t, d, memory)}
<1>0. MaxHeight \in Nat
  BY SetAssumption
<1>1. NULL \in S
  <2> SUFFICES ASSUME NULL.height + 1 < MaxHeight
               PROVE  Inserted(InsertAt(NULL, d, memory), NULL, d, memory)
    BY TreesAre
  <2>1. NULL.height = -1 /\ 1 <= MaxHeight /\ Same(NULL, d) = {} /\ Elements(NULL) = {}
    BY <1>0, NullHeight, ElementsOf DEF Same
  <2>2. InsertAt(NULL, d, memory) = IF memory THEN NewNode(d) ELSE NULL
    BY InsertOf
  <2>3. CASE memory
    <3>1. InsertAt(NULL, d, memory) = NewNode(d)
      BY <2>2, <2>3
    <3>2. NewNode(d) \in Search /\ NewNode(d) # NULL /\ Elements(NewNode(d)) = {d}
      BY <2>1, NewNodeIs
    <3>3. NewNode(d).height = NULL.height + 1
      BY <2>1 DEF NewNode
    <3>4. Elements(NewNode(d)) = Elements(NULL) \cup {d}
      BY <2>1, <3>2
    <3>5. Inserted(NewNode(d), NULL, d, memory)
      BY <2>1, <2>3, <3>2, <3>3, <3>4 DEF Inserted
    <3> QED
      BY <3>1, <3>5
  <2>4. CASE ~ memory
    BY <2>1, <2>2, <2>4 DEF Inserted
  <2> QED
    BY <2>3, <2>4
<1>2. ASSUME NEW t \in Trees, t # NULL, t.left \in S, t.right \in S PROVE t \in S
  <2> SUFFICES ASSUME t \in Search, t.height + 1 < MaxHeight
               PROVE  Inserted(InsertAt(t, d, memory), t, d, memory)
    OBVIOUS
  <2> DEFINE l == t.left
             r == t.right
             new == InsertAt(t, d, memory)
  <2>1. /\ t = Node(t.data, l, r)
        /\ t.data \in Data /\ l \in Search /\ r \in Search
        /\ l.height - r.height \in -1 .. 1
        /\ Divides(t.data, l, r)
        /\ Elements(t) = {t.data} \cup Elements(l) \cup Elements(r)
        /\ t.height = 1 + Larger(l.height, r.height)
        /\ l.height + 2 <= MaxHeight /\ r.height + 2 <= MaxHeight
    BY <1>2, SearchParts
  <2>2. /\ t.height \in Int /\ l.height \in Int /\ r.height \in Int
        /\ l.height + 1 <= t.height /\ r.height + 1 <= t.height
    <3>1. t.height \in Int /\ l.height \in Int /\ r.height \in Int
      BY <2>1, NullHeight
    <3> QED
      BY <2>1, <3>1 DEF Larger
  <2>3. /\ Inserted(InsertAt(l, d, memory), l, d, memory)
        /\ Inserted(InsertAt(r, d, memory), r, d, memory)
    BY <1>0, <1>2, <2>1, <2>2
  <2>4. CASE Matches(t, d)
    <3>1. new = t
      BY <1>2, <2>4, InsertOf
    <3>2. Same(t, d) # {}
      BY <1>2, <2>4, SameIs
    <3> QED
      BY <1>2, <3>1, <3>2 DEF Inserted
  <2>5. CASE ~ Matches(t, d) /\ Direction(t, d) = "left"
    <3> DEFINE c == InsertAt(l, d, memory)
    <3>1. Same(t, d) = Same(l, d) /\ KeyOf[d] < KeyOf[t.data]
      BY <1>2, <2>5, SameIs
    <3>2. new = IF c = NULL THEN NULL ELSE Balance(AssignChild(t, c, "left"))
      <4>1. new = IF InsertAt(t["left"], d, memory) = NULL THEN NULL
                  ELSE Balance(AssignChild(t, InsertAt(t["left"], d, memory), "left"))
        BY <1>2, <2>5, InsertOf
      <4> QED
        BY <4>1
    <3> HIDE DEF c, new
    <3>3. Inserted(c, l, d, memory)
      BY <2>3 DEF c
    <3>4. CASE c = NULL
      BY <3>1, <3>2, <3>3, <3>4 DEF Inserted, new
    <3>5. CASE c # NULL
      <4>1. /\ c \in Search /\ (c.height = l.height \/ c.height = l.height + 1)
            /\ Elements(c) = IF Same(t, d) = {} THEN Elements(l) \cup {d} ELSE Elements(l)
            /\ ~ (Same(t, d) = {} /\ ~ memory)
        BY <3>1, <3>3, <3>5 DEF Inserted
      <4>2. new = Balance(Node(t.data, c, r))
        BY <2>1, <3>2, <3>5, AssignNode
      <4>3. Divides(t.data, c, r)
        BY <2>1, <3>1, <4>1 DEF Divides
      <4>4. c.height \in Int /\ c.height + 2 <= MaxHeight /\ c.height - r.height \in -2 .. 2
        BY <1>0, <2>1, <2>2, <4>1
      <4>5. Settled(new, t.data, c, r)
        BY <2>1, <4>1, <4>2, <4>3, <4>4, BalanceNode
      <4>6. new.height \in Int
        BY <4>5, NullHeight DEF Settled
      <4>7. new.height = t.height \/ new.height = t.height + 1
        <5>1. /\ new.height = Larger(c.height, r.height) \/ new.height = 1 + Larger(c.height, r.height)
              /\ c.height - r.height \in -1 .. 1 => new.height = 1 + Larger(c.height, r.height)
          BY <4>5 DEF Settled
        <5> QED
          BY <2>1, <2>2, <4>1, <4>4, <4>6, <5>1 DEF Larger
      <4>8. Elements(new) = IF Same(t, d) = {} THEN Elements(t) \cup {d} ELSE Elements(t)
        BY <2>1, <4>1, <4>5 DEF Settled
      <4> QED
        BY <4>1, <4>5, <4>7, <4>8 DEF Inserted, Settled, new
    <3> QED
      BY <3>4, <3>5
  <2>6. CASE ~ Matches(t, d) /\ Direction(t, d) = "right"
    <3> DEFINE c == InsertAt(r, d, memory)
    <3>1. Same(t, d) = Same(r, d) /\ KeyOf[t.data] < KeyOf[d]
      BY <1>2, <2>6, SameIs
    <3>2. new = IF c = NULL THEN NULL ELSE Balance(AssignChild(t, c, "right"))
      <4>1. new = IF InsertAt(t["right"], d, memory) = NULL THEN NULL
                  ELSE Balance(AssignChild(t, InsertAt(t["right"], d, memory), "right"))
        BY <1>2, <2>6, InsertOf
      <4> QED
        BY <4>1
    <3> HIDE DEF c, new
    <3>3. Inserted(c, r, d, memory)
      BY <2>3 DEF c
    <3>4. CASE c = NULL
      BY <3>1, <3>2, <3>3, <3>4 DEF Inserted, new
    <3>5. CASE c # NULL
      <4>1. /\ c \in Search /\ (c.height = r.height \/ c.height = r.height + 1)
            /\ Elements(c) = IF Same(t, d) = {} THEN Elements(r) \cup {d} ELSE Elements(r)
            /\ ~ (Same(t, d) = {} /\ ~ memory)
        BY <3>1, <3>3, <3>5 DEF Inserted
      <4>2. new = Balance(Node(t.data, l, c))
        BY <2>1, <3>2, <3>5, AssignNode
      <4>3. Divides(t.data, l, c)
        BY <2>1, <3>1, <4>1 DEF Divides
      <4>4. c.height \in Int /\ c.height + 2 <= MaxHeight /\ l.height - c.height \in -2 .. 2
        BY <1>0, <2>1, <2>2, <4>1
      <4>5. Settled(new, t.data, l, c)
        BY <2>1, <4>1, <4>2, <4>3, <4>4, BalanceNode
      <4>6. new.height \in Int
        BY <4>5, NullHeight DEF Settled
      <4>7. new.height = t.height \/ new.height = t.height + 1
        <5>1. /\ new.height = Larger(l.height, c.height) \/ new.height = 1 + Larger(l.height, c.height)
              /\ l.height - c.height \in -1 .. 1 => new.height = 1 + Larger(l.height, c.height)
          BY <4>5 DEF Settled
        <5> QED
          BY <2>1, <2>2, <4>1, <4>4, <4>6, <5>1 DEF Larger
      <4>8. Elements(new) = IF Same(t, d) = {} THEN Elements(t) \cup {d} ELSE Elements(t)
        BY <2>1, <4>1, <4>5 DEF Settled
      <4> QED
        BY <4>1, <4>5, <4>7, <4>8 DEF Inserted, Settled, new
    <3> QED
      BY <3>4, <3>5
  <2> QED
    BY <2>4, <2>5, <2>6 DEF Direction
<1> HIDE DEF S
<1>3. Trees \subseteq S
  BY <1>1, <1>2, TreeInduction
<1> QED
  BY <1>3 DEF S, Search

\* The last node of a search tree has the greatest element.
LEMMA LastIs ==
  \A t \in Search : t # NULL =>
    /\ Last(t).data \in Elements(t)
    /\ \A e \in Elements(t) : e = Last(t).data \/ KeyOf[e] < KeyOf[Last(t).data]
<1> DEFINE Greatest(t, m) ==
             m \in Elements(t) /\ \A e \in Elements(t) : e = m \/ KeyOf[e] < KeyOf[m]
           S == {t \in Trees : t \in Search /\ t # NULL => Greatest(t, Last(t).data)}
<1>1. NULL \in S
  BY TreesAre
<1>2. ASSUME NEW t \in Trees, t # NULL, t.left \in S, t.right \in S PROVE t \in S
  <2> SUFFICES ASSUME t \in Search PROVE Greatest(t, Last(t).data)
    OBVIOUS
  <2> DEFINE l == t.left
             r == t.right
  <2>1. /\ t.data \in Data /\ l \in Search /\ r \in Search
        /\ Divides(t.data, l, r)
        /\ Elements(t) = {t.data} \cup Elements(l) \cup Elements(r)
    BY <1>2, SearchParts
  <2>2. Last(t) = IF r = NULL THEN t ELSE Last(r)
    BY <1>2, LastOf
  <2>3. CASE r = NULL
    <3>1. Elements(r) = {}
      BY <2>3, ElementsOf
    <3>2. Last(t) = t
      BY <2>2, <2>3
    <3> QED
      BY <2>1, <3>1, <3>2 DEF Divides
  <2>4. CASE r # NULL
    <3> DEFINE m == Last(r).data
    <3>1. Last(t).data = m
      BY <2>2, <2>4
    <3>2. Greatest(r, m)
      BY <1>2, <2>1, <2>4
    <3> HIDE DEF m
    <3>3. m \in Elements(r) /\ KeyOf[t.data] < KeyOf[m]
      BY <2>1, <3>2 DEF Divides
    <3>4. KeyOf[m] \in Int /\ KeyOf[t.data] \in Int
      BY <2>1, <3>3, KeysAre
    <3>5. ASSUME NEW e \in Elements(l) PROVE KeyOf[e] < KeyOf[m]
      <4>1. KeyOf[e] \in Int /\ KeyOf[e] < KeyOf[t.data]
        BY <2>1, KeysAre DEF Divides
      <4> QED
        BY <3>3, <3>4, <4>1
    <3>6. Greatest(t, m)
      BY <2>1, <3>2, <3>3, <3>5
    <3> QED
      BY <3>1, <3>6
  <2> QED
    BY <2>3, <2>4
<1> HIDE DEF S
<1>3. Trees \subseteq S
  BY <1>1, <1>2, TreeInduction
<1> QED
  BY <1>3 DEF S, Search

\* What remove_at returns: the tree without the equivalent element, and its node.
Removed(rest, t, d) ==
  /\ rest.tree \in Search
  /\ rest.tree.height = t.height \/ rest.tree.height = t.height - 1
  /\ Elements(rest.tree) = Elements(t) \ Same(t, d)
  /\ IF Same(t, d) = {} THEN rest.removed = NULL
     ELSE /\ rest.removed \in Search /\ rest.removed # NULL
          /\ Same(t, d) = {rest.removed.data}

\* A subtree that is one level lower makes its node at most one level lower.
LEMMA LowerHeight ==
  ASSUME NEW h \in Int, NEW l \in Int, NEW r \in Int, NEW c \in Int, NEW n \in Int,
         l - r \in -1 .. 1, h = 1 + Larger(l, r), c = l \/ c = l - 1,
         n = Larger(c, r) \/ n = 1 + Larger(c, r),
         c - r \in -1 .. 1 => n = 1 + Larger(c, r)
  PROVE  n = h \/ n = h - 1
BY DEF Larger

LEMMA LargerEither == \A m, n \in Int : Larger(m, n) = Larger(n, m)
BY DEF Larger

\* remove_node: the tree that is left of the node.
LEMMA NodeRemoved ==
  ASSUME NEW t \in Search, t # NULL, \A e \in Data : Removed(RemoveAt(t.left, e), t.left, e)
  PROVE  LET n == RemoveNode(t, RemoveFrom(t.left)) IN
         /\ n \in Search
         /\ n.height = t.height \/ n.height = t.height - 1
         /\ Elements(n) = Elements(t) \ {t.data}
<1> DEFINE n == RemoveNode(t, RemoveFrom(t.left))
           l == t.left
           r == t.right
           x == Last(l).data
           rest == RemoveAt(l, x)
<1>1. /\ t.data \in Data /\ l \in Search /\ r \in Search
      /\ l.height - r.height \in -1 .. 1
      /\ Divides(t.data, l, r)
      /\ Elements(t) = {t.data} \cup Elements(l) \cup Elements(r)
      /\ t.height = 1 + Larger(l.height, r.height)
      /\ l.height + 2 <= MaxHeight /\ r.height + 2 <= MaxHeight
  BY SearchParts
<1>2. /\ t.height \in Int /\ l.height \in Int /\ r.height \in Int
      /\ l.height >= -1 /\ r.height >= -1
      /\ NULL.height = -1
  BY <1>1, NullHeight
<1>3. t.data \notin Elements(l) /\ t.data \notin Elements(r)
  <2>1. KeyOf[t.data] \in Int
    BY <1>1, KeysAre
  <2> QED
    BY <1>1, <2>1 DEF Divides
<1>4. CASE l = NULL
  <2>1. n = r
    BY <1>4 DEF RemoveNode
  <2>2. r.height = t.height - 1
    BY <1>1, <1>2, <1>4 DEF Larger
  <2>3. Elements(l) = {}
    BY <1>4, ElementsOf
  <2>4. Elements(r) = Elements(t) \ {t.data}
    BY <1>1, <1>3, <2>3
  <2> QED
    BY <1>1, <2>1, <2>2, <2>4
<1>5. CASE l # NULL /\ r = NULL
  <2>1. n = l
    BY <1>5 DEF RemoveNode
  <2>2. l.height = t.height - 1
    BY <1>1, <1>2, <1>5 DEF Larger
  <2>3. Elements(r) = {}
    BY <1>5, ElementsOf
  <2>4. Elements(l) = Elements(t) \ {t.data}
    BY <1>1, <1>3, <2>3
  <2> QED
    BY <1>1, <2>1, <2>2, <2>4
<1>6. CASE l # NULL /\ r # NULL
  <2>1. x \in Elements(l) /\ \A e \in Elements(l) : e = x \/ KeyOf[e] < KeyOf[x]
    BY <1>1, <1>6, LastIs
  <2>2. x \in Data /\ KeyOf[x] \in Int /\ KeyOf[t.data] \in Int
    BY <1>1, <2>1, KeysAre
  <2>3. RemoveFrom(l)[x] = rest
    BY <2>2 DEF RemoveFrom
  <2>4. n = Balance(AssignChild(AssignChild(rest.removed, r, "right"), rest.tree, "left"))
    BY <1>6, <2>3 DEF RemoveNode
  <2>5. Removed(rest, l, x)
    BY <2>2
  <2> HIDE DEF x, rest
  <2>6. x \in Same(l, x)
    BY <2>1 DEF Same
  <2>7. /\ rest.removed \in Search /\ rest.removed # NULL /\ Same(l, x) = {x}
        /\ rest.removed.data = x
    BY <2>5, <2>6 DEF Removed
  <2> DEFINE c == rest.tree
  <2>8. /\ c \in Search /\ Elements(c) = Elements(l) \ {x}
        /\ c.height = l.height \/ c.height = l.height - 1
    BY <2>5, <2>7 DEF Removed
  <2>9. n = Balance(Node(x, c, r))
    <3> DEFINE y == rest.removed
    <3>1. y = Node(y.data, y.left, y.right)
      BY <2>7, SearchParts
    <3>2. AssignChild(y, r, "right") = Node(y.data, y.left, r)
      BY <3>1, AssignNode
    <3>3. AssignChild(AssignChild(y, r, "right"), c, "left") = Node(y.data, c, r)
      BY <3>2, AssignNode
    <3> QED
      BY <2>4, <2>7, <3>3
  <2> HIDE DEF c, n
  <2>10. Divides(x, c, r)
    <3>1. KeyOf[x] < KeyOf[t.data]
      BY <1>1, <2>1 DEF Divides
    <3>2. ASSUME NEW e \in Elements(r) PROVE KeyOf[x] < KeyOf[e]
      <4>1. KeyOf[e] \in Int /\ KeyOf[t.data] < KeyOf[e]
        BY <1>1, KeysAre DEF Divides
      <4> QED
        BY <2>2, <3>1, <4>1
    <3>3. \A e \in Elements(c) : KeyOf[e] < KeyOf[x]
      BY <2>1, <2>8
    <3> QED
      BY <3>2, <3>3 DEF Divides
  <2>11. c.height \in Int /\ c.height + 2 <= MaxHeight /\ c.height - r.height \in -2 .. 2
    BY <1>1, <1>2, <2>8, SetAssumption
  <2>12. Settled(n, x, c, r)
    BY <1>1, <2>2, <2>8, <2>9, <2>10, <2>11, BalanceNode
  <2>13. n.height \in Int
    BY <2>12, NullHeight DEF Settled
  <2>14. n.height = t.height \/ n.height = t.height - 1
    <3>1. /\ n.height = Larger(c.height, r.height) \/ n.height = 1 + Larger(c.height, r.height)
          /\ c.height - r.height \in -1 .. 1 => n.height = 1 + Larger(c.height, r.height)
      BY <2>12 DEF Settled
    <3> QED
      BY <1>1, <1>2, <2>8, <2>11, <2>13, <3>1, LowerHeight
  <2>15. Elements(n) = Elements(t) \ {t.data}
    <3>1. Elements(n) = {x} \cup Elements(c) \cup Elements(r)
      BY <2>12 DEF Settled
    <3> QED
      BY <1>1, <1>3, <2>1, <2>8, <3>1
  <2> QED
    BY <2>12, <2>14, <2>15 DEF Settled, n
<1> QED
  BY <1>4, <1>5, <1>6

LEMMA RemovedAt ==
  \A t \in Search : \A d \in Data : Removed(RemoveAt(t, d), t, d)
<1> DEFINE S == {t \in Trees : t \in Search => \A d \in Data : Removed(RemoveAt(t, d), t, d)}
<1>1. NULL \in S
  <2> SUFFICES ASSUME NEW d \in Data PROVE Removed(RemoveAt(NULL, d), NULL, d)
    BY TreesAre
  <2>1. RemoveAt(NULL, d) = Without(NULL, NULL)
    BY RemoveOf
  <2>2. Without(NULL, NULL).tree = NULL /\ Without(NULL, NULL).removed = NULL
    BY DEF Without
  <2> QED
    BY <2>1, <2>2, SearchOf, ElementsOf DEF Removed, Same
<1>2. ASSUME NEW t \in Trees, t # NULL, t.left \in S, t.right \in S PROVE t \in S
  <2> SUFFICES ASSUME t \in Search, NEW d \in Data PROVE Removed(RemoveAt(t, d), t, d)
    OBVIOUS
  <2> DEFINE l == t.left
             r == t.right
             rest == RemoveAt(t, d)
  <2>1. /\ t = Node(t.data, l, r)
        /\ t.data \in Data /\ l \in Search /\ r \in Search
        /\ l.height - r.height \in -1 .. 1
        /\ Divides(t.data, l, r)
        /\ Elements(t) = {t.data} \cup Elements(l) \cup Elements(r)
        /\ t.height = 1 + Larger(l.height, r.height)
        /\ l.height + 2 <= MaxHeight /\ r.height + 2 <= MaxHeight
    BY <1>2, SearchParts
  <2>2. t.height \in Int /\ l.height \in Int /\ r.height \in Int
    BY <2>1, NullHeight
  <2>3. t.data \notin Elements(l) /\ t.data \notin Elements(r) /\ Elements(l) \cap Elements(r) = {}
    <3>1. KeyOf[t.data] \in Int
      BY <2>1, KeysAre
    <3>2. \A e \in Elements(l) : KeyOf[e] \in Int
      BY <2>1, KeysAre
    <3> QED
      BY <2>1, <3>1, <3>2 DEF Divides
  <2>4. CASE Matches(t, d)
    <3> DEFINE n == RemoveNode(t, RemoveFrom(t.left))
    <3>1. rest = Without(n, t)
      BY <1>2, <2>4, RemoveOf
    <3>2. rest.tree = n /\ rest.removed = t
      BY <3>1 DEF Without
    <3>3. Same(t, d) = {t.data}
      BY <1>2, <2>4, SameIs
    <3>4. \A e \in Data : Removed(RemoveAt(t.left, e), t.left, e)
      BY <1>2, <2>1
    <3>5. /\ n \in Search
          /\ n.height = t.height \/ n.height = t.height - 1
          /\ Elements(n) = Elements(t) \ {t.data}
      BY <1>2, <3>4, NodeRemoved
    <3> HIDE DEF n, rest
    <3>6. Removed(rest, t, d)
      BY <1>2, <3>2, <3>3, <3>5 DEF Removed
    <3> QED
      BY <3>6 DEF rest
  <2>5. CASE ~ Matches(t, d) /\ Direction(t, d) = "left"
    <3> DEFINE below == RemoveAt(l, d)
               c     == below.tree
               n     == rest.tree
    <3>1. Same(t, d) = Same(l, d)
      BY <1>2, <2>5, SameIs
    <3>2. rest = Without(Balance(AssignChild(t, c, "left")), below.removed)
      <4>1. rest = Without(Balance(AssignChild(t, RemoveAt(t["left"], d).tree, "left")),
                           RemoveAt(t["left"], d).removed)
        BY <1>2, <2>5, RemoveOf
      <4> QED
        BY <4>1
    <3>3. Removed(below, l, d)
      BY <1>2, <2>1
    <3> HIDE DEF below, rest
    <3>4. n = Balance(AssignChild(t, c, "left")) /\ rest.removed = below.removed
      BY <3>2 DEF Without
    <3>5. /\ c \in Search /\ (c.height = l.height \/ c.height = l.height - 1)
          /\ Elements(c) = Elements(l) \ Same(l, d)
      BY <3>3 DEF Removed
    <3> HIDE DEF c, n
    <3>6. n = Balance(Node(t.data, c, r))
      BY <2>1, <3>4, AssignNode
    <3>7. Divides(t.data, c, r)
      BY <2>1, <3>5 DEF Divides
    <3>8. c.height \in Int /\ c.height + 2 <= MaxHeight /\ c.height - r.height \in -2 .. 2
      BY <2>1, <2>2, <3>5, SetAssumption
    <3>9. Settled(n, t.data, c, r)
      BY <2>1, <3>5, <3>6, <3>7, <3>8, BalanceNode
    <3>10. n.height \in Int
      BY <3>9, NullHeight DEF Settled
    <3>11. n.height = t.height \/ n.height = t.height - 1
      <4>1. /\ n.height = Larger(c.height, r.height) \/ n.height = 1 + Larger(c.height, r.height)
            /\ c.height - r.height \in -1 .. 1 => n.height = 1 + Larger(c.height, r.height)
        BY <3>9 DEF Settled
      <4> QED
        BY <2>1, <2>2, <3>5, <3>8, <3>10, <4>1, LowerHeight
    <3>12. Elements(n) = Elements(t) \ Same(t, d)
      <4>1. Elements(n) = {t.data} \cup Elements(c) \cup Elements(r)
        BY <3>9 DEF Settled
      <4>2. Same(l, d) \subseteq Elements(l)
        BY DEF Same
      <4> QED
        BY <2>1, <2>3, <3>1, <3>5, <4>1, <4>2
    <3>13. Removed(rest, t, d)
      BY <3>1, <3>3, <3>4, <3>9, <3>11, <3>12 DEF Removed, Settled, n
    <3> QED
      BY <3>13 DEF rest
  <2>6. CASE ~ Matches(t, d) /\ Direction(t, d) = "right"
    <3> DEFINE below == RemoveAt(r, d)
               c     == below.tree
               n     == rest.tree
    <3>1. Same(t, d) = Same(r, d)
      BY <1>2, <2>6, SameIs
    <3>2. rest = Without(Balance(AssignChild(t, c, "right")), below.removed)
      <4>1. rest = Without(Balance(AssignChild(t, RemoveAt(t["right"], d).tree, "right")),
                           RemoveAt(t["right"], d).removed)
        BY <1>2, <2>6, RemoveOf
      <4> QED
        BY <4>1
    <3>3. Removed(below, r, d)
      BY <1>2, <2>1
    <3> HIDE DEF below, rest
    <3>4. n = Balance(AssignChild(t, c, "right")) /\ rest.removed = below.removed
      BY <3>2 DEF Without
    <3>5. /\ c \in Search /\ (c.height = r.height \/ c.height = r.height - 1)
          /\ Elements(c) = Elements(r) \ Same(r, d)
      BY <3>3 DEF Removed
    <3> HIDE DEF c, n
    <3>6. n = Balance(Node(t.data, l, c))
      BY <2>1, <3>4, AssignNode
    <3>7. Divides(t.data, l, c)
      BY <2>1, <3>5 DEF Divides
    <3>8. c.height \in Int /\ c.height + 2 <= MaxHeight /\ l.height - c.height \in -2 .. 2
      BY <2>1, <2>2, <3>5, SetAssumption
    <3>9. Settled(n, t.data, l, c)
      BY <2>1, <3>5, <3>6, <3>7, <3>8, BalanceNode
    <3>10. n.height \in Int
      BY <3>9, NullHeight DEF Settled
    <3>11. n.height = t.height \/ n.height = t.height - 1
      <4>1. /\ n.height = Larger(c.height, l.height) \/ n.height = 1 + Larger(c.height, l.height)
            /\ c.height - l.height \in -1 .. 1 => n.height = 1 + Larger(c.height, l.height)
        <5>1. Larger(c.height, l.height) = Larger(l.height, c.height)
          BY <2>2, <3>8, LargerEither
        <5>2. c.height - l.height \in -1 .. 1 => l.height - c.height \in -1 .. 1
          BY <2>2, <3>8
        <5> QED
          BY <3>9, <5>1, <5>2 DEF Settled
      <4>2. t.height = 1 + Larger(r.height, l.height) /\ r.height - l.height \in -1 .. 1
        BY <2>1, <2>2, LargerEither
      <4> QED
        BY <2>2, <3>5, <3>8, <3>10, <4>1, <4>2, LowerHeight
    <3>12. Elements(n) = Elements(t) \ Same(t, d)
      <4>1. Elements(n) = {t.data} \cup Elements(l) \cup Elements(c)
        BY <3>9 DEF Settled
      <4>2. Same(r, d) \subseteq Elements(r)
        BY DEF Same
      <4> QED
        BY <2>1, <2>3, <3>1, <3>5, <4>1, <4>2
    <3>13. Removed(rest, t, d)
      BY <3>1, <3>3, <3>4, <3>9, <3>11, <3>12 DEF Removed, Settled, n
    <3> QED
      BY <3>13 DEF rest
  <2> QED
    BY <2>4, <2>5, <2>6 DEF Direction
<1> HIDE DEF S
<1>3. Trees \subseteq S
  BY <1>1, <1>2, TreeInduction
<1> QED
  BY <1>3 DEF S, Search

-----------------------------------------------------------------------------
(***************************************************************************)
(* The answers: lookup and rank.                                           *)
(***************************************************************************)
LEMMA LookupIs ==
  ASSUME NEW d \in Data
  PROVE  \A t \in Search :
           IF Same(t, d) = {} THEN LookupIn(t, d) = NULL
           ELSE LookupIn(t, d).data \in Same(t, d)
<1> DEFINE P(t) == IF Same(t, d) = {} THEN LookupIn(t, d) = NULL
                   ELSE LookupIn(t, d).data \in Same(t, d)
           S == {t \in Trees : t \in Search => P(t)}
<1>1. NULL \in S
  BY TreesAre, LookupOf, ElementsOf DEF Same
<1>2. ASSUME NEW t \in Trees, t # NULL, t.left \in S, t.right \in S PROVE t \in S
  <2> SUFFICES ASSUME t \in Search PROVE P(t)
    OBVIOUS
  <2>1. P(t.left) /\ P(t.right)
    BY <1>2, SearchOf
  <2>2. CASE Matches(t, d)
    <3>1. LookupIn(t, d) = t /\ Same(t, d) = {t.data}
      BY <1>2, <2>2, LookupOf, SameIs
    <3> QED
      BY <3>1
  <2>3. CASE ~ Matches(t, d) /\ Direction(t, d) = "left"
    <3>1. LookupIn(t, d) = LookupIn(t.left, d) /\ Same(t, d) = Same(t.left, d)
      BY <1>2, <2>3, LookupOf, SameIs
    <3> QED
      BY <2>1, <3>1
  <2>4. CASE ~ Matches(t, d) /\ Direction(t, d) = "right"
    <3>1. LookupIn(t, d) = LookupIn(t.right, d) /\ Same(t, d) = Same(t.right, d)
      BY <1>2, <2>4, LookupOf, SameIs DEF Direction
    <3> QED
      BY <2>1, <3>1
  <2> QED
    BY <2>2, <2>3, <2>4 DEF Direction
<1> HIDE DEF S
<1>3. Trees \subseteq S
  BY <1>1, <1>2, TreeInduction
<1> QED
  BY <1>3 DEF S, Search

Less(t, d) == {m \in Elements(t) : KeyOf[m] < KeyOf[d]}

\* What is less than an element: on the way to the left it is on the left, on the
\* way to the right the node and all that is on its left are.
LEMMA LessIs ==
  ASSUME NEW t \in Search, t # NULL, NEW d \in Data
  PROVE  /\ Matches(t, d) => Less(t, d) = Elements(t.left)
         /\ KeyOf[d] < KeyOf[t.data] => Less(t, d) = Less(t.left, d)
         /\ KeyOf[t.data] < KeyOf[d] =>
              Less(t, d) = {t.data} \cup Elements(t.left) \cup Less(t.right, d)
         /\ t.data \notin Elements(t.left) /\ t.data \notin Elements(t.right)
         /\ Elements(t.left) \cap Elements(t.right) = {}
<1>1. /\ t.data \in Data /\ t.left \in Search /\ t.right \in Search
      /\ Divides(t.data, t.left, t.right)
      /\ Elements(t) = {t.data} \cup Elements(t.left) \cup Elements(t.right)
  BY SearchParts
<1>2. KeyOf[d] \in Int /\ KeyOf[t.data] \in Int
  BY <1>1, KeysAre
<1>3. \A e \in Elements(t.left) : KeyOf[e] \in Int /\ KeyOf[e] < KeyOf[t.data]
  BY <1>1, KeysAre DEF Divides
<1>4. \A e \in Elements(t.right) : KeyOf[e] \in Int /\ KeyOf[t.data] < KeyOf[e]
  BY <1>1, KeysAre DEF Divides
<1>5. ASSUME Matches(t, d) PROVE Less(t, d) = Elements(t.left)
  <2>1. KeyOf[t.data] = KeyOf[d]
    BY <1>5 DEF Matches
  <2>2. \A e \in {t.data} \cup Elements(t.right) : ~ (KeyOf[e] < KeyOf[d])
    BY <1>2, <1>4, <2>1
  <2>3. \A e \in Elements(t.left) : KeyOf[e] < KeyOf[d]
    BY <1>3, <2>1
  <2> QED
    BY <1>1, <2>2, <2>3 DEF Less
<1>6. ASSUME KeyOf[d] < KeyOf[t.data] PROVE Less(t, d) = Less(t.left, d)
  <2>1. \A e \in {t.data} \cup Elements(t.right) : ~ (KeyOf[e] < KeyOf[d])
    BY <1>2, <1>4, <1>6
  <2> QED
    BY <1>1, <2>1 DEF Less
<1>7. ASSUME KeyOf[t.data] < KeyOf[d]
      PROVE  Less(t, d) = {t.data} \cup Elements(t.left) \cup Less(t.right, d)
  <2>1. \A e \in {t.data} \cup Elements(t.left) : KeyOf[e] < KeyOf[d]
    BY <1>2, <1>3, <1>7
  <2> QED
    BY <1>1, <2>1 DEF Less
<1>8. t.data \notin Elements(t.left) /\ t.data \notin Elements(t.right)
  BY <1>2, <1>3, <1>4
<1>9. Elements(t.left) \cap Elements(t.right) = {}
  BY <1>2, <1>3, <1>4
<1> QED
  BY <1>5, <1>6, <1>7, <1>8, <1>9

LEMMA RankIs ==
  ASSUME NEW d \in Data
  PROVE  \A t \in Search : \A n \in Nat :
           RankIn(t, d, n) = IF Same(t, d) = {} THEN CSET_ERROR
                             ELSE n + Cardinality(Less(t, d))
<1> DEFINE P(t) == \A n \in Nat :
                     RankIn(t, d, n) = IF Same(t, d) = {} THEN CSET_ERROR
                                       ELSE n + Cardinality(Less(t, d))
           S == {t \in Trees : t \in Search => P(t)}
<1>1. NULL \in S
  <2>1. Same(NULL, d) = {}
    BY ElementsOf DEF Same
  <2> QED
    BY <2>1, TreesAre, RankOf
<1>2. ASSUME NEW t \in Trees, t # NULL, t.left \in S, t.right \in S PROVE t \in S
  <2> SUFFICES ASSUME t \in Search, NEW n \in Nat
               PROVE  RankIn(t, d, n) = IF Same(t, d) = {} THEN CSET_ERROR
                                        ELSE n + Cardinality(Less(t, d))
    OBVIOUS
  <2>1. P(t.left) /\ P(t.right) /\ t.left \in Search /\ t.right \in Search
    BY <1>2, SearchOf
  <2>2. t.nleft = Cardinality(Elements(t.left)) /\ t.nleft \in Nat
    <3>1. t.nleft = GetSize(t.left)
      <4>1. t = Node(t.data, t.left, t.right)
        BY <1>2, SearchParts
      <4>2. Node(t.data, t.left, t.right).nleft = GetSize(t.left)
        BY NodeParts
      <4> QED
        BY <4>1, <4>2
    <3> QED
      BY <2>1, <3>1, SearchKept DEF Kept
  <2>3. CASE Matches(t, d)
    <3>1. RankIn(t, d, n) = n + t.nleft
      BY <1>2, <2>3, RankOf
    <3>2. Same(t, d) # {} /\ Less(t, d) = Elements(t.left)
      BY <1>2, <2>3, SameIs, LessIs
    <3> QED
      BY <2>2, <3>1, <3>2
  <2>4. CASE ~ Matches(t, d) /\ Direction(t, d) = "left"
    <3>1. RankIn(t, d, n) = RankIn(t.left, d, n)
      BY <1>2, <2>4, RankOf
    <3>2. Same(t, d) = Same(t.left, d) /\ Less(t, d) = Less(t.left, d)
      BY <1>2, <2>4, SameIs, LessIs
    <3> QED
      BY <2>1, <3>1, <3>2
  <2>5. CASE ~ Matches(t, d) /\ Direction(t, d) = "right"
    <3> DEFINE k == n + 1 + t.nleft
    <3>1. RankIn(t, d, n) = RankIn(t.right, d, k)
      BY <1>2, <2>5, RankOf
    <3>2. /\ Same(t, d) = Same(t.right, d)
          /\ Less(t, d) = {t.data} \cup Elements(t.left) \cup Less(t.right, d)
      BY <1>2, <2>5, SameIs, LessIs
    <3>3. /\ Cardinality(Less(t, d)) = 1 + t.nleft + Cardinality(Less(t.right, d))
          /\ Cardinality(Less(t.right, d)) \in Nat
      <4>1. Less(t.right, d) \subseteq Elements(t.right)
        BY DEF Less
      <4>2. IsFiniteSet(Elements(t.left)) /\ IsFiniteSet(Elements(t.right))
        BY <2>1, ElementsAre DEF Search
      <4>3. IsFiniteSet(Less(t.right, d))
        BY <4>1, <4>2, FS_Subset
      <4>4. /\ t.data \notin Elements(t.left) /\ t.data \notin Less(t.right, d)
            /\ Elements(t.left) \cap Less(t.right, d) = {}
        BY <1>2, <4>1, LessIs
      <4> QED
        BY <2>2, <3>2, <4>2, <4>3, <4>4, DisjointUnion
    <3>4. k \in Nat
      BY <2>2
    <3>5. RankIn(t.right, d, k) = IF Same(t.right, d) = {} THEN CSET_ERROR
                                  ELSE k + Cardinality(Less(t.right, d))
      BY <2>1, <3>4
    <3>6. k + Cardinality(Less(t.right, d)) = n + Cardinality(Less(t, d))
      BY <2>2, <3>3
    <3> HIDE DEF k
    <3> QED
      BY <3>1, <3>2, <3>5, <3>6
  <2> QED
    BY <2>3, <2>4, <2>5 DEF Direction
<1> HIDE DEF S
<1>3. Trees \subseteq S
  BY <1>1, <1>2, TreeInduction
<1> QED
  BY <1>3 DEF S, Search

-----------------------------------------------------------------------------
(***************************************************************************)
(* The nodes of a search tree, and the order in which it is cleaned up.    *)
(***************************************************************************)
LEMMA NodesAre == \A t \in Search : Nodes(t) \subseteq Search \ {NULL}
<1> DEFINE S == {t \in Trees : t \in Search => Nodes(t) \subseteq Search \ {NULL}}
<1>1. NULL \in S
  BY TreesAre, NodesOf
<1>2. ASSUME NEW t \in Trees, t # NULL, t.left \in S, t.right \in S PROVE t \in S
  <2> SUFFICES ASSUME t \in Search PROVE Nodes(t) \subseteq Search \ {NULL}
    OBVIOUS
  <2>1. t.left \in Search /\ t.right \in Search
    BY <1>2, SearchOf
  <2>2. Nodes(t) = {t} \cup Nodes(t.left) \cup Nodes(t.right)
    BY <1>2, NodesOf
  <2>3. Nodes(t.left) \subseteq Search \ {NULL} /\ Nodes(t.right) \subseteq Search \ {NULL}
    BY <1>2, <2>1
  <2> HIDE DEF S
  <2> QED
    BY <1>2, <2>2, <2>3
<1> HIDE DEF S
<1>3. Trees \subseteq S
  BY <1>1, <1>2, TreeInduction
<1> QED
  BY <1>3 DEF S, Search

LEMMA ListsNone == Ordered!Lists(<<>>, {})
<1>1. <<>> \in Seq({}) /\ Len(<<>>) = 0
  OBVIOUS
<1> QED
  BY <1>1 DEF Ordered!Lists

LEMMA ListsOne == ASSUME NEW d PROVE Ordered!Lists(<<d>>, {d})
<1>1. <<d>> \in Seq({d}) /\ Len(<<d>>) = 1 /\ <<d>>[1] = d
  OBVIOUS
<1> QED
  BY <1>1 DEF Ordered!Lists

LEMMA ListsBoth ==
  ASSUME NEW s, NEW t, NEW A, NEW B, A \cap B = {},
         Ordered!Lists(s, A), Ordered!Lists(t, B)
  PROVE  Ordered!Lists(s \o t, A \cup B)
<1> DEFINE u == s \o t
           C == A \cup B
<1>1. s \in Seq(A) /\ t \in Seq(B)
  BY DEF Ordered!Lists
<1>2. Seq(A) \subseteq Seq(C) /\ Seq(B) \subseteq Seq(C)
  BY SeqMonotonic
<1>3. s \in Seq(C) /\ t \in Seq(C)
  BY <1>1, <1>2
<1>4. /\ u \in Seq(C) /\ Len(u) = Len(s) + Len(t)
      /\ \A i \in 1 .. Len(s) + Len(t) :
           u[i] = IF i <= Len(s) THEN s[i] ELSE t[i - Len(s)]
  BY <1>3, ConcatProperties
<1>5. /\ Len(s) \in Nat /\ Len(t) \in Nat
      /\ \A i \in 1 .. Len(s) : s[i] \in A
      /\ \A i \in 1 .. Len(t) : t[i] \in B
  BY <1>1
<1> HIDE DEF u
<1>6. \A d \in C : \E i \in 1 .. Len(u) : u[i] = d
  <2> SUFFICES ASSUME NEW d \in C PROVE \E i \in 1 .. Len(u) : u[i] = d
    OBVIOUS
  <2>1. CASE d \in A
    <3>1. PICK i \in 1 .. Len(s) : s[i] = d
      BY <2>1 DEF Ordered!Lists
    <3>2. i \in 1 .. Len(s) + Len(t) /\ i <= Len(s)
      BY <1>5
    <3> QED
      BY <1>4, <3>1, <3>2
  <2>2. CASE d \in B
    <3>1. PICK i \in 1 .. Len(t) : t[i] = d
      BY <2>2 DEF Ordered!Lists
    <3> DEFINE j == Len(s) + i
    <3>2. j \in 1 .. Len(s) + Len(t) /\ ~ (j <= Len(s)) /\ j - Len(s) = i
      BY <1>5
    <3>3. u[j] = d
      BY <1>4, <3>1, <3>2
    <3> HIDE DEF j
    <3> QED
      BY <1>4, <3>2, <3>3
  <2> QED
    BY <2>1, <2>2
<1>7. \A i, j \in 1 .. Len(u) : u[i] = u[j] => i = j
  <2> SUFFICES ASSUME NEW i \in 1 .. Len(u), NEW j \in 1 .. Len(u), u[i] = u[j]
               PROVE  i = j
    OBVIOUS
  <2>1. i \in 1 .. Len(s) + Len(t) /\ j \in 1 .. Len(s) + Len(t)
    BY <1>4
  <2>2. ASSUME NEW k \in 1 .. Len(s) + Len(t), k <= Len(s)
        PROVE  k \in 1 .. Len(s) /\ u[k] = s[k] /\ u[k] \in A
    BY <1>4, <1>5, <2>2
  <2>3. ASSUME NEW k \in 1 .. Len(s) + Len(t), ~ (k <= Len(s))
        PROVE  k - Len(s) \in 1 .. Len(t) /\ u[k] = t[k - Len(s)] /\ u[k] \in B
    <3>1. k - Len(s) \in 1 .. Len(t)
      BY <1>5, <2>3
    <3>2. u[k] = t[k - Len(s)]
      BY <1>4, <2>3
    <3> QED
      BY <1>5, <3>1, <3>2
  <2>4. CASE i <= Len(s) /\ j <= Len(s)
    <3>1. i \in 1 .. Len(s) /\ j \in 1 .. Len(s) /\ s[i] = s[j]
      BY <2>1, <2>2, <2>4
    <3> QED
      BY <3>1 DEF Ordered!Lists
  <2>5. CASE ~ (i <= Len(s)) /\ ~ (j <= Len(s))
    <3>1. /\ i - Len(s) \in 1 .. Len(t) /\ j - Len(s) \in 1 .. Len(t)
          /\ t[i - Len(s)] = t[j - Len(s)]
      BY <2>1, <2>3, <2>5
    <3>2. i - Len(s) = j - Len(s)
      BY <3>1 DEF Ordered!Lists
    <3> QED
      BY <1>5, <2>1, <3>2
  <2>6. CASE (i <= Len(s)) # (j <= Len(s))
    BY <2>1, <2>2, <2>3, <2>6
  <2> QED
    BY <2>4, <2>5, <2>6
<1> QED
  BY <1>4, <1>6, <1>7 DEF Ordered!Lists, u

LEMMA DisposeLists == \A t \in Search : Ordered!Lists(DisposeNode(t), Elements(t))
<1> DEFINE S == {t \in Trees : t \in Search => Ordered!Lists(DisposeNode(t), Elements(t))}
<1>1. NULL \in S
  BY TreesAre, DisposeOf, ElementsOf, ListsNone
<1>2. ASSUME NEW t \in Trees, t # NULL, t.left \in S, t.right \in S PROVE t \in S
  <2> SUFFICES ASSUME t \in Search PROVE Ordered!Lists(DisposeNode(t), Elements(t))
    OBVIOUS
  <2> DEFINE l == t.left
             r == t.right
  <2>1. /\ Ordered!Lists(DisposeNode(l), Elements(l))
        /\ Ordered!Lists(DisposeNode(r), Elements(r))
    BY <1>2, SearchOf
  <2>2. /\ t.data \in Data
        /\ Elements(t) = {t.data} \cup Elements(l) \cup Elements(r)
    BY <1>2, SearchParts
  <2>3. /\ t.data \notin Elements(l) /\ t.data \notin Elements(r)
        /\ Elements(l) \cap Elements(r) = {}
    BY <1>2, <2>2, LessIs
  <2>4. DisposeNode(t) = DisposeNode(l) \o DisposeNode(r) \o <<t.data>>
    BY <1>2, DisposeOf
  <2> HIDE DEF l, r
  <2>5. Ordered!Lists(DisposeNode(l) \o DisposeNode(r), Elements(l) \cup Elements(r))
    BY <2>1, <2>3, ListsBoth
  <2>6. Ordered!Lists(<<t.data>>, {t.data})
    BY ListsOne
  <2>7. (Elements(l) \cup Elements(r)) \cap {t.data} = {}
    BY <2>3
  <2>8. Ordered!Lists((DisposeNode(l) \o DisposeNode(r)) \o <<t.data>>,
                      (Elements(l) \cup Elements(r)) \cup {t.data})
    BY <2>5, <2>6, <2>7, ListsBoth
  <2>9. (Elements(l) \cup Elements(r)) \cup {t.data} = Elements(t)
    BY <2>2
  <2> QED
    BY <2>4, <2>8, <2>9
<1> HIDE DEF S
<1>3. Trees \subseteq S
  BY <1>1, <1>2, TreeInduction
<1> QED
  BY <1>3 DEF S, Search

-----------------------------------------------------------------------------
(***************************************************************************)
(* The set: the tree is a search tree, whatever is called.                 *)
(***************************************************************************)
IInv == root \in Search /\ state \in {"ready", "disposed"}

\* What a step does to the members, as the abstract set says it.
LEMMA InsertStepIs ==
  ASSUME IInv, NEW d \in Data, Insert(d)
  PROVE  IInv' /\ (Ordered!Insert(d) \/ Ordered!LoseAll(d))
<1>1. PICK memory \in BOOLEAN : root' = InsertAt(root, d, memory)
  BY DEF Insert
<1>2. /\ root \in Search /\ root.height + 1 < MaxHeight
      /\ state' \in {"ready", "disposed"} /\ cleaned' = <<>>
  BY DEF IInv, Insert
<1>3. Inserted(root', root, d, memory)
  BY <1>1, <1>2, InsertedAt
<1>4. Ordered!Equivalent(d) = Same(root, d)
  BY DEF Ordered!Equivalent, Same, Members
<1>5. Members = Elements(root) /\ Members' = Elements(root')
  BY DEF Members
<1>6. CASE Same(root, d) = {} /\ ~ memory
  <2>1. root' = NULL
    BY <1>3, <1>6 DEF Inserted
  <2>2. root' \in Search /\ Elements(root') = {}
    BY <2>1, SearchOf, ElementsOf
  <2> QED
    BY <1>2, <1>4, <1>5, <1>6, <2>2 DEF IInv, Ordered!LoseAll
<1>7. CASE ~ (Same(root, d) = {} /\ ~ memory)
  <2>1. /\ root' \in Search
        /\ Elements(root') = IF Same(root, d) = {} THEN Elements(root) \cup {d}
                             ELSE Elements(root)
    BY <1>3, <1>7 DEF Inserted
  <2> QED
    BY <1>2, <1>4, <1>5, <2>1 DEF IInv, Ordered!Insert
<1> QED
  BY <1>6, <1>7

LEMMA RemoveStepIs ==
  ASSUME IInv, NEW d \in Data, Remove(d)
  PROVE  IInv' /\ Ordered!Remove(d)
<1> DEFINE rest == RemoveAt(root, d)
<1>1. /\ root \in Search /\ state' \in {"ready", "disposed"}
      /\ root' = rest.tree
      /\ cleaned' = IF rest.removed = NULL THEN <<>> ELSE <<rest.removed.data>>
  BY DEF IInv, Remove
<1>2. Removed(rest, root, d)
  BY <1>1, RemovedAt
<1> HIDE DEF rest
<1>3. root' \in Search /\ Elements(root') = Elements(root) \ Same(root, d)
  BY <1>1, <1>2 DEF Removed
<1>4. Ordered!Equivalent(d) = Same(root, d)
  BY DEF Ordered!Equivalent, Same, Members
<1>5. Members = Elements(root) /\ Members' = Elements(root')
  BY DEF Members
<1>6. Ordered!Lists(cleaned', Same(root, d))
  <2>1. CASE Same(root, d) = {}
    BY <1>1, <1>2, <2>1, ListsNone DEF Removed
  <2>2. CASE Same(root, d) # {}
    <3>1. Same(root, d) = {rest.removed.data} /\ cleaned' = <<rest.removed.data>>
      BY <1>1, <1>2, <2>2 DEF Removed
    <3> QED
      BY <3>1, ListsOne
  <2> QED
    BY <2>1, <2>2
<1> QED
  BY <1>1, <1>3, <1>4, <1>5, <1>6 DEF IInv, Ordered!Remove

LEMMA ClearStepIs ==
  ASSUME IInv, NEW next \in {"ready", "disposed"}, Clear(next)
  PROVE  IInv' /\ Ordered!Clear
<1>1. root \in Search /\ root' = NULL /\ state' = next /\ cleaned' = DisposeNode(root)
  BY DEF IInv, Clear
<1>2. Members = Elements(root) /\ Members' = Elements(root')
  BY DEF Members
<1>3. root' \in Search /\ Elements(root') = {}
  BY <1>1, SearchOf, ElementsOf
<1>4. Ordered!Lists(cleaned', Elements(root))
  BY <1>1, DisposeLists
<1> QED
  BY <1>1, <1>2, <1>3, <1>4 DEF IInv, Ordered!Clear

LEMMA InitIs == Init => IInv /\ Ordered!Init
BY SearchOf, ElementsOf DEF Init, IInv, Ordered!Init, Members

LEMMA StepIs == IInv /\ [Next]_vars => IInv' /\ [Ordered!Next]_(Ordered!vars)
<1> SUFFICES ASSUME IInv, [Next]_vars PROVE IInv' /\ [Ordered!Next]_(Ordered!vars)
  OBVIOUS
<1>1. CASE Next
  <2>1. ASSUME NEW d \in Data, Insert(d) PROVE IInv' /\ Ordered!Next
    BY <2>1, InsertStepIs DEF Ordered!Next
  <2>2. ASSUME NEW d \in Data, Remove(d) PROVE IInv' /\ Ordered!Next
    BY <2>2, RemoveStepIs DEF Ordered!Next
  <2>3. ASSUME NEW next \in {"ready", "disposed"}, Clear(next) PROVE IInv' /\ Ordered!Next
    BY <2>3, ClearStepIs DEF Ordered!Next
  <2> QED
    BY <1>1, <2>1, <2>2, <2>3 DEF Next
<1>2. CASE UNCHANGED vars
  <2>1. root' = root /\ state' = state /\ cleaned' = cleaned
    BY <1>2 DEF vars
  <2>2. Members' = Members
    BY <2>1 DEF Members
  <2> QED
    BY <2>1, <2>2 DEF IInv, Ordered!vars
<1> QED
  BY <1>1, <1>2

\* The tree of the set is always a search tree: each node keeps the height and
\* the counts that its subtrees have, its element is between theirs, and they
\* differ by at most one level.  Insertion, removal and the rotations of balance,
\* which change these one link at a time (cset.c), leave it so.
THEOREM SetInvariant == Spec => []IInv
BY InitIs, StepIs, PTL DEF Spec

LEMMA SearchBalanced ==
  ASSUME root \in Search PROVE Balanced
<1> SUFFICES ASSUME NEW n \in Nodes(root)
             PROVE  Deep(n.left) - Deep(n.right) \in -1 .. 1
  BY DEF Balanced
<1>1. n \in Search /\ n # NULL
  BY NodesAre
<1>2. /\ n.left \in Search /\ n.right \in Search
      /\ n.left.height - n.right.height \in -1 .. 1
  BY <1>1, SearchParts
<1>3. Deep(n.left) = n.left.height /\ Deep(n.right) = n.right.height
  BY <1>2, SearchKept DEF Kept
<1> QED
  BY <1>2, <1>3

\* No sequence of insertions and removals leaves the subtrees of a node more than
\* one level apart (balance, from insert_at, remove_at and remove_node), for
\* trees of any number of levels.
THEOREM SetBalanced == Spec => []Balanced
<1>1. IInv => Balanced
  BY SearchBalanced DEF IInv
<1> QED
  BY <1>1, SetInvariant, PTL

LEMMA SearchAnswers ==
  ASSUME root \in Search PROVE AnswersRight
<1>1. Size = Cardinality(Members)
  BY SearchKept DEF Size, Members, Kept
<1>2. ASSUME NEW d \in Data
      PROVE  IF Same(root, d) = {} THEN Lookup(d) = NULL /\ Rank(d) = CSET_ERROR
             ELSE Lookup(d).data \in Same(root, d) /\ Rank(d) = Cardinality(Less(root, d))
  <2>1. Lookup(d) = LookupIn(root, d) /\ Rank(d) = RankIn(root, d, 0)
    BY LookupOf, RankOf
  <2>2. IF Same(root, d) = {} THEN LookupIn(root, d) = NULL
        ELSE LookupIn(root, d).data \in Same(root, d)
    BY LookupIs
  <2>3. RankIn(root, d, 0) = IF Same(root, d) = {} THEN CSET_ERROR
                             ELSE 0 + Cardinality(Less(root, d))
    BY RankIs
  <2>4. Cardinality(Less(root, d)) \in Nat
    <3>1. IsFiniteSet(Elements(root)) /\ Less(root, d) \subseteq Elements(root)
      BY ElementsAre DEF Search, Less
    <3> QED
      BY <3>1, FS_Subset, FS_CardinalityType
  <2>5. 0 + Cardinality(Less(root, d)) = Cardinality(Less(root, d))
    BY <2>4
  <2> QED
    BY <2>1, <2>2, <2>3, <2>5
<1> QED
  BY <1>1, <1>2 DEF AnswersRight, Same, Less, Members

\* set_lookup finds an equivalent element if there is one and only then, set_rank
\* is the number of the members that are less, or CSET_ERROR, and set_size is the
\* number of members: the order of the tree and the counts kept in its nodes
\* agree with the members after any calls.
THEOREM SetAnswersRight == Spec => []AnswersRight
<1>1. IInv => AnswersRight
  BY SearchAnswers DEF IInv
<1> QED
  BY <1>1, SetInvariant, PTL

\* The tree with its rotations implements the set that cset.h promises: each
\* insertion, removal and clearing of it is one of the set's, with every element
\* that goes cleaned up once, but for an insertion without memory, which loses all.
THEOREM SetImplementsOrdered == Spec => ImplementsSet
<1>1. Init => Ordered!Init
  BY InitIs
<1>2. IInv /\ [Next]_vars => [Ordered!Next]_(Ordered!vars)
  BY StepIs
<1> QED
  BY <1>1, <1>2, SetInvariant, PTL DEF Spec, ImplementsSet, Ordered!Spec
=============================================================================
