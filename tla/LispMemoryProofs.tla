-------------------------- MODULE LispMemoryProofs --------------------------
(***************************************************************************)
(* Proofs about LispMemory, for any number of objects, any size of trees   *)
(* and any depth of nesting.                                               *)
(***************************************************************************)
EXTENDS LispMemory, TLAPS, SequenceTheorems, WellFoundedInduction

\* The links of the global environment belong to it and each binds a value.
\* They form a chain of their own: none is part of a value.
Links ==
  InUse => /\ Global.links \subseteq Owned
           /\ \A l \in Global.links :
                /\ slot[l] \in kids[l]
                /\ l # Global.root => \E k \in Global.links : l \in kids[k] \ {slot[k]}

\* The set O of objects with pointers e is a tree with root r.
Tree(O, e, r) ==
  /\ r \in O
  /\ Closed(O, e)
  /\ Disjoint(O, e)
  /\ \A a \in O : r \notin e[a]
  /\ \A S \in SUBSET O : r \in S /\ Closed(S, e) => S = O

EnvInv == EnvHeld /\ EnvIsTree /\ NothingLost /\ Links

\* No pointer of an allocated object leads to one that a collection freed: only
\* to what is allocated, or was overwritten since the last collection.
HeldInv ==
  InUse => /\ \A a \in live : kids[a] \subseteq Held
           /\ Closed(untracked, kids)
           /\ \A i \in 1 .. Depth : scopes[i].root \in Tracked \cup {Global.root}

\* The inductive invariant.
IInv ==
  /\ TypeOK /\ NoFault /\ EnvInv /\ RecordedOnce /\ MarkStaysInEnv /\ AllFreed
  /\ HeldInv /\ ReadsOnlyOverwritten
-----------------------------------------------------------------------------
\* Below(v, e) is the least closed set that contains v.
LEMMA BelowLeast ==
  ASSUME NEW v \in Addr, NEW e \in [Addr -> SUBSET Addr]
  PROVE  /\ Below(v, e) \subseteq Addr
         /\ v \in Below(v, e)
         /\ Closed(Below(v, e), e)
         /\ \A S \in SUBSET Addr : v \in S /\ Closed(S, e) => Below(v, e) \subseteq S
BY DEF Below, Closed

\* What hangs from one pointer of a tree is reached by no other pointer from
\* outside it: freeing it leaves no pointer but that one behind.
LEMMA CutTree ==
  ASSUME NEW e \in [Addr -> SUBSET Addr], NEW O \in SUBSET Addr, NEW r,
         Tree(O, e, r), NEW s \in O, NEW v \in e[s]
  PROVE  /\ Below(v, e) \subseteq O
         /\ v \in Below(v, e)
         /\ s \notin Below(v, e)
         /\ r \notin Below(v, e)
         /\ \A a \in O \ Below(v, e) : a # s => e[a] \cap Below(v, e) = {}
         /\ e[s] \cap Below(v, e) = {v}
<1> USE DEF Tree
<1> DEFINE D == Below(v, e)
<1>0. v \in Addr /\ v \in O
  BY DEF Closed
<1>1. D \subseteq O /\ v \in D /\ Closed(D, e)
  BY <1>0, BelowLeast
<1>2. \A b \in D : b # v => \E a \in D : b \in e[a]
  <2> SUFFICES ASSUME NEW b \in D, b # v, \A a \in D : b \notin e[a]
               PROVE  FALSE
    OBVIOUS
  <2>1. v \in D \ {b} /\ Closed(D \ {b}, e)
    BY <1>1 DEF Closed
  <2>2. D \subseteq D \ {b}
    BY <2>1, <1>0, <1>1, BelowLeast
  <2> QED
    BY <2>2
<1>3. r \notin D
  BY <1>1, <1>2
<1>4. \A a \in O \ D : a # s => e[a] \cap D = {}
  BY <1>1, <1>2 DEF Disjoint
<1>5. s \notin D
  <2> SUFFICES ASSUME s \in D PROVE FALSE
    OBVIOUS
  <2>1. Closed(O \ D, e)
    BY <1>4 DEF Closed
  <2>2. O \ D = O
    BY <2>1, <1>3
  <2> QED
    BY <2>2, <1>1
<1>6. e[s] \cap D = {v}
  BY <1>1, <1>2, <1>5 DEF Disjoint
<1> QED
  BY <1>1, <1>3, <1>4, <1>5, <1>6

\* A tree stays a tree when one of its subtrees is replaced by a new one.
LEMMA Regraft ==
  ASSUME NEW e \in [Addr -> SUBSET Addr], NEW O \in SUBSET Addr, NEW r,
         Tree(O, e, r), NEW s \in O, NEW v \in e[s],
         NEW N \in SUBSET Addr, NEW t, NEW q, Tree(N, t, q), N \cap O = {},
         NEW f,
         \A a \in N : f[a] = t[a],
         f[s] = (e[s] \ {v}) \cup {q},
         \A a \in O \ Below(v, e) : a # s => f[a] = e[a]
  PROVE  Tree((O \ Below(v, e)) \cup N, f, r)
<1> DEFINE D == Below(v, e)
           P == (O \ D) \cup N
<1>1. D \subseteq O /\ v \in D /\ s \notin D /\ r \notin D
  BY CutTree
<1>2. \A a \in O \ D : a # s => e[a] \cap D = {}
  BY CutTree
<1>3. e[s] \cap D = {v}
  BY CutTree
<1>4. Closed(D, e)
  BY BelowLeast DEF Tree, Closed
<1>5. r \in P /\ q \in N
  BY <1>1 DEF Tree
<1>6. \A a \in O \ D : f[a] \subseteq (O \ D) \cup {q}
  BY <1>1, <1>2, <1>3 DEF Tree, Closed
<1>7. \A a \in N : f[a] \subseteq N \ {q}
  BY DEF Tree, Closed
<1>8. Closed(P, f)
  BY <1>5, <1>6, <1>7 DEF Closed
<1>9. Disjoint(P, f)
  <2>1. ASSUME NEW a \in N, NEW b \in N, a # b PROVE f[a] \cap f[b] = {}
    BY <2>1 DEF Tree, Disjoint
  <2>2. ASSUME NEW a \in N, NEW b \in O \ D PROVE f[a] \cap f[b] = {}
    BY <1>6, <1>7
  <2>3. ASSUME NEW a \in O \ D, NEW b \in O \ D, a # b PROVE f[a] \cap f[b] = {}
    <3>1. e[a] \cap e[b] = {} /\ q \notin e[a] /\ q \notin e[b]
      BY <2>3, <1>5 DEF Tree, Disjoint, Closed
    <3> QED
      BY <2>3, <3>1
  <2> QED
    BY <2>1, <2>2, <2>3 DEF Disjoint
<1>10. \A a \in P : r \notin f[a]
  BY <1>1, <1>5, <1>7 DEF Tree
<1>11. ASSUME NEW S \in SUBSET P, r \in S, Closed(S, f)
       PROVE  S = P
  <2> DEFINE T == (S \cap (O \ D)) \cup D
  <2>1. Closed(T, e)
    <3> SUFFICES ASSUME NEW a \in S, a \in O \ D PROVE e[a] \subseteq T
      BY <1>4 DEF Closed
    <3>1. e[a] \subseteq O /\ f[a] \subseteq S
      BY <1>11 DEF Tree, Closed
    <3>2. e[a] \ D \subseteq f[a]
      BY <1>1, <1>3
    <3> QED
      BY <3>1, <3>2
  <2>2. T = O
    BY <2>1, <1>1, <1>11 DEF Tree
  <2>3. O \ D \subseteq S /\ q \in S
    BY <2>2, <1>1, <1>11 DEF Closed
  <2>4. Closed(S \cap N, t)
    BY <1>7, <1>11 DEF Closed
  <2>5. S \cap N = N
    BY <2>3, <2>4, <1>5 DEF Tree
  <2> QED
    BY <2>3, <2>5
<1> QED
  BY <1>5, <1>8, <1>9, <1>10, <1>11 DEF Tree

\* Two trees below a new root are a tree.
LEMMA Join ==
  ASSUME NEW O, NEW e, NEW r, Tree(O, e, r),
         NEW N, NEW t, NEW q, Tree(N, t, q), N \cap O = {},
         NEW m, m \notin O \cup N, NEW f,
         \A a \in O : f[a] = e[a], \A a \in N : f[a] = t[a], f[m] = {q, r}
  PROVE  Tree(O \cup N \cup {m}, f, m)
<1> DEFINE P == O \cup N \cup {m}
<1>1. Closed(P, f) /\ Closed(O, f) /\ Closed(N, f)
  BY DEF Tree, Closed
<1>2. Disjoint(P, f)
  <2>1. ASSUME NEW a \in O, NEW b \in O, a # b PROVE f[a] \cap f[b] = {}
    BY <2>1 DEF Tree, Disjoint
  <2>2. ASSUME NEW a \in N, NEW b \in N, a # b PROVE f[a] \cap f[b] = {}
    BY <2>2 DEF Tree, Disjoint
  <2>3. ASSUME NEW a \in N, NEW b \in O PROVE f[a] \cap f[b] = {}
    BY <1>1 DEF Closed
  <2>4. ASSUME NEW a \in O \cup N PROVE f[a] \cap f[m] = {}
    BY <1>1 DEF Tree, Closed
  <2> QED
    BY <2>1, <2>2, <2>3, <2>4 DEF Disjoint
<1>3. \A a \in P : m \notin f[a]
  BY <1>1 DEF Closed, Tree
<1>4. ASSUME NEW S \in SUBSET P, m \in S, Closed(S, f)
      PROVE  S = P
  <2>1. q \in S \cap N /\ r \in S \cap O
    BY <1>4 DEF Closed, Tree
  <2>2. Closed(S \cap N, t) /\ Closed(S \cap O, e)
    BY <1>1, <1>4 DEF Closed
  <2>3. S \cap N = N /\ S \cap O = O
    BY <2>1, <2>2 DEF Tree
  <2> QED
    BY <1>4, <2>3
<1> QED
  BY <1>1, <1>2, <1>3, <1>4 DEF Tree
-----------------------------------------------------------------------------
(***************************************************************************)
(* Type correctness.                                                       *)
(***************************************************************************)
LEMMA LiveAddr ==
  ASSUME TypeOK
  PROVE  /\ top \in Nat /\ MaxObj \in Nat
         /\ live \subseteq Addr /\ Held \subseteq Addr /\ NULL \notin Addr
         /\ Tracked \subseteq Addr /\ Owned \subseteq live
<1>1. top \in Nat /\ MaxObj \in Nat /\ top <= MaxObj
  BY ConstantsAssumption DEF TypeOK
<1>2. live \subseteq Addr
  BY <1>1 DEF TypeOK, Addr
<1> QED
  BY <1>1, <1>2 DEF Tracked, Owned, NULL, Addr, Held, TypeOK

\* The current scope is a scope, and so is the global one.
LEMMA ScopeType ==
  ASSUME TypeOK
  PROVE  /\ Depth \in Nat \ {0}
         /\ DOMAIN scopes = 1 .. Depth
         /\ \A i \in 1 .. Depth : /\ scopes[i] \in Scopes
                                 /\ scopes[i].root \in Addr
                                 /\ scopes[i].links \subseteq Addr
         /\ Scope.root \in Addr /\ Scope.links \subseteq Addr
         /\ Global.root \in Addr /\ Global.links \subseteq Addr
<1>1. Depth \in Nat \ {0} /\ DOMAIN scopes = 1 .. Depth
  BY DEF TypeOK, Depth
<1>2. \A i \in 1 .. Depth : scopes[i] \in Scopes
  BY <1>1, ElementOfSeq DEF TypeOK, Depth
<1>3. \A i \in 1 .. Depth : /\ scopes[i].root \in Addr
                           /\ scopes[i].links \subseteq Addr
  BY <1>2 DEF Scopes
<1> QED
  BY <1>1, <1>2, <1>3 DEF Scope, Global

LEMMA FreshType ==
  ASSUME TypeOK, NEW n \in Nat, Room(n)
  PROVE  /\ top + n \in 0 .. MaxObj
         /\ Fresh(n) \subseteq Addr
         /\ Fresh(n) \cap live = {}
         /\ live \cup Fresh(n) \subseteq 1 .. (top + n)
         /\ n > 0 => Root(n) \in Fresh(n)
BY ConstantsAssumption DEF TypeOK, Room, Fresh, Root, Addr

LEMMA TreeType ==
  ASSUME NEW n \in Nat, NEW e \in Trees(n)
  PROVE  /\ e \in [Fresh(n) -> SUBSET Fresh(n)]
         /\ Disjoint(Fresh(n), e)
         /\ \A a \in Fresh(n) : Root(n) \notin e[a]
         /\ \A S \in SUBSET Fresh(n) : Root(n) \in S /\ Closed(S, e) => S = Fresh(n)
<1>1. e \in [Fresh(n) -> SUBSET Fresh(n)] /\ Disjoint(Fresh(n), e)
  BY DEF Trees
<1>2. \A S \in SUBSET Fresh(n) : Root(n) \in S /\ Closed(S, e) => S = Fresh(n)
  BY DEF Trees
<1>3. \A a \in Fresh(n) : Root(n) \notin e[a]
  BY DEF Trees, Fresh, Root
<1> QED
  BY <1>1, <1>2, <1>3

LEMMA ParseType ==
  ASSUME TypeOK, NEW n \in 1 .. MaxTree, NEW recorded \in BOOLEAN,
         Parse(n, recorded)
  PROVE  TypeOK'
<1>0. n \in Nat
  BY ConstantsAssumption
<1>1. PICK e \in Trees(n) : Malloc(n, e)
  BY DEF Parse
<1>2. top' \in 0 .. MaxObj /\ live' \subseteq 1 .. top' /\ Fresh(n) \subseteq Addr
  BY <1>0, <1>1, FreshType DEF Parse, Malloc
<1>3. kids' \in [Addr -> SUBSET Addr]
  BY <1>0, <1>1, <1>2, TreeType DEF Malloc, TypeOK
<1> QED
  BY <1>2, <1>3 DEF TypeOK, Parse, GcAdd, Depth

LEMMA NewCellType ==
  ASSUME TypeOK, NEW parts \in Parts, NewCell(parts)
  PROVE  TypeOK'
<1>1. parts \subseteq Addr
  BY LiveAddr DEF Parts
<1>2. top' \in 0 .. MaxObj /\ live' \subseteq 1 .. top' /\ Fresh(1) \subseteq Addr
  BY FreshType DEF NewCell, Malloc
<1>3. kids' \in [Addr -> SUBSET Addr]
  BY <1>1, <1>2 DEF NewCell, Malloc, TypeOK
<1> QED
  BY <1>2, <1>3 DEF TypeOK, NewCell, GcAdd, Depth

LEMMA NewTreeType ==
  ASSUME TypeOK, NEW n \in 1 .. MaxTree, NewTree(n)
  PROVE  TypeOK'
<1>0. n \in Nat
  BY ConstantsAssumption
<1>1. PICK e \in Trees(n) : Malloc(n, e)
  BY DEF NewTree
<1>2. top' \in 0 .. MaxObj /\ live' \subseteq 1 .. top' /\ Fresh(n) \subseteq Addr
  BY <1>0, <1>1, FreshType DEF NewTree, Malloc
<1>3. kids' \in [Addr -> SUBSET Addr]
  BY <1>0, <1>1, <1>2, TreeType DEF Malloc, TypeOK
<1> QED
  BY <1>2, <1>3 DEF TypeOK, NewTree, GcAdd, Depth

LEMMA ApplyType ==
  ASSUME TypeOK, NEW vals \in Seq(Held \cup {NULL}), Apply(vals)
  PROVE  TypeOK'
<1> DEFINE n == Len(vals)
<1>0. n \in Nat /\ Scope.root \in Addr
  BY ScopeType
<1>1. top' \in 0 .. MaxObj /\ live' \subseteq 1 .. top' /\ Fresh(n) \subseteq Addr
  BY <1>0, FreshType DEF Apply, Malloc
<1>2. \A a \in Fresh(n) : vals[a - top] \in Addr \cup {NULL}
  <2> SUFFICES ASSUME NEW a \in Fresh(n) PROVE vals[a - top] \in Addr \cup {NULL}
    OBVIOUS
  <2>1. a - top \in 1 .. n
    BY <1>0 DEF Fresh, TypeOK
  <2>2. vals[a - top] \in Held \cup {NULL}
    BY <2>1, <1>0
  <2> QED
    BY <2>2, LiveAddr
<1>3. \A a \in Fresh(n) : (IF a = top + 1 THEN Scope.root ELSE a - 1) \in Addr
  BY <1>0, <1>1, LiveAddr DEF Fresh, Addr
<1>4. kids' \in [Addr -> SUBSET Addr]
  <2>1. \A a \in Fresh(n) :
          {vals[a - top], IF a = top + 1 THEN Scope.root ELSE a - 1} \ {NULL} \subseteq Addr
    BY <1>2, <1>3
  <2> QED
    BY <2>1 DEF Apply, Malloc, TypeOK
<1>5. slot' \in [Addr -> Addr \cup {NULL}]
  BY <1>2 DEF Apply, TypeOK
<1>6. scopes' \in Seq(Scopes) /\ Depth' >= 1
  <2>1. [root  |-> IF n = 0 THEN Scope.root ELSE Root(n), links |-> Fresh(n)]
          \in Scopes
    BY <1>0, <1>1, FreshType DEF Apply, Root, Fresh, Scopes
  <2> QED
    BY <2>1, <1>0 DEF Apply, TypeOK, Depth
<1> QED
  BY <1>1, <1>4, <1>5, <1>6 DEF TypeOK, Apply, GcAdd

LEMMA ReturnType ==
  ASSUME TypeOK, Return
  PROVE  TypeOK'
<1>1. Depth - 1 \in 1 .. Depth /\ Depth \in Nat
  BY ScopeType DEF Return
<1>2. scopes' = SubSeq(scopes, 1, Depth - 1) /\ Depth - 1 >= 1
  BY <1>1 DEF Return
<1>3. \A i \in 1 .. Depth - 1 : scopes[i] \in Scopes
  BY <1>1, ScopeType
<1>4. scopes' \in Seq(Scopes) /\ Len(scopes') = Depth - 1
  BY <1>1, <1>2, <1>3, SubSeqProperties
<1> QED
  BY <1>1, <1>2, <1>4 DEF TypeOK, Return, heapVars, Depth

LEMMA SetNewType ==
  ASSUME TypeOK, NEW w \in Held, NEW n \in 1 .. MaxTree, SetNew(w, n)
  PROVE  TypeOK'
<1> DEFINE link == top + n + 1
<1>0. n \in Nat /\ n + 1 \in Nat /\ Scope.root \in Addr /\ Scope.links \subseteq Addr
  BY ConstantsAssumption, ScopeType
<1>1. /\ top' \in 0 .. MaxObj
      /\ live' \subseteq 1 .. top'
      /\ link \in Addr /\ Root(n) \in Addr /\ Fresh(n) \subseteq Addr
  <2>1. /\ top + (n + 1) <= MaxObj
        /\ live \subseteq 1 .. top
        /\ live' = live \cup Fresh(n + 1) /\ top' = top + n + 1
    BY DEF SetNew, Room, TypeOK
  <2>2. top \in Nat /\ n \in Nat \ {0} /\ MaxObj \in Nat
    BY <1>0, LiveAddr
  <2>3. live' \subseteq 1 .. top' /\ top' \in 0 .. MaxObj
    BY <2>1, <2>2 DEF Fresh
  <2> QED
    BY <2>1, <2>2, <2>3 DEF Fresh, Root, Addr
<1>2. PICK e \in Trees(n) :
        kids' = [b \in Addr |-> IF b \in Fresh(n) THEN e[b]
                                ELSE IF b = link THEN {Root(n), Scope.root}
                                ELSE kids[b]]
  BY DEF SetNew
<1>3. kids' \in [Addr -> SUBSET Addr]
  BY <1>0, <1>1, <1>2, TreeType DEF TypeOK
<1>4. slot' \in [Addr -> Addr \cup {NULL}]
  BY <1>1 DEF SetNew, TypeOK
<1>5. scopes' \in Seq(Scopes) /\ Depth' >= 1
  <2>1. [root |-> link, links |-> Scope.links \cup {link}]
          \in Scopes
    BY <1>0, <1>1 DEF Scopes
  <2>2. scopes' = [scopes EXCEPT ![Depth] = [root |-> link,
                                             links |-> Scope.links \cup {link}]]
    BY DEF SetNew, Scope
  <2> QED
    BY <2>1, <2>2 DEF TypeOK, Depth
<1> QED
  BY <1>1, <1>3, <1>4, <1>5 DEF TypeOK, SetNew

\* The links of a scope of the stack are objects, and what dispose_recursive
\* visits is a set of objects.
LEMMA OverwriteType ==
  ASSUME TypeOK, NEW i \in DOMAIN scopes, NEW l \in Addr, NEW w \in Held,
         NEW n \in 1 .. MaxTree, SetOverwrite(i, l, w, n)
  PROVE  TypeOK'
<1> DEFINE v == slot[l]
           D == IF v = NULL THEN {} ELSE Below(v, kids)
<1>0. n \in Nat /\ n > 0
  BY ConstantsAssumption
<1>1. D \subseteq Addr
  BY BelowLeast DEF TypeOK
<1>2. /\ top' \in 0 .. MaxObj
      /\ live' \subseteq 1 .. top'
      /\ Root(n) \in Addr /\ Fresh(n) \subseteq Addr
  <2>1. top' = top + n /\ live' \subseteq live \cup Fresh(n) /\ Room(n)
    BY DEF SetOverwrite, Root
  <2> QED
    BY <2>1, <1>0, FreshType
<1>3. PICK e \in Trees(n) :
        kids' = [b \in Addr |-> IF b \in Fresh(n) THEN e[b]
                                ELSE IF b \in D THEN {}
                                ELSE IF b = l THEN (kids[l] \ {v}) \cup {Root(n)}
                                ELSE kids[b]]
  BY DEF SetOverwrite
<1>4. kids' \in [Addr -> SUBSET Addr]
  BY <1>0, <1>2, <1>3, TreeType DEF TypeOK
<1>5. slot' \in [Addr -> Addr \cup {NULL}]
  BY <1>2 DEF SetOverwrite, TypeOK
<1> QED
  BY <1>1, <1>2, <1>4, <1>5 DEF TypeOK, SetOverwrite, FreeFault, Depth

LEMMA CollectorType ==
  ASSUME TypeOK, Collector \/ Abandon \/ Dispose
  PROVE  TypeOK'
<1>1. CASE Reset
  BY <1>1, ScopeType DEF TypeOK, Reset, FreeFault, heapVars, Depth
<1>2. ASSUME NEW o \in Addr, Mark(o) PROVE TypeOK'
  BY <1>2 DEF TypeOK, Mark, FreeFault, heapVars, Depth
<1>3. CASE Sweep
  BY <1>3 DEF TypeOK, Sweep, FreeFault, Depth
<1>4. CASE Abandon
  BY <1>4 DEF TypeOK, Abandon, heapVars, Depth
<1>5. CASE Dispose
  BY <1>5 DEF TypeOK, Dispose, FreeFault, Depth
<1> QED
  BY <1>1, <1>2, <1>3, <1>4, <1>5 DEF Collector

LEMMA InitType == Init => TypeOK
<1> SUFFICES ASSUME Init PROVE TypeOK
  OBVIOUS
<1>1. top \in 0 .. MaxObj /\ top \in Nat /\ MaxObj \in Nat /\ top \in Addr
  BY ConstantsAssumption DEF Init, Addr
<1>2. \A a \in Addr : a % 2 = 0 => a - 1 \in Addr /\ {a - 1, a - 2} \ {NULL} \subseteq Addr
  BY <1>1 DEF Addr, NULL
<1>3. kids \in [Addr -> SUBSET Addr] /\ slot \in [Addr -> Addr \cup {NULL}]
  BY <1>2 DEF Init
<1>4. scopes \in Seq(Scopes) /\ Depth = 1
  <2>1. [root |-> top, links |-> {a \in 1 .. top : a % 2 = 0}] \in Scopes
    BY <1>1 DEF Scopes, Addr
  <2> QED
    BY <2>1 DEF Init, Depth
<1>5. live \subseteq 1 .. top /\ allocated \in [Addr -> Nat]
  BY DEF Init
<1>6. /\ reachable \subseteq Addr /\ untracked \subseteq Addr /\ todo \subseteq Addr
      /\ pc \in {"read", "eval", "mark", "done"} /\ fault \in {"none", "free", "read"}
      /\ overwritten \subseteq Addr
  BY DEF Init
<1> QED
  BY <1>1, <1>3, <1>4, <1>5, <1>6 DEF TypeOK

\* The type invariant: addresses, pointers and flags stay within the heap.
LEMMA TypeStep == TypeOK /\ [Next]_vars => TypeOK'
<1> SUFFICES ASSUME TypeOK, [Next]_vars PROVE TypeOK'
  OBVIOUS
<1>1. CASE UNCHANGED vars
  BY <1>1 DEF vars, TypeOK, Depth
<1>2. ASSUME NEW n \in 1 .. MaxTree, NEW recorded \in BOOLEAN, Parse(n, recorded)
      PROVE  TypeOK'
  BY <1>2, ParseType
<1>3. ASSUME NEW parts \in Parts, NewCell(parts)
      PROVE  TypeOK'
  BY <1>3, NewCellType
<1>4. ASSUME NEW w \in Held, NEW n \in 1 .. MaxTree, SetNew(w, n)
      PROVE  TypeOK'
  BY <1>4, SetNewType
<1>5. CASE Apply(<<>>) \/ \E v \in Held \cup {NULL} : Apply(<<v>>)
  <2>1. /\ <<>> \in Seq(Held \cup {NULL})
        /\ \A v \in Held \cup {NULL} : <<v>> \in Seq(Held \cup {NULL})
    OBVIOUS
  <2> QED
    BY <1>5, <2>1, ApplyType
<1>6. CASE Return
  BY <1>6, ReturnType
<1>7. ASSUME NEW i \in DOMAIN scopes, NEW l \in Addr, NEW w \in Held,
             NEW n \in 1 .. MaxTree, SetOverwrite(i, l, w, n)
      PROVE  TypeOK'
  BY <1>7, OverwriteType
<1>8. CASE Collector \/ Abandon \/ Dispose
  BY <1>8, CollectorType
<1>9. ASSUME NEW n \in 1 .. MaxTree, NewTree(n) PROVE TypeOK'
  BY <1>9, NewTreeType
<1>10. CASE \E w \in Held : SetReadsFreed(w)
  BY <1>10 DEF TypeOK, SetReadsFreed, heapVars, Depth
<1> QED
  BY <1>1, <1>2, <1>3, <1>4, <1>5, <1>6, <1>7, <1>8, <1>9, <1>10 DEF Next

\* Every object the interpreter names lies within the heap, each pointer
\* leads to an address, and the stack of environments is never empty.
THEOREM TypeCorrect == Spec => []TypeOK
<1>1. TypeOK /\ [Next]_vars => TypeOK'
  BY TypeStep
<1> QED
  BY InitType, <1>1, PTL DEF Spec
-----------------------------------------------------------------------------
(***************************************************************************)
(* The environment is a tree that no step but `set` changes.               *)
(***************************************************************************)
LEMMA EnvIsATree ==
  EnvInv <=> (InUse => Tree(Owned, kids, Global.root)) /\ Links
BY DEF EnvInv, EnvHeld, EnvIsTree, NothingLost, Tree

LEMMA OwnedAddr ==
  ASSUME TypeOK
  PROVE  Owned \in SUBSET Addr /\ kids \in [Addr -> SUBSET Addr]
BY LiveAddr DEF TypeOK

\* A step that leaves the objects of the environment alone keeps it a tree.
LEMMA Untouched ==
  ASSUME EnvInv, InUse, Owned' = Owned, Global' = Global,
         \A a \in Owned : kids'[a] = kids[a] /\ slot'[a] = slot[a]
  PROVE  EnvInv'
<1>1. EnvHeld'
  BY DEF EnvInv, EnvHeld, Closed
<1>2. EnvIsTree'
  BY DEF EnvInv, EnvIsTree, Disjoint
<1>3. NothingLost'
  <2> SUFFICES ASSUME NEW S \in SUBSET Owned, Global.root \in S, Closed(S, kids')
               PROVE  S = Owned
    BY DEF NothingLost
  <2>1. Closed(S, kids)
    BY DEF Closed
  <2> QED
    BY <2>1 DEF EnvInv, NothingLost
<1>4. Links'
  BY DEF EnvInv, Links
<1> QED
  BY <1>1, <1>2, <1>3, <1>4 DEF EnvInv

\* Objects allocated and recorded at once, or left to no one as a parsed
\* expression is, are not objects of the environment.
LEMMA Allocated ==
  ASSUME TypeOK, RecordedOnce, NEW n \in Nat, Room(n), live' = live \cup Fresh(n),
         \/ GcAdd(Fresh(n)) /\ untracked' = untracked
         \/ allocated' = allocated /\ untracked' = untracked \cup Fresh(n)
  PROVE  Owned' = Owned /\ RecordedOnce'
<1>1. /\ Fresh(n) \subseteq Addr /\ Fresh(n) \cap live = {}
      /\ live \subseteq Addr /\ Tracked \subseteq live /\ untracked \subseteq live
  BY FreshType, LiveAddr DEF RecordedOnce
<1>2. CASE GcAdd(Fresh(n)) /\ untracked' = untracked
  <2>1. \A a \in Addr : allocated'[a] = IF a \in Fresh(n) THEN 1 ELSE allocated[a]
    BY <1>1, <1>2 DEF GcAdd, Tracked, TypeOK
  <2>2. Tracked' = Tracked \cup Fresh(n)
    BY <1>1, <2>1 DEF Tracked
  <2>3. Owned' = Owned
    BY <1>1, <1>2, <2>2 DEF Owned
  <2> QED
    BY <1>1, <1>2, <2>1, <2>2, <2>3 DEF RecordedOnce
<1>3. CASE allocated' = allocated /\ untracked' = untracked \cup Fresh(n)
  <2>1. Tracked' = Tracked
    BY <1>3 DEF Tracked
  <2>2. Owned' = Owned
    BY <1>1, <1>3, <2>1 DEF Owned
  <2> QED
    BY <1>1, <1>3, <2>1, <2>2 DEF RecordedOnce
<1> QED
  BY <1>2, <1>3

\* What a step must do, besides keeping the type invariant.
Kept == NoFault' /\ EnvInv' /\ RecordedOnce' /\ MarkStaysInEnv' /\ AllFreed'

\* Reading an expression and every allocation of an evaluation leave the
\* environment alone.
LEMMA AllocationSteps ==
  ASSUME IInv, NEW n \in Nat, Room(n), pc \in {"read", "eval"}, pc' = "eval",
         live' = live \cup Fresh(n),
         \/ GcAdd(Fresh(n)) /\ untracked' = untracked
         \/ allocated' = allocated /\ untracked' = untracked \cup Fresh(n),
         Global' = Global, fault' = fault,
         \A a \in Addr \ Fresh(n) : kids'[a] = kids[a] /\ slot'[a] = slot[a]
  PROVE  Kept
<1>1. Owned' = Owned /\ RecordedOnce'
  BY Allocated DEF IInv
<1>2. \A a \in Owned : kids'[a] = kids[a] /\ slot'[a] = slot[a]
  BY LiveAddr, FreshType DEF IInv
<1>3. EnvInv'
  BY <1>1, <1>2, Untouched DEF IInv, InUse
<1> QED
  BY <1>1, <1>3 DEF Kept, IInv, NoFault, MarkStaysInEnv, AllFreed

LEMMA ParseKeeps ==
  ASSUME IInv, NEW n \in 1 .. MaxTree, NEW recorded \in BOOLEAN, Parse(n, recorded)
  PROVE  Kept
<1>1. n \in Nat /\ Room(n) /\ pc = "read" /\ pc' = "eval"
  BY ConstantsAssumption DEF Parse
<1>2. /\ live' = live \cup Fresh(n)
      /\ \A a \in Addr \ Fresh(n) : kids'[a] = kids[a] /\ slot'[a] = slot[a]
  BY DEF Parse, Malloc
<1>3. \/ GcAdd(Fresh(n)) /\ untracked' = untracked
      \/ allocated' = allocated /\ untracked' = untracked \cup Fresh(n)
  BY DEF Parse
<1>4. Global' = Global /\ fault' = fault
  BY DEF Parse, Global
<1> QED
  BY <1>1, <1>2, <1>3, <1>4, AllocationSteps

LEMMA NewCellKeeps ==
  ASSUME IInv, NEW parts, NewCell(parts)
  PROVE  Kept
<1>1. 1 \in Nat /\ Room(1) /\ pc = "eval" /\ pc' = "eval"
  BY DEF NewCell, Running
<1>2. /\ live' = live \cup Fresh(1)
      /\ \A a \in Addr \ Fresh(1) : kids'[a] = kids[a] /\ slot'[a] = slot[a]
  BY DEF NewCell, Malloc
<1>3. GcAdd(Fresh(1)) /\ untracked' = untracked
  BY DEF NewCell
<1>4. Global' = Global /\ fault' = fault
  BY DEF NewCell, Global
<1> QED
  BY <1>1, <1>2, <1>3, <1>4, AllocationSteps

LEMMA NewTreeKeeps ==
  ASSUME IInv, NEW n \in 1 .. MaxTree, NewTree(n)
  PROVE  Kept
<1>1. n \in Nat /\ Room(n) /\ pc = "eval" /\ pc' = "eval"
  BY ConstantsAssumption DEF NewTree, Running
<1>2. /\ live' = live \cup Fresh(n)
      /\ \A a \in Addr \ Fresh(n) : kids'[a] = kids[a] /\ slot'[a] = slot[a]
  BY DEF NewTree, Malloc
<1>3. GcAdd(Fresh(n)) /\ untracked' = untracked
  BY DEF NewTree
<1>4. Global' = Global /\ fault' = fault
  BY DEF NewTree, Global
<1> QED
  BY <1>1, <1>2, <1>3, <1>4, AllocationSteps

\* A frame goes on top of the stack: the global environment stays below it.
LEMMA ApplyKeeps ==
  ASSUME IInv, NEW vals \in Seq(Held \cup {NULL}), Apply(vals)
  PROVE  Kept
<1> DEFINE n == Len(vals)
<1>1. n \in Nat /\ Room(n) /\ pc = "eval" /\ pc' = "eval"
  BY DEF Apply, Running
<1>2. /\ live' = live \cup Fresh(n)
      /\ \A a \in Addr \ Fresh(n) : kids'[a] = kids[a] /\ slot'[a] = slot[a]
  BY DEF Apply, Malloc
<1>3. GcAdd(Fresh(n)) /\ untracked' = untracked
  BY DEF Apply
<1>4. Global' = Global /\ fault' = fault
  BY ScopeType DEF Apply, Global, IInv, TypeOK, Depth
<1> QED
  BY <1>1, <1>2, <1>3, <1>4, AllocationSteps

LEMMA ReturnKeeps ==
  ASSUME IInv, Return \/ Abandon
  PROVE  Kept
<1>1. Global' = Global
  <2>1. CASE Return
    <3>1. Depth - 1 \in 1 .. Depth /\ Depth \in Nat
      BY <2>1, ScopeType DEF Return, IInv
    <3>2. \A i \in 1 .. Depth - 1 : scopes[i] \in Scopes
      BY <3>1, ScopeType DEF IInv
    <3>3. scopes' = SubSeq(scopes, 1, Depth - 1)
      BY <2>1 DEF Return
    <3> QED
      BY <3>1, <3>2, <3>3, SubSeqProperties DEF Global
  <2>2. CASE Abandon
    BY <2>2 DEF Abandon, Global
  <2> QED
    BY <2>1, <2>2
<1>2. /\ live' = live /\ kids' = kids /\ slot' = slot /\ allocated' = allocated
      /\ untracked' = untracked /\ fault' = fault
      /\ pc = "eval" /\ pc' \in {"read", "eval"}
  BY DEF Return, Abandon, Running, heapVars
<1>3. Owned' = Owned /\ Tracked' = Tracked
  BY <1>2 DEF Owned, Tracked
<1>4. EnvInv'
  BY <1>1, <1>2, <1>3, Untouched DEF IInv, InUse
<1> QED
  BY <1>2, <1>3, <1>4 DEF Kept, IInv, NoFault, RecordedOnce, MarkStaysInEnv, AllFreed
-----------------------------------------------------------------------------
(***************************************************************************)
(* `set` and the collector.                                                *)
(***************************************************************************)
\* Reading a freed object changes nothing that the collector relies on.
LEMMA ReadsFreedKeeps ==
  ASSUME IInv, NEW w \in Held, SetReadsFreed(w)
  PROVE  Kept
<1>1. /\ live' = live /\ kids' = kids /\ slot' = slot /\ allocated' = allocated
      /\ untracked' = untracked /\ scopes' = scopes /\ pc = "eval" /\ pc' = "eval"
      /\ fault' = "read"
  BY DEF SetReadsFreed, Running, heapVars
<1>2. Owned' = Owned /\ Tracked' = Tracked /\ Global' = Global
  BY <1>1 DEF Owned, Tracked, Global
<1>3. EnvInv'
  BY <1>1, <1>2, Untouched DEF IInv, InUse
<1> QED
  BY <1>1, <1>2, <1>3 DEF Kept, IInv, NoFault, RecordedOnce, MarkStaysInEnv, AllFreed

\* A new global binding is grafted on top of the environment.
LEMMA SetNewKeeps ==
  ASSUME IInv, ~ LocalSet, NEW w \in Held, NEW n \in 1 .. MaxTree, SetNew(w, n)
  PROVE  Kept
<1> DEFINE link == top + n + 1
           N == Fresh(n)
<1>1. /\ n \in Nat /\ n > 0 /\ TypeOK /\ EnvInv /\ InUse /\ Depth = 1
      /\ Scope = Global
  BY ConstantsAssumption DEF IInv, SetNew, Running, InUse, Scope, Global
<1>2. /\ top \in Nat /\ MaxObj \in Nat /\ top + (n + 1) <= MaxObj /\ live \subseteq 1 .. top
      /\ live' = live \cup Fresh(n + 1)
  BY <1>1, LiveAddr DEF SetNew, Room, TypeOK
<1>3. /\ N \subseteq Addr /\ link \in Addr /\ link \notin N
      /\ Fresh(n + 1) = N \cup {link} /\ Fresh(n + 1) \cap live = {}
      /\ Root(n) \in N
  BY <1>1, <1>2 DEF Fresh, Addr, Root
<1>4. PICK e \in Trees(n) :
        kids' = [b \in Addr |-> IF b \in N THEN e[b]
                                ELSE IF b = link THEN {Root(n), Scope.root}
                                ELSE kids[b]]
  BY DEF SetNew
<1>5. Tracked' = Tracked /\ Owned' = Owned \cup Fresh(n + 1)
  <2>1. Tracked' = Tracked /\ untracked' = untracked
    BY DEF SetNew, Tracked
  <2> QED
    BY <2>1, <1>2, <1>3 DEF Owned, IInv, RecordedOnce
<1>6. Tree(N, e, Root(n))
  BY <1>1, <1>3, TreeType DEF Tree, Closed
<1>7. Tree(Owned \cup N \cup {link}, kids', link)
  <2>1. Tree(Owned, kids, Global.root)
    BY <1>1, EnvIsATree
  <2>2. Owned \cap N = {} /\ link \notin Owned \cup N /\ Owned \subseteq Addr
    BY <1>1, <1>3, LiveAddr
  <2>3. /\ \A a \in Owned : kids'[a] = kids[a]
        /\ \A a \in N : kids'[a] = e[a]
        /\ kids'[link] = {Root(n), Global.root}
    BY <1>1, <1>3, <1>4, <2>2
  <2> QED
    BY <1>6, <2>1, <2>2, <2>3, Join
<1>8. Global'.root = link /\ Global'.links = Global.links \cup {link}
  BY <1>1, ScopeType DEF SetNew, Global
<1>9. Links'
  <2>1. \A l \in Global.links : l \in Owned /\ slot'[l] = slot[l] /\ kids'[l] = kids[l]
    <3>1. Global.links \subseteq Owned /\ Owned \subseteq live /\ Owned \subseteq Addr
      BY <1>1, LiveAddr DEF EnvInv, Links
    <3>2. slot' = [slot EXCEPT ![link] = Root(n)]
      BY DEF SetNew
    <3> QED
      BY <3>1, <3>2, <1>1, <1>3, <1>4 DEF TypeOK
  <2>2. slot'[link] = Root(n) /\ kids'[link] = {Root(n), Global.root}
    BY <1>1, <1>3, <1>4 DEF SetNew, TypeOK
  <2>3. Global.root \in kids'[link] \ {slot'[link]}
    BY <2>2, <1>1, <1>3 DEF EnvInv, EnvHeld, Owned
  <2> QED
    BY <2>1, <2>2, <2>3, <1>1, <1>3, <1>5, <1>8 DEF EnvInv, Links
<1>10. EnvInv'
  <2>1. Tree(Owned', kids', Global'.root)
    BY <1>3, <1>5, <1>7, <1>8
  <2>2. EnvHeld' /\ EnvIsTree' /\ NothingLost'
    BY <2>1 DEF Tree, EnvHeld, EnvIsTree, NothingLost
  <2> QED
    BY <2>2, <1>9 DEF EnvInv
<1>11. RecordedOnce'
  BY <1>2, <1>5 DEF IInv, RecordedOnce, SetNew
<1> QED
  BY <1>10, <1>11 DEF Kept, IInv, NoFault, MarkStaysInEnv, AllFreed, SetNew, Running

\* Overwriting a global variable frees the old value, whole, once, and nothing
\* that is still in use.
LEMMA OverwriteKeeps ==
  ASSUME IInv, ~ LocalSet,
         NEW i \in DOMAIN scopes, NEW l \in Addr, NEW w \in Held,
         NEW n \in 1 .. MaxTree, SetOverwrite(i, l, w, n)
  PROVE  Kept
<1> DEFINE v == slot[l]
           D == Below(v, kids)
           N == Fresh(n)
<1>1. /\ n \in Nat /\ n > 0 /\ TypeOK /\ EnvInv /\ InUse /\ Room(n) /\ i = 1
      /\ l \in Global.links
  BY ConstantsAssumption DEF IInv, SetOverwrite, Running, InUse, Global
<1>2. l \in Owned /\ v \in kids[l] /\ v \in Addr /\ v # NULL
  BY <1>1, LiveAddr, OwnedAddr DEF EnvInv, Links
<1>3. Tree(Owned, kids, Global.root)
  BY <1>1, EnvIsATree
<1>4. /\ N \subseteq Addr /\ N \cap live = {} /\ N \cap Owned = {} /\ Root(n) \in N
      /\ Owned \in SUBSET Addr /\ kids \in [Addr -> SUBSET Addr]
  BY <1>1, FreshType, LiveAddr, OwnedAddr
<1>5. /\ D \subseteq Owned /\ v \in D /\ l \notin D /\ Global.root \notin D
      /\ \A a \in Owned \ D : a # l => kids[a] \cap D = {}
  BY <1>2, <1>3, <1>4, CutTree
<1>6. PICK e \in Trees(n) :
        kids' = [b \in Addr |-> IF b \in N THEN e[b]
                                ELSE IF b \in D THEN {}
                                ELSE IF b = l THEN (kids[l] \ {v}) \cup {Root(n)}
                                ELSE kids[b]]
  BY <1>2 DEF SetOverwrite
<1>7. /\ live' = (live \ D) \cup N
      /\ FreeFault(~ (D \subseteq live /\ Disjoint(D, kids)))
  BY <1>2 DEF SetOverwrite
<1>8. Tracked' = Tracked /\ Owned' = (Owned \ D) \cup N
  <2>1. Tracked' = Tracked /\ untracked' = untracked
    BY DEF SetOverwrite, Tracked
  <2> QED
    BY <2>1, <1>4, <1>7 DEF Owned, IInv, RecordedOnce
<1>9. NoFault'
  BY <1>3, <1>5, <1>7, LiveAddr DEF NoFault, FreeFault, Tree, Disjoint, IInv
<1>10. Global' = Global
  BY DEF SetOverwrite, Global
<1>11. Tree(Owned', kids', Global.root)
  <2>1. Tree(N, e, Root(n))
    BY <1>1, <1>4, TreeType DEF Tree, Closed
  <2>2. /\ \A a \in N : kids'[a] = e[a]
        /\ kids'[l] = (kids[l] \ {v}) \cup {Root(n)}
        /\ \A a \in Owned \ D : a # l => kids'[a] = kids[a]
    BY <1>2, <1>4, <1>5, <1>6
  <2> QED
    BY <1>2, <1>3, <1>4, <1>8, <2>1, <2>2, Regraft
<1>12. Links'
  <2>1. Global.links \cap D = {}
    <3>1. v \in D \ Global.links
      BY <1>1, <1>2, <1>3, <1>5 DEF EnvInv, Links, Tree, Disjoint
    <3>2. ASSUME NEW a \in D, a \notin Global.links, NEW b \in kids[a], b \in Global.links
          PROVE  FALSE
      <4>1. b # Global.root
        BY <1>3, <1>5, <3>2 DEF Tree
      <4>2. PICK k \in Global.links : b \in kids[k]
        BY <1>1, <3>2, <4>1 DEF EnvInv, Links
      <4> QED
        BY <1>1, <1>3, <1>5, <3>2, <4>2 DEF EnvInv, Links, Tree, Disjoint
    <3>3. Closed(D \ Global.links, kids)
      BY <1>2, <1>4, <3>2, BelowLeast DEF Closed
    <3>4. D \subseteq D \ Global.links
      BY <1>2, <1>4, <1>5, <3>1, <3>3, BelowLeast
    <3> QED
      BY <3>4
  <2>2. \A k \in Global.links : k \in Owned \ D
    BY <2>1, <1>1 DEF EnvInv, Links
  <2>3. \A k \in Global.links \ {l} : slot'[k] = slot[k] /\ kids'[k] = kids[k]
    BY <2>2, <1>4, <1>6 DEF SetOverwrite, IInv, TypeOK
  <2>4. /\ slot'[l] = Root(n)
        /\ kids'[l] = (kids[l] \ {v}) \cup {Root(n)}
        /\ Root(n) \notin kids[l]
    <3>1. slot' = [slot EXCEPT ![l] = Root(n)]
      BY DEF SetOverwrite
    <3>2. Root(n) \notin kids[l]
      BY <1>2, <1>3, <1>4 DEF Tree, Closed
    <3> QED
      BY <3>1, <3>2, <1>1, <1>2, <1>4, <1>5, <1>6 DEF TypeOK
  <2>5. \A k \in Global.links : kids'[k] \ {slot'[k]} = kids[k] \ {slot[k]}
    BY <2>3, <2>4
  <2> QED
    BY <2>2, <2>3, <2>4, <2>5, <1>1, <1>8, <1>10 DEF EnvInv, Links
<1>13. EnvInv'
  <2>1. EnvHeld' /\ EnvIsTree' /\ NothingLost'
    BY <1>10, <1>11 DEF Tree, EnvHeld, EnvIsTree, NothingLost
  <2> QED
    BY <2>1, <1>12 DEF EnvInv
<1>14. RecordedOnce'
  <2>1. Tracked \cap D = {} /\ untracked \cap D = {}
    BY <1>5 DEF Owned
  <2>2. allocated' = allocated /\ untracked' = untracked
    BY DEF SetOverwrite
  <2> QED
    BY <2>1, <2>2, <1>7, <1>8 DEF IInv, RecordedOnce
<1> QED
  BY <1>9, <1>13, <1>14 DEF Kept, MarkStaysInEnv, AllFreed, SetOverwrite, Running

\* The collector frees what is recorded, and never looks beyond the
\* environment.
LEMMA ResetKeeps ==
  ASSUME IInv, Reset
  PROVE  Kept
<1>1. /\ live' = live /\ kids' = kids /\ slot' = slot /\ allocated' = allocated
      /\ untracked' = untracked /\ scopes' = scopes /\ pc = "eval" /\ pc' = "mark"
      /\ reachable' = reachable \ Tracked /\ todo' = {Global.root} /\ Depth = 1
      /\ FreeFault(~ (Tracked \subseteq live))
  BY DEF Reset, Running, heapVars
<1>2. Owned' = Owned /\ Tracked' = Tracked /\ Global' = Global /\ Depth' = Depth
  BY <1>1 DEF Owned, Tracked, Global, Depth
<1>3. EnvInv'
  BY <1>1, <1>2, Untouched DEF IInv, InUse
<1>4. MarkStaysInEnv'
  BY <1>1, <1>2 DEF MarkStaysInEnv, IInv, EnvInv, EnvHeld, InUse
<1> QED
  BY <1>1, <1>2, <1>3, <1>4
  DEF Kept, IInv, NoFault, FreeFault, RecordedOnce, AllFreed

LEMMA MarkKeeps ==
  ASSUME IInv, NEW o \in Addr, Mark(o)
  PROVE  Kept
<1>1. /\ live' = live /\ kids' = kids /\ slot' = slot /\ allocated' = allocated
      /\ untracked' = untracked /\ scopes' = scopes /\ pc = "mark" /\ pc' = "mark"
      /\ todo' \subseteq todo \cup kids[o] /\ o \in todo
      /\ reachable' \subseteq reachable \cup {o}
      /\ FreeFault(o \notin live)
  BY DEF Mark, heapVars
<1>2. Owned' = Owned /\ Tracked' = Tracked /\ Global' = Global /\ Depth' = Depth
  BY <1>1 DEF Owned, Tracked, Global, Depth
<1>3. EnvInv'
  BY <1>1, <1>2, Untouched DEF IInv, InUse
<1>4. o \in Owned /\ kids[o] \subseteq Owned
  BY <1>1 DEF IInv, MarkStaysInEnv, EnvInv, EnvHeld, Closed, InUse
<1>5. MarkStaysInEnv'
  BY <1>1, <1>2, <1>4 DEF MarkStaysInEnv, IInv, Owned
<1> QED
  BY <1>1, <1>2, <1>3, <1>4, <1>5
  DEF Kept, IInv, NoFault, FreeFault, RecordedOnce, AllFreed, Owned

LEMMA SweepKeeps ==
  ASSUME IInv, Sweep
  PROVE  Kept
<1>1. /\ Tracked \ reachable = Tracked
      /\ Tracked \subseteq live /\ \A a \in Addr : allocated[a] <= 1
      /\ untracked \cap Tracked = {} /\ untracked \subseteq live
      /\ pc = "mark"
  BY DEF IInv, MarkStaysInEnv, RecordedOnce, Sweep
<1>2. /\ live' = live \ Tracked
      /\ kids' = [a \in Addr |-> IF a \in Tracked THEN {} ELSE kids[a]]
      /\ slot' = [a \in Addr |-> IF a \in Tracked THEN NULL ELSE slot[a]]
      /\ allocated' = [a \in Addr |-> IF a \in Tracked THEN 0 ELSE allocated[a]]
      /\ FreeFault(\/ ~ (Tracked \subseteq live)
                   \/ \E a \in Tracked : allocated[a] > 1)
      /\ pc' = "read" /\ untracked' = untracked /\ Global' = Global
  BY <1>1 DEF Sweep, Global
<1>3. Tracked' = {}
  BY <1>2 DEF Tracked, IInv, TypeOK
<1>4. Owned' = Owned
  BY <1>1, <1>2, <1>3 DEF Owned
<1>5. \A a \in Owned : kids'[a] = kids[a] /\ slot'[a] = slot[a]
  BY <1>2, LiveAddr DEF Owned, IInv, TypeOK
<1>6. EnvInv'
  BY <1>1, <1>2, <1>4, <1>5, Untouched DEF IInv, InUse
<1>7. RecordedOnce'
  BY <1>1, <1>2, <1>3 DEF RecordedOnce
<1>8. NoFault'
  <2>1. \A a \in Tracked : allocated[a] = 1
    BY <1>1 DEF Tracked, IInv, TypeOK
  <2> QED
    BY <2>1, <1>1, <1>2 DEF NoFault, FreeFault
<1> QED
  BY <1>2, <1>6, <1>7, <1>8 DEF Kept, MarkStaysInEnv, AllFreed

\* Disposing of the interpreter frees every object of the environment, once,
\* and every recorded one: the two sets have nothing in common.
LEMMA DisposeKeeps ==
  ASSUME IInv, Dispose
  PROVE  Kept
<1> DEFINE D == Below(Global.root, kids)
<1>1. /\ TypeOK /\ EnvInv /\ InUse /\ pc' = "done" /\ untracked' = untracked
      /\ live' = live \ (Tracked \cup D)
      /\ allocated' = [a \in Addr |-> 0]
      /\ FreeFault(\/ ~ (Tracked \cup D \subseteq live)
                   \/ Tracked \cap D # {}
                   \/ \E a \in Tracked : allocated[a] > 1
                   \/ ~ Disjoint(D, kids))
  BY DEF IInv, Dispose, InUse
<1>2. Tree(Owned, kids, Global.root)
  BY <1>1, EnvIsATree
<1>3. D = Owned
  <2>1. Global.root \in Addr /\ Owned \in SUBSET Addr /\ kids \in [Addr -> SUBSET Addr]
    BY <1>1, ScopeType, OwnedAddr
  <2>2. D \subseteq Owned /\ Closed(D, kids) /\ Global.root \in D
    BY <2>1, <1>2, BelowLeast DEF Tree
  <2> QED
    BY <2>2, <1>2 DEF Tree
<1>4. /\ Tracked \subseteq live /\ \A a \in Tracked : allocated[a] = 1
      /\ untracked \subseteq live \ Tracked
  BY DEF IInv, RecordedOnce, Tracked, TypeOK
<1>5. NoFault'
  BY <1>1, <1>2, <1>3, <1>4 DEF NoFault, FreeFault, Owned, Tree
<1>6. live' = untracked'
  BY <1>1, <1>3, <1>4 DEF Owned
<1>7. RecordedOnce'
  BY <1>1, <1>6 DEF RecordedOnce, Tracked
<1>8. EnvInv'
  BY <1>1 DEF EnvInv, EnvHeld, EnvIsTree, NothingLost, Links, InUse
<1> QED
  BY <1>1, <1>5, <1>6, <1>7, <1>8 DEF Kept, MarkStaysInEnv, AllFreed
-----------------------------------------------------------------------------
(***************************************************************************)
(* What an evaluation can reach: nothing that a collection has freed.      *)
(***************************************************************************)
\* Where nothing was overwritten, all that is below an object held is
\* allocated.
LEMMA HeldIntact ==
  ASSUME TypeOK, HeldInv, InUse, overwritten = {}, NEW w \in Held
  PROVE  Intact(w)
<1>1. w \in live /\ live \subseteq Addr /\ kids \in [Addr -> SUBSET Addr]
  BY LiveAddr DEF Held, TypeOK
<1>2. Closed(live, kids)
  BY DEF HeldInv, Held, Closed
<1> QED
  BY <1>1, <1>2, BelowLeast DEF Intact

\* An allocation keeps it when the new objects point to what is held.
LEMMA HeldAllocation ==
  ASSUME IInv, NEW n \in Nat, Room(n), pc \in {"read", "eval"}, pc' = "eval",
         live' = live \cup Fresh(n), overwritten' = overwritten, fault' = "none",
         \/ GcAdd(Fresh(n)) /\ untracked' = untracked
         \/ /\ allocated' = allocated /\ untracked' = untracked \cup Fresh(n)
            /\ \A a \in Fresh(n) : kids'[a] \subseteq Fresh(n),
         Global'.root = Global.root, Depth' \in Nat,
         \A i \in 1 .. Depth' : \/ i \in 1 .. Depth /\ scopes'[i].root = scopes[i].root
                               \/ scopes'[i].root \in Tracked' \cup {Global.root},
         \A a \in Addr \ Fresh(n) : kids'[a] = kids[a],
         \A a \in Fresh(n) : kids'[a] \subseteq Held \cup Fresh(n)
  PROVE  HeldInv' /\ ReadsOnlyOverwritten'
<1>1. TypeOK /\ HeldInv /\ InUse /\ RecordedOnce
  BY DEF IInv, InUse
<1>2. /\ live \subseteq Addr /\ Fresh(n) \cap live = {} /\ untracked \subseteq live
      /\ Fresh(n) \subseteq Addr
  BY <1>1, LiveAddr, FreshType DEF RecordedOnce
<1>3. Held' = Held \cup Fresh(n)
  BY DEF Held
<1>4. \A a \in live' : kids'[a] \subseteq Held'
  BY <1>1, <1>2, <1>3 DEF HeldInv
<1>5. Closed(untracked', kids')
  BY <1>1, <1>2 DEF HeldInv, Closed
<1>6. Tracked \subseteq Tracked'
  <2>1. CASE GcAdd(Fresh(n))
    <3>1. \A a \in Addr : allocated'[a] \in {allocated[a], allocated[a] + 1}
      BY <2>1 DEF GcAdd
    <3>2. \A a \in Addr : allocated[a] \in Nat
      BY <1>1 DEF TypeOK
    <3> QED
      BY <3>1, <3>2 DEF Tracked
  <2>2. CASE allocated' = allocated
    BY <2>2 DEF Tracked
  <2> QED
    BY <2>1, <2>2
<1>7. \A i \in 1 .. Depth' : scopes'[i].root \in Tracked' \cup {Global.root}
  BY <1>1, <1>6 DEF HeldInv
<1> QED
  BY <1>4, <1>5, <1>7 DEF HeldInv, ReadsOnlyOverwritten

\* The expression read and every object an evaluation makes.
LEMMA HeldNew ==
  ASSUME IInv, NEW n \in Nat,
         \/ n \in 1 .. MaxTree /\ (NewTree(n) \/ \E r \in BOOLEAN : Parse(n, r))
         \/ n = 1 /\ \E parts \in Parts : NewCell(parts)
  PROVE  HeldInv' /\ ReadsOnlyOverwritten'
<1>1. /\ Room(n) /\ pc \in {"read", "eval"} /\ pc' = "eval"
      /\ live' = live \cup Fresh(n) /\ overwritten' = overwritten /\ fault' = "none"
      /\ scopes' = scopes
  BY DEF NewTree, Parse, NewCell, Malloc, Running, NoFaultYet
<1>2. /\ Global' = Global /\ Depth' = Depth /\ Depth' \in Nat
      /\ \A i \in 1 .. Depth' : i \in 1 .. Depth /\ scopes'[i].root = scopes[i].root
  BY <1>1, ScopeType DEF Global, Depth, IInv
<1>3. Fresh(n) \subseteq Addr
  BY <1>1, FreshType DEF IInv
<1>4. CASE n \in 1 .. MaxTree /\ (NewTree(n) \/ \E r \in BOOLEAN : Parse(n, r))
  <2>1. PICK e \in Trees(n) : Malloc(n, e)
    BY <1>4 DEF NewTree, Parse
  <2>2. /\ \A a \in Addr \ Fresh(n) : kids'[a] = kids[a]
        /\ \A a \in Fresh(n) : kids'[a] \subseteq Fresh(n)
    BY <1>3, <2>1, TreeType DEF Malloc
  <2>3. \/ GcAdd(Fresh(n)) /\ untracked' = untracked
        \/ allocated' = allocated /\ untracked' = untracked \cup Fresh(n)
    BY <1>4 DEF NewTree, Parse
  <2> QED
    BY <1>1, <1>2, <2>2, <2>3, HeldAllocation
<1>5. CASE n = 1 /\ \E parts \in Parts : NewCell(parts)
  <2>1. PICK parts \in Parts : NewCell(parts)
    BY <1>5
  <2>2. /\ \A a \in Addr \ Fresh(n) : kids'[a] = kids[a]
        /\ \A a \in Fresh(n) : kids'[a] = parts
        /\ GcAdd(Fresh(n)) /\ untracked' = untracked
        /\ parts \subseteq Held
    BY <1>3, <1>5, <2>1 DEF NewCell, Malloc, Parts
  <2> QED
    BY <1>1, <1>2, <2>2, HeldAllocation
<1> QED
  BY <1>4, <1>5

\* The frame of an application points to what it binds, to its own links and to
\* the environment before it.
LEMMA HeldApply ==
  ASSUME IInv, NEW vals \in Seq(Held \cup {NULL}), Apply(vals)
  PROVE  HeldInv' /\ ReadsOnlyOverwritten'
<1> DEFINE n == Len(vals)
           frame == [root |-> IF n = 0 THEN Scope.root ELSE Root(n),
                     links |-> Fresh(n)]
<1>1. /\ n \in Nat /\ Room(n) /\ pc = "eval" /\ pc' = "eval"
      /\ live' = live \cup Fresh(n) /\ overwritten' = overwritten /\ fault' = "none"
      /\ GcAdd(Fresh(n)) /\ untracked' = untracked
      /\ scopes' = Append(scopes, frame)
  BY DEF Apply, Malloc, Running, NoFaultYet
<1>2. TypeOK /\ HeldInv /\ InUse /\ RecordedOnce /\ EnvInv
  BY <1>1 DEF IInv, InUse
<1>3. /\ top \in Nat /\ Fresh(n) \subseteq Addr /\ Depth \in Nat \ {0}
      /\ n > 0 => Root(n) \in Fresh(n)
  BY <1>1, <1>2, FreshType, LiveAddr, ScopeType
<1>4. /\ Depth' = Depth + 1
      /\ \A i \in 1 .. Depth : scopes'[i] = scopes[i]
      /\ scopes'[Depth + 1] = frame
  BY <1>1, <1>2, <1>3 DEF TypeOK, Depth
<1>5. Scope.root \in Tracked \cup {Global.root} /\ Global' = Global
  BY <1>2, <1>3, <1>4 DEF HeldInv, Scope, Global
<1>6. Scope.root \in live
  BY <1>2, <1>5 DEF RecordedOnce, EnvInv, EnvHeld, Owned
<1>7. Tracked' = Tracked \cup Fresh(n)
  BY <1>1, <1>2, <1>3 DEF GcAdd, Tracked, TypeOK
<1>8. frame.root \in Tracked' \cup {Global.root}
  BY <1>1, <1>3, <1>5, <1>7
<1>9. ASSUME NEW a \in Fresh(n)
      PROVE  kids'[a] \subseteq Held \cup Fresh(n)
  <2>1. kids'[a] = {vals[a - top], IF a = top + 1 THEN Scope.root ELSE a - 1} \ {NULL}
    BY <1>3 DEF Apply, Malloc
  <2>2. a - top \in 1 .. n
    BY <1>1, <1>3 DEF Fresh
  <2>3. vals[a - top] \in Held \cup {NULL}
    BY <2>2
  <2>4. (IF a = top + 1 THEN Scope.root ELSE a - 1) \in live \cup Fresh(n)
    BY <1>1, <1>3, <1>6 DEF Fresh
  <2> QED
    BY <2>1, <2>3, <2>4 DEF Held
<1>10. \A a \in Addr \ Fresh(n) : kids'[a] = kids[a]
  BY DEF Apply, Malloc
<1>11. \A i \in 1 .. Depth' : \/ i \in 1 .. Depth /\ scopes'[i].root = scopes[i].root
                             \/ scopes'[i].root \in Tracked' \cup {Global.root}
  BY <1>3, <1>4, <1>8
<1>12. Depth' \in Nat /\ Global'.root = Global.root
  BY <1>3, <1>4, <1>5
<1> HIDE DEF n, frame
<1> QED
  BY <1>1, <1>9, <1>10, <1>11, <1>12, HeldAllocation

\* `set` binds a variable to a new tree; what it frees counts as overwritten.
LEMMA HeldSetNew ==
  ASSUME IInv, ~ LocalSet, NEW w \in Held, NEW n \in 1 .. MaxTree, SetNew(w, n)
  PROVE  HeldInv' /\ ReadsOnlyOverwritten'
<1> DEFINE link == top + n + 1
<1>1. /\ n \in Nat /\ n > 0 /\ TypeOK /\ EnvInv /\ InUse /\ HeldInv /\ RecordedOnce
      /\ Depth = 1 /\ Scope = Global
  BY ConstantsAssumption DEF IInv, SetNew, Running, InUse, Scope, Global
<1>2. /\ Fresh(n + 1) \subseteq Addr /\ Fresh(n + 1) \cap live = {}
      /\ Fresh(n) \cup {link} = Fresh(n + 1) /\ Root(n) \in Fresh(n)
      /\ link \notin Fresh(n)
  <2>1. n + 1 \in Nat /\ top \in Nat /\ Room(n + 1)
    BY <1>1, LiveAddr DEF SetNew
  <2>2. Fresh(n + 1) \subseteq Addr /\ Fresh(n + 1) \cap live = {}
    BY <1>1, <2>1, FreshType
  <2> QED
    BY <1>1, <2>1, <2>2 DEF Fresh, Root
<1>3. PICK e \in Trees(n) :
        kids' = [b \in Addr |-> IF b \in Fresh(n) THEN e[b]
                                ELSE IF b = link THEN {Root(n), Scope.root}
                                ELSE kids[b]]
  BY DEF SetNew
<1>4. /\ live' = live \cup Fresh(n + 1) /\ overwritten' = overwritten /\ fault' = "none"
      /\ untracked' = untracked /\ Tracked' = Tracked /\ pc' = pc
  BY DEF SetNew, Running, NoFaultYet, Tracked
<1>5. Depth' = 1 /\ scopes'[1].root = link /\ Global'.root = link
  BY <1>1, ScopeType DEF SetNew, Depth, Global, TypeOK
<1>6. Global.root \in live
  BY <1>1 DEF EnvInv, EnvHeld, Owned
<1>7. \A a \in live' : kids'[a] \subseteq Held'
  <2>1. ASSUME NEW a \in Fresh(n) PROVE kids'[a] \subseteq Held'
    BY <1>1, <1>2, <1>3, <1>4, TreeType DEF Held
  <2>2. kids'[link] \subseteq Held'
    BY <1>1, <1>2, <1>3, <1>4, <1>6 DEF Held
  <2>3. ASSUME NEW a \in live PROVE kids'[a] \subseteq Held'
    BY <1>1, <1>2, <1>3, <1>4, LiveAddr DEF Held, HeldInv
  <2> QED
    BY <1>2, <1>4, <2>1, <2>2, <2>3
<1>8. Closed(untracked', kids')
  BY <1>1, <1>2, <1>3, <1>4, LiveAddr DEF HeldInv, Closed, RecordedOnce
<1> QED
  BY <1>4, <1>5, <1>7, <1>8 DEF HeldInv, ReadsOnlyOverwritten

LEMMA HeldOverwrite ==
  ASSUME IInv, ~ LocalSet,
         NEW i \in DOMAIN scopes, NEW l \in Addr, NEW w \in Held,
         NEW n \in 1 .. MaxTree, SetOverwrite(i, l, w, n)
  PROVE  HeldInv' /\ ReadsOnlyOverwritten'
<1> DEFINE v == slot[l]
           D == IF v = NULL THEN {} ELSE Below(v, kids)
           N == Fresh(n)
<1>1. /\ n \in Nat /\ n > 0 /\ TypeOK /\ EnvInv /\ InUse /\ HeldInv /\ RecordedOnce
      /\ l \in Global.links /\ Room(n)
  BY ConstantsAssumption DEF IInv, SetOverwrite, Running, InUse, Global
<1>2. /\ N \subseteq Addr /\ N \cap live = {} /\ Root(n) \in N
  BY <1>1, FreshType
<1>3. PICK e \in Trees(n) :
        kids' = [b \in Addr |-> IF b \in N THEN e[b]
                                ELSE IF b \in D THEN {}
                                ELSE IF b = l THEN (kids[l] \ {v}) \cup {Root(n)}
                                ELSE kids[b]]
  BY DEF SetOverwrite
<1>4. /\ live' = (live \ D) \cup N /\ overwritten' = overwritten \cup D
      /\ fault' # "read"
      /\ untracked' = untracked /\ Tracked' = Tracked /\ scopes' = scopes /\ pc' = pc
  BY DEF SetOverwrite, Tracked, FreeFault
<1>5. Held \cup N \subseteq Held'
  BY <1>4 DEF Held
<1>6. \A a \in live' : kids'[a] \subseteq Held'
  <2>1. ASSUME NEW a \in N PROVE kids'[a] \subseteq Held'
    BY <1>1, <1>2, <1>3, <1>5, TreeType
  <2>2. ASSUME NEW a \in live PROVE kids'[a] \subseteq Held'
    BY <1>1, <1>2, <1>3, <1>5, LiveAddr DEF HeldInv
  <2> QED
    BY <1>4, <2>1, <2>2
<1>7. Closed(untracked', kids')
  <2>1. /\ l \in Owned /\ v \in kids[l] /\ v \in Addr /\ v # NULL
        /\ Tree(Owned, kids, Global.root)
        /\ Owned \in SUBSET Addr /\ kids \in [Addr -> SUBSET Addr]
    BY <1>1, LiveAddr, OwnedAddr, EnvIsATree DEF EnvInv, Links
  <2>2. D \subseteq Owned
    BY <2>1, CutTree
  <2>3. \A a \in untracked : a \in Addr /\ a \notin N /\ a \notin D /\ a # l
    BY <1>1, <1>2, <2>1, <2>2, LiveAddr DEF Owned, RecordedOnce
  <2> QED
    BY <1>1, <1>3, <1>4, <2>3 DEF HeldInv, Closed
<1>8. Global'.root = Global.root /\ Depth' = Depth
  BY <1>4 DEF Global, Depth
<1> QED
  BY <1>1, <1>4, <1>6, <1>7, <1>8 DEF HeldInv, ReadsOnlyOverwritten

\* When the sweep has freed the temporaries, what is left points to what is left.
LEMMA HeldSweep ==
  ASSUME IInv, Sweep
  PROVE  HeldInv' /\ ReadsOnlyOverwritten'
<1>1. /\ TypeOK /\ EnvInv /\ InUse /\ HeldInv /\ RecordedOnce /\ Depth = 1
      /\ Tracked \ reachable = Tracked
  BY DEF IInv, MarkStaysInEnv, Sweep, InUse
<1>2. /\ live' = live \ Tracked /\ overwritten' = {} /\ fault' # "read"
      /\ kids' = [a \in Addr |-> IF a \in Tracked THEN {} ELSE kids[a]]
      /\ untracked' = untracked /\ scopes' = scopes
  BY <1>1 DEF Sweep, FreeFault
<1>3. Closed(Owned, kids) /\ Closed(untracked, kids)
  BY <1>1 DEF EnvInv, EnvHeld, HeldInv
<1>4. live' = Owned \cup untracked /\ live' \subseteq Addr
  BY <1>1, <1>2, LiveAddr DEF Owned, RecordedOnce
<1>5. \A a \in live' : kids'[a] \subseteq Held'
  BY <1>2, <1>3, <1>4 DEF Closed, Held
<1>6. Closed(untracked', kids')
  BY <1>1, <1>2, <1>3, LiveAddr DEF Closed, RecordedOnce
<1>7. Depth' = 1 /\ scopes'[1].root = Global'.root
  BY <1>1, <1>2 DEF Depth, Global
<1> QED
  BY <1>2, <1>5, <1>6, <1>7 DEF HeldInv, ReadsOnlyOverwritten

\* A step that leaves the heap alone.
LEMMA HeldRest ==
  ASSUME IInv,
         \/ UNCHANGED vars \/ Return \/ Abandon \/ Reset \/ Dispose
         \/ \E o \in Addr : Mark(o)
         \/ \E w \in Held : SetReadsFreed(w)
  PROVE  HeldInv' /\ ReadsOnlyOverwritten'
<1>1. CASE Dispose
  BY <1>1 DEF Dispose, FreeFault, HeldInv, InUse, ReadsOnlyOverwritten
<1>2. CASE Return
  <2>1. /\ Depth - 1 \in 1 .. Depth /\ Depth \in Nat /\ Depth > 1
        /\ \A i \in 1 .. Depth - 1 : scopes[i] \in Scopes
    BY <1>2, ScopeType DEF Return, IInv
  <2>2. /\ scopes' = SubSeq(scopes, 1, Depth - 1)
        /\ live' = live /\ kids' = kids /\ allocated' = allocated
        /\ untracked' = untracked /\ overwritten' = overwritten /\ fault' = fault
        /\ pc' = pc
    BY <1>2 DEF Return, heapVars
  <2>3. Depth' = Depth - 1 /\ \A i \in 1 .. Depth - 1 : scopes'[i] = scopes[i]
    BY <2>1, <2>2, SubSeqProperties DEF Depth
  <2>4. Global' = Global /\ Tracked' = Tracked /\ Held' = Held
    BY <2>1, <2>2, <2>3 DEF Global, Tracked, Held
  <2> QED
    BY <2>1, <2>2, <2>3, <2>4 DEF HeldInv, IInv, InUse, ReadsOnlyOverwritten, Closed
<1>3. CASE \/ UNCHANGED vars \/ Abandon \/ Reset \/ (\E o \in Addr : Mark(o))
           \/ \E w \in Held : SetReadsFreed(w)
  <2>1. /\ live' = live /\ kids' = kids /\ allocated' = allocated
        /\ untracked' = untracked /\ overwritten' = overwritten /\ scopes' = scopes
        /\ InUse' => InUse
    BY <1>3 DEF vars, Abandon, Reset, Mark, SetReadsFreed, Running, heapVars, InUse
  <2>2. /\ Global' = Global /\ Tracked' = Tracked /\ Held' = Held /\ Depth' = Depth
    BY <2>1 DEF Global, Tracked, Held, Depth
  <2>3. HeldInv'
    BY <2>1, <2>2 DEF HeldInv, IInv, Closed
  <2>4. ReadsOnlyOverwritten'
    <3>1. ASSUME NEW w \in Held, SetReadsFreed(w) PROVE overwritten # {}
      BY <3>1, HeldIntact DEF IInv, SetReadsFreed, Running, InUse
    <3>2. CASE \E w \in Held : SetReadsFreed(w)
      BY <3>1, <3>2, <2>1 DEF ReadsOnlyOverwritten
    <3>3. CASE UNCHANGED vars \/ Abandon \/ Reset \/ \E o \in Addr : Mark(o)
      BY <3>3, <2>1 DEF vars, Abandon, Reset, Mark, FreeFault, IInv, ReadsOnlyOverwritten
    <3> QED
      BY <1>3, <3>2, <3>3
  <2> QED
    BY <2>3, <2>4
<1> QED
  BY <1>1, <1>2, <1>3

LEMMA HeldStep ==
  ~ LocalSet /\ IInv /\ [Next]_vars => HeldInv' /\ ReadsOnlyOverwritten'
<1> SUFFICES ASSUME ~ LocalSet, IInv, [Next]_vars
             PROVE  HeldInv' /\ ReadsOnlyOverwritten'
  OBVIOUS
<1>1. 1 .. MaxTree \subseteq Nat /\ 1 \in Nat
  BY ConstantsAssumption
<1>2. CASE \E n \in 1 .. MaxTree, recorded \in BOOLEAN : Parse(n, recorded)
  BY <1>1, <1>2, HeldNew
<1>3. CASE \E parts \in Parts : NewCell(parts)
  BY <1>1, <1>3, HeldNew
<1>4. CASE \E n \in 1 .. MaxTree : NewTree(n)
  BY <1>1, <1>4, HeldNew
<1>5. CASE Apply(<<>>) \/ \E v \in Held \cup {NULL} : Apply(<<v>>)
  <2>1. /\ <<>> \in Seq(Held \cup {NULL})
        /\ \A v \in Held \cup {NULL} : <<v>> \in Seq(Held \cup {NULL})
    OBVIOUS
  <2> QED
    BY <1>5, <2>1, HeldApply
<1>6. CASE \E w \in Held, n \in 1 .. MaxTree : SetNew(w, n)
  BY <1>6, HeldSetNew
<1>7. CASE \E i \in DOMAIN scopes, l \in Addr, w \in Held, n \in 1 .. MaxTree :
             SetOverwrite(i, l, w, n)
  BY <1>7, HeldOverwrite
<1>8. CASE Sweep
  BY <1>8, HeldSweep
<1>9. CASE \/ UNCHANGED vars \/ Return \/ Abandon \/ Reset \/ Dispose
           \/ (\E o \in Addr : Mark(o))
           \/ \E w \in Held : SetReadsFreed(w)
  BY <1>9, HeldRest
<1> QED
  BY <1>2, <1>3, <1>4, <1>5, <1>6, <1>7, <1>8, <1>9 DEF Next, Collector
-----------------------------------------------------------------------------
\* A set of numbers that is not empty has a least element.
LEMMA LeastNumber ==
  ASSUME NEW S \in SUBSET Nat, S # {}
  PROVE  \E m \in S : \A k \in S : m <= k
<1>1. PICK m \in S : \A k \in S : <<k, m>> \notin OpToRel(<, Nat)
  BY NatLessThanWellFounded, WFMin
<1>2. \A k \in S : ~ (k < m)
  BY <1>1 DEF OpToRel
<1> QED
  BY <1>2

LEMMA InitEnv == Init => EnvInv
<1> SUFFICES ASSUME Init PROVE EnvInv
  OBVIOUS
<1>1. /\ top \in Nat /\ MaxObj \in Nat /\ top <= MaxObj /\ top > 0 /\ top % 2 = 0
      /\ live = 1 .. top /\ 1 .. top \subseteq Addr
  BY ConstantsAssumption DEF Init, Addr
<1>2. Owned = 1 .. top
  BY <1>1 DEF Init, Owned, Tracked
<1>3. Global.root = top /\ Global.links = {a \in 1 .. top : a % 2 = 0}
  BY DEF Init, Global
<1>4. \A a \in 1 .. top : /\ a % 2 = 0 => kids[a] = {a - 1, a - 2} \ {0} /\ slot[a] = a - 1
                          /\ a % 2 # 0 => kids[a] = {}
  BY <1>1 DEF Init, NULL
<1>5. \A a \in 1 .. top : kids[a] \subseteq 1 .. (a - 1)
  BY <1>1, <1>4
<1>6. EnvHeld
  BY <1>1, <1>2, <1>3, <1>5 DEF EnvHeld, Closed
<1>7. EnvIsTree
  <2>1. ASSUME NEW a \in 1 .. top, NEW b \in 1 .. top, a # b
        PROVE  kids[a] \cap kids[b] = {}
    <3>1. CASE a % 2 # 0 \/ b % 2 # 0
      BY <3>1, <1>4
    <3>2. CASE a % 2 = 0 /\ b % 2 = 0
      <4>1. kids[a] = {a - 1, a - 2} \ {0} /\ kids[b] = {b - 1, b - 2} \ {0}
        BY <3>2, <1>4
      <4>2. a - 1 # b - 2 /\ a - 2 # b - 1
        BY <3>2
      <4> QED
        BY <2>1, <4>1, <4>2
    <3> QED
      BY <3>1, <3>2
  <2> QED
    BY <2>1, <1>1, <1>2, <1>3, <1>5 DEF EnvIsTree, Disjoint
<1>8. NothingLost
  <2> SUFFICES ASSUME NEW S \in SUBSET (1 .. top), top \in S, Closed(S, kids)
               PROVE  S = 1 .. top
    BY <1>2, <1>3 DEF NothingLost
  <2> DEFINE Missing == {k \in Nat : k < top /\ top - k \notin S}
  <2> SUFFICES ASSUME Missing # {} PROVE FALSE
    <3>1. \A a \in 1 .. top : top - a \in Nat /\ top - a < top /\ top - (top - a) = a
      BY <1>1
    <3> QED
      BY <3>1
  <2>1. PICK m \in Missing : \A k \in Missing : m <= k
    BY LeastNumber
  <2> DEFINE a == top - m
  <2>2. a \in 1 .. top /\ a \notin S /\ a # top
    BY <2>1, <1>1
  <2>3. a + 1 \in S
    BY <2>1, <2>2, <1>1
  <2>4. a + 2 \in S \/ a + 1 = top
    <3>1. CASE m = 1
      BY <3>1, <1>1
    <3>2. CASE m # 1
      <4>1. m - 2 \in Nat /\ m - 2 < top /\ top - (m - 2) = a + 2 /\ ~ (m <= m - 2)
        BY <3>2, <2>1, <2>2, <1>1
      <4> QED
        BY <4>1, <2>1
    <3> QED
      BY <3>1, <3>2
  <2>5. CASE a % 2 = 0
    <3>1. a + 2 \in 1 .. top /\ (a + 2) % 2 = 0 /\ a + 1 # top
      BY <2>5, <2>2, <1>1
    <3>2. a \in kids[a + 2]
      BY <3>1, <2>2, <1>1, <1>4
    <3> QED
      BY <3>1, <3>2, <2>2, <2>4 DEF Closed
  <2>6. CASE a % 2 # 0
    <3>1. (a + 1) % 2 = 0 /\ a + 1 \in 1 .. top
      BY <2>6, <2>2, <1>1
    <3>2. a \in kids[a + 1]
      BY <3>1, <2>2, <1>1, <1>4
    <3> QED
      BY <3>1, <3>2, <2>2, <2>3 DEF Closed
  <2> QED
    BY <2>5, <2>6
<1>9. Links
  <2>1. \A a \in Global.links : a \in 1 .. top /\ slot[a] \in kids[a]
    BY <1>1, <1>3, <1>4
  <2>2. ASSUME NEW a \in Global.links, a # Global.root
        PROVE  \E k \in Global.links : a \in kids[k] \ {slot[k]}
    <3>1. a + 2 \in 1 .. top /\ (a + 2) % 2 = 0
      BY <2>2, <1>1, <1>3
    <3>2. a \in kids[a + 2] \ {slot[a + 2]}
      BY <3>1, <2>2, <1>1, <1>3, <1>4
    <3> QED
      BY <3>1, <3>2, <1>3
  <2> QED
    BY <2>1, <2>2, <1>2 DEF Links
<1> QED
  BY <1>6, <1>7, <1>8, <1>9 DEF EnvInv

LEMMA InitHeld == Init => HeldInv /\ ReadsOnlyOverwritten
<1> SUFFICES ASSUME Init PROVE HeldInv /\ ReadsOnlyOverwritten
  OBVIOUS
<1>1. EnvHeld /\ Owned = live /\ untracked = {} /\ Depth = 1
  BY InitEnv DEF EnvInv, Init, Owned, Tracked, Depth
<1>2. Closed(live, kids)
  BY <1>1 DEF Init, EnvHeld, InUse
<1>3. ReadsOnlyOverwritten
  BY DEF Init, ReadsOnlyOverwritten
<1> QED
  BY <1>1, <1>2, <1>3 DEF HeldInv, Closed, Held, Global

LEMMA InitInv == Init => IInv
<1> SUFFICES ASSUME Init PROVE IInv
  OBVIOUS
<1>1. RecordedOnce /\ NoFault /\ MarkStaysInEnv /\ AllFreed
  BY DEF Init, RecordedOnce, NoFault, MarkStaysInEnv, AllFreed, Tracked
<1> QED
  BY <1>1, InitType, InitEnv, InitHeld DEF IInv

LEMMA InvStep == ~ LocalSet /\ IInv /\ [Next]_vars => IInv'
<1> SUFFICES ASSUME ~ LocalSet, IInv, [Next]_vars PROVE Kept
  BY TypeStep, HeldStep DEF Kept, IInv
<1>1. CASE UNCHANGED vars
  BY <1>1 DEF vars, Kept, IInv, NoFault, EnvInv, EnvHeld, EnvIsTree, NothingLost, Links,
     RecordedOnce, MarkStaysInEnv, AllFreed, InUse, Owned, Tracked, Global, Depth,
     Closed, Disjoint
<1>2. ASSUME NEW n \in 1 .. MaxTree, NEW recorded \in BOOLEAN, Parse(n, recorded)
      PROVE  Kept
  BY <1>2, ParseKeeps
<1>3. ASSUME NEW parts \in Parts, NewCell(parts)
      PROVE  Kept
  BY <1>3, NewCellKeeps
<1>4. ASSUME NEW w \in Held, NEW n \in 1 .. MaxTree, SetNew(w, n)
      PROVE  Kept
  BY <1>4, SetNewKeeps
<1>5. CASE Apply(<<>>) \/ \E v \in Held \cup {NULL} : Apply(<<v>>)
  <2>1. /\ <<>> \in Seq(Held \cup {NULL})
        /\ \A v \in Held \cup {NULL} : <<v>> \in Seq(Held \cup {NULL})
    OBVIOUS
  <2> QED
    BY <1>5, <2>1, ApplyKeeps
<1>6. CASE Return \/ Abandon
  BY <1>6, ReturnKeeps
<1>7. ASSUME NEW i \in DOMAIN scopes, NEW l \in Addr, NEW w \in Held,
             NEW n \in 1 .. MaxTree, SetOverwrite(i, l, w, n)
      PROVE  Kept
  BY <1>7, OverwriteKeeps
<1>8. CASE Reset \/ Sweep \/ Dispose
  BY <1>8, ResetKeeps, SweepKeeps, DisposeKeeps
<1>9. ASSUME NEW o \in Addr, Mark(o) PROVE Kept
  BY <1>9, MarkKeeps
<1>10. ASSUME NEW n \in 1 .. MaxTree, NewTree(n) PROVE Kept
  BY <1>10, NewTreeKeeps
<1>11. CASE \E w \in Held : SetReadsFreed(w)
  BY <1>11, ReadsFreedKeeps
<1> QED
  BY <1>1, <1>2, <1>3, <1>4, <1>5, <1>6, <1>7, <1>8, <1>9, <1>10, <1>11
  DEF Next, Collector

\* If no program sets, inside a closure, a variable that the closure binds or
\* that is not bound at all, the ownership discipline holds forever.
THEOREM OwnershipInvariant == ~ LocalSet => (Spec => []IInv)
<1> SUFFICES ASSUME ~ LocalSet PROVE Spec => []IInv
  OBVIOUS
<1>1. IInv /\ [Next]_vars => IInv'
  BY InvStep
<1> QED
  BY InitInv, <1>1, PTL DEF Spec

\* No object is freed twice, and neither the collector nor the disposal of an
\* overwritten value or of the interpreter touches one already freed.
THEOREM MemorySafety == ~ LocalSet => (Spec => []NoFault)
<1> SUFFICES ASSUME ~ LocalSet PROVE Spec => []NoFault
  OBVIOUS
<1>1. IInv => NoFault
  BY DEF IInv
<1> QED
  BY <1>1, OwnershipInvariant, PTL

\* `set` copies or looks up a freed object at most where a `set` since the last
\* collection has freed one that the evaluation still holds.
THEOREM ReadsSound == ~ LocalSet => (Spec => []ReadsOnlyOverwritten)
<1> SUFFICES ASSUME ~ LocalSet PROVE Spec => []ReadsOnlyOverwritten
  OBVIOUS
<1>1. IInv => ReadsOnlyOverwritten
  BY DEF IInv
<1> QED
  BY <1>1, OwnershipInvariant, PTL

\* Everything the environment points to is allocated, belongs to it alone, and
\* is in one place of it.
THEOREM EnvironmentSound == ~ LocalSet => (Spec => []EnvOwned)
<1> SUFFICES ASSUME ~ LocalSet PROVE Spec => []EnvOwned
  OBVIOUS
<1>1. IInv => EnvOwned
  BY DEF EnvOwned, IInv, EnvInv
<1> QED
  BY <1>1, OwnershipInvariant, PTL

\* What the environment owns is reached from its root: `set` and the disposal
\* find all that no collection frees.
THEOREM NothingIsLost == ~ LocalSet => (Spec => []NothingLost)
<1> SUFFICES ASSUME ~ LocalSet PROVE Spec => []NothingLost
  OBVIOUS
<1>1. IInv => NothingLost
  BY DEF IInv, EnvInv
<1> QED
  BY <1>1, OwnershipInvariant, PTL

\* gc.allocated holds each object once, and only what nobody else frees.
THEOREM RecordsSound == ~ LocalSet => (Spec => []RecordedOnce)
<1> SUFFICES ASSUME ~ LocalSet PROVE Spec => []RecordedOnce
  OBVIOUS
<1>1. IInv => RecordedOnce
  BY DEF IInv
<1> QED
  BY <1>1, OwnershipInvariant, PTL

\* The mark phase stays in the environment and leaves every recorded object for
\* the sweep.
THEOREM MarkingSound == ~ LocalSet => (Spec => []MarkStaysInEnv)
<1> SUFFICES ASSUME ~ LocalSet PROVE Spec => []MarkStaysInEnv
  OBVIOUS
<1>1. IInv => MarkStaysInEnv
  BY DEF IInv
<1> QED
  BY <1>1, OwnershipInvariant, PTL

\* The disposal frees all that is recorded or bound.
THEOREM DisposalSound == ~ LocalSet => (Spec => []AllFreed)
<1> SUFFICES ASSUME ~ LocalSet PROVE Spec => []AllFreed
  OBVIOUS
<1>1. IInv => AllFreed
  BY DEF IInv
<1> QED
  BY <1>1, OwnershipInvariant, PTL
-----------------------------------------------------------------------------
(***************************************************************************)
(* The heap implements ObjectLifetimes.                                    *)
(***************************************************************************)
LEMMA InitLifetimes == Init => Lifetimes!Init
<1> SUFFICES ASSUME Init PROVE Lifetimes!Init
  OBVIOUS
<1>1. Tracked = {} /\ Owned = 1 .. top /\ 1 .. top \subseteq Addr
  BY ConstantsAssumption DEF Init, Tracked, Owned, Addr
<1> QED
  BY <1>1 DEF Init, Lifetimes!Init, Lifetimes!Objects, Addr

\* A step that allocates n objects: they are new to the abstract heap, too.
LEMMA NewObjects ==
  ASSUME TypeOK, NEW n \in Nat, Room(n), top' = top + n
  PROVE  Lifetimes!Grows /\ Lifetimes!New = Fresh(n)
<1>1. top \in Nat /\ MaxObj \in Nat /\ top + n <= MaxObj
  BY LiveAddr DEF Room
<1> QED
  BY <1>1 DEF Lifetimes!Grows, Lifetimes!New, Lifetimes!Objects, Fresh

\* What gc_add records is what the abstract heap calls a temporary.
LEMMA GcAddTracks ==
  ASSUME TypeOK, NEW N \in SUBSET Addr, GcAdd(N)
  PROVE  Tracked' = Tracked \cup N
BY DEF GcAdd, Tracked, TypeOK

LEMMA AllocateLifetimes ==
  ASSUME IInv, NEW n \in Nat, Room(n), top' = top + n, live' = live \cup Fresh(n),
         GcAdd(Fresh(n)), untracked' = untracked,
         pc \in {"read", "eval"}, pc' = "eval"
  PROVE  Lifetimes!Read \/ Lifetimes!Allocate
<1>1. TypeOK /\ Fresh(n) \subseteq Addr
  BY FreshType DEF IInv
<1>2. Owned' = Owned
  BY Allocated DEF IInv
<1>3. Tracked' = Tracked \cup Fresh(n)
  BY <1>1, GcAddTracks
<1>4. Lifetimes!Grows /\ Lifetimes!New = Fresh(n)
  BY <1>1, NewObjects
<1> QED
  BY <1>2, <1>3, <1>4 DEF Lifetimes!Read, Lifetimes!Allocate

LEMMA ParseLifetimes ==
  ASSUME IInv, NEW n \in 1 .. MaxTree, NEW recorded \in BOOLEAN, Parse(n, recorded)
  PROVE  Lifetimes!Read
<1>1. n \in Nat /\ Room(n) /\ pc = "read" /\ pc' = "eval" /\ TypeOK
      /\ top' = top + n /\ live' = live \cup Fresh(n)
  BY ConstantsAssumption DEF Parse, Malloc, IInv
<1>2. CASE GcAdd(Fresh(n)) /\ untracked' = untracked
  BY <1>1, <1>2, AllocateLifetimes DEF Lifetimes!Allocate
<1>3. CASE allocated' = allocated /\ untracked' = untracked \cup Fresh(n)
  <2>1. Owned' = Owned /\ Tracked' = Tracked
    BY <1>1, <1>3, Allocated DEF IInv, Tracked
  <2>2. Lifetimes!Grows /\ Lifetimes!New = Fresh(n)
    BY <1>1, NewObjects
  <2> QED
    BY <1>1, <1>3, <2>1, <2>2 DEF Lifetimes!Read
<1> QED
  BY <1>2, <1>3 DEF Parse

\* Both kinds of `set` add what they allocate to the environment, and take
\* from it only what it held.
LEMMA SetLifetimes ==
  ASSUME IInv, NEW n \in 1 .. MaxTree,
         NEW w \in Held,
         \/ SetNew(w, n)
         \/ \E i \in DOMAIN scopes, l \in Addr : SetOverwrite(i, l, w, n)
  PROVE  Lifetimes!Store
<1> DEFINE Store(m, D) ==
      /\ m \in Nat /\ Room(m) /\ top' = top + m
      /\ live' = (live \ D) \cup Fresh(m)
      /\ Fresh(m) \cap D = {}
<1>1. n \in Nat /\ n + 1 \in Nat /\ TypeOK
  BY ConstantsAssumption DEF IInv
<1>2. \E m, D : Store(m, D)
  <2>1. CASE SetNew(w, n)
    <3>1. Store(n + 1, {})
      BY <2>1, <1>1, LiveAddr DEF SetNew
    <3> QED
      BY <3>1
  <2>2. CASE \E i \in DOMAIN scopes, l \in Addr : SetOverwrite(i, l, w, n)
    <3>1. PICK D : live' = (live \ D) \cup Fresh(n)
      BY <2>2 DEF SetOverwrite
    <3>2. Store(n, D \ Fresh(n))
      BY <2>2, <3>1, <1>1, FreshType DEF SetOverwrite, Root
    <3> QED
      BY <3>2
  <2> QED
    BY <2>1, <2>2
<1>3. PICK m, D : Store(m, D)
  BY <1>2
<1>4. Lifetimes!Grows /\ Lifetimes!New = Fresh(m)
  BY <1>1, <1>3, NewObjects
<1>5. /\ Tracked' = Tracked /\ untracked' = untracked /\ pc = "eval" /\ pc' = "eval"
  BY DEF SetNew, SetOverwrite, Running, Tracked
<1>6. Fresh(m) \cap (Tracked \cup untracked) = {}
  BY <1>1, <1>3, FreshType DEF IInv, RecordedOnce
<1>7. Fresh(m) \subseteq Owned' /\ Owned' \subseteq Owned \cup Fresh(m)
  BY <1>3, <1>5, <1>6 DEF Owned
<1> QED
  BY <1>4, <1>5, <1>7 DEF Lifetimes!Store

\* The sweep frees every temporary because none of them is marked.
LEMMA CollectLifetimes ==
  ASSUME IInv, Sweep
  PROVE  Lifetimes!Collect
<1>1. /\ pc = "mark" /\ pc' = "read" /\ top' = top /\ untracked' = untracked
      /\ live' = live \ Tracked
      /\ allocated' = [a \in Addr |-> IF a \in Tracked THEN 0 ELSE allocated[a]]
  BY DEF IInv, MarkStaysInEnv, Sweep, Tracked
<1>2. Tracked' = {}
  BY <1>1 DEF Tracked, IInv, TypeOK
<1>3. Owned' = Owned
  BY <1>1, <1>2 DEF Owned
<1> QED
  BY <1>1, <1>2, <1>3 DEF Lifetimes!Collect

LEMMA DisposeLifetimes ==
  ASSUME IInv', Dispose
  PROVE  Lifetimes!Dispose
<1>1. /\ pc = "read" /\ pc' = "done" /\ top' = top /\ untracked' = untracked
      /\ allocated' = [a \in Addr |-> 0]
  BY DEF Dispose
<1>2. Tracked' = {} /\ Owned' = {}
  BY <1>1 DEF Tracked, Owned, IInv, AllFreed
<1> QED
  BY <1>1, <1>2 DEF Lifetimes!Dispose

LEMMA StepLifetimes ==
  ~ LocalSet /\ IInv /\ [Next]_vars => [Lifetimes!Next]_(Lifetimes!vars)
<1> SUFFICES ASSUME ~ LocalSet, IInv, [Next]_vars
             PROVE  Lifetimes!Next \/ UNCHANGED Lifetimes!vars
  BY DEF Lifetimes!vars
<1> USE DEF Lifetimes!Next
<1>1. ASSUME live' = live, allocated' = allocated, untracked' = untracked, top' = top,
             pc' = pc \/ (pc = "eval" /\ pc' \in {"mark", "read"})
      PROVE  UNCHANGED Lifetimes!vars \/ Lifetimes!Abandon
  BY <1>1 DEF Lifetimes!vars, Lifetimes!Abandon, Owned, Tracked
<1>2. CASE \/ UNCHANGED vars \/ Return \/ Reset \/ Abandon
           \/ \E o \in Addr : Mark(o)
           \/ \E w \in Held : SetReadsFreed(w)
  BY <1>1, <1>2
  DEF vars, Return, Reset, Abandon, Mark, SetReadsFreed, heapVars, Running
<1>3. ASSUME NEW n \in 1 .. MaxTree, NEW recorded \in BOOLEAN, Parse(n, recorded)
      PROVE  Lifetimes!Next
  BY <1>3, ParseLifetimes
<1>4. ASSUME NEW parts \in Parts, NewCell(parts)
      PROVE  Lifetimes!Next
  BY <1>4, AllocateLifetimes DEF NewCell, Malloc, Running
<1>5. ASSUME NEW n \in 1 .. MaxTree, NewTree(n)
      PROVE  Lifetimes!Next
  BY <1>5, AllocateLifetimes, ConstantsAssumption DEF NewTree, Malloc, Running
<1>6. ASSUME NEW vals \in Seq(Held \cup {NULL}), Apply(vals)
      PROVE  Lifetimes!Next
  BY <1>6, AllocateLifetimes DEF Apply, Malloc, Running
<1>7. ASSUME NEW w \in Held, NEW n \in 1 .. MaxTree,
             \/ SetNew(w, n)
             \/ \E i \in DOMAIN scopes, l \in Addr : SetOverwrite(i, l, w, n)
      PROVE  Lifetimes!Next
  BY <1>7, SetLifetimes
<1>8. CASE Sweep \/ Dispose
  BY <1>8, CollectLifetimes, DisposeLifetimes, InvStep
<1>9. /\ <<>> \in Seq(Held \cup {NULL})
      /\ \A v \in Held \cup {NULL} : <<v>> \in Seq(Held \cup {NULL})
  OBVIOUS
<1> QED
  BY <1>2, <1>3, <1>4, <1>5, <1>6, <1>7, <1>8, <1>9 DEF Next, Collector

\* Every behaviour of the heap is one that the comment at the top of
\* include/garbage-collector.h allows: the temporaries live to the end of the
\* evaluation, an object of the environment until `set` replaces its value.
THEOREM ImplementsLifetimes == ~ LocalSet => (Spec => KeepsLifetimes)
<1> SUFFICES ASSUME ~ LocalSet PROVE Spec => KeepsLifetimes
  OBVIOUS
<1>1. IInv /\ [Next]_vars => [Lifetimes!Next]_(Lifetimes!vars)
  BY StepLifetimes
<1> QED
  BY InitLifetimes, <1>1, OwnershipInvariant, PTL DEF Spec, KeepsLifetimes, Lifetimes!Spec
=============================================================================
