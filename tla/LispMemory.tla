----------------------------- MODULE LispMemory -----------------------------
(***************************************************************************)
(* The heap of the interpreter: who owns each Lisp object, and when it is  *)
(* freed.  The modelled code is src/garbage-collector.c, the parts of      *)
(* environment.c, closure.c, evaluator.c, primitives.c and list.c that     *)
(* allocate, link or dispose of objects, and the loops of interpreter.c    *)
(* that read, evaluate and collect.                                        *)
(*                                                                         *)
(* An object is a number, given in the order of allocation and never used  *)
(* again; kids[a] is the set of objects that a points to.  A binding of an *)
(* environment (the link, the pair, its key and the cell after the key,    *)
(* which the code always allocates together) is one object, a link: slot   *)
(* is its pointer to the value bound.  (In the frame of an application the *)
(* key is the closure's own parameter; no one frees it through the frame.) *)
(* What an expression computes is abstracted: an evaluation may allocate   *)
(* any cells, apply closures and store values in any order; LispMachine    *)
(* has the rest.  Two things are undefined behaviour, and nothing is said  *)
(* of what follows them: that an object is freed twice, or that the        *)
(* collector, the disposal of an old value or that of the interpreter      *)
(* touches one already freed (fault "free"); and that `set` reads an       *)
(* object already freed, in the value it copies or the name it looks up    *)
(* (fault "read").                                                         *)
(***************************************************************************)
EXTENDS Integers, Sequences, FiniteSets

CONSTANTS
  MaxObj,      \* bound: how many objects a behaviour may allocate
  MaxTree,     \* bound: how many objects a parsed or copied tree may have
  MaxDepth,    \* bound: how many closure applications may be nested
  Builtins,    \* how many bindings the initial environment has
  LocalSet     \* whether programs `set` inside a closure a variable that is
               \* bound there, or that is not bound at all

ASSUME ConstantsAssumption ==
  /\ {MaxObj, MaxTree, MaxDepth} \subseteq Nat
  /\ Builtins \in Nat \ {0}
  /\ 2 * Builtins <= MaxObj
  /\ LocalSet \in BOOLEAN

Addr == 1 .. MaxObj
NULL == 0

VARIABLES
  top,         \* the last object allocated
  live,        \* the objects allocated and not freed
  kids,        \* the pointers between objects
  slot,        \* the value a link binds, NULL when it binds none
  allocated,   \* how many entries of gc.allocated hold each object
  reachable,   \* the objects whose reachable flag is set
  untracked,   \* parsed expressions that gc.allocated does not hold
  scopes,      \* interpreter->env, last, above the old_env's apply saved
  todo,        \* the objects mark_recursive still has to visit
  pc,          \* what the interpreter is doing
  overwritten, \* what `set` freed since the last collection: the evaluation
               \* may still hold pointers to it
  fault        \* what went wrong: "free", "read" or "none"

heapVars == <<top, live, kids, slot>>
vars == <<top, live, kids, slot, allocated, reachable, untracked, scopes,
          todo, pc, overwritten, fault>>

Scopes  == [root : Addr, links : SUBSET Addr]
Tracked == {a \in Addr : allocated[a] > 0}
Depth   == Len(scopes)
Global  == scopes[1]
Scope   == scopes[Depth]

\* The objects of the environment: nothing else holds an object that is
\* neither in gc.allocated nor a parsed expression.
Owned == live \ (Tracked \cup untracked)
-----------------------------------------------------------------------------
Closed(S, e) == \A a \in S : e[a] \subseteq S

\* What dispose_recursive(v) and mark_recursive(v) visit.
Below(v, e) ==
  {a \in Addr : \A S \in SUBSET Addr : v \in S /\ Closed(S, e) => a \in S}

\* No object of S is below another one by two ways: disposing of S frees each
\* of its objects once.
Disjoint(S, e) == \A a, b \in S : a # b => e[a] \cap e[b] = {}

\* A new tree of n objects, parts before wholes: its root is the last.
Fresh(n) == (top + 1) .. (top + n)
Root(n)  == top + n
Trees(n) ==
  {e \in [Fresh(n) -> SUBSET Fresh(n)] :
     /\ \A a \in Fresh(n) : e[a] \subseteq (top + 1) .. (a - 1)
     /\ Disjoint(Fresh(n), e)
     /\ \A S \in SUBSET Fresh(n) :
          Root(n) \in S /\ Closed(S, e) => S = Fresh(n)}

\* malloc of n objects with pointers e; the others keep theirs.
Malloc(n, e) ==
  /\ top' = top + n
  /\ live' = live \cup Fresh(n)
  /\ kids' = [a \in Addr |-> IF a \in Fresh(n) THEN e[a] ELSE kids[a]]

Room(n) == top + n <= MaxObj

\* gc_add of every object of N.
GcAdd(N) ==
  allocated' = [a \in Addr |-> IF a \in N THEN allocated[a] + 1
                                          ELSE allocated[a]]

NoFaultYet == fault = "none"
Running    == pc = "eval" /\ NoFaultYet

\* The evaluation goes on unless bad.
FreeFault(bad) == fault' = IF bad THEN "free" ELSE "none"

\* What the evaluation may hold pointers to, in the locals of its C functions.
Held == live \cup overwritten

\* create_environment: the links are allocated from the last one to the first.
Init ==
  /\ top = 2 * Builtins
  /\ live = 1 .. top
  /\ kids = [a \in Addr |-> IF a <= top /\ a % 2 = 0
                              THEN {a - 1, a - 2} \ {NULL} ELSE {}]
  /\ slot = [a \in Addr |-> IF a <= top /\ a % 2 = 0 THEN a - 1 ELSE NULL]
  /\ allocated = [a \in Addr |-> 0]
  /\ reachable = {}
  /\ untracked = {}
  /\ scopes = <<[root |-> top, links |-> {a \in 1 .. top : a % 2 = 0}]>>
  /\ todo = {}
  /\ pc = "read"
  /\ overwritten = {}
  /\ fault = "none"
-----------------------------------------------------------------------------
\* The next expression is parsed.  interpret_expression records the tree with
\* gc_add_recursive; the trees of read_expression are recorded nowhere.
Parse(n, recorded) ==
  /\ pc = "read" /\ NoFaultYet
  /\ Room(n)
  /\ \E e \in Trees(n) : Malloc(n, e)
  /\ IF recorded
       THEN /\ GcAdd(Fresh(n))
            /\ reachable' = reachable \cup Fresh(n)
            /\ UNCHANGED untracked
       ELSE /\ untracked' = untracked \cup Fresh(n)
            /\ UNCHANGED <<allocated, reachable>>
  /\ pc' = "eval"
  /\ UNCHANGED <<slot, scopes, todo, overwritten, fault>>

\* An object made during the evaluation (a cell of cons, nil, t, a number, the
\* closure of a partial application), pointing to objects at hand.
Parts == {S \in SUBSET Held : Cardinality(S) <= 3}

NewCell(parts) ==
  /\ Running
  /\ Room(1)
  /\ Malloc(1, [a \in Fresh(1) |-> parts])
  /\ GcAdd(Fresh(1))
  /\ UNCHANGED <<slot, reachable, untracked, scopes,
                 todo, pc, overwritten, fault>>

\* A mistake: the root is recorded by gc_add_recursive, and again.
NewTreeTwice(n) ==
  /\ Running
  /\ Room(n)
  /\ \E e \in Trees(n) : Malloc(n, e)
  /\ allocated' = [a \in Addr |-> IF a = Root(n) THEN allocated[a] + 2
                                  ELSE IF a \in Fresh(n) THEN allocated[a] + 1
                                  ELSE allocated[a]]
  /\ reachable' = reachable \cup Fresh(n)
  /\ UNCHANGED <<slot, untracked, scopes, todo, pc, overwritten, fault>>

\* A mistake: only the root is recorded (gc_add for gc_add_recursive).
NewTreeRootOnly(n) ==
  /\ Running
  /\ Room(n)
  /\ \E e \in Trees(n) : Malloc(n, e)
  /\ GcAdd({Root(n)})
  /\ UNCHANGED <<slot, reachable, untracked, scopes,
                 todo, pc, overwritten, fault>>

\* A tree made during the evaluation (a lambda, the copies that a closure
\* application makes): gc_add_recursive also raises the reachable flags.
NewTree(n) ==
  /\ Running
  /\ Room(n)
  /\ \E e \in Trees(n) : Malloc(n, e)
  /\ GcAdd(Fresh(n))
  /\ reachable' = reachable \cup Fresh(n)
  /\ UNCHANGED <<slot, untracked, scopes, todo, pc, overwritten, fault>>

\* A closure is applied to arguments or captured values vals: a link for each
\* is put before the current environment, and interpreter->env is set to it.
\* Without parameters and captured variables it stays what it was.
Apply(vals) ==
  LET n == Len(vals) IN
  /\ Running
  /\ Depth <= MaxDepth
  /\ Room(n)
  /\ Malloc(n, [a \in Fresh(n) |->
        {vals[a - top], IF a = top + 1 THEN Scope.root ELSE a - 1} \ {NULL}])
  /\ slot' = [a \in Addr |-> IF a \in Fresh(n) THEN vals[a - top] ELSE slot[a]]
  /\ GcAdd(Fresh(n))
  /\ scopes' = Append(scopes, [root  |-> IF n = 0 THEN Scope.root ELSE Root(n),
                               links |-> Fresh(n)])
  /\ UNCHANGED <<reachable, untracked, todo, pc, overwritten, fault>>

\* A mistake: the environment that old_env holds is put back twice.
ReturnTwice ==
  /\ Running
  /\ Depth > 1
  /\ scopes' = SubSeq(scopes, 1, Depth - 2)
  /\ UNCHANGED <<heapVars, allocated, reachable, untracked,
                 todo, pc, overwritten, fault>>

\* apply: the environment saved in old_env is put back.
Return ==
  /\ Running
  /\ Depth > 1
  /\ scopes' = SubSeq(scopes, 1, Depth - 1)
  /\ UNCHANGED <<heapVars, allocated, reachable, untracked,
                 todo, pc, overwritten, fault>>
-----------------------------------------------------------------------------
\* What copy_recursive(a) reads is all allocated.
Intact(a) == Below(a, kids) \subseteq live

\* set of a name to a value, of which a is the one or the other: a, or a part
\* of it, was freed by a `set` that the evaluation made in between.
SetReadsFreed(a) ==
  /\ Running
  /\ ~ Intact(a)
  /\ fault' = "read"
  /\ UNCHANGED <<heapVars, allocated, reachable, untracked, scopes, todo, pc,
                 overwritten>>

\* set, to the value a, of a variable with no binding: a link to a copy of the
\* value is put before the current environment.
SetNew(a, n) ==
  LET link == top + n + 1 IN
  /\ Running
  /\ LocalSet \/ Depth = 1
  /\ Intact(a)
  /\ Room(n + 1)
  /\ top' = link
  /\ live' = live \cup Fresh(n + 1)
  /\ \E e \in Trees(n) :
       kids' = [b \in Addr |-> IF b \in Fresh(n) THEN e[b]
                               ELSE IF b = link THEN {Root(n), Scope.root}
                               ELSE kids[b]]
  /\ slot' = [slot EXCEPT ![link] = Root(n)]
  /\ scopes' = [scopes EXCEPT ![Depth] = [root  |-> link,
                                          links |-> @.links \cup {link}]]
  /\ UNCHANGED <<allocated, reachable, untracked, todo, pc, overwritten, fault>>

\* A mistake: the new value is stored without a copy.
SetOverwriteShares(i, l, a, n) ==
  LET v == slot[l]
      D == IF v = NULL THEN {} ELSE Below(v, kids)
  IN
  /\ Running
  /\ LocalSet \/ i = 1
  /\ l \in scopes[i].links
  /\ a \in Owned \ (D \cup Global.links)
  /\ live' = live \ D
  /\ kids' = [b \in Addr |-> IF b \in D THEN {}
                             ELSE IF b = l THEN (kids[l] \ {v}) \cup {a}
                             ELSE kids[b]]
  /\ slot' = [slot EXCEPT ![l] = a]
  /\ reachable' = reachable \ D
  /\ overwritten' = overwritten \cup D
  /\ UNCHANGED <<top, allocated, untracked, scopes, todo, pc, fault>>

\* A mistake: the old value is not disposed of.
SetOverwriteLeaks(i, l, a, n) ==
  /\ Running
  /\ LocalSet \/ i = 1
  /\ l \in scopes[i].links
  /\ Intact(a)
  /\ Room(n)
  /\ top' = Root(n)
  /\ live' = live \cup Fresh(n)
  /\ \E e \in Trees(n) :
       kids' = [b \in Addr |-> IF b \in Fresh(n) THEN e[b]
                               ELSE IF b = l
                                 THEN (kids[l] \ {slot[l]}) \cup {Root(n)}
                               ELSE kids[b]]
  /\ slot' = [slot EXCEPT ![l] = Root(n)]
  /\ UNCHANGED <<allocated, reachable, untracked, scopes, todo, pc, overwritten,
                 fault>>

\* set, to the value a, of a variable bound by the link l of a scope that is on
\* the stack: the value is copied, then the old one is disposed of recursively
\* and the copy stored.
SetOverwrite(i, l, a, n) ==
  LET v == slot[l]
      D == IF v = NULL THEN {} ELSE Below(v, kids)
      N == Fresh(n)
  IN
  /\ Running
  /\ LocalSet \/ i = 1
  /\ l \in scopes[i].links
  /\ Intact(a)
  /\ Room(n)
  /\ top' = Root(n)
  /\ live' = (live \ D) \cup N
  /\ \E e \in Trees(n) :
       kids' = [b \in Addr |-> IF b \in N THEN e[b]
                               ELSE IF b \in D THEN {}
                               ELSE IF b = l THEN (kids[l] \ {v}) \cup {Root(n)}
                               ELSE kids[b]]
  /\ slot' = [slot EXCEPT ![l] = Root(n)]
  /\ reachable' = reachable \ D
  /\ overwritten' = overwritten \cup D
  /\ FreeFault(~ (D \subseteq live /\ Disjoint(D, kids)))
  /\ UNCHANGED <<allocated, untracked, scopes, todo, pc>>
-----------------------------------------------------------------------------
\* A mistake: the flags that gc_add_recursive raised are not lowered.
ResetNothing ==
  /\ Running
  /\ Depth = 1
  /\ todo' = {Global.root}
  /\ FreeFault(~ (Tracked \subseteq live))
  /\ pc' = "mark"
  /\ UNCHANGED <<heapVars, allocated, reachable, untracked, scopes,
                 overwritten>>

\* collect_garbage, first loop: the flag of every object recorded is lowered.
Reset ==
  /\ Running
  /\ Depth = 1
  /\ reachable' = reachable \ Tracked
  /\ todo' = {Global.root}
  /\ FreeFault(~ (Tracked \subseteq live))
  /\ pc' = "mark"
  /\ UNCHANGED <<heapVars, allocated, untracked, scopes, overwritten>>

\* A mistake: what was visited is visited again.
MarkAgain(o) ==
  /\ pc = "mark" /\ NoFaultYet
  /\ o \in todo
  /\ todo' = todo \cup kids[o]
  /\ reachable' = reachable \cup {o}
  /\ FreeFault(o \notin live)
  /\ UNCHANGED <<heapVars, allocated, untracked, scopes, pc, overwritten>>

\* mark_recursive visits o, and turns back where the flag is raised already.
Mark(o) ==
  /\ pc = "mark" /\ NoFaultYet
  /\ o \in todo
  /\ IF o \in reachable
       THEN todo' = todo \ {o} /\ UNCHANGED reachable
       ELSE /\ todo' = (todo \ {o}) \cup kids[o]
            /\ reachable' = reachable \cup {o}
  /\ FreeFault(o \notin live)
  /\ UNCHANGED <<heapVars, allocated, untracked, scopes, pc, overwritten>>

\* A mistake: the entries of the objects freed stay in gc.allocated.
SweepKeepsEntries ==
  LET doomed == Tracked \ reachable IN
  /\ pc = "mark" /\ NoFaultYet
  /\ todo = {}
  /\ live' = live \ doomed
  /\ kids' = [a \in Addr |-> IF a \in doomed THEN {} ELSE kids[a]]
  /\ slot' = [a \in Addr |-> IF a \in doomed THEN NULL ELSE slot[a]]
  /\ FreeFault(\/ ~ (Tracked \subseteq live)
               \/ \E a \in doomed : allocated[a] > 1)
  /\ overwritten' = {}
  /\ pc' = "read"
  /\ UNCHANGED <<top, allocated, reachable, untracked, scopes, todo>>

\* A mistake: obj_cleanup disposes of the objects recursively.
SweepRecursive ==
  LET doomed == UNION {Below(a, kids) : a \in Tracked \ reachable} IN
  /\ pc = "mark" /\ NoFaultYet
  /\ todo = {}
  /\ live' = live \ doomed
  /\ kids' = [a \in Addr |-> IF a \in doomed THEN {} ELSE kids[a]]
  /\ slot' = [a \in Addr |-> IF a \in doomed THEN NULL ELSE slot[a]]
  /\ allocated' = [a \in Addr |-> IF a \in doomed THEN 0 ELSE allocated[a]]
  /\ FreeFault(~ (Tracked \subseteq live))
  /\ overwritten' = {}
  /\ pc' = "read"
  /\ UNCHANGED <<top, reachable, untracked, scopes, todo>>

\* cvec_filter(&gc->allocated, is_reachable): each entry whose object has its
\* flag down is removed and the object disposed of, not recursively.
Sweep ==
  LET doomed == Tracked \ reachable IN
  /\ pc = "mark" /\ NoFaultYet
  /\ todo = {}
  /\ live' = live \ doomed
  /\ kids' = [a \in Addr |-> IF a \in doomed THEN {} ELSE kids[a]]
  /\ slot' = [a \in Addr |-> IF a \in doomed THEN NULL ELSE slot[a]]
  /\ allocated' = [a \in Addr |-> IF a \in doomed THEN 0 ELSE allocated[a]]
  /\ FreeFault(\/ ~ (Tracked \subseteq live)
               \/ \E a \in doomed : allocated[a] > 1)
  /\ overwritten' = {}
  /\ pc' = "read"
  /\ UNCHANGED <<top, reachable, untracked, scopes, todo>>

\* interpret_program stops at the first expression that evaluates to NULL,
\* without collecting; the interpreter goes on with what follows.  What it
\* reads is not recorded.
Abandon ==
  /\ Running
  /\ Depth = 1
  /\ untracked # {}
  /\ pc' = "read"
  /\ UNCHANGED <<heapVars, allocated, reachable, untracked, scopes, todo,
                 overwritten, fault>>

\* A mistake: the environment is left.
DisposeKeepsEnvironment ==
  /\ pc = "read" /\ NoFaultYet
  /\ live' = live \ Tracked
  /\ allocated' = [a \in Addr |-> 0]
  /\ pc' = "done"
  /\ UNCHANGED <<top, kids, slot, reachable, untracked, scopes, todo,
                 overwritten, fault>>

\* interpreter_dispose: gc_dispose frees what is recorded, then the
\* environment is disposed of recursively.
Dispose ==
  LET D == Below(Global.root, kids) IN
  /\ pc = "read" /\ NoFaultYet
  /\ live' = live \ (Tracked \cup D)
  /\ kids' = [a \in Addr |-> IF a \in live' THEN kids[a] ELSE {}]
  /\ slot' = [a \in Addr |-> IF a \in live' THEN slot[a] ELSE NULL]
  /\ allocated' = [a \in Addr |-> 0]
  /\ FreeFault(\/ ~ (Tracked \cup D \subseteq live)
               \/ Tracked \cap D # {}
               \/ \E a \in Tracked : allocated[a] > 1
               \/ ~ Disjoint(D, kids))
  /\ pc' = "done"
  /\ UNCHANGED <<top, reachable, untracked, scopes, todo, overwritten>>

Collector == Reset \/ (\E o \in Addr : Mark(o)) \/ Sweep

Next ==
  \/ \E n \in 1 .. MaxTree, recorded \in BOOLEAN : Parse(n, recorded)
  \/ \E parts \in Parts : NewCell(parts)
  \/ \E n \in 1 .. MaxTree : NewTree(n)
  \/ Apply(<<>>)
  \/ \E v \in Held \cup {NULL} : Apply(<<v>>)
  \/ Return
  \/ \E a \in Held : SetReadsFreed(a)
  \/ \E a \in Held, n \in 1 .. MaxTree : SetNew(a, n)
  \/ \E i \in DOMAIN scopes, l \in Addr, a \in Held, n \in 1 .. MaxTree :
       SetOverwrite(i, l, a, n)
  \/ Collector
  \/ Abandon
  \/ Dispose

\* The program is sequential: a collection that has begun goes on.
Fairness == WF_vars(\E o \in Addr : Mark(o)) /\ WF_vars(Sweep)

Spec == Init /\ [][Next]_vars
FairSpec == Spec /\ Fairness
-----------------------------------------------------------------------------
(***************************************************************************)
(* Properties.                                                             *)
(***************************************************************************)
TypeOK ==
  /\ top \in 0 .. MaxObj
  /\ live \subseteq 1 .. top
  /\ kids \in [Addr -> SUBSET Addr]
  /\ slot \in [Addr -> Addr \cup {NULL}]
  /\ allocated \in [Addr -> Nat]
  /\ reachable \subseteq Addr
  /\ untracked \subseteq Addr
  /\ scopes \in Seq(Scopes)
  /\ Depth >= 1
  /\ todo \subseteq Addr
  /\ pc \in {"read", "eval", "mark", "done"}
  /\ overwritten \subseteq Addr
  /\ fault \in {"none", "free", "read"}

\* No object is freed twice, and neither the collector nor the disposal of an
\* overwritten value or of the interpreter touches one after it was freed.
NoFault == fault # "free"

\* A freed object is copied or looked up by `set` only where the same evaluation
\* has overwritten a variable before and goes on with what it held: what an
\* evaluation finds after a collection is all allocated.
ReadsOnlyOverwritten == fault = "read" => overwritten # {}

InUse == pc # "done"

\* Everything the environment points to belongs to it.
EnvHeld ==
  InUse => /\ Global.root \in Owned
           /\ Closed(Owned, kids)

\* The environment shares no object between two of its places.
EnvIsTree ==
  InUse => /\ Disjoint(Owned, kids)
           /\ \A a \in Owned : Global.root \notin kids[a]

\* Everything the environment points to, at any depth, belongs to it alone: it
\* is allocated, no collection will free it, and overwriting one variable
\* cannot free what another one still holds.
EnvOwned == EnvHeld /\ EnvIsTree

\* No object is lost: one that the collector does not know is reached from
\* the environment, so a later `set` or the disposal can free it.
NothingLost ==
  InUse => \A S \in SUBSET Owned :
             Global.root \in S /\ Closed(S, kids) => S = Owned

\* gc.allocated holds an object at most once, and only objects that are
\* allocated and that no one else frees.
RecordedOnce ==
  /\ Tracked \subseteq live
  /\ \A a \in Addr : allocated[a] <= 1
  /\ untracked \subseteq live \ Tracked

\* While the collector marks, it only visits objects of the environment, and
\* no recorded object is marked: the sweep frees every one of them.
MarkStaysInEnv ==
  pc = "mark" => /\ Depth = 1
                 /\ todo \subseteq Owned
                 /\ reachable \cap Tracked = {}

\* When the interpreter is gone, so is everything but the parsed expressions
\* of files and prompts, which nothing ever frees.
AllFreed == pc = "done" => live = untracked

Lifetimes == INSTANCE ObjectLifetimes
               WITH used  <- 1 .. top,
                    owned <- Owned,
                    temp  <- Tracked,
                    phase <- IF pc = "mark" THEN "eval" ELSE pc

\* The heap keeps the promise of include/garbage-collector.h.
KeepsLifetimes == Lifetimes!Spec

\* A collection comes to its end: mark_recursive returns even though the
\* flags of the environment are never lowered.
CollectionEnds == pc = "mark" ~> pc = "read"
=============================================================================
