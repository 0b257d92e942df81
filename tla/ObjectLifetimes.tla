-------------------------- MODULE ObjectLifetimes --------------------------
(***************************************************************************)
(* What the memory management of the interpreter promises, as the comment  *)
(* at the top of include/garbage-collector.h states it: an object is       *)
(* either held by the environment, or it is a temporary of the expression  *)
(* being evaluated.  Temporaries live until the evaluation is over and are *)
(* then freed all together; an object of the environment is freed only     *)
(* when `set` gives its variable another value.                            *)
(*                                                                         *)
(* Objects are named by a number that is never used twice, so that a freed *)
(* object cannot be mistaken for a later one.                              *)
(***************************************************************************)
EXTENDS Integers

CONSTANT MaxObj       \* how many objects a behaviour may allocate

VARIABLES
  used,               \* the objects ever allocated
  owned,              \* the objects held by the environment
  temp,               \* the objects recorded for the next collection
  untracked,          \* parsed expressions that nothing records
  phase               \* "read", "eval" or "done"

vars == <<used, owned, temp, untracked, phase>>

Objects == 1 .. MaxObj

\* The objects that a step allocates, each for the first time.
New == used' \ used

Grows == used \subseteq used' /\ used' \subseteq Objects

Init ==
  /\ owned \subseteq Objects
  /\ used = owned
  /\ temp = {}
  /\ untracked = {}
  /\ phase = "read"

\* An expression is read: interpret_expression records it for the next
\* collection, the file and the prompt readers do not.
Read ==
  /\ phase = "read"
  /\ Grows
  /\ \/ temp' = temp \cup New /\ UNCHANGED untracked
     \/ untracked' = untracked \cup New /\ UNCHANGED temp
  /\ phase' = "eval"
  /\ UNCHANGED owned

\* The evaluation allocates temporaries.
Allocate ==
  /\ phase = "eval"
  /\ Grows
  /\ temp' = temp \cup New
  /\ UNCHANGED <<owned, untracked, phase>>

\* A variable is given a value: the environment holds the new objects and
\* may only lose objects of its own, those of the value it held before.
Store ==
  /\ phase = "eval"
  /\ Grows
  /\ New \subseteq owned'
  /\ owned' \subseteq owned \cup New
  /\ UNCHANGED <<temp, untracked, phase>>

\* The evaluation is over: every temporary is freed and nothing else is.
Collect ==
  /\ phase = "eval"
  /\ temp' = {}
  /\ phase' = "read"
  /\ UNCHANGED <<used, owned, untracked>>

\* A program is abandoned at its first error, before the collection.
Abandon ==
  /\ phase = "eval"
  /\ phase' = "read"
  /\ UNCHANGED <<used, owned, temp, untracked>>

\* The interpreter is disposed of.
Dispose ==
  /\ phase = "read"
  /\ owned' = {}
  /\ temp' = {}
  /\ phase' = "done"
  /\ UNCHANGED <<used, untracked>>

Next == Read \/ Allocate \/ Store \/ Collect \/ Abandon \/ Dispose

Spec == Init /\ [][Next]_vars
=============================================================================
