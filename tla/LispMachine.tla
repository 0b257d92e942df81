---------------------------- MODULE LispMachine ----------------------------
(***************************************************************************)
(* The evaluator as the C code runs it: eval and apply of src/evaluator.c, *)
(* the primitives of src/primitives.c, closures (src/closure.c) and        *)
(* environments (src/environment.c), on objects in memory that are         *)
(* allocated, shared, overwritten and freed.  The interpreter is given the *)
(* expressions of a program one after the other, as interpret_expression   *)
(* gets them: each is parsed, evaluated, printed, and the garbage is       *)
(* collected.                                                              *)
(*                                                                         *)
(* An object has an address, which is never used again; the addresses from *)
(* 1 to Len(heap) have been allocated.  control is what the C function at  *)
(* the top of the call stack is doing, and stack the calls below it, the   *)
(* innermost first, each with the local variables it still needs.  A freed *)
(* object keeps its contents; touching one raises fault, and the behaviour *)
(* is followed no further.                                                 *)
(***************************************************************************)
EXTENDS LispEvaluation, FiniteSets

CONSTANTS
  Programs,      \* the programs, sequences of expressions
  Primitives(_)  \* the names bound in the initial environment of a program,
                 \* at least those that it uses

VARIABLES
  program,       \* the expressions still to be interpreted
  source,        \* the whole program
  heap, freed,
  env,           \* interpreter->env
  allocated,     \* the objects of gc.allocated
  reachable,     \* the objects whose flag is set
  control, stack,
  printed,       \* the values printed
  departed,      \* the code has done what its comments do not say: see Departs
  fault

vars == <<program, source, heap, freed, env, allocated, reachable, control,
          stack, printed, departed, fault>>

NULL == 0
Range(f) == {f[i] : i \in DOMAIN f}
-----------------------------------------------------------------------------
(***************************************************************************)
(* Objects.                                                                *)
(***************************************************************************)
Cell(t, name, ptrs) == [t |-> t, name |-> name, ptrs |-> ptrs]

Type(p) == IF p = NULL THEN "null" ELSE heap[p].t
Name(p) == heap[p].name
CAR(p)  == heap[p].ptrs[1]
CDR(p)  == heap[p].ptrs[2]
Params(p)    == heap[p].ptrs[1]
Procedure(p) == heap[p].ptrs[2]
Captured(p)  == heap[p].ptrs[3]

IsNil(p) == Type(p) = "list" /\ CAR(p) = NULL /\ CDR(p) = NULL
IsT(p)   == Type(p) = "atom" /\ Name(p) \in {"t", "true"}

\* The value that an object stands for.
RECURSIVE Show(_)
Show(p) ==
  IF p = NULL THEN Null
  ELSE Value(heap[p].t, heap[p].name,
             [i \in DOMAIN heap[p].ptrs |-> Show(heap[p].ptrs[i])])

\* What a recursive walk from p visits, in order: copy_recursive,
\* dispose_recursive, gc_add_recursive, unparse.
RECURSIVE Walk(_), WalkAll(_)
Walk(p) == IF p = NULL THEN <<>> ELSE <<p>> \o WalkAll(heap[p].ptrs)
WalkAll(ptrs) ==
  IF ptrs = <<>> THEN <<>> ELSE Walk(Head(ptrs)) \o WalkAll(Tail(ptrs))

\* The links of a list and what they hold.
RECURSIVE Links(_)
Links(p) == IF Type(p) # "list" THEN <<>> ELSE <<p>> \o Links(CDR(p))
Items(p) == [i \in DOMAIN Links(p) |-> CAR(Links(p)[i])]
NArgs(closure) == IF IsNil(Params(closure)) THEN 0 ELSE Len(Items(Params(closure)))

\* sublist
RECURSIVE Sublist(_, _)
Sublist(p, i) == IF i = 0 THEN p ELSE Sublist(CDR(p), i - 1)

\* new_object appended to a heap h; Put gives <<heap, address>>.
New(h, t, name, ptrs) == <<Append(h, Cell(t, name, ptrs)), Len(h) + 1>>

\* The number of objects of a value, and the objects, parts before wholes,
\* when their addresses follow n.
RECURSIVE Size(_), SizeAll(_), Cells(_, _), CellsAll(_, _)
Size(v) == IF v = Null THEN 0 ELSE 1 + SizeAll(v.parts)
SizeAll(parts) == IF parts = <<>> THEN 0 ELSE Size(Head(parts)) + SizeAll(Tail(parts))
Cells(v, n) ==
  IF v = Null THEN <<>>
  ELSE Append(CellsAll(v.parts, n),
              Cell(v.t, v.name,
                   [i \in DOMAIN v.parts |->
                      IF v.parts[i] = Null THEN NULL
                      ELSE n + SizeAll(SubSeq(v.parts, 1, i))]))
CellsAll(parts, n) ==
  IF parts = <<>> THEN <<>>
  ELSE Cells(Head(parts), n) \o CellsAll(Tail(parts), n + Size(Head(parts)))

\* A tree of objects for a value: what the parser and copy_recursive make.
Make(h, v) ==
  <<h \o Cells(v, Len(h)), IF v = Null THEN NULL ELSE Len(h) + Size(v)>>

Copy(h, p) == Make(h, Show(p))

\* Every object that h has and the heap has not.
Added(h) == (Len(heap) + 1) .. Len(h)

\* join_lists(list1, list2) in the heap h.
RECURSIVE LastLink(_, _)
LastLink(h, p) == IF h[p].ptrs[2] = NULL THEN p ELSE LastLink(h, h[p].ptrs[2])
Join(h, list1, list2) ==
  IF list1 = NULL THEN <<h, list2>>
  ELSE IF list2 = NULL THEN <<h, list1>>
  ELSE <<[h EXCEPT ![LastLink(h, list1)].ptrs[2] = list2], list1>>

\* lookup_pair: the pair that binds name, and the objects looked at.
RECURSIVE LookupPair(_, _), Looked(_, _)
LookupPair(name, e) ==
  IF e = NULL THEN NULL
  ELSE IF Name(CAR(CAR(e))) = name THEN CAR(e)
  ELSE LookupPair(name, CDR(e))
Looked(name, e) ==
  IF e = NULL THEN {}
  ELSE {e, CAR(e), CAR(CAR(e))} \cup
       (IF Name(CAR(CAR(e))) = name THEN {CDR(CAR(e))} ELSE Looked(name, CDR(e)))

PairValue(pair) == IF pair = NULL THEN NULL ELSE CAR(CDR(pair))

\* The values of an environment.
EnvironmentOf(e) == BindingsOf(Show(e))
-----------------------------------------------------------------------------
(***************************************************************************)
(* Control.                                                                *)
(***************************************************************************)
Eval(o)   == [op |-> "eval", v |-> o]
Return(v) == [op |-> "return", v |-> v]
Do(op, v) == [op |-> op, v |-> v]

Initials ==
  [p \in Programs |->
     PairsOf([i \in DOMAIN Primitives(p) |->
                Binding(Primitives(p)[i], Prim(Primitives(p)[i]))])]
Initial == Initials[source]

Init ==
  /\ source \in Programs
  /\ program = source
  /\ heap = Make(<<>>, Initial)[1]
  /\ env = Len(heap)
  /\ freed = {} /\ allocated = {} /\ reachable = {}
  /\ control = Do("read", NULL)
  /\ stack = <<>>
  /\ printed = <<>>
  /\ departed = FALSE
  /\ fault = FALSE

At(op) == control.op = op /\ ~ fault
o == control.v

\* The step reads the objects of S, and NULL is not one of them.
Touches(S) == fault' = (S \cap (freed \cup {NULL}) # {})

\* The step allocates what h has more than the heap, and records N of it.
Allocates(h, N) ==
  /\ heap' = h
  /\ allocated' = allocated \cup N

KeepsRest == UNCHANGED <<program, source, freed, env, reachable, printed>>
Keeps     == KeepsRest /\ UNCHANGED departed

\* Where b holds, the step is one of two that the comments do not describe: a
\* predicate that fails selects its clause in cond ("until one returns t",
\* primitives.c:218), and the result of an operation on a float becomes an int
\* ("A newly allocated number/float object", math-lib.h:28).
Departs(b) == departed' = (departed \/ b)

KeepsHeap == UNCHANGED <<heap, allocated>>

Top == Head(stack)
Push(frame) == stack' = <<frame>> \o stack
Pop == stack' = Tail(stack)
\* The innermost call is the one named k, and it is given a value.
Returns(k) == At("return") /\ stack # <<>> /\ Top.k = k

\* eval of an atom, of what evaluates to itself, and of a list.
EvalAtom ==
  /\ At("eval") /\ Type(o) = "atom"
  /\ control' = Return(IF IsT(o) THEN o ELSE PairValue(LookupPair(Name(o), env)))
  /\ Touches({o} \cup IF IsT(o) THEN {} ELSE Looked(Name(o), env))
  /\ UNCHANGED stack /\ Keeps /\ KeepsHeap

EvalSelf ==
  /\ At("eval") /\ (Type(o) \in {"null", "int", "float", "prim", "closure"} \/ IsNil(o))
  /\ control' = Return(o)
  /\ Touches({o} \ {NULL})
  /\ UNCHANGED stack /\ Keeps /\ KeepsHeap

EvalList ==
  /\ At("eval") /\ Type(o) = "list" /\ ~ IsNil(o)
  /\ Push([k |-> "apply", args |-> CDR(o)])
  /\ control' = Eval(CAR(o))
  /\ Touches({o})
  /\ Keeps /\ KeepsHeap
-----------------------------------------------------------------------------
(***************************************************************************)
(* apply.                                                                  *)
(***************************************************************************)
\* apply of what is neither a primitive nor a closure, of a closure to too
\* many arguments, or of a primitive to a wrong number of them.
WrongArgs(f, n) ==
  CASE Type(f) = "closure" -> n > NArgs(f)
    [] Type(f) = "prim"    ->
         \/ Name(f) \in {"quote", "atom", "car", "cdr"} /\ n # 1
         \/ Name(f) \in {"eq", "cons", "set"} \cup Arithmetics /\ n # 2
         \/ Name(f) = "env" /\ n # 0
         \/ Name(f) = "lambda" /\ n \notin {1, 2}
         \/ Name(f) = "defmacro"
    [] OTHER -> TRUE

Args == Items(Top.args)
ArgLinks == Range(Links(Top.args))

ApplyError ==
  /\ Returns("apply")
  /\ WrongArgs(o, Len(Args))
  /\ Pop
  /\ control' = Return(NULL)
  /\ Touches(IF Type(o) \in {"prim", "closure"} THEN {o} \cup ArgLinks ELSE {o} \ {NULL})
  /\ Keeps /\ KeepsHeap

Applies(name) ==
  /\ Returns("apply") /\ Type(o) = "prim" /\ Name(o) = name
  /\ ~ WrongArgs(o, Len(Args))

Quote ==
  /\ Applies("quote")
  /\ Pop
  /\ control' = Return(Args[1])
  /\ Touches({o} \cup ArgLinks)
  /\ Keeps /\ KeepsHeap

\* The primitives that begin by evaluating their first argument.
EvalFirst(name) ==
  /\ Applies(name)
  /\ stack' = <<IF name \in Arithmetics THEN [k |-> "number", by |-> name, args |-> Top.args]
                ELSE [k |-> name, args |-> Top.args]>> \o Tail(stack)
  /\ control' = Eval(Args[1])
  /\ Touches({o} \cup ArgLinks)
  /\ Keeps /\ KeepsHeap

Env ==
  /\ Applies("env")
  /\ Pop
  /\ control' = Return(env)
  /\ Touches({o})
  /\ Keeps /\ KeepsHeap

\* t and nil: what a predicate answers.
ReturnsTruth(b) ==
  LET c == IF b THEN New(heap, "atom", "t", <<>>) ELSE New(heap, "list", "", <<NULL, NULL>>)
  IN /\ Allocates(c[1], {c[2]})
     /\ control' = Return(c[2])

AtomReturn ==
  /\ Returns("atom")
  /\ Pop
  /\ ReturnsTruth(Type(o) \in {"atom", "int", "float"} \/ IsNil(o))
  /\ Touches({o} \ {NULL})
  /\ Keeps

\* car and cdr: of the empty list they make an empty list.
SelectReturn ==
  /\ Returns("car") \/ Returns("cdr")
  /\ Pop
  /\ IF Type(o) # "list" THEN control' = Return(NULL) /\ KeepsHeap
     ELSE LET part == IF Top.k = "car" THEN CAR(o) ELSE CDR(o) IN
          IF IsNil(o) \/ (Top.k = "cdr" /\ part = NULL)
            THEN ReturnsTruth(FALSE)
            ELSE control' = Return(part) /\ KeepsHeap
  /\ Touches({o} \ {NULL})
  /\ Keeps

\* eq and cons evaluate the second argument, keeping the value of the first.
FirstReturn ==
  /\ Returns("eq") \/ Returns("cons")
  /\ IF o = NULL
       THEN Pop /\ control' = Return(NULL) /\ fault' = FALSE
       ELSE /\ stack' = <<[k |-> "second", by |-> Top.k, first |-> o]>> \o Tail(stack)
            /\ control' = Eval(Args[2])
            /\ Touches(ArgLinks)
  /\ Keeps /\ KeepsHeap

\* compare: of two lists the pointers must be the same.
Compare(p, q) == heap[p] = heap[q]

EqReturn ==
  /\ Returns("second") /\ Top.by = "eq"
  /\ Pop
  /\ IF o = NULL THEN control' = Return(NULL) /\ KeepsHeap /\ fault' = FALSE
     ELSE ReturnsTruth(Compare(Top.first, o)) /\ Touches({Top.first, o})
  /\ Keeps

\* cons touches neither of the two objects that the new cell points to,
\* except to see that the second is a list.
ConsReturn ==
  /\ Returns("second") /\ Top.by = "cons"
  /\ Pop
  /\ IF Type(o) # "list" THEN control' = Return(NULL) /\ KeepsHeap
     ELSE LET c == New(heap, "list", "", <<Top.first, o>>) IN
          Allocates(c[1], {c[2]}) /\ control' = Return(c[2])
  /\ Touches({o} \ {NULL})
  /\ Keeps
-----------------------------------------------------------------------------
(***************************************************************************)
(* Arithmetic: the operations and comparisons of two numbers.              *)
(***************************************************************************)
\* The value of an argument must be a number, the first before the second is
\* evaluated.
NotANumber ==
  /\ Returns("number") \/ (Returns("second") /\ Top.by \in Arithmetics)
  /\ Type(o) \notin {"int", "float"}
  /\ Pop
  /\ control' = Return(NULL)
  /\ Touches({o} \ {NULL})
  /\ Keeps /\ KeepsHeap

FirstNumber ==
  /\ Returns("number") /\ Type(o) \in {"int", "float"}
  /\ stack' = <<[k |-> "second", by |-> Top.by, first |-> o]>> \o Tail(stack)
  /\ control' = Eval(Args[2])
  /\ Touches({o} \cup ArgLinks)
  /\ Keeps /\ KeepsHeap

BothNumbers == Returns("second") /\ Top.by \in Arithmetics /\ Type(o) \in {"int", "float"}

CompareNumbers ==
  /\ BothNumbers /\ Top.by \in Comparisons
  /\ Pop
  /\ ReturnsTruth(Holds(Top.by, heap[Top.first], heap[o]))
  /\ Touches({Top.first, o})
  /\ Keeps

\* apply_arithmetic: the end of the program, the end of all progress, or a new
\* number.
Calculate ==
  /\ BothNumbers /\ Top.by \in Operations
  /\ ~ Traps(Top.by, heap[Top.first], heap[o]) /\ ~ Loops(Top.by, heap[Top.first], heap[o])
  /\ Pop
  /\ LET c == New(heap, "int", Calculated(Top.by, heap[Top.first], heap[o]), <<>>) IN
     Allocates(c[1], {c[2]}) /\ control' = Return(c[2])
  /\ Touches({Top.first, o})
  /\ Departs("float" \in {Type(Top.first), Type(o)})
  /\ KeepsRest

CannotCalculate ==
  /\ BothNumbers
  /\ \/ /\ Traps(Top.by, heap[Top.first], heap[o])
        /\ control' = Do("trapped", NULL)
     \/ /\ Loops(Top.by, heap[Top.first], heap[o])
        /\ control' = Do("looping", NULL)
  /\ Touches({Top.first, o})
  /\ UNCHANGED stack /\ Keeps /\ KeepsHeap
-----------------------------------------------------------------------------
(***************************************************************************)
(* cond.                                                                   *)
(***************************************************************************)
Cond ==
  /\ Applies("cond")
  /\ Pop
  /\ control' = Do("cond", Top.args)
  /\ Touches({o})
  /\ Keeps /\ KeepsHeap

CondNone ==
  /\ At("cond") /\ o = NULL
  /\ ReturnsTruth(FALSE)
  /\ UNCHANGED <<stack, fault>> /\ Keeps

Clause == CAR(o)
WellFormed == Type(Clause) = "list" /\ Len(Items(Clause)) = 2

CondClause ==
  /\ At("cond") /\ o # NULL
  /\ IF WellFormed
       THEN Push([k |-> "cond", args |-> o]) /\ control' = Eval(CAR(Clause))
       ELSE UNCHANGED stack /\ control' = Return(NULL)
  /\ Touches({o} \cup Range(Links(Clause)))
  /\ Keeps /\ KeepsHeap

CondReturn ==
  LET expr == Items(CAR(Top.args))[2] IN
  /\ Returns("cond")
  /\ Pop
  /\ control' = IF Type(o) = "prim" THEN Return(NULL)
                ELSE IF IsNil(o) THEN Do("cond", CDR(Top.args))
                ELSE Eval(expr)
  /\ Touches({o, Top.args} \ {NULL})
  /\ Departs(o = NULL)
  /\ KeepsRest /\ KeepsHeap
-----------------------------------------------------------------------------
(***************************************************************************)
(* set and lambda.                                                         *)
(***************************************************************************)
SetName ==
  /\ Returns("set")
  /\ IF Type(o) # "atom" \/ IsT(o)
       THEN Pop /\ control' = Return(NULL) /\ Touches({o} \ {NULL})
       ELSE /\ stack' = <<[k |-> "set2", name |-> o]>> \o Tail(stack)
            /\ control' = Eval(Args[2])
            /\ Touches({o} \cup ArgLinks)
  /\ Keeps /\ KeepsHeap

SetFails ==
  /\ Returns("set2") /\ o = NULL
  /\ Pop
  /\ control' = Return(NULL)
  /\ UNCHANGED fault /\ Keeps /\ KeepsHeap

\* No value found: a link with copies of the name and of the value is put
\* before interpreter->env.
SetNew ==
  LET value == Copy(heap, o)
      second == New(value[1], "list", "", <<value[2], NULL>>)
      key   == Copy(second[1], Top.name)
      pair  == New(key[1], "list", "", <<key[2], second[2]>>)
      link  == New(pair[1], "list", "", <<pair[2], env>>)
  IN
  /\ Returns("set2") /\ o # NULL
  /\ LookupPair(Name(Top.name), env) = NULL
  /\ Pop
  /\ heap' = link[1]
  /\ env' = link[2]
  /\ control' = Return(o)
  /\ Touches(Range(Walk(o)) \cup {Top.name} \cup Looked(Name(Top.name), env))
  /\ UNCHANGED <<program, source, departed, freed, allocated, reachable, printed>>

\* A mistake: the old value is disposed of before the new one is copied.
DisposeThenCopy ==
  LET pair  == LookupPair(Name(Top.name), env)
      old   == Range(Walk(PairValue(pair)))
      value == Copy(heap, o)
  IN
  /\ Returns("set2") /\ o # NULL
  /\ pair # NULL
  /\ Pop
  /\ heap' = [value[1] EXCEPT ![CDR(pair)].ptrs[1] = value[2]]
  /\ freed' = freed \cup old
  /\ reachable' = reachable \ old
  /\ control' = Return(value[2])
  /\ fault' = ((Range(Walk(o)) \cup {Top.name}) \cap (freed \cup old) # {})
  /\ UNCHANGED <<program, source, departed, env, allocated, printed>>

\* Otherwise the old value is disposed of, after the new one was copied.
SetOverwrite ==
  LET pair  == LookupPair(Name(Top.name), env)
      old   == Walk(PairValue(pair))
      value == Copy(heap, o)
  IN
  /\ Returns("set2") /\ o # NULL
  /\ pair # NULL
  /\ Pop
  /\ heap' = [value[1] EXCEPT ![CDR(pair)].ptrs[1] = value[2]]
  /\ freed' = freed \cup Range(old)
  /\ reachable' = reachable \ Range(old)
  /\ control' = Return(value[2])
  /\ fault' = \/ Range(old) \cap freed # {}
              \/ Cardinality(Range(old)) # Len(old)
              \/ (Range(Walk(o)) \cup {Top.name} \cup Looked(Name(Top.name), env))
                   \cap freed # {}
  /\ UNCHANGED <<program, source, departed, env, allocated, printed>>

\* capture_variables: copies of the pairs that bind the atoms of procedure p,
\* each put before those found already.
RECURSIVE CaptureVariables(_, _, _)
CaptureVariables(p, params, captured) ==
  IF Type(p) = "atom" THEN
    LET pair == LookupPair(Name(p), env) IN
    IF \/ Bound(BindingsOf(captured), Name(p))
       \/ \E q \in Range(Items(params)) : q # NULL /\ Name(q) = Name(p)
       \/ pair = NULL
      THEN captured
      ELSE Cons(Show(pair), captured)
  ELSE IF Type(p) = "list" THEN
    CaptureVariables(CDR(p), params, CaptureVariables(CAR(p), params, captured))
  ELSE captured

\* lambda copies its arguments and the pairs it captures; all of the closure
\* is recorded.
GoodParams(p) ==
  /\ Type(p) = "list"
  /\ \A i \in DOMAIN Items(p) :
       Items(p)[i] = NULL \/ (Type(Items(p)[i]) = "atom" /\ ~ IsT(Items(p)[i]))

BadLambda == Len(Args) # 2 \/ ~ GoodParams(Args[1])

LambdaError ==
  /\ Applies("lambda") /\ BadLambda
  /\ Pop
  /\ control' = Return(NULL)
  /\ Touches({o} \cup ArgLinks)
  /\ Keeps /\ KeepsHeap

MakeLambda ==
  LET params    == Args[1]
      procedure == Args[2]
      captured  == CaptureVariables(procedure, params, Null)
      c == Make(heap, Closure(Show(params), Show(procedure), captured))
  IN
  /\ Applies("lambda") /\ ~ BadLambda
  /\ Pop
  /\ Allocates(c[1], Added(c[1]))
  /\ reachable' = reachable \cup Added(c[1])
  /\ control' = Return(c[2])
  /\ Touches({o} \cup ArgLinks \cup Range(WalkAll(Args))
              \cup UNION {Range(Walk(LookupPair(b.name, env))) :
                            b \in Range(BindingsOf(captured))})
  /\ UNCHANGED <<program, source, departed, freed, env, printed>>
-----------------------------------------------------------------------------
(***************************************************************************)
(* The application of a closure.  associate evaluates the arguments, first *)
(* to last, and pairs each value with a name; the links of the frame are   *)
(* made on the way back.                                                   *)
(***************************************************************************)
Frame(f, names, args, pairs, partial) ==
  [k |-> "associate", closure |-> f, names |-> names, args |-> args,
   pairs |-> pairs, partial |-> partial]

\* apply, and closure_partial_application: the parameters that are left, the
\* procedure and the captured variables are copied before the arguments are
\* evaluated.
ApplyClosureBegin ==
  LET n == Len(Args)
      rest == Copy(heap, Sublist(Params(o), n))
      proc == Copy(rest[1], Procedure(o))
      capt == Copy(proc[1], Captured(o))
      partial == n < NArgs(o)
  IN
  /\ Returns("apply") /\ Type(o) = "closure"
  /\ n <= NArgs(o)
  /\ control' = Do("associate", NULL)
  /\ stack' = <<Frame(o, Params(o), Top.args, <<>>,
                      IF partial THEN <<rest[2], proc[2], capt[2]>> ELSE <<>>)>>
              \o Tail(stack)
  /\ IF partial THEN /\ Allocates(capt[1], Added(capt[1]))
                     /\ reachable' = reachable \cup Added(capt[1])
                ELSE KeepsHeap /\ UNCHANGED reachable
  /\ Touches({o} \cup ArgLinks \cup Range(Links(Params(o)))
             \cup IF partial THEN Range(Walk(o)) ELSE {})
  /\ UNCHANGED <<program, source, departed, freed, env, printed>>

MoreArgs == Type(Top.names) = "list" /\ Type(Top.args) = "list"

AssociateNext ==
  /\ At("associate") /\ MoreArgs
  /\ control' = Eval(CAR(Top.args))
  /\ Touches({Top.names, Top.args})
  /\ UNCHANGED stack /\ Keeps /\ KeepsHeap

\* A mistake: only the first cell of a pair is recorded.
RecordsPairOnly ==
  LET second == New(heap, "list", "", <<o, NULL>>)
      pair   == New(second[1], "list", "", <<CAR(Top.names), second[2]>>)
  IN
  /\ Returns("associate")
  /\ Allocates(pair[1], {pair[2]})
  /\ stack' = <<[Top EXCEPT !.names = CDR(@), !.args = CDR(@),
                            !.pairs = Append(@, pair[2])]>> \o Tail(stack)
  /\ control' = Do("associate", NULL)
  /\ Touches({Top.names, Top.args})
  /\ Keeps

AssociateReturn ==
  LET second == New(heap, "list", "", <<o, NULL>>)
      pair   == New(second[1], "list", "", <<CAR(Top.names), second[2]>>)
  IN
  /\ Returns("associate")
  /\ Allocates(pair[1], {second[2], pair[2]})
  /\ stack' = <<[Top EXCEPT !.names = CDR(@), !.args = CDR(@),
                            !.pairs = Append(@, pair[2])]>> \o Tail(stack)
  /\ control' = Do("associate", NULL)
  /\ Touches({Top.names, Top.args})
  /\ Keeps

\* new_list_set(pair, cdr) for the pairs, the last one first.
RECURSIVE LinkPairs(_, _, _)
LinkPairs(h, pairs, cdr) ==
  IF pairs = <<>> THEN <<h, cdr>>
  ELSE LET rest == LinkPairs(h, Tail(pairs), cdr) IN
       New(rest[1], "list", "", <<Head(pairs), rest[2]>>)

\* A mistake: the captured variables are left out, so that the body sees the
\* variables of its caller.
BindDynamically ==
  LET frame == LinkPairs(heap, Top.pairs, NULL)
      bound == Join(frame[1], frame[2], env)
  IN
  /\ At("associate") /\ ~ MoreArgs /\ Top.partial = <<>>
  /\ Allocates(bound[1], Added(bound[1]))
  /\ env' = bound[2]
  /\ stack' = <<[k |-> "body", env |-> env]>> \o Tail(stack)
  /\ control' = Eval(Procedure(Top.closure))
  /\ Touches({Top.closure})
  /\ UNCHANGED <<program, source, departed, freed, reachable, printed>>

\* apply: the frame goes before interpreter->env as it is now, a copy of the
\* captured variables goes before the frame, and the body is evaluated.
EnterBody ==
  LET f     == Top.closure
      frame == LinkPairs(heap, Top.pairs, NULL)
      bound == Join(frame[1], frame[2], env)
      capt  == Make(bound[1], Show(Captured(f)))
      whole == Join(capt[1], capt[2], bound[2])
  IN
  /\ At("associate") /\ ~ MoreArgs /\ Top.partial = <<>>
  /\ Allocates(whole[1], Added(whole[1]))
  /\ reachable' = reachable \cup (Len(bound[1]) + 1) .. Len(capt[1])
  /\ env' = whole[2]
  /\ stack' = <<[k |-> "body", env |-> env]>> \o Tail(stack)
  /\ control' = Eval(Procedure(f))
  /\ Touches({f} \cup Range(Walk(Captured(f))))
  /\ UNCHANGED <<program, source, departed, freed, printed>>

LeaveBody ==
  /\ Returns("body")
  /\ env' = Top.env
  /\ Pop
  /\ UNCHANGED <<program, source, departed, heap, freed, allocated, reachable, control,
                 printed, fault>>

PartialClosure ==
  LET new      == LinkPairs(heap, Top.pairs, NULL)
      captured == Join(new[1], new[2], Top.partial[3])
      c == New(captured[1], "closure", "", <<Top.partial[1], Top.partial[2], captured[2]>>)
  IN
  /\ At("associate") /\ ~ MoreArgs /\ Top.partial # <<>>
  /\ Allocates(c[1], Added(c[1]))
  /\ Pop
  /\ control' = Return(c[2])
  /\ Touches(Range(Links(Top.partial[1])))
  /\ Keeps
-----------------------------------------------------------------------------
(***************************************************************************)
(* interpret_expression.                                                   *)
(***************************************************************************)
ReadExpression ==
  LET m == Make(heap, Head(program)) IN
  /\ At("read") /\ program # <<>>
  /\ program' = Tail(program)
  /\ Allocates(m[1], Added(m[1]))
  /\ reachable' = reachable \cup Added(m[1])
  /\ control' = Eval(m[2])
  /\ UNCHANGED <<source, departed, freed, env, stack, printed, fault>>

\* eval has returned to interpret_expression.
Finished == At("return") /\ stack = <<>>

\* What unparse reads of an object.
RECURSIVE Unparsed(_)
Unparsed(p) ==
  IF p = NULL THEN {}
  ELSE {p} \cup
       IF Type(p) = "closure" THEN Unparsed(Params(p)) \cup Range(Links(Captured(p)))
       ELSE UNION {Unparsed(q) : q \in Range(heap[p].ptrs)}

PrintResult ==
  /\ Finished
  /\ printed' = Append(printed, Show(o))
  /\ control' = Do("collect", NULL)
  /\ Touches(Unparsed(o))
  /\ UNCHANGED <<program, source, departed, heap, freed, env, allocated, reachable, stack>>

\* mark_recursive from p, where the objects of R are marked already.
RECURSIVE Mark(_, _), MarkAll(_, _)
Mark(p, R) == IF p = NULL \/ p \in R THEN R ELSE MarkAll(heap[p].ptrs, R \cup {p})
MarkAll(ptrs, R) == IF ptrs = <<>> THEN R ELSE MarkAll(Tail(ptrs), Mark(Head(ptrs), R))

\* A mistake: the references to what was freed are kept in the vector.
CollectKeepsReferences ==
  LET marked == Mark(env, reachable \ allocated) IN
  /\ At("collect")
  /\ reachable' = marked
  /\ freed' = freed \cup (allocated \ marked)
  /\ control' = Do("read", NULL)
  /\ UNCHANGED <<program, source, departed, heap, env, allocated, stack, printed, fault>>

CollectGarbage ==
  LET lowered == reachable \ allocated
      marked  == Mark(env, lowered)
      doomed  == allocated \ marked
  IN
  /\ At("collect")
  /\ reachable' = marked \ doomed
  /\ freed' = freed \cup doomed
  /\ allocated' = allocated \ doomed
  /\ fault' = ((allocated \cup (marked \ lowered)) \cap freed # {})
  /\ control' = Do("read", NULL)
  /\ UNCHANGED <<program, source, departed, heap, env, stack, printed>>

\* interpreter_dispose
Dispose ==
  LET tree == Walk(env) IN
  /\ At("read") /\ program = <<>>
  /\ freed' = freed \cup allocated \cup Range(tree)
  /\ fault' = \/ (allocated \cup Range(tree)) \cap freed # {}
              \/ allocated \cap Range(tree) # {}
              \/ Cardinality(Range(tree)) # Len(tree)
  /\ allocated' = {}
  /\ control' = Do("done", NULL)
  /\ UNCHANGED <<program, source, departed, heap, env, reachable, stack, printed>>

\* The end, a trap or a loop in a calculation; any other state without a step
\* would be a deadlock.
Ended == (At("done") \/ At("trapped") \/ At("looping")) /\ UNCHANGED vars

Next ==
  \/ EvalAtom \/ EvalSelf \/ EvalList
  \/ ApplyError \/ Quote \/ Env
  \/ \E name \in {"atom", "eq", "car", "cdr", "cons", "set"} \cup Arithmetics :
       EvalFirst(name)
  \/ AtomReturn \/ SelectReturn \/ FirstReturn \/ EqReturn \/ ConsReturn
  \/ NotANumber \/ FirstNumber \/ CompareNumbers \/ Calculate \/ CannotCalculate
  \/ Cond \/ CondNone \/ CondClause \/ CondReturn
  \/ SetName \/ SetFails \/ SetNew \/ SetOverwrite
  \/ LambdaError \/ MakeLambda
  \/ ApplyClosureBegin \/ AssociateNext \/ AssociateReturn
  \/ EnterBody \/ LeaveBody \/ PartialClosure
  \/ ReadExpression \/ PrintResult \/ CollectGarbage \/ Dispose \/ Ended

Spec == Init /\ [][Next]_vars
-----------------------------------------------------------------------------
(***************************************************************************)
(* Properties.                                                             *)
(***************************************************************************)
Addresses == 1 .. Len(heap)
Pointers  == 0 .. Len(heap)

\* Every pointer is NULL or the address of an object, and what the collector
\* keeps of objects concerns objects that were allocated.
TypeOK ==
  /\ \A p \in Addresses :
       /\ heap[p].t \in {"atom", "int", "float", "prim", "list", "closure"}
       /\ Len(heap[p].ptrs) = IF heap[p].t = "list" THEN 2
                              ELSE IF heap[p].t = "closure" THEN 3 ELSE 0
       /\ Range(heap[p].ptrs) \subseteq Pointers
  /\ env \in Addresses /\ o \in Pointers
  /\ departed \in BOOLEAN
  /\ freed \subseteq Addresses
  /\ allocated \subseteq Addresses \ freed
  /\ reachable \subseteq Addresses

\* The evaluator never touches an object that was freed or a NULL pointer, and
\* nothing is freed twice: through every set that overwrites a value in use,
\* every copy that shares, and every collection.
NoFault == ~ fault

\* Between two expressions, what has been printed is what the expressions
\* mean, and so are the values that the variables have now: nested and partial
\* applications, captured variables that shadow, and a set that overwrites,
\* in the environment as in the value that the reference evaluator gives.  Of
\* a program in which the code departs from its comments it says this up to
\* the expression that does so.
Faithful ==
  At("read") /\ ~ departed =>
    LET n == Len(source) - Len(program)
        meant == Run(SubSeq(source, 1, n), BindingsOf(Initial), <<>>)
    IN printed = meant.values /\ EnvironmentOf(env) = meant.env

\* Between two expressions the only objects in memory are those of the
\* environment (garbage-collector.h:14-19), each of them there once: no frame,
\* captured copy or parsed expression is left, and no binding shares another's.
\* When the interpreter has been disposed of there are none.
OnlyEnvironment ==
  /\ At("read") =>
       LET tree == Walk(env) IN
       /\ Addresses \ freed = Range(tree)
       /\ Cardinality(Range(tree)) = Len(tree)
  /\ At("done") => freed = Addresses

\* Nothing that a program has evaluated is in the result when it is printed
\* and has been freed ("to ensure that no objects are destroyed that are
\* contained within the final result", garbage-collector.h:21-23).
ResultIntact == Finished => Unparsed(o) \cap freed = {}
=============================================================================
