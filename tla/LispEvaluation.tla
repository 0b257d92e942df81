--------------------------- MODULE LispEvaluation ---------------------------
(***************************************************************************)
(* What a Lisp program means: an evaluator that works on values instead of *)
(* objects in memory.  It is the reference that LispMachine, the model of  *)
(* the C code, is compared with.                                           *)
(***************************************************************************)
EXTENDS LispValues, Arithmetic

\* The sequence of a list, and that of a closure's parameters.
RECURSIVE Elements(_)
Elements(v) == IF ~ IsList(v) THEN <<>> ELSE <<CarOf(v)>> \o Elements(CdrOf(v))

Parameters(f) == IF f.parts[1] = Nil THEN <<>> ELSE Elements(f.parts[1])
-----------------------------------------------------------------------------
(***************************************************************************)
(* The environment is a sequence of bindings, the innermost first.         *)
(***************************************************************************)
Binding(name, v) == [name |-> name, value |-> v]

Positions(env, name) == {i \in DOMAIN env : env[i].name = name}
Bound(env, name)     == Positions(env, name) # {}
First(env, name)     == CHOOSE i \in Positions(env, name) :
                          \A j \in Positions(env, name) : i <= j
Lookup(env, name)    == IF Bound(env, name) THEN env[First(env, name)].value
                                            ELSE Null

\* What follows evaluating to v in env.
Result(v, env) == [v |-> v, env |-> env]
Fail(env) == Result(Null, env)

\* A list of pairs, as closures keep their captured variables, and back.
PairsOf(bindings) ==
  List([i \in DOMAIN bindings |->
          List(<<Atom(bindings[i].name), bindings[i].value>>)])
BindingsOf(pairs) ==
  LET s == Elements(pairs) IN
  [i \in DOMAIN s |-> Binding(CarOf(s[i]).name, CarOf(CdrOf(s[i])))]

\* The variables of a procedure that have a value where the lambda expression
\* is evaluated, except the parameters; the one found last comes first.
RECURSIVE Capture(_, _, _, _)
Capture(v, params, env, found) ==
  IF IsAtom(v) THEN
    IF Bound(found, v.name) \/ v \in {params[i] : i \in DOMAIN params}
       \/ ~ Bound(env, v.name)
      THEN found
      ELSE <<Binding(v.name, Lookup(env, v.name))>> \o found
  ELSE IF IsList(v) THEN
    Capture(CdrOf(v), params, env, Capture(CarOf(v), params, env, found))
  ELSE found

Truth(b) == IF b THEN Atom("t") ELSE Nil

\* eq: the parts of lists are compared as pointers, which a value has not;
\* this says what it answers of atoms, primitives and empty lists.
Equal(v, w) == v = w
-----------------------------------------------------------------------------
RECURSIVE Evaluate(_, _), Apply(_, _, _), Bind(_, _, _, _), Choose(_, _)

Evaluate(v, env) ==
  IF IsAtom(v) /\ ~ IsTrue(v) THEN Result(Lookup(env, v.name), env)
  ELSE IF IsList(v) /\ v # Nil THEN
    LET f == Evaluate(CarOf(v), env) IN Apply(f.v, Elements(CdrOf(v)), f.env)
  ELSE Result(v, env)

\* The values of args, each bound to its parameter, in the order in which
\* they are evaluated.  An argument that fails is bound to Null.
Bind(params, args, env, done) ==
  IF args = <<>> THEN [bindings |-> done, env |-> env]
  ELSE LET a == Evaluate(Head(args), env) IN
       Bind(Tail(params), Tail(args), a.env,
            Append(done, Binding(Head(params).name, a.v)))

\* cond.  Any value but the empty list counts as true (eval-test.c:244-245); a
\* predicate that fails has none, and cond fails with it.
Choose(clauses, env) ==
  IF clauses = <<>> THEN Result(Nil, env)
  ELSE
    LET clause == Elements(Head(clauses)) IN
    IF Len(clause) # 2 THEN Fail(env)
    ELSE LET p == Evaluate(clause[1], env) IN
         IF p.v = Null \/ p.v.t = "prim" THEN Fail(p.env)
         ELSE IF p.v = Nil THEN Choose(Tail(clauses), p.env)
         ELSE Evaluate(clause[2], p.env)

ApplyClosure(f, args, env) ==
  LET params == Parameters(f)
      bound  == Bind(params, args, env, <<>>)
      capt   == BindingsOf(f.parts[3])
  IN
  IF Len(args) > Len(params) THEN Fail(env)
  ELSE IF Len(args) < Len(params) THEN
    Result(Closure(List(SubSeq(params, Len(args) + 1, Len(params))), f.parts[2],
                   PairsOf(bound.bindings \o capt)),
           bound.env)
  ELSE
    LET body  == Evaluate(f.parts[2], capt \o bound.bindings \o bound.env)
        extra == Len(body.env) - Len(bound.env)
    IN \* the bindings of the application, and those made in it, are gone
    Result(body.v, SubSeq(body.env, extra + 1, Len(body.env)))

SetVariable(name, v, env) ==
  IF name = Null \/ name = Nil \/ IsTrue(name) \/ ~ IsAtom(name) \/ v = Null THEN Fail(env)
  ELSE IF Bound(env, name.name)
    THEN Result(v, [env EXCEPT ![First(env, name.name)].value = v])
    ELSE Result(v, <<Binding(name.name, v)>> \o env)

Lambda(args, env) ==
  LET params == args[1]
      names  == IF params = Nil THEN <<>> ELSE Elements(params)
  IN
  IF Len(args) # 2 THEN Fail(env)
  ELSE IF \/ ~ IsList(params)
          \/ \E i \in DOMAIN names : ~ IsAtom(names[i]) \/ IsTrue(names[i])
    THEN Fail(env)
  ELSE Result(Closure(params, args[2],
                      PairsOf(Capture(args[2], names, env, <<>>))), env)

\* The primitives that evaluate one argument, or two, and then compute.
Unary(name, v) ==
  IF name = "atom" THEN Truth(IsAtom(v) \/ IsNumber(v) \/ v = Nil)
  ELSE IF ~ IsList(v) THEN Null
  ELSE IF v = Nil THEN Nil
  ELSE IF name = "car" THEN CarOf(v)
  ELSE IF CdrOf(v) = Null THEN Nil ELSE CdrOf(v)

Binary(name, v, w) ==
  IF name = "eq" THEN Truth(Equal(v, w))
  ELSE IF IsList(w) THEN Cons(v, w) ELSE Null

\* The value of an operation that has one; the machine stops in the others.  A
\* float makes the result a float, whose numeral this leaves open: nothing is
\* compared with it.
Computed(op, v, w) ==
  IF op \in Comparisons THEN Truth(Holds(op, v, w))
  ELSE IF "float" \in {v.t, w.t} THEN Value("float", "", <<>>)
  ELSE Value("int", Calculated(op, v, w), <<>>)

Apply(f, args, env) ==
  LET n == Len(args)
      a == Evaluate(args[1], env)
      b == Evaluate(args[2], a.env)
  IN
  IF f.t = "closure" THEN ApplyClosure(f, args, env)
  ELSE IF f.t # "prim" THEN Fail(env)
  ELSE IF f.name = "cond" THEN Choose(args, env)
  ELSE IF f.name = "lambda" THEN Lambda(args, env)
  ELSE IF f.name = "env" /\ n = 0 THEN Result(PairsOf(env), env)
  ELSE IF f.name = "quote" /\ n = 1 THEN Result(args[1], env)
  ELSE IF f.name \in {"atom", "car", "cdr"} /\ n = 1
    THEN Result(Unary(f.name, a.v), a.env)
  ELSE IF f.name \in {"eq", "cons"} /\ n = 2 THEN
    IF a.v = Null THEN Fail(a.env)
    ELSE IF b.v = Null THEN Fail(b.env)
    ELSE Result(Binary(f.name, a.v, b.v), b.env)
  ELSE IF f.name \in Arithmetics /\ n = 2 THEN
    IF ~ IsNumber(a.v) THEN Fail(a.env)
    ELSE IF ~ IsNumber(b.v) THEN Fail(b.env)
    ELSE Result(Computed(f.name, a.v, b.v), b.env)
  ELSE IF f.name = "set" /\ n = 2 THEN
    IF ~ IsAtom(a.v) \/ IsTrue(a.v) THEN Fail(a.env)
    ELSE SetVariable(a.v, b.v, b.env)
  ELSE Fail(env)

\* The values of a program, one after the other, and the environment after it.
RECURSIVE Run(_, _, _)
Run(program, env, values) ==
  IF program = <<>> THEN [values |-> values, env |-> env]
  ELSE LET r == Evaluate(Head(program), env) IN
       Run(Tail(program), r.env, Append(values, r.v))
=============================================================================
