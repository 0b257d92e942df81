--------------------------- MODULE MCLispMachine ---------------------------
(***************************************************************************)
(* Programs for LispMachine.  They are written the way the parser gives    *)
(* them to the evaluator: 'e is (quote e).                                 *)
(***************************************************************************)
EXTENDS LispMachine

Symbol(name)   == Atom(name)
Call(f, args)  == List(<<Symbol(f)>> \o args)
Use(f, args)   == List(<<f>> \o args)
Quoted(v)      == Call("quote", <<v>>)
Word(name)     == Quoted(Atom(name))
Lam(params, body) ==
  Call("lambda", <<IF params = <<>> THEN Nil
                   ELSE List([i \in DOMAIN params |-> Symbol(params[i])]),
                   body>>)
Set(name, e) == Call("set", <<Word(name), e>>)

x == Symbol("x")
y == Symbol("y")
v == Symbol("v")
w == Symbol("w")
AB == Quoted(List(<<Atom("a"), Atom("b")>>))

\* The environment that init_env makes, and as much of it as a program uses:
\* all of it where the program asks for it.
Library ==
  <<"+", "-", "*", "/", "%", "=", ">", ">=", "<", "<=",
    "quote", "atom", "eq", "car", "cdr", "cons", "cond", "set", "env", "lambda",
    "defmacro">>

RECURSIVE NamesIn(_)
NamesIn(e) ==
  IF IsAtom(e) THEN {e.name} ELSE UNION {NamesIn(e.parts[i]) : i \in DOMAIN e.parts}

MCPrimitives(p) ==
  LET used == UNION {NamesIn(p[i]) : i \in DOMAIN p}
      Used(name) == name \in used \/ "env" \in used
  IN SelectSeq(Library, Used)

\* Every test program begins with (set 'x '(a b)); y has no value.
Begin == Set("x", AB)
-----------------------------------------------------------------------------
\* Expressions without variables of their own.
Simple == {x, y, Nil, Symbol("t"), Symbol("car"), Word("a"), AB}

Selections == {Call(f, <<e>>) : f \in {"quote", "atom", "car", "cdr"}, e \in Simple}

Constructions ==
  {Call(f, <<e, d>>) : f \in {"cons", "eq"}, e \in {x, y, Nil, Word("a")},
                       d \in {x, y, Nil, Word("a")}}

Conditions ==
  {Call("cond", <<List(<<p, Word("a")>>), List(<<q, x>>)>>) :
     p \in Simple, q \in {Symbol("t"), Nil}}

Mistakes ==
  { Call("car", <<>>), Call("cons", <<x>>), Call("defmacro", <<x, x>>),
    Call("env", <<x>>), Call("cond", <<>>), Call("cond", <<x>>), Call("cond", <<List(<<x>>)>>), Call("cond", <<Nil>>),
    Call("cond", <<Word("a")>>), Call("lambda", <<Nil>>), Call("lambda", <<x, x>>),
    Lam(<<"t">>, x), Call("lambda", <<List(<<Nil>>), x>>), Use(Word("a"), <<x>>),
    Use(AB, <<>>), Call("set", <<Nil, x>>), Call("set", <<Symbol("t"), x>>),
    Call("set", <<x, x>>), Set("x", y), Call("set", <<Word("x")>>) }

\* Closures of two parameters at most, given two arguments at most.
Bodies ==
  { v, x, Call("cons", <<v, x>>), Lam(<<"w">>, Call("cons", <<v, w>>)),
    Lam(<<"v">>, v), Call("set", <<v, Word("c")>>) }

Applications ==
  {Use(Lam(params, body), args) :
     params \in {<<>>, <<"v">>, <<"v", "w">>}, body \in Bodies,
     args \in {<<>>} \cup {<<a>> : a \in {x, y, Word("x")}}
                     \cup {<<a, b>> : a \in {x, Word("x")}, b \in {y, Word("b")}}}

\* A closure is made by an application and is applied, once or argument by
\* argument.
Curried ==
  {Use(Use(Lam(<<"v">>, Lam(<<"w">>, Call("cons", <<e, d>>))), <<a>>), <<x>>) :
     e \in {v, w}, d \in {v, w, x}, a \in {x, Word("a")}}
  \cup
  {Use(Use(Lam(<<"v", "w">>, Call("cons", <<e, d>>)), <<a>>), <<x>>) :
     e \in {v, w}, d \in {v, w, x}, a \in {x, Word("a")}}

Expressions ==
  Simple \cup Selections \cup Constructions \cup Conditions \cup Mistakes
    \cup Applications \cup Curried \cup {Call("env", <<>>)}

\* One expression, and then x.
OneExpression == {<<Begin, e, x>> : e \in Expressions}
-----------------------------------------------------------------------------
\* Sequences of changes to the environment: new variables, values that share
\* with the value they replace, closures kept and applied in later expressions.
Changes ==
  { Set("x", Call("cdr", <<x>>)), Set("x", Call("cons", <<Word("c"), x>>)),
    Set("x", x), Set("x", Word("x")), Set("y", x), Set("x", y),
    Set("y", Lam(<<"v">>, Call("cons", <<v, x>>))),
    Set("x", Call("y", <<Word("a")>>)),
    Use(Lam(<<"v">>, Call("set", <<v, AB>>)), <<Word("x")>>) }

Histories == {<<Begin, c, d, e>> : c \in Changes, d \in Changes, e \in Changes}

\* (set 'last (lambda (l) (cond ((atom (cdr l)) (car l)) (t (last (cdr l))))))
Last ==
  LET l == Symbol("l") IN
  Set("last",
      Lam(<<"l">>,
          Call("cond",
               <<List(<<Call("atom", <<Call("cdr", <<l>>)>>), Call("car", <<l>>)>>),
                 List(<<Symbol("t"), Call("last", <<Call("cdr", <<l>>)>>)>>)>>)))

\* A procedure that calls itself, and the same defined again, so that it has
\* captured the first; a procedure applied to itself.
Recursions ==
  { <<Begin, Last, Call("last", <<x>>)>>,
    <<Begin, Last, Last, Call("last", <<x>>), Set("last", x), Call("last", <<x>>)>>,
    <<Begin, Set("x", Lam(<<"v">>, Lam(<<"w">>, Use(v, <<w>>)))),
      Use(Use(x, <<Symbol("car")>>), <<AB>>),
      Use(Use(x, <<x>>), <<Symbol("cdr")>>),
      Use(Use(Use(x, <<x>>), <<Symbol("cdr")>>), <<AB>>)>> }

-----------------------------------------------------------------------------
Integer(n) == Value("int", Numeral(n), <<>>)
Halves(n)  == Value("float", Numeral(n), <<>>)

Sample == {MinInt, -1, 0, 3, MaxInt}

\* One operation of the same two numbers, as integers and as floats.
Mixed(op, m, n) ==
  << Call(op, <<Integer(m), Integer(n)>>), Call(op, <<Halves(2 * m), Integer(n)>>),
     Call(op, <<Integer(m), Halves(2 * n)>>) >>

MixedPrograms == {Mixed(op, m, n) : op \in Arithmetics, m \in Sample, n \in Sample}

\* Halves, numbers where something else is asked for and the reverse, and
\* numbers in variables, closures and a recursion.
Numbers ==
  {<<Begin, e, x>> :
     e \in {Call(op, <<Halves(h), Halves(k)>>) : op \in Arithmetics, h \in {-3, 5}, k \in {-1, 0, 3}}
       \cup {Call(op, args) : op \in {"+", "="},
               args \in {<<>>, <<Integer(1)>>, <<Integer(1), Integer(1), Integer(1)>>, <<x, Integer(1)>>, <<Integer(1), x>>,
                         <<y, Integer(1)>>, <<Integer(1), y>>, <<Symbol("t"), Set("x", Integer(1))>>}}
       \cup {Call(f, <<e>>) : f \in {"quote", "atom", "car", "cdr"}, e \in {Integer(1), Halves(1)}}
       \cup {Call(f, <<Integer(1), e>>) : f \in {"eq", "cons"}, e \in {Integer(1), Halves(2), x}}
       \cup {Use(Integer(1), <<x>>), Lam(<<"v">>, Integer(1)), Call("lambda", <<List(<<Integer(1)>>), x>>),
             Call("set", <<Integer(1), x>>), Call("cond", <<List(<<Integer(0), x>>)>>),
             Use(Lam(<<"v">>, Call("+", <<v, Integer(1)>>)), <<Integer(MaxInt)>>),
             Use(Use(Lam(<<"v", "w">>, Call("-", <<v, w>>)), <<Integer(1)>>), <<Halves(3)>>)}}
  \cup
  {<<Set("x", Integer(2)), Set("x", Call("*", <<x, x>>)), Set("y", Call("-", <<x, Halves(1)>>)),
     Call(op, <<x, y>>)>> : op \in Arithmetics}

\* (set 'f (lambda (v) (cond ((= v 0) 1) (t (* v (f (- v 1)))))))
Factorial ==
  <<Set("f", Lam(<<"v">>,
       Call("cond", <<List(<<Call("=", <<v, Integer(0)>>), Integer(1)>>),
                      List(<<Symbol("t"),
                        Call("*", <<v, Call("f", <<Call("-", <<v, Integer(1)>>)>>)>>)>>)>>))),
    Call("f", <<Integer(3)>>), Call("f", <<Halves(5)>>)>>

MCPrograms == MixedPrograms \cup Numbers \cup {Factorial} \cup OneExpression \cup Histories \cup Recursions
-----------------------------------------------------------------------------
(***************************************************************************)
(* Properties.                                                             *)
(***************************************************************************)
\* Whole numbers give the same result as integers and as floats, where it is an
\* int and no float is rounded: sums and products, quotients of either sign and comparisons, although
\* they take different ways.  A remainder is that of the absolute values.
FloatsAgree ==
  At("read") /\ program = <<>> =>
    \A op \in Arithmetics, m, n \in Sample :
      source = Mixed(op, m, n) /\ Fits(op, m, n) /\ Exact(op, m, n) =>
        \A i \in {2, 3} :
          printed[i] = IF op = "%" THEN Integer(Abs(Remainder(m, n))) ELSE printed[1]

\* (cons x (set 'x '(a))): the first argument is a value that the second frees.
StalePrograms ==
  {<<Begin, Call("cons", <<x, Set("x", Quoted(List(<<Atom("a")>>)))>>)>>}
=============================================================================
