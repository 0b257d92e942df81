----------------------------- MODULE LispValues -----------------------------
(***************************************************************************)
(* The values of Lisp expressions.  A value is a record.  An atom and a    *)
(* primitive have a name, and a number's name is its numeral; a list has   *)
(* two parts, its car and its cdr; a closure has three, its parameters,    *)
(* its procedure and its captured variables.  Null stands for the pointer  *)
(* NULL: the end of a list, or the value of an evaluation that failed.     *)
(***************************************************************************)
EXTENDS Integers, Sequences

Value(t, name, parts) == [t |-> t, name |-> name, parts |-> parts]

Null         == Value("null", "", <<>>)
Atom(name)   == Value("atom", name, <<>>)
Prim(name)   == Value("prim", name, <<>>)
Cons(a, d)   == Value("list", "", <<a, d>>)
Nil          == Cons(Null, Null)
Closure(params, procedure, captured) ==
  Value("closure", "", <<params, procedure, captured>>)

CarOf(v) == v.parts[1]
CdrOf(v) == v.parts[2]
IsList(v) == v.t = "list"
IsAtom(v) == v.t = "atom"
IsTrue(v) == IsAtom(v) /\ v.name \in {"t", "true"}

\* The list of a sequence of values.
List(s) ==
  LET from[i \in Nat] ==
        IF i > Len(s) THEN Null ELSE Cons(s[i], from[i + 1])
  IN from[1]
=============================================================================
