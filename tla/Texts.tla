------------------------------- MODULE Texts -------------------------------
(***************************************************************************)
(* A text is a sequence of characters.  These are the tests of             *)
(* src/parser.c that the readers make before a text is parsed.             *)
(***************************************************************************)
EXTENDS Integers, Sequences, FiniteSets

WhiteSpace == {" ", "\t", "\n", "\r"}
Brackets   == {"(", ")"}

\* is_valid and is_balanced count brackets.
Count(e, c) == Cardinality({i \in DOMAIN e : e[i] = c})
Net(e)      == Count(e, "(") - Count(e, ")")
IsBalanced(e) == Net(e) = 0
IsValid(e)    == \A n \in 0 .. Len(e) : Net(SubSeq(e, 1, n)) >= 0

\* empty_expression
IsEmpty(e) == \A i \in DOMAIN e : e[i] \in WhiteSpace
=============================================================================
