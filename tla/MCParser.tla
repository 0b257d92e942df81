------------------------------ MODULE MCParser ------------------------------
(***************************************************************************)
(* The parser on every text of at most MaxText characters.                 *)
(***************************************************************************)
EXTENDS Parser

CONSTANT MaxText   \* bound: the characters of a text

ASSUME TextAssumption == MaxText \in Nat /\ 2 * MaxText <= MaxLevels

VARIABLE text

Init == text = <<>>
Type(c) == Len(text) < MaxText /\ text' = Append(text, c)
Next == \E c \in Alphabet : Type(c)
Spec == Init /\ [][Next]_text

Whole == IsValid(text) /\ IsBalanced(text)

\* parse_expression stays in the text it is given, which parser.h:19 asks to be
\* "a balanced, valid lisp expression", if no quote is the last thing of a list.
ReadsInsideQuoted == Whole /\ QuotesSomething(text) => Parse(text).inside

\* What parse_expression returns is the first expression of the text, and what
\* it says was parsed ends where that expression ends: lists in lists, quotes
\* of quotes, atoms that a bracket ends, any white space.
ReadsFirst ==
  Whole /\ QuotesSomething(text) /\ ~ IsEmpty(text) =>
    LET p == Parse(text)
        r == ReadFirst(text)
    IN p.v = r.v /\ p.next = r.next

\* What a printed value is when it is read again: the empty list has become
\* the atom nil, and a float that is a whole number has become an integer.
Reread(v) ==
  LET again[w \in Values] ==
        IF w = Nil THEN Atom(NilText)
        ELSE IF IsList(w) THEN Cons(again[CarOf(w)], again[CdrOf(w)])
        ELSE IF w.t = "float" /\ w.name[Len(w.name)] = "."
          THEN Value("int", SubSeq(w.name, 1, Len(w.name) - 1), <<>>)
        ELSE w
  IN again[v]

\* unparse prints what parse_expression reads as the same value, but for empty
\* lists and whole floats: nested lists, quotes, what is left of an atom that
\* begins with a number, and numbers next to brackets and dots.  The numerals
\* are of at most six digits, or nine without a dot: %g prints no more.
PrintsWhatItReads ==
  Whole /\ QuotesSomething(text) /\ ~ IsEmpty(text) /\ PlainNumbers(text) =>
    LET v == Parse(text).v IN Parse(Unparse(v)).v = Reread(v)
=============================================================================
