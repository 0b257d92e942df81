------------------------------- MODULE Parser -------------------------------
(***************************************************************************)
(* src/parser.c: from the texts of Texts to objects and back.  "(", ")",   *)
(* "'" and the white space are themselves, and every other character can   *)
(* be part of an atom.  Objects are the values of LispValues, whose names  *)
(* are sequences of characters here.  The name of a number is its numeral. *)
(* Signs, exponents, octal and hexadecimal numerals, the "inf" and "nan"   *)
(* of strtof, and numerals with more digits than %d and %g print are left  *)
(* out: the numbers are the code's in the texts of PlainNumbers.  Form     *)
(* feeds and vertical tabs, which strtol passes over, are in no text.      *)
(***************************************************************************)
EXTENDS LispValues, Texts

CONSTANTS
  Alphabet,    \* the characters of the texts that are parsed
  MaxLevels    \* bound: how deep the values that are printed may be

ASSUME LevelsAssumption == MaxLevels \in Nat

\* distance_to_next_element, as the position of the element that comes at i or
\* after; 0 when there is none.
LeastOf(S) == CHOOSE i \in S : \A j \in S : i <= j
NextElement(e, i) ==
  LET S == {j \in i .. Len(e) : e[j] \notin WhiteSpace} IN
  IF S = {} THEN 0 ELSE LeastOf(S)

\* A mistake: an atom goes on to the next white space.
AtomEndAtSpace(e, i) ==
  LeastOf({j \in i .. Len(e) : e[j] \in WhiteSpace} \cup {Len(e) + 1})

\* atom_size, as the position after the atom at i.
AtomEnd(e, i) ==
  LeastOf({j \in i .. Len(e) : e[j] \in WhiteSpace \cup Brackets} \cup {Len(e) + 1})

\* What was parsed, the position after it, and whether only the text was read.
Parsed(v, next, inside) == [v |-> v, next |-> next, inside |-> inside]

\* get_quote_list
QuoteList(v) == List(<<Atom(<<"q", "u", "o", "t", "e">>), v>>)

(***************************************************************************)
(* Numbers.  strtol and strtof read the digits that an atom begins with.   *)
(***************************************************************************)
Digits == {"0", "1", "2", "3", "4", "5", "6", "7", "8", "9"}

\* The digits that c begins with, and what follows them.
Leading(c) == SubSeq(c, 1, LeastOf({i \in DOMAIN c : c[i] \notin Digits}
                                     \cup {Len(c) + 1}) - 1)
Following(c) == SubSeq(c, Len(Leading(c)) + 1, Len(c))

\* c without the zeros at its left.
Significant(c) == SubSeq(c, LeastOf({i \in DOMAIN c : c[i] # "0"} \cup {Len(c) + 1}),
                         Len(c))

\* c without the zeros at its right.
WithoutZeros(c) ==
  SubSeq(c, 1, LeastOf({n \in 0 .. Len(c) : \A i \in n + 1 .. Len(c) : c[i] = "0"}))
Fraction(c) == IF Following(c) # <<>> /\ Head(Following(c)) = "."
                 THEN Leading(Tail(Following(c))) ELSE <<>>

NonEmpty(c) == IF c = <<>> THEN <<"0">> ELSE c
IntObject(c)   == Value("int", NonEmpty(Significant(Leading(c))), <<>>)
FloatObject(c) ==
  Value("float", NonEmpty(Significant(Leading(c))) \o <<".">>
                   \o WithoutZeros(Fraction(c)), <<>>)

HasDot(c)    == \E i \in DOMAIN c : c[i] = "."
IsInteger(c) == Leading(c) # <<>>
IsFloat(c)   == Leading(c) # <<>> \/ Fraction(c) # <<>>

\* parse_atom of the characters c of an atom.
AtomObject(c) ==
  IF IsInteger(c) /\ ~ HasDot(c) THEN IntObject(c)
  ELSE IF IsFloat(c) THEN FloatObject(c)
  ELSE Atom(c)

(***************************************************************************)
(* The atoms of which AtomObject and UnparseAtom say what strtol, strtof,  *)
(* %d and %g make of them.                                                 *)
(***************************************************************************)
Begins(c, S) == c # <<>> /\ Head(c) \in S

\* What comes after the digits, or after the digits, the dot and the digits.
AfterNumeral(c) ==
  IF Begins(Following(c), {"."}) THEN Following(Tail(Following(c))) ELSE Following(c)

IsSigned(c) == Begins(c, {"+", "-"}) /\ Len(c) > 1
IsInfOrNan(c) ==
  /\ Len(c) >= 3
  /\ \/ c[1] \in {"i", "I"} /\ c[2] \in {"n", "N"} /\ c[3] \in {"f", "F"}
     \/ c[1] \in {"n", "N"} /\ c[2] \in {"a", "A"} /\ c[3] \in {"n", "N"}

\* 0 is the prefix of octal, hexadecimal and binary numerals, and nine digits
\* are an int.
IsPlainInt(c) ==
  /\ Begins(c, {"0"}) => ~ Begins(Tail(c), Digits \cup {"x", "X", "b", "B"})
  /\ Len(Leading(c)) <= 9

\* %g prints six digits, and has an exponent for what is less than 0.0001.
IsPlainFloat(c) ==
  LET whole    == Significant(Leading(c))
      fraction == WithoutZeros(Fraction(c))
  IN
  /\ Begins(c, {"0"}) => ~ Begins(Tail(c), {"x", "X"})
  /\ ~ Begins(AfterNumeral(c), {"e", "E"})
  /\ Len(Significant(whole \o fraction)) <= 6
  /\ whole = <<>> /\ fraction # <<>> => \E i \in 1 .. 4 : i <= Len(fraction) /\ fraction[i] # "0"

IsPlain(c) ==
  /\ ~ IsSigned(c) /\ ~ IsInfOrNan(c)
  /\ IsInteger(c) /\ ~ HasDot(c) => IsPlainInt(c)
  /\ IsFloat(c) /\ HasDot(c) => IsPlainFloat(c)

\* An atom begins after white space, a bracket or a quote.
PlainNumbers(e) ==
  \A i \in DOMAIN e :
    i = 1 \/ e[i - 1] \in WhiteSpace \cup Brackets \cup {"'"} =>
      IsPlain(SubSeq(e, i, AtomEnd(e, i) - 1))
-----------------------------------------------------------------------------
(***************************************************************************)
(* parse_expression and parse_list of the text e from position i on.  What *)
(* the calls they make return is at[<<name, position>>].                   *)
(***************************************************************************)
ParseExpression(e, i, at) ==
  LET s    == NextElement(e, i)
      list == at[<<"list", s + 1>>]
      q    == at[<<"expression", s + 1>>]
  IN
  IF s = 0 THEN Parsed(Null, Len(e) + 1, TRUE)
  ELSE IF e[s] = ")" THEN Parsed(Null, s + 1, TRUE)
  ELSE IF e[s] = "'" THEN Parsed(QuoteList(q.v), q.next, q.inside)
  ELSE IF e[s] = "(" THEN
    Parsed(IF list.v = Null THEN Nil ELSE list.v, list.next, list.inside)
  ELSE Parsed(AtomObject(SubSeq(e, s, AtomEnd(e, s) - 1)), AtomEnd(e, s), TRUE)

\* A mistake: the character after an element is passed over.
ParseListSkips(e, i, at) ==
  LET s       == NextElement(e, i)
      element == at[<<"expression", s>>]
      rest    == at[<<"list", element.next + 1>>]
  IN
  IF s = 0 THEN Parsed(Null, Len(e) + 1, FALSE)
  ELSE IF e[s] = ")" THEN Parsed(Null, s + 1, TRUE)
  ELSE Parsed(Cons(element.v, rest.v), rest.next, element.inside /\ rest.inside)

\* Where the text ends before the list, parse_list reads the character before
\* its argument.
ParseList(e, i, at) ==
  LET s       == NextElement(e, i)
      element == at[<<"expression", s>>]
      rest    == at[<<"list", element.next>>]
  IN
  IF s = 0 THEN Parsed(Null, Len(e) + 1, FALSE)
  ELSE IF e[s] = ")" THEN Parsed(Null, s + 1, TRUE)
  ELSE Parsed(Cons(element.v, rest.v), rest.next, element.inside /\ rest.inside)

Readings(e) ==
  LET at[c \in {"expression", "list"} \X Nat] ==
        IF c[1] = "expression" THEN ParseExpression(e, c[2], at) ELSE ParseList(e, c[2], at)
  IN at

Parse(e) == Readings(e)[<<"expression", 1>>]

(***************************************************************************)
(* unparse.  The pointer NULL is the text without characters.              *)
(***************************************************************************)
NilText == <<"n", "i", "l">>

\* unparse_atom: %d of an integer, and %g of a float, which drops the dot of a
\* whole number.
UnparseAtom(v) ==
  IF v.t = "float" /\ v.name[Len(v.name)] = "."
    THEN SubSeq(v.name, 1, Len(v.name) - 1)
    ELSE v.name

\* The characters that are parsed or printed.
Characters ==
  Alphabet \cup Digits \cup {".", " ", "(", ")", "n", "i", "l", "q", "u", "o", "t", "e"}

\* The values that can be printed: lists of lists, MaxLevels deep at most, of
\* atoms and numbers.
Leaves ==
  {Null} \cup [t : {"atom", "int", "float"}, name : Seq(Characters), parts : {<<>>}]
Lists(V) == [t : {"list"}, name : {""}, parts : V \X V]
ValuesUpTo[h \in 0 .. MaxLevels] ==
  IF h = 0 THEN Leaves ELSE Leaves \cup Lists(ValuesUpTo[h - 1])
Values == ValuesUpTo[MaxLevels]

\* unparse and unparse_list of v.  What the calls they make return is
\* at[<<name, value>>].
UnparseValue(v, at) ==
  IF v.t = "null" THEN <<>>
  ELSE IF ~ IsList(v) THEN UnparseAtom(v)
  ELSE IF at[<<"list", v>>] = <<>> THEN NilText
  ELSE <<"(">> \o at[<<"list", v>>] \o <<")">>

\* A mistake: no space comes between the elements.
UnparseListTight(v, at) ==
  LET car == at[<<"value", CarOf(v)>>]
      cdr == at[<<"list", CdrOf(v)>>]
  IN
  IF ~ IsList(v) \/ car = <<>> THEN <<>>
  ELSE IF cdr = <<>> THEN car
  ELSE car \o cdr

\* The elements, a space between them; nothing where an element is NULL.
UnparseList(v, at) ==
  LET car == at[<<"value", CarOf(v)>>]
      cdr == at[<<"list", CdrOf(v)>>]
  IN
  IF ~ IsList(v) \/ car = <<>> THEN <<>>
  ELSE IF cdr = <<>> THEN car
  ELSE car \o <<" ">> \o cdr

Printings ==
  LET at[c \in {"value", "list"} \X Values] ==
        IF c[1] = "value" THEN UnparseValue(c[2], at) ELSE UnparseList(c[2], at)
  IN at

Unparse(v) == Printings[<<"value", v>>]
-----------------------------------------------------------------------------
(***************************************************************************)
(* The reference: a reader that goes through the text once, keeping the    *)
(* forms that are open on a stack.  A form is "(" with the values read so  *)
(* far, or "'".  A value that is complete ends the quotes before it, and   *)
(* becomes a part of the list that is open, or else it is what was read.   *)
(***************************************************************************)
Form(open, values) == [open |-> open, values |-> values]
Reading(v, next, forms) == [v |-> v, next |-> next, forms |-> forms]

\* One step: what to do with the complete value r.v, or the next character.
ReadOn(e, r) ==
  LET i    == r.next
      form == Head(r.forms)
  IN
  IF r.v # Null THEN
    IF r.forms = <<>> THEN r
    ELSE IF form.open = "'" THEN Reading(QuoteList(r.v), i, Tail(r.forms))
    ELSE Reading(Null, i, <<Form("(", Append(form.values, r.v))>> \o Tail(r.forms))
  ELSE IF i > Len(e) THEN r
  ELSE IF e[i] \in WhiteSpace THEN Reading(Null, i + 1, r.forms)
  ELSE IF e[i] = ")" THEN
    Reading(IF form.values = <<>> THEN Nil ELSE List(form.values), i + 1, Tail(r.forms))
  ELSE IF e[i] \in {"(", "'"} THEN Reading(Null, i + 1, <<Form(e[i], <<>>)>> \o r.forms)
  ELSE Reading(AtomObject(SubSeq(e, i, AtomEnd(e, i) - 1)), AtomEnd(e, i), r.forms)

\* There are at most two steps for a character.
ReadFirst(e) ==
  LET after[n \in 0 .. 2 * Len(e)] ==
        IF n = 0 THEN Reading(Null, 1, <<>>) ELSE ReadOn(e, after[n - 1])
  IN after[2 * Len(e)]

\* Every quote has something to quote.
QuotesSomething(e) ==
  \A i \in DOMAIN e :
    e[i] = "'" => LET s == NextElement(e, i + 1) IN s # 0 /\ e[s] # ")"
=============================================================================
