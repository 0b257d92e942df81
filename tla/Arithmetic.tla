----------------------------- MODULE Arithmetic -----------------------------
(***************************************************************************)
(* The numbers of src/math-lib.c.  An int overflows as the machine's       *)
(* addition, subtraction and multiplication do.  A float                   *)
(* is a literal of the program, since no operation makes one; the model    *)
(* has the multiples of one half, which shows every truncation, and leaves *)
(* out the rounding of numbers beyond the 24 bits of a float: see Exact.   *)
(*                                                                         *)
(* A number is a value or an object of type "int", whose name is the       *)
(* numeral of the number, or "float", whose name is that of its double.    *)
(***************************************************************************)
EXTENDS Integers, TLC

CONSTANTS
  MaxInt,      \* INT_MAX
  MaxWhole     \* every whole number up to this one is a float: 2^24

ASSUME MaxIntAssumption == MaxInt \in Nat /\ MaxInt >= 1
ASSUME MaxWholeAssumption == MaxWhole \in Nat

MinInt == -MaxInt - 1
Ints   == MinInt .. MaxInt
Width  == 2 * MaxInt + 2     \* how many ints there are

Operations  == {"+", "-", "*", "/", "%"}
Comparisons == {"=", ">", ">=", "<", "<="}
Arithmetics == Operations \cup Comparisons

Numeral(n) == ToString(n)
NumberOf == LET N == 2 * MinInt .. 2 * MaxInt + 1 IN
            [s \in {Numeral(n) : n \in N} |-> CHOOSE n \in N : Numeral(n) = s]

IsNumber(v) == v.t \in {"int", "float"}

\* get_int of an integer, and twice get_float of any number.
GetInt(v) == NumberOf[v.name]
Doubled(v) == IF v.t = "int" THEN 2 * GetInt(v) ELSE NumberOf[v.name]

Abs(n)  == IF n < 0 THEN -n ELSE n
Wrap(n) == ((n - MinInt) % Width) + MinInt

\* C divides toward zero, and a remainder has the sign of the dividend.
Quotient(x, y)  == LET q == Abs(x) \div Abs(y) IN IF x * y < 0 THEN -q ELSE q
Remainder(x, y) == x - y * Quotient(x, y)

\* add_ints, sub_ints, mul_ints, divide_ints, mod_ints; the processor traps a
\* division by zero, and one whose quotient is no int.
OfInts(op, x, y) ==
  IF op = "+" THEN Wrap(x + y)
  ELSE IF op = "-" THEN Wrap(x - y)
  ELSE IF op = "*" THEN Wrap(x * y)
  ELSE IF op = "/" THEN Quotient(x, y)
  ELSE Remainder(x, y)
NoQuotient(x, y) == y = 0 \/ (x = MinInt /\ y = -1)
Traps(op, v, w) ==
  /\ op \in {"/", "%"} /\ v.t = "int" /\ w.t = "int"
  /\ NoQuotient(GetInt(v), GetInt(w))

\* The exact result of op, or its quotient, is an int.
Fits(op, x, y) ==
  /\ op = "+" => x + y \in Ints
  /\ op = "-" => x - y \in Ints
  /\ op = "*" => x * y \in Ints
  /\ op = "/" => y # 0 /\ Quotient(x, y) \in Ints
  /\ op = "%" => y # 0

\* A mistake: a float is stored as the int below it.
Floor(x, y) ==
  IF y = 0 THEN MinInt
  ELSE LET n == IF y < 0 THEN (-x) \div (-y) ELSE x \div y IN
       IF n \in Ints THEN n ELSE MinInt

\* What becomes of the float x / y when it is stored as an int: the fraction
\* is dropped, and a value that is no int, an infinity or a nan gives the
\* smallest int, as the conversion instruction of x86 does.
Stored(x, y) ==
  IF y = 0 THEN MinInt
  ELSE LET n == Quotient(x, y) IN IF n \in Ints THEN n ELSE MinInt

\* The whole numbers x and y and the exact result of op are floats, so that
\* nothing is rounded that changes what is stored.  (A quotient of such numbers
\* is rounded, but never up to the next whole number.)
Exact(op, x, y) ==
  LET Whole == -MaxWhole .. MaxWhole IN
  /\ x \in Whole /\ y \in Whole
  /\ op = "+" => x + y \in Whole
  /\ op = "-" => x - y \in Whole
  /\ op = "*" => x * y \in Whole

\* add_floats, sub_floats, mul_floats, divide_floats and mod_floats of the
\* halves x and y, stored by allocate_float.  The code's results are these as
\* long as no float is rounded.
OfFloats(op, x, y) ==
  IF op = "+" THEN Stored(x + y, 2)
  ELSE IF op = "-" THEN Stored(x - y, 2)
  ELSE IF op = "*" THEN Stored(x * y, 4)
  ELSE IF op = "/" THEN Stored(x, y)
  ELSE Stored(Abs(x) % Abs(y), 2)

\* mod_floats subtracts zero again and again.
Loops(op, v, w) ==
  op = "%" /\ (v.t = "float" \/ w.t = "float") /\ Doubled(w) = 0

\* apply_arithmetic: the numeral of the result, which is always an int.
Calculated(op, v, w) ==
  Numeral(IF v.t = "float" \/ w.t = "float"
            THEN OfFloats(op, Doubled(v), Doubled(w))
            ELSE OfInts(op, GetInt(v), GetInt(w)))

\* def_math_compare_primitive: ints are compared as ints, others as floats.
Holds(op, v, w) ==
  LET x == Doubled(v)
      y == Doubled(w)
  IN CASE op = "="  -> x = y
       [] op = ">"  -> x > y
       [] op = ">=" -> x >= y
       [] op = "<"  -> x < y
       [] op = "<=" -> x <= y
=============================================================================
