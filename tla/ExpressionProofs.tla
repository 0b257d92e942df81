-------------------------- MODULE ExpressionProofs --------------------------
(***************************************************************************)
(* Proofs about what expressions are made of.  About Arithmetic: what the  *)
(* operations on numbers give, for ints of any width, and for floats as    *)
(* far as they are exact.  About Parser and MCParser: what is parsed from  *)
(* a text of any length and any characters, and what is printed of it, if  *)
(* its numerals are among those that the model has.                        *)
(***************************************************************************)
EXTENDS MCParser, Arithmetic, TLAPS, FiniteSetTheorems, SequenceTheorems,
        WellFoundedInduction

LEMMA IntsAre ==
  /\ MaxInt \in Nat /\ MaxInt >= 1 /\ MinInt \in Int /\ Width \in Nat /\ Width > 0
  /\ MinInt + Width = MaxInt + 1
  /\ \A n : n \in Ints <=> n \in Int /\ MinInt <= n /\ n <= MaxInt
BY MaxIntAssumption DEF MinInt, Ints, Width

LEMMA DivMod ==
  ASSUME NEW a \in Int, NEW b \in Nat, b > 0
  PROVE  /\ a \div b \in Int /\ a % b \in Int
         /\ 0 <= a % b /\ a % b < b
         /\ a = b * (a \div b) + (a % b)
OBVIOUS

\* There is only one quotient and one remainder.
LEMMA DivModUnique ==
  ASSUME NEW b \in Nat, b > 0, NEW q \in Int, NEW r \in Int, NEW a \in Int,
         a = b * q + r, 0 <= r, r < b
  PROVE  a \div b = q /\ a % b = r
<1> DEFINE q1 == a \div b
           r1 == a % b
<1>1. q1 \in Int /\ r1 \in Int /\ 0 <= r1 /\ r1 < b /\ a = b * q1 + r1
  BY DivMod
<1> HIDE DEF q1, r1
<1>2. b * (q1 - q) = r - r1
  BY <1>1
<1>3. ~ (q1 - q >= 1)
  <2> SUFFICES ASSUME q1 - q >= 1 PROVE FALSE
    OBVIOUS
  <2>1. b * (q1 - q) >= b
    BY <1>1
  <2> QED
    BY <1>1, <1>2, <2>1
<1>4. ~ (q1 - q <= -1)
  <2> SUFFICES ASSUME q1 - q <= -1 PROVE FALSE
    OBVIOUS
  <2>1. b * (q1 - q) <= -b
    BY <1>1
  <2> QED
    BY <1>1, <1>2, <2>1
<1>5. q1 = q
  BY <1>1, <1>3, <1>4
<1>6. r1 = r
  BY <1>1, <1>2, <1>5
<1> QED
  BY <1>5, <1>6 DEF q1, r1

-----------------------------------------------------------------------------
\* An overflow adds or subtracts the number of ints some times.
LEMMA WrapIs ==
  ASSUME NEW n \in Int
  PROVE  /\ Wrap(n) \in Ints
         /\ \E k \in Int : Wrap(n) = n + k * Width
         /\ n \in Ints => Wrap(n) = n
<1> DEFINE q == (n - MinInt) \div Width
           r == (n - MinInt) % Width
<1>1. q \in Int /\ r \in Int /\ 0 <= r /\ r < Width /\ n - MinInt = Width * q + r
  BY IntsAre, DivMod
<1>2. Wrap(n) = r + MinInt
  BY DEF Wrap
<1>3. n \in Ints => (n - MinInt) % Width = n - MinInt
  <2> SUFFICES ASSUME n \in Ints PROVE (n - MinInt) % Width = n - MinInt
    OBVIOUS
  <2>1. n - MinInt \in Int /\ 0 <= n - MinInt /\ n - MinInt < Width
    BY IntsAre
  <2>2. n - MinInt = Width * 0 + (n - MinInt)
    BY <2>1, IntsAre
  <2> QED
    BY <2>1, <2>2, IntsAre, DivModUnique
<1>4. n \in Ints => Wrap(n) = n
  BY <1>2, <1>3, IntsAre
<1> HIDE DEF q, r
<1>5. Wrap(n) \in Ints
  BY <1>1, <1>2, IntsAre
<1>6. -q \in Int /\ Wrap(n) = n + (-q) * Width
  BY <1>1, <1>2, IntsAre
<1> QED
  BY <1>4, <1>5, <1>6
-----------------------------------------------------------------------------
(***************************************************************************)
(* Quotients and remainders.                                               *)
(***************************************************************************)
LEMMA AbsIs ==
  ASSUME NEW n \in Int
  PROVE  /\ Abs(n) \in Nat
         /\ n >= 0 => Abs(n) = n
         /\ n <= 0 => Abs(n) = -n
         /\ n # 0 => Abs(n) > 0
         /\ Abs(2 * n) = 2 * Abs(n)
BY DEF Abs

LEMMA Signs ==
  ASSUME NEW x \in Int, NEW y \in Int
  PROVE  x * y < 0 <=> (x < 0 /\ y > 0) \/ (x > 0 /\ y < 0)
<1>1. x > 0 /\ y > 0 => x * y > 0
  OBVIOUS
<1>2. x < 0 /\ y < 0 => x * y > 0
  OBVIOUS
<1>3. x > 0 /\ y < 0 => x * y < 0
  OBVIOUS
<1>4. x < 0 /\ y > 0 => x * y < 0
  OBVIOUS
<1>5. x = 0 \/ y = 0 => x * y = 0
  OBVIOUS
<1> QED
  BY <1>1, <1>2, <1>3, <1>4, <1>5

\* A quotient is cut off toward zero, and a remainder has the dividend's sign.
LEMMA Truncates ==
  ASSUME NEW x \in Int, NEW y \in Int, y # 0
  PROVE  /\ Quotient(x, y) \in Int /\ Remainder(x, y) \in Int
         /\ Abs(Quotient(x, y)) = Abs(x) \div Abs(y)
         /\ Abs(Remainder(x, y)) = Abs(x) % Abs(y)
         /\ x >= 0 => Remainder(x, y) >= 0
         /\ x <= 0 => Remainder(x, y) <= 0
<1> DEFINE a == Abs(x)
           b == Abs(y)
           q == a \div b
           r == a % b
<1>1. a \in Nat /\ b \in Nat /\ b > 0
  BY AbsIs
<1>2. q \in Int /\ r \in Int /\ 0 <= r /\ r < b /\ a = b * q + r
  BY <1>1, DivMod
<1>3. q >= 0
  <2> SUFFICES ASSUME q <= -1 PROVE FALSE
    BY <1>2
  <2> HIDE DEF q, r, a, b
  <2>1. b * q <= -b
    BY <1>1, <1>2
  <2> QED
    BY <1>1, <1>2, <2>1
<1>4. Quotient(x, y) = IF x * y < 0 THEN -q ELSE q
  BY DEF Quotient
<1>5. Remainder(x, y) = x - y * Quotient(x, y)
  BY DEF Remainder
<1>6. (x >= 0 => a = x) /\ (x <= 0 => a = -x) /\ (y >= 0 => b = y) /\ (y <= 0 => b = -y)
  BY AbsIs
<1> SUFFICES /\ Quotient(x, y) \in Int /\ Remainder(x, y) \in Int
             /\ Abs(Quotient(x, y)) = q /\ Abs(Remainder(x, y)) = r
             /\ x >= 0 => Remainder(x, y) >= 0
             /\ x <= 0 => Remainder(x, y) <= 0
  OBVIOUS
<1> HIDE DEF a, b, q, r
<1>7. CASE x * y < 0
  <2>1. Quotient(x, y) = -q
    BY <1>4, <1>7
  <2>2. CASE x < 0 /\ y > 0
    <3>1. y * q = -x - r /\ y * (-q) = -(y * q)
      BY <1>2, <1>6, <2>2
    <3>2. Remainder(x, y) = -r
      BY <1>2, <1>5, <2>1, <3>1
    <3> QED
      BY <1>2, <1>3, <2>1, <2>2, <3>2, AbsIs
  <2>3. CASE x > 0 /\ y < 0
    <3>1. (-y) * q = x - r /\ y * (-q) = (-y) * q
      BY <1>2, <1>6, <2>3
    <3>2. Remainder(x, y) = r
      BY <1>2, <1>5, <2>1, <3>1
    <3> QED
      BY <1>2, <1>3, <2>1, <2>3, <3>2, AbsIs
  <2> QED
    BY <1>7, <2>2, <2>3, Signs
<1>8. CASE ~ (x * y < 0)
  <2>1. Quotient(x, y) = q
    BY <1>4, <1>8
  <2>2. CASE x >= 0 /\ y > 0
    <3>1. y * q = x - r
      BY <1>2, <1>6, <2>2
    <3>2. Remainder(x, y) = r
      BY <1>2, <1>5, <2>1, <3>1
    <3>3. x = 0 => r = 0
      BY <1>1, <1>2, <1>3, <1>6, <2>2, <3>1
    <3> QED
      BY <1>2, <1>3, <2>1, <2>2, <3>2, <3>3, AbsIs
  <2>3. CASE x <= 0 /\ y < 0
    <3>1. (-y) * q = -x - r /\ y * q = -((-y) * q)
      BY <1>2, <1>6, <2>3
    <3>2. Remainder(x, y) = -r
      BY <1>2, <1>5, <2>1, <3>1
    <3>3. x = 0 => r = 0
      BY <1>1, <1>2, <1>3, <1>6, <2>3, <3>1
    <3> QED
      BY <1>2, <1>3, <2>1, <2>3, <3>2, <3>3, AbsIs
  <2>4. CASE x = 0
    <3>1. r = 0 /\ q = 0
      <4>1. a = 0 /\ a = b * 0 + 0
        BY <1>1, <1>6, <2>4
      <4> QED
        BY <1>1, <4>1, DivModUnique DEF q, r
    <3>2. Quotient(x, y) = 0 /\ Remainder(x, y) = 0
      BY <1>5, <2>1, <2>4, <3>1
    <3> QED
      BY <2>4, <3>1, <3>2, AbsIs
  <2> QED
    BY <1>8, <2>2, <2>3, <2>4, Signs
<1> QED
  BY <1>7, <1>8

\* Doubling both numbers changes no quotient.
LEMMA DivModDoubled ==
  ASSUME NEW a \in Nat, NEW b \in Nat, b > 0
  PROVE  (2 * a) \div (2 * b) = a \div b /\ (2 * a) % (2 * b) = 2 * (a % b)
<1> DEFINE q == a \div b
           r == a % b
<1>1. q \in Int /\ r \in Int /\ 0 <= r /\ r < b /\ a = b * q + r
  BY DivMod
<1> HIDE DEF q, r
<1>2. 2 * a = (2 * b) * q + 2 * r
  BY <1>1
<1> QED
  BY SMTT(20), <1>1, <1>2, DivModUnique DEF q, r

LEMMA QuotientDoubled ==
  ASSUME NEW x \in Int, NEW y \in Int, y # 0
  PROVE  Quotient(2 * x, 2 * y) = Quotient(x, y)
<1>1. Abs(2 * x) \div Abs(2 * y) = Abs(x) \div Abs(y)
  BY AbsIs, DivModDoubled
<1>2. (2 * x) * (2 * y) < 0 <=> x * y < 0
  BY Signs
<1> QED
  BY <1>1, <1>2 DEF Quotient

\* A multiple of a positive number is divided without a remainder.
LEMMA QuotientOfMultiple ==
  ASSUME NEW m \in Int, NEW c \in Nat, c > 0
  PROVE  Quotient(c * m, c) = m
<1> DEFINE a == Abs(m)
<1>1. a \in Nat /\ (m >= 0 => a = m) /\ (m <= 0 => a = -m)
  BY AbsIs
<1>2. c * m \in Int /\ (c * m < 0 <=> m < 0)
  <2>1. c * m \in Int
    OBVIOUS
  <2>2. m > 0 => c * m > 0
    OBVIOUS
  <2>3. m < 0 => c * m < 0
    OBVIOUS
  <2>4. m = 0 => c * m = 0
    OBVIOUS
  <2> QED
    BY <2>1, <2>2, <2>3, <2>4
<1>3. Abs(c * m) = c * a
  BY <1>1, <1>2 DEF Abs
<1>4. Abs(c) = c
  BY AbsIs
<1> HIDE DEF a
<1>5. (c * a) \div c = a
  <2>1. c * a \in Int /\ c * a = c * a + 0
    BY <1>1
  <2> QED
    BY <1>1, <2>1, DivModUnique
<1>6. (c * m) * c < 0 <=> m < 0
  <2>1. (c * m) * c < 0 <=> c * m < 0
    BY <1>2, Signs
  <2> QED
    BY <1>2, <2>1
<1> QED
  BY <1>1, <1>3, <1>4, <1>5, <1>6 DEF Quotient
-----------------------------------------------------------------------------
(***************************************************************************)
(* The operations on ints.                                                 *)
(***************************************************************************)
LEMMA WrapsAround ==
  ASSUME NEW n \in Int, NEW k \in Int
  PROVE  Wrap(n + k * Width) = Wrap(n)
<1> DEFINE q == (n - MinInt) \div Width
           r == (n - MinInt) % Width
<1>1. q \in Int /\ r \in Int /\ 0 <= r /\ r < Width /\ n - MinInt = Width * q + r
  BY IntsAre, DivMod
<1> HIDE DEF q, r
<1>2. PICK m \in Int : m = (n + k * Width) - MinInt
  BY IntsAre
<1>3. m = Width * (q + k) + r
  BY <1>1, <1>2, IntsAre
<1>4. m % Width = r
  BY <1>1, <1>3, IntsAre, DivModUnique
<1> QED
  BY <1>2, <1>4 DEF Wrap, r

\* The result of +, - and * of ints is the exact one as an int, also after
\* overflows on the way to it: add_ints, sub_ints and mul_ints can be chained in
\* any order.
THEOREM OverflowsCancel ==
  ASSUME NEW x \in Int, NEW y \in Int
  PROVE  /\ OfInts("+", Wrap(x), Wrap(y)) = Wrap(x + y)
         /\ OfInts("-", Wrap(x), Wrap(y)) = Wrap(x - y)
         /\ OfInts("*", Wrap(x), Wrap(y)) = Wrap(x * y)
<1>1. PICK j \in Int : Wrap(x) = x + j * Width
  BY WrapIs
<1>2. PICK k \in Int : Wrap(y) = y + k * Width
  BY WrapIs
<1>3. Wrap(Wrap(x) + Wrap(y)) = Wrap(x + y)
  <2>1. x + y \in Int /\ j + k \in Int
    OBVIOUS
  <2>2. Wrap(x) + Wrap(y) = (x + y) + (j + k) * Width
    BY <1>1, <1>2, IntsAre
  <2> QED
    BY <2>1, <2>2, WrapsAround
<1>4. Wrap(Wrap(x) - Wrap(y)) = Wrap(x - y)
  <2>1. x - y \in Int /\ j - k \in Int
    OBVIOUS
  <2>2. Wrap(x) - Wrap(y) = (x - y) + (j - k) * Width
    BY <1>1, <1>2, IntsAre
  <2> QED
    BY <2>1, <2>2, WrapsAround
<1>5. Wrap(Wrap(x) * Wrap(y)) = Wrap(x * y)
  <2>1. PICK l \in Int : l = j * y + x * k + j * k * Width
    BY IntsAre
  <2>2. Wrap(x) * Wrap(y) = x * y + l * Width
    BY <1>1, <1>2, <2>1, IntsAre
  <2>3. x * y \in Int
    OBVIOUS
  <2> QED
    BY <2>1, <2>2, <2>3, WrapsAround
<1> QED
  BY <1>3, <1>4, <1>5 DEF OfInts

LEMMA QuotientBound ==
  ASSUME NEW a \in Nat, NEW b \in Nat, b > 0
  PROVE  /\ a \div b \in Nat /\ a \div b <= a
         /\ b >= 2 => 2 * (a \div b) <= a
         /\ b = 1 => a \div b = a
<1> DEFINE q == a \div b
           r == a % b
<1>1. q \in Int /\ r \in Int /\ 0 <= r /\ r < b /\ a = b * q + r
  BY DivMod
<1> HIDE DEF q, r
<1>2. q >= 0
  <2> SUFFICES ASSUME q <= -1 PROVE FALSE
    BY <1>1
  <2>1. b * q <= -b
    BY <1>1
  <2> QED
    BY <1>1, <2>1
<1>3. b * q >= q
  BY <1>1, <1>2
<1>4. b >= 2 => b * q >= 2 * q
  BY <1>1, <1>2
<1>5. b = 1 => q = a
  BY <1>1
<1> QED
  BY <1>1, <1>2, <1>3, <1>4, <1>5 DEF q

\* Of the quotients of ints by others than zero, only that of the smallest int
\* and -1 is no int: the divisions that the processor traps are these, and no
\* other, and every remainder is an int.
THEOREM QuotientsFit ==
  ASSUME NEW x \in Ints, NEW y \in Ints, y # 0
  PROVE  /\ Quotient(x, y) \in Ints <=> ~ NoQuotient(x, y)
         /\ Remainder(x, y) \in Ints
<1> DEFINE q == Quotient(x, y)
           r == Remainder(x, y)
<1>1. x \in Int /\ y \in Int /\ MinInt <= x /\ x <= MaxInt /\ MinInt <= y /\ y <= MaxInt
  BY IntsAre
<1>2. MinInt = -MaxInt - 1 /\ MaxInt \in Nat /\ MaxInt >= 1
  BY IntsAre DEF MinInt
<1>3. /\ q \in Int /\ r \in Int
      /\ Abs(q) = Abs(x) \div Abs(y) /\ Abs(r) = Abs(x) % Abs(y)
  BY <1>1, Truncates
<1>4. /\ Abs(x) \in Nat /\ Abs(y) \in Nat /\ Abs(y) > 0 /\ Abs(q) \in Nat /\ Abs(r) \in Nat
      /\ (q >= 0 => Abs(q) = q) /\ (q <= 0 => Abs(q) = -q)
      /\ (r >= 0 => Abs(r) = r) /\ (r <= 0 => Abs(r) = -r)
      /\ Abs(x) <= MaxInt + 1 /\ Abs(y) <= MaxInt + 1
  BY <1>1, <1>2, <1>3, AbsIs
<1>5. r \in Ints
  <2>1. Abs(r) < Abs(y)
    BY <1>3, <1>4, DivMod
  <2> HIDE DEF r
  <2>2. -MaxInt <= r /\ r <= MaxInt
    BY <1>2, <1>3, <1>4, <2>1
  <2> QED
    BY <1>2, <1>3, <2>2, IntsAre
<1>6. CASE Abs(y) >= 2
  <2>1. 2 * Abs(q) <= Abs(x)
    BY <1>3, <1>4, <1>6, QuotientBound
  <2> HIDE DEF q
  <2>2. -MaxInt <= q /\ q <= MaxInt
    BY <1>2, <1>3, <1>4, <2>1
  <2>3. q \in Ints
    BY <1>2, <1>3, <2>2, IntsAre
  <2>4. y # -1
    BY <1>6 DEF Abs
  <2> QED
    BY <1>5, <2>3, <2>4 DEF NoQuotient, q
<1>7. CASE Abs(y) = 1
  <2>1. Abs(x) \div Abs(y) = Abs(x)
    BY <1>4, <1>7, QuotientBound
  <2>2. CASE y = 1
    <3>1. q = x
      <4>1. x * y = x
        BY <1>1, <2>2
      <4> QED
        BY <1>1, <2>1, <4>1 DEF Quotient, Abs
    <3> QED
      BY <1>5, <2>2, <3>1 DEF NoQuotient
  <2>3. CASE y = -1
    <3>1. q = -x
      <4>1. x * y = -x
        BY <1>1, <2>3
      <4> QED
        BY <1>1, <2>1, <4>1 DEF Quotient, Abs
    <3>2. -x \in Ints <=> x # MinInt
      BY <1>1, <1>2, IntsAre
    <3> QED
      BY <1>5, <2>3, <3>1, <3>2 DEF NoQuotient
  <2>4. y = 1 \/ y = -1
    BY <1>1, <1>7 DEF Abs
  <2> QED
    BY <2>2, <2>3, <2>4
<1>8. Abs(y) >= 2 \/ Abs(y) = 1
  BY <1>4
<1> QED
  BY <1>6, <1>7, <1>8
-----------------------------------------------------------------------------
(***************************************************************************)
(* The operations on floats.                                               *)
(***************************************************************************)
LEMMA StoredIs ==
  ASSUME NEW m \in Int
  PROVE  /\ Stored(2 * m, 2) = IF m \in Ints THEN m ELSE MinInt
         /\ Stored(4 * m, 4) = IF m \in Ints THEN m ELSE MinInt
BY QuotientOfMultiple DEF Stored

\* Whatever is calculated with floats is stored as an int: of numbers no
\* operation makes anything else.
THEOREM ResultsAreInts ==
  /\ \A op \in Operations, x, y \in Int : OfFloats(op, x, y) \in Ints
  /\ \A op \in Operations, x, y \in Ints :
       ~ (op \in {"/", "%"} /\ NoQuotient(x, y)) => OfInts(op, x, y) \in Ints
<1>1. MinInt \in Ints
  BY IntsAre
<1>2. ASSUME NEW x, NEW y PROVE Stored(x, y) \in Ints
  BY <1>1 DEF Stored
<1>3. \A op \in Operations, x, y \in Int : OfFloats(op, x, y) \in Ints
  BY <1>2 DEF OfFloats
<1>4. ASSUME NEW op \in Operations, NEW x \in Ints, NEW y \in Ints,
             ~ (op \in {"/", "%"} /\ NoQuotient(x, y))
      PROVE  OfInts(op, x, y) \in Ints
  <2>1. x \in Int /\ y \in Int
    BY IntsAre
  <2>2. x + y \in Int /\ x - y \in Int /\ x * y \in Int
    BY <2>1
  <2>3. Wrap(x + y) \in Ints /\ Wrap(x - y) \in Ints /\ Wrap(x * y) \in Ints
    BY <2>2, WrapIs
  <2>4. op \in {"/", "%"} => y # 0
    BY <1>4 DEF NoQuotient
  <2>5. op = "/" => Quotient(x, y) \in Ints
    BY <1>4, <2>4, QuotientsFit
  <2>6. op = "%" => Remainder(x, y) \in Ints
    BY <2>4, QuotientsFit
  <2> QED
    BY <2>3, <2>5, <2>6 DEF OfInts, Operations
<1> QED
  BY <1>3, <1>4

\* Whole numbers, taken as floats, give what they give as ints wherever the
\* exact result is an int, and for % the absolute value of it: add_floats and
\* the others with allocate_float agree with add_ints and the others.  This is
\* about numbers and results that floats hold exactly, those up to 2^24: beyond
\* them the code rounds, and the two results can differ.
THEOREM FloatsMeetInts ==
  ASSUME NEW op \in Operations, NEW m \in Ints, NEW n \in Ints,
         Fits(op, m, n), Exact(op, m, n)
  PROVE  OfFloats(op, 2 * m, 2 * n) =
           IF op = "%" THEN Abs(OfInts(op, m, n)) ELSE OfInts(op, m, n)
<1>1. m \in Int /\ n \in Int
  BY IntsAre
<1>2. CASE op = "+"
  <2>1. m + n \in Int /\ m + n \in Ints /\ 2 * m + 2 * n = 2 * (m + n)
    BY <1>1, <1>2 DEF Fits
  <2> QED
    BY <1>2, <2>1, StoredIs, WrapIs DEF OfFloats, OfInts
<1>3. CASE op = "-"
  <2>1. m - n \in Int /\ m - n \in Ints /\ 2 * m - 2 * n = 2 * (m - n)
    BY <1>1, <1>3 DEF Fits
  <2> QED
    BY <1>3, <2>1, StoredIs, WrapIs DEF OfFloats, OfInts
<1>4. CASE op = "*"
  <2>1. m * n \in Int /\ m * n \in Ints /\ (2 * m) * (2 * n) = 4 * (m * n)
    BY <1>1, <1>4 DEF Fits
  <2> QED
    BY <1>4, <2>1, StoredIs, WrapIs DEF OfFloats, OfInts
<1>5. CASE op = "/"
  <2>1. n # 0 /\ 2 * n # 0 /\ Quotient(m, n) \in Ints
    BY <1>1, <1>5 DEF Fits
  <2>2. Quotient(2 * m, 2 * n) = Quotient(m, n)
    BY <1>1, <2>1, QuotientDoubled
  <2> QED
    BY <1>5, <2>1, <2>2 DEF OfFloats, OfInts, Stored
<1>6. CASE op = "%"
  <2>1. n # 0
    BY <1>6 DEF Fits
  <2>2. /\ Abs(2 * m) = 2 * Abs(m) /\ Abs(2 * n) = 2 * Abs(n)
        /\ Abs(m) \in Nat /\ Abs(n) \in Nat /\ Abs(n) > 0
    BY <1>1, <2>1, AbsIs
  <2>3. Abs(2 * m) % Abs(2 * n) = 2 * (Abs(m) % Abs(n))
    BY <2>2, DivModDoubled
  <2>4. PICK r : r = Abs(m) % Abs(n)
    OBVIOUS
  <2>5. r = Abs(Remainder(m, n)) /\ Remainder(m, n) \in Int
    BY <1>1, <2>1, <2>4, Truncates
  <2>6. r \in Ints /\ r \in Int
    <3>1. r \in Int /\ 0 <= r /\ r < Abs(n)
      BY <2>2, <2>4, DivMod
    <3>2. Abs(n) <= MaxInt + 1
      BY <1>1, IntsAre DEF Abs, MinInt
    <3> QED
      BY <2>2, <3>1, <3>2, IntsAre DEF MinInt
  <2>7. Stored(2 * r, 2) = r
    BY <2>6, StoredIs
  <2> QED
    BY <1>6, <2>3, <2>4, <2>5, <2>7 DEF OfFloats, OfInts
<1> QED
  BY <1>2, <1>3, <1>4, <1>5, <1>6 DEF Operations

-----------------------------------------------------------------------------
\* A set of natural numbers that is not empty has a first element.
LEMMA FirstExists ==
  ASSUME NEW S \in SUBSET Nat, S # {}
  PROVE  \E i \in S : \A j \in S : i <= j
<1> DEFINE Less == OpToRel(<, Nat)
<1>1. IsWellFoundedOn(Less, Nat)
  BY NatLessThanWellFounded DEF Less
<1>2. PICK i \in S : \A j \in S : ~ (<<j, i>> \in Less)
  BY <1>1, WFMin
<1>3. \A j, k \in Nat : <<j, k>> \in Less <=> j < k
  BY DEF Less, OpToRel
<1>4. \A j \in S : ~ (j < i)
  BY <1>2, <1>3
<1>5. \A j \in S : i <= j
  BY <1>4
<1> QED
  BY <1>5

LEMMA LeastIs ==
  ASSUME NEW S \in SUBSET Nat, S # {}
  PROVE  LeastOf(S) \in S /\ \A j \in S : LeastOf(S) <= j
BY FirstExists DEF LeastOf

\* What holds for 0, and for one more whenever it holds for some number below
\* m, holds up to m.
LEMMA UpTo ==
  ASSUME NEW m \in Nat, NEW S, 0 \in S, \A n \in 1 .. m : n - 1 \in S => n \in S
  PROVE  0 .. m \subseteq S
<1> DEFINE Missing == (0 .. m) \ S
<1>1. SUFFICES ASSUME Missing # {} PROVE FALSE
  BY <1>1
<1>2. Missing \in SUBSET Nat
  OBVIOUS
<1>3. PICK n \in Missing : \A k \in Missing : n <= k
  <2> HIDE DEF Missing
  <2> QED
    BY <1>1, <1>2, FirstExists
<1>4. n \in 1 .. m /\ n - 1 \in 0 .. m
  BY <1>3
<1>5. n - 1 \notin Missing
  BY <1>3, <1>4
<1> QED
  BY <1>4, <1>5

-----------------------------------------------------------------------------
(***************************************************************************)
(* Where elements begin and where atoms end.                               *)
(***************************************************************************)
LEMMA NextElementIs ==
  ASSUME NEW X, NEW e \in Seq(X), NEW i \in Nat
  PROVE  LET s == NextElement(e, i) IN
         /\ s \in 0 .. Len(e)
         /\ s # 0 => s >= i /\ e[s] \notin WhiteSpace
         /\ s # 0 => \A j \in i .. s - 1 : e[j] \in WhiteSpace
         /\ s = 0 /\ i # 0 => \A j \in i .. Len(e) : e[j] \in WhiteSpace
<1> DEFINE S == {j \in i .. Len(e) : e[j] \notin WhiteSpace}
           s == NextElement(e, i)
<1>0. Len(e) \in Nat
  OBVIOUS
<1>1. s = IF S = {} THEN 0 ELSE LeastOf(S)
  BY DEF NextElement
<1>2. S \in SUBSET Nat
  BY <1>0
<1>3. S # {} => LeastOf(S) \in S /\ \A j \in S : LeastOf(S) <= j
  BY <1>2, LeastIs
<1>4. CASE S = {}
  BY <1>0, <1>1, <1>4
<1>5. CASE S # {}
  <2>1. s \in S /\ \A j \in S : s <= j
    BY <1>1, <1>3, <1>5
  <2>2. s \in i .. Len(e) /\ e[s] \notin WhiteSpace
    BY <2>1
  <2>3. ASSUME NEW j \in i .. s - 1 PROVE e[j] \in WhiteSpace
    <3>1. j \in i .. Len(e) /\ ~ (s <= j)
      BY <1>0, <2>2
    <3>2. j \notin S
      BY <2>1, <3>1
    <3> QED
      BY <3>1, <3>2
  <2>4. s = 0 => i = 0
    BY <1>0, <2>2
  <2> QED
    BY <1>0, <2>2, <2>3, <2>4
<1> QED
  BY <1>4, <1>5

\* The first that is no white space is the next element.
LEMMA NextElementAt ==
  ASSUME NEW X, NEW e \in Seq(X), NEW i \in 1 .. Len(e), e[i] \notin WhiteSpace
  PROVE  NextElement(e, i) = i
<1>1. i \in Nat /\ i # 0 /\ Len(e) \in Nat
  OBVIOUS
<1> DEFINE s == NextElement(e, i)
<1>2. s # 0
  BY <1>1, NextElementIs
<1>3. s \in Nat /\ s >= i /\ (s > i => e[i] \in WhiteSpace)
  BY <1>1, <1>2, NextElementIs
<1> QED
  BY <1>1, <1>3

\* White space before an element does not change it.
LEMMA NextElementSkips ==
  ASSUME NEW X, NEW e \in Seq(X), NEW i \in 1 .. Len(e), e[i] \in WhiteSpace
  PROVE  NextElement(e, i) = NextElement(e, i + 1)
<1>1. \A j : j \in i .. Len(e) <=> j = i \/ j \in i + 1 .. Len(e)
  OBVIOUS
<1>2. {j \in i .. Len(e) : e[j] \notin WhiteSpace}
        = {j \in i + 1 .. Len(e) : e[j] \notin WhiteSpace}
  BY <1>1
<1> QED
  BY <1>2 DEF NextElement

LEMMA AtomEndIs ==
  ASSUME NEW X, NEW e \in Seq(X), NEW i \in 1 .. Len(e),
         e[i] \notin WhiteSpace \cup Brackets
  PROVE  /\ AtomEnd(e, i) \in i + 1 .. Len(e) + 1
         /\ \A j \in i .. AtomEnd(e, i) - 1 : e[j] \notin WhiteSpace \cup Brackets
         /\ AtomEnd(e, i) <= Len(e) => e[AtomEnd(e, i)] \in WhiteSpace \cup Brackets
<1> DEFINE S == {j \in i .. Len(e) : e[j] \in WhiteSpace \cup Brackets} \cup {Len(e) + 1}
<1>0. Len(e) \in Nat
  OBVIOUS
<1>1. AtomEnd(e, i) = LeastOf(S) /\ S \in SUBSET Nat /\ S # {}
  BY <1>0 DEF AtomEnd
<1>2. AtomEnd(e, i) \in S /\ \A j \in S : AtomEnd(e, i) <= j
  <2> HIDE DEF S
  <2> QED
    BY <1>1, LeastIs
<1>3. AtomEnd(e, i) \in i .. Len(e) + 1 /\ AtomEnd(e, i) # i
  BY <1>0, <1>2
<1>4. ASSUME NEW j \in i .. AtomEnd(e, i) - 1 PROVE e[j] \notin WhiteSpace \cup Brackets
  <2>1. j \in i .. Len(e) /\ ~ (AtomEnd(e, i) <= j)
    BY <1>0, <1>3
  <2> QED
    BY <1>2, <2>1
<1>5. AtomEnd(e, i) <= Len(e) => e[AtomEnd(e, i)] \in WhiteSpace \cup Brackets
  BY <1>0, <1>2
<1> QED
  BY <1>0, <1>3, <1>4, <1>5

-----------------------------------------------------------------------------
(***************************************************************************)
(* The recursion of parse_expression and parse_list is well founded: there *)
(* are readings that satisfy it from any position on.                      *)
(***************************************************************************)
Readers     == {"expression", "list"}
From(n)     == {i \in Nat : n <= i}
Read(e, c, at) ==
  IF c[1] = "expression" THEN ParseExpression(e, c[2], at) ELSE ParseList(e, c[2], at)

\* at has the readings of e from n on.
Covers(at, e, n) == at = [c \in Readers \X From(n) |-> Read(e, c, at)]

\* Where readings at a position of e end.
Advances(at, e, i) ==
  /\ at[<<"expression", i>>].next \in i .. Len(e) + 1
  /\ at[<<"list", i>>].next \in i .. Len(e) + 1
  /\ NextElement(e, i) # 0 => at[<<"expression", i>>].next > NextElement(e, i)

LEMMA CoversIs ==
  ASSUME NEW at, NEW e, NEW n \in Nat, Covers(at, e, n), NEW i \in From(n)
  PROVE  /\ at[<<"expression", i>>] = ParseExpression(e, i, at)
         /\ at[<<"list", i>>] = ParseList(e, i, at)
<1>1. \A c \in Readers \X From(n) : at[c] = Read(e, c, at)
  BY DEF Covers
<1>2. <<"expression", i>> \in Readers \X From(n) /\ <<"list", i>> \in Readers \X From(n)
  BY DEF Readers
<1>3. Read(e, <<"expression", i>>, at) = ParseExpression(e, i, at)
  BY DEF Read
<1>4. Read(e, <<"list", i>>, at) = ParseList(e, i, at)
  BY DEF Read
<1> QED
  BY <1>1, <1>2, <1>3, <1>4

\* Two readings are the same from n on.
Agree(a, b, n) == \A f \in Readers, j \in From(n) : a[<<f, j>>] = b[<<f, j>>]

LEMMA ExpressionLooksAhead ==
  ASSUME NEW X, NEW e \in Seq(X), NEW i \in Nat, NEW a, NEW b, Agree(a, b, i + 1)
  PROVE  ParseExpression(e, i, a) = ParseExpression(e, i, b)
<1> DEFINE s == NextElement(e, i)
<1>0. Len(e) \in Nat
  OBVIOUS
<1>a. s \in 0 .. Len(e) /\ (s # 0 => s >= i)
  BY NextElementIs
<1>1. s \in Nat /\ (s # 0 => s + 1 \in From(i + 1))
  BY <1>0, <1>a DEF From
<1>2. s # 0 => a[<<"list", s + 1>>] = b[<<"list", s + 1>>]
               /\ a[<<"expression", s + 1>>] = b[<<"expression", s + 1>>]
  BY <1>1 DEF Agree, Readers
<1> QED
  BY <1>2 DEF ParseExpression

LEMMA ListLooksAhead ==
  ASSUME NEW X, NEW e \in Seq(X), NEW i \in Nat, NEW a, NEW b, Agree(a, b, i + 1),
         a[<<"expression", i>>] = b[<<"expression", i>>],
         LET s == NextElement(e, i) IN
         s # 0 => a[<<"expression", s>>].next \in Nat /\ a[<<"expression", s>>].next > s
  PROVE  ParseList(e, i, a) = ParseList(e, i, b)
<1> DEFINE s == NextElement(e, i)
           next == a[<<"expression", s>>].next
<1>0. Len(e) \in Nat
  OBVIOUS
<1>1. s \in Nat /\ (s # 0 => s >= i)
  BY <1>0, NextElementIs
<1>2. s # 0 => a[<<"expression", s>>] = b[<<"expression", s>>]
  <2>1. s # 0 /\ s # i => s \in From(i + 1)
    BY <1>1 DEF From
  <2> QED
    BY <2>1 DEF Agree, Readers
<1>3. s # 0 => next \in From(i + 1)
  BY <1>1 DEF From
<1>4. s # 0 => a[<<"list", next>>] = b[<<"list", next>>]
  BY <1>3 DEF Agree, Readers
<1> QED
  BY <1>2, <1>4 DEF ParseList

\* parse_expression and parse_list, case by case.
LEMMA ExpressionCases ==
  ASSUME NEW e, NEW i, NEW at
  PROVE  LET s == NextElement(e, i)
             p == ParseExpression(e, i, at)
             q == at[<<"expression", s + 1>>]
             l == at[<<"list", s + 1>>]
         IN
         /\ s = 0 => p = Parsed(Null, Len(e) + 1, TRUE)
         /\ s # 0 /\ e[s] = ")" => p = Parsed(Null, s + 1, TRUE)
         /\ s # 0 /\ e[s] = "'" => p = Parsed(QuoteList(q.v), q.next, q.inside)
         /\ s # 0 /\ e[s] = "(" =>
              p = Parsed(IF l.v = Null THEN Nil ELSE l.v, l.next, l.inside)
         /\ s # 0 /\ e[s] \notin {")", "'", "("} =>
              p = Parsed(AtomObject(SubSeq(e, s, AtomEnd(e, s) - 1)), AtomEnd(e, s), TRUE)
BY DEF ParseExpression

LEMMA ListCases ==
  ASSUME NEW e, NEW i, NEW at
  PROVE  LET s == NextElement(e, i)
             p == ParseList(e, i, at)
             element == at[<<"expression", s>>]
             rest == at[<<"list", element.next>>]
         IN
         /\ s = 0 => p = Parsed(Null, Len(e) + 1, FALSE)
         /\ s # 0 /\ e[s] = ")" => p = Parsed(Null, s + 1, TRUE)
         /\ s # 0 /\ e[s] # ")" =>
              p = Parsed(Cons(element.v, rest.v), rest.next, element.inside /\ rest.inside)
BY DEF ParseList

LEMMA ExpressionAdvances ==
  ASSUME NEW X, NEW e \in Seq(X), NEW i \in 0 .. Len(e), NEW a,
         \A j \in i + 1 .. Len(e) + 1 : Advances(a, e, j),
         NEW p, p = ParseExpression(e, i, a)
  PROVE  /\ p.next \in i .. Len(e) + 1
         /\ NextElement(e, i) # 0 => p.next > NextElement(e, i)
<1> DEFINE s == NextElement(e, i)
<1>0. Len(e) \in Nat /\ i \in Nat
  OBVIOUS
<1>1. s \in 0 .. Len(e) /\ (s # 0 => s >= i)
  BY <1>0, NextElementIs
<1>2. CASE s = 0
  <2>0. p = Parsed(Null, Len(e) + 1, TRUE)
    BY <1>2, ExpressionCases
  <2>1. p.next = Len(e) + 1
    BY <2>0 DEF Parsed
  <2> QED
    BY <1>0, <1>2, <2>1
<1>3. CASE s # 0
  <2>1. s + 1 \in i + 1 .. Len(e) + 1
    BY <1>1, <1>3
  <2>2. Advances(a, e, s + 1)
    BY <2>1
  <2>3. a[<<"expression", s + 1>>].next \in s + 1 .. Len(e) + 1
        /\ a[<<"list", s + 1>>].next \in s + 1 .. Len(e) + 1
    BY <2>2 DEF Advances
  <2>4. e[s] \notin Brackets => AtomEnd(e, s) \in s + 1 .. Len(e) + 1
    BY SMTT(20), <1>1, <1>3, NextElementIs, AtomEndIs
  <2>5. e[s] \notin {")", "("} => AtomEnd(e, s) \in s + 1 .. Len(e) + 1
    BY <2>4 DEF Brackets
  <2>6. \/ p.next = s + 1
        \/ p.next = a[<<"expression", s + 1>>].next
        \/ p.next = a[<<"list", s + 1>>].next
        \/ p.next = AtomEnd(e, s) /\ e[s] \notin {")", "("}
    BY <1>3, ExpressionCases DEF Parsed
  <2>7. p.next \in s + 1 .. Len(e) + 1
    BY <1>1, <1>3, <2>3, <2>5, <2>6
  <2> QED
    BY <1>0, <1>1, <1>3, <2>7
<1> QED
  BY <1>2, <1>3

LEMMA ListAdvances ==
  ASSUME NEW X, NEW e \in Seq(X), NEW i \in 0 .. Len(e), NEW a,
         \A j \in i + 1 .. Len(e) + 1 : Advances(a, e, j),
         LET s == NextElement(e, i) IN
         s # 0 => a[<<"expression", s>>].next \in s + 1 .. Len(e) + 1,
         NEW p, p = ParseList(e, i, a)
  PROVE  p.next \in i .. Len(e) + 1
<1> DEFINE s == NextElement(e, i)
           next == a[<<"expression", s>>].next
<1>0. Len(e) \in Nat /\ i \in Nat
  OBVIOUS
<1>1. s \in 0 .. Len(e) /\ (s # 0 => s >= i)
  BY <1>0, NextElementIs
<1>2. CASE s = 0
  <2>0. p = Parsed(Null, Len(e) + 1, FALSE)
    BY <1>2, ListCases
  <2>1. p.next = Len(e) + 1
    BY <2>0 DEF Parsed
  <2> QED
    BY <1>0, <2>1
<1>3. CASE s # 0
  <2>1. next \in s + 1 .. Len(e) + 1
    BY <1>3
  <2>2. next \in i + 1 .. Len(e) + 1
    BY <1>1, <1>3, <2>1
  <2>3. Advances(a, e, next)
    BY <2>2
  <2>4. a[<<"list", next>>].next \in next .. Len(e) + 1
    BY <2>3 DEF Advances
  <2>5. p.next = s + 1 \/ p.next = a[<<"list", next>>].next
    BY <1>3, ListCases DEF Parsed
  <2> QED
    BY <1>0, <1>1, <1>3, <2>1, <2>4, <2>5
<1> QED
  BY <1>2, <1>3

LEMMA AgreeFurther ==
  ASSUME NEW a, NEW b, NEW n \in Nat, NEW i \in From(n), Agree(a, b, n)
  PROVE  Agree(a, b, i) /\ Agree(a, b, i + 1)
<1>1. From(i) \subseteq From(n) /\ From(i + 1) \subseteq From(n)
  BY DEF From
<1> QED
  BY <1>1 DEF Agree

\* Readings from n + 1 on can be extended to n.
LEMMA ReadingsExtend ==
  ASSUME NEW X, NEW e \in Seq(X), NEW n \in 0 .. Len(e), NEW a, Covers(a, e, n + 1),
         \A j \in n + 1 .. Len(e) + 1 : Advances(a, e, j)
  PROVE  \E b : Covers(b, e, n) /\ \A j \in n .. Len(e) + 1 : Advances(b, e, j)
<1> DEFINE x == ParseExpression(e, n, a)
           mid == [c \in Readers \X From(n) |-> IF c[2] = n THEN x ELSE a[c]]
           y == ParseList(e, n, mid)
           b == [c \in Readers \X From(n) |->
                   IF c[2] = n THEN (IF c[1] = "expression" THEN x ELSE y) ELSE a[c]]
           s == NextElement(e, n)
<1>0. Len(e) \in Nat /\ n \in Nat /\ n + 1 \in Nat
  OBVIOUS
<1>1. From(n + 1) \subseteq From(n) /\ n \in From(n) /\ n \notin From(n + 1)
  BY <1>0 DEF From
<1>2. \A i \in From(n) : i = n \/ i \in From(n + 1)
  BY <1>0 DEF From
<1>3. \A f \in Readers : mid[<<f, n>>] = x
  BY <1>1
<1>4. \A f \in Readers, i \in From(n + 1) : mid[<<f, i>>] = a[<<f, i>>]
  BY <1>1
<1>5. \A f \in Readers, i \in From(n + 1) : b[<<f, i>>] = a[<<f, i>>]
  BY <1>1
<1>6. b[<<"expression", n>>] = x
  BY <1>1 DEF Readers
<1>7. b[<<"list", n>>] = y
  BY <1>1 DEF Readers
<1>8. Agree(a, b, n + 1) /\ Agree(b, mid, n + 1)
  <2> HIDE DEF b, mid
  <2> QED
    BY <1>4, <1>5 DEF Agree
<1>9. \A c \in Readers \X From(n) : c = <<c[1], c[2]>> /\ c[1] \in Readers /\ c[2] \in From(n)
  OBVIOUS
<1>10. b = [c \in Readers \X From(n) |-> b[c]]
  OBVIOUS
<1>11. mid[<<"expression", n>>] = x
  BY <1>3 DEF Readers
<1> HIDE DEF b, mid, y
<1>12. x = ParseExpression(e, n, b)
  BY <1>0, <1>8, ExpressionLooksAhead
<1>13. x.next \in n .. Len(e) + 1 /\ (s # 0 => x.next > s)
  BY ExpressionAdvances
<1>14. ASSUME NEW j \in n + 1 .. Len(e) + 1 PROVE Advances(b, e, j)
  <2>1. j \in From(n + 1)
    BY <1>0 DEF From
  <2>2. b[<<"expression", j>>] = a[<<"expression", j>>] /\ b[<<"list", j>>] = a[<<"list", j>>]
    BY <1>5, <2>1 DEF Readers
  <2>3. Advances(a, e, j)
    OBVIOUS
  <2> QED
    BY <2>2, <2>3 DEF Advances
<1>15. s \in 0 .. Len(e) /\ (s # 0 => s >= n)
  BY <1>0, NextElementIs
<1>16. s # 0 => b[<<"expression", s>>].next \in s + 1 .. Len(e) + 1
  <2> SUFFICES ASSUME s # 0 PROVE b[<<"expression", s>>].next \in s + 1 .. Len(e) + 1
    OBVIOUS
  <2>1. CASE s = n
    BY <1>0, <1>6, <1>13, <2>1
  <2>2. CASE s # n
    <3>1. s \in n + 1 .. Len(e) + 1 /\ s \in Nat /\ s \in 1 .. Len(e)
      BY <1>0, <1>15, <2>2
    <3>2. Advances(b, e, s)
      BY <1>14, <3>1
    <3>3. e[s] \notin WhiteSpace
      BY <1>0, <1>15, NextElementIs
    <3>4. NextElement(e, s) = s
      BY <3>1, <3>3, NextElementAt
    <3>5. b[<<"expression", s>>].next \in s .. Len(e) + 1 /\ b[<<"expression", s>>].next > s
      BY <3>2, <3>4 DEF Advances
    <3> QED
      BY <1>0, <3>1, <3>5
  <2> QED
    BY <2>1, <2>2
<1>17. s # 0 => b[<<"expression", s>>].next \in Nat /\ b[<<"expression", s>>].next > s
  BY <1>0, <1>15, <1>16
<1>18. y = ParseList(e, n, b)
  BY <1>0, <1>6, <1>8, <1>11, <1>17, ListLooksAhead DEF y
<1>19. b[<<"list", n>>].next \in n .. Len(e) + 1
  BY <1>7, <1>14, <1>16, <1>18, ListAdvances
<1>20. Advances(b, e, n)
  BY <1>6, <1>13, <1>19 DEF Advances
<1>21. ASSUME NEW i \in From(n + 1)
       PROVE  /\ b[<<"expression", i>>] = ParseExpression(e, i, b)
              /\ b[<<"list", i>>] = ParseList(e, i, b)
  <2>0. i \in Nat /\ i \in From(n)
    BY <1>1 DEF From
  <2>1. a[<<"expression", i>>] = ParseExpression(e, i, a) /\ a[<<"list", i>>] = ParseList(e, i, a)
    BY <1>0, CoversIs
  <2>2. b[<<"expression", i>>] = a[<<"expression", i>>] /\ b[<<"list", i>>] = a[<<"list", i>>]
    BY <1>5 DEF Readers
  <2>3. Agree(a, b, i + 1)
    BY <1>0, <1>8, AgreeFurther
  <2>4. ParseExpression(e, i, a) = ParseExpression(e, i, b)
    BY <2>0, <2>3, ExpressionLooksAhead
  <2>5. LET t == NextElement(e, i) IN
        t # 0 => a[<<"expression", t>>].next \in Nat /\ a[<<"expression", t>>].next > t
    <3> DEFINE t == NextElement(e, i)
    <3> SUFFICES ASSUME t # 0
                 PROVE  a[<<"expression", t>>].next \in Nat /\ a[<<"expression", t>>].next > t
      OBVIOUS
    <3>1. t \in 0 .. Len(e) /\ t >= i /\ e[t] \notin WhiteSpace
      BY <2>0, NextElementIs
    <3>2. t \in 1 .. Len(e) /\ t \in n + 1 .. Len(e) + 1
      BY <1>0, <2>0, <3>1 DEF From
    <3>3. NextElement(e, t) = t
      BY <3>1, <3>2, NextElementAt
    <3>4. Advances(a, e, t)
      BY <3>2
    <3>5. a[<<"expression", t>>].next \in t .. Len(e) + 1 /\ a[<<"expression", t>>].next > t
      BY <3>2, <3>3, <3>4 DEF Advances
    <3> QED
      BY <1>0, <3>2, <3>5
  <2>6. ParseList(e, i, a) = ParseList(e, i, b)
    BY <2>0, <2>2, <2>3, <2>5, ListLooksAhead
  <2> QED
    BY <2>1, <2>2, <2>4, <2>6
<1>22. ASSUME NEW i \in From(n)
       PROVE  /\ b[<<"expression", i>>] = ParseExpression(e, i, b)
              /\ b[<<"list", i>>] = ParseList(e, i, b)
  <2>1. CASE i = n
    BY <1>6, <1>7, <1>12, <1>18, <2>1
  <2> QED
    BY <1>2, <1>21, <2>1
<1>23. ASSUME NEW c \in Readers \X From(n) PROVE b[c] = Read(e, c, b)
  <2>1. c[1] = "expression" => b[c] = Read(e, c, b)
    BY <1>9, <1>22 DEF Read
  <2>2. c[1] # "expression" => b[c] = Read(e, c, b)
    <3>1. c[1] # "expression" => c[1] = "list"
      BY <1>9 DEF Readers
    <3> QED
      BY <1>9, <1>22, <3>1 DEF Read
  <2> QED
    BY <2>1, <2>2
<1>24. Covers(b, e, n)
  BY <1>10, <1>23 DEF Covers
<1>25. \A j \in n .. Len(e) + 1 : j = n \/ j \in n + 1 .. Len(e) + 1
  BY <1>0
<1> QED
  BY <1>14, <1>20, <1>24, <1>25

LEMMA ReadingsExist ==
  ASSUME NEW X, NEW e \in Seq(X)
  PROVE  \E a : Covers(a, e, 0) /\ \A j \in 0 .. Len(e) + 1 : Advances(a, e, j)
<1> DEFINE m == Len(e) + 1
           ReadFrom(n) == \E a : Covers(a, e, n) /\ \A j \in n .. m : Advances(a, e, j)
           S == {k \in 0 .. m : ReadFrom(m - k)}
<1>0. Len(e) \in Nat /\ m \in Nat
  OBVIOUS
<1>1. ReadFrom(m)
  <2> DEFINE z(c) == IF c[1] = "expression" THEN Parsed(Null, m, TRUE) ELSE Parsed(Null, m, FALSE)
             a == [c \in Readers \X From(m) |-> z(c)]
  <2>1. ASSUME NEW i \in From(m) PROVE NextElement(e, i) = 0
    <3>1. i \in Nat /\ i >= m
      BY DEF From
    <3>2. NextElement(e, i) \in 0 .. Len(e) /\ (NextElement(e, i) # 0 => NextElement(e, i) >= i)
      BY <3>1, NextElementIs
    <3> QED
      BY <1>0, <3>1, <3>2
  <2>2. ASSUME NEW c \in Readers \X From(m) PROVE Read(e, c, a) = z(c)
    <3>1. NextElement(e, c[2]) = 0
      BY <2>1
    <3>2. ParseExpression(e, c[2], a) = Parsed(Null, m, TRUE)
      BY <3>1, ExpressionCases
    <3>3. ParseList(e, c[2], a) = Parsed(Null, m, FALSE)
      BY <3>1, ListCases
    <3> QED
      BY <3>2, <3>3 DEF Read
  <2>3. Covers(a, e, m)
    BY <2>2 DEF Covers
  <2>4. m \in From(m) /\ \A j \in m .. m : j = m
    BY <1>0 DEF From
  <2>5. a[<<"expression", m>>].next = m /\ a[<<"list", m>>].next = m
    BY <2>4 DEF Readers, Parsed
  <2>6. Advances(a, e, m)
    <3> HIDE DEF a
    <3> QED
      BY <1>0, <2>1, <2>4, <2>5 DEF Advances
  <2> QED
    BY <2>3, <2>4, <2>6
<1>2. 0 \in S
  BY <1>0, <1>1
<1>3. ASSUME NEW k \in 1 .. m, k - 1 \in S PROVE k \in S
  <2> DEFINE n == m - k
  <2>1. n \in 0 .. Len(e) /\ m - (k - 1) = n + 1
    BY <1>0
  <2>2. ReadFrom(n + 1)
    BY <1>3, <2>1
  <2>3. PICK a : Covers(a, e, n + 1) /\ \A j \in n + 1 .. Len(e) + 1 : Advances(a, e, j)
    BY <2>2
  <2>4. \E b : Covers(b, e, n) /\ \A j \in n .. Len(e) + 1 : Advances(b, e, j)
    BY <2>1, <2>3, ReadingsExtend
  <2> QED
    BY <2>4
<1>4. m \in S
  <2> HIDE DEF S, m
  <2>1. 0 .. m \subseteq S
    BY <1>0, <1>2, <1>3, UpTo
  <2> QED
    BY <1>0, <2>1
<1>5. ReadFrom(m - m) /\ m - m = 0
  BY <1>0, <1>4
<1> QED
  BY <1>5

\* What the recursive calls return.
LEMMA ReadingsAre ==
  ASSUME NEW X, NEW e \in Seq(X), NEW i \in Nat
  PROVE  /\ Readings(e)[<<"expression", i>>] = ParseExpression(e, i, Readings(e))
         /\ Readings(e)[<<"list", i>>] = ParseList(e, i, Readings(e))
<1>1. From(0) = Nat
  BY DEF From
<1>2. Readings(e) = CHOOSE a : Covers(a, e, 0)
  BY <1>1 DEF Readings, Covers, Read, Readers
<1>3. Covers(Readings(e), e, 0)
  BY <1>2, ReadingsExist
<1> QED
  BY <1>1, <1>3, CoversIs

-----------------------------------------------------------------------------
(***************************************************************************)
(* Brackets.  Depth(e, i) of them are open before position i.              *)
(***************************************************************************)
Depth(e, i) == Net(SubSeq(e, 1, i - 1))

\* The positions before i that hold c.
Before(e, i, c) == {j \in 1 .. i - 1 : e[j] = c}

LEMMA DepthIs ==
  ASSUME NEW X, NEW e \in Seq(X), NEW i \in 1 .. Len(e) + 1
  PROVE  Depth(e, i) = Cardinality(Before(e, i, "(")) - Cardinality(Before(e, i, ")"))
<1> DEFINE f == SubSeq(e, 1, i - 1)
<1>0. Len(e) \in Nat /\ i - 1 \in 0 .. Len(e)
  OBVIOUS
<1>1. Len(f) = i - 1 /\ \A j \in 1 .. i - 1 : f[j] = e[j]
  BY <1>0
<1>2. f \in Seq(X)
  BY <1>0
<1>3. DOMAIN f = 1 .. i - 1
  BY <1>1, <1>2
<1>4. ASSUME NEW c PROVE {j \in DOMAIN f : f[j] = c} = Before(e, i, c)
  BY <1>1, <1>3 DEF Before
<1> QED
  BY <1>4 DEF Depth, Net, Count

LEMMA BeforeFinite ==
  ASSUME NEW e, NEW i \in Nat, NEW c
  PROVE  IsFiniteSet(Before(e, i, c)) /\ Cardinality(Before(e, i, c)) \in Nat
<1>1. IsFiniteSet(1 .. i - 1)
  BY FS_Interval
<1>2. Before(e, i, c) \subseteq 1 .. i - 1
  BY DEF Before
<1>3. IsFiniteSet(Before(e, i, c))
  BY <1>1, <1>2, FS_Subset
<1> QED
  BY <1>3, FS_CardinalityType

\* A bracket opens or closes one.
LEMMA DepthStep ==
  ASSUME NEW X, NEW e \in Seq(X), NEW i \in 1 .. Len(e)
  PROVE  /\ Depth(e, i) \in Int
         /\ e[i] = "(" => Depth(e, i + 1) = Depth(e, i) + 1
         /\ e[i] = ")" => Depth(e, i + 1) = Depth(e, i) - 1
<1>0. Len(e) \in Nat /\ i \in Nat /\ i \in 1 .. Len(e) + 1 /\ i + 1 \in 1 .. Len(e) + 1
  OBVIOUS
<1>1. \A c : IsFiniteSet(Before(e, i, c)) /\ Cardinality(Before(e, i, c)) \in Nat
  BY <1>0, BeforeFinite
<1>2. ASSUME NEW c, e[i] = c
      PROVE  Cardinality(Before(e, i + 1, c)) = Cardinality(Before(e, i, c)) + 1
  <2>1. Before(e, i + 1, c) = Before(e, i, c) \cup {i}
    BY <1>0, <1>2 DEF Before
  <2>2. i \notin Before(e, i, c)
    BY <1>0 DEF Before
  <2> QED
    BY <1>1, <2>1, <2>2, FS_AddElement
<1>3. ASSUME NEW c, e[i] # c PROVE Before(e, i + 1, c) = Before(e, i, c)
  BY <1>0, <1>3 DEF Before
<1>4. Depth(e, i) = Cardinality(Before(e, i, "(")) - Cardinality(Before(e, i, ")"))
  BY <1>0, DepthIs
<1>5. Depth(e, i + 1)
        = Cardinality(Before(e, i + 1, "(")) - Cardinality(Before(e, i + 1, ")"))
  BY <1>0, DepthIs
<1>6. "(" # ")"
  OBVIOUS
<1>7. ASSUME e[i] = "(" PROVE Depth(e, i + 1) = Depth(e, i) + 1
  <2>1. Cardinality(Before(e, i + 1, "(")) = Cardinality(Before(e, i, "(")) + 1
    BY <1>2, <1>7
  <2>2. Before(e, i + 1, ")") = Before(e, i, ")")
    BY <1>3, <1>6, <1>7
  <2> QED
    BY <1>1, <1>4, <1>5, <2>1, <2>2
<1>8. ASSUME e[i] = ")" PROVE Depth(e, i + 1) = Depth(e, i) - 1
  <2>1. Cardinality(Before(e, i + 1, ")")) = Cardinality(Before(e, i, ")")) + 1
    BY <1>2, <1>8
  <2>2. Before(e, i + 1, "(") = Before(e, i, "(")
    BY <1>3, <1>6, <1>8
  <2> QED
    BY <1>1, <1>4, <1>5, <2>1, <2>2
<1>9. Depth(e, i) \in Int
  BY <1>1, <1>4
<1> QED
  BY <1>7, <1>8, <1>9

\* Other characters do not.
LEMMA DepthStays ==
  ASSUME NEW X, NEW e \in Seq(X), NEW i \in 1 .. Len(e) + 1, NEW j \in i .. Len(e) + 1,
         \A k \in i .. j - 1 : e[k] \notin Brackets
  PROVE  Depth(e, j) = Depth(e, i)
<1>0. Len(e) \in Nat /\ i \in Nat /\ j \in Nat /\ j \in 1 .. Len(e) + 1 /\ i <= j
  OBVIOUS
<1>1. ASSUME NEW c \in Brackets PROVE Before(e, j, c) = Before(e, i, c)
  <2>1. \A k \in 1 .. j - 1 : k \in 1 .. i - 1 \/ k \in i .. j - 1
    BY <1>0
  <2>2. \A k \in 1 .. i - 1 : k \in 1 .. j - 1
    BY <1>0
  <2> QED
    BY <2>1, <2>2 DEF Before
<1>2. "(" \in Brackets /\ ")" \in Brackets
  BY DEF Brackets
<1> QED
  BY <1>0, <1>1, <1>2, DepthIs

LEMMA DepthToNext ==
  ASSUME NEW X, NEW e \in Seq(X), NEW i \in 1 .. Len(e) + 1
  PROVE  LET s == NextElement(e, i) IN
         Depth(e, IF s = 0 THEN Len(e) + 1 ELSE s) = Depth(e, i)
<1> DEFINE s == NextElement(e, i)
           j == IF s = 0 THEN Len(e) + 1 ELSE s
<1>0. Len(e) \in Nat /\ i \in Nat /\ i # 0
  OBVIOUS
<1>1. /\ s \in 0 .. Len(e)
      /\ s # 0 => s >= i /\ \A k \in i .. s - 1 : e[k] \in WhiteSpace
      /\ s = 0 => \A k \in i .. Len(e) : e[k] \in WhiteSpace
  BY <1>0, NextElementIs
<1>2. j \in i .. Len(e) + 1
  BY <1>0, <1>1
<1>3. \A k \in i .. j - 1 : e[k] \in WhiteSpace
  BY <1>0, <1>1
<1>4. \A c \in WhiteSpace : c \notin Brackets
  BY DEF WhiteSpace, Brackets
<1> HIDE DEF j
<1>5. Depth(e, j) = Depth(e, i)
  BY <1>2, <1>3, <1>4, DepthStays
<1> QED
  BY <1>5 DEF j

-----------------------------------------------------------------------------
(***************************************************************************)
(* Induction over what is read of a valid, balanced expression: from the   *)
(* elements and rests of lists that come later in it.                      *)
(***************************************************************************)
Sentence(X, e) == e \in Seq(X) /\ IsValid(e) /\ IsBalanced(e) /\ QuotesSomething(e)

\* Where elements begin, and where parse_list is called: with a bracket open.
ElementPlaces(e) == {s \in 1 .. Len(e) : e[s] \notin WhiteSpace \cup {")"}}
ListPlaces(e)    == {i \in 1 .. Len(e) + 1 : Depth(e, i) >= 1}

Element(e, s) == Readings(e)[<<"expression", s>>]
Rest(e, i)    == Readings(e)[<<"list", i>>]

LEMMA Backwards ==
  ASSUME NEW m \in Nat, NEW S,
         \A i \in 1 .. m : (\A j \in i + 1 .. m : j \in S) => i \in S
  PROVE  1 .. m \subseteq S
<1> DEFINE T == {k \in 0 .. m : \A j \in m - k + 1 .. m : j \in S}
<1>1. 0 \in T
  OBVIOUS
<1>2. ASSUME NEW k \in 1 .. m, k - 1 \in T PROVE k \in T
  <2> DEFINE i == m - k + 1
  <2>1. i \in 1 .. m /\ m - (k - 1) + 1 = i + 1
    OBVIOUS
  <2>2. \A j \in i + 1 .. m : j \in S
    BY <1>2, <2>1
  <2>3. i \in S
    BY <2>1, <2>2
  <2>4. \A j \in i .. m : j = i \/ j \in i + 1 .. m
    BY <2>1
  <2> QED
    BY <2>2, <2>3, <2>4
<1>3. m \in T
  <2> HIDE DEF T
  <2>1. 0 .. m \subseteq T
    BY <1>1, <1>2, UpTo
  <2> QED
    BY <2>1
<1>4. m - m + 1 = 1
  OBVIOUS
<1> QED
  BY <1>3, <1>4

\* Reading from i is reading from its next element.
LEMMA ReadsAtNext ==
  ASSUME NEW X, NEW e \in Seq(X), NEW i \in Nat, NextElement(e, i) # 0
  PROVE  Element(e, NextElement(e, i)) = Element(e, i)
<1> DEFINE s == NextElement(e, i)
           R == Readings(e)
<1>0. Len(e) \in Nat
  OBVIOUS
<1>1. s \in 1 .. Len(e) /\ s \in Nat /\ e[s] \notin WhiteSpace
  BY <1>0, NextElementIs
<1>2. NextElement(e, s) = s
  BY <1>1, NextElementAt
<1> HIDE DEF s
<1>3. ParseExpression(e, i, R) = ParseExpression(e, s, R)
  BY <1>2 DEF ParseExpression, s
<1>4. Element(e, s) = ParseExpression(e, s, R) /\ Element(e, i) = ParseExpression(e, i, R)
  BY <1>1, ReadingsAre DEF Element
<1> QED
  BY <1>3, <1>4 DEF s

LEMMA DepthsAre ==
  ASSUME NEW X, NEW e, Sentence(X, e)
  PROVE  /\ Depth(e, 1) = 0 /\ Depth(e, Len(e) + 1) = 0
         /\ \A i \in 1 .. Len(e) + 1 : Depth(e, i) \in Nat
<1>0. Len(e) \in Nat /\ e \in Seq(X)
  BY DEF Sentence
<1>1. SubSeq(e, 1, Len(e)) = e
  BY <1>0
<1>2. Len(e) + 1 - 1 = Len(e) /\ 1 - 1 = 0
  BY <1>0
<1>3. Depth(e, Len(e) + 1) = 0
  <2> DEFINE f == SubSeq(e, 1, Len(e) + 1 - 1)
  <2>1. f = e
    BY <1>1, <1>2
  <2>2. Net(e) = 0
    BY DEF Sentence, IsBalanced
  <2>3. Depth(e, Len(e) + 1) = Net(f)
    BY DEF Depth
  <2> HIDE DEF f
  <2> QED
    BY <2>1, <2>2, <2>3
<1>4. Before(e, 1, "(") = {} /\ Before(e, 1, ")") = {}
  BY DEF Before
<1>5. Depth(e, 1) = 0
  <2>1. Cardinality({}) = 0 /\ 1 \in 1 .. Len(e) + 1
    BY <1>0, FS_EmptySet
  <2>2. Depth(e, 1) = Cardinality({}) - Cardinality({})
    BY <1>0, <1>4, <2>1, DepthIs
  <2> QED
    BY <2>1, <2>2
<1>6. ASSUME NEW i \in 1 .. Len(e) + 1 PROVE Depth(e, i) \in Nat
  <2>1. i \in Nat /\ i - 1 \in 0 .. Len(e)
    BY <1>0
  <2>2. Depth(e, i) >= 0
    BY <2>1 DEF Sentence, IsValid, Depth
  <2>3. Depth(e, i) = Cardinality(Before(e, i, "(")) - Cardinality(Before(e, i, ")"))
    BY <1>0, DepthIs
  <2>4. \A c : Cardinality(Before(e, i, c)) \in Nat
    BY <2>1, BeforeFinite
  <2> QED
    BY <2>2, <2>3, <2>4
<1> QED
  BY <1>3, <1>5, <1>6

\* What is in front: an element to read, or the end of the list.
LEMMA ElementFront ==
  ASSUME NEW X, NEW e \in Seq(X), NEW s \in ElementPlaces(e)
  PROVE  /\ s \in 1 .. Len(e) /\ s \in Nat /\ NextElement(e, s) = s
         /\ e[s] \notin WhiteSpace /\ e[s] # ")"
<1>1. s \in 1 .. Len(e) /\ e[s] \notin WhiteSpace /\ e[s] # ")"
  BY DEF ElementPlaces
<1>2. NextElement(e, s) = s
  BY <1>1, NextElementAt
<1> QED
  BY <1>1, <1>2

\* What an element is read as.
LEMMA ElementQuote ==
  ASSUME NEW X, NEW e \in Seq(X), NEW s \in ElementPlaces(e), e[s] = "'"
  PROVE  /\ Element(e, s).v = QuoteList(Element(e, s + 1).v)
         /\ Element(e, s).next = Element(e, s + 1).next
         /\ Element(e, s).inside = Element(e, s + 1).inside
<1>1. s \in Nat /\ NextElement(e, s) = s /\ s # 0
  BY ElementFront
<1>2. Element(e, s) = ParseExpression(e, s, Readings(e))
  BY <1>1, ReadingsAre DEF Element
<1>3. Element(e, s) = Parsed(QuoteList(Element(e, s + 1).v), Element(e, s + 1).next,
                             Element(e, s + 1).inside)
  BY ZenonT(30), <1>1, <1>2, ExpressionCases DEF Element
<1> QED
  BY <1>3 DEF Parsed

LEMMA ElementOpen ==
  ASSUME NEW X, NEW e \in Seq(X), NEW s \in ElementPlaces(e), e[s] = "("
  PROVE  LET list == Rest(e, s + 1) IN
         /\ Element(e, s).v = IF list.v = Null THEN Nil ELSE list.v
         /\ Element(e, s).next = list.next
         /\ Element(e, s).inside = list.inside
<1> DEFINE list == Rest(e, s + 1)
<1>1. s \in Nat /\ NextElement(e, s) = s /\ s # 0
  BY ElementFront
<1>2. Element(e, s) = ParseExpression(e, s, Readings(e))
  BY <1>1, ReadingsAre DEF Element
<1>3. Element(e, s) = Parsed(IF list.v = Null THEN Nil ELSE list.v, list.next, list.inside)
  BY ZenonT(30), <1>1, <1>2, ExpressionCases DEF Rest
<1> QED
  BY <1>3 DEF Parsed

LEMMA ElementAtom ==
  ASSUME NEW X, NEW e \in Seq(X), NEW s \in ElementPlaces(e), e[s] \notin {"'", "("}
  PROVE  /\ Element(e, s).v = AtomObject(SubSeq(e, s, AtomEnd(e, s) - 1))
         /\ Element(e, s).next = AtomEnd(e, s)
         /\ Element(e, s).inside = TRUE
         /\ AtomEnd(e, s) \in s + 1 .. Len(e) + 1
         /\ \A j \in s .. AtomEnd(e, s) - 1 : e[j] \notin WhiteSpace \cup Brackets
<1>1. s \in 1 .. Len(e) /\ s \in Nat /\ NextElement(e, s) = s /\ s # 0
      /\ e[s] \notin WhiteSpace /\ e[s] # ")"
  BY ElementFront
<1>2. Element(e, s) = ParseExpression(e, s, Readings(e))
  BY <1>1, ReadingsAre DEF Element
<1>3. e[s] \notin {")", "'", "("}
  BY <1>1
<1>4. Element(e, s)
        = Parsed(AtomObject(SubSeq(e, s, AtomEnd(e, s) - 1)), AtomEnd(e, s), TRUE)
  BY <1>1, <1>2, <1>3, ExpressionCases
<1>5. e[s] \notin WhiteSpace \cup Brackets
  BY <1>1, <1>3 DEF Brackets
<1> QED
  BY <1>1, <1>4, <1>5, AtomEndIs DEF Parsed

\* What the rest of a list is read as.
LEMMA RestEnds ==
  ASSUME NEW X, NEW e \in Seq(X), NEW i \in Nat, NEW s, s = NextElement(e, i),
         s # 0, e[s] = ")"
  PROVE  Rest(e, i).v = Null /\ Rest(e, i).next = s + 1 /\ Rest(e, i).inside = TRUE
<1>1. Rest(e, i) = ParseList(e, i, Readings(e))
  BY ReadingsAre DEF Rest
<1>2. Rest(e, i) = Parsed(Null, s + 1, TRUE)
  BY <1>1, ListCases
<1> QED
  BY <1>2 DEF Parsed

LEMMA RestGoesOn ==
  ASSUME NEW X, NEW e \in Seq(X), NEW i \in Nat, NEW s, s = NextElement(e, i),
         s # 0, e[s] # ")"
  PROVE  LET element == Element(e, s)
             rest == Rest(e, element.next)
         IN
         /\ Rest(e, i).v = Cons(element.v, rest.v)
         /\ Rest(e, i).next = rest.next
         /\ element.inside = TRUE /\ rest.inside = TRUE => Rest(e, i).inside = TRUE
<1> DEFINE element == Element(e, s)
           rest == Rest(e, element.next)
           both == element.inside /\ rest.inside
<1>1. Rest(e, i) = ParseList(e, i, Readings(e))
  BY ReadingsAre DEF Rest
<1>2. Rest(e, i) = Parsed(Cons(element.v, rest.v), rest.next, both)
  BY <1>1, ListCases DEF Rest, Element
<1>3. element.inside = TRUE /\ rest.inside = TRUE => both = TRUE
  OBVIOUS
<1> HIDE DEF both
<1>4. Rest(e, i).v = Cons(element.v, rest.v) /\ Rest(e, i).next = rest.next
      /\ Rest(e, i).inside = both
  BY <1>2 DEF Parsed
<1> QED
  BY <1>3, <1>4

LEMMA ListFront ==
  ASSUME NEW X, NEW e, Sentence(X, e), NEW i \in ListPlaces(e)
  PROVE  LET s == NextElement(e, i) IN
         /\ i \in 1 .. Len(e) + 1 /\ s \in 1 .. Len(e) /\ s >= i
         /\ e[s] # ")" => s \in ElementPlaces(e)
         /\ Depth(e, s) = Depth(e, i)
<1> DEFINE s == NextElement(e, i)
<1>0. Len(e) \in Nat /\ e \in Seq(X)
  BY DEF Sentence
<1>1. i \in 1 .. Len(e) + 1 /\ i \in Nat /\ Depth(e, i) >= 1
  BY <1>0 DEF ListPlaces
<1>2. s \in 0 .. Len(e) /\ (s # 0 => s >= i /\ e[s] \notin WhiteSpace)
  BY <1>0, <1>1, NextElementIs
<1>3. Depth(e, IF s = 0 THEN Len(e) + 1 ELSE s) = Depth(e, i)
  BY <1>0, <1>1, DepthToNext
<1>4. s # 0
  <2>1. Depth(e, Len(e) + 1) = 0
    BY DepthsAre
  <2> QED
    BY <1>1, <1>3, <2>1
<1>5. s \in 1 .. Len(e)
  BY <1>0, <1>2, <1>4
<1>6. e[s] # ")" => s \in ElementPlaces(e)
  BY <1>2, <1>4, <1>5 DEF ElementPlaces
<1>7. Depth(e, s) = Depth(e, i)
  BY <1>3, <1>4
<1> QED
  BY <1>1, <1>2, <1>4, <1>5, <1>6, <1>7

LEMMA QuoteFront ==
  ASSUME NEW X, NEW e, Sentence(X, e), NEW s \in ElementPlaces(e), e[s] = "'"
  PROVE  LET t == NextElement(e, s + 1) IN
         /\ t \in ElementPlaces(e) /\ t >= s + 1 /\ Element(e, s + 1) = Element(e, t)
         /\ Depth(e, t) = Depth(e, s)
<1> DEFINE t == NextElement(e, s + 1)
<1>0. Len(e) \in Nat /\ e \in Seq(X)
  BY DEF Sentence
<1>1. s \in 1 .. Len(e) /\ s \in DOMAIN e /\ s + 1 \in Nat /\ s \in 1 .. Len(e) + 1
      /\ s + 1 \in 1 .. Len(e) + 1
  BY <1>0 DEF ElementPlaces
<1>2. t # 0 /\ e[t] # ")"
  BY <1>1 DEF Sentence, QuotesSomething
<1>3. t \in 0 .. Len(e) /\ t >= s + 1 /\ e[t] \notin WhiteSpace
  BY <1>0, <1>1, <1>2, NextElementIs
<1>4. t \in ElementPlaces(e)
  BY <1>0, <1>2, <1>3 DEF ElementPlaces
<1>5. Element(e, s + 1) = Element(e, t)
  BY <1>0, <1>1, <1>2, ReadsAtNext
<1>6. Depth(e, t) = Depth(e, s + 1)
  BY <1>0, <1>1, <1>2, DepthToNext
<1>7. Depth(e, s + 1) = Depth(e, s)
  <2>1. \A k \in s .. s + 1 - 1 : k = s
    BY <1>1
  <2>2. e[s] \notin Brackets
    BY DEF Brackets
  <2>3. s + 1 \in s .. Len(e) + 1
    BY <1>0, <1>1
  <2> QED
    BY <1>0, <1>1, <2>1, <2>2, <2>3, DepthStays
<1> QED
  BY <1>3, <1>4, <1>5, <1>6, <1>7

\* An element leaves the depth as it is, and the rest of a list closes one.
LEMMA DepthsAfter ==
  ASSUME NEW X, NEW e, Sentence(X, e)
  PROVE  /\ \A s \in ElementPlaces(e) :
              /\ Element(e, s).next \in s + 1 .. Len(e) + 1
              /\ Depth(e, Element(e, s).next) = Depth(e, s)
         /\ \A i \in ListPlaces(e) :
              /\ Rest(e, i).next \in i + 1 .. Len(e) + 1
              /\ Depth(e, Rest(e, i).next) = Depth(e, i) - 1
<1> DEFINE m == Len(e) + 1
           P(s) == /\ Element(e, s).next \in s + 1 .. m
                   /\ Depth(e, Element(e, s).next) = Depth(e, s)
           Q(i) == /\ Rest(e, i).next \in i + 1 .. m
                   /\ Depth(e, Rest(e, i).next) = Depth(e, i) - 1
           S == {i \in 1 .. m : (i \in ElementPlaces(e) => P(i)) /\ (i \in ListPlaces(e) => Q(i))}
<1>0. Len(e) \in Nat /\ m \in Nat /\ e \in Seq(X)
  BY DEF Sentence
<1>1. \A i \in 1 .. m : Depth(e, i) \in Nat
  BY DepthsAre
<1>2. ASSUME NEW i \in 1 .. m, \A j \in i + 1 .. m : j \in S PROVE i \in S
  <2>1. ASSUME i \in ElementPlaces(e) PROVE P(i)
    <3>1. i \in 1 .. Len(e) /\ i \in Nat /\ NextElement(e, i) = i
          /\ e[i] \notin WhiteSpace /\ e[i] # ")"
      BY <1>0, <2>1, ElementFront
    <3>2. i # 0 /\ i + 1 \in 1 .. m /\ i + 1 \in i + 1 .. m
      BY <1>0, <3>1
    <3>3. CASE e[i] = "'"
      <4> DEFINE t == NextElement(e, i + 1)
      <4>1. t \in ElementPlaces(e) /\ t >= i + 1 /\ Element(e, i + 1) = Element(e, t)
            /\ Depth(e, t) = Depth(e, i)
        BY <2>1, <3>3, QuoteFront
      <4>2. t \in i + 1 .. m
        BY <1>0, <4>1 DEF ElementPlaces
      <4>3. P(t)
        BY <1>2, <4>1, <4>2
      <4>4. Element(e, i).next = Element(e, t).next
        BY <1>0, <2>1, <3>3, <4>1, ElementQuote
      <4> QED
        BY <1>0, <4>1, <4>2, <4>3, <4>4
    <3>4. CASE e[i] = "("
      <4>1. Depth(e, i + 1) = Depth(e, i) + 1
        BY <1>0, <3>1, <3>4, DepthStep
      <4>2. i + 1 \in ListPlaces(e)
        BY <1>1, <3>2, <4>1 DEF ListPlaces
      <4>3. Q(i + 1)
        BY <1>2, <3>2, <4>2
      <4>4. Element(e, i).next = Rest(e, i + 1).next
        BY <1>0, <2>1, <3>4, ElementOpen
      <4> QED
        BY <1>0, <1>1, <3>2, <4>1, <4>3, <4>4
    <3>5. CASE e[i] \notin {"'", "("}
      <4>1. AtomEnd(e, i) \in i + 1 .. m /\ Element(e, i).next = AtomEnd(e, i)
            /\ \A j \in i .. AtomEnd(e, i) - 1 : e[j] \notin WhiteSpace \cup Brackets
        BY <1>0, <2>1, <3>5, ElementAtom
      <4>2. AtomEnd(e, i) \in i .. m
        BY <1>0, <3>1, <4>1
      <4>3. Depth(e, AtomEnd(e, i)) = Depth(e, i)
        BY <1>0, <4>1, <4>2, DepthStays
      <4> QED
        BY <4>1, <4>3
    <3> QED
      BY <3>1, <3>3, <3>4, <3>5
  <2>2. ASSUME i \in ListPlaces(e) PROVE Q(i)
    <3> DEFINE s == NextElement(e, i)
               next == Element(e, s).next
    <3>1. s \in 1 .. Len(e) /\ s >= i /\ (e[s] # ")" => s \in ElementPlaces(e))
          /\ Depth(e, s) = Depth(e, i)
      BY <2>2, ListFront
    <3>2. s # 0 /\ i \in Nat /\ s \in 1 .. m /\ s + 1 \in i + 1 .. m
      BY <1>0, <3>1
    <3>3. CASE e[s] = ")"
      <4>1. Rest(e, i).next = s + 1
        BY <1>0, <3>2, <3>3, RestEnds
      <4>2. Depth(e, s + 1) = Depth(e, s) - 1
        BY <1>0, <3>1, <3>3, DepthStep
      <4> QED
        BY <3>1, <3>2, <4>1, <4>2
    <3>4. CASE e[s] # ")"
      <4>1. s \in ElementPlaces(e)
        BY <3>1, <3>4
      <4>2. P(s)
        <5>1. s = i \/ s \in i + 1 .. m
          BY <1>0, <3>1, <3>2
        <5> QED
          BY <1>2, <2>1, <4>1, <5>1
      <4>3. next \in i + 1 .. m /\ next \in 1 .. m
        BY <1>0, <3>1, <3>2, <4>2
      <4>4. Depth(e, next) = Depth(e, i)
        BY <3>1, <4>2
      <4>5. next \in ListPlaces(e)
        BY <2>2, <4>3, <4>4 DEF ListPlaces
      <4>6. Q(next)
        BY <1>2, <4>3, <4>5
      <4>7. Rest(e, i).next = Rest(e, next).next
        BY <1>0, <3>2, <3>4, RestGoesOn
      <4> QED
        BY <1>0, <3>2, <4>3, <4>4, <4>6, <4>7
    <3> QED
      BY <3>3, <3>4
  <2> QED
    BY <1>2, <2>1, <2>2
<1> HIDE DEF S
<1>3. 1 .. m \subseteq S
  BY <1>0, <1>2, Backwards
<1>4. ElementPlaces(e) \subseteq 1 .. m /\ ListPlaces(e) \subseteq 1 .. m
  BY <1>0 DEF ElementPlaces, ListPlaces
<1> QED
  BY <1>3, <1>4 DEF S

LEMMA ReadingInduction ==
  ASSUME NEW X, NEW e, Sentence(X, e), NEW P, NEW Q,
         \A s \in ElementPlaces(e) : e[s] \notin {"'", "("} => s \in P,
         \A s \in ElementPlaces(e), t \in ElementPlaces(e) :
            e[s] = "'" /\ t = NextElement(e, s + 1) /\ Element(e, s + 1) = Element(e, t)
            /\ t \in P => s \in P,
         \A s \in ElementPlaces(e) :
            e[s] = "(" /\ s + 1 \in ListPlaces(e) /\ s + 1 \in Q => s \in P,
         \A i \in ListPlaces(e) : e[NextElement(e, i)] = ")" => i \in Q,
         \A i \in ListPlaces(e), s \in ElementPlaces(e) :
            s = NextElement(e, i) /\ s \in P
            /\ Element(e, s).next \in ListPlaces(e) /\ Element(e, s).next \in Q => i \in Q
  PROVE  ElementPlaces(e) \subseteq P /\ ListPlaces(e) \subseteq Q
<1> DEFINE m == Len(e) + 1
           S == {i \in 1 .. m : (i \in ElementPlaces(e) => i \in P)
                                /\ (i \in ListPlaces(e) => i \in Q)}
<1>0. Len(e) \in Nat /\ m \in Nat /\ e \in Seq(X)
  BY DEF Sentence
<1>1. \A i \in 1 .. m : Depth(e, i) \in Nat
  BY DepthsAre
<1>2. ASSUME NEW i \in 1 .. m, \A j \in i + 1 .. m : j \in S PROVE i \in S
  <2>1. ASSUME i \in ElementPlaces(e) PROVE i \in P
    <3>1. i \in 1 .. Len(e) /\ i + 1 \in 1 .. m /\ i + 1 \in i + 1 .. m
      BY <1>0, <2>1 DEF ElementPlaces
    <3>2. CASE e[i] = "'"
      <4> DEFINE t == NextElement(e, i + 1)
      <4>1. t \in ElementPlaces(e) /\ t >= i + 1 /\ Element(e, i + 1) = Element(e, t)
        BY <2>1, <3>2, QuoteFront
      <4>2. t \in i + 1 .. m
        BY <1>0, <4>1 DEF ElementPlaces
      <4>3. t \in P
        BY <1>2, <4>1, <4>2
      <4> HIDE DEF t
      <4> QED
        BY <2>1, <3>2, <4>1, <4>3 DEF t
    <3>3. CASE e[i] = "("
      <4>1. Depth(e, i + 1) = Depth(e, i) + 1
        BY <1>0, <3>1, <3>3, DepthStep
      <4>2. i + 1 \in ListPlaces(e)
        BY <1>1, <3>1, <4>1 DEF ListPlaces
      <4>3. i + 1 \in Q
        BY <1>2, <3>1, <4>2
      <4> QED
        BY <2>1, <3>3, <4>2, <4>3
    <3>4. CASE e[i] \notin {"'", "("}
      BY <2>1, <3>4
    <3> QED
      BY <3>2, <3>3, <3>4
  <2>2. ASSUME i \in ListPlaces(e) PROVE i \in Q
    <3> DEFINE s == NextElement(e, i)
               next == Element(e, s).next
    <3>1. s \in 1 .. Len(e) /\ s >= i /\ (e[s] # ")" => s \in ElementPlaces(e))
          /\ Depth(e, s) = Depth(e, i)
      BY <2>2, ListFront
    <3>2. CASE e[s] = ")"
      BY <2>2, <3>2
    <3>3. CASE e[s] # ")"
      <4>1. s \in ElementPlaces(e)
        BY <3>1, <3>3
      <4>2. s \in P
        <5>1. s = i \/ s \in i + 1 .. m
          BY <1>0, <3>1
        <5> QED
          BY <1>2, <2>1, <4>1, <5>1
      <4>3. next \in s + 1 .. m /\ Depth(e, next) = Depth(e, s)
        BY <4>1, DepthsAfter
      <4>4. next \in i + 1 .. m /\ next \in 1 .. m
        BY <1>0, <3>1, <4>3
      <4>5. next \in ListPlaces(e)
        BY <2>2, <3>1, <4>3, <4>4 DEF ListPlaces
      <4>6. next \in Q
        BY <1>2, <4>4, <4>5
      <4> HIDE DEF s
      <4> QED
        BY <2>2, <4>1, <4>2, <4>5, <4>6 DEF s
    <3> QED
      BY <3>2, <3>3
  <2> QED
    BY <1>2, <2>1, <2>2
<1> HIDE DEF S
<1>3. 1 .. m \subseteq S
  BY <1>0, <1>2, Backwards
<1>4. ElementPlaces(e) \subseteq 1 .. m /\ ListPlaces(e) \subseteq 1 .. m
  BY <1>0 DEF ElementPlaces, ListPlaces
<1> QED
  BY <1>3, <1>4 DEF S

\* The first element of an expression that is not empty.
LEMMA FirstElement ==
  ASSUME NEW X, NEW e, Sentence(X, e), ~ IsEmpty(e)
  PROVE  NextElement(e, 1) \in ElementPlaces(e)
<1> DEFINE s == NextElement(e, 1)
<1>0. Len(e) \in Nat /\ e \in Seq(X) /\ 1 \in Nat /\ 1 # 0
  BY DEF Sentence
<1>1. /\ s \in 0 .. Len(e)
      /\ s # 0 => e[s] \notin WhiteSpace
      /\ s = 0 => \A j \in 1 .. Len(e) : e[j] \in WhiteSpace
  BY <1>0, NextElementIs
<1>2. DOMAIN e = 1 .. Len(e)
  BY <1>0
<1>3. s # 0
  BY <1>1, <1>2 DEF IsEmpty
<1>4. s \in 1 .. Len(e) /\ s + 1 \in 1 .. Len(e) + 1 /\ 1 \in 1 .. Len(e) + 1
  BY <1>0, <1>1, <1>3
<1>5. Depth(e, s) = 0
  BY <1>0, <1>3, <1>4, DepthToNext, DepthsAre
<1>6. e[s] # ")"
  <2> SUFFICES ASSUME e[s] = ")" PROVE FALSE
    OBVIOUS
  <2>1. Depth(e, s + 1) = Depth(e, s) - 1
    BY <1>0, <1>4, DepthStep
  <2>2. Depth(e, s + 1) \in Nat
    BY <1>4, DepthsAre
  <2> QED
    BY <1>5, <2>1, <2>2
<1> QED
  BY <1>1, <1>3, <1>4, <1>6 DEF ElementPlaces

LEMMA ReadsInside ==
  ASSUME NEW X, NEW e, Sentence(X, e)
  PROVE  /\ \A s \in ElementPlaces(e) : Element(e, s).inside = TRUE
         /\ \A i \in ListPlaces(e) : Rest(e, i).inside = TRUE
<1> DEFINE P == {s \in ElementPlaces(e) : Element(e, s).inside = TRUE}
           Q == {i \in ListPlaces(e) : Rest(e, i).inside = TRUE}
<1>0. Len(e) \in Nat /\ e \in Seq(X)
  BY DEF Sentence
<1>1. ASSUME NEW s \in ElementPlaces(e), e[s] \notin {"'", "("} PROVE s \in P
  BY <1>0, <1>1, ElementAtom
<1>2. ASSUME NEW s \in ElementPlaces(e), NEW t \in ElementPlaces(e), e[s] = "'",
             Element(e, s + 1) = Element(e, t), t \in P
      PROVE  s \in P
  BY <1>0, <1>2, ElementQuote
<1>3. ASSUME NEW s \in ElementPlaces(e), e[s] = "(", s + 1 \in Q PROVE s \in P
  BY <1>0, <1>3, ElementOpen
<1>4. ASSUME NEW i \in ListPlaces(e), e[NextElement(e, i)] = ")" PROVE i \in Q
  <2>1. i \in Nat /\ NextElement(e, i) # 0
    BY <1>0, ListFront
  <2> QED
    BY <1>0, <1>4, <2>1, RestEnds
<1>5. ASSUME NEW i \in ListPlaces(e), NEW s \in ElementPlaces(e), s = NextElement(e, i),
             s \in P, Element(e, s).next \in Q
      PROVE  i \in Q
  <2>1. i \in Nat /\ s # 0 /\ e[s] # ")"
    BY <1>0, ListFront DEF ElementPlaces
  <2> QED
    BY <1>0, <1>5, <2>1, RestGoesOn
<1> HIDE DEF P, Q
<1>6. ElementPlaces(e) \subseteq P /\ ListPlaces(e) \subseteq Q
  BY <1>1, <1>2, <1>3, <1>4, <1>5, ReadingInduction
<1> QED
  BY <1>6 DEF P, Q

\* A text is a sequence of at most MaxText characters.
TextOK == text \in Seq(Alphabet) /\ Len(text) <= MaxText

LEMMA TextsAre == Spec => []TextOK
<1>1. Init => TextOK
  BY TextAssumption DEF Init, TextOK
<1>2. TextOK /\ [Next]_text => TextOK'
  <2> SUFFICES ASSUME TextOK, [Next]_text PROVE TextOK'
    OBVIOUS
  <2>1. CASE UNCHANGED text
    BY <2>1 DEF TextOK
  <2>2. ASSUME NEW c \in Alphabet, Type(c) PROVE TextOK'
    <3>1. text \in Seq(Alphabet) /\ Len(text) \in Nat
      BY DEF TextOK
    <3>2. text' = Append(text, c) /\ Len(text) < MaxText
      BY <2>2 DEF Type
    <3>3. text' \in Seq(Alphabet) /\ Len(text') = Len(text) + 1
      BY <3>1, <3>2
    <3>4. Len(text') <= MaxText
      BY <3>1, <3>2, <3>3, TextAssumption
    <3> QED
      BY <3>3, <3>4 DEF TextOK
  <2> QED
    BY <2>1, <2>2 DEF Next
<1> QED
  BY <1>1, <1>2, PTL DEF Spec

\* parse_expression stays in any text that the callers test as they should, if
\* every quote has something to quote: distance_to_next_element never answers
\* -1 where parse_list asks for it.
THEOREM ParserReadsInside == Spec => []ReadsInsideQuoted
<1>1. TextOK => ReadsInsideQuoted
  <2> SUFFICES ASSUME TextOK, Whole, QuotesSomething(text) PROVE Parse(text).inside
    BY DEF ReadsInsideQuoted
  <2>1. Sentence(Alphabet, text) /\ text \in Seq(Alphabet)
    BY DEF Sentence, TextOK, Whole
  <2> DEFINE s == NextElement(text, 1)
  <2>2. Parse(text) = Element(text, 1)
    BY DEF Parse, Element
  <2>3. CASE s = 0
    <3>1. Element(text, 1) = ParseExpression(text, 1, Readings(text))
      BY <2>1, ReadingsAre DEF Element
    <3>2. Element(text, 1) = Parsed(Null, Len(text) + 1, TRUE)
      BY <2>3, <3>1, ExpressionCases
    <3> QED
      BY <2>2, <3>2 DEF Parsed
  <2>4. CASE s # 0
    <3>1. ~ IsEmpty(text)
      <4>1. s \in 1 .. Len(text) /\ text[s] \notin WhiteSpace
        BY <2>1, <2>4, NextElementIs
      <4>2. s \in DOMAIN text
        BY <2>1, <4>1
      <4> QED
        BY <4>1, <4>2 DEF IsEmpty
    <3>2. s \in ElementPlaces(text)
      BY <2>1, <3>1, FirstElement
    <3>3. Element(text, s).inside = TRUE
      BY <2>1, <3>2, ReadsInside
    <3>4. Element(text, s) = Element(text, 1)
      BY <2>1, <2>4, ReadsAtNext
    <3> QED
      BY <2>2, <3>3, <3>4
  <2> QED
    BY <2>3, <2>4
<1> QED
  BY <1>1, TextsAre, PTL

-----------------------------------------------------------------------------
(***************************************************************************)
(* Sequences, and the lists of sequences.                                  *)
(***************************************************************************)
IsSequence(s) == \E W : s \in Seq(W)

LEMMA Pushed ==
  ASSUME NEW s, IsSequence(s), NEW x
  PROVE  /\ IsSequence(<<x>> \o s) /\ <<x>> \o s # <<>>
         /\ Head(<<x>> \o s) = x /\ Tail(<<x>> \o s) = s
         /\ Len(s) \in Nat /\ Len(<<x>> \o s) = Len(s) + 1
         /\ (<<x>> \o s)[1] = x
         /\ \A i \in 1 .. Len(s) : (<<x>> \o s)[i + 1] = s[i]
<1>1. PICK W : s \in Seq(W)
  BY DEF IsSequence
<1> DEFINE U == W \cup {x}
           p == <<x>> \o s
<1>2. s \in Seq(U) /\ <<x>> \in Seq(U) /\ Len(<<x>>) = 1 /\ <<x>>[1] = x /\ Len(s) \in Nat
  BY <1>1, SeqMonotonic
<1>3. /\ p \in Seq(U) /\ Len(p) = 1 + Len(s)
      /\ \A i \in 1 .. 1 + Len(s) : p[i] = IF i <= 1 THEN <<x>>[i] ELSE s[i - 1]
  BY <1>2, ConcatProperties
<1>4. p[1] = x
  BY <1>2, <1>3
<1>5. ASSUME NEW i \in 1 .. Len(s) PROVE p[i + 1] = s[i]
  <2>1. i + 1 \in 1 .. 1 + Len(s) /\ ~ (i + 1 <= 1) /\ i + 1 - 1 = i
    BY <1>2
  <2> QED
    BY <1>3, <2>1
<1> HIDE DEF p
<1>6. p # <<>> /\ Head(p) = x
  BY <1>2, <1>3, <1>4
<1>7. Tail(p) \in Seq(U) /\ Len(Tail(p)) = Len(s)
      /\ \A i \in 1 .. Len(Tail(p)) : Tail(p)[i] = p[i + 1]
  <2>1. Tail(p) \in Seq(U) /\ Len(Tail(p)) = Len(p) - 1
        /\ \A i \in 1 .. Len(Tail(p)) : Tail(p)[i] = p[i + 1]
    BY <1>3, <1>6, HeadTailProperties
  <2>2. Len(p) - 1 = Len(s)
    BY <1>2, <1>3
  <2> QED
    BY <2>1, <2>2
<1>8. Tail(p) = s
  BY <1>2, <1>5, <1>7, SeqEqual
<1> QED
  BY <1>2, <1>3, <1>4, <1>5, <1>6, <1>8 DEF IsSequence, p

ListStep(s, i, f) == IF i > Len(s) THEN Null ELSE Cons(s[i], f[i + 1])
ListsFrom(f, s, n) == f = [i \in From(n) |-> ListStep(s, i, f)]

LEMMA ListsExist ==
  ASSUME NEW s, Len(s) \in Nat
  PROVE  \E f : ListsFrom(f, s, 0)
<1> DEFINE m == Len(s) + 1
           S == {k \in 0 .. m : \E f : ListsFrom(f, s, m - k)}
<1>0. m \in Nat
  OBVIOUS
<1>1. 0 \in S
  <2> DEFINE f == [i \in From(m) |-> Null]
  <2>1. \A i \in From(m) : i > Len(s)
    BY DEF From
  <2>2. \A i \in From(m) : ListStep(s, i, f) = Null
    BY <2>1 DEF ListStep
  <2>3. ListsFrom(f, s, m)
    BY <2>2 DEF ListsFrom
  <2>4. m - 0 = m
    OBVIOUS
  <2> QED
    BY <1>0, <2>3, <2>4
<1>2. ASSUME NEW k \in 1 .. m, k - 1 \in S PROVE k \in S
  <2> DEFINE n == m - k
  <2>1. n \in Nat /\ m - (k - 1) = n + 1 /\ n + 1 \in Nat
    OBVIOUS
  <2>2. PICK f : ListsFrom(f, s, n + 1)
    BY <1>2, <2>1
  <2> DEFINE g == [i \in From(n) |-> IF i = n THEN ListStep(s, n, f) ELSE f[i]]
  <2>3. \A i \in From(n) :
          (i = n \/ i \in From(n + 1)) /\ i + 1 \in From(n + 1) /\ i + 1 \in From(n)
                           /\ i + 1 # n
    BY <2>1 DEF From
  <2>4. \A i \in From(n + 1) : f[i] = ListStep(s, i, f)
    BY <2>2 DEF ListsFrom
  <2>5. \A i \in From(n) : g[i + 1] = f[i + 1]
    BY <2>3
  <2>6. \A i \in From(n) : ListStep(s, i, g) = ListStep(s, i, f)
    <3> HIDE DEF g
    <3> QED
      BY <2>5 DEF ListStep
  <2>7. \A i \in From(n) : (IF i = n THEN ListStep(s, n, f) ELSE f[i]) = ListStep(s, i, f)
    BY <2>3, <2>4
  <2>8. ListsFrom(g, s, n)
    BY <2>6, <2>7 DEF ListsFrom
  <2> QED
    BY <2>8
<1> HIDE DEF S
<1>3. 0 .. m \subseteq S
  <2> HIDE DEF m
  <2> QED
    BY <1>0, <1>1, <1>2, UpTo
<1>4. m \in S /\ m - m = 0
  BY <1>0, <1>3
<1> QED
  BY <1>4 DEF S

LEMMA ListSteps ==
  ASSUME NEW s, Len(s) \in Nat
  PROVE  \E f : List(s) = f[1] /\ \A i \in Nat : f[i] = ListStep(s, i, f)
<1>1. From(0) = Nat
  BY DEF From
<1> DEFINE f == CHOOSE f : ListsFrom(f, s, 0)
<1>2. List(s) = f[1]
  BY <1>1 DEF List, ListsFrom, ListStep
<1>3. ListsFrom(f, s, 0)
  BY ListsExist
<1> HIDE DEF f
<1>4. \A i \in Nat : f[i] = ListStep(s, i, f)
  BY <1>1, <1>3 DEF ListsFrom
<1> QED
  BY <1>2, <1>4

LEMMA ListEmpty == List(<<>>) = Null
<1>1. Len(<<>>) = 0 /\ 0 \in Nat
  OBVIOUS
<1>2. PICK f : List(<<>>) = f[1] /\ \A i \in Nat : f[i] = ListStep(<<>>, i, f)
  BY <1>1, ListSteps
<1> QED
  BY <1>1, <1>2 DEF ListStep

LEMMA ListPushed ==
  ASSUME NEW s, IsSequence(s), NEW x
  PROVE  List(<<x>> \o s) = Cons(x, List(s))
<1> DEFINE p == <<x>> \o s
           m == Len(s) + 1
<1>1. /\ Len(s) \in Nat /\ Len(p) = Len(s) + 1 /\ p[1] = x
      /\ \A i \in 1 .. Len(s) : p[i + 1] = s[i]
  BY Pushed
<1> HIDE DEF p
<1>2. PICK f : List(s) = f[1] /\ \A i \in Nat : f[i] = ListStep(s, i, f)
  BY <1>1, ListSteps
<1>3. PICK g : List(p) = g[1] /\ \A i \in Nat : g[i] = ListStep(p, i, g)
  BY <1>1, ListSteps
<1> DEFINE S == {i \in 1 .. m : g[i + 1] = f[i]}
<1>4. ASSUME NEW i \in 1 .. m, \A j \in i + 1 .. m : j \in S PROVE i \in S
  <2>1. i \in Nat /\ i + 1 \in Nat
    OBVIOUS
  <2>2. f[i] = ListStep(s, i, f) /\ g[i + 1] = ListStep(p, i + 1, g)
    BY <1>2, <1>3, <2>1
  <2>3. CASE i = m
    <3>1. i > Len(s) /\ i + 1 > Len(p)
      BY <1>1, <2>3
    <3> QED
      BY <2>2, <3>1 DEF ListStep
  <2>4. CASE i # m
    <3>1. i \in 1 .. Len(s) /\ ~ (i > Len(s)) /\ ~ (i + 1 > Len(p)) /\ i + 1 \in i + 1 .. m
      BY <1>1, <2>4
    <3>2. g[i + 1 + 1] = f[i + 1]
      BY <1>4, <3>1
    <3> QED
      BY <1>1, <2>2, <3>1, <3>2 DEF ListStep
  <2> QED
    BY <2>3, <2>4
<1>5. 1 \in S
  <2>1. m \in Nat /\ 1 \in 1 .. m
    BY <1>1
  <2> HIDE DEF S, m
  <2>2. 1 .. m \subseteq S
    BY <1>4, <2>1, Backwards
  <2> QED
    BY <2>1, <2>2
<1>6. ~ (1 > Len(p)) /\ 1 \in Nat /\ 1 + 1 = 2
  BY <1>1
<1>7. g[1] = Cons(x, g[1 + 1])
  BY <1>1, <1>3, <1>6 DEF ListStep
<1> QED
  BY <1>2, <1>3, <1>5, <1>7 DEF p

QuoteAtom == Atom(<<"q", "u", "o", "t", "e">>)

LEMMA QuoteListIs ==
  ASSUME NEW v
  PROVE  QuoteList(v) = Cons(QuoteAtom, Cons(v, Null))
<1>1. IsSequence(<<>>)
  BY DEF IsSequence
<1>2. IsSequence(<<v>> \o <<>>)
  BY <1>1, Pushed
<1>3. List(<<v>> \o <<>>) = Cons(v, Null)
  BY <1>1, ListPushed, ListEmpty
<1>4. List(<<QuoteAtom>> \o (<<v>> \o <<>>)) = Cons(QuoteAtom, Cons(v, Null))
  BY <1>2, <1>3, ListPushed
<1>5. <<QuoteAtom>> \o (<<v>> \o <<>>) = <<QuoteAtom, v>>
  <2> DEFINE U == {QuoteAtom, v}
             p == <<QuoteAtom>> \o (<<v>> \o <<>>)
  <2> HIDE DEF QuoteAtom
  <2>1. <<v>> \o <<>> = <<v>>
    OBVIOUS
  <2>2. p = <<QuoteAtom>> \o <<v>>
    BY <2>1
  <2>3. p \in Seq(U) /\ Len(p) = 2 /\ p[1] = QuoteAtom /\ p[2] = v
    BY <2>2
  <2> HIDE DEF p
  <2>4. <<QuoteAtom, v>> \in Seq(U) /\ Len(<<QuoteAtom, v>>) = 2
        /\ <<QuoteAtom, v>>[1] = QuoteAtom /\ <<QuoteAtom, v>>[2] = v
    OBVIOUS
  <2>5. \A i \in 1 .. 2 : i = 1 \/ i = 2
    OBVIOUS
  <2>6. p = <<QuoteAtom, v>>
    BY <2>3, <2>4, <2>5, SeqEqual
  <2> QED
    BY <2>6 DEF p
<1> QED
  BY <1>4, <1>5 DEF QuoteList, QuoteAtom

\* What is not the pointer NULL.
LEMMA ConsNotNull ==
  ASSUME NEW a, NEW d
  PROVE  Cons(a, d) # Null
<1>1. Cons(a, d).t = "list" /\ Null.t = "null"
  BY DEF Cons, Null, Value
<1> QED
  BY <1>1

LEMMA AtomObjectNotNull ==
  ASSUME NEW c
  PROVE  AtomObject(c) # Null
<1>1. AtomObject(c).t \in {"int", "float", "atom"}
  BY DEF AtomObject, IntObject, FloatObject, Atom, Value
<1>2. Null.t = "null"
  BY DEF Null, Value
<1> QED
  BY <1>1, <1>2

LEMMA ListNotNull ==
  ASSUME NEW s, Len(s) \in Nat, Len(s) > 0
  PROVE  List(s) # Null
<1>1. PICK f : List(s) = f[1] /\ \A i \in Nat : f[i] = ListStep(s, i, f)
  BY ListSteps
<1>2. f[1] = Cons(s[1], f[1 + 1])
  BY <1>1 DEF ListStep
<1> QED
  BY <1>1, <1>2, ConsNotNull

-----------------------------------------------------------------------------
(***************************************************************************)
(* The steps of the reader that keeps open forms on a stack.               *)
(***************************************************************************)
Runs(f, e, n) ==
  f = [k \in 0 .. n |-> IF k = 0 THEN Reading(Null, 1, <<>>) ELSE ReadOn(e, f[k - 1])]

LEMMA RunsExist ==
  ASSUME NEW e, NEW n \in Nat
  PROVE  \E f : Runs(f, e, n)
<1> DEFINE start == Reading(Null, 1, <<>>)
           S == {k \in 0 .. n : \E f : Runs(f, e, k)}
<1>1. 0 \in S
  <2> DEFINE f == [k \in 0 .. 0 |-> start]
  <2>1. \A k \in 0 .. 0 : k = 0
    OBVIOUS
  <2>2. Runs(f, e, 0)
    BY <2>1 DEF Runs
  <2> QED
    BY <2>2
<1>2. ASSUME NEW k \in 1 .. n, k - 1 \in S PROVE k \in S
  <2>1. PICK f : Runs(f, e, k - 1)
    BY <1>2
  <2> DEFINE g == [j \in 0 .. k |-> IF j = 0 THEN start ELSE ReadOn(e, f[j - 1])]
  <2>2. \A j \in 0 .. k - 1 : f[j] = IF j = 0 THEN start ELSE ReadOn(e, f[j - 1])
    BY <2>1 DEF Runs
  <2>3. \A j \in 0 .. k - 1 : g[j] = f[j]
    BY <2>2
  <2>4. \A j \in 0 .. k : j # 0 => j - 1 \in 0 .. k - 1
    OBVIOUS
  <2>5. \A j \in 0 .. k : j # 0 => g[j - 1] = f[j - 1]
    <3> HIDE DEF g
    <3> QED
      BY <2>3, <2>4
  <2>6. Runs(g, e, k)
    BY <2>5 DEF Runs
  <2> QED
    BY <2>6
<1> HIDE DEF S
<1>3. n \in S
  BY <1>1, <1>2, UpTo
<1> QED
  BY <1>3 DEF S

\* The states of the reader on e, of which ReadFirst is the last.
Steps(e) == CHOOSE f : Runs(f, e, 2 * Len(e))

LEMMA StepsAre ==
  ASSUME NEW e, Len(e) \in Nat
  PROVE  /\ ReadFirst(e) = Steps(e)[2 * Len(e)]
         /\ Steps(e)[0] = Reading(Null, 1, <<>>)
         /\ \A k \in 1 .. 2 * Len(e) : Steps(e)[k] = ReadOn(e, Steps(e)[k - 1])
<1>1. 2 * Len(e) \in Nat
  OBVIOUS
<1>2. Runs(Steps(e), e, 2 * Len(e))
  BY <1>1, RunsExist DEF Steps
<1>3. ReadFirst(e) = Steps(e)[2 * Len(e)]
  BY DEF ReadFirst, Steps, Runs
<1>4. \A k \in 0 .. 2 * Len(e) :
         Steps(e)[k] = IF k = 0 THEN Reading(Null, 1, <<>>) ELSE ReadOn(e, Steps(e)[k - 1])
  BY <1>2 DEF Runs
<1>5. 0 \in 0 .. 2 * Len(e) /\ \A k \in 1 .. 2 * Len(e) : k \in 0 .. 2 * Len(e) /\ k # 0
  BY <1>1
<1> QED
  BY <1>3, <1>4, <1>5

\* One step, case by case.
LEMMA ValueStays ==
  ASSUME NEW e, NEW v, v # Null, NEW i
  PROVE  ReadOn(e, Reading(v, i, <<>>)) = Reading(v, i, <<>>)
BY DEF ReadOn, Reading

LEMMA ValueQuoted ==
  ASSUME NEW e, NEW v, v # Null, NEW i, NEW forms, IsSequence(forms), NEW vs
  PROVE  ReadOn(e, Reading(v, i, <<Form("'", vs)>> \o forms)) = Reading(QuoteList(v), i, forms)
<1> DEFINE f  == Form("'", vs)
           fs == <<f>> \o forms
           r  == Reading(v, i, fs)
<1>1. r.v = v /\ r.next = i /\ r.forms = fs
  BY DEF Reading
<1>2. f.open = "'"
  BY DEF Form
<1> HIDE DEF f
<1>3. fs # <<>> /\ Head(fs) = f /\ Tail(fs) = forms
  BY Pushed
<1> HIDE DEF r, fs
<1>4. ReadOn(e, r) = Reading(QuoteList(v), i, forms)
  BY <1>1, <1>2, <1>3 DEF ReadOn
<1> QED
  BY <1>4 DEF r, fs, f

LEMMA ValueAppended ==
  ASSUME NEW e, NEW v, v # Null, NEW i, NEW forms, IsSequence(forms), NEW vs
  PROVE  ReadOn(e, Reading(v, i, <<Form("(", vs)>> \o forms))
           = Reading(Null, i, <<Form("(", Append(vs, v))>> \o forms)
<1> DEFINE f  == Form("(", vs)
           fs == <<f>> \o forms
           r  == Reading(v, i, fs)
<1>1. r.v = v /\ r.next = i /\ r.forms = fs
  BY DEF Reading
<1>2. f.open # "'" /\ f.values = vs
  BY DEF Form
<1> HIDE DEF f
<1>3. fs # <<>> /\ Head(fs) = f /\ Tail(fs) = forms
  BY Pushed
<1> HIDE DEF r, fs
<1>4. ReadOn(e, r) = Reading(Null, i, <<Form("(", Append(vs, v))>> \o forms)
  BY <1>1, <1>2, <1>3 DEF ReadOn
<1> QED
  BY <1>4 DEF r, fs, f

LEMMA SpaceStep ==
  ASSUME NEW e, Len(e) \in Nat, NEW i \in 1 .. Len(e), e[i] \in WhiteSpace, NEW forms
  PROVE  ReadOn(e, Reading(Null, i, forms)) = Reading(Null, i + 1, forms)
<1> DEFINE r == Reading(Null, i, forms)
<1>1. r.v = Null /\ r.next = i /\ r.forms = forms
  BY DEF Reading
<1>2. ~ (i > Len(e))
  OBVIOUS
<1> HIDE DEF r
<1>3. ReadOn(e, r) = Reading(Null, i + 1, forms)
  BY <1>1, <1>2 DEF ReadOn
<1> QED
  BY <1>3 DEF r

LEMMA OpenStep ==
  ASSUME NEW e, Len(e) \in Nat, NEW i \in 1 .. Len(e), e[i] \in {"(", "'"}, NEW forms
  PROVE  ReadOn(e, Reading(Null, i, forms)) = Reading(Null, i + 1, <<Form(e[i], <<>>)>> \o forms)
<1> DEFINE r == Reading(Null, i, forms)
<1>1. r.v = Null /\ r.next = i /\ r.forms = forms
  BY DEF Reading
<1>2. ~ (i > Len(e)) /\ e[i] \notin WhiteSpace /\ e[i] # ")"
  <2>1. CASE e[i] = "("
    BY <2>1 DEF WhiteSpace
  <2>2. CASE e[i] = "'"
    BY <2>2 DEF WhiteSpace
  <2> QED
    BY <2>1, <2>2
<1> HIDE DEF r
<1>3. ReadOn(e, r) = Reading(Null, i + 1, <<Form(e[i], <<>>)>> \o forms)
  BY <1>1, <1>2 DEF ReadOn
<1> QED
  BY <1>3 DEF r

LEMMA AtomStep ==
  ASSUME NEW e, Len(e) \in Nat, NEW i \in 1 .. Len(e), e[i] \notin WhiteSpace,
         e[i] \notin {"(", ")", "'"}, NEW forms
  PROVE  ReadOn(e, Reading(Null, i, forms))
           = Reading(AtomObject(SubSeq(e, i, AtomEnd(e, i) - 1)), AtomEnd(e, i), forms)
<1> DEFINE r == Reading(Null, i, forms)
<1>1. r.v = Null /\ r.next = i /\ r.forms = forms
  BY DEF Reading
<1>2. ~ (i > Len(e))
  OBVIOUS
<1> HIDE DEF r
<1>3. ReadOn(e, r) = Reading(AtomObject(SubSeq(e, i, AtomEnd(e, i) - 1)), AtomEnd(e, i), forms)
  BY <1>1, <1>2 DEF ReadOn
<1> QED
  BY <1>3 DEF r

\* What a list is whose values are vs.
Closed(vs) == IF vs = <<>> THEN Nil ELSE List(vs)

LEMMA EndStep ==
  ASSUME NEW e, Len(e) \in Nat, NEW i \in 1 .. Len(e), e[i] = ")",
         NEW forms, IsSequence(forms), NEW vs
  PROVE  ReadOn(e, Reading(Null, i, <<Form("(", vs)>> \o forms)) = Reading(Closed(vs), i + 1, forms)
<1> DEFINE f  == Form("(", vs)
           fs == <<f>> \o forms
           r  == Reading(Null, i, fs)
<1>1. r.v = Null /\ r.next = i /\ r.forms = fs
  BY DEF Reading
<1>2. f.values = vs
  BY DEF Form
<1> HIDE DEF f
<1>3. Head(fs) = f /\ Tail(fs) = forms
  BY Pushed
<1>4. ~ (i > Len(e)) /\ e[i] \notin WhiteSpace
  BY DEF WhiteSpace
<1> HIDE DEF r, fs
<1>5. ReadOn(e, r) = Reading(Closed(vs), i + 1, forms)
  BY <1>1, <1>2, <1>3, <1>4 DEF ReadOn, Closed
<1> QED
  BY <1>5 DEF r, fs, f

LEMMA SpaceSteps ==
  ASSUME NEW X, NEW e \in Seq(X), NEW i \in 1 .. Len(e) + 1, NEW s, s = NextElement(e, i),
         s # 0, NEW n \in 0 .. 2 * (i - 1), NEW forms,
         Steps(e)[n] = Reading(Null, i, forms)
  PROVE  Steps(e)[n + (s - i)] = Reading(Null, s, forms)
<1> DEFINE w == s - i
           D == {d \in 0 .. w : Steps(e)[n + d] = Reading(Null, i + d, forms)}
<1>0. Len(e) \in Nat /\ i \in Nat /\ n \in Nat
  OBVIOUS
<1>1. s \in 0 .. Len(e) /\ s >= i /\ \A j \in i .. s - 1 : e[j] \in WhiteSpace
  BY <1>0, NextElementIs
<1>2. w \in Nat /\ i + w = s
  BY <1>0, <1>1
<1>3. 0 \in D
  <2>1. n + 0 = n /\ i + 0 = i
    BY <1>0
  <2> QED
    BY <1>2, <2>1
<1>4. ASSUME NEW d \in 1 .. w, d - 1 \in D PROVE d \in D
  <2> DEFINE k == n + d
             j == i + (d - 1)
  <2>1. k \in 1 .. 2 * Len(e) /\ k - 1 = n + (d - 1) /\ j \in i .. s - 1 /\ j \in 1 .. Len(e)
        /\ j + 1 = i + d
    BY <1>0, <1>1
  <2>2. Steps(e)[n + (d - 1)] = Reading(Null, j, forms)
    BY <1>4
  <2>3. Steps(e)[k] = ReadOn(e, Steps(e)[k - 1])
    BY <1>0, <2>1, StepsAre
  <2>4. e[j] \in WhiteSpace
    BY <1>1, <2>1
  <2> HIDE DEF j, k
  <2>5. ReadOn(e, Reading(Null, j, forms)) = Reading(Null, j + 1, forms)
    BY <1>0, <2>1, <2>4, SpaceStep
  <2>6. Steps(e)[k] = Reading(Null, i + d, forms)
    BY <2>1, <2>2, <2>3, <2>5
  <2> QED
    BY <2>6 DEF k
<1> HIDE DEF D, w
<1>5. w \in D
  <2>1. 0 .. w \subseteq D
    BY <1>2, <1>3, <1>4, UpTo
  <2> QED
    BY <1>2, <2>1
<1>6. Steps(e)[n + w] = Reading(Null, i + w, forms)
  BY <1>5 DEF D
<1> QED
  BY <1>2, <1>6 DEF w

LEMMA Grown ==
  ASSUME NEW vs, IsSequence(vs), NEW els, IsSequence(els), NEW v
  PROVE  /\ IsSequence(Append(vs, v)) /\ IsSequence(<<v>> \o els)
         /\ Append(vs, v) \o els = vs \o (<<v>> \o els)
<1>1. PICK W1 : vs \in Seq(W1)
  BY DEF IsSequence
<1>2. PICK W2 : els \in Seq(W2)
  BY DEF IsSequence
<1> DEFINE W == W1 \cup W2 \cup {v}
<1>3. vs \in Seq(W) /\ els \in Seq(W) /\ <<v>> \in Seq(W) /\ v \in W
  BY <1>1, <1>2, SeqMonotonic
<1> HIDE DEF W
<1>4. Append(vs, v) = vs \o <<v>> /\ Append(vs, v) \in Seq(W)
  BY <1>3, AppendIsConcat
<1>5. (vs \o <<v>>) \o els = vs \o (<<v>> \o els)
  BY <1>3, ConcatAssociative
<1>6. <<v>> \o els \in Seq(W)
  BY <1>3
<1> QED
  BY <1>4, <1>5, <1>6 DEF IsSequence

\* From n steps on, at an element, the reader comes to its value, in at most
\* two steps for a character; and at the rest of a list whose first values are
\* vs, to the value of the list.
ElementRead(e, s, v, next) ==
  \A forms : \A n \in 0 .. 2 * (s - 1) :
    IsSequence(forms) /\ Steps(e)[n] = Reading(Null, s, forms) =>
      \E k \in n .. n + 2 * (next - s) - 1 : Steps(e)[k] = Reading(v, next, forms)

RestRead(e, i, els, next) ==
  \A forms, vs : \A n \in 0 .. 2 * (i - 1) :
    IsSequence(forms) /\ IsSequence(vs)
    /\ Steps(e)[n] = Reading(Null, i, <<Form("(", vs)>> \o forms) =>
      \E k \in n .. n + 2 * (next - i) - 1 :
        Steps(e)[k] = Reading(Closed(vs \o els), next, forms)

\* The numbers of steps.
LEMMA QuoteCount ==
  ASSUME NEW L \in Nat, NEW s \in Nat, 1 <= s, NEW t \in Nat, s + 1 <= t, t <= L,
         NEW next \in Nat, t + 1 <= next, next <= L + 1,
         NEW n \in Int, 0 <= n, n <= 2 * (s - 1),
         NEW m \in Int, m = n + t - s,
         NEW k \in Int, m <= k, k <= m + 2 * (next - t) - 1
  PROVE  k + 1 \in 1 .. 2 * L /\ k + 1 - 1 = k /\ k + 1 \in n .. n + 2 * (next - s) - 1
OBVIOUS

LEMMA GoesOnCount ==
  ASSUME NEW L \in Nat, NEW i \in Nat, 1 <= i, NEW s \in Nat, i <= s, s <= L,
         NEW t \in Nat, s + 1 <= t, t <= L + 1,
         NEW n \in Int, 0 <= n, n <= 2 * (i - 1), NEW m \in Int, m = n + s - i,
         NEW k \in Int, m <= k, k <= m + 2 * (t - s) - 1
  PROVE  k + 1 \in 1 .. 2 * L /\ k + 1 - 1 = k /\ k + 1 \in 0 .. 2 * (t - 1)
         /\ k + 1 \in n .. n + 2 * (t - i)
OBVIOUS

LEMMA AtomRead ==
  ASSUME NEW X, NEW e \in Seq(X), NEW s \in ElementPlaces(e), e[s] \notin {"'", "("}
  PROVE  ElementRead(e, s, Element(e, s).v, Element(e, s).next)
<1> DEFINE v == Element(e, s).v
           next == Element(e, s).next
<1>0. Len(e) \in Nat /\ s \in 1 .. Len(e) /\ s \in Nat /\ e[s] \notin WhiteSpace /\ e[s] # ")"
  BY ElementFront
<1>1. v = AtomObject(SubSeq(e, s, AtomEnd(e, s) - 1)) /\ next = AtomEnd(e, s)
      /\ next \in s + 1 .. Len(e) + 1
  BY ElementAtom
<1>2. e[s] \notin {"(", ")", "'"}
  BY <1>0
<1> HIDE DEF v, next
<1>3. ASSUME NEW forms, NEW n \in 0 .. 2 * (s - 1), Steps(e)[n] = Reading(Null, s, forms)
      PROVE  \E k \in n .. n + 2 * (next - s) - 1 : Steps(e)[k] = Reading(v, next, forms)
  <2>1. n + 1 \in 1 .. 2 * Len(e) /\ n + 1 - 1 = n /\ n + 1 \in n .. n + 2 * (next - s) - 1
    BY <1>0, <1>1
  <2>2. Steps(e)[n + 1] = ReadOn(e, Steps(e)[n])
    BY <1>0, <2>1, StepsAre
  <2>3. ReadOn(e, Reading(Null, s, forms))
          = Reading(AtomObject(SubSeq(e, s, AtomEnd(e, s) - 1)), AtomEnd(e, s), forms)
    BY <1>0, <1>2, AtomStep
  <2> QED
    BY <1>1, <1>3, <2>1, <2>2, <2>3
<1> QED
  BY <1>3 DEF ElementRead, v, next

LEMMA QuoteRead ==
  ASSUME NEW X, NEW e, Sentence(X, e), NEW s \in ElementPlaces(e), e[s] = "'",
         NEW t, t = NextElement(e, s + 1), t \in ElementPlaces(e),
         NEW v, v # Null, NEW next \in t + 1 .. Len(e) + 1, ElementRead(e, t, v, next)
  PROVE  ElementRead(e, s, QuoteList(v), next)
<1>0. Len(e) \in Nat /\ e \in Seq(X)
  BY DEF Sentence
<1>1. s \in 1 .. Len(e) /\ s \in Nat /\ t \in 1 .. Len(e) /\ t \in Nat /\ t # 0
  BY <1>0 DEF ElementPlaces
<1>2. t >= s + 1
  BY QuoteFront
<1>a. next \in Nat /\ t + 1 <= next /\ next <= Len(e) + 1 /\ 1 <= s /\ t <= Len(e)
  BY <1>0, <1>1
<1>3. ASSUME NEW forms, NEW n \in 0 .. 2 * (s - 1), IsSequence(forms),
             Steps(e)[n] = Reading(Null, s, forms)
      PROVE  \E k \in n .. n + 2 * (next - s) - 1 :
               Steps(e)[k] = Reading(QuoteList(v), next, forms)
  <2> DEFINE fs == <<Form("'", <<>>)>> \o forms
             m == n + 1 + (t - (s + 1))
  <2>1. n + 1 \in 1 .. 2 * Len(e) /\ n + 1 - 1 = n /\ n + 1 \in 0 .. 2 * ((s + 1) - 1)
        /\ s + 1 \in 1 .. Len(e) + 1
    BY <1>0, <1>1
  <2>2. Steps(e)[n + 1] = ReadOn(e, Steps(e)[n])
    BY <1>0, <2>1, StepsAre
  <2>3. ReadOn(e, Reading(Null, s, forms)) = Reading(Null, s + 1, fs)
    BY <1>0, <1>1, OpenStep
  <2>4. Steps(e)[n + 1] = Reading(Null, s + 1, fs)
    BY <1>3, <2>2, <2>3
  <2>5. IsSequence(fs)
    BY <1>3, Pushed
  <2> HIDE DEF fs
  <2>6. Steps(e)[m] = Reading(Null, t, fs)
    <3> DEFINE k == n + 1
               i == s + 1
    <3>1. k \in 0 .. 2 * (i - 1) /\ i \in 1 .. Len(e) + 1 /\ t = NextElement(e, i)
          /\ Steps(e)[k] = Reading(Null, i, fs)
      BY <2>1, <2>4
    <3> HIDE DEF k, i
    <3>2. Steps(e)[k + (t - i)] = Reading(Null, t, fs)
      BY SMTT(20), <1>0, <1>1, <3>1, SpaceSteps
    <3> QED
      BY <3>2 DEF k, i
  <2>7. m \in Int /\ n \in Int /\ 0 <= n /\ n <= 2 * (s - 1) /\ m = n + t - s
    BY SMTT(20), <1>1
  <2> HIDE DEF m
  <2>12. m \in 0 .. 2 * (t - 1)
    BY SMTT(20), <1>1, <1>2, <2>7
  <2>8. PICK k \in m .. m + 2 * (next - t) - 1 : Steps(e)[k] = Reading(v, next, fs)
    BY <2>5, <2>6, <2>12 DEF ElementRead
  <2>13. k \in Int /\ m <= k /\ k <= m + 2 * (next - t) - 1
    BY <1>1, <1>a, <2>7
  <2>9. k + 1 \in 1 .. 2 * Len(e) /\ k + 1 - 1 = k /\ k + 1 \in n .. n + 2 * (next - s) - 1
    BY <1>0, <1>1, <1>2, <1>a, <2>7, <2>13, QuoteCount
  <2>10. Steps(e)[k + 1] = ReadOn(e, Steps(e)[k])
    BY <1>0, <2>9, StepsAre
  <2>11. ReadOn(e, Reading(v, next, <<Form("'", <<>>)>> \o forms))
           = Reading(QuoteList(v), next, forms)
    BY <1>3, ValueQuoted
  <2> QED
    BY <2>8, <2>9, <2>10, <2>11 DEF fs
<1> QED
  BY <1>3 DEF ElementRead

LEMMA OpenRead ==
  ASSUME NEW X, NEW e \in Seq(X), NEW s \in ElementPlaces(e), e[s] = "(",
         NEW els, IsSequence(els), NEW next \in s + 2 .. Len(e) + 1,
         RestRead(e, s + 1, els, next)
  PROVE  ElementRead(e, s, Closed(els), next)
<1>0. Len(e) \in Nat /\ s \in 1 .. Len(e) /\ s \in Nat
  BY ElementFront
<1>1. <<>> \o els = els /\ IsSequence(<<>>)
  BY DEF IsSequence
<1>2. ASSUME NEW forms, NEW n \in 0 .. 2 * (s - 1), IsSequence(forms),
             Steps(e)[n] = Reading(Null, s, forms)
      PROVE  \E k \in n .. n + 2 * (next - s) - 1 :
               Steps(e)[k] = Reading(Closed(els), next, forms)
  <2> DEFINE m == n + 1
  <2>1. m \in 1 .. 2 * Len(e) /\ m - 1 = n /\ m \in 0 .. 2 * ((s + 1) - 1)
    BY <1>0
  <2>2. Steps(e)[m] = ReadOn(e, Steps(e)[n])
    BY <1>0, <2>1, StepsAre
  <2>3. ReadOn(e, Reading(Null, s, forms)) = Reading(Null, s + 1, <<Form("(", <<>>)>> \o forms)
    BY <1>0, OpenStep
  <2>4. Steps(e)[m] = Reading(Null, s + 1, <<Form("(", <<>>)>> \o forms)
    BY <1>2, <2>2, <2>3
  <2> HIDE DEF m
  <2>5. PICK k \in m .. m + 2 * (next - (s + 1)) - 1 :
          Steps(e)[k] = Reading(Closed(<<>> \o els), next, forms)
    BY <1>1, <1>2, <2>1, <2>4 DEF RestRead
  <2>6. k \in n .. n + 2 * (next - s) - 1
    BY <1>0, <2>1
  <2> QED
    BY <1>1, <2>5, <2>6
<1> QED
  BY <1>2 DEF ElementRead

LEMMA EndRead ==
  ASSUME NEW X, NEW e, Sentence(X, e), NEW i \in ListPlaces(e),
         NEW s \in 1 .. Len(e), s = NextElement(e, i), e[s] = ")"
  PROVE  RestRead(e, i, <<>>, s + 1)
<1>0. Len(e) \in Nat /\ e \in Seq(X)
  BY DEF Sentence
<1>1. i \in 1 .. Len(e) + 1 /\ i \in Nat /\ s \in 1 .. Len(e) /\ s >= i /\ s # 0
  BY <1>0, ListFront
<1>a. i \in Nat /\ 1 <= i /\ s \in Nat /\ s <= Len(e) /\ i <= s
  BY <1>0, <1>1
<1>2. ASSUME NEW forms, NEW vs, NEW n \in 0 .. 2 * (i - 1), IsSequence(forms), IsSequence(vs),
             Steps(e)[n] = Reading(Null, i, <<Form("(", vs)>> \o forms)
      PROVE  \E k \in n .. n + 2 * ((s + 1) - i) - 1 :
               Steps(e)[k] = Reading(Closed(vs \o <<>>), s + 1, forms)
  <2> DEFINE m == n + (s - i)
             fs == <<Form("(", vs)>> \o forms
  <2>1. Steps(e)[m] = Reading(Null, s, fs)
    BY <1>0, <1>1, <1>2, SpaceSteps
  <2>4. ReadOn(e, Reading(Null, s, fs)) = Reading(Closed(vs), s + 1, forms)
    BY <1>0, <1>2, EndStep
  <2>5. vs \o <<>> = vs
    BY <1>2 DEF IsSequence
  <2>6. n \in Int /\ 0 <= n /\ n <= 2 * (i - 1) /\ m = n + s - i /\ m \in Int
    BY <1>1, <1>a
  <2> HIDE DEF m, fs
  <2>2. m + 1 \in 1 .. 2 * Len(e) /\ m + 1 - 1 = m /\ m + 1 \in n .. n + 2 * ((s + 1) - i) - 1
    <3>1. m + 1 - 1 = m /\ 1 <= m + 1 /\ m + 1 <= 2 * Len(e)
      BY SMTT(20), <1>0, <1>a, <2>6
    <3>2. n <= m + 1 /\ m + 1 <= n + 2 * ((s + 1) - i) - 1
      BY SMTT(20), <1>a, <2>6
    <3> QED
      BY <1>0, <1>a, <2>6, <3>1, <3>2
  <2>3. Steps(e)[m + 1] = ReadOn(e, Steps(e)[m])
    BY <1>0, <2>2, <2>6, StepsAre
  <2> QED
    BY <2>1, <2>2, <2>3, <2>4, <2>5
<1> QED
  BY <1>2 DEF RestRead

LEMMA GoesOnRead ==
  ASSUME NEW X, NEW e, Sentence(X, e), NEW i \in ListPlaces(e),
         NEW s \in ElementPlaces(e), s = NextElement(e, i),
         NEW v, v # Null, NEW t \in s + 1 .. Len(e) + 1, ElementRead(e, s, v, t),
         NEW els, IsSequence(els), NEW next \in t + 1 .. Len(e) + 1, RestRead(e, t, els, next)
  PROVE  RestRead(e, i, <<v>> \o els, next)
<1>0. Len(e) \in Nat /\ e \in Seq(X)
  BY DEF Sentence
<1>1. i \in 1 .. Len(e) + 1 /\ i \in Nat /\ s \in 1 .. Len(e) /\ s >= i /\ s # 0
  BY <1>0, ListFront
<1>a. i \in Nat /\ 1 <= i /\ s \in Nat /\ s <= Len(e) /\ i <= s
  BY <1>0, <1>1
<1>b. t \in Nat /\ s + 1 <= t /\ t <= Len(e) + 1
  BY <1>0, <1>a
<1>2. ASSUME NEW forms, NEW vs, NEW n \in 0 .. 2 * (i - 1), IsSequence(forms), IsSequence(vs),
             Steps(e)[n] = Reading(Null, i, <<Form("(", vs)>> \o forms)
      PROVE  \E k \in n .. n + 2 * (next - i) - 1 :
               Steps(e)[k] = Reading(Closed(vs \o (<<v>> \o els)), next, forms)
  <2> DEFINE m == n + (s - i)
             fs == <<Form("(", vs)>> \o forms
             ws == Append(vs, v)
             r == Reading(Closed(ws \o els), next, forms)
  <2>1. Steps(e)[m] = Reading(Null, s, fs)
    BY <1>0, <1>1, <1>2, SpaceSteps
  <2>2. m \in 0 .. 2 * (s - 1)
    BY <1>0, <1>1
  <2>3. IsSequence(fs)
    BY <1>2, Pushed
  <2>4. PICK k \in m .. m + 2 * (t - s) - 1 : Steps(e)[k] = Reading(v, t, fs)
    BY <2>1, <2>2, <2>3 DEF ElementRead
  <2>5. k + 1 \in 1 .. 2 * Len(e) /\ k + 1 - 1 = k /\ k + 1 \in 0 .. 2 * (t - 1)
        /\ k + 1 \in n .. n + 2 * (t - i)
    <3>1. n \in Int /\ 0 <= n /\ n <= 2 * (i - 1) /\ m = n + s - i /\ m \in Int
      BY <1>1, <1>a
    <3> HIDE DEF m
    <3>2. k \in Int /\ m <= k /\ k <= m + 2 * (t - s) - 1
      BY <1>a, <1>b, <3>1
    <3> QED
      BY <1>0, <1>a, <1>b, <3>1, <3>2, GoesOnCount
  <2>6. Steps(e)[k + 1] = ReadOn(e, Steps(e)[k])
    BY <1>0, <2>5, StepsAre
  <2>7. ReadOn(e, Reading(v, t, fs)) = Reading(Null, t, <<Form("(", ws)>> \o forms)
    BY <1>2, ValueAppended
  <2>8. IsSequence(ws) /\ ws \o els = vs \o (<<v>> \o els)
    BY ZenonT(30), <1>2, Grown
  <2> HIDE DEF m, fs, ws
  <2>9. Steps(e)[k + 1] = Reading(Null, t, <<Form("(", ws)>> \o forms)
    BY <2>4, <2>6, <2>7
  <2>10. \E j \in k + 1 .. k + 1 + 2 * (next - t) - 1 : Steps(e)[j] = r
    BY <1>2, <2>5, <2>8, <2>9 DEF RestRead
  <2>11. PICK j \in k + 1 .. k + 1 + 2 * (next - t) - 1 : Steps(e)[j] = r
    BY <2>10
  <2>12. j \in n .. n + 2 * (next - i) - 1
    <3>1. n \in Int /\ k \in Int /\ n <= k + 1 /\ k + 1 <= n + 2 * (t - i)
      BY <1>a, <1>b, <2>5
    <3>2. next \in Int
      BY <1>0, <1>b
    <3>3. j \in Int /\ k + 1 <= j /\ j <= k + 1 + 2 * (next - t) - 1
      BY <1>b, <2>11, <3>1, <3>2
    <3> QED
      BY <1>a, <1>b, <3>1, <3>2, <3>3
  <2> QED
    BY <2>8, <2>11, <2>12
<1> QED
  BY <1>2 DEF RestRead

LEMMA ClosedIs ==
  ASSUME NEW els, IsSequence(els)
  PROVE  Closed(els) = (IF List(els) = Null THEN Nil ELSE List(els)) /\ Closed(els) # Null
<1>1. Nil # Null
  BY ConsNotNull DEF Nil
<1>2. CASE els = <<>>
  <2>1. List(els) = Null
    BY <1>2, ListEmpty
  <2> QED
    BY <1>1, <1>2, <2>1 DEF Closed
<1>3. CASE els # <<>>
  <2>1. PICK W : els \in Seq(W)
    BY DEF IsSequence
  <2>2. Len(els) \in Nat /\ Len(els) > 0
    BY <1>3, <2>1, EmptySeq
  <2>3. List(els) # Null
    BY <2>2, ListNotNull
  <2> QED
    BY <1>3, <2>3 DEF Closed
<1> QED
  BY <1>2, <1>3

\* The reader with the stack comes to every element that parse_expression
\* returns, and to what the rest of every list is.
LEMMA ElementsRead ==
  ASSUME NEW X, NEW e, Sentence(X, e)
  PROVE  \A s \in ElementPlaces(e) :
           /\ Element(e, s).v # Null
           /\ ElementRead(e, s, Element(e, s).v, Element(e, s).next)
<1> DEFINE P == {s \in ElementPlaces(e) :
                   /\ Element(e, s).v # Null
                   /\ ElementRead(e, s, Element(e, s).v, Element(e, s).next)}
           Q == {i \in ListPlaces(e) :
                   \E els : /\ IsSequence(els) /\ Rest(e, i).v = List(els)
                            /\ RestRead(e, i, els, Rest(e, i).next)}
<1>0. Len(e) \in Nat /\ e \in Seq(X)
  BY DEF Sentence
<1>1. ASSUME NEW s \in ElementPlaces(e), e[s] \notin {"'", "("} PROVE s \in P
  <2>1. Element(e, s).v = AtomObject(SubSeq(e, s, AtomEnd(e, s) - 1))
    BY <1>0, <1>1, ElementAtom
  <2>2. Element(e, s).v # Null
    BY <2>1, AtomObjectNotNull
  <2>3. ElementRead(e, s, Element(e, s).v, Element(e, s).next)
    BY <1>0, <1>1, AtomRead
  <2> QED
    BY <2>2, <2>3
<1>2. ASSUME NEW s \in ElementPlaces(e), NEW t \in ElementPlaces(e), e[s] = "'",
             t = NextElement(e, s + 1), Element(e, s + 1) = Element(e, t), t \in P
      PROVE  s \in P
  <2> DEFINE v    == Element(e, t).v
             next == Element(e, t).next
  <2>1. Element(e, s).v = QuoteList(v) /\ Element(e, s).next = next
    BY <1>0, <1>2, ElementQuote
  <2>2. v # Null /\ ElementRead(e, t, v, next) /\ next \in t + 1 .. Len(e) + 1
    BY <1>2, DepthsAfter
  <2> HIDE DEF v, next
  <2>3. ElementRead(e, s, QuoteList(v), next)
    BY <1>2, <2>2, QuoteRead
  <2>4. QuoteList(v) # Null
    BY QuoteListIs, ConsNotNull
  <2> QED
    BY <2>1, <2>3, <2>4
<1>3. ASSUME NEW s \in ElementPlaces(e), e[s] = "(", s + 1 \in ListPlaces(e), s + 1 \in Q
      PROVE  s \in P
  <2>1. PICK els : /\ IsSequence(els) /\ Rest(e, s + 1).v = List(els)
                   /\ RestRead(e, s + 1, els, Rest(e, s + 1).next)
    BY <1>3
  <2> DEFINE next == Rest(e, s + 1).next
  <2>2. next \in s + 2 .. Len(e) + 1
    <3>1. next \in (s + 1) + 1 .. Len(e) + 1 /\ s \in Nat
      BY <1>0, <1>3, DepthsAfter, ElementFront
    <3> QED
      BY <3>1
  <2>3. /\ Element(e, s).v = IF Rest(e, s + 1).v = Null THEN Nil ELSE Rest(e, s + 1).v
        /\ Element(e, s).next = next
    BY <1>0, <1>3, ElementOpen
  <2>4. Element(e, s).v = Closed(els) /\ Closed(els) # Null
    BY <2>1, <2>3, ClosedIs
  <2> HIDE DEF next
  <2>5. ElementRead(e, s, Closed(els), next)
    BY <1>0, <1>3, <2>1, <2>2, OpenRead DEF next
  <2> QED
    BY <2>3, <2>4, <2>5
<1>4. ASSUME NEW i \in ListPlaces(e), e[NextElement(e, i)] = ")" PROVE i \in Q
  <2> DEFINE s == NextElement(e, i)
  <2>1. i \in Nat /\ s \in 1 .. Len(e) /\ s # 0 /\ e[s] = ")"
    BY <1>0, <1>4, ListFront
  <2>2. Rest(e, i).v = List(<<>>) /\ Rest(e, i).next = s + 1
    BY <1>0, <2>1, RestEnds, ListEmpty
  <2>3. RestRead(e, i, <<>>, s + 1)
    BY <2>1, EndRead
  <2>4. IsSequence(<<>>)
    BY DEF IsSequence
  <2> QED
    BY <2>2, <2>3, <2>4
<1>5. ASSUME NEW i \in ListPlaces(e), NEW s \in ElementPlaces(e), s = NextElement(e, i),
             s \in P, Element(e, s).next \in ListPlaces(e), Element(e, s).next \in Q
      PROVE  i \in Q
  <2> DEFINE v    == Element(e, s).v
             t    == Element(e, s).next
             next == Rest(e, t).next
  <2>1. PICK els : IsSequence(els) /\ Rest(e, t).v = List(els) /\ RestRead(e, t, els, next)
    BY <1>5
  <2>2. i \in Nat /\ s # 0 /\ e[s] # ")"
    BY <1>0, ListFront DEF ElementPlaces
  <2>3. Rest(e, i).v = Cons(v, Rest(e, t).v) /\ Rest(e, i).next = next
    BY <1>0, <1>5, <2>2, RestGoesOn
  <2>4. Rest(e, i).v = List(<<v>> \o els)
    BY <2>1, <2>3, ListPushed
  <2>5. IsSequence(<<v>> \o els)
    BY <2>1, Pushed
  <2>6. t \in s + 1 .. Len(e) + 1 /\ next \in t + 1 .. Len(e) + 1
    BY <1>5, DepthsAfter
  <2>7. v # Null /\ ElementRead(e, s, v, t)
    BY <1>5
  <2> HIDE DEF v, t, next
  <2>8. RestRead(e, i, <<v>> \o els, next)
    BY <1>5, <2>1, <2>6, <2>7, GoesOnRead
  <2> QED
    BY <2>3, <2>4, <2>5, <2>8
<1> HIDE DEF P, Q
<1>6. ElementPlaces(e) \subseteq P /\ ListPlaces(e) \subseteq Q
  BY <1>1, <1>2, <1>3, <1>4, <1>5, ReadingInduction
<1> QED
  BY <1>6 DEF P

\* The reader stops at the first expression.
LEMMA ReadFirstIs ==
  ASSUME NEW X, NEW e, Sentence(X, e), ~ IsEmpty(e)
  PROVE  LET s == NextElement(e, 1) IN
         ReadFirst(e) = Reading(Element(e, s).v, Element(e, s).next, <<>>)
<1> DEFINE s == NextElement(e, 1)
           v == Element(e, s).v
           next == Element(e, s).next
           m == 2 * Len(e)
<1>0. Len(e) \in Nat /\ e \in Seq(X)
  BY DEF Sentence
<1>1. s \in ElementPlaces(e) /\ s \in 1 .. Len(e) /\ s \in Nat /\ s # 0
  BY <1>0, FirstElement, ElementFront
<1>2. v # Null /\ ElementRead(e, s, v, next) /\ next \in s + 1 .. Len(e) + 1
  BY <1>1, ElementsRead, DepthsAfter
<1>3. Steps(e)[0] = Reading(Null, 1, <<>>)
  BY <1>0, StepsAre
<1>4. Steps(e)[s - 1] = Reading(Null, s, <<>>)
  <2>1. 1 \in 1 .. Len(e) + 1 /\ 0 \in 0 .. 2 * (1 - 1) /\ 0 + (s - 1) = s - 1
    BY <1>0, <1>1
  <2>2. Steps(e)[0 + (s - 1)] = Reading(Null, s, <<>>)
    BY <1>0, <1>1, <1>3, <2>1, SpaceSteps
  <2> QED
    BY <2>1, <2>2
<1> HIDE DEF s, v, next
<1>5. PICK k \in s - 1 .. (s - 1) + 2 * (next - s) - 1 : Steps(e)[k] = Reading(v, next, <<>>)
  <2>1. s - 1 \in 0 .. 2 * (s - 1)
    BY <1>1
  <2>2. IsSequence(<<>>)
    BY DEF IsSequence
  <2> QED
    BY <1>2, <1>4, <2>1, <2>2 DEF ElementRead
<1>6. k \in 0 .. m
  <2>1. next \in Int /\ s + 1 <= next /\ next <= Len(e) + 1 /\ s \in Int /\ 1 <= s
    BY <1>0, <1>1, <1>2
  <2>2. k \in Int /\ s - 1 <= k /\ k <= (s - 1) + 2 * (next - s) - 1
    BY <2>1
  <2> QED
    BY <1>0, <2>1, <2>2
<1> DEFINE S == {j \in 0 .. m - k : Steps(e)[k + j] = Reading(v, next, <<>>)}
<1>7. k \in Nat /\ m \in Nat /\ m - k \in Nat /\ k + (m - k) = m /\ k + 0 = k
  BY <1>0, <1>6
<1>8. 0 \in S
  BY <1>5, <1>7
<1>9. ASSUME NEW j \in 1 .. m - k, j - 1 \in S PROVE j \in S
  <2>1. k + j \in 1 .. m /\ k + j - 1 = k + (j - 1)
    BY <1>7
  <2>2. Steps(e)[k + j] = ReadOn(e, Steps(e)[k + j - 1])
    BY <1>0, <2>1, StepsAre
  <2>3. Steps(e)[k + (j - 1)] = Reading(v, next, <<>>)
    BY <1>9
  <2>4. ReadOn(e, Reading(v, next, <<>>)) = Reading(v, next, <<>>)
    BY <1>2, ValueStays
  <2> QED
    BY <2>1, <2>2, <2>3, <2>4
<1>10. m - k \in S
  <2> HIDE DEF S, m
  <2>1. 0 .. m - k \subseteq S
    BY <1>7, <1>8, <1>9, UpTo
  <2> QED
    BY <1>7, <2>1
<1>11. Steps(e)[m] = Reading(v, next, <<>>)
  BY <1>7, <1>10
<1>12. ReadFirst(e) = Steps(e)[m]
  BY <1>0, StepsAre
<1> QED
  BY <1>11, <1>12 DEF s, v, next

\* parse_expression, which calls itself and parse_list, returns the expression
\* that comes first in the text, and the position where that expression ends.
THEOREM ParserReadsFirst == Spec => []ReadsFirst
<1>1. TextOK => ReadsFirst
  <2> SUFFICES ASSUME TextOK, Whole, QuotesSomething(text), ~ IsEmpty(text)
               PROVE  Parse(text).v = ReadFirst(text).v /\ Parse(text).next = ReadFirst(text).next
    BY DEF ReadsFirst
  <2>1. Sentence(Alphabet, text) /\ text \in Seq(Alphabet)
    BY DEF Sentence, TextOK, Whole
  <2> DEFINE s == NextElement(text, 1)
  <2>2. ReadFirst(text) = Reading(Element(text, s).v, Element(text, s).next, <<>>)
    BY <2>1, ReadFirstIs
  <2>3. Parse(text) = Element(text, 1)
    BY DEF Parse, Element
  <2>4. s # 0
    BY <2>1, FirstElement DEF ElementPlaces
  <2>5. Element(text, s) = Element(text, 1)
    BY <2>1, <2>4, ReadsAtNext
  <2> QED
    BY <2>2, <2>3, <2>5 DEF Reading
<1> QED
  BY <1>1, TextsAre, PTL

-----------------------------------------------------------------------------
(***************************************************************************)
(* The values of bounded depth.                                            *)
(***************************************************************************)
Levels(f, n) ==
  f = [h \in 0 .. n |-> IF h = 0 THEN Leaves ELSE Leaves \cup Lists(f[h - 1])]

LEMMA LevelsExtend ==
  ASSUME NEW n \in Nat, NEW f, Levels(f, n)
  PROVE  \E g : Levels(g, n + 1)
<1> DEFINE g == [h \in 0 .. n + 1 |-> IF h = n + 1 THEN Leaves \cup Lists(f[n]) ELSE f[h]]
<1>1. \A h \in 0 .. n : f[h] = IF h = 0 THEN Leaves ELSE Leaves \cup Lists(f[h - 1])
  BY DEF Levels
<1>2. \A h \in 0 .. n : g[h] = f[h]
  OBVIOUS
<1>3. g[n + 1] = Leaves \cup Lists(f[n]) /\ g[n] = f[n]
  OBVIOUS
<1>4. g = [h \in 0 .. n + 1 |-> g[h]]
  OBVIOUS
<1> HIDE DEF g
<1>5. ASSUME NEW h \in 0 .. n + 1
      PROVE  g[h] = IF h = 0 THEN Leaves ELSE Leaves \cup Lists(g[h - 1])
  <2>1. CASE h = n + 1
    <3>1. h # 0 /\ h - 1 = n
      BY <2>1
    <3> QED
      BY <1>3, <2>1, <3>1
  <2>2. CASE h # n + 1
    <3>1. h \in 0 .. n /\ (h # 0 => h - 1 \in 0 .. n)
      BY <2>2
    <3>2. h # 0 => g[h - 1] = f[h - 1]
      BY <1>2, <3>1
    <3> QED
      BY <1>1, <1>2, <3>1, <3>2
  <2> QED
    BY <2>1, <2>2
<1>6. Levels(g, n + 1)
  BY <1>4, <1>5 DEF Levels
<1> QED
  BY <1>6

LEMMA ValuesUpToIs ==
  /\ ValuesUpTo[0] = Leaves
  /\ \A h \in 1 .. MaxLevels : ValuesUpTo[h] = Leaves \cup Lists(ValuesUpTo[h - 1])
<1> DEFINE S == {n \in 0 .. MaxLevels : \E f : Levels(f, n)}
<1>0. MaxLevels \in Nat
  BY LevelsAssumption
<1>1. 0 \in S
  <2>1. Levels([h \in 0 .. 0 |-> Leaves], 0)
    BY DEF Levels
  <2> QED
    BY <1>0, <2>1
<1>2. ASSUME NEW h \in 1 .. MaxLevels, h - 1 \in S PROVE h \in S
  <2>1. PICK f : Levels(f, h - 1)
    BY <1>2
  <2>2. h - 1 \in Nat /\ (h - 1) + 1 = h
    OBVIOUS
  <2>3. \E g : Levels(g, h)
    BY <2>1, <2>2, LevelsExtend
  <2> QED
    BY <1>0, <2>3
<1> HIDE DEF S
<1>3. 0 .. MaxLevels \subseteq S
  BY <1>0, <1>1, <1>2, UpTo
<1>4. \E f : Levels(f, MaxLevels)
  BY <1>0, <1>3 DEF S
<1>5. ValuesUpTo = CHOOSE f : Levels(f, MaxLevels)
  BY DEF ValuesUpTo, Levels
<1>6. Levels(ValuesUpTo, MaxLevels)
  BY <1>4, <1>5
<1>7. 0 \in 0 .. MaxLevels /\ \A h \in 1 .. MaxLevels : h \in 0 .. MaxLevels /\ h # 0
  BY <1>0
<1> QED
  BY <1>6, <1>7 DEF Levels

LEMMA LevelsGrow == \A h \in 1 .. MaxLevels : ValuesUpTo[h - 1] \subseteq ValuesUpTo[h]
<1> DEFINE S == {h \in 0 .. MaxLevels : h # 0 => ValuesUpTo[h - 1] \subseteq ValuesUpTo[h]}
<1>0. MaxLevels \in Nat
  BY LevelsAssumption
<1>1. 0 \in S
  BY <1>0
<1>2. ASSUME NEW h \in 1 .. MaxLevels, h - 1 \in S PROVE h \in S
  <2>1. ValuesUpTo[h] = Leaves \cup Lists(ValuesUpTo[h - 1])
    BY ValuesUpToIs
  <2>2. CASE h - 1 = 0
    BY <2>1, <2>2, ValuesUpToIs
  <2>3. CASE h - 1 # 0
    <3> DEFINE k == h - 1
    <3>1. k \in 1 .. MaxLevels /\ k \in S
      BY <1>2, <2>3
    <3>2. ValuesUpTo[k - 1] \subseteq ValuesUpTo[k]
      BY <3>1
    <3>3. ValuesUpTo[k] = Leaves \cup Lists(ValuesUpTo[k - 1])
      BY <3>1, ValuesUpToIs
    <3> DEFINE A == ValuesUpTo[k - 1]
               B == ValuesUpTo[k]
    <3>4. A \subseteq B /\ B = Leaves \cup Lists(A) /\ ValuesUpTo[h] = Leaves \cup Lists(B)
      BY <2>1, <3>2, <3>3
    <3> HIDE DEF A, B, k
    <3>5. Lists(A) \subseteq Lists(B)
      BY <3>4 DEF Lists
    <3>6. B \subseteq ValuesUpTo[h]
      BY <3>4, <3>5
    <3> QED
      BY <3>6 DEF B, k
  <2> QED
    BY <2>2, <2>3
<1> HIDE DEF S
<1>3. 0 .. MaxLevels \subseteq S
  BY <1>0, <1>1, <1>2, UpTo
<1>4. \A h \in 1 .. MaxLevels : h \in S /\ h # 0
  BY <1>0, <1>3
<1> QED
  BY <1>4 DEF S

LEMMA LevelsNested ==
  ASSUME NEW k \in 0 .. MaxLevels
  PROVE  \A h \in 0 .. k : ValuesUpTo[h] \subseteq ValuesUpTo[k]
<1> DEFINE S == {d \in 0 .. k : ValuesUpTo[k - d] \subseteq ValuesUpTo[k]}
<1>0. k \in Nat /\ MaxLevels \in Nat
  BY LevelsAssumption
<1>1. 0 \in S
  <2>1. k - 0 = k
    BY <1>0
  <2> QED
    BY <1>0, <2>1
<1>2. ASSUME NEW d \in 1 .. k, d - 1 \in S PROVE d \in S
  <2>1. k - (d - 1) \in 1 .. MaxLevels /\ (k - (d - 1)) - 1 = k - d
    BY <1>0
  <2>2. ValuesUpTo[k - d] \subseteq ValuesUpTo[k - (d - 1)]
    BY <2>1, LevelsGrow
  <2>3. ValuesUpTo[k - (d - 1)] \subseteq ValuesUpTo[k]
    BY <1>2
  <2> QED
    BY <2>2, <2>3
<1> HIDE DEF S
<1>3. 0 .. k \subseteq S
  BY <1>0, <1>1, <1>2, UpTo
<1>4. ASSUME NEW h \in 0 .. k PROVE ValuesUpTo[h] \subseteq ValuesUpTo[k]
  <2>1. k - h \in 0 .. k /\ k - (k - h) = h
    BY <1>0
  <2>2. k - h \in S
    BY <1>3, <2>1
  <2> QED
    BY <2>1, <2>2 DEF S
<1> QED
  BY <1>4

LEMMA LevelsAreValues ==
  /\ \A h \in 0 .. MaxLevels : ValuesUpTo[h] \subseteq Values
  /\ Leaves \subseteq Values
<1>1. MaxLevels \in 0 .. MaxLevels /\ 0 \in 0 .. MaxLevels
  BY LevelsAssumption
<1>2. \A h \in 0 .. MaxLevels : ValuesUpTo[h] \subseteq Values
  BY <1>1, LevelsNested DEF Values
<1> QED
  BY <1>1, <1>2, ValuesUpToIs

\* What a list is made of.
LEMMA ListParts ==
  ASSUME NEW a, NEW d
  PROVE  /\ IsList(Cons(a, d)) /\ CarOf(Cons(a, d)) = a /\ CdrOf(Cons(a, d)) = d
         /\ Cons(a, d).t = "list"
BY DEF IsList, Cons, Value, CarOf, CdrOf

LEMMA LeavesAreNoLists ==
  ASSUME NEW v \in Leaves
  PROVE  ~ IsList(v)
<1>1. CASE v = Null
  BY <1>1 DEF IsList, Null, Value
<1>2. CASE v \in [t : {"atom", "int", "float"}, name : Seq(Characters), parts : {<<>>}]
  <2>1. v.t \in {"atom", "int", "float"}
    BY <1>2
  <2> QED
    BY <2>1 DEF IsList
<1> QED
  BY <1>1, <1>2 DEF Leaves

LEMMA PairIs ==
  ASSUME NEW V, NEW p \in V \X V
  PROVE  \E a \in V, d \in V : p = <<a, d>>
OBVIOUS

LEMMA ListsAre ==
  ASSUME NEW V, NEW v \in Lists(V)
  PROVE  /\ IsList(v) /\ CarOf(v) \in V /\ CdrOf(v) \in V /\ v = Cons(CarOf(v), CdrOf(v))
<1>1. v \in [t : {"list"}, name : {""}, parts : V \X V]
  BY DEF Lists
<1>2. v = [t |-> v.t, name |-> v.name, parts |-> v.parts] /\ v.t = "list" /\ v.name = ""
      /\ v.parts \in V \X V
  BY <1>1
<1>3. PICK a \in V, d \in V : v.parts = <<a, d>>
  <2> DEFINE p == v.parts
  <2>1. p \in V \X V
    BY <1>2
  <2> HIDE DEF p
  <2>2. \E a \in V, d \in V : p = <<a, d>>
    BY <2>1, PairIs
  <2> QED
    BY <2>2 DEF p
<1>4. v = Cons(a, d)
  BY <1>2, <1>3 DEF Cons, Value
<1> QED
  BY <1>3, <1>4, ListParts

LEMMA ConsInLists ==
  ASSUME NEW V, NEW a \in V, NEW d \in V
  PROVE  Cons(a, d) \in Lists(V)
BY DEF Cons, Value, Lists

\* A list of one level has its parts on the level below.
LEMMA ListBelow ==
  ASSUME NEW h \in 0 .. MaxLevels, NEW v \in ValuesUpTo[h], IsList(v)
  PROVE  /\ h - 1 \in 0 .. MaxLevels /\ h # 0
         /\ CarOf(v) \in ValuesUpTo[h - 1] /\ CdrOf(v) \in ValuesUpTo[h - 1]
         /\ v = Cons(CarOf(v), CdrOf(v))
<1>0. MaxLevels \in Nat
  BY LevelsAssumption
<1>1. v \notin Leaves
  BY LeavesAreNoLists
<1>2. h # 0
  BY <1>1, ValuesUpToIs
<1>3. h \in 1 .. MaxLevels /\ h - 1 \in 0 .. MaxLevels
  BY <1>0, <1>2
<1>4. v \in Lists(ValuesUpTo[h - 1])
  BY <1>1, <1>3, ValuesUpToIs
<1> QED
  BY <1>2, <1>3, <1>4, ListsAre

LEMMA ConsAbove ==
  ASSUME NEW h \in 1 .. MaxLevels, NEW a \in ValuesUpTo[h - 1], NEW d \in ValuesUpTo[h - 1]
  PROVE  Cons(a, d) \in ValuesUpTo[h]
BY ConsInLists, ValuesUpToIs

LEMMA ListOfValues ==
  ASSUME NEW a, NEW d, Cons(a, d) \in Values
  PROVE  a \in Values /\ d \in Values
<1>1. MaxLevels \in 0 .. MaxLevels
  BY LevelsAssumption
<1>2. IsList(Cons(a, d)) /\ CarOf(Cons(a, d)) = a /\ CdrOf(Cons(a, d)) = d
  BY ListParts
<1>3. MaxLevels - 1 \in 0 .. MaxLevels /\ a \in ValuesUpTo[MaxLevels - 1]
      /\ d \in ValuesUpTo[MaxLevels - 1]
  BY <1>1, <1>2, ListBelow DEF Values
<1> QED
  BY <1>3, LevelsAreValues

-----------------------------------------------------------------------------
(***************************************************************************)
(* What is printed, and what it is when it is read again.                  *)
(***************************************************************************)
Prints(f, V) ==
  f = [c \in {"value", "list"} \X V |->
         IF c[1] = "value" THEN UnparseValue(c[2], f) ELSE UnparseList(c[2], f)]

LEMMA PrintsIs ==
  ASSUME NEW f, NEW V, Prints(f, V), NEW v \in V
  PROVE  f[<<"value", v>>] = UnparseValue(v, f) /\ f[<<"list", v>>] = UnparseList(v, f)
<1>1. ASSUME NEW c \in {"value", "list"} \X V
      PROVE  f[c] = IF c[1] = "value" THEN UnparseValue(c[2], f) ELSE UnparseList(c[2], f)
  BY DEF Prints
<1>2. <<"value", v>> \in {"value", "list"} \X V /\ <<"value", v>>[1] = "value"
      /\ <<"value", v>>[2] = v
  OBVIOUS
<1>3. <<"list", v>> \in {"value", "list"} \X V /\ <<"list", v>>[1] # "value"
      /\ <<"list", v>>[2] = v
  OBVIOUS
<1> QED
  BY <1>1, <1>2, <1>3

\* unparse looks at the list only, and unparse_list at the two parts.
LEMMA UnparseLooks ==
  ASSUME NEW v, NEW f, NEW g, f[<<"list", v>>] = g[<<"list", v>>]
  PROVE  UnparseValue(v, f) = UnparseValue(v, g)
BY DEF UnparseValue

LEMMA UnparseListLooks ==
  ASSUME NEW v, NEW f, NEW g,
         IsList(v) => /\ f[<<"value", CarOf(v)>>] = g[<<"value", CarOf(v)>>]
                      /\ f[<<"list", CdrOf(v)>>] = g[<<"list", CdrOf(v)>>]
  PROVE  UnparseList(v, f) = UnparseList(v, g)
BY DEF UnparseList

\* The texts of the lists come first, then those of the values.
LEMMA PrintsExtend ==
  ASSUME NEW V, NEW W, NEW f, Prints(f, V),
         \A v \in W : IsList(v) => CarOf(v) \in V /\ CdrOf(v) \in V,
         V \subseteq W
  PROVE  \E g : Prints(g, W)
<1> DEFINE D == {"value", "list"} \X W
           lists == [c \in D |-> UnparseList(c[2], f)]
           g == [c \in D |-> IF c[1] = "value" THEN UnparseValue(c[2], lists)
                              ELSE UnparseList(c[2], f)]
<1>1. ASSUME NEW v \in W
      PROVE  <<"value", v>> \in D /\ <<"list", v>> \in D
             /\ <<"value", v>>[1] = "value" /\ <<"value", v>>[2] = v
             /\ <<"list", v>>[1] # "value" /\ <<"list", v>>[2] = v
  OBVIOUS
<1>2. ASSUME NEW c \in D
      PROVE  c[1] \in {"value", "list"} /\ c[2] \in W /\ c = <<c[1], c[2]>>
  BY <1>2
<1>3. g = [c \in D |-> g[c]]
      /\ \A c \in D : g[c] = IF c[1] = "value" THEN UnparseValue(c[2], lists)
                               ELSE UnparseList(c[2], f)
  OBVIOUS
<1>4. \A c \in D : lists[c] = UnparseList(c[2], f)
  OBVIOUS
<1> HIDE DEF D, lists, g
<1>5. ASSUME NEW v \in W
      PROVE  g[<<"value", v>>] = UnparseValue(v, lists) /\ g[<<"list", v>>] = UnparseList(v, f)
             /\ lists[<<"list", v>>] = UnparseList(v, f)
  BY <1>1, <1>3, <1>4
<1>6. ASSUME NEW v \in W
      PROVE  UnparseValue(v, g) = UnparseValue(v, lists)
  <2>1. g[<<"list", v>>] = lists[<<"list", v>>]
    BY <1>5
  <2> QED
    BY <2>1, UnparseLooks
<1>7. ASSUME NEW v \in V
      PROVE  g[<<"value", v>>] = f[<<"value", v>>] /\ g[<<"list", v>>] = f[<<"list", v>>]
  <2>1. f[<<"value", v>>] = UnparseValue(v, f) /\ f[<<"list", v>>] = UnparseList(v, f) /\ v \in W
    BY PrintsIs
  <2>2. g[<<"list", v>>] = f[<<"list", v>>] /\ lists[<<"list", v>>] = f[<<"list", v>>]
    BY <1>5, <2>1
  <2>3. UnparseValue(v, lists) = UnparseValue(v, f)
    BY <2>2, UnparseLooks
  <2> QED
    BY <1>5, <2>1, <2>2, <2>3
<1>8. ASSUME NEW v \in W
      PROVE  UnparseList(v, g) = UnparseList(v, f)
  BY <1>7, UnparseListLooks
<1>9. ASSUME NEW c \in D
      PROVE  g[c] = IF c[1] = "value" THEN UnparseValue(c[2], g) ELSE UnparseList(c[2], g)
  <2>1. c[2] \in W
    BY <1>2
  <2>2. /\ UnparseValue(c[2], g) = UnparseValue(c[2], lists)
        /\ UnparseList(c[2], g) = UnparseList(c[2], f)
    BY <1>6, <1>8, <2>1
  <2> QED
    BY <1>3, <2>2
<1>10. Prints(g, W)
  BY <1>3, <1>9 DEF Prints, D
<1> QED
  BY <1>10

LEMMA PrintingsAre ==
  ASSUME NEW v \in Values
  PROVE  /\ Unparse(v) = UnparseValue(v, Printings)
         /\ Printings[<<"value", v>>] = UnparseValue(v, Printings)
         /\ Printings[<<"list", v>>] = UnparseList(v, Printings)
<1> DEFINE S == {h \in 0 .. MaxLevels : \E f : Prints(f, ValuesUpTo[h])}
<1>0. MaxLevels \in Nat /\ 0 \in 0 .. MaxLevels
  BY LevelsAssumption
<1>1. 0 \in S
  <2> DEFINE f == [c \in {"value", "list"} \X {} |-> <<>>]
  <2>1. Prints(f, {})
    BY DEF Prints
  <2>2. \A w \in Leaves : IsList(w) => CarOf(w) \in {} /\ CdrOf(w) \in {}
    BY LeavesAreNoLists
  <2>3. \E g : Prints(g, Leaves)
    <3> HIDE DEF f
    <3> QED
      BY <2>1, <2>2, PrintsExtend
  <2> QED
    BY <1>0, <2>3, ValuesUpToIs
<1>2. ASSUME NEW h \in 1 .. MaxLevels, h - 1 \in S PROVE h \in S
  <2>1. PICK f : Prints(f, ValuesUpTo[h - 1])
    BY <1>2
  <2>2. ValuesUpTo[h - 1] \subseteq ValuesUpTo[h] /\ h \in 0 .. MaxLevels
    BY <1>0, LevelsGrow
  <2>3. \A w \in ValuesUpTo[h] :
          IsList(w) => CarOf(w) \in ValuesUpTo[h - 1] /\ CdrOf(w) \in ValuesUpTo[h - 1]
    BY <2>2, ListBelow
  <2>4. \E g : Prints(g, ValuesUpTo[h])
    BY <2>1, <2>2, <2>3, PrintsExtend
  <2> QED
    BY <2>2, <2>4
<1> HIDE DEF S
<1>3. 0 .. MaxLevels \subseteq S
  BY <1>0, <1>1, <1>2, UpTo
<1>4. \E f : Prints(f, Values)
  BY <1>0, <1>3 DEF S, Values
<1>5. Printings = CHOOSE f : Prints(f, Values)
  BY DEF Printings, Prints
<1>6. Prints(Printings, Values)
  BY <1>4, <1>5
<1> QED
  BY <1>6, PrintsIs DEF Unparse

\* What v is when it is read again, where its parts are at[...].
RereadStep(v, at) ==
  IF v = Nil THEN Atom(NilText)
  ELSE IF IsList(v) THEN Cons(at[CarOf(v)], at[CdrOf(v)])
  ELSE IF v.t = "float" /\ v.name[Len(v.name)] = "."
    THEN Value("int", SubSeq(v.name, 1, Len(v.name) - 1), <<>>)
  ELSE v

Rereads(f, V) == f = [v \in V |-> RereadStep(v, f)]

LEMMA RereadsExtend ==
  ASSUME NEW V, NEW W, NEW f, Rereads(f, V),
         \A v \in W : IsList(v) => CarOf(v) \in V /\ CdrOf(v) \in V,
         V \subseteq W
  PROVE  \E g : Rereads(g, W)
<1> DEFINE g == [v \in W |-> RereadStep(v, f)]
<1>1. \A v \in V : f[v] = RereadStep(v, f)
  BY DEF Rereads
<1>2. g = [v \in W |-> g[v]] /\ \A v \in W : g[v] = RereadStep(v, f)
  OBVIOUS
<1> HIDE DEF g
<1>3. \A v \in V : g[v] = f[v]
  BY <1>1, <1>2
<1>4. ASSUME NEW v \in W PROVE RereadStep(v, g) = RereadStep(v, f)
  <2>1. IsList(v) => g[CarOf(v)] = f[CarOf(v)] /\ g[CdrOf(v)] = f[CdrOf(v)]
    BY <1>3
  <2> QED
    BY <2>1 DEF RereadStep
<1>5. Rereads(g, W)
  BY <1>2, <1>4 DEF Rereads
<1> QED
  BY <1>5

LEMMA RereadIs ==
  \E again : /\ \A v \in Values : Reread(v) = again[v] /\ again[v] = RereadStep(v, again)
<1> DEFINE S == {h \in 0 .. MaxLevels : \E f : Rereads(f, ValuesUpTo[h])}
           again == CHOOSE f : Rereads(f, Values)
<1>0. MaxLevels \in Nat /\ 0 \in 0 .. MaxLevels
  BY LevelsAssumption
<1>1. 0 \in S
  <2> DEFINE f == [v \in {} |-> <<>>]
  <2>1. Rereads(f, {})
    BY DEF Rereads
  <2>2. \A w \in Leaves : IsList(w) => CarOf(w) \in {} /\ CdrOf(w) \in {}
    BY LeavesAreNoLists
  <2>3. \E g : Rereads(g, Leaves)
    <3> HIDE DEF f
    <3> QED
      BY <2>1, <2>2, RereadsExtend
  <2> QED
    BY <1>0, <2>3, ValuesUpToIs
<1>2. ASSUME NEW h \in 1 .. MaxLevels, h - 1 \in S PROVE h \in S
  <2>1. PICK f : Rereads(f, ValuesUpTo[h - 1])
    BY <1>2
  <2>2. ValuesUpTo[h - 1] \subseteq ValuesUpTo[h] /\ h \in 0 .. MaxLevels
    BY <1>0, LevelsGrow
  <2>3. \A w \in ValuesUpTo[h] :
          IsList(w) => CarOf(w) \in ValuesUpTo[h - 1] /\ CdrOf(w) \in ValuesUpTo[h - 1]
    BY <2>2, ListBelow
  <2>4. \E g : Rereads(g, ValuesUpTo[h])
    BY <2>1, <2>2, <2>3, RereadsExtend
  <2> QED
    BY <2>2, <2>4
<1> HIDE DEF S
<1>3. 0 .. MaxLevels \subseteq S
  BY <1>0, <1>1, <1>2, UpTo
<1>4. \E f : Rereads(f, Values)
  BY <1>0, <1>3 DEF S, Values
<1>5. Rereads(again, Values)
  BY <1>4
<1>6. \A v \in Values : Reread(v) = again[v]
  BY DEF Reread, Rereads, RereadStep
<1> HIDE DEF again
<1>7. \A v \in Values : again[v] = RereadStep(v, again)
  BY <1>5 DEF Rereads
<1> QED
  BY <1>6, <1>7

LEMMA RereadCases ==
  /\ Reread(Null) = Null
  /\ Nil \in Values => Reread(Nil) = Atom(NilText)
  /\ \A a, d : Cons(a, d) \in Values /\ a # Null =>
       Reread(Cons(a, d)) = Cons(Reread(a), Reread(d))
  /\ \A v \in Leaves : v.t # "float" \/ v.name[Len(v.name)] # "." => Reread(v) = v
  /\ \A v \in Leaves : v.t = "float" /\ v.name[Len(v.name)] = "." =>
       Reread(v) = Value("int", SubSeq(v.name, 1, Len(v.name) - 1), <<>>)
<1>1. PICK again : \A v \in Values : Reread(v) = again[v] /\ again[v] = RereadStep(v, again)
  BY RereadIs
<1>2. IsList(Nil)
  BY ListParts DEF Nil
<1>3. ASSUME NEW v \in Leaves PROVE v \in Values /\ ~ IsList(v) /\ v # Nil
  BY <1>2, LevelsAreValues, LeavesAreNoLists
<1>4. Null \in Leaves /\ Null.t # "float"
  BY DEF Leaves, Null, Value
<1>5. ASSUME NEW v \in Leaves, v.t # "float" \/ v.name[Len(v.name)] # "." PROVE Reread(v) = v
  BY <1>1, <1>3, <1>5 DEF RereadStep
<1>6. ASSUME NEW v \in Leaves, v.t = "float", v.name[Len(v.name)] = "."
      PROVE  Reread(v) = Value("int", SubSeq(v.name, 1, Len(v.name) - 1), <<>>)
  BY <1>1, <1>3, <1>6 DEF RereadStep
<1>7. ASSUME NEW a, NEW d, Cons(a, d) \in Values, a # Null
      PROVE  Reread(Cons(a, d)) = Cons(Reread(a), Reread(d))
  <2> DEFINE v == Cons(a, d)
  <2>1. IsList(v) /\ CarOf(v) = a /\ CdrOf(v) = d /\ CarOf(Nil) = Null
    BY ListParts DEF Nil
  <2>2. v \in Values /\ a \in Values /\ d \in Values
    BY <1>7, ListOfValues
  <2> HIDE DEF v
  <2>3. v # Nil
    BY <1>7, <2>1
  <2>4. Reread(v) = RereadStep(v, again)
    BY <1>1, <2>2
  <2>5. RereadStep(v, again) = Cons(again[a], again[d])
    BY <2>1, <2>3 DEF RereadStep
  <2>6. again[a] = Reread(a) /\ again[d] = Reread(d)
    BY <1>1, <2>2
  <2> QED
    BY <2>4, <2>5, <2>6 DEF v
<1>8. Nil \in Values => Reread(Nil) = Atom(NilText)
  BY <1>1 DEF RereadStep
<1> QED
  BY <1>4, <1>5, <1>6, <1>7, <1>8

-----------------------------------------------------------------------------
(***************************************************************************)
(* Where a printed text comes in another text, and what is read there.     *)
(***************************************************************************)
AllTexts == Seq(Characters)

\* The text u comes in f at i; at j an atom of f ends.
Comes(f, i, u) ==
  /\ i \in Nat /\ 1 <= i /\ i + Len(u) <= Len(f) + 1
  /\ \A k \in 1 .. Len(u) : f[i + (k - 1)] = u[k]
Ends(f, j) == j = Len(f) + 1 \/ (j \in 1 .. Len(f) /\ f[j] \in {" ", ")"})

LEMMA OneElement ==
  ASSUME NEW S, NEW c \in S
  PROVE  <<c>> \in Seq(S) /\ Len(<<c>>) = 1 /\ <<c>>[1] = c /\ <<c>> # <<>>
OBVIOUS

LEMMA OneCharacter ==
  ASSUME NEW c \in Characters, NEW s, s = <<c>>
  PROVE  s \in AllTexts /\ Len(s) = 1 /\ s[1] = c /\ s # <<>>
BY OneElement DEF AllTexts

LEMMA Joined ==
  ASSUME NEW a \in AllTexts, NEW b \in AllTexts, a # <<>>
  PROVE  /\ a \o b \in AllTexts /\ a \o b # <<>> /\ (a \o b)[1] = a[1]
         /\ Len(a \o b) = Len(a) + Len(b) /\ Len(a) \in Nat /\ Len(b) \in Nat /\ Len(a) >= 1
<1>1. Len(a) \in Nat /\ Len(b) \in Nat /\ Len(a) >= 1
  BY EmptySeq DEF AllTexts
<1>2. /\ a \o b \in AllTexts /\ Len(a \o b) = Len(a) + Len(b)
      /\ \A k \in 1 .. Len(a) + Len(b) :
           (a \o b)[k] = IF k <= Len(a) THEN a[k] ELSE b[k - Len(a)]
  BY ConcatProperties DEF AllTexts
<1>3. 1 \in 1 .. Len(a) + Len(b) /\ 1 <= Len(a)
  BY <1>1
<1>4. a \o b # <<>>
  <2> DEFINE x == a \o b
  <2>1. Len(x) # 0
    BY <1>1, <1>2
  <2> HIDE DEF x
  <2>2. x # <<>>
    BY <2>1
  <2> QED
    BY <2>2 DEF x
<1> QED
  BY <1>1, <1>2, <1>3, <1>4

LEMMA ComesParts ==
  ASSUME NEW f \in AllTexts, NEW i, NEW a \in AllTexts, NEW b \in AllTexts, Comes(f, i, a \o b)
  PROVE  Comes(f, i, a) /\ Comes(f, i + Len(a), b)
<1>0. /\ Len(f) \in Nat /\ Len(a) \in Nat /\ Len(b) \in Nat /\ i \in Nat /\ 1 <= i
      /\ Len(a \o b) = Len(a) + Len(b)
      /\ \A k \in 1 .. Len(a) + Len(b) :
           (a \o b)[k] = IF k <= Len(a) THEN a[k] ELSE b[k - Len(a)]
  BY ConcatProperties DEF AllTexts, Comes
<1>1. /\ i + (Len(a) + Len(b)) <= Len(f) + 1
      /\ \A k \in 1 .. Len(a) + Len(b) :
           f[i + (k - 1)] = IF k <= Len(a) THEN a[k] ELSE b[k - Len(a)]
  BY <1>0 DEF Comes
<1>2. Comes(f, i, a)
  <2>1. i + Len(a) <= Len(f) + 1
    BY <1>0, <1>1
  <2>2. ASSUME NEW k \in 1 .. Len(a) PROVE f[i + (k - 1)] = a[k]
    <3>1. k \in 1 .. Len(a) + Len(b) /\ k <= Len(a)
      BY <1>0
    <3> QED
      BY <1>1, <3>1
  <2> QED
    BY <1>0, <2>1, <2>2 DEF Comes
<1>3. Comes(f, i + Len(a), b)
  <2>1. i + Len(a) \in Nat /\ 1 <= i + Len(a) /\ (i + Len(a)) + Len(b) <= Len(f) + 1
    BY <1>0, <1>1
  <2>2. ASSUME NEW k \in 1 .. Len(b) PROVE f[(i + Len(a)) + (k - 1)] = b[k]
    <3> DEFINE h == k + Len(a)
    <3>1. h \in 1 .. Len(a) + Len(b) /\ ~ (h <= Len(a)) /\ h - Len(a) = k
          /\ i + (h - 1) = (i + Len(a)) + (k - 1)
      BY <1>0
    <3> HIDE DEF h
    <3>2. f[i + (h - 1)] = b[h - Len(a)]
      BY <1>1, <3>1
    <3> QED
      BY <3>1, <3>2
  <2> QED
    BY <2>1, <2>2 DEF Comes
<1> QED
  BY <1>2, <1>3

\* A text that is not empty begins with a character of the other one.
LEMMA ComesFirst ==
  ASSUME NEW f \in AllTexts, NEW i, NEW u \in AllTexts, u # <<>>, Comes(f, i, u)
  PROVE  Len(u) \in Nat /\ Len(u) >= 1 /\ i \in 1 .. Len(f) /\ f[i] = u[1]
<1>1. Len(u) \in Nat /\ Len(u) # 0 /\ Len(f) \in Nat
  BY EmptySeq DEF AllTexts
<1>2. 1 \in 1 .. Len(u) /\ i + (1 - 1) = i
  BY <1>1 DEF Comes
<1>3. f[i] = u[1]
  BY <1>2 DEF Comes
<1>4. i \in Nat /\ 1 <= i /\ i + Len(u) <= Len(f) + 1
  BY DEF Comes
<1> QED
  BY <1>1, <1>3, <1>4

LEMMA ComesItself ==
  ASSUME NEW u \in AllTexts
  PROVE  Comes(u, 1, u)
<1>1. Len(u) \in Nat
  BY DEF AllTexts
<1>2. 1 + Len(u) <= Len(u) + 1 /\ \A k \in 1 .. Len(u) : 1 + (k - 1) = k
  BY <1>1
<1> QED
  BY <1>1, <1>2 DEF Comes

\* The text of an atom.
AtomText(c) ==
  /\ c \in AllTexts /\ c # <<>> /\ c[1] # "'"
  /\ \A j \in 1 .. Len(c) : c[j] \notin WhiteSpace \cup Brackets

LEMMA AtomFound ==
  ASSUME NEW f \in AllTexts, NEW i, NEW c, AtomText(c), Comes(f, i, c), Ends(f, i + Len(c))
  PROVE  Element(f, i).v = AtomObject(c) /\ Element(f, i).next = i + Len(c)
<1> DEFINE j == AtomEnd(f, i)
           n == i + Len(c)
<1>0. /\ c \in AllTexts /\ Len(f) \in Nat /\ Len(c) \in Nat /\ Len(c) >= 1
      /\ i \in 1 .. Len(f) /\ i \in Nat /\ f[i] = c[1] /\ n \in Nat /\ n <= Len(f) + 1
  BY ComesFirst DEF AtomText, Comes, AllTexts
<1>1. \A k \in i .. n - 1 : f[k] \notin WhiteSpace \cup Brackets
  <2> TAKE k \in i .. n - 1
  <2> DEFINE h == k - i + 1
  <2>1. h \in 1 .. Len(c) /\ i + (h - 1) = k
    BY <1>0
  <2> HIDE DEF h
  <2>2. f[i + (h - 1)] = c[h]
    BY <2>1 DEF Comes
  <2> QED
    BY <2>1, <2>2 DEF AtomText
<1>2. i \in i .. n - 1
  BY <1>0
<1>3. f[i] \notin WhiteSpace /\ f[i] \notin Brackets /\ f[i] # "'"
  BY <1>0, <1>1, <1>2 DEF AtomText
<1>4. i \in ElementPlaces(f) /\ f[i] \notin {"'", "("}
  BY <1>0, <1>3 DEF ElementPlaces, Brackets
<1>5. /\ Element(f, i).v = AtomObject(SubSeq(f, i, j - 1)) /\ Element(f, i).next = j
  BY <1>4, ElementAtom DEF AllTexts
<1>6. /\ j \in i + 1 .. Len(f) + 1
      /\ \A k \in i .. j - 1 : f[k] \notin WhiteSpace \cup Brackets
      /\ j <= Len(f) => f[j] \in WhiteSpace \cup Brackets
  BY <1>0, <1>3, AtomEndIs DEF AllTexts
<1> HIDE DEF j
<1>7. j = n
  <2>1. ~ (j < n)
    <3> SUFFICES ASSUME j < n PROVE FALSE
      OBVIOUS
    <3>1. j <= Len(f) /\ j \in i .. n - 1
      BY <1>0, <1>6
    <3> QED
      BY <1>1, <1>6, <3>1
  <2>2. ~ (n < j)
    <3> SUFFICES ASSUME n < j PROVE FALSE
      OBVIOUS
    <3>1. n # Len(f) + 1 /\ n \in i .. j - 1
      BY <1>0, <1>6
    <3>2. f[n] \in {" ", ")"}
      BY <3>1 DEF Ends
    <3>3. f[n] \in WhiteSpace \cup Brackets
      BY <3>2 DEF WhiteSpace, Brackets
    <3> QED
      BY <1>6, <3>1, <3>3
  <2> QED
    BY <1>0, <1>6, <2>1, <2>2
<1>8. SubSeq(f, i, n - 1) = c
  <2> DEFINE s == SubSeq(f, i, n - 1)
  <2>1. i \in Int /\ n - 1 \in Int /\ i <= n - 1 /\ (n - 1) - i + 1 = Len(c)
    BY <1>0
  <2>2. \A k \in i .. n - 1 : f[k] \in Characters
    BY <1>0 DEF AllTexts
  <2>3. /\ s \in Seq(Characters) /\ Len(s) = Len(c)
        /\ \A k \in 1 .. Len(c) : s[k] = f[i + k - 1]
    BY <2>1, <2>2, SubSeqProperties
  <2>4. \A k \in 1 .. Len(c) : i + k - 1 = i + (k - 1)
    BY <1>0
  <2> HIDE DEF s
  <2>5. \A k \in 1 .. Len(c) : s[k] = c[k]
    BY <2>3, <2>4 DEF Comes
  <2>6. s = c
    BY <1>0, <2>3, <2>5, SeqEqual DEF AllTexts
  <2> QED
    BY <2>6 DEF s
<1> QED
  BY <1>5, <1>7, <1>8

\* A space before the rest of a list.
LEMMA RestAtSpace ==
  ASSUME NEW X, NEW e \in Seq(X), NEW i \in 1 .. Len(e), e[i] \in WhiteSpace
  PROVE  Rest(e, i) = Rest(e, i + 1)
<1> DEFINE R == Readings(e)
<1>1. i \in Nat /\ i + 1 \in Nat
  OBVIOUS
<1>2. NextElement(e, i) = NextElement(e, i + 1)
  BY NextElementSkips
<1>3. ParseList(e, i, R) = ParseList(e, i + 1, R)
  BY <1>2 DEF ParseList
<1>4. Rest(e, i) = ParseList(e, i, R) /\ Rest(e, i + 1) = ParseList(e, i + 1, R)
  BY <1>1, ReadingsAre DEF Rest
<1> QED
  BY <1>3, <1>4

-----------------------------------------------------------------------------
(***************************************************************************)
(* What is printed for each kind of value.                                 *)
(***************************************************************************)
ListText(v) == Printings[<<"list", v>>]

LEMMA LeafPrinted ==
  ASSUME NEW v \in Leaves
  PROVE  /\ v = Null => Unparse(v) = <<>> /\ ListText(v) = <<>>
         /\ v # Null => Unparse(v) = UnparseAtom(v)
<1>1. v \in Values /\ ~ IsList(v)
  BY LevelsAreValues, LeavesAreNoLists
<1>2. Unparse(v) = UnparseValue(v, Printings) /\ ListText(v) = UnparseList(v, Printings)
  BY <1>1, PrintingsAre DEF ListText
<1>3. v # Null => v.t # "null"
  <2> SUFFICES ASSUME v # Null PROVE v.t # "null"
    OBVIOUS
  <2>1. v \in [t : {"atom", "int", "float"}, name : Seq(Characters), parts : {<<>>}]
    BY DEF Leaves
  <2>2. v.t \in {"atom", "int", "float"}
    BY <2>1
  <2> QED
    BY <2>2
<1>4. Null.t = "null"
  BY DEF Null, Value
<1>5. UnparseList(v, Printings) = <<>>
  BY <1>1 DEF UnparseList
<1>6. v = Null => UnparseValue(v, Printings) = <<>>
  BY <1>4 DEF UnparseValue
<1>7. v # Null => UnparseValue(v, Printings) = UnparseAtom(v)
  BY <1>1, <1>3 DEF UnparseValue
<1> QED
  BY <1>2, <1>5, <1>6, <1>7

LEMMA ListPrinted ==
  ASSUME NEW v \in Values, IsList(v)
  PROVE  /\ ListText(v) = <<>> => Unparse(v) = NilText
         /\ ListText(v) # <<>> => Unparse(v) = <<"(">> \o ListText(v) \o <<")">>
<1>1. Unparse(v) = UnparseValue(v, Printings)
  BY PrintingsAre
<1>2. v.t # "null"
  BY DEF IsList
<1> QED
  BY <1>1, <1>2 DEF UnparseValue, ListText

LEMMA ConsPrinted ==
  ASSUME NEW a, NEW d, Cons(a, d) \in Values
  PROVE  LET car == Unparse(a)
             cdr == ListText(d)
         IN
         /\ car = <<>> => ListText(Cons(a, d)) = <<>>
         /\ car # <<>> /\ cdr = <<>> => ListText(Cons(a, d)) = car
         /\ car # <<>> /\ cdr # <<>> => ListText(Cons(a, d)) = car \o <<" ">> \o cdr
<1>1. IsList(Cons(a, d)) /\ CarOf(Cons(a, d)) = a /\ CdrOf(Cons(a, d)) = d
  BY ListParts
<1>2. ListText(Cons(a, d)) = UnparseList(Cons(a, d), Printings)
  BY PrintingsAre DEF ListText
<1>3. a \in Values
  BY ListOfValues
<1> HIDE DEF Cons
<1> QED
  BY <1>1, <1>2 DEF UnparseList, ListText, Unparse

-----------------------------------------------------------------------------
(***************************************************************************)
(* A value that is read again, where its text comes in any text; and the   *)
(* rest of a list, where a bracket ends it.                                *)
(***************************************************************************)
Opens(u) == u \in AllTexts /\ u # <<>> /\ u[1] \notin WhiteSpace /\ u[1] # ")"

RoundTrip(v) ==
  /\ v # Null /\ Opens(Unparse(v))
  /\ \A f \in AllTexts : \A i :
       Comes(f, i, Unparse(v)) /\ Ends(f, i + Len(Unparse(v))) =>
         /\ Element(f, i).v = Reread(v)
         /\ Element(f, i).next = i + Len(Unparse(v))

ListTrip(w) ==
  /\ w = Null => ListText(w) = <<>>
  /\ w # Null => IsList(w) /\ Opens(ListText(w)) /\ Reread(w) # Null
  /\ \A f \in AllTexts : \A i :
       /\ Comes(f, i, ListText(w)) /\ i + Len(ListText(w)) \in 1 .. Len(f)
       /\ f[i + Len(ListText(w))] = ")"
       => /\ Rest(f, i).v = Reread(w)
          /\ Rest(f, i).next = i + Len(ListText(w)) + 1

LEMMA TripAtom ==
  ASSUME NEW v, v # Null, NEW c, Unparse(v) = c, AtomText(c), AtomObject(c) = Reread(v)
  PROVE  RoundTrip(v)
<1>1. Opens(c)
  <2>1. c \in AllTexts /\ c # <<>> /\ \A j \in 1 .. Len(c) : c[j] \notin WhiteSpace \cup Brackets
    BY DEF AtomText
  <2>2. 1 \in 1 .. Len(c)
    BY <2>1, EmptySeq DEF AllTexts
  <2>3. c[1] \notin WhiteSpace \cup Brackets
    BY <2>1, <2>2
  <2> QED
    BY <2>1, <2>3 DEF Opens, Brackets
<1>2. ASSUME NEW f \in AllTexts, NEW i, Comes(f, i, c), Ends(f, i + Len(c))
      PROVE  Element(f, i).v = Reread(v) /\ Element(f, i).next = i + Len(c)
  BY <1>2, AtomFound
<1> QED
  BY <1>1, <1>2 DEF RoundTrip

LEMMA TripNull == ListTrip(Null)
<1>1. Null \in Leaves
  BY DEF Leaves
<1>2. ListText(Null) = <<>> /\ Reread(Null) = Null
  BY <1>1, LeafPrinted, RereadCases
<1>3. Len(<<>>) = 0
  OBVIOUS
<1>4. ASSUME NEW f \in AllTexts, NEW i, Comes(f, i, <<>>), i + Len(<<>>) \in 1 .. Len(f),
             f[i + Len(<<>>)] = ")"
      PROVE  Rest(f, i).v = Null /\ Rest(f, i).next = i + Len(<<>>) + 1
  <2>1. i \in Nat /\ Len(f) \in Nat /\ i + Len(<<>>) = i /\ i \in 1 .. Len(f) /\ i # 0
    BY <1>3, <1>4 DEF Comes, AllTexts
  <2>2. f[i] = ")"
    BY <1>4, <2>1
  <2>3. f[i] \notin WhiteSpace
    BY <2>2 DEF WhiteSpace
  <2>4. NextElement(f, i) = i
    BY <2>1, <2>3, NextElementAt DEF AllTexts
  <2>5. Rest(f, i).v = Null /\ Rest(f, i).next = i + 1
    BY <2>1, <2>2, <2>4, RestEnds DEF AllTexts
  <2> QED
    BY <2>1, <2>5
<1> QED
  BY <1>2, <1>4 DEF ListTrip

\* One element more.
LEMMA TripCons ==
  ASSUME NEW v, NEW w, Cons(v, w) \in Values, RoundTrip(v), ListTrip(w)
  PROVE  ListTrip(Cons(v, w))
<1> DEFINE u == Unparse(v)
           t == ListText(w)
           x == ListText(Cons(v, w))
           R == Cons(Reread(v), Reread(w))
<1>0. /\ v # Null /\ u \in AllTexts /\ u # <<>> /\ u[1] \notin WhiteSpace /\ u[1] # ")"
      /\ Len(u) \in Nat
  BY DEF RoundTrip, Opens, AllTexts
<1>1. Reread(Cons(v, w)) = R /\ R # Null
  BY <1>0, RereadCases, ConsNotNull
<1>2. Cons(v, w) # Null /\ IsList(Cons(v, w))
  BY ConsNotNull, ListParts
<1>3. /\ w = Null => t = <<>>
      /\ w # Null => Opens(t)
  BY DEF ListTrip
<1>4. (t = <<>> => x = u) /\ (t # <<>> => x = u \o <<" ">> \o t)
  BY <1>0, ConsPrinted
<1>5. ASSUME NEW f \in AllTexts, NEW i, Comes(f, i, u), NEW j, j = i + Len(u), Ends(f, j),
             NEW next, Rest(f, j).v = Reread(w), Rest(f, j).next = next
      PROVE  Rest(f, i).v = R /\ Rest(f, i).next = next
  <2>1. Element(f, i).v = Reread(v) /\ Element(f, i).next = j
    BY <1>5 DEF RoundTrip
  <2>2. i \in 1 .. Len(f) /\ i \in Nat /\ f[i] = u[1] /\ i # 0
    BY <1>0, <1>5, ComesFirst DEF Comes
  <2>3. NextElement(f, i) = i
    BY <1>0, <2>2, NextElementAt DEF AllTexts
  <2>4. /\ Rest(f, i).v = Cons(Element(f, i).v, Rest(f, Element(f, i).next).v)
        /\ Rest(f, i).next = Rest(f, Element(f, i).next).next
    BY ZenonT(30), <1>0, <2>2, <2>3, RestGoesOn DEF AllTexts
  <2> QED
    BY <1>5, <2>1, <2>4
<1> HIDE DEF u, t, x, R
<1>6. CASE t = <<>>
  <2>1. x = u /\ Len(t) = 0
    BY <1>4, <1>6
  <2>2. ASSUME NEW f \in AllTexts, NEW i, Comes(f, i, x), i + Len(x) \in 1 .. Len(f),
               f[i + Len(x)] = ")"
        PROVE  Rest(f, i).v = R /\ Rest(f, i).next = i + Len(x) + 1
    <3> DEFINE j == i + Len(u)
    <3>1. j \in Nat /\ 1 <= j /\ j \in 1 .. Len(f) /\ f[j] = ")" /\ Len(f) \in Nat
          /\ Comes(f, i, u) /\ j + Len(t) = j
      BY <1>0, <2>1, <2>2 DEF AllTexts
    <3>2. Ends(f, j)
      BY <3>1 DEF Ends
    <3>3. Comes(f, j, t)
      BY <2>1, <3>1 DEF Comes
    <3>4. Rest(f, j).v = Reread(w) /\ Rest(f, j).next = j + Len(t) + 1
      <4> HIDE DEF j
      <4> QED
        BY <3>1, <3>3 DEF ListTrip, t
    <3> HIDE DEF j
    <3>5. Rest(f, i).v = R /\ Rest(f, i).next = j + Len(t) + 1
      BY <1>5, <3>1, <3>2, <3>4 DEF j
    <3> QED
      BY <2>1, <3>1, <3>5 DEF j
  <2>3. Opens(x)
    BY <1>0, <2>1 DEF Opens
  <2> QED
    BY <1>1, <1>2, <2>2, <2>3 DEF ListTrip, x
<1>7. CASE t # <<>>
  <2> DEFINE space == <<" ">>
             a == u \o space
  <2>0. w # Null
    BY <1>3, <1>7
  <2>1. t \in AllTexts /\ Len(t) \in Nat
    <3>1. t \in AllTexts
      BY <1>3, <2>0 DEF Opens
    <3> QED
      BY <3>1 DEF AllTexts
  <2>2. x = a \o t
    BY <1>4, <1>7
  <2>3. " " \in Characters
    BY DEF Characters
  <2>4. space \in AllTexts /\ Len(space) = 1 /\ space[1] = " " /\ space # <<>>
    BY <2>3, OneCharacter
  <2> HIDE DEF space
  <2>5. a \in AllTexts /\ Len(a) = Len(u) + 1 /\ a[1] = u[1] /\ a # <<>>
    BY <1>0, <2>4, Joined
  <2> HIDE DEF a
  <2>6. x \in AllTexts /\ Len(x) = Len(u) + 1 + Len(t) /\ x[1] = u[1] /\ x # <<>>
    BY <2>1, <2>2, <2>5, Joined
  <2>7. ASSUME NEW f \in AllTexts, NEW i, Comes(f, i, x), i + Len(x) \in 1 .. Len(f),
               f[i + Len(x)] = ")"
        PROVE  Rest(f, i).v = R /\ Rest(f, i).next = i + Len(x) + 1
    <3> DEFINE j == i + Len(u)
    <3>1. Comes(f, i, a) /\ Comes(f, i + Len(a), t)
      BY <2>1, <2>2, <2>5, <2>7, ComesParts
    <3>2. Comes(f, i, u) /\ Comes(f, j, space)
      BY <1>0, <2>4, <3>1, ComesParts DEF a
    <3>3. j \in 1 .. Len(f) /\ f[j] = " "
      BY <2>4, <3>2, ComesFirst
    <3>4. i \in Nat /\ j \in Nat
      BY <3>2 DEF Comes
    <3>5. i + Len(a) = j + 1 /\ (j + 1) + Len(t) = i + Len(x)
      BY <1>0, <2>1, <2>5, <2>6, <3>4
    <3> HIDE DEF j
    <3>6. Comes(f, j + 1, t)
      BY <3>1, <3>5
    <3>7. (j + 1) + Len(t) \in 1 .. Len(f) /\ f[(j + 1) + Len(t)] = ")"
      BY <2>7, <3>5
    <3>8. Rest(f, j + 1).v = Reread(w) /\ Rest(f, j + 1).next = (j + 1) + Len(t) + 1
      BY <3>6, <3>7 DEF ListTrip, t
    <3>9. Rest(f, j) = Rest(f, j + 1)
      BY <3>3, RestAtSpace DEF AllTexts, WhiteSpace
    <3>10. Ends(f, j)
      BY <3>3 DEF Ends
    <3>11. Rest(f, i).v = R /\ Rest(f, i).next = (j + 1) + Len(t) + 1
      BY <1>5, <3>2, <3>8, <3>9, <3>10 DEF j
    <3> QED
      BY <3>5, <3>11
  <2>8. Opens(x)
    BY <1>0, <2>6 DEF Opens
  <2> QED
    BY <1>1, <1>2, <2>7, <2>8 DEF ListTrip, x
<1> QED
  BY <1>6, <1>7

\* A list in its brackets.
LEMMA TripList ==
  ASSUME NEW w \in Values, w # Null, ListTrip(w)
  PROVE  RoundTrip(w)
<1> DEFINE t == ListText(w)
           u == Unparse(w)
           open == <<"(">>
           end == <<")">>
<1>1. IsList(w) /\ t \in AllTexts /\ t # <<>> /\ Reread(w) # Null /\ Len(t) \in Nat
  BY DEF ListTrip, Opens, AllTexts
<1>2. u = (open \o t) \o end
  BY <1>1, ListPrinted
<1>3. open \in AllTexts /\ Len(open) = 1 /\ open[1] = "(" /\ open # <<>>
      /\ end \in AllTexts /\ Len(end) = 1 /\ end[1] = ")" /\ end # <<>>
  <2>1. "(" \in Characters /\ ")" \in Characters
    BY DEF Characters
  <2> QED
    BY <2>1, OneCharacter
<1> HIDE DEF t, u, open, end
<1>4. open \o t \in AllTexts /\ Len(open \o t) = 1 + Len(t) /\ (open \o t)[1] = "("
      /\ open \o t # <<>>
  <2> DEFINE a == open \o t
  <2>1. /\ a \in AllTexts /\ Len(a) = Len(open) + Len(t) /\ a[1] = open[1] /\ a # <<>>
    <3>1. open \in AllTexts /\ t \in AllTexts /\ open # <<>>
      BY <1>1, <1>3
    <3> QED
      BY <3>1, Joined
  <2> HIDE DEF a
  <2>2. a \in AllTexts /\ Len(a) = 1 + Len(t) /\ a[1] = "(" /\ a # <<>>
    BY <1>1, <1>3, <2>1
  <2> QED
    BY <2>2 DEF a
<1>5. u \in AllTexts /\ Len(u) = Len(t) + 2 /\ u[1] = "(" /\ u # <<>>
  <2> DEFINE a == open \o t
  <2> HIDE DEF a
  <2>1. a \in AllTexts /\ Len(a) = 1 + Len(t) /\ a[1] = "(" /\ u = a \o end /\ a # <<>>
    BY <1>2, <1>4 DEF a
  <2>2. /\ u \in AllTexts /\ u # <<>> /\ u[1] = "(" /\ Len(u) = Len(a) + Len(end)
    BY <1>3, <2>1, Joined
  <2>3. Len(u) = Len(t) + 2
    BY <1>1, <1>3, <2>1, <2>2
  <2> QED
    BY <2>2, <2>3
<1>6. ASSUME NEW f \in AllTexts, NEW i, Comes(f, i, u)
      PROVE  Element(f, i).v = Reread(w) /\ Element(f, i).next = i + Len(u)
  <2>1. Comes(f, i, open \o t) /\ Comes(f, i + Len(open \o t), end)
    BY <1>2, <1>3, <1>4, <1>6, ComesParts
  <2>2. Comes(f, i, open) /\ Comes(f, i + Len(open), t)
    BY <1>1, <1>3, <2>1, ComesParts
  <2>3. i \in 1 .. Len(f) /\ i \in Nat /\ f[i] = "("
    BY <1>3, <2>2, ComesFirst DEF Comes
  <2>4. i + Len(open \o t) \in 1 .. Len(f) /\ f[i + Len(open \o t)] = ")"
    BY <1>3, <2>1, ComesFirst
  <2>5. i + Len(open) = i + 1 /\ i + Len(open \o t) = (i + 1) + Len(t)
    BY <1>1, <1>3, <1>4, <2>3
  <2>6. Rest(f, i + 1).v = Reread(w) /\ Rest(f, i + 1).next = (i + 1) + Len(t) + 1
    BY <2>2, <2>4, <2>5 DEF ListTrip, t
  <2>7. i \in ElementPlaces(f)
    BY <2>3 DEF ElementPlaces, WhiteSpace
  <2>8. /\ Element(f, i).v = IF Rest(f, i + 1).v = Null THEN Nil ELSE Rest(f, i + 1).v
        /\ Element(f, i).next = Rest(f, i + 1).next
    BY <2>3, <2>7, ElementOpen DEF AllTexts
  <2>9. (i + 1) + Len(t) + 1 = i + Len(u)
    BY <1>1, <1>5, <2>3
  <2> QED
    BY <1>1, <2>6, <2>8, <2>9
<1>7. Opens(u)
  BY <1>5 DEF Opens, WhiteSpace
<1> QED
  BY <1>6, <1>7 DEF RoundTrip, u

-----------------------------------------------------------------------------
(***************************************************************************)
(* Numerals.                                                               *)
(***************************************************************************)
LEMMA DigitsAre ==
  /\ \A x \in Digits : x \notin WhiteSpace \cup Brackets /\ x # "'" /\ x # "."
  /\ "0" \in Digits /\ Digits \subseteq Characters /\ "." \in Characters
  /\ "." \notin WhiteSpace \cup Brackets
<1>1. \A x \in Digits : x # "(" /\ x # ")" /\ x # "'" /\ x # "."
  BY DEF Digits
<1>3. \A x \in Digits : x # " " /\ x # "\t" /\ x # "\n" /\ x # "\r"
  BY DEF Digits
<1>2. "0" \in Digits /\ Digits \subseteq Characters /\ "." \in Characters
  BY DEF Digits, Characters
<1> QED
  BY <1>1, <1>2, <1>3 DEF WhiteSpace, Brackets

LEMMA Prefix ==
  ASSUME NEW S, NEW T, NEW c \in Seq(S), NEW n \in 0 .. Len(c), \A k \in 1 .. n : c[k] \in T
  PROVE  /\ SubSeq(c, 1, n) \in Seq(T) /\ Len(SubSeq(c, 1, n)) = n
         /\ \A k \in 1 .. n : SubSeq(c, 1, n)[k] = c[k]
<1>1. n \in Int /\ 1 \in Int /\ Len(c) \in Nat
  OBVIOUS
<1>2. /\ SubSeq(c, 1, n) \in Seq(T)
      /\ Len(SubSeq(c, 1, n)) = IF 1 <= n THEN n - 1 + 1 ELSE 0
      /\ \A k \in 1 .. n - 1 + 1 : SubSeq(c, 1, n)[k] = c[1 + k - 1]
  BY <1>1, SubSeqProperties
<1>3. n - 1 + 1 = n /\ (~ (1 <= n) => n = 0) /\ \A k \in 1 .. n : 1 + k - 1 = k
  BY <1>1
<1> QED
  BY <1>2, <1>3

LEMMA WholeSequence ==
  ASSUME NEW S, NEW c \in Seq(S)
  PROVE  SubSeq(c, 1, Len(c)) = c
<1>1. Len(c) \in 0 .. Len(c) /\ \A k \in 1 .. Len(c) : c[k] \in S
  OBVIOUS
<1> DEFINE s == SubSeq(c, 1, Len(c))
<1>2. s \in Seq(S) /\ Len(s) = Len(c) /\ \A k \in 1 .. Len(c) : s[k] = c[k]
  BY <1>1, Prefix
<1> HIDE DEF s
<1>3. s = c
  BY <1>2, SeqEqual
<1> QED
  BY <1>3 DEF s

\* How many digits a text begins with.
LEMMA LeadingIs ==
  ASSUME NEW S, NEW c \in Seq(S)
  PROVE  \E n \in 0 .. Len(c) :
           /\ Leading(c) = SubSeq(c, 1, n) /\ Leading(c) \in Seq(Digits) /\ Len(Leading(c)) = n
           /\ \A k \in 1 .. n : c[k] \in Digits
           /\ n < Len(c) => c[n + 1] \notin Digits
<1> DEFINE D == {i \in DOMAIN c : c[i] \notin Digits} \cup {Len(c) + 1}
           n == LeastOf(D) - 1
<1>0. Len(c) \in Nat /\ DOMAIN c = 1 .. Len(c)
  OBVIOUS
<1>1. D \in SUBSET Nat /\ D # {}
  BY <1>0
<1>2. LeastOf(D) \in D /\ \A j \in D : LeastOf(D) <= j
  <2> HIDE DEF D
  <2> QED
    BY <1>1, LeastIs
<1>3. LeastOf(D) \in 1 .. Len(c) + 1
  BY <1>0, <1>2
<1>4. n \in 0 .. Len(c) /\ LeastOf(D) = n + 1
  BY <1>0, <1>3
<1>5. ASSUME NEW k \in 1 .. n PROVE c[k] \in Digits
  <2>1. k \in DOMAIN c /\ ~ (LeastOf(D) <= k)
    BY <1>0, <1>4
  <2> QED
    BY <1>2, <2>1
<1>6. n < Len(c) => c[n + 1] \notin Digits
  <2> SUFFICES ASSUME n < Len(c) PROVE c[n + 1] \notin Digits
    OBVIOUS
  <2>1. n + 1 \in D /\ n + 1 # Len(c) + 1
    BY <1>0, <1>2, <1>4
  <2> QED
    BY <2>1
<1>7. Leading(c) = SubSeq(c, 1, n)
  BY DEF Leading
<1> HIDE DEF n, D
<1>8. Leading(c) \in Seq(Digits) /\ Len(Leading(c)) = n
  BY <1>4, <1>5, <1>7, Prefix
<1> QED
  BY <1>4, <1>5, <1>6, <1>7, <1>8

LEMMA LeadingOf ==
  ASSUME NEW S, NEW c \in Seq(S), NEW n \in 0 .. Len(c), \A k \in 1 .. n : c[k] \in Digits,
         n < Len(c) => c[n + 1] \notin Digits
  PROVE  Leading(c) = SubSeq(c, 1, n) /\ Len(Leading(c)) = n
<1>0. Len(c) \in Nat
  OBVIOUS
<1>1. PICK m \in 0 .. Len(c) :
         /\ Leading(c) = SubSeq(c, 1, m) /\ Len(Leading(c)) = m
         /\ \A k \in 1 .. m : c[k] \in Digits
         /\ m < Len(c) => c[m + 1] \notin Digits
  BY LeadingIs
<1>2. ~ (m < n)
  <2> SUFFICES ASSUME m < n PROVE FALSE
    OBVIOUS
  <2>1. m < Len(c) /\ m + 1 \in 1 .. n
    BY <1>0
  <2> QED
    BY <1>1, <2>1
<1>3. ~ (n < m)
  <2> SUFFICES ASSUME n < m PROVE FALSE
    OBVIOUS
  <2>1. n < Len(c) /\ n + 1 \in 1 .. m
    BY <1>0
  <2> QED
    BY <1>1, <2>1
<1>4. m = n
  BY <1>0, <1>2, <1>3
<1> QED
  BY <1>1, <1>4

LEMMA LeadingOfDigits ==
  ASSUME NEW c \in Seq(Digits)
  PROVE  Leading(c) = c
<1>1. Len(c) \in 0 .. Len(c) /\ ~ (Len(c) < Len(c)) /\ \A k \in 1 .. Len(c) : c[k] \in Digits
  OBVIOUS
<1>2. Leading(c) = SubSeq(c, 1, Len(c))
  BY <1>1, LeadingOf
<1> QED
  BY <1>2, WholeSequence

\* A numeral without the zeros at its left, and without those at its right.
LEMMA SignificantIs ==
  ASSUME NEW c \in Seq(Digits)
  PROVE  /\ Significant(c) \in Seq(Digits)
         /\ Significant(c) # <<>> => Significant(c)[1] # "0"
         /\ c # <<>> /\ c[1] # "0" => Significant(c) = c
         /\ (\A k \in 1 .. Len(c) : c[k] = "0") => Significant(c) = <<>>
<1> DEFINE D == {i \in DOMAIN c : c[i] # "0"} \cup {Len(c) + 1}
           n == LeastOf(D)
           s == SubSeq(c, n, Len(c))
<1>0. Len(c) \in Nat /\ DOMAIN c = 1 .. Len(c) /\ \A k \in 1 .. Len(c) : c[k] \in Digits
  OBVIOUS
<1>1. D \in SUBSET Nat /\ D # {}
  BY <1>0
<1>2. n \in D /\ \A j \in D : n <= j
  <2> HIDE DEF D
  <2> QED
    BY <1>1, LeastIs
<1>3. n \in 1 .. Len(c) + 1 /\ (n # Len(c) + 1 => c[n] # "0")
  BY <1>0, <1>2
<1>4. Significant(c) = s
  BY DEF Significant
<1>5. c # <<>> /\ c[1] # "0" => n = 1
  <2> SUFFICES ASSUME c # <<>>, c[1] # "0" PROVE n = 1
    OBVIOUS
  <2>1. 1 \in DOMAIN c
    BY <1>0, EmptySeq
  <2>2. n <= 1
    BY <1>2, <2>1
  <2> QED
    BY <1>3, <2>2
<1>6. (\A k \in 1 .. Len(c) : c[k] = "0") => n = Len(c) + 1
  BY <1>0, <1>3
<1> HIDE DEF n, D
<1>7. \A k \in n .. Len(c) : c[k] \in Digits
  BY <1>0, <1>3
<1>8. /\ s \in Seq(Digits)
      /\ Len(s) = IF n <= Len(c) THEN Len(c) - n + 1 ELSE 0
      /\ \A k \in 1 .. Len(c) - n + 1 : s[k] = c[n + k - 1]
  BY <1>0, <1>3, <1>7, SubSeqProperties
<1>9. s # <<>> => s[1] # "0"
  <2> HIDE DEF s
  <2> SUFFICES ASSUME s # <<>> PROVE s[1] # "0"
    OBVIOUS
  <2>1. Len(s) # 0
    BY <1>8, EmptySeq
  <2>2. n <= Len(c) /\ 1 \in 1 .. Len(c) - n + 1 /\ n + 1 - 1 = n /\ n # Len(c) + 1
    BY <1>0, <1>3, <1>8, <2>1
  <2> QED
    BY <1>3, <1>8, <2>2
<1>10. c # <<>> /\ c[1] # "0" => s = c
  BY <1>5, WholeSequence
<1>11. (\A k \in 1 .. Len(c) : c[k] = "0") => s = <<>>
  <2> HIDE DEF s
  <2>1. n = Len(c) + 1 => Len(s) = 0
    BY <1>0, <1>8
  <2> QED
    BY <1>6, <1>8, <2>1, EmptySeq
<1> HIDE DEF s
<1> QED
  BY <1>4, <1>8, <1>9, <1>10, <1>11

\* What a numeral is without zeros at its left does not change any more.
LEMMA Canonical ==
  ASSUME NEW x \in Seq(Digits), NEW d, d = NonEmpty(Significant(x))
  PROVE  d \in Seq(Digits) /\ d # <<>> /\ NonEmpty(Significant(d)) = d
<1>1. Significant(x) \in Seq(Digits) /\ (Significant(x) # <<>> => Significant(x)[1] # "0")
  BY SignificantIs
<1>2. CASE Significant(x) # <<>>
  <2>1. d = Significant(x)
    BY <1>2 DEF NonEmpty
  <2>2. Significant(d) = d
    BY <1>1, <1>2, <2>1, SignificantIs
  <2> QED
    BY <1>1, <1>2, <2>1, <2>2 DEF NonEmpty
<1>3. CASE Significant(x) = <<>>
  <2>1. d = <<"0">>
    BY <1>3 DEF NonEmpty
  <2>2. d \in Seq(Digits) /\ Len(d) = 1 /\ d[1] = "0" /\ d # <<>>
    BY <2>1, DigitsAre, OneElement
  <2>3. \A k \in 1 .. Len(d) : d[k] = "0"
    BY <2>2
  <2>4. Significant(d) = <<>>
    BY <2>2, <2>3, SignificantIs
  <2> QED
    BY <2>1, <2>2, <2>4 DEF NonEmpty
<1> QED
  BY <1>2, <1>3

LEMMA WithoutZerosIs ==
  ASSUME NEW c \in Seq(Digits)
  PROVE  /\ WithoutZeros(c) \in Seq(Digits)
         /\ WithoutZeros(c) # <<>> => WithoutZeros(c)[Len(WithoutZeros(c))] # "0"
         /\ (c # <<>> => c[Len(c)] # "0") => WithoutZeros(c) = c
<1> DEFINE D == {m \in 0 .. Len(c) : \A i \in m + 1 .. Len(c) : c[i] = "0"}
           n == LeastOf(D)
           s == SubSeq(c, 1, n)
<1>0. Len(c) \in Nat /\ \A k \in 1 .. Len(c) : c[k] \in Digits
  OBVIOUS
<1>1. D \in SUBSET Nat /\ Len(c) \in D
  BY <1>0
<1>2. n \in D /\ \A j \in D : n <= j
  <2> HIDE DEF D
  <2> QED
    BY <1>1, LeastIs
<1>3. n \in 0 .. Len(c) /\ \A i \in n + 1 .. Len(c) : c[i] = "0"
  BY <1>2
<1>4. n # 0 => c[n] # "0"
  <2> SUFFICES ASSUME n # 0, c[n] = "0" PROVE FALSE
    OBVIOUS
  <2>1. n - 1 \in 0 .. Len(c) /\ (n - 1) + 1 = n /\ ~ (n <= n - 1)
    BY <1>0, <1>3
  <2>2. \A i \in n .. Len(c) : i = n \/ i \in n + 1 .. Len(c)
    BY <1>0, <1>3
  <2>3. \A i \in (n - 1) + 1 .. Len(c) : c[i] = "0"
    BY <1>3, <2>1, <2>2
  <2>4. n - 1 \in D
    BY <2>1, <2>3
  <2> QED
    BY <1>2, <2>1, <2>4
<1>5. WithoutZeros(c) = s
  BY DEF WithoutZeros
<1>6. (c # <<>> => c[Len(c)] # "0") => n = Len(c)
  <2> SUFFICES ASSUME c # <<>> => c[Len(c)] # "0", n # Len(c) PROVE FALSE
    OBVIOUS
  <2>1. Len(c) \in n + 1 .. Len(c) /\ Len(c) # 0
    BY <1>0, <1>3
  <2>2. c # <<>>
    BY <2>1
  <2> QED
    BY <1>3, <2>1, <2>2
<1> HIDE DEF n, D
<1>7. \A k \in 1 .. n : c[k] \in Digits
  BY <1>0, <1>3
<1>8. s \in Seq(Digits) /\ Len(s) = n /\ \A k \in 1 .. n : s[k] = c[k]
  BY <1>3, <1>7, Prefix
<1>9. n = Len(c) => s = c
  BY WholeSequence
<1> HIDE DEF s
<1>10. s # <<>> => s[Len(s)] # "0"
  <2> SUFFICES ASSUME s # <<>> PROVE s[Len(s)] # "0"
    OBVIOUS
  <2>1. n # 0 /\ n \in 1 .. n
    BY <1>3, <1>8, EmptySeq
  <2> QED
    BY <1>4, <1>8, <2>1
<1> QED
  BY <1>5, <1>6, <1>8, <1>9, <1>10

LEMMA FractionIs ==
  ASSUME NEW S, NEW c \in Seq(S)
  PROVE  Fraction(c) \in Seq(Digits)
<1>1. PICK n \in 0 .. Len(c) : Len(Leading(c)) = n
  BY LeadingIs
<1>2. Len(c) \in Nat /\ \A k \in n + 1 .. Len(c) : c[k] \in S
  OBVIOUS
<1>3. Following(c) \in Seq(S)
  BY <1>1, <1>2, SubSeqProperties DEF Following
<1>4. Following(c) # <<>> => Tail(Following(c)) \in Seq(S)
  BY <1>3, HeadTailProperties
<1>5. Following(c) # <<>> => Leading(Tail(Following(c))) \in Seq(Digits)
  BY <1>4, LeadingIs
<1>6. <<>> \in Seq(Digits)
  OBVIOUS
<1> QED
  BY <1>5, <1>6 DEF Fraction

-----------------------------------------------------------------------------
(***************************************************************************)
(* What is printed of an atom is the text of an atom.                      *)
(***************************************************************************)
IsNumeral(d) == d \in Seq(Digits) /\ d # <<>> /\ NonEmpty(Significant(d)) = d

LEMMA NumberText ==
  ASSUME NEW c \in Seq(Digits \cup {"."}), c # <<>>
  PROVE  AtomText(c)
<1>0. Len(c) \in Nat /\ Len(c) # 0 /\ 1 \in 1 .. Len(c)
  BY EmptySeq
<1>1. \A j \in 1 .. Len(c) : c[j] \in Digits \cup {"."}
  OBVIOUS
<1>2. \A j \in 1 .. Len(c) : c[j] \notin WhiteSpace \cup Brackets /\ c[j] # "'"
  BY <1>1, DigitsAre
<1>3. c \in AllTexts
  BY DigitsAre DEF AllTexts
<1> QED
  BY <1>0, <1>2, <1>3 DEF AtomText

LEMMA IntText ==
  ASSUME NEW d, IsNumeral(d)
  PROVE  AtomText(d) /\ AtomObject(d) = Value("int", d, <<>>)
<1>1. d \in Seq(Digits) /\ d # <<>> /\ NonEmpty(Significant(d)) = d
  BY DEF IsNumeral
<1>2. Leading(d) = d
  BY <1>1, LeadingOfDigits
<1>3. ~ HasDot(d)
  <2>1. \A i \in DOMAIN d : d[i] \in Digits
    BY <1>1
  <2> QED
    BY <2>1, DigitsAre DEF HasDot
<1>4. IsInteger(d) /\ IntObject(d) = Value("int", d, <<>>)
  BY <1>1, <1>2 DEF IsInteger, IntObject
<1>5. AtomObject(d) = Value("int", d, <<>>)
  BY <1>3, <1>4 DEF AtomObject
<1>6. d \in Seq(Digits \cup {"."})
  BY <1>1
<1> QED
  BY <1>1, <1>5, <1>6, NumberText

\* A numeral with a dot and the digits that follow it.
LEMMA DottedIs ==
  ASSUME NEW d \in Seq(Digits), d # <<>>, NEW z \in Seq(Digits),
         NEW m, m = d \o <<".">> \o z
  PROVE  /\ m \in Seq(Digits \cup {"."}) /\ m # <<>> /\ Len(m) = Len(d) + 1 + Len(z)
         /\ \A k \in 1 .. Len(d) : m[k] = d[k]
         /\ m[Len(d) + 1] = "."
         /\ \A k \in 1 .. Len(z) : m[Len(d) + 1 + k] = z[k]
<1> DEFINE T == Digits \cup {"."}
           dot == <<".">>
           p == d \o dot
<1>0. /\ d \in Seq(T) /\ z \in Seq(T) /\ dot \in Seq(T) /\ Len(dot) = 1 /\ dot[1] = "."
      /\ Len(d) \in Nat /\ Len(z) \in Nat
  OBVIOUS
<1>1. m = p \o z
  OBVIOUS
<1> HIDE DEF dot, T
<1>2. /\ p \in Seq(T) /\ Len(p) = Len(d) + 1
      /\ \A k \in 1 .. Len(d) + 1 : p[k] = IF k <= Len(d) THEN d[k] ELSE dot[k - Len(d)]
  BY <1>0, ConcatProperties
<1> HIDE DEF p
<1>3. /\ m \in Seq(T) /\ Len(m) = Len(p) + Len(z)
      /\ \A k \in 1 .. Len(p) + Len(z) : m[k] = IF k <= Len(p) THEN p[k] ELSE z[k - Len(p)]
  <2>1. p \in Seq(T) /\ z \in Seq(T)
    BY <1>0, <1>2
  <2>2. /\ p \o z \in Seq(T) /\ Len(p \o z) = Len(p) + Len(z)
        /\ \A k \in 1 .. Len(p) + Len(z) :
             (p \o z)[k] = IF k <= Len(p) THEN p[k] ELSE z[k - Len(p)]
    BY <2>1, ConcatProperties
  <2> QED
    BY <1>1, <2>2
<1>4. Len(m) = Len(d) + 1 + Len(z)
  BY <1>0, <1>2, <1>3
<1>5. ASSUME NEW k \in 1 .. Len(d) PROVE m[k] = d[k]
  <2>1. k \in 1 .. Len(d) + 1 /\ k <= Len(d) /\ k <= Len(p) /\ k \in 1 .. Len(p) + Len(z)
    BY <1>0, <1>2
  <2> QED
    BY <1>2, <1>3, <2>1
<1>6. m[Len(d) + 1] = "."
  <2> DEFINE k == Len(d) + 1
  <2>1. k \in 1 .. Len(d) + 1 /\ ~ (k <= Len(d)) /\ k <= Len(p) /\ k \in 1 .. Len(p) + Len(z)
        /\ k - Len(d) = 1
    BY <1>0, <1>2
  <2> HIDE DEF k
  <2>2. m[k] = dot[k - Len(d)]
    BY <1>2, <1>3, <2>1
  <2> QED
    BY <1>0, <2>1, <2>2 DEF k
<1>7. ASSUME NEW k \in 1 .. Len(z) PROVE m[Len(d) + 1 + k] = z[k]
  <2> DEFINE j == Len(d) + 1 + k
  <2>1. ~ (j <= Len(p)) /\ j \in 1 .. Len(p) + Len(z) /\ j - Len(p) = k
    BY <1>0, <1>2
  <2> HIDE DEF j
  <2>2. m[j] = z[j - Len(p)]
    BY <1>3, <2>1
  <2> QED
    BY <2>1, <2>2 DEF j
<1>8. m # <<>>
  <2>1. Len(m) # 0
    BY <1>0, <1>4
  <2> QED
    BY <2>1
<1> QED
  BY <1>3, <1>4, <1>5, <1>6, <1>7, <1>8 DEF T

LEMMA DottedParts ==
  ASSUME NEW d \in Seq(Digits), d # <<>>, NEW z \in Seq(Digits),
         NEW m, m = d \o <<".">> \o z
  PROVE  Leading(m) = d /\ HasDot(m) /\ Fraction(m) = z
<1> DEFINE n == Len(d)
           T == Digits \cup {"."}
           f == SubSeq(m, n + 1, Len(m))
<1>0. n \in Nat /\ Len(z) \in Nat
  OBVIOUS
<1>1. /\ m \in Seq(T) /\ m # <<>> /\ Len(m) = n + 1 + Len(z)
      /\ \A k \in 1 .. n : m[k] = d[k]
      /\ m[n + 1] = "."
      /\ \A k \in 1 .. Len(z) : m[n + 1 + k] = z[k]
  BY DottedIs
<1>a. DOMAIN m = 1 .. Len(m) /\ \A k \in 1 .. Len(m) : m[k] \in T
  BY <1>1
<1> HIDE DEF n, T
<1>2. \A k \in 1 .. n : m[k] \in Digits
  <2>1. \A k \in 1 .. n : d[k] \in Digits
    BY DEF n
  <2> QED
    BY <1>1, <2>1
<1>3. Leading(m) = d
  <2> DEFINE s == SubSeq(m, 1, n)
  <2>1. n \in 0 .. Len(m) /\ m[n + 1] \notin Digits
    BY <1>0, <1>1, DigitsAre
  <2>2. Leading(m) = s
    BY <1>1, <1>2, <2>1, LeadingOf
  <2>3. s \in Seq(Digits) /\ Len(s) = n /\ \A k \in 1 .. n : s[k] = m[k]
    BY <1>1, <1>2, <2>1, Prefix
  <2> HIDE DEF s
  <2>4. \A k \in 1 .. n : s[k] = d[k]
    BY <1>1, <2>3
  <2>5. s = d
    BY <2>3, <2>4, SeqEqual DEF n
  <2> QED
    BY <2>2, <2>5
<1>4. HasDot(m)
  <2>1. n + 1 \in DOMAIN m
    BY <1>0, <1>1, <1>a
  <2> QED
    BY <1>1, <2>1 DEF HasDot
<1>5. Following(m) = f
  BY <1>3 DEF Following, n
<1>6. /\ f \in Seq(T) /\ Len(f) = Len(z) + 1
      /\ \A k \in 1 .. Len(z) + 1 : f[k] = m[n + 1 + k - 1]
  <2>1. /\ n + 1 \in Int /\ Len(m) \in Int /\ n + 1 <= Len(m)
        /\ Len(m) - (n + 1) + 1 = Len(z) + 1
        /\ \A k \in n + 1 .. Len(m) : m[k] \in T
    BY <1>0, <1>1, <1>a
  <2> QED
    BY SMTT(20), <1>0, <1>1, <2>1, SubSeqProperties
<1> HIDE DEF f
<1>7. f # <<>> /\ Head(f) = "."
  <2>1. Len(f) # 0 /\ 1 \in 1 .. Len(z) + 1 /\ n + 1 + 1 - 1 = n + 1
    BY <1>0, <1>6
  <2>2. f[1] = "."
    BY <1>1, <1>6, <2>1
  <2>3. f # <<>>
    BY <2>1
  <2> QED
    BY <1>6, <2>2, <2>3, HeadTailProperties
<1>8. Tail(f) = z
  <2>1. /\ Tail(f) \in Seq(T) /\ Len(Tail(f)) = Len(f) - 1
        /\ \A k \in 1 .. Len(Tail(f)) : Tail(f)[k] = f[k + 1]
    BY <1>6, <1>7, HeadTailProperties
  <2>2. Len(Tail(f)) = Len(z)
    BY <1>0, <1>6, <2>1
  <2>3. ASSUME NEW k \in 1 .. Len(z) PROVE Tail(f)[k] = z[k]
    <3>1. k + 1 \in 1 .. Len(z) + 1 /\ n + 1 + (k + 1) - 1 = n + 1 + k
      BY <1>0
    <3>2. f[k + 1] = m[n + 1 + k]
      BY <1>6, <3>1
    <3> QED
      BY <1>1, <2>1, <2>2, <3>2
  <2>4. z \in Seq(T)
    BY DEF T
  <2> QED
    BY <2>1, <2>2, <2>3, <2>4, SeqEqual
<1>9. Fraction(m) = z
  <2>1. Leading(z) = z
    BY LeadingOfDigits
  <2> QED
    BY <1>5, <1>7, <1>8, <2>1 DEF Fraction
<1> QED
  BY <1>3, <1>4, <1>9

LEMMA LeafIs ==
  ASSUME NEW t \in {"atom", "int", "float"}, NEW c \in AllTexts,
         NEW v, v = Value(t, c, <<>>)
  PROVE  v \in Leaves /\ v # Null /\ v.t = t /\ v.name = c
<1>1. v = [t |-> t, name |-> c, parts |-> <<>>]
  BY DEF Value
<1>2. v \in [t : {"atom", "int", "float"}, name : Seq(Characters), parts : {<<>>}]
  BY <1>1 DEF AllTexts
<1>3. v.t = t /\ v.name = c
  BY <1>1
<1>4. Null.t = "null" /\ t # "null"
  BY DEF Null, Value
<1> QED
  BY <1>2, <1>3, <1>4 DEF Leaves

LEMMA TripInt ==
  ASSUME NEW d, IsNumeral(d), NEW v, v = Value("int", d, <<>>)
  PROVE  v \in Leaves /\ RoundTrip(v)
<1>1. AtomText(d) /\ AtomObject(d) = v
  BY IntText
<1>2. d \in AllTexts
  BY <1>1 DEF AtomText
<1>3. v \in Leaves /\ v # Null /\ v.t = "int" /\ v.name = d
  BY <1>2, LeafIs
<1>4. Unparse(v) = d
  BY <1>3, LeafPrinted DEF UnparseAtom
<1>5. Reread(v) = v
  BY <1>3, RereadCases
<1> QED
  BY <1>1, <1>3, <1>4, <1>5, TripAtom

\* A float that is a whole number is printed as an integer.
LEMMA TripFloat ==
  ASSUME NEW d, IsNumeral(d), NEW z \in Seq(Digits), z # <<>> => z[Len(z)] # "0",
         NEW m, m = d \o <<".">> \o z, NEW v, v = Value("float", m, <<>>)
  PROVE  v \in Leaves /\ RoundTrip(v)
<1> DEFINE n == Len(d)
<1>0. /\ d \in Seq(Digits) /\ d # <<>> /\ NonEmpty(Significant(d)) = d
      /\ n \in Nat /\ Len(z) \in Nat
  BY DEF IsNumeral
<1>1. /\ m \in Seq(Digits \cup {"."}) /\ m # <<>> /\ Len(m) = n + 1 + Len(z)
      /\ \A k \in 1 .. n : m[k] = d[k]
      /\ m[n + 1] = "."
      /\ \A k \in 1 .. Len(z) : m[n + 1 + k] = z[k]
  BY <1>0, DottedIs
<1>2. AtomText(m)
  BY <1>1, NumberText
<1>3. Leading(m) = d /\ HasDot(m) /\ Fraction(m) = z
  BY <1>0, DottedParts
<1>4. m \in AllTexts
  BY <1>2 DEF AtomText
<1>5. v \in Leaves /\ v # Null /\ v.t = "float" /\ v.name = m
  BY ZenonT(30), <1>4, LeafIs
<1> HIDE DEF n
<1>6. CASE z = <<>>
  <2>1. Len(m) = n + 1 /\ m[Len(m)] = "." /\ Len(m) - 1 = n
    BY <1>0, <1>1, <1>6
  <2>2. SubSeq(m, 1, n) = d
    <3> DEFINE s == SubSeq(m, 1, n)
    <3>1. n \in 0 .. Len(m) /\ \A k \in 1 .. n : m[k] \in Digits
      <4>1. \A k \in 1 .. n : d[k] \in Digits
        BY <1>0 DEF n
      <4> QED
        BY <1>0, <1>1, <2>1, <4>1
    <3>2. s \in Seq(Digits) /\ Len(s) = n /\ \A k \in 1 .. n : s[k] = m[k]
      BY <1>1, <3>1, Prefix
    <3> HIDE DEF s
    <3>3. \A k \in 1 .. n : s[k] = d[k]
      BY <1>1, <3>2
    <3>4. s = d
      BY <1>0, <3>2, <3>3, SeqEqual DEF n
    <3> QED
      BY <3>4 DEF s
  <2>3. Unparse(v) = d
    BY <1>5, <2>1, <2>2, LeafPrinted DEF UnparseAtom
  <2>4. Reread(v) = Value("int", d, <<>>)
    BY <1>5, <2>1, <2>2, RereadCases
  <2>5. AtomText(d) /\ AtomObject(d) = Value("int", d, <<>>)
    BY IntText
  <2> QED
    BY <1>5, <2>3, <2>4, <2>5, TripAtom
<1>7. CASE z # <<>>
  <2>1. m[Len(m)] # "."
    <3>1. Len(z) # 0 /\ Len(z) \in 1 .. Len(z)
      BY <1>0, <1>7, EmptySeq
    <3>2. m[n + 1 + Len(z)] = z[Len(z)] /\ z[Len(z)] \in Digits
      BY <1>1, <3>1
    <3> QED
      BY <1>1, <3>2, DigitsAre
  <2>2. Unparse(v) = m
    BY <1>5, <2>1, LeafPrinted DEF UnparseAtom
  <2>3. Reread(v) = v
    BY <1>5, <2>1, RereadCases
  <2>4. WithoutZeros(z) = z
    BY WithoutZerosIs
  <2>5. FloatObject(m) = v
    BY <1>0, <1>3, <2>4 DEF FloatObject
  <2>6. IsFloat(m) /\ AtomObject(m) = FloatObject(m)
    BY <1>0, <1>3 DEF IsFloat, AtomObject
  <2> QED
    BY <1>2, <1>5, <2>2, <2>3, <2>5, <2>6, TripAtom
<1> QED
  BY <1>6, <1>7

LEMMA TripName ==
  ASSUME NEW c, AtomText(c), AtomObject(c) = Atom(c), NEW v, v = Atom(c)
  PROVE  v \in Leaves /\ RoundTrip(v)
<1>1. c \in AllTexts /\ v = Value("atom", c, <<>>)
  BY DEF AtomText, Atom
<1>2. v \in Leaves /\ v # Null /\ v.t = "atom" /\ v.name = c
  BY <1>1, LeafIs
<1>3. Unparse(v) = c
  BY <1>2, LeafPrinted DEF UnparseAtom
<1>4. Reread(v) = v
  BY <1>2, RereadCases
<1> QED
  BY <1>2, <1>3, <1>4, TripAtom

\* What begins with neither a digit nor a dot is the name of an atom.
LEMMA NameIs ==
  ASSUME NEW c \in AllTexts, c # <<>>, c[1] \notin Digits, c[1] # "."
  PROVE  AtomObject(c) = Atom(c)
<1>0. Len(c) \in Nat /\ Len(c) # 0
  BY EmptySeq DEF AllTexts
<1>1. Len(Leading(c)) = 0
  <2>1. 0 \in 0 .. Len(c) /\ c[0 + 1] \notin Digits /\ \A k \in 1 .. 0 : c[k] \in Digits
    BY <1>0
  <2> QED
    BY <2>1, LeadingOf DEF AllTexts
<1>2. Leading(c) = <<>>
  <2>1. Leading(c) \in Seq(Digits)
    BY LeadingIs DEF AllTexts
  <2> QED
    BY <1>1, <2>1, EmptySeq
<1>3. Following(c) = c
  <2>1. 0 + 1 = 1
    OBVIOUS
  <2> QED
    BY <1>1, <2>1, WholeSequence DEF Following, AllTexts
<1>4. Fraction(c) = <<>>
  <2>1. Head(c) = c[1]
    BY HeadTailProperties DEF AllTexts
  <2> QED
    BY <1>3, <2>1 DEF Fraction
<1> QED
  BY <1>2, <1>4 DEF AtomObject, IsInteger, IsFloat

\* The words that the parser and the printer put in themselves.
LEMMA WordIs ==
  ASSUME NEW c, c = NilText \/ c = <<"q", "u", "o", "t", "e">>
  PROVE  AtomText(c) /\ AtomObject(c) = Atom(c)
<1> DEFINE W == {"n", "i", "l", "q", "u", "o", "t", "e"}
<1>1. c \in Seq(W) /\ Len(c) >= 1 /\ Len(c) \in Nat
  <2> DEFINE q == <<"q", "u", "o", "t", "e">>
  <2>1. NilText \in Seq(W) /\ Len(NilText) >= 1 /\ Len(NilText) \in Nat
    BY DEF NilText
  <2>2. q \in Seq(W) /\ Len(q) >= 1 /\ Len(q) \in Nat
    OBVIOUS
  <2>3. c = NilText \/ c = q
    OBVIOUS
  <2> HIDE DEF W, q
  <2> QED
    BY <2>1, <2>2, <2>3, Zenon
<1>2. W \subseteq Characters
  BY DEF Characters
<1>3. \A x \in W : x \notin WhiteSpace \cup Brackets /\ x # "'" /\ x # "." /\ x \notin Digits
  BY DEF WhiteSpace, Brackets, Digits
<1> HIDE DEF W
<1>4. \A j \in 1 .. Len(c) : c[j] \in W
  BY <1>1
<1>5. 1 \in 1 .. Len(c) /\ c # <<>> /\ c \in AllTexts
  BY <1>1, <1>2 DEF AllTexts
<1>6. AtomText(c)
  BY <1>3, <1>4, <1>5 DEF AtomText
<1>7. c[1] \notin Digits /\ c[1] # "."
  BY <1>3, <1>4, <1>5
<1> QED
  BY <1>5, <1>6, <1>7, NameIs

LEMMA TripQuote == QuoteAtom \in Leaves /\ RoundTrip(QuoteAtom)
BY WordIs, TripName DEF QuoteAtom

\* The empty list is printed as the name nil.
LEMMA TripNil ==
  ASSUME Nil \in Values
  PROVE  RoundTrip(Nil)
<1>1. Null \in Leaves
  BY DEF Leaves
<1>2. ListText(Nil) = <<>>
  BY <1>1, LeafPrinted, ConsPrinted DEF Nil
<1>3. IsList(Nil) /\ Nil # Null
  BY ListParts, ConsNotNull DEF Nil
<1>4. Unparse(Nil) = NilText
  BY <1>2, <1>3, ListPrinted
<1>5. Reread(Nil) = Atom(NilText)
  BY RereadCases
<1> QED
  BY <1>3, <1>4, <1>5, WordIs, TripAtom

LEMMA TripAtomObject ==
  ASSUME NEW c, AtomText(c)
  PROVE  AtomObject(c) \in Leaves /\ RoundTrip(AtomObject(c))
<1> DEFINE l == Leading(c)
           d == NonEmpty(Significant(l))
           z == WithoutZeros(Fraction(c))
<1>0. c \in Seq(Characters)
  BY DEF AtomText, AllTexts
<1>1. l \in Seq(Digits) /\ Fraction(c) \in Seq(Digits)
  BY <1>0, LeadingIs, FractionIs
<1>2. IsNumeral(d)
  <2> HIDE DEF l
  <2> QED
    BY <1>1, Canonical DEF IsNumeral
<1>3. z \in Seq(Digits) /\ (z # <<>> => z[Len(z)] # "0")
  BY <1>1, WithoutZerosIs
<1>4. IntObject(c) = Value("int", d, <<>>)
  BY DEF IntObject
<1>5. FloatObject(c) = Value("float", d \o <<".">> \o z, <<>>)
  BY DEF FloatObject
<1> HIDE DEF l, d, z
<1>6. CASE IsInteger(c) /\ ~ HasDot(c)
  <2>1. AtomObject(c) = IntObject(c)
    BY <1>6 DEF AtomObject
  <2> QED
    BY <1>2, <1>4, <2>1, TripInt
<1>7. CASE ~ (IsInteger(c) /\ ~ HasDot(c)) /\ IsFloat(c)
  <2>1. AtomObject(c) = FloatObject(c)
    BY <1>7 DEF AtomObject
  <2> QED
    BY <1>2, <1>3, <1>5, <2>1, TripFloat
<1>8. CASE ~ (IsInteger(c) /\ ~ HasDot(c)) /\ ~ IsFloat(c)
  <2>1. AtomObject(c) = Atom(c)
    BY <1>8 DEF AtomObject
  <2> QED
    BY <2>1, TripName
<1> QED
  BY <1>6, <1>7, <1>8

-----------------------------------------------------------------------------
(***************************************************************************)
(* What is parsed from a text is a value that can be printed: it is at     *)
(* most two levels deep for a character.                                   *)
(***************************************************************************)
LEMMA ConsUp ==
  ASSUME NEW h \in 1 .. MaxLevels, NEW j \in 0 .. h - 1, NEW k \in 0 .. h - 1,
         NEW a \in ValuesUpTo[j], NEW d \in ValuesUpTo[k]
  PROVE  Cons(a, d) \in ValuesUpTo[h]
<1>1. h - 1 \in 0 .. MaxLevels
  BY LevelsAssumption
<1>2. a \in ValuesUpTo[h - 1] /\ d \in ValuesUpTo[h - 1]
  BY <1>1, LevelsNested
<1> QED
  BY <1>2, ConsAbove

LEMMA LeavesBelow ==
  ASSUME NEW h \in 0 .. MaxLevels, NEW v \in Leaves
  PROVE  v \in ValuesUpTo[h]
<1>1. 0 \in 0 .. h
  BY LevelsAssumption
<1> QED
  BY <1>1, LevelsNested, ValuesUpToIs

\* The characters of an atom.
LEMMA AtomTextAt ==
  ASSUME NEW e \in AllTexts, NEW s \in ElementPlaces(e), e[s] \notin {"'", "("}
  PROVE  /\ AtomText(SubSeq(e, s, AtomEnd(e, s) - 1))
         /\ Element(e, s).v = AtomObject(SubSeq(e, s, AtomEnd(e, s) - 1))
<1> DEFINE n == AtomEnd(e, s) - 1
           c == SubSeq(e, s, n)
<1>0. Len(e) \in Nat /\ s \in 1 .. Len(e) /\ s \in Nat
  BY ElementFront DEF AllTexts
<1>1. /\ Element(e, s).v = AtomObject(c)
      /\ AtomEnd(e, s) \in s + 1 .. Len(e) + 1
      /\ \A j \in s .. n : e[j] \notin WhiteSpace \cup Brackets
  BY ElementAtom DEF AllTexts
<1>2. n \in s .. Len(e) /\ n \in Int /\ s \in Int /\ s <= n
  BY <1>0, <1>1
<1> HIDE DEF n
<1>3. \A k \in s .. n : e[k] \in Characters
  BY <1>0, <1>2 DEF AllTexts
<1>4. /\ c \in Seq(Characters) /\ Len(c) = n - s + 1
      /\ \A k \in 1 .. n - s + 1 : c[k] = e[s + k - 1]
  BY <1>2, <1>3, SubSeqProperties
<1> HIDE DEF c
<1>5. ASSUME NEW k \in 1 .. Len(c) PROVE c[k] \notin WhiteSpace \cup Brackets
  <2>1. k \in 1 .. n - s + 1 /\ s + k - 1 \in s .. n
    BY <1>2, <1>4
  <2> QED
    BY <1>1, <1>4, <2>1
<1>6. c # <<>> /\ c[1] # "'"
  <2>1. Len(c) # 0 /\ 1 \in 1 .. n - s + 1 /\ s + 1 - 1 = s
    BY <1>2, <1>4
  <2>2. c # <<>>
    BY <2>1
  <2> QED
    BY <1>4, <2>1, <2>2
<1>7. AtomText(c)
  BY <1>4, <1>5, <1>6 DEF AtomText, AllTexts
<1> QED
  BY <1>1, <1>7 DEF c, n

LEMMA ParsedValues ==
  ASSUME NEW e \in AllTexts, Sentence(Characters, e), 2 * Len(e) <= MaxLevels
  PROVE  /\ \A s \in ElementPlaces(e) : Element(e, s).v \in Values
         /\ \A i \in ListPlaces(e) : Rest(e, i).v \in Values
<1> DEFINE H(i) == 2 * (Len(e) + 1 - i)
           P == {s \in ElementPlaces(e) : Element(e, s).v \in ValuesUpTo[H(s)]}
           Q == {i \in ListPlaces(e) : Rest(e, i).v \in ValuesUpTo[H(i) + 1]}
<1>0. Len(e) \in Nat /\ e \in Seq(Characters) /\ MaxLevels \in Nat
  BY LevelsAssumption DEF AllTexts
<1>p. \A s \in ElementPlaces(e) : s \in 1 .. Len(e)
  BY <1>0, ElementFront
<1>q. \A i \in ListPlaces(e) : i \in 2 .. Len(e) + 1
  <2> TAKE i \in ListPlaces(e)
  <2>1. i \in 1 .. Len(e) + 1 /\ Depth(e, i) >= 1
    BY DEF ListPlaces
  <2>2. i # 1
    BY <2>1, DepthsAre
  <2> QED
    BY <1>0, <2>1, <2>2
<1>a. \A s \in 1 .. Len(e) : H(s) \in 1 .. MaxLevels /\ H(s) - 1 \in 1 .. MaxLevels
  BY <1>0
<1>b. \A i \in 2 .. Len(e) + 1 : H(i) + 1 \in 1 .. MaxLevels
  BY <1>0
<1>1. ASSUME NEW s \in ElementPlaces(e), e[s] \notin {"'", "("} PROVE s \in P
  <2>1. H(s) \in 0 .. MaxLevels
    BY <1>0, <1>p
  <2>2. Element(e, s).v \in Leaves
    BY <1>1, AtomTextAt, TripAtomObject
  <2> HIDE DEF H
  <2> QED
    BY <2>1, <2>2, LeavesBelow
<1>2. ASSUME NEW s \in ElementPlaces(e), NEW t \in ElementPlaces(e), e[s] = "'",
             t = NextElement(e, s + 1), Element(e, s + 1) = Element(e, t), t \in P
      PROVE  s \in P
  <2> DEFINE v == Element(e, t).v
  <2>1. Element(e, s).v = Cons(QuoteAtom, Cons(v, Null))
    BY <1>0, <1>2, ElementQuote, QuoteListIs
  <2>2. s + 1 \in Nat /\ s \in 1 .. Len(e) /\ t \in 1 .. Len(e) /\ t >= s + 1
    <3>1. s \in 1 .. Len(e) /\ t \in 1 .. Len(e) /\ t # 0 /\ s + 1 \in Nat
      BY <1>p
    <3> QED
      BY <1>0, <1>2, <3>1, NextElementIs
  <2>3. H(t) \in 0 .. H(s) - 1 - 1 /\ 0 \in 0 .. H(s) - 1 - 1 /\ H(s) - 1 \in 0 .. H(s) - 1
        /\ 0 \in 0 .. H(s) - 1
    BY <1>0, <2>2
  <2>4. H(s) - 1 \in 1 .. MaxLevels /\ H(s) \in 1 .. MaxLevels
    BY <1>a, <2>2
  <2>5. v \in ValuesUpTo[H(t)]
    BY <1>2
  <2>6. Null \in ValuesUpTo[0] /\ QuoteAtom \in ValuesUpTo[0]
    BY ValuesUpToIs, TripQuote DEF Leaves
  <2> HIDE DEF H, v
  <2>7. Cons(v, Null) \in ValuesUpTo[H(s) - 1]
    BY <2>3, <2>4, <2>5, <2>6, ConsUp
  <2>8. Cons(QuoteAtom, Cons(v, Null)) \in ValuesUpTo[H(s)]
    BY <2>3, <2>4, <2>6, <2>7, ConsUp
  <2> QED
    BY <2>1, <2>8
<1>3. ASSUME NEW s \in ElementPlaces(e), e[s] = "(", s + 1 \in ListPlaces(e), s + 1 \in Q
      PROVE  s \in P
  <2>1. Element(e, s).v = IF Rest(e, s + 1).v = Null THEN Nil ELSE Rest(e, s + 1).v
    BY <1>0, <1>3, ElementOpen
  <2>2. s \in 1 .. Len(e) /\ H(s + 1) + 1 \in 0 .. H(s)
    BY <1>0, <1>p
  <2>3. H(s) \in 1 .. MaxLevels /\ H(s) \in 0 .. MaxLevels /\ 0 \in 0 .. H(s) - 1
    BY <1>a, <2>2
  <2>4. Rest(e, s + 1).v \in ValuesUpTo[H(s + 1) + 1]
    BY <1>3
  <2>5. Null \in ValuesUpTo[0]
    BY ValuesUpToIs DEF Leaves
  <2> HIDE DEF H
  <2>6. Rest(e, s + 1).v \in ValuesUpTo[H(s)]
    BY <2>2, <2>3, <2>4, LevelsNested
  <2>7. Nil \in ValuesUpTo[H(s)]
    BY <2>3, <2>5, ConsUp DEF Nil
  <2> QED
    BY <2>1, <2>6, <2>7
<1>4. ASSUME NEW i \in ListPlaces(e), e[NextElement(e, i)] = ")" PROVE i \in Q
  <2>1. i \in 2 .. Len(e) + 1 /\ i \in Nat /\ NextElement(e, i) # 0
    BY <1>0, <1>q, ListFront
  <2>2. Rest(e, i).v = Null
    BY <1>0, <1>4, <2>1, RestEnds
  <2>3. H(i) + 1 \in 0 .. MaxLevels
    BY <1>b, <2>1
  <2>4. Null \in Leaves
    BY DEF Leaves
  <2> HIDE DEF H
  <2> QED
    BY <2>2, <2>3, <2>4, LeavesBelow
<1>5. ASSUME NEW i \in ListPlaces(e), NEW s \in ElementPlaces(e), s = NextElement(e, i),
             s \in P, Element(e, s).next \in ListPlaces(e), Element(e, s).next \in Q
      PROVE  i \in Q
  <2> DEFINE v == Element(e, s).v
             t == Element(e, s).next
             w == Rest(e, t).v
  <2>1. i \in 2 .. Len(e) + 1 /\ i \in Nat /\ s \in 1 .. Len(e) /\ s # 0 /\ e[s] # ")"
        /\ s >= i
    BY SMTT(20), <1>0, <1>5, <1>p, <1>q, ListFront DEF ElementPlaces
  <2>2. Rest(e, i).v = Cons(v, w)
    BY <1>0, <1>5, <2>1, RestGoesOn
  <2>3. t \in s + 1 .. Len(e) + 1
    BY DepthsAfter
  <2>4. v \in ValuesUpTo[H(s)] /\ w \in ValuesUpTo[H(t) + 1]
    BY <1>5
  <2> HIDE DEF t, v, w
  <2> DEFINE h == H(i) + 1
             k == H(t) + 1
  <2>5. H(s) \in 0 .. h - 1 /\ k \in 0 .. h - 1
    BY <1>0, <2>1, <2>3
  <2>6. h \in 1 .. MaxLevels
    BY <1>b, <2>1
  <2>7. w \in ValuesUpTo[k]
    BY <2>4
  <2> HIDE DEF H, h, k
  <2>8. Cons(v, w) \in ValuesUpTo[h]
    BY <2>4, <2>5, <2>6, <2>7, ConsUp
  <2> QED
    BY <2>2, <2>8 DEF h
<1> HIDE DEF P, Q
<1>6. ElementPlaces(e) \subseteq P /\ ListPlaces(e) \subseteq Q
  BY <1>1, <1>2, <1>3, <1>4, <1>5, ReadingInduction
<1>7. ASSUME NEW s \in ElementPlaces(e) PROVE Element(e, s).v \in Values
  <2>1. H(s) \in 0 .. MaxLevels
    BY <1>0, <1>p
  <2>2. Element(e, s).v \in ValuesUpTo[H(s)]
    BY <1>6 DEF P
  <2> HIDE DEF H
  <2> QED
    BY <2>1, <2>2, LevelsAreValues
<1>8. ASSUME NEW i \in ListPlaces(e) PROVE Rest(e, i).v \in Values
  <2>1. H(i) + 1 \in 0 .. MaxLevels
    BY <1>b, <1>q
  <2>2. Rest(e, i).v \in ValuesUpTo[H(i) + 1]
    BY <1>6 DEF Q
  <2> HIDE DEF H
  <2> QED
    BY <2>1, <2>2, LevelsAreValues
<1> QED
  BY <1>7, <1>8

\* Everything that is parsed from a text is read again when it is printed.
LEMMA ParsedTrips ==
  ASSUME NEW e \in AllTexts, Sentence(Characters, e), 2 * Len(e) <= MaxLevels
  PROVE  \A s \in ElementPlaces(e) : RoundTrip(Element(e, s).v)
<1> DEFINE P == {s \in ElementPlaces(e) : RoundTrip(Element(e, s).v)}
           Q == {i \in ListPlaces(e) : ListTrip(Rest(e, i).v)}
<1>0. Len(e) \in Nat /\ e \in Seq(Characters)
  BY DEF AllTexts
<1>v. /\ \A s \in ElementPlaces(e) : Element(e, s).v \in Values
      /\ \A i \in ListPlaces(e) : Rest(e, i).v \in Values
  BY ParsedValues
<1>1. ASSUME NEW s \in ElementPlaces(e), e[s] \notin {"'", "("} PROVE s \in P
  BY <1>1, AtomTextAt, TripAtomObject
<1>2. ASSUME NEW s \in ElementPlaces(e), NEW t \in ElementPlaces(e), e[s] = "'",
             t = NextElement(e, s + 1), Element(e, s + 1) = Element(e, t), t \in P
      PROVE  s \in P
  <2> DEFINE v == Element(e, t).v
             q == Cons(v, Null)
             w == Cons(QuoteAtom, q)
  <2>1. Element(e, s).v = w
    BY <1>0, <1>2, ElementQuote, QuoteListIs
  <2>2. w \in Values /\ q \in Values
    <3>1. w \in Values
      BY <1>v, <2>1
    <3> QED
      BY <3>1, ListOfValues
  <2>3. RoundTrip(v)
    BY <1>2
  <2>4. w # Null
    BY ConsNotNull
  <2> HIDE DEF v
  <2>5. ListTrip(q)
    BY <2>2, <2>3, TripNull, TripCons
  <2> HIDE DEF q
  <2>6. ListTrip(w)
    BY <2>2, <2>5, TripQuote, TripCons
  <2> HIDE DEF w
  <2>7. RoundTrip(w)
    BY <2>2, <2>4, <2>6, TripList
  <2> QED
    BY <2>1, <2>7
<1>3. ASSUME NEW s \in ElementPlaces(e), e[s] = "(", s + 1 \in ListPlaces(e), s + 1 \in Q
      PROVE  s \in P
  <2> DEFINE w == Rest(e, s + 1).v
  <2>1. Element(e, s).v = IF w = Null THEN Nil ELSE w
    BY <1>0, <1>3, ElementOpen
  <2>2. Element(e, s).v \in Values /\ w \in Values /\ ListTrip(w)
    BY <1>3, <1>v
  <2> HIDE DEF w
  <2>3. CASE w = Null
    BY <2>1, <2>2, <2>3, TripNil
  <2>4. CASE w # Null
    BY <2>1, <2>2, <2>4, TripList
  <2> QED
    BY <2>3, <2>4
<1>4. ASSUME NEW i \in ListPlaces(e), e[NextElement(e, i)] = ")" PROVE i \in Q
  <2>1. i \in Nat /\ NextElement(e, i) # 0
    <3>1. i \in 1 .. Len(e) + 1 /\ NextElement(e, i) \in 1 .. Len(e)
      BY ListFront
    <3> QED
      BY <1>0, <3>1
  <2>2. Rest(e, i).v = Null
    BY <1>0, <1>4, <2>1, RestEnds
  <2> QED
    BY <2>2, TripNull
<1>5. ASSUME NEW i \in ListPlaces(e), NEW s \in ElementPlaces(e), s = NextElement(e, i),
             s \in P, Element(e, s).next \in ListPlaces(e), Element(e, s).next \in Q
      PROVE  i \in Q
  <2> DEFINE v == Element(e, s).v
             w == Rest(e, Element(e, s).next).v
  <2>1. i \in Nat /\ s # 0 /\ e[s] # ")"
    <3>1. i \in 1 .. Len(e) + 1 /\ s \in 1 .. Len(e) /\ e[s] # ")"
      BY <1>0, ListFront, ElementFront
    <3> QED
      BY <1>0, <3>1
  <2>2. Rest(e, i).v = Cons(v, w)
    BY <1>0, <1>5, <2>1, RestGoesOn
  <2>3. Rest(e, i).v \in Values /\ RoundTrip(v) /\ ListTrip(w)
    BY <1>5, <1>v
  <2> HIDE DEF v, w
  <2>4. ListTrip(Cons(v, w))
    BY <2>2, <2>3, TripCons
  <2> QED
    BY <2>2, <2>4
<1> HIDE DEF P, Q
<1>6. ElementPlaces(e) \subseteq P /\ ListPlaces(e) \subseteq Q
  BY <1>1, <1>2, <1>3, <1>4, <1>5, ReadingInduction
<1> QED
  BY <1>6 DEF P

LEMMA PrintedIsRead ==
  ASSUME NEW v, RoundTrip(v)
  PROVE  Parse(Unparse(v)).v = Reread(v)
<1> DEFINE u == Unparse(v)
<1>1. u \in AllTexts /\ Len(u) \in Nat
  BY DEF RoundTrip, Opens, AllTexts
<1>2. Comes(u, 1, u) /\ Ends(u, 1 + Len(u))
  <2>1. 1 + Len(u) = Len(u) + 1
    BY <1>1
  <2> QED
    BY <1>1, <2>1, ComesItself DEF Ends
<1>3. Element(u, 1).v = Reread(v)
  BY <1>1, <1>2 DEF RoundTrip
<1>4. Parse(u) = Element(u, 1)
  BY DEF Parse, Element
<1> QED
  BY <1>3, <1>4

\* What unparse prints of a value that was parsed is parsed as the same value,
\* except that an empty list comes back as the atom nil and a float that is a
\* whole number as an integer.  The text can be of any length; its numerals are
\* those that %d and %g print as they are, of six digits at most where there is
\* a dot.
THEOREM ParserPrintsWhatItReads == Spec => []PrintsWhatItReads
<1>1. TextOK => PrintsWhatItReads
  <2> SUFFICES ASSUME TextOK, Whole, QuotesSomething(text), ~ IsEmpty(text),
                      NEW v, v = Parse(text).v
               PROVE  Parse(Unparse(v)).v = Reread(v)
    BY DEF PrintsWhatItReads
  <2>1. text \in Seq(Alphabet) /\ Len(text) \in Nat /\ Len(text) <= MaxText
    BY DEF TextOK
  <2>2. text \in AllTexts
    <3>1. Alphabet \subseteq Characters
      BY DEF Characters
    <3> QED
      BY <2>1, <3>1 DEF AllTexts
  <2>3. Sentence(Characters, text)
    BY <2>2 DEF Sentence, Whole, AllTexts
  <2>4. 2 * Len(text) <= MaxLevels
    BY <2>1, TextAssumption, LevelsAssumption
  <2> DEFINE s == NextElement(text, 1)
  <2>5. s \in ElementPlaces(text)
    BY <2>3, FirstElement
  <2>6. v = Element(text, s).v
    <3>1. Parse(text) = Element(text, 1)
      BY DEF Parse, Element
    <3>2. s # 0
      BY <2>5 DEF ElementPlaces
    <3>3. Element(text, s) = Element(text, 1)
      BY <2>1, <3>2, ReadsAtNext
    <3> QED
      BY <3>1, <3>3
  <2>7. RoundTrip(v)
    BY <2>2, <2>3, <2>4, <2>5, <2>6, ParsedTrips
  <2> QED
    BY <2>7, PrintedIsRead
<1> QED
  BY <1>1, TextsAre, PTL
=============================================================================
