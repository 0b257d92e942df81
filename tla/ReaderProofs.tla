---------------------------- MODULE ReaderProofs ----------------------------
(***************************************************************************)
(* Proofs about Reader, for any sessions, with or without interrupts.      *)
(***************************************************************************)
EXTENDS Reader, TLAPS, SequenceTheorems, WellFoundedInduction

\* A set of natural numbers that is not empty has a first element.
LEMMA FirstExists ==
  ASSUME NEW S \in SUBSET Nat, S # {}
  PROVE  \E i \in S : \A j \in S : i <= j
<1> DEFINE Less == OpToRel(<, Nat)
<1>1. IsWellFoundedOn(Less, Nat)
  BY NatLessThanWellFounded DEF Less
<1>2. PICK i \in S : \A j \in S : ~ (<<j, i>> \in Less)
  BY <1>1, WFMin
<1>3. \A j, k \in Nat : <<j, k>> \in Less <=> j < k
  BY DEF Less, OpToRel
<1>4. \A j \in S : ~ (j < i)
  BY <1>2, <1>3
<1>5. \A j \in S : i <= j
  BY <1>4
<1> QED
  BY <1>5

-----------------------------------------------------------------------------
(***************************************************************************)
(* FlattenSeq is defined by recursion over the first n texts of s: f goes  *)
(* through them.                                                           *)
(***************************************************************************)
Flattens(f, s, n) ==
  f = [i \in 1 .. n |-> IF i = 1 THEN s[i] ELSE f[i - 1] \o s[i]]

LEMMA FlattenExtends ==
  ASSUME NEW s, NEW n \in Nat, NEW f, Flattens(f, s, n)
  PROVE  \E g : Flattens(g, s, n + 1)
<1> DEFINE last == IF n = 0 THEN s[1] ELSE f[n] \o s[n + 1]
           g    == [i \in 1 .. n + 1 |-> IF i = n + 1 THEN last ELSE f[i]]
<1>1. \A i \in 1 .. n : f[i] = IF i = 1 THEN s[i] ELSE f[i - 1] \o s[i]
  BY DEF Flattens
<1>2. \A i \in 1 .. n : g[i] = f[i]
  OBVIOUS
<1>3. \A i \in 1 .. n + 1 : i # 1 => i - 1 \in 1 .. n
  OBVIOUS
<1>4. \A i \in 1 .. n + 1 : g[i] = IF i = 1 THEN s[i] ELSE g[i - 1] \o s[i]
  <2> TAKE i \in 1 .. n + 1
  <2>1. CASE i = n + 1
    BY <1>2, <1>3, <2>1
  <2>2. CASE i # n + 1
    <3>1. i \in 1 .. n
      BY <2>2
    <3>2. i # 1 => g[i - 1] = f[i - 1]
      BY <1>2, <3>1
    <3> HIDE DEF g
    <3> QED
      BY <1>1, <1>2, <3>1, <3>2
  <2> QED
    BY <2>1, <2>2
<1>5. g = [i \in 1 .. n + 1 |-> g[i]]
  OBVIOUS
<1> HIDE DEF g
<1>6. Flattens(g, s, n + 1)
  BY <1>4, <1>5 DEF Flattens
<1> QED
  BY <1>6

LEMMA FlattenExists ==
  ASSUME NEW s, NEW n \in Nat
  PROVE  \E f : Flattens(f, s, n)
<1> DEFINE Undefined == {m \in Nat : ~ \E f : Flattens(f, s, m)}
<1>1. SUFFICES ASSUME Undefined # {} PROVE FALSE
  BY <1>1
<1>2. PICK m \in Undefined : \A k \in Undefined : m <= k
  BY <1>1, FirstExists
<1>3. Flattens(<<>>, s, 0)
  BY DEF Flattens
<1>4. m # 0
  BY <1>3
<1>5. m - 1 \in Nat /\ m - 1 \notin Undefined /\ (m - 1) + 1 = m
  BY <1>2, <1>4
<1>6. PICK f : Flattens(f, s, m - 1)
  BY <1>5
<1>7. \E g : Flattens(g, s, (m - 1) + 1)
  BY <1>5, <1>6, FlattenExtends
<1> QED
  BY <1>5, <1>7

\* s and t begin with the same n elements.
BeginAlike(s, t, n) == \A i \in 1 .. n : s[i] = t[i]

\* What the first texts come to does not depend on those that follow.
LEMMA FlattenAgrees ==
  ASSUME NEW s, NEW t, NEW f, NEW g, NEW n \in Nat, NEW m \in Nat, n <= m,
         BeginAlike(s, t, n), Flattens(f, s, n), Flattens(g, t, m)
  PROVE  BeginAlike(f, g, n)
<1> USE DEF BeginAlike
<1> DEFINE Differ == {i \in 1 .. n : f[i] # g[i]}
<1>1. SUFFICES ASSUME Differ # {} PROVE FALSE
  BY <1>1
<1>2. Differ \in SUBSET Nat
  OBVIOUS
<1>3. PICK i \in Differ : \A j \in Differ : i <= j
  BY <1>1, <1>2, FirstExists
<1>4. i \in 1 .. n /\ i \in 1 .. m
  OBVIOUS
<1>5. f[i] = IF i = 1 THEN s[i] ELSE f[i - 1] \o s[i]
  BY <1>4 DEF Flattens
<1>6. g[i] = IF i = 1 THEN t[i] ELSE g[i - 1] \o t[i]
  BY <1>4 DEF Flattens
<1>7. i # 1 => i - 1 \in 1 .. n /\ i - 1 \notin Differ
  BY <1>3, <1>4
<1> QED
  BY <1>4, <1>5, <1>6, <1>7

LEMMA FlattenOf ==
  ASSUME NEW S, NEW s \in Seq(Seq(S)), s # <<>>
  PROVE  \E f : Flattens(f, s, Len(s)) /\ FlattenSeq(s) = f[Len(s)]
<1>1. Len(s) \in Nat /\ Len(s) # 0
  OBVIOUS
<1>2. \E f : Flattens(f, s, Len(s))
  BY <1>1, FlattenExists
<1> DEFINE h == CHOOSE f : Flattens(f, s, Len(s))
<1>3. Flattens(h, s, Len(s))
  BY <1>2
<1>4. FlattenSeq(s) = h[Len(s)]
  BY <1>1 DEF FlattenSeq, Flattens
<1> QED
  BY <1>3, <1>4

LEMMA FlattenEmpty == FlattenSeq(<<>>) = <<>>
BY DEF FlattenSeq

\* A text that is added to the others comes after them.
LEMMA FlattenAppend ==
  ASSUME NEW S, NEW s \in Seq(Seq(S)), NEW x \in Seq(S)
  PROVE  FlattenSeq(Append(s, x)) = FlattenSeq(s) \o x
<1> DEFINE t == Append(s, x)
           n == Len(s)
<1>1. /\ n \in Nat /\ Len(t) = n + 1
      /\ t \in Seq(Seq(S)) /\ t # <<>>
      /\ t[n + 1] = x
      /\ \A i \in 1 .. n : s[i] = t[i]
  BY AppendProperties
<1>2. n = 0 <=> s = <<>>
  BY <1>1
<1> HIDE DEF t
<1>3. PICK g : Flattens(g, t, n + 1) /\ FlattenSeq(t) = g[n + 1]
  BY <1>1, FlattenOf
<1>4. g[n + 1] = IF n + 1 = 1 THEN x ELSE g[(n + 1) - 1] \o x
  <2> HIDE DEF n
  <2>1. n + 1 \in 1 .. n + 1
    BY <1>1
  <2> QED
    BY <1>1, <1>3, <2>1 DEF Flattens
<1>5. CASE s = <<>>
  <2>1. FlattenSeq(t) = x
    BY <1>1, <1>2, <1>3, <1>4, <1>5
  <2> QED
    BY <1>5, <2>1, FlattenEmpty, ConcatEmptySeq DEF t
<1>6. CASE s # <<>>
  <2>1. PICK f : Flattens(f, s, n) /\ FlattenSeq(s) = f[n]
    BY <1>6, FlattenOf
  <2> HIDE DEF n
  <2>2. n \in 1 .. n /\ n + 1 \in Nat /\ n <= n + 1 /\ (n + 1) - 1 = n /\ n + 1 # 1
    BY <1>1, <1>2, <1>6
  <2>3. \A i \in 1 .. n : f[i] = g[i]
    <3>1. Flattens(g, t, n + 1) /\ Flattens(f, s, n) /\ BeginAlike(s, t, n)
      BY <1>1, <1>3, <2>1 DEF BeginAlike
    <3>2. n \in Nat /\ n + 1 \in Nat /\ n <= n + 1
      BY <1>1, <2>2
    <3>3. BeginAlike(f, g, n)
      BY <3>1, <3>2, FlattenAgrees
    <3> QED
      BY <3>3 DEF BeginAlike
  <2> QED
    BY <1>3, <1>4, <2>1, <2>2, <2>3 DEF t
<1> QED
  BY <1>5, <1>6

-----------------------------------------------------------------------------
(***************************************************************************)
(* The inductive invariant.                                                *)
(***************************************************************************)
Sources == [kind : {"file", "prompt"}, lines : Seq(Text)]
Places  == {"open", "read", "more", "check", "parse", "close", "done", "crashed",
            "interrupted"}

TypeOK ==
  /\ sources \in Seq(Sources)
  /\ source \in Sources \cup {NoSource}
  /\ lines \in Seq(Text)
  /\ buff \in Text
  /\ e \in Text
  /\ eof \in BOOLEAN
  /\ pc \in Places
  /\ handed \in Seq(Text)
  /\ FlattenSeq(handed) \in Text
  /\ history \in Seq(Text)
  /\ saved \in Seq(Text)
  /\ disposed \in BOOLEAN

\* all has been read up to its k-th line.
ReadTo(all, k, rest) == k \in 0 .. Len(all) /\ rest = SubSeq(all, k + 1, Len(all))

\* The lines still to be read are the last ones of the file.
AreTheLast == InFile => \E k \in Nat : ReadTo(source.lines, k, lines)

\* A file that has come to its end is not read any further.
EndsOnce == InFile /\ pc \in {"read", "more"} => ~ eof

\* Where another line is asked for, the expression is not complete.
Incomplete == pc = "more" => ~ (IsValid(e) /\ IsBalanced(e))

IInv == TypeOK /\ AreTheLast /\ EndsOnce /\ Incomplete /\ InOrder

LEMMA LineTaken ==
  ASSUME NEW S, NEW all \in Seq(S), NEW k, NEW rest, ReadTo(all, k, rest), rest # <<>>
  PROVE  /\ ReadTo(all, k + 1, Tail(rest))
         /\ k \in Nat
         /\ SubSeq(all, 1, Len(all) - Len(Tail(rest)))
              = Append(SubSeq(all, 1, Len(all) - Len(rest)), Head(rest))
         /\ SubSeq(all, 1, Len(all) - Len(rest)) \in Seq(S)
<1> DEFINE n == Len(all)
<1>1. n \in Nat /\ k \in 0 .. n /\ rest = SubSeq(all, k + 1, n)
  BY DEF ReadTo
<1>2. \A i \in 1 .. n : all[i] \in S
  OBVIOUS
<1> HIDE DEF n
<1>3. k < n
  BY <1>1, SubSeqEmpty
<1>4. k + 1 \in 1 .. n /\ n \in k + 1 .. n /\ k \in Nat
  BY <1>1, <1>3
<1>5. \A i \in k + 1 .. n : all[i] \in S
  BY <1>1, <1>2
<1>6. rest \in Seq(S) /\ Len(rest) = n - k
  BY <1>1, <1>4, <1>5, SubSeqProperties
<1>7. Head(rest) = all[k + 1] /\ Tail(rest) = SubSeq(all, (k + 1) + 1, n)
  BY <1>1, <1>4, HeadTailOfSubSeq DEF n
<1>8. Len(Tail(rest)) = n - (k + 1)
  BY <1>1, <1>4, <1>6, HeadTailProperties
<1>9. SubSeq(all, 1, k) \in Seq(S)
  BY <1>1, <1>2, SubSeqProperties
<1>10. SubSeq(all, 1, k + 1) = Append(SubSeq(all, 1, k), all[k + 1])
  <2>1. SubSeq(all, 1, k + 1) = SubSeq(all, 1, (k + 1) - 1) \o <<all[k + 1]>>
    <3>1. 1 \in 1 .. n /\ k + 1 \in 1 .. n
      BY <1>1, <1>4
    <3> QED
      BY <3>1, SubSeqRecursiveSecond DEF n
  <2>2. (k + 1) - 1 = k /\ all[k + 1] \in S
    BY <1>2, <1>4
  <2> QED
    BY <1>9, <2>1, <2>2, AppendIsConcat
<1>11. n - (n - k) = k /\ n - (n - (k + 1)) = k + 1
  BY <1>1, <1>4
<1>12. ReadTo(all, k + 1, Tail(rest))
  BY <1>1, <1>4, <1>7 DEF ReadTo, n
<1> QED
  BY <1>4, <1>6, <1>7, <1>8, <1>9, <1>10, <1>11, <1>12 DEF n

\* fgets takes the next line of the file, if there is one.
LEMMA GetLineTakes ==
  ASSUME IInv, InFile, GetLine, source' = source
  PROVE  /\ lines' \in Seq(Text) /\ buff' \in Text /\ eof' \in BOOLEAN
         /\ AreTheLast'
         /\ eof' => Taken' = Taken
         /\ ~ eof' => FlattenSeq(Taken)' = FlattenSeq(Taken) \o buff'
<1>1. source.lines \in Seq(Text) /\ lines \in Seq(Text) /\ buff \in Text
  BY DEF IInv, TypeOK, InFile, NoSource, Sources
<1>2. PICK k \in Nat : ReadTo(source.lines, k, lines)
  BY DEF IInv, AreTheLast
<1>3. CASE lines = <<>>
  <2>1. eof' = TRUE /\ lines' = lines /\ buff' = buff
    BY <1>3 DEF GetLine
  <2> QED
    BY <1>1, <1>2, <2>1 DEF AreTheLast, Taken
<1>4. CASE lines # <<>>
  <2>1. eof' = FALSE /\ lines' = Tail(lines) /\ buff' = Head(lines)
    BY <1>4 DEF GetLine
  <2>2. Head(lines) \in Text /\ Tail(lines) \in Seq(Text)
    BY <1>1, <1>4, HeadTailProperties
  <2>3. /\ ReadTo(source.lines, k + 1, Tail(lines))
        /\ SubSeq(source.lines, 1, Len(source.lines) - Len(Tail(lines)))
             = Append(Taken, Head(lines))
        /\ Taken \in Seq(Text)
    BY <1>1, <1>2, <1>4, LineTaken DEF Taken
  <2>4. Taken' = Append(Taken, buff')
    BY <2>1, <2>3 DEF Taken
  <2>5. FlattenSeq(Append(Taken, buff')) = FlattenSeq(Taken) \o buff'
    BY <2>1, <2>2, <2>3, FlattenAppend DEF Text
  <2>6. FlattenSeq(Taken)' = FlattenSeq(Taken) \o buff'
    BY <2>4, <2>5
  <2>7. k + 1 \in Nat
    OBVIOUS
  <2>8. AreTheLast'
    BY <2>1, <2>3, <2>7 DEF AreTheLast
  <2> QED
    BY <2>1, <2>2, <2>6, <2>8
<1> QED
  BY <1>3, <1>4

LEMMA PrefixOfConcat ==
  ASSUME NEW S, NEW s \in Seq(S), NEW t \in Seq(S)
  PROVE  IsPrefix(s, s \o t) /\ IsPrefix(s, s)
<1>1. /\ s \o t \in Seq(S) /\ Len(s \o t) = Len(s) + Len(t)
      /\ \A i \in 1 .. Len(s) : (s \o t)[i] = s[i]
  BY ConcatProperties
<1>2. Len(s) \in Nat /\ Len(t) \in Nat
  OBVIOUS
<1>3. SubSeq(s \o t, 1, Len(s)) = SubSeq(s, 1, Len(s))
  BY <1>1, <1>2
<1> QED
  BY <1>1, <1>2, <1>3 DEF IsPrefix

\* InOrder, as the step that took a line finds it.
LEMMA TakenInOrder ==
  ASSUME NEW old \in Text, NEW all \in Text, NEW line \in Text,
         NEW given, given = old \o line, NEW atEnd \in BOOLEAN,
         atEnd => all = old, ~ atEnd => all = given
  PROVE  IsPrefix(all, given) /\ (~ atEnd => given = all)
<1>1. old \o line \in Text
  BY ConcatProperties DEF Text
<1> QED
  BY <1>1, PrefixOfConcat DEF Text

LEMMA InitHolds == Init => IInv
<1> SUFFICES ASSUME Init PROVE IInv
  OBVIOUS
<1>1. sources \in Seq(Sources)
  BY ReaderAssumption DEF Init, Sources
<1>2. <<>> \in Text /\ <<>> \in Seq(Text)
  BY DEF Text
<1>3. TypeOK
  BY <1>1, <1>2, FlattenEmpty DEF Init, TypeOK, Places
<1> QED
  BY <1>3 DEF Init, IInv, AreTheLast, EndsOnce, Incomplete, InOrder, InFile, NoSource

-----------------------------------------------------------------------------
(***************************************************************************)
(* Every action keeps the invariant.                                       *)
(***************************************************************************)
LEMMA OpenKeeps == ASSUME IInv, Open PROVE IInv'
<1>1. /\ source' \in Sources /\ sources' \in Seq(Sources)
      /\ lines' = source'.lines /\ eof' = FALSE /\ handed' = <<>> /\ pc' = "read"
      /\ buff' = buff /\ e' = e /\ history' = history /\ saved' = saved
      /\ disposed' = disposed
  BY HeadTailProperties DEF IInv, TypeOK, Open, outcome
<1>2. lines' \in Seq(Text)
  BY <1>1 DEF Sources
<1>3. FlattenSeq(handed') = <<>> /\ <<>> \in Text /\ <<>> \in Seq(Text)
  BY <1>1, FlattenEmpty DEF Text
<1>4. TypeOK'
  BY <1>1, <1>2, <1>3 DEF IInv, TypeOK, Places
<1>5. ReadTo(source'.lines, 0, lines')
  <2>1. SubSeq(lines', 1, Len(lines')) = lines' /\ Len(lines') \in Nat
    BY <1>2, SubSeqFull
  <2> QED
    BY <1>1, <2>1 DEF ReadTo
<1>6. AreTheLast'
  BY <1>5 DEF AreTheLast
<1>7. Taken' = <<>>
  <2>1. Len(lines') \in Nat /\ Len(lines') - Len(lines') = 0
    BY <1>2
  <2>2. SubSeq(lines', 1, 0) = <<>>
    BY SubSeqEmpty
  <2> QED
    BY <1>1, <2>1, <2>2 DEF Taken
<1>8. InOrder'
  <2>1. <<>> \in Text /\ <<>> \o <<>> = <<>> /\ IsPrefix(<<>>, <<>>)
    BY <1>3, ConcatEmptySeq, PrefixOfConcat DEF Text
  <2> QED
    BY <1>1, <1>3, <1>7, <2>1 DEF InOrder, Given, Reading
<1> QED
  BY <1>1, <1>4, <1>6, <1>8 DEF IInv, EndsOnce, Incomplete

LEMMA FirstLineKeeps == ASSUME IInv, FirstLine PROVE IInv'
<1>1. /\ pc = "read" /\ InFile /\ GetLine /\ e' = buff' /\ pc' = "check"
      /\ sources' = sources /\ source' = source /\ handed' = handed
      /\ history' = history /\ saved' = saved /\ disposed' = disposed
  BY DEF FirstLine, session, outcome
<1>2. /\ lines' \in Seq(Text) /\ buff' \in Text /\ eof' \in BOOLEAN
      /\ AreTheLast'
      /\ eof' => Taken' = Taken
      /\ ~ eof' => FlattenSeq(Taken)' = FlattenSeq(Taken) \o buff'
  BY <1>1, GetLineTakes
<1>3. TypeOK'
  BY <1>1, <1>2 DEF IInv, TypeOK, Places
<1>4. FlattenSeq(handed) = FlattenSeq(Taken)
  <2>1. FlattenSeq(handed) \o <<>> = FlattenSeq(handed)
    BY ConcatEmptySeq DEF IInv, TypeOK, Text
  <2> QED
    BY <1>1, <2>1 DEF IInv, InOrder, Given, EndsOnce, Reading
<1>5. Given' = FlattenSeq(handed) \o buff'
  BY <1>1 DEF Given, Reading
<1>6. FlattenSeq(handed) \in Text /\ FlattenSeq(Taken)' \in Text
  <2>1. FlattenSeq(handed) \o buff' \in Text
    BY <1>2, ConcatProperties DEF IInv, TypeOK, Text
  <2> QED
    BY <1>2, <1>4, <2>1 DEF IInv, TypeOK
<1>7. /\ eof' => FlattenSeq(Taken)' = FlattenSeq(handed)
      /\ ~ eof' => FlattenSeq(Taken)' = Given'
  BY <1>2, <1>4, <1>5
<1>8. PICK old, all, given : /\ old = FlattenSeq(handed)
                             /\ all = FlattenSeq(Taken)' /\ given = Given'
  OBVIOUS
<1>9. /\ old \in Text /\ all \in Text /\ buff' \in Text /\ eof' \in BOOLEAN
      /\ given = old \o buff' /\ (eof' => all = old) /\ (~ eof' => all = given)
  BY <1>2, <1>5, <1>6, <1>7, <1>8
<1>10. IsPrefix(all, given) /\ (~ eof' => given = all)
  BY <1>9, TakenInOrder
<1>11. InOrder'
  BY <1>8, <1>10 DEF InOrder
<1> QED
  BY <1>1, <1>2, <1>3, <1>11 DEF IInv, EndsOnce, Incomplete

LEMMA NextLineKeeps == ASSUME IInv, NextLine PROVE IInv'
<1>1. /\ pc = "more" /\ InFile /\ GetLine /\ e' = e \o buff' /\ pc' = "check"
      /\ sources' = sources /\ source' = source /\ handed' = handed
      /\ history' = history /\ saved' = saved /\ disposed' = disposed
  BY DEF NextLine, session, outcome
<1>2. /\ lines' \in Seq(Text) /\ buff' \in Text /\ eof' \in BOOLEAN
      /\ AreTheLast'
      /\ eof' => Taken' = Taken
      /\ ~ eof' => FlattenSeq(Taken)' = FlattenSeq(Taken) \o buff'
  BY <1>1, GetLineTakes
<1>3. e' \in Text
  BY <1>1, <1>2, ConcatProperties DEF IInv, TypeOK, Text
<1>4. TypeOK'
  BY <1>1, <1>2, <1>3 DEF IInv, TypeOK, Places
<1>5. FlattenSeq(handed) \o e = FlattenSeq(Taken)
  BY <1>1 DEF IInv, InOrder, Given, EndsOnce, Reading
<1>6. (FlattenSeq(handed) \o e) \o buff' = FlattenSeq(handed) \o e'
  <2>1. FlattenSeq(handed) \in Seq(Chars) /\ e \in Seq(Chars) /\ buff' \in Seq(Chars)
    BY <1>2 DEF IInv, TypeOK, Text
  <2> QED
    BY <1>1, <2>1, ConcatAssociative
<1>7. Given' = FlattenSeq(handed) \o e'
  BY <1>1 DEF Given, Reading
<1>8. FlattenSeq(handed) \o e \in Text /\ FlattenSeq(Taken)' \in Text
  <2>1. FlattenSeq(handed) \o e \in Text
    BY ConcatProperties DEF IInv, TypeOK, Text
  <2>2. (FlattenSeq(handed) \o e) \o buff' \in Text
    BY <1>2, <2>1, ConcatProperties DEF Text
  <2> QED
    BY <1>2, <1>5, <2>1, <2>2
<1>9. /\ eof' => FlattenSeq(Taken)' = FlattenSeq(handed) \o e
      /\ ~ eof' => FlattenSeq(Taken)' = Given'
      /\ Given' = (FlattenSeq(handed) \o e) \o buff'
  BY <1>2, <1>5, <1>6, <1>7
<1>10. PICK old, all, given : /\ old = FlattenSeq(handed) \o e
                              /\ all = FlattenSeq(Taken)' /\ given = Given'
  OBVIOUS
<1>11. /\ old \in Text /\ all \in Text /\ buff' \in Text /\ eof' \in BOOLEAN
       /\ given = old \o buff' /\ (eof' => all = old) /\ (~ eof' => all = given)
  BY <1>2, <1>8, <1>9, <1>10
<1>12. IsPrefix(all, given) /\ (~ eof' => given = all)
  BY <1>11, TakenInOrder
<1>13. InOrder'
  BY <1>10, <1>12 DEF InOrder
<1> QED
  BY <1>1, <1>2, <1>4, <1>13 DEF IInv, EndsOnce, Incomplete

\* What is handed out comes after what was handed out before.
LEMMA HandsOut ==
  ASSUME TypeOK
  PROVE  /\ Append(handed, e) \in Seq(Text)
         /\ FlattenSeq(Append(handed, e)) = FlattenSeq(handed) \o e
         /\ FlattenSeq(handed) \o e \in Text
         /\ (FlattenSeq(handed) \o e) \o <<>> = FlattenSeq(handed) \o e
         /\ FlattenSeq(handed) \o <<>> = FlattenSeq(handed)
<1>1. handed \in Seq(Seq(Chars)) /\ e \in Seq(Chars) /\ FlattenSeq(handed) \in Seq(Chars)
  BY DEF TypeOK, Text
<1>2. FlattenSeq(handed) \o e \in Seq(Chars)
  BY <1>1, ConcatProperties
<1>3. FlattenSeq(Append(handed, e)) = FlattenSeq(handed) \o e
  BY <1>1, FlattenAppend
<1>4. Append(handed, e) \in Seq(Seq(Chars))
  BY <1>1, AppendProperties
<1> QED
  BY <1>1, <1>2, <1>3, <1>4, ConcatEmptySeq DEF Text

LEMMA CheckFileKeeps == ASSUME IInv, CheckFile PROVE IInv'
<1>1. /\ pc = "check" /\ InFile
      /\ sources' = sources /\ source' = source /\ lines' = lines /\ buff' = buff
      /\ e' = e /\ eof' = eof
      /\ history' = history /\ saved' = saved /\ disposed' = disposed
  BY DEF CheckFile, session, outcome
<1>2. AreTheLast' /\ Taken' = Taken /\ (InFile' <=> InFile)
  BY <1>1 DEF IInv, AreTheLast, Taken, InFile
<1>3. CASE IsValid(e) /\ IsBalanced(e)
  <2>1. handed' = Append(handed, e) /\ pc' = "parse"
    BY <1>3 DEF CheckFile
  <2>2. TypeOK'
    BY <1>1, <2>1, HandsOut DEF IInv, TypeOK, Places
  <2>3. Given' = Given
    BY <1>1, <2>1, HandsOut DEF IInv, Given, Reading
  <2>4. InOrder'
    BY <1>1, <1>2, <2>3 DEF IInv, InOrder
  <2> QED
    BY <1>2, <2>1, <2>2, <2>4 DEF IInv, EndsOnce, Incomplete
<1>4. CASE ~ (IsValid(e) /\ IsBalanced(e))
  <2>1. handed' = handed /\ (pc' = "close" \/ (~ eof /\ pc' = "more"))
    BY <1>4 DEF CheckFile
  <2>2. TypeOK'
    BY <1>1, <2>1 DEF IInv, TypeOK, Places
  <2>3. InOrder'
    BY <1>1, <1>2, <2>1 DEF IInv, InOrder, Given, Reading
  <2>4. EndsOnce'
    BY <1>1, <2>1 DEF EndsOnce
  <2>5. Incomplete'
    BY <1>1, <1>4 DEF Incomplete
  <2> QED
    BY <1>2, <2>2, <2>3, <2>4, <2>5 DEF IInv
<1> QED
  BY <1>3, <1>4

LEMMA InterpretFileKeeps == ASSUME IInv, InterpretFile PROVE IInv'
<1>1. /\ pc = "parse" /\ InFile /\ pc' \in {WhenRead, "close"}
      /\ sources' = sources /\ source' = source /\ lines' = lines /\ buff' = buff
      /\ e' = e /\ eof' = eof /\ handed' = handed
      /\ history' = history /\ saved' = saved /\ disposed' = disposed
  BY DEF InterpretFile, session, outcome
<1>2. pc' = "close" \/ (pc' = "read" /\ ~ eof)
  BY <1>1 DEF WhenRead
<1>3. TypeOK'
  BY <1>1, <1>2 DEF IInv, TypeOK, Places
<1>4. AreTheLast' /\ Taken' = Taken
  BY <1>1 DEF IInv, AreTheLast, Taken, InFile
<1>5. InOrder'
  BY <1>1, <1>2, <1>4 DEF IInv, InOrder, Given, Reading
<1> QED
  BY <1>1, <1>2, <1>3, <1>4, <1>5 DEF IInv, EndsOnce, Incomplete

-----------------------------------------------------------------------------
\* At the prompt only the types matter, and that a text is not complete where
\* it is continued.
LEMMA NotInFile ==
  ASSUME AtPrompt \/ source = NoSource
  PROVE  ~ InFile
BY DEF AtPrompt, InFile, NoSource

LEMMA PromptIsEnough ==
  ASSUME source' = source, AtPrompt, TypeOK', Incomplete'
  PROVE  IInv'
<1>1. ~ InFile'
  BY DEF AtPrompt, InFile
<1> QED
  BY <1>1 DEF IInv, AreTheLast, EndsOnce, InOrder

LEMMA PromptLineKeeps == ASSUME IInv, PromptLine PROVE IInv'
<1>1. /\ AtPrompt /\ pc' \in {"close", "read", "check"}
      /\ sources' = sources /\ source' = source /\ buff' = buff /\ handed' = handed
      /\ history' = history /\ saved' = saved /\ disposed' = disposed
  BY DEF PromptLine, session, outcome
<1>2. lines' \in Seq(Text) /\ e' \in Text /\ eof' \in BOOLEAN
  BY HeadTailProperties DEF IInv, TypeOK, PromptLine
<1>3. TypeOK'
  BY <1>1, <1>2 DEF IInv, TypeOK, Places
<1> QED
  BY <1>1, <1>3, PromptIsEnough DEF Incomplete

LEMMA CheckPromptKeeps == ASSUME IInv, CheckPrompt PROVE IInv'
<1>1. /\ AtPrompt /\ sources' = sources /\ source' = source /\ lines' = lines
      /\ buff' = buff /\ e' = e /\ eof' = eof /\ saved' = saved /\ disposed' = disposed
  BY DEF CheckPrompt, session
<1>2. CASE IsValid(e) /\ IsBalanced(e)
  <2>1. handed' = Append(handed, e) /\ history' = Append(history, e) /\ pc' = "parse"
    BY <1>2 DEF CheckPrompt
  <2>2. Append(history, e) \in Seq(Text)
    BY AppendProperties DEF IInv, TypeOK
  <2>3. TypeOK'
    BY <1>1, <2>1, <2>2, HandsOut DEF IInv, TypeOK, Places
  <2> QED
    BY <1>1, <2>1, <2>3, PromptIsEnough DEF Incomplete
<1>3. CASE ~ (IsValid(e) /\ IsBalanced(e))
  <2>1. handed' = handed /\ history' = history /\ pc' \in {"read", "more"}
    BY <1>3 DEF CheckPrompt
  <2>2. TypeOK'
    BY <1>1, <2>1 DEF IInv, TypeOK, Places
  <2>3. Incomplete'
    BY <1>1, <1>3 DEF Incomplete
  <2> QED
    BY <1>1, <2>2, <2>3, PromptIsEnough
<1> QED
  BY <1>2, <1>3

LEMMA OneCharacter == <<" ">> \in Text /\ <<">">> \in Text
<1>1. " " \in Chars /\ ">" \in Chars
  BY ReaderAssumption
<1>2. \A c \in Chars : <<c>> \in Seq(Chars)
  OBVIOUS
<1> QED
  BY <1>1, <1>2 DEF Text

LEMMA PromptMoreKeeps == ASSUME IInv, PromptMore PROVE IInv'
<1>1. /\ AtPrompt /\ pc' \in {"crashed", "check"} /\ buff' = <<">">>
      /\ sources' = sources /\ source' = source /\ handed' = handed
      /\ history' = history /\ saved' = saved /\ disposed' = disposed
  BY DEF PromptMore, session, outcome
<1>2. lines' \in Seq(Text) /\ e' \in Text /\ eof' \in BOOLEAN
  <2>1. CASE lines = <<>>
    BY <2>1 DEF IInv, TypeOK, PromptMore
  <2>2. CASE lines # <<>>
    <3>1. Head(lines) \in Text /\ Tail(lines) \in Seq(Text)
      BY <2>2, HeadTailProperties DEF IInv, TypeOK
    <3>2. <<" ">> \in Text /\ e \in Text
      BY OneCharacter DEF IInv, TypeOK
    <3>3. e \o <<" ">> \in Text
      BY <3>2, ConcatProperties DEF Text
    <3>4. e \o <<" ">> \o Head(lines) \in Text
      BY <3>1, <3>3, ConcatProperties DEF Text
    <3> QED
      BY <2>2, <3>1, <3>4 DEF IInv, TypeOK, PromptMore
  <2> QED
    BY <2>1, <2>2
<1>3. <<">">> \in Text
  BY OneCharacter
<1>4. TypeOK'
  BY <1>1, <1>2, <1>3 DEF IInv, TypeOK, Places
<1> QED
  BY <1>1, <1>4, PromptIsEnough DEF Incomplete

LEMMA InterpretPromptKeeps == ASSUME IInv, InterpretPrompt PROVE IInv'
<1>1. TypeOK' /\ AtPrompt /\ source' = source /\ pc' = "read"
  BY DEF IInv, TypeOK, Places, InterpretPrompt, session, outcome
<1> QED
  BY <1>1, PromptIsEnough DEF Incomplete

LEMMA CloseKeeps == ASSUME IInv, Close PROVE IInv'
<1>1. /\ source' = NoSource /\ pc' = "open" /\ saved' \in {history, saved}
      /\ sources' = sources /\ lines' = lines /\ buff' = buff /\ e' = e /\ eof' = eof
      /\ handed' = handed /\ history' = history /\ disposed' = disposed
  BY DEF Close
<1>2. TypeOK'
  BY <1>1 DEF IInv, TypeOK, Places
<1>3. ~ InFile'
  BY <1>1 DEF InFile, NoSource
<1> QED
  BY <1>1, <1>2, <1>3 DEF IInv, AreTheLast, EndsOnce, Incomplete, InOrder

LEMMA DisposeKeeps == ASSUME IInv, Dispose PROVE IInv'
<1>1. /\ pc = "open" /\ pc' = "done" /\ disposed' = TRUE
      /\ sources' = sources /\ source' = source /\ lines' = lines /\ buff' = buff
      /\ e' = e /\ eof' = eof /\ handed' = handed /\ history' = history /\ saved' = saved
  BY DEF Dispose, session
<1>2. TypeOK'
  BY <1>1 DEF IInv, TypeOK, Places
<1>3. InOrder'
  BY <1>1 DEF IInv, InOrder, Given, InFile, Reading, Taken
<1> QED
  BY <1>1, <1>2, <1>3 DEF IInv, AreTheLast, InFile, EndsOnce, Incomplete

LEMMA InterruptKeeps == ASSUME IInv, Interrupt PROVE IInv'
<1>1. /\ pc' = "interrupted" /\ disposed' = disposed
      /\ sources' = sources /\ source' = source /\ lines' = lines /\ buff' = buff
      /\ e' = e /\ eof' = eof /\ handed' = handed /\ history' = history /\ saved' = saved
  BY DEF Interrupt, session, outcome
<1>2. TypeOK'
  BY <1>1 DEF IInv, TypeOK, Places
<1> QED
  BY <1>1, <1>2 DEF IInv, AreTheLast, InFile, EndsOnce, Incomplete, InOrder

LEMMA StutterKeeps == ASSUME IInv, UNCHANGED vars PROVE IInv'
BY DEF IInv, vars, TypeOK, AreTheLast, InFile, EndsOnce, Incomplete, InOrder, Given, Taken,
   Reading

LEMMA StepKeeps == IInv /\ [Next]_vars => IInv'
BY OpenKeeps, FirstLineKeeps, NextLineKeeps, CheckFileKeeps, InterpretFileKeeps,
   PromptLineKeeps, CheckPromptKeeps, PromptMoreKeeps, InterpretPromptKeeps,
   CloseKeeps, DisposeKeeps, InterruptKeeps, StutterKeeps DEF Next, Step

-----------------------------------------------------------------------------
(***************************************************************************)
(* The theorems.                                                           *)
(***************************************************************************)

\* In every state of a session the lines not yet read are the last ones of the
\* file, a file is not read beyond its end, and no complete expression waits
\* for another line.
THEOREM ReaderInvariant == Spec => []IInv
<1>1. Init => IInv
  BY InitHolds
<1>2. IInv /\ [Next]_vars => IInv'
  BY StepKeeps
<1> QED
  BY <1>1, <1>2, PTL DEF Spec

\* Of whatever lines, and however expressions lie in them, get_expression_from_file
\* makes its texts line by line and in order: until the end of the file is met
\* no line is left out or taken twice, and then none of the file is missing.
THEOREM ReaderInOrder == Spec => []InOrder
<1>1. IInv => InOrder
  BY DEF IInv
<1> QED
  BY <1>1, ReaderInvariant, PTL

\* Both readers stop at the first line that completes an expression.
THEOREM ReaderStopsInTime == Spec => NoLongerThanNeeded
<1>1. IInv /\ [Next]_vars =>
        [Reading /\ e' # e /\ pc' = "check" => ~ (IsValid(e) /\ IsBalanced(e))]_vars
  <2> SUFFICES ASSUME IInv, Next, Reading, e' # e
               PROVE  ~ (IsValid(e) /\ IsBalanced(e))
    OBVIOUS
  <2>1. pc = "more"
    BY DEF Next, Step, Reading, Open, FirstLine, NextLine, CheckFile, InterpretFile,
           PromptLine, CheckPrompt, PromptMore, InterpretPrompt, Close, Dispose, Interrupt
  <2> QED
    BY <2>1 DEF IInv, Incomplete
<1> QED
  BY <1>1, ReaderInvariant, PTL DEF Spec, NoLongerThanNeeded
=============================================================================
