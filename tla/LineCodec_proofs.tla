-------------------------- MODULE LineCodec_proofs --------------------------
(***************************************************************************)
(* An array that one program lists on a line is what the other one splits  *)
(* and parses out of it, for arrays of any length.                         *)
(*                                                                         *)
(* The list is built, split and freed of its brackets by recursion over    *)
(* its length.  By induction it consists of the decimals and of commas     *)
(* where they meet (Places, BetweenPlaces), the commas and blanks are      *)
(* where split cuts it (ListOccurrences), and what lies between two cuts   *)
(* parses to the number it was made of (SplitList, ParsesDecimals).  The   *)
(* word in front of it ends where split cuts a line, and nowhere else:     *)
(* before a blank there is no second minus, and in a key no minus at all.  *)
(***************************************************************************)
EXTENDS LineCodec, Induction, SequenceTheorems, TLAPS

----------------------------------------------------------------------------
(* What a decimal consists of: a minus, for a negative number, and digits. *)
LEMMA DecimalIs ==
  ASSUME NEW n \in Byte, NEW S, Numerals \subseteq S, n < 0 => "-" \in S
  PROVE  /\ Decimal(n) \in Seq(S) /\ Len(Decimal(n)) = IF n < 0 THEN 2 ELSE 1
         /\ Decimal(n)[Len(Decimal(n))] = Numeral[Magnitude(n)]
         /\ n < 0 => Decimal(n)[1] = "-"
<1>1. n \in Int /\ Numeral[Magnitude(n)] \in S
  BY GCMAssumption DEF Numerals
<1> QED
  BY <1>1 DEF Decimal

(* What the list of an array consists of: a minus only if a number has it. *)
Chars(b) ==
  Numerals \union {",", " "}
    \union (IF \E i \in 1 .. Len(b) : b[i] < 0 THEN {"-"} ELSE {})

Lists(listed, b) ==
  /\ listed \in [0 .. Len(b) -> Seq(Chars(b))]
  /\ listed[0] = <<>>
  /\ \A i \in 1 .. Len(b) : listed[i] = listed[i - 1] \o Separator(i) \o Decimal(b[i])

(* What ArraysToString adds for the i-th number: a separator and a         *)
(* decimal.                                                                *)
LEMMA ItemChars ==
  ASSUME NEW b \in Seq(Byte), NEW i \in 1 .. Len(b)
  PROVE  /\ Separator(i) \in Seq(Chars(b)) /\ Decimal(b[i]) \in Seq(Chars(b))
         /\ Len(Separator(i)) = IF i = 1 THEN 0 ELSE 2
         /\ i # 1 => Separator(i)[1] = "," /\ Separator(i)[2] = " "
<1>1. b[i] \in Byte /\ Numerals \subseteq Chars(b) /\ (b[i] < 0 => "-" \in Chars(b))
  <2>1. b[i] \in Byte
    OBVIOUS
  <2>2. Numerals \subseteq Chars(b)
    BY DEF Chars
  <2>3. b[i] < 0 => "-" \in Chars(b)
    BY DEF Chars
  <2> QED
    BY <2>1, <2>2, <2>3
<1>2. Decimal(b[i]) \in Seq(Chars(b))
  BY <1>1, DecimalIs
<1>3. "," \in Chars(b) /\ " " \in Chars(b)
  BY DEF Chars
<1>4. <<>> \in Seq(Chars(b)) /\ <<",", " ">> \in Seq(Chars(b))
  <2>1. PICK T, x, y : T = Chars(b) /\ x = "," /\ y = " "
    OBVIOUS
  <2>2. x \in T /\ y \in T
    BY <1>3, <2>1
  <2>3. <<>> \in Seq(T) /\ <<x, y>> \in Seq(T)
    BY <2>2
  <2> QED
    BY <2>1, <2>3
<1>5. Separator(i) \in Seq(Chars(b))
  BY <1>4 DEF Separator, Comma
<1>6. /\ Len(Separator(i)) = IF i = 1 THEN 0 ELSE 2
      /\ i # 1 => Separator(i)[1] = "," /\ Separator(i)[2] = " "
  BY DEF Separator, Comma
<1> QED
  BY <1>2, <1>5, <1>6

(* There is such a list, and ArraysToString puts brackets around it.       *)
LEMMA ArraysToStringIs ==
  ASSUME NEW b \in Seq(Byte)
  PROVE  \E listed : /\ Lists(listed, b)
                     /\ ArraysToString(b) = <<"[">> \o listed[Len(b)] \o <<"]">>
<1> DEFINE I == 0 .. Len(b)
           D == 1 .. Len(b)
           S == Seq(Chars(b))
           body(i, x) == x \o Separator(i) \o Decimal(b[i])
           H == [p \in D \X S |-> body(p[1], p[2])]
           R == [i \in I |-> i]
           P == [i \in D |-> i - 1]
           B == [i \in I |-> <<>>]
<1>1. Len(b) \in Nat
  OBVIOUS
<1>2. H \in [D \X S -> S]
  <2> SUFFICES ASSUME NEW i \in D, NEW x \in S PROVE body(i, x) \in S
    OBVIOUS
  <2>1. Separator(i) \in S /\ Decimal(b[i]) \in S
    BY ItemChars
  <2> QED
    BY <2>1
<1>3. Reduces(P, D, I, R, Len(b)) /\ B \in [I -> S]
  BY <1>1 DEF Reduces
<1> DEFINE rec(g) == g = [i \in I |-> IF i = 0 THEN <<>> ELSE body(i, g[i - 1])]
<1>4. \E f : rec(f)
  <2>1. PICK f \in [I -> S] : Recurs(f, I, D, P, B, H)
    <3> HIDE DEF I, D, S, H, R, P, B
    <3> QED
      BY <1>1, <1>2, <1>3, Recursion
  <2>2. \A a \in I : f[a] = IF a \in D THEN H[<<a, f[P[a]]>>] ELSE B[a]
    BY <2>1 DEF Recurs
  <2>3. ASSUME NEW i \in I PROVE f[i] = IF i = 0 THEN <<>> ELSE body(i, f[i - 1])
    <3>1. CASE i = 0
      <4>1. i \notin D /\ B[i] = <<>>
        BY <3>1
      <4> QED
        BY <2>2, <3>1, <4>1
    <3>2. CASE i # 0
      <4>1. i \in D /\ P[i] = i - 1 /\ i - 1 \in I
        BY <1>1, <3>2
      <4>2. f[i - 1] \in S /\ <<i, f[i - 1]>> \in D \X S
        BY <4>1
      <4>3. H[<<i, f[i - 1]>>] = body(i, f[i - 1])
        BY <4>2
      <4> QED
        BY <2>2, <3>2, <4>1, <4>3
    <3> QED
      BY <3>1, <3>2
  <2>4. f = [i \in I |-> IF i = 0 THEN <<>> ELSE body(i, f[i - 1])]
    BY <2>3
  <2> QED
    BY <2>4
<1>5. PICK g : g = CHOOSE h : rec(h)
  OBVIOUS
<1>6. rec(g)
  BY <1>4, <1>5
<1>7. ArraysToString(b) = <<"[">> \o g[Len(b)] \o <<"]">>
  BY <1>5 DEF ArraysToString
<1>8. g[0] = <<>> /\ \A i \in D : g[i] = body(i, g[i - 1])
  <2>1. \A i \in D : i \in I /\ i # 0
    BY <1>1
  <2> QED
    BY <1>1, <1>6, <2>1
<1>9. \A i \in I : g[i] \in S
  <2>1. \A i \in I \ D : g[i] \in S
    <3>1. \A i \in I \ D : i = 0
      BY <1>1
    <3>2. g[0] \in S
      BY <1>8
    <3> QED
      BY <3>1, <3>2
  <2>2. ASSUME NEW i \in D, g[P[i]] \in S PROVE g[i] \in S
    <3>1. g[i] = body(i, g[P[i]])
      BY <1>8
    <3>2. Separator(i) \in S /\ Decimal(b[i]) \in S
      BY ItemChars
    <3> QED
      BY <2>2, <3>1, <3>2
  <2> HIDE DEF I, D, S, R, P
  <2> QED
    BY <1>1, <1>3, <2>1, <2>2, RecursionType
<1>10. g \in [I -> S]
  BY <1>6, <1>9
<1> QED
  BY <1>7, <1>8, <1>10 DEF Lists

----------------------------------------------------------------------------
(* Brackets around a list.                                                 *)
LEMMA Bracketed ==
  ASSUME NEW S, NEW L \in Seq(S), NEW x \in S, NEW y \in S
  PROVE  /\ <<x>> \o L \o <<y>> \in Seq(S)
         /\ Len(<<x>> \o L \o <<y>>) = Len(L) + 2
         /\ (<<x>> \o L \o <<y>>)[1] = x
         /\ (<<x>> \o L \o <<y>>)[Len(L) + 2] = y
         /\ \A i \in 1 .. Len(L) : (<<x>> \o L \o <<y>>)[i + 1] = L[i]
<1>1. <<x>> \in Seq(S) /\ <<y>> \in Seq(S) /\ Len(<<x>>) = 1 /\ Len(<<y>>) = 1
  OBVIOUS
<1>2. PICK h : h = <<x>> \o L
  OBVIOUS
<1>3. /\ h \in Seq(S) /\ Len(h) = Len(L) + 1 /\ Len(L) \in Nat
      /\ h[1] = x /\ \A i \in 1 .. Len(L) : h[i + 1] = L[i]
  <2>1. /\ h \in Seq(S) /\ Len(h) = 1 + Len(L) /\ Len(L) \in Nat
        /\ \A i \in 1 .. 1 + Len(L) : h[i] = IF i <= 1 THEN <<x>>[i] ELSE L[i - 1]
    BY <1>1, <1>2, ConcatProperties
  <2>2. h[1] = x
    BY <2>1
  <2>3. ASSUME NEW i \in 1 .. Len(L) PROVE h[i + 1] = L[i]
    <3>1. PICK j : j = i + 1
      OBVIOUS
    <3>2. j \in 1 .. 1 + Len(L) /\ ~(j <= 1) /\ j - 1 = i
      BY <2>1, <3>1
    <3> QED
      BY <2>1, <3>1, <3>2
  <2> QED
    BY <2>1, <2>2, <2>3
<1>4. PICK t : t = h \o <<y>>
  OBVIOUS
<1>5. /\ t \in Seq(S) /\ Len(t) = Len(h) + 1
      /\ \A i \in 1 .. Len(h) + 1 : t[i] = IF i <= Len(h) THEN h[i] ELSE <<y>>[i - Len(h)]
  BY <1>1, <1>3, <1>4, ConcatProperties
<1>6. t[1] = x /\ t[Len(L) + 2] = y
  <2>1. t[1] = x
    BY <1>3, <1>5
  <2>2. PICK k : k = Len(L) + 2
    OBVIOUS
  <2>3. k \in 1 .. Len(h) + 1 /\ ~(k <= Len(h)) /\ k - Len(h) = 1
    BY <1>3, <2>2
  <2> QED
    BY <1>5, <2>1, <2>2, <2>3
<1>7. ASSUME NEW i \in 1 .. Len(L) PROVE t[i + 1] = L[i]
  <2>1. PICK j : j = i + 1
    OBVIOUS
  <2>2. j \in 1 .. Len(h) + 1 /\ j <= Len(h)
    BY <1>3, <2>1
  <2> QED
    BY <1>3, <1>5, <2>1, <2>2
<1>8. Len(t) = Len(L) + 2
  BY <1>3, <1>5
<1> QED
  BY <1>2, <1>4, <1>5, <1>6, <1>7, <1>8

Brackets == {"[", "]"}

(* Nothing but the brackets is taken away.                                 *)
LEMMA WithoutBracketsIs ==
  ASSUME NEW L \in Seq(Char), \A i \in 1 .. Len(L) : L[i] \notin Brackets
  PROVE  WithoutBrackets[<<"[">> \o L \o <<"]">>] = L
<1>1. PICK s, n : s = <<"[">> \o L \o <<"]">> /\ n = Len(L)
  OBVIOUS
<1>2. /\ s \in Seq(Char) /\ Len(s) = n + 2 /\ n \in Nat
      /\ s[1] = "[" /\ s[n + 2] = "]" /\ \A i \in 1 .. n : s[i + 1] = L[i]
  <2>1. "[" \in Char /\ "]" \in Char
    BY DEF Char, Punctuation
  <2> QED
    BY <1>1, <2>1, Bracketed
<1> DEFINE F(i) == IF i = n + 2 THEN L ELSE SubSeq(L, 1, i - 1)
           I == 0 .. Len(s)
           body(i, x) == IF s[i] \in {"[", "]"} THEN x ELSE Append(x, s[i])
           rec(g) == g = [i \in I |-> IF i = 0 THEN <<>>
                                      ELSE IF s[i] \in {"[", "]"} THEN g[i - 1]
                                      ELSE Append(g[i - 1], s[i])]
<1>3. F(0) = <<>>
  <2>1. SubSeq(L, 1, 0 - 1) = <<>>
    BY SubSeqEmpty
  <2> QED
    BY <1>2, <2>1
<1>4. ASSUME NEW i \in 1 .. n + 2 PROVE F(i) = body(i, F(i - 1))
  <2>1. CASE i = 1
    <3>1. SubSeq(L, 1, 1 - 1) = <<>>
      BY SubSeqEmpty
    <3>2. F(i) = <<>>
      BY <1>2, <2>1, <3>1
    <3>3. F(i - 1) = F(0)
      BY <2>1
    <3>4. s[i] \in {"[", "]"}
      BY <1>2, <2>1
    <3> QED
      BY <1>3, <3>2, <3>3, <3>4
  <2>2. CASE i \in 2 .. n + 1
    <3>1. PICK k : k = i - 1
      OBVIOUS
    <3>2. k \in 1 .. n /\ i = k + 1 /\ k \in 1 .. Len(L) /\ 1 \in 1 .. Len(L) /\ k \in 1 .. Len(L)
      BY <1>1, <1>2, <2>2, <3>1
    <3>3. F(i) = SubSeq(L, 1, k) /\ F(k) = SubSeq(L, 1, k - 1)
      BY <1>2, <3>1, <3>2
    <3>4. SubSeq(L, 1, k) = SubSeq(L, 1, k - 1) \o <<L[k]>>
      BY <3>2, SubSeqRecursiveSecond
    <3>5. SubSeq(L, 1, k - 1) \in Seq(Char)
      BY <3>2, SubSeqProperties
    <3>6. Append(SubSeq(L, 1, k - 1), L[k]) = SubSeq(L, 1, k - 1) \o <<L[k]>>
      BY <3>2, <3>5, AppendIsConcat
    <3>7. s[i] = L[k] /\ L[k] \notin {"[", "]"}
      BY <1>2, <3>2 DEF Brackets
    <3> QED
      BY <3>1, <3>3, <3>4, <3>6, <3>7
  <2>3. CASE i = n + 2
    <3>1. SubSeq(L, 1, n) = L
      BY <1>1, SubSeqFull
    <3>2. F(i) = L /\ i - 1 = n + 1 /\ i - 1 # n + 2 /\ (i - 1) - 1 = n
      BY <1>2, <2>3
    <3>3. F(i - 1) = L
      BY <3>1, <3>2
    <3>4. s[i] \in {"[", "]"}
      BY <1>2, <2>3
    <3> QED
      BY <3>2, <3>3, <3>4
  <2> QED
    BY <1>2, <2>1, <2>2, <2>3
<1>5. \E g : rec(g)
  <2>1. PICK f : f = [i \in I |-> F(i)]
    OBVIOUS
  <2>2. ASSUME NEW i \in I
        PROVE  f[i] = IF i = 0 THEN <<>> ELSE body(i, f[i - 1])
    <3>1. CASE i = 0
      BY <1>3, <2>1, <3>1
    <3>2. CASE i # 0
      <4>1. i \in 1 .. n + 2 /\ i - 1 \in I
        BY <1>2, <3>2
      <4>2. f[i] = F(i) /\ f[i - 1] = F(i - 1)
        BY <2>1, <4>1
      <4>3. F(i) = body(i, F(i - 1))
        BY <1>4, <4>1
      <4> HIDE DEF F, body
      <4> QED
        BY <3>2, <4>2, <4>3
    <3> QED
      BY <3>1, <3>2
  <2>3. f = [i \in I |-> IF i = 0 THEN <<>> ELSE body(i, f[i - 1])]
    <3> HIDE DEF F, body
    <3> QED
      BY <2>1, <2>2
  <2> QED
    BY <2>3
<1>6. PICK g : g = CHOOSE h : rec(h)
  OBVIOUS
<1>7. rec(g)
  BY <1>5, <1>6
<1>8. WithoutBrackets[s] = g[Len(s)]
  BY <1>2, <1>6 DEF WithoutBrackets
<1> DEFINE Same == {k \in Nat : k \in I => g[k] = F(k)}
<1>9. 0 \in Same
  BY <1>2, <1>3, <1>7
<1>10. ASSUME NEW k \in Nat, k \in Same PROVE k + 1 \in Same
  <2> SUFFICES ASSUME k + 1 \in I PROVE g[k + 1] = F(k + 1)
    OBVIOUS
  <2>1. PICK i : i = k + 1
    OBVIOUS
  <2>2. i \in 1 .. n + 2 /\ i \in I /\ i - 1 = k /\ k \in I /\ i # 0
    BY <1>2, <2>1
  <2>3. g[i] = body(i, g[i - 1])
    BY <1>7, <2>2
  <2>4. F(i) = body(i, F(i - 1))
    BY <1>4, <2>2
  <2>5. g[k] = F(k)
    BY <1>10, <2>2
  <2> HIDE DEF F, body
  <2> QED
    BY <2>1, <2>2, <2>3, <2>4, <2>5
<1>11. n + 2 \in Same
  <2> HIDE DEF Same
  <2> QED
    BY <1>2, <1>9, <1>10, SetInduction
<1>12. g[n + 2] = L
  BY <1>2, <1>11
<1> QED
  BY <1>1, <1>2, <1>8, <1>12

----------------------------------------------------------------------------
(* The first place where sep occurs.                                       *)
LEMMA LeastOccurrence ==
  ASSUME NEW s \in Seq(Char), NEW sep \in Seq(Char), Len(sep) > 0,
         NEW a \in 1 .. Len(s) + 1, Occurrences(sep, s, a) # {}
  PROVE  LET i == Least(Occurrences(sep, s, a))
         IN  /\ i \in Occurrences(sep, s, a) /\ \A j \in Occurrences(sep, s, a) : i <= j
             /\ i \in a .. Len(s) /\ i + Len(sep) \in a + 1 .. Len(s) + 1
<1>1. Len(s) \in Nat /\ Len(sep) \in Nat
  OBVIOUS
<1>2. \A i \in Occurrences(sep, s, a) : i \in a .. Len(s) + 1 - Len(sep)
  BY DEF Occurrences
<1>3. Occurrences(sep, s, a) \subseteq Nat
  BY <1>1, <1>2
<1>4. \E i \in Occurrences(sep, s, a) : \A j \in Occurrences(sep, s, a) : i <= j
  BY <1>3, LeastNatural
<1>5. PICK i : i = Least(Occurrences(sep, s, a))
  OBVIOUS
<1>6. i \in Occurrences(sep, s, a) /\ \A j \in Occurrences(sep, s, a) : i <= j
  BY <1>4, <1>5 DEF Least
<1>7. i \in a .. Len(s) + 1 - Len(sep)
  BY <1>2, <1>6
<1>8. i \in a .. Len(s) /\ i + Len(sep) \in a + 1 .. Len(s) + 1
  BY <1>1, <1>7
<1> QED
  BY <1>5, <1>6, <1>8

(* What String.split does from the a-th character on.                      *)
SplitsFrom(from, sep, s) ==
  \A a \in 1 .. Len(s) + 1 :
    /\ from[a] \in Seq(Seq(Char))
    /\ Occurrences(sep, s, a) = {} => from[a] = <<SubSeq(s, a, Len(s))>>
    /\ \A i \in Occurrences(sep, s, a) :
         (\A j \in Occurrences(sep, s, a) : i <= j) =>
           /\ i + Len(sep) \in 1 .. Len(s) + 1
           /\ from[a] = <<SubSeq(s, a, i - 1)>> \o from[i + Len(sep)]

(* Pieces begins at the first character.                                   *)
LEMMA PiecesIs ==
  ASSUME NEW s \in Seq(Char), NEW sep \in Seq(Char), Len(sep) > 0
  PROVE  \E from : Pieces(sep, s) = from[1] /\ SplitsFrom(from, sep, s)
<1> DEFINE n == Len(sep)
           N == Len(s) + 1
           I == 1 .. N
           Found(a) == Occurrences(sep, s, a)
           D == {a \in I : Found(a) # {}}
           P == [a \in D |-> Least(Found(a)) + n]
           R == [a \in I |-> N - a]
           S == Seq(Seq(Char))
           B == [a \in I |-> <<SubSeq(s, a, Len(s))>>]
           body(a, x) == <<SubSeq(s, a, Least(Found(a)) - 1)>> \o x
           H == [p \in D \X S |-> body(p[1], p[2])]
<1>1. Len(s) \in Nat /\ N \in Nat /\ n \in Nat
  OBVIOUS
<1>2. \A a \in D : Least(Found(a)) \in a .. Len(s) /\ Least(Found(a)) + n \in a + 1 .. N
  BY LeastOccurrence
<1>3. \A a, i \in Int : a >= 1 /\ i <= Len(s) => SubSeq(s, a, i) \in Seq(Char)
  BY SubSeqProperties
<1>4. H \in [D \X S -> S]
  <2> SUFFICES ASSUME NEW a \in D, NEW x \in S PROVE body(a, x) \in S
    OBVIOUS
  <2>1. PICK t : t = SubSeq(s, a, Least(Found(a)) - 1)
    OBVIOUS
  <2>2. t \in Seq(Char)
    BY <1>1, <1>2, <1>3, <2>1
  <2>3. <<t>> \in S
    BY <2>2
  <2> QED
    BY <2>1, <2>3, ConcatProperties
<1>5. B \in [I -> S]
  <2> SUFFICES ASSUME NEW a \in I PROVE <<SubSeq(s, a, Len(s))>> \in S
    OBVIOUS
  <2>1. PICK t : t = SubSeq(s, a, Len(s))
    OBVIOUS
  <2>2. t \in Seq(Char)
    BY <1>1, <1>3, <2>1
  <2>3. <<t>> \in S
    BY <2>2
  <2> QED
    BY <2>1, <2>3
<1>6. Reduces(P, D, I, R, N)
  <2> HIDE DEF n, Found
  <2>1. D \subseteq I /\ P \in [D -> I] /\ R \in [I -> 0 .. N]
    BY <1>1, <1>2
  <2>2. ASSUME NEW a \in D PROVE R[P[a]] < R[a]
    <3>1. PICK k : k = P[a]
      OBVIOUS
    <3>2. k \in a + 1 .. N /\ a \in I
      BY <1>2, <3>1
    <3>3. R[k] = N - k /\ R[a] = N - a
      BY <1>1, <3>2
    <3> QED
      BY <1>1, <3>1, <3>2, <3>3
  <2> QED
    BY <2>1, <2>2 DEF Reduces
<1> DEFINE rec(g) == g = [a \in I |-> IF Occurrences(sep, s, a) = {} THEN <<SubSeq(s, a, Len(s))>>
                                      ELSE body(a, g[Least(Occurrences(sep, s, a)) + Len(sep)])]
<1>7. \E f : rec(f)
  <2>1. PICK f \in [I -> S] : Recurs(f, I, D, P, B, H)
    <3> HIDE DEF I, D, S, H, R, P, B, N
    <3> QED
      BY <1>1, <1>4, <1>5, <1>6, Recursion
  <2>2. \A a \in I : f[a] = IF a \in D THEN H[<<a, f[P[a]]>>] ELSE B[a]
    BY <2>1 DEF Recurs
  <2>3. ASSUME NEW a \in I
        PROVE  f[a] = IF Found(a) = {} THEN <<SubSeq(s, a, Len(s))>>
                      ELSE body(a, f[Least(Found(a)) + n])
    <3>1. CASE Found(a) = {}
      <4>1. a \notin D /\ B[a] = <<SubSeq(s, a, Len(s))>>
        BY <3>1
      <4> QED
        BY <2>2, <3>1, <4>1
    <3>2. CASE Found(a) # {}
      <4>1. a \in D
        BY <3>2
      <4>2. P[a] = Least(Found(a)) + n /\ P[a] \in I
        BY <1>6, <4>1 DEF Reduces
      <4>3. f[P[a]] \in S /\ <<a, f[P[a]]>> \in D \X S
        BY <4>1, <4>2
      <4>4. H[<<a, f[P[a]]>>] = body(a, f[P[a]])
        BY <4>3
      <4> HIDE DEF body, P, H, D
      <4> QED
        BY <2>2, <3>2, <4>1, <4>2, <4>4
    <3> QED
      BY <3>1, <3>2
  <2>4. rec(f)
    <3> HIDE DEF body
    <3> QED
      BY <2>3
  <2> QED
    BY <2>4
<1>8. PICK g : g = CHOOSE h : rec(h)
  OBVIOUS
<1>9. rec(g)
  BY <1>7, <1>8
<1>10. Pieces(sep, s) = g[1]
  BY <1>8 DEF Pieces
<1>11. /\ \A a \in I \ D : g[a] = <<SubSeq(s, a, Len(s))>>
       /\ \A a \in D : g[a] = body(a, g[Least(Found(a)) + n])
  <2> HIDE DEF body
  <2> QED
    BY <1>9
<1>12. \A a \in I : g[a] \in S
  <2>1. \A a \in I \ D : g[a] \in S
    <3> SUFFICES ASSUME NEW a \in I \ D PROVE g[a] \in S
      OBVIOUS
    <3>1. g[a] = B[a]
      BY <1>11
    <3> QED
      BY <1>5, <3>1
  <2>2. ASSUME NEW a \in D, g[P[a]] \in S PROVE g[a] \in S
    <3>1. PICK x : x = g[P[a]]
      OBVIOUS
    <3>2. g[a] = body(a, x) /\ H[<<a, x>>] = body(a, x) /\ <<a, x>> \in D \X S
      BY <1>11, <2>2, <3>1
    <3> QED
      BY <1>4, <3>2
  <2> HIDE DEF I, D, S, R, P, N
  <2> QED
    BY <1>1, <1>6, <2>1, <2>2, RecursionType
<1>13. ASSUME NEW a \in I, NEW i \in Found(a), \A j \in Found(a) : i <= j
       PROVE  i + n \in I /\ g[a] = <<SubSeq(s, a, i - 1)>> \o g[i + n]
  <2>1. a \in D
    OBVIOUS
  <2>2. PICK k : k = Least(Found(a))
    OBVIOUS
  <2>3. k \in Found(a) /\ \A j \in Found(a) : k <= j
    BY <2>1, <2>2, LeastOccurrence
  <2>4. k = i
    <3>1. Found(a) \subseteq Int
      BY <1>1 DEF Occurrences
    <3> QED
      BY <1>13, <2>3, <3>1
  <2>5. i + n \in a + 1 .. N
    BY <1>2, <2>1, <2>2, <2>4
  <2>6. i + n \in I
    BY <1>1, <2>5
  <2>7. g[a] = body(a, g[Least(Found(a)) + n])
    BY <1>11, <2>1
  <2> HIDE DEF I, n, Found
  <2> QED
    BY <2>2, <2>4, <2>7, <2>6
<1>14. SplitsFrom(g, sep, s)
  <2>1. \A a \in I : Found(a) = {} => g[a] = <<SubSeq(s, a, Len(s))>>
    BY <1>11
  <2> QED
    BY <1>12, <1>13, <2>1 DEF SplitsFrom
<1> QED
  BY <1>10, <1>14

----------------------------------------------------------------------------
(* Nothing is cut off behind a last piece that is not empty.               *)
LEMMA WithoutTrailingIs ==
  ASSUME NEW pieces \in Seq(Seq(Char)), pieces # <<>>, pieces[Len(pieces)] # <<>>
  PROVE  WithoutTrailing[pieces] = pieces
<1> DEFINE last(n) == /\ n = 0 \/ pieces[n] # <<>>
                      /\ \A k \in n + 1 .. Len(pieces) : pieces[k] = <<>>
<1>1. Len(pieces) \in Nat \ {0}
  BY EmptySeq
<1>2. PICK m : m = CHOOSE n \in 0 .. Len(pieces) : last(n)
  OBVIOUS
<1>3. Len(pieces) \in 0 .. Len(pieces) /\ last(Len(pieces))
  BY <1>1
<1>4. m \in 0 .. Len(pieces) /\ last(m)
  <2> HIDE DEF last
  <2> QED
    BY <1>2, <1>3
<1>5. m = Len(pieces)
  <2> SUFFICES ASSUME m # Len(pieces) PROVE FALSE
    OBVIOUS
  <2>1. Len(pieces) \in m + 1 .. Len(pieces)
    BY <1>1, <1>4
  <2> QED
    BY <1>4, <2>1
<1>6. WithoutTrailing[pieces] = SubSeq(pieces, 1, m)
  BY <1>2 DEF WithoutTrailing
<1> QED
  BY <1>5, <1>6, SubSeqFull

(* A string that begins with the separator, and has no other.              *)
LEMMA SplitFront ==
  ASSUME NEW s \in Seq(Char), NEW sep \in Seq(Char), Len(sep) > 0, Len(s) > Len(sep),
         Occurrences(sep, s, 1) = {1}
  PROVE  split(sep)[s] = <<<<>>, SubSeq(s, Len(sep) + 1, Len(s))>>
<1>1. PICK from : Pieces(sep, s) = from[1] /\ SplitsFrom(from, sep, s)
  BY PiecesIs
<1>2. PICK n, r : n = Len(sep) /\ r = SubSeq(s, n + 1, Len(s))
  OBVIOUS
<1>3. Len(s) \in Nat /\ n \in Nat /\ n > 0 /\ Len(s) > n
  BY <1>2
<1>4. r \in Seq(Char) /\ r # <<>>
  <2>1. r \in Seq(Char) /\ Len(r) = Len(s) - n
    BY <1>2, <1>3, SubSeqProperties
  <2> QED
    BY <1>3, <2>1
<1>5. Occurrences(sep, s, n + 1) = {}
  <2>1. Occurrences(sep, s, n + 1) \subseteq Occurrences(sep, s, 1)
    BY <1>2, <1>3 DEF Occurrences
  <2>2. 1 \notin Occurrences(sep, s, n + 1)
    BY <1>2, <1>3 DEF Occurrences
  <2> QED
    BY <2>1, <2>2
<1>6. from[n + 1] = <<r>>
  <2>1. n + 1 \in 1 .. Len(s) + 1
    BY <1>3
  <2> QED
    BY <1>1, <1>2, <1>5, <2>1 DEF SplitsFrom
<1>7. from[1] = <<SubSeq(s, 1, 0)>> \o from[n + 1]
  <2>1. 1 \in 1 .. Len(s) + 1 /\ 1 - 1 = 0 /\ 1 + n = n + 1
    BY <1>3
  <2>2. /\ 1 \in Occurrences(sep, s, 1)
        /\ \A j \in Occurrences(sep, s, 1) : 1 <= j
    OBVIOUS
  <2>3. from[1] = <<SubSeq(s, 1, 1 - 1)>> \o from[1 + Len(sep)]
    BY <1>1, <2>1, <2>2 DEF SplitsFrom
  <2> QED
    BY <1>2, <2>1, <2>3
<1>8. SubSeq(s, 1, 0) = <<>>
  BY SubSeqEmpty
<1>9. PICK p : p = <<<<>>, r>>
  OBVIOUS
<1>10. /\ p \in Seq(Seq(Char)) /\ Len(p) = 2 /\ p # <<>> /\ p[2] = r
       /\ Pieces(sep, s) = p
  <2>1. PICK e : e = <<>>
    OBVIOUS
  <2>2. e \in Seq(Char)
    BY <2>1
  <2>3. <<e>> \o <<r>> = <<e, r>> /\ <<e, r>> \in Seq(Seq(Char))
    <3>1. PICK S : S = Seq(Char)
      OBVIOUS
    <3>2. e \in S /\ r \in S
      BY <1>4, <2>2, <3>1
    <3>3. <<e, r>> \in Seq(S)
      BY <3>2
    <3>4. PICK u, v, w : u = <<e>> /\ v = <<r>> /\ w = <<e, r>>
      OBVIOUS
    <3>5. u \in Seq(S) /\ v \in Seq(S) /\ Len(u) = 1 /\ Len(v) = 1 /\ u[1] = e /\ v[1] = r
      BY <3>2, <3>4
    <3>6. w \in Seq(S) /\ Len(w) = 2 /\ w[1] = e /\ w[2] = r
      BY <3>3, <3>4
    <3>7. u \o v \in Seq(S) /\ Len(u \o v) = 2 /\ (u \o v)[1] = e /\ (u \o v)[2] = r
      <4>1. /\ u \o v \in Seq(S) /\ Len(u \o v) = Len(u) + Len(v)
            /\ \A i \in 1 .. Len(u) + Len(v) : (u \o v)[i] =
                   IF i <= Len(u) THEN u[i] ELSE v[i - Len(u)]
        BY <3>5, ConcatProperties
      <4> QED
        BY <3>5, <4>1
    <3>8. u \o v = w
      <4>1. \A i \in 1 .. Len(w) : w[i] = (u \o v)[i]
        BY <3>6, <3>7
      <4> QED
        BY <3>6, <3>7, <4>1, SeqEqual
    <3> QED
      BY <3>1, <3>3, <3>4, <3>8
  <2> QED
    BY <1>1, <1>6, <1>7, <1>8, <1>9, <2>1, <2>3
<1>11. WithoutTrailing[p] = p
  <2>1. p[Len(p)] # <<>>
    BY <1>4, <1>10
  <2> QED
    BY <1>10, <2>1, WithoutTrailingIs
<1>12. split(sep)[s] = p
  <2>1. split(sep)[s] = IF Len(Pieces(sep, s)) = 1 THEN <<s>> ELSE WithoutTrailing[Pieces(sep, s)]
    BY DEF split
  <2>2. Len(p) # 1
    BY <1>10
  <2> QED
    BY <1>10, <1>11, <2>1, <2>2
<1> QED
  BY <1>2, <1>9, <1>12

----------------------------------------------------------------------------
(* Where the i-th number of a list begins and ends.                        *)
Start(listed, i) == Len(listed[i - 1]) + Len(Separator(i)) + 1
End(listed, i) == Len(listed[i])

(* What the i-th number adds to a list.                                    *)
ItemAt(listed, b, i) ==
  /\ listed[i - 1] \in Seq(Chars(b)) /\ listed[i] \in Seq(Chars(b))
  /\ Start(listed, i) \in Nat /\ End(listed, i) \in Nat
  /\ Len(listed[i - 1]) < Start(listed, i)
  /\ End(listed, i) = Start(listed, i) + Len(Decimal(b[i])) - 1
  /\ Len(Decimal(b[i])) \in 1 .. 2
  /\ \A k \in 1 .. Len(listed[i - 1]) : listed[i][k] = listed[i - 1][k]
  /\ i = 1 => Start(listed, i) = 1
  /\ i # 1 => /\ Start(listed, i) = Len(listed[i - 1]) + 3
              /\ listed[i][Len(listed[i - 1]) + 1] = ","
              /\ listed[i][Len(listed[i - 1]) + 2] = " "
  /\ \A k \in 1 .. Len(Decimal(b[i])) :
       listed[i][Start(listed, i) + k - 1] = Decimal(b[i])[k]

(* The i-th number is added behind the list of those before it.            *)
LEMMA NextItem ==
  ASSUME NEW b \in Seq(Byte), NEW listed, Lists(listed, b), NEW i \in 1 .. Len(b)
  PROVE  ItemAt(listed, b, i)
<1>1. PICK x, y, sep, d :
        x = listed[i - 1] /\ y = listed[i] /\ sep = Separator(i) /\ d = Decimal(b[i])
  OBVIOUS
<1>2. x \in Seq(Chars(b)) /\ y \in Seq(Chars(b)) /\ y = x \o sep \o d
  <2>1. i - 1 \in 0 .. Len(b) /\ i \in 0 .. Len(b)
    OBVIOUS
  <2> QED
    BY <1>1, <2>1 DEF Lists
<1>3. /\ sep \in Seq(Chars(b)) /\ d \in Seq(Chars(b))
      /\ Len(sep) = IF i = 1 THEN 0 ELSE 2
      /\ i # 1 => sep[1] = "," /\ sep[2] = " "
  BY <1>1, ItemChars
<1>4. Len(d) \in 1 .. 2
  <2>1. b[i] \in Byte
    OBVIOUS
  <2>2. Numerals \subseteq Char /\ "-" \in Char
    BY DEF Char, Punctuation
  <2> QED
    BY <1>1, <2>1, <2>2, DecimalIs
<1>5. PICK h : h = x \o sep
  OBVIOUS
<1>6. /\ h \in Seq(Chars(b)) /\ Len(h) = Len(x) + Len(sep)
      /\ \A k \in 1 .. Len(x) + Len(sep) : h[k] = IF k <= Len(x) THEN x[k] ELSE sep[k - Len(x)]
  BY <1>2, <1>3, <1>5, ConcatProperties
<1>7. /\ Len(y) = Len(h) + Len(d)
      /\ \A k \in 1 .. Len(h) + Len(d) : y[k] = IF k <= Len(h) THEN h[k] ELSE d[k - Len(h)]
  <2>1. y = h \o d /\ h \in Seq(Chars(b)) /\ d \in Seq(Chars(b))
    BY <1>2, <1>3, <1>5, <1>6
  <2> QED
    BY <2>1, ConcatProperties
<1>8. Len(x) \in Nat /\ Len(sep) \in Nat /\ Len(h) \in Nat
  <2>1. x \in Seq(Chars(b)) /\ sep \in Seq(Chars(b)) /\ h \in Seq(Chars(b))
    BY <1>2, <1>3, <1>6
  <2> QED
    BY <2>1, LenProperties
<1>9. /\ Start(listed, i) = Len(h) + 1 /\ End(listed, i) = Len(y)
  BY <1>1, <1>6 DEF Start, End
<1>10. \A k \in 1 .. Len(x) : y[k] = x[k]
  <2> SUFFICES ASSUME NEW k \in 1 .. Len(x) PROVE y[k] = x[k]
    OBVIOUS
  <2>1. k \in 1 .. Len(h) + Len(d) /\ k <= Len(h) /\ k \in 1 .. Len(x) + Len(sep) /\ k <= Len(x)
    BY <1>4, <1>6, <1>8
  <2> QED
    BY <1>6, <1>7, <2>1
<1>11. ASSUME i # 1
       PROVE  Len(h) = Len(x) + 2 /\ y[Len(x) + 1] = "," /\ y[Len(x) + 2] = " "
  <2>1. Len(h) = Len(x) + 2
    BY <1>3, <1>6, <1>11
  <2>2. PICK k : k = Len(x) + 1
    OBVIOUS
  <2>3. /\ k \in 1 .. Len(h) + Len(d) /\ k <= Len(h)
        /\ k \in 1 .. Len(x) + Len(sep) /\ ~(k <= Len(x)) /\ k - Len(x) = 1
    BY <1>4, <1>6, <1>8, <2>1, <2>2
  <2>4. y[k] = ","
    BY <1>3, <1>6, <1>7, <1>11, <2>3
  <2>5. PICK j : j = Len(x) + 2
    OBVIOUS
  <2>6. /\ j \in 1 .. Len(h) + Len(d) /\ j <= Len(h)
        /\ j \in 1 .. Len(x) + Len(sep) /\ ~(j <= Len(x)) /\ j - Len(x) = 2
    BY <1>4, <1>6, <1>8, <2>1, <2>5
  <2>7. y[j] = " "
    BY <1>3, <1>6, <1>7, <1>11, <2>6
  <2> QED
    BY <2>1, <2>2, <2>4, <2>5, <2>7
<1>12. ASSUME NEW k \in 1 .. Len(d) PROVE y[Start(listed, i) + k - 1] = d[k]
  <2>1. PICK j : j = Start(listed, i) + k - 1
    OBVIOUS
  <2>2. j \in 1 .. Len(h) + Len(d) /\ ~(j <= Len(h)) /\ j - Len(h) = k
    BY <1>4, <1>8, <1>9, <2>1
  <2> QED
    BY <1>7, <2>1, <2>2
<1>13. End(listed, i) = Start(listed, i) + Len(d) - 1
  BY <1>4, <1>7, <1>8, <1>9
<1>14. Start(listed, i) \in Nat /\ End(listed, i) \in Nat /\ Len(x) < Start(listed, i)
  BY <1>4, <1>6, <1>7, <1>8, <1>9
<1>15. i # 1 => Start(listed, i) = Len(x) + 3
  <2> SUFFICES ASSUME i # 1 PROVE Start(listed, i) = Len(x) + 3
    OBVIOUS
  <2>1. Len(h) = Len(x) + 2
    BY <1>11
  <2> QED
    BY <1>8, <1>9, <2>1
<1>16. i = 1 => Start(listed, i) = 1
  <2> SUFFICES ASSUME i = 1 PROVE Start(listed, i) = 1
    OBVIOUS
  <2>1. x = <<>>
    BY <1>1 DEF Lists
  <2>2. Len(x) = 0
    BY <2>1
  <2> QED
    BY <1>3, <1>6, <1>9, <2>2
<1> QED
  BY <1>1, <1>2, <1>4, <1>10, <1>11, <1>12, <1>13, <1>14, <1>15, <1>16 DEF ItemAt

(* What has been listed stays.                                             *)
LEMMA ListedPrefix ==
  ASSUME NEW b \in Seq(Byte), NEW listed, Lists(listed, b), NEW j \in 0 .. Len(b)
  PROVE  \A k \in Nat : k \in j .. Len(b) =>
           /\ Len(listed[j]) <= Len(listed[k])
           /\ \A i \in 1 .. Len(listed[j]) : listed[k][i] = listed[j][i]
<1> DEFINE Kept(k) == /\ Len(listed[j]) <= Len(listed[k])
                      /\ \A i \in 1 .. Len(listed[j]) : listed[k][i] = listed[j][i]
           All == {k \in Nat : k \in j .. Len(b) => Kept(k)}
<1>1. Len(b) \in Nat /\ j \in Nat
  OBVIOUS
<1>2. \A k \in 0 .. Len(b) : Len(listed[k]) \in Nat
  <2> SUFFICES ASSUME NEW k \in 0 .. Len(b) PROVE Len(listed[k]) \in Nat
    OBVIOUS
  <2>1. listed[k] \in Seq(Chars(b))
    BY DEF Lists
  <2> QED
    BY <2>1, LenProperties
<1>3. Kept(j)
  BY <1>2
<1>4. 0 \in All
  <2>1. 0 \in j .. Len(b) => j = 0
    BY <1>1
  <2> QED
    BY <1>3, <2>1
<1>5. ASSUME NEW k \in Nat, k \in All PROVE k + 1 \in All
  <2> SUFFICES ASSUME k + 1 \in j .. Len(b) PROVE Kept(k + 1)
    OBVIOUS
  <2>1. CASE k + 1 = j
    BY <1>3, <2>1
  <2>2. CASE k + 1 # j
    <3>1. PICK n : n = k + 1
      OBVIOUS
    <3>2. n \in 1 .. Len(b) /\ n - 1 = k /\ k \in j .. Len(b) /\ k \in 0 .. Len(b)
      BY <1>1, <2>2, <3>1
    <3>3. /\ Len(listed[k]) < Start(listed, n) /\ Start(listed, n) \in Nat
          /\ End(listed, n) = Start(listed, n) + Len(Decimal(b[n])) - 1
          /\ Len(Decimal(b[n])) \in 1 .. 2
          /\ \A i \in 1 .. Len(listed[k]) : listed[n][i] = listed[k][i]
      <4>1. n \in 1 .. Len(b)
        BY <3>2
      <4>2. ItemAt(listed, b, n)
        BY <4>1, NextItem
      <4>3. /\ Len(listed[n - 1]) < Start(listed, n) /\ Start(listed, n) \in Nat
            /\ End(listed, n) = Start(listed, n) + Len(Decimal(b[n])) - 1
            /\ Len(Decimal(b[n])) \in 1 .. 2
            /\ \A i \in 1 .. Len(listed[n - 1]) : listed[n][i] = listed[n - 1][i]
        BY <4>2 DEF ItemAt
      <4> QED
        BY <3>2, <4>3
    <3>4. Len(listed[k]) <= Len(listed[n])
      BY <1>2, <3>2, <3>3 DEF End
    <3>5. Kept(k)
      BY <1>5, <3>2
    <3>6. Len(listed[j]) \in Nat /\ Len(listed[k]) \in Nat /\ Len(listed[n]) \in Nat
      BY <1>2, <3>2
    <3>7. Len(listed[j]) <= Len(listed[n])
      BY <3>4, <3>5, <3>6
    <3>8. ASSUME NEW i \in 1 .. Len(listed[j]) PROVE listed[n][i] = listed[j][i]
      <4>1. i \in 1 .. Len(listed[k])
        BY <3>5, <3>6
      <4> QED
        BY <3>3, <3>5, <4>1
    <3> QED
      BY <3>1, <3>7, <3>8
  <2> QED
    BY <2>1, <2>2
<1>6. \A k \in Nat : k \in All
  <2> HIDE DEF All
  <2> QED
    BY <1>4, <1>5, SetInduction
<1> QED
  BY <1>6

(* A decimal has no comma and no blank, and a minus only in front.         *)
LEMMA DecimalChars ==
  ASSUME NEW n \in Byte, NEW k \in 1 .. Len(Decimal(n))
  PROVE  /\ Decimal(n)[k] \notin {",", " ", "[", "]"}
         /\ Decimal(n)[k] = "-" => n < 0 /\ k = 1
         /\ n < 0 => Len(Decimal(n)) = 2 /\ Decimal(n)[2] \in Numerals
<1>1. PICK x : x = Numeral[Magnitude(n)]
  OBVIOUS
<1>2. x \in Numerals
  BY <1>1 DEF Numerals
<1>3. x \notin {",", " ", "[", "]", "-"}
  BY <1>2, NumeralAssumption DEF Punctuation
<1>4. n \in Int
  BY GCMAssumption
<1>5. CASE n < 0
  <2>1. Decimal(n) = <<"-", x>>
    BY <1>1, <1>5 DEF Decimal
  <2>2. Len(Decimal(n)) = 2 /\ Decimal(n)[1] = "-" /\ Decimal(n)[2] = x
    BY <2>1
  <2>3. k = 1 \/ k = 2
    BY <2>2
  <2> QED
    BY <1>2, <1>3, <1>5, <2>2, <2>3
<1>6. CASE ~(n < 0)
  <2>1. Decimal(n) = <<x>>
    BY <1>1, <1>6 DEF Decimal
  <2>2. Len(Decimal(n)) = 1 /\ Decimal(n)[1] = x
    BY <2>1
  <2>3. k = 1
    BY <2>2
  <2> QED
    BY <1>3, <1>6, <2>2, <2>3
<1> QED
  BY <1>5, <1>6

(* A minus in a list is followed by digits.                                *)
LEMMA MinusBeforeDigits ==
  ASSUME NEW b \in Seq(Byte), NEW listed, Lists(listed, b)
  PROVE  \A i \in 1 .. Len(listed[Len(b)]) : listed[Len(b)][i] = "-" =>
           i + 1 \in 1 .. Len(listed[Len(b)]) /\ listed[Len(b)][i + 1] \in Numerals
<1> DEFINE Signed(k) == \A i \in 1 .. Len(listed[k]) : listed[k][i] = "-" =>
                          i + 1 \in 1 .. Len(listed[k]) /\ listed[k][i + 1] \in Numerals
           All == {k \in Nat : k <= Len(b) => Signed(k)}
<1>1. Len(b) \in Nat
  OBVIOUS
<1>2. 0 \in All
  <2>1. Len(listed[0]) = 0
    BY DEF Lists
  <2> QED
    BY <2>1
<1>3. ASSUME NEW k \in Nat, k \in All PROVE k + 1 \in All
  <2> SUFFICES ASSUME k + 1 <= Len(b) PROVE Signed(k + 1)
    OBVIOUS
  <2>1. PICK n, x, y, d, start :
          /\ n = k + 1 /\ x = listed[n - 1] /\ y = listed[n]
          /\ d = Decimal(b[n]) /\ start = Start(listed, n)
    OBVIOUS
  <2>2. n \in 1 .. Len(b) /\ n - 1 = k /\ Signed(k) /\ b[n] \in Byte
    <3>1. n \in 1 .. Len(b) /\ n - 1 = k
      BY <1>1, <2>1
    <3>2. b[n] \in Byte
      BY <3>1
    <3>3. Signed(k)
      BY <1>1, <1>3
    <3> QED
      BY <3>1, <3>2, <3>3
  <2>3. /\ x \in Seq(Chars(b)) /\ y \in Seq(Chars(b)) /\ start \in Nat
        /\ Len(x) < start /\ Len(y) = start + Len(d) - 1 /\ Len(d) \in 1 .. 2
        /\ \A i \in 1 .. Len(x) : y[i] = x[i]
        /\ n = 1 => start = 1
        /\ n # 1 => start = Len(x) + 3 /\ y[Len(x) + 1] = "," /\ y[Len(x) + 2] = " "
        /\ \A i \in 1 .. Len(d) : y[start + i - 1] = d[i]
    <3>1. n \in 1 .. Len(b)
      BY <2>2
    <3>2. ItemAt(listed, b, n)
      <4> HIDE DEF All, Signed
      <4> QED
        BY <3>1, NextItem
    <3> QED
      BY <2>1, <3>2 DEF ItemAt, End
  <2>4. PICK lx, ly, ld : lx = Len(x) /\ ly = Len(y) /\ ld = Len(d)
    OBVIOUS
  <2>5. /\ lx \in Nat /\ ly \in Nat /\ ld \in 1 .. 2 /\ start \in Nat
        /\ lx < start /\ ly = start + ld - 1
        /\ n = 1 => start = 1
        /\ n # 1 => start = lx + 3
    BY <2>3, <2>4, LenProperties
  <2>6. ASSUME NEW i \in 1 .. Len(y), y[i] = "-"
        PROVE  i + 1 \in 1 .. Len(y) /\ y[i + 1] \in Numerals
    <3>1. CASE i <= Len(x)
      <4>1. i \in 1 .. Len(x) /\ x[i] = "-"
        <5>1. i \in 1 .. lx
          BY <2>4, <2>6, <2>5, <3>1
        <5> QED
          BY <2>3, <2>4, <2>6, <5>1
      <4>2. i + 1 \in 1 .. Len(x) /\ x[i + 1] \in Numerals
        BY <2>1, <2>2, <4>1
      <4>3. i + 1 \in 1 .. Len(y)
        BY <2>4, <2>5, <4>2
      <4> QED
        BY <2>3, <4>2, <4>3
    <3>2. CASE Len(x) < i /\ i < start
      <4>1. n # 1
        BY <2>4, <2>6, <2>5, <3>2
      <4>2. i = Len(x) + 1 \/ i = Len(x) + 2
        BY <2>4, <2>6, <2>5, <3>2, <4>1
      <4> QED
        BY <2>3, <2>6, <4>1, <4>2
    <3>3. CASE start <= i
      <4>1. PICK q : q = i - start + 1
        OBVIOUS
      <4>2. q \in 1 .. Len(d) /\ i = start + q - 1
        BY <2>4, <2>6, <2>5, <3>3, <4>1
      <4>3. d[q] = "-"
        BY <2>3, <2>6, <4>2
      <4>4. q = 1 /\ Len(d) = 2 /\ d[2] \in Numerals
        BY <2>1, <2>2, <4>2, <4>3, DecimalChars
      <4>5. i + 1 = start + 2 - 1 /\ 2 \in 1 .. Len(d) /\ i + 1 \in 1 .. Len(y)
        BY <2>4, <2>6, <2>5, <4>1, <4>4
      <4>6. y[start + 2 - 1] = d[2]
        BY <2>3, <4>5
      <4> QED
        BY <4>4, <4>5, <4>6
    <3> QED
      BY <2>4, <2>6, <2>5, <3>1, <3>2, <3>3
  <2> QED
    BY <2>1, <2>6
<1>4. Len(b) \in All
  <2> HIDE DEF All
  <2> QED
    BY <1>1, <1>2, <1>3, SetInduction
<1> QED
  BY <1>1, <1>4

(* The whole list, and where its numbers lie in it.                        *)
LEMMA ListIsChars ==
  ASSUME NEW b \in Seq(Byte), NEW listed, Lists(listed, b)
  PROVE  /\ listed[Len(b)] \in Seq(Chars(b)) /\ listed[Len(b)] \in Seq(Char)
         /\ \A i \in 1 .. Len(listed[Len(b)]) : listed[Len(b)][i] \notin Brackets
<1>1. listed[Len(b)] \in Seq(Chars(b))
  <2>1. Len(b) \in 0 .. Len(b)
    OBVIOUS
  <2> QED
    BY <2>1 DEF Lists
<1>2. Chars(b) \subseteq Char
  BY DEF Chars, Char, Punctuation
<1>3. listed[Len(b)] \in Seq(Char)
  BY <1>1, <1>2, SeqMonotonic
<1>4. \A c \in Chars(b) : c \notin Brackets
  BY NumeralAssumption DEF Chars, Brackets, Punctuation
<1>5. \A i \in 1 .. Len(listed[Len(b)]) : listed[Len(b)][i] \in Chars(b)
  BY <1>1, ElementOfSeq
<1> QED
  BY <1>1, <1>3, <1>4, <1>5

PlaceOf(L, listed, b, i) ==
  /\ Start(listed, i) \in 1 .. End(listed, i) /\ End(listed, i) \in 1 .. Len(L)
  /\ SubSeq(L, Start(listed, i), End(listed, i)) = Decimal(b[i])
  /\ \A k \in Start(listed, i) .. End(listed, i) : L[k] # ","

(* Every number has such a place.                                          *)
LEMMA Places ==
  ASSUME NEW b \in Seq(Byte), NEW listed, Lists(listed, b), NEW i \in 1 .. Len(b)
  PROVE  PlaceOf(listed[Len(b)], listed, b, i)
<1>1. PICK L, d, start, end :
        /\ L = listed[Len(b)] /\ d = Decimal(b[i])
        /\ start = Start(listed, i) /\ end = End(listed, i)
  OBVIOUS
<1>2. ItemAt(listed, b, i)
  BY NextItem
<1>3. /\ start \in Nat /\ end \in Nat /\ Len(listed[i - 1]) < start /\ listed[i - 1] \in Seq(Chars(b))
      /\ end = start + Len(d) - 1 /\ Len(d) \in 1 .. 2 /\ end = Len(listed[i])
      /\ \A k \in 1 .. Len(d) : listed[i][start + k - 1] = d[k]
  BY <1>1, <1>2 DEF ItemAt, End
<1>4. start \in 1 .. end
  <2>1. PICK before, n : before = Len(listed[i - 1]) /\ n = Len(d)
    OBVIOUS
  <2>2. before \in Nat
    BY <1>3, <2>1, LenProperties
  <2>3. before < start /\ start \in Nat /\ n \in 1 .. 2 /\ end = start + n - 1
    BY <1>3, <2>1
  <2> QED
    BY <2>2, <2>3
<1>5. end <= Len(L) /\ \A k \in 1 .. end : L[k] = listed[i][k]
  <2>1. i \in 0 .. Len(b) /\ Len(b) \in Nat /\ Len(b) \in i .. Len(b)
    OBVIOUS
  <2>2. \A n \in Nat : n \in i .. Len(b) =>
          /\ Len(listed[i]) <= Len(listed[n])
          /\ \A k \in 1 .. Len(listed[i]) : listed[n][k] = listed[i][k]
    BY <2>1, ListedPrefix
  <2> QED
    BY <1>1, <1>3, <2>1, <2>2
<1>6. Len(L) \in Nat
  <2>1. L \in Seq(Char)
    BY <1>1, ListIsChars
  <2> QED
    BY <2>1, LenProperties
<1>7. b[i] \in Byte
  OBVIOUS
<1>8. ASSUME NEW k \in 1 .. Len(d) PROVE L[start + k - 1] = d[k] /\ d[k] # ","
  <2>1. PICK j : j = start + k - 1
    OBVIOUS
  <2>2. j \in 1 .. end
    BY <1>3, <1>4, <2>1
  <2>3. d[k] # ","
    BY <1>1, <1>7, DecimalChars
  <2> QED
    BY <1>3, <1>5, <2>1, <2>2, <2>3
<1>9. ASSUME NEW k \in start .. end PROVE L[k] # ","
  <2>1. PICK j : j = k - start + 1
    OBVIOUS
  <2>2. j \in 1 .. Len(d) /\ k = start + j - 1
    BY <1>3, <1>4, <2>1
  <2> QED
    BY <1>8, <2>2
<1>10. SubSeq(L, start, end) = d
  <2>1. L \in Seq(Char)
    BY <1>1, ListIsChars
  <2>2. d \in Seq(Char)
    <3>1. Numerals \subseteq Char /\ "-" \in Char
      BY DEF Char, Punctuation
    <3> QED
      BY <1>1, <1>7, <3>1, DecimalIs
  <2>3. \A k \in start .. end : L[k] \in Char
    <3> SUFFICES ASSUME NEW k \in start .. end PROVE L[k] \in Char
      OBVIOUS
    <3>1. PICK m : m = Len(L)
      OBVIOUS
    <3>2. k \in 1 .. m
      BY <1>3, <1>4, <1>5, <1>6, <3>1
    <3> QED
      BY <2>1, <3>1, <3>2, ElementOfSeq
  <2>4. /\ SubSeq(L, start, end) \in Seq(Char)
        /\ Len(SubSeq(L, start, end)) = IF start <= end THEN end - start + 1 ELSE 0
        /\ \A k \in 1 .. end - start + 1 : SubSeq(L, start, end)[k] = L[start + k - 1]
    BY <1>3, <2>3, SubSeqProperties
  <2>5. end - start + 1 = Len(d) /\ start <= end
    BY <1>3, <1>4
  <2>6. \A k \in 1 .. Len(d) : d[k] = SubSeq(L, start, end)[k]
    BY <1>8, <2>4, <2>5
  <2>7. Len(d) = Len(SubSeq(L, start, end))
    BY <2>4, <2>5
  <2> QED
    BY <2>2, <2>4, <2>6, <2>7, SeqEqual
<1>11. end \in 1 .. Len(L)
  BY <1>3, <1>4, <1>5, <1>6
<1> QED
  BY <1>1, <1>4, <1>9, <1>10, <1>11 DEF PlaceOf

(* Where two numbers meet.                                                 *)
LEMMA BetweenPlaces ==
  ASSUME NEW b \in Seq(Byte), NEW listed, Lists(listed, b), NEW i \in 1 .. Len(b) - 1
  PROVE  LET L == listed[Len(b)]
             end == End(listed, i)
         IN  /\ Start(listed, i + 1) = end + 3 /\ end + 3 <= Len(L)
             /\ L[end + 1] = "," /\ L[end + 2] = " "
<1>1. PICK L, end, j : L = listed[Len(b)] /\ end = End(listed, i) /\ j = i + 1
  OBVIOUS
<1>2. j \in 1 .. Len(b) /\ j # 1 /\ j - 1 = i /\ j \in 0 .. Len(b) /\ Len(b) \in Nat
      /\ i \in 1 .. Len(b) /\ Len(b) \in j .. Len(b)
  BY <1>1
<1>3. ItemAt(listed, b, j) /\ PlaceOf(L, listed, b, j)
  BY <1>1, <1>2, NextItem, Places
<1>4. PlaceOf(L, listed, b, i)
  BY <1>1, <1>2, Places
<1>5. /\ Start(listed, j) = end + 3
      /\ listed[j][end + 1] = "," /\ listed[j][end + 2] = " "
  BY <1>1, <1>2, <1>3 DEF ItemAt, End
<1>6. \A k \in 1 .. End(listed, j) : L[k] = listed[j][k]
  BY <1>1, <1>2, ListedPrefix DEF End
<1>7. end \in Nat /\ end >= 1 /\ Len(L) \in Nat
      /\ End(listed, j) \in Int /\ end + 3 <= End(listed, j) /\ End(listed, j) <= Len(L)
  <2>1. L \in Seq(Char)
    BY <1>1, ListIsChars
  <2>2. Len(L) \in Nat
    BY <2>1, LenProperties
  <2>3. end \in 1 .. Len(L)
    BY <1>1, <1>4 DEF PlaceOf
  <2>4. end + 3 \in 1 .. End(listed, j) /\ End(listed, j) \in 1 .. Len(L)
    BY <1>3, <1>5 DEF PlaceOf
  <2> QED
    BY <2>2, <2>3, <2>4
<1>8. L[end + 1] = "," /\ L[end + 2] = " " /\ end + 3 <= Len(L)
  <2>1. PICK p, q : p = end + 1 /\ q = end + 2
    OBVIOUS
  <2>2. p \in 1 .. End(listed, j) /\ q \in 1 .. End(listed, j)
    BY <1>7, <2>1
  <2>3. L[p] = listed[j][p] /\ L[q] = listed[j][q]
    BY <1>6, <2>2
  <2>4. end + 3 <= Len(L)
    <3>1. PICK m, e : m = Len(L) /\ e = End(listed, j)
      OBVIOUS
    <3> QED
      BY <1>7, <3>1
  <2> QED
    BY <1>5, <2>1, <2>3, <2>4
<1> QED
  BY <1>1, <1>5, <1>8

(* The first comma behind the i-th number stands in front of the next one. *)
LEMMA ListOccurrences ==
  ASSUME NEW b \in Seq(Byte), NEW listed, Lists(listed, b), NEW i \in 1 .. Len(b)
  PROVE  LET found == Occurrences(Comma, listed[Len(b)], Start(listed, i))
             end == End(listed, i)
         IN  /\ i = Len(b) => found = {}
             /\ i # Len(b) => end + 1 \in found /\ \A k \in found : end + 1 <= k
<1>1. PICK L, start, end, m :
        /\ L = listed[Len(b)] /\ start = Start(listed, i) /\ end = End(listed, i)
        /\ m = Len(L)
  OBVIOUS
<1>2. PICK found : found = Occurrences(Comma, L, start)
  OBVIOUS
<1>3. L \in Seq(Char) /\ m \in Nat
  BY <1>1, ListIsChars, LenProperties
<1>4. start \in 1 .. end /\ end \in 1 .. m /\ \A k \in start .. end : L[k] # ","
  BY <1>1, Places DEF PlaceOf
<1>5. start \in 1 .. end /\ end \in 1 .. m
  BY <1>4
<1>6. /\ start \in Int /\ end \in Int /\ m \in Int
          /\ 1 <= start /\ start <= end /\ end <= m
  BY <1>3, <1>5
<1>7. \A k \in Int :
        k \in found <=> k \in start .. m + 1 - 2 /\ SubSeq(L, k, k + 2 - 1) = Comma
  BY <1>1, <1>2 DEF Occurrences, Comma
<1>8. ASSUME NEW k \in start .. m + 1 - 2
      PROVE  SubSeq(L, k, k + 2 - 1) = Comma <=> L[k] = "," /\ L[k + 1] = " "
  <2>1. PICK t, j : t = SubSeq(L, k, j) /\ j = k + 1
    OBVIOUS
  <2>2. k \in 1 .. m /\ j \in 1 .. m /\ k + 2 - 1 = j /\ k \in Int /\ j \in Int /\ j - k + 1 = 2 /\ k <= j
    BY <1>6, <2>1
  <2>3. \A x \in k .. j : L[x] \in Char
    <3>1. \A x \in 1 .. m : L[x] \in Char
      BY <1>1, <1>3, ElementOfSeq
    <3> QED
      BY <2>2, <3>1
  <2>4. /\ t \in Seq(Char) /\ Len(t) = IF k <= j THEN j - k + 1 ELSE 0
        /\ \A x \in 1 .. j - k + 1 : t[x] = L[k + x - 1]
    BY <2>1, <2>2, <2>3, SubSeqProperties
  <2>5. Len(t) = 2 /\ t[1] = L[k] /\ t[2] = L[j]
    <3>1. k + 1 - 1 = k /\ k + 2 - 1 = j
      BY <2>2
    <3> QED
      BY <2>2, <2>4, <3>1
  <2>6. t = Comma <=> t[1] = "," /\ t[2] = " "
    <3>1. PICK x, y, u : x = "," /\ y = " " /\ u = <<x, y>>
      OBVIOUS
    <3>2. x \in Char /\ y \in Char
      BY <3>1 DEF Char, Punctuation
    <3>3. u \in Seq(Char) /\ Len(u) = 2 /\ u[1] = x /\ u[2] = y
      <4>1. PICK T : T = Char
        OBVIOUS
      <4>2. x \in T /\ y \in T
        BY <3>2, <4>1
      <4>3. <<x, y>> \in Seq(T) /\ Len(<<x, y>>) = 2
        BY <4>2
      <4> QED
        BY <3>1, <4>1, <4>3
    <3>4. t[1] = x /\ t[2] = y => t = u
      <4> SUFFICES ASSUME t[1] = x, t[2] = y PROVE t = u
        OBVIOUS
      <4>1. \A z \in 1 .. Len(t) : t[z] = u[z]
        BY <2>5, <3>3
      <4> QED
        BY <2>4, <2>5, <3>3, <4>1, SeqEqual
    <3> QED
      BY <3>1, <3>3, <3>4 DEF Comma
  <2> QED
    BY <2>1, <2>2, <2>5, <2>6
<1>9. ASSUME NEW k \in found PROVE end + 1 <= k /\ k \in start .. m - 1
  <2>1. k \in Int
    BY <1>2 DEF Occurrences
  <2>2. k \in start .. m + 1 - 2 /\ SubSeq(L, k, k + 2 - 1) = Comma
    BY <1>7, <2>1
  <2>3. L[k] = ","
    BY <1>8, <2>2
  <2>4. k \notin start .. end
    BY <1>4, <2>3
  <2> QED
    BY <1>6, <2>2, <2>4
<1>10. CASE i = Len(b)
  <2>1. end = m
    BY <1>1, <1>10 DEF End
  <2>2. \A k \in found : FALSE
    <3> SUFFICES ASSUME NEW k \in found PROVE FALSE
      OBVIOUS
    <3>1. end + 1 <= k /\ k \in start .. m - 1
      BY <1>9
    <3> QED
      BY <1>6, <2>1, <3>1
  <2>3. found = {}
    BY <2>2
  <2> QED
    BY <1>1, <1>2, <1>10, <2>3
<1>11. CASE i # Len(b)
  <2>1. i \in 1 .. Len(b) - 1
    BY <1>11
  <2>2. end + 3 <= m /\ L[end + 1] = "," /\ L[end + 2] = " "
    BY <1>1, <2>1, BetweenPlaces
  <2>3. PICK k : k = end + 1
    OBVIOUS
  <2>4. end + 3 <= m
    BY <2>2
  <2>5. k \in start .. m + 1 - 2 /\ k + 1 = end + 2 /\ k \in Int
    BY <1>6, <2>3, <2>4
  <2>6. SubSeq(L, k, k + 2 - 1) = Comma
    BY <1>8, <2>2, <2>3, <2>5
  <2>7. k \in found
    BY <1>7, <2>5, <2>6
  <2> QED
    BY <1>1, <1>2, <1>9, <1>11, <2>3, <2>7
<1> QED
  BY <1>10, <1>11

(* A list is split into its numbers: into the last one, the last two ...   *)
NumbersFrom(p, b, i) ==
  /\ p \in Seq(Seq(Char)) /\ Len(p) = Len(b) - i + 1
  /\ \A k \in i .. Len(b) : p[k - i + 1] = Decimal(b[k])

(* One number in front of those that follow.                               *)
LEMMA OneMorePiece ==
  ASSUME NEW b \in Seq(Byte), NEW i \in 1 .. Len(b) - 1, NEW d, d = Decimal(b[i]),
         NEW p, NumbersFrom(p, b, i + 1)
  PROVE  NumbersFrom(<<d>> \o p, b, i)
<1>1. PICK m, u, q : m = Len(b) /\ u = <<d>> /\ q = u \o p
  OBVIOUS
<1>2. m \in Nat /\ i \in Nat /\ i >= 1 /\ i + 1 <= m
  BY <1>1
<1>3. d \in Seq(Char)
  <2>1. b[i] \in Byte
    OBVIOUS
  <2>2. Numerals \subseteq Char /\ "-" \in Char
    BY DEF Char, Punctuation
  <2> QED
    BY <2>1, <2>2, DecimalIs
<1>4. u \in Seq(Seq(Char)) /\ Len(u) = 1 /\ u[1] = d
  <2>1. PICK S : S = Seq(Char)
    OBVIOUS
  <2>2. <<d>> \in Seq(S)
    BY <1>3, <2>1
  <2> QED
    BY <1>1, <2>1, <2>2
<1>5. p \in Seq(Seq(Char)) /\ Len(p) = m - (i + 1) + 1
      /\ \A k \in i + 1 .. m : p[k - (i + 1) + 1] = Decimal(b[k])
  BY <1>1 DEF NumbersFrom
<1>6. /\ q \in Seq(Seq(Char)) /\ Len(q) = Len(u) + Len(p)
      /\ \A k \in 1 .. Len(u) + Len(p) : q[k] = IF k <= Len(u) THEN u[k] ELSE p[k - Len(u)]
  <2>1. PICK S : S = Seq(Char)
    OBVIOUS
  <2>2. u \in Seq(S) /\ p \in Seq(S) /\ q = u \o p
    <3>1. u \in Seq(Seq(Char))
      BY <1>4
    <3>2. p \in Seq(Seq(Char))
      BY <1>5
    <3> QED
      BY <1>1, <2>1, <3>1, <3>2
  <2>3. /\ q \in Seq(S) /\ Len(q) = Len(u) + Len(p)
        /\ \A k \in 1 .. Len(u) + Len(p) : q[k] = IF k <= Len(u) THEN u[k] ELSE p[k - Len(u)]
    BY <2>2, ConcatProperties
  <2> QED
    BY <2>1, <2>3
<1>7. PICK n : n = Len(p)
  OBVIOUS
<1>8. n = m - i /\ Len(q) = n + 1
  BY <1>2, <1>4, <1>5, <1>6, <1>7
<1>9. ASSUME NEW k \in i .. m PROVE q[k - i + 1] = Decimal(b[k])
  <2>1. PICK j : j = k - i + 1
    OBVIOUS
  <2>2. j \in 1 .. n + 1 /\ (j <= 1 => k = i) /\ (~(j <= 1) => k \in i + 1 .. m)
    BY <1>2, <1>8, <2>1
  <2>3. j \in 1 .. Len(u) + Len(p)
    BY <1>4, <1>7, <1>8, <2>2
  <2>4. CASE j <= 1
    <3>1. j = 1 /\ j <= Len(u) /\ k = i
      BY <1>4, <2>2, <2>4
    <3> QED
      BY <1>4, <1>6, <2>1, <2>3, <3>1
  <2>5. CASE ~(j <= 1)
    <3>1. k \in i + 1 .. m /\ ~(j <= Len(u)) /\ j - Len(u) = k - (i + 1) + 1
      BY <1>2, <1>4, <2>1, <2>2, <2>5
    <3> QED
      BY <1>5, <1>6, <2>1, <2>3, <3>1
  <2> QED
    BY <2>4, <2>5
<1>10. n + 1 = m - i + 1
  BY <1>2, <1>8
<1> QED
  BY <1>1, <1>6, <1>8, <1>9, <1>10 DEF NumbersFrom

(* Split at its commas, the list is cut into the decimals of its numbers:  *)
(* from the last one on, by induction.                                     *)
LEMMA SplitList ==
  ASSUME NEW b \in Seq(Byte), b # <<>>, NEW listed, Lists(listed, b)
  PROVE  NumbersFrom(split(Comma)[listed[Len(b)]], b, 1)
<1>1. PICK L, m : L = listed[Len(b)] /\ m = Len(b)
  OBVIOUS
<1>2. L \in Seq(Char) /\ m \in Nat \ {0}
  BY <1>1, ListIsChars, EmptySeq
<1>3. Comma \in Seq(Char) /\ Len(Comma) = 2
  <2>1. PICK T, x, y : T = Char /\ x = "," /\ y = " "
    OBVIOUS
  <2>2. x \in T /\ y \in T
    BY <2>1 DEF Char, Punctuation
  <2>3. <<x, y>> \in Seq(T) /\ Len(<<x, y>>) = 2
    BY <2>2
  <2> QED
    BY <2>1, <2>3 DEF Comma
<1>4. PICK from : Pieces(Comma, L) = from[1] /\ SplitsFrom(from, Comma, L)
  <2>1. Len(Comma) > 0
    BY <1>3
  <2> QED
    BY <1>2, <1>3, <2>1, PiecesIs
<1> DEFINE Right(i) == NumbersFrom(from[Start(listed, i)], b, i)
<1>5. ASSUME NEW i \in 1 .. m
      PROVE  /\ PlaceOf(L, listed, b, i) /\ Start(listed, i) \in 1 .. Len(L) + 1
             /\ Start(listed, i) \in Int /\ End(listed, i) \in Int
  <2>1. PlaceOf(L, listed, b, i)
    BY <1>1, Places
  <2>2. PICK s, e, l : s = Start(listed, i) /\ e = End(listed, i) /\ l = Len(L)
    OBVIOUS
  <2>3. s \in 1 .. e /\ e \in 1 .. l
    BY <2>1, <2>2 DEF PlaceOf
  <2>4. l \in Nat
    BY <1>2, <2>2, LenProperties
  <2>5. s \in 1 .. l + 1 /\ s \in Int /\ e \in Int
    BY <2>3, <2>4
  <2> QED
    BY <2>1, <2>2, <2>5
<1>6. Right(m)
  <2>1. m \in 1 .. m
    BY <1>2
  <2>2. Occurrences(Comma, L, Start(listed, m)) = {}
    BY <1>1, <2>1, ListOccurrences
  <2>3. from[Start(listed, m)] = <<SubSeq(L, Start(listed, m), Len(L))>>
    BY <1>4, <1>5, <2>1, <2>2 DEF SplitsFrom
  <2>4. SubSeq(L, Start(listed, m), Len(L)) = Decimal(b[m])
    BY <1>1, <1>5, <2>1 DEF PlaceOf, End
  <2>5. PICK d, p : d = Decimal(b[m]) /\ p = <<d>>
    OBVIOUS
  <2>6. from[Start(listed, m)] = p /\ Len(p) = 1 /\ p[1] = d
    BY <2>3, <2>4, <2>5
  <2>7. p \in Seq(Seq(Char))
    BY <1>4, <1>5, <2>1, <2>6 DEF SplitsFrom
  <2>8. ASSUME NEW k \in m .. Len(b) PROVE p[k - m + 1] = Decimal(b[k])
    <3>1. k = m /\ k - m + 1 = 1
      BY <1>1, <1>2
    <3> QED
      BY <2>5, <2>6, <3>1
  <2>9. Len(p) = Len(b) - m + 1
    BY <1>1, <1>2, <2>6
  <2> QED
    BY <2>6, <2>7, <2>8, <2>9 DEF NumbersFrom
<1>7. ASSUME NEW i \in 1 .. m - 1, Right(i + 1) PROVE Right(i)
  <2>1. i \in 1 .. m /\ i \in 1 .. Len(b) /\ i # Len(b) /\ i \in 1 .. Len(b) - 1
    BY <1>1, <1>2
  <2>2. PICK start, end, next :
          start = Start(listed, i) /\ end = End(listed, i) /\ next = Start(listed, i + 1)
    OBVIOUS
  <2>3. /\ end + 1 \in Occurrences(Comma, L, start)
        /\ \A k \in Occurrences(Comma, L, start) : end + 1 <= k
    BY <1>1, <2>1, <2>2, ListOccurrences
  <2>4. end \in Int /\ start \in 1 .. Len(L) + 1 /\ SubSeq(L, start, end) = Decimal(b[i])
    BY <1>5, <2>1, <2>2 DEF PlaceOf
  <2>5. next = end + 3
    BY <2>1, <2>2, BetweenPlaces
  <2>6. from[start] = <<SubSeq(L, start, (end + 1) - 1)>> \o from[end + 1 + Len(Comma)]
    BY <1>4, <2>3, <2>4 DEF SplitsFrom
  <2>7. (end + 1) - 1 = end /\ end + 1 + Len(Comma) = next
    BY <1>3, <2>4, <2>5
  <2>8. from[start] = <<Decimal(b[i])>> \o from[next]
    BY <2>4, <2>6, <2>7
  <2>9. NumbersFrom(from[next], b, i + 1)
    BY <1>7, <2>2
  <2>10. NumbersFrom(<<Decimal(b[i])>> \o from[next], b, i)
    BY <2>1, <2>9, OneMorePiece
  <2> QED
    BY <2>2, <2>8, <2>10
<1>8. Right(1)
  <2> HIDE DEF Right
  <2> DEFINE All == {r \in Nat : r < m => Right(m - r)}
  <2>1. 0 \in All
    <3>1. m - 0 = m
      BY <1>2
    <3> QED
      BY <1>6, <3>1
  <2>2. ASSUME NEW r \in Nat, r \in All PROVE r + 1 \in All
    <3> SUFFICES ASSUME r + 1 < m PROVE Right(m - (r + 1))
      OBVIOUS
    <3>1. PICK i : i = m - (r + 1)
      OBVIOUS
    <3>2. i \in 1 .. m - 1 /\ i + 1 = m - r /\ r < m
      BY <1>2, <3>1
    <3>3. Right(i + 1)
      BY <2>2, <3>2
    <3> QED
      BY <1>7, <3>1, <3>2, <3>3
  <2>3. \A r \in Nat : r \in All
    <3> HIDE DEF All
    <3> QED
      BY <2>1, <2>2, SetInduction
  <2>4. m - 1 \in Nat /\ m - 1 < m /\ m - (m - 1) = 1
    BY <1>2
  <2>5. m - 1 \in All
    BY <2>3, <2>4
  <2> QED
    BY <2>4, <2>5
<1>9. PICK p : p = from[1]
  OBVIOUS
<1>10. NumbersFrom(p, b, 1) /\ Start(listed, 1) = 1
  <2>1. 1 \in 1 .. Len(b)
    BY <1>1, <1>2
  <2>2. ItemAt(listed, b, 1)
    BY <2>1, NextItem
  <2>3. Start(listed, 1) = 1
    BY <2>2 DEF ItemAt
  <2> QED
    BY <1>8, <1>9, <2>3
<1>11. p \in Seq(Seq(Char)) /\ Len(p) = m /\ \A k \in 1 .. m : p[k] = Decimal(b[k])
  <2>1. p \in Seq(Seq(Char)) /\ Len(p) = m - 1 + 1
        /\ \A k \in 1 .. m : p[k - 1 + 1] = Decimal(b[k])
    BY <1>1, <1>10 DEF NumbersFrom
  <2>2. m - 1 + 1 = m /\ \A k \in 1 .. m : k - 1 + 1 = k
    BY <1>2
  <2> QED
    BY <2>1, <2>2
<1>12. split(Comma)[L] =
         IF Len(Pieces(Comma, L)) = 1 THEN <<L>> ELSE WithoutTrailing[Pieces(Comma, L)]
  BY <1>2 DEF split
<1>13. CASE m = 1
  <2>1. 1 \in 1 .. m
    BY <1>13
  <2>2. SubSeq(L, 1, Len(L)) = Decimal(b[1])
    BY <1>1, <1>5, <1>10, <1>13, <2>1 DEF PlaceOf, End
  <2>3. L = Decimal(b[1])
    BY <1>2, <2>2, SubSeqFull
  <2>4. p = <<L>>
    <3>1. PICK S, u : S = Seq(Char) /\ u = <<L>>
      OBVIOUS
    <3>2. u \in Seq(S) /\ Len(u) = 1 /\ u[1] = L
      BY <1>2, <3>1
    <3>3. \A k \in 1 .. Len(p) : p[k] = u[k]
      BY <1>11, <1>13, <2>3, <3>2
    <3>4. Len(p) = Len(u) /\ p \in Seq(S)
      BY <1>11, <1>13, <3>1, <3>2
    <3> QED
      BY <3>1, <3>2, <3>3, <3>4, SeqEqual
  <2>5. split(Comma)[L] = <<L>>
    BY <1>4, <1>9, <1>11, <1>12, <1>13
  <2> QED
    BY <1>1, <1>10, <2>4, <2>5
<1>14. CASE m # 1
  <2>1. p # <<>> /\ p[Len(p)] # <<>>
    <3>1. m \in 1 .. m /\ b[m] \in Byte
      BY <1>1, <1>2
    <3>2. Numerals \subseteq Char /\ "-" \in Char
      BY DEF Char, Punctuation
    <3>3. Len(Decimal(b[m])) # 0
      <4>1. PICK n : n = b[m]
        OBVIOUS
      <4>2. n \in Byte
        BY <3>1, <4>1
      <4>3. Len(Decimal(n)) = IF n < 0 THEN 2 ELSE 1
        BY <3>2, <4>2, DecimalIs
      <4> QED
        BY <4>1, <4>3
    <3>4. p[m] = Decimal(b[m]) /\ Len(p) # 0
      BY <1>2, <1>11, <3>1
    <3> QED
      BY <1>11, <3>3, <3>4
  <2>2. WithoutTrailing[p] = p
    BY <1>11, <2>1, WithoutTrailingIs
  <2>3. split(Comma)[L] = p
    BY <1>4, <1>9, <1>11, <1>12, <1>14, <2>2
  <2> QED
    BY <1>1, <1>10, <2>3
<1> QED
  BY <1>13, <1>14

----------------------------------------------------------------------------
(* Two bytes with the same decimal are equal: its length tells the sign.   *)
LEMMA DecimalInjective ==
  ASSUME NEW m \in Byte, NEW n \in Byte, Decimal(m) = Decimal(n)
  PROVE  m = n
<1>1. m \in Int /\ n \in Int
  BY GCMAssumption
<1>2. PICK x, y : x = Numeral[Magnitude(m)] /\ y = Numeral[Magnitude(n)]
  OBVIOUS
<1>3. Decimal(m) = (IF m < 0 THEN <<"-", x>> ELSE <<x>>)
      /\ Decimal(n) = (IF n < 0 THEN <<"-", y>> ELSE <<y>>)
  BY <1>2 DEF Decimal
<1>4. (m < 0 <=> n < 0) /\ x = y
  <2>1. PICK dash, u, v, p, q :
          dash = "-" /\ u = <<dash, x>> /\ v = <<dash, y>> /\ p = <<x>> /\ q = <<y>>
    OBVIOUS
  <2>2. u # q /\ p # v /\ (u = v => x = y) /\ (p = q => x = y)
    <3>1. Len(u) = 2 /\ Len(v) = 2 /\ Len(p) = 1 /\ Len(q) = 1
      BY <2>1
    <3>2. u[2] = x /\ v[2] = y /\ p[1] = x /\ q[1] = y
      BY <2>1
    <3> QED
      BY <3>1, <3>2
  <2>3. (IF m < 0 THEN u ELSE p) = IF n < 0 THEN v ELSE q
    BY <1>3, <2>1
  <2> QED
    BY <2>2, <2>3
<1>5. Magnitude(m) = Magnitude(n)
  BY <1>2, <1>4, NumeralAssumption
<1> QED
  BY <1>1, <1>4, <1>5 DEF Magnitude

(* Parsed one by one, the decimals give back the numbers.                  *)
LEMMA ParsesDecimals ==
  ASSUME NEW b \in Seq(Byte), b # <<>>, NEW nums, NumbersFrom(nums, b, 1)
  PROVE  ParsesTo[nums] = b
<1>1. PICK m : m = Len(b)
  OBVIOUS
<1>2. m \in Nat \ {0}
  BY <1>1, EmptySeq
<1>3. nums \in Seq(Seq(Char)) /\ Len(nums) = m /\ \A k \in 1 .. m : nums[k] = Decimal(b[k])
  <2>1. nums \in Seq(Seq(Char)) /\ Len(nums) = m - 1 + 1
        /\ \A k \in 1 .. m : nums[k - 1 + 1] = Decimal(b[k])
    BY <1>1 DEF NumbersFrom
  <2>2. m - 1 + 1 = m /\ \A k \in 1 .. m : k - 1 + 1 = k
    BY <1>2
  <2> QED
    BY <2>1, <2>2
<1>4. ASSUME NEW k \in 1 .. m PROVE IsNumber(nums[k]) /\ parseInt(nums[k]) = b[k]
  <2>1. PICK n : n = b[k]
    OBVIOUS
  <2>2. n \in Byte
    BY <1>1, <2>1
  <2>3. nums[k] = Decimal(n)
    BY <1>3, <2>1
  <2>4. IsNumber(nums[k])
    BY <2>2, <2>3 DEF IsNumber
  <2>5. \A i \in Byte : Decimal(i) = nums[k] => i = n
    BY <2>2, <2>3, DecimalInjective
  <2>6. parseInt(nums[k]) = n
    BY <2>2, <2>3, <2>5 DEF parseInt
  <2> QED
    BY <2>1, <2>4, <2>6
<1>5. nums # <<>>
  BY <1>2, <1>3
<1>6. ParsesTo[nums] = [i \in 1 .. m |-> parseInt(nums[i])]
  <2>1. ParsesTo[nums] = IF nums # <<>> /\ \A i \in 1 .. Len(nums) : IsNumber(nums[i])
                         THEN [i \in 1 .. Len(nums) |-> parseInt(nums[i])]
                         ELSE NullBytes
    BY <1>3 DEF ParsesTo
  <2> QED
    BY <1>3, <1>4, <1>5, <2>1
<1>7. b = [i \in 1 .. m |-> b[i]]
  BY <1>1
<1> QED
  BY <1>4, <1>6, <1>7

(* What can be told of an array's string.                                  *)
StringOf(A, b) ==
  /\ A \in Seq(Char) /\ Len(A) >= 2
  /\ NumbersFrom(split(Comma)[WithoutBrackets[A]], b, 1)
  /\ \A j \in 1 .. Len(A) : A[j] = "-" =>
       /\ j + 1 \in 1 .. Len(A) /\ A[j + 1] \in Numerals
       /\ \E i \in 1 .. Len(b) : b[i] < 0

(* It is so for every array that is not empty.                             *)
LEMMA StringIs ==
  ASSUME NEW b \in Seq(Byte), b # <<>>
  PROVE  StringOf(ArraysToString(b), b)
<1>1. PICK listed : Lists(listed, b) /\ ArraysToString(b) = <<"[">> \o listed[Len(b)] \o <<"]">>
  BY ArraysToStringIs
<1>2. PICK L, A, n : L = listed[Len(b)] /\ A = ArraysToString(b) /\ n = Len(L)
  OBVIOUS
<1>3. /\ L \in Seq(Char) /\ L \in Seq(Chars(b)) /\ n \in Nat
      /\ \A i \in 1 .. n : L[i] \notin Brackets
  BY <1>1, <1>2, ListIsChars, LenProperties
<1>4. /\ A \in Seq(Char) /\ Len(A) = n + 2 /\ A[1] = "[" /\ A[n + 2] = "]"
      /\ \A i \in 1 .. n : A[i + 1] = L[i]
  <2>1. PICK x, y, t : x = "[" /\ y = "]" /\ t = <<x>> \o L \o <<y>>
    OBVIOUS
  <2>2. x \in Char /\ y \in Char
    BY <2>1 DEF Char, Punctuation
  <2>3. /\ t \in Seq(Char) /\ Len(t) = Len(L) + 2
        /\ t[1] = x /\ t[Len(L) + 2] = y
        /\ \A i \in 1 .. Len(L) : t[i + 1] = L[i]
    BY <1>3, <2>1, <2>2, Bracketed
  <2>4. A = t
    BY <1>1, <1>2, <2>1
  <2> QED
    BY <1>2, <2>1, <2>3, <2>4
<1>5. NumbersFrom(split(Comma)[WithoutBrackets[A]], b, 1)
  <2>1. WithoutBrackets[A] = L
    BY <1>1, <1>2, <1>3, WithoutBracketsIs
  <2> QED
    BY <1>1, <1>2, <2>1, SplitList
<1>6. ASSUME NEW j \in 1 .. n + 2, A[j] = "-"
      PROVE  /\ j + 1 \in 1 .. n + 2 /\ A[j + 1] \in Numerals
             /\ \E i \in 1 .. Len(b) : b[i] < 0
  <2>1. PICK k : k = j - 1
    OBVIOUS
  <2>2. j # 1 /\ j # n + 2
    BY <1>4, <1>6
  <2>3. k \in 1 .. n /\ j = k + 1
    BY <1>3, <2>1, <2>2
  <2>4. L[k] = "-"
    BY <1>4, <1>6, <2>3
  <2>5. k + 1 \in 1 .. n /\ L[k + 1] \in Numerals
    BY <1>1, <1>2, <2>3, <2>4, MinusBeforeDigits
  <2>6. A[j + 1] = L[k + 1] /\ j + 1 \in 1 .. n + 2
    <3>1. PICK i : i = k + 1
      OBVIOUS
    <3>2. i \in 1 .. n /\ j + 1 = i + 1 /\ i + 1 \in 1 .. n + 2
      BY <1>3, <2>3, <2>5, <3>1
    <3> QED
      BY <1>4, <3>1, <3>2
  <2>7. "-" \in Chars(b)
    <3>1. L[k] \in Chars(b)
      BY <1>2, <1>3, <2>3, ElementOfSeq
    <3> QED
      BY <2>4, <3>1
  <2>8. "-" \notin Numerals
    BY NumeralAssumption DEF Punctuation
  <2>9. \E i \in 1 .. Len(b) : b[i] < 0
    BY <2>7, <2>8 DEF Chars
  <2> QED
    BY <2>5, <2>6, <2>9
<1>7. n + 2 >= 2
  BY <1>3
<1> QED
  BY <1>2, <1>4, <1>5, <1>6, <1>7 DEF StringOf

(* A line is a word's end and an array: split in front, it is read back.   *)
LEMMA ReadsArray ==
  ASSUME NEW b \in Seq(Byte), b # <<>>, NEW sep \in Seq(Char), Len(sep) > 0,
         Occurrences(sep, sep \o ArraysToString(b), 1) = {1}
  PROVE  ParseLine(sep \o ArraysToString(b), sep) = b
<1>1. PICK A, s : A = ArraysToString(b) /\ s = sep \o A
  OBVIOUS
<1>2. A \in Seq(Char) /\ Len(A) >= 2 /\ NumbersFrom(split(Comma)[WithoutBrackets[A]], b, 1)
  BY <1>1, StringIs DEF StringOf
<1>3. s \in Seq(Char) /\ Len(s) = Len(sep) + Len(A) /\ SubSeq(s, Len(sep) + 1, Len(s)) = A
  <2>1. s \in Seq(Char) /\ Len(s) = Len(sep) + Len(A)
    BY <1>1, <1>2, ConcatProperties
  <2>2. SubSeq(sep \o A, Len(sep) + 1, Len(sep \o A)) = A
    BY <1>2, ConcatSimplifications
  <2> QED
    BY <1>1, <2>1, <2>2
<1>4. Len(s) > Len(sep)
  <2>1. Len(sep) \in Nat /\ Len(A) \in Nat
    BY <1>2
  <2> QED
    BY <1>2, <1>3, <2>1
<1>5. split(sep)[s] = <<<<>>, A>>
  BY <1>1, <1>3, <1>4, SplitFront
<1>6. PICK S, x, parts : S = Seq(Char) /\ x = <<>> /\ parts = <<x, A>>
  OBVIOUS
<1>7. parts \in Seq(S) /\ Len(parts) = 2 /\ parts[2] = A
  <2>1. x \in S /\ A \in S
    BY <1>2, <1>6
  <2> QED
    BY <1>6, <2>1
<1>8. ParseParts[parts] = ParsesTo[split(Comma)[WithoutBrackets[A]]]
  <2>1. parts \in Seq(Seq(Char))
    BY <1>6, <1>7
  <2>2. ParseParts[parts] = IF Len(parts) < 2 THEN NullBytes
                            ELSE ParsesTo[split(Comma)[WithoutBrackets[parts[2]]]]
    BY <2>1 DEF ParseParts
  <2> QED
    BY <1>7, <2>2
<1>9. ParsesTo[split(Comma)[WithoutBrackets[A]]] = b
  BY <1>2, ParsesDecimals
<1> QED
  BY <1>1, <1>5, <1>6, <1>8, <1>9 DEF ParseLine

(* Of the minuses, the one in front of a key is the only one ...           *)
LEMMA KeyFront ==
  ASSUME NEW b \in Seq(Byte), b # <<>>, \A i \in 1 .. Len(b) : b[i] >= 0
  PROVE  Occurrences(<<"-">>, <<"-">> \o ArraysToString(b), 1) = {1}
<1>1. PICK A, x, sep, s, n :
        /\ A = ArraysToString(b) /\ x = "-" /\ sep = <<x>> /\ s = sep \o A
        /\ n = Len(A)
  OBVIOUS
<1>2. A \in Seq(Char) /\ n \in Nat /\ \A j \in 1 .. n : A[j] # x
  <2>1. StringOf(A, b)
    BY <1>1, StringIs
  <2>2. A \in Seq(Char)
    BY <2>1 DEF StringOf
  <2>3. n \in Nat
    BY <1>1, <2>2, LenProperties
  <2>4. ASSUME NEW j \in 1 .. n, A[j] = x PROVE FALSE
    <3>1. PICK i \in 1 .. Len(b) : b[i] < 0
      BY <1>1, <2>1, <2>4 DEF StringOf
    <3>2. PICK y : y = b[i]
      OBVIOUS
    <3>3. y \in Byte /\ y < 0 /\ y >= 0
      BY <3>1, <3>2
    <3>4. y \in Int
      BY <3>3, GCMAssumption
    <3> QED
      BY <3>3, <3>4
  <2> QED
    BY <2>2, <2>3, <2>4
<1>3. sep \in Seq(Char) /\ Len(sep) = 1 /\ sep[1] = x /\ x \in Char
  <2>1. x \in Char
    BY <1>1 DEF Char, Punctuation
  <2> QED
    BY <1>1, <2>1
<1>4. /\ s \in Seq(Char) /\ Len(s) = n + 1
      /\ s[1] = x /\ \A i \in 2 .. n + 1 : s[i] # x
  <2>1. /\ s \in Seq(Char) /\ Len(s) = 1 + n
        /\ \A i \in 1 .. 1 + n : s[i] = IF i <= 1 THEN sep[i] ELSE A[i - 1]
    BY <1>1, <1>2, <1>3, ConcatProperties
  <2>2. Len(s) = n + 1 /\ s[1] = x
    BY <1>2, <1>3, <2>1
  <2>3. ASSUME NEW i \in 2 .. n + 1 PROVE s[i] # x
    <3>1. i \in 1 .. 1 + n /\ ~(i <= 1) /\ i - 1 \in 1 .. n
      BY <1>2
    <3> QED
      BY <1>2, <2>1, <3>1
  <2> QED
    BY <2>1, <2>2, <2>3
<1>5. ASSUME NEW i \in 1 .. n + 1
      PROVE  SubSeq(s, i, i + Len(sep) - 1) = sep <=> s[i] = x
  <2>1. PICK t : t = SubSeq(s, i, i)
    OBVIOUS
  <2>2. i + Len(sep) - 1 = i /\ i \in Int /\ i - i + 1 = 1 /\ i + 1 - 1 = i
    BY <1>2, <1>3
  <2>3. s[i] \in Char
    BY <1>4, ElementOfSeq
  <2>4. \A k \in i .. i : s[k] \in Char
    BY <2>2, <2>3
  <2>5. /\ t \in Seq(Char) /\ Len(t) = IF i <= i THEN i - i + 1 ELSE 0
        /\ \A k \in 1 .. i - i + 1 : t[k] = s[i + k - 1]
    BY <2>1, <2>2, <2>4, SubSeqProperties
  <2>6. Len(t) = 1 /\ t[1] = s[i]
    BY <2>2, <2>5
  <2>7. t[1] = x => t = sep
    <3> SUFFICES ASSUME t[1] = x PROVE t = sep
      OBVIOUS
    <3>1. \A k \in 1 .. Len(t) : t[k] = sep[k]
      BY <1>3, <2>6
    <3> QED
      BY <1>3, <2>5, <2>6, <3>1, SeqEqual
  <2> QED
    BY <1>3, <2>1, <2>2, <2>6, <2>7
<1>6. Occurrences(sep, s, 1) =
        {i \in 1 .. n + 1 : SubSeq(s, i, i + Len(sep) - 1) = sep}
  <2>1. Len(s) + 1 - Len(sep) = n + 1
    BY <1>2, <1>3, <1>4
  <2> QED
    BY <2>1 DEF Occurrences
<1>7. Occurrences(sep, s, 1) = {1}
  <2>1. 1 \in 1 .. n + 1 /\ \A i \in 1 .. n + 1 : i = 1 \/ i \in 2 .. n + 1
    BY <1>2
  <2>2. \A i \in 1 .. n + 1 : SubSeq(s, i, i + Len(sep) - 1) = sep <=> i = 1
    BY <1>4, <1>5, <2>1
  <2> QED
    BY <1>6, <2>1, <2>2
<1> QED
  BY <1>1, <1>7

(* ... and the one in front of a text is the only one before a blank.      *)
LEMMA TextFront ==
  ASSUME NEW b \in Seq(Byte), b # <<>>
  PROVE  Occurrences(<<"-", " ">>, <<"-", " ">> \o ArraysToString(b), 1) = {1}
<1>1. PICK A, x, y, sep, s, n :
        /\ A = ArraysToString(b) /\ x = "-" /\ y = " " /\ sep = <<x, y>> /\ s = sep \o A
        /\ n = Len(A)
  OBVIOUS
<1>2. /\ A \in Seq(Char) /\ n \in Nat
      /\ \A j \in 1 .. n : A[j] = x => j + 1 \in 1 .. n /\ A[j + 1] # y
  <2>1. StringOf(A, b)
    BY <1>1, StringIs
  <2>2. A \in Seq(Char)
    BY <2>1 DEF StringOf
  <2>3. n \in Nat
    BY <1>1, <2>2, LenProperties
  <2>4. y \notin Numerals
    BY <1>1, NumeralAssumption DEF Punctuation
  <2>5. \A j \in 1 .. n : A[j] = x => j + 1 \in 1 .. n /\ A[j + 1] \in Numerals
    BY <1>1, <2>1 DEF StringOf
  <2> QED
    BY <2>2, <2>3, <2>4, <2>5
<1>3. sep \in Seq(Char) /\ Len(sep) = 2 /\ sep[1] = x /\ sep[2] = y /\ x # y
  <2>1. x \in Char /\ y \in Char /\ x # y
    BY <1>1 DEF Char, Punctuation
  <2>2. PICK T : T = Char
    OBVIOUS
  <2>3. <<x, y>> \in Seq(T) /\ Len(<<x, y>>) = 2 /\ <<x, y>>[1] = x /\ <<x, y>>[2] = y
    BY <2>1, <2>2
  <2> QED
    BY <1>1, <2>1, <2>2, <2>3
<1>4. /\ s \in Seq(Char) /\ Len(s) = n + 2 /\ s[1] = x /\ s[2] = y
      /\ \A i \in 3 .. n + 1 : ~(s[i] = x /\ s[i + 1] = y)
  <2>1. /\ s \in Seq(Char) /\ Len(s) = 2 + n
        /\ \A i \in 1 .. 2 + n : s[i] = IF i <= 2 THEN sep[i] ELSE A[i - 2]
    <3>1. sep \in Seq(Char) /\ A \in Seq(Char) /\ s = sep \o A
      BY <1>1, <1>2, <1>3
    <3>2. /\ s \in Seq(Char) /\ Len(s) = Len(sep) + Len(A)
          /\ \A i \in 1 .. Len(sep) + Len(A) :
               s[i] = IF i <= Len(sep) THEN sep[i] ELSE A[i - Len(sep)]
      BY <3>1, ConcatProperties
    <3>3. Len(sep) = 2 /\ Len(A) = n
      BY <1>1, <1>3
    <3> QED
      BY <3>2, <3>3
  <2>2. Len(s) = n + 2 /\ s[1] = x /\ s[2] = y
    BY <1>2, <1>3, <2>1
  <2>3. ASSUME NEW i \in 3 .. n + 1 PROVE ~(s[i] = x /\ s[i + 1] = y)
    <3>1. PICK j, k : j = i - 2 /\ k = i + 1
      OBVIOUS
    <3>2. /\ i \in 1 .. 2 + n /\ ~(i <= 2) /\ j \in 1 .. n
          /\ k \in 1 .. 2 + n /\ ~(k <= 2) /\ k - 2 = j + 1
      BY <1>2, <3>1
    <3>3. s[i] = A[j] /\ s[k] = A[j + 1]
      BY <2>1, <3>1, <3>2
    <3> QED
      BY <1>2, <3>1, <3>2, <3>3
  <2> QED
    BY <2>1, <2>2, <2>3
<1>5. ASSUME NEW i \in 1 .. n + 1
      PROVE  SubSeq(s, i, i + Len(sep) - 1) = sep <=> s[i] = x /\ s[i + 1] = y
  <2>1. PICK j, t : j = i + 1 /\ t = SubSeq(s, i, j)
    OBVIOUS
  <2>2. /\ i + Len(sep) - 1 = j /\ i \in Int /\ j \in Int /\ j - i + 1 = 2 /\ i <= j
        /\ i + 1 - 1 = i /\ i + 2 - 1 = j /\ i \in 1 .. n + 2 /\ j \in 1 .. n + 2
        /\ \A k \in i .. j : k \in 1 .. n + 2
    BY <1>2, <1>3, <2>1
  <2>3. \A k \in 1 .. n + 2 : s[k] \in Char
    BY <1>4, ElementOfSeq
  <2>4. \A k \in i .. j : s[k] \in Char
    BY <2>2, <2>3
  <2>5. /\ t \in Seq(Char) /\ Len(t) = IF i <= j THEN j - i + 1 ELSE 0
        /\ \A k \in 1 .. j - i + 1 : t[k] = s[i + k - 1]
    BY <2>1, <2>2, <2>4, SubSeqProperties
  <2>6. Len(t) = 2 /\ t[1] = s[i] /\ t[2] = s[j]
    <3>1. 1 \in 1 .. j - i + 1 /\ 2 \in 1 .. j - i + 1
      BY <2>2
    <3>2. t[1] = s[i + 1 - 1] /\ t[2] = s[i + 2 - 1]
      BY <2>5, <3>1
    <3> QED
      BY <2>2, <2>5, <3>2
  <2>7. t[1] = x /\ t[2] = y => t = sep
    <3> SUFFICES ASSUME t[1] = x, t[2] = y PROVE t = sep
      OBVIOUS
    <3>1. \A k \in 1 .. Len(t) : t[k] = sep[k]
      <4>1. \A k \in 1 .. 2 : k = 1 \/ k = 2
        OBVIOUS
      <4> QED
        BY <1>3, <2>6, <4>1
    <3> QED
      BY <1>3, <2>5, <2>6, <3>1, SeqEqual
  <2> QED
    BY <1>3, <2>1, <2>2, <2>6, <2>7
<1>6. Occurrences(sep, s, 1) =
        {i \in 1 .. n + 1 : SubSeq(s, i, i + Len(sep) - 1) = sep}
  <2>1. Len(s) + 1 - Len(sep) = n + 1
    BY <1>2, <1>3, <1>4
  <2> QED
    BY <2>1 DEF Occurrences
<1>7. Occurrences(sep, s, 1) = {1}
  <2>1. 1 \in 1 .. n + 1 /\ \A i \in 1 .. n + 1 : i = 1 \/ i = 2 \/ i \in 3 .. n + 1
    BY <1>2
  <2>2. ASSUME NEW i \in 1 .. n + 1 PROVE SubSeq(s, i, i + Len(sep) - 1) = sep <=> i = 1
    <3>1. CASE i = 1
      <4>1. s[i] = x /\ s[i + 1] = y
        BY <1>4, <3>1
      <4> QED
        BY <1>5, <3>1, <4>1
    <3>2. CASE i = 2
      <4>1. s[i] # x
        BY <1>3, <1>4, <3>2
      <4> QED
        BY <1>5, <3>2, <4>1
    <3>3. CASE i \in 3 .. n + 1
      <4>1. i # 1
        BY <3>3
      <4> QED
        BY <1>4, <1>5, <3>3, <4>1
    <3> QED
      BY <2>1, <3>1, <3>2, <3>3
  <2> QED
    BY <1>6, <2>1, <2>2
<1> QED
  BY <1>1, <1>7

----------------------------------------------------------------------------
(***************************************************************************)
(* The bytes behind "Expression- " and "Result- " are read as they were    *)
(* written by Client.java and Server.java, whatever their number and signs.*)
(***************************************************************************)
THEOREM BytesReadBack == \A b \in Seq(Byte) \ {<<>>} : BytesOf(TextPart(b)) = b
<1> SUFFICES ASSUME NEW b \in Seq(Byte), b # <<>> PROVE BytesOf(TextPart(b)) = b
  OBVIOUS
<1>1. PICK sep, x, y : sep = <<x, y>> /\ x = "-" /\ y = " "
  OBVIOUS
<1>2. sep \in Seq(Char) /\ Len(sep) > 0
  <2>1. PICK T : T = Char
    OBVIOUS
  <2>2. x \in T /\ y \in T
    BY <1>1, <2>1 DEF Char, Punctuation
  <2>3. <<x, y>> \in Seq(T) /\ Len(<<x, y>>) = 2
    BY <2>2
  <2>4. sep = <<x, y>>
    BY <1>1
  <2> QED
    BY <2>1, <2>3, <2>4
<1>3. Occurrences(sep, sep \o ArraysToString(b), 1) = {1}
  BY <1>1, TextFront
<1>4. ParseLine(sep \o ArraysToString(b), sep) = b
  BY <1>2, <1>3, ReadsArray
<1> QED
  BY <1>1, <1>4 DEF BytesOf, TextPart

(* So is the key behind "Success-", if none of its bytes is negative: the  *)
(* minus at which Client.java cuts the line must not occur in the key.     *)
THEOREM KeyReadBack ==
  \A k \in Keys : (\A i \in 1 .. KeyLength : k[i] >= 0) => KeyOf(KeyPart(k)) = k
<1> SUFFICES ASSUME NEW k \in Keys, \A i \in 1 .. KeyLength : k[i] >= 0
             PROVE  KeyOf(KeyPart(k)) = k
  OBVIOUS
<1>1. KeyLength \in Nat \ {0} /\ k \in [1 .. KeyLength -> Byte]
  BY GCMAssumption DEF Keys
<1>2. k \in Seq(Byte) /\ Len(k) = KeyLength
  BY <1>1
<1>3. k # <<>> /\ \A i \in 1 .. Len(k) : k[i] >= 0
  BY <1>1, <1>2
<1>4. PICK sep, x : sep = <<x>> /\ x = "-"
  OBVIOUS
<1>5. sep \in Seq(Char) /\ Len(sep) > 0
  <2>1. x \in Char
    BY <1>4 DEF Char, Punctuation
  <2> QED
    BY <1>4, <2>1
<1>6. Occurrences(sep, sep \o ArraysToString(k), 1) = {1}
  BY <1>2, <1>3, <1>4, KeyFront
<1>7. ParseLine(sep \o ArraysToString(k), sep) = k
  BY <1>2, <1>3, <1>5, <1>6, ReadsArray
<1> QED
  BY <1>4, <1>7 DEF KeyOf, KeyPart
=============================================================================
