----------------------------- MODULE Induction -----------------------------
(***************************************************************************)
(* Induction over the naturals, and functions defined by recursion.  The   *)
(* library states both for operators, which no prover here instantiates;   *)
(* for sets and functions they follow from the order of Nat being well     *)
(* founded.                                                                *)
(***************************************************************************)
EXTENDS Integers, WellFoundedInduction, TLAPS

LEMMA LeastNatural ==
  ASSUME NEW T, T \subseteq Nat, T # {}
  PROVE  \E m \in T : \A k \in T : m <= k
<1>1. PICK x \in T : \A y \in T : ~(<<y, x>> \in OpToRel(<, Nat))
  BY WFMin, NatLessThanWellFounded, Zenon
<1>2. \A y \in T : ~(y < x)
  BY <1>1, Zenon DEF OpToRel
<1> QED
  BY <1>2

LEMMA SetInduction ==
  ASSUME NEW S, 0 \in S, \A n \in Nat : n \in S => n + 1 \in S
  PROVE  \A n \in Nat : n \in S
<1> SUFFICES ASSUME NEW bad \in Nat, bad \notin S PROVE FALSE
  OBVIOUS
<1> DEFINE T == {n \in Nat : n \notin S}
<1>1. T # {} /\ T \subseteq Nat
  OBVIOUS
<1>2. \A n \in T : n \in Nat /\ n # 0 /\ n - 1 \in T
  <2> SUFFICES ASSUME NEW n \in T PROVE n \in Nat /\ n # 0 /\ n - 1 \in T
    OBVIOUS
  <2>1. n \in Nat /\ n # 0 /\ n \notin S
    OBVIOUS
  <2>2. n - 1 \in Nat /\ n - 1 + 1 = n
    BY <2>1
  <2>3. n - 1 \notin S
    BY <2>1, <2>2
  <2> QED
    BY <2>1, <2>2, <2>3
<1> HIDE DEF T
<1>3. PICK m \in T : \A k \in T : m <= k
  BY <1>1, LeastNatural
<1>4. m \in Nat /\ m - 1 \in T
  BY <1>2, <1>3
<1>5. m <= m - 1
  BY <1>3, <1>4
<1> QED
  BY <1>4, <1>5

(***************************************************************************)
(* Recursive functions: f[a] is B[a], or for a in D made by H of a and     *)
(* f[P[a]].  Each P[a] is of a lower rank R than a.                        *)
(***************************************************************************)
Reduces(P, D, I, R, N) ==
  /\ D \subseteq I /\ P \in [D -> I] /\ R \in [I -> 0 .. N]
  /\ \A a \in D : R[P[a]] < R[a]

Recurs(f, I, D, P, B, H) ==
  \A a \in I : f[a] = IF a \in D THEN H[<<a, f[P[a]]>>] ELSE B[a]

(* There is such a function: by induction there is one that obeys the      *)
(* rules for the arguments of rank below k.                                *)
LEMMA Recursion ==
  ASSUME NEW N \in Nat, NEW I, NEW R, NEW D, NEW P, Reduces(P, D, I, R, N),
         NEW S, NEW B \in [I -> S], NEW H \in [D \X S -> S]
  PROVE  \E f \in [I -> S] : Recurs(f, I, D, P, B, H)
<1> USE DEF Reduces, Recurs
<1> DEFINE Below(k) == {a \in I : R[a] < k}
           Good(f, k) == \A a \in Below(k) :
                           f[a] = IF a \in D THEN H[<<a, f[P[a]]>>] ELSE B[a]
           Found == {k \in Nat : \E f \in [I -> S] : Good(f, k)}
<1>1. 0 \in Found
  <2>1. Below(0) = {}
    OBVIOUS
  <2> QED
    BY <2>1
<1>2. ASSUME NEW k \in Nat, k \in Found PROVE k + 1 \in Found
  <2>1. PICK f \in [I -> S] : Good(f, k)
    BY <1>2
  <2> DEFINE g == [a \in I |-> IF a \in Below(k) THEN f[a]
                               ELSE IF a \in D THEN H[<<a, f[P[a]]>>] ELSE B[a]]
  <2>2. g \in [I -> S]
    <3> SUFFICES ASSUME NEW a \in I
        PROVE (IF a \in Below(k) THEN f[a]
               ELSE IF a \in D THEN H[<<a, f[P[a]]>>] ELSE B[a]) \in S
      OBVIOUS
    <3>1. a \in D => P[a] \in I /\ f[P[a]] \in S /\ <<a, f[P[a]]>> \in D \X S
      OBVIOUS
    <3>2. a \in D => H[<<a, f[P[a]]>>] \in S
      BY <3>1
    <3> QED
      BY <3>2
  <2>3. ASSUME NEW a \in Below(k + 1)
        PROVE  g[a] = IF a \in D THEN H[<<a, g[P[a]]>>] ELSE B[a]
    <3>1. a \in I /\ R[a] \in Nat /\ R[a] < k + 1
      OBVIOUS
    <3>2. a \in D => P[a] \in Below(k)
      <4> SUFFICES ASSUME a \in D PROVE P[a] \in Below(k)
        OBVIOUS
      <4>1. P[a] \in I /\ R[P[a]] \in Nat /\ R[P[a]] < R[a]
        OBVIOUS
      <4>2. R[P[a]] < k
        BY <3>1, <4>1
      <4> QED
        BY <4>1, <4>2
    <3>3. a \in D => g[P[a]] = f[P[a]]
      BY <3>2
    <3>4. g[a] = IF a \in D THEN H[<<a, f[P[a]]>>] ELSE B[a]
      <4>1. CASE a \in Below(k)
        <5>1. g[a] = f[a]
          BY <3>1, <4>1
        <5> QED
          BY <2>1, <4>1, <5>1
      <4>2. CASE a \notin Below(k)
        BY <3>1, <4>2
      <4> QED
        BY <4>1, <4>2
    <3> QED
      BY <3>3, <3>4
  <2> HIDE DEF g
  <2>4. Good(g, k + 1)
    BY <2>3
  <2> QED
    BY <2>2, <2>4
<1> HIDE DEF Found
<1>3. N + 1 \in Found
  BY <1>1, <1>2, SetInduction
<1>4. PICK f \in [I -> S] : Good(f, N + 1)
  BY <1>3 DEF Found
<1>5. \A a \in I : a \in Below(N + 1)
  OBVIOUS
<1> QED
  BY <1>4, <1>5

(* Each of its values is in S when each comes from one in S.               *)
LEMMA RecursionType ==
  ASSUME NEW N \in Nat, NEW I, NEW R, NEW D, NEW P, Reduces(P, D, I, R, N), NEW S,
         NEW g, \A a \in I \ D : g[a] \in S, \A a \in D : g[P[a]] \in S => g[a] \in S
  PROVE  \A a \in I : g[a] \in S
<1> USE DEF Reduces
<1> DEFINE Typed == {k \in Nat : \A a \in I : R[a] < k => g[a] \in S}
<1>1. 0 \in Typed
  OBVIOUS
<1>2. ASSUME NEW k \in Nat, k \in Typed PROVE k + 1 \in Typed
  <2> SUFFICES ASSUME NEW a \in I, R[a] < k + 1 PROVE g[a] \in S
    OBVIOUS
  <2>1. CASE a \in D
    <3>1. P[a] \in I /\ R[P[a]] \in Nat /\ R[a] \in Nat /\ R[P[a]] < R[a]
      BY <2>1
    <3>2. R[P[a]] < k
      BY <3>1
    <3>3. g[P[a]] \in S
      BY <1>2, <3>1, <3>2
    <3> QED
      BY <2>1, <3>3
  <2>2. CASE a \notin D
    BY <2>2
  <2> QED
    BY <2>1, <2>2
<1> HIDE DEF Typed
<1>3. N + 1 \in Typed
  BY <1>1, <1>2, SetInduction
<1>4. ASSUME NEW a \in I PROVE g[a] \in S
  <2>1. R[a] < N + 1
    OBVIOUS
  <2> QED
    BY <1>3, <2>1 DEF Typed
<1> QED
  BY <1>4
=============================================================================
