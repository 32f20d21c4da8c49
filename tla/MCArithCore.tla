---------------------------- MODULE MCArithCore ----------------------------
(***************************************************************************)
(* The evaluator against a reference: the value of an expression by its    *)
(* grammar, split at the operator that binds last.  The inputs are all     *)
(* texts up to AnyLength over a few characters, and all well-formed ones   *)
(* up to FormedLength.                                                     *)
(***************************************************************************)
EXTENDS ArithCore

CONSTANTS AnyLength, FormedLength, MCDigits

Alphabet == MCDigits \union {"+", "-", "*", "/", "(", ")"}

Strings(n) == [1 .. n -> Alphabet]

(* Well-formed texts of exactly n characters, from the grammar.            *)
RECURSIVE Exprs(_), Terms(_), Factors(_)

Joined(L(_), ops, R(_), n) ==
  UNION {{l \o <<o>> \o r : l \in L(k), o \in ops, r \in R(n - 1 - k)} : k \in 1 .. n - 2}

Factors(n) ==
  [1 .. n -> MCDigits] \union
  (IF n < 3 THEN {} ELSE {<<"(">> \o e \o <<")">> : e \in Exprs(n - 2)})

Terms(n) == Factors(n) \union Joined(Terms, {"*"}, Factors, n)

Exprs(n) == Terms(n) \union Joined(Exprs, {"+", "-"}, Terms, n)

MCTexts ==
  UNION {Strings(n) : n \in 0 .. AnyLength} \union
  UNION {Exprs(n) : n \in 1 .. FormedLength}

FormedTexts == UNION {Exprs(n) : n \in 1 .. FormedLength}

LongTexts == {[i \in 1 .. 31 |-> IF i % 2 = 1 THEN "2" ELSE "+"]}

NoLeftover == {<<>>}
SomeLeftover == {<<>>, <<"1">>, <<"*">>}

----------------------------------------------------------------------------
AllDigits(s) == s # <<>> /\ \A i \in 1 .. Len(s) : IsDigit(s[i])

Depth(s, i) == CountIn(SubSeq(s, 1, i), "(") - CountIn(SubSeq(s, 1, i), ")")

TopLevel(s, ops) ==
  {i \in 2 .. Len(s) - 1 : s[i] \in ops /\ Depth(s, i) = 0}

(* The rightmost operator of the weakest kind at the top level, or 0.      *)
SplitAt(s) ==
  LET sums == TopLevel(s, {"+", "-"})
      products == TopLevel(s, {"*"})
      last(S) == CHOOSE i \in S : \A j \in S : j <= i
  IN  IF sums # {} THEN last(sums) ELSE IF products # {} THEN last(products) ELSE 0

Parenthesised(s) == Len(s) >= 3 /\ s[1] = "(" /\ s[Len(s)] = ")"
Inside(s) == SubSeq(s, 2, Len(s) - 1)
LeftOf(s, i) == SubSeq(s, 1, i - 1)
RightOf(s, i) == SubSeq(s, i + 1, Len(s))

RECURSIVE WellFormed(_)
WellFormed(s) ==
  \/ AllDigits(s)
  \/ LET i == SplitAt(s)
     IN  i # 0 /\ WellFormed(LeftOf(s, i)) /\ WellFormed(RightOf(s, i))
  \/ SplitAt(s) = 0 /\ Parenthesised(s) /\ WellFormed(Inside(s))

RECURSIVE Numeral(_), ValueOf(_)
Numeral(s) ==
  IF s = <<>> THEN 0 ELSE 10 * Numeral(Front(s)) + DigitOf(Last(s))

(* The value as an integer of any size.                                    *)
ValueOf(s) ==
  LET i == SplitAt(s)
  IN  IF AllDigits(s) THEN Numeral(s)
      ELSE IF i = 0 THEN ValueOf(Inside(s))
      ELSE LET l == ValueOf(LeftOf(s, i))
               r == ValueOf(RightOf(s, i))
           IN  CASE s[i] = "+" -> l + r
                 [] s[i] = "-" -> l - r
                 [] s[i] = "*" -> l * r

(***************************************************************************)
(* Being well-formed by what stands next to what (ArithCore), by splitting *)
(* (above) and by the grammar are the same.                                *)
(***************************************************************************)
ASSUME FormedIsGrammar ==
  /\ \A s \in MCTexts : Formed(s) <=> WellFormed(s)
  /\ \A n \in 1 .. AnyLength + 1 : {s \in Strings(n) : Formed(s)} = Exprs(n)

(***************************************************************************)
(* The parts of a text that are expressions, with the one value of each.   *)
(***************************************************************************)
PartsOf(s, kind(_)) ==
  LET places == {p \in (1 .. Len(s)) \X (1 .. Len(s)) :
                   p[1] <= p[2] /\ WellFormed(SubSeq(s, p[1], p[2]))
                     /\ kind(SubSeq(s, p[1], p[2]))}
  IN  {Part(p[1], p[2], ValueOf(SubSeq(s, p[1], p[2]))) : p \in places}

MeaningOf(s) ==
  LET everything(u) == TRUE
      isTerm(u) == TopLevel(u, {"+", "-"}) = {}
      isFactor(u) == SplitAt(u) = 0
  IN  [expr |-> PartsOf(s, everything), term |-> PartsOf(s, isTerm),
       factor |-> PartsOf(s, isFactor)]

MCMeaning == [s \in FormedTexts |-> MeaningOf(s)]
NoMeaning == <<>>

(***************************************************************************)
(* The client asks for "an Arithmetic Expression containing only [0-9],    *)
(* [*,+,-] and parentheses", of any length: every one is evaluated.        *)
(***************************************************************************)
PromptIsHonoured == WellFormed(text) /\ rest = <<>> => stage # "undefined"
=============================================================================
