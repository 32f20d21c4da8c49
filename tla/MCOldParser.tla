---------------------------- MODULE MCOldParser ----------------------------
(***************************************************************************)
(* The old parser against its grammar: all texts of up to AnyPieces pieces *)
(* of a small alphabet, and all well-formed ones of up to FormedTokens     *)
(* tokens.  The grammar is written with the left recursion the LL(1) rules *)
(* of the parser do without, and gives the value along with the tokens.    *)
(***************************************************************************)
EXTENDS OldParser

CONSTANTS
  AnyPieces, FormedTokens,
  Formed,          \* the phrases of the grammar, with their values
  FormedLists,     \* their tokens
  FormedKinds      \* the kinds of their tokens

MCAlphabet == {"2", "+", "-", "*", "/", "^", "(", ")", "log", "x", ".", "#", " "}

(* Any functions that differ will do, if one of them is sensitive to signs. *)
MCMathFn(f, v) == IF f = 12 THEN <<Abs(v[1]), v[2]>> ELSE Plus(v, Whole(f))

Token(id, seq) == <<[id |-> id, seq |-> seq]>>

(* A phrase: its tokens, whether it has a variable, and its value.         *)
Phrase(ts, unset, v) == [ts |-> ts, unset |-> unset, v |-> IF unset THEN NoNumber ELSE v]

Number(n) == Phrase(Token("NUMBER", <<ToString(n)>>), FALSE, Whole(n))
Named(x) == Phrase(Token("VARIABLE", <<x>>), TRUE, NoNumber)

Log(p) == Phrase(Token("FUNCTION", <<"log">>) \o p.ts, p.unset, MCMathFn(10, p.v))

Bracketed(p) ==
  Phrase(Token("OPEN_BRACKET", <<"(">>) \o p.ts \o Token("CLOSE_BRACKET", <<")">>), p.unset, p.v)

Sign(c, p) ==
  Phrase(Token("PLUSMINUS", <<c>>) \o p.ts, p.unset,
         IF c = "-" THEN Minus(Whole(0), p.v) ELSE p.v)

KindOf(c) == IF c \in {"+", "-"} THEN "PLUSMINUS" ELSE IF c = "^" THEN "RAISED" ELSE "MULTDIV"

Apply(c, x, y) ==
  CASE c = "+" -> Plus(x, y) [] c = "-" -> Minus(x, y) [] c = "*" -> Times(x, y)
    [] c = "/" -> Over(x, y) [] c = "^" -> Power(x, y)

Binary(L, ops, R) ==
  {Phrase(l.ts \o Token(KindOf(c), <<c>>) \o r.ts, l.unset \/ r.unset, Apply(c, l.v, r.v))
     : l \in L, c \in ops, r \in R}

Split(L(_), ops, R(_), n) == UNION {Binary(L(k), ops, R(n - 1 - k)) : k \in 1 .. n - 2}

WithSign(S(_), n) == IF n < 2 THEN {} ELSE {Sign(c, p) : c \in {"+", "-"}, p \in S(n - 1)}

RECURSIVE Sums(_), Products(_), Powers(_), Atoms(_)

Atoms(n) ==
  IF n = 1 THEN {Number(2), Number(3), Named("x")}
  ELSE {Log(a) : a \in Atoms(n - 1)} \union
       (IF n < 3 THEN {} ELSE {Bracketed(e) : e \in Sums(n - 2)})

Factors(n) == Powers(n) \union WithSign(Powers, n)

Powers(n) == Atoms(n) \union Split(Atoms, {"^"}, Factors, n)

Products(n) == Powers(n) \union Split(Products, {"*", "/"}, Factors, n)

Sums(n) == Products(n) \union WithSign(Products, n) \union Split(Sums, {"+", "-"}, Products, n)

(* Two operators, one of them in brackets: 7 tokens.                       *)
Ops == {"+", "-", "*", "/", "^"}
Brackets == {Bracketed(p) : p \in Binary(Atoms(1), Ops, Atoms(1))}
Nested == Binary(Brackets, Ops, Atoms(1)) \union Binary(Atoms(1), Ops, Brackets)

Phrases == Nested \union UNION {Sums(n) : n \in 1 .. FormedTokens}
MCFormed == {<<p.ts, p.unset, p.v>> : p \in Phrases}

MCFormedLists == {p[1] : p \in MCFormed}

(* The kinds of the tokens of a phrase, in order.                          *)
Kinds(ts) == [i \in DOMAIN ts |-> ts[i].id]
MCFormedKinds == {Kinds(p[1]) : p \in MCFormed}

(* A text whose tokens are ts: a blank keeps neighbours apart.             *)
Written(ts) == FlattenSeq([i \in DOMAIN ts |-> ts[i].seq \o <<" ">>])

MCTexts ==
  UNION {[1 .. n -> MCAlphabet] : n \in 0 .. AnyPieces} \union
  {Written(ts) : ts \in FormedLists}

----------------------------------------------------------------------------
(***************************************************************************)
(* parse accepts exactly what the grammar says, by the kinds of the tokens *)
(* alone.  A text it refuses ends in a ParserException, whatever is wrong  *)
(* with it; an accepted one in a value, or in an EvaluationException when  *)
(* it has a variable.  Only a text without tokens ends in an exception     *)
(* that Test_Main does not catch.                                          *)
(***************************************************************************)
AcceptsGrammar ==
  step = "done" /\ Len(tokens) <= FormedTokens =>
    LET accepted == Kinds(tokens) \in FormedKinds
        hasVariable == \E i \in DOMAIN tokens : tokens[i].id = "VARIABLE"
    IN  outcome.kind =
          CASE tokens = <<>> -> "NoSuchElementException"
            [] tokens # <<>> /\ ~accepted -> "ParserException"
            [] accepted /\ hasVariable -> "EvaluationException"
            [] accepted /\ ~hasVariable -> "value"

(***************************************************************************)
(* The value is that of the grammar: operators of a level apply from left  *)
(* to right, powers from right to left and before a sign, and that terms   *)
(* are added to an existing list, also to one that was in parentheses,     *)
(* changes nothing.                                                        *)
(***************************************************************************)
ValueOfGrammar ==
  outcome.kind = "value" /\ tokens \in FormedLists =>
    <<tokens, FALSE, outcome.value>> \in Formed

(***************************************************************************)
(* The loop of the tokenizer ends when every symbol belongs to a token.    *)
(* (A text with any other symbol is never refused: the loop does not end.) *)
(***************************************************************************)
Recognised ==
  \A i \in DOMAIN input :
    /\ input[i] # "#"
    /\ input[i] = "." => i < Len(input) /\ input[i + 1] \in Digit

TokenizingEnds == (step = "tokenize" /\ Recognised) ~> (step = "done")
=============================================================================
