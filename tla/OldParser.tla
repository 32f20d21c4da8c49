----------------------------- MODULE OldParser -----------------------------
(***************************************************************************)
(* The parser the project began with (Old_Parser, in Java): a tokenizer    *)
(* driven by a list of regular expressions, a recursive descent parser,    *)
(* and nodes that know their value.                                        *)
(*                                                                         *)
(* A text is a sequence of pieces: a digit, an operator, a blank, or a     *)
(* stretch of letters.  Neighbouring pieces of a word make one token, as   *)
(* <<"log", "2">> does.  Doubles are exact fractions <<n, d>>; infinities  *)
(* and NaN, and what a fraction cannot say, are the one value NoNumber.    *)
(* Exponents of number tokens (2E3) are left out.                          *)
(***************************************************************************)
EXTENDS Integers, Sequences, SequencesExt

CONSTANTS
  InputTexts,      \* texts that may be parsed
  MathFn(_, _)     \* function number f of Exp_Function, on a value

VARIABLES
  input,     \* the text
  new_str,   \* what the tokenizer has left of it
  tokens,    \* the tokens found
  step,      \* where Test_Main is
  outcome    \* what it printed, or the exception that ended it

opVars == <<input, new_str, tokens, step, outcome>>

----------------------------------------------------------------------------
Digit == {"0", "1", "2", "3", "4", "5", "6", "7", "8", "9"}
Blank == {" "}
Symbols == {"+", "-", "*", "/", "^", "(", ")", "."}
Unknown == {"#"}      \* stands for every character no expression matches
Letters(p) == p \notin Digit \union Blank \union Symbols \union Unknown
WordPiece(p) == p \in Digit \/ Letters(p)

DefinedFunctions ==
  <<<<"sin">>, <<"cos">>, <<"tan">>, <<"asin">>, <<"acos">>, <<"atan">>, <<"sqrt">>,
    <<"exp">>, <<"ln">>, <<"log">>, <<"log", "2">>, <<"abs">>>>

Str2Func(seq) == CHOOSE f \in DOMAIN DefinedFunctions : DefinedFunctions[f] = seq

(* Length of the longest prefix of s made of pieces that satisfy P.        *)
Run(s, P(_)) ==
  CHOOSE n \in 0 .. Len(s) :
    /\ \A i \in 1 .. n : P(s[i])
    /\ n < Len(s) => ~P(s[n + 1])

From(s, n) == SubSeq(s, n + 1, Len(s))

(* (\d+\.?|\.\d)\d* *)
NumberLength(s) ==
  LET IsDig(p) == p \in Digit
      d == Run(s, IsDig)
      dot == d < Len(s) /\ s[d + 1] = "."
      after == IF dot THEN Run(From(s, d + 1), IsDig) ELSE 0
  IN  IF dot /\ d + after > 0 THEN d + 1 + after ELSE d

(* One of the functions, not followed by a piece of the same word.         *)
FunctionLength(s) ==
  LET fits(f) == IsPrefix(f, s) /\ (Len(f) < Len(s) => ~WordPiece(s[Len(f) + 1]))
      found == {i \in DOMAIN DefinedFunctions : fits(DefinedFunctions[i])}
  IN  IF found = {} THEN 0 ELSE Len(DefinedFunctions[CHOOSE i \in found : TRUE])

SymbolLength(s, set) == IF s[1] \in set THEN 1 ELSE 0

VariableLength(s) == IF Letters(s[1]) THEN Run(s, WordPiece) ELSE 0

(***************************************************************************)
(* The list of token descriptions in order: the length each one matches at *)
(* the start of s.  The first that matches gives the token.                *)
(***************************************************************************)
Matches(s) ==
  <<[id |-> "PLUSMINUS", len |-> SymbolLength(s, {"+", "-"})],
    [id |-> "MULTDIV",   len |-> SymbolLength(s, {"*", "/"})],
    [id |-> "RAISED",    len |-> SymbolLength(s, {"^"})],
    [id |-> "FUNCTION",  len |-> FunctionLength(s)],
    [id |-> "OPEN_BRACKET",  len |-> SymbolLength(s, {"("})],
    [id |-> "CLOSE_BRACKET", len |-> SymbolLength(s, {")"})],
    [id |-> "NUMBER",    len |-> NumberLength(s)],
    [id |-> "VARIABLE",  len |-> VariableLength(s)]>>

FirstMatch(s) == SelectSeq(Matches(s), LAMBDA m : m.len > 0)

Trim(s) ==
  LET start == Run(s, LAMBDA p : p \in Blank)
      stop == Run(Reverse(s), LAMBDA p : p \in Blank)
  IN  SubSeq(s, start + 1, Len(s) - stop)

----------------------------------------------------------------------------
(***************************************************************************)
(* Nodes.  A sum and a product are lists of terms; a term with value FALSE *)
(* is subtracted, or divided by.                                           *)
(***************************************************************************)
Constant(seq) == [type |-> "CONS_EXP", seq |-> seq]
Variable(seq) == [type |-> "VAR_EXP", seq |-> seq]
Sequence(type, expr, value) == [type |-> type, terms |-> <<[value |-> value, expr |-> expr]>>]
Addition(expr, value) == Sequence("ADD_EXP", expr, value)
Exponent(base, expo) == [type |-> "EXPONENT_EXP", base |-> base, expo |-> expo]
Function(func, arg) == [type |-> "FUNC_EXP", func |-> func, arg |-> arg]

AddTerm(node, expr, value) ==
  [node EXCEPT !.terms = Append(@, [value |-> value, expr |-> expr])]

(* Mutant: the list of a sum in parentheses is taken over by what follows. *)
AsSequence_Any(type, expr) ==
  IF expr.type \in {"ADD_EXP", "MULTIPY_EXP"} THEN expr ELSE Sequence(type, expr, TRUE)

(* A node of the same kind is continued, any other starts a new list.      *)
AsSequence(type, expr) == IF expr.type = type THEN expr ELSE Sequence(type, expr, TRUE)

NoNumber == <<0, 0>>
Whole(n) == <<n, 1>>

Abs(n) == IF n < 0 THEN -n ELSE n

Gcd[a \in Nat, b \in Nat] == IF b = 0 THEN a ELSE Gcd[b, a % b]

(* n/d in lowest terms.                                                    *)
Fraction[n \in Int, d \in Int] ==
  IF d = 0 THEN NoNumber
  ELSE LET g == Gcd[Abs(n), Abs(d)]
       IN  IF d > 0 THEN <<n \div g, d \div g>> ELSE <<(-n) \div g, (-d) \div g>>

Plus(x, y) == Fraction[x[1] * y[2] + y[1] * x[2], x[2] * y[2]]
Minus(x, y) == Fraction[x[1] * y[2] - y[1] * x[2], x[2] * y[2]]
Times(x, y) == Fraction[x[1] * y[1], x[2] * y[2]]
Over(x, y) == IF y = NoNumber THEN NoNumber ELSE Fraction[x[1] * y[2], x[2] * y[1]]

(* Math.pow; huge powers and roots are left out.                           *)
Power(x, y) ==
  IF x[2] # 1 \/ y[2] # 1 \/ Abs(x[1]) > 9 \/ Abs(y[1]) > 9 THEN NoNumber
  ELSE IF y[1] >= 0 THEN Whole(x[1] ^ y[1])
  ELSE Fraction[1, x[1] ^ (-y[1])]

(* Double.valueOf on the pieces of a number.                               *)
NumberValue(seq) ==
  LET digits == SelectSeq(seq, LAMBDA p : p # ".")
      dot == Len(seq) - Run(seq, LAMBDA p : p # ".")
      places == IF dot = 0 THEN 0 ELSE dot - 1
      dig(p) == CHOOSE i \in 0 .. 9 : ToString(i) = p
  IN  Fraction[FoldLeft(LAMBDA v, p : 10 * v + dig(p), 0, digits), 10 ^ places]

(* The functions of java.lang.Math, some with a factor.                    *)
FunctionValue(func, v) == MathFn(func, v)

RECURSIVE Initialized(_), NodeValue(_), SumValue(_), ProductValue(_)

(* No value was set for any variable: the first one read ends the program. *)
Initialized(node) ==
  CASE node.type = "VAR_EXP" -> FALSE
    [] node.type = "CONS_EXP" -> TRUE
    [] node.type = "EXPONENT_EXP" -> Initialized(node.base) /\ Initialized(node.expo)
    [] node.type = "FUNC_EXP" -> Initialized(node.arg)
    [] OTHER -> \A i \in DOMAIN node.terms : Initialized(node.terms[i].expr)

SumValue(terms) ==
  FoldLeft(LAMBDA v, t : IF t.value THEN Plus(v, NodeValue(t.expr))
                                    ELSE Minus(v, NodeValue(t.expr)), Whole(0), terms)

ProductValue(terms) ==
  FoldLeft(LAMBDA v, t : IF t.value THEN Times(v, NodeValue(t.expr))
                                    ELSE Over(v, NodeValue(t.expr)), Whole(1), terms)

NodeValue(node) ==
  CASE node.type = "CONS_EXP" -> NumberValue(node.seq)
    [] node.type = "ADD_EXP" -> SumValue(node.terms)
    [] node.type = "MULTIPY_EXP" -> ProductValue(node.terms)
    [] node.type = "EXPONENT_EXP" -> Power(NodeValue(node.base), NodeValue(node.expo))
    [] node.type = "FUNC_EXP" -> FunctionValue(node.func, NodeValue(node.arg))

----------------------------------------------------------------------------
(***************************************************************************)
(* The parser.  A rule takes the tokens left and gives the node it read    *)
(* and the tokens behind it, or the ParserException it threw, which ends   *)
(* every rule that called it.                                              *)
(***************************************************************************)
EPSILON == [id |-> "EPSILON", seq |-> <<>>]
LookAhead(ts) == IF ts = <<>> THEN EPSILON ELSE Head(ts)

Parsed(node, ts) == [ok |-> TRUE, node |-> node, rest |-> ts]
ParserException(ts) == [ok |-> FALSE, node |-> Constant(<<>>), rest |-> ts]

(* (The result is bound to x, so that it is computed once.)                *)
Then(result, Rule(_, _)) ==
  CHOOSE r \in {IF x.ok THEN Rule(x.node, x.rest) ELSE x : x \in {result}} : TRUE

RECURSIVE exprn(_), sum_Op(_, _), inp_term(_), term_Ops(_, _)
RECURSIVE signed_Factor(_), factor_Op(_, _), args(_)

get_val(ts) ==
  CASE LookAhead(ts).id = "NUMBER"   -> Parsed(Constant(Head(ts).seq), Tail(ts))
    [] LookAhead(ts).id = "VARIABLE" -> Parsed(Variable(Head(ts).seq), Tail(ts))
    [] OTHER -> ParserException(ts)

args(ts) ==
  CASE LookAhead(ts).id = "FUNCTION" ->
         Then(args(Tail(ts)), LAMBDA n, r : Parsed(Function(Str2Func(Head(ts).seq), n), r))
    [] LookAhead(ts).id = "OPEN_BRACKET" ->
         Then(exprn(Tail(ts)),
              LAMBDA n, r : IF LookAhead(r).id = "CLOSE_BRACKET" THEN Parsed(n, Tail(r))
                                                                 ELSE ParserException(r))
    [] OTHER -> get_val(ts)

(* Mutant: a power takes one argument on its right.                        *)
factor_Op_LeftFirst(expr, ts) ==
  IF LookAhead(ts).id = "RAISED"
    THEN Then(args(Tail(ts)), LAMBDA n, r : factor_Op(Exponent(expr, n), r))
    ELSE Parsed(expr, ts)

factor_Op(expr, ts) ==
  IF LookAhead(ts).id = "RAISED"
    THEN Then(signed_Factor(Tail(ts)), LAMBDA n, r : Parsed(Exponent(expr, n), r))
    ELSE Parsed(expr, ts)

term_factor(ts) == Then(args(ts), factor_Op)

(* A sign, and what Rule reads behind it.                                  *)
Signed(ts, Rule(_)) ==
  IF LookAhead(ts).id = "PLUSMINUS"
    THEN Then(Rule(Tail(ts)),
              LAMBDA n, r : Parsed(IF Head(ts).seq = <<"+">> THEN n ELSE Addition(n, FALSE), r))
    ELSE Rule(ts)

signed_Factor(ts) == Signed(ts, term_factor)

term_Ops(expr, ts) ==
  IF LookAhead(ts).id = "MULTDIV"
    THEN Then(signed_Factor(Tail(ts)),
              LAMBDA n, r : term_Ops(AddTerm(AsSequence("MULTIPY_EXP", expr), n,
                                             Head(ts).seq = <<"*">>), r))
    ELSE Parsed(expr, ts)

inp_term(ts) == Then(term_factor(ts), term_Ops)

signed_Term(ts) == Signed(ts, inp_term)

sum_Op(expr, ts) ==
  IF LookAhead(ts).id = "PLUSMINUS"
    THEN Then(inp_term(Tail(ts)),
              LAMBDA n, r : sum_Op(AddTerm(AsSequence("ADD_EXP", expr), n,
                                           Head(ts).seq = <<"+">>), r))
    ELSE Parsed(expr, ts)

exprn(ts) == Then(signed_Term(ts), sum_Op)

(* Mutant: tokens behind the expression are ignored.                       *)
parse_Prefix(ts) == exprn(ts)

(* Nothing may be left behind the expression.                              *)
parse(ts) ==
  Then(exprn(ts), LAMBDA n, r : IF r = <<>> THEN Parsed(n, r) ELSE ParserException(r))

----------------------------------------------------------------------------
Nothing == [kind |-> "none", value |-> NoNumber]
Exception(name) == [kind |-> name, value |-> NoNumber]

OpInit ==
  /\ input \in InputTexts
  /\ new_str = Trim(input) /\ tokens = <<>>
  /\ step = "tokenize" /\ outcome = Nothing

(* Mutant: the text is trimmed only at the beginning.                      *)
Tokenize_NoTrim ==
  /\ step = "tokenize" /\ new_str # <<>> /\ FirstMatch(new_str) # <<>>
  /\ LET m == Head(FirstMatch(new_str))
     IN  /\ tokens' = Append(tokens, [id |-> m.id, seq |-> SubSeq(new_str, 1, m.len)])
         /\ new_str' = From(new_str, m.len)
  /\ UNCHANGED <<input, step, outcome>>

(* One turn of the loop: the token at the start is taken off.              *)
Tokenize ==
  /\ step = "tokenize" /\ new_str # <<>> /\ FirstMatch(new_str) # <<>>
  /\ LET m == Head(FirstMatch(new_str))
     IN  /\ tokens' = Append(tokens, [id |-> m.id, seq |-> SubSeq(new_str, 1, m.len)])
         /\ new_str' = Trim(From(new_str, m.len))
  /\ UNCHANGED <<input, step, outcome>>

(* No description matches: the loop goes round without changing anything.  *)
Spin ==
  /\ step = "tokenize" /\ new_str # <<>> /\ FirstMatch(new_str) = <<>>
  /\ UNCHANGED opVars

(* The first token of an empty list is asked for before anything is read.  *)
Parse ==
  /\ step = "tokenize" /\ new_str = <<>>
  /\ LET r == parse(tokens)
     IN  outcome' =
           IF tokens = <<>> THEN Exception("NoSuchElementException")
           ELSE IF ~r.ok THEN Exception("ParserException")
           ELSE IF ~Initialized(r.node) THEN Exception("EvaluationException")
           ELSE [kind |-> "value", value |-> NodeValue(r.node)]
  /\ step' = "done"
  /\ UNCHANGED <<input, new_str, tokens>>

OpNext == Tokenize \/ Spin \/ Parse

OpSpec == OpInit /\ [][OpNext]_opVars /\ WF_opVars(OpNext)
=============================================================================
