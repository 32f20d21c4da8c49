----------------------------- MODULE ArithCore -----------------------------
(***************************************************************************)
(* The evaluator inside the arithmetic enclave, Arith_Core.cpp: Eval_Expr  *)
(* scans the expression once and keeps a stack of numbers and a stack of   *)
(* operators; ecall_add_enc feeds it a decrypted expression and prints the *)
(* value into a buffer as long as the expression.                          *)
(*                                                                         *)
(* An expression is a sequence of one-character strings.  The decrypted    *)
(* text is not terminated, so what the heap holds behind it (`rest') is    *)
(* scanned too, up to the first zero byte.  Taking the top of an empty     *)
(* stack and scanning past a copy without a terminator are undefined: the  *)
(* evaluation then ends in "undefined".                                    *)
(***************************************************************************)
EXTENDS Integers, FiniteSets, Sequences, SequencesExt

CONSTANTS
  Texts,     \* expressions the enclave may be given
  Leftovers, \* what may follow them in memory, before the first zero byte
  BufSize,   \* size of the array expr: 30 in the code
  Half,      \* an int ranges over -Half .. Half - 1
  Meaning    \* what the grammar says of each text (Evaluates, below)

ASSUME TextsAssumption == Texts \subseteq Seq(STRING) /\ Leftovers \subseteq Seq(STRING)
ASSUME SizesAssumption == BufSize \in Nat \ {0} /\ Half \in Nat \ {0}

VARIABLES
  text, rest,      \* the decrypted expression and the bytes behind it
  expr,            \* Eval_Expr's copy of them
  pos,             \* index of the next character, from 0
  numStack, operator_Stack,   \* top of the stack last
  stage,           \* where Eval_Expr is
  value            \* its result

acVars == <<text, rest, expr, pos, numStack, operator_Stack, stage, value>>

Digits == <<"0", "1", "2", "3", "4", "5", "6", "7", "8", "9">>
IsDigit(c) == c \in {Digits[i] : i \in 1 .. 10}
DigitOf(c) == (CHOOSE i \in 1 .. 10 : Digits[i] = c) - 1

(* Signed arithmetic wraps around.                                         *)
Wrap(x) == ((x + Half) % (2 * Half)) - Half

Stages == {"copy", "scan", "close", "operator", "finish", "done", "undefined"}

AcInit ==
  /\ text \in Texts /\ rest \in Leftovers
  /\ expr = <<>> /\ pos = 0
  /\ numStack = <<>> /\ operator_Stack = <<"(">>
  /\ stage = "copy" /\ value = 0

(* strncpy leaves the copy without a terminator when it does not fit.      *)
CopyExpr ==
  /\ stage = "copy"
  /\ expr' = text \o rest
  /\ stage' = IF Len(expr') < BufSize THEN "scan" ELSE "undefined"
  /\ UNCHANGED <<text, rest, pos, numStack, operator_Stack, value>>

AtEnd == pos = Len(expr)
Char == expr[pos + 1]

Undefined ==
  /\ stage' = "undefined"
  /\ UNCHANGED <<text, rest, expr, pos, numStack, operator_Stack, value>>

----------------------------------------------------------------------------
(* What the operators mean.  One the switch does not know gives 0.         *)
Exactly(op, l, r) ==
  CASE op = "+" -> l + r
    [] op = "-" -> l - r
    [] op = "*" -> l * r
    [] OTHER    -> 0

Apply(op, l, r) == Wrap(Exactly(op, l, r))

(* Replace the two top numbers by the value of the top operator on them.   *)
Op_execution ==
  LET n == Len(numStack)
  IN  /\ n >= 2
      /\ numStack' = SubSeq(numStack, 1, n - 2)
                       \o <<Apply(Last(operator_Stack), numStack[n - 1], numStack[n])>>
      /\ operator_Stack' = Front(operator_Stack)
      /\ UNCHANGED <<text, rest, expr, pos, stage, value>>

(* Mutant: a product is left on the stack when "+" or "-" arrives.         *)
Op_Eval_Lazy(op, prevOp) ==
  CASE op \in {"+", "-"} -> prevOp \notin {"(", "*"}
    [] op = "*"          -> prevOp = "*"
    [] OTHER             -> FALSE

(* Mutant: "+" and "-" do not stop at an opening parenthesis.              *)
Op_Eval_NoStop(op, prevOp) ==
  op \in {"+", "-"} \/ (op = "*" /\ prevOp = "*")

(* Is the operator prevOp on the stack to be executed before op is pushed? *)
(* An opening parenthesis and any other character never cause that.        *)
Op_Eval(op, prevOp) ==
  CASE op \in {"+", "-"} -> prevOp # "("
    [] op = "*"          -> prevOp = "*"
    [] OTHER             -> FALSE

----------------------------------------------------------------------------
(* The loop of Eval_Expr looks at the next character.                      *)
NextIs ==
  IF AtEnd \/ Char = ")" THEN "close" ELSE IF IsDigit(Char) THEN "number" ELSE "operator"

Scan ==
  /\ stage = "scan" /\ NextIs # "number"
  /\ stage' = NextIs
  /\ UNCHANGED <<text, rest, expr, pos, numStack, operator_Stack, value>>

(* The number a run of digits stands for, in the width of an int.          *)
ReadNumber(run) ==
  LET read[n \in 0 .. Len(run)] ==
        IF n = 0 THEN 0 ELSE Wrap(10 * read[n - 1] + DigitOf(run[n]))
  IN  read[Len(run)]

(* Num_Proccess: the longest run of digits is one number.                  *)
Num_Proccess ==
  /\ stage = "scan" /\ NextIs = "number"
  /\ \E n \in pos + 1 .. Len(expr) :
       /\ \A i \in pos + 1 .. n : IsDigit(expr[i])
       /\ n < Len(expr) => ~IsDigit(expr[n + 1])
       /\ numStack' = Append(numStack, ReadNumber(SubSeq(expr, pos + 1, n)))
       /\ pos' = n
  /\ UNCHANGED <<text, rest, expr, operator_Stack, stage, value>>

(* Go on behind the current character; past the end, finish.               *)
Advance ==
  /\ pos' = pos + 1
  /\ stage' = IF AtEnd THEN "finish" ELSE "scan"
  /\ UNCHANGED <<text, rest, expr, numStack, value>>

(* Mutant: the opening parenthesis stays on the stack.                     *)
Close_Brackt_Process_KeepsParen ==
  /\ stage = "close"
  /\ \/ operator_Stack = <<>> /\ Undefined
     \/ /\ operator_Stack # <<>> /\ Last(operator_Stack) # "("
        /\ Op_execution \/ (Len(numStack) < 2 /\ Undefined)
     \/ /\ operator_Stack # <<>> /\ Last(operator_Stack) = "("
        /\ UNCHANGED operator_Stack
        /\ Advance

(* One turn of Close_Brackt_Process: execute an operator, or remove the    *)
(* opening parenthesis.                                                    *)
Close_Brackt_Process ==
  /\ stage = "close"
  /\ \/ operator_Stack = <<>> /\ Undefined
     \/ /\ operator_Stack # <<>> /\ Last(operator_Stack) # "("
        /\ Op_execution \/ (Len(numStack) < 2 /\ Undefined)
     \/ /\ operator_Stack # <<>> /\ Last(operator_Stack) = "("
        /\ operator_Stack' = Front(operator_Stack)
        /\ Advance

Pending == operator_Stack # <<>> /\ Op_Eval(Char, Last(operator_Stack))

(* Mutant: an opening parenthesis is neither pushed nor stepped over.      *)
Op_can_ProcessOperands_Stuck ==
  /\ stage = "operator"
  /\ \/ /\ Pending
        /\ Op_execution \/ (Len(numStack) < 2 /\ Undefined)
     \/ /\ ~Pending /\ Char # "("
        /\ operator_Stack' = Append(operator_Stack, Char)
        /\ Advance
     \/ /\ ~Pending /\ Char = "("
        /\ stage' = "scan"
        /\ UNCHANGED <<text, rest, expr, pos, numStack, operator_Stack, value>>

(* One turn of Op_can_ProcessOperands: execute an operator that binds      *)
(* first, or push the new one.                                             *)
Op_can_ProcessOperands ==
  /\ stage = "operator"
  /\ \/ /\ Pending
        /\ Op_execution \/ (Len(numStack) < 2 /\ Undefined)
     \/ /\ ~Pending
        /\ operator_Stack' = Append(operator_Stack, Char)
        /\ Advance

(* Eval_Expr returns the top number, whatever lies below it.               *)
Finish ==
  /\ stage = "finish"
  /\ \/ numStack = <<>> /\ Undefined
     \/ /\ numStack # <<>>
        /\ value' = Last(numStack)
        /\ stage' = "done"
        /\ UNCHANGED <<text, rest, expr, pos, numStack, operator_Stack>>

AcNext ==
  \/ CopyExpr \/ Scan \/ Num_Proccess
  \/ Close_Brackt_Process \/ Op_can_ProcessOperands
  \/ Finish

AcSpec == AcInit /\ [][AcNext]_acVars

(* The enclave's thread runs.                                              *)
AcFairSpec == AcSpec /\ WF_acVars(AcNext)

----------------------------------------------------------------------------
(***************************************************************************)
(* ecall_add_enc prints the value with "%d" into resBuf, as long as the    *)
(* text, and encrypts exactly that many bytes.                             *)
(***************************************************************************)
PowerOf10 == [n \in 0 .. 9 |->
  <<1, 10, 100, 1000, 10000, 100000, 1000000, 10000000, 100000000, 1000000000>>[n + 1]]

Magnitude(v) == IF v < 0 THEN -v ELSE v

(* An int has at most ten digits.                                          *)
DecimalLength(v) ==
  LET digits == CHOOSE n \in 1 .. 10 :
                  /\ n = 10 \/ Magnitude(v) < PowerOf10[n]
                  /\ Magnitude(v) >= PowerOf10[n - 1] \/ n = 1
  IN  IF v < 0 THEN digits + 1 ELSE digits

(* Mutant: the value is printed with "%+d".                                *)
ResultBytes_Signed == DecimalLength(value) + (IF value < 0 THEN 1 ELSE 2)

(* Bytes written, with the terminator, and bytes there are.                *)
ResultBytes == DecimalLength(value) + 1
ResBufSize == Len(text)

(***************************************************************************)
(* While it scans, the operator stack holds one opening parenthesis for    *)
(* each one read and not yet closed, and one more that stands for the end  *)
(* of the text.                                                            *)
(***************************************************************************)
CountIn(s, c) == Cardinality({i \in 1 .. Len(s) : s[i] = c})

OpenParentheses ==
  stage \in {"scan", "close", "operator"} =>
    LET read == SubSeq(expr, 1, pos)
    IN  CountIn(operator_Stack, "(") = 1 + CountIn(read, "(") - CountIn(read, ")")

(***************************************************************************)
(* The well-formed expressions, by what may stand next to what: numbers,   *)
(* "+", "-", "*" between two operands, and balanced parentheses.  (Module  *)
(* MCArithCore compares this with the grammar.)                            *)
(***************************************************************************)
BeginsOperand(c) == IsDigit(c) \/ c = "("
EndsOperand(c) == IsDigit(c) \/ c = ")"

Adjacent(a, b) ==
  (IsDigit(a) /\ IsDigit(b)) \/ (EndsOperand(a) <=> ~BeginsOperand(b))

Opened(s, n) == CountIn(SubSeq(s, 1, n), "(")
Closed(s, n) == CountIn(SubSeq(s, 1, n), ")")

Formed(s) ==
  /\ s # <<>> /\ BeginsOperand(s[1]) /\ EndsOperand(s[Len(s)])
  /\ \A i \in 1 .. Len(s) :
       BeginsOperand(s[i]) \/ EndsOperand(s[i]) \/ s[i] \in {"+", "-", "*"}
  /\ \A i \in 1 .. Len(s) - 1 : Adjacent(s[i], s[i + 1])
  /\ \A n \in 0 .. Len(s) : Closed(s, n) <= Opened(s, n)
  /\ Opened(s, Len(s)) = Closed(s, Len(s))

(* The copy in expr is terminated.                                         *)
Fits(s) == Formed(s) /\ Len(s) < BufSize

(***************************************************************************)
(* A well-formed expression that fits the copy and is followed by a zero   *)
(* byte is never undefined: Op_execution always finds its two numbers, and *)
(* every closing parenthesis its opening one.  In the end nothing but the  *)
(* value is left on the stacks.                                            *)
(***************************************************************************)
FormedIsDefined ==
  Fits(text) /\ rest = <<>> =>
    /\ stage # "undefined"
    /\ stage = "done" => Len(numStack) = 1 /\ operator_Stack = <<>>

(***************************************************************************)
(* The grammar: an expression is a sum of terms, a term a product of       *)
(* factors, both from left to right, and a factor a number or an           *)
(* expression in parentheses.  R says which parts of s are what, and their *)
(* values, as integers of any size.                                        *)
(***************************************************************************)
Part(a, b, v) == [from |-> a, to |-> b, value |-> v]

NumberOf(run) ==
  LET number[n \in 0 .. Len(run)] ==
        IF n = 0 THEN 0 ELSE 10 * number[n - 1] + DigitOf(run[n])
  IN  number[Len(run)]

Evaluates(R, s) ==
  /\ \A a, b \in 1 .. Len(s) :
       a <= b /\ (\A i \in a .. b : IsDigit(s[i])) =>
         Part(a, b, NumberOf(SubSeq(s, a, b))) \in R.factor
  /\ R.factor \subseteq R.term /\ R.term \subseteq R.expr
  /\ \A e \in R.expr :
       e.from > 1 /\ e.to < Len(s) /\ s[e.from - 1] = "(" /\ s[e.to + 1] = ")" =>
         Part(e.from - 1, e.to + 1, e.value) \in R.factor
  /\ \A t \in R.term, f \in R.factor :
       f.from = t.to + 2 /\ s[t.to + 1] = "*" =>
         Part(t.from, f.to, Exactly("*", t.value, f.value)) \in R.term
  /\ \A e \in R.expr, t \in R.term :
       t.from = e.to + 2 /\ s[e.to + 1] \in {"+", "-"} =>
         Part(e.from, t.to, Exactly(s[e.to + 1], e.value, t.value)) \in R.expr

ASSUME MeaningAssumption == \A s \in Texts : Fits(s) => Evaluates(Meaning[s], s)

(* What the grammar says of the whole text: one value, in the least        *)
(* Meaning.                                                                *)
Meant == {e.value : e \in {e \in Meaning[text].expr : e.from = 1 /\ e.to = Len(text)}}

(***************************************************************************)
(* Eval_Expr returns the value of a well-formed expression, whatever the   *)
(* nesting and the order of the operators and wherever an intermediate     *)
(* result overflows: the value the grammar gives the whole text, cut to    *)
(* the width of an int once.                                               *)
(***************************************************************************)
ValueIsCorrect ==
  Fits(text) /\ rest = <<>> /\ stage = "done" => \E v \in Meant : value = Wrap(v)

(***************************************************************************)
(* The value of a well-formed expression, terminator included, overruns    *)
(* resBuf by at most two bytes, and when the value of the grammar fits an  *)
(* int all its characters are among those encrypted: no digit is lost.     *)
(***************************************************************************)
OverrunBounded ==
  Fits(text) /\ rest = <<>> /\ stage = "done" =>
    /\ ResultBytes <= ResBufSize + 2
    /\ \E v \in Meant :
         /\ value = Wrap(v)
         /\ v \in -Half .. Half - 1 => ResultBytes <= ResBufSize + 1

(***************************************************************************)
(* Every evaluation ends.                                                  *)
(***************************************************************************)
EvaluationEnds == (stage = "copy") ~> (stage \in {"done", "undefined"})
=============================================================================
