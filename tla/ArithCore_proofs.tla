-------------------------- MODULE ArithCore_proofs --------------------------
(***************************************************************************)
(* What holds of Eval_Expr for every text, of any length.                  *)
(*                                                                         *)
(* AcOpenParentheses: for every text and whatever lies behind it in        *)
(* memory, well-formed or not.  Each step either moves the operator stack  *)
(* and the scan over the same parenthesis, or touches none.                *)
(*                                                                         *)
(* AcFormedIsDefined: for every well-formed text.  The numbers are as many *)
(* as the operators that wait for their right operand, and one more behind *)
(* an operand.                                                             *)
(*                                                                         *)
(* AcValueIsCorrect: for every well-formed text.  Between two neighbours   *)
(* on the operator stack lies a part of the text the grammar knows, and    *)
(* its value, cut to an int, is on the stack of numbers: cutting early or  *)
(* late makes no difference to sums and products.                          *)
(*                                                                         *)
(* AcOverrunBounded: for every well-formed text.  The value of a part has  *)
(* at most as many digits as the part has characters, and cutting it never *)
(* makes it longer than it would be with its sign.                         *)
(***************************************************************************)
EXTENDS ArithCore, Induction, FiniteSetTheorems, SequenceTheorems, TLAPS

Places(s, c) == {i \in 1 .. Len(s) : s[i] = c}

(* How many of the elements counted x is.                                  *)
One(x, c) == IF x = c THEN 1 ELSE 0

(* A character pushed on a stack, or read, counts once.                    *)
LEMMA CountAppend ==
  ASSUME NEW S, NEW s \in Seq(S), NEW x \in S, NEW c
  PROVE  /\ CountIn(s, c) \in Nat
         /\ CountIn(Append(s, x), c) = CountIn(s, c) + One(x, c)
<1>1. IsFiniteSet(Places(s, c)) /\ Len(s) \in Nat
  <2>1. Len(s) \in Nat /\ IsFiniteSet(1 .. Len(s))
    BY FS_Interval
  <2> QED
    BY <2>1, FS_Subset DEF Places
<1>2. Cardinality(Places(s, c)) \in Nat
  BY <1>1, FS_CardinalityType
<1>3. CASE x = c
  <2>1. Places(Append(s, x), c) = Places(s, c) \union {Len(s) + 1}
    BY <1>1, <1>3, AppendProperties DEF Places
  <2>2. Len(s) + 1 \notin Places(s, c)
    BY <1>1 DEF Places
  <2> QED
    BY <1>1, <1>2, <1>3, <2>1, <2>2, FS_AddElement DEF CountIn, Places, One
<1>4. CASE x # c
  <2>1. Places(Append(s, x), c) = Places(s, c)
    BY <1>1, <1>4, AppendProperties DEF Places
  <2>2. CountIn(Append(s, x), c) = CountIn(s, c) /\ CountIn(s, c) \in Nat
    BY <1>2, <2>1 DEF CountIn, Places
  <2> QED
    BY <1>4, <2>2 DEF One
<1> QED
  BY <1>3, <1>4

(* What has been read is a prefix of the text.                             *)
LEMMA PrefixProperties ==
  ASSUME NEW S, NEW s \in Seq(S), NEW n \in 0 .. Len(s)
  PROVE  /\ SubSeq(s, 1, n) \in Seq(S) /\ Len(SubSeq(s, 1, n)) = n
         /\ \A i \in 1 .. n : SubSeq(s, 1, n)[i] = s[i]
BY SubSeqProperties

(* Popping undoes pushing.                                                 *)
LEMMA FrontLast ==
  ASSUME NEW S, NEW s \in Seq(S), s # <<>>
  PROVE  Front(s) \in Seq(S) /\ Last(s) \in S /\ s = Append(Front(s), Last(s))
<1>1. Len(s) \in Nat \ {0}
  BY EmptySeq
<1>2. Front(s) \in Seq(S) /\ Last(s) \in S /\ Len(Front(s)) = Len(s) - 1
      /\ \A i \in 1 .. Len(s) - 1 : Front(s)[i] = s[i]
  <2>1. Len(s) - 1 \in 0 .. Len(s) /\ Len(s) \in 1 .. Len(s)
    BY <1>1
  <2> QED
    BY <2>1, PrefixProperties, ElementOfSeq DEF Front, Last
<1>3. Len(s) = Len(Append(Front(s), Last(s)))
      /\ \A i \in 1 .. Len(s) : s[i] = Append(Front(s), Last(s))[i]
  BY <1>1, <1>2, AppendProperties DEF Last
<1> QED
  BY <1>2, <1>3, AppendProperties, SeqEqual

(* A character popped no longer counts.                                    *)
LEMMA CountFront ==
  ASSUME NEW S, NEW s \in Seq(S), s # <<>>, NEW c
  PROVE  /\ CountIn(Front(s), c) \in Nat /\ CountIn(s, c) \in Nat
         /\ CountIn(s, c) = CountIn(Front(s), c) + One(Last(s), c)
<1>1. Front(s) \in Seq(S) /\ Last(s) \in S /\ s = Append(Front(s), Last(s))
  BY FrontLast
<1>2. CountIn(s, c) \in Nat
  <2>1. Last(s) \in S
    BY <1>1
  <2> QED
    BY <2>1, CountAppend
<1>3. /\ CountIn(Front(s), c) \in Nat
      /\ CountIn(Append(Front(s), Last(s)), c) = CountIn(Front(s), c) + One(Last(s), c)
  BY <1>1, CountAppend
<1> QED
  BY <1>1, <1>2, <1>3

(* Passing one character.                                                  *)
LEMMA CountNext ==
  ASSUME NEW S, NEW s \in Seq(S), NEW n \in 0 .. Len(s) - 1, NEW c
  PROVE  /\ CountIn(SubSeq(s, 1, n), c) \in Nat
         /\ CountIn(SubSeq(s, 1, n + 1), c) = CountIn(SubSeq(s, 1, n), c) + One(s[n + 1], c)
<1>1. SubSeq(s, 1, n) \in Seq(S) /\ s[n + 1] \in S
  BY SubSeqProperties
<1>2. SubSeq(s, 1, n + 1) = Append(SubSeq(s, 1, n), s[n + 1])
  <2> DEFINE t == SubSeq(s, 1, n + 1)
             u == SubSeq(s, 1, n)
  <2>1. t \in Seq(S) /\ Len(t) = n + 1 /\ \A i \in 1 .. n + 1 : t[i] = s[i]
    BY SubSeqProperties
  <2>2. u \in Seq(S) /\ Len(u) = n /\ \A i \in 1 .. n : u[i] = s[i]
    BY SubSeqProperties
  <2>3. Append(u, s[n + 1]) \in Seq(S) /\ Len(Append(u, s[n + 1])) = n + 1
        /\ \A i \in 1 .. n + 1 : Append(u, s[n + 1])[i] = s[i]
    BY <1>1, <2>2, AppendProperties
  <2> QED
    BY <2>1, <2>3, SeqEqual
<1> QED
  BY <1>1, <1>2, CountAppend

(* A number contains no parenthesis.                                       *)
LEMMA CountRun ==
  ASSUME NEW S, NEW s \in Seq(S), NEW n \in 0 .. Len(s), NEW m \in n .. Len(s), NEW c,
         \A i \in n + 1 .. m : s[i] # c
  PROVE  CountIn(SubSeq(s, 1, m), c) = CountIn(SubSeq(s, 1, n), c)
<1>1. Len(SubSeq(s, 1, m)) = m /\ \A i \in 1 .. m : SubSeq(s, 1, m)[i] = s[i]
  BY SubSeqProperties
<1>2. Len(SubSeq(s, 1, n)) = n /\ \A i \in 1 .. n : SubSeq(s, 1, n)[i] = s[i]
  BY SubSeqProperties
<1>3. Places(SubSeq(s, 1, m), c) = Places(SubSeq(s, 1, n), c)
  BY <1>1, <1>2 DEF Places
<1> QED
  BY <1>3 DEF CountIn, Places

(* No digit is a parenthesis.                                              *)
LEMMA DigitsOnly == ~IsDigit("(") /\ ~IsDigit(")")
BY DEF IsDigit, Digits

(* The counts before the scan.                                             *)
LEMMA CountBounds ==
  /\ CountIn(<<>>, "(") = 0 /\ CountIn(<<>>, ")") = 0
  /\ CountIn(<<"(">>, "(") = 1
<1>1. {i \in 1 .. Len(<<>>) : <<>>[i] = "("} = {} /\ {i \in 1 .. Len(<<>>) : <<>>[i] = ")"} = {}
  OBVIOUS
<1>2. {i \in 1 .. Len(<<"(">>) : <<"(">>[i] = "("} = {} \union {1}
  OBVIOUS
<1> QED
  BY <1>1, <1>2, FS_EmptySet, FS_AddElement DEF CountIn

----------------------------------------------------------------------------
(***************************************************************************)
(* What the scan knows of the next character when it has taken a branch.   *)
(***************************************************************************)
ScanInv ==
  /\ stage = "copy" => pos = 0 /\ operator_Stack = <<"(">>
  /\ stage \in {"scan", "close", "operator"} => pos \in 0 .. Len(expr)
  /\ stage = "close" => pos = Len(expr) \/ Char = ")"
  /\ stage = "operator" => pos < Len(expr) /\ Char # ")"

(* The provers do not know that "(" is a string.                           *)
Chars == STRING \union {"("}

AcTypes ==
  /\ text \in Seq(Chars) /\ rest \in Seq(Chars)
  /\ expr \in Seq(Chars) /\ operator_Stack \in Seq(Chars)

AcInv == AcTypes /\ ScanInv /\ OpenParentheses

(* Executing an operator takes no parenthesis off the stack.               *)
LEMMA ExecutionInv ==
  AcInv /\ Op_execution /\ operator_Stack # <<>> /\ Last(operator_Stack) # "("
    /\ stage \in {"close", "operator"} => AcInv'
<1> SUFFICES ASSUME AcInv, Op_execution, operator_Stack # <<>>, Last(operator_Stack) # "(",
                    stage \in {"close", "operator"}
             PROVE  AcInv'
  OBVIOUS
<1>1. operator_Stack' = Front(operator_Stack) /\ UNCHANGED <<text, rest, expr, pos, stage, value>>
  BY DEF Op_execution
<1>2. operator_Stack' \in Seq(Chars)
      /\ CountIn(operator_Stack', "(") = CountIn(operator_Stack, "(")
  BY <1>1, FrontLast, CountFront DEF AcInv, AcTypes, One
<1> QED
  BY <1>1, <1>2 DEF AcInv, AcTypes, ScanInv, OpenParentheses, Char

(* An undefined step ends the scan.                                        *)
LEMMA UndefinedInv == AcInv /\ Undefined => AcInv'
BY DEF AcInv, AcTypes, ScanInv, OpenParentheses, Undefined

(* A parenthesis leaves the stack as the scan passes the one that closes   *)
(* it, or with the end of the text.                                        *)
LEMMA CloseInv == AcInv /\ Close_Brackt_Process => AcInv'
<1> SUFFICES ASSUME AcInv, Close_Brackt_Process PROVE AcInv'
  OBVIOUS
<1>1. stage = "close"
  BY DEF Close_Brackt_Process
<1>2. CASE operator_Stack # <<>> /\ Last(operator_Stack) # "(" /\ Op_execution
  BY <1>1, <1>2, ExecutionInv
<1>3. CASE Undefined
  BY <1>3, UndefinedInv
<1>4. CASE operator_Stack # <<>> /\ Last(operator_Stack) = "(" /\ Advance
           /\ operator_Stack' = Front(operator_Stack)
  <2>1. pos \in 0 .. Len(expr) /\ Len(expr) \in Nat
        /\ pos' = pos + 1 /\ UNCHANGED <<text, rest, expr>>
        /\ operator_Stack' \in Seq(Chars)
    <3>1. pos \in 0 .. Len(expr) /\ operator_Stack \in Seq(Chars) /\ Len(expr) \in Nat
      BY <1>1 DEF AcInv, AcTypes, ScanInv
    <3>2. pos' = pos + 1 /\ UNCHANGED <<text, rest, expr>>
      BY <1>4 DEF Advance
    <3>3. operator_Stack' \in Seq(Chars)
      BY <1>4, <3>1, FrontLast
    <3> QED
      BY <3>1, <3>2, <3>3
  <2>2. CASE AtEnd
    BY <1>4, <2>1, <2>2 DEF Advance, AcInv, AcTypes, ScanInv, OpenParentheses
  <2>3. CASE ~AtEnd
    <3>1. pos \in 0 .. Len(expr) - 1 /\ expr[pos + 1] = ")" /\ stage' = "scan"
      BY <1>1, <1>4, <2>1, <2>3 DEF AtEnd, AcInv, ScanInv, Char, Advance
    <3>2. /\ CountIn(SubSeq(expr, 1, pos), "(") \in Nat
          /\ CountIn(SubSeq(expr, 1, pos), ")") \in Nat
          /\ CountIn(SubSeq(expr, 1, pos + 1), "(") = CountIn(SubSeq(expr, 1, pos), "(")
          /\ CountIn(SubSeq(expr, 1, pos + 1), ")") = CountIn(SubSeq(expr, 1, pos), ")") + 1
      BY <3>1, CountNext DEF AcInv, AcTypes, One
    <3>3. /\ CountIn(operator_Stack', "(") \in Nat
          /\ CountIn(operator_Stack, "(") = CountIn(operator_Stack', "(") + 1
      BY <1>4, CountFront DEF AcInv, AcTypes, One
    <3>4. CountIn(operator_Stack, "(")
            = 1 + CountIn(SubSeq(expr, 1, pos), "(") - CountIn(SubSeq(expr, 1, pos), ")")
      BY <1>1 DEF AcInv, OpenParentheses
    <3>5. CountIn(operator_Stack', "(") = 1 + CountIn(SubSeq(expr, 1, pos + 1), "(")
                                            - CountIn(SubSeq(expr, 1, pos + 1), ")")
      BY <3>2, <3>3, <3>4
    <3>6. OpenParentheses'
      BY <2>1, <3>5 DEF OpenParentheses
    <3>7. ScanInv'
      BY <2>1, <3>1 DEF ScanInv
    <3> QED
      BY <2>1, <3>6, <3>7 DEF AcInv, AcTypes
  <2> QED
    BY <2>2, <2>3
<1> QED
  BY <1>2, <1>3, <1>4 DEF Close_Brackt_Process

(* An operator that is executed is no parenthesis, and one that is pushed  *)
(* is one exactly if the scan passes an opening one.                       *)
LEMMA OperatorInv == AcInv /\ Op_can_ProcessOperands => AcInv'
<1> SUFFICES ASSUME AcInv, Op_can_ProcessOperands PROVE AcInv'
  OBVIOUS
<1>1. /\ stage = "operator" /\ Len(expr) \in Nat /\ pos \in 0 .. Len(expr) - 1
      /\ expr[pos + 1] # ")" /\ expr[pos + 1] \in Chars
  BY DEF Op_can_ProcessOperands, AcInv, AcTypes, ScanInv, Char
<1>2. CASE Pending /\ Op_execution
  <2>1. operator_Stack # <<>> /\ Last(operator_Stack) # "("
    BY <1>2 DEF Pending, Op_Eval
  <2> QED
    BY <1>1, <1>2, <2>1, ExecutionInv
<1>3. CASE Undefined
  BY <1>3, UndefinedInv
<1>4. CASE operator_Stack' = Append(operator_Stack, Char) /\ Advance
  <2>1. /\ pos' = pos + 1 /\ stage' = "scan" /\ UNCHANGED <<text, rest, expr>>
        /\ operator_Stack' \in Seq(Chars)
    BY <1>1, <1>4, AppendProperties DEF AcInv, AcTypes, Advance, AtEnd, Char
  <2>2. /\ CountIn(SubSeq(expr, 1, pos), "(") \in Nat
        /\ CountIn(SubSeq(expr, 1, pos), ")") \in Nat
        /\ CountIn(SubSeq(expr, 1, pos + 1), "(")
             = CountIn(SubSeq(expr, 1, pos), "(") + One(Char, "(")
        /\ CountIn(SubSeq(expr, 1, pos + 1), ")") = CountIn(SubSeq(expr, 1, pos), ")") + 0
    BY <1>1, CountNext DEF AcInv, AcTypes, One, Char
  <2>3. CountIn(operator_Stack, "(") \in Nat
        /\ CountIn(operator_Stack', "(") = CountIn(operator_Stack, "(") + One(Char, "(")
    BY <1>1, <1>4, CountAppend DEF AcInv, AcTypes, Char
  <2>4. CountIn(operator_Stack, "(")
          = 1 + CountIn(SubSeq(expr, 1, pos), "(") - CountIn(SubSeq(expr, 1, pos), ")")
    BY <1>1 DEF AcInv, OpenParentheses
  <2>5. CountIn(operator_Stack', "(") = 1 + CountIn(SubSeq(expr, 1, pos + 1), "(")
                                          - CountIn(SubSeq(expr, 1, pos + 1), ")")
    BY <2>2, <2>3, <2>4 DEF One
  <2>6. OpenParentheses'
    BY <2>1, <2>5 DEF OpenParentheses
  <2>7. ScanInv'
    BY <1>1, <2>1 DEF ScanInv
  <2> QED
    BY <2>1, <2>6, <2>7 DEF AcInv, AcTypes
<1> QED
  BY <1>2, <1>3, <1>4 DEF Op_can_ProcessOperands

(* Num_Proccess moves the scan over digits only.                           *)
LEMMA NumberInv == AcInv /\ Num_Proccess => AcInv'
<1> SUFFICES ASSUME AcInv, Num_Proccess PROVE AcInv'
  OBVIOUS
<1>1. /\ stage = "scan" /\ stage' = "scan" /\ pos \in 0 .. Len(expr) /\ Len(expr) \in Nat
      /\ UNCHANGED <<text, rest, expr, operator_Stack>>
  <2>1. stage = "scan" /\ UNCHANGED <<text, rest, expr, operator_Stack, stage>>
    BY DEF Num_Proccess
  <2> QED
    BY <2>1 DEF AcInv, AcTypes, ScanInv
<1>2. PICK n \in pos + 1 .. Len(expr) :
        pos' = n /\ \A i \in pos + 1 .. n : IsDigit(expr[i])
  BY DEF Num_Proccess
<1>3. \A i \in pos + 1 .. n : expr[i] # "(" /\ expr[i] # ")"
  BY <1>2, DigitsOnly
<1>4. /\ CountIn(SubSeq(expr, 1, n), "(") = CountIn(SubSeq(expr, 1, pos), "(")
      /\ CountIn(SubSeq(expr, 1, n), ")") = CountIn(SubSeq(expr, 1, pos), ")")
  <2>1. n \in pos .. Len(expr) /\ expr \in Seq(Chars)
    BY <1>1 DEF AcInv, AcTypes
  <2> QED
    BY <1>1, <1>3, <2>1, CountRun
<1>5. OpenParentheses'
  BY <1>1, <1>2, <1>4 DEF AcInv, OpenParentheses
<1>6. ScanInv'
  BY <1>1, <1>2 DEF ScanInv
<1> QED
  BY <1>1, <1>5, <1>6 DEF AcInv, AcTypes

----------------------------------------------------------------------------
(* The scan has not begun, and the stack holds its bottom.                 *)
LEMMA AcInitInv == AcInit => AcInv
<1> SUFFICES ASSUME AcInit PROVE AcInv
  OBVIOUS
<1>1. text \in Seq(STRING) /\ rest \in Seq(STRING)
  <2>1. text \in Texts /\ rest \in Leftovers
    BY DEF AcInit
  <2> QED
    BY <2>1, TextsAssumption
<1>2. text \in Seq(Chars) /\ rest \in Seq(Chars)
  <2>1. STRING \subseteq Chars
    BY DEF Chars
  <2> QED
    BY <1>1, <2>1, SeqMonotonic
<1>3. <<>> \in Seq(Chars) /\ <<"(">> \in Seq(Chars)
  <2>1. "(" \in Chars
    BY DEF Chars
  <2>2. <<>> \in Seq(Chars)
    BY EmptySeq
  <2>3. Append(<<>>, "(") \in Seq(Chars)
    BY <2>1, <2>2, AppendProperties
  <2> QED
    BY <2>2, <2>3
<1> QED
  BY <1>2, <1>3 DEF AcInit, AcInv, AcTypes, ScanInv, OpenParentheses

(* Every step keeps the invariant.                                         *)
LEMMA AcStepInv == AcInv /\ [AcNext]_acVars => AcInv'
<1> SUFFICES ASSUME AcInv, [AcNext]_acVars PROVE AcInv'
  OBVIOUS
<1>1. CASE CopyExpr
  <2>1. /\ expr' = text \o rest /\ expr' \in Seq(Chars) /\ stage' \in {"scan", "undefined"}
        /\ pos = 0 /\ operator_Stack = <<"(">> /\ UNCHANGED <<text, rest, pos, operator_Stack>>
    BY <1>1, ConcatProperties DEF CopyExpr, AcInv, AcTypes, ScanInv
  <2>2. SubSeq(expr', 1, 0) = <<>>
    BY <2>1, SubSeqEmpty
  <2>3. OpenParentheses'
    <3>1. CountIn(operator_Stack', "(") = 1 /\ CountIn(SubSeq(expr', 1, pos'), "(") = 0
          /\ CountIn(SubSeq(expr', 1, pos'), ")") = 0
      BY <2>1, <2>2, CountBounds
    <3> QED
      BY <3>1 DEF OpenParentheses
  <2>4. ScanInv'
    BY <2>1 DEF ScanInv
  <2> QED
    BY <2>1, <2>3, <2>4 DEF AcInv, AcTypes
<1>2. CASE Scan
  <2>1. /\ stage = "scan" /\ stage' \in {"close", "operator"}
        /\ stage' = "close" => AtEnd \/ Char = ")"
        /\ stage' = "operator" => ~AtEnd /\ Char # ")"
        /\ UNCHANGED <<text, rest, expr, pos, numStack, operator_Stack, value>>
    BY <1>2 DEF Scan, NextIs
  <2> QED
    BY <2>1 DEF AcInv, AcTypes, ScanInv, OpenParentheses, AtEnd, Char
<1>3. CASE Num_Proccess
  BY <1>3, NumberInv
<1>4. CASE Close_Brackt_Process
  BY <1>4, CloseInv
<1>5. CASE Op_can_ProcessOperands
  BY <1>5, OperatorInv
<1>6. CASE Finish
  <2>1. stage' \in {"done", "undefined"} /\ UNCHANGED <<text, rest, expr, pos, operator_Stack>>
    BY <1>6 DEF Finish, Undefined
  <2> QED
    BY <2>1 DEF AcInv, AcTypes, ScanInv, OpenParentheses
<1>7. CASE UNCHANGED acVars
  BY <1>7 DEF acVars, AcInv, AcTypes, ScanInv, OpenParentheses, Char
<1> QED
  BY <1>1, <1>2, <1>3, <1>4, <1>5, <1>6, <1>7 DEF AcNext

(***************************************************************************)
(* The strengthened invariant holds in every reachable state.              *)
(***************************************************************************)
THEOREM AcInvariance == AcSpec => []AcInv
BY AcInitInv, AcStepInv, PTL DEF AcSpec

(***************************************************************************)
(* The operator stack accounts for every parenthesis read, in texts of any *)
(* length, balanced or not, with anything behind them: Eval_Expr takes the *)
(* operator stack below its bottom only where a closing parenthesis, or    *)
(* the end, has no opening one.                                            *)
(***************************************************************************)
THEOREM AcOpenParentheses == AcSpec => []OpenParentheses
<1>1. AcInv => OpenParentheses
  BY DEF AcInv
<1> QED
  BY <1>1, AcInvariance, PTL
----------------------------------------------------------------------------
(***************************************************************************)
(* Well-formed expressions.  Every operator on the stack waits for its     *)
(* right operand: there are as many numbers as such operators, and one     *)
(* more just behind an operand, so that an operator that is executed finds *)
(* both of its numbers.                                                    *)
(***************************************************************************)
IsSeq(s) == \E S : s \in Seq(S)

FitsNow == Fits(text) /\ rest = <<>>

AfterOperand == pos > 0 /\ EndsOperand(expr[pos])

Waiting == Len(operator_Stack) - CountIn(operator_Stack, "(")

StackInv ==
  /\ Len(operator_Stack) > 0 /\ operator_Stack[1] = "("
  /\ IsSeq(numStack)
  /\ Len(numStack) = Waiting + (IF AfterOperand THEN 1 ELSE 0)

PlaceInv ==
  /\ stage = "scan" /\ pos \in 1 .. Len(expr) - 1 =>
       ~(IsDigit(expr[pos]) /\ IsDigit(expr[pos + 1]))
  /\ stage = "operator" => ~IsDigit(Char)

FormedInv ==
  FitsNow =>
    /\ stage \in Stages \ {"undefined"}
    /\ stage = "copy" => numStack = <<>>
    /\ stage # "copy" => expr = text
    /\ stage \in {"scan", "close", "operator"} => StackInv /\ PlaceInv
    /\ stage \in {"finish", "done"} => Len(numStack) = 1 /\ operator_Stack = <<>>

(* No more elements of a sequence are counted than it has, and one that is *)
(* there is counted.                                                       *)
LEMMA CountBounded ==
  ASSUME NEW S, NEW s \in Seq(S), NEW c
  PROVE  /\ CountIn(s, c) \in Nat /\ CountIn(s, c) <= Len(s)
         /\ \A i \in 1 .. Len(s) : s[i] = c => CountIn(s, c) >= 1
<1>1. Len(s) \in Nat /\ IsFiniteSet(1 .. Len(s)) /\ Cardinality(1 .. Len(s)) = Len(s)
  <2>1. Len(s) \in Nat
    OBVIOUS
  <2>2. IsFiniteSet(1 .. Len(s)) /\ Cardinality(1 .. Len(s)) = IF 1 > Len(s) THEN 0 ELSE Len(s) - 1 + 1
    BY <2>1, FS_Interval
  <2> QED
    BY <2>1, <2>2
<1>2. Places(s, c) \in SUBSET (1 .. Len(s))
  BY DEF Places
<1>3. IsFiniteSet(Places(s, c)) /\ Cardinality(Places(s, c)) <= Len(s)
  BY <1>1, <1>2, FS_Subset
<1>4. Cardinality(Places(s, c)) \in Nat
  BY <1>3, FS_CardinalityType
<1>5. ASSUME NEW i \in 1 .. Len(s), s[i] = c PROVE Cardinality(Places(s, c)) >= 1
  <2>1. i \in Places(s, c)
    BY <1>5 DEF Places
  <2>2. Cardinality(Places(s, c)) # 0
    BY <1>3, <2>1, FS_EmptySet
  <2> QED
    BY <1>4, <2>2
<1> QED
  BY <1>3, <1>4, <1>5 DEF CountIn, Places

(* No operator and no parenthesis of one kind is of another.               *)
LEMMA Kinds ==
  /\ \A c : IsDigit(c) => c \notin {"(", ")", "+", "-", "*"}
  /\ ~BeginsOperand(")") /\ ~EndsOperand("(") /\ BeginsOperand("(") /\ EndsOperand(")")
  /\ \A c \in {"+", "-", "*"} : ~BeginsOperand(c) /\ ~EndsOperand(c)
BY DEF IsDigit, Digits, BeginsOperand, EndsOperand

(* What the scan of a well-formed expression finds where it stands.        *)
LEMMA FormedHere ==
  ASSUME AcInv, FitsNow, expr = text, stage \in {"scan", "close", "operator"}
  PROVE  /\ pos \in 0 .. Len(expr) /\ Len(expr) \in Nat
         /\ CountIn(operator_Stack, "(") \in Nat \ {0}
         /\ pos = Len(expr) => AfterOperand /\ CountIn(operator_Stack, "(") = 1
         /\ pos # Len(expr) =>
              /\ pos \in 0 .. Len(expr) - 1
              /\ BeginsOperand(Char) \/ Char = ")" \/ Char \in {"+", "-", "*"}
              /\ Char \in {")", "+", "-", "*"} => AfterOperand
              /\ Char = "(" => ~AfterOperand
              /\ AfterOperand /\ IsDigit(Char) => IsDigit(expr[pos])
              /\ Char = ")" => CountIn(operator_Stack, "(") > 1
<1>1. Len(expr) \in Nat \ {0} /\ pos \in 0 .. Len(expr) /\ expr \in Seq(Chars)
  BY EmptySeq DEF AcInv, AcTypes, ScanInv, FitsNow, Fits, Formed
<1> DEFINE opened == CountIn(SubSeq(expr, 1, pos), "(")
           closed == CountIn(SubSeq(expr, 1, pos), ")")
<1>2. /\ opened \in Nat /\ closed \in Nat /\ closed <= opened
      /\ CountIn(operator_Stack, "(") = 1 + opened - closed
  <2>1. SubSeq(expr, 1, pos) \in Seq(Chars)
    BY <1>1, PrefixProperties
  <2>2. opened \in Nat /\ closed \in Nat
    BY <2>1, CountBounded
  <2>3. closed <= opened
    BY <1>1 DEF FitsNow, Fits, Formed, Opened, Closed
  <2> QED
    BY <2>2, <2>3 DEF AcInv, OpenParentheses
<1>3. pos = Len(expr) => opened = closed /\ EndsOperand(expr[pos])
  BY <1>1 DEF FitsNow, Fits, Formed, Opened, Closed
<1>4. ASSUME pos # Len(expr), Char = ")" PROVE closed < opened
  <2>1. pos \in 0 .. Len(expr) - 1 /\ expr[pos + 1] = ")"
    BY <1>1, <1>4 DEF Char
  <2>2. /\ CountIn(SubSeq(expr, 1, pos + 1), "(") = opened
        /\ CountIn(SubSeq(expr, 1, pos + 1), ")") = closed + 1
    BY <1>1, <1>2, <2>1, CountNext DEF One
  <2>3. CountIn(SubSeq(expr, 1, pos + 1), ")") <= CountIn(SubSeq(expr, 1, pos + 1), "(")
    BY <1>1, <2>1 DEF FitsNow, Fits, Formed, Opened, Closed
  <2> QED
    BY <1>2, <2>2, <2>3
<1> HIDE DEF opened, closed
<1>5. ASSUME pos # Len(expr)
      PROVE  /\ pos \in 0 .. Len(expr) - 1
             /\ BeginsOperand(Char) \/ EndsOperand(Char) \/ Char \in {"+", "-", "*"}
             /\ pos = 0 => BeginsOperand(Char)
             /\ pos # 0 => Adjacent(expr[pos], Char)
  <2>1. pos \in 0 .. Len(expr) - 1 /\ pos + 1 \in 1 .. Len(expr)
    BY <1>1, <1>5
  <2>2. pos # 0 => pos \in 1 .. Len(expr) - 1
    BY <2>1
  <2> QED
    BY <2>1, <2>2 DEF FitsNow, Fits, Formed, Char
<1>6. ASSUME pos # Len(expr)
      PROVE  /\ BeginsOperand(Char) \/ Char = ")" \/ Char \in {"+", "-", "*"}
             /\ Char \in {")", "+", "-", "*"} => AfterOperand
             /\ Char = "(" => ~AfterOperand
             /\ AfterOperand /\ IsDigit(Char) => IsDigit(expr[pos])
  <2>1. pos > 0 <=> pos # 0
    BY <1>1
  <2>2. BeginsOperand(Char) <=> IsDigit(Char) \/ Char = "("
    BY DEF BeginsOperand
  <2>3. EndsOperand(Char) <=> IsDigit(Char) \/ Char = ")"
    BY DEF EndsOperand
  <2>4. pos # 0 =>
          \/ IsDigit(expr[pos]) /\ IsDigit(Char)
          \/ EndsOperand(expr[pos]) <=> ~BeginsOperand(Char)
    BY <1>5, <1>6 DEF Adjacent
  <2> QED
    BY <1>5, <1>6, <2>1, <2>2, <2>3, <2>4, Kinds DEF AfterOperand
<1> QED
  BY <1>1, <1>2, <1>3, <1>4, <1>5, <1>6 DEF AfterOperand

(* What is left when the top of a stack is popped.                         *)
LEMMA StackFront ==
  ASSUME NEW S, NEW s \in Seq(S), s # <<>>
  PROVE  /\ Front(s) \in Seq(S) /\ Len(Front(s)) = Len(s) - 1 /\ Len(s) \in Nat
         /\ \A i \in 1 .. Len(s) - 1 : Front(s)[i] = s[i]
<1>1. Front(s) \in Seq(S) /\ Last(s) \in S /\ s = Append(Front(s), Last(s))
  BY FrontLast
<1>2. /\ Len(Append(Front(s), Last(s))) = Len(Front(s)) + 1
      /\ \A i \in 1 .. Len(Front(s)) : Append(Front(s), Last(s))[i] = Front(s)[i]
      /\ Len(Front(s)) \in Nat
  BY <1>1, AppendProperties
<1> QED
  BY <1>1, <1>2

(* An operator that is executed finds its numbers, and leaves one.         *)
LEMMA ExecutionFormed ==
  ASSUME AcInv, StackInv, AfterOperand, CountIn(operator_Stack, "(") >= 1,
         Last(operator_Stack) # "("
  PROVE  /\ Len(numStack) >= 2
         /\ Op_execution => StackInv' /\ UNCHANGED <<text, rest, expr, pos, stage>>
<1>1. operator_Stack \in Seq(Chars) /\ operator_Stack # <<>>
  <2>1. operator_Stack \in Seq(Chars) /\ Len(operator_Stack) > 0
    BY DEF AcInv, AcTypes, StackInv
  <2> QED
    BY <2>1, EmptySeq
<1> DEFINE front == Front(operator_Stack)
           n == Len(numStack)
<1>2. /\ front \in Seq(Chars) /\ Len(front) = Len(operator_Stack) - 1
      /\ Len(operator_Stack) \in Nat
      /\ \A i \in 1 .. Len(operator_Stack) - 1 : front[i] = operator_Stack[i]
  BY <1>1, StackFront
<1>3. /\ CountIn(front, "(") = CountIn(operator_Stack, "(")
      /\ CountIn(front, "(") \in Nat /\ CountIn(front, "(") <= Len(front)
  BY <1>1, <1>2, CountFront, CountBounded DEF One
<1>4. Len(operator_Stack) >= 2 /\ n = Waiting + 1 /\ Waiting \in Nat /\ Waiting >= 1
  BY <1>2, <1>3 DEF StackInv, Waiting
<1>5. ASSUME Op_execution PROVE StackInv' /\ UNCHANGED <<text, rest, expr, pos, stage>>
  <2>1. PICK v : numStack' = SubSeq(numStack, 1, n - 2) \o <<v>>
    BY <1>5 DEF Op_execution
  <2>2. operator_Stack' = front /\ UNCHANGED <<text, rest, expr, pos, stage>>
    BY <1>5 DEF Op_execution
  <2>3. PICK S : numStack \in Seq(S)
    BY DEF StackInv, IsSeq
  <2>4. SubSeq(numStack, 1, n - 2) \in Seq(S) /\ Len(SubSeq(numStack, 1, n - 2)) = n - 2
    <3>1. n - 2 \in 0 .. Len(numStack)
      BY <1>4
    <3> QED
      BY <2>3, <3>1, PrefixProperties
  <2>5. SubSeq(numStack, 1, n - 2) \in Seq(S \union {v}) /\ <<v>> \in Seq(S \union {v})
        /\ Len(<<v>>) = 1
    <3>1. SubSeq(numStack, 1, n - 2) \in Seq(S \union {v})
      <4>1. S \subseteq S \union {v}
        OBVIOUS
      <4> QED
        BY <2>4, <4>1, SeqMonotonic
    <3>2. <<>> \in Seq(S \union {v}) /\ v \in S \union {v}
      OBVIOUS
    <3>3. Append(<<>>, v) \in Seq(S \union {v}) /\ Len(Append(<<>>, v)) = 1
      BY <3>2, AppendProperties, EmptySeq
    <3>4. Append(<<>>, v) = <<v>>
      OBVIOUS
    <3> QED
      BY <3>1, <3>3, <3>4
  <2>6. numStack' \in Seq(S \union {v}) /\ Len(numStack') = n - 2 + 1
    BY <2>1, <2>4, <2>5, ConcatProperties
  <2>7. IsSeq(numStack')
    BY <2>6 DEF IsSeq
  <2>8. front[1] = "(" /\ Len(front) > 0
    BY <1>2, <1>4 DEF StackInv
  <2>9. Waiting' = Waiting - 1 /\ (AfterOperand' <=> AfterOperand)
    BY <1>2, <1>3, <2>2 DEF Waiting, AfterOperand
  <2> HIDE DEF front
  <2> QED
    BY <1>4, <2>2, <2>6, <2>7, <2>8, <2>9 DEF StackInv
<1> QED
  BY <1>4, <1>5

(* The bottom parenthesis goes last, and then the stack is empty.          *)
LEMMA BottomFormed ==
  ASSUME AcInv, StackInv, Last(operator_Stack) = "(", AfterOperand
  PROVE  /\ operator_Stack # <<>> /\ CountIn(operator_Stack, "(") \in Nat
         /\ CountIn(Front(operator_Stack), "(") = CountIn(operator_Stack, "(") - 1
         /\ Len(Front(operator_Stack)) = Len(operator_Stack) - 1
         /\ Len(operator_Stack) \in Nat
         /\ CountIn(operator_Stack, "(") = 1 =>
              Front(operator_Stack) = <<>> /\ Len(numStack) = 1
         /\ CountIn(operator_Stack, "(") > 1 =>
              Len(Front(operator_Stack)) > 0 /\ Front(operator_Stack)[1] = "("
<1>1. operator_Stack \in Seq(Chars) /\ operator_Stack # <<>>
  <2>1. operator_Stack \in Seq(Chars) /\ Len(operator_Stack) > 0
    BY DEF AcInv, AcTypes, StackInv
  <2> QED
    BY <2>1, EmptySeq
<1> DEFINE front == Front(operator_Stack)
<1>2. /\ front \in Seq(Chars) /\ Len(front) = Len(operator_Stack) - 1
      /\ Len(operator_Stack) \in Nat
      /\ \A i \in 1 .. Len(operator_Stack) - 1 : front[i] = operator_Stack[i]
  BY <1>1, StackFront
<1>3. /\ CountIn(operator_Stack, "(") = CountIn(front, "(") + 1
      /\ CountIn(front, "(") \in Nat /\ CountIn(front, "(") <= Len(front)
  BY <1>1, <1>2, CountFront, CountBounded DEF One
<1>4. \A i \in 1 .. Len(front) : front[i] = "(" => CountIn(front, "(") >= 1
  BY <1>2, CountBounded
<1> HIDE DEF front
<1>5. operator_Stack[1] = "(" /\ Len(numStack) = Len(operator_Stack) - CountIn(operator_Stack, "(") + 1
  BY DEF StackInv, Waiting
<1>6. Len(front) > 0 => front[1] = "(" /\ CountIn(front, "(") >= 1
  BY <1>2, <1>4, <1>5
<1>7. Len(front) = 0 => front = <<>>
  BY <1>2, EmptySeq
<1> QED
  BY <1>1, <1>2, <1>3, <1>5, <1>6, <1>7 DEF front
----------------------------------------------------------------------------
(* A closing parenthesis, or the end, finds its opening one below complete *)
(* operations.                                                             *)
LEMMA CloseFormed == AcInv /\ FormedInv /\ Close_Brackt_Process => FormedInv'
<1> SUFFICES ASSUME AcInv, FormedInv, Close_Brackt_Process, FitsNow' PROVE FormedInv'
  BY DEF FormedInv
<1>1. stage = "close" /\ UNCHANGED <<text, rest, expr>>
  BY DEF Close_Brackt_Process, Undefined, Op_execution, Advance
<1>2. FitsNow /\ expr = text /\ StackInv
  BY <1>1 DEF FitsNow, Fits, FormedInv
<1>3. /\ pos \in 0 .. Len(expr) /\ Len(expr) \in Nat /\ AfterOperand
      /\ CountIn(operator_Stack, "(") \in Nat \ {0}
      /\ pos = Len(expr) => CountIn(operator_Stack, "(") = 1
      /\ pos # Len(expr) => Char = ")" /\ CountIn(operator_Stack, "(") > 1
  <2>1. pos = Len(expr) \/ Char = ")"
    BY <1>1 DEF AcInv, ScanInv
  <2> QED
    BY <1>1, <1>2, <2>1, FormedHere
<1>4. operator_Stack # <<>>
  <2>1. operator_Stack \in Seq(Chars) /\ Len(operator_Stack) > 0
    BY <1>2 DEF AcInv, AcTypes, StackInv
  <2> QED
    BY <2>1, EmptySeq
<1>5. CASE Last(operator_Stack) # "("
  <2>1. /\ Len(numStack) >= 2
        /\ Op_execution => StackInv' /\ UNCHANGED <<text, rest, expr, pos, stage>>
    BY <1>2, <1>3, <1>5, ExecutionFormed
  <2>2. Op_execution
    BY <1>4, <1>5, <2>1 DEF Close_Brackt_Process
  <2> QED
    BY <1>1, <1>2, <2>1, <2>2 DEF FormedInv, PlaceInv, Stages
<1>6. CASE Last(operator_Stack) = "("
  <2>1. operator_Stack' = Front(operator_Stack) /\ Advance
    BY <1>4, <1>6 DEF Close_Brackt_Process
  <2>2. /\ CountIn(Front(operator_Stack), "(") = CountIn(operator_Stack, "(") - 1
        /\ Len(Front(operator_Stack)) = Len(operator_Stack) - 1 /\ Len(operator_Stack) \in Nat
        /\ CountIn(operator_Stack, "(") = 1 => Front(operator_Stack) = <<>> /\ Len(numStack) = 1
        /\ CountIn(operator_Stack, "(") > 1 =>
              Len(Front(operator_Stack)) > 0 /\ Front(operator_Stack)[1] = "("
    BY <1>2, <1>3, <1>6, BottomFormed
  <2>3. pos' = pos + 1 /\ UNCHANGED numStack /\ stage' = IF AtEnd THEN "finish" ELSE "scan"
    BY <2>1 DEF Advance
  <2>4. CASE pos = Len(expr)
    <3>1. stage' = "finish" /\ Len(numStack') = 1 /\ operator_Stack' = <<>>
      BY <1>3, <2>1, <2>2, <2>3, <2>4 DEF AtEnd
    <3> QED
      BY <1>1, <1>2, <3>1 DEF FormedInv, Stages
  <2>5. CASE pos # Len(expr)
    <3>1. stage' = "scan" /\ pos \in 0 .. Len(expr) - 1 /\ expr[pos + 1] = ")"
      BY <1>3, <2>3, <2>5 DEF AtEnd, Char
    <3>2. AfterOperand'
      BY <1>1, <2>3, <3>1, Kinds DEF AfterOperand
    <3>3. Waiting' = Waiting
      BY <1>3, <2>1, <2>2 DEF Waiting
    <3>4. StackInv'
      BY <1>2, <1>3, <2>1, <2>2, <2>3, <2>5, <3>2, <3>3 DEF StackInv
    <3>5. PlaceInv'
      BY <1>1, <2>3, <3>1, Kinds DEF PlaceInv
    <3> QED
      BY <1>1, <1>2, <3>1, <3>4, <3>5 DEF FormedInv, Stages
  <2> QED
    BY <2>4, <2>5
<1> QED
  BY <1>5, <1>6

(* An operator comes behind an operand, an opening parenthesis where one is*)
(* due.                                                                    *)
LEMMA OperatorFormed == AcInv /\ FormedInv /\ Op_can_ProcessOperands => FormedInv'
<1> SUFFICES ASSUME AcInv, FormedInv, Op_can_ProcessOperands, FitsNow' PROVE FormedInv'
  BY DEF FormedInv
<1>1. stage = "operator" /\ UNCHANGED <<text, rest, expr>>
  BY DEF Op_can_ProcessOperands, Undefined, Op_execution, Advance
<1>2. FitsNow /\ expr = text /\ StackInv /\ ~IsDigit(Char)
  BY <1>1 DEF FitsNow, Fits, FormedInv, PlaceInv
<1>3. pos # Len(expr) /\ Char # ")"
  BY <1>1 DEF AcInv, AcTypes, ScanInv
<1>4. /\ pos \in 0 .. Len(expr) - 1 /\ Len(expr) \in Nat
      /\ CountIn(operator_Stack, "(") \in Nat \ {0}
      /\ \/ Char = "(" /\ ~AfterOperand
         \/ Char \in {"+", "-", "*"} /\ AfterOperand
  BY <1>1, <1>2, <1>3, FormedHere DEF BeginsOperand
<1>5. CASE Pending
  <2>1. Last(operator_Stack) # "(" /\ Char # "("
    BY <1>5 DEF Pending, Op_Eval
  <2>2. /\ Len(numStack) >= 2
        /\ Op_execution => StackInv' /\ UNCHANGED <<text, rest, expr, pos, stage>>
    BY <1>2, <1>4, <2>1, ExecutionFormed
  <2>3. Op_execution
    BY <1>5, <2>2 DEF Op_can_ProcessOperands
  <2> QED
    BY <1>1, <1>2, <2>2, <2>3 DEF FormedInv, PlaceInv, Stages, Char
<1>6. CASE ~Pending
  <2>1. operator_Stack' = Append(operator_Stack, Char) /\ pos' = pos + 1 /\ stage' = "scan"
        /\ UNCHANGED numStack
    BY <1>3, <1>6 DEF Op_can_ProcessOperands, Advance, AtEnd
  <2>2. operator_Stack \in Seq(Chars) /\ Char \in Chars
    BY <1>4 DEF AcInv, AcTypes, Char
  <2>3. /\ Len(operator_Stack) \in Nat /\ Len(operator_Stack') = Len(operator_Stack) + 1
        /\ \A i \in 1 .. Len(operator_Stack) : operator_Stack'[i] = operator_Stack[i]
        /\ CountIn(operator_Stack', "(") = CountIn(operator_Stack, "(") + One(Char, "(")
    BY <2>1, <2>2, AppendProperties, CountAppend
  <2>4. ~AfterOperand'
    <3>1. ~EndsOperand(expr[pos + 1])
      BY <1>4, Kinds DEF Char
    <3> QED
      BY <1>1, <2>1, <3>1 DEF AfterOperand
  <2>5. Waiting' = Waiting + (IF AfterOperand THEN 1 ELSE 0)
    BY <1>4, <2>3 DEF Waiting, One
  <2>6. StackInv'
    <3>1. Waiting \in Int
      BY <1>4, <2>3 DEF Waiting
    <3>2. Len(operator_Stack') > 0 /\ operator_Stack'[1] = "("
      BY <1>2, <2>3 DEF StackInv
    <3>3. IsSeq(numStack') /\ Len(numStack') = Waiting' + 0
      BY <1>2, <2>1, <2>5, <3>1 DEF StackInv
    <3> QED
      BY <2>4, <3>2, <3>3 DEF StackInv
  <2>7. PlaceInv'
    <3>1. ~IsDigit(expr[pos + 1])
      BY <1>2 DEF Char
    <3> QED
      BY <1>1, <2>1, <3>1 DEF PlaceInv
  <2> QED
    BY <1>1, <1>2, <2>1, <2>6, <2>7 DEF FormedInv, Stages
<1> QED
  BY <1>5, <1>6

(* A number is pushed where an operand is due, and read to its end.        *)
LEMMA NumberFormed == AcInv /\ FormedInv /\ Num_Proccess => FormedInv'
<1> SUFFICES ASSUME AcInv, FormedInv, Num_Proccess, FitsNow' PROVE FormedInv'
  BY DEF FormedInv
<1>1. stage = "scan" /\ NextIs = "number" /\ UNCHANGED <<text, rest, expr, operator_Stack, stage>>
  BY DEF Num_Proccess
<1>2. FitsNow /\ expr = text /\ StackInv /\ PlaceInv
  BY <1>1 DEF FitsNow, Fits, FormedInv
<1>3. pos # Len(expr) /\ IsDigit(Char)
  BY <1>1 DEF NextIs, AtEnd
<1>4. pos \in 0 .. Len(expr) - 1 /\ Len(expr) \in Nat /\ ~AfterOperand
      /\ CountIn(operator_Stack, "(") \in Nat
  <2>1. /\ pos \in 0 .. Len(expr) - 1 /\ Len(expr) \in Nat
        /\ CountIn(operator_Stack, "(") \in Nat
        /\ AfterOperand => IsDigit(expr[pos])
    BY <1>1, <1>2, <1>3, FormedHere
  <2> QED
    BY <1>1, <1>2, <1>3, <2>1 DEF PlaceInv, AfterOperand, Char
<1>5. PICK n \in pos + 1 .. Len(expr) :
        /\ \A i \in pos + 1 .. n : IsDigit(expr[i])
        /\ n < Len(expr) => ~IsDigit(expr[n + 1])
        /\ \E v : numStack' = Append(numStack, v)
        /\ pos' = n
  BY DEF Num_Proccess
<1>6. AfterOperand'
  BY <1>1, <1>4, <1>5 DEF AfterOperand, EndsOperand
<1>7. IsSeq(numStack') /\ Len(numStack') = Len(numStack) + 1 /\ Len(numStack) \in Nat
  <2>1. PICK v : numStack' = Append(numStack, v)
    BY <1>5
  <2>2. PICK S : numStack \in Seq(S)
    BY <1>2 DEF StackInv, IsSeq
  <2>3. numStack \in Seq(S \union {v})
    <3>1. S \subseteq S \union {v}
      OBVIOUS
    <3> QED
      BY <2>2, <3>1, SeqMonotonic
  <2>4. v \in S \union {v}
    OBVIOUS
  <2>5. /\ Append(numStack, v) \in Seq(S \union {v})
        /\ Len(Append(numStack, v)) = Len(numStack) + 1 /\ Len(numStack) \in Nat
    BY <2>3, <2>4, AppendProperties
  <2> QED
    BY <2>1, <2>5 DEF IsSeq
<1>8. StackInv'
  <2>1. Waiting' = Waiting /\ Waiting = Len(numStack)
    <3>1. Len(operator_Stack) \in Nat
      BY DEF AcInv, AcTypes
    <3> QED
      BY <1>1, <1>2, <1>4, <3>1 DEF Waiting, StackInv
  <2> QED
    BY <1>1, <1>2, <1>6, <1>7, <2>1 DEF StackInv
<1>9. PlaceInv'
  BY <1>1, <1>4, <1>5 DEF PlaceInv
<1> QED
  BY <1>1, <1>2, <1>8, <1>9 DEF FormedInv, Stages

LEMMA FormedInit == AcInit => FormedInv
BY DEF AcInit, FormedInv, Stages

(* Every step of a well-formed evaluation leaves the stacks in step with   *)
(* the scan.                                                               *)
LEMMA FormedStep == AcInv /\ FormedInv /\ [AcNext]_acVars => FormedInv'
<1> SUFFICES ASSUME AcInv, FormedInv, [AcNext]_acVars PROVE FormedInv'
  OBVIOUS
<1>1. CASE CopyExpr
  <2> SUFFICES ASSUME FitsNow' PROVE FormedInv'
    BY DEF FormedInv
  <2>1. /\ stage = "copy" /\ FitsNow /\ numStack = <<>> /\ pos = 0 /\ operator_Stack = <<"(">>
        /\ UNCHANGED <<text, rest, pos, numStack, operator_Stack>>
    BY <1>1 DEF CopyExpr, FitsNow, Fits, FormedInv, AcInv, ScanInv
  <2>2. expr' = text /\ stage' = "scan"
    <3>1. text \o rest = text
      BY <2>1, ConcatEmptySeq DEF FitsNow, Fits, AcInv, AcTypes
    <3> QED
      BY <1>1, <2>1, <3>1 DEF CopyExpr, FitsNow, Fits
  <2>3. Len(operator_Stack) = 1 /\ operator_Stack[1] = "(" /\ CountIn(operator_Stack, "(") = 1
    BY <2>1, CountBounds
  <2>4. numStack' \in Seq({}) /\ Len(numStack') = 0
    BY <2>1, EmptySeq
  <2>5. StackInv'
    BY <2>1, <2>3, <2>4 DEF StackInv, IsSeq, Waiting, AfterOperand
  <2>6. PlaceInv'
    BY <2>1, <2>2 DEF PlaceInv
  <2> QED
    BY <2>1, <2>2, <2>5, <2>6 DEF FormedInv, Stages
<1>2. CASE Scan
  <2>1. /\ stage = "scan" /\ stage' \in {"close", "operator"}
        /\ stage' = "operator" => ~IsDigit(Char)
        /\ UNCHANGED <<text, rest, expr, pos, numStack, operator_Stack, value>>
    BY <1>2 DEF Scan, NextIs
  <2> QED
    BY <2>1 DEF FormedInv, FitsNow, Fits, StackInv, PlaceInv, Waiting, AfterOperand, Stages, Char
<1>3. CASE Num_Proccess
  BY <1>3, NumberFormed
<1>4. CASE Close_Brackt_Process
  BY <1>4, CloseFormed
<1>5. CASE Op_can_ProcessOperands
  BY <1>5, OperatorFormed
<1>6. CASE Finish
  <2>1. /\ stage = "finish" /\ UNCHANGED <<text, rest, expr, numStack, operator_Stack>>
        /\ numStack # <<>> => stage' = "done"
    BY <1>6 DEF Finish, Undefined
  <2>2. Len(<<>>) = 0
    OBVIOUS
  <2> QED
    BY <2>1, <2>2 DEF FormedInv, FitsNow, Fits, Stages
<1>7. CASE UNCHANGED acVars
  BY <1>7 DEF acVars, FormedInv, FitsNow, Fits, StackInv, PlaceInv, Waiting, AfterOperand, Char
<1> QED
  BY <1>1, <1>2, <1>3, <1>4, <1>5, <1>6, <1>7 DEF AcNext

(***************************************************************************)
(* Eval_Expr is defined on every well-formed expression that fits its      *)
(* array, of any length and nesting: Op_execution never takes the top of a *)
(* stack that lacks a number, no parenthesis is missed, and what is left   *)
(* in the end is one number.                                               *)
(***************************************************************************)
THEOREM AcFormedIsDefined == AcSpec => []FormedIsDefined
<1>1. FormedInv => FormedIsDefined
  BY DEF FormedInv, FormedIsDefined, FitsNow, Fits
<1> QED
  BY <1>1, FormedInit, FormedStep, AcInvariance, PTL DEF AcSpec
----------------------------------------------------------------------------
----------------------------------------------------------------------------
(***************************************************************************)
(* Wrapping.  Wrap(x) is the one number of the range that differs from x   *)
(* by a multiple of 2 * Half, so that wrapping the arguments of an         *)
(* operator as well as its result changes nothing.                         *)
(***************************************************************************)
LEMMA DivisionRule ==
  ASSUME NEW y \in Int, NEW M \in Nat, M > 0
  PROVE  y \div M \in Int /\ y % M \in 0 .. M - 1 /\ y % M = y - M * (y \div M)
<1>1. y \div M \in Int /\ y % M \in 0 .. M - 1
  OBVIOUS
<1>2. y % M = y - M * (y \div M)
  BY SMTT(60)
<1> QED
  BY <1>1, <1>2

LEMMA WrapIs ==
  ASSUME NEW x \in Int
  PROVE  /\ Wrap(x) \in -Half .. Half - 1
         /\ \E k \in Int : Wrap(x) = x - 2 * Half * k
<1>1. PICK M : M = 2 * Half
  OBVIOUS
<1>2. Half \in Nat \ {0} /\ M \in Nat \ {0}
  BY <1>1, SizesAssumption
<1>3. PICK y, q : y = x + Half /\ q = y \div M
  OBVIOUS
<1>4. y \in Int /\ q \in Int /\ y % M \in 0 .. M - 1 /\ y % M = y - M * q
  <2>1. y \in Int /\ M \in Nat /\ M > 0
    BY <1>2, <1>3
  <2> QED
    BY <1>3, <2>1, DivisionRule
<1>5. Wrap(x) = (y % M) - Half
  BY <1>1, <1>3 DEF Wrap
<1>6. Wrap(x) = x - M * q
  <2>1. PICK p : p = M * q
    OBVIOUS
  <2>2. p \in Int /\ y % M = y - p
    BY <1>2, <1>4, <2>1
  <2>3. Wrap(x) = x - p
    BY <1>2, <1>3, <1>5, <2>2
  <2> QED
    BY <2>1, <2>3
<1> QED
  <2>1. Wrap(x) \in -Half .. Half - 1
    BY <1>1, <1>2, <1>4, <1>5
  <2> QED
    BY <1>1, <1>4, <1>6, <2>1

LEMMA WrapUnique ==
  ASSUME NEW x \in Int, NEW w \in -Half .. Half - 1, NEW k \in Int, w = x - 2 * Half * k
  PROVE  Wrap(x) = w
<1>1. PICK M : M = 2 * Half
  OBVIOUS
<1>2. Half \in Nat \ {0} /\ M \in Nat \ {0}
  BY <1>1, SizesAssumption
<1>3. PICK j \in Int : Wrap(x) = x - M * j
  BY <1>1, WrapIs
<1>4. Wrap(x) \in -Half .. Half - 1
  BY WrapIs
<1>5. Wrap(x) - w = M * (k - j)
  <2>1. M * k \in Int /\ M * j \in Int /\ M * (k - j) = M * k - M * j
    BY <1>2
  <2> QED
    BY <1>1, <1>3, <2>1
<1>6. Wrap(x) - w < M /\ Wrap(x) - w > -M
  BY <1>1, <1>2, <1>4
<1>7. k - j = 0
  <2>1. k - j \in Int
    OBVIOUS
  <2>2. k - j >= 1 => M * (k - j) >= M
    BY <1>2, <2>1
  <2>3. k - j <= -1 => M * (k - j) <= -M
    BY <1>2, <2>1
  <2>4. ~(k - j >= 1) /\ ~(k - j <= -1)
    BY <1>2, <1>5, <1>6, <2>2, <2>3
  <2> QED
    BY <2>1, <2>4
<1>8. Wrap(x) - w = 0
  BY <1>2, <1>5, <1>7
<1> QED
  BY <1>2, <1>4, <1>8

(* A number of the range is itself; any other has a larger magnitude than  *)
(* what is left of it.                                                     *)
LEMMA WrapSmall ==
  ASSUME NEW x \in Int
  PROVE  /\ x \in -Half .. Half - 1 => Wrap(x) = x
         /\ Magnitude(Wrap(x)) <= Magnitude(x)
<1>1. Half \in Nat \ {0} /\ Wrap(x) \in -Half .. Half - 1
  BY SizesAssumption, WrapIs
<1>2. x \in -Half .. Half - 1 => Wrap(x) = x
  <2>1. x = x - 2 * Half * 0
    BY <1>1
  <2> QED
    BY <2>1, WrapUnique
<1>3. x \notin -Half .. Half - 1 => Magnitude(Wrap(x)) <= Magnitude(x)
  BY <1>1 DEF Magnitude
<1> QED
  BY <1>2, <1>3 DEF Magnitude

LEMMA WrapCongruent ==
  ASSUME NEW x \in Int, NEW y \in Int, NEW k \in Int, x = y - 2 * Half * k
  PROVE  Wrap(x) = Wrap(y)
<1>1. PICK M : M = 2 * Half
  OBVIOUS
<1>2. M \in Nat
  BY <1>1, SizesAssumption
<1>3. PICK j \in Int : Wrap(x) = x - M * j
  BY <1>1, WrapIs
<1>4. Wrap(x) = y - M * (k + j)
  <2>1. M * k \in Int /\ M * j \in Int /\ M * (k + j) = M * k + M * j
    BY <1>2
  <2> QED
    BY <1>1, <1>3, <2>1
<1> QED
  BY <1>1, <1>4, WrapIs, WrapUnique

(* The value of an operator on what is left of its operands.               *)
LEMMA WrapExactly ==
  ASSUME NEW x \in Int, NEW y \in Int, NEW op \in {"+", "-", "*"}
  PROVE  /\ Exactly(op, x, y) \in Int
         /\ Apply(op, Wrap(x), Wrap(y)) = Wrap(Exactly(op, x, y))
<1>1. PICK M : M = 2 * Half
  OBVIOUS
<1>2. M \in Nat
  BY <1>1, SizesAssumption
<1>3. PICK j \in Int, k \in Int : Wrap(x) = x - M * j /\ Wrap(y) = y - M * k
  BY <1>1, WrapIs
<1>4. M * j \in Int /\ M * k \in Int /\ Wrap(x) \in Int /\ Wrap(y) \in Int
  BY <1>2, <1>3
<1>5. CASE op = "+"
  <2>1. Wrap(x) + Wrap(y) = (x + y) - M * (j + k)
    <3>1. M * (j + k) = M * j + M * k
      BY <1>2
    <3> QED
      BY <1>3, <1>4, <3>1
  <2> QED
    BY <1>1, <1>4, <1>5, <2>1, WrapCongruent DEF Apply, Exactly
<1>6. CASE op = "-"
  <2>1. Wrap(x) - Wrap(y) = (x - y) - M * (j - k)
    <3>1. M * (j - k) = M * j - M * k
      BY <1>2
    <3> QED
      BY <1>3, <1>4, <3>1
  <2> QED
    BY <1>1, <1>4, <1>6, <2>1, WrapCongruent DEF Apply, Exactly
<1>7. CASE op = "*"
  <2>1. PICK i : i = j * y + k * x - M * (j * k)
    OBVIOUS
  <2>2. i \in Int
    BY <1>2, <2>1
  <2>3. Wrap(x) * Wrap(y) = x * y - M * i
    <3>1. (x - M * j) * (y - M * k) = x * y - M * (j * y + k * x - M * (j * k))
      BY <1>2
    <3> QED
      BY <1>3, <2>1, <3>1
  <2>4. Wrap(x) * Wrap(y) \in Int /\ x * y \in Int
    BY <1>4
  <2> QED
    BY <1>1, <1>7, <2>2, <2>3, <2>4, WrapCongruent DEF Apply, Exactly
<1> QED
  BY <1>5, <1>6, <1>7

----------------------------------------------------------------------------
(***************************************************************************)
(* Numbers.  The run of digits is read from the left; Digitwise says that  *)
(* f is the sequence of the numbers read on the way.                       *)
(***************************************************************************)
Digitwise(f, run) ==
  /\ f[0] = 0
  /\ \A i \in 1 .. Len(run) : f[i] = 10 * f[i - 1] + DigitOf(run[i])

DigitwiseWrapped(f, run) ==
  /\ f[0] = 0
  /\ \A i \in 1 .. Len(run) : f[i] = Wrap(10 * f[i - 1] + DigitOf(run[i]))

LEMMA DigitRange == \A c : IsDigit(c) => DigitOf(c) \in 0 .. 9
BY DEF IsDigit, DigitOf

(* The recursive functions exist, at every length, by induction.           *)
LEMMA NumberExists ==
  ASSUME NEW run
  PROVE  \A n \in Nat : \E f :
           f = [i \in 0 .. n |-> IF i = 0 THEN 0 ELSE 10 * f[i - 1] + DigitOf(run[i])]
<1> DEFINE P(n) == \E f :
             f = [i \in 0 .. n |-> IF i = 0 THEN 0 ELSE 10 * f[i - 1] + DigitOf(run[i])]
           S == {n \in Nat : P(n)}
<1>1. P(0)
  <2>1. [i \in 0 .. 0 |-> 0] =
        [i \in 0 .. 0 |->
           IF i = 0 THEN 0 ELSE 10 * [j \in 0 .. 0 |-> 0][i - 1] + DigitOf(run[i])]
    OBVIOUS
  <2> QED
    BY <2>1
<1>2. ASSUME NEW n \in Nat, P(n) PROVE P(n + 1)
  <2>1. PICK f : f = [i \in 0 .. n |-> IF i = 0 THEN 0 ELSE 10 * f[i - 1] + DigitOf(run[i])]
    BY <1>2
  <2> DEFINE g == [i \in 0 .. n + 1 |->
                     IF i = n + 1 THEN 10 * f[n] + DigitOf(run[n + 1]) ELSE f[i]]
  <2>2. ASSUME NEW i \in 0 .. n + 1
        PROVE  g[i] = IF i = 0 THEN 0 ELSE 10 * g[i - 1] + DigitOf(run[i])
    <3>1. CASE i = n + 1
      <4>1. g[i - 1] = f[n]
        BY <3>1
      <4> QED
        BY <3>1, <4>1
    <3>2. CASE i \in 0 .. n /\ i # 0
      <4>1. g[i - 1] = f[i - 1] /\ g[i] = f[i]
        BY <3>2
      <4> QED
        BY <2>1, <3>2, <4>1
    <3>3. CASE i = 0
      BY <2>1, <3>3
    <3> QED
      BY <3>1, <3>2, <3>3
  <2>3. DOMAIN g = 0 .. n + 1 /\ g = [i \in DOMAIN g |-> g[i]]
    OBVIOUS
  <2> HIDE DEF g
  <2>4. g = [i \in 0 .. n + 1 |-> IF i = 0 THEN 0 ELSE 10 * g[i - 1] + DigitOf(run[i])]
    BY <2>2, <2>3
  <2> QED
    BY <2>4
<1>3. 0 \in S /\ \A n \in Nat : n \in S => n + 1 \in S
  <2>1. \A n \in Nat : P(n) => P(n + 1)
    BY <1>2
  <2> HIDE DEF P
  <2> QED
    BY <1>1, <2>1
<1>4. \A n \in Nat : n \in S
  <2> HIDE DEF S
  <2> QED
    BY <1>3, SetInduction
<1> QED
  BY <1>4

LEMMA ReadingExists ==
  ASSUME NEW run
  PROVE  \A n \in Nat : \E f :
           f = [i \in 0 .. n |-> IF i = 0 THEN 0 ELSE Wrap(10 * f[i - 1] + DigitOf(run[i]))]
<1> DEFINE P(n) == \E f :
             f = [i \in 0 .. n |-> IF i = 0 THEN 0 ELSE Wrap(10 * f[i - 1] + DigitOf(run[i]))]
           S == {n \in Nat : P(n)}
<1>1. P(0)
  <2>1. [i \in 0 .. 0 |-> 0] =
        [i \in 0 .. 0 |->
           IF i = 0 THEN 0 ELSE Wrap(10 * [j \in 0 .. 0 |-> 0][i - 1] + DigitOf(run[i]))]
    OBVIOUS
  <2> QED
    BY <2>1
<1>2. ASSUME NEW n \in Nat, P(n) PROVE P(n + 1)
  <2>1. PICK f :
          f = [i \in 0 .. n |-> IF i = 0 THEN 0 ELSE Wrap(10 * f[i - 1] + DigitOf(run[i]))]
    BY <1>2
  <2> DEFINE g == [i \in 0 .. n + 1 |->
                     IF i = n + 1 THEN Wrap(10 * f[n] + DigitOf(run[n + 1])) ELSE f[i]]
  <2>2. ASSUME NEW i \in 0 .. n + 1
        PROVE  g[i] = IF i = 0 THEN 0 ELSE Wrap(10 * g[i - 1] + DigitOf(run[i]))
    <3>1. CASE i = n + 1
      <4>1. g[i - 1] = f[n]
        BY <3>1
      <4> QED
        BY <3>1, <4>1
    <3>2. CASE i \in 0 .. n /\ i # 0
      <4>1. g[i - 1] = f[i - 1] /\ g[i] = f[i]
        BY <3>2
      <4> QED
        BY <2>1, <3>2, <4>1
    <3>3. CASE i = 0
      BY <2>1, <3>3
    <3> QED
      BY <3>1, <3>2, <3>3
  <2>3. DOMAIN g = 0 .. n + 1 /\ g = [i \in DOMAIN g |-> g[i]]
    OBVIOUS
  <2> HIDE DEF g
  <2>4. g = [i \in 0 .. n + 1 |-> IF i = 0 THEN 0 ELSE Wrap(10 * g[i - 1] + DigitOf(run[i]))]
    BY <2>2, <2>3
  <2> QED
    BY <2>4
<1>3. 0 \in S /\ \A n \in Nat : n \in S => n + 1 \in S
  <2>1. \A n \in Nat : P(n) => P(n + 1)
    BY <1>2
  <2> HIDE DEF P
  <2> QED
    BY <1>1, <2>1
<1>4. \A n \in Nat : n \in S
  <2> HIDE DEF S
  <2> QED
    BY <1>3, SetInduction
<1> QED
  BY <1>4

LEMMA NumberUnfolds ==
  ASSUME NEW run, Len(run) \in Nat
  PROVE  \E f : NumberOf(run) = f[Len(run)] /\ Digitwise(f, run)
<1> DEFINE f == CHOOSE f :
             f = [i \in 0 .. Len(run) |-> IF i = 0 THEN 0 ELSE 10 * f[i - 1] + DigitOf(run[i])]
<1>1. NumberOf(run) = f[Len(run)]
  BY DEF NumberOf
<1>2. f = [i \in 0 .. Len(run) |-> IF i = 0 THEN 0 ELSE 10 * f[i - 1] + DigitOf(run[i])]
  BY NumberExists
<1> HIDE DEF f
<1>3. Digitwise(f, run)
  BY <1>2 DEF Digitwise
<1> QED
  BY <1>1, <1>3

LEMMA ReadingUnfolds ==
  ASSUME NEW run, Len(run) \in Nat
  PROVE  \E f : ReadNumber(run) = f[Len(run)] /\ DigitwiseWrapped(f, run)
<1> DEFINE f == CHOOSE f :
             f = [i \in 0 .. Len(run) |->
                    IF i = 0 THEN 0 ELSE Wrap(10 * f[i - 1] + DigitOf(run[i]))]
<1>1. ReadNumber(run) = f[Len(run)]
  BY DEF ReadNumber
<1>2. f = [i \in 0 .. Len(run) |-> IF i = 0 THEN 0 ELSE Wrap(10 * f[i - 1] + DigitOf(run[i]))]
  BY ReadingExists
<1> HIDE DEF f
<1>3. DigitwiseWrapped(f, run)
  BY <1>2 DEF DigitwiseWrapped
<1> QED
  BY <1>1, <1>3

----------------------------------------------------------------------------
(* The powers of ten an int knows.                                         *)
LEMMA Powers ==
  /\ PowerOf10[0] = 1 /\ PowerOf10[1] = 10 /\ PowerOf10[2] = 100 /\ PowerOf10[3] = 1000
  /\ PowerOf10[4] = 10000 /\ PowerOf10[5] = 100000 /\ PowerOf10[6] = 1000000
  /\ PowerOf10[7] = 10000000 /\ PowerOf10[8] = 100000000 /\ PowerOf10[9] = 1000000000
BY DEF PowerOf10

LEMMA PowersGrow ==
  /\ \A n \in 0 .. 9 : PowerOf10[n] \in Nat \ {0}
  /\ \A n \in 1 .. 9 : PowerOf10[n] = 10 * PowerOf10[n - 1]
<1>1. \A n \in 0 .. 9 : n \in {0, 1, 2, 3, 4, 5, 6, 7, 8, 9}
  OBVIOUS
<1> QED
  BY <1>1, Powers

LEMMA PowersMonotonic ==
  ASSUME NEW a \in 0 .. 9, NEW b \in a .. 9
  PROVE  PowerOf10[a] <= PowerOf10[b]
<1>1. a \in {0, 1, 2, 3, 4, 5, 6, 7, 8, 9} /\ b \in {0, 1, 2, 3, 4, 5, 6, 7, 8, 9} /\ a <= b
  OBVIOUS
<1> QED
  BY <1>1, Powers

(* What a text of n characters can say: a value of at most n digits.       *)
Below10(v, n) == n <= 9 => Magnitude(v) < PowerOf10[n]

LEMMA BelowGrows ==
  ASSUME NEW v \in Int, NEW m \in Nat, NEW n \in Nat, m <= n, Below10(v, m)
  PROVE  Below10(v, n)
<1> SUFFICES ASSUME n <= 9 PROVE Magnitude(v) < PowerOf10[n]
  BY DEF Below10
<1>1. m \in 0 .. 9 /\ n \in m .. 9
  OBVIOUS
<1>2. PowerOf10[m] <= PowerOf10[n] /\ PowerOf10[m] \in Nat /\ PowerOf10[n] \in Nat
  BY <1>1, PowersMonotonic, PowersGrow
<1>3. Magnitude(v) < PowerOf10[m] /\ Magnitude(v) \in Nat
  BY <1>1 DEF Below10, Magnitude
<1> QED
  BY <1>2, <1>3

LEMMA PowersOfSum ==
  ASSUME NEW a \in 1 .. 9, NEW b \in 1 .. 9, a + b <= 9
  PROVE  /\ PowerOf10[a] * PowerOf10[b] <= PowerOf10[a + b]
         /\ PowerOf10[a] + PowerOf10[b] <= PowerOf10[a + b]
<1>1. a \in {1, 2, 3, 4, 5, 6, 7, 8}
  OBVIOUS
<1>2. CASE a = 1
  BY <1>2, Powers, b \in {1, 2, 3, 4, 5, 6, 7, 8}
<1>3. CASE a = 2
  BY <1>3, Powers, b \in {1, 2, 3, 4, 5, 6, 7}
<1>4. CASE a = 3
  BY <1>4, Powers, b \in {1, 2, 3, 4, 5, 6}
<1>5. CASE a = 4
  BY <1>5, Powers, b \in {1, 2, 3, 4, 5}
<1>6. CASE a = 5
  BY <1>6, Powers, b \in {1, 2, 3, 4}
<1>7. CASE a = 6
  BY <1>7, Powers, b \in {1, 2, 3}
<1>8. CASE a = 7
  BY <1>8, Powers, b \in {1, 2}
<1>9. CASE a = 8
  BY <1>9, Powers, b = 1
<1> QED
  BY <1>1, <1>2, <1>3, <1>4, <1>5, <1>6, <1>7, <1>8, <1>9

(* The value of an operator has no more digits than its operands together. *)
LEMMA BelowExactly ==
  ASSUME NEW x \in Int, NEW y \in Int, NEW m \in Nat \ {0}, NEW n \in Nat \ {0},
         Below10(x, m), Below10(y, n), NEW op \in {"+", "-", "*"}
  PROVE  Below10(Exactly(op, x, y), m + n)
<1> SUFFICES ASSUME m + n <= 9 PROVE Magnitude(Exactly(op, x, y)) < PowerOf10[m + n]
  BY DEF Below10
<1>1. m \in 1 .. 9 /\ n \in 1 .. 9
  OBVIOUS
<1>2. PICK p, q, r : p = PowerOf10[m] /\ q = PowerOf10[n] /\ r = PowerOf10[m + n]
  OBVIOUS
<1>3. p \in Nat \ {0} /\ q \in Nat \ {0} /\ r \in Nat
  BY <1>1, <1>2, PowersGrow
<1>4. p * q <= r /\ p + q <= r
  BY <1>1, <1>2, PowersOfSum
<1>5. PICK a, b : a = Magnitude(x) /\ b = Magnitude(y)
  OBVIOUS
<1>6. a \in Nat /\ b \in Nat /\ a < p /\ b < q
  BY <1>1, <1>2, <1>5 DEF Below10, Magnitude
<1>7. CASE op \in {"+", "-"}
  <2>1. Magnitude(Exactly(op, x, y)) <= a + b
    BY <1>5, <1>7 DEF Exactly, Magnitude
  <2> QED
    BY <1>2, <1>3, <1>4, <1>6, <2>1, <1>7 DEF Exactly, Magnitude
<1>8. CASE op = "*"
  <2>1. Magnitude(x * y) = a * b
    <3>1. (x >= 0 => a = x) /\ (x < 0 => a = -x) /\ (y >= 0 => b = y) /\ (y < 0 => b = -y)
      BY <1>5 DEF Magnitude
    <3>2. a * b \in Nat
      BY <1>6
    <3>3. x * y = a * b \/ x * y = -(a * b)
      <4>1. (-a) * b = -(a * b) /\ a * (-b) = -(a * b) /\ (-a) * (-b) = a * b
        BY <1>6
      <4> QED
        BY <1>6, <3>1, <4>1
    <3> QED
      BY <3>2, <3>3 DEF Magnitude
  <2>2. a * b < p * q
    <3>1. a * b <= a * q /\ a * q < p * q
      BY <1>3, <1>6
    <3>2. a * b \in Nat /\ a * q \in Nat /\ p * q \in Nat
      BY <1>3, <1>6
    <3> QED
      BY <3>1, <3>2
  <2>3. a * b \in Nat /\ p * q \in Nat
    BY <1>3, <1>6
  <2>4. Exactly(op, x, y) = x * y
    BY <1>8 DEF Exactly
  <2> QED
    BY <1>2, <1>3, <1>4, <2>1, <2>2, <2>3, <2>4
<1> QED
  BY <1>7, <1>8

(* A run of n digits: the machine's number is what is left of the number,  *)
(* which has at most n digits.                                             *)
LEMMA NumberRead ==
  ASSUME NEW run, Len(run) \in Nat, \A i \in 1 .. Len(run) : IsDigit(run[i])
  PROVE  /\ NumberOf(run) \in Nat /\ Below10(NumberOf(run), Len(run))
         /\ ReadNumber(run) = Wrap(NumberOf(run))
<1>1. PICK f : NumberOf(run) = f[Len(run)] /\ Digitwise(f, run)
  BY NumberUnfolds
<1>2. PICK g : ReadNumber(run) = g[Len(run)] /\ DigitwiseWrapped(g, run)
  BY ReadingUnfolds
<1> DEFINE P(n) == n <= Len(run) => f[n] \in Nat /\ Below10(f[n], n) /\ g[n] = Wrap(f[n])
           S == {n \in Nat : P(n)}
<1>3. P(0)
  <2>1. f[0] = 0 /\ g[0] = 0 /\ Wrap(0) = 0
    <3>1. 0 \in -Half .. Half - 1
      BY SizesAssumption
    <3> QED
      BY <1>1, <1>2, <3>1, WrapSmall DEF Digitwise, DigitwiseWrapped
  <2>2. Below10(0, 0)
    BY Powers DEF Below10, Magnitude
  <2> QED
    BY <2>1, <2>2
<1>4. ASSUME NEW n \in Nat, P(n) PROVE P(n + 1)
  <2> SUFFICES ASSUME n + 1 <= Len(run)
      PROVE  f[n + 1] \in Nat /\ Below10(f[n + 1], n + 1) /\ g[n + 1] = Wrap(f[n + 1])
    OBVIOUS
  <2>1. f[n] \in Nat /\ Below10(f[n], n) /\ g[n] = Wrap(f[n])
    BY <1>4
  <2>2. PICK x, d : x = f[n] /\ d = DigitOf(run[n + 1])
    OBVIOUS
  <2>3. d \in 0 .. 9 /\ n + 1 \in 1 .. Len(run) /\ n + 1 - 1 = n
    BY <2>2, DigitRange
  <2>4. f[n + 1] = 10 * x + d /\ g[n + 1] = Wrap(10 * Wrap(x) + d)
    BY <1>1, <1>2, <2>1, <2>2, <2>3 DEF Digitwise, DigitwiseWrapped
  <2>5. Wrap(10 * Wrap(x) + d) = Wrap(10 * x + d)
    <3>1. x \in Int /\ Half \in Nat
      BY <2>1, <2>2, SizesAssumption
    <3>2. PICK k \in Int : Wrap(x) = x - 2 * Half * k
      BY <3>1, WrapIs
    <3>3. Wrap(x) \in Int
      BY <3>1, WrapIs
    <3>4. 10 * Wrap(x) + d = (10 * x + d) - 2 * Half * (10 * k)
      BY <2>3, <3>1, <3>2
    <3>5. 10 * Wrap(x) + d \in Int /\ 10 * x + d \in Int /\ 10 * k \in Int
      BY <2>3, <3>1, <3>3
    <3> QED
      BY <3>4, <3>5, WrapCongruent
  <2>6. Below10(10 * x + d, n + 1)
    <3> SUFFICES ASSUME n + 1 <= 9 PROVE Magnitude(10 * x + d) < PowerOf10[n + 1]
      BY DEF Below10
    <3>1. x \in Nat /\ x < PowerOf10[n]
      BY <2>1, <2>2 DEF Below10, Magnitude
    <3>2. PowerOf10[n] \in Nat /\ PowerOf10[n + 1] = 10 * PowerOf10[n]
      <4>1. PICK k : k = n + 1
        OBVIOUS
      <4>2. n \in 0 .. 9 /\ k \in 1 .. 9 /\ k - 1 = n
        BY <4>1
      <4>3. PowerOf10[k] = 10 * PowerOf10[k - 1] /\ PowerOf10[n] \in Nat
        BY <4>2, PowersGrow
      <4> QED
        BY <4>1, <4>2, <4>3
    <3>3. 10 * x + d \in Nat /\ 10 * x + d < 10 * PowerOf10[n]
      <4>1. \A y, p, e \in Nat : y < p /\ e <= 9 => 10 * y + e < 10 * p
        OBVIOUS
      <4>2. d \in Nat /\ d <= 9
        BY <2>3
      <4> QED
        BY <3>1, <3>2, <4>1, <4>2
    <3>4. Magnitude(10 * x + d) = 10 * x + d
      BY <3>3 DEF Magnitude
    <3> QED
      BY <3>2, <3>3, <3>4
  <2> QED
    BY <2>1, <2>2, <2>3, <2>4, <2>5, <2>6
<1>5. 0 \in S /\ \A n \in Nat : n \in S => n + 1 \in S
  <2>1. \A n \in Nat : P(n) => P(n + 1)
    BY <1>4
  <2> HIDE DEF P
  <2> QED
    BY <1>3, <2>1
<1>6. \A n \in Nat : n \in S
  <2> HIDE DEF S
  <2> QED
    BY <1>5, SetInduction
<1>7. P(Len(run))
  BY <1>6
<1> QED
  BY <1>1, <1>2, <1>7

(* A value of at most n digits is printed with at most n digits.           *)
LEMMA DecimalLengthOf ==
  ASSUME NEW v \in Int
  PROVE  \E d \in 1 .. 10 :
           /\ \A n \in 1 .. 9 : Magnitude(v) < PowerOf10[n] => d <= n
           /\ DecimalLength(v) = IF v < 0 THEN d + 1 ELSE d
<1>1. PICK a : a = Magnitude(v)
  OBVIOUS
<1>2. a \in Nat
  BY <1>1 DEF Magnitude
<1> DEFINE Fits10(d) == /\ d = 10 \/ a < PowerOf10[d]
                        /\ a >= PowerOf10[d - 1] \/ d = 1
<1>3. \E d \in 1 .. 10 : Fits10(d)
  <2>1. \/ a < 10 \/ (a >= 10 /\ a < 100) \/ (a >= 100 /\ a < 1000)
        \/ (a >= 1000 /\ a < 10000) \/ (a >= 10000 /\ a < 100000)
        \/ (a >= 100000 /\ a < 1000000) \/ (a >= 1000000 /\ a < 10000000)
        \/ (a >= 10000000 /\ a < 100000000) \/ (a >= 100000000 /\ a < 1000000000)
        \/ a >= 1000000000
    BY <1>2
  <2>2. Fits10(1) \/ Fits10(2) \/ Fits10(3) \/ Fits10(4) \/ Fits10(5) \/ Fits10(6)
        \/ Fits10(7) \/ Fits10(8) \/ Fits10(9) \/ Fits10(10)
    BY <2>1, Powers
  <2> HIDE DEF Fits10
  <2> QED
    BY <2>2
<1>4. PICK d : d = CHOOSE i \in 1 .. 10 : Fits10(i)
  OBVIOUS
<1>5. d \in 1 .. 10 /\ Fits10(d)
  BY <1>3, <1>4
<1>6. DecimalLength(v) = IF v < 0 THEN d + 1 ELSE d
  BY <1>1, <1>4 DEF DecimalLength
<1>7. ASSUME NEW n \in 1 .. 9, a < PowerOf10[n] PROVE d <= n
  <2> SUFFICES ASSUME d > n PROVE FALSE
    BY <1>5
  <2>1. n \in 0 .. 9 /\ d - 1 \in n .. 9
    BY <1>5
  <2>2. PowerOf10[n] <= PowerOf10[d - 1] /\ PowerOf10[n] \in Nat /\ PowerOf10[d - 1] \in Nat
    BY <2>1, PowersMonotonic, PowersGrow
  <2>3. a >= PowerOf10[d - 1]
    BY <1>5
  <2> QED
    BY <1>2, <1>7, <2>2, <2>3
<1> QED
  BY <1>1, <1>5, <1>6, <1>7

----------------------------------------------------------------------------
(***************************************************************************)
(* The value.  b holds the place of each operator on the stack in the text *)
(* and h the number of numbers below it: between two neighbours on the     *)
(* stack lies nothing (before "("), a term (before "*") or an expression   *)
(* (before "+" and "-"), and its value on the stack of numbers; above the  *)
(* last one lies the operand that has just been read or computed.          *)
(*                                                                         *)
(* The stack holds what an int keeps of the values of the grammar.  The    *)
(* value of a part of n characters has at most n digits, and one less when *)
(* it is negative: no number has a sign, so an operator stands in it.      *)
(***************************************************************************)
Sized(p) ==
  LET n == p.to - p.from + 1
  IN  /\ p.value \in Int /\ p.from \in Int /\ p.to \in Int /\ n >= 1
      /\ Below10(p.value, n)
      /\ p.value < 0 => n >= 2 /\ Below10(p.value, n - 1)

Wrapped(p) == Part(p.from, p.to, Wrap(p.value))

OnStack(parts) == {Wrapped(p) : p \in {p \in parts : Sized(p)}}

FactorParts == OnStack(Meaning[text].factor)
TermParts == OnStack(Meaning[text].term)
ExprParts == OnStack(Meaning[text].expr)

Between(b, h, i) ==
  /\ b[i + 1] \in 1 .. pos /\ expr[b[i + 1]] = operator_Stack[i + 1]
  /\ \/ /\ operator_Stack[i + 1] = "("
        /\ b[i + 1] = b[i] + 1 /\ h[i + 1] = h[i]
     \/ /\ operator_Stack[i + 1] = "*" /\ operator_Stack[i] # "*"
        /\ h[i + 1] = h[i] + 1
        /\ Part(b[i] + 1, b[i + 1] - 1, numStack[h[i + 1]]) \in TermParts
     \/ /\ operator_Stack[i + 1] \in {"+", "-"} /\ operator_Stack[i] = "("
        /\ h[i + 1] = h[i] + 1
        /\ Part(b[i] + 1, b[i + 1] - 1, numStack[h[i + 1]]) \in ExprParts

TopInv(p) ==
  /\ p \in ExprParts
  /\ Last(operator_Stack) \in {"+", "-"} => p \in TermParts
  /\ stage = "operator" /\ Char = "*" => p \in TermParts
  /\ stage = "scan" \/ Last(operator_Stack) = "*" => p \in FactorParts

Top(from, below) ==
  IF AfterOperand
  THEN Len(numStack) = below + 1 /\ TopInv(Part(from + 1, pos, numStack[Len(numStack)]))
  ELSE Len(numStack) = below /\ from = pos

Below(b, h, m) ==
  /\ b[1] = 0 /\ h[1] = 0
  /\ \A i \in 1 .. m - 1 : Between(b, h, i)
  /\ \A i, j \in 1 .. m : i <= j => h[i] <= h[j]

Frames(b, h) ==
  /\ b \in Seq(Nat) /\ Len(b) = Len(operator_Stack)
  /\ h \in Seq(Nat) /\ Len(h) = Len(operator_Stack)
  /\ Below(b, h, Len(operator_Stack))
  /\ Top(b[Len(operator_Stack)], h[Len(operator_Stack)])

ValueInv ==
  FitsNow =>
    /\ text \in Texts
    /\ stage \in {"scan", "close", "operator"} => \E b, h : Frames(b, h)
    /\ stage = "finish" => Part(1, Len(text), Last(numStack)) \in ExprParts
    /\ stage = "done" => Part(1, Len(text), value) \in ExprParts

LEMMA OnStackOf ==
  ASSUME NEW R, NEW a, NEW b, NEW v, Part(a, b, v) \in OnStack(R)
  PROVE  \E p \in R : Sized(p) /\ p.from = a /\ p.to = b /\ Wrap(p.value) = v
<1>1. PICK p \in R : Sized(p) /\ Part(a, b, v) = Wrapped(p)
  BY DEF OnStack
<1>2. Part(a, b, v).from = a /\ Part(a, b, v).to = b /\ Part(a, b, v).value = v
  BY DEF Part
<1>3. Wrapped(p).from = p.from /\ Wrapped(p).to = p.to /\ Wrapped(p).value = Wrap(p.value)
  BY DEF Wrapped, Part
<1> QED
  BY <1>1, <1>2, <1>3

LEMMA PutOnStack ==
  ASSUME NEW R, NEW a, NEW b, NEW v, Part(a, b, v) \in R, Sized(Part(a, b, v))
  PROVE  Part(a, b, Wrap(v)) \in OnStack(R)
<1>1. Wrapped(Part(a, b, v)) = Part(a, b, Wrap(v))
  BY DEF Wrapped, Part
<1>2. Wrapped(Part(a, b, v)) \in OnStack(R)
  BY DEF OnStack
<1> QED
  BY <1>1, <1>2

(* Two operands with an operator between them have at least one digit less *)
(* than they have characters.                                              *)
LEMMA SizedExactly ==
  ASSUME NEW p, NEW q, Sized(p), Sized(q), q.from = p.to + 2, NEW op \in {"+", "-", "*"}
  PROVE  Sized(Part(p.from, q.to, Exactly(op, p.value, q.value)))
<1>a. PICK m, n, x, y : m = p.to - p.from + 1 /\ n = q.to - q.from + 1 /\ x = p.value /\ y = q.value
  OBVIOUS
<1>b. PICK r : r = Part(p.from, q.to, Exactly(op, x, y))
  OBVIOUS
<1>1. /\ p.from \in Int /\ p.to \in Int /\ q.from \in Int /\ q.to \in Int
      /\ x \in Int /\ y \in Int /\ m \in Nat \ {0} /\ n \in Nat \ {0}
      /\ Below10(x, m) /\ Below10(y, n)
  BY <1>a DEF Sized
<1>2. r.from = p.from /\ r.to = q.to /\ r.value = Exactly(op, x, y)
  BY <1>b DEF Part
<1>3. r.to - r.from + 1 = m + n + 1 /\ m + n + 1 - 1 = m + n
  BY <1>1, <1>2, <1>a
<1>4. Exactly(op, x, y) \in Int /\ Below10(Exactly(op, x, y), m + n)
  BY <1>1, BelowExactly, WrapExactly
<1>5. Below10(Exactly(op, x, y), m + n + 1)
  BY <1>1, <1>4, BelowGrows, m + n \in Nat, m + n + 1 \in Nat, m + n <= m + n + 1
<1>6. Sized(r)
  BY <1>1, <1>2, <1>3, <1>4, <1>5 DEF Sized
<1> QED
  BY <1>6, <1>a, <1>b

(* The rules of the grammar, with the places the scan knows.               *)
LEMMA NumberRule ==
  ASSUME FitsNow, text \in Texts, NEW a \in 1 .. Len(text), NEW b \in a .. Len(text),
         \A i \in a .. b : IsDigit(text[i])
  PROVE  Part(a, b, ReadNumber(SubSeq(text, a, b))) \in FactorParts
<1>a. PICK run, v : run = SubSeq(text, a, b) /\ v = NumberOf(run)
  OBVIOUS
<1>1. Evaluates(Meaning[text], text)
  BY MeaningAssumption DEF FitsNow
<1>2. a <= b /\ b \in 1 .. Len(text)
  OBVIOUS
<1>3. Part(a, b, v) \in Meaning[text].factor
  BY <1>1, <1>2, <1>a DEF Evaluates
<1>4. Len(run) = b - a + 1 /\ \A i \in 1 .. Len(run) : IsDigit(run[i])
  <2>1. text \in Seq(STRING)
    BY TextsAssumption
  <2>2. Len(run) = b - a + 1 /\ \A i \in 1 .. b - a + 1 : run[i] = text[a + i - 1]
    BY <1>2, <1>a, <2>1
  <2>3. \A i \in 1 .. b - a + 1 : a + i - 1 \in a .. b
    BY <1>2
  <2> QED
    BY <2>2, <2>3
<1>5. v \in Nat /\ Below10(v, b - a + 1) /\ ReadNumber(run) = Wrap(v)
  <2>1. Len(run) \in Nat
    BY <1>2, <1>4
  <2> QED
    BY <1>4, <1>a, <2>1, NumberRead
<1>6. Sized(Part(a, b, v))
  <2>1. PICK p : p = Part(a, b, v)
    OBVIOUS
  <2>2. p.from = a /\ p.to = b /\ p.value = v /\ b - a + 1 >= 1 /\ ~(v < 0)
    BY <1>2, <1>5, <2>1 DEF Part
  <2>3. Sized(p)
    BY <1>5, <2>2 DEF Sized
  <2> QED
    BY <2>1, <2>3
<1>7. Part(a, b, Wrap(v)) \in OnStack(Meaning[text].factor)
  BY <1>3, <1>6, PutOnStack
<1> QED
  BY <1>5, <1>7, <1>a DEF FactorParts

(* The unit rules: a factor is a term, and a term an expression.           *)
LEMMA UnitRules ==
  ASSUME FitsNow, text \in Texts
  PROVE  FactorParts \subseteq TermParts /\ TermParts \subseteq ExprParts
<1>1. Meaning[text].factor \subseteq Meaning[text].term
      /\ Meaning[text].term \subseteq Meaning[text].expr
  BY MeaningAssumption DEF FitsNow, Evaluates
<1>2. ASSUME NEW R, NEW S, R \subseteq S PROVE OnStack(R) \subseteq OnStack(S)
  BY <1>2 DEF OnStack
<1> QED
  BY <1>1, <1>2 DEF FactorParts, TermParts, ExprParts

(* The rules of parentheses, products and sums, from the places of the     *)
(* symbols.                                                                *)
LEMMA ParenthesesRule ==
  ASSUME FitsNow, text \in Texts, NEW a \in Int, NEW b \in Int, a >= 1, b <= Len(text),
         NEW v, Part(a + 1, b - 1, v) \in ExprParts, text[a] = "(", text[b] = ")"
  PROVE  Part(a, b, v) \in FactorParts
<1>1. PICK e \in Meaning[text].expr :
        Sized(e) /\ e.from = a + 1 /\ e.to = b - 1 /\ Wrap(e.value) = v
  BY OnStackOf DEF ExprParts
<1>2. Len(text) \in Nat
  BY MeaningAssumption, TextsAssumption DEF FitsNow
<1>3. e.from - 1 = a /\ e.to + 1 = b /\ e.from > 1 /\ e.to < Len(text)
  BY <1>1, <1>2
<1>4. Evaluates(Meaning[text], text)
  BY MeaningAssumption DEF FitsNow
<1>5. Part(e.from - 1, e.to + 1, e.value) \in Meaning[text].factor
  BY <1>3, <1>4 DEF Evaluates
<1>a. PICK x, n : x = e.value /\ n = e.to - e.from + 1
  OBVIOUS
<1>6. Sized(Part(a, b, x))
  <2>1. PICK p : p = Part(a, b, x)
    OBVIOUS
  <2>2. x \in Int /\ Below10(x, n) /\ e.from \in Int /\ e.to \in Int /\ n >= 1
    BY <1>1, <1>a DEF Sized
  <2>3. p.from = a /\ p.to = b /\ p.value = x /\ b - a + 1 = n + 2 /\ b - a + 1 - 1 = n + 1
        /\ n \in Nat
    BY <1>1, <1>a, <2>1, <2>2 DEF Part
  <2>4. Below10(x, n + 2) /\ Below10(x, n + 1)
    <3>1. n + 1 \in Nat /\ n + 2 \in Nat /\ n <= n + 1 /\ n <= n + 2
      BY <2>3
    <3> QED
      BY <2>2, <2>3, <3>1, BelowGrows
  <2>5. Sized(p)
    BY <2>2, <2>3, <2>4 DEF Sized
  <2> QED
    BY <2>1, <2>5
<1>7. Part(a, b, Wrap(x)) \in OnStack(Meaning[text].factor)
  BY <1>3, <1>5, <1>6, <1>a, PutOnStack
<1> QED
  BY <1>1, <1>7, <1>a DEF FactorParts

LEMMA ProductRule ==
  ASSUME FitsNow, text \in Texts, NEW a \in Int, NEW c \in Int, NEW b \in Int, NEW v, NEW w,
         Part(a, c - 1, v) \in TermParts, Part(c + 1, b, w) \in FactorParts, text[c] = "*"
  PROVE  Part(a, b, Apply("*", v, w)) \in TermParts
<1>1. PICK t \in Meaning[text].term :
        Sized(t) /\ t.from = a /\ t.to = c - 1 /\ Wrap(t.value) = v
  BY OnStackOf DEF TermParts
<1>2. PICK f \in Meaning[text].factor :
        Sized(f) /\ f.from = c + 1 /\ f.to = b /\ Wrap(f.value) = w
  BY OnStackOf DEF FactorParts
<1>3. f.from = t.to + 2 /\ t.to + 1 = c
  BY <1>1, <1>2
<1>4. Evaluates(Meaning[text], text)
  BY MeaningAssumption DEF FitsNow
<1>a. PICK x : x = Exactly("*", t.value, f.value)
  OBVIOUS
<1>5. Part(t.from, f.to, x) \in Meaning[text].term
  BY <1>3, <1>4, <1>a DEF Evaluates
<1>6. Sized(Part(t.from, f.to, x))
  BY <1>1, <1>2, <1>3, <1>a, SizedExactly
<1>7. Part(t.from, f.to, Wrap(x)) \in OnStack(Meaning[text].term)
  BY <1>5, <1>6, PutOnStack
<1>8. Apply("*", v, w) = Wrap(x)
  <2>1. t.value \in Int /\ f.value \in Int
    BY <1>1, <1>2 DEF Sized
  <2> QED
    BY <1>1, <1>2, <1>a, <2>1, WrapExactly
<1> QED
  BY <1>1, <1>2, <1>7, <1>8 DEF TermParts

LEMMA SumRule ==
  ASSUME FitsNow, text \in Texts, NEW a \in Int, NEW c \in Int, NEW b \in Int, NEW v, NEW w,
         Part(a, c - 1, v) \in ExprParts, Part(c + 1, b, w) \in TermParts,
         text[c] \in {"+", "-"}
  PROVE  Part(a, b, Apply(text[c], v, w)) \in ExprParts
<1>1. PICK e \in Meaning[text].expr :
        Sized(e) /\ e.from = a /\ e.to = c - 1 /\ Wrap(e.value) = v
  BY OnStackOf DEF ExprParts
<1>2. PICK t \in Meaning[text].term :
        Sized(t) /\ t.from = c + 1 /\ t.to = b /\ Wrap(t.value) = w
  BY OnStackOf DEF TermParts
<1>3. t.from = e.to + 2 /\ e.to + 1 = c
  BY <1>1, <1>2
<1>4. Evaluates(Meaning[text], text)
  BY MeaningAssumption DEF FitsNow
<1>a. PICK op, x : op = text[c] /\ x = Exactly(op, e.value, t.value)
  OBVIOUS
<1>5. Part(e.from, t.to, x) \in Meaning[text].expr
  BY <1>3, <1>4, <1>a DEF Evaluates
<1>6. Sized(Part(e.from, t.to, x))
  BY <1>1, <1>2, <1>3, <1>a, SizedExactly
<1>7. Part(e.from, t.to, Wrap(x)) \in OnStack(Meaning[text].expr)
  BY <1>5, <1>6, PutOnStack
<1>8. Apply(op, v, w) = Wrap(x)
  <2>1. e.value \in Int /\ t.value \in Int
    BY <1>1, <1>2 DEF Sized
  <2>2. op \in {"+", "-", "*"}
    BY <1>a
  <2>3. Apply(op, Wrap(e.value), Wrap(t.value)) = Wrap(Exactly(op, e.value, t.value))
    BY <2>1, <2>2, WrapExactly
  <2> QED
    BY <1>1, <1>2, <1>a, <2>3
<1> QED
  BY <1>1, <1>2, <1>7, <1>8, <1>a DEF ExprParts

(* What lies below operator k of the stack stays.                          *)
LEMMA BelowKept ==
  ASSUME NEW b, NEW h, NEW c, NEW g, NEW m \in Nat, Below(b, h, m), NEW k \in 1 .. m,
         h \in Seq(Nat), Len(h) = m,
         \A i \in 1 .. k : c[i] = b[i] /\ g[i] = h[i] /\ operator_Stack'[i] = operator_Stack[i],
         \A j \in 1 .. h[k] : numStack'[j] = numStack[j],
         UNCHANGED <<text, expr>>, pos \in Int, pos' \in Int, pos <= pos'
  PROVE  Below(c, g, k)'
<1>1. 1 \in 1 .. k /\ \A i \in 1 .. k : i \in 1 .. m /\ h[i] \in Nat
  OBVIOUS
<1>2. c[1] = 0 /\ g[1] = 0 /\ \A i, j \in 1 .. k : i <= j => g[i] <= g[j]
  BY <1>1 DEF Below
<1>3. ASSUME NEW i \in 1 .. k - 1 PROVE Between(c, g, i)'
  <2>1. i \in 1 .. k /\ i + 1 \in 1 .. k /\ i \in 1 .. m - 1 /\ h[i + 1] <= h[k]
    BY <1>1 DEF Below
  <2>2. Between(b, h, i)
    BY <2>1 DEF Below
  <2>3. h[i + 1] = h[i] + 1 => numStack'[h[i + 1]] = numStack[h[i + 1]]
    BY <1>1, <2>1
  <2>4. /\ c[i] = b[i] /\ c[i + 1] = b[i + 1] /\ g[i] = h[i] /\ g[i + 1] = h[i + 1]
        /\ operator_Stack'[i] = operator_Stack[i]
        /\ operator_Stack'[i + 1] = operator_Stack[i + 1]
    BY <2>1
  <2>5. b[i + 1] \in 1 .. pos' /\ expr'[b[i + 1]] = operator_Stack[i + 1]
    BY <2>2 DEF Between
  <2> QED
    BY <2>2, <2>3, <2>4, <2>5 DEF Between, TermParts, ExprParts
<1> QED
  BY <1>2, <1>3 DEF Below

(* What a value is computed from, and what the scan knows there.           *)
Valued(b, h) ==
  /\ AcInv /\ FitsNow /\ text \in Texts /\ expr = text /\ StackInv /\ Frames(b, h)
  /\ pos \in 0 .. Len(expr) /\ Len(expr) \in Nat

(* The stacks the lemmas below look into.                                  *)
LEMMA StackSizes ==
  ASSUME NEW b, NEW h, Valued(b, h)
  PROVE  /\ Len(operator_Stack) \in Nat \ {0} /\ operator_Stack # <<>>
         /\ operator_Stack \in Seq(Chars) /\ Len(numStack) \in Nat
         /\ Last(operator_Stack) = operator_Stack[Len(operator_Stack)]
         /\ operator_Stack[1] = "("
         /\ \A i \in 1 .. Len(operator_Stack) : b[i] \in Nat /\ h[i] \in Nat
<1>1. operator_Stack \in Seq(Chars) /\ Len(operator_Stack) > 0 /\ operator_Stack[1] = "("
  BY DEF Valued, AcInv, AcTypes, StackInv
<1>2. PICK S : numStack \in Seq(S)
  BY DEF Valued, StackInv, IsSeq
<1>3. Len(operator_Stack) \in Nat \ {0} /\ Len(numStack) \in Nat
  BY <1>1, <1>2
<1>4. operator_Stack # <<>>
  BY <1>1, <1>3, EmptySeq
<1>5. b \in Seq(Nat) /\ h \in Seq(Nat) /\ Len(b) = Len(operator_Stack) /\ Len(h) = Len(operator_Stack)
  BY DEF Valued, Frames
<1> QED
  BY <1>1, <1>3, <1>4, <1>5 DEF Last

(* The top operator and its left operand, when it is no parenthesis.       *)
LEMMA ExecutionValue ==
  ASSUME NEW b, NEW h, Valued(b, h), AfterOperand, Last(operator_Stack) # "(", Op_execution,
         stage \in {"close", "operator"},
         stage = "operator" /\ Char = "*" => Last(operator_Stack) = "*"
  PROVE  \E c, g : Frames(c, g)'
<1>a. PICK m, n : m = Len(operator_Stack) /\ n = Len(numStack)
  OBVIOUS
<1>b. PICK op, v : op = operator_Stack[m] /\ v = Apply(op, numStack[n - 1], numStack[n])
  OBVIOUS
<1>1. /\ m \in Nat \ {0} /\ operator_Stack # <<>> /\ operator_Stack \in Seq(Chars) /\ n \in Nat
      /\ Last(operator_Stack) = op /\ operator_Stack[1] = "(" 
      /\ \A i \in 1 .. m : b[i] \in Nat /\ h[i] \in Nat
  BY <1>a, <1>b, StackSizes
<1>2. m >= 2 /\ m - 1 \in 1 .. m /\ m \in 1 .. m /\ m - 1 + 1 = m
  BY <1>1, <1>b
<1>3. Below(b, h, m) /\ Top(b[m], h[m]) /\ b \in Seq(Nat) /\ h \in Seq(Nat) /\ Len(b) = m /\ Len(h) = m
  BY <1>a DEF Valued, Frames
<1>4. n = h[m] + 1 /\ TopInv(Part(b[m] + 1, pos, numStack[n]))
  BY <1>3, <1>a DEF Top
<1>5. Between(b, h, m - 1)
  BY <1>2, <1>3 DEF Below
<1>6. h[m] = h[m - 1] + 1 /\ expr[b[m]] = op /\ n - 1 = h[m]
  BY <1>1, <1>2, <1>4, <1>5, <1>b DEF Between
<1>7. /\ operator_Stack' = Front(operator_Stack) /\ UNCHANGED <<text, rest, expr, pos, stage>>
      /\ numStack' = SubSeq(numStack, 1, n - 2) \o <<v>>
  BY <1>1, <1>a, <1>b DEF Op_execution
<1>8. Part(b[m - 1] + 1, pos, v) \in ExprParts
      /\ (op = "*" => Part(b[m - 1] + 1, pos, v) \in TermParts)
      /\ (op # "*" => operator_Stack[m - 1] = "(")
      /\ operator_Stack[m - 1] # "*"
  <2>1. /\ b[m - 1] + 1 \in Int /\ b[m] \in Int /\ pos \in Int /\ expr = text /\ FitsNow
        /\ text \in Texts
    BY <1>1, <1>2 DEF Valued
  <2>2. CASE op = "*"
    <3>1. /\ Part(b[m - 1] + 1, b[m] - 1, numStack[n - 1]) \in TermParts
          /\ operator_Stack[m - 1] # "*"
      BY <1>2, <1>5, <1>6, <1>b, <2>2 DEF Between
    <3>2. Part(b[m] + 1, pos, numStack[n]) \in FactorParts
      BY <1>1, <1>4, <2>2 DEF TopInv
    <3>3. Part(b[m - 1] + 1, pos, v) \in TermParts
      BY <1>6, <1>b, <2>1, <2>2, <3>1, <3>2, ProductRule
    <3> QED
      BY <2>1, <2>2, <3>1, <3>3, UnitRules
  <2>3. CASE op # "*"
    <3>1. /\ Part(b[m - 1] + 1, b[m] - 1, numStack[n - 1]) \in ExprParts
          /\ operator_Stack[m - 1] = "(" /\ op \in {"+", "-"}
      BY <1>1, <1>2, <1>5, <1>6, <1>b, <2>3 DEF Between
    <3>2. Part(b[m] + 1, pos, numStack[n]) \in TermParts
      BY <1>1, <1>4, <3>1 DEF TopInv
    <3>3. Part(b[m - 1] + 1, pos, v) \in ExprParts
      BY <1>6, <1>b, <2>1, <3>1, <3>2, SumRule
    <3> QED
      BY <2>3, <3>1, <3>3
  <2> QED
    BY <2>2, <2>3
<1>9. /\ Len(numStack') = n - 1 /\ numStack'[n - 1] = v
      /\ \A j \in 1 .. n - 2 : numStack'[j] = numStack[j]
  <2>1. PICK S : numStack \in Seq(S)
    BY DEF Valued, StackInv, IsSeq
  <2>2. n - 2 \in 0 .. Len(numStack) /\ numStack \in Seq(S \union {v})
    <3>1. S \subseteq S \union {v}
      OBVIOUS
    <3>2. numStack \in Seq(S \union {v})
      BY <2>1, <3>1, SeqMonotonic
    <3> QED
      BY <1>1, <1>2, <1>6, <1>a, <3>2
  <2>3. /\ SubSeq(numStack, 1, n - 2) \in Seq(S \union {v})
        /\ Len(SubSeq(numStack, 1, n - 2)) = n - 2
        /\ \A j \in 1 .. n - 2 : SubSeq(numStack, 1, n - 2)[j] = numStack[j]
    BY <2>2, PrefixProperties
  <2>4. numStack' = Append(SubSeq(numStack, 1, n - 2), v)
    <3>1. v \in S \union {v}
      OBVIOUS
    <3> QED
      BY <1>7, <2>3, <3>1
  <2>5. v \in S \union {v}
    OBVIOUS
  <2>6. /\ Len(numStack') = n - 2 + 1 /\ numStack'[n - 2 + 1] = v
        /\ \A j \in 1 .. n - 2 : numStack'[j] = SubSeq(numStack, 1, n - 2)[j]
    BY <2>3, <2>4, <2>5, AppendProperties
  <2> QED
    BY <1>1, <2>3, <2>6
<1> DEFINE c == Front(b)
           g == Front(h)
<1>10. /\ c \in Seq(Nat) /\ Len(c) = m - 1 /\ g \in Seq(Nat) /\ Len(g) = m - 1
       /\ \A i \in 1 .. m - 1 : c[i] = b[i] /\ g[i] = h[i]
  <2>1. b # <<>> /\ h # <<>>
    BY <1>2, <1>3, EmptySeq
  <2> QED
    BY <1>3, <2>1, StackFront
<1> HIDE DEF c, g
<1>11. Len(operator_Stack') = m - 1
       /\ \A i \in 1 .. m - 1 : operator_Stack'[i] = operator_Stack[i]
  BY <1>1, <1>7, <1>a, StackFront
<1>12. Below(c, g, m - 1)'
  <2>1. \A j \in 1 .. h[m - 1] : numStack'[j] = numStack[j]
    <3>1. h[m - 1] \in Nat /\ h[m - 1] = n - 2
      BY <1>1, <1>2, <1>6
    <3> QED
      BY <1>9, <3>1
  <2>2. pos \in Int /\ pos' \in Int /\ pos <= pos'
    BY <1>7 DEF Valued
  <2>3. \A i \in 1 .. m - 1 :
          c[i] = b[i] /\ g[i] = h[i] /\ operator_Stack'[i] = operator_Stack[i]
    BY <1>10, <1>11
  <2>4. m \in Nat /\ m - 1 \in 1 .. m /\ UNCHANGED <<text, expr>>
    BY <1>1, <1>2, <1>7
  <2> QED
    BY <1>3, <2>1, <2>2, <2>3, <2>4, BelowKept
<1>13. Last(operator_Stack') = operator_Stack[m - 1]
  BY <1>2, <1>11 DEF Last
<1>14. Top(c[m - 1], g[m - 1])'
  <2>1. AfterOperand' /\ (Char' = Char)
    BY <1>7 DEF AfterOperand, Char
  <2>2. Len(numStack') = g[m - 1] + 1
    BY <1>2, <1>6, <1>9, <1>10
  <2>3. TopInv(Part(b[m - 1] + 1, pos, v))'
    <3>1. /\ (Part(b[m - 1] + 1, pos, v) \in ExprParts)'
          /\ op = "*" => (Part(b[m - 1] + 1, pos, v) \in TermParts)'
      BY <1>7, <1>8 DEF ExprParts, TermParts
    <3>2. op # "*" => ~(stage = "operator" /\ Char = "*")
      BY <1>1
    <3> QED
      BY <1>7, <1>8, <1>13, <2>1, <3>1, <3>2 DEF TopInv
  <2>4. c[m - 1] = b[m - 1] /\ numStack'[Len(numStack')] = v
    BY <1>2, <1>9, <1>10
  <2> QED
    BY <1>7, <2>1, <2>2, <2>3, <2>4 DEF Top
<1> QED
  BY <1>10, <1>11, <1>12, <1>14 DEF Frames

(* A new operator goes on top, at its place, above what its left operand   *)
(* has become.                                                             *)
LEMMA PushValue ==
  ASSUME NEW b, NEW h, Valued(b, h), stage = "operator", pos # Len(expr), ~Pending,
         operator_Stack' = Append(operator_Stack, Char), pos' = pos + 1, stage' = "scan",
         UNCHANGED <<text, rest, expr, numStack>>,
         \/ Char = "(" /\ ~AfterOperand
         \/ Char \in {"+", "-", "*"} /\ AfterOperand
  PROVE  \E c, g : Frames(c, g)'
<1>a. PICK m, n, p, ch : m = Len(operator_Stack) /\ n = Len(numStack) /\ p = pos /\ ch = Char
  OBVIOUS
<1>1. /\ m \in Nat \ {0} /\ operator_Stack # <<>> /\ operator_Stack \in Seq(Chars) /\ n \in Nat
      /\ Last(operator_Stack) = operator_Stack[m]
      /\ \A i \in 1 .. m : b[i] \in Nat /\ h[i] \in Nat
  BY <1>a, StackSizes
<1>2. Below(b, h, m) /\ Top(b[m], h[m]) /\ b \in Seq(Nat) /\ h \in Seq(Nat) /\ Len(b) = m /\ Len(h) = m
  BY <1>a DEF Valued, Frames
<1>3. p \in 0 .. Len(expr) - 1 /\ Len(expr) \in Nat /\ ch = expr[p + 1] /\ ch \in Chars
  <2>1. p \in 0 .. Len(expr) - 1 /\ Len(expr) \in Nat
    BY <1>a DEF Valued
  <2> QED
    BY <1>a, <2>1 DEF Valued, AcInv, AcTypes, Char
<1>4. n >= h[m] /\ m \in 1 .. m
  BY <1>1, <1>2, <1>a DEF Top
<1>b. PICK c, g : c = Append(b, p + 1) /\ g = Append(h, n)
  OBVIOUS
<1>5. /\ c \in Seq(Nat) /\ Len(c) = m + 1 /\ g \in Seq(Nat) /\ Len(g) = m + 1
      /\ c[m + 1] = p + 1 /\ g[m + 1] = n
      /\ \A i \in 1 .. m : c[i] = b[i] /\ g[i] = h[i]
  BY <1>1, <1>2, <1>3, <1>b, AppendProperties
<1>6. /\ Len(operator_Stack') = m + 1 /\ operator_Stack'[m + 1] = ch
      /\ \A i \in 1 .. m : operator_Stack'[i] = operator_Stack[i]
  <2>1. operator_Stack' = Append(operator_Stack, ch)
    BY <1>a
  <2> QED
    BY <1>1, <1>3, <1>a, <2>1, AppendProperties
<1>7. Below(c, g, m)'
  <2>1. \A j \in 1 .. h[m] : numStack'[j] = numStack[j]
    OBVIOUS
  <2>2. pos \in Int /\ pos' \in Int /\ pos <= pos' /\ UNCHANGED <<text, expr>>
    BY <1>3, <1>a
  <2>3. \A i \in 1 .. m : c[i] = b[i] /\ g[i] = h[i] /\ operator_Stack'[i] = operator_Stack[i]
    BY <1>5, <1>6
  <2> QED
    BY <1>1, <1>2, <1>4, <2>1, <2>2, <2>3, BelowKept
<1>8. Between(c, g, m)'
  <2>1. c[m + 1] \in 1 .. pos' /\ expr'[c[m + 1]] = operator_Stack'[m + 1]
    BY <1>3, <1>5, <1>6, <1>a
  <2>2. c[m] = b[m] /\ g[m] = h[m] /\ operator_Stack'[m] = operator_Stack[m]
    BY <1>4, <1>5, <1>6
  <2>3. CASE ch = "(" /\ ~AfterOperand
    <3>1. b[m] = p /\ h[m] = n
      BY <1>2, <1>a, <2>3 DEF Top
    <3> QED
      BY <1>5, <1>6, <2>1, <2>2, <2>3, <3>1 DEF Between
  <2>4. CASE ch \in {"+", "-", "*"} /\ AfterOperand
    <3>1. n = h[m] + 1 /\ TopInv(Part(b[m] + 1, p, numStack[n]))
      BY <1>2, <1>a, <2>4 DEF Top
    <3>2. Part(b[m] + 1, p, numStack[n]) = Part(c[m] + 1, c[m + 1] - 1, numStack'[g[m + 1]])
      BY <1>3, <1>5, <2>2
    <3>3. CASE ch = "*"
      <4>1. Part(b[m] + 1, p, numStack[n]) \in TermParts
        BY <1>a, <3>1, <3>3 DEF TopInv
      <4>2. (Part(c[m] + 1, c[m + 1] - 1, numStack[g[m + 1]]) \in TermParts)'
        BY <3>2, <4>1 DEF TermParts
      <4>3. operator_Stack[m] # "*"
        BY <1>1, <1>a, <3>3 DEF Pending, Op_Eval
      <4> QED
        BY <1>5, <1>6, <2>1, <2>2, <3>1, <3>3, <4>2, <4>3 DEF Between
    <3>4. CASE ch \in {"+", "-"}
      <4>1. Part(b[m] + 1, p, numStack[n]) \in ExprParts
        BY <3>1 DEF TopInv
      <4>2. (Part(c[m] + 1, c[m + 1] - 1, numStack[g[m + 1]]) \in ExprParts)'
        BY <3>2, <4>1 DEF ExprParts
      <4>3. operator_Stack[m] = "("
        BY <1>1, <1>a, <3>4 DEF Pending, Op_Eval
      <4> QED
        BY <1>5, <1>6, <2>1, <2>2, <3>1, <3>4, <4>2, <4>3 DEF Between
    <3> QED
      BY <2>4, <3>3, <3>4
  <2> QED
    BY <1>a, <2>3, <2>4
<1>c. PICK k : k = m + 1
  OBVIOUS
<1>9. Below(c, g, k)'
  <2>1. c[1] = 0 /\ g[1] = 0
    BY <1>7 DEF Below
  <2>2. ASSUME NEW i \in 1 .. k - 1 PROVE Between(c, g, i)'
    <3>1. i = m \/ i \in 1 .. m - 1
      BY <1>1, <1>c
    <3> QED
      BY <1>7, <1>8, <3>1 DEF Below
  <2>3. ASSUME NEW i \in 1 .. k, NEW j \in 1 .. k, i <= j PROVE g[i] <= g[j]
    <3>1. CASE j \in 1 .. m
      <4>1. i \in 1 .. m
        BY <1>1, <2>3, <3>1
      <4> QED
        BY <1>7, <2>3, <3>1, <4>1 DEF Below
    <3>2. CASE j = k /\ i \in 1 .. m
      <4>1. g[i] = h[i] /\ h[i] <= h[m] /\ h[i] \in Nat /\ h[m] \in Nat
        BY <1>1, <1>2, <1>4, <1>5, <3>2 DEF Below
      <4> QED
        BY <1>1, <1>4, <1>5, <1>c, <3>2, <4>1
    <3>3. CASE i = k /\ j = k
      BY <1>1, <1>5, <1>c, <3>3
    <3> QED
      BY <1>1, <1>c, <2>3, <3>1, <3>2, <3>3
  <2>5. \A i, j \in 1 .. k : i <= j => g[i] <= g[j]
    BY <2>3
  <2> QED
    BY <2>1, <2>2, <2>5 DEF Below
<1>10. Top(c[m + 1], g[m + 1])'
  <2>1. ~EndsOperand(ch)
    BY <1>a, Kinds
  <2>2. ~AfterOperand'
    BY <1>3, <1>a, <2>1 DEF AfterOperand
  <2> QED
    BY <1>5, <1>a, <2>2 DEF Top
<1> QED
  BY <1>5, <1>6, <1>9, <1>10, <1>c DEF Frames

(* A number is a factor above the last operator.                           *)
LEMMA NumberValue ==
  ASSUME NEW b, NEW h, Valued(b, h), ~AfterOperand, pos # Len(expr), Num_Proccess
  PROVE  Frames(b, h)'
<1>a. PICK m, n, p : m = Len(operator_Stack) /\ n = Len(numStack) /\ p = pos
  OBVIOUS
<1>1. /\ m \in Nat \ {0} /\ n \in Nat /\ \A i \in 1 .. m : b[i] \in Nat /\ h[i] \in Nat
      /\ p \in 0 .. Len(expr) - 1 /\ Len(expr) \in Nat /\ expr = text
  BY <1>a, StackSizes DEF Valued
<1>2. Below(b, h, m) /\ Top(b[m], h[m]) /\ b \in Seq(Nat) /\ h \in Seq(Nat) /\ Len(b) = m /\ Len(h) = m
  BY <1>a DEF Valued, Frames
<1>3. b[m] = p /\ h[m] = n /\ m \in 1 .. m
  BY <1>1, <1>2, <1>a DEF Top
<1>4. PICK k \in p + 1 .. Len(expr) :
        /\ \A i \in p + 1 .. k : IsDigit(expr[i])
        /\ numStack' = Append(numStack, ReadNumber(SubSeq(expr, p + 1, k)))
        /\ pos' = k
  BY <1>a DEF Num_Proccess
<1>5. stage' = "scan" /\ UNCHANGED <<text, rest, expr, operator_Stack>>
  BY DEF Num_Proccess
<1>b. PICK v : v = ReadNumber(SubSeq(expr, p + 1, k))
  OBVIOUS
<1>6. /\ Len(numStack') = n + 1 /\ numStack'[n + 1] = v
      /\ \A j \in 1 .. n : numStack'[j] = numStack[j]
  <2>1. PICK S : numStack \in Seq(S)
    BY DEF Valued, StackInv, IsSeq
  <2>2. numStack \in Seq(S \union {v})
    <3>1. S \subseteq S \union {v}
      OBVIOUS
    <3> QED
      BY <2>1, <3>1, SeqMonotonic
  <2>3. v \in S \union {v} /\ numStack' = Append(numStack, v)
    BY <1>4, <1>b
  <2> QED
    BY <1>a, <2>2, <2>3, AppendProperties
<1>7. /\ Part(p + 1, k, v) \in FactorParts /\ Part(p + 1, k, v) \in TermParts
      /\ Part(p + 1, k, v) \in ExprParts
  <2>1. FitsNow /\ text \in Texts
    BY DEF Valued
  <2>2. p + 1 \in 1 .. Len(text) /\ k \in p + 1 .. Len(text)
    BY <1>1, <1>4
  <2>3. Part(p + 1, k, v) \in FactorParts
    BY <1>1, <1>4, <1>b, <2>1, <2>2, NumberRule
  <2> QED
    BY <2>1, <2>3, UnitRules
<1>8. Below(b, h, m)'
  <2>1. \A j \in 1 .. h[m] : numStack'[j] = numStack[j]
    BY <1>3, <1>6
  <2>2. pos \in Int /\ pos' \in Int /\ pos <= pos'
    BY <1>1, <1>4, <1>a
  <2>3. \A i \in 1 .. m : b[i] = b[i] /\ h[i] = h[i] /\ operator_Stack'[i] = operator_Stack[i]
    BY <1>5
  <2>4. m \in Nat /\ m \in 1 .. m /\ UNCHANGED <<text, expr>>
    BY <1>1, <1>3, <1>5
  <2> QED
    BY <1>2, <2>1, <2>2, <2>3, <2>4, BelowKept
<1>9. Top(b[m], h[m])'
  <2>1. AfterOperand'
    <3>1. k > 0 /\ IsDigit(expr'[k])
      BY <1>1, <1>4, <1>5
    <3> QED
      BY <1>4, <3>1 DEF AfterOperand, EndsOperand
  <2>2. TopInv(Part(p + 1, k, v))'
    BY <1>5, <1>7 DEF TopInv, FactorParts, TermParts, ExprParts
  <2> QED
    BY <1>3, <1>4, <1>6, <2>1, <2>2 DEF Top
<1>10. Len(operator_Stack') = m
  BY <1>5, <1>a
<1> QED
  BY <1>2, <1>8, <1>9, <1>10 DEF Frames

(* An expression in parentheses is a factor above what lies below them.    *)
LEMMA ParenthesesValue ==
  ASSUME NEW b, NEW h, Valued(b, h), AfterOperand, pos # Len(expr), Char = ")",
         Last(operator_Stack) = "(", Len(operator_Stack) > 1,
         operator_Stack' = Front(operator_Stack), pos' = pos + 1, stage' = "scan",
         UNCHANGED <<text, rest, expr, numStack>>
  PROVE  \E c, g : Frames(c, g)'
<1>a. PICK m, n, p : m = Len(operator_Stack) /\ n = Len(numStack) /\ p = pos
  OBVIOUS
<1>b. PICK v : v = numStack[n]
  OBVIOUS
<1>1. /\ m \in Nat \ {0} /\ operator_Stack # <<>> /\ operator_Stack \in Seq(Chars) /\ n \in Nat
      /\ operator_Stack[m] = "("
      /\ \A i \in 1 .. m : b[i] \in Nat /\ h[i] \in Nat
      /\ p \in 0 .. Len(expr) - 1 /\ Len(expr) \in Nat /\ expr = text
  BY <1>a, StackSizes DEF Valued
<1>2. Below(b, h, m) /\ Top(b[m], h[m]) /\ b \in Seq(Nat) /\ h \in Seq(Nat) /\ Len(b) = m /\ Len(h) = m
  BY <1>a DEF Valued, Frames
<1>3. m - 1 \in 1 .. m /\ m - 1 \in 1 .. m - 1 /\ m - 1 + 1 = m /\ m \in 1 .. m
  BY <1>1, <1>a
<1>4. /\ b[m] = b[m - 1] + 1 /\ h[m] = h[m - 1]
      /\ b[m] \in 1 .. p /\ expr[b[m]] = "("
  <2>1. Between(b, h, m - 1)
    BY <1>2, <1>3 DEF Below
  <2> QED
    BY <1>1, <1>3, <1>a, <2>1 DEF Between
<1>5. n = h[m] + 1 /\ Part(b[m] + 1, p, v) \in ExprParts
  BY <1>2, <1>a, <1>b DEF Top, TopInv
<1>6. /\ Part(b[m], p + 1, v) \in FactorParts /\ Part(b[m], p + 1, v) \in TermParts
      /\ Part(b[m], p + 1, v) \in ExprParts
  <2>1. FitsNow /\ text \in Texts
    BY DEF Valued
  <2>2. PICK f, t : f = b[m] /\ t = p + 1
    OBVIOUS
  <2>3. f \in Int /\ t \in Int /\ f >= 1 /\ t <= Len(text) /\ t - 1 = p
    BY <1>1, <1>4, <2>2
  <2>4. text[f] = "(" /\ text[t] = ")"
    BY <1>1, <1>4, <1>a, <2>2 DEF Char
  <2>5. Part(f + 1, t - 1, v) \in ExprParts
    BY <1>5, <2>2, <2>3
  <2>6. Part(f, t, v) \in FactorParts
    BY <2>1, <2>3, <2>4, <2>5, ParenthesesRule
  <2> QED
    BY <2>1, <2>2, <2>6, UnitRules
<1>c. PICK c, g : c = Front(b) /\ g = Front(h)
  OBVIOUS
<1>7. /\ c \in Seq(Nat) /\ Len(c) = m - 1 /\ g \in Seq(Nat) /\ Len(g) = m - 1
      /\ \A i \in 1 .. m - 1 : c[i] = b[i] /\ g[i] = h[i]
  <2>1. b # <<>> /\ h # <<>>
    BY <1>1, <1>2, EmptySeq
  <2> QED
    BY <1>2, <1>c, <2>1, StackFront
<1>8. Len(operator_Stack') = m - 1
      /\ \A i \in 1 .. m - 1 : operator_Stack'[i] = operator_Stack[i]
  BY <1>1, <1>a, StackFront
<1>9. Below(c, g, m - 1)'
  <2>1. \A j \in 1 .. h[m - 1] : numStack'[j] = numStack[j]
    OBVIOUS
  <2>2. pos \in Int /\ pos' \in Int /\ pos <= pos' /\ UNCHANGED <<text, expr>>
    BY <1>1, <1>a
  <2>3. \A i \in 1 .. m - 1 :
          c[i] = b[i] /\ g[i] = h[i] /\ operator_Stack'[i] = operator_Stack[i]
    BY <1>7, <1>8
  <2> QED
    BY <1>1, <1>2, <1>3, <2>1, <2>2, <2>3, BelowKept
<1>10. Top(c[m - 1], g[m - 1])'
  <2>1. AfterOperand'
    <3>1. pos' = p + 1 /\ p + 1 > 0 /\ expr'[p + 1] = ")"
      BY <1>1, <1>a DEF Char
    <3> QED
      BY <3>1, Kinds DEF AfterOperand
  <2>2. c[m - 1] + 1 = b[m] /\ g[m - 1] = h[m]
    BY <1>3, <1>4, <1>7
  <2>3. Len(numStack') = g[m - 1] + 1 /\ numStack'[Len(numStack')] = v
    BY <1>5, <1>a, <1>b, <2>2
  <2>4. TopInv(Part(b[m], p + 1, v))'
    BY <1>6 DEF TopInv, FactorParts, TermParts, ExprParts
  <2> QED
    BY <1>a, <2>1, <2>2, <2>3, <2>4 DEF Top
<1> QED
  BY <1>7, <1>8, <1>9, <1>10 DEF Frames

(* At the end, the number left is the value of the whole text.             *)
LEMMA EndValue ==
  ASSUME NEW b, NEW h, Valued(b, h), AfterOperand, pos = Len(expr), Len(operator_Stack) = 1
  PROVE  Part(1, Len(text), Last(numStack)) \in ExprParts
<1>1. b[1] = 0 /\ Top(b[1], h[1])
  BY DEF Valued, Frames, Below
<1>2. TopInv(Part(0 + 1, pos, numStack[Len(numStack)]))
  BY <1>1 DEF Top
<1>3. expr = text
  BY DEF Valued
<1> QED
  BY <1>2, <1>3 DEF TopInv, Last
----------------------------------------------------------------------------
(* While the scan of a well-formed expression lasts, its frames exist.     *)
LEMMA ValuedHere ==
  ASSUME AcInv, FormedInv, ValueInv, FitsNow, stage \in {"scan", "close", "operator"}
  PROVE  \E b, h : Valued(b, h)
<1>1. expr = text /\ StackInv /\ text \in Texts /\ \E b, h : Frames(b, h)
  BY DEF FormedInv, ValueInv
<1>2. pos \in 0 .. Len(expr) /\ Len(expr) \in Nat
  BY DEF AcInv, AcTypes, ScanInv
<1> QED
  BY <1>1, <1>2 DEF Valued

LEMMA CloseValue == AcInv /\ FormedInv /\ ValueInv /\ Close_Brackt_Process => ValueInv'
<1> SUFFICES ASSUME AcInv, FormedInv, ValueInv, Close_Brackt_Process, FitsNow' PROVE ValueInv'
  BY DEF ValueInv
<1>1. stage = "close" /\ UNCHANGED <<text, rest, expr>>
  BY DEF Close_Brackt_Process, Undefined, Op_execution, Advance
<1>2. FitsNow /\ expr = text /\ StackInv /\ text \in Texts
  BY <1>1 DEF FitsNow, Fits, FormedInv, ValueInv
<1>3. PICK b, h : Valued(b, h)
  BY <1>1, <1>2, ValuedHere
<1>4. /\ pos \in 0 .. Len(expr) /\ Len(expr) \in Nat /\ AfterOperand
      /\ CountIn(operator_Stack, "(") \in Nat \ {0}
      /\ pos = Len(expr) => CountIn(operator_Stack, "(") = 1
      /\ pos # Len(expr) => Char = ")" /\ CountIn(operator_Stack, "(") > 1
  <2>1. pos = Len(expr) \/ Char = ")"
    BY <1>1 DEF AcInv, ScanInv
  <2> QED
    BY <1>1, <1>2, <2>1, FormedHere
<1>5. operator_Stack # <<>> /\ Len(operator_Stack) \in Nat \ {0} /\ operator_Stack \in Seq(Chars)
  BY <1>3, StackSizes
<1>6. CASE Last(operator_Stack) # "("
  <2>1. Len(numStack) >= 2
    BY <1>2, <1>4, <1>6, ExecutionFormed
  <2>2. Op_execution
    BY <1>5, <1>6, <2>1 DEF Close_Brackt_Process
  <2>3. stage' = "close"
    BY <1>1, <2>2 DEF Op_execution
  <2>4. \E c, g : Frames(c, g)'
    BY <1>1, <1>3, <1>4, <1>6, <2>2, ExecutionValue
  <2> QED
    BY <1>1, <1>2, <2>3, <2>4 DEF ValueInv
<1>7. CASE Last(operator_Stack) = "("
  <2>1. operator_Stack' = Front(operator_Stack) /\ pos' = pos + 1 /\ UNCHANGED numStack
        /\ stage' = IF AtEnd THEN "finish" ELSE "scan"
    BY <1>5, <1>7 DEF Close_Brackt_Process, Advance
  <2>2. /\ CountIn(operator_Stack, "(") = 1 => Front(operator_Stack) = <<>>
        /\ CountIn(operator_Stack, "(") > 1 => Len(Front(operator_Stack)) > 0
        /\ Len(Front(operator_Stack)) = Len(operator_Stack) - 1
    BY <1>2, <1>4, <1>7, BottomFormed
  <2>3. CASE pos = Len(expr)
    <3>1. Len(operator_Stack) = 1
      <4>1. Front(operator_Stack) = <<>> /\ Len(<<>>) = 0
        BY <1>4, <2>2, <2>3
      <4> QED
        BY <1>5, <2>2, <4>1
    <3>2. Part(1, Len(text), Last(numStack)) \in ExprParts
      BY <1>3, <1>4, <2>3, <3>1, EndValue
    <3>3. stage' = "finish"
      BY <2>1, <2>3 DEF AtEnd
    <3> QED
      BY <1>1, <1>2, <2>1, <3>2, <3>3 DEF ValueInv, ExprParts
  <2>4. CASE pos # Len(expr)
    <3>1. Len(operator_Stack) > 1
      BY <1>4, <1>5, <2>2, <2>4
    <3>2. stage' = "scan"
      BY <2>1, <2>4 DEF AtEnd
    <3>3. \E c, g : Frames(c, g)'
      BY <1>1, <1>3, <1>4, <1>7, <2>1, <2>4, <3>1, <3>2, ParenthesesValue
    <3> QED
      BY <1>1, <1>2, <3>2, <3>3 DEF ValueInv
  <2> QED
    BY <2>3, <2>4
<1> QED
  BY <1>6, <1>7

LEMMA OperatorValue == AcInv /\ FormedInv /\ ValueInv /\ Op_can_ProcessOperands => ValueInv'
<1> SUFFICES ASSUME AcInv, FormedInv, ValueInv, Op_can_ProcessOperands, FitsNow' PROVE ValueInv'
  BY DEF ValueInv
<1>1. stage = "operator" /\ UNCHANGED <<text, rest, expr>>
  BY DEF Op_can_ProcessOperands, Undefined, Op_execution, Advance
<1>2. FitsNow /\ expr = text /\ StackInv /\ ~IsDigit(Char) /\ text \in Texts
  BY <1>1 DEF FitsNow, Fits, FormedInv, PlaceInv, ValueInv
<1>3. PICK b, h : Valued(b, h)
  BY <1>1, <1>2, ValuedHere
<1>4. pos # Len(expr) /\ Char # ")"
  BY <1>1 DEF AcInv, AcTypes, ScanInv
<1>5. /\ CountIn(operator_Stack, "(") \in Nat \ {0}
      /\ \/ Char = "(" /\ ~AfterOperand
         \/ Char \in {"+", "-", "*"} /\ AfterOperand
  BY <1>1, <1>2, <1>4, FormedHere DEF BeginsOperand
<1>6. CASE Pending
  <2>1. Last(operator_Stack) # "(" /\ AfterOperand /\ (Char = "*" => Last(operator_Stack) = "*")
    <3>1. Last(operator_Stack) # "(" /\ Char # "(" /\ (Char = "*" => Last(operator_Stack) = "*")
      BY <1>6 DEF Pending, Op_Eval
    <3> QED
      BY <1>5, <3>1
  <2>2. Len(numStack) >= 2
    BY <1>2, <1>5, <2>1, ExecutionFormed
  <2>3. Op_execution
    BY <1>6, <2>2 DEF Op_can_ProcessOperands
  <2>4. \E c, g : Frames(c, g)'
    BY <1>1, <1>3, <2>1, <2>3, ExecutionValue
  <2>5. stage' = "operator"
    BY <1>1, <2>3 DEF Op_execution
  <2> QED
    BY <1>1, <1>2, <2>4, <2>5 DEF ValueInv
<1>7. CASE ~Pending
  <2>1. operator_Stack' = Append(operator_Stack, Char) /\ pos' = pos + 1 /\ stage' = "scan"
        /\ UNCHANGED numStack
    BY <1>4, <1>7 DEF Op_can_ProcessOperands, Advance, AtEnd
  <2>2. \E c, g : Frames(c, g)'
    BY <1>1, <1>3, <1>4, <1>5, <1>7, <2>1, PushValue
  <2> QED
    BY <1>1, <1>2, <2>1, <2>2 DEF ValueInv
<1> QED
  BY <1>6, <1>7

LEMMA NumberStepValue == AcInv /\ FormedInv /\ ValueInv /\ Num_Proccess => ValueInv'
<1> SUFFICES ASSUME AcInv, FormedInv, ValueInv, Num_Proccess, FitsNow' PROVE ValueInv'
  BY DEF ValueInv
<1>1. stage = "scan" /\ NextIs = "number" /\ UNCHANGED <<text, rest, expr, operator_Stack, stage>>
  BY DEF Num_Proccess
<1>2. FitsNow /\ expr = text /\ PlaceInv /\ text \in Texts
  BY <1>1 DEF FitsNow, Fits, FormedInv, ValueInv
<1>3. pos # Len(expr) /\ IsDigit(Char)
  BY <1>1 DEF NextIs, AtEnd
<1>4. ~AfterOperand
  <2>1. /\ pos \in 0 .. Len(expr) - 1 /\ Len(expr) \in Nat
        /\ AfterOperand => IsDigit(expr[pos])
    BY <1>1, <1>2, <1>3, FormedHere
  <2> QED
    BY <1>1, <1>2, <1>3, <2>1 DEF PlaceInv, AfterOperand, Char
<1>5. PICK b, h : Valued(b, h)
  BY <1>1, <1>2, ValuedHere
<1>6. Frames(b, h)'
  BY <1>3, <1>4, <1>5, NumberValue
<1> QED
  BY <1>1, <1>2, <1>6 DEF ValueInv

(* What has just been read is a factor, and so anything the next character *)
(* asks for.                                                               *)
LEMMA ScanValue == AcInv /\ FormedInv /\ ValueInv /\ Scan => ValueInv'
<1> SUFFICES ASSUME AcInv, FormedInv, ValueInv, Scan, FitsNow' PROVE ValueInv'
  BY DEF ValueInv
<1>1. /\ stage = "scan" /\ stage' \in {"close", "operator"}
      /\ UNCHANGED <<text, rest, expr, pos, numStack, operator_Stack, value>>
  BY DEF Scan, NextIs
<1>2. FitsNow /\ text \in Texts
  BY <1>1 DEF FitsNow, Fits, ValueInv
<1>3. PICK b, h : Valued(b, h)
  BY <1>1, <1>2, ValuedHere
<1>a. PICK m : m = Len(operator_Stack)
  OBVIOUS
<1>4. /\ Below(b, h, m) /\ Top(b[m], h[m]) /\ b \in Seq(Nat) /\ h \in Seq(Nat)
      /\ Len(b) = m /\ Len(h) = m /\ m \in Nat \ {0} /\ m \in 1 .. m /\ pos \in Int
  BY <1>3, <1>a, StackSizes DEF Valued, Frames
<1>5. Below(b, h, m)'
  <2>1. \A j \in 1 .. h[m] : numStack'[j] = numStack[j]
    BY <1>1
  <2>2. \A i \in 1 .. m : b[i] = b[i] /\ h[i] = h[i] /\ operator_Stack'[i] = operator_Stack[i]
    BY <1>1
  <2>3. pos' \in Int /\ pos <= pos' /\ UNCHANGED <<text, expr>>
    BY <1>1, <1>4
  <2> QED
    BY <1>4, <2>1, <2>2, <2>3, BelowKept
<1>6. ASSUME NEW p, TopInv(p) PROVE TopInv(p)'
  <2>1. p \in FactorParts /\ p \in TermParts /\ p \in ExprParts
    BY <1>1, <1>2, <1>6, UnitRules DEF TopInv
  <2> QED
    BY <1>1, <2>1 DEF TopInv, FactorParts, TermParts, ExprParts
<1>7. Top(b[m], h[m])'
  <2>1. AfterOperand' <=> AfterOperand
    BY <1>1 DEF AfterOperand
  <2>2. CASE AfterOperand
    <3>1. PICK p : p = Part(b[m] + 1, pos, numStack[Len(numStack)])
      OBVIOUS
    <3>2. Len(numStack) = h[m] + 1 /\ TopInv(p)
      BY <1>4, <2>2, <3>1 DEF Top
    <3>3. TopInv(p)'
      BY <1>6, <3>2
    <3> QED
      BY <1>1, <2>1, <2>2, <3>1, <3>2, <3>3 DEF Top
  <2>3. CASE ~AfterOperand
    BY <1>1, <1>4, <2>1, <2>3 DEF Top
  <2> QED
    BY <2>2, <2>3
<1>8. Frames(b, h)'
  BY <1>1, <1>4, <1>5, <1>7, <1>a DEF Frames
<1> QED
  BY <1>1, <1>2, <1>8 DEF ValueInv

(* The bottom parenthesis stands before the first character.               *)
LEMMA CopyValue == AcInv /\ FormedInv /\ ValueInv /\ CopyExpr => ValueInv'
<1> SUFFICES ASSUME AcInv, FormedInv, ValueInv, CopyExpr, FitsNow' PROVE ValueInv'
  BY DEF ValueInv
<1>1. /\ stage = "copy" /\ FitsNow /\ numStack = <<>> /\ pos = 0 /\ operator_Stack = <<"(">>
      /\ UNCHANGED <<text, rest, pos, numStack, operator_Stack>>
      /\ stage' \in {"scan", "undefined"} /\ text \in Texts
  BY DEF CopyExpr, FitsNow, Fits, FormedInv, ValueInv, AcInv, ScanInv
<1>2. PICK b : b = Append(<<>>, 0)
  OBVIOUS
<1>3. b \in Seq(Nat) /\ Len(b) = 1 /\ b[1] = 0
  <2>1. <<>> \in Seq(Nat) /\ Len(<<>>) = 0 /\ 0 \in Nat
    BY EmptySeq
  <2> QED
    BY <1>2, <2>1, AppendProperties
<1>4. Len(operator_Stack') = 1 /\ Len(numStack') = 0
  BY <1>1
<1>5. Below(b, b, 1)'
  BY <1>3 DEF Below
<1>6. Top(b[1], b[1])'
  BY <1>1, <1>3, <1>4 DEF Top, AfterOperand
<1>7. Frames(b, b)'
  BY <1>3, <1>4, <1>5, <1>6 DEF Frames
<1> QED
  BY <1>1, <1>7 DEF ValueInv

LEMMA ValueInit == AcInit => ValueInv
BY DEF AcInit, ValueInv

(* Every step keeps the frames, and ends with the value of the whole text. *)
LEMMA ValueStep == AcInv /\ FormedInv /\ ValueInv /\ [AcNext]_acVars => ValueInv'
<1> SUFFICES ASSUME AcInv, FormedInv, ValueInv, [AcNext]_acVars PROVE ValueInv'
  OBVIOUS
<1>1. CASE CopyExpr
  BY <1>1, CopyValue
<1>2. CASE Scan
  BY <1>2, ScanValue
<1>3. CASE Num_Proccess
  BY <1>3, NumberStepValue
<1>4. CASE Close_Brackt_Process
  BY <1>4, CloseValue
<1>5. CASE Op_can_ProcessOperands
  BY <1>5, OperatorValue
<1>6. CASE Finish
  <2>1. /\ stage = "finish" /\ UNCHANGED <<text, rest>>
        /\ stage' = "undefined" \/ (stage' = "done" /\ value' = Last(numStack))
    BY <1>6 DEF Finish, Undefined
  <2>2. (FitsNow' <=> FitsNow) /\ ExprParts' = ExprParts
    BY <2>1 DEF FitsNow, ExprParts
  <2> QED
    BY <2>1, <2>2 DEF ValueInv
<1>7. CASE UNCHANGED acVars
  BY <1>7 DEF acVars, ValueInv, FitsNow, Frames, Below, Between, Top, TopInv, AfterOperand, Char,
              FactorParts, TermParts, ExprParts
<1> QED
  BY <1>1, <1>2, <1>3, <1>4, <1>5, <1>6, <1>7 DEF AcNext

(* The value returned, from what the grammar says of the whole text.       *)
LEMMA MeantValue ==
  ASSUME Part(1, Len(text), value) \in ExprParts
  PROVE  \E e \in Meaning[text].expr :
           Sized(e) /\ e.from = 1 /\ e.to = Len(text) /\ value = Wrap(e.value)
<1>1. PICK e \in Meaning[text].expr :
        Sized(e) /\ e.from = 1 /\ e.to = Len(text) /\ Wrap(e.value) = value
  BY OnStackOf DEF ExprParts
<1> QED
  BY <1>1

(***************************************************************************)
(* Eval_Expr computes what the grammar says, for every well-formed         *)
(* expression that fits its array, however long and deep: "*" binds before *)
(* "+" and "-", each of them takes its operands from the left, parentheses *)
(* come first, and the overflow of intermediate results changes no more    *)
(* than that of the final one.                                             *)
(***************************************************************************)
THEOREM AcValueIsCorrect == AcSpec => []ValueIsCorrect
<1>1. ValueInv => ValueIsCorrect
  <2> SUFFICES ASSUME ValueInv, FitsNow, stage = "done" PROVE \E v \in Meant : value = Wrap(v)
    BY DEF ValueIsCorrect, FitsNow
  <2>1. PICK e \in Meaning[text].expr :
          Sized(e) /\ e.from = 1 /\ e.to = Len(text) /\ value = Wrap(e.value)
    BY MeantValue DEF ValueInv
  <2>2. e.value \in Meant
    BY <2>1 DEF Meant
  <2> QED
    BY <2>1, <2>2
<1> QED
  BY <1>1, ValueInit, ValueStep, FormedInit, FormedStep, AcInvariance, PTL DEF AcSpec

(* The characters of the value of a part as long as the text.              *)
LEMMA PrintedLength ==
  ASSUME NEW v \in Int, NEW n \in Nat \ {0}, Below10(v, n)
  PROVE  /\ DecimalLength(v) <= n + 1 /\ DecimalLength(v) \in Nat
         /\ v >= 0 => DecimalLength(v) <= n
<1>1. PICK d \in 1 .. 10 :
        /\ \A k \in 1 .. 9 : Magnitude(v) < PowerOf10[k] => d <= k
        /\ DecimalLength(v) = IF v < 0 THEN d + 1 ELSE d
  BY DecimalLengthOf
<1>2. d <= n
  <2>1. CASE n <= 9
    <3>1. n \in 1 .. 9 /\ Magnitude(v) < PowerOf10[n]
      BY <2>1 DEF Below10
    <3> QED
      BY <1>1, <3>1
  <2>2. CASE ~(n <= 9)
    BY <2>2
  <2> QED
    BY <2>1, <2>2
<1> QED
  BY <1>1, <1>2

LEMMA BelowWrap ==
  ASSUME NEW v \in Int, NEW n \in Nat \ {0}, Below10(v, n)
  PROVE  Wrap(v) \in Int /\ Below10(Wrap(v), n)
<1>1. Wrap(v) \in Int /\ Magnitude(Wrap(v)) <= Magnitude(v)
  BY WrapIs, WrapSmall, SizesAssumption
<1> SUFFICES ASSUME n <= 9 PROVE Magnitude(Wrap(v)) < PowerOf10[n]
  BY <1>1 DEF Below10
<1>2. n \in 0 .. 9
  OBVIOUS
<1>3. PICK p : p = PowerOf10[n]
  OBVIOUS
<1>4. p \in Nat /\ Magnitude(v) < p
  BY <1>2, <1>3, PowersGrow DEF Below10
<1>5. Magnitude(v) \in Int /\ Magnitude(Wrap(v)) \in Int
  BY <1>1 DEF Magnitude
<1> QED
  BY <1>1, <1>3, <1>4, <1>5

(***************************************************************************)
(* The value never needs more than two bytes behind the buffer ecall_add   *)
(* prints it to, in a text of any length, and no digit of a value that     *)
(* fits an int is lost.  By induction the value of a part of the text has  *)
(* at most as many digits as the part has characters.                      *)
(***************************************************************************)
THEOREM AcOverrunBounded == AcSpec => []OverrunBounded
<1>1. ValueInv => OverrunBounded
  <2> SUFFICES ASSUME ValueInv, FitsNow, stage = "done"
      PROVE  /\ ResultBytes <= ResBufSize + 2
             /\ \E v \in Meant :
                  /\ value = Wrap(v)
                  /\ v \in -Half .. Half - 1 => ResultBytes <= ResBufSize + 1
    BY DEF OverrunBounded, FitsNow
  <2>1. PICK e \in Meaning[text].expr :
          Sized(e) /\ e.from = 1 /\ e.to = Len(text) /\ value = Wrap(e.value)
    BY MeantValue DEF ValueInv
  <2>2. PICK v, n : v = e.value /\ n = Len(text)
    OBVIOUS
  <2>3. /\ v \in Meant /\ value = Wrap(v) /\ v \in Int /\ n \in Int
        /\ e.to - e.from + 1 = n
    BY <2>1, <2>2 DEF Meant, Sized
  <2>4. n \in Nat \ {0} /\ Below10(v, n) /\ (v < 0 => n - 1 \in Nat \ {0} /\ Below10(v, n - 1))
    BY <2>1, <2>2, <2>3 DEF Sized
  <2>5. ResultBytes = DecimalLength(value) + 1 /\ ResBufSize = n
    BY <2>2 DEF ResultBytes, ResBufSize
  <2>6. ResultBytes <= ResBufSize + 2
    <3>1. value \in Int /\ Below10(value, n)
      BY <2>3, <2>4, BelowWrap
    <3>2. DecimalLength(value) <= n + 1 /\ DecimalLength(value) \in Nat
      BY <2>4, <3>1, PrintedLength
    <3> QED
      BY <2>4, <2>5, <3>2
  <2>7. ASSUME v \in -Half .. Half - 1 PROVE ResultBytes <= ResBufSize + 1
    <3>1. value = v
      BY <2>3, <2>7, WrapSmall
    <3>2. CASE v >= 0
      <4>1. DecimalLength(v) <= n /\ DecimalLength(v) \in Nat
        BY <2>3, <2>4, <3>2, PrintedLength
      <4> QED
        BY <2>4, <2>5, <3>1, <4>1
    <3>3. CASE v < 0
      <4>1. DecimalLength(v) <= n - 1 + 1 /\ DecimalLength(v) \in Nat
        BY <2>3, <2>4, <3>3, PrintedLength
      <4> QED
        BY <2>4, <2>5, <3>1, <4>1
    <3> QED
      BY <2>3, <3>2, <3>3
  <2> QED
    BY <2>3, <2>6, <2>7
<1> QED
  BY <1>1, ValueInit, ValueStep, FormedInit, FormedStep, AcInvariance, PTL DEF AcSpec
=============================================================================
