------------------------ MODULE ClientServer_proofs ------------------------
(***************************************************************************)
(* Safety of the session for any clients, files, keys, lines and ciphers:  *)
(* the programs take turns, an expression leaves a client only after its   *)
(* attestation, and the two sides wait for each other only by the user's   *)
(* doing; none of that depends on what the lines say.  Of the contents:    *)
(* every line is read as it was meant and every result is of the client's  *)
(* own expression, because lines that are split and parsed give back what  *)
(* they were made of (LineCodec_proofs); and the server takes only such    *)
(* steps of the abstract attestation and evaluation as they have.          *)
(***************************************************************************)
EXTENDS ClientServer, LineCodec_proofs

(***************************************************************************)
(* The strengthening.  Turns: what OneTurn counts, one by one.  Asked: as  *)
(* long as an expression may still be sent, and once it is, nothing but    *)
(* what follows it is under way, so that no second challenge can undo the  *)
(* first.  The listen queue holds clients whose Initialize is unread.      *)
(***************************************************************************)
Short(s) == s = <<>> \/ s = <<s[1]>>

Asks(c) == cpc[c] \in {"input", "answer"}

TurnInv(c) ==
  /\ Short(c2s[c]) /\ Short(s2c[c])
  /\ c2s[c] # <<>> => s2c[c] = <<>> /\ ~Works(c) /\ ~Asks(c)
  /\ s2c[c] # <<>> => ~Works(c) /\ ~Asks(c)
  /\ Works(c) => ~Asks(c)

Attested(c) == accepted /\ verdict = "Success" /\ peer = <<c>>

AskedInv(c) ==
  /\ Short(asked[c])
  /\ asked[c] # <<>> =>
       /\ Attested(c) /\ cpc[c] # "input"
       /\ ~(spc = "attest" /\ peer = <<c>>)
       /\ c2s[c] # <<>> => c2s[c][1].type \in {"Expression", "exit"}
       /\ s2c[c] # <<>> => s2c[c][1].type = "Result"
  /\ s2c[c] # <<>> /\ s2c[c][1].type = "Success" => Attested(c)
  /\ cpc[c] = "input" => Attested(c) /\ file[c] = <<>>

WaitInv(c) ==
  MutualWait(c) => repeat[c] \/ (eof[c] /\ file[c] = <<>> /\ asked[c] = <<>>)

StartInv(c) ==
  cpc[c] = "start" =>
    c2s[c] = <<>> /\ s2c[c] = <<>> /\ peer # <<c>> /\ asked[c] = <<>>

ClientInv(c) == TurnInv(c) /\ AskedInv(c) /\ WaitInv(c) /\ StartInv(c)

BacklogInv ==
  /\ backlog \in Seq(Clients)
  /\ \A i \in 1 .. Len(backlog) :
       /\ cpc[backlog[i]] # "start" /\ c2s[backlog[i]] # <<>> /\ peer # <<backlog[i]>>
       /\ \A j \in 1 .. Len(backlog) : backlog[i] = backlog[j] => i = j

ServerInv ==
  /\ spc \in ServerStates
  /\ spc \in {"off", "accept"} => peer = <<>>
  /\ spc \in {"read", "attest", "evaluate"} => \E c \in Clients : peer = <<c>>

IsFunction(f) == f = [c \in Clients |-> f[c]]

DomainInv ==
  /\ IsFunction(c2s) /\ IsFunction(s2c) /\ IsFunction(asked) /\ IsFunction(file)
  /\ cpc \in [Clients -> ClientStates]
  /\ repeat \in [Clients -> BOOLEAN] /\ eof \in [Clients -> BOOLEAN]

CsInv == DomainInv /\ ServerInv /\ BacklogInv /\ \A c \in Clients : ClientInv(c)
----------------------------------------------------------------------------
(* Sequences of at most one element.                                       *)
LEMMA OneElement ==
  ASSUME NEW m
  PROVE  /\ Append(<<>>, m) = <<m>> /\ Tail(<<m>>) = <<>> /\ Head(<<m>>) = m
         /\ <<m>> # <<>> /\ <<m>>[1] = m /\ Len(<<m>>) = 1
<1>1. <<>> \in Seq({m}) /\ m \in {m}
  OBVIOUS
<1>2. Append(<<>>, m) \in Seq({m}) /\ Len(Append(<<>>, m)) = 1 /\ Append(<<>>, m)[1] = m
  BY <1>1, AppendProperties
<1> QED
  BY <1>2

LEMMA ShortTail ==
  ASSUME NEW s, Short(s), s # <<>>
  PROVE  Tail(s) = <<>> /\ Head(s) = s[1]
<1>1. s = <<s[1]>>
  BY DEF Short
<1> QED
  BY <1>1, OneElement

LEMMA ShortLen ==
  ASSUME NEW s, Short(s)
  PROVE  Len(s) = (IF s = <<>> THEN 0 ELSE 1)
<1>1. CASE s = <<>>
  BY <1>1
<1>2. CASE s # <<>>
  <2>1. s = <<s[1]>>
    BY <1>2 DEF Short
  <2> QED
    BY <1>2, <2>1, OneElement
<1> QED
  BY <1>1, <1>2

(* What one program leaves of a client it does not deal with.              *)
Kept(d) ==
  /\ c2s'[d] = c2s[d] /\ s2c'[d] = s2c[d] /\ cpc'[d] = cpc[d]
  /\ asked'[d] = asked[d] /\ repeat'[d] = repeat[d]
  /\ (eof[d] => eof'[d]) /\ file'[d] = file[d]

LEMMA ClientKept ==
  ASSUME NEW d \in Clients, ClientInv(d), Kept(d),
         UNCHANGED <<spc, peer, accepted, verdict>>
  PROVE  ClientInv(d)'
BY DEF ClientInv, TurnInv, AskedInv, WaitInv, StartInv, Attested, Works, Asks,
       MutualWait, Short, Kept

(* The server deals with its peer only.                                    *)
LEMMA BystanderKept ==
  ASSUME NEW d \in Clients, ClientInv(d), Kept(d), peer # <<d>>, peer' # <<d>>
  PROVE  ClientInv(d)'
BY DEF ClientInv, TurnInv, AskedInv, WaitInv, StartInv, Attested, Works, Asks,
       MutualWait, Short, Kept
----------------------------------------------------------------------------
LEMMA CsInitInv == CsInit => CsInv
<1> SUFFICES ASSUME CsInit PROVE CsInv
  OBVIOUS
<1>1. DomainInv
  BY DEF CsInit, DomainInv, IsFunction, ClientStates
<1>2. ServerInv /\ BacklogInv
  BY DEF CsInit, ServerInv, ServerStates, BacklogInv
<1>3. ASSUME NEW c \in Clients PROVE ClientInv(c)
  BY <1>3 DEF CsInit, ClientInv, TurnInv, AskedInv, WaitInv, StartInv, Works, Asks,
              MutualWait, Short
<1> QED
  BY <1>1, <1>2, <1>3 DEF CsInv

(* A step of one client keeps the invariant when it keeps this client's    *)
(* part and takes nothing the server has yet to read.                      *)
LEMMA ClientMoves ==
  ASSUME CsInv, NEW c \in Clients, UNCHANGED <<spc, peer, backlog, accepted, verdict>>,
         DomainInv', ClientInv(c)', \A d \in Clients \ {c} : Kept(d),
         c2s[c] # <<>> => c2s'[c] # <<>>,
         cpc[c] # "start" => cpc'[c] # "start"
  PROVE  CsInv'
<1>1. ASSUME NEW d \in Clients \ {c} PROVE ClientInv(d)'
  BY <1>1, ClientKept DEF CsInv
<1>2. ServerInv'
  BY DEF CsInv, ServerInv
<1>3. BacklogInv'
  <2>1. \A i \in 1 .. Len(backlog) : backlog[i] \in Clients
    BY DEF CsInv, BacklogInv
  <2> QED
    BY <2>1 DEF CsInv, BacklogInv, Kept
<1> QED
  BY <1>1, <1>2, <1>3 DEF CsInv

LEMMA GetsOne ==
  ASSUME CsInv, NEW c \in Clients, NEW t, Gets(c, t)
  PROVE  /\ cpc[c] = "read" /\ s2c[c] # <<>> /\ s2c[c][1].type = t
         /\ s2c'[c] = <<>> /\ (\A d \in Clients \ {c} : s2c'[d] = s2c[d])
         /\ IsFunction(s2c')
         /\ c2s[c] = <<>> /\ ~Works(c)
         /\ UNCHANGED <<spc, peer, backlog, accepted, verdict>>
<1>1. ClientInv(c) /\ DomainInv
  BY DEF CsInv
<1>2. /\ cpc[c] = "read" /\ s2c[c] # <<>> /\ Head(s2c[c]).type = t
      /\ s2c' = [s2c EXCEPT ![c] = Tail(s2c[c])]
      /\ UNCHANGED <<spc, peer, backlog, accepted, verdict>>
  BY DEF Gets, serverVars, attVars
<1>3. Head(s2c[c]) = s2c[c][1] /\ Tail(s2c[c]) = <<>>
  BY <1>1, <1>2, ShortTail DEF ClientInv, TurnInv
<1>4. c2s[c] = <<>> /\ ~Works(c)
  BY <1>1, <1>2 DEF ClientInv, TurnInv
<1> QED
  BY <1>1, <1>2, <1>3, <1>4 DEF DomainInv, IsFunction

LEMMA SendsOne ==
  ASSUME CsInv, NEW c \in Clients, NEW m, Send(c, m), c2s[c] = <<>>
  PROVE  /\ c2s'[c] = <<m>> /\ c2s'[c] # <<>> /\ c2s'[c][1] = m /\ Short(c2s'[c])
         /\ \A d \in Clients \ {c} : c2s'[d] = c2s[d]
         /\ IsFunction(c2s')
<1>1. c2s' = [c2s EXCEPT ![c] = <<m>>]
  BY OneElement DEF Send
<1>2. c2s'[c] = <<m>> /\ IsFunction(c2s') /\ \A d \in Clients \ {c} : c2s'[d] = c2s[d]
  BY <1>1 DEF CsInv, DomainInv, IsFunction
<1> QED
  BY <1>2, OneElement DEF Short

(* The expression is the first one, and leaves on an empty connection, or  *)
(* there is no key and the client fails.                                   *)
LEMMA ExpressionSent ==
  ASSUME CsInv, NEW c \in Clients, NEW x, NEW k, SendExpression(c, x, k),
         c2s[c] = <<>>, asked[c] = <<>>
  PROVE  /\ IsFunction(c2s') /\ IsFunction(asked') /\ cpc' \in [Clients -> ClientStates]
         /\ \A d \in Clients \ {c} :
              c2s'[d] = c2s[d] /\ asked'[d] = asked[d] /\ cpc'[d] = cpc[d]
         /\ Short(c2s'[c]) /\ Short(asked'[c])
         /\ \/ /\ c2s'[c] # <<>> /\ c2s'[c][1].type = "Expression"
               /\ asked'[c] # <<>> /\ cpc'[c] = "read"
            \/ c2s'[c] = <<>> /\ asked'[c] = <<>> /\ cpc'[c] = "failed"
<1>1. CASE ValidKey(k)
  <2> DEFINE m == Msg("Expression", TextPart(encrypt(k, x)))
  <2>1. Send(c, m) /\ asked' = [asked EXCEPT ![c] = Append(asked[c], x)]
        /\ cpc' = [cpc EXCEPT ![c] = "read"]
    BY <1>1 DEF SendExpression
  <2>2. m.type = "Expression"
    BY DEF Msg
  <2> HIDE DEF m
  <2>3. asked' = [asked EXCEPT ![c] = <<x>>]
    BY <2>1, OneElement
  <2>4. asked'[c] = <<x>> /\ IsFunction(asked') /\ \A d \in Clients \ {c} : asked'[d] = asked[d]
    BY <2>3 DEF CsInv, DomainInv, IsFunction
  <2>5. asked'[c] # <<>> /\ Short(asked'[c])
    BY <2>4, OneElement DEF Short
  <2>6. cpc' \in [Clients -> ClientStates] /\ cpc'[c] = "read"
        /\ \A d \in Clients \ {c} : cpc'[d] = cpc[d]
    BY <2>1 DEF CsInv, DomainInv, ClientStates
  <2> QED
    BY <2>1, <2>2, <2>4, <2>5, <2>6, SendsOne
<1>2. CASE ~ValidKey(k)
  <2>1. cpc' = [cpc EXCEPT ![c] = "failed"] /\ UNCHANGED <<c2s, asked>>
    BY <1>2 DEF SendExpression
  <2> QED
    BY <2>1 DEF CsInv, DomainInv, ClientStates, Short
<1> QED
  BY <1>1, <1>2
----------------------------------------------------------------------------
(* The steps of the client at the connection.                              *)
LEMMA GetAcceptedInv ==
  ASSUME CsInv, NEW c \in Clients, GetAccepted(c)
  PROVE  CsInv'
<1>1. Gets(c, "Accepted") /\ Send(c, Plain("Challenge")) /\ UNCHANGED <<cpc, asked, repeat, file, eof>>
  BY DEF GetAccepted, clientVars, inputVars
<1>2. /\ cpc[c] = "read" /\ s2c[c] # <<>> /\ s2c[c][1].type = "Accepted"
      /\ s2c'[c] = <<>> /\ (\A d \in Clients \ {c} : s2c'[d] = s2c[d])
      /\ IsFunction(s2c') /\ c2s[c] = <<>> /\ ~Works(c)
      /\ UNCHANGED <<spc, peer, backlog, accepted, verdict>>
  BY <1>1, GetsOne
<1>3. /\ c2s'[c] # <<>> /\ Short(c2s'[c])
      /\ (\A d \in Clients \ {c} : c2s'[d] = c2s[d]) /\ IsFunction(c2s')
  BY <1>1, <1>2, SendsOne
<1>4. asked[c] = <<>>
  BY <1>2 DEF CsInv, ClientInv, AskedInv
<1>5. DomainInv'
  BY <1>1, <1>2, <1>3 DEF CsInv, DomainInv, IsFunction
<1>6. ClientInv(c)'
  BY <1>1, <1>2, <1>3, <1>4
     DEF ClientInv, TurnInv, AskedInv, WaitInv, StartInv, Works, Asks, MutualWait, Short
<1>7. \A d \in Clients \ {c} : Kept(d)
  BY <1>1, <1>2, <1>3 DEF Kept
<1> QED
  BY <1>1, <1>2, <1>3, <1>5, <1>6, <1>7, ClientMoves

LEMMA GetSuccessInv ==
  ASSUME CsInv, NEW c \in Clients, GetSuccess(c)
  PROVE  CsInv'
<1>1. Gets(c, "Success") /\ UNCHANGED <<repeat, file, eof>>
  BY DEF GetSuccess, inputVars
<1>2. /\ cpc[c] = "read" /\ s2c[c] # <<>> /\ s2c[c][1].type = "Success"
      /\ s2c'[c] = <<>> /\ (\A d \in Clients \ {c} : s2c'[d] = s2c[d])
      /\ IsFunction(s2c') /\ c2s[c] = <<>> /\ ~Works(c)
      /\ UNCHANGED <<spc, peer, backlog, accepted, verdict>>
  BY <1>1, GetsOne
<1>3. Attested(c) /\ asked[c] = <<>>
  BY <1>2 DEF CsInv, ClientInv, AskedInv
<1>4. spc # "attest"
  BY <1>2, <1>3 DEF Works, Attested
<1>5. CASE /\ file[c] = <<>> /\ cpc' = [cpc EXCEPT ![c] = "input"]
           /\ UNCHANGED <<c2s, asked>>
  <2>1. cpc'[c] = "input" /\ (\A d \in Clients \ {c} : cpc'[d] = cpc[d])
        /\ cpc' \in [Clients -> ClientStates]
    BY <1>5 DEF CsInv, DomainInv, ClientStates
  <2>2. DomainInv'
    BY <1>1, <1>2, <1>5, <2>1 DEF CsInv, DomainInv, IsFunction
  <2>3. ClientInv(c)'
    BY <1>1, <1>2, <1>3, <1>4, <1>5, <2>1
       DEF ClientInv, TurnInv, AskedInv, WaitInv, StartInv, Attested, Works, Asks,
           MutualWait, Short
  <2>4. \A d \in Clients \ {c} : Kept(d)
    BY <1>1, <1>2, <1>5, <2>1 DEF Kept
  <2> QED
    BY <1>2, <1>5, <2>1, <2>2, <2>3, <2>4, ClientMoves
<1>6. ASSUME NEW x, NEW k, SendExpression(c, x, k) PROVE CsInv'
  <2>1. /\ IsFunction(c2s') /\ IsFunction(asked') /\ cpc' \in [Clients -> ClientStates]
        /\ \A d \in Clients \ {c} :
             c2s'[d] = c2s[d] /\ asked'[d] = asked[d] /\ cpc'[d] = cpc[d]
        /\ Short(c2s'[c]) /\ Short(asked'[c])
        /\ \/ /\ c2s'[c] # <<>> /\ c2s'[c][1].type = "Expression"
              /\ asked'[c] # <<>> /\ cpc'[c] = "read"
           \/ c2s'[c] = <<>> /\ asked'[c] = <<>> /\ cpc'[c] = "failed"
    BY <1>2, <1>3, <1>6, ExpressionSent
  <2>2. DomainInv'
    BY <1>1, <1>2, <2>1 DEF CsInv, DomainInv, IsFunction
  <2>3. ClientInv(c)'
    BY <1>1, <1>2, <1>3, <1>4, <2>1
       DEF ClientInv, TurnInv, AskedInv, WaitInv, StartInv, Attested, Works, Asks,
           MutualWait, Short
  <2>4. \A d \in Clients \ {c} : Kept(d)
    BY <1>1, <1>2, <2>1 DEF Kept
  <2> QED
    BY <1>2, <2>1, <2>2, <2>3, <2>4, ClientMoves
<1>7. \/ /\ file[c] = <<>> /\ cpc' = [cpc EXCEPT ![c] = "input"]
         /\ UNCHANGED <<c2s, asked>>
      \/ \E k : SendExpression(c, IF file[c] = NoFile THEN <<"0">> ELSE readFile(file[c]), k)
  BY DEF GetSuccess
<1> QED
  BY <1>5, <1>6, <1>7
(* A client that ends, having read its line or not.                        *)
LEMMA ClientStops ==
  ASSUME CsInv, NEW c \in Clients, NEW s \in {"done", "failed"},
         cpc' = [cpc EXCEPT ![c] = s], IsFunction(s2c'),
         s2c'[c] \in {s2c[c], <<>>}, \A d \in Clients \ {c} : s2c'[d] = s2c[d],
         UNCHANGED <<spc, peer, backlog, accepted, verdict, c2s, asked, repeat, file, eof>>
  PROVE  CsInv'
<1>1. cpc'[c] = s /\ (\A d \in Clients \ {c} : cpc'[d] = cpc[d])
      /\ cpc' \in [Clients -> ClientStates]
  BY DEF CsInv, DomainInv, ClientStates
<1>2. DomainInv'
  BY <1>1 DEF CsInv, DomainInv, IsFunction
<1>3. ClientInv(c)'
  BY <1>1 DEF CsInv, ClientInv, TurnInv, AskedInv, WaitInv, StartInv, Attested, Works, Asks,
              MutualWait, Short
<1>4. \A d \in Clients \ {c} : Kept(d)
  BY <1>1 DEF Kept
<1> QED
  BY <1>1, <1>2, <1>3, <1>4, ClientMoves

LEMMA ClientEndsInv ==
  ASSUME CsInv, NEW c \in Clients,
         GetFailed(c) \/ ServerLost(c) \/ AnswerEnded(c) \/ ConnectionRefused(c)
  PROVE  CsInv'
<1>1. CASE GetFailed(c)
  <2>1. /\ Gets(c, "Failed") /\ cpc' = [cpc EXCEPT ![c] = "done"]
        /\ UNCHANGED <<c2s, asked, repeat, file, eof>>
    BY <1>1 DEF GetFailed, inputVars
  <2> QED
    BY <2>1, GetsOne, ClientStops
<1>2. CASE ServerLost(c)
  <2>1. PICK s \in {"done", "failed"} : cpc' = [cpc EXCEPT ![c] = s]
    BY <1>2 DEF ServerLost
  <2>2. /\ UNCHANGED <<spc, peer, backlog, accepted, verdict>>
        /\ UNCHANGED <<c2s, s2c, asked, repeat, file, eof>>
    BY <1>2 DEF ServerLost, serverVars, inputVars, attVars
  <2> QED
    BY <2>1, <2>2, ClientStops DEF CsInv, DomainInv, IsFunction
<1>3. CASE AnswerEnded(c) \/ ConnectionRefused(c)
  <2>1. /\ cpc' = [cpc EXCEPT ![c] = "failed"]
        /\ UNCHANGED <<spc, peer, backlog, accepted, verdict>>
        /\ UNCHANGED <<c2s, s2c, asked, repeat, file, eof>>
    BY <1>3 DEF AnswerEnded, ConnectionRefused, ReadsEnd, serverVars, inputVars, attVars
  <2> QED
    BY <2>1, ClientStops DEF CsInv, DomainInv, IsFunction
<1> QED
  BY <1>1, <1>2, <1>3

LEMMA GetResultInv ==
  ASSUME CsInv, NEW c \in Clients, GetResult(c)
  PROVE  CsInv'
<1>1. Gets(c, "Result") /\ UNCHANGED <<c2s, asked, repeat, file, eof>>
  BY DEF GetResult, inputVars
<1>2. /\ cpc[c] = "read" /\ s2c[c] # <<>> /\ s2c[c][1].type = "Result"
      /\ s2c'[c] = <<>> /\ (\A d \in Clients \ {c} : s2c'[d] = s2c[d])
      /\ IsFunction(s2c') /\ c2s[c] = <<>> /\ ~Works(c)
      /\ UNCHANGED <<spc, peer, backlog, accepted, verdict>>
  BY <1>1, GetsOne
<1>3. CASE cpc' = [cpc EXCEPT ![c] = "failed"]
  BY <1>1, <1>2, <1>3, ClientStops
<1>4. CASE cpc' = [cpc EXCEPT ![c] = "answer"]
  <2>1. cpc'[c] = "answer" /\ (\A d \in Clients \ {c} : cpc'[d] = cpc[d])
        /\ cpc' \in [Clients -> ClientStates]
    BY <1>4 DEF CsInv, DomainInv, ClientStates
  <2>2. DomainInv'
    BY <1>1, <1>2, <2>1 DEF CsInv, DomainInv, IsFunction
  <2>3. ClientInv(c)'
    BY <1>1, <1>2, <2>1
       DEF CsInv, ClientInv, TurnInv, AskedInv, WaitInv, StartInv, Attested, Works, Asks,
           MutualWait, Short
  <2>4. \A d \in Clients \ {c} : Kept(d)
    BY <1>1, <1>2, <2>1 DEF Kept
  <2> QED
    BY <1>1, <1>2, <2>1, <2>2, <2>3, <2>4, ClientMoves
<1> QED
  BY <1>3, <1>4 DEF GetResult
----------------------------------------------------------------------------
(* The steps of the client at its prompts, and the user.                   *)
LEMMA InputExpressionInv ==
  ASSUME CsInv, NEW c \in Clients, InputExpression(c)
  PROVE  CsInv'
<1>1. /\ cpc[c] = "input"
      /\ UNCHANGED <<spc, peer, backlog, accepted, verdict>>
      /\ UNCHANGED <<s2c, repeat, file, eof>>
  BY DEF InputExpression, ReadsLine, serverVars, attVars
<1>2. PICK x \in Lines : SendExpression(c, LineText(x), aesKeyBytes[c])
  BY DEF InputExpression
<1>3. c2s[c] = <<>> /\ s2c[c] = <<>> /\ ~Works(c) /\ asked[c] = <<>> /\ Attested(c)
  BY <1>1 DEF CsInv, ClientInv, TurnInv, AskedInv, Asks
<1>4. /\ IsFunction(c2s') /\ IsFunction(asked') /\ cpc' \in [Clients -> ClientStates]
      /\ \A d \in Clients \ {c} :
           c2s'[d] = c2s[d] /\ asked'[d] = asked[d] /\ cpc'[d] = cpc[d]
      /\ Short(c2s'[c]) /\ Short(asked'[c])
      /\ \/ /\ c2s'[c] # <<>> /\ c2s'[c][1].type = "Expression"
            /\ asked'[c] # <<>> /\ cpc'[c] = "read"
         \/ c2s'[c] = <<>> /\ asked'[c] = <<>> /\ cpc'[c] = "failed"
  BY <1>2, <1>3, ExpressionSent
<1>5. DomainInv'
  BY <1>1, <1>4 DEF CsInv, DomainInv, IsFunction
<1>6. ClientInv(c)'
  BY <1>1, <1>3, <1>4
     DEF ClientInv, TurnInv, AskedInv, WaitInv, StartInv, Attested, Works, Asks,
         MutualWait, Short
<1>7. \A d \in Clients \ {c} : Kept(d)
  BY <1>1, <1>4 DEF Kept
<1> QED
  BY <1>1, <1>3, <1>4, <1>5, <1>6, <1>7, ClientMoves

(* The two ways into a mutual wait, both by the user.                      *)
LEMMA BackToReadInv ==
  ASSUME CsInv, NEW c \in Clients, InputEnded(c) \/ AnswerYes(c)
  PROVE  CsInv'
<1>1. /\ Asks(c) /\ cpc' = [cpc EXCEPT ![c] = "read"]
      /\ UNCHANGED <<spc, peer, backlog, accepted, verdict>>
      /\ UNCHANGED <<c2s, s2c, asked, file, eof>>
  BY DEF InputEnded, AnswerYes, ReadsLine, ReadsEnd, Asks, serverVars, inputVars, attVars
<1>2. /\ cpc'[c] = "read" /\ (\A d \in Clients \ {c} : cpc'[d] = cpc[d])
      /\ cpc' \in [Clients -> ClientStates]
  BY <1>1 DEF CsInv, DomainInv, ClientStates
<1>3. c2s[c] = <<>> /\ s2c[c] = <<>> /\ ~Works(c)
  BY <1>1 DEF CsInv, ClientInv, TurnInv
<1>4. CASE InputEnded(c)
  <2>1. cpc[c] = "input" /\ eof[c] /\ UNCHANGED repeat
    BY <1>4 DEF InputEnded, ReadsEnd
  <2>2. file[c] = <<>> /\ asked[c] = <<>>
    BY <2>1 DEF CsInv, ClientInv, AskedInv
  <2>3. DomainInv'
    BY <1>1, <1>2, <2>1 DEF CsInv, DomainInv, IsFunction
  <2>4. ClientInv(c)'
    BY <1>1, <1>2, <1>3, <2>1, <2>2
       DEF CsInv, ClientInv, TurnInv, AskedInv, WaitInv, StartInv, Attested, Works, Asks,
           MutualWait, Short
  <2>5. \A d \in Clients \ {c} : Kept(d)
    BY <1>1, <1>2, <2>1 DEF Kept
  <2> QED
    BY <1>1, <1>2, <1>3, <2>3, <2>4, <2>5, ClientMoves
<1>5. CASE AnswerYes(c)
  <2>1. cpc[c] = "answer" /\ repeat' = [repeat EXCEPT ![c] = TRUE]
    BY <1>5 DEF AnswerYes
  <2>2. repeat'[c] = TRUE /\ \A d \in Clients \ {c} : repeat'[d] = repeat[d]
    BY <2>1 DEF CsInv, DomainInv
  <2>3. DomainInv'
    BY <1>1, <1>2, <2>1 DEF CsInv, DomainInv, IsFunction
  <2>4. ClientInv(c)'
    BY <1>1, <1>2, <1>3, <2>1, <2>2
       DEF CsInv, ClientInv, TurnInv, AskedInv, WaitInv, StartInv, Attested, Works, Asks,
           MutualWait, Short
  <2>5. \A d \in Clients \ {c} : Kept(d)
    BY <1>1, <1>2, <2>2 DEF Kept
  <2> QED
    BY <1>1, <1>2, <1>3, <2>3, <2>4, <2>5, ClientMoves
<1> QED
  BY <1>4, <1>5

LEMMA AnswerNoInv ==
  ASSUME CsInv, NEW c \in Clients, AnswerNo(c)
  PROVE  CsInv'
<1>1. /\ cpc[c] = "answer" /\ Send(c, Plain("exit")) /\ cpc' = [cpc EXCEPT ![c] = "done"]
      /\ UNCHANGED <<spc, peer, backlog, accepted, verdict>>
      /\ UNCHANGED <<s2c, asked, repeat, file, eof>>
  BY DEF AnswerNo, ReadsLine, serverVars, attVars
<1>2. /\ cpc'[c] = "done" /\ (\A d \in Clients \ {c} : cpc'[d] = cpc[d])
      /\ cpc' \in [Clients -> ClientStates]
  BY <1>1 DEF CsInv, DomainInv, ClientStates
<1>3. c2s[c] = <<>> /\ s2c[c] = <<>> /\ ~Works(c)
  BY <1>1 DEF CsInv, ClientInv, TurnInv, Asks
<1>4. /\ c2s'[c] # <<>> /\ Short(c2s'[c]) /\ c2s'[c][1].type = "exit"
      /\ (\A d \in Clients \ {c} : c2s'[d] = c2s[d]) /\ IsFunction(c2s')
  BY <1>1, <1>3, SendsOne DEF Plain, Msg
<1>5. DomainInv'
  BY <1>1, <1>2, <1>4 DEF CsInv, DomainInv, IsFunction
<1>6. ClientInv(c)'
  BY <1>1, <1>2, <1>3, <1>4
     DEF CsInv, ClientInv, TurnInv, AskedInv, WaitInv, StartInv, Attested, Works, Asks,
         MutualWait, Short
<1>7. \A d \in Clients \ {c} : Kept(d)
  BY <1>1, <1>2, <1>4 DEF Kept
<1> QED
  BY <1>1, <1>2, <1>3, <1>5, <1>6, <1>7, ClientMoves

LEMMA UserInv ==
  ASSUME CsInv, NEW c \in Clients, Type(c) \/ EndInput(c)
  PROVE  CsInv'
<1>1. /\ UNCHANGED <<spc, peer, backlog, accepted, verdict>>
      /\ UNCHANGED <<c2s, s2c, cpc, asked, repeat, file>>
      /\ eof' = eof \/ eof' = [eof EXCEPT ![c] = TRUE]
  BY DEF Type, EndInput, serverVars, clientVars, attVars
<1>2. DomainInv' /\ \A d \in Clients : eof[d] => eof'[d]
  BY <1>1 DEF CsInv, DomainInv, IsFunction
<1>3. \A d \in Clients : Kept(d)
  BY <1>1, <1>2 DEF Kept
<1>4. ClientInv(c)'
  BY <1>1, <1>3, ClientKept DEF CsInv
<1> QED
  BY <1>1, <1>2, <1>3, <1>4, ClientMoves

(* A client joins the end of the listen queue, which it was not in.        *)
LEMMA ConnectInv ==
  ASSUME CsInv, NEW c \in Clients, Connect(c)
  PROVE  CsInv'
<1> DEFINE m == Plain("Initialize")
<1>1. /\ cpc[c] = "start" /\ cpc' = [cpc EXCEPT ![c] = "read"]
      /\ backlog' = Append(backlog, c) /\ Send(c, m)
      /\ UNCHANGED <<spc, peer, accepted, verdict, s2c, asked, repeat, file, eof>>
  BY DEF Connect, Send, inputVars, attVars
<1> HIDE DEF m
<1>2. c2s[c] = <<>> /\ s2c[c] = <<>> /\ peer # <<c>> /\ asked[c] = <<>>
  BY <1>1 DEF CsInv, ClientInv, StartInv
<1>3. /\ cpc'[c] = "read" /\ (\A d \in Clients \ {c} : cpc'[d] = cpc[d])
      /\ cpc' \in [Clients -> ClientStates]
  BY <1>1 DEF CsInv, DomainInv, ClientStates
<1>4. /\ c2s'[c] # <<>> /\ Short(c2s'[c])
      /\ (\A d \in Clients \ {c} : c2s'[d] = c2s[d]) /\ IsFunction(c2s')
  BY <1>1, <1>2, SendsOne
<1>5. DomainInv'
  BY <1>1, <1>3, <1>4 DEF CsInv, DomainInv, IsFunction
<1>6. ClientInv(c)'
  BY <1>1, <1>2, <1>3, <1>4
     DEF ClientInv, TurnInv, AskedInv, WaitInv, StartInv, Works, Asks, MutualWait, Short
<1>7. ASSUME NEW d \in Clients \ {c} PROVE ClientInv(d)'
  BY <1>1, <1>3, <1>4, <1>7, ClientKept DEF CsInv, Kept
<1>8. ServerInv'
  BY <1>1 DEF CsInv, ServerInv
<1>9. BacklogInv'
  <2>1. backlog \in Seq(Clients) /\ Len(backlog) \in Nat
        /\ \A i \in 1 .. Len(backlog) : backlog[i] \in Clients \ {c}
    BY <1>1 DEF CsInv, BacklogInv
  <2>2. /\ backlog' \in Seq(Clients) /\ Len(backlog') = Len(backlog) + 1
        /\ (\A i \in 1 .. Len(backlog) : backlog'[i] = backlog[i])
        /\ backlog'[Len(backlog) + 1] = c
    BY <1>1, <2>1, AppendProperties
  <2>3. ASSUME NEW i \in 1 .. Len(backlog')
        PROVE  cpc'[backlog'[i]] # "start" /\ c2s'[backlog'[i]] # <<>> /\ peer' # <<backlog'[i]>>
    <3>1. CASE i \in 1 .. Len(backlog)
      BY <1>1, <1>3, <1>4, <2>1, <2>2, <3>1 DEF CsInv, BacklogInv
    <3>2. CASE i = Len(backlog) + 1
      BY <1>1, <1>2, <1>3, <1>4, <2>2, <3>2
    <3> QED
      BY <2>1, <2>2, <3>1, <3>2
  <2>4. ASSUME NEW i \in 1 .. Len(backlog'), NEW j \in 1 .. Len(backlog'), backlog'[i] = backlog'[j]
        PROVE  i = j
    BY <2>1, <2>2, <2>4 DEF CsInv, BacklogInv
  <2> QED
    BY <2>2, <2>3, <2>4 DEF BacklogInv
<1> QED
  BY <1>5, <1>6, <1>7, <1>8, <1>9 DEF CsInv
----------------------------------------------------------------------------
(* The steps of the server.                                                *)
LEMMA ListenInv == CsInv /\ Listen => CsInv'
<1> SUFFICES ASSUME CsInv, Listen PROVE CsInv'
  OBVIOUS
<1>1. /\ spc = "off" /\ spc' = "accept"
      /\ UNCHANGED <<peer, backlog, accepted, verdict, c2s, s2c, cpc, asked, repeat, file, eof>>
  BY DEF Listen, clientVars, inputVars, attVars
<1>2. peer = <<>>
  BY <1>1 DEF CsInv, ServerInv
<1>3. ASSUME NEW d \in Clients PROVE ClientInv(d)'
  <2>1. Kept(d)
    BY <1>1 DEF Kept
  <2> QED
    BY <1>1, <1>2, <2>1, BystanderKept, OneElement DEF CsInv
<1>4. DomainInv' /\ ServerInv' /\ BacklogInv'
  BY <1>1, <1>2 DEF CsInv, DomainInv, IsFunction, ServerInv, ServerStates, BacklogInv
<1> QED
  BY <1>3, <1>4 DEF CsInv

(* The line of the accepted client is still unread: nobody waits for ever. *)
LEMMA AcceptConnectionInv == CsInv /\ AcceptConnection => CsInv'
<1> SUFFICES ASSUME CsInv, AcceptConnection PROVE CsInv'
  OBVIOUS
<1>1. /\ spc = "accept" /\ backlog # <<>> /\ spc' = "read"
      /\ peer' = <<Head(backlog)>> /\ backlog' = Tail(backlog)
      /\ UNCHANGED <<accepted, verdict, c2s, s2c, cpc, asked, repeat, file, eof>>
  BY DEF AcceptConnection, clientVars, inputVars, attVars
<1>2. backlog \in Seq(Clients) /\ Len(backlog) \in Nat /\ Len(backlog) # 0 /\ 1 \in 1 .. Len(backlog)
  BY <1>1, EmptySeq DEF CsInv, BacklogInv
<1>q. PICK q \in Clients : q = backlog[1]
  BY <1>2
<1>3. Head(backlog) = q /\ cpc[q] # "start" /\ c2s[q] # <<>>
  BY <1>2, <1>q DEF CsInv, BacklogInv
<1>4. peer = <<>>
  BY <1>1 DEF CsInv, ServerInv
<1>5. ClientInv(q)'
  <2>1. asked[q] = <<>> /\ s2c[q] = <<>> /\ ~Asks(q)
    BY <1>3, <1>4, OneElement DEF CsInv, ClientInv, TurnInv, AskedInv, Attested
  <2> QED
    BY <1>1, <1>3, <2>1
       DEF CsInv, ClientInv, TurnInv, AskedInv, WaitInv, StartInv, Works, Asks, MutualWait, Short
<1>6. ASSUME NEW d \in Clients \ {q} PROVE ClientInv(d)'
  <2>1. Kept(d)
    BY <1>1 DEF Kept
  <2>2. peer # <<d>> /\ peer' # <<d>>
    BY <1>1, <1>3, <1>4, OneElement
  <2> QED
    BY <2>1, <2>2, BystanderKept DEF CsInv
<1>7. DomainInv' /\ ServerInv'
  BY <1>1, <1>3 DEF CsInv, DomainInv, IsFunction, ServerInv, ServerStates
<1>8. BacklogInv'
  <2>1. /\ Tail(backlog) \in Seq(Clients) /\ Len(Tail(backlog)) = Len(backlog) - 1
        /\ \A i \in 1 .. Len(Tail(backlog)) : Tail(backlog)[i] = backlog[i + 1]
    BY <1>2, HeadTailProperties
  <2>2. \A i \in 1 .. Len(Tail(backlog)) : i + 1 \in 1 .. Len(backlog) /\ backlog[i + 1] # q
    BY <1>2, <1>q, <2>1 DEF CsInv, BacklogInv
  <2>3. ASSUME NEW i \in 1 .. Len(Tail(backlog))
        PROVE  /\ cpc[Tail(backlog)[i]] # "start" /\ c2s[Tail(backlog)[i]] # <<>>
               /\ <<q>> # <<Tail(backlog)[i]>>
    BY <2>1, <2>2 DEF CsInv, BacklogInv
  <2>4. ASSUME NEW i \in 1 .. Len(Tail(backlog)), NEW j \in 1 .. Len(Tail(backlog)),
               Tail(backlog)[i] = Tail(backlog)[j]
        PROVE  i = j
    <3>1. i + 1 = j + 1
      BY <2>1, <2>2, <2>4 DEF CsInv, BacklogInv
    <3> QED
      BY <1>2, <2>1, <3>1
  <2> QED
    BY <1>1, <1>3, <2>1, <2>3, <2>4 DEF BacklogInv
<1> QED
  BY <1>5, <1>6, <1>7, <1>8 DEF CsInv

(* A step of the server with its client q keeps the invariant when it      *)
(* keeps this client's part.                                               *)
LEMMA ServerMoves ==
  ASSUME CsInv, NEW q \in Clients, peer = <<q>>,
         UNCHANGED <<peer, backlog, cpc, asked, repeat, file, eof>>,
         IsFunction(c2s'), IsFunction(s2c'),
         \A d \in Clients \ {q} : c2s'[d] = c2s[d] /\ s2c'[d] = s2c[d],
         spc' \in ServerStates \ {"off", "accept"}, ClientInv(q)'
  PROVE  CsInv'
<1>1. ASSUME NEW d \in Clients \ {q} PROVE ClientInv(d)'
  <2>1. Kept(d)
    BY DEF Kept
  <2>2. peer # <<d>> /\ peer' # <<d>>
    BY OneElement
  <2> QED
    BY <2>1, <2>2, BystanderKept DEF CsInv
<1>2. DomainInv' /\ ServerInv'
  BY DEF CsInv, DomainInv, IsFunction, ServerInv
<1>3. BacklogInv'
  <2>1. \A i \in 1 .. Len(backlog) : backlog[i] \in Clients \ {q}
    BY DEF CsInv, BacklogInv
  <2> QED
    BY <2>1 DEF CsInv, BacklogInv
<1> QED
  BY <1>1, <1>2, <1>3 DEF CsInv

(* The server reads the line of its client, who waits for the answer.      *)
LEMMA ReceivesOne ==
  ASSUME CsInv, NEW q \in Clients, peer = <<q>>, NEW t, Receives(t)
  PROVE  /\ spc = "read" /\ c2s[q] # <<>> /\ c2s[q][1].type = t
         /\ c2s'[q] = <<>> /\ (\A d \in Clients \ {q} : c2s'[d] = c2s[d])
         /\ IsFunction(c2s')
         /\ s2c[q] = <<>> /\ ~Asks(q)
         /\ UNCHANGED <<peer, backlog, cpc, asked, repeat, file, eof>>
<1>1. ClientInv(q) /\ DomainInv /\ peer[1] = q
  BY OneElement DEF CsInv
<1>2. /\ spc = "read" /\ c2s[q] # <<>> /\ Head(c2s[q]).type = t
      /\ c2s' = [c2s EXCEPT ![q] = Tail(c2s[q])]
      /\ UNCHANGED <<peer, backlog, cpc, asked, repeat, file, eof>>
  BY <1>1 DEF Receives, clientVars, inputVars
<1>3. Head(c2s[q]) = c2s[q][1] /\ Tail(c2s[q]) = <<>>
  BY <1>1, <1>2, ShortTail DEF ClientInv, TurnInv
<1>4. s2c[q] = <<>> /\ ~Asks(q)
  BY <1>1, <1>2 DEF ClientInv, TurnInv
<1> QED
  BY <1>1, <1>2, <1>3, <1>4 DEF DomainInv, IsFunction

LEMMA RepliesOne ==
  ASSUME CsInv, NEW q \in Clients, peer = <<q>>, NEW m, Reply(m), s2c[q] = <<>>
  PROVE  /\ s2c'[q] = <<m>> /\ s2c'[q] # <<>> /\ s2c'[q][1] = m /\ Short(s2c'[q])
         /\ \A d \in Clients \ {q} : s2c'[d] = s2c[d]
         /\ IsFunction(s2c')
<1>1. s2c' = [s2c EXCEPT ![q] = <<m>>]
  BY OneElement DEF Reply
<1>2. s2c'[q] = <<m>> /\ IsFunction(s2c') /\ \A d \in Clients \ {q} : s2c'[d] = s2c[d]
  BY <1>1 DEF CsInv, DomainInv, IsFunction
<1> QED
  BY <1>2, OneElement DEF Short

LEMMA ReceivesInv ==
  ASSUME CsInv,
         ReceiveInitialize \/ ReceiveChallenge \/ ReceiveExpression \/ ReceiveExit
  PROVE  CsInv'
<1>1. \E t : Receives(t)
  BY DEF ReceiveInitialize, ReceiveChallenge, ReceiveExpression, ReceiveExit
<1>2. PICK q \in Clients : peer = <<q>>
  BY <1>1 DEF Receives, CsInv, ServerInv
<1>3. ASSUME NEW t, Receives(t)
      PROVE  /\ spc = "read" /\ c2s[q] # <<>> /\ c2s[q][1].type = t
             /\ c2s'[q] = <<>> /\ (\A d \in Clients \ {q} : c2s'[d] = c2s[d])
             /\ IsFunction(c2s')
             /\ s2c[q] = <<>> /\ ~Asks(q)
             /\ UNCHANGED <<peer, backlog, cpc, asked, repeat, file, eof>>
  BY <1>2, <1>3, ReceivesOne
<1>4. ClientInv(q) /\ IsFunction(s2c)
  BY DEF CsInv, DomainInv
<1>5. CASE ReceiveInitialize
  <2> DEFINE m == Plain("Accepted")
  <2>1. Receives("Initialize") /\ Reply(m) /\ UNCHANGED <<spc, accepted, verdict>>
    BY <1>5 DEF ReceiveInitialize, attVars
  <2>2. m.type = "Accepted"
    BY DEF Plain, Msg
  <2> HIDE DEF m
  <2>3. /\ s2c'[q] # <<>> /\ s2c'[q][1] = m /\ Short(s2c'[q])
        /\ (\A d \in Clients \ {q} : s2c'[d] = s2c[d]) /\ IsFunction(s2c')
    BY <1>2, <1>3, <2>1, RepliesOne
  <2>4. asked[q] = <<>>
    BY <1>3, <1>4, <2>1 DEF ClientInv, AskedInv
  <2>5. ClientInv(q)'
    BY <1>3, <1>4, <2>1, <2>2, <2>3, <2>4
       DEF ClientInv, TurnInv, AskedInv, WaitInv, StartInv, Works, Asks, MutualWait, Short
  <2>6. spc' \in ServerStates \ {"off", "accept"}
    BY <1>3, <2>1 DEF ServerStates
  <2> QED
    BY <1>2, <1>3, <2>1, <2>3, <2>5, <2>6, ServerMoves
<1>6. CASE ReceiveChallenge
  <2>1. Receives("Challenge") /\ spc' = "attest" /\ UNCHANGED s2c
    BY <1>6 DEF ReceiveChallenge
  <2>2. asked[q] = <<>>
    BY <1>3, <1>4, <2>1 DEF ClientInv, AskedInv
  <2>3. ClientInv(q)'
    BY <1>3, <1>4, <2>1, <2>2
       DEF ClientInv, TurnInv, AskedInv, WaitInv, StartInv, Works, Asks, MutualWait, Short
  <2>4. spc' \in ServerStates \ {"off", "accept"}
    BY <2>1 DEF ServerStates
  <2> QED
    BY <1>2, <1>3, <1>4, <2>1, <2>3, <2>4, ServerMoves
<1>7. CASE ReceiveExpression \/ ReceiveExit
  <2>1. /\ Receives("Expression") \/ Receives("exit")
        /\ spc' \in {"dead", "evaluate", "closed"}
        /\ UNCHANGED <<s2c, accepted, verdict>>
    BY <1>7 DEF ReceiveExpression, ReceiveExit, attVars
  <2>2. ClientInv(q)'
    BY <1>2, <1>3, <1>4, <2>1
       DEF ClientInv, TurnInv, AskedInv, WaitInv, StartInv, Attested, Works, Asks,
           MutualWait, Short
  <2>3. spc' \in ServerStates \ {"off", "accept"}
    BY <2>1 DEF ServerStates
  <2> QED
    BY <1>2, <1>3, <1>4, <2>1, <2>2, <2>3, ServerMoves
<1> QED
  BY <1>5, <1>6, <1>7

(* The server answers the request it has worked on.                        *)
LEMMA AnswersInv ==
  ASSUME CsInv, NEW q \in Clients, Works(q), NEW m, Reply(m), spc' \in {"read", "closed"},
         UNCHANGED <<peer, backlog, c2s, cpc, asked, repeat, file, eof>>,
         m.type = "Success" => accepted' /\ verdict' = "Success",
         asked[q] # <<>> => m.type = "Result" /\ UNCHANGED <<accepted, verdict>>
  PROVE  CsInv'
<1>1. ClientInv(q) /\ IsFunction(c2s) /\ peer = <<q>>
  BY DEF CsInv, DomainInv, Works
<1>2. c2s[q] = <<>> /\ s2c[q] = <<>> /\ ~Asks(q)
  BY <1>1 DEF ClientInv, TurnInv
<1>3. /\ s2c'[q] # <<>> /\ s2c'[q][1] = m /\ Short(s2c'[q])
      /\ (\A d \in Clients \ {q} : s2c'[d] = s2c[d]) /\ IsFunction(s2c')
  BY <1>1, <1>2, RepliesOne
<1>4. ClientInv(q)'
  BY <1>1, <1>2, <1>3
     DEF ClientInv, TurnInv, AskedInv, WaitInv, StartInv, Attested, Works, Asks,
         MutualWait, Short
<1>5. spc' \in ServerStates \ {"off", "accept"}
  BY DEF ServerStates
<1> QED
  BY <1>1, <1>3, <1>4, <1>5, ServerMoves

(* The server goes on with its work, or ends.                              *)
LEMMA NoAnswerInv ==
  ASSUME CsInv, NEW q \in Clients, peer = <<q>>,
         UNCHANGED <<peer, backlog, c2s, s2c, cpc, asked, repeat, file, eof>>,
         spc' \in {"closed", "dead"} \/ (Works(q) /\ UNCHANGED spc),
         UNCHANGED <<accepted, verdict>> \/ (Works(q) /\ asked[q] = <<>>)
  PROVE  CsInv'
<1>1. ClientInv(q) /\ IsFunction(c2s) /\ IsFunction(s2c)
  BY DEF CsInv, DomainInv
<1>2. Works(q) => c2s[q] = <<>> /\ s2c[q] = <<>> /\ ~Asks(q)
  BY <1>1 DEF ClientInv, TurnInv
<1>3. ClientInv(q)'
  BY <1>1, <1>2
     DEF ClientInv, TurnInv, AskedInv, WaitInv, StartInv, Attested, Works, Asks,
         MutualWait, Short
<1>4. spc' \in ServerStates \ {"off", "accept"}
  BY DEF ServerStates, Works
<1> QED
  BY <1>1, <1>3, <1>4, ServerMoves

LEMMA AttestationInv ==
  ASSUME CsInv,
         \/ AttestationRuns \/ AttestationSucceeds
         \/ AttestationFails \/ AttestationKillsServer
  PROVE  CsInv'
<1>1. /\ spc = "attest"
      /\ UNCHANGED <<peer, backlog, c2s, cpc, asked, repeat, file, eof>>
  BY DEF AttestationRuns, AttestationSucceeds, AttestationFails, AttestationKillsServer,
         serverVars, clientVars, inputVars
<1>2. PICK q \in Clients : peer = <<q>>
  BY <1>1 DEF CsInv, ServerInv
<1>3. Works(q) /\ asked[q] = <<>>
  BY <1>1, <1>2 DEF Works, CsInv, ClientInv, AskedInv
<1>4. CASE AttestationRuns \/ AttestationKillsServer
  <2>1. UNCHANGED s2c /\ (spc' = "dead" \/ UNCHANGED spc)
    BY <1>4 DEF AttestationRuns, AttestationKillsServer, serverVars
  <2> QED
    BY <1>1, <1>2, <1>3, <2>1, NoAnswerInv
<1>5. CASE AttestationSucceeds
  <2> DEFINE m == Msg("Success", KeyPart(AesKey))
  <2>1. Reply(m) /\ spc' = "read" /\ accepted' /\ verdict' = "Success"
    BY <1>5 DEF AttestationSucceeds, AnswerSuccess
  <2> HIDE DEF m
  <2> QED
    BY <1>1, <1>2, <1>3, <2>1, AnswersInv
<1>6. CASE AttestationFails
  <2> DEFINE m == Plain("Failed")
  <2>1. Reply(m) /\ spc' = "closed"
    BY <1>6 DEF AttestationFails
  <2>2. m.type # "Success"
    BY DEF Plain, Msg
  <2> HIDE DEF m
  <2> QED
    BY <1>1, <1>2, <1>3, <2>1, <2>2, AnswersInv
<1> QED
  BY <1>4, <1>5, <1>6

LEMMA EvaluationInv ==
  ASSUME CsInv, EvaluationRuns \/ Evaluated \/ EvaluationKillsServer \/ ClientLost
  PROVE  CsInv'
<1>1. /\ spc \in {"evaluate", "read"}
      /\ UNCHANGED <<peer, backlog, c2s, cpc, asked, repeat, file, eof, accepted, verdict>>
  BY DEF EvaluationRuns, Evaluated, EvaluationKillsServer, ClientLost, serverVars, clientVars,
         inputVars, attVars
<1>2. PICK q \in Clients : peer = <<q>>
  BY <1>1 DEF CsInv, ServerInv
<1>3. CASE Evaluated
  <2>1. PICK a \in answer' : Reply(ResultLine(a[2]))
    BY <1>3 DEF Evaluated
  <2>2. spc' = "read" /\ Works(q)
    BY <1>2, <1>3 DEF Evaluated, Works
  <2> DEFINE m == ResultLine(a[2])
  <2>3. m.type = "Result" /\ "Result" # "Success" /\ Reply(m)
    BY <2>1 DEF ResultLine, Msg
  <2> HIDE DEF m
  <2> QED
    BY <1>1, <2>2, <2>3, AnswersInv
<1>4. CASE EvaluationRuns \/ EvaluationKillsServer \/ ClientLost
  <2>1. UNCHANGED s2c /\ (spc' \in {"closed", "dead"} \/ (Works(q) /\ UNCHANGED spc))
    BY <1>2, <1>4 DEF EvaluationRuns, EvaluationKillsServer, ClientLost, Works, serverVars
  <2> QED
    BY <1>1, <1>2, <2>1, NoAnswerInv
<1> QED
  BY <1>3, <1>4
----------------------------------------------------------------------------
LEMMA CsNextInv == CsInv /\ [CsNext]_csVars => CsInv'
<1> SUFFICES ASSUME CsInv, [CsNext]_csVars PROVE CsInv'
  OBVIOUS
<1>1. CASE Listen
  BY <1>1, ListenInv
<1>2. CASE ServerNext
  <2>1. CASE AcceptConnection
    BY <2>1, AcceptConnectionInv
  <2>2. CASE ReceiveInitialize \/ ReceiveChallenge \/ ReceiveExpression \/ ReceiveExit
    BY <2>2, ReceivesInv
  <2>3. CASE \/ AttestationRuns \/ AttestationSucceeds
             \/ AttestationFails \/ AttestationKillsServer
    BY <2>3, AttestationInv
  <2>4. CASE EvaluationRuns \/ Evaluated \/ EvaluationKillsServer \/ ClientLost
    BY <2>4, EvaluationInv
  <2> QED
    BY <1>2, <2>1, <2>2, <2>3, <2>4 DEF ServerNext
<1>3. ASSUME NEW c \in Clients,
             ClientNext(c) \/ Connect(c) \/ ConnectionRefused(c) \/ Type(c) \/ EndInput(c)
      PROVE  CsInv'
  <2>1. CASE GetAccepted(c)
    BY <2>1, GetAcceptedInv
  <2>2. CASE GetSuccess(c)
    BY <2>2, GetSuccessInv
  <2>3. CASE GetFailed(c) \/ ServerLost(c) \/ AnswerEnded(c) \/ ConnectionRefused(c)
    BY <2>3, ClientEndsInv
  <2>4. CASE GetResult(c)
    BY <2>4, GetResultInv
  <2>5. CASE InputExpression(c)
    BY <2>5, InputExpressionInv
  <2>6. CASE InputEnded(c) \/ AnswerYes(c)
    BY <2>6, BackToReadInv
  <2>7. CASE AnswerNo(c)
    BY <2>7, AnswerNoInv
  <2>8. CASE Connect(c)
    BY <2>8, ConnectInv
  <2>9. CASE Type(c) \/ EndInput(c)
    BY <2>9, UserInv
  <2> QED
    BY <1>3, <2>1, <2>2, <2>3, <2>4, <2>5, <2>6, <2>7, <2>8, <2>9 DEF ClientNext
<1>4. CASE UNCHANGED csVars
  <2>1. UNCHANGED <<spc, peer, backlog, c2s, s2c, cpc, asked, repeat, file, eof, accepted, verdict>>
    BY <1>4 DEF csVars, serverVars, clientVars, inputVars, attVars
  <2>2. ASSUME NEW d \in Clients PROVE ClientInv(d)'
    BY <2>1, ClientKept DEF CsInv, Kept
  <2>3. DomainInv' /\ ServerInv' /\ BacklogInv'
    BY <2>1 DEF CsInv, DomainInv, IsFunction, ServerInv, BacklogInv
  <2> QED
    BY <2>2, <2>3 DEF CsInv
<1> QED
  BY <1>1, <1>2, <1>3, <1>4 DEF CsNext

(* CsInv is an invariant of the session, whatever the lines contain.       *)
THEOREM CsInvariance == CsSpec => []CsInv
<1> QED
  BY CsInitInv, CsNextInv, PTL DEF CsSpec

(***************************************************************************)
(* Between a client and the server there is at most one line under way,    *)
(* request worked on, or question to the user (Client.java and Server.java *)
(* take turns), for any number of clients.                                 *)
(***************************************************************************)
THEOREM CsOneTurn == CsSpec => []OneTurn
<1>1. CsInv => OneTurn
  <2> SUFFICES ASSUME CsInv, NEW c \in Clients PROVE Turns(c) <= 1
    BY DEF OneTurn
  <2>1. TurnInv(c)
    BY DEF CsInv, ClientInv
  <2>2. /\ Len(c2s[c]) = (IF c2s[c] = <<>> THEN 0 ELSE 1)
        /\ Len(s2c[c]) = (IF s2c[c] = <<>> THEN 0 ELSE 1)
    BY <2>1, ShortLen DEF TurnInv
  <2> QED
    BY <2>1, <2>2 DEF TurnInv, Turns, Asks
<1> QED
  BY <1>1, CsInvariance, PTL

(* A client that has sent an expression is the one that is served, its     *)
(* evidence was accepted, and it has sent no other.                        *)
THEOREM CsExpressionOnlyAttested == CsSpec => []ExpressionOnlyAttested
<1>1. CsInv => ExpressionOnlyAttested
  <2> SUFFICES ASSUME CsInv, NEW c \in Clients
               PROVE  /\ asked[c] # <<>> => accepted /\ verdict = "Success" /\ peer = <<c>>
                      /\ Len(asked[c]) <= 1
    BY DEF ExpressionOnlyAttested
  <2>1. AskedInv(c)
    BY DEF CsInv, ClientInv
  <2>2. Len(asked[c]) = (IF asked[c] = <<>> THEN 0 ELSE 1)
    BY <2>1, ShortLen DEF AskedInv
  <2> QED
    BY <2>1, <2>2 DEF AskedInv, Attested
<1> QED
  BY <1>1, CsInvariance, PTL

(* No line is lost between the two programs: both wait for the other only  *)
(* after an answer "Y", or an ended input where an expression is asked.    *)
THEOREM CsWaitOnlyByUser == CsSpec => []WaitOnlyByUser
<1>1. CsInv => WaitOnlyByUser
  BY DEF CsInv, ClientInv, WaitInv, WaitOnlyByUser
<1> QED
  BY <1>1, CsInvariance, PTL

----------------------------------------------------------------------------
(***************************************************************************)
(* What the lines say.  That a line is read as it was written is a fact    *)
(* about LineCodec (LinesRoundTrip); from it follows that, whatever the    *)
(* interleaving, each line is read under the key it was written with, and  *)
(* that a result is that of the reader's own expression: it is the first   *)
(* one of the server process, so that no enclave has computed another.     *)
(***************************************************************************)

(* The bytes of every line, and the server's key, which has no negative    *)
(* byte, are read as they were written: Client.java and Server.java list   *)
(* an array, split the line and parse the numbers.                         *)
THEOREM CsLinesRoundTrip == LinesRoundTrip
<1>1. KeyOf(KeyPart(AesKey)) = AesKey
  <2>1. PICK k : k = AesKey
    OBVIOUS
  <2>2. k \in Keys /\ k \in [1 .. KeyLength -> Byte] /\ Byte \subseteq Int
        /\ \A i \in 1 .. KeyLength : k[i] > 0
    BY <2>1, KeyAssumption, GCMAssumption DEF Keys
  <2>3. ASSUME NEW i \in 1 .. KeyLength PROVE k[i] >= 0
    <3>1. k[i] \in Int /\ k[i] > 0
      BY <2>2
    <3> QED
      BY <3>1
  <2> QED
    BY <2>1, <2>2, <2>3, KeyReadBack
<1>2. ASSUME NEW p \in Keys \X Texts PROVE BytesOf(TextPart(GCM[p])) = GCM[p]
  BY GCMAssumption, BytesReadBack
<1> QED
  BY <1>1, <1>2 DEF LinesRoundTrip

Sendable(x) == x \in Texts /\ trim(x) \in Texts

ContentInv(c) ==
  /\ file[c] \in Files \union {NoFile}
  /\ asked[c] # <<>> => Sendable(asked[c][1]) /\ aesKeyBytes[c] = AesKey
  /\ cpc[c] = "input" => aesKeyBytes[c] = AesKey
  /\ c2s[c] # <<>> /\ c2s[c][1].type = "Expression" =>
       asked[c] # <<>> /\ c2s[c][1].rest = TextPart(encrypt(AesKey, asked[c][1]))
  /\ s2c[c] # <<>> /\ s2c[c][1].type = "Success" => s2c[c][1].rest = KeyPart(AesKey)
  /\ s2c[c] # <<>> /\ s2c[c][1].type = "Result" =>
       asked[c] # <<>> /\ s2c[c][1].rest = TextPart(encrypt(AesKey, trim(asked[c][1])))
  /\ spc = "evaluate" /\ peer = <<c>> =>
       asked[c] # <<>> /\ request = {trim(asked[c][1])} /\ computed \subseteq request
  /\ /\ peer \in {<<>>, <<c>>}
     /\ asked[c] = <<>> \/ (c2s[c] # <<>> /\ c2s[c][1].type = "Expression")
     => computed = {}
  /\ result[c] # NoText => asked[c] # <<>> /\ result[c] = trim(asked[c][1])

ContentsInv ==
  /\ IsFunction(aesKeyBytes) /\ IsFunction(result)
  /\ \A c \in Clients : ContentInv(c)

(* The lines of a client and what it holds stay, are read, or are replaced *)
(* by a line without content.                                              *)
Calm(d) ==
  /\ c2s'[d] = c2s[d] \/ c2s'[d] = <<>> \/ c2s'[d][1].type # "Expression"
  /\ s2c'[d] = s2c[d] \/ s2c'[d] = <<>> \/ s2c'[d][1].type \notin {"Success", "Result"}
  /\ cpc'[d] = "input" => cpc[d] = "input"
  /\ asked'[d] = asked[d] /\ aesKeyBytes'[d] = aesKeyBytes[d]
  /\ result'[d] = result[d] /\ file'[d] = file[d]
  /\ spc' = "evaluate" /\ peer' = <<d>> =>
       spc = "evaluate" /\ peer = <<d>> /\ request' = request
  /\ peer' = peer \/ peer = <<>>
  /\ computed' \in {computed, {}} \/ peer' \notin {<<>>, <<d>>}

LEMMA ContentKept ==
  ASSUME NEW d \in Clients, ContentInv(d), Calm(d)
  PROVE  ContentInv(d)'
BY DEF ContentInv, Calm

(* The cipher undoes itself.                                               *)
LEMMA DecryptsOwn ==
  ASSUME NEW k \in Keys, NEW x \in Texts
  PROVE  encrypt(k, x) \in Seq(Byte) /\ decrypt(k, encrypt(k, x)) = x
<1>1. <<k, x>> \in Keys \X Texts /\ encrypt(k, x) \in Seq(Byte)
  BY GCMAssumption DEF encrypt
<1>2. \A y \in Texts : encrypt(k, y) = encrypt(k, x) => y = x
  <2> SUFFICES ASSUME NEW y \in Texts, encrypt(k, y) = encrypt(k, x) PROVE y = x
    OBVIOUS
  <2>1. <<k, y>> \in Keys \X Texts /\ GCM[<<k, y>>] = GCM[<<k, x>>]
    BY DEF encrypt
  <2>2. <<k, y>> = <<k, x>>
    BY <1>1, <2>1, GCMAssumption
  <2> QED
    BY <2>2
<1> DEFINE chosen == CHOOSE y \in Texts : encrypt(k, y) = encrypt(k, x)
<1>3. decrypt(k, encrypt(k, x)) = chosen
  BY <1>1 DEF decrypt
<1>4. chosen \in Texts /\ encrypt(k, chosen) = encrypt(k, x)
  OBVIOUS
<1> HIDE DEF chosen
<1> QED
  BY <1>1, <1>2, <1>3, <1>4

(* A text written on a line under the key of the server is read from it.   *)
LEMMA TextRead ==
  ASSUME LinesRoundTrip, NEW x \in Texts
  PROVE  /\ ServerDecrypts(TextPart(encrypt(AesKey, x))) = x
         /\ ClientDecrypts(TextPart(encrypt(AesKey, x)), AesKey) = x
         /\ x # NullText
<1>1. AesKey \in Keys
  BY KeyAssumption
<1>2. BytesOf(TextPart(encrypt(AesKey, x))) = encrypt(AesKey, x)
  BY <1>1 DEF LinesRoundTrip, encrypt
<1>3. decrypt(AesKey, BytesOf(TextPart(encrypt(AesKey, x)))) = x /\ x # NullText
  BY <1>1, <1>2, DecryptsOwn, GCMAssumption
<1>4. ServerDecrypts(TextPart(encrypt(AesKey, x))) = x
  BY <1>3 DEF ServerDecrypts
<1>5. ClientDecrypts(TextPart(encrypt(AesKey, x)), AesKey) = x
  BY <1>1, <1>3 DEF ClientDecrypts, ValidKey
<1> QED
  BY <1>3, <1>4, <1>5

LEMMA KeyIsKey == ValidKey(AesKey) /\ AesKey # NullBytes
<1>1. AesKey \in Keys /\ AesKey \in [1 .. KeyLength -> Byte] /\ KeyLength \in Nat \ {0}
  BY KeyAssumption, GCMAssumption DEF Keys
<1>2. DOMAIN AesKey = 1 .. KeyLength /\ 1 \in 1 .. KeyLength
  BY <1>1
<1>3. DOMAIN <<>> = {}
  OBVIOUS
<1> QED
  BY <1>1, <1>2, <1>3 DEF ValidKey, NullBytes

(* Whatever a client sends can be encrypted, and so can its value.         *)
LEMMA SentTexts ==
  /\ Sendable(<<"0">>)
  /\ \A f \in Files \ {<<>>} : Sendable(readFile(f))
  /\ \A l \in Lines : Sendable(LineText(l))
BY LinesAssumption DEF Sendable

LEMMA ContentsInitInv == CsInit => ContentsInv
<1> SUFFICES ASSUME CsInit PROVE ContentsInv
  OBVIOUS
<1>1. IsFunction(aesKeyBytes) /\ IsFunction(result)
  BY DEF CsInit, IsFunction
<1>2. ASSUME NEW c \in Clients PROVE ContentInv(c)
  BY DEF CsInit, EvInit, ContentInv
<1> QED
  BY <1>1, <1>2 DEF ContentsInv

(* A step is judged by the client it is about.                             *)
LEMMA ContentMoves ==
  ASSUME ContentsInv, NEW c \in Clients, ContentInv(c)',
         IsFunction(aesKeyBytes'), IsFunction(result'),
         \A d \in Clients \ {c} : Calm(d)
  PROVE  ContentsInv'
<1>1. ASSUME NEW d \in Clients PROVE ContentInv(d)'
  BY <1>1, ContentKept DEF ContentsInv
<1> QED
  BY <1>1 DEF ContentsInv

LEMMA AllCalm ==
  ASSUME ContentsInv, \A d \in Clients : Calm(d), UNCHANGED <<aesKeyBytes, result>>
  PROVE  ContentsInv'
<1>1. ASSUME NEW d \in Clients PROVE ContentInv(d)'
  BY <1>1, ContentKept DEF ContentsInv
<1> QED
  BY <1>1 DEF ContentsInv, IsFunction

(* The steps that neither send nor read a line.                            *)
LEMMA SilentContents ==
  ASSUME ContentsInv, UNCHANGED <<c2s, s2c, asked, aesKeyBytes, result, file>>,
         \A d \in Clients : cpc'[d] = "input" => cpc[d] = "input",
         spc' = "evaluate" => UNCHANGED <<spc, peer, request>>,
         peer' = peer \/ peer = <<>>, computed' \in {computed, {}}
  PROVE  ContentsInv'
<1>1. \A d \in Clients : Calm(d)
  BY DEF Calm
<1> QED
  BY <1>1, AllCalm

LEMMA SilentServer ==
  ASSUME CsInv, ContentsInv,
         \/ Listen \/ AcceptConnection \/ AttestationRuns \/ AttestationKillsServer
         \/ EvaluationKillsServer \/ ClientLost \/ UNCHANGED csVars
  PROVE  ContentsInv'
<1>1. UNCHANGED <<c2s, s2c, asked, aesKeyBytes, result, file, cpc>>
  BY DEF Listen, AcceptConnection, AttestationRuns, AttestationKillsServer,
         EvaluationKillsServer, ClientLost, csVars, clientVars, inputVars
<1>2. /\ spc' = "evaluate" => UNCHANGED <<spc, peer, request>>
      /\ computed' \in {computed, {}}
  BY DEF Listen, AcceptConnection, AttestationRuns, AttestationKillsServer,
         EvaluationKillsServer, Crash, ClientLost, csVars, serverVars, evVars
<1>3. peer' = peer \/ peer = <<>>
  BY DEF Listen, AcceptConnection, AttestationRuns, AttestationKillsServer,
         EvaluationKillsServer, ClientLost, csVars, serverVars, CsInv, ServerInv
<1> QED
  BY <1>1, <1>2, <1>3, SilentContents

(* Another enclave has evaluated the request, and nothing else.            *)
LEMMA EvaluationRunsContents ==
  ASSUME CsInv, ContentsInv, EvaluationRuns
  PROVE  ContentsInv'
<1>1. /\ spc = "evaluate" /\ request' = request /\ computed' = computed \union request
      /\ UNCHANGED <<spc, peer, c2s, s2c, cpc, asked, aesKeyBytes, result, file>>
  BY DEF EvaluationRuns, Compute, serverVars, clientVars, inputVars
<1>2. PICK q \in Clients : peer = <<q>>
  BY <1>1 DEF CsInv, ServerInv
<1>3. c2s[q] = <<>>
  BY <1>1, <1>2 DEF CsInv, ClientInv, TurnInv, Works
<1>4. ContentInv(q)'
  <2>1. ContentInv(q)
    BY DEF ContentsInv
  <2>2. asked[q] # <<>> /\ request = {trim(asked[q][1])} /\ computed' \subseteq request
    BY <1>1, <1>2, <2>1 DEF ContentInv
  <2> QED
    BY <1>1, <1>3, <2>1, <2>2 DEF ContentInv
<1>5. \A d \in Clients \ {q} : Calm(d)
  <2>1. \A d \in Clients \ {q} : peer' \notin {<<>>, <<d>>}
    BY <1>1, <1>2, OneElement
  <2> QED
    BY <1>1, <2>1 DEF Calm
<1>6. IsFunction(aesKeyBytes') /\ IsFunction(result')
  BY <1>1 DEF ContentsInv, IsFunction
<1> QED
  BY <1>4, <1>5, <1>6, ContentMoves

LEMMA SilentClient ==
  ASSUME CsInv, ContentsInv, NEW c \in Clients,
         \/ ServerLost(c) \/ InputEnded(c) \/ AnswerYes(c) \/ AnswerEnded(c)
         \/ ConnectionRefused(c) \/ Type(c) \/ EndInput(c)
  PROVE  ContentsInv'
<1>1. UNCHANGED <<c2s, s2c, asked, aesKeyBytes, result, file>>
  BY DEF ServerLost, InputEnded, AnswerYes, AnswerEnded, ConnectionRefused, Type, EndInput,
         ReadsLine, ReadsEnd, clientVars, inputVars
<1>2. UNCHANGED <<spc, peer, request, computed>>
  BY DEF ServerLost, InputEnded, AnswerYes, AnswerEnded, ConnectionRefused, Type, EndInput,
         serverVars, evVars
<1>3. UNCHANGED cpc \/ \E s \in {"read", "done", "failed"} : cpc' = [cpc EXCEPT ![c] = s]
  BY DEF ServerLost, InputEnded, AnswerYes, AnswerEnded, ConnectionRefused, Type, EndInput,
         clientVars
<1>4. \A d \in Clients : cpc'[d] = "input" => cpc[d] = "input"
  BY <1>3 DEF CsInv, DomainInv, ClientStates
<1> QED
  BY <1>1, <1>2, <1>4, SilentContents

(* The client sends a line without content, or only reads one.             *)
LEMMA PlainClient ==
  ASSUME CsInv, ContentsInv, NEW c \in Clients,
         GetAccepted(c) \/ GetFailed(c) \/ AnswerNo(c) \/ Connect(c)
  PROVE  ContentsInv'
<1>1. UNCHANGED <<spc, peer, request, computed, asked, aesKeyBytes, result, file>>
  BY DEF GetAccepted, GetFailed, AnswerNo, Connect, Gets, ReadsLine,
         serverVars, clientVars, inputVars, evVars
<1>2. UNCHANGED cpc \/ \E s \in {"read", "done"} : cpc' = [cpc EXCEPT ![c] = s]
  BY DEF GetAccepted, GetFailed, AnswerNo, Connect, clientVars
<1>3. \A d \in Clients : cpc'[d] = "input" => cpc[d] = "input"
  BY <1>2 DEF CsInv, DomainInv, ClientStates
<1>4. \A d \in Clients : s2c'[d] = s2c[d] \/ s2c'[d] = <<>>
  <2>1. CASE GetAccepted(c) \/ GetFailed(c)
    BY <2>1, GetsOne DEF GetAccepted, GetFailed
  <2>2. CASE AnswerNo(c) \/ Connect(c)
    BY <2>2 DEF AnswerNo, Connect
  <2> QED
    BY <2>1, <2>2
<1>5. ASSUME NEW t \in {"Challenge", "exit", "Initialize"}, Send(c, Plain(t)), c2s[c] = <<>>
      PROVE  \A d \in Clients : c2s'[d] = c2s[d] \/ c2s'[d][1].type # "Expression"
  <2>1. Plain(t).type # "Expression"
    BY DEF Plain, Msg
  <2> QED
    BY <1>5, <2>1, SendsOne
<1>6. \A d \in Clients : c2s'[d] = c2s[d] \/ c2s'[d][1].type # "Expression"
  <2>1. CASE GetAccepted(c)
    BY <1>5, <2>1, GetsOne DEF GetAccepted
  <2>2. CASE GetFailed(c)
    BY <2>2 DEF GetFailed
  <2>3. CASE AnswerNo(c)
    <3>1. c2s[c] = <<>>
      BY <2>3 DEF AnswerNo, CsInv, ClientInv, TurnInv, Asks
    <3> QED
      BY <1>5, <2>3, <3>1 DEF AnswerNo
  <2>4. CASE Connect(c)
    <3>1. c2s[c] = <<>> /\ Send(c, Plain("Initialize"))
      BY <2>4 DEF Connect, Send, CsInv, ClientInv, StartInv
    <3> QED
      BY <1>5, <3>1
  <2> QED
    BY <2>1, <2>2, <2>3, <2>4
<1>7. \A d \in Clients : Calm(d)
  BY <1>1, <1>3, <1>4, <1>6 DEF Calm
<1> QED
  BY <1>1, <1>7, AllCalm

(* The expression that leaves, under the key of the server.                *)
LEMMA ExpressionContent ==
  ASSUME CsInv, ContentsInv, NEW c \in Clients, NEW x, Sendable(x),
         SendExpression(c, x, AesKey), c2s[c] = <<>>, asked[c] = <<>>, s2c'[c] = <<>>,
         spc # "evaluate" \/ peer # <<c>>, aesKeyBytes'[c] = AesKey,
         UNCHANGED <<spc, peer, request, computed, result, file>>
  PROVE  ContentInv(c)'
<1> DEFINE m == Msg("Expression", TextPart(encrypt(AesKey, x)))
<1>1. /\ Send(c, m) /\ asked' = [asked EXCEPT ![c] = Append(asked[c], x)]
      /\ cpc' = [cpc EXCEPT ![c] = "read"]
  BY KeyIsKey DEF SendExpression
<1>2. asked'[c] = <<x>> /\ cpc'[c] = "read"
  BY <1>1, OneElement DEF CsInv, DomainInv, IsFunction
<1>3. asked'[c] # <<>> /\ asked'[c][1] = x
  BY <1>2, OneElement
<1>4. m.rest = TextPart(encrypt(AesKey, x)) /\ m.type = "Expression"
  BY DEF Msg
<1> HIDE DEF m
<1>5. c2s'[c][1] = m
  BY <1>1, SendsOne
<1>6. /\ result[c] = NoText /\ file[c] \in Files \union {NoFile}
      /\ peer \in {<<>>, <<c>>} => computed = {}
  BY DEF ContentsInv, ContentInv
<1> QED
  BY <1>2, <1>3, <1>4, <1>5, <1>6 DEF ContentInv

LEMMA InputContents ==
  ASSUME CsInv, ContentsInv, NEW c \in Clients, InputExpression(c)
  PROVE  ContentsInv'
<1>1. PICK x \in Lines : SendExpression(c, LineText(x), aesKeyBytes[c])
  BY DEF InputExpression
<1>2. aesKeyBytes[c] = AesKey /\ Sendable(LineText(x))
  BY SentTexts DEF InputExpression, ContentsInv, ContentInv
<1>3. c2s[c] = <<>> /\ s2c[c] = <<>> /\ ~Works(c) /\ asked[c] = <<>>
  BY DEF InputExpression, CsInv, ClientInv, TurnInv, AskedInv, Asks
<1>4. UNCHANGED <<spc, peer, request, computed, s2c, aesKeyBytes, result, file>>
  BY DEF InputExpression, ReadsLine, serverVars, evVars
<1>5. ContentInv(c)'
  BY <1>1, <1>2, <1>3, <1>4, ExpressionContent DEF Works
<1>6. \A d \in Clients \ {c} : Calm(d)
  BY <1>1, <1>3, <1>4, ExpressionSent DEF Calm
<1>7. IsFunction(aesKeyBytes') /\ IsFunction(result')
  BY <1>4 DEF ContentsInv, IsFunction
<1> QED
  BY <1>5, <1>6, <1>7, ContentMoves

(* The key on the line of the server becomes the key of the client.        *)
LEMMA SuccessContents ==
  ASSUME LinesRoundTrip, CsInv, ContentsInv, NEW c \in Clients, GetSuccess(c)
  PROVE  ContentsInv'
<1>1. Gets(c, "Success") /\ UNCHANGED <<result, file>>
  BY DEF GetSuccess, inputVars
<1>2. /\ s2c[c] # <<>> /\ s2c[c][1].type = "Success" /\ Head(s2c[c]) = s2c[c][1]
      /\ s2c'[c] = <<>> /\ (\A d \in Clients \ {c} : s2c'[d] = s2c[d])
      /\ c2s[c] = <<>> /\ ~Works(c) /\ UNCHANGED <<spc, peer, request, computed>>
  <2>1. Short(s2c[c])
    BY DEF CsInv, ClientInv, TurnInv
  <2> QED
    BY <1>1, <2>1, GetsOne, ShortTail DEF Gets, serverVars, evVars
<1>3. asked[c] = <<>>
  BY <1>2 DEF CsInv, ClientInv, AskedInv
<1>4. KeyOf(Head(s2c[c]).rest) = AesKey
  BY <1>2 DEF ContentsInv, ContentInv, LinesRoundTrip
<1>5. aesKeyBytes' = [aesKeyBytes EXCEPT ![c] = AesKey]
  BY <1>4 DEF GetSuccess
<1>6. /\ aesKeyBytes'[c] = AesKey /\ IsFunction(aesKeyBytes') /\ IsFunction(result')
      /\ \A d \in Clients \ {c} : aesKeyBytes'[d] = aesKeyBytes[d]
  BY <1>1, <1>5 DEF ContentsInv, IsFunction
<1>7. /\ file[c] \in Files \union {NoFile} /\ result[c] = NoText
      /\ peer \in {<<>>, <<c>>} => computed = {}
  BY <1>3 DEF ContentsInv, ContentInv
<1>8. CASE /\ cpc' = [cpc EXCEPT ![c] = "input"] /\ UNCHANGED <<c2s, asked>>
  <2>1. \A d \in Clients \ {c} : cpc'[d] = cpc[d]
    BY <1>8 DEF CsInv, DomainInv
  <2>2. ContentInv(c)'
    BY <1>1, <1>2, <1>3, <1>6, <1>7, <1>8 DEF ContentInv, Works
  <2>3. \A d \in Clients \ {c} : Calm(d)
    BY <1>1, <1>2, <1>6, <1>8, <2>1 DEF Calm
  <2> QED
    BY <1>6, <2>2, <2>3, ContentMoves
<1>9. ASSUME NEW x, Sendable(x), SendExpression(c, x, AesKey)
      PROVE  ContentsInv'
  <2>1. ContentInv(c)'
    BY <1>1, <1>2, <1>3, <1>6, <1>9, ExpressionContent DEF Works
  <2>2. \A d \in Clients \ {c} : Calm(d)
    BY <1>1, <1>2, <1>3, <1>6, <1>9, ExpressionSent DEF Calm
  <2> QED
    BY <1>6, <2>1, <2>2, ContentMoves
<1>10. CASE /\ file[c] # <<>>
            /\ SendExpression(c, IF file[c] = NoFile THEN <<"0">> ELSE readFile(file[c]), AesKey)
  <2>1. CASE file[c] = NoFile
    BY <1>9, <1>10, <2>1, SentTexts
  <2>2. CASE file[c] # NoFile
    <3>1. file[c] \in Files \ {<<>>}
      BY <1>7, <1>10, <2>2
    <3>2. Sendable(readFile(file[c]))
      BY <3>1, SentTexts
    <3>3. SendExpression(c, readFile(file[c]), AesKey)
      BY <1>10, <2>2
    <3> QED
      BY <1>9, <3>2, <3>3
  <2> QED
    BY <2>1, <2>2
<1> QED
  BY <1>4, <1>8, <1>10, KeyIsKey DEF GetSuccess

(* The text of a result is what the client sent, trimmed.                  *)
LEMMA ResultContents ==
  ASSUME LinesRoundTrip, CsInv, ContentsInv, NEW c \in Clients, GetResult(c)
  PROVE  ContentsInv'
<1>1. Gets(c, "Result") /\ UNCHANGED <<c2s, asked, aesKeyBytes, file>>
  BY DEF GetResult, inputVars
<1>2. /\ s2c[c] # <<>> /\ s2c[c][1].type = "Result" /\ Head(s2c[c]) = s2c[c][1]
      /\ s2c'[c] = <<>> /\ (\A d \in Clients \ {c} : s2c'[d] = s2c[d])
      /\ UNCHANGED <<spc, peer, request, computed>>
  <2>1. Short(s2c[c])
    BY DEF CsInv, ClientInv, TurnInv
  <2> QED
    BY <1>1, <2>1, GetsOne, ShortTail DEF Gets, serverVars, evVars
<1> DEFINE v == trim(asked[c][1])
<1>3. /\ asked[c] # <<>> /\ aesKeyBytes[c] = AesKey /\ v \in Texts
      /\ Head(s2c[c]).rest = TextPart(encrypt(AesKey, v))
  BY <1>2 DEF ContentsInv, ContentInv, Sendable
<1> HIDE DEF v
<1>4. ClientDecrypts(Head(s2c[c]).rest, aesKeyBytes[c]) = v /\ v # NullText
  BY <1>3, TextRead
<1>5. cpc' = [cpc EXCEPT ![c] = "answer"] /\ result' = [result EXCEPT ![c] = v]
  BY <1>4 DEF GetResult
<1>6. cpc'[c] = "answer" /\ \A d \in Clients \ {c} : cpc'[d] = cpc[d]
  BY <1>5 DEF CsInv, DomainInv
<1>7. /\ result'[c] = v /\ IsFunction(result') /\ IsFunction(aesKeyBytes')
      /\ \A d \in Clients \ {c} : result'[d] = result[d]
  BY <1>1, <1>5 DEF ContentsInv, IsFunction
<1>8. ContentInv(c)'
  <2>1. ContentInv(c)
    BY DEF ContentsInv
  <2> QED
    BY <1>1, <1>2, <1>3, <1>6, <1>7, <2>1 DEF ContentInv, v
<1>9. \A d \in Clients \ {c} : Calm(d)
  BY <1>1, <1>2, <1>6, <1>7 DEF Calm
<1> QED
  BY <1>7, <1>8, <1>9, ContentMoves

(* The server reads a line without content.                                *)
LEMMA PlainReceived ==
  ASSUME CsInv, ContentsInv, ReceiveInitialize \/ ReceiveChallenge \/ ReceiveExit
  PROVE  ContentsInv'
<1>1. PICK t : Receives(t)
  BY DEF ReceiveInitialize, ReceiveChallenge, ReceiveExit
<1>2. PICK q \in Clients : peer = <<q>>
  BY <1>1 DEF Receives, CsInv, ServerInv
<1>3. /\ spc = "read" /\ c2s'[q] = <<>> /\ s2c[q] = <<>>
      /\ \A d \in Clients \ {q} : c2s'[d] = c2s[d]
  BY <1>1, <1>2, ReceivesOne
<1>4. UNCHANGED <<cpc, asked, aesKeyBytes, result, file>>
  BY <1>1 DEF Receives, clientVars, inputVars
<1>5. spc' # "evaluate" /\ UNCHANGED <<peer, computed>>
  BY <1>1, <1>3 DEF ReceiveInitialize, ReceiveChallenge, ReceiveExit, Receives, evVars
<1>6. \A d \in Clients : s2c'[d] = s2c[d] \/ s2c'[d][1].type \notin {"Success", "Result"}
  <2>1. CASE ReceiveInitialize
    <3>1. Plain("Accepted").type \notin {"Success", "Result"}
      BY DEF Plain, Msg
    <3>2. Reply(Plain("Accepted"))
      BY <2>1 DEF ReceiveInitialize
    <3> QED
      BY <1>2, <1>3, <3>1, <3>2, RepliesOne
  <2>2. CASE ReceiveChallenge \/ ReceiveExit
    BY <2>2 DEF ReceiveChallenge, ReceiveExit
  <2> QED
    BY <2>1, <2>2
<1>7. \A d \in Clients : Calm(d)
  BY <1>3, <1>4, <1>5, <1>6 DEF Calm
<1> QED
  BY <1>4, <1>7, AllCalm

(* The expression is read, trimmed, encrypted once more, and decrypted by  *)
(* the enclave.                                                            *)
LEMMA RequestsOwn ==
  ASSUME LinesRoundTrip, CsInv, ContentsInv, ReceiveExpression, NEW q \in Clients, peer = <<q>>
  PROVE  /\ asked[q] # <<>> /\ trim(asked[q][1]) \in Texts
         /\ c2s[q] # <<>> /\ c2s[q][1].type = "Expression"
         /\ spc' = "evaluate" /\ Request(trim(asked[q][1]))
<1>1. Head(c2s[peer[1]]) = c2s[q][1] /\ c2s[q] # <<>> /\ c2s[q][1].type = "Expression"
  <2>1. Short(c2s[q]) /\ peer[1] = q
    BY OneElement DEF CsInv, ClientInv, TurnInv
  <2> QED
    BY <2>1, ReceivesOne, ShortTail DEF ReceiveExpression
<1> DEFINE x == asked[q][1]
<1>2. /\ asked[q] # <<>> /\ x \in Texts /\ trim(x) \in Texts
      /\ c2s[q][1].rest = TextPart(encrypt(AesKey, x))
  BY <1>1 DEF ContentsInv, ContentInv, Sendable
<1> HIDE DEF x
<1>3. ServerDecrypts(Head(c2s[peer[1]]).rest) = x /\ x # NullText
  BY <1>1, <1>2, TextRead
<1>4. spc' = "evaluate" /\ Evaluate_ValueInput(trim(x))
  BY <1>3 DEF ReceiveExpression
<1>5. decrypt(AesKey, SgxEncrypts(trim(x))) = trim(x)
  BY <1>2, DecryptsOwn, KeyIsKey DEF SgxEncrypts, ValidKey
<1> QED
  BY <1>1, <1>2, <1>4, <1>5 DEF Evaluate_ValueInput, x

(* What the server requests is what its client has asked for, and no       *)
(* enclave of the process has computed anything yet.                       *)
LEMMA ExpressionReceived ==
  ASSUME LinesRoundTrip, CsInv, ContentsInv, ReceiveExpression
  PROVE  ContentsInv'
<1>1. Receives("Expression") /\ UNCHANGED s2c
  BY DEF ReceiveExpression
<1>2. PICK q \in Clients : peer = <<q>>
  BY <1>1 DEF Receives, CsInv, ServerInv
<1>3. /\ c2s'[q] = <<>> /\ (\A d \in Clients \ {q} : c2s'[d] = c2s[d])
      /\ UNCHANGED <<peer, cpc, asked, aesKeyBytes, result, file>>
  BY <1>1, <1>2, ReceivesOne DEF Receives, clientVars, inputVars
<1>4. /\ asked[q] # <<>> /\ c2s[q] # <<>> /\ c2s[q][1].type = "Expression"
      /\ spc' = "evaluate" /\ Request(trim(asked[q][1]))
  BY <1>2, RequestsOwn
<1>5. ContentInv(q)
  BY DEF ContentsInv
<1>6. request' = {trim(asked[q][1])} /\ computed' = {}
  BY <1>2, <1>4, <1>5 DEF ContentInv, Request
<1>7. ContentInv(q)'
  BY <1>1, <1>3, <1>4, <1>5, <1>6 DEF ContentInv
<1>8. \A d \in Clients \ {q} : Calm(d)
  <2>1. \A d \in Clients \ {q} : peer' # <<d>>
    BY <1>2, <1>3, OneElement
  <2> QED
    BY <1>1, <1>3, <1>6, <2>1 DEF Calm
<1>9. IsFunction(aesKeyBytes') /\ IsFunction(result')
  BY <1>3 DEF ContentsInv, IsFunction
<1> QED
  BY <1>7, <1>8, <1>9, ContentMoves

(* The server answers its client with line m.                              *)
LEMMA ReplyContents ==
  ASSUME CsInv, ContentsInv, NEW q \in Clients, Works(q), NEW m, Reply(m),
         spc' # "evaluate", UNCHANGED <<peer, computed, c2s, cpc>>,
         UNCHANGED <<asked, aesKeyBytes, result, file>>,
         m.type = "Success" => m.rest = KeyPart(AesKey),
         m.type = "Result" =>
           asked[q] # <<>> /\ m.rest = TextPart(encrypt(AesKey, trim(asked[q][1])))
  PROVE  ContentsInv'
<1>1. s2c[q] = <<>> /\ peer = <<q>>
  BY DEF Works, CsInv, ClientInv, TurnInv
<1>2. s2c'[q][1] = m /\ \A d \in Clients \ {q} : s2c'[d] = s2c[d]
  BY <1>1, RepliesOne
<1>3. ContentInv(q)'
  <2>1. ContentInv(q)
    BY DEF ContentsInv
  <2> QED
    BY <1>2, <2>1 DEF ContentInv
<1>4. \A d \in Clients \ {q} : Calm(d)
  BY <1>2 DEF Calm
<1>5. IsFunction(aesKeyBytes') /\ IsFunction(result')
  BY DEF ContentsInv, IsFunction
<1> QED
  BY <1>3, <1>4, <1>5, ContentMoves

LEMMA AnswerContents ==
  ASSUME CsInv, ContentsInv, AttestationSucceeds \/ AttestationFails \/ Evaluated
  PROVE  ContentsInv'
<1>1. /\ spc \in {"attest", "evaluate"} /\ spc' # "evaluate"
      /\ UNCHANGED <<peer, computed, c2s, cpc>>
      /\ UNCHANGED <<asked, aesKeyBytes, result, file>>
  BY DEF AttestationSucceeds, AttestationFails, Evaluated, Answer, clientVars, inputVars, evVars
<1>2. PICK q \in Clients : peer = <<q>>
  BY <1>1 DEF CsInv, ServerInv
<1>3. Works(q)
  BY <1>1, <1>2 DEF Works
<1>4. CASE AttestationSucceeds
  <2> DEFINE m == Msg("Success", KeyPart(AesKey))
  <2>1. m.rest = KeyPart(AesKey) /\ m.type # "Result" /\ Reply(m)
    BY <1>4 DEF Msg, AttestationSucceeds
  <2> HIDE DEF m
  <2> QED
    BY <1>1, <1>3, <2>1, ReplyContents
<1>5. CASE AttestationFails
  <2> DEFINE m == Plain("Failed")
  <2>1. m.type \notin {"Success", "Result"} /\ Reply(m)
    BY <1>5 DEF Msg, Plain, AttestationFails
  <2> HIDE DEF m
  <2> QED
    BY <1>1, <1>3, <2>1, ReplyContents
<1>6. CASE Evaluated
  <2> DEFINE v == trim(asked[q][1])
  <2>1. asked[q] # <<>> /\ v \in Texts /\ request = {v} /\ computed \subseteq {v}
    BY <1>2, <1>6 DEF Evaluated, ContentsInv, ContentInv, Sendable
  <2> HIDE DEF v
  <2>2. \A a \in answer' : a[2] = v
    <3>1. Answers \subseteq {v}
      BY <2>1 DEF Answers
    <3>2. PICK y \in Answers : answer' = request \X {y}
      BY <1>6 DEF Evaluated, Answer
    <3> QED
      BY <3>1, <3>2
  <2>3. PICK a \in answer' : Reply(ResultLine(a[2]))
    BY <1>6 DEF Evaluated
  <2> DEFINE m == ResultLine(v)
  <2>4. m.rest = TextPart(encrypt(AesKey, v)) /\ m.type # "Success" /\ Reply(m)
    BY <2>2, <2>3 DEF ResultLine, ServerEncrypts, Msg
  <2> HIDE DEF m
  <2> QED
    BY <1>1, <1>3, <2>1, <2>4, ReplyContents DEF v
<1> QED
  BY <1>4, <1>5, <1>6
----------------------------------------------------------------------------
LEMMA ContentsNextInv ==
  ASSUME LinesRoundTrip, CsInv, ContentsInv, [CsNext]_csVars
  PROVE  ContentsInv'
<1>1. CASE Listen \/ UNCHANGED csVars
  BY <1>1, SilentServer
<1>2. CASE ServerNext
  <2>1. CASE ReceiveInitialize \/ ReceiveChallenge \/ ReceiveExit
    BY <2>1, PlainReceived
  <2>2. CASE ReceiveExpression
    BY <2>2, ExpressionReceived
  <2>3. CASE AttestationSucceeds \/ AttestationFails \/ Evaluated
    BY <2>3, AnswerContents
  <2>4. CASE \/ AcceptConnection \/ AttestationRuns \/ AttestationKillsServer
             \/ EvaluationKillsServer \/ ClientLost
    BY <2>4, SilentServer
  <2>5. CASE EvaluationRuns
    BY <2>5, EvaluationRunsContents
  <2> QED
    BY <1>2, <2>1, <2>2, <2>3, <2>4, <2>5 DEF ServerNext
<1>3. ASSUME NEW c \in Clients,
             ClientNext(c) \/ Connect(c) \/ ConnectionRefused(c) \/ Type(c) \/ EndInput(c)
      PROVE  ContentsInv'
  <2>1. CASE GetAccepted(c) \/ GetFailed(c) \/ AnswerNo(c) \/ Connect(c)
    BY <2>1, PlainClient
  <2>2. CASE GetSuccess(c)
    BY <2>2, SuccessContents
  <2>3. CASE GetResult(c)
    BY <2>3, ResultContents
  <2>4. CASE InputExpression(c)
    BY <2>4, InputContents
  <2>5. CASE \/ ServerLost(c) \/ InputEnded(c) \/ AnswerYes(c) \/ AnswerEnded(c)
             \/ ConnectionRefused(c) \/ Type(c) \/ EndInput(c)
    BY <2>5, SilentClient
  <2> QED
    BY <1>3, <2>1, <2>2, <2>3, <2>4, <2>5 DEF ClientNext
<1> QED
  BY <1>1, <1>2, <1>3 DEF CsNext

(* Each line says what its writer meant, as long as the session lasts.     *)
THEOREM ContentsInvariance == CsSpec => []ContentsInv
<1>1. CsInit => ContentsInv
  BY ContentsInitInv
<1>2. CsInv /\ ContentsInv /\ [CsNext]_csVars => ContentsInv'
  BY CsLinesRoundTrip, ContentsNextInv
<1> QED
  BY <1>1, <1>2, CsInvariance, PTL DEF CsSpec

(***************************************************************************)
(* The server of ClientServer uses both abstract parts as they allow: each *)
(* of its steps is a step of Attestation and one of Evaluation, or leaves  *)
(* it alone, and what it asks an enclave for is an expression.             *)
(***************************************************************************)
LEMMA PromiseSteps ==
  ASSUME LinesRoundTrip, Texts \subseteq Expressions, CsInv, ContentsInv, [CsNext]_csVars
  PROVE  [AttNext]_attVars /\ [EvNext]_evVars
<1>1. CASE UNCHANGED csVars \/ Listen
  BY <1>1 DEF csVars, Listen
<1>2. CASE ServerNext
  <2>1. CASE \/ AcceptConnection \/ ReceiveInitialize \/ ReceiveExit \/ ClientLost
    BY <2>1 DEF AcceptConnection, ReceiveInitialize, ReceiveExit, ClientLost
  <2>2. CASE \/ ReceiveChallenge \/ AttestationRuns \/ AttestationSucceeds
             \/ AttestationFails \/ AttestationKillsServer
    BY <2>2 DEF ReceiveChallenge, AttestationRuns, AttestationSucceeds, AttestationFails,
                AttestationKillsServer, AttNext
  <2>3. CASE ReceiveExpression
    <3>1. PICK q \in Clients : peer = <<q>>
      BY <2>3 DEF ReceiveExpression, Receives, CsInv, ServerInv
    <3>2. \E x \in Expressions : Request(x)
      BY <2>3, <3>1, RequestsOwn
    <3> QED
      BY <2>3, <3>2 DEF ReceiveExpression, EvNext
  <2>4. CASE EvaluationRuns \/ Evaluated \/ EvaluationKillsServer
    BY <2>4 DEF EvaluationRuns, Evaluated, EvaluationKillsServer, EvNext
  <2> QED
    BY <1>2, <2>1, <2>2, <2>3, <2>4 DEF ServerNext
<1>3. ASSUME NEW c \in Clients,
             ClientNext(c) \/ Connect(c) \/ ConnectionRefused(c) \/ Type(c) \/ EndInput(c)
      PROVE  UNCHANGED <<attVars, evVars>>
  BY <1>3 DEF ClientNext, Gets, GetAccepted, GetSuccess, GetFailed, GetResult, ServerLost,
              InputExpression, InputEnded, AnswerYes, AnswerNo, AnswerEnded, Connect,
              ConnectionRefused, Type, EndInput
<1> QED
  BY <1>1, <1>2, <1>3 DEF CsNext

(* Whatever is proved of Attestation and Evaluation, and of the modules    *)
(* that implement them, holds of the server in the session with clients.   *)
THEOREM CsUsesPromises ==
  Texts \subseteq Expressions => (CsSpec => AttSpec /\ EvSpec)
<1> SUFFICES ASSUME Texts \subseteq Expressions PROVE CsSpec => AttSpec /\ EvSpec
  OBVIOUS
<1>1. CsInit => AttInit /\ EvInit
  BY DEF CsInit
<1>2. CsInv /\ ContentsInv /\ [CsNext]_csVars => [AttNext]_attVars /\ [EvNext]_evVars
  BY CsLinesRoundTrip, PromiseSteps
<1> QED
  BY <1>1, <1>2, CsInvariance, ContentsInvariance, PTL DEF CsSpec, AttSpec, EvSpec

(***************************************************************************)
(* Every line of Client.java and Server.java is understood by its reader,  *)
(* whatever bytes its ciphertext consists of: for any number of clients,   *)
(* files, lines and bytes.                                                 *)
(***************************************************************************)
THEOREM CsLinesSurvive == CsSpec => []LinesSurvive
<1> USE CsLinesRoundTrip
<1>1. CsInv /\ ContentsInv => LinesSurvive
  <2> SUFFICES ASSUME CsInv, ContentsInv, NEW c \in Clients
               PROVE  /\ \A i \in 1 .. Len(c2s[c]) : c2s[c][i].type = "Expression" =>
                           /\ asked[c] # <<>>
                           /\ ServerDecrypts(c2s[c][i].rest) = asked[c][Len(asked[c])]
                      /\ \A i \in 1 .. Len(s2c[c]) :
                           /\ s2c[c][i].type = "Success" => KeyOf(s2c[c][i].rest) = AesKey
                           /\ s2c[c][i].type = "Result" =>
                                ClientDecrypts(s2c[c][i].rest, aesKeyBytes[c]) # NullText
    BY DEF LinesSurvive
  <2>1. ContentInv(c) /\ Short(c2s[c]) /\ Short(s2c[c]) /\ Short(asked[c])
    BY DEF ContentsInv, CsInv, ClientInv, TurnInv, AskedInv
  <2>2. /\ \A i \in 1 .. Len(c2s[c]) : c2s[c] # <<>> /\ i = 1
        /\ \A i \in 1 .. Len(s2c[c]) : s2c[c] # <<>> /\ i = 1
        /\ asked[c] # <<>> => Len(asked[c]) = 1
    <3>1. /\ Len(c2s[c]) = (IF c2s[c] = <<>> THEN 0 ELSE 1)
          /\ Len(s2c[c]) = (IF s2c[c] = <<>> THEN 0 ELSE 1)
          /\ Len(asked[c]) = (IF asked[c] = <<>> THEN 0 ELSE 1)
      BY <2>1, ShortLen
    <3> QED
      BY <3>1
  <2>3. ASSUME NEW i \in 1 .. Len(c2s[c]), c2s[c][i].type = "Expression"
        PROVE  asked[c] # <<>> /\ ServerDecrypts(c2s[c][i].rest) = asked[c][Len(asked[c])]
    <3> DEFINE x == asked[c][1]
    <3>1. asked[c] # <<>> /\ x \in Texts /\ c2s[c][i].rest = TextPart(encrypt(AesKey, x))
      BY <2>1, <2>2, <2>3 DEF ContentInv, Sendable
    <3> HIDE DEF x
    <3>2. ServerDecrypts(c2s[c][i].rest) = x
      BY <3>1, TextRead
    <3> QED
      BY <2>2, <3>1, <3>2 DEF x
  <2>4. ASSUME NEW i \in 1 .. Len(s2c[c]), s2c[c][i].type = "Success"
        PROVE  KeyOf(s2c[c][i].rest) = AesKey
    BY <2>1, <2>2, <2>4 DEF ContentInv, LinesRoundTrip
  <2>5. ASSUME NEW i \in 1 .. Len(s2c[c]), s2c[c][i].type = "Result"
        PROVE  ClientDecrypts(s2c[c][i].rest, aesKeyBytes[c]) # NullText
    <3> DEFINE v == trim(asked[c][1])
    <3>1. /\ aesKeyBytes[c] = AesKey /\ v \in Texts
          /\ s2c[c][i].rest = TextPart(encrypt(AesKey, v))
      BY <2>1, <2>2, <2>5 DEF ContentInv, Sendable
    <3> HIDE DEF v
    <3> QED
      BY <3>1, TextRead
  <2> QED
    BY <2>3, <2>4, <2>5
<1> QED
  BY <1>1, CsInvariance, ContentsInvariance, PTL

(* The result Client.java shows is that of the one expression it has sent, *)
(* trimmed, for any number of clients.                                     *)
THEOREM CsResultOfOwnExpression == CsSpec => []ResultOfOwnExpression
<1>1. CsInv /\ ContentsInv => ResultOfOwnExpression
  <2> SUFFICES ASSUME CsInv, ContentsInv, NEW c \in Clients, result[c] # NoText
               PROVE  Len(asked[c]) = 1 /\ result[c] = trim(asked[c][1])
    BY DEF ResultOfOwnExpression
  <2>1. asked[c] # <<>> /\ result[c] = trim(asked[c][1]) /\ Short(asked[c])
    BY DEF ContentsInv, ContentInv, CsInv, ClientInv, AskedInv
  <2> QED
    BY <2>1, ShortLen
<1> QED
  BY <1>1, CsInvariance, ContentsInvariance, PTL
=============================================================================
