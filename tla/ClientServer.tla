---------------------------- MODULE ClientServer ----------------------------
(***************************************************************************)
(* The session between Client.java and Server.java: lines of text over a   *)
(* TCP connection, which delivers them in order.  The server process       *)
(* accepts ONE connection in its life and serves it until "exit", the end  *)
(* of the connection or a failed attestation; other clients can connect    *)
(* (the listen queue takes them) and are never served.                     *)
(*                                                                         *)
(* The attestation behind "Challenge" is the abstract one: module          *)
(* RemoteAttestation implements it.  Module LineCodec is the encryption    *)
(* and the syntax of the lines.  The evaluation behind "Expression" is the *)
(* abstract one too: module EnclaveHost implements Evaluation.             *)
(***************************************************************************)
EXTENDS LineCodec, Attestation, Evaluation

CONSTANTS
  Clients,
  AesKey,     \* aesKeyBytes of Server.java, and of JavaSGX and its enclave
  Files,      \* contents Expression.txt may have, besides none
  Lines,      \* lines a user may type
  MaxTyped,   \* bound: lines typed ahead, per client
  MayEnd      \* TRUE when standard input may end

(* The key consists of the letters a to d: no byte of it is negative.      *)
ASSUME KeyAssumption == AesKey \in Keys /\ \A i \in 1 .. KeyLength : AesKey[i] > 0

LineText(l) == IF l = "" THEN <<>> ELSE <<l>>

(* Whatever a user may send, and its value, is a text.                     *)
ASSUME LinesAssumption ==
  \A x \in {readFile(f) : f \in Files \ {<<>>}} \union {LineText(l) : l \in Lines} \union {<<"0">>} :
    {x, trim(x)} \subseteq Texts

ASSUME BoundAssumption == MaxTyped \in Nat /\ MayEnd \in BOOLEAN

VARIABLES
  spc,        \* what the server does
  peer,       \* sequence of at most one: the client it serves
  backlog,    \* connections waiting to be accepted
  c2s, s2c,   \* lines under way in each direction, per client
  cpc,        \* what each client does
  hasKey,     \* Client.java's flag
  aesKeyBytes, \* and its key
  file,       \* content of its Expression.txt
  typed, eof, \* lines typed and not yet read, and whether the input has ended
  asked,      \* history: expressions sent
  result,     \* history: the expression whose result was shown
  repeat      \* history: the user answered "Y"

serverVars == <<spc, peer, backlog>>
inputVars == <<file, typed, eof>>
clientVars == <<cpc, hasKey, aesKeyBytes, asked, result, repeat>>
csVars == <<serverVars, c2s, s2c, clientVars, inputVars, attVars, evVars>>

NoText == <<"none">>

(* A line: its word, which decides who reads it how, and what follows.     *)
Msg(t, s) == [type |-> t, rest |-> s]
Plain(t) == Msg(t, <<>>)

ServerGone == spc \in {"closed", "dead"}
ClientGone(c) == cpc[c] \in {"done", "failed"}

NoFile == <<"missing">>

ServerStates == {"off", "accept", "read", "attest", "evaluate", "closed", "dead"}
ClientStates == {"start", "read", "input", "answer", "done", "failed"}

CsInit ==
  /\ AttInit /\ EvInit
  /\ spc = "off" /\ peer = <<>> /\ backlog = <<>>
  /\ c2s = [c \in Clients |-> <<>>] /\ s2c = [c \in Clients |-> <<>>]
  /\ cpc = [c \in Clients |-> "start"]
  /\ hasKey = [c \in Clients |-> FALSE]
  /\ aesKeyBytes = [c \in Clients |-> NullBytes]
  /\ file \in [Clients -> Files \union {NoFile}]
  /\ typed = [c \in Clients |-> <<>>] /\ eof = [c \in Clients |-> FALSE]
  /\ asked = [c \in Clients |-> <<>>]
  /\ result = [c \in Clients |-> NoText]
  /\ repeat = [c \in Clients |-> FALSE]

----------------------------------------------------------------------------
(* The server binds its port and accepts the first connection.             *)
Listen ==
  /\ spc = "off"
  /\ spc' = "accept"
  /\ UNCHANGED <<peer, backlog, c2s, s2c, clientVars, inputVars, attVars, evVars>>

AcceptConnection ==
  /\ spc = "accept" /\ backlog # <<>>
  /\ spc' = "read"
  /\ peer' = <<Head(backlog)>>
  /\ backlog' = Tail(backlog)
  /\ UNCHANGED <<c2s, s2c, clientVars, inputVars, attVars, evVars>>

(* The server reads the next line, of type t, from its client.             *)
Receives(t) ==
  /\ spc = "read"
  /\ c2s[peer[1]] # <<>> /\ Head(c2s[peer[1]]).type = t
  /\ c2s' = [c2s EXCEPT ![peer[1]] = Tail(@)]
  /\ UNCHANGED <<peer, backlog, clientVars, inputVars>>

(* A line to a client that is gone is lost; PrintWriter reports no error.  *)
Reply(m) == s2c' = [s2c EXCEPT ![peer[1]] = Append(@, m)]

ReceiveInitialize ==
  /\ Receives("Initialize")
  /\ Reply(Plain("Accepted"))
  /\ UNCHANGED <<spc, attVars, evVars>>

ReceiveChallenge ==
  /\ Receives("Challenge")
  /\ spc' = "attest"
  /\ Challenge
  /\ UNCHANGED <<s2c, evVars>>

(* call_RA_SIM runs, and returns "Success" or "Failed" unless the process  *)
(* dies in it.  After "Failed" the server closes everything and ends.      *)
AttestationRuns ==
  /\ spc = "attest"
  /\ Accept
  /\ UNCHANGED <<serverVars, c2s, s2c, clientVars, inputVars, evVars>>

AttestationSucceeds ==
  /\ spc = "attest"
  /\ AnswerSuccess
  /\ spc' = "read"
  /\ Reply(Msg("Success", KeyPart(AesKey)))
  /\ UNCHANGED <<peer, backlog, c2s, clientVars, inputVars, evVars>>

AttestationFails ==
  /\ spc = "attest"
  /\ AnswerFailed
  /\ spc' = "closed"
  /\ Reply(Plain("Failed"))
  /\ UNCHANGED <<peer, backlog, c2s, clientVars, inputVars, evVars>>

AttestationKillsServer ==
  /\ spc = "attest"
  /\ Die
  /\ spc' = "dead"
  /\ UNCHANGED <<peer, backlog, c2s, s2c, clientVars, inputVars, evVars>>

(***************************************************************************)
(* Any expression is evaluated, attested or not: decrypted, trimmed and    *)
(* encrypted again for the enclave.  An exception on the way leaves main.  *)
(***************************************************************************)
ServerDecrypts(s) == decrypt(AesKey, BytesOf(s))

(* JavaSGX.encrypt; the enclave decrypts with the same key.                *)
SgxEncrypts(x) == encrypt(AesKey, x)
Evaluate_ValueInput(x) == Request(decrypt(AesKey, SgxEncrypts(x)))

(* Mutant: the text is not trimmed.                                        *)
ReceiveExpression_NoTrim ==
  /\ Receives("Expression")
  /\ \E res \in {ServerDecrypts(Head(c2s[peer[1]]).rest)} :
         IF res = NullText
         THEN spc' = "dead" /\ UNCHANGED evVars
         ELSE spc' = "evaluate" /\ Evaluate_ValueInput(res)
  /\ UNCHANGED <<s2c, attVars>>

ReceiveExpression ==
  /\ Receives("Expression")
  /\ \E res \in {ServerDecrypts(Head(c2s[peer[1]]).rest)} :
         IF res = NullText
         THEN spc' = "dead" /\ UNCHANGED evVars
         ELSE spc' = "evaluate" /\ Evaluate_ValueInput(trim(res))
  /\ UNCHANGED <<s2c, attVars>>

(* An enclave evaluates the expression, unless the call is refused.        *)
EvaluationRuns ==
  /\ spc = "evaluate"
  /\ Compute
  /\ UNCHANGED <<serverVars, c2s, s2c, clientVars, inputVars, attVars>>

(* EncryptionUtil.encrypt of the result.                                   *)
ServerEncrypts(x) == encrypt(AesKey, x)

(* Mutant: a result is written behind "Result-", as a key is.              *)
ResultLine_NoBlank(x) == Msg("Result", KeyPart(ServerEncrypts(x)))

(* A result is named by the expression it is the value of.                 *)
ResultLine(x) == Msg("Result", TextPart(ServerEncrypts(x)))

(* Mutant: a result is computed and not sent.                              *)
Evaluated_NoReply ==
  /\ spc = "evaluate"
  /\ Answer
  /\ spc' = "read"
  /\ UNCHANGED <<peer, backlog, c2s, s2c, clientVars, inputVars, attVars>>

(* Evaluate_ValueInput returns.                                            *)
Evaluated ==
  /\ spc = "evaluate"
  /\ Answer
  /\ spc' = "read"
  /\ \E a \in answer' : Reply(ResultLine(a[2]))
  /\ UNCHANGED <<peer, backlog, c2s, clientVars, inputVars, attVars>>

(* The native evaluator crashes, or a Java exception leaves main.          *)
EvaluationKillsServer ==
  /\ spc = "evaluate"
  /\ Crash
  /\ spc' = "dead"
  /\ UNCHANGED <<peer, backlog, c2s, s2c, clientVars, inputVars, attVars>>

ReceiveExit ==
  /\ Receives("exit")
  /\ spc' = "closed"
  /\ UNCHANGED <<s2c, attVars, evVars>>

(* Mutant: null is not taken for the end of the connection.                *)
ClientLost_Ignored ==
  /\ spc = "read"
  /\ c2s[peer[1]] = <<>> /\ ClientGone(peer[1])
  /\ UNCHANGED csVars

(* readLine returns null, or throws on a reset connection.                 *)
ClientLost ==
  /\ spc = "read"
  /\ c2s[peer[1]] = <<>> /\ ClientGone(peer[1])
  /\ spc' \in {"closed", "dead"}
  /\ UNCHANGED <<peer, backlog, c2s, s2c, clientVars, inputVars, attVars, evVars>>

----------------------------------------------------------------------------
(* new Socket() succeeds while the server listens, and throws otherwise.   *)
Connect(c) ==
  /\ cpc[c] = "start"
  /\ spc # "off" /\ ~ServerGone
  /\ cpc' = [cpc EXCEPT ![c] = "read"]
  /\ backlog' = Append(backlog, c)
  /\ c2s' = [c2s EXCEPT ![c] = Append(@, Plain("Initialize"))]
  /\ UNCHANGED <<spc, peer, s2c, hasKey, aesKeyBytes, asked, result, repeat, inputVars, attVars, evVars>>

ConnectionRefused(c) ==
  /\ cpc[c] = "start"
  /\ spc = "off" \/ ServerGone
  /\ cpc' = [cpc EXCEPT ![c] = "failed"]
  /\ UNCHANGED <<serverVars, c2s, s2c, hasKey, aesKeyBytes, asked, result, repeat, inputVars, attVars, evVars>>

(* The client reads the next line, of type t, from the server.             *)
Gets(c, t) ==
  /\ cpc[c] = "read"
  /\ s2c[c] # <<>> /\ Head(s2c[c]).type = t
  /\ s2c' = [s2c EXCEPT ![c] = Tail(@)]
  /\ UNCHANGED <<serverVars, attVars, evVars>>

Send(c, m) == c2s' = [c2s EXCEPT ![c] = Append(@, m)]

(* With key k; the constructor of EncryptionUtil throws when it is none.   *)
SendExpression(c, x, k) ==
  IF ValidKey(k)
  THEN /\ Send(c, Msg("Expression", TextPart(encrypt(k, x))))
       /\ asked' = [asked EXCEPT ![c] = Append(@, x)]
       /\ hasKey' = [hasKey EXCEPT ![c] = FALSE]
       /\ cpc' = [cpc EXCEPT ![c] = "read"]
  ELSE cpc' = [cpc EXCEPT ![c] = "failed"] /\ UNCHANGED <<c2s, asked, hasKey>>

(* Mutant: the expression is sent along with the challenge.                *)
GetAccepted_NoWait(c) ==
  /\ Gets(c, "Accepted")
  /\ c2s' = [c2s EXCEPT ![c] = 
       @ \o <<Plain("Challenge"), Msg("Expression", TextPart(encrypt(AesKey, <<"0">>)))>>]
  /\ asked' = [asked EXCEPT ![c] = Append(@, <<"0">>)]
  /\ UNCHANGED <<cpc, hasKey, aesKeyBytes, result, repeat, inputVars>>

GetAccepted(c) ==
  /\ Gets(c, "Accepted")
  /\ Send(c, Plain("Challenge"))
  /\ UNCHANGED <<clientVars, inputVars>>

(***************************************************************************)
(* With the key, the expression comes from Expression.txt; when there is   *)
(* no such file it is "0", and when it is empty the user is asked.         *)
(***************************************************************************)
GetSuccess(c) ==
  /\ Gets(c, "Success")
  /\ \E key \in {KeyOf(Head(s2c[c]).rest)} :
         /\ aesKeyBytes' = [aesKeyBytes EXCEPT ![c] = key]
         /\ \/ /\ file[c] = <<>> /\ key # NullBytes
               /\ cpc' = [cpc EXCEPT ![c] = "input"]
               /\ hasKey' = [hasKey EXCEPT ![c] = TRUE]
               /\ UNCHANGED <<c2s, asked>>
            \/ /\ file[c] # <<>> \/ key = NullBytes
               /\ SendExpression(c, IF file[c] = NoFile THEN <<"0">> ELSE readFile(file[c]), key)
  /\ UNCHANGED <<result, repeat, inputVars>>

GetFailed(c) ==
  /\ Gets(c, "Failed")
  /\ cpc' = [cpc EXCEPT ![c] = "done"]
  /\ UNCHANGED <<c2s, hasKey, aesKeyBytes, asked, result, repeat, inputVars>>

(* The text of a Result line under key k: an exception when there is none.*)
ClientDecrypts(s, k) == IF ValidKey(k) THEN decrypt(k, BytesOf(s)) ELSE NullText

GetResult(c) ==
  /\ Gets(c, "Result")
  /\ \E res \in {ClientDecrypts(Head(s2c[c]).rest, aesKeyBytes[c])} :
         IF res = NullText
         THEN cpc' = [cpc EXCEPT ![c] = "failed"] /\ UNCHANGED result
         ELSE cpc' = [cpc EXCEPT ![c] = "answer"] /\ result' = [result EXCEPT ![c] = res]
  /\ UNCHANGED <<c2s, hasKey, aesKeyBytes, asked, repeat, inputVars>>

(* The end of the connection: null, or an exception caught in main.        *)
ServerLost(c) ==
  /\ cpc[c] = "read" /\ s2c[c] = <<>> /\ ServerGone
  /\ \E s \in {"done", "failed"} : cpc' = [cpc EXCEPT ![c] = s]
  /\ UNCHANGED <<serverVars, c2s, s2c, hasKey, aesKeyBytes, asked, result, repeat, inputVars, attVars, evVars>>

----------------------------------------------------------------------------
(***************************************************************************)
(* Both prompts open a BufferedReader of their own on the standard input:  *)
(* it takes one line, and with it any number of lines typed ahead.         *)
(***************************************************************************)
ReadsLine(c, line) ==
  /\ typed[c] # <<>> /\ line = Head(typed[c])
  /\ \E n \in 1 .. Len(typed[c]) :
       typed' = [typed EXCEPT ![c] = SubSeq(@, n + 1, Len(@))]
  /\ UNCHANGED <<file, eof>>

ReadsEnd(c) ==
  /\ typed[c] = <<>> /\ eof[c]
  /\ UNCHANGED inputVars

InputExpression(c) ==
  /\ cpc[c] = "input"
  /\ \E x \in Lines :
       ReadsLine(c, x) /\ SendExpression(c, LineText(x), aesKeyBytes[c])
  /\ UNCHANGED <<serverVars, s2c, aesKeyBytes, result, repeat, attVars, evVars>>

(* No line: nothing is sent, and the client reads the connection again.    *)
InputEnded(c) ==
  /\ cpc[c] = "input"
  /\ ReadsEnd(c)
  /\ cpc' = [cpc EXCEPT ![c] = "read"]
  /\ UNCHANGED <<serverVars, c2s, s2c, hasKey, aesKeyBytes, asked, result, repeat, attVars, evVars>>

(* "Y": continue, past the code that sends an expression.                  *)
AnswerYes(c) ==
  /\ cpc[c] = "answer"
  /\ ReadsLine(c, "Y")
  /\ cpc' = [cpc EXCEPT ![c] = "read"]
  /\ repeat' = [repeat EXCEPT ![c] = TRUE]
  /\ UNCHANGED <<serverVars, c2s, s2c, hasKey, aesKeyBytes, asked, result, attVars, evVars>>

AnswerNo(c) ==
  /\ cpc[c] = "answer"
  /\ \E x \in Lines \ {"Y"} : ReadsLine(c, x)
  /\ Send(c, Plain("exit"))
  /\ cpc' = [cpc EXCEPT ![c] = "done"]
  /\ UNCHANGED <<serverVars, s2c, hasKey, aesKeyBytes, asked, result, repeat, attVars, evVars>>

(* inp is null: NullPointerException, and no "exit" is sent.               *)
AnswerEnded(c) ==
  /\ cpc[c] = "answer"
  /\ ReadsEnd(c)
  /\ cpc' = [cpc EXCEPT ![c] = "failed"]
  /\ UNCHANGED <<serverVars, c2s, s2c, hasKey, aesKeyBytes, asked, result, repeat, attVars, evVars>>

(* The user, who may type ahead.                                           *)
Type(c) ==
  /\ ~eof[c] /\ Len(typed[c]) < MaxTyped
  /\ \E x \in Lines : typed' = [typed EXCEPT ![c] = Append(@, x)]
  /\ UNCHANGED <<serverVars, c2s, s2c, clientVars, file, eof, attVars, evVars>>

EndInput(c) ==
  /\ MayEnd /\ ~eof[c]
  /\ eof' = [eof EXCEPT ![c] = TRUE]
  /\ UNCHANGED <<serverVars, c2s, s2c, clientVars, file, typed, attVars, evVars>>

----------------------------------------------------------------------------
ServerNext ==
  \/ AcceptConnection \/ ReceiveInitialize \/ ReceiveChallenge
  \/ AttestationRuns \/ AttestationSucceeds \/ AttestationFails
  \/ AttestationKillsServer
  \/ ReceiveExpression
  \/ EvaluationRuns \/ Evaluated \/ EvaluationKillsServer
  \/ ReceiveExit \/ ClientLost

ClientNext(c) ==
  \/ GetAccepted(c) \/ GetSuccess(c) \/ GetFailed(c) \/ GetResult(c)
  \/ ServerLost(c)
  \/ InputExpression(c) \/ InputEnded(c)
  \/ AnswerYes(c) \/ AnswerNo(c) \/ AnswerEnded(c)

CsNext ==
  \/ Listen \/ ServerNext
  \/ \E c \in Clients :
       ClientNext(c) \/ Connect(c) \/ ConnectionRefused(c) \/ Type(c) \/ EndInput(c)

CsSpec == CsInit /\ [][CsNext]_csVars

(***************************************************************************)
(* Both programs keep running, and a user who is asked types something.    *)
(* Nobody has to start a program.                                          *)
(***************************************************************************)
AsksUser(c) == cpc[c] \in {"input", "answer"} /\ typed[c] = <<>>

CsFairSpec ==
  /\ CsSpec
  /\ WF_csVars(ServerNext)
  /\ \A c \in Clients :
       WF_csVars(ClientNext(c)) /\ WF_csVars(AsksUser(c) /\ Type(c))

----------------------------------------------------------------------------
(***************************************************************************)
(* The two programs take turns: between a client and the server at most    *)
(* one of these holds: a line is under way, the server works on a request  *)
(* of that client, the client waits for its user.  The only exception is   *)
(* a line the server left unread when it died.                             *)
(***************************************************************************)
Works(c) == spc \in {"attest", "evaluate"} /\ peer = <<c>>

Turns(c) ==
  Len(c2s[c]) + Len(s2c[c]) + (IF Works(c) THEN 1 ELSE 0)
    + (IF cpc[c] \in {"input", "answer"} THEN 1 ELSE 0)

OneTurn == \A c \in Clients : Turns(c) <= 1

(***************************************************************************)
(* The server evaluates whatever it is sent, so it is up to the client: no *)
(* expression leaves it before the provider has accepted the evidence of   *)
(* the challenge this very client made, and each client sends at most one. *)
(***************************************************************************)
ExpressionOnlyAttested ==
  \A c \in Clients :
    /\ asked[c] # <<>> => accepted /\ verdict = "Success" /\ peer = <<c>>
    /\ Len(asked[c]) <= 1

(***************************************************************************)
(* The result shown to a user is that of the expression this user's client *)
(* has sent.                                                               *)
(***************************************************************************)
ResultOfOwnExpression ==
  \A c \in Clients :
    result[c] # NoText => Len(asked[c]) = 1 /\ result[c] = trim(asked[c][1])

(***************************************************************************)
(* Every line under way is understood by the program that will read it,    *)
(* whatever bytes its ciphertext consists of: the key line gives the key   *)
(* of the server, an expression what its client has sent, trimmed and      *)
(* encrypted once more, and a result opens with the key the client holds.  *)
(***************************************************************************)
LinesSurvive ==
  \A c \in Clients :
    /\ \A i \in 1 .. Len(c2s[c]) : c2s[c][i].type = "Expression" =>
         asked[c] # <<>> /\ ServerDecrypts(c2s[c][i].rest) = asked[c][Len(asked[c])]
    /\ \A i \in 1 .. Len(s2c[c]) :
         /\ s2c[c][i].type = "Success" => KeyOf(s2c[c][i].rest) = AesKey
         /\ s2c[c][i].type = "Result" =>
              ClientDecrypts(s2c[c][i].rest, aesKeyBytes[c]) # NullText

(***************************************************************************)
(* What LinesSurvive and ResultOfOwnExpression owe to LineCodec: the bytes *)
(* of a line, and the key of a key line, are read as they were written.    *)
(***************************************************************************)
LinesRoundTrip ==
  /\ KeyOf(KeyPart(AesKey)) = AesKey
  /\ \A p \in Keys \X Texts : BytesOf(TextPart(GCM[p])) = GCM[p]

(***************************************************************************)
(* Server and client wait for each other only when the user has answered   *)
(* "Y", or has ended the input when asked for an expression: no line is    *)
(* lost or left unanswered otherwise.                                      *)
(***************************************************************************)
MutualWait(c) ==
  /\ spc = "read" /\ peer = <<c>> /\ cpc[c] = "read"
  /\ c2s[c] = <<>> /\ s2c[c] = <<>>

WaitOnlyByUser ==
  \A c \in Clients :
    MutualWait(c) => repeat[c] \/ (eof[c] /\ file[c] = <<>> /\ asked[c] = <<>>)

(***************************************************************************)
(* Every client that has connected comes to its end, served or not, and so *)
(* does the server, unless the one that is served waits with it for ever   *)
(* (WaitOnlyByUser says by whose doing).                                   *)
(***************************************************************************)
SessionsEnd ==
  \A c \in Clients :
    (cpc[c] = "read") ~>
      ((ClientGone(c) /\ ServerGone) \/ \E d \in Clients : MutualWait(d))

(***************************************************************************)
(* The prompt "Repeat Process (Y/N) ?": after "Y" another expression is    *)
(* sent, unless the server is gone by then.                                *)
(***************************************************************************)
RepeatHonoured ==
  \A c \in Clients : repeat[c] ~> (Len(asked[c]) > 1 \/ ServerGone)
=============================================================================
