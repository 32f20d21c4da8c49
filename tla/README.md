# A TLA+ model of the SGX client/server application

The repository (`src/DSP_LAB_2016_17`) is a student project around Intel SGX: a Java client sends an encrypted
arithmetic expression to a Java server, after the server has proved by remote attestation that it runs a genuine
enclave, and the server evaluates the expression inside a second enclave. This directory models the final program,
`Final_Project/JavaSGX_Client_Server`, in TLA+: TLC checks the models on small instances, and TLAPS proves some of the
properties for every value of the constants.

## 1. The system

    client process                       server process (one JVM, one thread)
    +-------------+   lines over TCP   +-------------------------------------------------+
    | Client.java | <----------------> | Server.java                                     |
    +-------------+                    |   "Challenge":  Java_Main.call_RA_SIM           |
                                       |      isv_app.cpp (7 JNI functions, globals)     |
                                       |        |  ECALLs, SDK       |  requests         |
                                       |   isv_enclave.cpp     service_provider.cpp      |
                                       |                         ias_ra.cpp, ecp.cpp     |
                                       |   "Expression": JavaSGX.Evaluate_ValueInput     |
                                       |      sample.cpp -> Arith_Core.cpp (2nd enclave) |
                                       +-------------------------------------------------+
    other programs on the same machine: isv_app.cpp's main; sample.cpp's main (a benchmark),
    JavaSGX.Evaluate_Value (a console program), showResult; Old_Parser's Test_Main

| component | state | operations | what makes it correct |
|---|---|---|---|
| service provider (`service_provider.cpp`, `network_ra.cpp`, `ias_ra.cpp`) | registration, ONE session `g_sp_db` (g_a, g_b, four keys) | `sp_ra_proc_msg0_req`, `..msg1_req`, `..msg3_req`, the simulated attestation service | a result is issued only for one coherent, current exchange |
| key derivation (`ecp.cpp`) | none | `derive_key` | the four keys belong to one g_a and one g_b |
| attestation enclave (`isv_enclave.cpp`) | key context, `g_secret` | `enclave_init_ra`, `verify_att_result_mac`, `put_secret_data`, `enclave_ra_close`; SDK: `sgx_ra_get_msg1`, `sgx_ra_proc_msg2` | only its own exchange's messages verify |
| attestation application (`isv_app.cpp`, `Java_Main.java`) | global buffers, `ret`, `enclave_id`, `context`, `busy_retry_time` | `call_RA_SIM` and the seven JNI functions, `cleanUP`; `main` | the answer agrees with the provider's verdict; no failed challenge gets through; retries end |
| server session (`Server.java`) | the connection, the line being served | `Initialize`, `Challenge`, `Expression`, `exit` | every request answered once, in turn |
| client (`Client.java`) | `hasKey`, key, standard input, `Expression.txt` | `Accepted`, `Success`, `Failed`, `Result`, prompts | no expression leaves before attestation; the result shown is its own |
| line encryption (`EncryptionUtil.java`, twice) | none | `encrypt`, `decrypt`, the array syntax of a line | what is read is what was meant |
| arithmetic evaluator (`Arith_Core.cpp`) | two stacks, a copy of the text, result buffer | `Eval_Expr` and helpers, the ECALLs around it | the right value for every well-formed expression |
| arithmetic enclave host (`sample.cpp`, `JavaSGX.java`) | enclave id, launch token file, buffers | `sgx_init`, `sgx_enc`, `sgx_add_enc`, `sgx_dec`; `main`, `Evaluate_Value`, `showResult` | a delivered result was computed for this expression |
| generated bridge code (`*_t.c`, `*_u.c`) | copies on the enclave's heap, frames on the untrusted stack | proxies, bridge functions, OCALL stubs, handlers | the status tells what the buffers hold; nothing leaks |
| old Java parser (`Old_Parser`) | rest of the text, tokens, a tree | `tokenize`, `parse`, `getValue` | accepts its grammar and gives the grammar's value |

What is hard in it. All of the server runs on one thread, so the difficulty is not parallelism inside the process. It
is in **partial failure** (nearly every function goes on after a failure, with freed buffers and a destroyed enclave),
**stale state** (globals and dangling pointers outlive a challenge, return codes are shadowed, overwritten or
dropped), **retries** with a shared counter, **power transitions** that take an enclave away between two calls,
**sharing** between processes (the token file), **waiting** (a console key in `cleanUP`, a client's prompt, a listen
queue that is served once), and **sizes and widths** in the evaluator and on the line. `PROJECT.json` lists each
hazard at its line.

## 2. Modules

| module | what it is | code |
|---|---|---|
| `ServiceProvider` | the provider; alone it is driven by applications that repeat, drop and reorder requests | `service_provider.cpp`, `network_ra.cpp`, `ias_ra.cpp`, `ecp.cpp` |
| `IsvEnclave` | enclaves and their key contexts, the SDK calls as the code uses them | `isv_enclave.cpp`, external SDK |
| `RemoteAttestation` | `call_RA_SIM` on top of the two, with every global of `isv_app.cpp` | `isv_app.cpp`, `Java_Main.java` |
| `IsvMain` | `main` of `isv_app.cpp`, on the actions of `RemoteAttestation` it shares | `isv_app.cpp:212-804` |
| `Attestation` | the abstract promise: "Success" only after acceptance, "Failed" only without, or death | `Server.java:40-57` |
| `Evaluation` | the abstract promise: an evaluated expression is answered with its own value, a refused one at worst with an earlier value of the same length, or death | `Server.java:73-75`, `JavaSGX.java:284-326` |
| `LineCodec` | the text of a line: AES-GCM, `Arrays.toString`, `split`, `parseInt`, `trim` | both `EncryptionUtil.java`, parsing code of both programs |
| `ClientServer` | client and server over TCP lines, on top of `Attestation`, `Evaluation` and `LineCodec` | `Client.java`, `Server.java` |
| `ArithCore` | `Eval_Expr` | `Arith_Core.cpp` |
| `EnclaveHost` | the evaluation around `Eval_Expr`: token file, enclaves, ECALL statuses, Java decryption | `sample.cpp`, `JavaSGX.java` |
| `EnclaveTools` | the other programs that use the arithmetic enclave, beside the server of `EnclaveHost` | `sample.cpp`, `JavaSGX.java` |
| `EnclaveBridge` | the scheme after which all bridge code is generated | `isv_enclave_{t,u}.c`, `Arith_Core_{t,u}.c`, `SGX_Evaluator`'s pair |
| `BridgeTables` | the functions of the three enclaves, one table per file | the same files and their `.edl` |
| `OldParser` | tokenizer, recursive descent and values of the project's first parser | `Old_Parser/src` |
| `MC*` | instances for TLC; `MCArithCore` and `MCOldParser` also hold the reference evaluators | |
| `*_proofs`, `Induction` | theorems (section 5) | |

`RemoteAttestation` EXTENDS `ServiceProvider` and `IsvEnclave` and composes their actions. It implements `Attestation`
under the mapping `phase <- AttPhase` (where the thread is). `EnclaveHost` implements `Evaluation` under `request <-
job`, `computed <- onStack` and `ready <- HasResult`. `ClientServer` EXTENDS `Attestation` and `Evaluation`: its
server takes abstract steps where the code calls `call_RA_SIM` and `Evaluate_ValueInput`, so what holds of
`ClientServer` holds of the code by the two refinements (`CsUsesPromises` says that it takes no others). A client
never gets another's or an earlier result because its expression is the only one of the server process, which is part
of what the invariant of `ClientServer` says. `EnclaveTools` EXTENDS `EnclaveHost` and refines what a program other
than the server does with its enclave; that it implements `EhSpec` is a theorem (`ToolsAreHosts`), so that the proofs
about `EnclaveHost` carry over. The ECALLs of all these modules are atomic with one of a few outcomes; `EnclaveBridge`
opens such a call up and shows that these outcomes (a status, and buffers written after success only) are what the
generated code gives.

### Correspondence

* **Steps.** One step is the code between two calls that leave it (an ECALL, an SDK call, a request to the provider, a
  line sent or received). The thread's place is `pc` in `RemoteAttestation`; a function with a retry loop has one step
  per turn. Everything a function does after the call, `cleanUP` included, belongs to its step.
* **Cryptography** is symbolic. A key pair is a number, a derived key is the pair `<<g_a, g_b>>` of its exchange and
  the field that holds it tells SMK, MK, SK and VK apart; a MAC or a ciphertext is named by its key. `derive_key` is
  the function of the two keys that it is, and may fail where the library may. The enclave's key pair goes by its
  enclave (one context per enclave).
* **The provider's session.** `DbAfter(ga, gb, done)` is `g_sp_db` after the first `done` of the six writes: every
  library call between two writes may fail. The calls that follow while MSG2 is put together may fail as well and
  leave the session whole. `Msg3Faults` names which library call of MSG3 may fail: the CMAC in front of the integrity
  checks, a hash of the report data, the attestation service's signature, or the making of the result message.
* **Return codes.** `jret` is the Java local, `gret` the C++ global. The JNI functions that return a code shadow the
  global with a local; `verifyMSG2`, `verifyMSG3_and_PutINEnclave` and `cleanUP` use the global. In `IsvMain` every
  code is assigned to the global, `gret`, which `main` returns.
* **Buffers.** `ptr` says whether each global pointer is null, live or dangling. `cleanUP` sets the requests to null
  and leaves the provider's responses dangling. Freeing or reading a dangling pointer sets `undef`, after which the
  process may abort at any time and what was read may look right or wrong; a null pointer that is dereferenced ends
  the process.
* **Faults.** The variable `faults` is chosen at the start from `FaultSets` and never changes: `"sdk"` any SDK call or
  ECALL may fail, `"busy"` SGX_ERROR_BUSY, `"sp"` failures inside the provider, `"power"` a power transition at any
  step, `"alloc"` malloc returns NULL. One run covers the processes with every fault and those with none.
* **Lines.** A line is a sequence of characters, in which a decimal number without sign is one character, so that the
  minus sign of a negative byte and the separators `"-"` and `"- "` meet as they do in Java; `Numeral` gives these
  characters, different ones for different magnitudes and none that is punctuation (`NumeralAssumption`). AES-GCM with its constant
  IV is a constant function `GCM`, one-to-one on keys and texts. Each prompt opens a `BufferedReader` of its own,
  which may swallow any number of lines typed ahead: `ReadsLine`.
* **Evaluator.** A text is a sequence of characters; `rest` is what follows it in memory, as `aes_decrypt` does not
  terminate it. `top()` or `pop()` of an empty stack and a copy without terminator are undefined and end in the stage
  `"undefined"`. An `int` has the width given by `Half`.
* **Enclave host.** Enclaves are numbered by creation, `global_eid` is the latest (`created`), and all up to `lost`
  are gone. A ciphertext is named by its expression; garbage has no name, and fails the tag check of Java's `decrypt`
  (the enclave ignores its own check). A buffer that nobody wrote holds garbage or an earlier result of the same size:
  the array of the same function, with the same size, lies at the same place of the stack. The token file is
  `missing`, `empty`, a `partial` token, or one of the program it was made for; opening, reading, truncating and
  writing are steps of their own. Processes are killed at any step and started again. The directory calls of
  `INIT_ENCLAVE`, which abort when they fail, are part of being killed.
* **Other programs.** Which of the three a program is shows after `initialize_enclave`, the code they share. A buffer
  is `"good"`, `"sealed"` (another value, encrypted) or `"bad"` (never encrypted by anybody); `failed` records that an
  ECALL failed, and `printed` what the program has shown.
* **Bridge.** One call is a walk through the generated function: `CHECK_UNIQUE_POINTER`, an allocation per pointer,
  the function, a copy back and a free per pointer; `goto err` goes to the copy-back. A function is its list of
  pointer directions and whether it returns a value. An OCALL pushes a frame, which the stub copies out of and pops.
  The enclave may be lost at any step.
* **Old parser.** A text is a sequence of digits, symbols, blanks and stretches of letters; the regular expressions
  are functions that give the length of the match. Doubles are exact fractions, with one value for everything else;
  the functions are a constant. `AddTerm` extends a node in place, as the code does.

History variables (`sent`, `issued`, `accepted`, `failedStep`, `prevId`, `asked`, `result`, `repeat`, `failed`,
`printed`) only record; no guard reads them, except that `accepted` is the abstract specification's own state.

## 3. Runs

| run | asks | instance | result |
|---|---|---|---|
| `service_provider` | can a mixed or superseded session be attested? | 2 groups, 2 enclave keys, up to 3 key pairs | never |
| `remote_attestation` | can a failed challenge get through? is the abstract attestation implemented? is the secret given only after a verified MAC? does every challenge end, and with Success when nothing fails? | 3 challenges, 5 enclave ids, 2 groups, one supported; every fault or none | never; yes; yes; yes |
| `isv_main` | what does the exit code of the program tell? does it end? | 1 start, 3 enclave ids, 2 groups, every fault or none | what became of the enclave; yes |
| `client_server` | turns, attestation before expressions, own results, lines read as meant, mutual waiting, an end for every client | 2 clients, "Y" or "N" typed, 2 typed ahead, input may end | hold |
| `arith_core` | right values, undefined steps, overrun, termination | all texts up to 4 characters over 8, all well-formed ones up to 7, 3 leftovers, 8-bit ints | hold |
| `enclave_host` | is a piece of a token used? an enclave twice? is the abstract evaluation implemented, although a status is ignored? can a wrong result reach a console? | the server and one other program of any of the three kinds, 3 expressions of 2 lengths, room for 2 enclaves | no; no; yes; only with the causes named |
| `enclave_bridge` | does a failed call leak? what do buffers and return values hold after each status? | every function of the three enclaves, every combination of pointers, up to 2 OCALLs | no; what the properties say |
| `old_parser` | does it accept its grammar and give its values? does the tokenizer end? | all texts of up to 4 pieces over 13, well-formed ones of up to 4 tokens, bracketed ones of 7 tokens with two operators | yes; yes; if every symbol is known |
| `failure_is_reported` | "pass failed on failure" | 1 challenge, SDK faults | violated |
| `success_means_provisioned` | "pass Success-publickey on successfull attestation" | 1 challenge, SDK faults | violated |
| `repeat_honoured` | "Repeat Process (Y/N) ?" | 1 client | violated |
| `prompt_is_honoured` | "an Arithmetic Expression containing only ..." | one text of 31 characters | violated |

**Why the bounds suffice.** Three challenges are needed for the longest chain of stale state: a challenge that leaves
dangling buffers and a stale code, one that meets them, and one after that; enclave ids only matter as older, current,
newer, and one challenge creates two enclaves only after a loss. The ids of a run suffice for every challenge to
create one and for two losses. Client.java sends one challenge per connection; several challenges come from a client
of the line protocol that repeats `Challenge`, which the loop of `Server.java` serves. Two clients are enough because
one is served at most. Well-formed texts of 7 characters contain three operators with and without parentheses, and all
orders of two precedences; texts of 4 characters contain every way to unbalance the stacks. Two programs are all that
a file race needs, and two enclaves allow a result and a later failure, and make the third creation fail. Two OCALLs
in a call show a frame that is pushed after another was popped or refused; the loops of a generated function are as
long as its list of pointers, which the tables give in full. In the old parser the lists that are extended in place
need an operator, a bracketed sum and an operator behind it, which is 7 tokens. The width of an `int` is 8 bits so
that overflow happens within these lengths. The theorems of section 5 do without the bounds.

**Fairness.** `AttendedSpec`, `MainSpec`, `CsFairSpec`, `AcFairSpec` and `OpSpec` assume that a thread which can run
does (weak fairness of `ServerStep`, `MainStep`, `ServerNext` and each `ClientNext`, and of the sequential `AcNext`
and `OpNext`). `AttendedSpec` and `MainSpec` add that somebody presses the key `cleanUP` waits for: without that, a
failed challenge blocks the server for ever. `CsFairSpec` adds that a user who is asked types something. Nothing makes
a client start or a user type "N". Weak fairness of the disjunction is enough as there is one thread, and every loop
is bounded by its counter. `SessionsEnd` excepts `MutualWait`, of which `WaitOnlyByUser` says that only a user who
answered "Y", or an input that ended, makes it happen.

**Deadlock** is checked in `service_provider`, `enclave_host` and `enclave_bridge`, where another request, program or
call can always be started, and not elsewhere: the server ends by design (exit, "Failed", the bound on challenges),
and so do the sequential programs.

**Mutants.** Each property of a passing run has a mutant, a definition named `<Definition>_<Change>` beside the one it
changes, with which TLC finds the property violated: the property depends on that piece of the code.

## 4. Disagreements between the code and what it says

* `Server.java:46-47`, "pass failed on failure of remote attestation". After a refused MSG3 `p_att_result_msg_full` is
  null (on a first challenge), `verifyMSG3_and_PutINEnclave` is called without a look at the code and dereferences it:
  the JVM dies and the client sees the end of the connection. "Failed" can only be sent when an earlier challenge has
  left a dangling result.
* `Server.java:46`, "pass Success-publickey on successfull attestation". When the MAC check or `put_secret_data`
  fails, the enclave is destroyed and "Success" is answered, because the code is in a global that `call_RA_SIM` does
  not see.
* `Client.java:117`, "Repeat Process (Y/N) ?". "Y" skips the code that sends an expression; both sides wait for ever.
* `Client.java:155` sets no limit on the expression, and 30 characters or more leave `expr[30]` unterminated.

Further observations that the models show, without a statement to hold them against: nothing is freed on the path
without errors although comments ask for it (`isv_app.cpp:978, 1129, 1182`); `resBuf` is overrun by up to two bytes
(`OverrunBounded`); MSG1 is served after a refused MSG0 when an older registration exists; after a failed
`put_secret_data` whose code stays in the global, the next challenge is always refused; `ecall_add_enc` may fail
unseen, and then a client that sends several expressions of one length might get an earlier result (`Evaluation`
allows exactly that); an evaluation in a lost enclave is caught by the next call. In `OldParser` a symbol that no
expression matches, such as `#`, makes the tokenizer go round for ever (`Core_Tokenizer.java:43`), and the parser's
exception "Symbol %s not recognized" is never reached; `TokenizingEnds` says that this is the only way not to end. A
client line that carries a key survives only because the constant key has no negative byte (`Client.java:67`):
`LinesSurvive` is checked for the key as it is, by the assumption `KeyAssumption`. On the console program a long
description leaves bytes behind an unterminated expression, which may then be evaluated with them
(`ResultsExplained`). A bridge function that runs out of memory zeroes some of the host's out buffers although it
fails, and an OCALL stub whose call failed hands its caller an unset `*retval` (`HostSeesResult`, `OcallStatusTells`).

## 5. Proofs

Eight modules hold theorems, for every value of the constants under the assumptions named beside them. They follow one
pattern: an inductive invariant, one lemma per action or kind of action, and a temporal step that combines them.

`RemoteAttestation_proofs` begins with the provider alone: `SpTypeOK`, `IssuedCoherent` and `SupersededRefused` of
`SpSpec` for any groups, keys and number of exchanges. `IssuedCoherent` is not inductive: it says nothing of a session
before MSG3. The inductive invariant adds what a partly written session may look like: fields are written in order, so
the fields up to some point belong to the current `g_a`, `g_b` and the rest to older exchanges whose `g_b` is smaller;
hence if VK and SMK both match the stored `g_a` and `g_b`, all six fields do, and the MSG2 of that exchange was sent.
The argument rests on key pairs being fresh (`gbCount`), which is the assumption on the generator.

Then `Spec` implements `Attestation`, for any number of challenges and any set of faults. The invariant `FlowInv` says
that nothing is accepted before the answer to MSG3 and that afterwards `jret` agrees with `accepted`; every step then
maps to an abstract step or to a stutter. The proof has one lemma per kind of step (quiet before and after the result,
death, start, answer to MSG3, report).

The same module proves `FailedStepNeverAccepted`, `SuccessMeansAttested`, `RetryBudget` and the action properties
`AcceptedInSoundProcess` and `SecretOnlyAfterVerifiedMac` of `Spec`, for any number of challenges and enclaves. The
code never stops at a failure, so the invariant `RaInv` has to say why going on does no harm. `DoomInv`: at every step
of a challenge the enclave at hand is gone (and then no evidence can come from it) or was created by this challenge
(`enclave_id > prevId`, with `BirthInv`: enclaves are born in order); a MSG2 left by an earlier challenge does not fit
an enclave that is new; and once MSG1 was refused, the MSG2 at hand is such an old one. `SoundInv`: a corrupted heap
always comes with the global code -1, with an enclave that is gone, or with a MSG2 that does not fit, and each of
these keeps MSG3 from being made. `EvidenceInv` carries that over from MSG3 to the answer, and `BudgetInv` says at
which steps the shared counter is back in its range. For the secret, `RefusedInv` adds that after a refused MSG3 the
enclave is gone.

`IsvMain_proofs`: `AcceptedOnlyFlawless` and `ExitTellsOutcome` of `MainSpec` for any enclave ids, groups and faults.
`main` too goes on after a failure. `MainDoom` says why that does no harm: a failed call always takes away what the
next request needs, which is the enclave, the MSG0 to register with, or the registration without which MSG1 is
refused. `MainEvidence` follows what was accepted to the exit: from there on the code 0 means that nothing has been
cleaned up, and an error that the enclave is gone. For the last part, that only a fault or an unsupported group keeps
the program from an exit, `MainFlawless` describes a run without any: at each step the buffers are live, the enclave's
context is in the state the call needs, and the messages are of one exchange.

`EnclaveHost_proofs`: the four invariants of `EhSpec`, and that it implements `Evaluation`, for any programs,
expressions, lengths and number of enclaves. The strengthening says that a program only ever saves its own token, that
the latest enclave is unused while an evaluation is prepared, that a call which failed with a lost enclave leaves it
lost, and what the result buffer may hold. The assumptions are that tokens, expressions and stages have different
names.

In the same module `EtSpec` implements `EhSpec` (every step of a tool is one of a program of `EnclaveHost`, or a
stutter), so all of that holds of it too; and `ResultsExplained`, from an invariant that follows each buffer from the
call that should have written it to the call that reads it.

`ClientServer_proofs`: `OneTurn`, `ExpressionOnlyAttested` and `WaitOnlyByUser` for any number of clients, files,
typed lines, keys and ciphers. The invariant lists the phases of a session: which line may be under way, in which
direction, while the two programs are at which of their steps, and what the flag `hasKey` and the abstract attestation
are then. For these three the contents of a line play no part: every branch the code takes on a line that it cannot
parse is covered. `LinesSurvive` and `ResultOfOwnExpression` are about the contents. Their invariant, `ContentsInv`,
says of every line under way, and of what either side has stored, of which text and key it was made, and that no
enclave of the server process has computed anything when the expression arrives, so that a refused call is not
answered. It rests on `CsLinesRoundTrip`: a line, split and parsed, gives back what it was made of. `CsUsesPromises`
follows: each step of the session is a step of `Attestation` and one of `Evaluation`, or leaves them alone.

`LineCodec_proofs`: an array of any length and any bytes is read back as it was listed (`BytesReadBack`), and a key if
none of its bytes is negative (`KeyReadBack`). `Arrays.toString`, `split` and the removal of brackets are recursive
functions; that they exist, and obey their equations, is `Recursion` of module `Induction`. By induction over the
array, each number has a place in the list at which its decimal stands, two places are a comma and a blank apart, and
no comma lies within one (`Places`, `BetweenPlaces`). Hence `split(", ")` cuts exactly between them, from the last
number on (`SplitList`). In front, `split("- ")` cuts once since a minus in the list is followed by digits
(`TextFront`), and `split("-")` once since there is none (`KeyFront`), which is where `KeyAssumption` is needed. TLC
evaluates the same for the constants of the run and all arrays of up to three bytes (`RoundTripHolds`,
`ArraysRoundTrip`).

`ArithCore_proofs`: `OpenParentheses` for every text of any length, balanced or not, whatever follows it in memory;
the invariant adds what each branch of `Eval_Expr` knows of the next character. `FormedIsDefined`: no well-formed
expression that fits leads to an undefined step. `Formed` says without recursion what well-formed is, by which
character may follow which and the balance of parentheses, and TLC compares it with the grammar (`FormedIsGrammar`).
The invariant counts: the number stack holds one number more than there are waiting operators behind an operand, and
as many in front of one. `ValueIsCorrect`: the result is the value the grammar gives. A recursive reference cannot be
reasoned about here, so the values are a constant `Meaning`, which `MeaningAssumption` asks to be closed under the
rules of the grammar (`Evaluates`): it gives each part of a text at least the values it has as a factor, a term or an
expression. The theorem holds for every such `Meaning`, hence for the least one, which is the grammar's. Its values
are integers of any size: that the code wraps numbers and intermediate results on the way comes to the same as cutting
the end result once (`Wrap` is a congruence for sums, differences and products). The run's `Meaning` is found by
splitting a text at its last operator of the lowest precedence, and has one value per part. The invariant `ValueInv`
says of the stacks which stretch of the text each number is the value of: between two neighbouring operators lies
nothing, a term or an expression, and above the last one the operand just read. `OverrunBounded` follows with a bound
on those values: a part of `n` characters has a value of at most `n` digits, and of at most `n - 1` when it is
negative (`Sized`). For the numbers this is an induction over their digits; `PrintedLength` turns the bound into one
on the characters of `"%d"`, and `BelowWrap` says that cutting a value does not lengthen it.

`EnclaveBridge_proofs`: all six invariants of `BrSpec` for any tables (functions with any number of pointers) and any
number of OCALLs. The strengthening describes the two half-done loops: which copies exist in front of and behind the
pointer `next`, and what has been copied back. `RightFunction` is proved from `Numbered`, which says that the tables
of the two sides number the same names alike; the run checks the invariant with the real ones (`BridgeTables`).

`Induction` holds what `ArithCore_proofs` and `LineCodec_proofs` share. Its lemmas are about sets and functions, not
about operators as in the library, whose theorems no installed prover can instantiate: `SetInduction` follows from the
order of the naturals being well founded, and from it `Recursion`, that a function with given equations exists.

Only model-checked: `OldParser`, whose grammar and parser are recursive operators, and all liveness, which TLAPS 1.4.5
cannot prove. `RemoteAttestation`, `IsvMain`, `ClientServer` and `ArithCore` have no type invariant of their own: the
inductive invariants contain their types, as far as the proofs need them.

## 6. Not modelled

* **Earlier versions of the parts** (`Individual_Parts_Of_Project`, apart from the old parser and the bridge of
  `SGX_Evaluator`): earlier states of the final code, many files of them the same to the byte (the attestation
  project, `Java-Client-Server`, `Final_Server_ClientSGX`, `SGX_Evaluator`'s evaluator).
* **Code that nobody calls**: `sgx_add`, `sgx_destroy`, `test_add`, `test_enc_dec`; `not_main` (which is `showResult`
  with a constant expression); `verify_cmac128`; the key derivation under `SUPPLIED_KEY_DERIVATION`, which the
  Makefile sets only when asked; in the old parser `setVariable` and its visitor, and exponents of numbers (`2E3`).
* **Variants that no caller selects**: platform-service sessions (`b_pse` is false) and the verification mode of the
  attestation application with its precomputed samples (`verify_index > 0`, from a command line only).
* **Not the project's**: SDK headers and libraries (the SDK calls are modelled from their use, and marked external),
  templates and demos (`javaSGX`, `jni-example`, `Test_Enclave_Application`, `Simulation_Code`), build files,
  screenshots.
* **Beyond TLA+**: side channels, performance, and the strength of the cryptography, which is symbolic here.

What could still be added: several expressions per connection, from a client of the line protocol, which would show
`Evaluation`'s earlier values at work; `Client.java` sends one.
