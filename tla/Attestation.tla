---------------------------- MODULE Attestation ----------------------------
(***************************************************************************)
(* What the server's attestation promises its client, whatever happens to  *)
(* the enclave and to the buffers in between: a challenge is answered      *)
(* "Success" only when the provider accepted the evidence of this very     *)
(* challenge, and "Failed" only when it did not.  The process may die at   *)
(* any time, and then the challenge is not answered at all.                *)
(***************************************************************************)
VARIABLES
  phase,      \* "idle", "running", "refused" (answered Failed) or "dead"
  verdict,    \* the latest answer, "none" while a challenge is running
  accepted    \* the provider accepted the evidence of the latest challenge

attVars == <<phase, verdict, accepted>>

AttInit == phase = "idle" /\ verdict = "none" /\ accepted = FALSE

Challenge ==
  /\ phase = "idle"
  /\ phase' = "running"
  /\ verdict' = "none"
  /\ accepted' = FALSE

Accept ==
  /\ phase = "running"
  /\ ~accepted
  /\ accepted' = TRUE
  /\ UNCHANGED <<phase, verdict>>

AnswerSuccess ==
  /\ phase = "running" /\ accepted
  /\ phase' = "idle" /\ verdict' = "Success"
  /\ UNCHANGED accepted

(* After "Failed" the server closes the connection: no further challenge.  *)
AnswerFailed ==
  /\ phase = "running" /\ ~accepted
  /\ phase' = "refused" /\ verdict' = "Failed"
  /\ UNCHANGED accepted

Die ==
  /\ phase \in {"idle", "running", "refused"}
  /\ phase' = "dead"
  /\ UNCHANGED <<verdict, accepted>>

AttNext == Challenge \/ Accept \/ AnswerSuccess \/ AnswerFailed \/ Die

AttSpec == AttInit /\ [][AttNext]_attVars
=============================================================================
