-------------------------- MODULE MCClientServer --------------------------
(***************************************************************************)
(* Two clients, one of which is never served.  A typed line is "Y" or "N": *)
(* either may be taken as an answer or as an expression, and any other     *)
(* line is taken like "N".                                                 *)
(*                                                                         *)
(* A ciphertext is a byte that tells the text and one that tells the key;  *)
(* either may be negative.                                                 *)
(***************************************************************************)
EXTENDS ClientServer, TLC

MCFiles == {<<>>, <<"file">>}
MCLines == {"Y", "N"}

MCTexts == {<<"file">>, <<"file", "\n">>, <<"0">>, <<"Y">>, <<"N">>}
MCLength == [x \in MCTexts |-> Len(x)]
MCByte == -3 .. 3
MCNumeral == [n \in 0 .. 3 |-> ToString(n)]
MCKeyLength == 1
MCAesKey == <<2>>

TextByte ==
  (<<"file">> :> -3) @@ (<<"file", "\n">> :> -1) @@ (<<"0">> :> 0)
    @@ (<<"Y">> :> 1) @@ (<<"N">> :> -2)

MCGCM ==
  [p \in [1 .. MCKeyLength -> MCByte] \X MCTexts |->
     <<TextByte[p[2]], -p[1][1]>>]

(* The arrays of Client.java and Server.java are read back as they were    *)
(* written, for bytes of either sign, as LineCodec_proofs shows for all.   *)
ASSUME RoundTripHolds == LinesRoundTrip

ASSUME ArraysRoundTrip ==
  \A n \in 1 .. 3 : \A b \in [1 .. n -> MCByte] : BytesOf(TextPart(b)) = b
=============================================================================
