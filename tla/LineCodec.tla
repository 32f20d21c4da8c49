----------------------------- MODULE LineCodec -----------------------------
(***************************************************************************)
(* What Client.java and Server.java do to the lines they exchange: a text  *)
(* is encrypted by EncryptionUtil, the bytes are listed by Arrays.toString *)
(* behind "Expression- ", "Result- " or "Success-", and the reader splits  *)
(* the line, drops the brackets, splits again and parses the numbers.      *)
(*                                                                         *)
(* A line is a sequence of characters, but a decimal number without sign   *)
(* is one character.  A text is a sequence of lines and newlines.          *)
(***************************************************************************)
EXTENDS Integers, Sequences

CONSTANTS
  Byte,       \* values of a Java byte: negative and not
  KeyLength,  \* of an AES key
  Numeral,    \* the character for a number without sign
  Texts,      \* texts that are encrypted
  GCM         \* AES/GCM/NoPadding with the constant aes_iv: the bytes of
              \* a text under a key, its tag included

Keys == [1 .. KeyLength -> Byte]

NullBytes == <<>>
NullText == <<"null">>

(* The tag: a ciphertext belongs to one key and one text, and is not empty.*)
(* A null reference is no text.                                            *)
ASSUME GCMAssumption ==
  /\ Byte \subseteq Int /\ KeyLength \in Nat \ {0}
  /\ GCM \in [Keys \X Texts -> Seq(Byte) \ {<<>>}]
  /\ \A p, q \in Keys \X Texts : GCM[p] = GCM[q] => p = q
  /\ NullText \notin Texts

----------------------------------------------------------------------------
(* The constructor of EncryptionUtil: Cipher.init throws for other keys.   *)
ValidKey(k) == k \in Keys

encrypt(k, x) == GCM[<<k, x>>]

(* A wrong tag leaves plaintext null, and new String(null) throws.         *)
decrypt(k, b) ==
  IF \E x \in Texts : encrypt(k, x) = b
  THEN CHOOSE x \in Texts : encrypt(k, x) = b
  ELSE NullText

----------------------------------------------------------------------------
Magnitude(n) == IF n < 0 THEN -n ELSE n
Numerals == {Numeral[Magnitude(n)] : n \in Byte}
Punctuation == {"[", "]", ",", " ", "-"}
Char == Numerals \union Punctuation

(* Numbers are told apart by their digits, and digits from punctuation.    *)
ASSUME NumeralAssumption ==
  /\ Numerals \intersect Punctuation = {}
  /\ \A m, n \in Byte :
       Numeral[Magnitude(m)] = Numeral[Magnitude(n)] => Magnitude(m) = Magnitude(n)

Decimal(n) ==
  IF n < 0 THEN <<"-", Numeral[Magnitude(n)]>> ELSE <<Numeral[Magnitude(n)]>>

Comma == <<",", " ">>
Separator(i) == IF i = 1 THEN <<>> ELSE Comma

ArraysToString(b) ==
  LET listed[i \in 0 .. Len(b)] ==
        IF i = 0 THEN <<>> ELSE listed[i - 1] \o Separator(i) \o Decimal(b[i])
  IN  <<"[">> \o listed[Len(b)] \o <<"]">>

(***************************************************************************)
(* String.split: the pieces between the occurrences of sep, without the    *)
(* empty ones at the end; the whole string when there is no occurrence.    *)
(***************************************************************************)
WithoutTrailing[pieces \in Seq(Seq(Char))] ==
  LET n == CHOOSE n \in 0 .. Len(pieces) :
             /\ n = 0 \/ pieces[n] # <<>>
             /\ \A k \in n + 1 .. Len(pieces) : pieces[k] = <<>>
  IN  SubSeq(pieces, 1, n)

Occurrences(sep, s, a) ==
  {i \in a .. Len(s) + 1 - Len(sep) : SubSeq(s, i, i + Len(sep) - 1) = sep}

Least(S) == CHOOSE i \in S : \A j \in S : i <= j

(* from[a] has the pieces of what begins with the a-th character.          *)
Pieces(sep, s) ==
  LET from[a \in 1 .. Len(s) + 1] ==
        IF Occurrences(sep, s, a) = {} THEN <<SubSeq(s, a, Len(s))>>
        ELSE LET i == Least(Occurrences(sep, s, a))
             IN  <<SubSeq(s, a, i - 1)>> \o from[i + Len(sep)]
  IN  from[1]

split(sep) ==
  [s \in Seq(Char) |->
     IF Len(Pieces(sep, s)) = 1 THEN <<s>> ELSE WithoutTrailing[Pieces(sep, s)]]

(* replaceAll("\\[", "").replaceAll("\\]", "")                             *)
WithoutBrackets[s \in Seq(Char)] ==
  LET kept[i \in 0 .. Len(s)] ==
        IF i = 0 THEN <<>>
        ELSE IF s[i] \in {"[", "]"} THEN kept[i - 1] ELSE Append(kept[i - 1], s[i])
  IN  kept[Len(s)]

(* NumberFormatException for anything else, such as "".                    *)
IsNumber(s) == \E n \in Byte : Decimal(n) = s
parseInt(s) == CHOOSE n \in Byte : Decimal(n) = s

ParsesTo[nums \in Seq(Seq(Char))] ==
  IF nums # <<>> /\ \A i \in 1 .. Len(nums) : IsNumber(nums[i])
  THEN [i \in 1 .. Len(nums) |-> parseInt(nums[i])]
  ELSE NullBytes

(* The byte array of a line; NullBytes when one of its steps throws.       *)
ParseParts[parts \in Seq(Seq(Char))] ==
  IF Len(parts) < 2 THEN NullBytes
  ELSE ParsesTo[split(Comma)[WithoutBrackets[parts[2]]]]

ParseLine(s, sep) == ParseParts[split(sep)[s]]

----------------------------------------------------------------------------
(* The lines with a payload behind their word.                             *)
KeyPart(k) == <<"-">> \o ArraysToString(k)
TextPart(b) == <<"-", " ">> \o ArraysToString(b)

(* The key ends before its first negative byte, if it has one.             *)
KeyOf(s) == ParseLine(s, <<"-">>)

BytesOf(s) == ParseLine(s, <<"-", " ">>)

(* String.trim.                                                            *)
trim(x) ==
  LET kept == {i \in 1 .. Len(x) : x[i] # "\n"}
      last == CHOOSE i \in kept : \A j \in kept : j <= i
  IN  IF kept = {} THEN <<>> ELSE SubSeq(x, Least(kept), last)

(* Client.readFile: every line, the last one too, followed by a newline.   *)
readFile(f) == IF f = <<>> \/ f[Len(f)] = "\n" THEN f ELSE Append(f, "\n")
=============================================================================
