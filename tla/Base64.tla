-------------------------------- MODULE Base64 --------------------------------
(***************************************************************************)
(* base64.hpp and base64.cpp: bytes to characters and back, in groups of   *)
(* three bytes and four characters.  Bytes and characters are their codes. *)
(***************************************************************************)
EXTENDS Integers, SequencesExt

Byte == 0 .. 255
Pad == 61   \* '='

\* base64_encode_table: 'A'-'Z', 'a'-'z', '0'-'9', '+', '/'.
EncodeTable ==
  [n \in 0 .. 63 |-> CASE n < 26 -> n + 65
                       [] n \in 26 .. 51 -> n + 71
                       [] n \in 52 .. 61 -> n - 4
                       [] n = 62 -> 43
                       [] n = 63 -> 47]

\* base64_decode_table, read only for the characters it does not map to -1.
Alphabet == (65 .. 90) \cup (97 .. 122) \cup (48 .. 57) \cup {43, 47}

DecodeTable ==
  [c \in Alphabet |-> CASE c \in 65 .. 90 -> c - 65
                        [] c \in 97 .. 122 -> c - 71
                        [] c \in 48 .. 57 -> c + 4
                        [] c = 43 -> 62
                        [] c = 47 -> 63]

\* The groups of n elements of s; the last one may be shorter.
Groups(s, n) ==
  [g \in 1 .. (Len(s) + n - 1) \div n |-> SubSeq(s, n * (g - 1) + 1,
                                                IF n * g < Len(s) THEN n * g ELSE Len(s))]

EncodeGroup(b) ==
  LET b1 == IF Len(b) > 1 THEN b[2] ELSE 0
      b2 == IF Len(b) > 2 THEN b[3] ELSE 0
      chars == <<EncodeTable[b[1] \div 4], EncodeTable[(b[1] % 4) * 16 + b1 \div 16],
                 EncodeTable[(b1 % 16) * 4 + b2 \div 64], EncodeTable[b2 % 64]>>
  IN  [i \in 1 .. 4 |-> IF i <= Len(b) + 1 THEN chars[i] ELSE Pad]

Encode(bytes) == FlattenSeq([g \in DOMAIN Groups(bytes, 3) |-> EncodeGroup(Groups(bytes, 3)[g])])

\* What a group of four characters becomes: as many bytes as it has characters
\* that are not padding, less one.
DecodeGroup(c) ==
  LET d == [i \in 1 .. 4 |-> IF c[i] \in Alphabet THEN DecodeTable[c[i]] ELSE 0]
      bytes == <<d[1] * 4 + d[2] \div 16, (d[2] % 16) * 16 + d[3] \div 4, (d[3] % 4) * 64 + d[4]>>
  IN  SubSeq(bytes, 1, CASE c[3] = Pad -> 1 [] c[3] # Pad /\ c[4] = Pad -> 2 [] OTHER -> 3)

\* Padding ends the last group only, with "==" or "=".
GroupDecodes(c, last) ==
  /\ Len(c) = 4
  /\ {c[1], c[2]} \subseteq Alphabet
  /\ \/ {c[3], c[4]} \subseteq Alphabet
     \/ last /\ c[4] = Pad /\ c[3] \in Alphabet \cup {Pad}

\* base64_decode returns, and does not throw decode_base64_error.
Decodes(chars) ==
  LET groups == Groups(chars, 4)
  IN  \A g \in DOMAIN groups : GroupDecodes(groups[g], g = Len(groups))

Decode(chars) == FlattenSeq([g \in DOMAIN Groups(chars, 4) |-> DecodeGroup(Groups(chars, 4)[g])])
=============================================================================
