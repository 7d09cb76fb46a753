------------------------------- MODULE Base64 -------------------------------
(***************************************************************************)
(* The encoder and the decoder of Base64.c as functions of byte sequences, *)
(* and the encoding that RFC 4648 describes, bit by bit.                   *)
(***************************************************************************)
EXTENDS Naturals, Sequences

Pad == 61  \* the character =

Least(m, n) == IF m < n THEN m ELSE n

(* A-Z, a-z, 0-9, - and _, and = for 64.                                    *)
IndexToChar(i) ==
  CASE i < 26 -> i + 65 [] i \in 26..51 -> i + 71 [] i \in 52..61 -> i - 4
    [] i = 62 -> 45 [] i = 63 -> 95 [] i = 64 -> Pad

CharToIndex(c) == IF \E i \in 0..64 : IndexToChar(i) = c
                    THEN CHOOSE i \in 0..64 : IndexToChar(i) = c ELSE 0

(* Three bytes from position 3g in 24 bits; beyond the length they count 0. *)
Packed(b, len, g) ==
  LET Byte(i) == IF i < len THEN b[i + 1] ELSE 0
  IN 65536 * Byte(3 * g) + 256 * Byte(3 * g + 1) + Byte(3 * g + 2)

(* Mutant: the rest of the division by 3 is the padding.                    *)
NumPadRest(len) == len % 3

NumPad(len) == (3 - (len % 3)) % 3

PackedSize(len) == len \div 3 + (IF len % 3 = 0 THEN 0 ELSE 1)

Encode(b, len) ==
  LET chars == 4 * PackedSize(len) IN
  [p \in 1..chars |->
     IndexToChar(IF p - 1 >= chars - NumPad(len) THEN 64
                 ELSE (Packed(b, len, (p - 1) \div 4) \div 64 ^ (3 - ((p - 1) % 4))) % 64)]

(* The decoder stops at the first = : it counts that character again for    *)
(* each that is left.                                                       *)
FirstPad(t) ==
  IF \E p \in DOMAIN t : t[p] = Pad
    THEN CHOOSE p \in DOMAIN t : t[p] = Pad /\ \A q \in 1..(p - 1) : t[q] # Pad
    ELSE Len(t) + 1

DecodedBytes(t) ==
  LET Index(p) == IF p < FirstPad(t) THEN CharToIndex(t[p]) ELSE 0
      Bits(g) == 262144 * Index(4 * g + 1) + 4096 * Index(4 * g + 2)
                 + 64 * Index(4 * g + 3) + Index(4 * g + 4)
  IN [p \in 1..(3 * (Len(t) \div 4)) |->
        (Bits((p - 1) \div 3) \div 256 ^ (2 - ((p - 1) % 3))) % 256]

(* What the decoder writes in the header.                                   *)
DecodedLength(t) == 3 * (Len(t) \div 4) - ((Len(t) + 1 - FirstPad(t)) % 256)

-----------------------------------------------------------------------------
(* RFC 4648: the bits in groups of six, zeros after the last, padded with = *)
(* to groups of four characters.                                            *)

Alphabet ==
  [i \in 1..26 |-> 64 + i] \o [i \in 1..26 |-> 96 + i] \o [i \in 1..10 |-> 47 + i] \o <<45, 95>>

Bit(b, i) == IF i < 8 * Len(b) THEN (b[i \div 8 + 1] \div 2 ^ (7 - (i % 8))) % 2 ELSE 0

Rfc4648(b) ==
  LET sextets == (8 * Len(b) + 5) \div 6
      Sextet(k) == 32 * Bit(b, 6 * k) + 16 * Bit(b, 6 * k + 1) + 8 * Bit(b, 6 * k + 2)
                   + 4 * Bit(b, 6 * k + 3) + 2 * Bit(b, 6 * k + 4) + Bit(b, 6 * k + 5)
  IN [p \in 1..(4 * ((sextets + 3) \div 4)) |->
        IF p <= sextets THEN Alphabet[Sextet(p - 1) + 1] ELSE Pad]
=============================================================================
