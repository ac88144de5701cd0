------------------------------- MODULE Base64 -------------------------------
(***************************************************************************)
(* Ciphertexts as text.  A server prints a value of an encrypted type as   *)
(* base64 and reads it back.  A character is the value of the digit it is, *)
(* or one of PC (the pad "="), WS (white space) and ND (anything else).    *)
(***************************************************************************)
EXTENDS Integers, Sequences, FiniteSets

Byte == 0..255
Digit == 0..63
PC == 64
WS == 65
ND == 66
Char == 0..66

\* The four digits of three bytes.
Digits(a, b, c) ==
    <<a \div 4, (a % 4) * 16 + (b \div 16), (b % 16) * 4 + (c \div 64), c % 64>>

ByteAt(s, k) == IF k <= Len(s) THEN s[k] ELSE 0

\* The g-th group of three bytes of s, missing bytes being zero.
GroupDigits(s, g) == Digits(ByteAt(s, 3 * g + 1), ByteAt(s, 3 * g + 2), ByteAt(s, 3 * g + 3))

\* A last group of one or two bytes has pads in place of the digits it does not
\* need; no line breaks are written, though the comment announces them.
toBase64(s) ==
    [i \in 1..4 * ((Len(s) + 2) \div 3) |->
        LET g == (i - 1) \div 4
            j == (i - 1) % 4
        IN  IF j <= Len(s) - 3 * g THEN GroupDigits(s, g)[j + 1] ELSE PC]

-----------------------------------------------------------------------------
(* Decoding.                                                               *)

\* The bytes of four digit values.
Bytes(d1, d2, d3, d4) ==
    LET qv == ((d1 * 64 + d2) * 64 + d3) * 64 + d4
    IN  <<(qv \div 65536) % 256, (qv \div 256) % 256, qv % 256>>

Lesser(m, n) == IF m < n THEN m ELSE n

\* The position of the first digit at or after p, of the n characters that are left.
skipNonB64(cs, p, n) ==
    LET stops == {q \in p..p + n : q = p + n \/ cs[q] \in Digit}
    IN  CHOOSE q \in stops : \A r \in stops : q <= r

\* One group of up to nti characters from p: the digits up to the first character
\* that is white space or no digit, which ends the group.  A pad and such a
\* character cost a byte each; the characters after the end are read as zeros.
Group(cs, p, nti) ==
    LET ends == {k \in 0..nti - 1 : cs[p + k] \in {WS, ND}}
        end == IF ends = {} THEN nti ELSE CHOOSE k \in ends : \A m \in ends : k <= m
        Read(k) == IF k < end /\ cs[p + k] \in Digit THEN cs[p + k] ELSE 0
        pads == {k \in 0..end - 1 : cs[p + k] = PC}
        lost == IF ends = {} THEN pads ELSE pads \cup {end}
    IN  [bytes |-> Bytes(Read(0), Read(1), Read(2), Read(3)),
         lost |-> lost,
         used |-> IF ends = {} THEN nti ELSE end + 1,
         last |-> ends # {} /\ cs[p + end] = ND]

\* A group of n characters holds n - 1 bytes.  After white space inside a group the
\* rest of the group has been counted but not read.  (A newline at the end is cut
\* off first; the loop would pass over it all the same.)
fromBase64(cs) ==
    LET F[n \in 0..Len(cs)] == [p \in 1..Len(cs) + 1 - n |->
          IF n = 0 \/ cs[p] = PC THEN <<>>
          ELSE LET q == skipNonB64(cs, p, n)
                   left == n - (q - p)
                   nti == Lesser(4, left)
                   gr == Group(cs, q, nti)
               IN  IF nti < 2 THEN <<>>
                   ELSE SubSeq(gr.bytes, 1, nti - 1 - Cardinality(gr.lost))
                          \o F[IF gr.last THEN 0 ELSE left - nti][q + gr.used]]
    IN  F[Len(cs)][1]

-----------------------------------------------------------------------------
(* What a group of the text says about the bytes.                          *)

GroupCount(s) == (Len(s) + 2) \div 3

\* Each group of four characters determines the bytes it was made of: the digits
\* give the bytes back, and there is a pad for every byte that is missing
\* (toBase64 and the loop body of fromBase64).
GroupsDecode(s) ==
    \A g \in 0..GroupCount(s) - 1 :
        LET Char4(j) == toBase64(s)[4 * g + j]
            Value(j) == IF Char4(j) = PC THEN 0 ELSE Char4(j)
        IN  /\ Bytes(Value(1), Value(2), Value(3), Value(4)) =
                 <<ByteAt(s, 3 * g + 1), ByteAt(s, 3 * g + 2), ByteAt(s, 3 * g + 3)>>
            /\ \A j \in 1..4 : Char4(j) = PC <=> j - 1 > Len(s) - 3 * g
=============================================================================
