----------------------------- MODULE Conversions ----------------------------
(***************************************************************************)
(* The input and output functions of the encrypted types and the casts     *)
(* from PostgreSQL's own types to them.  A ciphertext is the value it      *)
(* encrypts where a client converts it, and a sequence of bytes where a    *)
(* server, which cannot decrypt, prints and reads it.                      *)
(*                                                                         *)
(* The text of a number is a sequence of tokens: white space "ws", a       *)
(* number (one of Numerals), one of the special words, or "junk".           *)
(***************************************************************************)
EXTENDS PlainOps, Base64

CONSTANTS
    Inputs,     \* texts of numbers, sequences of tokens
    Ciphers,    \* ciphertexts of a fixed size, sequences of bytes
    Strs,       \* Datums of texts: length, order, bytes of the text and what follows
    CharBits, IntBits, LongBits,  \* widths of int8 (signed char), int and bigint
    Mantissa    \* precision of float4 in bits

\* The text of a number is a sequence of tokens.
ASSUME InputsAssumption == Inputs \subseteq Seq(STRING)

\* The types have bits and bigint is the widest of them.  2^k is what it is for
\* the exponents that occur, which the proofs have to be told.
ASSUME BitsAssumption ==
    /\ {CharBits, IntBits, LongBits, Mantissa} \subseteq Nat \ {0}
    /\ CharBits <= LongBits /\ IntBits <= LongBits
    /\ 2^0 = 1
    /\ \A k \in 0..LongBits + Mantissa : 2^k \in Nat /\ 2^(k + 1) = 2 * 2^k

-----------------------------------------------------------------------------
(* Numbers as text.                                                        *)

\* "1e999" overflows a double and "1e-999" is less than the least of them;
\* "1e-310" has no full precision as a double, and "1e50" only fits a double.
Numerals == {"7", "1e999", "1e-999", "1e-310", "1e50"}
Words == {"nan", "inf", "-inf"}
Literals == Numerals \cup Words

\* strtod (external): the value, whether errno is set, and whether anything was
\* read.  C libraries differ in what they do with the words and with numbers that
\* are no full doubles.
strtod(token) ==
    LET Out(val, erange, read) == [val |-> val, erange |-> erange, read |-> read]
    IN  CASE token \in {"7", "1e50"} -> {Out(token, FALSE, TRUE)}
          [] token = "1e999" -> {Out("huge", TRUE, TRUE)}
          [] token = "1e-999" -> {Out("zero", TRUE, TRUE)}
          [] token = "1e-310" -> {Out(token, e, TRUE) : e \in BOOLEAN}
          [] token \in Words ->
               {Out(token, e, TRUE) : e \in BOOLEAN} \cup {Out("zero", FALSE, FALSE)}
          [] OTHER -> {Out("zero", FALSE, FALSE)}

\* Position of the first token at or after k that is no white space.
SkipSpace(s, k) == Min({m \in k..Len(s) + 1 : m = Len(s) + 1 \/ s[m] # "ws"})

\* The conversion to float4 at the end: what does not fit becomes infinite or zero.
ToFloat4(val) == CASE val = "1e50" -> "inf" [] val = "1e-310" -> "zero" [] OTHER -> val

\* Plausible bug: errno is not looked at when strtod has read something.
pg_float4_in_NoRange(s) ==
    LET k == SkipSpace(s, 1)
        token == IF k > Len(s) THEN "end" ELSE s[k]
    IN  {IF ~o.read /\ token \notin Words THEN "syntax"
         ELSE IF SkipSpace(s, k + 1) <= Len(s) THEN "syntax"
         ELSE ToFloat4(IF token \in Words THEN token ELSE o.val) : o \in strtod(token)}

\* The words are recognized again when strtod has failed on them; a range error is
\* one only if the value is zero or huge; nothing but white space may follow.
pg_float4_in(s) ==
    LET k == SkipSpace(s, 1)
        token == IF k > Len(s) THEN "end" ELSE s[k]
        Rest == IF SkipSpace(s, k + 1) <= Len(s) THEN "syntax" ELSE "ok"
        Taken(o) ==
            CASE token = "end" -> "syntax"
              [] o.read /\ ~o.erange -> IF Rest = "ok" THEN ToFloat4(o.val) ELSE Rest
              [] (~o.read \/ o.erange) /\ token \in Words ->
                   IF Rest = "ok" THEN token ELSE Rest
              [] o.erange /\ token \notin Words ->
                   IF o.val \in {"zero", "huge"} THEN "range"
                   ELSE IF Rest = "ok" THEN ToFloat4(o.val) ELSE Rest
              [] OTHER -> "syntax"
    IN  {Taken(o) : o \in strtod(token)}

\* enc_float4_in of a client, numeric_to_enc_float4 and double_to_enc_float4, whose
\* operand is printed first.
enc_float4_in(s) ==
    \E v \in pg_float4_in(s) : Answered([op |-> "float in", s |-> s], v)

\* The digits atoi finds at the front of a token.
Leading(token) == CASE token = "7" -> 7 [] token \in Numerals \ {"7"} -> 1 [] OTHER -> 0

\* enc_int4_in of a client: atoi takes what it can read and ignores the rest.
enc_int4_in(s) ==
    LET k == SkipSpace(s, 1)
    IN  Answered([op |-> "int in", s |-> s], IF k > Len(s) THEN 0 ELSE Leading(s[k]))

-----------------------------------------------------------------------------
(* Casts of integers.                                                      *)

\* The conversion of C to a narrower signed type.
Narrow(n, bits) == ((n + 2^(bits - 1)) % 2^bits) - 2^(bits - 1)

Magnitude(n) == IF n < 0 THEN -n ELSE n

\* The float4 nearest to an integer: Mantissa bits are kept, ties go to the even.
Float4(n) ==
    LET m == Magnitude(n)
        unit == 2^Min({k \in 0..LongBits : m < 2^(Mantissa + k)})
        quotient == m \div unit
        rest == m % unit
        up == 2 * rest > unit \/ (2 * rest = unit /\ quotient % 2 = 1)
        rounded == (IF up THEN quotient + 1 ELSE quotient) * unit
    IN  IF n < 0 THEN -rounded ELSE rounded

\* The integer is printed (int4out), read by pg_float4_in and rounded.
int4_to_enc_float4(n) == Answered([op |-> "int4 to float", n |-> n], Float4(n))

\* int8 is PostgreSQL's name of signed char: the variable holds the low bits of the
\* bigint and these are printed.
int8_to_enc_float4(n) ==
    Answered([op |-> "int8 to float", n |-> n], Float4(Narrow(n, CharBits)))

int4_to_enc_int4(n) == Answered([op |-> "int4 to int", n |-> n], n)
int8_to_enc_int4(n) == Answered([op |-> "int8 to int", n |-> n], Narrow(n, IntBits))

Ints(bits) == -(2^(bits - 1))..2^(bits - 1) - 1

-----------------------------------------------------------------------------
(* Ciphertexts as text, at a server.                                       *)

\* enc_int4_out, enc_float4_out and enc_timestamp_out, read back by the input
\* functions into a zeroed structure of the same size.
fixed_out_in(c) ==
    LET read == fromBase64(toBase64(c))
    IN  Answered([op |-> "fixed out in", c |-> c],
                 [k \in 1..Len(c) |-> IF k <= Len(read) THEN read[k] ELSE 0])

\* An EncStr has words of length and order before the text.  enc_text_out prints as
\* many bytes as the Datum has with its header, one word more than the structure.
HeaderWords == 2

\* Ciphertexts are bytes, and that of a text is as long as its first word says.
ASSUME CiphersAssumption ==
    /\ Ciphers \subseteq Seq(Byte) /\ Strs \subseteq Seq(Byte)
    /\ \A str \in Strs : str[1] \in Nat /\ str[1] + HeaderWords <= Len(str)

\* Plausible bug: the sizes are computed from the length of the printed text.
enc_text_in_Short(read) ==
    LET size == read[1] + HeaderWords - 1
    IN  [k \in 1..size |-> IF k <= Len(read) THEN read[k] ELSE 0]

\* enc_text_in takes the length from the structure, and one word too many ("figure
\* out where 12 is from") from a zeroed buffer.
enc_text_in(read) ==
    LET size == read[1] + HeaderWords + 1
    IN  [k \in 1..size |-> IF k <= Len(read) THEN read[k] ELSE 0]

\* after is whatever lies behind the structure in memory.
text_out_in(str, after) ==
    Answered([op |-> "text out in", str |-> str],
             enc_text_in(fromBase64(toBase64(Append(str, after)))))

ConversionCall ==
    \/ \E s \in Inputs : enc_float4_in(s)
    \/ \E s \in Inputs : enc_int4_in(s)
    \/ \E n \in Ints(IntBits) : int4_to_enc_float4(n)
    \/ \E n \in Ints(LongBits) : int8_to_enc_float4(n)
    \/ \E n \in Ints(IntBits) : int4_to_enc_int4(n)
    \/ \E n \in Ints(LongBits) : int8_to_enc_int4(n)
    \/ \E c \in Ciphers : fixed_out_in(c)
    \/ \E str \in Strs, after \in Byte : text_out_in(str, after)

pVars == <<call, answer>>

FunctionInit == call = NoCall /\ answer = 0
Function == call = NoCall /\ (PlainCall \/ ConversionCall)

\* One call of a function on texts, dates or numbers.
FunctionSpec == FunctionInit /\ [][Function]_pVars

-----------------------------------------------------------------------------
(* Properties.                                                             *)

\* The text is one word between white space.
Lone(s, word) ==
    \E k \in 1..Len(s) : s[k] = word /\ \A j \in 1..Len(s) : j # k => s[j] = "ws"

\* A text is read as enc_float4 exactly when it is one number between white space
\* that is not out of a double's range, and what it is read as does not depend on
\* the C library (pg_float4_in).  A number too large for a float4 is read as
\* infinite, since the check for it is commented out.  The integer that a text
\* consists of is read as that integer.
NumbersRead ==
    LET Readable == Literals \ {"1e999", "1e-999"}
    IN  /\ call.op = "float in" =>
             /\ \A word \in Readable : Lone(call.s, word) => answer = ToFloat4(word)
             /\ (\A word \in Readable : ~Lone(call.s, word)) => answer \in {"syntax", "range"}
        /\ call.op = "int in" /\ Lone(call.s, "7") => answer = 7

\* The numbers a float4 can hold.
IsFloat4(n) == \E k \in 0..LongBits : n % 2^k = 0 /\ Magnitude(n) \div 2^k < 2^Mantissa

Nearest(x, n) ==
    /\ IsFloat4(x)
    /\ \A y \in n - Magnitude(n - x)..n + Magnitude(n - x) :
         IsFloat4(y) => Magnitude(n - x) <= Magnitude(n - y)

\* A cast keeps the number, or the nearest the type has, for every operand its
\* conversion in C can hold (int4_to_enc_float4 and the others); a bigint that fits
\* in an int is cast to the same enc_int4.
CastsKeep ==
    /\ call.op = "int4 to float" => Nearest(answer, call.n)
    /\ call.op = "int8 to float" /\ call.n \in Ints(CharBits) => Nearest(answer, call.n)
    /\ call.op = "int4 to int" => answer = call.n
    /\ call.op = "int8 to int" /\ call.n \in Ints(IntBits) => answer = call.n

\* A number keeps its value on its way into an encrypted column, from a text or from
\* a plain number (enc_float4_in, enc_int4_in and the casts).
NumbersKept == NumbersRead /\ CastsKeep

\* "The function converts a bigint (int8) datatype to enc_float4 value": the cast
\* yields the nearest float4 for every bigint.
BigintCast == call.op = "int8 to float" => Nearest(answer, call.n)

\* A ciphertext that a server prints and reads back is the same, so a dump can be
\* restored: all bytes of the fixed types, and of a text its length, its order and
\* as many bytes as its length says, whatever lies behind them (a substring keeps
\* the size of the text it was cut from).
ServerRoundTrip ==
    /\ call.op = "fixed out in" => answer = call.c
    /\ call.op = "text out in" =>
         Begins(answer, SubSeq(call.str, 1, call.str[1] + HeaderWords))
=============================================================================
