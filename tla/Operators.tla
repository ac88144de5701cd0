----------------------------- MODULE Operators ------------------------------
(***************************************************************************)
(* One operation on encrypted values, from the SQL function to handler() in*)
(* ops_server and back.  A backend keeps one request buffer for all of its *)
(* calls: a call stores its command and operands in it, handler() adds the *)
(* result and a response code, and the function copies the result out and  *)
(* raises an error when the code is not zero.                              *)
(*                                                                         *)
(* An operand is the number a ciphertext encrypts, or Bad for a ciphertext *)
(* that does not decrypt.  What a command computes is the term made of the *)
(* command and its operands; comparisons also yield their sign.            *)
(***************************************************************************)
EXTENDS Integers, Sequences

CONSTANTS
    Commands,   \* commands in use
    Numbers,    \* intact operands
    Bad,        \* an operand that does not decrypt
    MaxCalls    \* bound: calls of a backend

VARIABLES
    pc,         \* "idle", "sent", "answered", "stuck"
    calls,      \* number of calls made
    reqType, args, resp, out,   \* the request buffer
    rel,        \* relation the SQL function asks for
    error, result               \* how the last call ended

vars == <<pc, calls, reqType, args, resp, out, rel, error, result>>

-----------------------------------------------------------------------------
(* The requests the backend makes, by command.                             *)

IntRequests ==
    [INT_PLUS |-> "IntCalc", INT_MINUS |-> "IntCalc", INT_MULT |-> "IntCalc",
     INT_DIV |-> "IntCalc", INT_POW |-> "IntCalc", INT_MOD |-> "IntCalc",
     INT_CMP |-> "IntCmp", INT_SUM_BULK |-> "IntBulk", INT_ENC |-> "IntEnc", INT_DEC |-> "IntDec"]

FloatRequests ==
    [FLOAT_PLUS |-> "FloatCalc", FLOAT_MINUS |-> "FloatCalc", FLOAT_MULT |-> "FloatCalc",
     FLOAT_DIV |-> "FloatCalc", FLOAT_POW |-> "FloatCalc", FLOAT_MOD |-> "FloatCalc",
     FLOAT_CMP |-> "FloatCmp", FLOAT_SUM_BULK |-> "FloatBulk",
     FLOAT_EVAL_EXPR |-> "FloatEvalExpr", FLOAT_ENC |-> "FloatEnc", FLOAT_DEC |-> "FloatDec"]

TextRequests ==
    [STRING_CMP |-> "StrCmp", STRING_LIKE |-> "StrCmp", STRING_CONCAT |-> "StrCalc",
     STRING_SUBSTRING |-> "Substring", STRING_ENC |-> "StrEnc", STRING_DEC |-> "StrDec"]

TimestampRequests ==
    [TIMESTAMP_CMP |-> "TimestampCmp", TIMESTAMP_EXTRACT_YEAR |-> "ExtractYear",
     TIMESTAMP_ENC |-> "TimestampEnc", TIMESTAMP_DEC |-> "TimestampDec"]

\* The class of requests of a command, which is also the layout of the buffer.
Layout ==
    [c \in DOMAIN IntRequests \cup DOMAIN FloatRequests
             \cup DOMAIN TextRequests \cup DOMAIN TimestampRequests |->
        CASE c \in DOMAIN IntRequests -> IntRequests[c]
          [] c \in DOMAIN FloatRequests -> FloatRequests[c]
          [] c \in DOMAIN TextRequests -> TextRequests[c]
          [] c \in DOMAIN TimestampRequests -> TimestampRequests[c]]
AllCommands == DOMAIN Layout

Numeric == {"INT_CMP", "FLOAT_CMP", "TIMESTAMP_CMP"}
Encrypts == {"INT_ENC", "FLOAT_ENC", "STRING_ENC", "TIMESTAMP_ENC"}
Arity(c) ==
    CASE Layout[c] \in {"IntEnc", "FloatEnc", "StrEnc", "TimestampEnc",
                        "IntDec", "FloatDec", "StrDec", "TimestampDec", "ExtractYear"} -> 1
      [] Layout[c] \in {"Substring", "FloatEvalExpr"} -> 3
      [] OTHER -> 2

\* Plaintexts are not ciphertexts: they are always intact.
Operands(c) == IF c \in Encrypts THEN Numbers ELSE Numbers \cup {Bad}

Sign(x, y) == IF x = y THEN 0 ELSE IF x < y THEN -1 ELSE 1
Term(c, a) == [cmd |-> c, args |-> a, cmp |-> IF c \in Numeric THEN Sign(a[1], a[2]) ELSE 0]
Garbage == [cmd |-> "none", args |-> <<>>, cmp |-> 0]
NoResult == [of |-> Garbage, holds |-> FALSE]

Init ==
    /\ pc = "idle" /\ calls = 0 /\ rel = "cmp"
    /\ reqType = "none" /\ args = <<>> /\ resp = 0 /\ out = Garbage
    /\ error = FALSE /\ result = NoResult

\* serializeTo: the command and its operands.  The place of the result is left as
\* it is; it holds an earlier result only if the buffer keeps its layout.
serializeTo(c, a) ==
    /\ reqType' = c /\ args' = a
    /\ out' = IF reqType # "none" /\ Layout[reqType] = Layout[c] THEN out ELSE Garbage
    /\ UNCHANGED resp

Relations == {"cmp", "eq", "ne", "lt", "le", "gt", "ge"}

Call(c, a, r) ==
    /\ pc = "idle" /\ calls < MaxCalls
    /\ r # "cmp" => c \in Numeric
    /\ serializeTo(c, a)
    /\ rel' = r /\ calls' = calls + 1 /\ pc' = "sent"
    /\ error' = FALSE /\ result' = NoResult

-----------------------------------------------------------------------------
(* handler().                                                              *)

\* Operands decrypted by decrypt_bytes_para, which always answers 0.
Unchecked(c) ==
    CASE c = "FLOAT_EVAL_EXPR" -> 1..Arity(c) - 1
      [] Layout[c] \in {"IntCalc", "IntCmp", "FloatCalc", "FloatCmp", "StrCmp"} -> {1}
      [] OTHER -> {}

Failed(c, a) == \E k \in 1..Len(a) : a[k] = Bad /\ k \notin Unchecked(c)

\* What a command does to the buffer when its operands do, or do not, decrypt; a
\* computation on an operand that was never written yields anything.
Computed(c, a) ==
    IF \E k \in 1..Len(a) : a[k] = Bad
    THEN \E x \in Numbers : out' = Term(c, [k \in 1..Len(a) |-> IF a[k] = Bad THEN x ELSE a[k]])
    ELSE out' = Term(c, a)

\* The operator's result becomes the response of the request.
Respond(code) == resp' = code

\* Integer divisions by zero; FLOAT_MOD divides its operands as integers.
DividesByZero(c, a) ==
    c \in {"INT_DIV", "INT_MOD", "FLOAT_MOD"} /\ ~Failed(c, a) /\ a[2] = 0

\* Plausible bug: the code is stored only when the command fails.
Answer_KeepsCode(c, a) ==
    \/ Failed(c, a) /\ Respond(-1) /\ UNCHANGED out
    \/ ~Failed(c, a) /\ Computed(c, a) /\ UNCHANGED resp

Answer(c, a) ==
    \/ Failed(c, a) /\ Respond(-1) /\ UNCHANGED out
    \/ ~Failed(c, a) /\ Computed(c, a) /\ Respond(0)

\* The case of CMD_FLOAT_EVAL_EXPR goes on with the one of CMD_FLOAT_ENC, which
\* encrypts into the part of the buffer that held the expression and answers 0.
AnswerEvalExpr(c, a) ==
    /\ \/ Failed(c, a) /\ UNCHANGED out
       \/ ~Failed(c, a) /\ Computed(c, a)
    /\ Respond(0)

handler ==
    /\ pc = "sent" /\ pc' = "answered" /\ ~DividesByZero(reqType, args)
    /\ \/ reqType = "FLOAT_EVAL_EXPR" /\ AnswerEvalExpr(reqType, args)
       \/ reqType # "FLOAT_EVAL_EXPR" /\ Answer(reqType, args)
    /\ UNCHANGED <<calls, reqType, args, rel, error, result>>

\* The process that serves the backend dies, and the backend waits for ever.
Trap ==
    /\ pc = "sent" /\ pc' = "stuck" /\ DividesByZero(reqType, args)
    /\ UNCHANGED <<calls, reqType, args, resp, out, rel, error, result>>

-----------------------------------------------------------------------------
(* The SQL functions, with the relations of the three ordered types.       *)

IntRelation(r, cmp) ==
    CASE r = "eq" -> cmp = 0 [] r = "ne" -> cmp # 0
      [] r = "lt" -> cmp = -1 [] r = "le" -> cmp <= 0
      [] r = "gt" -> cmp = 1 [] r = "ge" -> cmp >= 0
      [] OTHER -> FALSE

FloatRelation(r, cmp) == IntRelation(r, cmp)

TimestampRelation(r, cmp) ==
    CASE r = "eq" -> cmp = 0 [] r = "ne" -> cmp # 0
      [] r = "lt" -> cmp = -1 [] r = "le" -> cmp <= 0
      [] r = "gt" -> cmp > 0 [] r = "ge" -> cmp >= 0
      [] OTHER -> FALSE

Holds(c, r, cmp) ==
    CASE c = "INT_CMP" -> IntRelation(r, cmp)
      [] c = "FLOAT_CMP" -> FloatRelation(r, cmp)
      [] c = "TIMESTAMP_CMP" -> TimestampRelation(r, cmp)
      [] OTHER -> FALSE

copyResultFrom == [of |-> out, holds |-> Holds(reqType, rel, out.cmp)]

\* The function copies the result and raises an error unless the code is zero.
Return ==
    /\ pc = "answered" /\ pc' = "idle"
    /\ error' = (resp # 0)
    /\ result' = IF resp # 0 THEN NoResult ELSE copyResultFrom
    /\ UNCHANGED <<calls, reqType, args, resp, out, rel>>

Next ==
    \/ \E c \in Commands : \E a \in [1..Arity(c) -> Operands(c)], r \in Relations : Call(c, a, r)
    \/ handler \/ Trap
    \/ Return

Spec == Init /\ [][Next]_vars

-----------------------------------------------------------------------------
(* Properties.                                                             *)

TypeOK ==
    /\ pc \in {"idle", "sent", "answered", "stuck"} /\ calls \in 0..MaxCalls
    /\ reqType \in AllCommands \cup {"none"} /\ resp \in {-1, 0}
    /\ rel \in Relations /\ error \in BOOLEAN

Returned == pc = "idle" /\ calls > 0
Intact == \A k \in 1..Len(args) : args[k] # Bad

\* What a relation says of two numbers.
Related(r, x, y) ==
    CASE r = "eq" -> x = y [] r = "ne" -> x # y
      [] r = "lt" -> x < y [] r = "le" -> x <= y
      [] r = "gt" -> x > y [] r = "ge" -> x >= y
      [] OTHER -> FALSE

\* A call on intact operands returns, without an error, what its own command makes
\* of its own operands, whatever the calls before it left in the buffer.
OwnResult ==
    Returned /\ Intact =>
        /\ ~error /\ result.of = Term(reqType, args)
        /\ reqType \in Numeric => (result.holds <=> Related(rel, args[1], args[2]))

\* When an operand that handler() decrypts by decrypt_bytes does not decrypt, the
\* function raises an error; so no result of an earlier call is returned for it.
\* Expressions are left out, see EveryErrorReported.
FailureReported ==
    Returned /\ reqType # "FLOAT_EVAL_EXPR" /\ Failed(reqType, args) => error

\* The function gets the response code of a call: a call on an operand that does
\* not decrypt ends with an error (comment on TEEInvoker::sendRequest).
EveryErrorReported == Returned /\ ~Intact => error
=============================================================================
