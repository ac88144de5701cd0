---------------------------- MODULE Computations ----------------------------
(***************************************************************************)
(* The computations behind the SQL functions: an expression, an aggregate, *)
(* two calls of any operators in a row, or one call of the functions on    *)
(* texts, dates and conversions.  A behaviour is about one of the four; the*)
(* variables of the others keep a fixed value.                             *)
(***************************************************************************)
EXTENDS Conversions

CONSTANTS Exprs, Phrases, MaxSymbols, BULK_SIZE, Values, MaxItems, Width, Commands, Numbers, Bad, MaxCalls

\* A call of ops_server takes two items at least; the values of a group are numbers
\* of Width bits, and it has fewer items than such a number can count.
ASSUME AggregatesAssumption ==
    /\ BULK_SIZE \in Nat /\ BULK_SIZE >= 2
    /\ 2^(Width - 1) \in Nat \ {0} /\ 2^Width = 2 * 2^(Width - 1)
    /\ Values \subseteq -(2^(Width - 1))..2^(Width - 1) - 1
    /\ MaxItems \in Nat /\ MaxItems < 2^(Width - 1)

\* Numbers can be compared, and a ciphertext that does not decrypt is none of them.
ASSUME OperatorsAssumption == Numbers \subseteq Int /\ Bad \notin Numbers

VARIABLES
    mode,
    expr, eI, op_stack, out_queue, expect_op, ePc, stack, eResult,
    type, aKind, items, aI, counter, sum_array, num_array, sum, num, valid, aPc, aResult,
    oPc, calls, reqType, args, resp, out, rel, error, oResult

eVars == <<expr, eI, op_stack, out_queue, expect_op, ePc, stack, eResult>>
aVars == <<type, aKind, items, aI, counter, sum_array, num_array, sum, num, valid, aPc, aResult>>
oVars == <<oPc, calls, reqType, args, resp, out, rel, error, oResult>>
computeVars == <<mode, eVars, aVars, oVars, pVars>>

E == INSTANCE Expression WITH i <- eI, pc <- ePc, result <- eResult
A == INSTANCE Aggregates WITH kind <- aKind, i <- aI, pc <- aPc, result <- aResult
O == INSTANCE Operators WITH pc <- oPc, result <- oResult

\* An expression is a text of its characters, and its tree is its meaning according
\* to the grammar.
ASSUME ExpressionsAssumption ==
    /\ MaxSymbols \in Nat
    /\ \A e \in Exprs : e.text \in Seq(E!Operands \cup E!Binary \cup {"(", ")"})
    /\ \A p \in Phrases : p.text \in Seq(E!Operands \cup E!Binary \cup {"(", ")"})
    /\ E!Grammar(Phrases)
    /\ \A e \in Exprs :
         e.tree # E!Malformed => \E l \in 0..3 : E!Phrase(e.text, l, e.tree) \in Phrases

eIdle ==
    /\ expr = 0 /\ eI = 0 /\ op_stack = 0 /\ out_queue = 0 /\ expect_op = 0
    /\ ePc = 0 /\ stack = 0 /\ eResult = 0
aIdle ==
    /\ type = 0 /\ aKind = 0 /\ items = 0 /\ aI = 0 /\ counter = 0 /\ sum_array = 0
    /\ num_array = 0 /\ sum = 0 /\ num = 0 /\ valid = 0 /\ aPc = 0 /\ aResult = 0
oIdle ==
    /\ oPc = 0 /\ calls = 0 /\ reqType = 0 /\ args = 0 /\ resp = 0 /\ out = 0
    /\ rel = 0 /\ error = 0 /\ oResult = 0

ComputeInit ==
    /\ FunctionInit
    /\ \/ mode = "expression" /\ E!Init /\ aIdle /\ oIdle
       \/ mode = "aggregate" /\ A!Init /\ eIdle /\ oIdle
       \/ mode = "operators" /\ O!Init /\ eIdle /\ aIdle
       \/ mode = "function" /\ eIdle /\ aIdle /\ oIdle

ComputeNext ==
    /\ UNCHANGED mode
    /\ \/ mode = "expression" /\ E!Next /\ UNCHANGED <<aVars, oVars, pVars>>
       \/ mode = "aggregate" /\ A!Next /\ UNCHANGED <<eVars, oVars, pVars>>
       \/ mode = "operators" /\ O!Next /\ UNCHANGED <<eVars, aVars, pVars>>
       \/ mode = "function" /\ Function /\ UNCHANGED <<eVars, aVars, oVars>>

ComputeSpec == ComputeInit /\ [][ComputeNext]_computeVars

-----------------------------------------------------------------------------
(* The properties of the four.                                             *)

\* An expression is computed as its tree says, without leaving the backend, running
\* out of operands or filling the queue (convert_expr, plain_float_eval_expr).
ExpressionRight ==
    mode = "expression" => E!ComputesExpression /\ E!WellFormedCompletes /\ E!QueueFits

\* SUM, AVG, MAX and MIN of a group are those of its items, at every size of the
\* group with respect to BULK_SIZE (enc_int4_sum_bulk and the other aggregates).
AggregateRight == mode = "aggregate" => A!SumCorrect /\ A!AvgCorrect /\ A!ExtremeCorrect

\* A call returns what its own command makes of its own operands, whatever the call
\* before left in the buffer, or raises an error when an operand that is checked
\* does not decrypt (handler, copyResultFrom).
OperatorRight == mode = "operators" => O!OwnResult /\ O!FailureReported
=============================================================================
