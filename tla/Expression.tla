----------------------------- MODULE Expression -----------------------------
(***************************************************************************)
(* enc_float4_eval_expr: an arithmetic expression over numbered arguments  *)
(* is turned into postfix form in the backend (convert_expr, a shunting    *)
(* yard) and evaluated on a stack in ops_server (plain_float_eval_expr).   *)
(*                                                                         *)
(* A character of the expression, a symbol of the postfix form and a value *)
(* on the evaluation stack are model data: an operand is its digit, and a *)
(* value is the syntax tree of the computation that produces it, so that   *)
(* the value of the expression is right exactly when the tree is.          *)
(***************************************************************************)
EXTENDS Integers, Sequences, FiniteSets

CONSTANTS
    Exprs,      \* the expressions: records [text, tree], a text and its meaning
    MaxSymbols  \* EXPR_STACK_MAX_SIZE, the length of both arrays

Operands == {"1", "2", "3", "4", "5", "6", "7", "8"}
Binary == {"+", "-", "*", "/", "%", "^"}
Arg(n) == <<"arg", n>>
Neg(x) == <<"#", x>>
Bin(c, x, y) == <<c, x, y>>

VARIABLES
    expr,       \* the call: [text, tree]
    i,          \* index of the next character of the text
    op_stack,   \* operators and open parentheses, the top is the last one
    out_queue,  \* postfix form: operands and operators
    expect_op,  \* convert_expr: the last character was an operand
    pc,         \* "convert", "drain", "eval", "done", or why the call stopped
    stack,      \* evaluation stack of plain_float_eval_expr
    result

vars == <<expr, i, op_stack, out_queue, expect_op, pc, stack, result>>
convertVars == <<op_stack, out_queue, expect_op>>

NoResult == <<"none">>
Last(s) == s[Len(s)]
Pop(s) == SubSeq(s, 1, Len(s) - 1)

Init ==
    /\ expr \in Exprs
    /\ i = 1 /\ op_stack = <<>> /\ out_queue = <<>> /\ expect_op = FALSE
    /\ pc = "convert" /\ stack = <<>> /\ result = NoResult

get_precedance(op) ==
    CASE op \in {"+", "-"} -> 0
      [] op \in {"*", "/", "%"} -> 1
      [] op = "^" -> 2
      [] OTHER -> -1

\* Plausible bug: operators of equal precedence are not moved.
Yields_Strict(op, c) == op # "(" /\ c # "^" /\ get_precedance(op) > get_precedance(c)

\* The operators the loop of an incoming operator c moves to the output: the
\* longest run at the top of the stack of operators that bind at least as
\* tightly, none for "^".
Yields(op, c) == op # "(" /\ c # "^" /\ get_precedance(op) >= get_precedance(c)

Keep(s, c) ==
    CHOOSE k \in 0..Len(s) :
        /\ \A j \in k + 1..Len(s) : Yields(s[j], c)
        /\ k > 0 => ~Yields(s[k], c)

Reversed(s) == [j \in 1..Len(s) |-> s[Len(s) + 1 - j]]

Char == expr.text[i]
Reading == pc = "convert" /\ i <= Len(expr.text)

Operand ==
    /\ Reading /\ Char \in Operands
    /\ out_queue' = Append(out_queue, Char)
    /\ expect_op' = TRUE /\ i' = i + 1
    /\ UNCHANGED <<expr, op_stack, pc, stack, result>>

\* A minus where no operator is expected becomes the unary "#", after the
\* operators that yield to a minus have been moved.
Operator ==
    /\ Reading /\ Char \in Binary
    /\ LET k == Keep(op_stack, Char)
           c == IF ~expect_op /\ Char = "-" THEN "#" ELSE Char
       IN  /\ out_queue' = out_queue \o Reversed(SubSeq(op_stack, k + 1, Len(op_stack)))
           /\ op_stack' = Append(SubSeq(op_stack, 1, k), c)
    /\ expect_op' = FALSE /\ i' = i + 1
    /\ UNCHANGED <<expr, pc, stack, result>>

Open ==
    /\ Reading /\ Char = "("
    /\ op_stack' = Append(op_stack, "(")
    /\ expect_op' = FALSE /\ i' = i + 1
    /\ UNCHANGED <<expr, out_queue, pc, stack, result>>

\* Moves operators up to the matching parenthesis; without one the backend
\* calls exit(0).
Close ==
    /\ Reading /\ Char = ")"
    /\ \E k \in 1..Len(op_stack) :
        /\ op_stack[k] = "(" /\ \A j \in k + 1..Len(op_stack) : op_stack[j] # "("
        /\ out_queue' = out_queue \o Reversed(SubSeq(op_stack, k + 1, Len(op_stack)))
        /\ op_stack' = SubSeq(op_stack, 1, k - 1)
    /\ expect_op' = FALSE /\ i' = i + 1
    /\ UNCHANGED <<expr, pc, stack, result>>

CloseMismatched ==
    /\ Reading /\ Char = ")" /\ \A k \in 1..Len(op_stack) : op_stack[k] # "("
    /\ pc' = "exit"
    /\ UNCHANGED <<expr, i, convertVars, stack, result>>

\* End of the text: the rest of the operators follow, and the postfix form is
\* sent to ops_server; a parenthesis left over ends the backend.
Drain ==
    /\ pc = "convert" /\ i > Len(expr.text)
    /\ \/ /\ \A k \in 1..Len(op_stack) : op_stack[k] # "("
          /\ out_queue' = out_queue \o Reversed(op_stack)
          /\ op_stack' = <<>> /\ pc' = "eval" /\ i' = 1
       \/ /\ \E k \in 1..Len(op_stack) : op_stack[k] = "("
          /\ pc' = "exit"
          /\ UNCHANGED <<i, op_stack, out_queue>>
    /\ UNCHANGED <<expr, expect_op, stack, result>>

-----------------------------------------------------------------------------
(* ops_server: plain_float_eval_expr reads the postfix form.               *)

Evaluating == pc = "eval" /\ i <= Len(out_queue)
Symbol == out_queue[i]

PushOperand ==
    /\ Evaluating /\ Symbol \in Operands
    /\ stack' = Append(stack, Arg(Symbol)) /\ i' = i + 1
    /\ UNCHANGED <<expr, convertVars, pc, result>>

\* "Missing operand!" is printed and the code goes on below the array: what it
\* computes from there is undefined, and the call counts as broken.
Underflow ==
    /\ Evaluating /\ Symbol \notin Operands
    /\ Len(stack) < (IF Symbol = "#" THEN 1 ELSE 2)
    /\ pc' = "underflow"
    /\ UNCHANGED <<expr, i, convertVars, stack, result>>

Negate ==
    /\ Evaluating /\ Symbol = "#" /\ Len(stack) >= 1
    /\ stack' = Append(Pop(stack), Neg(Last(stack))) /\ i' = i + 1
    /\ UNCHANGED <<expr, convertVars, pc, result>>

\* op1 is on top, op2 below it: the value is op2 <c> op1.
Apply ==
    /\ Evaluating /\ Symbol \in Binary /\ Len(stack) >= 2
    /\ LET op1 == Last(stack)
           op2 == Last(Pop(stack))
       IN  stack' = Append(Pop(Pop(stack)), Bin(Symbol, op2, op1))
    /\ i' = i + 1
    /\ UNCHANGED <<expr, convertVars, pc, result>>

\* The value on top is encrypted and returned, whatever lies below it.
Return ==
    /\ pc = "eval" /\ i > Len(out_queue) /\ stack # <<>>
    /\ result' = Last(stack) /\ pc' = "done"
    /\ UNCHANGED <<expr, i, convertVars, stack>>

Next ==
    \/ Operand \/ Operator \/ Open \/ Close \/ CloseMismatched \/ Drain
    \/ PushOperand \/ Negate \/ Apply \/ Underflow \/ Return

Spec == Init /\ [][Next]_vars

-----------------------------------------------------------------------------
(* Properties.                                                             *)

Malformed == <<"malformed">>

\* The usual meaning of texts.  A phrase is a text of a level, the precedence of its
\* last operator or 3 for an operand and for parentheses, with its tree.
Phrase(text, level, tree) == [text |-> text, level |-> level, tree |-> tree]

\* An operator has phrases on both sides: the same precedence to the left and a
\* higher one to the right, or to the right of "^" the same and to its left the
\* highest.  A minus does not follow a parenthesis.
Combines(c, left, right) ==
    IF c = "^" THEN left = 3 /\ right >= 2
    ELSE left >= get_precedance(c) /\ right > get_precedance(c)

Enclosed(s) == Len(s) >= 3 /\ s[1] = "(" /\ s[Len(s)] = ")"

\* P is a set of phrases with their parts: operands, phrases in parentheses, negated
\* operands in parentheses, and phrases with an operator between them.
Grammar(P) ==
    \A p \in P :
        LET s == p.text
            n == Len(s)
        IN  \/ p.level = 3 /\ n = 1 /\ s[1] \in Operands /\ p.tree = Arg(s[1])
            \/ /\ p.level = 3 /\ Enclosed(s)
               /\ \E l \in 0..3 : Phrase(SubSeq(s, 2, n - 1), l, p.tree) \in P
            \/ /\ p.level = 3 /\ Enclosed(s) /\ s[2] = "-" /\ p.tree = Neg(p.tree[2])
               /\ Phrase(SubSeq(s, 3, n - 1), 3, p.tree[2]) \in P
            \/ \E k \in 2..n - 1, left \in 0..3, right \in 0..3 :
                /\ s[k] \in Binary /\ p.level = get_precedance(s[k])
                /\ Combines(s[k], left, right) /\ (s[k] = "-" => s[k - 1] # ")")
                /\ p.tree = Bin(s[k], p.tree[2], p.tree[3])
                /\ Phrase(SubSeq(s, 1, k - 1), left, p.tree[2]) \in P
                /\ Phrase(SubSeq(s, k + 1, n), right, p.tree[3]) \in P

\* The positions of operands and operators.
Symbols(s) == {k \in 1..Len(s) : s[k] \notin {"(", ")"}}

\* The state of a call is well formed.
TypeOK ==
    /\ expr.text \in Seq(Operands \cup Binary \cup {"(", ")"})
    /\ i \in 1..Len(expr.text) + Len(out_queue) + 1
    /\ \A k \in 1..Len(op_stack) : op_stack[k] \in Binary \cup {"(", "#"}
    /\ \A k \in 1..Len(out_queue) : out_queue[k] \in Operands \cup Binary \cup {"#"}
    /\ expect_op \in BOOLEAN
    /\ pc \in {"convert", "eval", "done", "exit", "underflow"}

\* enc_float4_eval_expr computes the expression it is given: the tree of the
\* value ops_server returns is the tree of the text, with the usual precedence
\* and associativity (convert_expr followed by plain_float_eval_expr).
ComputesExpression ==
    pc = "done" /\ expr.tree # Malformed => result = expr.tree

\* A well-formed expression neither ends the backend (exit in convert_expr) nor
\* takes an operand from an empty stack (plain_float_eval_expr).
WellFormedCompletes ==
    expr.tree # Malformed => pc \notin {"exit", "underflow"}

\* The postfix form of an expression with fewer than EXPR_STACK_MAX_SIZE
\* operands and operators leaves room for its terminating zero in out_queue and
\* in s_postfix.
QueueFits ==
    Cardinality(Symbols(expr.text)) < MaxSymbols => Len(out_queue) < MaxSymbols
=============================================================================
