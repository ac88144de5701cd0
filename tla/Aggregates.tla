----------------------------- MODULE Aggregates -----------------------------
(***************************************************************************)
(* The aggregates of enc_int4 and enc_float4.  SUM and AVG collect the     *)
(* values of a group in an array and add them up in calls of ops_server of *)
(* at most BULK_SIZE items, entry 0 of which carries the sum so far; MAX   *)
(* and MIN fold the group with a comparison.                               *)
(*                                                                         *)
(* A ciphertext is the number it encrypts.  The quotient of an average is  *)
(* kept as the pair of its operands; valid says that the count is a number *)
(* (0/0 is no number for enc_float4).                                      *)
(***************************************************************************)
EXTENDS Integers, Sequences

CONSTANTS
    BULK_SIZE,  \* items of one call of ops_server
    Values,     \* values of a group
    MaxItems,   \* bound: size of a group
    Width       \* numbers wrap around at 2^Width, 32 in the code

VARIABLES
    type,       \* "int" or "float"
    kind,       \* "sum", "avg", "max" or "min"
    items,      \* the array of the group
    i,          \* position of the array iterator
    counter,    \* entries of sum_array in use
    sum_array, num_array,
    sum, num,   \* results of the last calls; num is uninitialized before the first
    valid,      \* the cipher of '1' that counts the items is one
    pc,         \* "first", "loop", "done", "stuck"
    result

vars == <<type, kind, items, i, counter, sum_array, num_array, sum, num, valid, pc, result>>
input == <<type, kind, items>>

Undefined == -1
NoResult == [sum |-> 0, num |-> Undefined, valid |-> FALSE]
Index == 1..BULK_SIZE

\* Integers of Width bits in two's complement.
Wrap(x) == ((x + 2^(Width - 1)) % 2^Width) - 2^(Width - 1)

SumTo(a, n) ==
    LET s[k \in 0..n] == IF k = 0 THEN 0 ELSE s[k - 1] + a[k] IN s[n]

\* plain_int32_sum_bulk and plain_float_sum_bulk.
sum_bulk(size, array) == IF type = "int" THEN Wrap(SumTo(array, size)) ELSE SumTo(array, size)

Init ==
    /\ type \in {"int", "float"} /\ kind \in {"sum", "avg", "max", "min"}
    /\ items \in UNION {[1..n -> Values] : n \in 1..MaxItems}
    /\ i = 1 /\ counter = 0
    /\ sum_array = [k \in Index |-> 0] /\ num_array = [k \in Index |-> 0]
    /\ sum = 0 /\ num = Undefined /\ valid = FALSE
    /\ pc = "first" /\ result = NoResult

Bulk == kind \in {"sum", "avg"}

\* The first value of the group; for an average the cipher of '1' is the value
\* divided by itself, and fills num_array.
First ==
    /\ pc = "first" /\ Bulk
    /\ kind = "avg" /\ type = "int" => items[1] # 0
    /\ sum' = items[1] /\ sum_array' = [sum_array EXCEPT ![1] = items[1]]
    /\ IF kind = "avg"
       THEN valid' = (items[1] # 0) /\ num_array' = [k \in Index |-> 1]
       ELSE UNCHANGED <<valid, num_array>>
    /\ i' = 2 /\ counter' = 1 /\ pc' = "loop"
    /\ UNCHANGED <<input, num, result>>

\* An integer division by zero ends the process that serves the backend, which
\* waits for its answer.
DivisionByZero ==
    /\ pc = "first" /\ kind = "avg" /\ type = "int" /\ items[1] = 0
    /\ pc' = "stuck"
    /\ UNCHANGED <<input, i, counter, sum_array, num_array, sum, num, valid, result>>

\* The sums of the first size entries of both arrays.
Added(size, array1, array2) ==
    /\ sum' = sum_bulk(size, array1)
    /\ num' = IF kind = "avg" THEN sum_bulk(size, array2) ELSE num

\* Plausible bug: num_array[0] is not set to the count so far.
Iterate_NoCarry ==
    /\ pc = "loop" /\ Bulk /\ i <= Len(items)
    /\ LET s == [sum_array EXCEPT ![counter + 1] = items[i]]
           n == IF kind = "avg" THEN [num_array EXCEPT ![counter + 1] = 1] ELSE num_array
       IN  IF counter + 1 = BULK_SIZE
           THEN /\ Added(BULK_SIZE, s, n)
                /\ sum_array' = [s EXCEPT ![1] = sum']
                /\ num_array' = n
                /\ counter' = 1
           ELSE /\ sum_array' = s /\ num_array' = n /\ counter' = counter + 1
                /\ UNCHANGED <<sum, num>>
    /\ i' = i + 1
    /\ UNCHANGED <<input, valid, pc, result>>

\* One turn of the loop: when the array is full it is added up and its first
\* entry carries the sum.
Iterate ==
    /\ pc = "loop" /\ Bulk /\ i <= Len(items)
    /\ LET s == [sum_array EXCEPT ![counter + 1] = items[i]]
           n == IF kind = "avg" THEN [num_array EXCEPT ![counter + 1] = 1] ELSE num_array
       IN  IF counter + 1 = BULK_SIZE
           THEN /\ Added(BULK_SIZE, s, n)
                /\ sum_array' = [s EXCEPT ![1] = sum']
                /\ num_array' = IF kind = "avg" THEN [n EXCEPT ![1] = num'] ELSE n
                /\ counter' = 1
           ELSE /\ sum_array' = s /\ num_array' = n /\ counter' = counter + 1
                /\ UNCHANGED <<sum, num>>
    /\ i' = i + 1
    /\ UNCHANGED <<input, valid, pc, result>>

\* What is left is added up, and an average is divided.
Finish ==
    /\ pc = "loop" /\ Bulk /\ i > Len(items)
    /\ IF counter > 1 THEN Added(counter, sum_array, num_array) ELSE UNCHANGED <<sum, num>>
    /\ result' = [sum |-> sum', num |-> num', valid |-> valid]
    /\ pc' = "done"
    /\ UNCHANGED <<input, i, counter, sum_array, num_array, valid>>

cmp(x, y) == IF x = y THEN 0 ELSE IF x < y THEN -1 ELSE 1

\* enc_int4_max, enc_float4_max, enc_int4_min and enc_float4_min.
Chosen(x, y) ==
    CASE kind = "max" -> IF cmp(x, y) = 1 THEN x ELSE y
      [] kind = "min" /\ type = "int" -> IF cmp(x, y) < 0 THEN x ELSE y
      [] OTHER -> IF cmp(x, y) = 1 THEN y ELSE x

\* The strict transition function starts from the first value.
Fold ==
    /\ pc \in {"first", "loop"} /\ ~Bulk /\ i <= Len(items)
    /\ sum' = IF i = 1 THEN items[1] ELSE Chosen(sum, items[i])
    /\ i' = i + 1 /\ pc' = "loop"
    /\ UNCHANGED <<input, counter, sum_array, num_array, num, valid, result>>

FoldFinish ==
    /\ pc = "loop" /\ ~Bulk /\ i > Len(items)
    /\ result' = [NoResult EXCEPT !.sum = sum] /\ pc' = "done"
    /\ UNCHANGED <<input, i, counter, sum_array, num_array, sum, num, valid>>

Next ==
    \/ First \/ DivisionByZero
    \/ Iterate \/ Finish
    \/ Fold \/ FoldFinish

Spec == Init /\ [][Next]_vars

-----------------------------------------------------------------------------
(* Properties.                                                             *)

Total == SumTo(items, Len(items))

\* The indices the loops use stay within arrays of BULK_SIZE entries.
TypeOK ==
    /\ i \in 1..Len(items) + 1
    /\ counter \in 0..BULK_SIZE - 1
    /\ sum_array \in [Index -> Int] /\ num_array \in [Index -> Int]
    /\ pc \in {"first", "loop", "done", "stuck"}

\* SUM is the sum of the group, whatever its size is with respect to BULK_SIZE
\* (enc_int4_sum_bulk wraps around, as the additions it replaces would).
SumCorrect ==
    pc = "done" /\ kind = "sum" =>
        result.sum = (IF type = "int" THEN Wrap(Total) ELSE Total)

\* AVG divides the sum of the group by the number of its items, for a group of at
\* least two that does not begin with zero (enc_int4_avg_bulk and
\* enc_float4_avg_bulk); the count stays below the wrap-around.
AvgCorrect ==
    pc = "done" /\ kind = "avg" /\ Len(items) >= 2 /\ items[1] # 0 =>
        /\ result.sum = (IF type = "int" THEN Wrap(Total) ELSE Total)
        /\ result.num = Len(items) /\ result.valid

\* MAX and MIN return an item of the group that none exceeds.
ExtremeCorrect ==
    pc = "done" /\ ~Bulk =>
        /\ \E k \in 1..Len(items) : items[k] = result.sum
        /\ \A k \in 1..Len(items) :
             IF kind = "max" THEN items[k] <= result.sum ELSE items[k] >= result.sum

\* The division of the first value by itself gets the cipher of '1' (comment in
\* both avg_bulk functions).
UnitIsOne == pc = "loop" /\ kind = "avg" => valid

\* AVG of a group that does not begin with zero is its average, as the tests
\* compare it.
AvgIsAverage ==
    pc = "done" /\ kind = "avg" /\ items[1] # 0 => result.num = Len(items)
=============================================================================
