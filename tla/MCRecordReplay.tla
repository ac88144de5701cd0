--------------------------- MODULE MCRecordReplay ---------------------------
(* Requests for TLC: one or two of every kind that replay tells apart.     *)
EXTENDS RecordReplay, TLC

Req(op, size, args) == [op |-> op, size |-> size, args |-> args]

\* Calls whose records have one size each, and strings of equal lengths.
MixedRequests == {Req("fixed", 1, "x"), Req("strcmp", 1, "x"), Req("strcmp", 1, "y")}

\* Calls that differ in their sizes, and the two kinds that are not recorded.
QueryRequests ==
    {Req("bulk", 1, "x"), Req("bulk", 2, "x"), Req("eval", 1, "x"), Req("enc", 1, "x")}

\* Calls that differ in operation, size or arguments, all recorded.
BulkRequests ==
    {Req("bulk", 1, "x"), Req("bulk", 2, "x"), Req("bulk", 1, "y"), Req("strcalc", 1, "x")}

Symmetry == Permutations(Sessions) \cup Permutations(Queries) \cup Permutations(Results)
=============================================================================
