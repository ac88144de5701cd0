---------------------------- MODULE MCRecordLog ----------------------------
(* Requests for TLC: one or two of every layout, each with values of its   *)
(* own, over strings of one and two cells and bulks of one and two items.  *)
EXTENDS RecordLog

Request(op, id, l, r, s, n) == [op |-> op, id |-> id, l |-> l, r |-> r, s |-> s, n |-> n]

MCItemNames == <<"item1", "item2">>
MCLengths == 1..DATA_LENGTH

MCRequests ==
    {Request(1, 1, 0, 0, 0, 0), Request(5, 2, 0, 0, 0, 0), Request(10, 3, 0, 0, 0, 2),
     Request(25, 4, 0, 0, 0, 0), Request(30, 5, 0, 0, 0, 1), Request(29, 6, 0, 0, 0, 0),
     Request(41, 7, 1, 2, 0, 0), Request(46, 8, 2, 1, 0, 0), Request(44, 9, 2, 0, 1, 0),
     Request(45, 10, 1, 2, 3, 0), Request(50, 11, 0, 0, 0, 0), Request(53, 12, 0, 0, 0, 0)}
=============================================================================
