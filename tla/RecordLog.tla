------------------------------ MODULE RecordLog ------------------------------
(***************************************************************************)
(* What is in a log: Recorder::record lays the fields of a request out in  *)
(* the file, one memcpy after another, and may be killed between any two.  *)
(* Two programs read the file later with layouts of their own: the         *)
(* desensitizer, which turns every record into a numbered .ktest file, and *)
(* Replayer::replay_request, which answers the same requests again.        *)
(*                                                                         *)
(* The file is a sequence of cells (bytes, of which a field has as many as *)
(* its constant says); a cell knows the value it is part of, so a field    *)
(* read at the wrong place or with the wrong length is not that value.     *)
(***************************************************************************)
EXTENDS RecordFile, Sequences, Functions

CONSTANTS
    INT, U64,             \* sizeof(int), sizeof(uint64_t)
    ENC_INT32_LENGTH, ENC_FLOAT4_LENGTH, ENC_TIMESTAMP_LENGTH,
    Requests,             \* [op, id, l, r, s, n]: lengths of strings, bulk_size
    ItemNames,            \* names of the items of a bulk operation
    MaxRecords            \* bound: records of a file

VARIABLES
    content,    \* cells of the file
    fresh,      \* the file is not one of an earlier recording
    stage,      \* of record: "idle", "record", "items"
    current,    \* the request it is given
    pending,    \* fields it has yet to copy
    fix_buf,    \* where the next one goes
    completed,  \* requests whose record is complete
    running,    \* the backend is alive
    f,          \* the desensitizer's position
    recnum,     \* records it has retrieved
    ktests,     \* files it has written
    reading,    \* it has not ended
    replay_file, \* the replayer's position
    replayed    \* answers it has given

writerVars == <<content, fresh, stage, current, pending, fix_buf, completed, running>>
readerVars == <<f, recnum, ktests, reading>>
replayVars == <<replay_file, replayed>>
allVars == <<vars, writerVars, readerVars, replayVars>>

-----------------------------------------------------------------------------
(* Requests by the layout of their records.                                *)

CalcOps == {1, 2, 3, 4, 8, 9} \cup {21, 22, 23, 24, 28, 29}
CmpOps == {5, 25, 50}
BulkOps == {10, 30}
StringCmpOps == {41, 46}
SUBSTRING == 44
CONCAT == 45
EXTRACT_YEAR == 53
FloatOps == 21..31
KnownOps ==
    CmpOps \cup BulkOps \cup CalcOps \cup StringCmpOps \cup {SUBSTRING, CONCAT, EXTRACT_YEAR}

\* The size of an operand of a numeric operation.
EncLength(op) ==
    CASE op <= 10 -> ENC_INT32_LENGTH
      [] op \in FloatOps -> ENC_FLOAT4_LENGTH
      [] OTHER -> ENC_TIMESTAMP_LENGTH

-----------------------------------------------------------------------------
(* Writing.                                                                *)

F(name, bytes) == [name |-> name, size |-> bytes]

\* The arguments of rrprintf in the cases of record.
Layout(q) ==
    LET e == EncLength(q.op)
    IN  CASE q.op \in CmpOps ->
               <<F("op", INT), F("left", e), F("right", e), F("cmp", INT), F("resp", INT),
                 F("timestamp", U64)>>
          [] q.op \in BulkOps ->
               <<F("op", INT), F("bulk_size", INT), F("res", e), F("resp", INT),
                 F("timestamp", U64)>>
          [] q.op \in CalcOps ->
               <<F("op", INT), F("left", e), F("right", e), F("res", e), F("resp", INT),
                 F("timestamp", U64)>>
          [] q.op \in StringCmpOps ->
               <<F("op", INT), F("left_length", INT), F("right_length", INT), F("left", q.l),
                 F("right", q.r), F("cmp", INT), F("resp", INT), F("timestamp", U64)>>
          [] q.op = SUBSTRING ->
               <<F("op", INT), F("left_length", INT), F("res_length", INT), F("left", q.l),
                 F("start", ENC_INT32_LENGTH), F("length", ENC_INT32_LENGTH), F("res", q.s),
                 F("resp", INT), F("timestamp", U64)>>
          [] q.op = CONCAT ->
               <<F("op", INT), F("left_length", INT), F("right_length", INT),
                 F("res_length", INT), F("left", q.l), F("right", q.r), F("res", q.s),
                 F("resp", INT), F("timestamp", U64)>>
          [] q.op = EXTRACT_YEAR ->
               <<F("op", INT), F("left", e), F("res", ENC_INT32_LENGTH), F("resp", INT),
                 F("timestamp", U64)>>

\* The items of a bulk operation go to a buffer of their own.
Items(q) ==
    IF q.op \in BulkOps THEN [i \in 1..q.n |-> F(ItemNames[i], EncLength(q.op))] ELSE <<>>

\* Plausible bug: the length of a CONCAT record forgets an int.
RecordLength_FourInts(q) ==
    LET e == EncLength(q.op)
    IN  CASE q.op \in CmpOps -> INT * 3 + e * 2 + U64
          [] q.op \in BulkOps -> INT * 3 + e + U64
          [] q.op \in CalcOps -> INT * 2 + e * 3 + U64
          [] q.op \in StringCmpOps -> INT * 5 + q.l + q.r + U64
          [] q.op = SUBSTRING -> INT * 4 + q.l + q.s + 2 * ENC_INT32_LENGTH + U64
          [] q.op = CONCAT -> INT * 4 + q.l + q.r + q.s + U64
          [] q.op = EXTRACT_YEAR -> INT * 2 + e + ENC_INT32_LENGTH + U64

\* The length record asks get_write_buffer for, in each case.
RecordLength(q) ==
    LET e == EncLength(q.op)
    IN  CASE q.op \in CmpOps -> INT * 3 + e * 2 + U64
          [] q.op \in BulkOps -> INT * 3 + e + U64
          [] q.op \in CalcOps -> INT * 2 + e * 3 + U64
          [] q.op \in StringCmpOps -> INT * 5 + q.l + q.r + U64
          [] q.op = SUBSTRING -> INT * 4 + q.l + q.s + 2 * ENC_INT32_LENGTH + U64
          [] q.op = CONCAT -> INT * 5 + q.l + q.r + q.s + U64
          [] q.op = EXTRACT_YEAR -> INT * 2 + e + ENC_INT32_LENGTH + U64

ItemsLength(q) == q.n * EncLength(q.op)

ASSUME SizesAssumption ==
    {INT, U64, ENC_INT32_LENGTH, ENC_FLOAT4_LENGTH, ENC_TIMESTAMP_LENGTH} \subseteq Nat \ {0}

\* Every buffer record asks for is one the file can grow by.  The ciphertext of a
\* string is never empty: it has an initialization vector and a tag.
ASSUME RequestsAssumption ==
    /\ Requests # {}
    /\ ItemNames \in Seq(STRING)
    /\ \A q \in Requests :
        /\ q.op \in KnownOps
        /\ RecordLength(q) \in Lengths
        /\ q.op \in StringCmpOps \cup {SUBSTRING, CONCAT} => q.l \in Nat \ {0}
        /\ q.op \in StringCmpOps \cup {CONCAT} => q.r \in Nat \ {0}
        /\ q.op \in {SUBSTRING, CONCAT} => q.s \in Nat \ {0}
        /\ q.op \in BulkOps => q.n \in 1..Len(ItemNames) /\ ItemsLength(q) \in Lengths

\* What a field of a request holds: the numbers a reader goes by, and otherwise a
\* value that is the request's own.
Value(q, name) ==
    CASE name = "op" -> <<"int", q.op>>
      [] name = "left_length" -> <<"int", q.l>>
      [] name = "right_length" -> <<"int", q.r>>
      [] name = "res_length" -> <<"int", q.s>>
      [] name = "bulk_size" -> <<"int", q.n>>
      [] OTHER -> <<name, q.id>>

\* A cell is the part-th of a value.  A file reads as zeros where nothing has been
\* written.
Part(value, j) == [value |-> value, part |-> j]
Zero == Part(<<"int", 0>>, 0)
Stale == Part(<<"stale", 0>>, 0)
Cell(k) == IF k \in 0..size - 1 THEN content[k] ELSE Zero

\* ftruncate keeps what is in the file up to its new length.
Truncated == content' = [k \in 0..MaxLength - 1 |-> IF k < size' THEN Cell(k) ELSE Zero]

NewFile ==
    /\ running /\ stage = "idle"
    /\ update_write_fd
    /\ content' = [k \in 0..MaxLength - 1 |-> IF k < size' THEN Stale ELSE Zero]
    /\ fresh' = (size' = 0)
    /\ completed' = <<>>
    /\ UNCHANGED <<stage, current, pending, fix_buf, running, readerVars, replayVars>>

record(q) ==
    /\ running /\ stage = "idle" /\ Len(completed) < MaxRecords
    /\ get_write_buffer(RecordLength(q))
    /\ Truncated
    /\ stage' = "record" /\ current' = q
    /\ pending' = Layout(q) /\ fix_buf' = file_cursor
    /\ UNCHANGED <<fresh, completed, running, readerVars, replayVars>>

\* One memcpy.
rrprintf ==
    /\ running /\ pending # <<>>
    /\ LET field == Head(pending)
       IN  /\ content' = [k \in 0..MaxLength - 1 |->
                             IF k \in fix_buf..fix_buf + field.size - 1
                             THEN Part(Value(current, field.name), k - fix_buf + 1)
                             ELSE content[k]]
           /\ fix_buf' = fix_buf + field.size
    /\ pending' = Tail(pending)
    /\ UNCHANGED <<vars, fresh, stage, current, completed, running, readerVars, replayVars>>

\* Plausible bug: the buffer of the items has one byte for each.
RecordItems_ShortBuffer ==
    /\ running /\ stage = "record" /\ pending = <<>> /\ current.op \in BulkOps
    /\ get_write_buffer(current.n)
    /\ Truncated
    /\ stage' = "items"
    /\ pending' = Items(current) /\ fix_buf' = file_cursor
    /\ UNCHANGED <<fresh, current, completed, running, readerVars, replayVars>>

RecordItems ==
    /\ running /\ stage = "record" /\ pending = <<>> /\ current.op \in BulkOps
    /\ get_write_buffer(ItemsLength(current))
    /\ Truncated
    /\ stage' = "items"
    /\ pending' = Items(current) /\ fix_buf' = file_cursor
    /\ UNCHANGED <<fresh, current, completed, running, readerVars, replayVars>>

RecordReturns ==
    /\ running /\ pending = <<>>
    /\ stage = IF current.op \in BulkOps THEN "items" ELSE "record"
    /\ stage' = "idle"
    /\ completed' = Append(completed, current)
    /\ UNCHANGED <<vars, content, fresh, current, pending, fix_buf, running, readerVars, replayVars>>

\* The backend ends, or is killed in the middle of a record.
Stop ==
    /\ running
    /\ running' = FALSE
    /\ UNCHANGED <<vars, content, fresh, stage, current, pending, fix_buf, completed, readerVars,
                   replayVars>>

-----------------------------------------------------------------------------
(* Reading.                                                                *)

\* The value the cells from pos on are, if they are one value from its first cell
\* to its n-th.
At(pos, n) ==
    LET v == Cell(pos).value
    IN  IF n > 0 /\ \A j \in 1..n : Cell(pos + j - 1) = Part(v, j) THEN v
        ELSE IF \A j \in 1..n : Cell(pos + j - 1) = Zero THEN <<"int", 0>> ELSE <<"torn", 0>>

IntAt(pos) == LET v == At(pos, INT) IN IF v[1] = "int" THEN v[2] ELSE -1

\* fread and memcpy in the cases of retrieve_request_from_file: the operands and the
\* position behind the record.  (The op has been read; p is what follows it.)
Retrieved(op, p) ==
    LET e == EncLength(op)
        E == ENC_INT32_LENGTH
        l == IntAt(p)
        r == IntAt(p + INT)
        s == IntAt(p + 2 * INT)
        b == p + 2 * INT
        c == p + 3 * INT
        d == p + INT * 2 + e + U64
    IN  CASE op \in CmpOps ->
               [operands |-> <<At(p, e), At(p + e, e)>>, next |-> p + INT * 2 + e * 2 + U64]
          [] op \in BulkOps ->
               [operands |-> [i \in 1..l |-> At(d + (i - 1) * e, e)], next |-> d + l * e]
          [] op \in CalcOps ->
               [operands |-> <<At(p, e), At(p + e, e)>>, next |-> p + INT + e * 3 + U64]
          [] op \in StringCmpOps ->
               [operands |-> <<At(b, l), At(b + l, r)>>, next |-> b + l + r + INT * 2 + U64]
          [] op = SUBSTRING ->
               [operands |-> <<At(b, l), At(b + l, E), At(b + l + E, E)>>,
                next |-> b + l + r + INT + E * 2 + U64]
          [] op = CONCAT ->
               [operands |-> <<At(c, l), At(c + l, r)>>, next |-> c + INT + l + r + s + U64]
          [] op = EXTRACT_YEAR ->
               [operands |-> <<At(p, e)>>, next |-> p + INT + e + E + U64]

\* gen_ktest_file: the objects of a .ktest file, with the operands decrypted.  Floats
\* go as integers, under the integers' names and with a type that is 100 less.
Objects(op, v) ==
    LET type == IF op \in FloatOps THEN op - 100 ELSE op
        named(names) == [i \in 1..Len(names) |-> <<names[i], v[i]>>]
    IN  CASE op \in CalcOps ->
               <<<<"int_calc_type", <<"int", type>>>>>>
                 \o named(<<"int_calc_left", "int_calc_right">>)
          [] op \in {5, 25} -> named(<<"int_cmp_left", "int_cmp_right">>)
          [] op \in BulkOps ->
               <<<<"int_bulk_type", <<"int", 10>>>>, <<"int_bulk_size", <<"int", Len(v)>>>>>>
                 \o [i \in 1..Len(v) |-> <<"int_bulk_array", v[i]>>]
          [] op = EXTRACT_YEAR -> named(<<"timestamp_extract_year_t">>)
          [] op = 50 -> named(<<"timestamp_cmp_left", "timestamp_cmp_right">>)
          [] op = SUBSTRING ->
               named(<<"text_substring_str", "text_substring_start", "text_substring_length">>)
          [] op = CONCAT -> named(<<"text_concat_left", "text_concat_right">>)
          [] op \in StringCmpOps -> named(<<"text_cmp_left", "text_cmp_right">>)

\* kTest_toFile: the version and the op come first.
Ktest(number, op, v) ==
    [number |-> number,
     objects |-> <<<<"model_version", <<"int", 1>>>>, <<"op", <<"int", op>>>>>>
                   \o Objects(op, v)]

\* A round of thread_entry: it ends at the end of the file, where nothing has been
\* written (op 0), and at an op it does not know.
thread_entry ==
    /\ ~running /\ reading
    /\ recnum' = recnum + 1
    /\ LET op == IntAt(f)
       IN  IF f >= size \/ op \notin KnownOps
           THEN reading' = FALSE /\ UNCHANGED <<f, ktests>>
           ELSE LET got == Retrieved(op, f + INT)
                IN  /\ f' = got.next
                    /\ ktests' = IF op > 100 /\ op <= 110 THEN ktests
                                 ELSE Append(ktests, Ktest(recnum, op, got.operands))
                    /\ UNCHANGED reading
    /\ UNCHANGED <<vars, writerVars, replayVars>>

\* replay_request with the request that was recorded: the operands it compares, the
\* answer it takes (res or cmp, and resp) and the position behind the record.
Replayed(q, p) ==
    LET e == EncLength(q.op)
        E == ENC_INT32_LENGTH
        l == IntAt(p)
        r == IntAt(p + INT)
        s == IntAt(p + 2 * INT)
        b == p + 2 * INT
        c == p + 3 * INT
        d == p + INT * 2 + e + U64
    IN  CASE q.op \in CmpOps ->
               [compared |-> <<At(p, e), At(p + e, e)>>,
                answer |-> <<At(p + 2 * e, INT), At(p + 2 * e + INT, INT)>>,
                next |-> p + INT * 2 + e * 2 + U64]
          [] q.op \in BulkOps ->
               [compared |-> [i \in 1..l |-> At(d + (i - 1) * e, e)],
                answer |-> <<At(p + INT, e), At(p + INT + e, INT)>>,
                next |-> d + l * e]
          [] q.op \in CalcOps ->
               [compared |-> <<At(p, e), At(p + e, e)>>,
                answer |-> <<At(p + 2 * e, e), At(p + 3 * e, INT)>>,
                next |-> p + INT + e * 3 + U64]
          [] q.op \in StringCmpOps ->
               [compared |-> <<l, r>>,
                answer |-> <<At(b + l + r, INT), At(b + l + r + INT, INT)>>,
                next |-> b + l + r + INT * 2 + U64]
          [] q.op = SUBSTRING ->
               [compared |-> <<At(b, l), At(b + l, E), At(b + l + E, E)>>,
                answer |-> <<At(b + l + 2 * E, r), At(b + l + 2 * E + r, INT)>>,
                next |-> b + l + r + INT + E * 2 + U64]
          [] q.op = CONCAT ->
               [compared |-> <<At(c, l), At(c + l, r)>>,
                answer |-> <<At(c + l + r, s), At(c + l + r + s, INT)>>,
                next |-> c + INT + l + r + s + U64]
          [] q.op = EXTRACT_YEAR ->
               [compared |-> <<At(p, e)>>,
                answer |-> <<At(p + e, E), At(p + e + E, INT)>>,
                next |-> p + INT + e + E + U64]

\* What the fields of the request hold that replay_request compares with the record
\* (of two strings that are compared, the lengths only).
Own(q, names) == [i \in 1..Len(names) |-> Value(q, names[i])]

Operands(q) ==
    CASE q.op \in CmpOps \cup CalcOps \cup StringCmpOps \cup {CONCAT} ->
           Own(q, <<"left", "right">>)
      [] q.op \in BulkOps -> Own(q, SubSeq(ItemNames, 1, q.n))
      [] q.op = SUBSTRING -> Own(q, <<"left", "start", "length">>)
      [] q.op = EXTRACT_YEAR -> Own(q, <<"left">>)

Compared(q) == IF q.op \in StringCmpOps THEN <<q.l, q.r>> ELSE Operands(q)

\* The answer that was recorded.
Answer(q) == Own(q, <<IF q.op \in CmpOps \cup StringCmpOps THEN "cmp" ELSE "res", "resp">>)

\* The same requests are made again, in the order of the log; one that does not
\* match its record is an error of the query and ends it.
replay_request ==
    /\ ~running /\ Len(replayed) < Len(completed)
    /\ <<"RETRY_FAILED">> \notin Range(replayed)
    /\ LET q == completed[Len(replayed) + 1]
           got == Replayed(q, replay_file + INT)
       IN  IF IntAt(replay_file) = q.op /\ got.compared = Compared(q)
           THEN replay_file' = got.next /\ replayed' = Append(replayed, got.answer)
           ELSE UNCHANGED replay_file /\ replayed' = Append(replayed, <<"RETRY_FAILED">>)
    /\ UNCHANGED <<vars, writerVars, readerVars>>

-----------------------------------------------------------------------------
LogInit ==
    /\ Init
    /\ content = [k \in 0..MaxLength - 1 |-> IF k < size THEN Stale ELSE Zero]
    /\ fresh = (size = 0)
    /\ stage = "idle" /\ current = (CHOOSE q \in Requests : TRUE)
    /\ pending = <<>> /\ fix_buf = 0
    /\ completed = <<>> /\ running = TRUE
    /\ f = 0 /\ recnum = 0 /\ ktests = <<>> /\ reading = TRUE
    /\ replay_file = 0 /\ replayed = <<>>

LogNext ==
    \/ NewFile \/ (\E q \in Requests : record(q)) \/ rrprintf \/ RecordItems \/ RecordReturns
    \/ Stop \/ thread_entry \/ replay_request

LogSpec == LogInit /\ [][LogNext]_allVars

-----------------------------------------------------------------------------
(* Properties.                                                             *)

\* Nothing that was recorded completely is lost or shifted, wherever the backend was
\* killed and the file had to grow: the desensitizer's N-th file has the number and
\* the operands of the N-th record, and after the last complete record there is at
\* most one more file, of the record that was interrupted.
LogRecovered ==
    (fresh /\ ~reading)
    => /\ Len(ktests) \in Len(completed)..Len(completed) + 1
       /\ \A k \in 1..Len(completed) :
            ktests[k] = Ktest(k - 1, completed[k].op, Operands(completed[k]))

\* Every request that is repeated is answered by its own record: the replayer finds
\* it where the one before ended, and takes that record's result and resp.
ReplayAligned ==
    fresh => \A k \in 1..Len(replayed) : replayed[k] = Answer(completed[k])
-----------------------------------------------------------------------------
(* Why: the file holds the records of the completed requests one after     *)
(* another, then the fields of the one that is being recorded that have    *)
(* been copied, and zeros.                                                 *)

\* Where the parts of the given sizes begin, from start on, and where the last ends.
Offsets(start, sizes) ==
    LET at[i \in 1..Len(sizes) + 1] == IF i = 1 THEN start ELSE at[i - 1] + sizes[i - 1]
    IN  at

FieldOffsets(start, fields) == Offsets(start, [i \in 1..Len(fields) |-> fields[i].size])

\* The value is at pos, all n cells of it.
HoldsAt(pos, n, value) == \A j \in 1..n : Cell(pos + j - 1) = Part(value, j)

\* The first m fields of a record of q, and the first m items behind them.
HeaderAt(q, pos, m) ==
    \A i \in 1..m :
        HoldsAt(FieldOffsets(pos, Layout(q))[i], Layout(q)[i].size, Value(q, Layout(q)[i].name))
ItemsAt(q, pos, m) ==
    \A i \in 1..m : HoldsAt(pos + RecordLength(q) + (i - 1) * EncLength(q.op), EncLength(q.op),
                            Value(q, ItemNames[i]))

ItemCount(q) == IF q.op \in BulkOps THEN q.n ELSE 0
WrittenLength(q) == RecordLength(q) + ItemCount(q) * EncLength(q.op)
RecordAt(q, pos) == HeaderAt(q, pos, Len(Layout(q))) /\ ItemsAt(q, pos, ItemCount(q))

StartsOf(requests) == Offsets(0, [k \in 1..Len(requests) |-> WrittenLength(requests[k])])
Starts == StartsOf(completed)
Begin == Starts[Len(completed) + 1]

\* Fields, and items, of the record that have been copied.
Copied ==
    CASE stage = "idle" -> [header |-> 0, items |-> 0]
      [] stage = "record" -> [header |-> Len(Layout(current)) - Len(pending), items |-> 0]
      [] stage = "items" -> [header |-> Len(Layout(current)),
                             items |-> ItemCount(current) - Len(pending)]

WrittenTo == IF stage = "idle" THEN file_cursor ELSE fix_buf

FieldNames ==
    {"op", "left_length", "right_length", "res_length", "bulk_size", "left", "right", "start",
     "length", "res", "cmp", "resp", "timestamp"} \cup Range(ItemNames)
Fields == [name : FieldNames, size : Nat]

\* What record has got to.
RecordInv ==
    LET L == Layout(current)
    IN  /\ stage \in {"idle", "record", "items"} /\ current \in Requests
        /\ pending \in Seq(Fields)
        /\ stage = "idle" => pending = <<>> /\ file_cursor = Begin
        /\ stage = "record" =>
             /\ Len(pending) <= Len(L)
             /\ \A i \in 1..Len(pending) : pending[i] = L[Copied.header + i]
             /\ file_cursor = Begin + RecordLength(current)
             /\ fix_buf = FieldOffsets(Begin, L)[Copied.header + 1]
        /\ stage = "items" =>
             /\ current.op \in BulkOps /\ Len(pending) <= ItemCount(current)
             /\ \A i \in 1..Len(pending) : pending[i] = Items(current)[Copied.items + i]
             /\ file_cursor = Begin + WrittenLength(current)
             /\ fix_buf = Begin + RecordLength(current) + Copied.items * EncLength(current.op)

\* The records of the completed requests are there.
CompletedAt ==
    \A k \in 1..Len(completed) :
        /\ RecordAt(completed[k], Starts[k])
        /\ Starts[k] + WrittenLength(completed[k]) <= Begin

\* What is in the file.
ContentInv ==
    /\ size = file_length /\ size <= MaxLength
    /\ CompletedAt
    /\ HeaderAt(current, Begin, Copied.header) /\ ItemsAt(current, Begin, Copied.items)
    /\ \A k \in Nat : k >= WrittenTo => Cell(k) = Zero

\* How far the desensitizer and the replayer have come.
ReadersInv ==
    LET n == Len(completed)
    IN  /\ ktests \in Seq(Range(ktests)) /\ replayed \in Seq(Range(replayed)) /\ f \in Nat
        /\ Len(ktests) <= n + 1
        /\ \A k \in 1..Len(ktests) :
             k <= n => ktests[k] = Ktest(k - 1, completed[k].op, Operands(completed[k]))
        /\ IF Len(ktests) <= n THEN f = Starts[Len(ktests) + 1] ELSE f >= WrittenTo
        /\ IF reading THEN recnum = Len(ktests) ELSE Len(ktests) >= n
        /\ Len(replayed) <= n /\ replay_file = Starts[Len(replayed) + 1]

NotRead ==
    /\ f = 0 /\ recnum = 0 /\ ktests = <<>> /\ reading
    /\ replay_file = 0 /\ replayed = <<>>

LogInv ==
    /\ IInv /\ completed \in Seq(Requests)
    /\ RecordInv
    /\ fresh => ContentInv /\ ReadersInv /\ ReplayAligned
    /\ running => NotRead
=============================================================================
