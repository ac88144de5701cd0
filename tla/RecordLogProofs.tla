--------------------------- MODULE RecordLogProofs ---------------------------
(***************************************************************************)
(* Recording writes the file only through RecordFile; and for every size   *)
(* of the fields, what the two programs read back from a log is what was   *)
(* recorded, wherever the backend was killed.                              *)
(***************************************************************************)
EXTENDS RecordLog, Induction, TLAPS

\* Zenon proves the steps that name no other prover.
USE Zenon

-----------------------------------------------------------------------------
(* The file.                                                               *)

\* The inductive invariant holds when a Recorder is constructed.
LEMMA InitIInv == Init => IInv
BY SMT, LengthsAssumption DEF Init, IInv, TypeOK, NoRange

\* Every step of a Recorder preserves the inductive invariant.
LEMMA StepIInv == IInv /\ [Next]_vars => IInv'
<1> SUFFICES ASSUME IInv, [Next]_vars PROVE IInv'
    OBVIOUS
<1> USE LengthsAssumption DEF IInv, TypeOK
<1>1. CASE update_write_fd
    BY SMT, <1>1 DEF update_write_fd, NoRange
<1>2. ASSUME NEW length \in Lengths, get_write_buffer(length) PROVE IInv'
    <2>1. length \in Nat /\ length <= DATA_LENGTH
        BY SMT
    <2>2. range' \in [start : Nat, end : Nat] /\ range'.end = file_cursor'
        BY SMT, <1>2, <2>1 DEF get_write_buffer
    <2>3. CASE Extended(length)
        BY SMT, <1>2, <2>1, <2>2, <2>3 DEF get_write_buffer, Extended, NeedsExtension
    <2>4. CASE Fits(length)
        BY SMT, <1>2, <2>1, <2>2, <2>4 DEF get_write_buffer, Fits, NeedsExtension
    <2> QED
        BY <1>2, <2>3, <2>4 DEF get_write_buffer
<1>3. CASE UNCHANGED vars
    BY <1>3 DEF vars
<1> QED
    BY <1>1, <1>2, <1>3 DEF Next

\* For every DATA_LENGTH and all records no longer than it, what a Recorder
\* writes lies in its mapping and in its file.
THEOREM WritesStayInFile == Spec => []BufferInFile
<1>1. IInv => BufferInFile
    BY SMT DEF IInv, TypeOK, BufferInFile
<1> QED
    BY InitIInv, StepIInv, <1>1, PTL DEF Spec

-----------------------------------------------------------------------------
(* The recorder and the programs that read the log.                        *)

\* A step of the programs around the log is a step of the file or leaves it alone:
\* record only uses get_write_buffer, with lengths the file can grow by.
LEMMA LogSteps ==
    ASSUME current \in Requests, [LogNext]_allVars
    PROVE  [Next]_vars
<1>1. CASE UNCHANGED allVars
  BY <1>1 DEF allVars
<1>2. CASE NewFile
  BY <1>2 DEF NewFile, Next
<1>3. ASSUME NEW q \in Requests, record(q) PROVE Next
  <2>1. RecordLength(q) \in Lengths
    BY RequestsAssumption
  <2>. QED BY SMTT(60), <1>3, <2>1 DEF record, Next
<1>4. CASE RecordItems
  <2>1. ItemsLength(current) \in Lengths
    BY SMTT(60), <1>4, RequestsAssumption DEF RecordItems
  <2>. QED BY SMTT(60), <1>4, <2>1 DEF RecordItems, Next
<1>5. CASE rrprintf \/ RecordReturns \/ Stop \/ thread_entry \/ replay_request
  BY <1>5 DEF rrprintf, RecordReturns, Stop, thread_entry, replay_request
<1>. QED BY SMTT(60), <1>1, <1>2, <1>3, <1>4, <1>5 DEF LogNext

\* current is always one of the requests.
LEMMA CurrentRequest == LogSpec => [](current \in Requests)
<1>1. LogInit => current \in Requests
  <2>1. (CHOOSE q \in Requests : TRUE) \in Requests
    BY SMTT(60), RequestsAssumption
  <2>. QED BY <2>1 DEF LogInit
<1>2. current \in Requests /\ [LogNext]_allVars => (current \in Requests)'
  BY DEF LogNext, allVars, writerVars, NewFile, record, rrprintf, RecordItems, RecordReturns,
         Stop, thread_entry, replay_request
<1>. QED BY <1>1, <1>2, PTL DEF LogSpec

\* The recorder, with everything around it, implements the file.
THEOREM LogImplementsFile == LogSpec => Spec
<1>1. LogInit => Init
  BY DEF LogInit
<1>2. current \in Requests /\ [LogNext]_allVars => [Next]_vars
  BY LogSteps
<1>. QED BY <1>1, <1>2, CurrentRequest, PTL DEF LogSpec, Spec

\* Hence copying the fields of a request stays in the mapping, and the mapping in the
\* file, in every recording.
THEOREM RecordingStaysInFile == LogSpec => []BufferInFile
BY LogImplementsFile, WritesStayInFile, PTL

-----------------------------------------------------------------------------
(* Positions of parts one behind another.                                  *)

\* The positions of parts one behind another: each begins where the one before ends.
Consecutive(at, start, sizes, n) ==
    /\ at \in [1..n + 1 -> Nat] /\ at[1] = start
    /\ \A i \in 1..n : at[i + 1] = at[i] + sizes[i]

\* There are such positions.
LEMMA ConsecutiveExists ==
    ASSUME NEW start \in Nat, NEW n \in Nat, NEW sizes, \A i \in 1..n : sizes[i] \in Nat
    PROVE  \E at : Consecutive(at, start, sizes, n)
<1> DEFINE S == {m \in Nat : m <= n => \E at : Consecutive(at, start, sizes, m)}
<1>1. 0 \in S
  <2> DEFINE at == [i \in 1..1 |-> start]
  <2>1. Consecutive(at, start, sizes, 0)
    BY SMT DEF Consecutive
  <2> QED
    BY <2>1, SMT
<1>2. ASSUME NEW m \in Nat, m \in S, m + 1 <= n
      PROVE  \E bt : Consecutive(bt, start, sizes, m + 1)
  <2>1. PICK at : Consecutive(at, start, sizes, m)
    BY <1>2, SMT
  <2> DEFINE bt == [i \in 1..m + 2 |-> IF i = m + 2 THEN at[m + 1] + sizes[m + 1] ELSE at[i]]
  <2>2. at[m + 1] \in Nat /\ sizes[m + 1] \in Nat
    BY <1>2, <2>1, SMT DEF Consecutive
  <2>3. bt \in [1..m + 2 -> Nat] /\ bt[1] = start
    BY <2>1, <2>2, SMT DEF Consecutive
  <2>4. \A i \in 1..m + 1 : bt[i + 1] = bt[i] + sizes[i]
    BY <2>1, SMT DEF Consecutive
  <2>5. (m + 1) + 1 = m + 2
    BY SMT
  <2> HIDE DEF bt
  <2> QED
    BY <2>3, <2>4, <2>5 DEF Consecutive
<1>3. \A m \in Nat : m \in S => m + 1 \in S
  BY <1>2, SMT
<1>4. n \in S
  <2> HIDE DEF S
  <2> QED
    BY <1>1, <1>3, NaturalInduction
<1> QED
  BY <1>4, SMT

\* There is one way to place them.
LEMMA ConsecutiveUnique ==
    ASSUME NEW start, NEW n \in Nat, NEW sizes, NEW at, NEW bt, NEW m \in Nat, m <= n,
           Consecutive(at, start, sizes, n), Consecutive(bt, start, sizes, m)
    PROVE  \A i \in 1..m + 1 : at[i] = bt[i]
<1> DEFINE S == {i \in Nat : i <= m => at[i + 1] = bt[i + 1]}
<1>1. 0 \in S
  BY SMT DEF Consecutive
<1>2. \A i \in Nat : i \in S => i + 1 \in S
  BY SMTT(30) DEF Consecutive
<1>3. \A i \in Nat : i \in S
  <2> HIDE DEF S
  <2> QED
    BY <1>1, <1>2, NaturalInduction
<1>4. ASSUME NEW i \in 1..m + 1 PROVE at[i] = bt[i]
  <2>1. i - 1 \in Nat /\ i - 1 <= m /\ (i - 1) + 1 = i
    BY SMT
  <2> QED
    BY <1>3, <2>1
<1> QED
  BY <1>4

\* Later parts begin later.
LEMMA ConsecutiveMonotone ==
    ASSUME NEW start, NEW n \in Nat, NEW sizes, \A i \in 1..n : sizes[i] \in Nat, NEW at,
           Consecutive(at, start, sizes, n), NEW i \in 1..n + 1, NEW k \in 1..n + 1, i <= k
    PROVE  at[i] <= at[k]
<1> DEFINE S == {d \in Nat : i + d <= n + 1 => at[i] <= at[i + d]}
<1>1. 0 \in S
  <2>1. at[i] \in Nat /\ i + 0 = i
    BY SMT DEF Consecutive
  <2> QED
    BY <2>1, SMT
<1>2. ASSUME NEW d \in Nat, d \in S, i + (d + 1) <= n + 1 PROVE at[i] <= at[i + (d + 1)]
  <2>1. i + d \in 1..n /\ at[(i + d) + 1] = at[i + d] + sizes[i + d] /\ at[i] <= at[i + d]
    BY <1>2, SMT DEF Consecutive
  <2>2. (i + d) + 1 = i + (d + 1) /\ at[i] \in Nat /\ at[i + d] \in Nat /\ sizes[i + d] \in Nat
    BY <1>2, <2>1, SMT DEF Consecutive
  <2> QED
    BY <2>1, <2>2, SMT
<1>3. \A d \in Nat : d \in S => d + 1 \in S
  BY <1>2, SMT
<1>4. k - i \in S
  <2> HIDE DEF S
  <2>1. k - i \in Nat
    BY SMT
  <2> QED
    BY <1>1, <1>3, <2>1, NaturalInduction
<1>5. i + (k - i) = k /\ i + (k - i) <= n + 1
  BY SMT
<1> QED
  BY <1>4, <1>5

\* Offsets places them.
LEMMA OffsetsConsecutive ==
    ASSUME NEW start \in Nat, NEW sizes, Len(sizes) \in Nat,
           \A i \in 1..Len(sizes) : sizes[i] \in Nat
    PROVE  Consecutive(Offsets(start, sizes), start, sizes, Len(sizes))
<1> DEFINE n == Len(sizes)
           Body(at) == [i \in 1..n + 1 |-> IF i = 1 THEN start ELSE at[i - 1] + sizes[i - 1]]
<1>1. PICK bt : Consecutive(bt, start, sizes, n)
  BY ConsecutiveExists
<1>2. bt = Body(bt)
  <2>1. \A i \in 1..n + 1 : bt[i] = IF i = 1 THEN start ELSE bt[i - 1] + sizes[i - 1]
    <3>1. ASSUME NEW i \in 1..n + 1, i # 1 PROVE bt[i] = bt[i - 1] + sizes[i - 1]
      <4>1. i - 1 \in 1..n /\ (i - 1) + 1 = i
        BY <3>1, SMT
      <4> QED
        BY <1>1, <4>1 DEF Consecutive
    <3> QED
      BY <1>1, <3>1 DEF Consecutive
  <2>2. bt = [i \in 1..n + 1 |-> bt[i]]
    BY <1>1 DEF Consecutive
  <2> QED
    BY <2>1, <2>2
<1>3. Offsets(start, sizes) = CHOOSE at : at = Body(at)
  BY DEF Offsets
<1>4. PICK at : at = Offsets(start, sizes) /\ at = Body(at)
  <2> HIDE DEF Body
  <2> QED
    BY <1>2, <1>3
<1>5. at[1] = start /\ \A i \in 1..n : at[i + 1] = at[i] + sizes[i]
  <2>1. \A i \in 1..n + 1 : at[i] = IF i = 1 THEN start ELSE at[i - 1] + sizes[i - 1]
    BY <1>4
  <2>2. 1 \in 1..n + 1 /\ \A i \in 1..n : i + 1 \in 1..n + 1 /\ i + 1 # 1 /\ (i + 1) - 1 = i
    BY SMT
  <2> QED
    BY <2>1, <2>2
<1>6. at \in [1..n + 1 -> Nat]
  <2> DEFINE S == {i \in Nat : i <= n => at[i + 1] \in Nat}
  <2>1. 0 \in S
    BY <1>5, SMT
  <2>2. \A i \in Nat : i \in S => i + 1 \in S
    BY <1>5, SMTT(30)
  <2>3. \A i \in Nat : i \in S
    <3> HIDE DEF S
    <3> QED
      BY <2>1, <2>2, NaturalInduction
  <2>4. ASSUME NEW i \in 1..n + 1 PROVE at[i] \in Nat
    <3>1. i - 1 \in Nat /\ i - 1 <= n /\ (i - 1) + 1 = i
      BY SMT
    <3> QED
      BY <2>3, <3>1
  <2>5. at = [i \in 1..n + 1 |-> at[i]]
    BY <1>4
  <2> QED
    BY <2>4, <2>5
<1> QED
  BY <1>4, <1>5, <1>6 DEF Consecutive

Sized(L) == Len(L) \in Nat /\ \A i \in 1..Len(L) : L[i].size \in Nat

\* Where the fields of a record begin.
LEMMA FieldsConsecutive ==
    ASSUME NEW p \in Nat, NEW L, Sized(L)
    PROVE  /\ FieldOffsets(p, L) \in [1..Len(L) + 1 -> Nat]
           /\ FieldOffsets(p, L)[1] = p
           /\ \A i \in 1..Len(L) :
                FieldOffsets(p, L)[i + 1] = FieldOffsets(p, L)[i] + L[i].size
           /\ \A i, k \in 1..Len(L) + 1 : i <= k => FieldOffsets(p, L)[i] <= FieldOffsets(p, L)[k]
<1> DEFINE sizes == [i \in 1..Len(L) |-> L[i].size]
           at == FieldOffsets(p, L)
<1>1. Len(L) \in Nat /\ Len(sizes) = Len(L)
  BY SMT DEF Sized
<1>2. \A i \in 1..Len(L) : sizes[i] = L[i].size /\ sizes[i] \in Nat
  BY DEF Sized
<1>3. Consecutive(at, p, sizes, Len(L))
  <2> HIDE DEF sizes
  <2>1. Consecutive(Offsets(p, sizes), p, sizes, Len(sizes))
    BY <1>1, <1>2, OffsetsConsecutive
  <2> QED
    BY <1>1, <2>1 DEF FieldOffsets, sizes
<1>4. \A i, k \in 1..Len(L) + 1 : i <= k => at[i] <= at[k]
  <2> HIDE DEF sizes, at
  <2> QED
    BY <1>1, <1>2, <1>3, ConsecutiveMonotone
<1> QED
  BY <1>2, <1>3, <1>4 DEF Consecutive

\* F makes a field.
LEMMA FieldIn ==
    ASSUME NEW name \in FieldNames, NEW bytes \in Nat
    PROVE  F(name, bytes) \in Fields
BY DEF F, Fields

\* A record of q at p has n fields, which fill its buffer.
FieldsOf(q, p, n) ==
    /\ n \in Nat /\ Len(Layout(q)) = n
    /\ Layout(q) \in Seq(Fields)
    /\ \A i \in 1..n : Layout(q)[i].size \in Nat
    /\ FieldOffsets(p, Layout(q))[n + 1] = p + RecordLength(q)

\* The fields of the record of a comparison of numbers.
LEMMA CmpFields ==
    ASSUME NEW q \in Requests, q.op \in CmpOps, NEW p \in Nat, NEW e \in Nat, e = EncLength(q.op)
    PROVE  /\ FieldsOf(q, p, 6)
           /\ FieldOffsets(p, Layout(q))[2] = p + INT
           /\ RecordLength(q) = INT * 3 + e * 2 + U64
           /\ \A m \in 0..6 : HeaderAt(q, p, m) =>
                /\ m >= 1 => HoldsAt(p, INT, <<"int", q.op>>)
                /\ m >= 2 => HoldsAt(p + INT, e, <<"left", q.id>>)
                /\ m >= 3 => HoldsAt(p + INT + e, e, <<"right", q.id>>)
                /\ m >= 4 => HoldsAt(p + INT + 2 * e, INT, <<"cmp", q.id>>)
                /\ m >= 5 => HoldsAt(p + 2 * INT + 2 * e, INT, <<"resp", q.id>>)
                /\ m >= 6 => HoldsAt(p + 3 * INT + 2 * e, U64, <<"timestamp", q.id>>)
<1> DEFINE L == Layout(q)
           at == FieldOffsets(p, L)
<1>1. L = <<F("op", INT), F("left", e), F("right", e), F("cmp", INT), F("resp", INT),
            F("timestamp", U64)>>
  BY SMTT(30) DEF Layout, CmpOps, BulkOps, CalcOps, StringCmpOps, SUBSTRING, CONCAT,
             EXTRACT_YEAR
<1>2. RecordLength(q) = INT * 3 + e * 2 + U64
  BY SMTT(30) DEF RecordLength, CmpOps, BulkOps, CalcOps, StringCmpOps, SUBSTRING, CONCAT,
             EXTRACT_YEAR
<1>3. INT \in Nat /\ U64 \in Nat /\ ENC_INT32_LENGTH \in Nat
  BY SizesAssumption, RequestsAssumption
<1>4. Len(L) = 6
  BY <1>1, SMT
<1>5. /\ L[1] = F("op", INT)
      /\ L[2] = F("left", e)
      /\ L[3] = F("right", e)
      /\ L[4] = F("cmp", INT)
      /\ L[5] = F("resp", INT)
      /\ L[6] = F("timestamp", U64)
  BY <1>1, SMT
<1> HIDE DEF L
<1>6. /\ L[1].size = INT /\ L[1].name = "op"
      /\ L[2].size = e /\ L[2].name = "left"
      /\ L[3].size = e /\ L[3].name = "right"
      /\ L[4].size = INT /\ L[4].name = "cmp"
      /\ L[5].size = INT /\ L[5].name = "resp"
      /\ L[6].size = U64 /\ L[6].name = "timestamp"
  BY <1>5, SMT DEF F
<1>7. 6 \in Nat /\ \A i \in 1..6 : L[i].size \in Nat
  BY <1>3, <1>6, SMT
<1>8. at[1] = p /\ \A i \in 1..6 : at[i + 1] = at[i] + L[i].size
  <2>1. Sized(L)
    BY <1>4, <1>7 DEF Sized
  <2>2. at[1] = p /\ \A i \in 1..Len(L) : at[i + 1] = at[i] + L[i].size
    BY <2>1, FieldsConsecutive, SMT
  <2> QED
    BY <1>4, <2>2
<1> HIDE DEF at
<1>9. /\ at[1] = p
      /\ at[2] = p + INT
      /\ at[3] = p + INT + e
      /\ at[4] = p + INT + 2 * e
      /\ at[5] = p + 2 * INT + 2 * e
      /\ at[6] = p + 3 * INT + 2 * e
      /\ at[7] = p + 3 * INT + 2 * e + U64
  BY <1>3, <1>6, <1>8, SMTT(30)
<1>10. at[6 + 1] = p + RecordLength(q)
  BY <1>2, <1>3, <1>9, SMT
<1>11. ASSUME NEW m \in 0..6, HeaderAt(q, p, m)
       PROVE  /\ m >= 1 => HoldsAt(p, INT, <<"int", q.op>>)
              /\ m >= 2 => HoldsAt(p + INT, e, <<"left", q.id>>)
              /\ m >= 3 => HoldsAt(p + INT + e, e, <<"right", q.id>>)
              /\ m >= 4 => HoldsAt(p + INT + 2 * e, INT, <<"cmp", q.id>>)
              /\ m >= 5 => HoldsAt(p + 2 * INT + 2 * e, INT, <<"resp", q.id>>)
              /\ m >= 6 => HoldsAt(p + 3 * INT + 2 * e, U64, <<"timestamp", q.id>>)
  <2>1. \A i \in 1..m : HoldsAt(at[i], L[i].size, Value(q, L[i].name))
    BY <1>11 DEF HeaderAt, at, L
  <2>2. /\ m >= 1 => 1 \in 1..m
        /\ m >= 2 => 2 \in 1..m
        /\ m >= 3 => 3 \in 1..m
        /\ m >= 4 => 4 \in 1..m
        /\ m >= 5 => 5 \in 1..m
        /\ m >= 6 => 6 \in 1..m
    BY SMT
  <2>3. /\ Value(q, "op") = <<"int", q.op>>
        /\ Value(q, "left") = <<"left", q.id>>
        /\ Value(q, "right") = <<"right", q.id>>
        /\ Value(q, "cmp") = <<"cmp", q.id>>
        /\ Value(q, "resp") = <<"resp", q.id>>
        /\ Value(q, "timestamp") = <<"timestamp", q.id>>
    BY SMT DEF Value
  <2> QED
    BY <1>6, <1>9, <2>1, <2>2, <2>3, ZenonT(30)
<1>12. L \in Seq(Fields)
  <2>1. /\ F("op", INT) \in Fields
        /\ F("left", e) \in Fields
        /\ F("right", e) \in Fields
        /\ F("cmp", INT) \in Fields
        /\ F("resp", INT) \in Fields
        /\ F("timestamp", U64) \in Fields
    BY <1>3, FieldIn DEF FieldNames
  <2>2. <<F("op", INT), F("left", e), F("right", e), F("cmp", INT), F("resp", INT),
          F("timestamp", U64)>> \in Seq(Fields)
    BY <2>1, SMT
  <2> QED
    BY <1>1, <2>2
<1> QED
  BY <1>2, <1>4, <1>7, <1>9, <1>10, <1>11, <1>12 DEF FieldsOf, at, L

\* The fields of the record of a bulk sum.
LEMMA BulkFields ==
    ASSUME NEW q \in Requests, q.op \in BulkOps, NEW p \in Nat, NEW e \in Nat, e = EncLength(q.op)
    PROVE  /\ FieldsOf(q, p, 5)
           /\ FieldOffsets(p, Layout(q))[2] = p + INT
           /\ FieldOffsets(p, Layout(q))[3] = p + 2 * INT
           /\ RecordLength(q) = INT * 3 + e + U64
           /\ \A m \in 0..5 : HeaderAt(q, p, m) =>
                /\ m >= 1 => HoldsAt(p, INT, <<"int", q.op>>)
                /\ m >= 2 => HoldsAt(p + INT, INT, <<"int", q.n>>)
                /\ m >= 3 => HoldsAt(p + 2 * INT, e, <<"res", q.id>>)
                /\ m >= 4 => HoldsAt(p + 2 * INT + e, INT, <<"resp", q.id>>)
                /\ m >= 5 => HoldsAt(p + 3 * INT + e, U64, <<"timestamp", q.id>>)
<1> DEFINE L == Layout(q)
           at == FieldOffsets(p, L)
<1>1. L = <<F("op", INT), F("bulk_size", INT), F("res", e), F("resp", INT),
            F("timestamp", U64)>>
  BY SMTT(30) DEF Layout, CmpOps, BulkOps, CalcOps, StringCmpOps, SUBSTRING, CONCAT,
             EXTRACT_YEAR
<1>2. RecordLength(q) = INT * 3 + e + U64
  BY SMTT(30) DEF RecordLength, CmpOps, BulkOps, CalcOps, StringCmpOps, SUBSTRING, CONCAT,
             EXTRACT_YEAR
<1>3. INT \in Nat /\ U64 \in Nat /\ ENC_INT32_LENGTH \in Nat
  BY SizesAssumption, RequestsAssumption
<1>4. Len(L) = 5
  BY <1>1, SMT
<1>5. /\ L[1] = F("op", INT)
      /\ L[2] = F("bulk_size", INT)
      /\ L[3] = F("res", e)
      /\ L[4] = F("resp", INT)
      /\ L[5] = F("timestamp", U64)
  BY <1>1, SMT
<1> HIDE DEF L
<1>6. /\ L[1].size = INT /\ L[1].name = "op"
      /\ L[2].size = INT /\ L[2].name = "bulk_size"
      /\ L[3].size = e /\ L[3].name = "res"
      /\ L[4].size = INT /\ L[4].name = "resp"
      /\ L[5].size = U64 /\ L[5].name = "timestamp"
  BY <1>5, SMT DEF F
<1>7. 5 \in Nat /\ \A i \in 1..5 : L[i].size \in Nat
  BY <1>3, <1>6, SMT
<1>8. at[1] = p /\ \A i \in 1..5 : at[i + 1] = at[i] + L[i].size
  <2>1. Sized(L)
    BY <1>4, <1>7 DEF Sized
  <2>2. at[1] = p /\ \A i \in 1..Len(L) : at[i + 1] = at[i] + L[i].size
    BY <2>1, FieldsConsecutive, SMT
  <2> QED
    BY <1>4, <2>2
<1> HIDE DEF at
<1>9. /\ at[1] = p
      /\ at[2] = p + INT
      /\ at[3] = p + 2 * INT
      /\ at[4] = p + 2 * INT + e
      /\ at[5] = p + 3 * INT + e
      /\ at[6] = p + 3 * INT + e + U64
  BY <1>3, <1>6, <1>8, SMTT(30)
<1>10. at[5 + 1] = p + RecordLength(q)
  BY <1>2, <1>3, <1>9, SMT
<1>11. ASSUME NEW m \in 0..5, HeaderAt(q, p, m)
       PROVE  /\ m >= 1 => HoldsAt(p, INT, <<"int", q.op>>)
              /\ m >= 2 => HoldsAt(p + INT, INT, <<"int", q.n>>)
              /\ m >= 3 => HoldsAt(p + 2 * INT, e, <<"res", q.id>>)
              /\ m >= 4 => HoldsAt(p + 2 * INT + e, INT, <<"resp", q.id>>)
              /\ m >= 5 => HoldsAt(p + 3 * INT + e, U64, <<"timestamp", q.id>>)
  <2>1. \A i \in 1..m : HoldsAt(at[i], L[i].size, Value(q, L[i].name))
    BY <1>11 DEF HeaderAt, at, L
  <2>2. /\ m >= 1 => 1 \in 1..m
        /\ m >= 2 => 2 \in 1..m
        /\ m >= 3 => 3 \in 1..m
        /\ m >= 4 => 4 \in 1..m
        /\ m >= 5 => 5 \in 1..m
    BY SMT
  <2>3. /\ Value(q, "op") = <<"int", q.op>>
        /\ Value(q, "bulk_size") = <<"int", q.n>>
        /\ Value(q, "res") = <<"res", q.id>>
        /\ Value(q, "resp") = <<"resp", q.id>>
        /\ Value(q, "timestamp") = <<"timestamp", q.id>>
    BY SMT DEF Value
  <2> QED
    BY <1>6, <1>9, <2>1, <2>2, <2>3, ZenonT(30)
<1>12. L \in Seq(Fields)
  <2>1. /\ F("op", INT) \in Fields
        /\ F("bulk_size", INT) \in Fields
        /\ F("res", e) \in Fields
        /\ F("resp", INT) \in Fields
        /\ F("timestamp", U64) \in Fields
    BY <1>3, FieldIn DEF FieldNames
  <2>2. <<F("op", INT), F("bulk_size", INT), F("res", e), F("resp", INT),
          F("timestamp", U64)>> \in Seq(Fields)
    BY <2>1, SMT
  <2> QED
    BY <1>1, <2>2
<1> QED
  BY <1>2, <1>4, <1>7, <1>9, <1>10, <1>11, <1>12 DEF FieldsOf, at, L

\* The fields of the record of a calculation.
LEMMA CalcFields ==
    ASSUME NEW q \in Requests, q.op \in CalcOps, NEW p \in Nat, NEW e \in Nat, e = EncLength(q.op)
    PROVE  /\ FieldsOf(q, p, 6)
           /\ FieldOffsets(p, Layout(q))[2] = p + INT
           /\ RecordLength(q) = INT * 2 + e * 3 + U64
           /\ \A m \in 0..6 : HeaderAt(q, p, m) =>
                /\ m >= 1 => HoldsAt(p, INT, <<"int", q.op>>)
                /\ m >= 2 => HoldsAt(p + INT, e, <<"left", q.id>>)
                /\ m >= 3 => HoldsAt(p + INT + e, e, <<"right", q.id>>)
                /\ m >= 4 => HoldsAt(p + INT + 2 * e, e, <<"res", q.id>>)
                /\ m >= 5 => HoldsAt(p + INT + 3 * e, INT, <<"resp", q.id>>)
                /\ m >= 6 => HoldsAt(p + 2 * INT + 3 * e, U64, <<"timestamp", q.id>>)
<1> DEFINE L == Layout(q)
           at == FieldOffsets(p, L)
<1>1. L = <<F("op", INT), F("left", e), F("right", e), F("res", e), F("resp", INT),
            F("timestamp", U64)>>
  BY SMTT(30) DEF Layout, CmpOps, BulkOps, CalcOps, StringCmpOps, SUBSTRING, CONCAT,
             EXTRACT_YEAR
<1>2. RecordLength(q) = INT * 2 + e * 3 + U64
  BY SMTT(30) DEF RecordLength, CmpOps, BulkOps, CalcOps, StringCmpOps, SUBSTRING, CONCAT,
             EXTRACT_YEAR
<1>3. INT \in Nat /\ U64 \in Nat /\ ENC_INT32_LENGTH \in Nat
  BY SizesAssumption, RequestsAssumption
<1>4. Len(L) = 6
  BY <1>1, SMT
<1>5. /\ L[1] = F("op", INT)
      /\ L[2] = F("left", e)
      /\ L[3] = F("right", e)
      /\ L[4] = F("res", e)
      /\ L[5] = F("resp", INT)
      /\ L[6] = F("timestamp", U64)
  BY <1>1, SMT
<1> HIDE DEF L
<1>6. /\ L[1].size = INT /\ L[1].name = "op"
      /\ L[2].size = e /\ L[2].name = "left"
      /\ L[3].size = e /\ L[3].name = "right"
      /\ L[4].size = e /\ L[4].name = "res"
      /\ L[5].size = INT /\ L[5].name = "resp"
      /\ L[6].size = U64 /\ L[6].name = "timestamp"
  BY <1>5, SMT DEF F
<1>7. 6 \in Nat /\ \A i \in 1..6 : L[i].size \in Nat
  BY <1>3, <1>6, SMT
<1>8. at[1] = p /\ \A i \in 1..6 : at[i + 1] = at[i] + L[i].size
  <2>1. Sized(L)
    BY <1>4, <1>7 DEF Sized
  <2>2. at[1] = p /\ \A i \in 1..Len(L) : at[i + 1] = at[i] + L[i].size
    BY <2>1, FieldsConsecutive, SMT
  <2> QED
    BY <1>4, <2>2
<1> HIDE DEF at
<1>9. /\ at[1] = p
      /\ at[2] = p + INT
      /\ at[3] = p + INT + e
      /\ at[4] = p + INT + 2 * e
      /\ at[5] = p + INT + 3 * e
      /\ at[6] = p + 2 * INT + 3 * e
      /\ at[7] = p + 2 * INT + 3 * e + U64
  BY <1>3, <1>6, <1>8, SMTT(30)
<1>10. at[6 + 1] = p + RecordLength(q)
  BY <1>2, <1>3, <1>9, SMT
<1>11. ASSUME NEW m \in 0..6, HeaderAt(q, p, m)
       PROVE  /\ m >= 1 => HoldsAt(p, INT, <<"int", q.op>>)
              /\ m >= 2 => HoldsAt(p + INT, e, <<"left", q.id>>)
              /\ m >= 3 => HoldsAt(p + INT + e, e, <<"right", q.id>>)
              /\ m >= 4 => HoldsAt(p + INT + 2 * e, e, <<"res", q.id>>)
              /\ m >= 5 => HoldsAt(p + INT + 3 * e, INT, <<"resp", q.id>>)
              /\ m >= 6 => HoldsAt(p + 2 * INT + 3 * e, U64, <<"timestamp", q.id>>)
  <2>1. \A i \in 1..m : HoldsAt(at[i], L[i].size, Value(q, L[i].name))
    BY <1>11 DEF HeaderAt, at, L
  <2>2. /\ m >= 1 => 1 \in 1..m
        /\ m >= 2 => 2 \in 1..m
        /\ m >= 3 => 3 \in 1..m
        /\ m >= 4 => 4 \in 1..m
        /\ m >= 5 => 5 \in 1..m
        /\ m >= 6 => 6 \in 1..m
    BY SMT
  <2>3. /\ Value(q, "op") = <<"int", q.op>>
        /\ Value(q, "left") = <<"left", q.id>>
        /\ Value(q, "right") = <<"right", q.id>>
        /\ Value(q, "res") = <<"res", q.id>>
        /\ Value(q, "resp") = <<"resp", q.id>>
        /\ Value(q, "timestamp") = <<"timestamp", q.id>>
    BY SMT DEF Value
  <2> QED
    BY <1>6, <1>9, <2>1, <2>2, <2>3, ZenonT(30)
<1>12. L \in Seq(Fields)
  <2>1. /\ F("op", INT) \in Fields
        /\ F("left", e) \in Fields
        /\ F("right", e) \in Fields
        /\ F("res", e) \in Fields
        /\ F("resp", INT) \in Fields
        /\ F("timestamp", U64) \in Fields
    BY <1>3, FieldIn DEF FieldNames
  <2>2. <<F("op", INT), F("left", e), F("right", e), F("res", e), F("resp", INT),
          F("timestamp", U64)>> \in Seq(Fields)
    BY <2>1, SMT
  <2> QED
    BY <1>1, <2>2
<1> QED
  BY <1>2, <1>4, <1>7, <1>9, <1>10, <1>11, <1>12 DEF FieldsOf, at, L

\* The fields of the record of a comparison of strings.
LEMMA StringCmpFields ==
    ASSUME NEW q \in Requests, q.op \in StringCmpOps, NEW p \in Nat
    PROVE  /\ FieldsOf(q, p, 8)
           /\ FieldOffsets(p, Layout(q))[2] = p + INT
           /\ FieldOffsets(p, Layout(q))[3] = p + 2 * INT
           /\ FieldOffsets(p, Layout(q))[4] = p + 3 * INT
           /\ RecordLength(q) = INT * 5 + q.l + q.r + U64
           /\ \A m \in 0..8 : HeaderAt(q, p, m) =>
                /\ m >= 1 => HoldsAt(p, INT, <<"int", q.op>>)
                /\ m >= 2 => HoldsAt(p + INT, INT, <<"int", q.l>>)
                /\ m >= 3 => HoldsAt(p + 2 * INT, INT, <<"int", q.r>>)
                /\ m >= 4 => HoldsAt(p + 3 * INT, q.l, <<"left", q.id>>)
                /\ m >= 5 => HoldsAt(p + 3 * INT + q.l, q.r, <<"right", q.id>>)
                /\ m >= 6 => HoldsAt(p + 3 * INT + q.l + q.r, INT, <<"cmp", q.id>>)
                /\ m >= 7 => HoldsAt(p + 4 * INT + q.l + q.r, INT, <<"resp", q.id>>)
                /\ m >= 8 => HoldsAt(p + 5 * INT + q.l + q.r, U64, <<"timestamp", q.id>>)
<1> DEFINE L == Layout(q)
           at == FieldOffsets(p, L)
<1>1. L = <<F("op", INT), F("left_length", INT), F("right_length", INT), F("left", q.l),
            F("right", q.r), F("cmp", INT), F("resp", INT), F("timestamp", U64)>>
  BY SMTT(30) DEF Layout, CmpOps, BulkOps, CalcOps, StringCmpOps, SUBSTRING, CONCAT,
             EXTRACT_YEAR
<1>2. RecordLength(q) = INT * 5 + q.l + q.r + U64
  BY SMTT(30) DEF RecordLength, CmpOps, BulkOps, CalcOps, StringCmpOps, SUBSTRING, CONCAT,
             EXTRACT_YEAR
<1>3. INT \in Nat /\ U64 \in Nat /\ ENC_INT32_LENGTH \in Nat /\ q.l \in Nat /\ q.r \in Nat
  BY SizesAssumption, RequestsAssumption
<1>4. Len(L) = 8
  BY <1>1, SMT
<1>5. /\ L[1] = F("op", INT)
      /\ L[2] = F("left_length", INT)
      /\ L[3] = F("right_length", INT)
      /\ L[4] = F("left", q.l)
      /\ L[5] = F("right", q.r)
      /\ L[6] = F("cmp", INT)
      /\ L[7] = F("resp", INT)
      /\ L[8] = F("timestamp", U64)
  BY <1>1, SMT
<1> HIDE DEF L
<1>6. /\ L[1].size = INT /\ L[1].name = "op"
      /\ L[2].size = INT /\ L[2].name = "left_length"
      /\ L[3].size = INT /\ L[3].name = "right_length"
      /\ L[4].size = q.l /\ L[4].name = "left"
      /\ L[5].size = q.r /\ L[5].name = "right"
      /\ L[6].size = INT /\ L[6].name = "cmp"
      /\ L[7].size = INT /\ L[7].name = "resp"
      /\ L[8].size = U64 /\ L[8].name = "timestamp"
  BY <1>5, SMT DEF F
<1>7. 8 \in Nat /\ \A i \in 1..8 : L[i].size \in Nat
  BY <1>3, <1>6, SMT
<1>8. at[1] = p /\ \A i \in 1..8 : at[i + 1] = at[i] + L[i].size
  <2>1. Sized(L)
    BY <1>4, <1>7 DEF Sized
  <2>2. at[1] = p /\ \A i \in 1..Len(L) : at[i + 1] = at[i] + L[i].size
    BY <2>1, FieldsConsecutive, SMT
  <2> QED
    BY <1>4, <2>2
<1> HIDE DEF at
<1>9. /\ at[1] = p
      /\ at[2] = p + INT
      /\ at[3] = p + 2 * INT
      /\ at[4] = p + 3 * INT
      /\ at[5] = p + 3 * INT + q.l
      /\ at[6] = p + 3 * INT + q.l + q.r
      /\ at[7] = p + 4 * INT + q.l + q.r
      /\ at[8] = p + 5 * INT + q.l + q.r
      /\ at[9] = p + 5 * INT + q.l + q.r + U64
  BY <1>3, <1>6, <1>8, SMTT(30)
<1>10. at[8 + 1] = p + RecordLength(q)
  BY <1>2, <1>3, <1>9, SMT
<1>11. ASSUME NEW m \in 0..8, HeaderAt(q, p, m)
       PROVE  /\ m >= 1 => HoldsAt(p, INT, <<"int", q.op>>)
              /\ m >= 2 => HoldsAt(p + INT, INT, <<"int", q.l>>)
              /\ m >= 3 => HoldsAt(p + 2 * INT, INT, <<"int", q.r>>)
              /\ m >= 4 => HoldsAt(p + 3 * INT, q.l, <<"left", q.id>>)
              /\ m >= 5 => HoldsAt(p + 3 * INT + q.l, q.r, <<"right", q.id>>)
              /\ m >= 6 => HoldsAt(p + 3 * INT + q.l + q.r, INT, <<"cmp", q.id>>)
              /\ m >= 7 => HoldsAt(p + 4 * INT + q.l + q.r, INT, <<"resp", q.id>>)
              /\ m >= 8 => HoldsAt(p + 5 * INT + q.l + q.r, U64, <<"timestamp", q.id>>)
  <2>1. \A i \in 1..m : HoldsAt(at[i], L[i].size, Value(q, L[i].name))
    BY <1>11 DEF HeaderAt, at, L
  <2>2. /\ m >= 1 => 1 \in 1..m
        /\ m >= 2 => 2 \in 1..m
        /\ m >= 3 => 3 \in 1..m
        /\ m >= 4 => 4 \in 1..m
        /\ m >= 5 => 5 \in 1..m
        /\ m >= 6 => 6 \in 1..m
        /\ m >= 7 => 7 \in 1..m
        /\ m >= 8 => 8 \in 1..m
    BY SMT
  <2>3. /\ Value(q, "op") = <<"int", q.op>>
        /\ Value(q, "left_length") = <<"int", q.l>>
        /\ Value(q, "right_length") = <<"int", q.r>>
        /\ Value(q, "left") = <<"left", q.id>>
        /\ Value(q, "right") = <<"right", q.id>>
        /\ Value(q, "cmp") = <<"cmp", q.id>>
        /\ Value(q, "resp") = <<"resp", q.id>>
        /\ Value(q, "timestamp") = <<"timestamp", q.id>>
    BY SMT DEF Value
  <2> QED
    BY <1>6, <1>9, <2>1, <2>2, <2>3, ZenonT(30)
<1>12. L \in Seq(Fields)
  <2>1. /\ F("op", INT) \in Fields
        /\ F("left_length", INT) \in Fields
        /\ F("right_length", INT) \in Fields
        /\ F("left", q.l) \in Fields
        /\ F("right", q.r) \in Fields
        /\ F("cmp", INT) \in Fields
        /\ F("resp", INT) \in Fields
        /\ F("timestamp", U64) \in Fields
    BY <1>3, FieldIn DEF FieldNames
  <2>2. <<F("op", INT), F("left_length", INT), F("right_length", INT), F("left", q.l),
          F("right", q.r), F("cmp", INT), F("resp", INT), F("timestamp", U64)>> \in Seq(Fields)
    BY <2>1, SMT
  <2> QED
    BY <1>1, <2>2
<1> QED
  BY <1>2, <1>4, <1>7, <1>9, <1>10, <1>11, <1>12 DEF FieldsOf, at, L

\* The fields of the record of a substring.
LEMMA SubstringFields ==
    ASSUME NEW q \in Requests, q.op = SUBSTRING, NEW p \in Nat
    PROVE  /\ FieldsOf(q, p, 9)
           /\ FieldOffsets(p, Layout(q))[2] = p + INT
           /\ FieldOffsets(p, Layout(q))[3] = p + 2 * INT
           /\ FieldOffsets(p, Layout(q))[4] = p + 3 * INT
           /\ RecordLength(q) = INT * 4 + q.l + q.s + 2 * ENC_INT32_LENGTH + U64
           /\ \A m \in 0..9 : HeaderAt(q, p, m) =>
                /\ m >= 1 => HoldsAt(p, INT, <<"int", q.op>>)
                /\ m >= 2 => HoldsAt(p + INT, INT, <<"int", q.l>>)
                /\ m >= 3 => HoldsAt(p + 2 * INT, INT, <<"int", q.s>>)
                /\ m >= 4 => HoldsAt(p + 3 * INT, q.l, <<"left", q.id>>)
                /\ m >= 5 => HoldsAt(p + 3 * INT + q.l, ENC_INT32_LENGTH, <<"start", q.id>>)
                /\ m >= 6 => HoldsAt(p + 3 * INT + q.l + ENC_INT32_LENGTH, ENC_INT32_LENGTH, <<"length", q.id>>)
                /\ m >= 7 => HoldsAt(p + 3 * INT + q.l + 2 * ENC_INT32_LENGTH, q.s, <<"res", q.id>>)
                /\ m >= 8 => HoldsAt(p + 3 * INT + q.l + 2 * ENC_INT32_LENGTH + q.s, INT, <<"resp", q.id>>)
                /\ m >= 9 => HoldsAt(p + 4 * INT + q.l + 2 * ENC_INT32_LENGTH + q.s, U64, <<"timestamp", q.id>>)
<1> DEFINE L == Layout(q)
           at == FieldOffsets(p, L)
<1>1. L = <<F("op", INT), F("left_length", INT), F("res_length", INT), F("left", q.l),
            F("start", ENC_INT32_LENGTH), F("length", ENC_INT32_LENGTH), F("res", q.s),
            F("resp", INT), F("timestamp", U64)>>
  BY SMTT(30) DEF Layout, CmpOps, BulkOps, CalcOps, StringCmpOps, SUBSTRING, CONCAT,
             EXTRACT_YEAR
<1>2. RecordLength(q) = INT * 4 + q.l + q.s + 2 * ENC_INT32_LENGTH + U64
  BY SMTT(30) DEF RecordLength, CmpOps, BulkOps, CalcOps, StringCmpOps, SUBSTRING, CONCAT,
             EXTRACT_YEAR
<1>3. INT \in Nat /\ U64 \in Nat /\ ENC_INT32_LENGTH \in Nat /\ q.l \in Nat /\ q.s \in Nat
  BY SizesAssumption, RequestsAssumption
<1>4. Len(L) = 9
  BY <1>1, SMT
<1>5. /\ L[1] = F("op", INT)
      /\ L[2] = F("left_length", INT)
      /\ L[3] = F("res_length", INT)
      /\ L[4] = F("left", q.l)
      /\ L[5] = F("start", ENC_INT32_LENGTH)
      /\ L[6] = F("length", ENC_INT32_LENGTH)
      /\ L[7] = F("res", q.s)
      /\ L[8] = F("resp", INT)
      /\ L[9] = F("timestamp", U64)
  BY <1>1, SMT
<1> HIDE DEF L
<1>6. /\ L[1].size = INT /\ L[1].name = "op"
      /\ L[2].size = INT /\ L[2].name = "left_length"
      /\ L[3].size = INT /\ L[3].name = "res_length"
      /\ L[4].size = q.l /\ L[4].name = "left"
      /\ L[5].size = ENC_INT32_LENGTH /\ L[5].name = "start"
      /\ L[6].size = ENC_INT32_LENGTH /\ L[6].name = "length"
      /\ L[7].size = q.s /\ L[7].name = "res"
      /\ L[8].size = INT /\ L[8].name = "resp"
      /\ L[9].size = U64 /\ L[9].name = "timestamp"
  BY <1>5, SMT DEF F
<1>7. 9 \in Nat /\ \A i \in 1..9 : L[i].size \in Nat
  BY <1>3, <1>6, SMT
<1>8. at[1] = p /\ \A i \in 1..9 : at[i + 1] = at[i] + L[i].size
  <2>1. Sized(L)
    BY <1>4, <1>7 DEF Sized
  <2>2. at[1] = p /\ \A i \in 1..Len(L) : at[i + 1] = at[i] + L[i].size
    BY <2>1, FieldsConsecutive, SMT
  <2> QED
    BY <1>4, <2>2
<1> HIDE DEF at
<1>9. /\ at[1] = p
      /\ at[2] = p + INT
      /\ at[3] = p + 2 * INT
      /\ at[4] = p + 3 * INT
      /\ at[5] = p + 3 * INT + q.l
      /\ at[6] = p + 3 * INT + q.l + ENC_INT32_LENGTH
      /\ at[7] = p + 3 * INT + q.l + 2 * ENC_INT32_LENGTH
      /\ at[8] = p + 3 * INT + q.l + 2 * ENC_INT32_LENGTH + q.s
      /\ at[9] = p + 4 * INT + q.l + 2 * ENC_INT32_LENGTH + q.s
      /\ at[10] = p + 4 * INT + q.l + 2 * ENC_INT32_LENGTH + q.s + U64
  BY <1>3, <1>6, <1>8, SMTT(30)
<1>10. at[9 + 1] = p + RecordLength(q)
  BY <1>2, <1>3, <1>9, SMT
<1>11. ASSUME NEW m \in 0..9, HeaderAt(q, p, m)
       PROVE  /\ m >= 1 => HoldsAt(p, INT, <<"int", q.op>>)
              /\ m >= 2 => HoldsAt(p + INT, INT, <<"int", q.l>>)
              /\ m >= 3 => HoldsAt(p + 2 * INT, INT, <<"int", q.s>>)
              /\ m >= 4 => HoldsAt(p + 3 * INT, q.l, <<"left", q.id>>)
              /\ m >= 5 => HoldsAt(p + 3 * INT + q.l, ENC_INT32_LENGTH, <<"start", q.id>>)
              /\ m >= 6 => HoldsAt(p + 3 * INT + q.l + ENC_INT32_LENGTH, ENC_INT32_LENGTH, <<"length", q.id>>)
              /\ m >= 7 => HoldsAt(p + 3 * INT + q.l + 2 * ENC_INT32_LENGTH, q.s, <<"res", q.id>>)
              /\ m >= 8 => HoldsAt(p + 3 * INT + q.l + 2 * ENC_INT32_LENGTH + q.s, INT, <<"resp", q.id>>)
              /\ m >= 9 => HoldsAt(p + 4 * INT + q.l + 2 * ENC_INT32_LENGTH + q.s, U64, <<"timestamp", q.id>>)
  <2>1. \A i \in 1..m : HoldsAt(at[i], L[i].size, Value(q, L[i].name))
    BY <1>11 DEF HeaderAt, at, L
  <2>2. /\ m >= 1 => 1 \in 1..m
        /\ m >= 2 => 2 \in 1..m
        /\ m >= 3 => 3 \in 1..m
        /\ m >= 4 => 4 \in 1..m
        /\ m >= 5 => 5 \in 1..m
        /\ m >= 6 => 6 \in 1..m
        /\ m >= 7 => 7 \in 1..m
        /\ m >= 8 => 8 \in 1..m
        /\ m >= 9 => 9 \in 1..m
    BY SMT
  <2>3. /\ Value(q, "op") = <<"int", q.op>>
        /\ Value(q, "left_length") = <<"int", q.l>>
        /\ Value(q, "res_length") = <<"int", q.s>>
        /\ Value(q, "left") = <<"left", q.id>>
        /\ Value(q, "start") = <<"start", q.id>>
        /\ Value(q, "length") = <<"length", q.id>>
        /\ Value(q, "res") = <<"res", q.id>>
        /\ Value(q, "resp") = <<"resp", q.id>>
        /\ Value(q, "timestamp") = <<"timestamp", q.id>>
    BY SMT DEF Value
  <2> QED
    BY <1>6, <1>9, <2>1, <2>2, <2>3, ZenonT(30)
<1>12. L \in Seq(Fields)
  <2>1. /\ F("op", INT) \in Fields
        /\ F("left_length", INT) \in Fields
        /\ F("res_length", INT) \in Fields
        /\ F("left", q.l) \in Fields
        /\ F("start", ENC_INT32_LENGTH) \in Fields
        /\ F("length", ENC_INT32_LENGTH) \in Fields
        /\ F("res", q.s) \in Fields
        /\ F("resp", INT) \in Fields
        /\ F("timestamp", U64) \in Fields
    BY <1>3, FieldIn DEF FieldNames
  <2>2. <<F("op", INT), F("left_length", INT), F("res_length", INT), F("left", q.l),
          F("start", ENC_INT32_LENGTH), F("length", ENC_INT32_LENGTH), F("res", q.s),
          F("resp", INT), F("timestamp", U64)>> \in Seq(Fields)
    BY <2>1, SMT
  <2> QED
    BY <1>1, <2>2
<1> QED
  BY <1>2, <1>4, <1>7, <1>9, <1>10, <1>11, <1>12 DEF FieldsOf, at, L

\* The fields of the record of a concatenation.
LEMMA ConcatFields ==
    ASSUME NEW q \in Requests, q.op = CONCAT, NEW p \in Nat
    PROVE  /\ FieldsOf(q, p, 9)
           /\ FieldOffsets(p, Layout(q))[2] = p + INT
           /\ FieldOffsets(p, Layout(q))[3] = p + 2 * INT
           /\ FieldOffsets(p, Layout(q))[4] = p + 3 * INT
           /\ FieldOffsets(p, Layout(q))[5] = p + 4 * INT
           /\ RecordLength(q) = INT * 5 + q.l + q.r + q.s + U64
           /\ \A m \in 0..9 : HeaderAt(q, p, m) =>
                /\ m >= 1 => HoldsAt(p, INT, <<"int", q.op>>)
                /\ m >= 2 => HoldsAt(p + INT, INT, <<"int", q.l>>)
                /\ m >= 3 => HoldsAt(p + 2 * INT, INT, <<"int", q.r>>)
                /\ m >= 4 => HoldsAt(p + 3 * INT, INT, <<"int", q.s>>)
                /\ m >= 5 => HoldsAt(p + 4 * INT, q.l, <<"left", q.id>>)
                /\ m >= 6 => HoldsAt(p + 4 * INT + q.l, q.r, <<"right", q.id>>)
                /\ m >= 7 => HoldsAt(p + 4 * INT + q.l + q.r, q.s, <<"res", q.id>>)
                /\ m >= 8 => HoldsAt(p + 4 * INT + q.l + q.r + q.s, INT, <<"resp", q.id>>)
                /\ m >= 9 => HoldsAt(p + 5 * INT + q.l + q.r + q.s, U64, <<"timestamp", q.id>>)
<1> DEFINE L == Layout(q)
           at == FieldOffsets(p, L)
<1>1. L = <<F("op", INT), F("left_length", INT), F("right_length", INT),
            F("res_length", INT), F("left", q.l), F("right", q.r), F("res", q.s),
            F("resp", INT), F("timestamp", U64)>>
  BY SMTT(30) DEF Layout, CmpOps, BulkOps, CalcOps, StringCmpOps, SUBSTRING, CONCAT,
             EXTRACT_YEAR
<1>2. RecordLength(q) = INT * 5 + q.l + q.r + q.s + U64
  BY SMTT(30) DEF RecordLength, CmpOps, BulkOps, CalcOps, StringCmpOps, SUBSTRING, CONCAT,
             EXTRACT_YEAR
<1>3. INT \in Nat /\ U64 \in Nat /\ ENC_INT32_LENGTH \in Nat /\ q.l \in Nat /\ q.r \in Nat /\ q.s \in Nat
  BY SizesAssumption, RequestsAssumption
<1>4. Len(L) = 9
  BY <1>1, SMT
<1>5. /\ L[1] = F("op", INT)
      /\ L[2] = F("left_length", INT)
      /\ L[3] = F("right_length", INT)
      /\ L[4] = F("res_length", INT)
      /\ L[5] = F("left", q.l)
      /\ L[6] = F("right", q.r)
      /\ L[7] = F("res", q.s)
      /\ L[8] = F("resp", INT)
      /\ L[9] = F("timestamp", U64)
  BY <1>1, SMT
<1> HIDE DEF L
<1>6. /\ L[1].size = INT /\ L[1].name = "op"
      /\ L[2].size = INT /\ L[2].name = "left_length"
      /\ L[3].size = INT /\ L[3].name = "right_length"
      /\ L[4].size = INT /\ L[4].name = "res_length"
      /\ L[5].size = q.l /\ L[5].name = "left"
      /\ L[6].size = q.r /\ L[6].name = "right"
      /\ L[7].size = q.s /\ L[7].name = "res"
      /\ L[8].size = INT /\ L[8].name = "resp"
      /\ L[9].size = U64 /\ L[9].name = "timestamp"
  BY <1>5, SMT DEF F
<1>7. 9 \in Nat /\ \A i \in 1..9 : L[i].size \in Nat
  BY <1>3, <1>6, SMT
<1>8. at[1] = p /\ \A i \in 1..9 : at[i + 1] = at[i] + L[i].size
  <2>1. Sized(L)
    BY <1>4, <1>7 DEF Sized
  <2>2. at[1] = p /\ \A i \in 1..Len(L) : at[i + 1] = at[i] + L[i].size
    BY <2>1, FieldsConsecutive, SMT
  <2> QED
    BY <1>4, <2>2
<1> HIDE DEF at
<1>9. /\ at[1] = p
      /\ at[2] = p + INT
      /\ at[3] = p + 2 * INT
      /\ at[4] = p + 3 * INT
      /\ at[5] = p + 4 * INT
      /\ at[6] = p + 4 * INT + q.l
      /\ at[7] = p + 4 * INT + q.l + q.r
      /\ at[8] = p + 4 * INT + q.l + q.r + q.s
      /\ at[9] = p + 5 * INT + q.l + q.r + q.s
      /\ at[10] = p + 5 * INT + q.l + q.r + q.s + U64
  BY <1>3, <1>6, <1>8, SMTT(30)
<1>10. at[9 + 1] = p + RecordLength(q)
  BY <1>2, <1>3, <1>9, SMT
<1>11. ASSUME NEW m \in 0..9, HeaderAt(q, p, m)
       PROVE  /\ m >= 1 => HoldsAt(p, INT, <<"int", q.op>>)
              /\ m >= 2 => HoldsAt(p + INT, INT, <<"int", q.l>>)
              /\ m >= 3 => HoldsAt(p + 2 * INT, INT, <<"int", q.r>>)
              /\ m >= 4 => HoldsAt(p + 3 * INT, INT, <<"int", q.s>>)
              /\ m >= 5 => HoldsAt(p + 4 * INT, q.l, <<"left", q.id>>)
              /\ m >= 6 => HoldsAt(p + 4 * INT + q.l, q.r, <<"right", q.id>>)
              /\ m >= 7 => HoldsAt(p + 4 * INT + q.l + q.r, q.s, <<"res", q.id>>)
              /\ m >= 8 => HoldsAt(p + 4 * INT + q.l + q.r + q.s, INT, <<"resp", q.id>>)
              /\ m >= 9 => HoldsAt(p + 5 * INT + q.l + q.r + q.s, U64, <<"timestamp", q.id>>)
  <2>1. \A i \in 1..m : HoldsAt(at[i], L[i].size, Value(q, L[i].name))
    BY <1>11 DEF HeaderAt, at, L
  <2>2. /\ m >= 1 => 1 \in 1..m
        /\ m >= 2 => 2 \in 1..m
        /\ m >= 3 => 3 \in 1..m
        /\ m >= 4 => 4 \in 1..m
        /\ m >= 5 => 5 \in 1..m
        /\ m >= 6 => 6 \in 1..m
        /\ m >= 7 => 7 \in 1..m
        /\ m >= 8 => 8 \in 1..m
        /\ m >= 9 => 9 \in 1..m
    BY SMT
  <2>3. /\ Value(q, "op") = <<"int", q.op>>
        /\ Value(q, "left_length") = <<"int", q.l>>
        /\ Value(q, "right_length") = <<"int", q.r>>
        /\ Value(q, "res_length") = <<"int", q.s>>
        /\ Value(q, "left") = <<"left", q.id>>
        /\ Value(q, "right") = <<"right", q.id>>
        /\ Value(q, "res") = <<"res", q.id>>
        /\ Value(q, "resp") = <<"resp", q.id>>
        /\ Value(q, "timestamp") = <<"timestamp", q.id>>
    BY SMT DEF Value
  <2> QED
    BY <1>6, <1>9, <2>1, <2>2, <2>3, ZenonT(30)
<1>12. L \in Seq(Fields)
  <2>1. /\ F("op", INT) \in Fields
        /\ F("left_length", INT) \in Fields
        /\ F("right_length", INT) \in Fields
        /\ F("res_length", INT) \in Fields
        /\ F("left", q.l) \in Fields
        /\ F("right", q.r) \in Fields
        /\ F("res", q.s) \in Fields
        /\ F("resp", INT) \in Fields
        /\ F("timestamp", U64) \in Fields
    BY <1>3, FieldIn DEF FieldNames
  <2>2. <<F("op", INT), F("left_length", INT), F("right_length", INT),
          F("res_length", INT), F("left", q.l), F("right", q.r), F("res", q.s),
          F("resp", INT), F("timestamp", U64)>> \in Seq(Fields)
    BY <2>1, SMT
  <2> QED
    BY <1>1, <2>2
<1> QED
  BY <1>2, <1>4, <1>7, <1>9, <1>10, <1>11, <1>12 DEF FieldsOf, at, L

\* The fields of the record of a year of a timestamp.
LEMMA ExtractFields ==
    ASSUME NEW q \in Requests, q.op = EXTRACT_YEAR, NEW p \in Nat, NEW e \in Nat, e = EncLength(q.op)
    PROVE  /\ FieldsOf(q, p, 5)
           /\ FieldOffsets(p, Layout(q))[2] = p + INT
           /\ RecordLength(q) = INT * 2 + e + ENC_INT32_LENGTH + U64
           /\ \A m \in 0..5 : HeaderAt(q, p, m) =>
                /\ m >= 1 => HoldsAt(p, INT, <<"int", q.op>>)
                /\ m >= 2 => HoldsAt(p + INT, e, <<"left", q.id>>)
                /\ m >= 3 => HoldsAt(p + INT + e, ENC_INT32_LENGTH, <<"res", q.id>>)
                /\ m >= 4 => HoldsAt(p + INT + e + ENC_INT32_LENGTH, INT, <<"resp", q.id>>)
                /\ m >= 5 => HoldsAt(p + 2 * INT + e + ENC_INT32_LENGTH, U64, <<"timestamp", q.id>>)
<1> DEFINE L == Layout(q)
           at == FieldOffsets(p, L)
<1>1. L = <<F("op", INT), F("left", e), F("res", ENC_INT32_LENGTH), F("resp", INT),
            F("timestamp", U64)>>
  BY SMTT(30) DEF Layout, CmpOps, BulkOps, CalcOps, StringCmpOps, SUBSTRING, CONCAT,
             EXTRACT_YEAR
<1>2. RecordLength(q) = INT * 2 + e + ENC_INT32_LENGTH + U64
  BY SMTT(30) DEF RecordLength, CmpOps, BulkOps, CalcOps, StringCmpOps, SUBSTRING, CONCAT,
             EXTRACT_YEAR
<1>3. INT \in Nat /\ U64 \in Nat /\ ENC_INT32_LENGTH \in Nat
  BY SizesAssumption, RequestsAssumption
<1>4. Len(L) = 5
  BY <1>1, SMT
<1>5. /\ L[1] = F("op", INT)
      /\ L[2] = F("left", e)
      /\ L[3] = F("res", ENC_INT32_LENGTH)
      /\ L[4] = F("resp", INT)
      /\ L[5] = F("timestamp", U64)
  BY <1>1, SMT
<1> HIDE DEF L
<1>6. /\ L[1].size = INT /\ L[1].name = "op"
      /\ L[2].size = e /\ L[2].name = "left"
      /\ L[3].size = ENC_INT32_LENGTH /\ L[3].name = "res"
      /\ L[4].size = INT /\ L[4].name = "resp"
      /\ L[5].size = U64 /\ L[5].name = "timestamp"
  BY <1>5, SMT DEF F
<1>7. 5 \in Nat /\ \A i \in 1..5 : L[i].size \in Nat
  BY <1>3, <1>6, SMT
<1>8. at[1] = p /\ \A i \in 1..5 : at[i + 1] = at[i] + L[i].size
  <2>1. Sized(L)
    BY <1>4, <1>7 DEF Sized
  <2>2. at[1] = p /\ \A i \in 1..Len(L) : at[i + 1] = at[i] + L[i].size
    BY <2>1, FieldsConsecutive, SMT
  <2> QED
    BY <1>4, <2>2
<1> HIDE DEF at
<1>9. /\ at[1] = p
      /\ at[2] = p + INT
      /\ at[3] = p + INT + e
      /\ at[4] = p + INT + e + ENC_INT32_LENGTH
      /\ at[5] = p + 2 * INT + e + ENC_INT32_LENGTH
      /\ at[6] = p + 2 * INT + e + ENC_INT32_LENGTH + U64
  BY <1>3, <1>6, <1>8, SMTT(30)
<1>10. at[5 + 1] = p + RecordLength(q)
  BY <1>2, <1>3, <1>9, SMT
<1>11. ASSUME NEW m \in 0..5, HeaderAt(q, p, m)
       PROVE  /\ m >= 1 => HoldsAt(p, INT, <<"int", q.op>>)
              /\ m >= 2 => HoldsAt(p + INT, e, <<"left", q.id>>)
              /\ m >= 3 => HoldsAt(p + INT + e, ENC_INT32_LENGTH, <<"res", q.id>>)
              /\ m >= 4 => HoldsAt(p + INT + e + ENC_INT32_LENGTH, INT, <<"resp", q.id>>)
              /\ m >= 5 => HoldsAt(p + 2 * INT + e + ENC_INT32_LENGTH, U64, <<"timestamp", q.id>>)
  <2>1. \A i \in 1..m : HoldsAt(at[i], L[i].size, Value(q, L[i].name))
    BY <1>11 DEF HeaderAt, at, L
  <2>2. /\ m >= 1 => 1 \in 1..m
        /\ m >= 2 => 2 \in 1..m
        /\ m >= 3 => 3 \in 1..m
        /\ m >= 4 => 4 \in 1..m
        /\ m >= 5 => 5 \in 1..m
    BY SMT
  <2>3. /\ Value(q, "op") = <<"int", q.op>>
        /\ Value(q, "left") = <<"left", q.id>>
        /\ Value(q, "res") = <<"res", q.id>>
        /\ Value(q, "resp") = <<"resp", q.id>>
        /\ Value(q, "timestamp") = <<"timestamp", q.id>>
    BY SMT DEF Value
  <2> QED
    BY <1>6, <1>9, <2>1, <2>2, <2>3, ZenonT(30)
<1>12. L \in Seq(Fields)
  <2>1. /\ F("op", INT) \in Fields
        /\ F("left", e) \in Fields
        /\ F("res", ENC_INT32_LENGTH) \in Fields
        /\ F("resp", INT) \in Fields
        /\ F("timestamp", U64) \in Fields
    BY <1>3, FieldIn DEF FieldNames
  <2>2. <<F("op", INT), F("left", e), F("res", ENC_INT32_LENGTH), F("resp", INT),
          F("timestamp", U64)>> \in Seq(Fields)
    BY <2>1, SMT
  <2> QED
    BY <1>1, <2>2
<1> QED
  BY <1>2, <1>4, <1>7, <1>9, <1>10, <1>11, <1>12 DEF FieldsOf, at, L

-----------------------------------------------------------------------------
(* Reading a complete record.                                              *)

\* A value that is all there is read as it is.
LEMMA AtHolds ==
    ASSUME NEW pos \in Int, NEW n \in Nat \ {0}, NEW v, HoldsAt(pos, n, v)
    PROVE  At(pos, n) = v
<1>1. 1 \in 1..n /\ pos + 1 - 1 = pos
  BY SMT
<1>2. Cell(pos) = Part(v, 1)
  BY <1>1 DEF HoldsAt
<1>3. Cell(pos).value = v
  BY <1>2, SMT DEF Part
<1>4. n > 0
  BY SMT
<1> QED
  BY <1>3, <1>4 DEF At, HoldsAt

LEMMA IntHolds ==
    ASSUME NEW pos \in Int, NEW x, HoldsAt(pos, INT, <<"int", x>>)
    PROVE  IntAt(pos) = x
<1>1. At(pos, INT) = <<"int", x>>
  BY AtHolds, SizesAssumption
<1> QED
  BY <1>1, SMT DEF IntAt

\* What was never written reads as the number zero.
LEMMA IntZero ==
    ASSUME NEW pos \in Nat, \A k \in Nat : k >= pos => Cell(k) = Zero
    PROVE  IntAt(pos) = 0
<1>1. INT \in Nat \ {0} /\ 1 \in 1..INT /\ pos + 1 - 1 = pos
  BY SizesAssumption, SMT
<1>2. Cell(pos) = Zero
  BY SMT
<1>3. Cell(pos + 1 - 1) # Part(Cell(pos).value, 1)
  BY <1>1, <1>2, SMT DEF Zero, Part
<1>4. \A j \in 1..INT : Cell(pos + j - 1) = Zero
  BY <1>1, SMT
<1>5. At(pos, INT) = <<"int", 0>>
  BY <1>1, <1>3, <1>4 DEF At
<1> QED
  BY <1>5, SMT DEF IntAt

LEMMA EncLengthSize == ASSUME NEW op \in Int PROVE EncLength(op) \in Nat \ {0}
  BY SizesAssumption, SMT DEF EncLength

LEMMA OpsAreInts == ASSUME NEW q \in Requests PROVE q.op \in Int
<1>1. q.op \in KnownOps
  BY RequestsAssumption
<1> QED
  BY <1>1, SMT DEF KnownOps, CmpOps, BulkOps, CalcOps, StringCmpOps, SUBSTRING, CONCAT,
                   EXTRACT_YEAR

LEMMA OwnOne == ASSUME NEW q, NEW a PROVE Own(q, <<a>>) = <<Value(q, a)>>
  BY SMT DEF Own

LEMMA OwnTwo ==
    ASSUME NEW q, NEW a, NEW b
    PROVE  Own(q, <<a, b>>) = <<Value(q, a), Value(q, b)>>
  BY SMT DEF Own

LEMMA OwnThree ==
    ASSUME NEW q, NEW a, NEW b, NEW c
    PROVE  Own(q, <<a, b, c>>) = <<Value(q, a), Value(q, b), Value(q, c)>>
  BY SMT DEF Own

\* Only a bulk has more than one buffer.
LEMMA WrittenAll ==
    ASSUME NEW q \in Requests, q.op \notin BulkOps, RecordLength(q) \in Int
    PROVE  WrittenLength(q) = RecordLength(q)
<1>1. EncLength(q.op) \in Nat
  BY OpsAreInts, EncLengthSize
<1>2. ItemCount(q) = 0
  BY DEF ItemCount
<1> QED
  BY <1>1, <1>2, SMT DEF WrittenLength

\* Both readers find in a record at p what was recorded, and leave it at its end.
Reads(q, p) ==
    /\ IntAt(p) = q.op
    /\ Retrieved(q.op, p + INT).operands = Operands(q)
    /\ Retrieved(q.op, p + INT).next = p + WrittenLength(q)
    /\ Replayed(q, p + INT).compared = Compared(q)
    /\ Replayed(q, p + INT).answer = Answer(q)
    /\ Replayed(q, p + INT).next = p + WrittenLength(q)

\* A complete comparison of numbers is read as it was recorded.
LEMMA ReadsCmp ==
    ASSUME NEW q \in Requests, q.op \in CmpOps, NEW p \in Nat, RecordAt(q, p)
    PROVE  Reads(q, p)
<1> DEFINE P == p + INT
<1>1. PICK e \in Nat \ {0} : e = EncLength(q.op)
  BY OpsAreInts, EncLengthSize
<1>2. INT \in Nat \ {0} /\ U64 \in Nat \ {0} /\ ENC_INT32_LENGTH \in Nat \ {0} /\ P \in Nat
  <2>1. INT \in Nat \ {0} /\ U64 \in Nat \ {0} /\ ENC_INT32_LENGTH \in Nat \ {0}
    BY SizesAssumption
  <2> QED
    BY <2>1, SMT
<1>3. q.op \notin BulkOps /\ q.op \notin CalcOps /\ q.op \notin StringCmpOps /\ q.op # SUBSTRING /\ q.op # CONCAT /\ q.op # EXTRACT_YEAR
  BY SMT DEF CmpOps, BulkOps, CalcOps, StringCmpOps, SUBSTRING, CONCAT, EXTRACT_YEAR
<1>4. WrittenLength(q) = RecordLength(q) /\ RecordLength(q) = INT * 3 + e * 2 + U64
  <2>1. RecordLength(q) = INT * 3 + e * 2 + U64
    BY <1>1, CmpFields
  <2> QED
    BY <1>1, <1>2, <1>3, <2>1, WrittenAll, SMT
<1>5. /\ HoldsAt(p, INT, <<"int", q.op>>)
      /\ HoldsAt(P, e, <<"left", q.id>>)
      /\ HoldsAt(P + e, e, <<"right", q.id>>)
      /\ HoldsAt(P + 2 * e, INT, <<"cmp", q.id>>)
      /\ HoldsAt(P + 2 * e + INT, INT, <<"resp", q.id>>)
  <2>1. HeaderAt(q, p, 6)
    BY <1>1, CmpFields DEF FieldsOf, RecordAt
  <2>2. /\ p + INT = P
        /\ p + INT + e = P + e
        /\ p + INT + 2 * e = P + 2 * e
        /\ p + 2 * INT + 2 * e = P + 2 * e + INT
    BY <1>1, <1>2, SMT
  <2>3. 6 \in 0..6 /\ 6 >= 1 /\ 6 >= 2 /\ 6 >= 3 /\ 6 >= 4 /\ 6 >= 5 /\ 6 >= 6
    BY SMT
  <2> QED
    BY <1>1, <2>1, <2>2, <2>3, CmpFields, ZenonT(30)
<1> HIDE DEF P
<1>6. /\ IntAt(p) = q.op
      /\ At(P, e) = <<"left", q.id>>
      /\ At(P + e, e) = <<"right", q.id>>
      /\ At(P + 2 * e, INT) = <<"cmp", q.id>>
      /\ At(P + 2 * e + INT, INT) = <<"resp", q.id>>
  <2>1. /\ p \in Int /\ P \in Int
        /\ P + e \in Int
        /\ P + 2 * e \in Int
        /\ P + 2 * e + INT \in Int
    BY <1>1, <1>2, SMT
  <2> QED
    BY <1>1, <1>2, <1>5, <2>1, AtHolds, IntHolds, ZenonT(30)
<1>7. Retrieved(q.op, P) =
        [operands |-> <<At(P, e), At(P + e, e)>>,
         next |-> P + INT * 2 + e * 2 + U64]
  BY <1>1, <1>3, <1>6, SMT DEF Retrieved
<1>8. Replayed(q, P) =
        [compared |-> <<At(P, e), At(P + e, e)>>,
         answer |-> <<At(P + 2 * e, INT), At(P + 2 * e + INT, INT)>>,
         next |-> P + INT * 2 + e * 2 + U64]
  BY <1>1, <1>3, <1>6, SMT DEF Replayed
<1>9. Operands(q) = <<<<"left", q.id>>, <<"right", q.id>>>> /\ Compared(q) = Operands(q)
  <2>1. Value(q, "left") = <<"left", q.id>> /\ Value(q, "right") = <<"right", q.id>>
    BY SMT DEF Value
  <2>2. Operands(q) = Own(q, <<"left", "right">>)
    BY <1>3, SMT DEF Operands
  <2> QED
    BY <1>3, <2>1, <2>2, OwnTwo, SMT DEF Compared
<1>10. Answer(q) = <<<<"cmp", q.id>>, <<"resp", q.id>>>>
  <2>1. Value(q, "cmp") = <<"cmp", q.id>> /\ Value(q, "resp") = <<"resp", q.id>>
    BY SMT DEF Value
  <2>2. Answer(q) = Own(q, <<"cmp", "resp">>)
    BY <1>3 DEF Answer
  <2> QED
    BY <2>1, <2>2, OwnTwo, SMT
<1>11. P + INT * 2 + e * 2 + U64 = p + WrittenLength(q)
  BY <1>1, <1>2, <1>4, SMT DEF P
<1>12. Retrieved(q.op, P).operands = Operands(q) /\ Retrieved(q.op, P).next = p + WrittenLength(q)
  BY <1>6, <1>7, <1>9, <1>11, SMT
<1>13. /\ Replayed(q, P).compared = Compared(q) /\ Replayed(q, P).answer = Answer(q)
       /\ Replayed(q, P).next = p + WrittenLength(q)
  BY <1>6, <1>8, <1>9, <1>10, <1>11, SMT
<1> QED
  BY <1>6, <1>12, <1>13 DEF Reads, P

\* A complete calculation is read as it was recorded.
LEMMA ReadsCalc ==
    ASSUME NEW q \in Requests, q.op \in CalcOps, NEW p \in Nat, RecordAt(q, p)
    PROVE  Reads(q, p)
<1> DEFINE P == p + INT
<1>1. PICK e \in Nat \ {0} : e = EncLength(q.op)
  BY OpsAreInts, EncLengthSize
<1>2. INT \in Nat \ {0} /\ U64 \in Nat \ {0} /\ ENC_INT32_LENGTH \in Nat \ {0} /\ P \in Nat
  <2>1. INT \in Nat \ {0} /\ U64 \in Nat \ {0} /\ ENC_INT32_LENGTH \in Nat \ {0}
    BY SizesAssumption
  <2> QED
    BY <2>1, SMT
<1>3. q.op \notin CmpOps /\ q.op \notin BulkOps /\ q.op \notin StringCmpOps /\ q.op # SUBSTRING /\ q.op # CONCAT /\ q.op # EXTRACT_YEAR
  BY SMT DEF CmpOps, BulkOps, CalcOps, StringCmpOps, SUBSTRING, CONCAT, EXTRACT_YEAR
<1>4. WrittenLength(q) = RecordLength(q) /\ RecordLength(q) = INT * 2 + e * 3 + U64
  <2>1. RecordLength(q) = INT * 2 + e * 3 + U64
    BY <1>1, CalcFields
  <2> QED
    BY <1>1, <1>2, <1>3, <2>1, WrittenAll, SMT
<1>5. /\ HoldsAt(p, INT, <<"int", q.op>>)
      /\ HoldsAt(P, e, <<"left", q.id>>)
      /\ HoldsAt(P + e, e, <<"right", q.id>>)
      /\ HoldsAt(P + 2 * e, e, <<"res", q.id>>)
      /\ HoldsAt(P + 3 * e, INT, <<"resp", q.id>>)
  <2>1. HeaderAt(q, p, 6)
    BY <1>1, CalcFields DEF FieldsOf, RecordAt
  <2>2. /\ p + INT = P
        /\ p + INT + e = P + e
        /\ p + INT + 2 * e = P + 2 * e
        /\ p + INT + 3 * e = P + 3 * e
    BY <1>1, <1>2, SMT
  <2>3. 6 \in 0..6 /\ 6 >= 1 /\ 6 >= 2 /\ 6 >= 3 /\ 6 >= 4 /\ 6 >= 5 /\ 6 >= 6
    BY SMT
  <2> QED
    BY <1>1, <2>1, <2>2, <2>3, CalcFields, ZenonT(30)
<1> HIDE DEF P
<1>6. /\ IntAt(p) = q.op
      /\ At(P, e) = <<"left", q.id>>
      /\ At(P + e, e) = <<"right", q.id>>
      /\ At(P + 2 * e, e) = <<"res", q.id>>
      /\ At(P + 3 * e, INT) = <<"resp", q.id>>
  <2>1. /\ p \in Int /\ P \in Int
        /\ P + e \in Int
        /\ P + 2 * e \in Int
        /\ P + 3 * e \in Int
    BY <1>1, <1>2, SMT
  <2> QED
    BY <1>1, <1>2, <1>5, <2>1, AtHolds, IntHolds, ZenonT(30)
<1>7. Retrieved(q.op, P) =
        [operands |-> <<At(P, e), At(P + e, e)>>,
         next |-> P + INT + e * 3 + U64]
  BY <1>1, <1>3, <1>6, SMT DEF Retrieved
<1>8. Replayed(q, P) =
        [compared |-> <<At(P, e), At(P + e, e)>>,
         answer |-> <<At(P + 2 * e, e), At(P + 3 * e, INT)>>,
         next |-> P + INT + e * 3 + U64]
  BY <1>1, <1>3, <1>6, SMT DEF Replayed
<1>9. Operands(q) = <<<<"left", q.id>>, <<"right", q.id>>>> /\ Compared(q) = Operands(q)
  <2>1. Value(q, "left") = <<"left", q.id>> /\ Value(q, "right") = <<"right", q.id>>
    BY SMT DEF Value
  <2>2. Operands(q) = Own(q, <<"left", "right">>)
    BY <1>3, SMT DEF Operands
  <2> QED
    BY <1>3, <2>1, <2>2, OwnTwo, SMT DEF Compared
<1>10. Answer(q) = <<<<"res", q.id>>, <<"resp", q.id>>>>
  <2>1. Value(q, "res") = <<"res", q.id>> /\ Value(q, "resp") = <<"resp", q.id>>
    BY SMT DEF Value
  <2>2. Answer(q) = Own(q, <<"res", "resp">>)
    BY <1>3 DEF Answer
  <2> QED
    BY <2>1, <2>2, OwnTwo, SMT
<1>11. P + INT + e * 3 + U64 = p + WrittenLength(q)
  BY <1>1, <1>2, <1>4, SMT DEF P
<1>12. Retrieved(q.op, P).operands = Operands(q) /\ Retrieved(q.op, P).next = p + WrittenLength(q)
  BY <1>6, <1>7, <1>9, <1>11, SMT
<1>13. /\ Replayed(q, P).compared = Compared(q) /\ Replayed(q, P).answer = Answer(q)
       /\ Replayed(q, P).next = p + WrittenLength(q)
  BY <1>6, <1>8, <1>9, <1>10, <1>11, SMT
<1> QED
  BY <1>6, <1>12, <1>13 DEF Reads, P

\* A complete comparison of strings is read as it was recorded.
LEMMA ReadsStringCmp ==
    ASSUME NEW q \in Requests, q.op \in StringCmpOps, NEW p \in Nat, RecordAt(q, p)
    PROVE  Reads(q, p)
<1> DEFINE P == p + INT
<1>1. q.l \in Nat \ {0} /\ q.r \in Nat \ {0}
  BY RequestsAssumption
<1>2. INT \in Nat \ {0} /\ U64 \in Nat \ {0} /\ ENC_INT32_LENGTH \in Nat \ {0} /\ P \in Nat
  <2>1. INT \in Nat \ {0} /\ U64 \in Nat \ {0} /\ ENC_INT32_LENGTH \in Nat \ {0}
    BY SizesAssumption
  <2> QED
    BY <2>1, SMT
<1>3. q.op \notin CmpOps /\ q.op \notin BulkOps /\ q.op \notin CalcOps /\ q.op # SUBSTRING /\ q.op # CONCAT /\ q.op # EXTRACT_YEAR
  BY SMT DEF CmpOps, BulkOps, CalcOps, StringCmpOps, SUBSTRING, CONCAT, EXTRACT_YEAR
<1>4. WrittenLength(q) = RecordLength(q) /\ RecordLength(q) = INT * 5 + q.l + q.r + U64
  <2>1. RecordLength(q) = INT * 5 + q.l + q.r + U64
    BY <1>1, StringCmpFields
  <2> QED
    BY <1>1, <1>2, <1>3, <2>1, WrittenAll, SMT
<1>5. /\ HoldsAt(p, INT, <<"int", q.op>>)
      /\ HoldsAt(P, INT, <<"int", q.l>>)
      /\ HoldsAt(P + INT, INT, <<"int", q.r>>)
      /\ HoldsAt(P + 2 * INT, q.l, <<"left", q.id>>)
      /\ HoldsAt(P + 2 * INT + q.l, q.r, <<"right", q.id>>)
      /\ HoldsAt(P + 2 * INT + q.l + q.r, INT, <<"cmp", q.id>>)
      /\ HoldsAt(P + 2 * INT + q.l + q.r + INT, INT, <<"resp", q.id>>)
  <2>1. HeaderAt(q, p, 8)
    BY <1>1, StringCmpFields DEF FieldsOf, RecordAt
  <2>2. /\ p + INT = P
        /\ p + 2 * INT = P + INT
        /\ p + 3 * INT = P + 2 * INT
        /\ p + 3 * INT + q.l = P + 2 * INT + q.l
        /\ p + 3 * INT + q.l + q.r = P + 2 * INT + q.l + q.r
        /\ p + 4 * INT + q.l + q.r = P + 2 * INT + q.l + q.r + INT
    BY <1>1, <1>2, SMT
  <2>3. 8 \in 0..8 /\ 8 >= 1 /\ 8 >= 2 /\ 8 >= 3 /\ 8 >= 4 /\ 8 >= 5 /\ 8 >= 6 /\ 8 >= 7 /\ 8 >= 8
    BY SMT
  <2> QED
    BY <1>1, <2>1, <2>2, <2>3, StringCmpFields, ZenonT(30)
<1> HIDE DEF P
<1>6. /\ IntAt(p) = q.op
      /\ IntAt(P) = q.l
      /\ IntAt(P + INT) = q.r
      /\ At(P + 2 * INT, q.l) = <<"left", q.id>>
      /\ At(P + 2 * INT + q.l, q.r) = <<"right", q.id>>
      /\ At(P + 2 * INT + q.l + q.r, INT) = <<"cmp", q.id>>
      /\ At(P + 2 * INT + q.l + q.r + INT, INT) = <<"resp", q.id>>
  <2>1. /\ p \in Int /\ P \in Int
        /\ P + INT \in Int
        /\ P + 2 * INT \in Int
        /\ P + 2 * INT + q.l \in Int
        /\ P + 2 * INT + q.l + q.r \in Int
        /\ P + 2 * INT + q.l + q.r + INT \in Int
    BY <1>1, <1>2, SMT
  <2> QED
    BY <1>1, <1>2, <1>5, <2>1, AtHolds, IntHolds, ZenonT(30)
<1>7. Retrieved(q.op, P) =
        [operands |-> <<At(P + 2 * INT, q.l), At(P + 2 * INT + q.l, q.r)>>,
         next |-> P + 2 * INT + q.l + q.r + INT * 2 + U64]
  BY <1>1, <1>3, <1>6, SMT DEF Retrieved
<1>8. Replayed(q, P) =
        [compared |-> <<q.l, q.r>>,
         answer |-> <<At(P + 2 * INT + q.l + q.r, INT), At(P + 2 * INT + q.l + q.r + INT, INT)>>,
         next |-> P + 2 * INT + q.l + q.r + INT * 2 + U64]
  BY <1>1, <1>3, <1>6, SMT DEF Replayed
<1>9. Operands(q) = <<<<"left", q.id>>, <<"right", q.id>>>> /\ Compared(q) = <<q.l, q.r>>
  <2>1. Value(q, "left") = <<"left", q.id>> /\ Value(q, "right") = <<"right", q.id>>
    BY SMT DEF Value
  <2>2. Operands(q) = Own(q, <<"left", "right">>)
    BY <1>3, SMT DEF Operands
  <2> QED
    BY <1>3, <2>1, <2>2, OwnTwo, SMT DEF Compared
<1>10. Answer(q) = <<<<"cmp", q.id>>, <<"resp", q.id>>>>
  <2>1. Value(q, "cmp") = <<"cmp", q.id>> /\ Value(q, "resp") = <<"resp", q.id>>
    BY SMT DEF Value
  <2>2. Answer(q) = Own(q, <<"cmp", "resp">>)
    BY <1>3 DEF Answer
  <2> QED
    BY <2>1, <2>2, OwnTwo, SMT
<1>11. P + 2 * INT + q.l + q.r + INT * 2 + U64 = p + WrittenLength(q)
  BY <1>1, <1>2, <1>4, SMT DEF P
<1>12. Retrieved(q.op, P).operands = Operands(q) /\ Retrieved(q.op, P).next = p + WrittenLength(q)
  BY <1>6, <1>7, <1>9, <1>11, SMT
<1>13. /\ Replayed(q, P).compared = Compared(q) /\ Replayed(q, P).answer = Answer(q)
       /\ Replayed(q, P).next = p + WrittenLength(q)
  BY <1>6, <1>8, <1>9, <1>10, <1>11, SMT
<1> QED
  BY <1>6, <1>12, <1>13 DEF Reads, P

\* A complete substring is read as it was recorded.
LEMMA ReadsSubstring ==
    ASSUME NEW q \in Requests, q.op = SUBSTRING, NEW p \in Nat, RecordAt(q, p)
    PROVE  Reads(q, p)
<1> DEFINE P == p + INT
<1>1. q.l \in Nat \ {0} /\ q.s \in Nat \ {0}
  BY RequestsAssumption
<1>2. INT \in Nat \ {0} /\ U64 \in Nat \ {0} /\ ENC_INT32_LENGTH \in Nat \ {0} /\ P \in Nat
  <2>1. INT \in Nat \ {0} /\ U64 \in Nat \ {0} /\ ENC_INT32_LENGTH \in Nat \ {0}
    BY SizesAssumption
  <2> QED
    BY <2>1, SMT
<1>3. q.op \notin CmpOps /\ q.op \notin BulkOps /\ q.op \notin CalcOps /\ q.op \notin StringCmpOps /\ q.op # CONCAT /\ q.op # EXTRACT_YEAR
  BY SMT DEF CmpOps, BulkOps, CalcOps, StringCmpOps, SUBSTRING, CONCAT, EXTRACT_YEAR
<1>4. WrittenLength(q) = RecordLength(q) /\ RecordLength(q) = INT * 4 + q.l + q.s + 2 * ENC_INT32_LENGTH + U64
  <2>1. RecordLength(q) = INT * 4 + q.l + q.s + 2 * ENC_INT32_LENGTH + U64
    BY <1>1, SubstringFields
  <2> QED
    BY <1>1, <1>2, <1>3, <2>1, WrittenAll, SMT
<1>5. /\ HoldsAt(p, INT, <<"int", q.op>>)
      /\ HoldsAt(P, INT, <<"int", q.l>>)
      /\ HoldsAt(P + INT, INT, <<"int", q.s>>)
      /\ HoldsAt(P + 2 * INT, q.l, <<"left", q.id>>)
      /\ HoldsAt(P + 2 * INT + q.l, ENC_INT32_LENGTH, <<"start", q.id>>)
      /\ HoldsAt(P + 2 * INT + q.l + ENC_INT32_LENGTH, ENC_INT32_LENGTH, <<"length", q.id>>)
      /\ HoldsAt(P + 2 * INT + q.l + 2 * ENC_INT32_LENGTH, q.s, <<"res", q.id>>)
      /\ HoldsAt(P + 2 * INT + q.l + 2 * ENC_INT32_LENGTH + q.s, INT, <<"resp", q.id>>)
  <2>1. HeaderAt(q, p, 9)
    BY <1>1, SubstringFields DEF FieldsOf, RecordAt
  <2>2. /\ p + INT = P
        /\ p + 2 * INT = P + INT
        /\ p + 3 * INT = P + 2 * INT
        /\ p + 3 * INT + q.l = P + 2 * INT + q.l
        /\ p + 3 * INT + q.l + ENC_INT32_LENGTH = P + 2 * INT + q.l + ENC_INT32_LENGTH
        /\ p + 3 * INT + q.l + 2 * ENC_INT32_LENGTH = P + 2 * INT + q.l + 2 * ENC_INT32_LENGTH
        /\ p + 3 * INT + q.l + 2 * ENC_INT32_LENGTH + q.s = P + 2 * INT + q.l + 2 * ENC_INT32_LENGTH + q.s
    BY <1>1, <1>2, SMT
  <2>3. 9 \in 0..9 /\ 9 >= 1 /\ 9 >= 2 /\ 9 >= 3 /\ 9 >= 4 /\ 9 >= 5 /\ 9 >= 6 /\ 9 >= 7 /\ 9 >= 8 /\ 9 >= 9
    BY SMT
  <2> QED
    BY <1>1, <2>1, <2>2, <2>3, SubstringFields, ZenonT(30)
<1> HIDE DEF P
<1>6. /\ IntAt(p) = q.op
      /\ IntAt(P) = q.l
      /\ IntAt(P + INT) = q.s
      /\ At(P + 2 * INT, q.l) = <<"left", q.id>>
      /\ At(P + 2 * INT + q.l, ENC_INT32_LENGTH) = <<"start", q.id>>
      /\ At(P + 2 * INT + q.l + ENC_INT32_LENGTH, ENC_INT32_LENGTH) = <<"length", q.id>>
      /\ At(P + 2 * INT + q.l + 2 * ENC_INT32_LENGTH, q.s) = <<"res", q.id>>
      /\ At(P + 2 * INT + q.l + 2 * ENC_INT32_LENGTH + q.s, INT) = <<"resp", q.id>>
  <2>1. /\ p \in Int /\ P \in Int
        /\ P + INT \in Int
        /\ P + 2 * INT \in Int
        /\ P + 2 * INT + q.l \in Int
        /\ P + 2 * INT + q.l + ENC_INT32_LENGTH \in Int
        /\ P + 2 * INT + q.l + 2 * ENC_INT32_LENGTH \in Int
        /\ P + 2 * INT + q.l + 2 * ENC_INT32_LENGTH + q.s \in Int
    BY <1>1, <1>2, SMT
  <2> QED
    BY <1>1, <1>2, <1>5, <2>1, AtHolds, IntHolds, ZenonT(30)
<1>7. Retrieved(q.op, P) =
        [operands |-> <<At(P + 2 * INT, q.l), At(P + 2 * INT + q.l, ENC_INT32_LENGTH), At(P + 2 * INT + q.l + ENC_INT32_LENGTH, ENC_INT32_LENGTH)>>,
         next |-> P + 2 * INT + q.l + q.s + INT + ENC_INT32_LENGTH * 2 + U64]
  BY <1>1, <1>3, <1>6, SMT DEF Retrieved
<1>8. Replayed(q, P) =
        [compared |-> <<At(P + 2 * INT, q.l), At(P + 2 * INT + q.l, ENC_INT32_LENGTH), At(P + 2 * INT + q.l + ENC_INT32_LENGTH, ENC_INT32_LENGTH)>>,
         answer |-> <<At(P + 2 * INT + q.l + 2 * ENC_INT32_LENGTH, q.s), At(P + 2 * INT + q.l + 2 * ENC_INT32_LENGTH + q.s, INT)>>,
         next |-> P + 2 * INT + q.l + q.s + INT + ENC_INT32_LENGTH * 2 + U64]
  BY <1>1, <1>3, <1>6, SMT DEF Replayed
<1>9. Operands(q) = <<<<"left", q.id>>, <<"start", q.id>>, <<"length", q.id>>>> /\ Compared(q) = Operands(q)
  <2>1. Value(q, "left") = <<"left", q.id>> /\ Value(q, "start") = <<"start", q.id>> /\ Value(q, "length") = <<"length", q.id>>
    BY SMT DEF Value
  <2>2. Operands(q) = Own(q, <<"left", "start", "length">>)
    BY <1>3, SMT DEF Operands
  <2> QED
    BY <1>3, <2>1, <2>2, OwnThree, SMT DEF Compared
<1>10. Answer(q) = <<<<"res", q.id>>, <<"resp", q.id>>>>
  <2>1. Value(q, "res") = <<"res", q.id>> /\ Value(q, "resp") = <<"resp", q.id>>
    BY SMT DEF Value
  <2>2. Answer(q) = Own(q, <<"res", "resp">>)
    BY <1>3 DEF Answer
  <2> QED
    BY <2>1, <2>2, OwnTwo, SMT
<1>11. P + 2 * INT + q.l + q.s + INT + ENC_INT32_LENGTH * 2 + U64 = p + WrittenLength(q)
  BY <1>1, <1>2, <1>4, SMT DEF P
<1>12. Retrieved(q.op, P).operands = Operands(q) /\ Retrieved(q.op, P).next = p + WrittenLength(q)
  BY <1>6, <1>7, <1>9, <1>11, SMT
<1>13. /\ Replayed(q, P).compared = Compared(q) /\ Replayed(q, P).answer = Answer(q)
       /\ Replayed(q, P).next = p + WrittenLength(q)
  BY <1>6, <1>8, <1>9, <1>10, <1>11, SMT
<1> QED
  BY <1>6, <1>12, <1>13 DEF Reads, P

\* A complete concatenation is read as it was recorded.
LEMMA ReadsConcat ==
    ASSUME NEW q \in Requests, q.op = CONCAT, NEW p \in Nat, RecordAt(q, p)
    PROVE  Reads(q, p)
<1> DEFINE P == p + INT
<1>1. q.l \in Nat \ {0} /\ q.r \in Nat \ {0} /\ q.s \in Nat \ {0}
  BY RequestsAssumption
<1>2. INT \in Nat \ {0} /\ U64 \in Nat \ {0} /\ ENC_INT32_LENGTH \in Nat \ {0} /\ P \in Nat
  <2>1. INT \in Nat \ {0} /\ U64 \in Nat \ {0} /\ ENC_INT32_LENGTH \in Nat \ {0}
    BY SizesAssumption
  <2> QED
    BY <2>1, SMT
<1>3. q.op \notin CmpOps /\ q.op \notin BulkOps /\ q.op \notin CalcOps /\ q.op \notin StringCmpOps /\ q.op # SUBSTRING /\ q.op # EXTRACT_YEAR
  BY SMT DEF CmpOps, BulkOps, CalcOps, StringCmpOps, SUBSTRING, CONCAT, EXTRACT_YEAR
<1>4. WrittenLength(q) = RecordLength(q) /\ RecordLength(q) = INT * 5 + q.l + q.r + q.s + U64
  <2>1. RecordLength(q) = INT * 5 + q.l + q.r + q.s + U64
    BY <1>1, ConcatFields
  <2> QED
    BY <1>1, <1>2, <1>3, <2>1, WrittenAll, SMT
<1>5. /\ HoldsAt(p, INT, <<"int", q.op>>)
      /\ HoldsAt(P, INT, <<"int", q.l>>)
      /\ HoldsAt(P + INT, INT, <<"int", q.r>>)
      /\ HoldsAt(P + 2 * INT, INT, <<"int", q.s>>)
      /\ HoldsAt(P + 3 * INT, q.l, <<"left", q.id>>)
      /\ HoldsAt(P + 3 * INT + q.l, q.r, <<"right", q.id>>)
      /\ HoldsAt(P + 3 * INT + q.l + q.r, q.s, <<"res", q.id>>)
      /\ HoldsAt(P + 3 * INT + q.l + q.r + q.s, INT, <<"resp", q.id>>)
  <2>1. HeaderAt(q, p, 9)
    BY <1>1, ConcatFields DEF FieldsOf, RecordAt
  <2>2. /\ p + INT = P
        /\ p + 2 * INT = P + INT
        /\ p + 3 * INT = P + 2 * INT
        /\ p + 4 * INT = P + 3 * INT
        /\ p + 4 * INT + q.l = P + 3 * INT + q.l
        /\ p + 4 * INT + q.l + q.r = P + 3 * INT + q.l + q.r
        /\ p + 4 * INT + q.l + q.r + q.s = P + 3 * INT + q.l + q.r + q.s
    BY <1>1, <1>2, SMT
  <2>3. 9 \in 0..9 /\ 9 >= 1 /\ 9 >= 2 /\ 9 >= 3 /\ 9 >= 4 /\ 9 >= 5 /\ 9 >= 6 /\ 9 >= 7 /\ 9 >= 8 /\ 9 >= 9
    BY SMT
  <2> QED
    BY <1>1, <2>1, <2>2, <2>3, ConcatFields, ZenonT(30)
<1> HIDE DEF P
<1>6. /\ IntAt(p) = q.op
      /\ IntAt(P) = q.l
      /\ IntAt(P + INT) = q.r
      /\ IntAt(P + 2 * INT) = q.s
      /\ At(P + 3 * INT, q.l) = <<"left", q.id>>
      /\ At(P + 3 * INT + q.l, q.r) = <<"right", q.id>>
      /\ At(P + 3 * INT + q.l + q.r, q.s) = <<"res", q.id>>
      /\ At(P + 3 * INT + q.l + q.r + q.s, INT) = <<"resp", q.id>>
  <2>1. /\ p \in Int /\ P \in Int
        /\ P + INT \in Int
        /\ P + 2 * INT \in Int
        /\ P + 3 * INT \in Int
        /\ P + 3 * INT + q.l \in Int
        /\ P + 3 * INT + q.l + q.r \in Int
        /\ P + 3 * INT + q.l + q.r + q.s \in Int
    BY <1>1, <1>2, SMT
  <2> QED
    BY <1>1, <1>2, <1>5, <2>1, AtHolds, IntHolds, ZenonT(30)
<1>7. Retrieved(q.op, P) =
        [operands |-> <<At(P + 3 * INT, q.l), At(P + 3 * INT + q.l, q.r)>>,
         next |-> P + 3 * INT + INT + q.l + q.r + q.s + U64]
  BY <1>1, <1>3, <1>6, SMT DEF Retrieved
<1>8. Replayed(q, P) =
        [compared |-> <<At(P + 3 * INT, q.l), At(P + 3 * INT + q.l, q.r)>>,
         answer |-> <<At(P + 3 * INT + q.l + q.r, q.s), At(P + 3 * INT + q.l + q.r + q.s, INT)>>,
         next |-> P + 3 * INT + INT + q.l + q.r + q.s + U64]
  BY <1>1, <1>3, <1>6, SMT DEF Replayed
<1>9. Operands(q) = <<<<"left", q.id>>, <<"right", q.id>>>> /\ Compared(q) = Operands(q)
  <2>1. Value(q, "left") = <<"left", q.id>> /\ Value(q, "right") = <<"right", q.id>>
    BY SMT DEF Value
  <2>2. Operands(q) = Own(q, <<"left", "right">>)
    BY <1>3, SMT DEF Operands
  <2> QED
    BY <1>3, <2>1, <2>2, OwnTwo, SMT DEF Compared
<1>10. Answer(q) = <<<<"res", q.id>>, <<"resp", q.id>>>>
  <2>1. Value(q, "res") = <<"res", q.id>> /\ Value(q, "resp") = <<"resp", q.id>>
    BY SMT DEF Value
  <2>2. Answer(q) = Own(q, <<"res", "resp">>)
    BY <1>3 DEF Answer
  <2> QED
    BY <2>1, <2>2, OwnTwo, SMT
<1>11. P + 3 * INT + INT + q.l + q.r + q.s + U64 = p + WrittenLength(q)
  BY <1>1, <1>2, <1>4, SMT DEF P
<1>12. Retrieved(q.op, P).operands = Operands(q) /\ Retrieved(q.op, P).next = p + WrittenLength(q)
  BY <1>6, <1>7, <1>9, <1>11, SMT
<1>13. /\ Replayed(q, P).compared = Compared(q) /\ Replayed(q, P).answer = Answer(q)
       /\ Replayed(q, P).next = p + WrittenLength(q)
  BY <1>6, <1>8, <1>9, <1>10, <1>11, SMT
<1> QED
  BY <1>6, <1>12, <1>13 DEF Reads, P

\* A complete year of a timestamp is read as it was recorded.
LEMMA ReadsExtract ==
    ASSUME NEW q \in Requests, q.op = EXTRACT_YEAR, NEW p \in Nat, RecordAt(q, p)
    PROVE  Reads(q, p)
<1> DEFINE P == p + INT
<1>1. PICK e \in Nat \ {0} : e = EncLength(q.op)
  BY OpsAreInts, EncLengthSize
<1>2. INT \in Nat \ {0} /\ U64 \in Nat \ {0} /\ ENC_INT32_LENGTH \in Nat \ {0} /\ P \in Nat
  <2>1. INT \in Nat \ {0} /\ U64 \in Nat \ {0} /\ ENC_INT32_LENGTH \in Nat \ {0}
    BY SizesAssumption
  <2> QED
    BY <2>1, SMT
<1>3. q.op \notin CmpOps /\ q.op \notin BulkOps /\ q.op \notin CalcOps /\ q.op \notin StringCmpOps /\ q.op # SUBSTRING /\ q.op # CONCAT
  BY SMT DEF CmpOps, BulkOps, CalcOps, StringCmpOps, SUBSTRING, CONCAT, EXTRACT_YEAR
<1>4. WrittenLength(q) = RecordLength(q) /\ RecordLength(q) = INT * 2 + e + ENC_INT32_LENGTH + U64
  <2>1. RecordLength(q) = INT * 2 + e + ENC_INT32_LENGTH + U64
    BY <1>1, ExtractFields
  <2> QED
    BY <1>1, <1>2, <1>3, <2>1, WrittenAll, SMT
<1>5. /\ HoldsAt(p, INT, <<"int", q.op>>)
      /\ HoldsAt(P, e, <<"left", q.id>>)
      /\ HoldsAt(P + e, ENC_INT32_LENGTH, <<"res", q.id>>)
      /\ HoldsAt(P + e + ENC_INT32_LENGTH, INT, <<"resp", q.id>>)
  <2>1. HeaderAt(q, p, 5)
    BY <1>1, ExtractFields DEF FieldsOf, RecordAt
  <2>2. /\ p + INT = P
        /\ p + INT + e = P + e
        /\ p + INT + e + ENC_INT32_LENGTH = P + e + ENC_INT32_LENGTH
    BY <1>1, <1>2, SMT
  <2>3. 5 \in 0..5 /\ 5 >= 1 /\ 5 >= 2 /\ 5 >= 3 /\ 5 >= 4 /\ 5 >= 5
    BY SMT
  <2> QED
    BY <1>1, <2>1, <2>2, <2>3, ExtractFields, ZenonT(30)
<1> HIDE DEF P
<1>6. /\ IntAt(p) = q.op
      /\ At(P, e) = <<"left", q.id>>
      /\ At(P + e, ENC_INT32_LENGTH) = <<"res", q.id>>
      /\ At(P + e + ENC_INT32_LENGTH, INT) = <<"resp", q.id>>
  <2>1. /\ p \in Int /\ P \in Int
        /\ P + e \in Int
        /\ P + e + ENC_INT32_LENGTH \in Int
    BY <1>1, <1>2, SMT
  <2> QED
    BY <1>1, <1>2, <1>5, <2>1, AtHolds, IntHolds, ZenonT(30)
<1>7. Retrieved(q.op, P) =
        [operands |-> <<At(P, e)>>,
         next |-> P + INT + e + ENC_INT32_LENGTH + U64]
  BY <1>1, <1>3, <1>6, SMT DEF Retrieved
<1>8. Replayed(q, P) =
        [compared |-> <<At(P, e)>>,
         answer |-> <<At(P + e, ENC_INT32_LENGTH), At(P + e + ENC_INT32_LENGTH, INT)>>,
         next |-> P + INT + e + ENC_INT32_LENGTH + U64]
  BY <1>1, <1>3, <1>6, SMT DEF Replayed
<1>9. Operands(q) = <<<<"left", q.id>>>> /\ Compared(q) = Operands(q)
  <2>1. Value(q, "left") = <<"left", q.id>>
    BY SMT DEF Value
  <2>2. Operands(q) = Own(q, <<"left">>)
    BY <1>3, SMT DEF Operands
  <2> QED
    BY <1>3, <2>1, <2>2, OwnOne DEF Compared
<1>10. Answer(q) = <<<<"res", q.id>>, <<"resp", q.id>>>>
  <2>1. Value(q, "res") = <<"res", q.id>> /\ Value(q, "resp") = <<"resp", q.id>>
    BY SMT DEF Value
  <2>2. Answer(q) = Own(q, <<"res", "resp">>)
    BY <1>3 DEF Answer
  <2> QED
    BY <2>1, <2>2, OwnTwo, SMT
<1>11. P + INT + e + ENC_INT32_LENGTH + U64 = p + WrittenLength(q)
  BY <1>1, <1>2, <1>4, SMT DEF P
<1>12. Retrieved(q.op, P).operands = Operands(q) /\ Retrieved(q.op, P).next = p + WrittenLength(q)
  BY <1>6, <1>7, <1>9, <1>11, SMT
<1>13. /\ Replayed(q, P).compared = Compared(q) /\ Replayed(q, P).answer = Answer(q)
       /\ Replayed(q, P).next = p + WrittenLength(q)
  BY <1>6, <1>8, <1>9, <1>10, <1>11, SMT
<1> QED
  BY <1>6, <1>12, <1>13 DEF Reads, P

\* A complete bulk sum is read as it was recorded.
LEMMA ReadsBulk ==
    ASSUME NEW q \in Requests, q.op \in BulkOps, NEW p \in Nat, RecordAt(q, p)
    PROVE  Reads(q, p)
<1> DEFINE P == p + INT
<1>1. PICK e \in Nat \ {0} : e = EncLength(q.op)
  BY OpsAreInts, EncLengthSize
<1> DEFINE d == P + INT * 2 + e + U64
<1>2. INT \in Nat \ {0} /\ U64 \in Nat \ {0} /\ P \in Nat /\ d \in Nat
  <2>1. INT \in Nat \ {0} /\ U64 \in Nat \ {0}
    BY SizesAssumption
  <2> QED
    BY <2>1, SMT
<1>3. /\ q.op \notin CmpOps /\ q.op \notin CalcOps /\ q.op \notin StringCmpOps /\ q.op # SUBSTRING
      /\ q.op # CONCAT /\ q.op # EXTRACT_YEAR
  BY SMT DEF CmpOps, BulkOps, CalcOps, StringCmpOps, SUBSTRING, CONCAT, EXTRACT_YEAR
<1>4. /\ RecordLength(q) = INT * 3 + e + U64
      /\ WrittenLength(q) = RecordLength(q) + q.n * e
      /\ q.n \in Nat /\ q.n \in 1..Len(ItemNames) /\ ItemCount(q) = q.n
  <2>1. RecordLength(q) = INT * 3 + e + U64
    BY <1>1, BulkFields
  <2>2. q.n \in 1..Len(ItemNames) /\ Len(ItemNames) \in Nat
    BY RequestsAssumption, SMT
  <2>3. ItemCount(q) = q.n
    BY DEF ItemCount
  <2>4. q.n \in Nat
    BY <2>2, SMT
  <2> QED
    BY <1>1, <2>1, <2>2, <2>3, <2>4 DEF WrittenLength
<1>5. /\ HoldsAt(p, INT, <<"int", q.op>>) /\ HoldsAt(P, INT, <<"int", q.n>>)
      /\ HoldsAt(P + INT, e, <<"res", q.id>>) /\ HoldsAt(P + INT + e, INT, <<"resp", q.id>>)
  <2>1. HeaderAt(q, p, 5)
    BY <1>1, BulkFields DEF FieldsOf, RecordAt
  <2>2. p + 2 * INT = P + INT /\ p + 2 * INT + e = P + INT + e
    BY <1>1, <1>2, SMT
  <2>3. 5 \in 0..5 /\ 5 >= 1 /\ 5 >= 2 /\ 5 >= 3 /\ 5 >= 4
    BY SMT
  <2> QED
    BY <1>1, <2>1, <2>2, <2>3, BulkFields, ZenonT(30)
<1>6. \A i \in 1..q.n : HoldsAt(d + (i - 1) * e, e, Value(q, ItemNames[i]))
  <2>1. p + RecordLength(q) = d
    BY <1>1, <1>2, <1>4, SMT
  <2> QED
    BY <1>1, <1>4, <2>1 DEF RecordAt, ItemsAt
<1> HIDE DEF P, d
<1>7. /\ IntAt(p) = q.op /\ IntAt(P) = q.n
      /\ At(P + INT, e) = <<"res", q.id>> /\ At(P + INT + e, INT) = <<"resp", q.id>>
  <2>1. p \in Int /\ P \in Int /\ P + INT \in Int /\ P + INT + e \in Int
    BY <1>1, <1>2, SMT
  <2> QED
    BY <1>1, <1>2, <1>5, <2>1, AtHolds, IntHolds, ZenonT(30)
<1>8. \A i \in 1..q.n : At(d + (i - 1) * e, e) = Value(q, ItemNames[i])
  <2>1. \A i \in 1..q.n : d + (i - 1) * e \in Int
    BY <1>1, <1>2, <1>4, SMT
  <2> QED
    BY <1>1, <1>6, <2>1, AtHolds
<1>9. Operands(q) = [i \in 1..q.n |-> Value(q, ItemNames[i])] /\ Compared(q) = Operands(q)
  <2>1. Len(SubSeq(ItemNames, 1, q.n)) = q.n
    BY <1>4, RequestsAssumption, SMT
  <2>2. \A i \in 1..q.n : SubSeq(ItemNames, 1, q.n)[i] = ItemNames[i]
    BY <1>4, RequestsAssumption, SMT
  <2>3. Operands(q) = Own(q, SubSeq(ItemNames, 1, q.n))
    BY <1>3, SMT DEF Operands
  <2> QED
    BY <1>3, <2>1, <2>2, <2>3 DEF Own, Compared
<1>10. /\ Retrieved(q.op, P).operands = [i \in 1..q.n |-> At(d + (i - 1) * e, e)]
       /\ Retrieved(q.op, P).next = d + q.n * e
  BY <1>1, <1>3, <1>7, SMT DEF Retrieved, d
<1>11. /\ Replayed(q, P).compared = [i \in 1..q.n |-> At(d + (i - 1) * e, e)]
       /\ Replayed(q, P).answer = <<At(P + INT, e), At(P + INT + e, INT)>>
       /\ Replayed(q, P).next = d + q.n * e
  BY <1>1, <1>3, <1>7, SMT DEF Replayed, d
<1>12. Answer(q) = <<<<"res", q.id>>, <<"resp", q.id>>>>
  <2>1. Value(q, "res") = <<"res", q.id>> /\ Value(q, "resp") = <<"resp", q.id>>
    BY SMT DEF Value
  <2>2. Answer(q) = Own(q, <<"res", "resp">>)
    BY <1>3 DEF Answer
  <2> QED
    BY <2>1, <2>2, OwnTwo, SMT
<1>13. d + q.n * e = p + WrittenLength(q)
  <2>1. q.n * e \in Int
    BY <1>1, <1>4, SMT
  <2> QED
    BY <1>1, <1>2, <1>4, <2>1, SMT DEF P, d
<1> QED
  BY <1>7, <1>8, <1>9, <1>10, <1>11, <1>12, <1>13 DEF Reads, P

\* The three layouts agree: from every complete record, whatever the sizes of its fields
\* and of its strings, the desensitizer and the replayer take the operands and the
\* answer that were recorded, and leave it exactly where the recorder ended it.
THEOREM LayoutsAgree ==
    ASSUME NEW q \in Requests, NEW p \in Nat, RecordAt(q, p)
    PROVE  Reads(q, p)
<1>1. q.op \in KnownOps
  BY RequestsAssumption
<1> QED
  BY <1>1, ReadsCmp, ReadsBulk, ReadsCalc, ReadsStringCmp, ReadsSubstring, ReadsConcat,
     ReadsExtract DEF KnownOps

-----------------------------------------------------------------------------
(* Reading a record that was interrupted.                                  *)

\* Of the record of q at p the first m fields are there; from w on nothing is.
Interrupted(q, p, m, w) ==
    /\ m \in 0..Len(Layout(q)) /\ HeaderAt(q, p, m)
    /\ w \in Nat /\ \A k \in Nat : k >= w => Cell(k) = Zero
    /\ IF m < Len(Layout(q)) THEN w = FieldOffsets(p, Layout(q))[m + 1]
       ELSE w <= p + WrittenLength(q)

\* An interrupted record is not found, or is left behind all that was written of it.
Left(q, p, w) ==
    \/ IntAt(p) = 0
    \/ /\ IntAt(p) = q.op
       /\ Retrieved(q.op, p + INT).next \in Nat /\ Retrieved(q.op, p + INT).next >= w

LEMMA LengthsNatural ==
    ASSUME NEW q \in Requests
    PROVE  RecordLength(q) \in Nat \ {0} /\ WrittenLength(q) \in Nat /\ WrittenLength(q) >= RecordLength(q)
<1>1. RecordLength(q) \in Nat \ {0}
  <2>1. RecordLength(q) \in 1..DATA_LENGTH /\ DATA_LENGTH \in Nat
    BY RequestsAssumption, LengthsAssumption
  <2> QED
    BY <2>1, SMT
<1>2. EncLength(q.op) \in Nat
  BY OpsAreInts, EncLengthSize
<1>3. ItemCount(q) \in Nat
  <2>1. q.op \in BulkOps => q.n \in 1..Len(ItemNames) /\ Len(ItemNames) \in Nat
    BY RequestsAssumption, SMT
  <2> QED
    BY <2>1, SMT DEF ItemCount
<1>4. ItemCount(q) * EncLength(q.op) \in Nat
  BY <1>2, <1>3, SMT
<1> QED
  BY <1>1, <1>4, SMT DEF WrittenLength

\* Every record has its fields in its buffer, the operation first.
LEMMA RecordFields ==
    ASSUME NEW q \in Requests, NEW p \in Nat
    PROVE  \E n \in Nat \ {0} :
             /\ FieldsOf(q, p, n) /\ FieldOffsets(p, Layout(q))[1] = p
             /\ \A i, k \in 1..n + 1 :
                  i <= k => FieldOffsets(p, Layout(q))[i] <= FieldOffsets(p, Layout(q))[k]
             /\ \A i \in 1..n + 1 : FieldOffsets(p, Layout(q))[i] \in Nat
             /\ \A i \in 1..n :
                  FieldOffsets(p, Layout(q))[i + 1] = FieldOffsets(p, Layout(q))[i] + Layout(q)[i].size
             /\ \A m \in 1..n : HeaderAt(q, p, m) => HoldsAt(p, INT, <<"int", q.op>>)
<1>1. PICK e \in Nat : e = EncLength(q.op)
  BY OpsAreInts, EncLengthSize
<1>2. q.op \in KnownOps
  BY RequestsAssumption
<1>3. \E n \in Nat \ {0} :
        FieldsOf(q, p, n) /\ \A m \in 1..n : HeaderAt(q, p, m) => HoldsAt(p, INT, <<"int", q.op>>)
  <2>1. ASSUME NEW n \in {5, 6, 8, 9}, NEW m \in 1..n PROVE n \in Nat \ {0} /\ m \in 0..n /\ m >= 1
    BY SMT
  <2>2. 5 \in {5, 6, 8, 9} /\ 6 \in {5, 6, 8, 9} /\ 8 \in {5, 6, 8, 9} /\ 9 \in {5, 6, 8, 9}
    OBVIOUS
  <2>3. 5 \in Nat \ {0} /\ 6 \in Nat \ {0} /\ 8 \in Nat \ {0} /\ 9 \in Nat \ {0}
    BY SMT
  <2>4. CASE q.op \in CmpOps
    BY <1>1, <2>1, <2>2, <2>3, <2>4, CmpFields
  <2>5. CASE q.op \in BulkOps
    BY <1>1, <2>1, <2>2, <2>3, <2>5, BulkFields
  <2>6. CASE q.op \in CalcOps
    BY <1>1, <2>1, <2>2, <2>3, <2>6, CalcFields
  <2>7. CASE q.op \in StringCmpOps
    BY <2>1, <2>2, <2>3, <2>7, StringCmpFields
  <2>8. CASE q.op = SUBSTRING
    BY <2>1, <2>2, <2>3, <2>8, SubstringFields
  <2>9. CASE q.op = CONCAT
    BY <2>1, <2>2, <2>3, <2>9, ConcatFields
  <2>10. CASE q.op = EXTRACT_YEAR
    BY <1>1, <2>1, <2>2, <2>3, <2>10, ExtractFields
  <2> QED
    BY <1>2, <2>4, <2>5, <2>6, <2>7, <2>8, <2>9, <2>10 DEF KnownOps
<1>4. PICK n \in Nat \ {0} :
        FieldsOf(q, p, n) /\ \A m \in 1..n : HeaderAt(q, p, m) => HoldsAt(p, INT, <<"int", q.op>>)
  BY <1>3
<1>5. Len(Layout(q)) = n /\ Sized(Layout(q))
  BY <1>4 DEF FieldsOf, Sized
<1>6. /\ FieldOffsets(p, Layout(q)) \in [1..n + 1 -> Nat] /\ FieldOffsets(p, Layout(q))[1] = p
      /\ \A i \in 1..n :
           FieldOffsets(p, Layout(q))[i + 1] = FieldOffsets(p, Layout(q))[i] + Layout(q)[i].size
      /\ \A i, k \in 1..n + 1 :
           i <= k => FieldOffsets(p, Layout(q))[i] <= FieldOffsets(p, Layout(q))[k]
  <2>1. ASSUME NEW L, Sized(L)
        PROVE  /\ FieldOffsets(p, L) \in [1..Len(L) + 1 -> Nat] /\ FieldOffsets(p, L)[1] = p
               /\ \A i \in 1..Len(L) :
                    FieldOffsets(p, L)[i + 1] = FieldOffsets(p, L)[i] + L[i].size
               /\ \A i, k \in 1..Len(L) + 1 :
                    i <= k => FieldOffsets(p, L)[i] <= FieldOffsets(p, L)[k]
    BY <2>1, FieldsConsecutive, SMT
  <2> QED
    BY <1>5, <2>1
<1>7. \A i \in 1..n + 1 : FieldOffsets(p, Layout(q))[i] \in Nat
  BY <1>6
<1> QED
  BY <1>4, <1>6, <1>7

\* At most the whole record has been written.
LEMMA InterruptedWithin ==
    ASSUME NEW q \in Requests, NEW p \in Nat, NEW m, NEW w, Interrupted(q, p, m, w)
    PROVE  w <= p + WrittenLength(q)
<1>1. PICK n \in Nat \ {0} :
        /\ FieldsOf(q, p, n)
        /\ \A i, k \in 1..n + 1 :
             i <= k => FieldOffsets(p, Layout(q))[i] <= FieldOffsets(p, Layout(q))[k]
        /\ \A i \in 1..n + 1 : FieldOffsets(p, Layout(q))[i] \in Nat
  BY RecordFields
<1>2. CASE m < Len(Layout(q))
  <2>1. m + 1 \in 1..n + 1 /\ n + 1 \in 1..n + 1 /\ m + 1 <= n + 1
    BY <1>1, <1>2, SMT DEF Interrupted, FieldsOf
  <2>2. w <= FieldOffsets(p, Layout(q))[n + 1]
    BY <1>1, <1>2, <2>1 DEF Interrupted
  <2>3. FieldOffsets(p, Layout(q))[n + 1] = p + RecordLength(q)
    BY <1>1 DEF FieldsOf
  <2>4. w \in Nat
    BY DEF Interrupted
  <2> QED
    BY <2>2, <2>3, <2>4, LengthsNatural, SMT
<1> QED
  BY <1>2 DEF Interrupted

\* Numbers and strings of fixed sizes: the reader knows the length of the record.
LEMMA LeavesFixed ==
    ASSUME NEW q \in Requests, q.op \in CmpOps \cup CalcOps \cup {EXTRACT_YEAR}, NEW p \in Nat,
           NEW m, NEW w, Interrupted(q, p, m, w)
    PROVE  Retrieved(q.op, p + INT).next = p + WrittenLength(q)
<1>1. PICK e \in Nat : e = EncLength(q.op)
  BY OpsAreInts, EncLengthSize
<1>2. INT \in Nat /\ U64 \in Nat /\ ENC_INT32_LENGTH \in Nat
  BY SizesAssumption
<1>3. q.op \notin BulkOps
  BY SMT DEF CmpOps, CalcOps, BulkOps, EXTRACT_YEAR
<1>4. RecordLength(q) = WrittenLength(q)
  BY <1>3, LengthsNatural, WrittenAll, SMT
<1> DEFINE P == p + INT
<1>5. P \in Nat
  BY <1>2, SMT
<1>6. CASE q.op \in CmpOps
  <2>1. RecordLength(q) = INT * 3 + e * 2 + U64
    BY <1>1, <1>6, CmpFields
  <2>2. Retrieved(q.op, P).next = P + INT * 2 + e * 2 + U64
    <3> HIDE DEF P
    <3> QED
      BY <1>1, <1>6, SMT DEF Retrieved, CmpOps, BulkOps, CalcOps, StringCmpOps, SUBSTRING, CONCAT,
                             EXTRACT_YEAR
  <2> QED
    BY <1>2, <1>4, <2>1, <2>2, SMT
<1>7. CASE q.op \in CalcOps
  <2>1. RecordLength(q) = INT * 2 + e * 3 + U64
    BY <1>1, <1>7, CalcFields
  <2>2. Retrieved(q.op, P).next = P + INT + e * 3 + U64
    <3> HIDE DEF P
    <3> QED
      BY <1>1, <1>7, SMT DEF Retrieved, CmpOps, BulkOps, CalcOps, StringCmpOps, SUBSTRING, CONCAT,
                             EXTRACT_YEAR
  <2> QED
    BY <1>2, <1>4, <2>1, <2>2, SMT
<1>8. CASE q.op = EXTRACT_YEAR
  <2>1. RecordLength(q) = INT * 2 + e + ENC_INT32_LENGTH + U64
    BY <1>1, <1>8, ExtractFields
  <2>2. Retrieved(q.op, P).next = P + INT + e + ENC_INT32_LENGTH + U64
    <3> HIDE DEF P
    <3> QED
      BY <1>1, <1>8, SMT DEF Retrieved, CmpOps, BulkOps, CalcOps, StringCmpOps, SUBSTRING, CONCAT,
                             EXTRACT_YEAR
  <2> QED
    BY <1>2, <1>4, <2>1, <2>2, SMT
<1> QED
  BY <1>6, <1>7, <1>8

\* A number that is not written yet is read as zero.
LEMMA LeavesBulk ==
    ASSUME NEW q \in Requests, q.op \in BulkOps, NEW p \in Nat, NEW m, NEW w,
           Interrupted(q, p, m, w), m >= 1
    PROVE  /\ Retrieved(q.op, p + INT).next \in Nat
           /\ Retrieved(q.op, p + INT).next >= w
<1> DEFINE P == p + INT
<1>1. PICK e \in Nat : e = EncLength(q.op)
  BY OpsAreInts, EncLengthSize
<1>2. INT \in Nat /\ U64 \in Nat /\ P \in Nat
  <2>1. INT \in Nat /\ U64 \in Nat
    BY SizesAssumption
  <2> QED
    BY <2>1, SMT
<1>3. q.n \in Nat /\ ItemCount(q) = q.n
  <2>1. q.n \in 1..Len(ItemNames) /\ Len(ItemNames) \in Nat
    BY RequestsAssumption, SMT
  <2> QED
    BY <2>1, SMT DEF ItemCount
<1>4. /\ RecordLength(q) = INT * 3 + e + U64 /\ WrittenLength(q) = RecordLength(q) + q.n * e
      /\ FieldsOf(q, p, 5) /\ FieldOffsets(p, Layout(q))[2] = P
      /\ m \in 0..5 /\ (m >= 2 => HoldsAt(P, INT, <<"int", q.n>>))
  <2>1. FieldsOf(q, p, 5)
    BY <1>1, BulkFields
  <2>2. m \in 0..5 /\ HeaderAt(q, p, m)
    BY <2>1 DEF FieldsOf, Interrupted
  <2> QED
    BY <1>1, <1>3, <2>1, <2>2, BulkFields DEF WrittenLength
<1>5. Retrieved(q.op, P).next = P + INT * 2 + e + U64 + IntAt(P) * e
  <2> HIDE DEF P
  <2> QED
    BY <1>1, SMT DEF Retrieved, CmpOps, BulkOps, CalcOps, StringCmpOps, SUBSTRING, CONCAT, EXTRACT_YEAR
<1>6. CASE m >= 2
  <2>1. IntAt(P) = q.n
    BY <1>2, <1>4, <1>6, IntHolds, SMT
  <2>2. w \in Nat /\ w <= p + WrittenLength(q)
    BY InterruptedWithin DEF Interrupted
  <2>3. q.n * e \in Nat
    BY <1>1, <1>3, SMT
  <2>4. Retrieved(q.op, P).next = p + WrittenLength(q)
    BY <1>2, <1>4, <1>5, <2>1, <2>3, SMT
  <2>5. WrittenLength(q) \in Nat
    BY LengthsNatural
  <2> QED
    BY <2>2, <2>4, <2>5, SMT
<1>7. CASE m < 2
  <2>1. m = 1 /\ m < Len(Layout(q)) /\ m + 1 = 2
    BY <1>4, <1>7, SMT DEF FieldsOf
  <2>2. w = P
    BY <1>4, <2>1 DEF Interrupted
  <2>3. IntAt(P) = 0
    BY <1>2, <2>2, IntZero DEF Interrupted
  <2> QED
    BY <1>1, <1>2, <1>5, <2>2, <2>3, SMT
<1>8. m >= 2 \/ m < 2
  BY <1>4, SMT
<1> QED
  BY <1>6, <1>7, <1>8

\* A number is read as it is, or as zero.
LEMMA IntNatural ==
    ASSUME NEW pos \in Nat, NEW w \in Nat, \A k \in Nat : k >= w => Cell(k) = Zero, NEW x \in Nat,
           w <= pos \/ HoldsAt(pos, INT, <<"int", x>>)
    PROVE  IntAt(pos) \in Nat
<1>1. CASE w <= pos
  <2>1. \A k \in Nat : k >= pos => Cell(k) = Zero
    BY <1>1, SMT
  <2>2. IntAt(pos) = 0
    BY <2>1, IntZero
  <2> QED
    BY <2>2, SMT
<1>2. CASE HoldsAt(pos, INT, <<"int", x>>)
  <2>1. pos \in Int
    BY SMT
  <2> QED
    BY <1>2, <2>1, IntHolds
<1> QED
  BY <1>1, <1>2

LEMMA LeavesStringCmp ==
    ASSUME NEW q \in Requests, q.op \in StringCmpOps, NEW p \in Nat, NEW m, NEW w,
           Interrupted(q, p, m, w), m >= 1
    PROVE  /\ Retrieved(q.op, p + INT).next \in Nat
           /\ Retrieved(q.op, p + INT).next >= w
<1> DEFINE P == p + INT
<1>1. q.l \in Nat /\ q.r \in Nat /\ q.op \notin BulkOps
  <2>1. q.op \notin BulkOps
    BY SMT DEF BulkOps, StringCmpOps, SUBSTRING, CONCAT
  <2> QED
    BY <2>1, RequestsAssumption
<1>2. INT \in Nat /\ U64 \in Nat /\ ENC_INT32_LENGTH \in Nat /\ P \in Nat
  <2>1. INT \in Nat /\ U64 \in Nat /\ ENC_INT32_LENGTH \in Nat
    BY SizesAssumption
  <2> QED
    BY <2>1, SMT
<1>3. /\ RecordLength(q) = INT * 5 + q.l + q.r + U64
      /\ WrittenLength(q) = RecordLength(q)
      /\ FieldsOf(q, p, 8) /\ m \in 0..8
      /\ FieldOffsets(p, Layout(q))[2] = p + INT
      /\ FieldOffsets(p, Layout(q))[3] = p + 2 * INT
      /\ FieldOffsets(p, Layout(q))[4] = p + 3 * INT
      /\ m >= 2 => HoldsAt(p + INT, INT, <<"int", q.l>>)
      /\ m >= 3 => HoldsAt(p + 2 * INT, INT, <<"int", q.r>>)
  <2>1. FieldsOf(q, p, 8)
    BY StringCmpFields
  <2>2. m \in 0..8 /\ HeaderAt(q, p, m)
    BY <2>1 DEF FieldsOf, Interrupted
  <2>3. RecordLength(q) \in Int
    BY LengthsNatural, SMT
  <2> QED
    BY <1>1, <2>1, <2>2, <2>3, StringCmpFields, WrittenAll
<1>4. Retrieved(q.op, P).next =
        P + 2 * INT + IntAt(P) + IntAt(P + INT) + INT * 2 + U64
  <2> HIDE DEF P
  <2> QED
    BY SMT DEF Retrieved, CmpOps, BulkOps, CalcOps, StringCmpOps, SUBSTRING, CONCAT,
                           EXTRACT_YEAR
<1>5. p + INT = P /\ p + 2 * INT = P + INT
  BY <1>2, SMT
<1>6. w \in Nat /\ w <= p + WrittenLength(q) /\ \A k \in Nat : k >= w => Cell(k) = Zero
  BY InterruptedWithin DEF Interrupted
<1>7. CASE m >= 3
  <2>1. IntAt(P) = q.l /\ IntAt(P + INT) = q.r
    <3>1. m >= 2 /\ m >= 3 /\ P \in Int /\ P + INT \in Int
      BY <1>2, <1>3, <1>7, SMT
    <3> QED
      BY <1>3, <1>5, <3>1, IntHolds
  <2>2. Retrieved(q.op, P).next = p + WrittenLength(q)
    BY <1>1, <1>2, <1>3, <1>4, <2>1, SMT
  <2>3. WrittenLength(q) \in Nat
    BY LengthsNatural
  <2> QED
    BY <1>6, <2>2, <2>3, SMT
<1>8. CASE m < 3
  <2>1. m \in 1..2 /\ m < Len(Layout(q))
    BY <1>3, <1>8, SMT DEF FieldsOf
  <2>2. w = FieldOffsets(p, Layout(q))[m + 1]
    BY <2>1 DEF Interrupted
  <2>3. /\ w <= P + INT
        /\ m >= 2 \/ w <= P
        /\ m >= 3 \/ w <= P + INT
    BY <1>2, <1>3, <2>1, <2>2, SMT
  <2>4. IntAt(P) \in Nat /\ IntAt(P + INT) \in Nat
    <3>1. P \in Nat /\ P + INT \in Nat
      BY <1>2, SMT
    <3>2. IntAt(P) \in Nat
      BY <1>1, <1>3, <1>5, <1>6, <2>3, <3>1, IntNatural
    <3>3. IntAt(P + INT) \in Nat
      BY <1>1, <1>3, <1>5, <1>6, <2>3, <3>1, IntNatural
    <3> QED
      BY <3>2, <3>3
  <2> QED
    BY <1>2, <1>4, <1>6, <2>3, <2>4, SMT
<1>9. m >= 3 \/ m < 3
  BY <1>3, SMT
<1> QED
  BY <1>7, <1>8, <1>9

LEMMA LeavesSubstring ==
    ASSUME NEW q \in Requests, q.op = SUBSTRING, NEW p \in Nat, NEW m, NEW w,
           Interrupted(q, p, m, w), m >= 1
    PROVE  /\ Retrieved(q.op, p + INT).next \in Nat
           /\ Retrieved(q.op, p + INT).next >= w
<1> DEFINE P == p + INT
<1>1. q.l \in Nat /\ q.s \in Nat /\ q.op \notin BulkOps
  <2>1. q.op \notin BulkOps
    BY SMT DEF BulkOps, StringCmpOps, SUBSTRING, CONCAT
  <2> QED
    BY <2>1, RequestsAssumption
<1>2. INT \in Nat /\ U64 \in Nat /\ ENC_INT32_LENGTH \in Nat /\ P \in Nat
  <2>1. INT \in Nat /\ U64 \in Nat /\ ENC_INT32_LENGTH \in Nat
    BY SizesAssumption
  <2> QED
    BY <2>1, SMT
<1>3. /\ RecordLength(q) = INT * 4 + q.l + q.s + 2 * ENC_INT32_LENGTH + U64
      /\ WrittenLength(q) = RecordLength(q)
      /\ FieldsOf(q, p, 9) /\ m \in 0..9
      /\ FieldOffsets(p, Layout(q))[2] = p + INT
      /\ FieldOffsets(p, Layout(q))[3] = p + 2 * INT
      /\ FieldOffsets(p, Layout(q))[4] = p + 3 * INT
      /\ m >= 2 => HoldsAt(p + INT, INT, <<"int", q.l>>)
      /\ m >= 3 => HoldsAt(p + 2 * INT, INT, <<"int", q.s>>)
  <2>1. FieldsOf(q, p, 9)
    BY SubstringFields
  <2>2. m \in 0..9 /\ HeaderAt(q, p, m)
    BY <2>1 DEF FieldsOf, Interrupted
  <2>3. RecordLength(q) \in Int
    BY LengthsNatural, SMT
  <2> QED
    BY <1>1, <2>1, <2>2, <2>3, SubstringFields, WrittenAll
<1>4. Retrieved(q.op, P).next =
        P + 2 * INT + IntAt(P) + IntAt(P + INT) + INT + ENC_INT32_LENGTH * 2 + U64
  <2> HIDE DEF P
  <2> QED
    BY SMT DEF Retrieved, CmpOps, BulkOps, CalcOps, StringCmpOps, SUBSTRING, CONCAT,
                           EXTRACT_YEAR
<1>5. p + INT = P /\ p + 2 * INT = P + INT
  BY <1>2, SMT
<1>6. w \in Nat /\ w <= p + WrittenLength(q) /\ \A k \in Nat : k >= w => Cell(k) = Zero
  BY InterruptedWithin DEF Interrupted
<1>7. CASE m >= 3
  <2>1. IntAt(P) = q.l /\ IntAt(P + INT) = q.s
    <3>1. m >= 2 /\ m >= 3 /\ P \in Int /\ P + INT \in Int
      BY <1>2, <1>3, <1>7, SMT
    <3> QED
      BY <1>3, <1>5, <3>1, IntHolds
  <2>2. Retrieved(q.op, P).next = p + WrittenLength(q)
    BY <1>1, <1>2, <1>3, <1>4, <2>1, SMT
  <2>3. WrittenLength(q) \in Nat
    BY LengthsNatural
  <2> QED
    BY <1>6, <2>2, <2>3, SMT
<1>8. CASE m < 3
  <2>1. m \in 1..2 /\ m < Len(Layout(q))
    BY <1>3, <1>8, SMT DEF FieldsOf
  <2>2. w = FieldOffsets(p, Layout(q))[m + 1]
    BY <2>1 DEF Interrupted
  <2>3. /\ w <= P + INT
        /\ m >= 2 \/ w <= P
        /\ m >= 3 \/ w <= P + INT
    BY <1>2, <1>3, <2>1, <2>2, SMT
  <2>4. IntAt(P) \in Nat /\ IntAt(P + INT) \in Nat
    <3>1. P \in Nat /\ P + INT \in Nat
      BY <1>2, SMT
    <3>2. IntAt(P) \in Nat
      BY <1>1, <1>3, <1>5, <1>6, <2>3, <3>1, IntNatural
    <3>3. IntAt(P + INT) \in Nat
      BY <1>1, <1>3, <1>5, <1>6, <2>3, <3>1, IntNatural
    <3> QED
      BY <3>2, <3>3
  <2> QED
    BY <1>2, <1>4, <1>6, <2>3, <2>4, SMT
<1>9. m >= 3 \/ m < 3
  BY <1>3, SMT
<1> QED
  BY <1>7, <1>8, <1>9

LEMMA LeavesConcat ==
    ASSUME NEW q \in Requests, q.op = CONCAT, NEW p \in Nat, NEW m, NEW w,
           Interrupted(q, p, m, w), m >= 1
    PROVE  /\ Retrieved(q.op, p + INT).next \in Nat
           /\ Retrieved(q.op, p + INT).next >= w
<1> DEFINE P == p + INT
<1>1. q.l \in Nat /\ q.r \in Nat /\ q.s \in Nat /\ q.op \notin BulkOps
  <2>1. q.op \notin BulkOps
    BY SMT DEF BulkOps, StringCmpOps, SUBSTRING, CONCAT
  <2> QED
    BY <2>1, RequestsAssumption
<1>2. INT \in Nat /\ U64 \in Nat /\ ENC_INT32_LENGTH \in Nat /\ P \in Nat
  <2>1. INT \in Nat /\ U64 \in Nat /\ ENC_INT32_LENGTH \in Nat
    BY SizesAssumption
  <2> QED
    BY <2>1, SMT
<1>3. /\ RecordLength(q) = INT * 5 + q.l + q.r + q.s + U64
      /\ WrittenLength(q) = RecordLength(q)
      /\ FieldsOf(q, p, 9) /\ m \in 0..9
      /\ FieldOffsets(p, Layout(q))[2] = p + INT
      /\ FieldOffsets(p, Layout(q))[3] = p + 2 * INT
      /\ FieldOffsets(p, Layout(q))[4] = p + 3 * INT
      /\ FieldOffsets(p, Layout(q))[5] = p + 4 * INT
      /\ m >= 2 => HoldsAt(p + INT, INT, <<"int", q.l>>)
      /\ m >= 3 => HoldsAt(p + 2 * INT, INT, <<"int", q.r>>)
      /\ m >= 4 => HoldsAt(p + 3 * INT, INT, <<"int", q.s>>)
  <2>1. FieldsOf(q, p, 9)
    BY ConcatFields
  <2>2. m \in 0..9 /\ HeaderAt(q, p, m)
    BY <2>1 DEF FieldsOf, Interrupted
  <2>3. RecordLength(q) \in Int
    BY LengthsNatural, SMT
  <2> QED
    BY <1>1, <2>1, <2>2, <2>3, ConcatFields, WrittenAll
<1>4. Retrieved(q.op, P).next =
        P + 3 * INT + INT + IntAt(P) + IntAt(P + INT) + IntAt(P + 2 * INT) + U64
  <2> HIDE DEF P
  <2> QED
    BY SMT DEF Retrieved, CmpOps, BulkOps, CalcOps, StringCmpOps, SUBSTRING, CONCAT,
                           EXTRACT_YEAR
<1>5. p + INT = P /\ p + 2 * INT = P + INT /\ p + 3 * INT = P + 2 * INT
  BY <1>2, SMT
<1>6. w \in Nat /\ w <= p + WrittenLength(q) /\ \A k \in Nat : k >= w => Cell(k) = Zero
  BY InterruptedWithin DEF Interrupted
<1>7. CASE m >= 4
  <2>1. IntAt(P) = q.l /\ IntAt(P + INT) = q.r /\ IntAt(P + 2 * INT) = q.s
    <3>1. m >= 2 /\ m >= 3 /\ m >= 4 /\ P \in Int /\ P + INT \in Int /\ P + 2 * INT \in Int
      BY <1>2, <1>3, <1>7, SMT
    <3> QED
      BY <1>3, <1>5, <3>1, IntHolds
  <2>2. Retrieved(q.op, P).next = p + WrittenLength(q)
    BY <1>1, <1>2, <1>3, <1>4, <2>1, SMT
  <2>3. WrittenLength(q) \in Nat
    BY LengthsNatural
  <2> QED
    BY <1>6, <2>2, <2>3, SMT
<1>8. CASE m < 4
  <2>1. m \in 1..3 /\ m < Len(Layout(q))
    BY <1>3, <1>8, SMT DEF FieldsOf
  <2>2. w = FieldOffsets(p, Layout(q))[m + 1]
    BY <2>1 DEF Interrupted
  <2>3. /\ w <= P + 2 * INT
        /\ m >= 2 \/ w <= P
        /\ m >= 3 \/ w <= P + INT
        /\ m >= 4 \/ w <= P + 2 * INT
    BY <1>2, <1>3, <2>1, <2>2, SMT
  <2>4. IntAt(P) \in Nat /\ IntAt(P + INT) \in Nat /\ IntAt(P + 2 * INT) \in Nat
    <3>1. P \in Nat /\ P + INT \in Nat /\ P + 2 * INT \in Nat
      BY <1>2, SMT
    <3>2. IntAt(P) \in Nat
      BY <1>1, <1>3, <1>5, <1>6, <2>3, <3>1, IntNatural
    <3>3. IntAt(P + INT) \in Nat
      BY <1>1, <1>3, <1>5, <1>6, <2>3, <3>1, IntNatural
    <3>4. IntAt(P + 2 * INT) \in Nat
      BY <1>1, <1>3, <1>5, <1>6, <2>3, <3>1, IntNatural
    <3> QED
      BY <3>2, <3>3, <3>4
  <2> QED
    BY <1>2, <1>4, <1>6, <2>3, <2>4, SMT
<1>9. m >= 4 \/ m < 4
  BY <1>3, SMT
<1> QED
  BY <1>7, <1>8, <1>9

\* An interrupted record does not mislead the desensitizer.
LEMMA LeavesRecord ==
    ASSUME NEW q \in Requests, NEW p \in Nat, NEW m, NEW w, Interrupted(q, p, m, w)
    PROVE  Left(q, p, w)
<1>1. PICK n \in Nat \ {0} :
        /\ FieldsOf(q, p, n) /\ FieldOffsets(p, Layout(q))[1] = p
        /\ \A k \in 1..n : HeaderAt(q, p, k) => HoldsAt(p, INT, <<"int", q.op>>)
  BY RecordFields
<1>2. m \in 0..n /\ w \in Nat /\ w <= p + WrittenLength(q) /\ WrittenLength(q) \in Nat
  BY <1>1, InterruptedWithin, LengthsNatural DEF Interrupted, FieldsOf
<1>3. CASE m = 0
  <2>1. m < Len(Layout(q)) /\ m + 1 = 1
    BY <1>1, <1>3, SMT DEF FieldsOf
  <2>2. w = p
    BY <1>1, <2>1 DEF Interrupted
  <2>3. IntAt(p) = 0
    BY <2>2, IntZero DEF Interrupted
  <2> QED
    BY <2>3 DEF Left
<1>4. CASE m # 0
  <2>1. m >= 1 /\ m \in 1..n /\ p \in Int
    BY <1>2, <1>4, SMT
  <2>2. IntAt(p) = q.op
    BY <1>1, <2>1, IntHolds DEF Interrupted
  <2>3. Retrieved(q.op, p + INT).next \in Nat /\ Retrieved(q.op, p + INT).next >= w
    <3>1. CASE q.op \in CmpOps \cup CalcOps \cup {EXTRACT_YEAR}
      <4>1. Retrieved(q.op, p + INT).next = p + WrittenLength(q)
        BY <3>1, LeavesFixed
      <4> QED
        BY <1>2, <4>1, SMT
    <3>2. CASE q.op \in BulkOps
      BY <2>1, <3>2, LeavesBulk
    <3>3. CASE q.op \in StringCmpOps
      BY <2>1, <3>3, LeavesStringCmp
    <3>4. CASE q.op = SUBSTRING
      BY <2>1, <3>4, LeavesSubstring
    <3>5. CASE q.op = CONCAT
      BY <2>1, <3>5, LeavesConcat
    <3>6. q.op \in KnownOps
      BY RequestsAssumption
    <3> QED
      BY <3>1, <3>2, <3>3, <3>4, <3>5, <3>6 DEF KnownOps
  <2> QED
    BY <2>2, <2>3 DEF Left
<1> QED
  BY <1>3, <1>4

-----------------------------------------------------------------------------
(* Where the records begin.                                                *)

\* Where the records of a sequence of requests begin.
LEMMA StartsConsecutive ==
    ASSUME NEW log \in Seq(Requests)
    PROVE  /\ Len(log) \in Nat
           /\ StartsOf(log) \in [1..Len(log) + 1 -> Nat]
           /\ StartsOf(log)[1] = 0
           /\ \A k \in 1..Len(log) : /\ log[k] \in Requests
                                     /\ StartsOf(log)[k + 1] = StartsOf(log)[k] + WrittenLength(log[k])
<1> DEFINE sizes == [k \in 1..Len(log) |-> WrittenLength(log[k])]
<1>1. Len(log) \in Nat /\ Len(sizes) = Len(log) /\ \A k \in 1..Len(log) : log[k] \in Requests
  BY SMT
<1>2. \A k \in 1..Len(log) : sizes[k] = WrittenLength(log[k]) /\ sizes[k] \in Nat
  BY <1>1, LengthsNatural
<1> HIDE DEF sizes
<1>3. 0 \in Nat
  BY SMT
<1>4. Consecutive(Offsets(0, sizes), 0, sizes, Len(sizes))
  BY <1>1, <1>2, <1>3, OffsetsConsecutive
<1>5. StartsOf(log) = Offsets(0, sizes)
  BY DEF StartsOf, sizes
<1> QED
  BY <1>1, <1>2, <1>4, <1>5 DEF Consecutive

\* A further record begins where the last one ends.
LEMMA StartsAppend ==
    ASSUME NEW log \in Seq(Requests), NEW q \in Requests
    PROVE  /\ Append(log, q) \in Seq(Requests) /\ Len(Append(log, q)) = Len(log) + 1
           /\ \A k \in 1..Len(log) + 1 : StartsOf(Append(log, q))[k] = StartsOf(log)[k]
           /\ StartsOf(Append(log, q))[Len(log) + 2] = StartsOf(log)[Len(log) + 1] + WrittenLength(q)
           /\ \A k \in 1..Len(log) : Append(log, q)[k] = log[k]
           /\ Append(log, q)[Len(log) + 1] = q
<1> DEFINE n == Len(log)
           more == Append(log, q)
           at == StartsOf(more)
           bt == StartsOf(log)
           sizes == [k \in 1..n + 1 |-> WrittenLength(more[k])]
<1>1. /\ n \in Nat /\ more \in Seq(Requests) /\ Len(more) = n + 1
      /\ \A k \in 1..n : more[k] = log[k]
      /\ more[n + 1] = q
  BY SMT
<1>2. /\ at \in [1..(n + 1) + 1 -> Nat] /\ at[1] = 0
      /\ \A k \in 1..n + 1 : at[k + 1] = at[k] + WrittenLength(more[k])
  <2> HIDE DEF more
  <2> QED
    BY <1>1, StartsConsecutive
<1>3. /\ bt \in [1..n + 1 -> Nat] /\ bt[1] = 0
      /\ \A k \in 1..n : bt[k + 1] = bt[k] + WrittenLength(log[k])
  BY StartsConsecutive
<1> HIDE DEF more, at, bt, n
<1>4. Consecutive(at, 0, sizes, n + 1)
  BY <1>2 DEF Consecutive
<1>5. Consecutive(bt, 0, sizes, n)
  <2>1. \A k \in 1..n : sizes[k] = WrittenLength(log[k])
    <3>1. \A k \in 1..n : k \in 1..n + 1
      BY <1>1, SMT
    <3> QED
      BY <1>1, <3>1
  <2> HIDE DEF sizes
  <2> QED
    BY <1>3, <2>1 DEF Consecutive
<1>6. n + 1 \in Nat /\ n <= n + 1
  BY <1>1, SMT
<1>7. \A k \in 1..n + 1 : at[k] = bt[k]
  <2> HIDE DEF sizes
  <2> QED
    BY <1>1, <1>4, <1>5, <1>6, ConsecutiveUnique, SMT
<1>8. at[n + 2] = bt[n + 1] + WrittenLength(q)
  <2>1. n + 1 \in 1..n + 1 /\ (n + 1) + 1 = n + 2
    BY <1>1, SMT
  <2> QED
    BY <1>1, <1>2, <1>7, <2>1
<1> QED
  BY <1>1, <1>7, <1>8 DEF at, bt, more, n

-----------------------------------------------------------------------------
(* Records stay where they are as long as their cells do.                  *)

LEMMA HoldsFrame ==
    ASSUME NEW pos \in Nat, NEW n \in Nat, NEW v, HoldsAt(pos, n, v),
           \A k \in Nat : pos <= k /\ k < pos + n => Cell(k)' = Cell(k)
    PROVE  HoldsAt(pos, n, v)'
<1>1. ASSUME NEW j \in 1..n PROVE Cell(pos + j - 1)' = Part(v, j)
  <2>1. pos + j - 1 \in Nat /\ pos <= pos + j - 1 /\ pos + j - 1 < pos + n
    BY SMT
  <2>2. Cell(pos + j - 1)' = Cell(pos + j - 1)
    BY <2>1
  <2> QED
    BY <2>2 DEF HoldsAt
<1> QED
  BY <1>1 DEF HoldsAt

LEMMA HeaderFrame ==
    ASSUME NEW q \in Requests, NEW p \in Nat, NEW m \in 0..Len(Layout(q)), HeaderAt(q, p, m),
           \A k \in Nat : k < FieldOffsets(p, Layout(q))[m + 1] => Cell(k)' = Cell(k)
    PROVE  HeaderAt(q, p, m)'
<1> DEFINE L == Layout(q)
           at == FieldOffsets(p, Layout(q))
<1>1. PICK n \in Nat \ {0} :
        /\ FieldsOf(q, p, n) /\ at[1] = p
        /\ \A i, k \in 1..n + 1 : i <= k => at[i] <= at[k]
        /\ \A i \in 1..n + 1 : at[i] \in Nat
        /\ \A i \in 1..n : at[i + 1] = at[i] + L[i].size
        /\ \A k \in 1..n : HeaderAt(q, p, k) => HoldsAt(p, INT, <<"int", q.op>>)
  BY RecordFields
<1>2. m \in 0..n /\ Len(L) = n /\ \A i \in 1..n : L[i].size \in Nat
  BY <1>1 DEF FieldsOf
<1> HIDE DEF L, at
<1>3. ASSUME NEW i \in 1..m PROVE HoldsAt(at[i], L[i].size, Value(q, L[i].name))'
  <2>1. i \in 1..n /\ i \in 1..n + 1 /\ i + 1 \in 1..n + 1 /\ m + 1 \in 1..n + 1 /\ i + 1 <= m + 1
    BY <1>2, SMT
  <2>2. at[i] \in Nat /\ L[i].size \in Nat /\ at[i] + L[i].size <= at[m + 1] /\ at[m + 1] \in Nat
    BY <1>1, <1>2, <2>1
  <2>3. \A k \in Nat : at[i] <= k /\ k < at[i] + L[i].size => k < at[m + 1]
    BY <2>2, SMT
  <2>4. HoldsAt(at[i], L[i].size, Value(q, L[i].name))
    BY DEF HeaderAt, at, L
  <2>5. \A k \in Nat : at[i] <= k /\ k < at[i] + L[i].size => Cell(k)' = Cell(k)
    BY <2>3 DEF at
  <2> QED
    BY <2>2, <2>4, <2>5, HoldsFrame
<1> QED
  BY <1>3 DEF HeaderAt, at, L

LEMMA ProductMonotone ==
    ASSUME NEW i \in Nat, NEW m \in Nat, NEW e \in Nat, i <= m
    PROVE  i * e <= m * e
<1>1. (m - i) * e >= 0
  BY SMT
<1>2. m * e = i * e + (m - i) * e
  BY SMT
<1> QED
  BY <1>1, <1>2, SMT

LEMMA ItemsFrame ==
    ASSUME NEW q \in Requests, NEW p \in Nat, NEW m \in Nat, ItemsAt(q, p, m),
           \A k \in Nat : k < p + RecordLength(q) + m * EncLength(q.op) => Cell(k)' = Cell(k)
    PROVE  ItemsAt(q, p, m)'
<1>1. PICK e \in Nat : e = EncLength(q.op)
  BY OpsAreInts, EncLengthSize
<1>2. PICK b \in Nat : b = p + RecordLength(q)
  <2>1. RecordLength(q) \in Nat
    BY LengthsNatural
  <2> QED
    BY <2>1, SMT
<1>3. ASSUME NEW i \in 1..m PROVE HoldsAt(b + (i - 1) * e, e, Value(q, ItemNames[i]))'
  <2>1. (i - 1) * e \in Nat /\ (i - 1) * e + e = i * e
    BY SMT
  <2>2. i * e <= m * e /\ i * e \in Nat /\ m * e \in Nat
    <3>1. i \in Nat /\ i <= m
      BY SMT
    <3>2. m * e \in Nat /\ i * e \in Nat
      BY SMT
    <3> QED
      BY <3>1, <3>2, ProductMonotone
  <2>3. \A k \in Nat : k < b + (i - 1) * e + e => k < b + m * e
    BY <2>1, <2>2, SMT
  <2>4. HoldsAt(b + (i - 1) * e, e, Value(q, ItemNames[i]))
    BY <1>1, <1>2 DEF ItemsAt
  <2>5. b + (i - 1) * e \in Nat
    BY <2>1, SMT
  <2> QED
    BY <1>1, <1>2, <2>3, <2>4, <2>5, HoldsFrame
<1> QED
  BY <1>1, <1>2, <1>3 DEF ItemsAt

\* The record of a request stays if nothing before its end is written.
LEMMA RecordFrame ==
    ASSUME NEW q \in Requests, NEW p \in Nat, RecordAt(q, p),
           \A k \in Nat : k < p + WrittenLength(q) => Cell(k)' = Cell(k)
    PROVE  RecordAt(q, p)'
<1>1. PICK n \in Nat \ {0} : FieldsOf(q, p, n)
  BY RecordFields
<1>2. n \in Nat /\ Len(Layout(q)) = n /\ FieldOffsets(p, Layout(q))[n + 1] = p + RecordLength(q) /\ n \in 0..n
  <2>1. n \in 0..n
    BY SMT
  <2> QED
    BY <1>1, <2>1 DEF FieldsOf
<1>3. RecordLength(q) \in Nat /\ WrittenLength(q) \in Nat /\ RecordLength(q) <= WrittenLength(q)
  BY LengthsNatural, SMT
<1>4. HeaderAt(q, p, Len(Layout(q)))'
  <2>1. \A k \in Nat : k < p + RecordLength(q) => k < p + WrittenLength(q)
    BY <1>3, SMT
  <2> QED
    BY <1>2, <2>1, HeaderFrame DEF RecordAt
<1>5. ItemCount(q) \in Nat
  <2>1. q.op \in BulkOps => q.n \in 1..Len(ItemNames) /\ Len(ItemNames) \in Nat
    BY RequestsAssumption, SMT
  <2> QED
    BY <2>1, SMT DEF ItemCount
<1>6. p + WrittenLength(q) = p + RecordLength(q) + ItemCount(q) * EncLength(q.op)
  <2>1. EncLength(q.op) \in Nat
    BY OpsAreInts, EncLengthSize
  <2>2. ItemCount(q) * EncLength(q.op) \in Nat
    BY <1>5, <2>1, SMT
  <2> QED
    BY <1>3, <2>2, SMT DEF WrittenLength
<1>7. ItemsAt(q, p, ItemCount(q))'
  BY <1>5, <1>6, ItemsFrame DEF RecordAt
<1> QED
  BY <1>4, <1>7 DEF RecordAt

-----------------------------------------------------------------------------
(* A step.                                                                 *)

\* Where the records are.
LEMMA StartsFacts ==
    ASSUME completed \in Seq(Requests)
    PROVE  /\ Len(completed) \in Nat /\ Begin \in Nat
           /\ Starts \in [1..Len(completed) + 1 -> Nat] /\ Starts[1] = 0
           /\ \A k \in 1..Len(completed) :
                /\ completed[k] \in Requests /\ Starts[k] \in Nat
                /\ Starts[k + 1] = Starts[k] + WrittenLength(completed[k])
<1>1. /\ Len(completed) \in Nat
      /\ StartsOf(completed) \in [1..Len(completed) + 1 -> Nat]
      /\ StartsOf(completed)[1] = 0
      /\ \A k \in 1..Len(completed) :
           /\ completed[k] \in Requests
           /\ StartsOf(completed)[k + 1] = StartsOf(completed)[k] + WrittenLength(completed[k])
  BY StartsConsecutive
<1>2. Len(completed) + 1 \in 1..Len(completed) + 1 /\ \A k \in 1..Len(completed) : k \in 1..Len(completed) + 1
  BY <1>1, SMT
<1> QED
  BY <1>1, <1>2 DEF Starts, Begin

\* The positions before t.
LEMMA Before == \A k, t \in Nat : k \in 0..t - 1 <=> k < t
BY SMT

\* Asking for a buffer leaves what is in the file, and the zeros behind it.
LEMMA BufferCells ==
    ASSUME IInv, size = file_length, size <= MaxLength, NEW length \in Lengths,
           get_write_buffer(length), Truncated
    PROVE  /\ size' = file_length' /\ size' <= MaxLength
           /\ \A k \in Nat : Cell(k)' = Cell(k)
<1>1. /\ size \in Nat /\ size' \in Nat /\ size <= size' /\ size' <= MaxLength /\ size' = file_length'
      /\ MaxLength \in Nat
  <2>1. size \in Nat /\ DATA_LENGTH \in Nat /\ MaxLength \in Nat
    BY LengthsAssumption DEF IInv, TypeOK
  <2>2. CASE Extended(length)
    BY <2>1, <2>2, SMT DEF Extended
  <2>3. CASE Fits(length)
    BY <2>1, <2>3, SMT DEF Fits
  <2> QED
    BY <2>2, <2>3 DEF get_write_buffer
<1>2. ASSUME NEW k \in Nat PROVE Cell(k)' = Cell(k)
  <2>1. (k < size' => k < MaxLength) /\ (k < size => k < size')
    <3>1. ASSUME NEW s \in Nat, NEW t \in Nat, NEW m \in Nat, s <= t, t <= m
          PROVE  (k < t => k < m) /\ (k < s => k < t)
      BY <3>1, SMT
    <3> QED
      BY <1>1, <3>1
  <2>2. /\ k \in 0..size - 1 <=> k < size
        /\ k \in 0..size' - 1 <=> k < size'
        /\ k \in 0..MaxLength - 1 <=> k < MaxLength
    BY <1>1, Before
  <2> QED
    BY <2>1, <2>2 DEF Truncated, Cell
<1> QED
  BY <1>1, <1>2

\* A field that is copied is then in the file, and nothing else changes.
LEMMA CopiedField ==
    ASSUME size \in Nat, size <= MaxLength, rrprintf, NEW b \in Nat, b = fix_buf,
           NEW s \in Nat, s = Head(pending).size, NEW v, v = Value(current, Head(pending).name),
           b + s <= size
    PROVE  /\ size' = size
           /\ HoldsAt(b, s, v)'
           /\ \A k \in Nat : k < b \/ k >= b + s => Cell(k)' = Cell(k)
<1>1. /\ size' = size
      /\ content' = [k \in 0..MaxLength - 1 |->
                       IF k \in b..b + s - 1 THEN Part(v, k - b + 1) ELSE content[k]]
  BY DEF rrprintf, vars
<1>2. MaxLength \in Nat
  BY LengthsAssumption
<1>3. ASSUME NEW j \in 1..s PROVE Cell(b + j - 1)' = Part(v, j)
  <2>1. /\ b + j - 1 \in 0..size - 1 /\ b + j - 1 \in 0..MaxLength - 1 /\ b + j - 1 \in b..b + s - 1
        /\ (b + j - 1) - b + 1 = j
    BY <1>2, SMT
  <2> QED
    BY <1>1, <2>1 DEF Cell
<1>4. ASSUME NEW k \in Nat, k < b \/ k >= b + s PROVE Cell(k)' = Cell(k)
  <2>1. k \notin b..b + s - 1 /\ (k \in 0..size - 1 => k \in 0..MaxLength - 1)
    BY <1>2, <1>4, SMT
  <2> QED
    BY <1>1, <2>1 DEF Cell
<1> QED
  BY <1>1, <1>3, <1>4 DEF HoldsAt

\* The complete records stay.
LEMMA CompletedStay ==
    ASSUME completed \in Seq(Requests), CompletedAt, completed' = completed,
           \A k \in Nat : k < Begin => Cell(k)' = Cell(k)
    PROVE  CompletedAt'
<1>1. PICK log : log = completed
  OBVIOUS
<1>2. PICK at : at = Starts
  OBVIOUS
<1>3. PICK b : b = Begin
  OBVIOUS
<1>4. completed' = log /\ Starts' = at /\ Begin' = b
  BY <1>1, <1>2, <1>3 DEF Starts, Begin
<1>5. ASSUME NEW k \in 1..Len(log) PROVE RecordAt(log[k], at[k])' /\ at[k] + WrittenLength(log[k]) <= b
  <2>1. /\ log[k] \in Requests /\ at[k] \in Nat /\ RecordAt(log[k], at[k])
        /\ at[k] + WrittenLength(log[k]) <= b
    BY <1>1, <1>2, <1>3, StartsFacts DEF CompletedAt
  <2>2. PICK q \in Requests : q = log[k]
    BY <2>1
  <2>3. PICK p \in Nat : p = at[k]
    BY <2>1
  <2>4. WrittenLength(q) \in Nat /\ b \in Nat
    BY <1>3, LengthsNatural, StartsFacts
  <2>5. \A i \in Nat : i < p + WrittenLength(q) => i < b
    BY <2>1, <2>2, <2>3, <2>4, SMT
  <2>6. RecordAt(q, p)'
    BY <1>3, <2>1, <2>2, <2>3, <2>5, RecordFrame
  <2> QED
    BY <2>1, <2>2, <2>3, <2>6
<1> QED
  BY <1>4, <1>5 DEF CompletedAt

\* Beginning a record.
LEMMA StepRecord ==
    ASSUME LogInv, NEW q \in Requests, record(q)
    PROVE  RecordInv' /\ (fresh' => ContentInv') /\ completed' \in Seq(Requests)
<1>1. /\ IInv /\ completed \in Seq(Requests) /\ completed' = completed /\ stage = "idle"
      /\ current' = q /\ stage' = "record" /\ pending' = Layout(q) /\ fix_buf' = file_cursor
      /\ file_cursor' = file_cursor + RecordLength(q) /\ fresh' = fresh
      /\ file_cursor = Begin /\ WrittenTo = file_cursor
  BY DEF LogInv, RecordInv, record, get_write_buffer, WrittenTo
<1>2. PICK p \in Nat : p = Begin
  BY <1>1, StartsFacts
<1>3. Begin' = p
  BY <1>1, <1>2 DEF Begin, Starts
<1>4. PICK n \in Nat \ {0} :
        FieldsOf(q, p, n) /\ FieldOffsets(p, Layout(q))[1] = p
  BY RecordFields
<1>5. Len(Layout(q)) = n /\ Layout(q) \in Seq(Fields) /\ n - n = 0 /\ 0 + 1 = 1 /\ n <= n
  BY <1>4, SMT DEF FieldsOf
<1>6. Copied' = [header |-> 0, items |-> 0]
  BY <1>1, <1>5 DEF Copied
<1>7. Copied'.header = 0 /\ Copied'.items = 0
  BY <1>6
<1>8. RecordInv'
  <2>1. \A i \in 1..n : Layout(q)[i] = Layout(q)[0 + i]
    BY SMT
  <2>2. "record" # "idle" /\ "record" # "items"
    OBVIOUS
  <2> QED
    BY <1>1, <1>2, <1>3, <1>4, <1>5, <1>7, <2>1, <2>2 DEF RecordInv
<1>9. ASSUME fresh PROVE ContentInv'
  <2>1. ContentInv
    BY <1>9 DEF LogInv
  <2>2. RecordLength(q) \in Lengths
    BY RequestsAssumption
  <2>3. size' = file_length' /\ size' <= MaxLength /\ \A k \in Nat : Cell(k)' = Cell(k)
    BY <1>1, <2>1, <2>2, BufferCells DEF ContentInv, record
  <2>4. CompletedAt'
    BY <1>1, <2>1, <2>3, CompletedStay DEF ContentInv
  <2>5. HeaderAt(current, Begin, Copied.header)' /\ ItemsAt(current, Begin, Copied.items)'
    <3>1. 1..0 = {}
      BY SMT
    <3> QED
      BY <1>7, <3>1 DEF HeaderAt, ItemsAt
  <2>6. WrittenTo' = p
    BY <1>1, <1>2 DEF WrittenTo
  <2>7. \A k \in Nat : k >= p => Cell(k)' = Zero
    BY <1>1, <1>2, <2>1, <2>3 DEF ContentInv
  <2>8. \A k \in Nat : k >= WrittenTo' => Cell(k)' = Zero'
    BY <2>6, <2>7 DEF Zero, Part
  <2> QED
    BY <2>3, <2>4, <2>5, <2>8 DEF ContentInv
<1> QED
  BY <1>1, <1>8, <1>9

\* What is left of the fields when the first has been copied.
LEMMA Popped ==
    ASSUME NEW S, NEW seq \in Seq(S), seq # <<>>
    PROVE  /\ Len(seq) \in Nat \ {0} /\ Head(seq) = seq[1] /\ Head(seq) \in S
           /\ Tail(seq) \in Seq(S) /\ Len(Tail(seq)) = Len(seq) - 1
           /\ \A i \in 1..Len(seq) - 1 : Tail(seq)[i] = seq[i + 1]
BY SMT

\* Copying a field of the first buffer.
LEMMA StepField ==
    ASSUME LogInv, IInv, rrprintf, stage = "record"
    PROVE  RecordInv' /\ (fresh' => ContentInv')
<1>1. /\ completed \in Seq(Requests) /\ completed' = completed /\ stage' = "record"
      /\ current \in Requests /\ current' = current /\ pending \in Seq(Fields) /\ pending # <<>>
      /\ pending' = Tail(pending) /\ fix_buf' = fix_buf + Head(pending).size
      /\ file_cursor' = file_cursor /\ fresh' = fresh /\ file_length' = file_length
  BY DEF LogInv, RecordInv, rrprintf, vars
<1>2. PICK p \in Nat : p = Begin
  BY <1>1, StartsFacts
<1>3. Begin' = p
  BY <1>1, <1>2 DEF Begin, Starts
<1>4. PICK q \in Requests : q = current
  BY <1>1
<1> DEFINE L == Layout(q)
           at == FieldOffsets(p, Layout(q))
<1>5. PICK n \in Nat \ {0} :
        /\ FieldsOf(q, p, n) /\ at[1] = p
        /\ \A i, k \in 1..n + 1 : i <= k => at[i] <= at[k]
        /\ \A i \in 1..n + 1 : at[i] \in Nat
        /\ \A i \in 1..n : at[i + 1] = at[i] + L[i].size
        /\ \A m \in 1..n : HeaderAt(q, p, m) => HoldsAt(p, INT, <<"int", q.op>>)
  BY RecordFields
<1>6. Len(L) = n /\ at[n + 1] = p + RecordLength(q) /\ \A i \in 1..n : L[i].size \in Nat
  BY <1>5 DEF FieldsOf
<1>7. /\ Len(pending) \in Nat \ {0} /\ Head(pending) = pending[1] /\ pending' \in Seq(Fields)
      /\ Len(pending') = Len(pending) - 1
      /\ \A i \in 1..Len(pending) - 1 : pending'[i] = pending[i + 1]
  BY <1>1, Popped
<1>8. PICK l \in Nat \ {0} : l = Len(pending)
  BY <1>7
<1> DEFINE h == n - l
<1>9. Copied = [header |-> h, items |-> 0] /\ Copied' = [header |-> n - (l - 1), items |-> 0]
  BY <1>1, <1>4, <1>6, <1>7, <1>8 DEF Copied
<1>10. /\ l <= n /\ \A i \in 1..l : pending[i] = L[h + i]
       /\ file_cursor = p + RecordLength(q) /\ fix_buf = at[h + 1]
  BY <1>2, <1>4, <1>6, <1>8, <1>9 DEF LogInv, RecordInv
<1>11. /\ h \in Nat /\ h \in 0..n /\ h + 1 \in 1..n /\ n - (l - 1) = h + 1 /\ (h + 1) + 1 \in 1..n + 1 
       /\ h + 1 \in 1..n + 1 /\ 1 \in 1..l /\ l - 1 <= n /\ 1 \in 1..n + 1 /\ 1 <= h + 1
       /\ n + 1 \in 1..n + 1 /\ (h + 1) + 1 <= n + 1
  BY <1>5, <1>8, <1>10, SMT
<1>12. Copied'.header = h + 1 /\ Copied'.items = 0 /\ Copied.header = h
  BY <1>9, <1>11
<1> HIDE DEF L, at, h
<1>13. Head(pending) = L[h + 1]
  BY <1>7, <1>10, <1>11
<1>14. \A i \in 1..l - 1 : pending'[i] = L[(h + 1) + i]
  <2>1. ASSUME NEW i \in 1..l - 1 PROVE i + 1 \in 1..l /\ h + (i + 1) = (h + 1) + i
    BY <1>8, <1>11, SMT
  <2> QED
    BY <1>7, <1>8, <1>10, <2>1
<1>15. /\ at[h + 1] \in Nat /\ L[h + 1].size \in Nat /\ at[(h + 1) + 1] \in Nat
       /\ at[(h + 1) + 1] = at[h + 1] + L[h + 1].size
       /\ at[(h + 1) + 1] <= p + RecordLength(q) /\ p <= at[h + 1]
  BY <1>5, <1>6, <1>11
<1>16. RecordInv'
  <2>1. Len(pending') = l - 1 /\ fix_buf' = at[(h + 1) + 1]
    BY <1>1, <1>7, <1>8, <1>10, <1>13, <1>15
  <2>2. "record" # "idle" /\ "record" # "items"
    OBVIOUS
  <2> QED
    BY <1>1, <1>3, <1>4, <1>6, <1>7, <1>10, <1>11, <1>12, <1>14, <2>1, <2>2 DEF RecordInv, L, at
<1>17. ASSUME fresh PROVE ContentInv'
  <2>1. ContentInv
    BY <1>17 DEF LogInv
  <2>2. PICK b \in Nat : b = at[h + 1]
    BY <1>15
  <2>3. PICK s \in Nat : s = L[h + 1].size
    BY <1>15
  <2>4. PICK v : v = Value(q, L[h + 1].name)
    OBVIOUS
  <2>5. size \in Nat /\ size <= MaxLength /\ size = file_length /\ b + s <= size
    <3>1. /\ size \in Nat /\ size <= MaxLength /\ size = file_length /\ file_cursor <= size
          /\ file_cursor = p + RecordLength(q) /\ b + s <= p + RecordLength(q)
      BY <1>10, <1>15, <2>1, <2>2, <2>3 DEF ContentInv, IInv, TypeOK
    <3>2. RecordLength(q) \in Nat
      BY LengthsNatural
    <3>3. PICK z \in Nat : z = size
      BY <3>1
    <3>4. b + s <= z
      BY <3>1, <3>2, <3>3, SMT
    <3> QED
      BY <3>1, <3>3, <3>4
  <2>6. /\ size' = size /\ HoldsAt(b, s, v)'
        /\ \A k \in Nat : k < b \/ k >= b + s => Cell(k)' = Cell(k)
    BY <1>4, <1>10, <1>13, <2>2, <2>3, <2>4, <2>5, CopiedField
  <2>7. HeaderAt(q, p, h)'
    <3>1. HeaderAt(q, p, h)
      BY <1>2, <1>4, <1>12, <2>1 DEF ContentInv
    <3> QED
      BY <1>6, <1>11, <2>2, <2>6, <3>1, HeaderFrame DEF L, at
  <2>8. HeaderAt(q, p, h + 1)'
    <3>1. \A i \in 1..h + 1 : i \in 1..h \/ i = h + 1
      BY <1>11, SMT
    <3> QED
      BY <2>2, <2>3, <2>4, <2>6, <2>7, <3>1 DEF HeaderAt, L, at
  <2>9. HeaderAt(current, Begin, Copied.header)' /\ ItemsAt(current, Begin, Copied.items)'
    <3>1. 1..0 = {}
      BY SMT
    <3> QED
      BY <1>1, <1>3, <1>4, <1>12, <2>8, <3>1 DEF HeaderAt, ItemsAt
  <2>10. CompletedAt'
    <3>1. \A k \in Nat : k < p => k < b
      BY <1>15, <2>2, SMT
    <3> QED
      BY <1>1, <1>2, <2>1, <2>6, <3>1, CompletedStay DEF ContentInv
  <2>11. \A k \in Nat : k >= WrittenTo' => Cell(k)' = Zero'
    <3>1. WrittenTo' = b + s /\ WrittenTo = b
      BY <1>1, <1>10, <1>13, <2>2, <2>3 DEF WrittenTo
    <3>2. \A k \in Nat : k >= b + s => k >= b
      BY SMT
    <3>3. \A k \in Nat : k >= b + s => Cell(k)' = Zero
      BY <2>1, <2>6, <3>1, <3>2 DEF ContentInv
    <3> QED
      BY <3>1, <3>3 DEF Zero, Part
  <2> QED
    BY <1>1, <2>5, <2>6, <2>9, <2>10, <2>11 DEF ContentInv
<1> QED
  BY <1>1, <1>16, <1>17

\* The items of a bulk operation.
LEMMA ItemsFields ==
    ASSUME NEW q \in Requests, q.op \in BulkOps
    PROVE  /\ Items(q) \in Seq(Fields) /\ Len(Items(q)) = q.n /\ q.n \in Nat /\ ItemCount(q) = q.n
           /\ \A i \in 1..q.n : /\ Items(q)[i].size = EncLength(q.op)
                                /\ Items(q)[i].name = ItemNames[i]
<1>1. PICK n \in Nat : n = q.n /\ n \in 1..Len(ItemNames) /\ Len(ItemNames) \in Nat
  <2>1. q.n \in 1..Len(ItemNames)
    BY RequestsAssumption
  <2>2. Len(ItemNames) \in Nat
    BY RequestsAssumption, SMT
  <2>3. q.n \in Nat
    BY <2>1, <2>2, SMT
  <2> QED
    BY <2>1, <2>2, <2>3
<1>2. PICK e \in Nat : e = EncLength(q.op)
  BY OpsAreInts, EncLengthSize
<1>3. ASSUME NEW i \in 1..n PROVE F(ItemNames[i], e) \in Fields
  <2>1. i \in DOMAIN ItemNames
    BY <1>1, RequestsAssumption, SMT
  <2>2. ItemNames[i] \in FieldNames
    BY <2>1 DEF FieldNames, Range
  <2> QED
    BY <2>2, FieldIn
<1>4. Items(q) = [i \in 1..n |-> F(ItemNames[i], e)]
  BY <1>1, <1>2 DEF Items
<1>5. Items(q) \in [1..n -> Fields]
  BY <1>3, <1>4
<1>6. Items(q) \in Seq(Fields) /\ Len(Items(q)) = n
  BY <1>5, SMT
<1>7. \A i \in 1..n : Items(q)[i] = F(ItemNames[i], e)
  BY <1>4
<1>8. \A i \in 1..n : Items(q)[i].size = e /\ Items(q)[i].name = ItemNames[i]
  <2>1. ASSUME NEW x PROVE F(x, e).size = e /\ F(x, e).name = x
    BY SMT DEF F
  <2>2. ASSUME NEW i \in 1..n PROVE Items(q)[i].size = e /\ Items(q)[i].name = ItemNames[i]
    <3>1. Items(q)[i] = F(ItemNames[i], e)
      BY <1>7
    <3> QED
      BY <2>1, <3>1
  <2> QED
    BY <2>2
<1> QED
  BY <1>1, <1>2, <1>6, <1>8 DEF ItemCount

\* The end of a record of a bulk operation.
LEMMA BulkLengths ==
    ASSUME NEW q \in Requests, q.op \in BulkOps, NEW e, e = EncLength(q.op), NEW p \in Nat
    PROVE  /\ e \in Nat /\ q.n \in Nat /\ q.n * e \in Nat /\ RecordLength(q) \in Nat
           /\ WrittenLength(q) = RecordLength(q) + q.n * e
           /\ p + WrittenLength(q) = p + RecordLength(q) + q.n * e
<1>1. e \in Nat
  BY OpsAreInts, EncLengthSize
<1>2. q.n \in Nat /\ ItemCount(q) = q.n
  BY ItemsFields
<1>3. q.n * e \in Nat
  BY <1>1, <1>2, SMT
<1>4. RecordLength(q) \in Nat
  BY LengthsNatural
<1>5. WrittenLength(q) = RecordLength(q) + q.n * e
  BY <1>2 DEF WrittenLength
<1>6. p + WrittenLength(q) = p + RecordLength(q) + q.n * e
  BY <1>3, <1>4, <1>5, SMT
<1> QED
  BY <1>1, <1>2, <1>3, <1>4, <1>5, <1>6

\* Beginning the items.
LEMMA StepItems ==
    ASSUME LogInv, RecordItems
    PROVE  RecordInv' /\ (fresh' => ContentInv')
<1>1. /\ IInv /\ completed \in Seq(Requests) /\ completed' = completed /\ stage = "record"
      /\ current \in Requests /\ current.op \in BulkOps /\ current' = current /\ stage' = "items"
      /\ pending = <<>> /\ pending' = Items(current) /\ fix_buf' = file_cursor
      /\ file_cursor' = file_cursor + ItemsLength(current) /\ fresh' = fresh
  BY DEF LogInv, RecordInv, RecordItems, get_write_buffer
<1>2. PICK p \in Nat : p = Begin
  BY <1>1, StartsFacts
<1>3. Begin' = p
  BY <1>1, <1>2 DEF Begin, Starts
<1>4. PICK q \in Requests : q = current /\ q.op \in BulkOps
  BY <1>1
<1>5. PICK n \in Nat \ {0} : FieldsOf(q, p, n)
  BY RecordFields
<1>6. /\ Len(Layout(q)) = n /\ FieldOffsets(p, Layout(q))[n + 1] = p + RecordLength(q)
      /\ Len(<<>>) = 0 /\ n - 0 = n
  BY <1>5, SMT DEF FieldsOf
<1>7. PICK e \in Nat : e = EncLength(q.op)
  BY OpsAreInts, EncLengthSize
<1>8. /\ Items(q) \in Seq(Fields) /\ Len(Items(q)) = q.n /\ q.n \in Nat /\ ItemCount(q) = q.n
  BY <1>4, ItemsFields
<1>9. /\ RecordLength(q) \in Nat /\ p + WrittenLength(q) = p + RecordLength(q) + q.n * e
  BY <1>4, <1>7, BulkLengths
<1>10. Copied = [header |-> n, items |-> 0] /\ Copied' = [header |-> n, items |-> q.n - q.n]
  BY <1>1, <1>4, <1>6, <1>8 DEF Copied
<1>11. q.n - q.n = 0 /\ q.n <= q.n /\ 0 * e = 0 /\ p + RecordLength(q) + 0 = p + RecordLength(q)
  BY <1>7, <1>8, <1>9, SMT
<1>12. Copied.header = n /\ Copied'.header = n /\ Copied'.items = 0
  BY <1>10, <1>11
<1>13. file_cursor = p + RecordLength(q) /\ fix_buf = p + RecordLength(q)
  BY <1>1, <1>2, <1>4, <1>6, <1>12 DEF LogInv, RecordInv
<1>14. RecordInv'
  <2>1. "items" # "idle" /\ "items" # "record"
    OBVIOUS
  <2>2. \A i \in 1..q.n : Items(q)[i] = Items(q)[0 + i]
    BY <1>8, SMT
  <2>3. file_cursor' = p + WrittenLength(q) /\ fix_buf' = p + RecordLength(q) + 0 * e
    BY <1>1, <1>4, <1>7, <1>9, <1>11, <1>13 DEF ItemsLength
  <2> QED
    BY <1>1, <1>3, <1>4, <1>7, <1>8, <1>11, <1>12, <2>1, <2>2, <2>3 DEF RecordInv
<1>15. ASSUME fresh PROVE ContentInv'
  <2>1. ContentInv
    BY <1>15 DEF LogInv
  <2>2. ItemsLength(current) \in Lengths
    BY <1>1, RequestsAssumption
  <2>3. size' = file_length' /\ size' <= MaxLength /\ \A k \in Nat : Cell(k)' = Cell(k)
    BY <1>1, <2>1, <2>2, BufferCells DEF ContentInv, RecordItems
  <2>4. CompletedAt'
    BY <1>1, <2>1, <2>3, CompletedStay DEF ContentInv
  <2>5. HeaderAt(q, p, n)'
    <3>1. HeaderAt(q, p, n)
      BY <1>2, <1>4, <1>12, <2>1 DEF ContentInv
    <3>2. n \in 0..Len(Layout(q))
      BY <1>6, SMT
    <3> QED
      BY <2>3, <3>1, <3>2, HeaderFrame
  <2>6. HeaderAt(current, Begin, Copied.header)' /\ ItemsAt(current, Begin, Copied.items)'
    <3>1. 1..0 = {}
      BY SMT
    <3> QED
      BY <1>1, <1>3, <1>4, <1>12, <2>5, <3>1 DEF HeaderAt, ItemsAt
  <2>7. WrittenTo' = p + RecordLength(q) /\ WrittenTo = p + RecordLength(q)
    BY <1>1, <1>13 DEF WrittenTo
  <2>8. \A k \in Nat : k >= p + RecordLength(q) => Cell(k)' = Zero
    BY <2>1, <2>3, <2>7 DEF ContentInv
  <2>9. \A k \in Nat : k >= WrittenTo' => Cell(k)' = Zero'
    BY <2>7, <2>8 DEF Zero, Part
  <2> QED
    BY <2>3, <2>4, <2>6, <2>9 DEF ContentInv
<1> QED
  BY <1>1, <1>14, <1>15

\* Copying an item.
LEMMA StepItem ==
    ASSUME LogInv, IInv, rrprintf, stage = "items"
    PROVE  RecordInv' /\ (fresh' => ContentInv')
<1>1. /\ completed \in Seq(Requests) /\ completed' = completed /\ stage' = "items"
      /\ current \in Requests /\ current.op \in BulkOps /\ current' = current
      /\ pending \in Seq(Fields) /\ pending # <<>>
      /\ pending' = Tail(pending) /\ fix_buf' = fix_buf + Head(pending).size
      /\ file_cursor' = file_cursor /\ fresh' = fresh /\ file_length' = file_length
  BY DEF LogInv, RecordInv, rrprintf, vars
<1>2. PICK p \in Nat : p = Begin
  BY <1>1, StartsFacts
<1>3. Begin' = p
  BY <1>1, <1>2 DEF Begin, Starts
<1>4. PICK q \in Requests : q = current /\ q.op \in BulkOps
  BY <1>1
<1>5. PICK n \in Nat \ {0} : FieldsOf(q, p, n)
  BY RecordFields
<1>6. /\ Len(Layout(q)) = n /\ FieldOffsets(p, Layout(q))[n + 1] = p + RecordLength(q)
      /\ n \in 0..n
  BY <1>5, SMT DEF FieldsOf
<1>7. PICK e \in Nat : e = EncLength(q.op)
  BY OpsAreInts, EncLengthSize
<1>8. /\ q.n \in Nat /\ ItemCount(q) = q.n
      /\ \A i \in 1..q.n : Items(q)[i].size = e /\ Items(q)[i].name = ItemNames[i]
  BY <1>4, <1>7, ItemsFields
<1>9. PICK r \in Nat : r = RecordLength(q) /\ p + WrittenLength(q) = p + r + q.n * e
  BY <1>4, <1>7, BulkLengths
<1>10. /\ Len(pending) \in Nat \ {0} /\ Head(pending) = pending[1] /\ pending' \in Seq(Fields)
       /\ Len(pending') = Len(pending) - 1
       /\ \A i \in 1..Len(pending) - 1 : pending'[i] = pending[i + 1]
  BY <1>1, Popped
<1>11. PICK l \in Nat \ {0} : l = Len(pending)
  BY <1>10
<1>12. PICK c : c = q.n - l
  OBVIOUS
<1>13. Copied = [header |-> n, items |-> c] /\ Copied' = [header |-> n, items |-> q.n - (l - 1)]
  BY <1>1, <1>4, <1>6, <1>8, <1>10, <1>11, <1>12 DEF Copied
<1>14. /\ l <= q.n /\ \A i \in 1..l : pending[i] = Items(q)[c + i]
       /\ file_cursor = p + WrittenLength(q) /\ fix_buf = p + r + c * e
  BY <1>2, <1>4, <1>7, <1>8, <1>9, <1>11, <1>13 DEF LogInv, RecordInv
<1>15. /\ c \in Nat /\ c + 1 \in 1..q.n /\ q.n - (l - 1) = c + 1 /\ 1 \in 1..l /\ l - 1 <= q.n
       /\ c + 1 \in Nat /\ c + 1 <= q.n
  <2>1. PICK t \in Nat : t = q.n
    BY <1>8
  <2>2. c = t - l /\ l <= t
    BY <1>12, <1>14, <2>1
  <2>3. /\ c \in Nat /\ c + 1 \in 1..t /\ t - (l - 1) = c + 1 /\ 1 \in 1..l /\ l - 1 <= t
        /\ c + 1 \in Nat /\ c + 1 <= t
    BY <1>11, <2>2, SMT
  <2> QED
    BY <2>1, <2>3
<1>16. Copied'.header = n /\ Copied'.items = c + 1 /\ Copied.header = n /\ Copied.items = c
  BY <1>13, <1>15
<1>17. Head(pending) = Items(q)[c + 1] /\ Head(pending).size = e /\ Head(pending).name = ItemNames[c + 1]
  <2>1. Head(pending) = Items(q)[c + 1]
    BY <1>10, <1>14, <1>15
  <2> QED
    BY <1>8, <1>15, <2>1
<1>18. \A i \in 1..l - 1 : pending'[i] = Items(q)[(c + 1) + i]
  <2>1. ASSUME NEW i \in 1..l - 1 PROVE i + 1 \in 1..l /\ c + (i + 1) = (c + 1) + i
    BY <1>11, <1>15, SMT
  <2> QED
    BY <1>10, <1>11, <1>14, <2>1
<1>19. /\ c * e \in Nat /\ (c + 1) * e = c * e + e /\ (c + 1) * e <= q.n * e /\ q.n * e \in Nat
       /\ (c + 1) * e \in Nat
  <2>1. (c + 1) * e <= q.n * e
    BY <1>7, <1>8, <1>15, ProductMonotone
  <2>2. c * e \in Nat /\ (c + 1) * e = c * e + e /\ q.n * e \in Nat
    <3>1. ASSUME NEW x \in Nat, NEW t \in Nat
          PROVE  x * e \in Nat /\ (x + 1) * e = x * e + e /\ t * e \in Nat
      BY SMT
    <3> QED
      BY <1>8, <1>15, <3>1
  <2>3. (c + 1) * e \in Nat
    BY <1>7, <1>15, SMT
  <2> QED
    BY <2>1, <2>2, <2>3
<1>20. PICK b \in Nat : b = p + r + c * e
  BY <1>9, <1>19, SMT
<1>21. b + e = p + r + (c + 1) * e /\ b + e <= p + r + q.n * e /\ p + r <= b
  BY <1>7, <1>9, <1>19, <1>20, SMT
<1>22. RecordInv'
  <2>1. Len(pending') = l - 1 /\ fix_buf' = p + r + (c + 1) * e
    BY <1>1, <1>10, <1>11, <1>14, <1>17, <1>20, <1>21
  <2>2. "items" # "idle" /\ "items" # "record"
    OBVIOUS
  <2> QED
    BY <1>1, <1>3, <1>4, <1>7, <1>8, <1>9, <1>10, <1>14, <1>15, <1>16, <1>18, <2>1, <2>2 DEF RecordInv
<1>23. ASSUME fresh PROVE ContentInv'
  <2>1. ContentInv
    BY <1>23 DEF LogInv
  <2>2. PICK v : v = Value(q, ItemNames[c + 1])
    OBVIOUS
  <2>3. size \in Nat /\ size <= MaxLength /\ size = file_length /\ b + e <= size
    <3>1. /\ size \in Nat /\ size <= MaxLength /\ size = file_length /\ file_cursor <= size
          /\ file_cursor = p + r + q.n * e
      BY <1>9, <1>14, <2>1 DEF ContentInv, IInv, TypeOK
    <3>2. PICK z \in Nat : z = size
      BY <3>1
    <3>3. PICK y \in Nat : y = q.n * e
      BY <1>19
    <3>4. b + e <= z
      BY <1>7, <1>9, <1>21, <3>1, <3>2, <3>3, SMT
    <3> QED
      BY <3>1, <3>2, <3>4
  <2>4. /\ size' = size /\ HoldsAt(b, e, v)'
        /\ \A k \in Nat : k < b \/ k >= b + e => Cell(k)' = Cell(k)
    BY <1>4, <1>14, <1>17, <1>20, <2>2, <2>3, CopiedField
  <2>5. HeaderAt(q, p, n)'
    <3>1. HeaderAt(q, p, n)
      BY <1>2, <1>4, <1>16, <2>1 DEF ContentInv
    <3>2. \A k \in Nat : k < p + r => k < b
      BY <1>9, <1>21, SMT
    <3> QED
      BY <1>6, <1>9, <2>4, <3>1, <3>2, HeaderFrame
  <2>6. ItemsAt(q, p, c)'
    <3>1. ItemsAt(q, p, c)
      BY <1>2, <1>4, <1>16, <2>1 DEF ContentInv
    <3> QED
      BY <1>7, <1>9, <1>15, <1>20, <2>4, <3>1, ItemsFrame
  <2>7. ItemsAt(q, p, c + 1)'
    <3>1. \A i \in 1..c + 1 : i \in 1..c \/ i = c + 1
      BY <1>15, SMT
    <3>2. (c + 1) - 1 = c
      BY <1>15, SMT
    <3> QED
      BY <1>7, <1>9, <1>20, <2>2, <2>4, <2>6, <3>1, <3>2 DEF ItemsAt
  <2>8. HeaderAt(current, Begin, Copied.header)' /\ ItemsAt(current, Begin, Copied.items)'
    BY <1>1, <1>3, <1>4, <1>16, <2>5, <2>7 DEF HeaderAt, ItemsAt
  <2>9. CompletedAt'
    <3>1. \A k \in Nat : k < p => k < b
      BY <1>9, <1>21, SMT
    <3> QED
      BY <1>1, <1>2, <2>1, <2>4, <3>1, CompletedStay DEF ContentInv
  <2>10. \A k \in Nat : k >= WrittenTo' => Cell(k)' = Zero'
    <3>1. WrittenTo' = b + e /\ WrittenTo = b
      BY <1>1, <1>14, <1>17, <1>20 DEF WrittenTo
    <3>2. \A k \in Nat : k >= b + e => k >= b
      BY <1>7, SMT
    <3>3. \A k \in Nat : k >= b + e => Cell(k)' = Zero
      BY <2>1, <2>4, <3>1, <3>2 DEF ContentInv
    <3> QED
      BY <3>1, <3>3 DEF Zero, Part
  <2> QED
    BY <1>1, <2>3, <2>4, <2>8, <2>9, <2>10 DEF ContentInv
<1> QED
  BY <1>1, <1>22, <1>23

\* All of a record has been copied when record returns.
LEMMA RecordComplete ==
    ASSUME LogInv, RecordReturns, NEW q \in Requests, q = current, NEW p \in Nat, p = Begin
    PROVE  /\ Copied.header = Len(Layout(q)) /\ Copied.items = ItemCount(q)
           /\ file_cursor = p + WrittenLength(q) /\ WrittenTo = p + WrittenLength(q)
<1>1. stage = (IF q.op \in BulkOps THEN "items" ELSE "record") /\ pending = <<>>
  BY DEF RecordReturns
<1>2. PICK n \in Nat \ {0} : FieldsOf(q, p, n)
  BY RecordFields
<1>3. /\ Len(Layout(q)) = n /\ FieldOffsets(p, Layout(q))[n + 1] = p + RecordLength(q)
      /\ Len(<<>>) = 0 /\ n - 0 = n
  BY <1>2, SMT DEF FieldsOf
<1>4. CASE q.op \in BulkOps
  <2>1. stage = "items" /\ WrittenTo = fix_buf
    BY <1>1, <1>4 DEF WrittenTo
  <2>2. PICK e : e = EncLength(q.op)
    OBVIOUS
  <2>3. q.n \in Nat /\ ItemCount(q) = q.n /\ q.n - 0 = q.n
    BY <1>4, ItemsFields, SMT
  <2>4. p + WrittenLength(q) = p + RecordLength(q) + q.n * e
    BY <1>4, <2>2, BulkLengths
  <2>5. Copied = [header |-> n, items |-> q.n]
    BY <1>1, <1>3, <2>1, <2>3 DEF Copied
  <2>6. Copied.header = n /\ Copied.items = q.n
    BY <2>5
  <2>7. file_cursor = p + WrittenLength(q) /\ fix_buf = p + RecordLength(q) + q.n * e
    BY <2>1, <2>2, <2>6 DEF LogInv, RecordInv
  <2> QED
    BY <1>3, <2>1, <2>3, <2>4, <2>6, <2>7
<1>5. CASE q.op \notin BulkOps
  <2>1. stage = "record" /\ WrittenTo = fix_buf
    BY <1>1, <1>5 DEF WrittenTo
  <2>2. RecordLength(q) = WrittenLength(q)
    <3>1. RecordLength(q) \in Int
      BY LengthsNatural, SMT
    <3> QED
      BY <1>5, <3>1, WrittenAll
  <2>3. ItemCount(q) = 0
    BY <1>5 DEF ItemCount
  <2>4. Copied = [header |-> n, items |-> 0]
    BY <1>1, <1>3, <2>1 DEF Copied
  <2>5. Copied.header = n /\ Copied.items = 0
    BY <2>4
  <2>6. file_cursor = p + RecordLength(q) /\ fix_buf = FieldOffsets(p, Layout(q))[n + 1]
    BY <2>1, <2>5 DEF LogInv, RecordInv
  <2> QED
    BY <1>3, <2>1, <2>2, <2>3, <2>5, <2>6
<1> QED
  BY <1>4, <1>5

\* The record is one of the completed ones then.
LEMMA StepReturns ==
    ASSUME LogInv, RecordReturns
    PROVE  RecordInv' /\ (fresh' => ContentInv') /\ completed' \in Seq(Requests)
<1>1. /\ completed \in Seq(Requests) /\ current \in Requests /\ stage' = "idle"
      /\ current' = current /\ pending' = <<>> /\ fresh' = fresh /\ content' = content
      /\ completed' = Append(completed, current) /\ file_cursor' = file_cursor
      /\ file_length' = file_length /\ size' = size
  BY DEF LogInv, RecordInv, RecordReturns, vars
<1>2. PICK p \in Nat : p = Begin
  BY <1>1, StartsFacts
<1>3. PICK q \in Requests : q = current
  BY <1>1
<1>4. PICK log \in Seq(Requests) : log = completed
  BY <1>1
<1>5. PICK l \in Nat : l = Len(log)
  BY <1>4, StartsFacts
<1>6. PICK at : at = StartsOf(log) /\ at \in [1..l + 1 -> Nat]
  BY <1>4, <1>5, StartsFacts DEF Starts
<1>7. PICK more : more = Append(log, q)
  OBVIOUS
<1>8. /\ more \in Seq(Requests) /\ Len(more) = l + 1
      /\ \A k \in 1..l + 1 : StartsOf(more)[k] = at[k]
      /\ StartsOf(more)[l + 2] = at[l + 1] + WrittenLength(q)
      /\ \A k \in 1..l : more[k] = log[k]
      /\ more[l + 1] = q
  BY <1>5, <1>6, <1>7, StartsAppend
<1>9. completed' = more /\ at[l + 1] = p
  BY <1>1, <1>2, <1>3, <1>4, <1>5, <1>6, <1>7 DEF Begin, Starts
<1>10. PICK w \in Nat : w = WrittenLength(q)
  BY LengthsNatural
<1>11. Begin' = p + w /\ Starts' = StartsOf(more)
  <2>1. (l + 1) + 1 = l + 2
    BY SMT
  <2> QED
    BY <1>8, <1>9, <1>10, <2>1 DEF Begin, Starts
<1>12. /\ Copied.header = Len(Layout(q)) /\ Copied.items = ItemCount(q)
       /\ file_cursor = p + w /\ WrittenTo = p + w
  BY <1>2, <1>3, <1>10, RecordComplete
<1>13. Copied' = [header |-> 0, items |-> 0]
  BY <1>1 DEF Copied
<1>14. Copied'.header = 0 /\ Copied'.items = 0
  BY <1>13
<1>15. RecordInv'
  <2>1. <<>> \in Seq(Fields)
    BY SMT
  <2>2. "idle" # "record" /\ "idle" # "items"
    OBVIOUS
  <2> QED
    BY <1>1, <1>11, <1>12, <2>1, <2>2 DEF RecordInv
<1>16. ASSUME fresh PROVE ContentInv'
  <2>1. ContentInv
    BY <1>16 DEF LogInv
  <2>2. ASSUME NEW k PROVE Cell(k)' = Cell(k)
    BY <1>1 DEF Cell
  <2>3. ASSUME NEW k \in 1..l + 1
        PROVE  RecordAt(more[k], at[k]) /\ at[k] + WrittenLength(more[k]) <= p + w
    <3>1. CASE k \in 1..l
      <4>1. more[k] = log[k] /\ RecordAt(log[k], at[k]) /\ at[k] + WrittenLength(log[k]) <= p
        BY <1>2, <1>4, <1>5, <1>6, <1>8, <2>1, <3>1 DEF ContentInv, CompletedAt, Starts
      <4>2. at[k] \in Nat /\ WrittenLength(log[k]) \in Nat
        BY <1>4, <1>5, <1>6, <3>1, LengthsNatural, StartsFacts
      <4>3. ASSUME NEW a \in Nat, NEW b \in Nat, a + b <= p PROVE a + b <= p + w
        BY <4>3, SMT
      <4> QED
        BY <4>1, <4>2, <4>3
    <3>2. CASE k = l + 1
      <4>1. RecordAt(q, p)
        BY <1>2, <1>3, <1>12, <2>1 DEF ContentInv, RecordAt
      <4>2. p + w <= p + w
        BY SMT
      <4> QED
        BY <1>8, <1>9, <1>10, <3>2, <4>1, <4>2
    <3>3. k \in 1..l \/ k = l + 1
      BY SMT
    <3> QED
      BY <3>1, <3>2, <3>3
  <2>4. CompletedAt'
    <3>1. ASSUME NEW r, NEW pos, RecordAt(r, pos) PROVE RecordAt(r, pos)'
      BY <2>2, <3>1 DEF RecordAt, HeaderAt, ItemsAt, HoldsAt
    <3>2. ASSUME NEW k \in 1..l + 1
          PROVE  /\ RecordAt(more[k], StartsOf(more)[k])'
                 /\ StartsOf(more)[k] + WrittenLength(more[k]) <= p + w
      BY <1>8, <2>3, <3>1
    <3> QED
      BY <1>8, <1>9, <1>11, <3>2 DEF CompletedAt
  <2>5. HeaderAt(current, Begin, Copied.header)' /\ ItemsAt(current, Begin, Copied.items)'
    <3>1. 1..0 = {}
      BY SMT
    <3> QED
      BY <1>14, <3>1 DEF HeaderAt, ItemsAt
  <2>6. WrittenTo' = p + w
    BY <1>1, <1>12 DEF WrittenTo
  <2>7. \A k \in Nat : k >= p + w => Cell(k)' = Zero
    BY <1>12, <2>1, <2>2 DEF ContentInv
  <2>8. \A k \in Nat : k >= WrittenTo' => Cell(k)' = Zero'
    BY <2>6, <2>7 DEF Zero, Part
  <2> QED
    BY <1>1, <2>1, <2>4, <2>5, <2>8 DEF ContentInv
<1> QED
  BY <1>1, <1>8, <1>9, <1>15, <1>16

\* In a file that nothing has been recorded in.
EmptyFile ==
    /\ stage = "idle" /\ current \in Requests /\ pending = <<>>
    /\ completed = <<>> /\ file_cursor = 0 /\ file_length = 0 /\ size \in Nat
    /\ fresh = (size = 0)

LEMMA EmptyLog ==
    ASSUME EmptyFile
    PROVE  RecordInv /\ (fresh => ContentInv) /\ completed \in Seq(Requests) /\ Starts[1] = 0
<1>1. <<>> \in Seq(Requests) /\ <<>> \in Seq(Fields) /\ Len(<<>>) = 0 /\ 0 + 1 = 1 /\ 1..0 = {}
  BY SMT
<1>2. completed = <<>> /\ Starts[1] = 0 /\ Begin = 0
  BY <1>1, StartsConsecutive DEF EmptyFile, Starts, Begin
<1>3. RecordInv
  <2>1. "idle" # "record" /\ "idle" # "items"
    OBVIOUS
  <2> QED
    BY <1>1, <1>2, <2>1 DEF EmptyFile, RecordInv
<1>4. ASSUME fresh PROVE ContentInv
  <2>1. size = 0 /\ size = file_length /\ size <= MaxLength
    <3>1. size = 0 /\ file_length = 0
      BY <1>4 DEF EmptyFile
    <3>2. 0 <= MaxLength
      BY LengthsAssumption, SMT
    <3> QED
      BY <3>1, <3>2
  <2>2. Copied = [header |-> 0, items |-> 0]
    BY DEF Copied, EmptyFile
  <2>3. Copied.header = 0 /\ Copied.items = 0
    BY <2>2
  <2>4. \A k \in Nat : Cell(k) = Zero
    <3>1. 0..0 - 1 = {}
      BY SMT
    <3> QED
      BY <2>1, <3>1 DEF Cell
  <2> QED
    BY <1>1, <1>2, <2>1, <2>3, <2>4 DEF ContentInv, CompletedAt, HeaderAt, ItemsAt
<1> QED
  BY <1>1, <1>2, <1>3, <1>4

\* A new file.
LEMMA StepNewFile ==
    ASSUME LogInv, NewFile
    PROVE  RecordInv' /\ (fresh' => ContentInv') /\ completed' \in Seq(Requests)
<1>1. EmptyFile'
  <2>1. size' \in Nat
    BY LengthsAssumption DEF NewFile, update_write_fd
  <2> QED
    BY <2>1 DEF EmptyFile, NewFile, update_write_fd, LogInv, RecordInv
<1>2. (EmptyFile => RecordInv /\ (fresh => ContentInv) /\ completed \in Seq(Requests))'
  BY EmptyLog, PTL
<1> QED
  BY <1>1, <1>2

\* Reading changes nothing in the file.
LEMMA StepReading ==
    ASSUME LogInv, vars' = vars, content' = content, fresh' = fresh, stage' = stage,
           current' = current, pending' = pending, fix_buf' = fix_buf, completed' = completed
    PROVE  /\ RecordInv' /\ (fresh' => ContentInv') /\ completed' \in Seq(Requests)
           /\ Starts' = Starts /\ Begin' = Begin /\ WrittenTo' = WrittenTo
<1>1. /\ file_cursor' = file_cursor /\ file_length' = file_length /\ size' = size
      /\ Starts' = Starts /\ Begin' = Begin /\ Copied' = Copied /\ WrittenTo' = WrittenTo
  BY DEF vars, Starts, Begin, Copied, WrittenTo
<1>2. RecordInv'
  BY <1>1 DEF LogInv, RecordInv
<1>3. ASSUME fresh PROVE ContentInv'
  <2>1. ASSUME NEW k PROVE Cell(k)' = Cell(k)
    BY <1>1 DEF Cell
  <2>2. ContentInv
    BY <1>3 DEF LogInv
  <2>3. CompletedAt'
    BY <1>1, <2>1, <2>2 DEF ContentInv, CompletedAt, RecordAt, HeaderAt, ItemsAt, HoldsAt
  <2>4. HeaderAt(current, Begin, Copied.header)' /\ ItemsAt(current, Begin, Copied.items)'
    BY <1>1, <2>1, <2>2 DEF ContentInv, HeaderAt, ItemsAt, HoldsAt
  <2>5. \A k \in Nat : k >= WrittenTo' => Cell(k)' = Zero'
    BY <1>1, <2>1, <2>2 DEF ContentInv, Zero, Part
  <2> QED
    BY <1>1, <2>2, <2>3, <2>4, <2>5 DEF ContentInv
<1> QED
  BY <1>1, <1>2, <1>3 DEF LogInv

-----------------------------------------------------------------------------
(* The readers.                                                            *)

\* Appending to a sequence, whatever it holds.
LEMMA Appended ==
    ASSUME NEW s, s \in Seq(Range(s)), NEW x
    PROVE  /\ Len(s) \in Nat /\ Append(s, x) \in Seq(Range(Append(s, x)))
           /\ Len(Append(s, x)) = Len(s) + 1 /\ Append(s, x)[Len(s) + 1] = x
           /\ \A i \in 1..Len(s) : Append(s, x)[i] = s[i]
<1> DEFINE T == Range(s) \cup {x}
           t == Append(s, x)
<1>1. s \in Seq(T)
  <2>1. ASSUME NEW R, NEW U, s \in Seq(R), R \subseteq U PROVE s \in Seq(U)
    BY <2>1, SMT
  <2> QED
    BY <2>1
<1>2. /\ Len(s) \in Nat /\ t \in Seq(T) /\ Len(t) = Len(s) + 1 /\ t[Len(s) + 1] = x
      /\ \A i \in 1..Len(s) : t[i] = s[i]
  <2>1. ASSUME NEW U, s \in Seq(U), x \in U
        PROVE  /\ Len(s) \in Nat /\ t \in Seq(U) /\ Len(t) = Len(s) + 1 /\ t[Len(s) + 1] = x
               /\ \A i \in 1..Len(s) : t[i] = s[i]
    BY <2>1, SMT
  <2> QED
    BY <1>1, <2>1
<1>3. t \in Seq(Range(t))
  <2> HIDE DEF t, T
  <2>1. DOMAIN t = 1..Len(t)
    BY <1>2, SMT
  <2>2. \A i \in 1..Len(t) : t[i] \in Range(t)
    BY <2>1 DEF Range
  <2>3. t = [i \in 1..Len(t) |-> t[i]]
    BY <1>2, <2>1, SMT
  <2>4. t \in [1..Len(t) -> Range(t)] /\ Len(t) \in Nat
    BY <1>2, <2>2, <2>3, SMT
  <2> QED
    BY <2>4, SMT
<1> QED
  BY <1>2, <1>3

\* What a record that is being written is to a reader.
LEMMA InterruptedNow ==
    ASSUME LogInv, ContentInv
    PROVE  Interrupted(current, Begin, Copied.header, WrittenTo)
<1>1. IInv /\ completed \in Seq(Requests) /\ RecordInv /\ current \in Requests /\ file_cursor \in Nat
  BY DEF LogInv, RecordInv, IInv, TypeOK
<1>2. PICK p \in Nat : p = Begin
  BY <1>1, StartsFacts
<1>3. PICK q \in Requests : q = current
  BY <1>1
<1>4. PICK n \in Nat \ {0} :
        /\ FieldsOf(q, p, n) /\ FieldOffsets(p, Layout(q))[1] = p
        /\ \A i \in 1..n + 1 : FieldOffsets(p, Layout(q))[i] \in Nat
  BY RecordFields
<1>5. Len(Layout(q)) = n /\ FieldOffsets(p, Layout(q))[n + 1] = p + RecordLength(q)
  BY <1>4 DEF FieldsOf
<1>6. PICK h : h = Copied.header
  OBVIOUS
<1>7. PICK w : w = WrittenTo
  OBVIOUS
<1>8. h \in 0..n /\ w \in Nat /\ IF h < n THEN w = FieldOffsets(p, Layout(q))[h + 1]
                                 ELSE w <= p + WrittenLength(q)
  <2>1. CASE stage = "idle"
    <3>1. Copied = [header |-> 0, items |-> 0]
      BY <2>1 DEF Copied
    <3>2. h = 0 /\ w = p
      BY <1>1, <1>2, <1>6, <1>7, <2>1, <3>1 DEF RecordInv, WrittenTo
    <3>3. 0 \in 0..n /\ 0 < n /\ 0 + 1 = 1
      BY SMT
    <3> QED
      BY <1>4, <3>2, <3>3
  <2>2. CASE stage = "record"
    <3>1. PICK l \in Nat : l = Len(pending) /\ l <= n
      BY <1>1, <1>3, <1>5, <2>2, SMT DEF RecordInv
    <3>2. Copied = [header |-> n - l, items |-> 0]
      BY <1>3, <1>5, <2>2, <3>1 DEF Copied
    <3>3. h = n - l
      BY <1>6, <3>2
    <3>4. h \in 0..n /\ h + 1 \in 1..n + 1 /\ (~(h < n) => h + 1 = n + 1)
      BY <3>1, <3>3, SMT
    <3>5. w = FieldOffsets(p, Layout(q))[h + 1]
      BY <1>1, <1>2, <1>3, <1>6, <1>7, <2>2 DEF RecordInv, WrittenTo
    <3>6. p + RecordLength(q) <= p + WrittenLength(q)
      BY LengthsNatural, SMT
    <3> QED
      BY <1>4, <1>5, <3>4, <3>5, <3>6
  <2>3. CASE stage = "items"
    <3>1. q.op \in BulkOps
      BY <1>1, <1>3, <2>3 DEF RecordInv
    <3>2. PICK e \in Nat : e = EncLength(q.op)
      BY OpsAreInts, EncLengthSize
    <3>3. PICK t \in Nat : t = q.n /\ ItemCount(q) = t
      BY <3>1, ItemsFields
    <3>4. PICK r \in Nat : r = RecordLength(q) /\ p + WrittenLength(q) = p + r + t * e
      BY <3>1, <3>2, <3>3, BulkLengths
    <3>5. PICK l \in Nat : l = Len(pending) /\ l <= t
      BY <1>1, <1>3, <2>3, <3>3, SMT DEF RecordInv
    <3>6. Copied = [header |-> n, items |-> t - l]
      BY <1>3, <1>5, <2>3, <3>3, <3>5 DEF Copied
    <3>7. h = n /\ Copied.items = t - l
      BY <1>6, <3>6
    <3>8. PICK c \in Nat : c = t - l /\ c <= t
      BY <3>5, SMT
    <3>9. w = p + r + c * e
      BY <1>1, <1>2, <1>3, <1>7, <2>3, <3>2, <3>4, <3>7, <3>8 DEF RecordInv, WrittenTo
    <3>10. c * e <= t * e
      BY ProductMonotone, <3>8
    <3>11. c * e \in Nat /\ t * e \in Nat
      BY SMT
    <3>12. w \in Nat /\ w <= p + r + t * e
      BY <3>9, <3>10, <3>11, SMT
    <3>13. n \in 0..n /\ ~(n < n)
      BY SMT
    <3> QED
      BY <3>4, <3>7, <3>12, <3>13
  <2> QED
    BY <1>1, <2>1, <2>2, <2>3 DEF RecordInv
<1>9. HeaderAt(q, p, h) /\ \A k \in Nat : k >= w => Cell(k) = Zero
  BY <1>2, <1>3, <1>6, <1>7 DEF ContentInv
<1> QED
  BY <1>2, <1>3, <1>5, <1>6, <1>7, <1>8, <1>9 DEF Interrupted

\* Before the programs read the file there is nothing to show of them.
LEMMA NothingRead ==
    ASSUME completed \in Seq(Requests), NotRead
    PROVE  ReadersInv /\ ReplayAligned
<1>1. Len(completed) \in Nat /\ Starts[1] = 0
  BY StartsFacts
<1>2. /\ <<>> \in Seq(Range(<<>>)) /\ Len(<<>>) = 0 /\ 0 + 1 = 1 /\ 1..0 = {} /\ 0 \in Nat
  BY SMT
<1>3. 0 <= Len(completed) /\ 0 <= Len(completed) + 1
  BY <1>1, SMT
<1>4. ktests = <<>> /\ replayed = <<>> /\ f = 0 /\ recnum = 0 /\ reading /\ replay_file = 0
  BY DEF NotRead
<1> QED
  BY <1>1, <1>2, <1>3, <1>4 DEF ReadersInv, ReplayAligned

\* The operations that are recorded are neither 0 nor system records.
LEMMA KnownOpsRange == \A op \in KnownOps : op # 0 /\ ~(op > 100)
BY SMT DEF KnownOps, CmpOps, BulkOps, CalcOps, StringCmpOps, SUBSTRING, CONCAT, EXTRACT_YEAR

\* A complete record lies in the file, and the readers know its operation.
LEMMA RecordInFile ==
    ASSUME LogInv, ContentInv, NEW k \in 1..Len(completed), NEW q \in Requests, q = completed[k],
           NEW p \in Nat, p = Starts[k]
    PROVE  /\ Reads(q, p) /\ p < size /\ Starts[k + 1] = p + WrittenLength(q)
           /\ q.op \in KnownOps /\ ~(q.op > 100)
<1>1. /\ IInv /\ completed \in Seq(Requests) /\ RecordInv /\ CompletedAt /\ size = file_length
      /\ current \in Requests
  BY DEF LogInv, ContentInv, RecordInv
<1>2. RecordAt(q, p) /\ p + WrittenLength(q) <= Begin /\ Starts[k + 1] = p + WrittenLength(q)
  BY <1>1, StartsFacts DEF CompletedAt
<1>3. Reads(q, p)
  BY <1>2, LayoutsAgree
<1>4. p < size
  <2>1. PICK b \in Nat : b = Begin
    BY <1>1, StartsFacts
  <2>2. PICK c \in Nat : c = file_cursor
    BY <1>1 DEF IInv, TypeOK
  <2>3. PICK z \in Nat : z = size
    BY <1>1 DEF IInv, TypeOK
  <2>4. b <= c
    <3>1. RecordLength(current) \in Nat /\ WrittenLength(current) \in Nat
      BY <1>1, LengthsNatural
    <3>2. c = b \/ c = b + RecordLength(current) \/ c = b + WrittenLength(current)
      BY <1>1, <2>1, <2>2 DEF RecordInv
    <3>3. \A y \in Nat : b <= b + y
      BY SMT
    <3>4. b <= b
      BY SMT
    <3> QED
      BY <3>1, <3>2, <3>3, <3>4
  <2>5. c <= z
    BY <1>1, <2>2, <2>3 DEF IInv
  <2>6. PICK w \in Nat \ {0} : w = WrittenLength(q)
    BY LengthsNatural, SMT
  <2>7. p + w <= b
    BY <1>2, <2>1, <2>6
  <2>8. p < z
    BY <2>4, <2>5, <2>7, SMT
  <2> QED
    BY <2>3, <2>8
<1>5. q.op \in KnownOps
  BY RequestsAssumption
<1>6. ~(q.op > 100)
  BY <1>5, KnownOpsRange
<1> QED
  BY <1>2, <1>3, <1>4, <1>5, <1>6

\* The desensitizer reads the next record.
LEMMA StepDesensitize ==
    ASSUME LogInv, ContentInv, ReadersInv, thread_entry
    PROVE  ReadersInv'
<1>1. /\ completed' = completed /\ Starts' = Starts /\ WrittenTo' = WrittenTo
      /\ replay_file' = replay_file /\ replayed' = replayed /\ reading /\ recnum' = recnum + 1
      /\ completed \in Seq(Requests)
  BY DEF LogInv, thread_entry, vars, writerVars, replayVars, Starts, WrittenTo
<1>2. PICK n \in Nat : n = Len(completed)
  BY <1>1, StartsFacts
<1>3. /\ ktests \in Seq(Range(ktests)) /\ f \in Nat /\ Len(ktests) <= n + 1
      /\ recnum = Len(ktests)
      /\ \A k \in 1..Len(ktests) :
           k <= n => ktests[k] = Ktest(k - 1, completed[k].op, Operands(completed[k]))
      /\ IF Len(ktests) <= n THEN f = Starts[Len(ktests) + 1] ELSE f >= WrittenTo
  BY <1>1, <1>2 DEF ReadersInv
<1>4. PICK m \in Nat : m = Len(ktests)
  BY <1>3, Appended
<1>5. ASSUME f >= size \/ IntAt(f) \notin KnownOps, m >= n PROVE ReadersInv'
  <2>1. reading' = FALSE /\ f' = f /\ ktests' = ktests
    BY <1>5 DEF thread_entry
  <2> QED
    BY <1>1, <1>2, <1>4, <1>5, <2>1 DEF ReadersInv
<1>6. ASSUME NEW q \in Requests, ~(f >= size), IntAt(f) = q.op, q.op \in KnownOps, ~(q.op > 100),
             m <= n, Retrieved(q.op, f + INT).next \in Nat,
             m < n => /\ Retrieved(q.op, f + INT).next = Starts[m + 2]
                      /\ q = completed[m + 1] /\ Retrieved(q.op, f + INT).operands = Operands(q),
             m = n => Retrieved(q.op, f + INT).next >= WrittenTo
      PROVE  ReadersInv'
  <2>1. PICK kt : kt = Ktest(m, q.op, Retrieved(q.op, f + INT).operands)
    OBVIOUS
  <2>2. reading' = reading /\ f' = Retrieved(q.op, f + INT).next /\ ktests' = Append(ktests, kt)
    BY <1>3, <1>4, <1>6, <2>1 DEF thread_entry
  <2>3. /\ ktests' \in Seq(Range(ktests')) /\ Len(ktests') = m + 1 /\ ktests'[m + 1] = kt
        /\ \A i \in 1..m : ktests'[i] = ktests[i]
    <3>1. /\ Append(ktests, kt) \in Seq(Range(Append(ktests, kt)))
          /\ Len(Append(ktests, kt)) = Len(ktests) + 1 /\ Append(ktests, kt)[Len(ktests) + 1] = kt
          /\ \A i \in 1..Len(ktests) : Append(ktests, kt)[i] = ktests[i]
      BY <1>3, Appended
    <3> QED
      BY <1>4, <2>2, <3>1
  <2>4. /\ m + 1 <= n + 1 /\ (m + 1) - 1 = m /\ (m + 1) + 1 = m + 2 /\ (m + 1 <= n <=> m < n)
        /\ (m < n \/ m = n) /\ \A k \in 1..m + 1 : k \in 1..m \/ k = m + 1
    BY <1>6, SMT
  <2>5. ASSUME NEW k \in 1..m + 1, k <= n
        PROVE  ktests'[k] = Ktest(k - 1, completed[k].op, Operands(completed[k]))
    <3>1. CASE k \in 1..m
      BY <1>3, <1>4, <2>3, <2>5, <3>1
    <3>2. CASE k = m + 1
      BY <1>6, <2>1, <2>3, <2>4, <2>5, <3>2
    <3> QED
      BY <2>4, <3>1, <3>2
  <2>6. IF m + 1 <= n THEN f' = Starts[(m + 1) + 1] ELSE f' >= WrittenTo
    BY <1>6, <2>2, <2>4
  <2>7. recnum' = m + 1 /\ f' \in Nat
    BY <1>1, <1>3, <1>4, <1>6, <2>2
  <2>8. \A k \in 1..m + 1 :
          k <= n => ktests'[k] = Ktest(k - 1, completed[k].op, Operands(completed[k]))
    BY <2>5
  <2>9. /\ replayed' \in Seq(Range(replayed')) /\ Len(replayed') <= n
        /\ replay_file' = Starts[Len(replayed') + 1]
    BY <1>1, <1>2 DEF ReadersInv
  <2> QED
    BY <1>1, <1>2, <2>2, <2>3, <2>4, <2>6, <2>7, <2>8, <2>9 DEF ReadersInv, Ktest, Operands
<1>7. CASE m < n
  <2>1. m + 1 \in 1..n /\ m <= n /\ (m + 1) + 1 = m + 2 /\ m # n
    BY <1>7, SMT
  <2>2. PICK q \in Requests : q = completed[m + 1]
    BY <1>1, <1>2, <2>1, StartsFacts
  <2>3. PICK p \in Nat : p = Starts[m + 1] /\ p = f
    BY <1>3, <1>4, <2>1
  <2>4. /\ Reads(q, p) /\ p < size /\ Starts[m + 2] = p + WrittenLength(q)
        /\ q.op \in KnownOps /\ ~(q.op > 100)
    <3>1. m + 1 \in 1..Len(completed)
      BY <1>2, <2>1
    <3>2. /\ Reads(q, p) /\ p < size /\ Starts[(m + 1) + 1] = p + WrittenLength(q)
          /\ q.op \in KnownOps /\ ~(q.op > 100)
      BY <2>2, <2>3, <3>1, RecordInFile
    <3> QED
      BY <2>1, <3>2
  <2>5. ~(p >= size)
    <3>1. PICK z \in Nat : z = size
      BY DEF LogInv, IInv, TypeOK
    <3>2. ~(p >= z)
      BY <2>4, <3>1, SMT
    <3> QED
      BY <3>1, <3>2
  <2>6. p + WrittenLength(q) \in Nat
    BY LengthsNatural, SMT
  <2> QED
    BY <1>6, <1>7, <2>1, <2>2, <2>3, <2>4, <2>5, <2>6 DEF Reads
<1>8. CASE m = n
  <2>1. m <= n /\ m >= n /\ ~(m < n)
    BY <1>8, SMT
  <2>2. PICK q \in Requests : q = current
    BY DEF LogInv, RecordInv
  <2>3. f = Begin
    BY <1>2, <1>3, <1>4, <1>8, <2>1 DEF Begin
  <2>4. Left(q, f, WrittenTo)
    BY <1>3, <2>2, <2>3, InterruptedNow, LeavesRecord
  <2>5. 0 \notin KnownOps
    BY KnownOpsRange
  <2>6. q.op \in KnownOps
    BY RequestsAssumption
  <2>7. ~(q.op > 100)
    BY <2>6, KnownOpsRange
  <2> QED
    BY <1>5, <1>6, <2>1, <2>4, <2>5, <2>6, <2>7 DEF Left
<1>9. CASE m > n
  <2>1. ~(m <= n) /\ m >= n
    BY <1>9, SMT
  <2>2. f >= WrittenTo
    BY <1>3, <1>4, <2>1
  <2>3. PICK w \in Nat : w = WrittenTo
    BY InterruptedNow DEF Interrupted
  <2>4. \A k \in Nat : k >= f => k >= w
    <3>1. ASSUME NEW y \in Nat, y >= w PROVE \A k \in Nat : k >= y => k >= w
      BY <3>1, SMT
    <3> QED
      BY <1>3, <2>2, <2>3, <3>1
  <2>5. \A k \in Nat : k >= f => Cell(k) = Zero
    BY <2>3, <2>4 DEF ContentInv
  <2>6. IntAt(f) = 0
    BY <1>3, <2>5, IntZero
  <2>7. 0 \notin KnownOps
    BY KnownOpsRange
  <2> QED
    BY <1>5, <2>1, <2>6, <2>7
<1>10. m < n \/ m = n \/ m > n
  BY SMT
<1> QED
  BY <1>7, <1>8, <1>9, <1>10

\* The replayer answers the next request.
LEMMA StepReplay ==
    ASSUME LogInv, ContentInv, ReadersInv, ReplayAligned, fresh, replay_request
    PROVE  ReadersInv' /\ ReplayAligned'
<1>1. /\ completed' = completed /\ Starts' = Starts /\ WrittenTo' = WrittenTo /\ fresh' = fresh
      /\ f' = f /\ recnum' = recnum /\ ktests' = ktests /\ reading' = reading
      /\ completed \in Seq(Requests) /\ Len(replayed) < Len(completed)
  BY DEF LogInv, replay_request, vars, writerVars, readerVars, Starts, WrittenTo
<1>2. PICK n \in Nat : n = Len(completed)
  BY <1>1, StartsFacts
<1>3. /\ replayed \in Seq(Range(replayed)) /\ replay_file = Starts[Len(replayed) + 1]
      /\ \A k \in 1..Len(replayed) : replayed[k] = Answer(completed[k])
  BY DEF ReadersInv, ReplayAligned
<1>4. PICK m \in Nat : m = Len(replayed)
  BY <1>3, Appended
<1>5. /\ m + 1 \in 1..n /\ m + 1 <= n /\ m + 1 \in 1..n + 1
      /\ \A k \in 1..m + 1 : k \in 1..m \/ k = m + 1
  BY <1>1, <1>2, <1>4, SMT
<1>6. PICK q \in Requests : q = completed[m + 1]
  BY <1>1, <1>2, <1>5, StartsFacts
<1>7. PICK p \in Nat : p = Starts[m + 1] /\ p = replay_file
  BY <1>1, <1>2, <1>3, <1>4, <1>5, StartsFacts
<1>8. Reads(q, p) /\ Starts[(m + 1) + 1] = p + WrittenLength(q)
  <2>1. m + 1 \in 1..Len(completed)
    BY <1>2, <1>5
  <2> QED
    BY <1>6, <1>7, <2>1, RecordInFile
<1>9. replay_file' = Starts[(m + 1) + 1] /\ replayed' = Append(replayed, Answer(q))
  BY <1>4, <1>6, <1>7, <1>8 DEF replay_request, Reads
<1>10. PICK x : x = Answer(q)
  OBVIOUS
<1>11. /\ replayed' \in Seq(Range(replayed')) /\ Len(replayed') = m + 1 /\ replayed'[m + 1] = x
       /\ \A i \in 1..m : replayed'[i] = replayed[i]
  <2>1. /\ Append(replayed, x) \in Seq(Range(Append(replayed, x)))
        /\ Len(Append(replayed, x)) = Len(replayed) + 1 /\ Append(replayed, x)[Len(replayed) + 1] = x
        /\ \A i \in 1..Len(replayed) : Append(replayed, x)[i] = replayed[i]
    BY <1>3, Appended
  <2> QED
    BY <1>4, <1>9, <1>10, <2>1
<1>12. \A k \in 1..m + 1 : replayed'[k] = Answer(completed[k])
  BY <1>3, <1>4, <1>5, <1>6, <1>10, <1>11
<1> QED
  BY <1>1, <1>2, <1>5, <1>9, <1>11, <1>12 DEF ReadersInv, ReplayAligned, Ktest, Operands, Answer

\* The invariant holds when a recording begins.
LEMMA InitLogInv == LogInit => LogInv
<1> SUFFICES ASSUME LogInit PROVE LogInv
  OBVIOUS
<1>1. IInv
  BY InitIInv DEF LogInit
<1>2. current \in Requests
  <2>1. (CHOOSE q \in Requests : TRUE) \in Requests
    BY RequestsAssumption
  <2> QED
    BY <2>1 DEF LogInit
<1>3. EmptyFile
  BY <1>1, <1>2 DEF LogInit, Init, EmptyFile, IInv, TypeOK
<1>4. RecordInv /\ (fresh => ContentInv) /\ completed \in Seq(Requests)
  BY <1>3, EmptyLog
<1>5. NotRead
  BY DEF LogInit, NotRead
<1> QED
  BY <1>1, <1>4, <1>5, NothingRead DEF LogInv

\* Every step of the recorder and of the programs that read its log preserves it.
LEMMA StepLogInv == LogInv /\ [LogNext]_allVars => LogInv'
<1> SUFFICES ASSUME LogInv, [LogNext]_allVars PROVE LogInv'
  OBVIOUS
<1>1. IInv /\ current \in Requests /\ stage \in {"idle", "record", "items"}
  BY DEF LogInv, RecordInv
<1>2. IInv'
  BY <1>1, LogSteps, StepIInv
<1>3. ASSUME RecordInv', fresh' => ContentInv', completed' \in Seq(Requests), running,
             f' = f, recnum' = recnum, ktests' = ktests, reading' = reading,
             replay_file' = replay_file, replayed' = replayed
      PROVE  LogInv'
  <2>1. NotRead'
    BY <1>3 DEF LogInv, NotRead
  <2>2. (completed \in Seq(Requests) /\ NotRead => ReadersInv /\ ReplayAligned)'
    BY NothingRead, PTL
  <2> QED
    BY <1>2, <1>3, <2>1, <2>2 DEF LogInv
<1>4. CASE NewFile
  BY <1>3, <1>4, StepNewFile DEF NewFile, readerVars, replayVars
<1>5. CASE \E q \in Requests : record(q)
  BY <1>3, <1>5, StepRecord DEF record, readerVars, replayVars
<1>6. CASE rrprintf
  <2>1. stage # "idle"
    BY <1>6 DEF LogInv, RecordInv, rrprintf
  <2>2. RecordInv' /\ (fresh' => ContentInv')
    BY <1>1, <1>6, <2>1, StepField, StepItem
  <2> QED
    BY <1>3, <1>6, <2>2 DEF rrprintf, LogInv, readerVars, replayVars
<1>7. CASE RecordItems
  BY <1>3, <1>7, StepItems DEF RecordItems, LogInv, readerVars, replayVars
<1>8. CASE RecordReturns
  BY <1>3, <1>8, StepReturns DEF RecordReturns, readerVars, replayVars
<1>9. CASE Stop
  <2>1. RecordInv' /\ (fresh' => ContentInv') /\ completed' \in Seq(Requests)
    BY <1>9, StepReading DEF Stop
  <2> QED
    BY <1>3, <1>9, <2>1 DEF Stop, readerVars, replayVars
<1>10. CASE thread_entry
  <2>1. /\ RecordInv' /\ (fresh' => ContentInv') /\ completed' \in Seq(Requests)
        /\ completed' = completed /\ fresh' = fresh /\ running' = running /\ ~running
    BY <1>10, StepReading DEF thread_entry, writerVars
  <2>2. ASSUME fresh PROVE ReadersInv' /\ ReplayAligned'
    <3>1. ReadersInv'
      BY <1>10, <2>2, StepDesensitize DEF LogInv
    <3>2. ReplayAligned'
      BY <1>10, <2>1, <2>2 DEF LogInv, ReplayAligned, thread_entry, replayVars, Answer
    <3> QED
      BY <3>1, <3>2
  <2> QED
    BY <1>2, <2>1, <2>2 DEF LogInv
<1>11. CASE replay_request
  <2>1. /\ RecordInv' /\ (fresh' => ContentInv') /\ completed' \in Seq(Requests)
        /\ completed' = completed /\ fresh' = fresh /\ running' = running /\ ~running
    BY <1>11, StepReading DEF replay_request, writerVars
  <2>2. ASSUME fresh PROVE ReadersInv' /\ ReplayAligned'
    BY <1>11, <2>2, StepReplay DEF LogInv
  <2> QED
    BY <1>2, <2>1, <2>2 DEF LogInv
<1>12. CASE UNCHANGED allVars
  <2>1. /\ RecordInv' /\ (fresh' => ContentInv') /\ completed' \in Seq(Requests)
        /\ Starts' = Starts /\ WrittenTo' = WrittenTo
    BY <1>12, StepReading DEF allVars, writerVars
  <2>2. /\ completed' = completed /\ fresh' = fresh /\ running' = running
        /\ f' = f /\ recnum' = recnum /\ ktests' = ktests /\ reading' = reading
        /\ replay_file' = replay_file /\ replayed' = replayed
    BY <1>12 DEF allVars, writerVars, readerVars, replayVars
  <2>3. ASSUME fresh PROVE ReadersInv' /\ ReplayAligned'
    BY <2>1, <2>2, <2>3 DEF LogInv, ReadersInv, ReplayAligned, Ktest, Operands, Answer
  <2>4. running' => NotRead'
    BY <2>2 DEF LogInv, NotRead
  <2> QED
    BY <1>2, <2>1, <2>2, <2>3, <2>4 DEF LogInv
<1> QED
  BY <1>4, <1>5, <1>6, <1>7, <1>8, <1>9, <1>10, <1>11, <1>12 DEF LogNext

\* For every size of the fields, every request the recorder knows and every length of
\* the file: what is in the file is what was recorded, and the readers are where the
\* records are.
THEOREM LogHolds == LogSpec => []LogInv
BY InitLogInv, StepLogInv, PTL DEF LogSpec

\* Wherever the backend is killed, the desensitizer finds every complete record, in
\* order and with its operands, and at most one record more.
THEOREM RecordsRecovered == LogSpec => []LogRecovered
<1>1. LogInv => LogRecovered
  <2> SUFFICES ASSUME LogInv, fresh, ~reading
               PROVE  /\ Len(ktests) \in Len(completed)..Len(completed) + 1
                      /\ \A k \in 1..Len(completed) :
                           ktests[k] = Ktest(k - 1, completed[k].op, Operands(completed[k]))
    BY DEF LogRecovered
  <2>1. completed \in Seq(Requests) /\ ReadersInv
    BY DEF LogInv
  <2>2. PICK n \in Nat : n = Len(completed)
    BY <2>1, StartsFacts
  <2>3. PICK m \in Nat : m = Len(ktests)
    BY <2>1, Appended DEF ReadersInv
  <2>4. m <= n + 1 /\ m >= n
    BY <2>1, <2>2, <2>3 DEF ReadersInv
  <2>5. m \in n..n + 1 /\ \A k \in 1..n : k \in 1..m /\ k <= n
    BY <2>4, SMT
  <2> QED
    BY <2>1, <2>2, <2>3, <2>5 DEF ReadersInv
<1> QED
  BY <1>1, LogHolds, PTL

\* Every request that is repeated is answered from its own record.
THEOREM AnswersAligned == LogSpec => []ReplayAligned
<1>1. LogInv => ReplayAligned
  BY DEF LogInv, ReplayAligned
<1> QED
  BY <1>1, LogHolds, PTL
=============================================================================
