----------------------------- MODULE RecordFile -----------------------------
(***************************************************************************)
(* The file a Recorder writes: it is mapped into memory, grows by          *)
(* DATA_LENGTH bytes when the next record does not fit, and starts again   *)
(* at the front when the query changes.  A record is written through one   *)
(* or two calls of get_write_buffer (two for the bulk operations: a header *)
(* and the items), each of which hands out the bytes the caller fills in.  *)
(***************************************************************************)
EXTENDS Integers

CONSTANTS
    DATA_LENGTH,  \* bytes the file grows by
    OldSizes,     \* lengths a file found on disk may have
    Lengths,      \* lengths of the buffers that are asked for
    MaxLength     \* bound: where the run stops extending the file

ASSUME LengthsAssumption ==
    /\ DATA_LENGTH \in Nat \ {0}
    /\ Lengths \subseteq 1..DATA_LENGTH
    /\ OldSizes \subseteq Nat /\ MaxLength \in Nat

VARIABLES
    file_length,  \* the Recorder's idea of the length of its file
    file_cursor,  \* where the next buffer begins
    mapped,       \* length of the mapping write_addr points to
    size,         \* length of the file on disk
    range         \* bytes of the last buffer handed out: [start, end]

vars == <<file_length, file_cursor, mapped, size, range>>

NoRange == [start |-> 0, end |-> 0]

\* The constructor calls update_write_fd, which may find a file of an earlier
\* recording.
Init ==
    /\ file_length = 0 /\ file_cursor = 0 /\ mapped = 0 /\ range = NoRange
    /\ size \in OldSizes

\* The file of the query may be there already, from an earlier recording, and
\* keeps its length.
update_write_fd ==
    /\ file_length' = 0 /\ file_cursor' = 0 /\ mapped' = 0 /\ range' = NoRange
    /\ size' \in OldSizes

\* Plausible bug: the test leaves out the length of the new buffer.
NeedsExtension_CursorOnly(length) == file_cursor >= file_length
NeedsExtension(length) == file_cursor + length > file_length

\* ftruncate sets the length, so it also cuts a longer file of an earlier
\* recording; the old mapping is left behind.
Extended(length) ==
    /\ NeedsExtension(length)
    /\ file_length + DATA_LENGTH <= MaxLength
    /\ file_length' = file_length + DATA_LENGTH
    /\ size' = file_length + DATA_LENGTH
    /\ mapped' = file_length + DATA_LENGTH

Fits(length) == ~NeedsExtension(length) /\ UNCHANGED <<file_length, size, mapped>>

get_write_buffer(length) ==
    /\ Extended(length) \/ Fits(length)
    /\ range' = [start |-> file_cursor, end |-> file_cursor + length]
    /\ file_cursor' = file_cursor + length

Next == update_write_fd \/ \E length \in Lengths : get_write_buffer(length)

Spec == Init /\ [][Next]_vars

-----------------------------------------------------------------------------
(* Properties.                                                             *)

\* The Recorder's counters are lengths.
TypeOK ==
    /\ file_length \in Nat /\ file_cursor \in Nat /\ mapped \in Nat /\ size \in Nat
    /\ range \in [start : Nat, end : Nat]

\* The bytes get_write_buffer hands out lie in the mapping, and the mapping in
\* the file: filling in a record never touches a page without a file behind it.
BufferInFile == range.end <= mapped /\ mapped <= size

-----------------------------------------------------------------------------
(* The invariant is inductive with the relation between the counters: the  *)
(* mapping covers file_length once there is one, and the cursor never      *)
(* passes it.                                                              *)
IInv ==
    /\ TypeOK
    /\ file_cursor <= file_length
    /\ file_length = mapped
    /\ mapped <= size
    /\ range.end <= file_cursor
=============================================================================
