---------------------------- MODULE RecordReplay ----------------------------
(***************************************************************************)
(* Recording and replaying the calls of the operators: TEEInvoker's two    *)
(* modes, the Recorder that appends every call to a file of its process,   *)
(* and the Replayer that answers calls from such a file.                   *)
(*                                                                         *)
(* A request is a record [op, size, args]: its operation, the sizes it     *)
(* carries (of strings, or the number of items) and its arguments.  A      *)
(* result stands for the data and the response code together.  A file is   *)
(* the sequence of the records in it; "stale" says that bytes of an older, *)
(* longer recording follow them, since a file is opened without O_TRUNC.   *)
(***************************************************************************)
EXTENDS Naturals, Sequences, FiniteSets, Functions

CONSTANTS
    Sessions,   \* PostgreSQL backends, named by their process ids
    Queries,    \* names given to enable_record_mode and enable_replay_mode
    Requests,   \* the calls the queries make: records [op, size, args]
    Results,    \* what ops_server may answer
    Zeroed,     \* the result in a record whose last fields were never written
    Torn,       \* arguments that were never written
    MaxCalls,   \* bound: calls of a session between two mode switches
    MaxSwitches \* bound: mode switches in all

ASSUME RequestsAssumption ==
    \A q \in Requests : q = [op |-> q.op, size |-> q.size, args |-> q.args]
ASSUME SessionsAssumption == IsFiniteSet(Sessions)

\* "fixed" stands for the comparisons and calculations on numbers and dates,
\* "strcmp" for CMD_STRING_CMP and CMD_STRING_LIKE, "strcalc" for
\* CMD_STRING_SUBSTRING and CMD_STRING_CONCAT, "bulk" for the SUM_BULK calls,
\* "eval" for CMD_FLOAT_EVAL_EXPR, "enc" for encryption and decryption.
Ops == {"fixed", "strcmp", "strcalc", "bulk", "eval", "enc"}

VARIABLES
    recordMode, replayMode, updateRecordFile, updateReplayFile,
    prefix,        \* record_name_prefix as enable_record_mode sets it
    record_names,  \* the files enable_replay_mode found
    buffer,        \* req_buffer of the TEEInvoker: "none", "shared", "private"
    recorder,      \* [file, cursor] of the Recorder, cursor counts records
    replayer,      \* [file, copy, pos, lost] of the Replayer
    files,         \* [exists, recs, stale] for every prefix and process
    up,            \* "up", "waiting", "killed", "exited", "invalid free"
    calls,         \* history: the calls since the last mode switch, if any
    switches       \* number of mode switches so far

modeVars == <<recordMode, replayMode, updateRecordFile, updateReplayFile,
              prefix, record_names>>
vars == <<modeVars, buffer, recorder, replayer, files, up, calls, switches>>

Files == Queries \X Sessions
NoFile == <<>>
NoPrefix == "none"
Empty == [exists |-> FALSE, recs |-> <<>>, stale |-> FALSE]
Closed == [file |-> NoFile, copy |-> Empty, pos |-> 0, lost |-> FALSE]

Init ==
    /\ recordMode = [s \in Sessions |-> FALSE]
    /\ replayMode = [s \in Sessions |-> FALSE]
    /\ updateRecordFile = [s \in Sessions |-> FALSE]
    /\ updateReplayFile = [s \in Sessions |-> FALSE]
    /\ prefix = [s \in Sessions |-> NoPrefix]
    /\ record_names = [s \in Sessions |-> <<>>]
    /\ buffer = [s \in Sessions |-> "none"]
    /\ recorder = [s \in Sessions |-> [file |-> NoFile, cursor |-> 0]]
    /\ replayer = [s \in Sessions |-> Closed]
    /\ files = [f \in Files |-> Empty]
    /\ up = [s \in Sessions |-> "up"]
    /\ calls = [s \in Sessions |-> <<>>]
    /\ switches = 0

-----------------------------------------------------------------------------
(* Switching modes.                                                        *)

Switched(s) ==
    /\ switches < MaxSwitches
    /\ switches' = switches + 1
    /\ calls' = [calls EXCEPT ![s] = <<>>]

enable_record_mode(s, x) ==
    /\ up[s] = "up"
    /\ recordMode' = [recordMode EXCEPT ![s] = TRUE]
    /\ updateRecordFile' = [updateRecordFile EXCEPT ![s] = TRUE]
    /\ prefix' = [prefix EXCEPT ![s] = x]
    /\ Switched(s)
    /\ UNCHANGED <<replayMode, updateReplayFile, record_names, buffer, recorder,
                   replayer, files, up>>

\* readdir lists the files of the prefix in any order; nothing resets
\* replayMode or removes a file.
enable_replay_mode(s, x) ==
    /\ up[s] = "up"
    /\ recordMode' = [recordMode EXCEPT ![s] = FALSE]
    /\ replayMode' = [replayMode EXCEPT ![s] = TRUE]
    /\ updateReplayFile' = [updateReplayFile EXCEPT ![s] = TRUE]
    /\ prefix' = [prefix EXCEPT ![s] = x]
    /\ LET found == {f \in Files : f[1] = x /\ files[f].exists}
       IN  \E names \in Bijection(1..Cardinality(found), found) :
             record_names' = [record_names EXCEPT ![s] = names]
    /\ Switched(s)
    /\ UNCHANGED <<updateRecordFile, buffer, recorder, replayer, files, up>>

-----------------------------------------------------------------------------
(* sendRequest.                                                            *)

\* The first call creates the TEEInvoker: a region of the shared memory, or
\* memory of the process in replay mode.
BufferOf(s) ==
    IF buffer[s] # "none" THEN buffer[s]
    ELSE IF replayMode[s] THEN "private" ELSE "shared"

NOT_REPLAY(q) == q.op = "enc"
Logged(q) == q.op \notin {"eval", "enc"}

\* Is the file as it was when the replayer opened it?
Intact(r) == r.file # NoFile /\ r.copy = files[r.file]

Called(s, q, how, res) ==
    calls' = [calls EXCEPT ![s] =
                 IF ~recordMode[s] /\ ~replayMode[s] THEN @
                 ELSE Append(@, [req |-> q, how |-> how, res |-> res,
                                 file |-> replayer'[s].file, intact |-> Intact(replayer'[s])])]

\* Plausible bugs: update_replay_files keeps the open file; it is called every
\* time.
Replayer_NoReset(s) == replayer[s]
Replayer_AlwaysCloses(s) == Closed

\* What replayer.update_replay_files leaves when updateReplayFile is set; a call
\* that finds the flag clear keeps the replayer as it is.
Replayer(s) == IF updateReplayFile[s] THEN Closed ELSE replayer[s]

\* Plausible bug: updateRecordFile is never cleared.
Recorder_AlwaysReopens(s) == [file |-> <<prefix[s], s>>, cursor |-> 0]

\* The Recorder's file and cursor when a call is recorded: update_write_fd, by
\* the constructor or because of updateRecordFile, starts again at the front.
Recorder(s) ==
    IF recorder[s].file = NoFile \/ updateRecordFile[s]
    THEN [file |-> <<prefix[s], s>>, cursor |-> 0]
    ELSE recorder[s]

\* The file after entry e has been written over whatever follows the cursor.
Written(file, cursor, e) ==
    [exists |-> TRUE,
     recs |-> Append(SubSeq(file.recs, 1, cursor), e),
     stale |-> file.stale \/ Len(file.recs) > cursor]

\* Recorder::record after the answer res to request q.
record(s, q, e) ==
    IF recordMode[s]
    THEN LET r == Recorder(s)
             old == [files[r.file] EXCEPT !.exists = TRUE]
         IN  /\ updateRecordFile' = [updateRecordFile EXCEPT ![s] = FALSE]
             /\ IF Logged(q)
                THEN /\ files' = [files EXCEPT ![r.file] = Written(old, r.cursor, e)]
                     /\ recorder' = [recorder EXCEPT ![s] = [r EXCEPT !.cursor = @ + 1]]
                ELSE /\ files' = [files EXCEPT ![r.file] = old]
                     /\ recorder' = [recorder EXCEPT ![s] = r]
    ELSE UNCHANGED <<updateRecordFile, files, recorder>>

Calling(s) == up[s] = "up" /\ Len(calls[s]) < MaxCalls
Entry(q, res) == [op |-> q.op, size |-> q.size, args |-> q.args, res |-> res]
Passed(s, q) == ~replayMode[s] \/ NOT_REPLAY(q)

\* The call goes to ops_server, which answers, and is recorded.
Served(s, q) ==
    /\ Calling(s) /\ Passed(s, q) /\ BufferOf(s) = "shared"
    /\ buffer' = [buffer EXCEPT ![s] = "shared"]
    /\ updateReplayFile' = [updateReplayFile EXCEPT ![s] = @ /\ ~replayMode[s]]
    /\ replayer' = [replayer EXCEPT ![s] = IF replayMode[s] THEN Replayer(s) ELSE @]
    /\ \E res \in Results :
         record(s, q, Entry(q, res)) /\ Called(s, q, "served", res)
    /\ UNCHANGED <<recordMode, replayMode, prefix, record_names, up, switches>>

\* The backend is killed while rrprintf fills in the record: the operation and
\* the sizes are there, the arguments may be, the result is not.
Killed(s, q) ==
    /\ Calling(s) /\ ~replayMode[s] /\ recordMode[s] /\ Logged(q)
    /\ \E a \in {q.args, Torn} :
         record(s, q, [op |-> q.op, size |-> q.size, args |-> a, res |-> Zeroed])
    /\ up' = [up EXCEPT ![s] = "killed"]
    /\ UNCHANGED <<recordMode, replayMode, updateReplayFile, prefix, record_names,
                   buffer, replayer, calls, switches>>

\* In replay mode a call that is not replayed waits in memory that no one else
\* reads for a status that no one sets.
Waiting(s, q) ==
    /\ Calling(s) /\ Passed(s, q) /\ BufferOf(s) = "private"
    /\ buffer' = [buffer EXCEPT ![s] = "private"]
    /\ updateReplayFile' = [updateReplayFile EXCEPT ![s] = FALSE]
    /\ replayer' = [replayer EXCEPT ![s] = Replayer(s)]
    /\ up' = [up EXCEPT ![s] = "waiting"]
    /\ UNCHANGED <<recordMode, replayMode, updateRecordFile, prefix, record_names,
                   recorder, files, calls, switches>>

-----------------------------------------------------------------------------
(* Replaying.                                                              *)

NoResult == "no result"
Outcome(how, res, r) == [how |-> how, res |-> res, state |-> r]

\* Bytes that belong to no record, or that were never read at all: any of the
\* comparisons may succeed or fail.
AnyOutcome(r) ==
    LET lost == [r EXCEPT !.lost = TRUE]
    IN  {Outcome("ok", res, lost) : res \in Results \cup {Zeroed}}
          \cup {Outcome(how, NoResult, lost) : how \in {"mismatch", "abort"}}

\* Lengths of strings and numbers of items are read and compared first.
SizesDiffer(e, q) == e.size # q.size

\* Then the arguments, except those of the string comparisons.
ArgsDiffer(e, q) == q.op # "strcmp" /\ e.args # q.args

\* replay_request for q with the replayer in state r.  A record of another
\* operation ends the statement through print_error; other sizes are noticed
\* before the rest of the record has been read, other arguments after it.  The
\* file is a multiple of DATA_LENGTH long: zeros follow the last record.
replay_request(r, q) ==
    LET e == r.copy.recs[r.pos + 1]
        next == [r EXCEPT !.pos = @ + 1]
        astray == [r EXCEPT !.lost = TRUE]
    IN  IF r.lost \/ r.copy # files[r.file] THEN AnyOutcome(r)
        ELSE IF r.pos < Len(r.copy.recs)
        THEN IF e.op # q.op THEN {Outcome("abort", NoResult, astray)}
             ELSE IF SizesDiffer(e, q) THEN {Outcome("mismatch", NoResult, astray)}
             ELSE IF ArgsDiffer(e, q) THEN {Outcome("mismatch", NoResult, next)}
             ELSE {Outcome("ok", e.res, next)}
        ELSE IF r.copy.stale \/ r.copy.recs = <<>> THEN AnyOutcome(r)
        ELSE {Outcome("abort", NoResult, r)}

Opened(f) == [file |-> f, copy |-> files[f], pos |-> 0, lost |-> FALSE]

\* Plausible bug: the search stops at the first file.
Search_FirstOnly(names, q) ==
    IF names = <<>> THEN {Outcome("none", NoResult, Closed)}
    ELSE replay_request(Opened(Head(names)), q)

\* The search of replay(): the files are opened in order, one whose first
\* record is a mismatch is closed again, and print_error leaves the loop with
\* the file open.
Search(names, q) ==
    LET Tried(k) == replay_request(Opened(names[k]), q)
        CanPass(k) == \E o \in Tried(k) : o.how = "mismatch"
        Reached(k) == \A j \in 1..k - 1 : CanPass(j)
    IN  (UNION {{o \in Tried(k) : o.how # "mismatch"} : k \in {j \in 1..Len(names) : Reached(j)}})
          \cup (IF \A k \in 1..Len(names) : CanPass(k)
                THEN {Outcome("none", NoResult, Closed)} ELSE {})

replay(s, q) ==
    LET r == Replayer(s)
    IN  IF r.file = NoFile THEN Search(record_names[s], q) ELSE replay_request(r, q)

Replayed(s, q) ==
    /\ Calling(s) /\ ~Passed(s, q)
    /\ buffer' = [buffer EXCEPT ![s] = BufferOf(s)]
    /\ updateReplayFile' = [updateReplayFile EXCEPT ![s] = FALSE]
    /\ \E o \in replay(s, q) :
         /\ replayer' = [replayer EXCEPT ![s] = o.state]
         /\ Called(s, q, o.how, o.res)
    /\ UNCHANGED <<recordMode, replayMode, updateRecordFile, prefix, record_names,
                   recorder, files, up, switches>>

\* The destructor of the TEEInvoker gives the buffer back the way the mode of
\* the moment says.
Exit(s) ==
    /\ up[s] = "up"
    /\ up' = [up EXCEPT ![s] =
                 IF buffer[s] = "shared" /\ replayMode[s] THEN "invalid free" ELSE "exited"]
    /\ UNCHANGED <<modeVars, buffer, recorder, replayer, files, calls, switches>>

Next ==
    \E s \in Sessions :
        \/ \E x \in Queries : enable_record_mode(s, x)
        \/ \E x \in Queries : enable_replay_mode(s, x)
        \/ \E q \in Requests : Served(s, q)
        \/ \E q \in Requests : Killed(s, q)
        \/ \E q \in Requests : Waiting(s, q)
        \/ \E q \in Requests : Replayed(s, q)
        \/ Exit(s)

Spec == Init /\ [][Next]_vars

-----------------------------------------------------------------------------
(* Properties.                                                             *)

Request(e) == [op |-> e.op, size |-> e.size, args |-> e.args]

\* The elements of c at positions K, in order.
Picked(c, K) ==
    LET sel[n \in 0..Len(c)] ==
            IF n = 0 THEN <<>>
            ELSE IF n \in K THEN Append(sel[n - 1], c[n]) ELSE sel[n - 1]
    IN  sel[Len(c)]

LoggedCalls(s) == Picked(calls[s], {k \in DOMAIN calls[s] : Logged(calls[s][k].req)})
ReplayedCalls(s) == Picked(calls[s], {k \in DOMAIN calls[s] : ~NOT_REPLAY(calls[s][k].req)})
\* Those of them for which there was a recording.
FoundCalls(s) ==
    Picked(calls[s], {k \in DOMAIN calls[s] :
                        ~NOT_REPLAY(calls[s][k].req) /\ calls[s][k].how # "none"})

Recording(s) == recordMode[s] /\ ~replayMode[s] /\ ~updateRecordFile[s] /\ up[s] = "up"
Replaying(s) == replayMode[s] /\ ~recordMode[s] /\ ~updateReplayFile[s]

Entries ==
    [op : {q.op : q \in Requests}, size : {q.size : q \in Requests},
     args : {q.args : q \in Requests} \cup {Torn}, res : Results \cup {Zeroed}]
FileStates == [exists : BOOLEAN, recs : Seq(Entries), stale : BOOLEAN]
Calls ==
    [req : Requests, how : {"served", "ok", "mismatch", "abort", "none"},
     res : Results \cup {Zeroed, NoResult}, file : Files \cup {NoFile}, intact : BOOLEAN]

\* The state of the recorders, replayers and files is well formed.
TypeOK ==
    /\ recordMode \in [Sessions -> BOOLEAN] /\ replayMode \in [Sessions -> BOOLEAN]
    /\ updateRecordFile \in [Sessions -> BOOLEAN] /\ updateReplayFile \in [Sessions -> BOOLEAN]
    /\ prefix \in [Sessions -> Queries \cup {NoPrefix}]
    /\ record_names \in [Sessions -> Seq(Files)]
    /\ buffer \in [Sessions -> {"none", "shared", "private"}]
    /\ up \in [Sessions -> {"up", "waiting", "killed", "exited", "invalid free"}]
    /\ recorder \in [Sessions -> [file : Files \cup {NoFile}, cursor : Nat]]
    /\ replayer \in [Sessions -> [file : Files \cup {NoFile}, copy : FileStates,
                                  pos : Nat, lost : BOOLEAN]]
    /\ files \in [Files -> FileStates]
    /\ calls \in [Sessions -> Seq(Calls)]

\* The log is complete: the file of a session that records holds its calls since
\* enable_record_mode, parameters and results, in order (Recorder::record).
\* Encryption, decryption and CMD_FLOAT_EVAL_EXPR are not recorded.
LogComplete ==
    \A s \in Sessions : Recording(s) =>
        LET f == <<prefix[s], s>>
            mine == LoggedCalls(s)
        IN  /\ recorder[s].file = f /\ recorder[s].cursor = Len(mine)
            /\ SubSeq(files[f].recs, 1, Len(mine)) =
                 [k \in 1..Len(mine) |-> Entry(mine[k].req, mine[k].res)]

\* Every operator call of a recording session is in its log ("It logs all ops
\* invocations, including parameters and results"), encryption and decryption,
\* which are constants and output, apart.
LogsAllOps ==
    \A s \in Sessions : Recording(s) =>
        LET mine == ReplayedCalls(s)
        IN  files[<<prefix[s], s>>].recs =
              [k \in 1..Len(mine) |-> Entry(mine[k].req, mine[k].res)]

\* Does session s repeat the calls of its recording, which nobody has written to since?
Repeats(s) ==
    LET h == FoundCalls(s)
        recs == replayer[s].copy.recs
    IN  Len(h) <= Len(recs) /\ \A k \in 1..Len(h) : h[k].req = Request(recs[k]) /\ h[k].intact

\* A replay of the one recording of a prefix that makes the recorded calls gets
\* the recorded answers, one by one and to the end (Replayer::replay_request);
\* calls made before there was a recording to find are left out.
ReplayFaithful ==
    \A s \in Sessions :
        LET h == FoundCalls(s)
            f == replayer[s].file
            recs == replayer[s].copy.recs
        IN  (Replaying(s) /\ f # NoFile /\ record_names[s] = <<f>> /\ Repeats(s))
            => \A k \in 1..Len(h) : h[k].how = "ok" /\ h[k].res = recs[k].res

\* An answer is never taken from the recording of another query: a replay
\* answers from the files found by its last enable_replay_mode
\* (update_replay_files), from the same file throughout.
AnswersFromQuery ==
    \A s \in Sessions : Replaying(s) =>
        \A k \in 1..Len(calls[s]) :
            LET c == calls[s][k]
            IN  c.how = "ok" => /\ c.file \in Range(record_names[s])
                                /\ c.file = replayer[s].file

FirstMatches(f, q) ==
    files[f].recs # <<>> /\ Request(Head(files[f].recs)) = q

LastCall(s) == calls[s][Len(calls[s])]

\* The first call that session s replays after enable_replay_mode.
FirstReplay(s, q) ==
    /\ \A k \in DOMAIN calls[s] : NOT_REPLAY(calls[s][k].req)
    /\ ~recordMode[s] /\ Replayed(s, q)

\* Among the recordings of a query (one per parallel worker), the replay starts
\* with one whose first call is the call made, when all of them begin with a call
\* of that operation (the loop of Replayer::replay).
SearchFinds ==
    [][\A s \in Sessions, q \in Requests :
         LET names == Range(record_names[s])
             c == LastCall(s)'
         IN  (/\ FirstReplay(s, q) /\ q.op # "strcmp"
              /\ \A f \in names : files[f].recs # <<>> /\ Head(files[f].recs).op = q.op
              /\ \E f \in names : FirstMatches(f, q))
             => c.how = "ok" /\ FirstMatches(c.file, q)]_vars

\* The search finds a recording whose first record matches the first call
\* whenever there is one ("find one that match the first").
SearchFindsAny ==
    [][\A s \in Sessions, q \in Requests :
         (/\ FirstReplay(s, q)
          /\ \E f \in Range(record_names[s]) : FirstMatches(f, q))
         => LastCall(s)'.how = "ok"]_vars

-----------------------------------------------------------------------------
(* What makes them hold: the Recorder's cursor counts the calls that were  *)
(* logged, no other process writes its file, and the Replayer's position   *)
(* counts the calls that were answered from its file.                      *)

RecordInv(s) ==
    /\ recordMode[s] => prefix[s] \in Queries
    /\ recorder[s].file # NoFile =>
        /\ \E x \in Queries : recorder[s].file = <<x, s>>
        /\ recorder[s].cursor <= Len(files[recorder[s].file].recs)
    /\ recordMode[s] /\ ~replayMode[s] /\ updateRecordFile[s] => calls[s] = <<>>
    /\ Recording(s) =>
        LET f == <<prefix[s], s>>
            mine == LoggedCalls(s)
        IN  /\ recorder[s].file = f /\ recorder[s].cursor = Len(mine)
            /\ SubSeq(files[f].recs, 1, Len(mine)) =
                 [k \in 1..Len(mine) |-> Entry(mine[k].req, mine[k].res)]

ReplayInv(s) ==
    replayMode[s] /\ ~recordMode[s] =>
        IF updateReplayFile[s] THEN calls[s] = <<>>
        ELSE LET h == FoundCalls(s)
                 r == replayer[s]
             IN  /\ r.file = NoFile =>
                      \A k \in DOMAIN calls[s] :
                        NOT_REPLAY(calls[s][k].req) \/ calls[s][k].how = "none"
                 /\ r.file = NoFile => h = <<>>
                 /\ r.file # NoFile =>
                      /\ r.file \in Range(record_names[s])
                      /\ \E k \in DOMAIN calls[s] : ~NOT_REPLAY(calls[s][k].req)
                 /\ \A k \in DOMAIN calls[s] :
                      calls[s][k].how = "ok" => r.file # NoFile /\ calls[s][k].file = r.file
                 /\ r.file # NoFile /\ record_names[s] = <<r.file>> /\ Repeats(s) =>
                      /\ r.pos = Len(h) /\ ~r.lost
                      /\ \A k \in 1..Len(h) : h[k].how = "ok" /\ h[k].res = r.copy.recs[k].res

RRInv == TypeOK /\ \A s \in Sessions : RecordInv(s) /\ ReplayInv(s)
=============================================================================
