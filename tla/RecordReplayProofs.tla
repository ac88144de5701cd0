------------------------- MODULE RecordReplayProofs -------------------------
(***************************************************************************)
(* Proofs about RecordReplay, for any sessions, queries, requests and      *)
(* results and any number of calls and mode switches.                      *)
(***************************************************************************)
EXTENDS RecordReplay, Induction, FiniteSetTheorems, TLAPS

\* Zenon proves the steps that name no other prover.
USE Zenon

\* A file has a name.
LEMMA FilesHaveNames == \A f \in Files : f # NoFile
<1> SUFFICES ASSUME NEW f \in Files PROVE f # NoFile
  OBVIOUS
<1>1. PICK x \in Queries, s \in Sessions : f = <<x, s>>
  BY SMT DEF Files
<1> QED BY <1>1 DEF NoFile

-----------------------------------------------------------------------------
(* The calls that are picked from a session's calls.                       *)

SelStep(c, K, m, q) == IF m \in K THEN Append(q, c[m]) ELSE q

IsSel(c, K, n, g) ==
    g = [m \in 0..n |-> IF m = 0 THEN <<>> ELSE SelStep(c, K, m, g[m - 1])]

\* The selection of Picked is defined for every length.
LEMMA SelExists ==
    ASSUME NEW c, NEW K, NEW n \in Nat
    PROVE  \E g : IsSel(c, K, n, g)
<1> DEFINE S == {m \in Nat : \E g : IsSel(c, K, m, g)}
<1>1. 0 \in S
  <2>1. IsSel(c, K, 0, [m \in 0..0 |-> <<>>])
    BY SMT DEF IsSel
  <2> QED BY <2>1
<1>2. ASSUME NEW m \in Nat, m \in S
      PROVE  m + 1 \in S
  <2>1. PICK g : IsSel(c, K, m, g)
    BY <1>2
  <2> DEFINE h == [k \in 0..m + 1 |-> IF k = m + 1 THEN SelStep(c, K, k, g[m]) ELSE g[k]]
  <2>2. IsSel(c, K, m + 1, h)
    BY <2>1, SMT DEF IsSel
  <2> QED BY SMT, <2>2
<1> HIDE DEF S
<1>3. Nat \subseteq S
  BY <1>1, <1>2, NaturalInduction
<1> QED BY <1>3 DEF S

\* Its first value is empty, and every other one comes from the one before.
LEMMA SelSteps ==
    ASSUME NEW c, NEW K, NEW n \in Nat, NEW g, IsSel(c, K, n, g)
    PROVE  /\ g[0] = <<>>
           /\ \A k \in Nat : k + 1 <= n =>
                g[k + 1] = IF k + 1 \in K THEN Append(g[k], c[k + 1]) ELSE g[k]
<1>1. g[0] = <<>>
  BY SMT DEF IsSel
<1>2. ASSUME NEW k \in Nat, k + 1 <= n
      PROVE  g[k + 1] = IF k + 1 \in K THEN Append(g[k], c[k + 1]) ELSE g[k]
  <2>1. g[k + 1] = SelStep(c, K, k + 1, g[(k + 1) - 1])
    BY <1>2, SMT DEF IsSel
  <2>2. (k + 1) - 1 = k
    BY SMT
  <2> QED BY <2>1, <2>2 DEF SelStep
<1> QED BY <1>1, <1>2

Alike(c, K, d, L, p) == \A k \in 1..p : c[k] = d[k] /\ (k \in K <=> k \in L)

\* It depends on the elements and on the positions only.
LEMMA SelsAgree ==
    ASSUME NEW c, NEW K, NEW d, NEW L, NEW p \in Nat, Alike(c, K, d, L, p),
           NEW f, IsSel(c, K, p, f), NEW g, IsSel(d, L, p + 1, g)
    PROVE  f[p] = g[p]
<1> DEFINE S == {k \in Nat : k <= p => f[k] = g[k]}
<1>1. 0 \in S
  <2>1. f[0] = <<>>
    BY SelSteps, ZenonT(60)
  <2>2. g[0] = <<>>
    <3>1. p + 1 \in Nat
      BY SMT
    <3>2. ASSUME NEW n \in Nat, IsSel(d, L, n, g) PROVE g[0] = <<>>
      BY <3>2, SelSteps, ZenonT(60)
    <3> QED BY <3>1, <3>2
  <2> QED BY <2>1, <2>2
<1>2. ASSUME NEW k \in Nat, k \in S, k + 1 <= p
      PROVE  f[k + 1] = g[k + 1]
  <2>1. f[k] = g[k]
    BY SMT, <1>2
  <2>2. f[k + 1] = IF k + 1 \in K THEN Append(f[k], c[k + 1]) ELSE f[k]
    BY SMT, <1>2, SelSteps
  <2>3. g[k + 1] = IF k + 1 \in L THEN Append(g[k], d[k + 1]) ELSE g[k]
    BY SMT, <1>2, SelSteps
  <2>4. c[k + 1] = d[k + 1] /\ (k + 1 \in K <=> k + 1 \in L)
    BY SMT, <1>2 DEF Alike
  <2> QED BY <2>1, <2>2, <2>3, <2>4
<1>3. \A k \in Nat : k \in S => k + 1 \in S
  BY SMT, <1>2
<1> HIDE DEF S
<1>4. Nat \subseteq S
  BY <1>1, <1>3, NaturalInduction
<1> QED BY SMT, <1>4 DEF S

\* Picked is the selection at the length of the sequence.
LEMMA PickedSel ==
    ASSUME NEW c, NEW K, Len(c) \in Nat
    PROVE  \E g : IsSel(c, K, Len(c), g) /\ Picked(c, K) = g[Len(c)]
<1>1. PICK g : IsSel(c, K, Len(c), g)
  BY SelExists
<1> QED BY <1>1 DEF Picked, IsSel, SelStep

\* Nothing is picked from no calls.
LEMMA PickedEmpty ==
    ASSUME NEW K
    PROVE  Picked(<<>>, K) = <<>>
<1>1. PICK g : IsSel(<<>>, K, 0, g) /\ Picked(<<>>, K) = g[0]
  BY SMT, PickedSel
<1> QED BY SMT, <1>1 DEF IsSel

\* What one more call adds to the picked ones.
LEMMA PickedAppend ==
    ASSUME NEW T, NEW c \in Seq(T), NEW e \in T, NEW K, NEW L,
           \A k \in 1..Len(c) : k \in K <=> k \in L
    PROVE  /\ Len(c) + 1 \in L => Picked(Append(c, e), L) = Append(Picked(c, K), e)
           /\ Len(c) + 1 \notin L => Picked(Append(c, e), L) = Picked(c, K)
<1> DEFINE d == Append(c, e)
           n == Len(c)
<1>1. n \in Nat /\ Len(d) = n + 1 /\ d[n + 1] = e /\ \A k \in 1..n : d[k] = c[k]
  BY SMT
<1>n. \A k \in 1..n : k \in K <=> k \in L
  OBVIOUS
<1> HIDE DEF d, n
<1>2. PICK f : IsSel(c, K, n, f) /\ Picked(c, K) = f[n]
  BY <1>1, PickedSel DEF n
<1>3. PICK g : IsSel(d, L, n + 1, g) /\ Picked(d, L) = g[n + 1]
  <2>1. Len(d) \in Nat
    BY SMT, <1>1
  <2>2. PICK g : IsSel(d, L, Len(d), g) /\ Picked(d, L) = g[Len(d)]
    BY <2>1, PickedSel
  <2> QED BY <1>1, <2>2
<1>4. f[n] = g[n]
  <2>1. Alike(c, K, d, L, n)
    BY <1>1, <1>n DEF Alike
  <2> QED BY SMT, <1>1, <1>2, <1>3, <2>1, SelsAgree
<1>5. g[n + 1] = IF n + 1 \in L THEN Append(g[n], d[n + 1]) ELSE g[n]
  BY SMT, <1>1, <1>3, SelSteps
<1>6. /\ n + 1 \in L => Picked(d, L) = Append(Picked(c, K), e)
      /\ n + 1 \notin L => Picked(d, L) = Picked(c, K)
  BY <1>1, <1>2, <1>3, <1>4, <1>5
<1> QED BY <1>6 DEF d, n

\* What is picked is a sequence of the calls.
LEMMA PickedSeq ==
    ASSUME NEW T, NEW c \in Seq(T), NEW K
    PROVE  Picked(c, K) \in Seq(T)
<1>1. Len(c) \in Nat
  BY SMT
<1>2. PICK g : IsSel(c, K, Len(c), g) /\ Picked(c, K) = g[Len(c)]
  BY <1>1, PickedSel
<1> DEFINE S == {k \in Nat : k <= Len(c) => g[k] \in Seq(T)}
<1>3. 0 \in S
  BY SMT, <1>2 DEF IsSel
<1>4. ASSUME NEW k \in Nat, k \in S, k + 1 <= Len(c)
      PROVE  g[k + 1] \in Seq(T)
  <2>1. g[k + 1] = IF k + 1 \in K THEN Append(g[k], c[k + 1]) ELSE g[k]
    BY SMT, <1>1, <1>2, <1>4, SelSteps
  <2>2. g[k] \in Seq(T) /\ c[k + 1] \in T
    BY SMT, <1>1, <1>4
  <2> QED BY SMT, <2>1, <2>2
<1>5. \A k \in Nat : k \in S => k + 1 \in S
  BY SMT, <1>4
<1> HIDE DEF S
<1>6. Nat \subseteq S
  BY <1>3, <1>5, NaturalInduction
<1> QED BY SMT, <1>1, <1>2, <1>6 DEF S

LoggedAt(c) == {k \in DOMAIN c : Logged(c[k].req)}
LoggedOf(c) == Picked(c, LoggedAt(c))
Found(e) == ~NOT_REPLAY(e.req) /\ e.how # "none"
FoundAt(c) == {k \in DOMAIN c : Found(c[k])}
FoundOf(c) == Picked(c, FoundAt(c))

\* What a call adds to the calls that are logged.
LEMMA LoggedAppend ==
    ASSUME NEW c \in Seq(Calls), NEW e \in Calls
    PROVE  /\ LoggedOf(c) \in Seq(Calls)
           /\ Logged(e.req) => LoggedOf(Append(c, e)) = Append(LoggedOf(c), e)
           /\ ~Logged(e.req) => LoggedOf(Append(c, e)) = LoggedOf(c)
<1> DEFINE d == Append(c, e)
<1>1. Len(d) = Len(c) + 1 /\ d[Len(c) + 1] = e /\ \A k \in 1..Len(c) : d[k] = c[k]
  BY SMT
<1>2. DOMAIN d = 1..Len(c) + 1 /\ DOMAIN c = 1..Len(c) /\ Len(c) \in Nat
  BY SMT
<1>3. \A k \in 1..Len(c) : k \in LoggedAt(c) <=> k \in LoggedAt(d)
  <2> HIDE DEF d
  <2> QED BY SMT, <1>1, <1>2 DEF LoggedAt
<1>4. Len(c) + 1 \in LoggedAt(d) <=> Logged(e.req)
  <2> HIDE DEF d
  <2> QED BY SMT, <1>1, <1>2 DEF LoggedAt
<1>5. /\ Len(c) + 1 \in LoggedAt(d) => Picked(d, LoggedAt(d)) = Append(Picked(c, LoggedAt(c)), e)
      /\ Len(c) + 1 \notin LoggedAt(d) => Picked(d, LoggedAt(d)) = Picked(c, LoggedAt(c))
  BY SMT, <1>3, PickedAppend
<1>6. Picked(c, LoggedAt(c)) \in Seq(Calls)
  BY PickedSeq
<1> QED BY <1>4, <1>5, <1>6 DEF LoggedOf

\* What a call adds to the calls for which there was a recording.
LEMMA FoundAppend ==
    ASSUME NEW c \in Seq(Calls), NEW e \in Calls
    PROVE  /\ FoundOf(c) \in Seq(Calls)
           /\ Found(e) => FoundOf(Append(c, e)) = Append(FoundOf(c), e)
           /\ ~Found(e) => FoundOf(Append(c, e)) = FoundOf(c)
<1> DEFINE d == Append(c, e)
<1>1. Len(d) = Len(c) + 1 /\ d[Len(c) + 1] = e /\ \A k \in 1..Len(c) : d[k] = c[k]
  BY SMT
<1>2. DOMAIN d = 1..Len(c) + 1 /\ DOMAIN c = 1..Len(c) /\ Len(c) \in Nat
  BY SMT
<1>3. \A k \in 1..Len(c) : k \in FoundAt(c) <=> k \in FoundAt(d)
  <2> HIDE DEF d
  <2> QED BY SMT, <1>1, <1>2 DEF FoundAt
<1>4. Len(c) + 1 \in FoundAt(d) <=> Found(e)
  <2> HIDE DEF d
  <2> QED BY SMT, <1>1, <1>2 DEF FoundAt
<1>5. /\ Len(c) + 1 \in FoundAt(d) => Picked(d, FoundAt(d)) = Append(Picked(c, FoundAt(c)), e)
      /\ Len(c) + 1 \notin FoundAt(d) => Picked(d, FoundAt(d)) = Picked(c, FoundAt(c))
  BY SMT, <1>3, PickedAppend
<1>6. Picked(c, FoundAt(c)) \in Seq(Calls)
  BY PickedSeq
<1> QED BY <1>4, <1>5, <1>6 DEF FoundOf

\* If it is empty so are they.
LEMMA NoCalls == LoggedOf(<<>>) = <<>> /\ FoundOf(<<>>) = <<>>
BY PickedEmpty DEF LoggedOf, FoundOf

\* The calls of a session's history.
LEMMA CallsOf == \A s \in Sessions : /\ LoggedCalls(s) = LoggedOf(calls[s])
                                     /\ FoundCalls(s) = FoundOf(calls[s])
BY DEF LoggedCalls, LoggedOf, LoggedAt, FoundCalls, FoundOf, FoundAt, Found

-----------------------------------------------------------------------------
(* Recording.                                                              *)

\* The Recorder of a session that records has a file of the session.
LEMMA RecorderThere ==
    ASSUME TypeOK, NEW s \in Sessions, RecordInv(s), recordMode[s]
    PROVE  /\ Recorder(s) \in [file : Files, cursor : Nat]
           /\ \E x \in Queries : Recorder(s).file = <<x, s>>
           /\ Recorder(s).cursor <= Len(files[Recorder(s).file].recs)
           /\ updateRecordFile[s] => Recorder(s) = [file |-> <<prefix[s], s>>, cursor |-> 0]
           /\ ~updateRecordFile[s] /\ recorder[s].file # NoFile => Recorder(s) = recorder[s]
<1>1. prefix[s] \in Queries /\ <<prefix[s], s>> \in Files
  BY DEF RecordInv, Files
<1>2. CASE recorder[s].file = NoFile \/ updateRecordFile[s]
  <2>1. Recorder(s) = [file |-> <<prefix[s], s>>, cursor |-> 0]
    BY <1>2 DEF Recorder
  <2>2. files[<<prefix[s], s>>].recs \in Seq(Entries)
    BY <1>1 DEF TypeOK, FileStates
  <2>3. 0 <= Len(files[<<prefix[s], s>>].recs)
    BY SMT, <2>2
  <2> QED BY SMT, <1>1, <1>2, <2>1, <2>3
<1>3. CASE ~(recorder[s].file = NoFile \/ updateRecordFile[s])
  <2>1. Recorder(s) = recorder[s]
    BY <1>3 DEF Recorder
  <2> QED BY ZenonT(60), <1>3, <2>1 DEF RecordInv, TypeOK
<1> QED BY <1>2, <1>3

\* What recording entry e of request q does for session s.
Wrote(s, q, e) ==
    LET r == Recorder(s)
    IN  /\ ~updateRecordFile'[s]
        /\ recorder'[s].file = r.file
        /\ files'[r.file].recs \in Seq(Entries)
        /\ Logged(q) =>
            /\ recorder'[s].cursor = r.cursor + 1
            /\ Len(files'[r.file].recs) = r.cursor + 1
            /\ SubSeq(files'[r.file].recs, 1, r.cursor + 1) =
                 Append(SubSeq(files[r.file].recs, 1, r.cursor), e)
        /\ ~Logged(q) =>
            /\ recorder'[s].cursor = r.cursor
            /\ files'[r.file].recs = files[r.file].recs

\* Recording writes to the session's own file only, behind what was recorded.
LEMMA RecordStep ==
    ASSUME TypeOK, NEW s \in Sessions, RecordInv(s), NEW q \in Requests, NEW e \in Entries,
           record(s, q, e), recordMode[s]
    PROVE  /\ updateRecordFile' \in [Sessions -> BOOLEAN]
           /\ recorder' \in [Sessions -> [file : Files \cup {NoFile}, cursor : Nat]]
           /\ files' \in [Files -> FileStates]
           /\ \A t \in Sessions \ {s} :
                /\ recorder'[t] = recorder[t] /\ updateRecordFile'[t] = updateRecordFile[t]
                /\ \A x \in Queries : files'[<<x, t>>] = files[<<x, t>>]
           /\ Wrote(s, q, e)
<1>0. PICK r : r = Recorder(s)
  OBVIOUS
<1>1. /\ r \in [file : Files, cursor : Nat]
      /\ \E x \in Queries : r.file = <<x, s>>
      /\ r.cursor <= Len(files[r.file].recs)
  BY <1>0, RecorderThere
<1>2. PICK old : old = [files[r.file] EXCEPT !.exists = TRUE]
  OBVIOUS
<1>3. old \in FileStates /\ old.recs = files[r.file].recs /\ files[r.file] \in FileStates
  <2>1. files[r.file] \in FileStates
    BY <1>1 DEF TypeOK
  <2> QED BY <1>2, <2>1 DEF FileStates
<1>4. \A t \in Sessions \ {s} : \A x \in Queries : <<x, t>> # r.file /\ <<x, t>> \in Files
  BY SMT, <1>1 DEF Files
<1>5. /\ updateRecordFile' = [updateRecordFile EXCEPT ![s] = FALSE]
      /\ Logged(q) => /\ files' = [files EXCEPT ![r.file] = Written(old, r.cursor, e)]
                      /\ recorder' = [recorder EXCEPT ![s] = [r EXCEPT !.cursor = @ + 1]]
      /\ ~Logged(q) => /\ files' = [files EXCEPT ![r.file] = old]
                       /\ recorder' = [recorder EXCEPT ![s] = r]
  BY <1>0, <1>2 DEF record
<1>6. PICK w : w = Written(old, r.cursor, e)
  OBVIOUS
<1>7. /\ w \in FileStates
      /\ Len(w.recs) = r.cursor + 1
      /\ SubSeq(w.recs, 1, r.cursor + 1) = Append(SubSeq(old.recs, 1, r.cursor), e)
  <2>0. old.recs \in Seq(Entries) /\ old.stale \in BOOLEAN /\ r.cursor \in Nat
        /\ r.cursor <= Len(old.recs)
    BY <1>1, <1>3 DEF FileStates
  <2> DEFINE front == SubSeq(old.recs, 1, r.cursor)
  <2>1. front \in Seq(Entries) /\ Len(front) = r.cursor
    BY SMT, <2>0
  <2>2. w.recs = Append(front, e) /\ w.exists = TRUE
        /\ w.stale = (old.stale \/ Len(old.recs) > r.cursor)
        /\ w = [exists |-> w.exists, recs |-> w.recs, stale |-> w.stale]
    BY <1>6 DEF Written
  <2> HIDE DEF front
  <2>3. w.recs \in Seq(Entries) /\ Len(w.recs) = r.cursor + 1
    BY SMT, <2>0, <2>1, <2>2
  <2>4. SubSeq(w.recs, 1, r.cursor + 1) = w.recs
    BY SMT, <2>0, <2>3
  <2>5. w.stale \in BOOLEAN
    BY <2>2
  <2>6. w \in FileStates
    BY <2>2, <2>3, <2>5 DEF FileStates
  <2> QED BY <2>2, <2>3, <2>4, <2>6 DEF front
<1>8. PICK n : n = [r EXCEPT !.cursor = @ + 1]
  OBVIOUS
<1>9. n \in [file : Files, cursor : Nat] /\ n.file = r.file /\ n.cursor = r.cursor + 1
  BY SMT, <1>1, <1>8
<1>10. CASE Logged(q)
  <2>1. files' = [files EXCEPT ![r.file] = w] /\ recorder' = [recorder EXCEPT ![s] = n]
    BY <1>5, <1>6, <1>8, <1>10
  <2>2. files'[r.file] = w /\ recorder'[s] = n
    BY <1>1, <2>1 DEF TypeOK
  <2>3. /\ files' \in [Files -> FileStates]
        /\ recorder' \in [Sessions -> [file : Files \cup {NoFile}, cursor : Nat]]
        /\ updateRecordFile' \in [Sessions -> BOOLEAN]
    BY <1>1, <1>5, <1>7, <1>9, <2>1 DEF TypeOK
  <2>4. \A t \in Sessions \ {s} :
            /\ recorder'[t] = recorder[t] /\ updateRecordFile'[t] = updateRecordFile[t]
            /\ \A x \in Queries : files'[<<x, t>>] = files[<<x, t>>]
    BY ZenonT(60), <1>4, <1>5, <2>1 DEF TypeOK
  <2>5. ~updateRecordFile'[s]
    BY <1>5 DEF TypeOK
  <2>6. Wrote(s, q, e)
    BY <1>0, <1>3, <1>7, <1>9, <1>10, <2>2, <2>5 DEF Wrote, FileStates
  <2> QED BY <2>3, <2>4, <2>6
<1>11. CASE ~Logged(q)
  <2>1. files' = [files EXCEPT ![r.file] = old] /\ recorder' = [recorder EXCEPT ![s] = r]
    BY <1>5, <1>11
  <2>2. files'[r.file] = old /\ recorder'[s] = r
    BY <1>1, <2>1 DEF TypeOK
  <2>3. /\ files' \in [Files -> FileStates]
        /\ recorder' \in [Sessions -> [file : Files \cup {NoFile}, cursor : Nat]]
        /\ updateRecordFile' \in [Sessions -> BOOLEAN]
    BY <1>1, <1>3, <1>5, <2>1 DEF TypeOK
  <2>4. \A t \in Sessions \ {s} :
            /\ recorder'[t] = recorder[t] /\ updateRecordFile'[t] = updateRecordFile[t]
            /\ \A x \in Queries : files'[<<x, t>>] = files[<<x, t>>]
    BY <1>4, <1>5, <2>1 DEF TypeOK
  <2>5. ~updateRecordFile'[s]
    BY <1>5 DEF TypeOK
  <2>6. Wrote(s, q, e)
    BY <1>0, <1>3, <1>11, <2>2, <2>5 DEF Wrote, FileStates
  <2> QED BY <2>3, <2>4, <2>6
<1> QED BY <1>10, <1>11

\* The invariant of another session's recording.
LEMMA RecordFrame ==
    ASSUME TypeOK, NEW t \in Sessions, RecordInv(t),
           recordMode'[t] = recordMode[t], replayMode'[t] = replayMode[t],
           updateRecordFile'[t] = updateRecordFile[t], prefix'[t] = prefix[t],
           recorder'[t] = recorder[t], up'[t] = up[t] \/ up'[t] # "up", calls'[t] = calls[t],
           \A x \in Queries : files'[<<x, t>>] = files[<<x, t>>]
    PROVE  RecordInv(t)'
<1>1. LoggedCalls(t)' = LoggedCalls(t)
  BY DEF LoggedCalls
<1>2. recorder[t].file # NoFile =>
        files'[recorder[t].file] = files[recorder[t].file]
  BY DEF RecordInv
<1>3. recordMode[t] => files'[<<prefix[t], t>>] = files[<<prefix[t], t>>]
  BY DEF RecordInv
<1> QED BY <1>1, <1>2, <1>3 DEF RecordInv, Recording

\* The invariant of another session's replay.
LEMMA ReplayFrame ==
    ASSUME NEW t \in Sessions, ReplayInv(t),
           recordMode'[t] = recordMode[t], replayMode'[t] = replayMode[t],
           updateReplayFile'[t] = updateReplayFile[t], record_names'[t] = record_names[t],
           replayer'[t] = replayer[t], calls'[t] = calls[t]
    PROVE  ReplayInv(t)'
<1>1. FoundCalls(t)' = FoundCalls(t)
  BY DEF FoundCalls
<1>2. Repeats(t)' = Repeats(t)
  BY <1>1 DEF Repeats
<1> QED BY SMT, <1>1, <1>2 DEF ReplayInv

-----------------------------------------------------------------------------
(* Replaying.                                                              *)

Replayers == [file : Files \cup {NoFile}, copy : FileStates, pos : Nat, lost : BOOLEAN]

\* The fields of a record in a file.
LEMMA EntryFields ==
    ASSUME NEW e \in Entries
    PROVE  e.res \in Results \cup {Zeroed}
BY DEF Entries

\* A replay of a request keeps the file and what was read of it.
LEMMA OutcomeKeeps ==
    ASSUME NEW r \in Replayers, r.file # NoFile, NEW q, NEW o \in replay_request(r, q)
    PROVE  /\ o.state \in Replayers /\ o.state.file = r.file /\ o.state.copy = r.copy
           /\ o.how \in {"ok", "mismatch", "abort"}
           /\ o.res \in Results \cup {Zeroed, NoResult}
<1> DEFINE e == r.copy.recs[r.pos + 1]
           next == [r EXCEPT !.pos = @ + 1]
           astray == [r EXCEPT !.lost = TRUE]
<1>1. next \in Replayers /\ next.file = r.file /\ next.copy = r.copy
  BY SMT DEF Replayers
<1>2. astray \in Replayers /\ astray.file = r.file /\ astray.copy = r.copy
  BY DEF Replayers
<1>3. r.pos < Len(r.copy.recs) => e.res \in Results \cup {Zeroed}
  <2>1. r.copy.recs \in Seq(Entries) /\ r.pos \in Nat
    BY DEF Replayers, FileStates
  <2>2. r.pos < Len(r.copy.recs) => e \in Entries
    BY SMT, <2>1
  <2> HIDE DEF e
  <2>3. e \in Entries => e.res \in Results \cup {Zeroed}
    BY EntryFields
  <2> QED BY <2>2, <2>3
<1> HIDE DEF e, next, astray
<1>4. ASSUME o \in AnyOutcome(r)
      PROVE  /\ o.state = astray /\ o.how \in {"ok", "mismatch", "abort"}
             /\ o.res \in Results \cup {Zeroed, NoResult}
  <2>1. \/ \E res \in Results \cup {Zeroed} : o = Outcome("ok", res, astray)
        \/ \E how \in {"mismatch", "abort"} : o = Outcome(how, NoResult, astray)
    BY <1>4 DEF AnyOutcome, astray
  <2> QED BY SMT, <2>1 DEF Outcome
<1>5. \/ o \in AnyOutcome(r)
      \/ o = Outcome("abort", NoResult, astray)
      \/ o = Outcome("mismatch", NoResult, astray)
      \/ o = Outcome("mismatch", NoResult, next)
      \/ o = Outcome("ok", e.res, next) /\ r.pos < Len(r.copy.recs)
      \/ o = Outcome("abort", NoResult, r)
  BY DEF replay_request, e, next, astray
<1> QED BY SMT, <1>1, <1>2, <1>3, <1>4, <1>5 DEF Outcome

\* A request that is the next record of an untouched file is answered by it.
LEMMA RecordAnswers ==
    ASSUME NEW r \in Replayers, r.copy = files[r.file], ~r.lost, r.pos < Len(r.copy.recs),
           NEW q, q = Request(r.copy.recs[r.pos + 1]), NEW o \in replay_request(r, q)
    PROVE  /\ o.how = "ok" /\ o.res = r.copy.recs[r.pos + 1].res
           /\ o.state.pos = r.pos + 1 /\ ~o.state.lost
<1> DEFINE e == r.copy.recs[r.pos + 1]
           next == [r EXCEPT !.pos = @ + 1]
<1>1. q.op = e.op /\ q.size = e.size /\ q.args = e.args
  BY DEF Request
<1>2. next.pos = r.pos + 1 /\ next.lost = r.lost
  BY DEF Replayers
<1> HIDE DEF e, next
<1>3. o = Outcome("ok", e.res, next)
  BY <1>1 DEF replay_request, e, next, SizesDiffer, ArgsDiffer
<1> QED BY <1>2, <1>3 DEF Outcome, e

\* What a file's first record does to the search for the first request.
LEMMA FirstRecord ==
    ASSUME TypeOK, NEW f \in Files, files[f].recs # <<>>, NEW q \in Requests,
           Head(files[f].recs).op = q.op, q.op # "strcmp",
           NEW o \in replay_request(Opened(f), q)
    PROVE  \/ o.how = "ok" /\ FirstMatches(f, q)
           \/ o.how = "mismatch" /\ ~FirstMatches(f, q)
<1> DEFINE r == Opened(f)
           e == files[f].recs[1]
           next == [r EXCEPT !.pos = @ + 1]
           astray == [r EXCEPT !.lost = TRUE]
<1>1. files[f].recs \in Seq(Entries)
  BY DEF TypeOK, FileStates
<1>2. Len(files[f].recs) > 0 /\ Head(files[f].recs) = e
  BY SMT, <1>1
<1>3. r.copy = files[f] /\ r.file = f /\ r.pos = 0 /\ ~r.lost /\ r.copy.recs[r.pos + 1] = e
  BY SMT DEF Opened
<1>4. FirstMatches(f, q) <=> e.size = q.size /\ e.args = q.args
  <2>1. FirstMatches(f, q) <=> Request(e) = q
    BY <1>2 DEF FirstMatches
  <2>2. q = [op |-> q.op, size |-> q.size, args |-> q.args]
    BY RequestsAssumption
  <2>3. e.op = q.op
    BY <1>2
  <2> HIDE DEF e
  <2>4. Request(e) = q => e.size = q.size /\ e.args = q.args
    BY SMT DEF Request
  <2>5. e.size = q.size /\ e.args = q.args => Request(e) = q
    BY <2>2, <2>3 DEF Request
  <2> QED BY <2>1, <2>4, <2>5
<1>5. r.pos < Len(r.copy.recs) /\ e.op = q.op
  BY <1>2, <1>3
<1> HIDE DEF r, e
<1>6. \/ o = Outcome("mismatch", NoResult, astray) /\ e.size # q.size
      \/ o = Outcome("mismatch", NoResult, next) /\ e.args # q.args
      \/ o = Outcome("ok", e.res, next) /\ e.size = q.size /\ e.args = q.args
  BY <1>3, <1>5 DEF replay_request, SizesDiffer, ArgsDiffer, r
<1> HIDE DEF next, astray
<1> QED BY SMT, <1>4, <1>6 DEF Outcome

\* Does c repeat what the replayer r has read?
RepeatsOf(c, r) ==
    LET h == FoundOf(c)
    IN  Len(h) <= Len(r.copy.recs)
        /\ \A k \in 1..Len(h) : h[k].req = Request(r.copy.recs[k]) /\ h[k].intact

\* Replayer r has answered the calls c from its file, if they repeat it.
Answered(names, c, r) ==
    LET h == FoundOf(c)
    IN  /\ \A k \in DOMAIN c : c[k].how = "ok" => c[k].file = r.file
        /\ names = <<r.file>> /\ RepeatsOf(c, r) =>
              /\ r.pos = Len(h) /\ ~r.lost
              /\ \A k \in 1..Len(h) : h[k].how = "ok" /\ h[k].res = r.copy.recs[k].res

\* Replayer r has found no file for the calls c, or has answered them.
Replays(names, c, r) ==
    /\ r.file = NoFile =>
          /\ \A k \in DOMAIN c : NOT_REPLAY(c[k].req) \/ c[k].how = "none"
          /\ \A k \in DOMAIN c : c[k].how # "ok"
          /\ FoundOf(c) = <<>>
    /\ r.file # NoFile =>
          /\ r.file \in Range(names)
          /\ \E k \in DOMAIN c : ~NOT_REPLAY(c[k].req)
          /\ Answered(names, c, r)

\* The invariant in these terms, in a state and after a step.
LEMMA ReplayIs ==
    ASSUME NEW s \in Sessions
    PROVE  ReplayInv(s) <=>
             (replayMode[s] /\ ~recordMode[s] =>
                IF updateReplayFile[s] THEN calls[s] = <<>>
                ELSE Replays(record_names[s], calls[s], replayer[s]))
<1>1. FoundCalls(s) = FoundOf(calls[s])
  BY CallsOf
<1>2. Repeats(s) <=> RepeatsOf(calls[s], replayer[s])
  BY <1>1 DEF Repeats, RepeatsOf
<1>3. PICK c, r, names : c = calls[s] /\ r = replayer[s] /\ names = record_names[s]
  OBVIOUS
<1>4. CASE r.file = NoFile
  BY <1>1, <1>3, <1>4 DEF ReplayInv, Replays
<1>5. CASE r.file # NoFile
  BY <1>1, <1>2, <1>3, <1>5 DEF ReplayInv, Replays, Answered
<1> QED BY <1>4, <1>5

LEMMA ReplayIsNext ==
    ASSUME NEW s \in Sessions
    PROVE  ReplayInv(s)' <=>
             (replayMode'[s] /\ ~recordMode'[s] =>
                IF updateReplayFile'[s] THEN calls'[s] = <<>>
                ELSE Replays(record_names'[s], calls'[s], replayer'[s]))
<1>1. FoundCalls(s)' = FoundOf(calls'[s])
  BY DEF FoundCalls, FoundOf, FoundAt, Found
<1>2. Repeats(s)' <=> RepeatsOf(calls'[s], replayer'[s])
  BY <1>1 DEF Repeats, RepeatsOf
<1>3. PICK c, r, names : c = calls'[s] /\ r = replayer'[s] /\ names = record_names'[s]
  OBVIOUS
<1>4. CASE r.file = NoFile
  BY <1>1, <1>3, <1>4 DEF ReplayInv, Replays
<1>5. CASE r.file # NoFile
  BY <1>1, <1>2, <1>3, <1>5 DEF ReplayInv, Replays, Answered
<1> QED BY <1>4, <1>5

\* Before the first call there is nothing to answer.
LEMMA ReplaysNothing == \A names : Replays(names, <<>>, Closed)
BY SMT, NoCalls DEF Replays, Closed, NoFile

\* A call that passes the replayer by changes nothing.
LEMMA ReplaysPassed ==
    ASSUME NEW names, NEW c \in Seq(Calls), NEW r, Replays(names, c, r),
           NEW e \in Calls, NOT_REPLAY(e.req), e.how = "served"
    PROVE  Replays(names, Append(c, e), r)
<1>1. PICK d : d = Append(c, e)
  OBVIOUS
<1>2. DOMAIN d = 1..Len(c) + 1 /\ DOMAIN c = 1..Len(c) /\ Len(c) \in Nat
  BY SMT, <1>1
<1>3. d[Len(c) + 1] = e /\ \A k \in 1..Len(c) : d[k] = c[k]
  BY SMT, <1>1
<1>4. FoundOf(d) = FoundOf(c)
  BY <1>1, FoundAppend DEF Found
<1>5. RepeatsOf(d, r) <=> RepeatsOf(c, r)
  BY <1>4 DEF RepeatsOf
<1>6. \A k \in DOMAIN d : (k \in DOMAIN c /\ d[k] = c[k]) \/ d[k] = e
  BY SMT, <1>2, <1>3
<1>7. \A k \in DOMAIN c : k \in DOMAIN d /\ d[k] = c[k]
  BY SMT, <1>2, <1>3
<1>8. CASE r.file = NoFile
  <2>1. \A k \in DOMAIN d : NOT_REPLAY(d[k].req) \/ d[k].how = "none"
    BY <1>6, <1>8 DEF Replays
  <2>2. \A k \in DOMAIN d : d[k].how # "ok"
    BY <1>6, <1>8 DEF Replays
  <2>3. FoundOf(d) = <<>>
    BY <1>4, <1>8 DEF Replays
  <2> QED BY <1>1, <1>8, <2>1, <2>2, <2>3 DEF Replays
<1>9. CASE r.file # NoFile
  <2>1. Answered(names, d, r)
    BY <1>4, <1>5, <1>6, <1>9 DEF Replays, Answered
  <2>2. \E k \in DOMAIN d : ~NOT_REPLAY(d[k].req)
    BY <1>7, <1>9 DEF Replays
  <2>3. r.file \in Range(names)
    BY <1>9 DEF Replays
  <2> QED BY <1>1, <1>9, <2>1, <2>2, <2>3 DEF Replays
<1> QED BY <1>8, <1>9

\* Nor does a call for which there is no recording.
LEMMA ReplaysNone ==
    ASSUME NEW names, NEW c \in Seq(Calls), NEW r, Replays(names, c, r), r.file = NoFile,
           NEW e \in Calls, e.how = "none"
    PROVE  Replays(names, Append(c, e), Closed)
<1>1. PICK d : d = Append(c, e)
  OBVIOUS
<1>2. DOMAIN d = 1..Len(c) + 1 /\ DOMAIN c = 1..Len(c) /\ Len(c) \in Nat
  BY SMT, <1>1
<1>3. d[Len(c) + 1] = e /\ \A k \in 1..Len(c) : d[k] = c[k]
  BY SMT, <1>1
<1>4. FoundOf(d) = FoundOf(c)
  BY <1>1, FoundAppend DEF Found
<1>5. \A k \in DOMAIN d : (k \in DOMAIN c /\ d[k] = c[k]) \/ d[k] = e
  BY SMT, <1>2, <1>3
<1>6. Closed.file = NoFile
  BY DEF Closed
<1> QED BY <1>1, <1>4, <1>5, <1>6 DEF Replays

\* A call that the replayer answers, or fails to, from its file.
LEMMA ReplaysAnswer ==
    ASSUME NEW names, NEW c \in Seq(Calls), NEW r \in Replayers, Answered(names, c, r),
           r.file # NoFile, r.file \in Range(names),
           NEW q \in Requests, ~NOT_REPLAY(q), NEW o \in replay_request(r, q), NEW e \in Calls,
           e.req = q, e.how = o.how, e.res = o.res, e.file = o.state.file,
           e.intact = Intact(o.state)
    PROVE  Replays(names, Append(c, e), o.state)
<1>1. PICK d : d = Append(c, e)
  OBVIOUS
<1>2. DOMAIN d = 1..Len(c) + 1 /\ DOMAIN c = 1..Len(c) /\ Len(c) \in Nat
  BY SMT, <1>1
<1>3. d[Len(c) + 1] = e /\ \A k \in 1..Len(c) : d[k] = c[k]
  BY SMT, <1>1
<1>4. \A k \in DOMAIN d : (k \in DOMAIN c /\ d[k] = c[k]) \/ d[k] = e
  BY SMT, <1>2, <1>3
<1>5. o.state.file = r.file /\ o.state.copy = r.copy /\ o.how \in {"ok", "mismatch", "abort"}
  BY OutcomeKeeps
<1>6. \E k \in DOMAIN d : ~NOT_REPLAY(d[k].req)
  <2>1. Len(c) + 1 \in DOMAIN d
    BY SMT, <1>2
  <2> QED BY <1>3, <2>1
<1>7. \A k \in DOMAIN d : d[k].how = "ok" => d[k].file = o.state.file
  BY <1>4, <1>5 DEF Answered
<1>8. PICK h, g : h = FoundOf(c) /\ g = FoundOf(d)
  OBVIOUS
<1>9. h \in Seq(Calls) /\ g = Append(h, e)
  <2>1. Found(e)
    BY <1>5 DEF Found
  <2> QED BY <1>1, <1>8, <2>1, FoundAppend
<1>10. /\ Len(h) \in Nat /\ Len(g) = Len(h) + 1 /\ g[Len(h) + 1] = e
       /\ \A k \in 1..Len(h) : g[k] = h[k]
  BY SMT, <1>9
<1>11. ASSUME names = <<r.file>>, RepeatsOf(d, o.state)
       PROVE  /\ o.state.pos = Len(g) /\ ~o.state.lost
              /\ \A k \in 1..Len(g) : g[k].how = "ok" /\ g[k].res = r.copy.recs[k].res
  <2>1. /\ Len(g) <= Len(r.copy.recs)
        /\ \A k \in 1..Len(g) : g[k].req = Request(r.copy.recs[k]) /\ g[k].intact
    BY <1>5, <1>8, <1>11 DEF RepeatsOf
  <2>2. \A k \in 1..Len(h) : k \in 1..Len(g)
    BY SMT, <1>10
  <2>3. r.copy.recs \in Seq(Entries) /\ Len(r.copy.recs) \in Nat /\ r.pos \in Nat
    BY SMT DEF Replayers, FileStates
  <2>4. Len(h) < Len(r.copy.recs) /\ Len(h) <= Len(r.copy.recs)
    BY SMT, <1>10, <2>1, <2>3
  <2>5. RepeatsOf(c, r)
    BY <1>8, <1>10, <2>1, <2>2, <2>4 DEF RepeatsOf
  <2>6. /\ r.pos = Len(h) /\ ~r.lost
        /\ \A k \in 1..Len(h) : h[k].how = "ok" /\ h[k].res = r.copy.recs[k].res
    BY <1>8, <1>11, <2>5 DEF Answered
  <2>7. Len(h) + 1 \in 1..Len(g)
    BY SMT, <1>10
  <2>8. e.req = Request(r.copy.recs[Len(h) + 1]) /\ e.intact
    BY <1>10, <2>1, <2>7
  <2>9. r.copy = files[r.file]
    BY <1>5, <2>8 DEF Intact
  <2>10. /\ o.how = "ok" /\ o.res = r.copy.recs[r.pos + 1].res
         /\ o.state.pos = r.pos + 1 /\ ~o.state.lost
    BY ZenonT(60), <2>4, <2>6, <2>8, <2>9, RecordAnswers
  <2>11. \A k \in 1..Len(g) : k \in 1..Len(h) \/ k = Len(h) + 1
    BY SMT, <1>10
  <2>12. \A k \in 1..Len(g) : g[k].how = "ok" /\ g[k].res = r.copy.recs[k].res
    BY <1>10, <2>6, <2>10, <2>11
  <2> QED BY <1>10, <2>6, <2>10, <2>12
<1>12. Answered(names, d, o.state)
  BY <1>5, <1>7, <1>8, <1>11 DEF Answered
<1> QED BY <1>1, <1>5, <1>6, <1>12 DEF Replays

\* The state of a replayer that has just opened a file.
LEMMA OpenedIs ==
    ASSUME TypeOK, NEW f \in Files
    PROVE  Opened(f) \in Replayers /\ Opened(f).file = f /\ f # NoFile
           /\ Opened(f).pos = 0 /\ ~Opened(f).lost
BY FilesHaveNames DEF Opened, Replayers, TypeOK

\* Having answered nothing it is ready to answer.
LEMMA OpenedAnswers ==
    ASSUME TypeOK, NEW f \in Files, NEW names, NEW c \in Seq(Calls), NEW r,
           Replays(names, c, r), r.file = NoFile
    PROVE  Answered(names, c, Opened(f))
<1>1. PICK n : n = Opened(f)
  OBVIOUS
<1>2. n.pos = 0 /\ ~n.lost
  BY <1>1, OpenedIs
<1>3. FoundOf(c) = <<>> /\ \A k \in DOMAIN c : c[k].how # "ok"
  BY DEF Replays
<1>4. Len(<<>>) = 0
  OBVIOUS
<1> QED BY SMT, <1>1, <1>2, <1>3, <1>4 DEF Answered

\* The search opens one of the files, or finds none.
LEMMA SearchOpens ==
    ASSUME NEW names, NEW q, NEW o \in Search(names, q)
    PROVE  \/ /\ o = Outcome("none", NoResult, Closed)
              /\ \A k \in 1..Len(names) :
                    \E p \in replay_request(Opened(names[k]), q) : p.how = "mismatch"
           \/ \E k \in 1..Len(names) :
                o \in replay_request(Opened(names[k]), q) /\ o.how # "mismatch"
<1> DEFINE Tried(k) == replay_request(Opened(names[k]), q)
           CanPass(k) == \E p \in Tried(k) : p.how = "mismatch"
           K == {j \in 1..Len(names) : \A i \in 1..j - 1 : CanPass(i)}
           Kept(k) == {p \in Tried(k) : p.how # "mismatch"}
           Some == UNION {Kept(k) : k \in K}
           All == \A k \in 1..Len(names) : CanPass(k)
           None == IF All THEN {Outcome("none", NoResult, Closed)} ELSE {}
<1>1. Search(names, q) = Some \cup None
  BY DEF Search
<1>2. \A x : x \in None => x = Outcome("none", NoResult, Closed) /\ All
  <2> HIDE DEF All
  <2> QED OBVIOUS
<1>3. ASSUME o \in Some
      PROVE  \E k \in 1..Len(names) : o \in Tried(k) /\ o.how # "mismatch"
  <2>1. PICK k \in K : o \in Kept(k)
    BY <1>3, Zenon
  <2>2. k \in 1..Len(names) /\ o \in Tried(k) /\ o.how # "mismatch"
    BY <2>1, Zenon
  <2> QED BY <2>2
<1>4. o \in Some \/ o \in None
  <2> HIDE DEF Some, None
  <2> QED BY <1>1
<1> QED BY <1>2, <1>3, <1>4, Zenon

\* What a call adds to the history.
LEMMA CalledAdds ==
    ASSUME TypeOK, NEW s \in Sessions, recordMode[s] \/ replayMode[s],
           NEW q, NEW how, NEW res, Called(s, q, how, res)
    PROVE  /\ calls'[s] = Append(calls[s], [req |-> q, how |-> how, res |-> res,
                file |-> replayer'[s].file, intact |-> Intact(replayer'[s])])
           /\ \A t \in Sessions \ {s} : calls'[t] = calls[t]
           /\ calls'[s] \in Seq(Calls) => calls' \in [Sessions -> Seq(Calls)]
BY DEF Called, TypeOK

-----------------------------------------------------------------------------
(* The steps.                                                              *)

\* A step of session s leaves the other sessions and their files alone.
Elsewhere(s) ==
    \A t \in Sessions \ {s} :
        /\ recordMode'[t] = recordMode[t] /\ replayMode'[t] = replayMode[t]
        /\ updateRecordFile'[t] = updateRecordFile[t]
        /\ updateReplayFile'[t] = updateReplayFile[t]
        /\ prefix'[t] = prefix[t] /\ record_names'[t] = record_names[t]
        /\ recorder'[t] = recorder[t] /\ replayer'[t] = replayer[t]
        /\ up'[t] = up[t] /\ calls'[t] = calls[t]
        /\ \A x \in Queries : files'[<<x, t>>] = files[<<x, t>>]

LEMMA OneSession ==
    ASSUME RRInv, NEW s \in Sessions, Elsewhere(s), TypeOK', RecordInv(s)', ReplayInv(s)'
    PROVE  RRInv'
<1>1. ASSUME NEW t \in Sessions, t # s
      PROVE  RecordInv(t)' /\ ReplayInv(t)'
  <2>1. TypeOK /\ RecordInv(t) /\ ReplayInv(t)
    BY DEF RRInv
  <2>2. /\ recordMode'[t] = recordMode[t] /\ replayMode'[t] = replayMode[t]
        /\ updateRecordFile'[t] = updateRecordFile[t]
        /\ updateReplayFile'[t] = updateReplayFile[t]
        /\ prefix'[t] = prefix[t] /\ record_names'[t] = record_names[t]
        /\ recorder'[t] = recorder[t] /\ replayer'[t] = replayer[t]
        /\ up'[t] = up[t] /\ calls'[t] = calls[t]
        /\ \A x \in Queries : files'[<<x, t>>] = files[<<x, t>>]
    BY <1>1 DEF Elsewhere
  <2>3. RecordInv(t)'
    BY <2>1, <2>2, RecordFrame
  <2>4. ReplayInv(t)'
    BY <2>1, <2>2, ReplayFrame
  <2> QED BY <2>3, <2>4
<1> QED BY <1>1 DEF RRInv

\* A listing of a finite set is a sequence.
LEMMA Listings ==
    ASSUME NEW S, IsFiniteSet(S), NEW l \in Bijection(1..Cardinality(S), S)
    PROVE  l \in Seq(S)
<1>1. Cardinality(S) \in Nat
  BY FS_CardinalityType
<1>2. l \in [1..Cardinality(S) -> S]
  BY DEF Bijection, Injection
<1> QED BY SMT, <1>1, <1>2

\* The files of a prefix are finitely many: one per session.
LEMMA FilesOfPrefix ==
    ASSUME NEW x \in Queries, NEW S, S \subseteq {f \in Files : f[1] = x}
    PROVE  IsFiniteSet(S)
<1> DEFINE g == [f \in S |-> f[2]]
<1>1. g \in [S -> Sessions]
  BY DEF Files
<1>2. \A e, f \in S : g[e] = g[f] => e = f
  BY SMT DEF Files
<1>3. g \in Injection(S, Sessions)
  BY <1>1, <1>2 DEF Injection, IsInjective
<1> HIDE DEF g
<1> QED BY <1>3, SessionsAssumption, FS_Injection

LEMMA RecordModeStep ==
    ASSUME RRInv, NEW s \in Sessions, NEW x \in Queries, enable_record_mode(s, x)
    PROVE  RRInv'
<1>1. TypeOK'
  <2>0. TypeOK
    BY DEF RRInv
  <2>1. /\ recordMode' \in [Sessions -> BOOLEAN] /\ updateRecordFile' \in [Sessions -> BOOLEAN]
    BY <2>0 DEF TypeOK, enable_record_mode
  <2>4. prefix' \in [Sessions -> Queries \cup {NoPrefix}]
    BY <2>0 DEF TypeOK, enable_record_mode
  <2>5. calls' \in [Sessions -> Seq(Calls)]
    <3>1. calls \in [Sessions -> Seq(Calls)] /\ calls' = [calls EXCEPT ![s] = <<>>]
      BY <2>0 DEF TypeOK, enable_record_mode, Switched
    <3>2. <<>> \in Seq(Calls)
      BY SMT
    <3> QED BY <3>1, <3>2
  <2>2. UNCHANGED <<replayMode, updateReplayFile, record_names, buffer, recorder, replayer,
                    files, up>>
    BY DEF enable_record_mode
  <2> QED BY <2>0, <2>1, <2>2, <2>4, <2>5 DEF TypeOK
<1>2. Elsewhere(s)
  BY DEF RRInv, TypeOK, enable_record_mode, Switched, Elsewhere
<1>3. /\ recordMode'[s] /\ updateRecordFile'[s] /\ prefix'[s] = x /\ calls'[s] = <<>>
      /\ recorder' = recorder /\ files' = files
  BY DEF RRInv, TypeOK, enable_record_mode, Switched
<1>4. RecordInv(s)'
  BY <1>3 DEF RRInv, RecordInv, Recording
<1>5. ReplayInv(s)'
  BY <1>3 DEF ReplayInv
<1> QED BY <1>1, <1>2, <1>4, <1>5, OneSession

LEMMA ReplayModeStep ==
    ASSUME RRInv, NEW s \in Sessions, NEW x \in Queries, enable_replay_mode(s, x)
    PROVE  RRInv'
<1> DEFINE S == {f \in Files : f[1] = x /\ files[f].exists}
<1>1. PICK names \in Bijection(1..Cardinality(S), S) : record_names' = [record_names EXCEPT ![s] = names]
  BY DEF enable_replay_mode
<1>2. names \in Seq(Files)
  <2>1. IsFiniteSet(S)
    BY FilesOfPrefix
  <2>2. S \subseteq Files
    OBVIOUS
  <2> HIDE DEF S
  <2>3. names \in Seq(S)
    BY <2>1, Listings
  <2> QED BY SMT, <2>2, <2>3
<1>3. TypeOK'
  <2>0. TypeOK
    BY DEF RRInv
  <2>1. /\ recordMode' \in [Sessions -> BOOLEAN] /\ replayMode' \in [Sessions -> BOOLEAN]
        /\ updateReplayFile' \in [Sessions -> BOOLEAN]
    BY <2>0 DEF TypeOK, enable_replay_mode
  <2>4. prefix' \in [Sessions -> Queries \cup {NoPrefix}]
    BY <2>0 DEF TypeOK, enable_replay_mode
  <2>5. calls' \in [Sessions -> Seq(Calls)]
    <3>1. calls \in [Sessions -> Seq(Calls)] /\ calls' = [calls EXCEPT ![s] = <<>>]
      BY <2>0 DEF TypeOK, enable_replay_mode, Switched
    <3>2. <<>> \in Seq(Calls)
      BY SMT
    <3> QED BY <3>1, <3>2
  <2>2. UNCHANGED <<updateRecordFile, buffer, recorder, replayer, files, up>>
    BY DEF enable_replay_mode
  <2>3. record_names' \in [Sessions -> Seq(Files)]
    BY <1>1, <1>2, <2>0 DEF TypeOK
  <2> QED BY <2>0, <2>1, <2>2, <2>3, <2>4, <2>5 DEF TypeOK
<1>4. Elsewhere(s)
  BY <1>1 DEF RRInv, TypeOK, enable_replay_mode, Switched, Elsewhere
<1>5. /\ ~recordMode'[s] /\ updateReplayFile'[s] /\ calls'[s] = <<>>
      /\ recorder' = recorder /\ files' = files
  BY DEF RRInv, TypeOK, enable_replay_mode, Switched
<1>6. RecordInv(s)'
  BY <1>5 DEF RRInv, RecordInv, Recording
<1>7. ReplayInv(s)'
  BY <1>5 DEF ReplayInv
<1> QED BY <1>3, <1>4, <1>6, <1>7, OneSession

LEMMA ExitStep ==
    ASSUME RRInv, NEW s \in Sessions, Exit(s)
    PROVE  RRInv'
<1>1. TypeOK'
  BY DEF RRInv, TypeOK, Exit, modeVars
<1>2. Elsewhere(s)
  BY DEF RRInv, TypeOK, Exit, modeVars, Elsewhere
<1>3. up'[s] # "up" \/ up'[s] = up[s]
  BY DEF Exit
<1>4. UNCHANGED <<modeVars, recorder, replayer, files, calls>>
  BY DEF Exit
<1>5. RecordInv(s)'
  BY <1>3, <1>4, RecordFrame DEF RRInv, modeVars
<1>6. ReplayInv(s)'
  BY <1>4, ReplayFrame DEF RRInv, modeVars
<1> QED BY <1>1, <1>2, <1>5, <1>6, OneSession

\* The replayer as a call finds it, after update_replay_files.
LEMMA ReplayerNow ==
    ASSUME TypeOK, NEW s \in Sessions
    PROVE  Replayer(s) \in Replayers
<1>1. Empty \in FileStates
  BY SMT DEF Empty, FileStates
<1>2. Closed \in Replayers
  BY <1>1 DEF Closed, Replayers
<1>3. replayer[s] \in Replayers
  BY DEF TypeOK, Replayers
<1> QED BY <1>2, <1>3 DEF Replayer

LEMMA ReplaysBefore ==
    ASSUME RRInv, NEW s \in Sessions, replayMode[s], ~recordMode[s]
    PROVE  Replays(record_names[s], calls[s], Replayer(s))
<1>1. CASE updateReplayFile[s]
  <2>1. calls[s] = <<>> /\ Replayer(s) = Closed
    BY <1>1 DEF RRInv, ReplayInv, Replayer
  <2> QED BY <2>1, ReplaysNothing
<1>2. CASE ~updateReplayFile[s]
  <2>1. Replays(record_names[s], calls[s], replayer[s])
    BY <1>2, ReplayIs DEF RRInv
  <2> QED BY <1>2, <2>1 DEF Replayer
<1> QED BY <1>1, <1>2

LEMMA WaitingStep ==
    ASSUME RRInv, NEW s \in Sessions, NEW q \in Requests, Waiting(s, q)
    PROVE  RRInv'
<1>1. Replayer(s) \in Replayers
  BY ReplayerNow DEF RRInv
<1>2. TypeOK'
  BY <1>1 DEF RRInv, TypeOK, Waiting, Replayers
<1>3. Elsewhere(s)
  BY DEF RRInv, TypeOK, Waiting, Elsewhere
<1>4. RecordInv(s)'
  <2>1. up'[s] # "up"
    BY DEF Waiting, RRInv, TypeOK
  <2>2. UNCHANGED <<recordMode, replayMode, updateRecordFile, prefix, recorder, calls, files>>
    BY DEF Waiting
  <2> QED BY <2>1, <2>2, RecordFrame DEF RRInv
<1>5. ReplayInv(s)'
  <2>1. /\ ~updateReplayFile'[s] /\ replayer'[s] = Replayer(s)
        /\ UNCHANGED <<recordMode, replayMode, record_names, calls>>
    BY DEF Waiting, RRInv, TypeOK
  <2> QED BY <2>1, ReplaysBefore, ReplayIsNext
<1> QED BY <1>2, <1>3, <1>4, <1>5, OneSession

\* What a replayed call may give: nothing, an answer of a file just opened, or
\* an answer of the file that is open.
LEMMA ReplayOutcome ==
    ASSUME TypeOK, NEW s \in Sessions, NEW q, NEW o \in replay(s, q)
    PROVE  \/ Replayer(s).file = NoFile /\ o = Outcome("none", NoResult, Closed)
           \/ /\ Replayer(s).file = NoFile
              /\ \E f \in Files : f \in Range(record_names[s]) /\ o \in replay_request(Opened(f), q)
           \/ Replayer(s).file # NoFile /\ o \in replay_request(Replayer(s), q)
<1>1. CASE Replayer(s).file # NoFile
  BY <1>1 DEF replay
<1>2. CASE Replayer(s).file = NoFile
  <2>1. PICK names : names = record_names[s]
    OBVIOUS
  <2>2. names \in Seq(Files)
    BY <2>1 DEF TypeOK
  <2>3. o \in Search(names, q)
    BY <1>2, <2>1 DEF replay
  <2>4. \A k \in 1..Len(names) : names[k] \in Files /\ names[k] \in Range(names)
    BY SMT, <2>2 DEF Range
  <2> QED BY <1>2, <2>1, <2>3, <2>4, SearchOpens
<1> QED BY <1>1, <1>2

LEMMA ReplayedStep ==
    ASSUME RRInv, NEW s \in Sessions, NEW q \in Requests, Replayed(s, q)
    PROVE  RRInv'
<1>0. TypeOK /\ RecordInv(s) /\ ReplayInv(s)
  BY DEF RRInv
<1>1. PICK o \in replay(s, q) :
        replayer' = [replayer EXCEPT ![s] = o.state] /\ Called(s, q, o.how, o.res)
  BY DEF Replayed
<1>2. replayMode[s] /\ ~NOT_REPLAY(q)
  BY DEF Replayed, Passed
<1>3. PICK r : r = Replayer(s)
  OBVIOUS
<1>4. r \in Replayers
  BY <1>0, <1>3, ReplayerNow
<1>5. \/ r.file = NoFile /\ o = Outcome("none", NoResult, Closed)
      \/ /\ r.file = NoFile
         /\ \E f \in Files : f \in Range(record_names[s]) /\ o \in replay_request(Opened(f), q)
      \/ r.file # NoFile /\ o \in replay_request(r, q)
  BY <1>0, <1>3, ReplayOutcome
<1>6. /\ o.state \in Replayers /\ o.how \in {"ok", "mismatch", "abort", "none"}
      /\ o.res \in Results \cup {Zeroed, NoResult}
  <2>1. CASE o = Outcome("none", NoResult, Closed)
    <3>1. Empty \in FileStates
      BY SMT DEF Empty, FileStates
    <3>2. Closed \in Replayers
      BY <3>1 DEF Closed, Replayers
    <3> QED BY <2>1, <3>2 DEF Outcome
  <2>2. ASSUME NEW f \in Files, o \in replay_request(Opened(f), q)
        PROVE  /\ o.state \in Replayers /\ o.how \in {"ok", "mismatch", "abort"}
               /\ o.res \in Results \cup {Zeroed, NoResult}
    BY ZenonT(60), <1>0, <2>2, OpenedIs, OutcomeKeeps
  <2>3. CASE r.file # NoFile /\ o \in replay_request(r, q)
    BY <1>4, <2>3, OutcomeKeeps
  <2> QED BY <1>5, <2>1, <2>2, <2>3
<1>7. PICK e : e = [req |-> q, how |-> o.how, res |-> o.res,
                    file |-> o.state.file, intact |-> Intact(o.state)]
  OBVIOUS
<1>8. e \in Calls
  <2>1. o.state.file \in Files \cup {NoFile}
    BY <1>6 DEF Replayers
  <2>2. Intact(o.state) \in BOOLEAN
    BY DEF Intact
  <2> QED BY <1>6, <1>7, <2>1, <2>2 DEF Calls
<1>9. replayer'[s] = o.state
  BY <1>0, <1>1 DEF TypeOK
<1>10. /\ calls'[s] = Append(calls[s], e)
       /\ \A t \in Sessions \ {s} : calls'[t] = calls[t]
       /\ calls' \in [Sessions -> Seq(Calls)]
  <2>1. calls[s] \in Seq(Calls)
    BY <1>0 DEF TypeOK
  <2>2. Append(calls[s], e) \in Seq(Calls)
    BY SMT, <1>8, <2>1
  <2>3. /\ calls'[s] = Append(calls[s], [req |-> q, how |-> o.how, res |-> o.res,
                file |-> replayer'[s].file, intact |-> Intact(replayer'[s])])
        /\ \A t \in Sessions \ {s} : calls'[t] = calls[t]
        /\ calls'[s] \in Seq(Calls) => calls' \in [Sessions -> Seq(Calls)]
    BY <1>0, <1>1, <1>2, CalledAdds
  <2> QED BY <1>7, <1>9, <2>2, <2>3
<1>11. TypeOK'
  <2>1. replayer' \in [Sessions -> Replayers]
    BY <1>0, <1>1, <1>6 DEF TypeOK, Replayers
  <2>2. /\ updateReplayFile' \in [Sessions -> BOOLEAN]
        /\ buffer' \in [Sessions -> {"none", "shared", "private"}]
    BY <1>0 DEF Replayed, TypeOK, BufferOf
  <2>3. UNCHANGED <<recordMode, replayMode, updateRecordFile, prefix, record_names,
                    recorder, files, up>>
    BY DEF Replayed
  <2> QED BY <1>0, <1>10, <2>1, <2>2, <2>3 DEF TypeOK, Replayers
<1>12. Elsewhere(s)
  BY <1>0, <1>1, <1>10 DEF Replayed, TypeOK, Elsewhere
<1>13. RecordInv(s)'
  BY <1>0, <1>2 DEF Replayed, RecordInv, Recording
<1>14. ReplayInv(s)'
  <2>1. /\ ~updateReplayFile'[s] /\ recordMode'[s] = recordMode[s]
        /\ record_names'[s] = record_names[s]
    BY <1>0 DEF Replayed, TypeOK
  <2>2. ASSUME ~recordMode[s]
        PROVE  Replays(record_names[s], Append(calls[s], e), o.state)
    <3>1. Replays(record_names[s], calls[s], r)
      BY <1>2, <1>3, <2>2, ReplaysBefore
    <3>2. calls[s] \in Seq(Calls)
      BY <1>0 DEF TypeOK
    <3>3. CASE r.file = NoFile /\ o = Outcome("none", NoResult, Closed)
      <4>1. o.state = Closed /\ e.how = "none"
        BY <1>7, <3>3 DEF Outcome
      <4> QED BY <1>8, <3>1, <3>2, <3>3, <4>1, ReplaysNone
    <3>4. e.req = q /\ e.how = o.how /\ e.res = o.res /\ e.file = o.state.file
          /\ e.intact = Intact(o.state)
      BY <1>7
    <3>5. ASSUME r.file = NoFile, NEW f \in Files, f \in Range(record_names[s]),
                 o \in replay_request(Opened(f), q)
          PROVE  Replays(record_names[s], Append(calls[s], e), o.state)
      <4>1. Opened(f) \in Replayers /\ Opened(f).file = f /\ f # NoFile
        BY <1>0, OpenedIs
      <4>2. Answered(record_names[s], calls[s], Opened(f))
        BY <1>0, <3>1, <3>2, <3>5, OpenedAnswers
      <4> QED BY <1>2, <1>8, <3>2, <3>4, <3>5, <4>1, <4>2, ReplaysAnswer
    <3>6. CASE r.file # NoFile /\ o \in replay_request(r, q)
      <4>1. r.file \in Range(record_names[s]) /\ Answered(record_names[s], calls[s], r)
        BY <3>1, <3>6 DEF Replays
      <4> QED BY <1>2, <1>4, <1>8, <3>2, <3>4, <3>6, <4>1, ReplaysAnswer
    <3> QED BY <1>5, <3>3, <3>5, <3>6
  <2> QED BY <1>9, <1>10, <2>1, <2>2, ReplayIsNext
<1> QED BY <1>11, <1>12, <1>13, <1>14, OneSession

\* What is written for a request is a record.
LEMMA EntryIn ==
    ASSUME NEW q \in Requests, NEW a \in {q.args, Torn}, NEW res \in Results \cup {Zeroed}
    PROVE  [op |-> q.op, size |-> q.size, args |-> a, res |-> res] \in Entries
BY DEF Entries

\* The recorder after a call has been recorded.
LEMMA RecorderAfter ==
    ASSUME TypeOK, NEW s \in Sessions, RecordInv(s), recordMode[s], NEW q, NEW e, Wrote(s, q, e)
    PROVE  /\ \E x \in Queries : recorder'[s].file = <<x, s>>
           /\ recorder'[s].cursor <= Len(files'[recorder'[s].file].recs)
<1>1. PICK r : r = Recorder(s)
  OBVIOUS
<1>2. /\ r.cursor \in Nat
      /\ \E x \in Queries : r.file = <<x, s>>
      /\ r.cursor <= Len(files[r.file].recs)
  BY <1>1, RecorderThere
<1>3. /\ recorder'[s].file = r.file
      /\ Logged(q) => /\ recorder'[s].cursor = r.cursor + 1
                      /\ Len(files'[r.file].recs) = r.cursor + 1
      /\ ~Logged(q) => /\ recorder'[s].cursor = r.cursor
                       /\ files'[r.file].recs = files[r.file].recs
  BY <1>1 DEF Wrote
<1>4. recorder'[s].cursor <= Len(files'[r.file].recs)
  BY SMT, <1>2, <1>3
<1> QED BY <1>2, <1>3, <1>4

LEMMA KilledStep ==
    ASSUME RRInv, NEW s \in Sessions, NEW q \in Requests, Killed(s, q)
    PROVE  RRInv'
<1>0. TypeOK /\ RecordInv(s) /\ ReplayInv(s)
  BY DEF RRInv
<1>1. PICK a \in {q.args, Torn} :
        record(s, q, [op |-> q.op, size |-> q.size, args |-> a, res |-> Zeroed])
  BY DEF Killed
<1>2. recordMode[s] /\ up'[s] = "killed"
  BY <1>0 DEF Killed, TypeOK
<1>3. PICK e : e = [op |-> q.op, size |-> q.size, args |-> a, res |-> Zeroed]
  OBVIOUS
<1>4. e \in Entries
  BY <1>3, EntryIn
<1>5. /\ updateRecordFile' \in [Sessions -> BOOLEAN]
      /\ recorder' \in [Sessions -> [file : Files \cup {NoFile}, cursor : Nat]]
      /\ files' \in [Files -> FileStates]
      /\ \A t \in Sessions \ {s} :
           /\ recorder'[t] = recorder[t] /\ updateRecordFile'[t] = updateRecordFile[t]
           /\ \A x \in Queries : files'[<<x, t>>] = files[<<x, t>>]
      /\ Wrote(s, q, e)
  BY <1>0, <1>1, <1>2, <1>3, <1>4, RecordStep
<1>6. UNCHANGED <<recordMode, replayMode, updateReplayFile, prefix, record_names,
                  buffer, replayer, calls>>
  BY DEF Killed
<1>7. up' \in [Sessions -> {"up", "waiting", "killed", "exited", "invalid free"}]
      /\ \A t \in Sessions \ {s} : up'[t] = up[t]
  BY <1>0 DEF Killed, TypeOK
<1>8. TypeOK'
  BY <1>0, <1>5, <1>6, <1>7 DEF TypeOK
<1>9. Elsewhere(s)
  BY <1>5, <1>6, <1>7 DEF Elsewhere
<1>10. RecordInv(s)'
  <2>1. ~updateRecordFile'[s]
    BY <1>5 DEF Wrote
  <2>2. /\ \E x \in Queries : recorder'[s].file = <<x, s>>
        /\ recorder'[s].cursor <= Len(files'[recorder'[s].file].recs)
    BY <1>0, <1>2, <1>5, RecorderAfter
  <2> QED BY <1>0, <1>2, <1>6, <2>1, <2>2 DEF RecordInv, Recording
<1>11. ReplayInv(s)'
  BY <1>2, <1>6 DEF ReplayInv
<1> QED BY <1>8, <1>9, <1>10, <1>11, OneSession

-----------------------------------------------------------------------------
(* A call that is served.                                                  *)

\* The records of the calls c.
EntriesOf(c) == [k \in 1..Len(c) |-> Entry(c[k].req, c[k].res)]

LEMMA EntriesAppend ==
    ASSUME NEW c \in Seq(Calls), NEW e \in Calls
    PROVE  EntriesOf(Append(c, e)) = Append(EntriesOf(c), Entry(e.req, e.res))
<1> DEFINE En(x) == Entry(x.req, x.res)
<1>1. PICK d, u, v : d = Append(c, e) /\ u = EntriesOf(c) /\ v = Append(u, En(e))
  OBVIOUS
<1>2. Len(c) \in Nat /\ Len(d) = Len(c) + 1 /\ d[Len(c) + 1] = e /\ \A k \in 1..Len(c) : d[k] = c[k]
  BY SMT, <1>1
<1> HIDE DEF En
<1>3. u = [k \in 1..Len(c) |-> En(c[k])]
  BY <1>1 DEF EntriesOf, En
<1>4. u \in Seq({En(x) : x \in Calls}) /\ Len(u) = Len(c)
  BY SMT, <1>2, <1>3
<1>5. Len(v) = Len(c) + 1 /\ v[Len(c) + 1] = En(e) /\ \A k \in 1..Len(c) : v[k] = En(c[k])
  BY SMT, <1>1, <1>2, <1>3, <1>4
<1>6. v = [k \in 1..Len(v) |-> v[k]]
  <2>1. En(e) \in {En(x) : x \in Calls}
    OBVIOUS
  <2>2. v \in Seq({En(x) : x \in Calls})
    BY SMT, <1>1, <1>4, <2>1
  <2> QED BY SMT, <2>2
<1>7. \A k \in 1..Len(d) : v[k] = En(d[k])
  BY SMT, <1>2, <1>5
<1>8. EntriesOf(d) = [k \in 1..Len(d) |-> En(d[k])]
  BY DEF EntriesOf, En
<1>9. EntriesOf(d) = v
  BY <1>2, <1>5, <1>6, <1>7, <1>8
<1> QED BY <1>1, <1>9 DEF En

\* The recorder of a session that records is behind its calls.
LEMMA RecorderBehind ==
    ASSUME TypeOK, NEW s \in Sessions, RecordInv(s), recordMode[s], ~replayMode[s], up[s] = "up"
    PROVE  LET r == Recorder(s)
               mine == LoggedOf(calls[s])
           IN  /\ r.file = <<prefix[s], s>> /\ r.cursor = Len(mine)
               /\ SubSeq(files[r.file].recs, 1, Len(mine)) = EntriesOf(mine)
<1>1. prefix[s] \in Queries /\ <<prefix[s], s>> \in Files /\ <<prefix[s], s>> # NoFile
  BY FilesHaveNames DEF RecordInv, Files
<1>2. CASE updateRecordFile[s]
  <2>1. calls[s] = <<>> /\ Recorder(s) = [file |-> <<prefix[s], s>>, cursor |-> 0]
    BY <1>2 DEF RecordInv, Recorder
  <2>2. LoggedOf(calls[s]) = <<>>
    BY <2>1, NoCalls
  <2>3. files[<<prefix[s], s>>].recs \in Seq(Entries)
    BY <1>1 DEF TypeOK, FileStates
  <2>4. SubSeq(files[<<prefix[s], s>>].recs, 1, 0) = <<>>
    BY SMT, <2>3
  <2>5. Len(<<>>) = 0 /\ EntriesOf(<<>>) = <<>>
    BY SMT DEF EntriesOf
  <2>6. PICK r, mine : r = Recorder(s) /\ mine = LoggedOf(calls[s])
    OBVIOUS
  <2>7. r.file = <<prefix[s], s>> /\ r.cursor = 0 /\ mine = <<>>
    BY SMT, <2>1, <2>2, <2>6
  <2>8. SubSeq(files[r.file].recs, 1, Len(mine)) = EntriesOf(mine) /\ r.cursor = Len(mine)
    BY <2>4, <2>5, <2>7
  <2> QED BY <2>6, <2>7, <2>8
<1>3. CASE ~updateRecordFile[s]
  <2>1. Recording(s)
    BY <1>3 DEF Recording
  <2>2. PICK mine : mine = LoggedOf(calls[s])
    OBVIOUS
  <2>3. /\ recorder[s].file = <<prefix[s], s>> /\ recorder[s].cursor = Len(mine)
        /\ SubSeq(files[<<prefix[s], s>>].recs, 1, Len(mine)) = EntriesOf(mine)
    BY <2>1, <2>2, CallsOf DEF RecordInv, EntriesOf
  <2>4. Recorder(s) = recorder[s]
    BY <1>1, <1>3, <2>3 DEF Recorder
  <2> QED BY <2>2, <2>3, <2>4
<1> QED BY <1>2, <1>3

\* A served call is in the file of a session that records.
LEMMA ServedRecords ==
    ASSUME TypeOK, NEW s \in Sessions, RecordInv(s), recordMode[s], ~replayMode[s], up[s] = "up",
           NEW c \in Calls, Wrote(s, c.req, Entry(c.req, c.res)), prefix'[s] = prefix[s],
           calls'[s] = Append(calls[s], c)
    PROVE  LET f == <<prefix'[s], s>>
               mine == LoggedOf(calls'[s])
           IN  /\ recorder'[s].file = f /\ recorder'[s].cursor = Len(mine)
               /\ SubSeq(files'[f].recs, 1, Len(mine)) = EntriesOf(mine)
<1>1. PICK r, mine, all, e :
        /\ r = Recorder(s) /\ mine = LoggedOf(calls[s])
        /\ all = LoggedOf(calls'[s]) /\ e = Entry(c.req, c.res)
  OBVIOUS
<1>2. /\ r.file = <<prefix[s], s>> /\ r.cursor = Len(mine)
      /\ SubSeq(files[r.file].recs, 1, Len(mine)) = EntriesOf(mine)
  BY <1>1, RecorderBehind
<1>3. calls[s] \in Seq(Calls)
  BY DEF TypeOK
<1>4. /\ mine \in Seq(Calls)
      /\ Logged(c.req) => all = Append(mine, c)
      /\ ~Logged(c.req) => all = mine
  BY <1>1, <1>3, LoggedAppend
<1>5. CASE Logged(c.req)
  <2>1. /\ recorder'[s].file = r.file /\ recorder'[s].cursor = r.cursor + 1
        /\ SubSeq(files'[r.file].recs, 1, r.cursor + 1) =
             Append(SubSeq(files[r.file].recs, 1, r.cursor), e)
    BY <1>1, <1>5 DEF Wrote
  <2>2. all = Append(mine, c) /\ Len(all) = Len(mine) + 1
    BY SMT, <1>4, <1>5
  <2>3. EntriesOf(all) = Append(EntriesOf(mine), e)
    BY <1>1, <1>4, <2>2, EntriesAppend
  <2>4. SubSeq(files'[r.file].recs, 1, Len(all)) = EntriesOf(all)
    BY <1>2, <2>1, <2>2, <2>3
  <2> QED BY <1>1, <1>2, <2>1, <2>2, <2>4
<1>6. CASE ~Logged(c.req)
  <2>1. /\ recorder'[s].file = r.file /\ recorder'[s].cursor = r.cursor
        /\ files'[r.file].recs = files[r.file].recs
    BY <1>1, <1>6 DEF Wrote
  <2> QED BY <1>1, <1>2, <1>4, <1>6, <2>1
<1> QED BY <1>5, <1>6

\* The part of RecordInv about the file, after a step.
LEMMA RecordIsNext ==
    ASSUME NEW s \in Sessions, recordMode'[s] => prefix'[s] \in Queries,
           recorder'[s].file # NoFile =>
              /\ \E x \in Queries : recorder'[s].file = <<x, s>>
              /\ recorder'[s].cursor <= Len(files'[recorder'[s].file].recs),
           recordMode'[s] /\ ~replayMode'[s] =>
              /\ ~updateRecordFile'[s]
              /\ LET f == <<prefix'[s], s>>
                     mine == LoggedOf(calls'[s])
                 IN  /\ recorder'[s].file = f /\ recorder'[s].cursor = Len(mine)
                     /\ SubSeq(files'[f].recs, 1, Len(mine)) = EntriesOf(mine)
    PROVE  RecordInv(s)'
<1>1. LoggedCalls(s)' = LoggedOf(calls'[s])
  BY DEF LoggedCalls, LoggedOf, LoggedAt
<1> QED BY <1>1 DEF RecordInv, Recording, EntriesOf

LEMMA ServedStep ==
    ASSUME RRInv, NEW s \in Sessions, NEW q \in Requests, Served(s, q)
    PROVE  RRInv'
<1>0. TypeOK /\ RecordInv(s) /\ ReplayInv(s) /\ up[s] = "up"
  BY DEF RRInv, Served, Calling
<1>1. PICK res \in Results : record(s, q, Entry(q, res)) /\ Called(s, q, "served", res)
  BY DEF Served
<1>2. UNCHANGED <<recordMode, replayMode, prefix, record_names, up>>
  BY DEF Served
<1>3. PICK r : r = replayer'[s]
  OBVIOUS
<1>4. /\ r = IF replayMode[s] THEN Replayer(s) ELSE replayer[s]
      /\ \A t \in Sessions \ {s} : replayer'[t] = replayer[t]
  BY <1>0, <1>3 DEF Served, TypeOK
<1>5. r \in Replayers /\ replayer' \in [Sessions -> Replayers]
  <2>1. replayer \in [Sessions -> Replayers]
    BY <1>0 DEF TypeOK, Replayers
  <2>2. r \in Replayers
    BY <1>0, <1>4, <2>1, ReplayerNow
  <2>3. replayer' = [replayer EXCEPT ![s] = IF replayMode[s] THEN Replayer(s) ELSE @]
    BY DEF Served
  <2>4. replayer' = [replayer EXCEPT ![s] = r]
    BY <1>4, <2>3
  <2> QED BY <2>1, <2>2, <2>4
<1>6. /\ updateReplayFile' \in [Sessions -> BOOLEAN]
      /\ buffer' \in [Sessions -> {"none", "shared", "private"}]
      /\ \A t \in Sessions \ {s} : updateReplayFile'[t] = updateReplayFile[t]
  BY <1>0 DEF Served, TypeOK
<1>7. PICK c : c = [req |-> q, how |-> "served", res |-> res,
                    file |-> r.file, intact |-> Intact(r)]
  OBVIOUS
<1>8. c \in Calls /\ c.req = q /\ c.res = res /\ c.how = "served"
  <2>1. Intact(r) \in BOOLEAN
    BY DEF Intact
  <2>2. r.file \in Files \cup {NoFile}
    BY <1>5 DEF Replayers
  <2> QED BY <1>7, <2>1, <2>2 DEF Calls
<1>9. /\ recordMode[s] \/ replayMode[s] => calls'[s] = Append(calls[s], c)
      /\ \A t \in Sessions \ {s} : calls'[t] = calls[t]
      /\ calls' \in [Sessions -> Seq(Calls)]
  <2>1. calls[s] \in Seq(Calls)
    BY <1>0 DEF TypeOK
  <2>2. Append(calls[s], c) \in Seq(Calls)
    BY SMT, <1>8, <2>1
  <2>3. CASE recordMode[s] \/ replayMode[s]
    <3>1. /\ calls'[s] = Append(calls[s], [req |-> q, how |-> "served", res |-> res,
                  file |-> replayer'[s].file, intact |-> Intact(replayer'[s])])
          /\ \A t \in Sessions \ {s} : calls'[t] = calls[t]
          /\ calls'[s] \in Seq(Calls) => calls' \in [Sessions -> Seq(Calls)]
      BY <1>0, <1>1, <2>3, CalledAdds
    <3> QED BY <1>3, <1>7, <2>2, <3>1
  <2>4. CASE ~recordMode[s] /\ ~replayMode[s]
    <3>1. calls' = calls
      BY <1>0, <1>1, <2>4 DEF Called, TypeOK
    <3> QED BY <1>0, <2>4, <3>1 DEF TypeOK
  <2> QED BY <2>3, <2>4
<1>10. /\ updateRecordFile' \in [Sessions -> BOOLEAN]
       /\ recorder' \in [Sessions -> [file : Files \cup {NoFile}, cursor : Nat]]
       /\ files' \in [Files -> FileStates]
       /\ \A t \in Sessions \ {s} :
            /\ recorder'[t] = recorder[t] /\ updateRecordFile'[t] = updateRecordFile[t]
            /\ \A x \in Queries : files'[<<x, t>>] = files[<<x, t>>]
       /\ recordMode[s] => Wrote(s, q, Entry(q, res))
       /\ ~recordMode[s] => UNCHANGED <<updateRecordFile, files, recorder>>
  <2>1. CASE recordMode[s]
    <3>1. Entry(q, res) \in Entries
      BY EntryIn DEF Entry
    <3> QED BY <1>0, <1>1, <2>1, <3>1, RecordStep
  <2>2. CASE ~recordMode[s]
    <3>1. UNCHANGED <<updateRecordFile, files, recorder>>
      BY <1>1, <2>2 DEF record
    <3> QED BY <1>0, <2>2, <3>1 DEF TypeOK
  <2> QED BY <2>1, <2>2
<1>11. TypeOK'
  BY <1>0, <1>2, <1>5, <1>6, <1>9, <1>10 DEF TypeOK, Replayers
<1>12. Elsewhere(s)
  BY <1>2, <1>4, <1>6, <1>9, <1>10 DEF Elsewhere
<1>13. RecordInv(s)'
  <2>1. CASE recordMode[s]
    <3>1. prefix'[s] \in Queries
      BY <1>0, <1>2, <2>1 DEF RecordInv
    <3>2. /\ \E x \in Queries : recorder'[s].file = <<x, s>>
          /\ recorder'[s].cursor <= Len(files'[recorder'[s].file].recs)
      BY <1>0, <1>10, <2>1, RecorderAfter
    <3>3. ~updateRecordFile'[s]
      BY <1>10, <2>1 DEF Wrote
    <3>4. ASSUME ~replayMode[s]
          PROVE  LET f == <<prefix'[s], s>>
                     mine == LoggedOf(calls'[s])
                 IN  /\ recorder'[s].file = f /\ recorder'[s].cursor = Len(mine)
                     /\ SubSeq(files'[f].recs, 1, Len(mine)) = EntriesOf(mine)
      <4>1. prefix'[s] = prefix[s] /\ calls'[s] = Append(calls[s], c)
        BY <1>2, <1>9, <2>1
      <4>2. Wrote(s, c.req, Entry(c.req, c.res))
        BY <1>8, <1>10, <2>1
      <4> QED BY <1>0, <1>8, <2>1, <3>4, <4>1, <4>2, ServedRecords
    <3> QED BY <1>2, <3>1, <3>2, <3>3, <3>4, RecordIsNext
  <2>2. CASE ~recordMode[s]
    BY <1>0, <1>2, <1>10, <2>2 DEF RecordInv, Recording
  <2> QED BY <2>1, <2>2
<1>14. ReplayInv(s)'
  <2>1. ASSUME replayMode[s], ~recordMode[s]
        PROVE  ~updateReplayFile'[s] /\ Replays(record_names'[s], calls'[s], r)
    <3>1. ~updateReplayFile'[s] /\ NOT_REPLAY(q)
      BY <1>0, <2>1 DEF Served, TypeOK, Passed
    <3>2. Replays(record_names[s], calls[s], r)
      BY <1>4, <2>1, ReplaysBefore
    <3>3. Replays(record_names[s], Append(calls[s], c), r)
      <4>1. calls[s] \in Seq(Calls)
        BY <1>0 DEF TypeOK
      <4> QED BY <1>8, <3>1, <3>2, <4>1, ReplaysPassed
    <3> QED BY <1>2, <1>9, <2>1, <3>1, <3>3
  <2> QED BY <1>2, <1>3, <2>1, ReplayIsNext
<1> QED BY <1>11, <1>12, <1>13, <1>14, OneSession

-----------------------------------------------------------------------------
(* The invariant, and what follows from it.                                *)

\* A stuttering step.
LEMMA StutterKeeps == RRInv /\ UNCHANGED vars => RRInv'
<1> SUFFICES ASSUME RRInv, UNCHANGED vars PROVE RRInv'
  OBVIOUS
<1>1. /\ UNCHANGED <<recordMode, replayMode, updateRecordFile, updateReplayFile, prefix,
                     record_names>>
      /\ UNCHANGED <<buffer, recorder, replayer, files, up, calls>>
  BY DEF vars, modeVars
<1>2. TypeOK'
  BY <1>1 DEF RRInv, TypeOK
<1>3. \A t \in Sessions : RecordInv(t)'
  BY <1>1, RecordFrame DEF RRInv
<1>4. \A t \in Sessions : ReplayInv(t)'
  BY <1>1, ReplayFrame DEF RRInv
<1> QED BY <1>2, <1>3, <1>4 DEF RRInv

LEMMA InitHolds == Init => RRInv
<1> SUFFICES ASSUME Init PROVE RRInv
  OBVIOUS
<1>1. Empty \in FileStates
  BY SMT DEF Empty, FileStates
<1>2. TypeOK
  <2>1. replayer \in [Sessions -> Replayers]
    BY <1>1 DEF Init, Closed, Replayers
  <2>2. files \in [Files -> FileStates]
    BY <1>1 DEF Init
  <2>3. calls \in [Sessions -> Seq(Calls)] /\ record_names \in [Sessions -> Seq(Files)]
    BY SMT DEF Init
  <2>4. recorder \in [Sessions -> [file : Files \cup {NoFile}, cursor : Nat]]
    BY DEF Init
  <2> QED BY <2>1, <2>2, <2>3, <2>4 DEF Init, TypeOK, Replayers
<1>3. ASSUME NEW s \in Sessions
      PROVE  RecordInv(s) /\ ReplayInv(s)
  BY DEF Init, RecordInv, Recording, ReplayInv
<1> QED BY <1>2, <1>3 DEF RRInv

LEMMA StepHolds == RRInv /\ [Next]_vars => RRInv'
<1> SUFFICES ASSUME RRInv, [Next]_vars PROVE RRInv'
  OBVIOUS
<1>1. CASE UNCHANGED vars
  BY <1>1, StutterKeeps
<1>2. CASE Next
  <2>1. PICK s \in Sessions :
          \/ \E x \in Queries : enable_record_mode(s, x)
          \/ \E x \in Queries : enable_replay_mode(s, x)
          \/ \E q \in Requests : Served(s, q)
          \/ \E q \in Requests : Killed(s, q)
          \/ \E q \in Requests : Waiting(s, q)
          \/ \E q \in Requests : Replayed(s, q)
          \/ Exit(s)
    BY <1>2 DEF Next
  <2> QED BY ZenonT(60), <2>1, RecordModeStep, ReplayModeStep, ServedStep, KilledStep, WaitingStep,
             ReplayedStep, ExitStep
<1> QED BY <1>1, <1>2

\* The invariant of recording and replaying: the Recorder's cursor counts the
\* session's logged calls and its file begins with them; a Replayer that repeats
\* its file has answered from it, record by record.
THEOREM RRInvariant == Spec => []RRInv
BY InitHolds, StepHolds, PTL DEF Spec

\* The log of a recording session holds its calls since enable_record_mode in
\* order, whatever the other sessions do (Recorder::record).
THEOREM LogsAreComplete == Spec => []LogComplete
<1>1. RRInv => LogComplete
  BY DEF RRInv, RecordInv, LogComplete
<1> QED BY <1>1, RRInvariant, PTL

\* No answer comes from a file that the last enable_replay_mode did not find
\* (update_replay_files).
THEOREM AnswersComeFromQuery == Spec => []AnswersFromQuery
<1>1. ASSUME RRInv, NEW s \in Sessions, Replaying(s), NEW k \in 1..Len(calls[s]),
             calls[s][k].how = "ok"
      PROVE  calls[s][k].file \in Range(record_names[s]) /\ calls[s][k].file = replayer[s].file
  <2>1. calls[s] \in Seq(Calls)
    BY <1>1 DEF RRInv, TypeOK
  <2>2. k \in DOMAIN calls[s]
    BY SMT, <1>1, <2>1
  <2> QED BY SMT, <1>1, <2>2 DEF RRInv, ReplayInv, Replaying
<1>2. RRInv => AnswersFromQuery
  BY <1>1 DEF AnswersFromQuery
<1> QED BY <1>2, RRInvariant, PTL

\* A replay that makes the recorded calls gets the recorded answers, for any
\* number of sessions, files and calls (Replayer::replay_request).
THEOREM ReplaysAreFaithful == Spec => []ReplayFaithful
<1>1. RRInv => ReplayFaithful
  BY ZenonT(60) DEF RRInv, ReplayInv, ReplayFaithful, Replaying
<1> QED BY <1>1, RRInvariant, PTL

\* The search of a first call among recordings that begin with its operation
\* ends at one that begins with the call itself (the loop of Replayer::replay).
THEOREM SearchesFind == Spec => SearchFinds
<1>1. ASSUME RRInv, NEW s \in Sessions, NEW q \in Requests,
             FirstReplay(s, q), q.op # "strcmp",
             \A f \in Range(record_names[s]) :
                files[f].recs # <<>> /\ Head(files[f].recs).op = q.op,
             \E f \in Range(record_names[s]) : FirstMatches(f, q)
      PROVE  LastCall(s)'.how = "ok" /\ FirstMatches(LastCall(s)'.file, q)
  <2>0. TypeOK /\ replayMode[s] /\ ~recordMode[s] /\ Replayed(s, q)
    BY <1>1 DEF RRInv, FirstReplay, Replayed, Passed
  <2>1. Replayer(s).file = NoFile
    <3>1. Replays(record_names[s], calls[s], Replayer(s))
      BY <1>1, <2>0, ReplaysBefore
    <3> QED BY <1>1, <3>1 DEF Replays, FirstReplay
  <2>2. PICK names : names = record_names[s]
    OBVIOUS
  <2>3. names \in Seq(Files) /\ \A k \in 1..Len(names) : names[k] \in Files /\ names[k] \in Range(names)
    <3>1. names \in Seq(Files)
      BY <2>0, <2>2 DEF TypeOK
    <3> QED BY SMT, <3>1 DEF Range
  <2>4. PICK o \in replay(s, q) :
          replayer' = [replayer EXCEPT ![s] = o.state] /\ Called(s, q, o.how, o.res)
    BY <2>0 DEF Replayed
  <2>5. o \in Search(names, q)
    BY <2>1, <2>2 DEF replay
  <2>6. \A k \in 1..Len(names) : \A p \in replay_request(Opened(names[k]), q) :
            \/ p.how = "ok" /\ FirstMatches(names[k], q)
            \/ p.how = "mismatch" /\ ~FirstMatches(names[k], q)
    BY ZenonT(60), <1>1, <2>0, <2>2, <2>3, FirstRecord
  <2>7. PICK m \in 1..Len(names) : FirstMatches(names[m], q)
    BY SMT, <1>1, <2>2, <2>3 DEF Range
  <2>8. PICK k \in 1..Len(names) :
          o \in replay_request(Opened(names[k]), q) /\ o.how # "mismatch"
    BY <2>5, <2>6, <2>7, SearchOpens
  <2>9. o.how = "ok" /\ FirstMatches(names[k], q)
    BY <2>6, <2>8
  <2>10. o.state.file = names[k]
    BY ZenonT(60), <2>0, <2>3, <2>8, OpenedIs, OutcomeKeeps
  <2>11. replayer'[s] = o.state
    BY <2>0, <2>4 DEF TypeOK
  <2>12. PICK c : c = [req |-> q, how |-> o.how, res |-> o.res,
                file |-> replayer'[s].file, intact |-> Intact(replayer'[s])]
    OBVIOUS
  <2>13. calls'[s] = Append(calls[s], c) /\ calls[s] \in Seq(Calls)
    <3>1. calls'[s] = Append(calls[s], [req |-> q, how |-> o.how, res |-> o.res,
                file |-> replayer'[s].file, intact |-> Intact(replayer'[s])])
      BY SMT, <2>0, <2>4, CalledAdds
    <3>2. calls[s] \in Seq(Calls)
      BY <2>0 DEF TypeOK
    <3> QED BY <2>12, <3>1, <3>2
  <2>14. LastCall(s)' = c
    BY SMT, <2>13 DEF LastCall
  <2>15. c.how = "ok" /\ c.file = names[k]
    BY <2>9, <2>10, <2>11, <2>12
  <2> QED BY <2>9, <2>14, <2>15
<1>2. RRInv /\ [Next]_vars =>
        [\A s \in Sessions, q \in Requests :
           LET names == Range(record_names[s])
               c == LastCall(s)'
           IN  (/\ FirstReplay(s, q) /\ q.op # "strcmp"
                /\ \A f \in names : files[f].recs # <<>> /\ Head(files[f].recs).op = q.op
                /\ \E f \in names : FirstMatches(f, q))
               => c.how = "ok" /\ FirstMatches(c.file, q)]_vars
  BY <1>1
<1> QED BY <1>2, RRInvariant, PTL DEF Spec, SearchFinds
=============================================================================
