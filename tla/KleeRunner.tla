----------------------------- MODULE KleeRunner -----------------------------
(***************************************************************************)
(* From records to constraint files: gen_constraint.sh starts the modified *)
(* KLEE for one batch of seeds after another, KLEE's main forks a child    *)
(* for every seed, a child writes the test of its seed, and run_z3.py      *)
(* solves the files, one line for each, in the order of their numbers.     *)
(* The log is then rebuilt from the lines by position.                     *)
(***************************************************************************)
EXTENDS Integers, Sequences, FiniteSets

CONSTANTS
    NUM,            \* seeds
    STEP,           \* seeds of a batch
    max_parallel,
    PathHasDigits   \* does the directory of the seeds have a digit in its name

ASSUME RunnerAssumption ==
    /\ NUM \in Nat /\ STEP \in Nat
    /\ max_parallel \in Nat \ {0}

VARIABLES
    order,              \* seeds as KLEE sorts them
    begin,              \* the batch of the script
    at,                 \* where the script or KLEE's main is
    i, current_parallel,
    leads,              \* is KLEE the leader of its process group
    child,              \* what became of the child for position j
    files,              \* tests written, by number
    lines,              \* run_z3.py's output: the seed each line is for
    died, forkFailed    \* history: children that wrote nothing, a fork that failed

rvars == <<order, begin, at, i, current_parallel, leads, child, files, lines, died, forkFailed>>

Positions == 0..(NUM - 1)

\* Seeds are compared by the first number in their path.
SortKey(s) == IF PathHasDigits THEN 0 ELSE s

getKTestFilesInDir ==
    {p \in [Positions -> Positions] :
        /\ \A a, b \in Positions : a # b => p[a] # p[b]
        /\ \A a, b \in Positions : a < b => SortKey(p[a]) <= SortKey(p[b])}

\* The children of this KLEE: waitpid does not see those of an earlier one.
Own == {j \in Positions : begin <= j /\ j < begin + STEP}
Running == {j \in Own : child[j] \in {"started", "written"}}
Zombies == {j \in Own : child[j] = "zombie"}
\* A child joins the group of its KLEE only if KLEE leads it; waitpid waits for that group.
Group(js) == IF leads THEN js ELSE {}
Unreaped == Running \cup Zombies

RInit ==
    /\ order \in getKTestFilesInDir
    /\ begin = 0 /\ at = "script" /\ i = 0 /\ current_parallel = 0
    /\ leads \in BOOLEAN
    /\ child = [j \in Positions |-> "none"]
    /\ files = {} /\ lines = <<>>
    /\ died = {} /\ forkFailed = FALSE

-----------------------------------------------------------------------------
(* gen_constraint.sh                                                       *)

StartKlee ==
    /\ at = "script" /\ begin <= NUM
    /\ at' = "loop" /\ i' = begin /\ current_parallel' = 0
    /\ UNCHANGED <<order, begin, leads, child, files, lines, died, forkFailed>>

\* The lines for tests fs, which are solved in the order of their numbers.
Solved(fs) ==
    LET N == Cardinality(fs)
        sorted == CHOOSE q \in [1..N -> fs] : \A a, b \in 1..N : a < b => q[a].id < q[b].id
    IN  [k \in 1..N |-> sorted[k].seed]

\* The test files are copied together, and solved.
Collect ==
    /\ at = "script" /\ begin > NUM
    /\ at' = "collected"
    /\ lines' = Solved(files)
    /\ UNCHANGED <<order, begin, i, current_parallel, leads, child, files, died, forkFailed>>

\* KLEE's main returns, and the script goes on with the next batch.
Exit == at' = "script" /\ begin' = begin + STEP

-----------------------------------------------------------------------------
(* main's loop over the seeds                                              *)

NextSeed ==
    /\ at = "loop"
    /\ IF i < NUM /\ i < begin + STEP
       THEN at' = "throttle" /\ current_parallel' = current_parallel + 1
       ELSE at' = "drain" /\ UNCHANGED current_parallel
    /\ UNCHANGED <<order, begin, i, leads, child, files, lines, died, forkFailed>>

\* Plausible bug: only a child that was waited for is counted.
WaitOne_Checked ==
    \/ /\ current_parallel' = current_parallel - 1
       /\ \E j \in Group(Zombies) : child' = [child EXCEPT ![j] = "reaped"]
    \/ /\ Group(Unreaped) = {}
       /\ UNCHANGED <<current_parallel, child>>

\* waitpid, blocking: a child of the group that has ended, or an error at once when
\* the group has no child.
WaitOne ==
    /\ current_parallel' = current_parallel - 1
    /\ \/ \E j \in Group(Zombies) : child' = [child EXCEPT ![j] = "reaped"]
       \/ Group(Unreaped) = {} /\ UNCHANGED child

\* Plausible bug: one child more than the limit.
Throttle_OneMore ==
    /\ at = "throttle"
    /\ IF current_parallel > max_parallel + 1
       THEN WaitOne /\ at' = "poll"
       ELSE at' = "fork" /\ UNCHANGED <<current_parallel, child>>
    /\ UNCHANGED <<order, begin, i, leads, files, lines, died, forkFailed>>

Throttle ==
    /\ at = "throttle"
    /\ IF current_parallel > max_parallel
       THEN WaitOne /\ at' = "poll"
       ELSE at' = "fork" /\ UNCHANGED <<current_parallel, child>>
    /\ UNCHANGED <<order, begin, i, leads, files, lines, died, forkFailed>>

\* waitpid with WNOHANG.
Poll ==
    /\ at = "poll"
    /\ IF Group(Zombies) # {}
       THEN /\ \E j \in Group(Zombies) : child' = [child EXCEPT ![j] = "reaped"]
            /\ current_parallel' = current_parallel - 1 /\ UNCHANGED at
       ELSE at' = "throttle" /\ UNCHANGED <<child, current_parallel>>
    /\ UNCHANGED <<order, begin, i, leads, files, lines, died, forkFailed>>

Fork ==
    /\ at = "fork"
    /\ \/ /\ child' = [child EXCEPT ![i] = "started"]
          /\ i' = i + 1 /\ at' = "loop"
          /\ UNCHANGED <<begin, forkFailed>>
       \/ \* "fork failed", exit(0)
          /\ forkFailed' = TRUE /\ Exit
          /\ UNCHANGED <<child, i>>
    /\ UNCHANGED <<order, current_parallel, leads, files, lines, died>>

\* Plausible bug: the children that are still running are not waited for.
Drain_NoWait ==
    /\ at = "drain" /\ Exit
    /\ UNCHANGED <<order, i, current_parallel, leads, child, files, lines, died, forkFailed>>

Drain ==
    /\ at = "drain"
    /\ IF current_parallel > 0
       THEN WaitOne /\ UNCHANGED <<at, begin>>
       ELSE Exit /\ UNCHANGED <<child, current_parallel>>
    /\ UNCHANGED <<order, i, leads, files, lines, died, forkFailed>>

-----------------------------------------------------------------------------
(* The child for position j                                                *)

\* set_total_test and processTestCase: the test's number is the position's.
WriteTest(j) ==
    /\ child[j] = "started"
    /\ child' = [child EXCEPT ![j] = "written"]
    /\ files' = files \cup {[id |-> j + 1, seed |-> order[j]]}
    /\ UNCHANGED <<order, begin, at, i, current_parallel, leads, lines, died, forkFailed>>

\* A child ends after it has written its test, or dies before (a time limit, a signal).
ChildExit(j) ==
    /\ child[j] \in {"started", "written"}
    /\ child' = [child EXCEPT ![j] = "zombie"]
    /\ died' = IF child[j] = "started" THEN died \cup {j} ELSE died
    /\ UNCHANGED <<order, begin, at, i, current_parallel, leads, files, lines, forkFailed>>

RunnerStep == StartKlee \/ Collect \/ NextSeed \/ Throttle \/ Poll \/ Fork \/ Drain
RNext == RunnerStep \/ \E j \in Positions : WriteTest(j) \/ ChildExit(j)

RSpec == RInit /\ [][RNext]_rvars

RFairness == WF_rvars(RunnerStep) /\ \A j \in Positions : WF_rvars(ChildExit(j))

-----------------------------------------------------------------------------
(* Properties.                                                             *)

(***************************************************************************)
(* A KLEE that leads its process group never has more than max_parallel    *)
(* children that it has not waited for (main, current_parallel).           *)
(***************************************************************************)
ParallelBounded == leads => Cardinality(Unreaped) <= max_parallel

\* What main's counter counts: the children not waited for and, until it is forked,
\* the one about to be.  Positions that were not reached have no child.
RInv ==
    /\ child \in [Positions -> {"none", "started", "written", "zombie", "reaped"}]
    /\ at \in {"script", "loop", "throttle", "poll", "fork", "drain", "collected"}
    /\ begin \in Nat /\ i \in Nat /\ current_parallel \in Int /\ leads \in BOOLEAN
    /\ at \in {"script", "collected"} => \A j \in Positions : j >= begin => child[j] = "none"
    /\ at \notin {"script", "collected"} =>
        /\ begin <= i /\ i <= begin + STEP
        /\ \A j \in Positions : j >= i => child[j] = "none"
    /\ at \in {"throttle", "poll", "fork"} => i < NUM /\ i < begin + STEP
    /\ leads /\ at \in {"loop", "drain"} => current_parallel = Cardinality(Unreaped)
    /\ leads /\ at \in {"throttle", "poll", "fork"} =>
        current_parallel = Cardinality(Unreaped) + 1
    /\ leads /\ at = "fork" => current_parallel <= max_parallel
    /\ ParallelBounded

(***************************************************************************)
(* What max_parallel is there for, however KLEE was started.  It does not  *)
(* hold: a KLEE that a script starts leads no process group.               *)
(***************************************************************************)
ParallelAlwaysBounded == Cardinality(Unreaped) <= max_parallel

(***************************************************************************)
(* The k-th line is the solution for the k-th record: when KLEE leads its  *)
(* process group, no fork fails and no child dies, every test is written   *)
(* before the files are copied; and whenever there is a line for every     *)
(* record the lines are in the records' order (main, run_z3.py).           *)
(***************************************************************************)
LinesMatch ==
    at = "collected" /\ (Len(lines) = NUM \/ (leads /\ died = {} /\ ~forkFailed))
        => lines = [k \in 1..NUM |-> k - 1]

\* What makes it so: the tests are those of the positions, a child that did not die
\* has written its own before it ends, and when no fork failed a KLEE that leads its
\* group leaves no position of a finished batch without a child it has waited for.
Tests == {[id |-> j + 1, seed |-> order[j]] : j \in Positions}

WrittenInv ==
    /\ order \in getKTestFilesInDir
    /\ files \subseteq Tests
    /\ \A j \in Positions : child[j] \in {"written", "zombie", "reaped"} =>
        j \in died \/ [id |-> j + 1, seed |-> order[j]] \in files

BatchInv ==
    /\ leads /\ ~forkFailed =>
        \A j \in Positions : j < begin => child[j] = "reaped"
    /\ at \notin {"script", "collected"} =>
        \A j \in Positions : begin <= j /\ j < i => child[j] # "none"
    /\ at = "drain" => i >= NUM \/ i >= begin + STEP

LinesInv ==
    /\ RInv /\ WrittenInv /\ BatchInv
    /\ at = "collected" /\ (Len(lines) = NUM \/ (leads /\ died = {} /\ ~forkFailed))
        => lines = [k \in 1..NUM |-> order[k - 1]]
=============================================================================
