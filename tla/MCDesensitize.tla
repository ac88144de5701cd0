--------------------------- MODULE MCDesensitize ----------------------------
(***************************************************************************)
(* The modified KLEE on small instances: the replay of one seed through    *)
(* every program of three instructions, and the pool of children that      *)
(* replays the seeds.  The two are independent; mode says which is run.    *)
(***************************************************************************)
EXTENDS SeedReplay, KleeRunner

CONSTANT Modes

VARIABLE mode

MCInputs == [left : 0..3, right : 0..1]

Symbolic == <<[op |-> "symbolic", src |-> "left"], [op |-> "symbolic", src |-> "right"]>>
Ops == {"arith", "float", "external", "get", "br", "switch", "indirectbr", "call",
        "alloc", "free", "load", "store"}
First == [op : Ops, src : {"left"}]
Others == [op : Ops, src : {"left", "t"}] \cup [op : {"unreachable"}, src : {"t"}]
Ends == [k \in 1..3 |-> [op |-> "ret", src |-> "t"]]
MCCodes == {Symbolic \o <<a, b, c>> \o Ends : a \in First, b, c \in Others}
           \cup {Symbolic \o Symbolic \o Ends}

MCKTests == MCInputs \cup {[left |-> Missing, right |-> 0], [left |-> 1, right |-> WrongSize]}

\* The part that is not run stays in one state.
ReplayIdle == code = <<>> /\ ktest = [left |-> 0] /\ pc = 0 /\ locals = <<>> /\ memory = <<>>
              /\ objects = {} /\ constraints = {} /\ seed = [left |-> 0] /\ bound = {}
              /\ tests = <<>> /\ running = TRUE /\ steps = 0 /\ fixed = {} /\ patched = FALSE
RunnerIdle == order = <<>> /\ begin = 0 /\ at = "off" /\ i = 0 /\ current_parallel = 0
              /\ leads = FALSE /\ child = [j \in Positions |-> "none"] /\ files = {} /\ lines = <<>>
              /\ died = {} /\ forkFailed = FALSE

MCInit ==
    /\ mode \in Modes
    /\ IF mode = "replay" THEN Init /\ RunnerIdle ELSE RInit /\ ReplayIdle

MCNext ==
    \/ mode = "replay" /\ Next /\ UNCHANGED <<rvars, mode>>
    \/ mode = "runner" /\ RNext /\ UNCHANGED <<vars, mode>>

MCSpec ==
    /\ MCInit /\ [][MCNext]_<<vars, rvars, mode>>
    /\ WF_vars(mode = "replay" /\ Next /\ UNCHANGED <<rvars, mode>>)
    /\ WF_rvars(mode = "runner" /\ RunnerStep /\ UNCHANGED <<vars, mode>>)
    /\ \A j \in Positions : WF_rvars(mode = "runner" /\ ChildExit(j) /\ UNCHANGED <<vars, mode>>)

(***************************************************************************)
(* Everything that is started ends: the replay of a seed with one test     *)
(* written, and the script with the files collected, whichever children    *)
(* die, whatever forks fail and whether or not waitpid finds a child       *)
(* (Executor::run, main).                                                  *)
(***************************************************************************)
DesensitizeEnds ==
    <>[](IF mode = "replay" THEN ~running /\ Len(tests) = 1 ELSE at = "collected")
=============================================================================
