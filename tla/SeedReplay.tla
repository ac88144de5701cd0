----------------------------- MODULE SeedReplay -----------------------------
(***************************************************************************)
(* The modified KLEE: an executor that follows one recorded input, the     *)
(* seed, through an operator and collects the constraints of its path.     *)
(* The constraints become an .smt2 file; a solution of it is the input of  *)
(* the anonymized log.                                                     *)
(*                                                                         *)
(* A symbolic expression is a function of the input: E[x] is its value     *)
(* when the symbolic objects hold x.  Constraints are the set of inputs    *)
(* that satisfy them.  The interpreted program is a sequence of            *)
(* instructions that compute into the register t; a branch goes to one of  *)
(* the two instructions that follow.                                       *)
(***************************************************************************)
EXTENDS Integers, Sequences

CONSTANTS
    Inputs,     \* functions from the names of the symbolic objects to values
    Codes,      \* programs: sequences of [op, src]
    KTests      \* seeds: functions from the names to values, Missing or WrongSize

VARIABLES
    code, ktest,
    pc,            \* the state's instruction
    locals,        \* its registers, expressions
    memory,        \* its memory, an expression for every address
    objects,       \* sets of addresses that are bound
    constraints,
    seed,          \* what the seed binds the objects to
    bound,         \* names that have been made symbolic
    tests,         \* test cases that were written
    running,       \* states is not empty
    steps, fixed, patched   \* history: instructions done, the inputs that agree with the
                            \* seed where no constraint says so, has the seed changed

state == <<pc, locals, memory, objects>>
history == <<steps, fixed, patched>>
vars == <<code, ktest, state, constraints, seed, bound, tests, running, history>>

-----------------------------------------------------------------------------
(* The machine that is interpreted: values are 0 to 3, and so are the      *)
(* addresses.  0 is the null pointer, 1 and 2 are for malloc, and 3 is a   *)
(* global that is read-only.                                               *)

Values == 0..3
Heap == {1, 2}
Global == {3}
Base(o) == IF o = Global THEN 3 ELSE 1

Missing == -1
WrongSize == -2

Added(v, w) == (v + w) % 4
FloatResult(v) == v \div 2
ExternalResult(v) == 3 - v
AllocSize(v) == 1 + (v \div 2)
\* The instruction, relative to the next, that a value of a condition, of a switch, of
\* a label's address or of a function pointer leads to.
BrTarget(v) == IF v >= 2 THEN 0 ELSE 1
SwitchTarget(v) == IF v = 0 THEN 0 ELSE 1
LabelTarget(v) == v % 2
CallTarget(v) == v - 1
LegalFunctions == {1, 2}

Const(v) == [x \in Inputs |-> v]

-----------------------------------------------------------------------------
(* The programs are the wrappers of the operators: each makes all of its   *)
(* objects symbolic before it does anything else, and every path of it     *)
(* ends with a return or an unreachable instruction.  A seed with a value  *)
(* of the right size for every object is one of the inputs.                *)

Names == UNION {DOMAIN x : x \in Inputs}

MadeSymbolic(c, n, k) == \E j \in 1..k - 1 : c[j].op = "symbolic" /\ c[j].src = n

Wrapper(c) ==
    /\ Len(c) \in Nat \ {0}
    /\ \A k \in 1..Len(c) :
         /\ c[k].src \in Names \cup {"t"}
         /\ c[k].op = "symbolic" => c[k].src \in Names /\ k < Len(c)
         /\ c[k].op \notin {"symbolic", "ret", "unreachable"} =>
              k + 2 <= Len(c) /\ \A n \in Names : MadeSymbolic(c, n, k)

ASSUME ReplayAssumption ==
    /\ Inputs \subseteq [Names -> Values]
    /\ "right" \in Names /\ "t" \notin Names
    /\ \A k \in KTests :
         /\ DOMAIN k = Names
         /\ (\A n \in Names : k[n] \notin {Missing, WrongSize}) => k \in Inputs
    /\ \A c \in Codes : Wrapper(c)

-----------------------------------------------------------------------------

I == code[pc]
E == locals[I.src]

\* The inputs for which an expression has a value in vs.
Where(e, vs) == {x \in Inputs : e[x] \in vs}

-----------------------------------------------------------------------------
(* Seeds and constraints.                                                  *)

\* SeedInfo::patchSeed (external): another input that satisfies everything.
patchSeed(C) == seed' \in constraints \cap C /\ patched' = TRUE

\* Plausible bug: a seed that violates the constraint stays.
addConstraint_NoPatch(C) ==
    constraints' = constraints \cap C /\ UNCHANGED <<seed, patched>>

\* A constraint that the seed violates changes the seed.
addConstraint(C) ==
    /\ constraints' = constraints \cap C
    /\ IF seed \in C THEN UNCHANGED <<seed, patched>> ELSE patchSeed(C)

\* Plausible bug: the negation of a condition that the seed does not meet is not added.
fork_TrueOnly(C) == addConstraint(IF seed \in C THEN C ELSE Inputs)

\* The state goes where the seed goes, and no state is made for the other side.
fork(C) == addConstraint(IF seed \in C THEN C ELSE Inputs \ C)

\* With one seed there is one condition, which the seed satisfies.
branch(C) == addConstraint(C)

\* An expression is replaced by the value the seed gives it; no constraint says so.
toUnique(e) == e[seed]

\* History: the inputs that agree with the seed on an expression.
Fix(e, vs) == fixed' = fixed \cap Where(e, vs)

\* The solver's value for an expression, which is made a constraint.
toConstant(e, v) == v \in {e[x] : x \in constraints} /\ addConstraint(Where(e, {v}))

-----------------------------------------------------------------------------
(* The end of a state.                                                     *)

\* The .smt2 file of a test has the constraints of the path, and nothing else.
getConstraintLog == constraints'

processTestCase(kind) == tests' = Append(tests, [kind |-> kind, smt2 |-> getConstraintLog])

\* The state and its seed are removed, and with them the last of the seeds.
updateStates == running' = FALSE

terminateState ==
    /\ updateStates
    /\ steps' = steps + 1
    /\ UNCHANGED <<code, ktest, state, bound>>

terminateStateOnExit == processTestCase("exit") /\ terminateState

\* A seed has a process of its own, so that no error was emitted before.
terminateStateOnError(kind) == processTestCase(kind) /\ terminateState

\* The state goes on with the instruction to, t being e.
Continue(to, e) ==
    /\ pc' = to /\ locals' = [locals EXCEPT !["t"] = e]
    /\ steps' = steps + 1
    /\ UNCHANGED <<code, ktest, bound, tests, running>>

Next1 == pc + 1
Unconstrained == UNCHANGED <<constraints, seed, patched>>

-----------------------------------------------------------------------------
(* executeInstruction.                                                     *)

Executing(op) == running /\ I.op = op

\* klee_make_symbolic: the seed's object of that name, once.
executeMakeSymbolic ==
    /\ Executing("symbolic")
    /\ LET n == I.src
           obj == IF n \in bound THEN Missing ELSE ktest[n]
       IN  IF obj \in {Missing, WrongSize}
           THEN Unconstrained /\ terminateStateOnError("user") /\ UNCHANGED fixed
           ELSE /\ seed' = [seed EXCEPT ![n] = obj]
                /\ locals' = [locals EXCEPT ![n] = [x \in Inputs |-> x[n]]]
                /\ bound' = bound \cup {n} /\ pc' = Next1 /\ steps' = steps + 1
                /\ UNCHANGED <<code, ktest, memory, objects, constraints, tests, running,
                               fixed, patched>>

\* Integer arithmetic, comparisons, casts, selects, addresses: an expression is built.
Arithmetic ==
    /\ Executing("arith")
    /\ Continue(Next1, [x \in Inputs |-> Added(E[x], locals["right"][x])])
    /\ Unconstrained /\ UNCHANGED <<memory, objects, fixed>>

\* Floating point: operands are made constants.
FloatingPoint ==
    /\ Executing("float")
    /\ \E v \in Values : toConstant(E, v) /\ Continue(Next1, Const(FloatResult(v)))
    /\ UNCHANGED <<memory, objects, fixed>>

Br ==
    /\ Executing("br")
    /\ fork(Where(E, {v \in Values : BrTarget(v) = 0}))
    /\ Continue(Next1 + BrTarget(E[seed]), locals["t"])
    /\ UNCHANGED <<memory, objects, fixed>>

\* toUnique always has a value, so that the cases for a symbolic one are never reached.
GotoUnique(target) ==
    /\ Continue(Next1 + target, locals["t"])
    /\ Fix(E, {toUnique(E)})
    /\ Unconstrained /\ UNCHANGED <<memory, objects>>

Switch == Executing("switch") /\ GotoUnique(SwitchTarget(toUnique(E)))

\* The address of a label of the function.
IndirectBr == Executing("indirectbr") /\ GotoUnique(LabelTarget(toUnique(E)))

\* One round of the search for a function pointer: the solver proposes a value, and
\* the state keeps looking while it is not the seed's.
Call ==
    /\ Executing("call")
    /\ \E v \in {E[x] : x \in constraints} :
         /\ fork(Where(E, {v}))
         /\ IF seed \notin Where(E, {v})
            THEN UNCHANGED <<code, ktest, state, bound, tests, running, steps, fixed>>
            ELSE IF v \in LegalFunctions
            THEN Continue(Next1 + CallTarget(v), locals["t"]) /\ UNCHANGED <<memory, objects, fixed>>
            ELSE terminateStateOnError("exec") /\ UNCHANGED fixed

\* The function runs in KLEE's own process, and may fail there.
callExternalFunction ==
    /\ Executing("external")
    /\ Fix(E, {toUnique(E)})
    /\ Unconstrained
    /\ \/ Continue(Next1, Const(ExternalResult(toUnique(E)))) /\ UNCHANGED <<memory, objects>>
       \/ terminateStateOnError("external")

executeGetValue ==
    /\ Executing("get")
    /\ branch(Where(E, {E[seed]}))
    /\ Continue(Next1, Const(E[seed]))
    /\ UNCHANGED <<memory, objects, fixed>>

\* malloc of an expression's value.  The heap of the model has room for one object.
executeAlloc ==
    /\ Executing("alloc")
    /\ LET o == 1..AllocSize(toUnique(E))
           free == objects \subseteq {Global}
       IN  /\ Continue(Next1, Const(IF free THEN Base(o) ELSE 0))
           /\ objects' = IF free THEN objects \cup {o} ELSE objects
           /\ memory' = IF free THEN [a \in Values |-> IF a \in o THEN Const(0) ELSE memory[a]]
                        ELSE memory
    /\ Fix(E, {v \in Values : AllocSize(v) = AllocSize(toUnique(E))})
    /\ Unconstrained

\* resolveExact for the objects that the pointer can be the base of.
executeFree ==
    /\ Executing("free")
    /\ LET p == E[seed]
       IN  IF p = 0
           THEN /\ fork(Where(E, {0})) /\ Continue(Next1, locals["t"])
                /\ UNCHANGED <<memory, objects, fixed>>
           ELSE \* each object's base is compared with the pointer until it is the seed's
                /\ addConstraint(IF \E o \in objects : Base(o) = p THEN Where(E, {p})
                                 ELSE Inputs \ Where(E, {0} \cup {Base(o) : o \in objects}))
                /\ IF \E o \in objects \ {Global} : Base(o) = p
                   THEN /\ Continue(Next1, locals["t"])
                        /\ objects' = {o \in objects : Base(o) # p}
                        /\ UNCHANGED <<memory, fixed>>
                   ELSE \* no object, or one that malloc did not return
                        /\ terminateStateOnError(IF Base(Global) = p THEN "free" ELSE "ptr")
                        /\ UNCHANGED fixed

-----------------------------------------------------------------------------
(* executeMemoryOperation.                                                 *)

\* A read or write in object o: the offset stays symbolic.
Access(o, isWrite) ==
    IF isWrite
    THEN /\ Continue(Next1, locals["t"])
         /\ memory' = [a \in Values |->
                          IF a \in o
                          THEN [x \in Inputs |-> IF E[x] = a THEN locals["right"][x] ELSE memory[a][x]]
                          ELSE memory[a]]
         /\ UNCHANGED objects
    ELSE /\ Continue(Next1, [x \in Inputs |-> IF E[x] \in o THEN memory[E[x]][x] ELSE 0])
         /\ UNCHANGED <<memory, objects>>

\* One object the address may be in is resolved.  If the seed's address is in its
\* bounds the access is done, without a constraint; if not, every object is tried
\* with a fork, and the state ends unless one has the seed's address.
executeMemoryOperation(isWrite) ==
    /\ Executing(IF isWrite THEN "store" ELSE "load")
    /\ LET possible == {o \in objects : \E x \in constraints : E[x] \in o}
           hit == {o \in objects : E[seed] \in o}
           readOnly == isWrite /\ Global \in hit
       IN  \/ \E o \in possible \cap hit :
                /\ Unconstrained /\ Fix(E, o)
                /\ IF readOnly THEN terminateStateOnError("readonly") ELSE Access(o, isWrite)
           \/ /\ possible \ hit # {} \/ hit = {}
              /\ addConstraint(IF hit = {} THEN Inputs \ Where(E, UNION objects)
                               ELSE Where(E, UNION hit))
              /\ IF hit = {} THEN terminateStateOnError("ptr")
                 ELSE IF readOnly THEN terminateStateOnError("readonly")
                 ELSE Access(UNION hit, isWrite)
              /\ UNCHANGED fixed

\* The outermost function returns.
Ret ==
    /\ Executing("ret")
    /\ Unconstrained /\ terminateStateOnExit /\ UNCHANGED fixed

Unreachable ==
    /\ Executing("unreachable")
    /\ Unconstrained /\ terminateStateOnError("exec") /\ UNCHANGED fixed

-----------------------------------------------------------------------------
\* runFunctionAsMain and the start of run: one state, one seed.
Init ==
    /\ code \in Codes /\ ktest \in KTests
    /\ pc = 1
    /\ locals = [r \in DOMAIN ktest \cup {"t"} |-> Const(0)]
    /\ memory = [a \in Values |-> Const(a)]
    /\ objects = {Global}
    /\ constraints = Inputs
    /\ seed = [n \in DOMAIN ktest |-> 0] /\ bound = {}
    /\ tests = <<>> /\ running = TRUE
    /\ steps = 0 /\ fixed = Inputs /\ patched = FALSE

executeInstruction ==
    \/ executeMakeSymbolic \/ Arithmetic \/ FloatingPoint \/ Br \/ Switch
    \/ IndirectBr \/ Call \/ callExternalFunction \/ executeGetValue \/ executeAlloc \/ executeFree
    \/ executeMemoryOperation(FALSE) \/ executeMemoryOperation(TRUE) \/ Ret \/ Unreachable

Next == executeInstruction

Spec == Init /\ [][Next]_vars /\ WF_vars(Next)

-----------------------------------------------------------------------------
(* What the program does on one input, without KLEE: the reference.        *)

\* A machine state after one more instruction.  t, mem and objs are values.
Halt(s, kind) == [s EXCEPT !.end = kind]
Goto(s, k) == [s EXCEPT !.pc = s.pc + 1 + k]
SetT(s, v) == [Goto(s, 0) EXCEPT !.t = v]

ConcreteAccess(s, a, isWrite, w) ==
    IF a \notin UNION s.objs THEN Halt(s, "ptr")
    ELSE IF ~isWrite THEN SetT(s, s.mem[a])
    ELSE IF a \in Global THEN Halt(s, "readonly")
    ELSE [Goto(s, 0) EXCEPT !.mem[a] = w]

ConcreteAlloc(s, v) ==
    IF s.objs \subseteq {Global}
    THEN [SetT(s, 1) EXCEPT !.objs = s.objs \cup {1..AllocSize(v)},
                            !.mem = [a \in Values |->
                                        IF a \in 1..AllocSize(v) THEN 0 ELSE s.mem[a]]]
    ELSE SetT(s, 0)

ConcreteFree(s, v) ==
    CASE v = 0 -> Goto(s, 0)
      [] v = Base(Global) -> Halt(s, "free")
      [] v # 0 /\ v # Base(Global) ->
           IF \E o \in s.objs : Base(o) = v
           THEN [Goto(s, 0) EXCEPT !.objs = {Global}] ELSE Halt(s, "ptr")

ConcreteStep(c, x, s) ==
    LET op == c[s.pc].op
        src == c[s.pc].src
        v == IF src = "t" THEN s.t ELSE x[src]
    IN  CASE op = "symbolic" -> Goto(s, 0)
          [] op = "arith" -> SetT(s, Added(v, x["right"]))
          [] op = "float" -> SetT(s, FloatResult(v))
          [] op = "external" -> SetT(s, ExternalResult(v))
          [] op = "get" -> SetT(s, v)
          [] op = "br" -> Goto(s, BrTarget(v))
          [] op = "switch" -> Goto(s, SwitchTarget(v))
          [] op = "indirectbr" -> Goto(s, LabelTarget(v))
          [] op = "call" -> IF v \in LegalFunctions THEN Goto(s, CallTarget(v)) ELSE Halt(s, "exec")
          [] op = "alloc" -> ConcreteAlloc(s, v)
          [] op = "free" -> ConcreteFree(s, v)
          [] op \in {"load", "store"} -> ConcreteAccess(s, v, op = "store", x["right"])
          [] op = "ret" -> Halt(s, "exit")
          [] op = "unreachable" -> Halt(s, "exec")

\* The machine after n instructions of c on the input x.
Concrete(c, x, n) ==
    LET run[k \in 0..n] ==
            IF k = 0
            THEN [pc |-> 1, t |-> 0, mem |-> [a \in Values |-> a], objs |-> {Global}, end |-> "no"]
            ELSE ConcreteStep(c, x, run[k-1])
    IN  run[n]

\* The executor's state, evaluated for one input.
Evaluated(x) ==
    [pc |-> pc, t |-> locals["t"][x], mem |-> [a \in Values |-> memory[a][x]],
     objs |-> objects, end |-> IF running THEN "no" ELSE tests[1].kind]

\* The ends that are not the program's: an unusable seed, a failed external call.
Aborted == ~running /\ tests[1].kind \in {"user", "external"}

-----------------------------------------------------------------------------
(* Properties.                                                             *)

(***************************************************************************)
(* The control flow is reproduced: an input that satisfies the             *)
(* constraints, and agrees with the seed where a value was used without a  *)
(* constraint (toUnique, the bounds of a memory access), takes the same    *)
(* instructions, computes what the executor's expressions say and ends in  *)
(* the same way (fork, branch, toConstant, addConstraint).                 *)
(***************************************************************************)
SolutionsFollow ==
    ~Aborted => \A x \in constraints \cap fixed : Evaluated(x) = Concrete(code, x, steps)

(***************************************************************************)
(* The seed satisfies every constraint that was collected, so getValue on  *)
(* it never asserts and the test case has a solution; and the seed is the  *)
(* record until a constraint is patched in, so that without floating       *)
(* point the record is a solution that follows its own path.               *)
(***************************************************************************)
SeedSatisfies ==
    bound = DOMAIN ktest =>
        /\ seed \in constraints
        /\ ~patched => seed = ktest /\ seed \in fixed

(***************************************************************************)
(* The inductive invariant of the replay: the types of the state; what the *)
(* executor knows of an object that has been made symbolic; that nothing   *)
(* else has run while there is one that has not; and the two invariants.   *)
(***************************************************************************)
ReplayTypeOK ==
    /\ code \in Codes /\ ktest \in KTests /\ pc \in 1..Len(code) /\ steps \in Nat
    /\ locals \in [Names \cup {"t"} -> [Inputs -> Values]]
    /\ memory \in [Values -> [Inputs -> Values]]
    /\ Global \in objects /\ objects \subseteq {Global, 1..1, 1..2}
    /\ constraints \subseteq Inputs /\ fixed \subseteq Inputs
    /\ bound \subseteq Names /\ DOMAIN seed = Names
    /\ running \in BOOLEAN /\ patched \in BOOLEAN
    /\ IF running THEN tests = <<>> ELSE Len(tests) = 1

OnlySymbolic ==
    /\ \A j \in 1..pc - 1 : code[j].op = "symbolic" /\ code[j].src \in bound
    /\ constraints = Inputs /\ fixed = Inputs /\ ~patched
    /\ \A n \in bound : seed[n] = ktest[n]

ObjectsBound ==
    /\ \A n \in bound : /\ locals[n] = [x \in Inputs |-> x[n]]
                        /\ ktest[n] \notin {Missing, WrongSize}
    /\ bound # Names => OnlySymbolic

ReplayInv == ReplayTypeOK /\ ObjectsBound /\ SeedSatisfies /\ SolutionsFollow

(***************************************************************************)
(* What docs/anonymized-replay.md says of the anonymized log: every        *)
(* solution of the test case's constraints follows the record's control    *)
(* flow.  It does not hold: toUnique and the bounds check fix values       *)
(* without a constraint.                                                   *)
(***************************************************************************)
EverySolutionFollows ==
    ~Aborted => \A x \in constraints : Concrete(code, x, steps).pc = pc
=============================================================================
