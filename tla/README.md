# HEDB in TLA+

HEDB is a PostgreSQL extension that keeps column values encrypted and sends
every operation on them to a separate process, `ops_server`. PostgreSQL with the
extension is the *integrity zone*; `ops_server`, which holds the key, is the
*privacy zone*. The two share 16 MB of memory (an ivshmem device between two
VMs). This directory models that system in TLA+, checks small instances with TLC,
and proves the main results for instances of every size with TLAPS.
`PROJECT.json` lists the runs, the theorems, the hazards, and for every
definition the lines of code it translates.

## The system and its parts

Paths are below `src/src/` (those that begin with `tools`, `scripts` or `tests`
below `src/`); `iz` is `integrity_zone`, `pz` is `privacy_zone`.

| part | code | state | operations | module |
|---|---|---|---|---|
| region allocation | `iz/interface/cvm_interface.cpp`, `main` of `pz/ops_server.cpp`, `utils/sync.cpp` | control page: `lock`, `status`, `free_id`, `ret_id`, `bitmap` | `getSharedBuffer`, `freeBuffer`, server loop | `OpsChannel` |
| request handshake | `iz/interface/interface.cpp`, `fork_ops_process` | region: `status`, request, result | constructor, `sendRequest`, child loop, exit handler | `OpsChannel`, `OpsService` |
| shared memory driver | `tools/drivers/ivshmem-driver` | cards, device structures, minors, open files | registration, file operations, interrupts, unregistration | `UioDevice` |
| operators | `iz/ops_client`, `iz/include/request.hpp`, `pz/handler.cpp`, `pz/enc_ops`, `pz/plain_ops`, `iz/udf` | request, `resp`, the error of the statement | 31 commands, comparison operators | `Operators` |
| expressions | `convert_expr` of `iz/udf/enc_float4.cpp`, `plain_float_eval_expr` of `pz/plain_ops` | operator stack, queue, evaluation stack | reading, evaluating | `Expression` |
| aggregates | `iz/udf/enc_int4.cpp`, `iz/udf/enc_float4.cpp`, bulk sums of `pz/plain_ops` | array, counter, sum, count | sum, avg, min, max | `Aggregates` |
| text algorithms, prefix ranges | `pz/plain_ops/plain_text_ops.c`, `pz/klee_wrapper/prefix_udf.c` | none | LIKE, substring, concatenation, overlap | `PlainOps` |
| calendar | `pz/plain_ops/plain_timestamp_ops.c` | none | `extract_year` | `Calendar` |
| text forms, casts, base64 | `iz/udf`, `utils/base64.cpp` | none | input, output, casts | `Conversions`, `Base64` |
| record and replay | `iz/record_replay`, `iz/interface/interface.cpp`, `iz/hedb.cpp` | modes, log files, cursors | mode switches, `sendRequest`, exit | `RecordReplay` |
| record file | `iz/record_replay`, `pz/desenitizer.cpp` | file, mapping, cursor, bytes of the records | writing a record, reading it twice | `RecordFile`, `RecordLog` |
| text ranks | `iz/udf/enc_text.cpp`, `enc_text_add_order` of `iz/hedb--1.0.sql` | the `order` field of texts | comparison, insert, copy, delete, ranking | `TextOrder` |
| decryption pool | `decrypt_bytes_para` and threads of `pz/ops_server.cpp` (`ENABLE_PARALLEL`) | slots, threads | hand out, decrypt, wait, exit | `DecryptPool` |
| modified KLEE | `scripts/klee_scripts/klee_mod/Executor.cpp` | symbolic state, constraints, seed | the instructions of an operator, with one seed | `SeedReplay` |
| constraint generation | `main.cpp` of `klee_mod`, `gen_constraint.sh`, `run_z3.py` | batches, children, test files | fork, wait, collect, solve | `KleeRunner` |
| cipher | `pz/crypto.cpp` | nonce | encrypt, decrypt | external (mbedTLS) |
| cycle counter driver, hotfix tool, experiment scripts, TPC-H generator | `tools`, `scripts`, `tests` | | | not modelled |

How they interact. A function of `iz/udf` builds a request and calls
`TEEInvoker::sendRequest`. In normal operation that writes the request into the
backend's region, and the child of that region runs `handle_ops` on it. In record
mode the request and the answer are appended to a log afterwards, and in replay
mode the answer comes from a log and the region is not used at all. Aggregates,
expressions and text comparison are algorithms above single calls; the decryption
pool works inside one call. Both zones reach the shared memory through the device
that the ivshmem driver registers.

A log can be made anonymous. The desensitizer turns each record into a test file;
the modified KLEE replays the file through the operator and writes the constraints
of its path; a solver finds other operands that satisfy them, one line for each
record, and the log is written again from the lines.

## Modules and how they follow the code

### OpsChannel and OpsService: the shared memory

A backend asks for a region once, in the constructor of `TEEInvoker`: it takes the
spin lock, stores `SHM_GET`, waits for `SHM_DONE`, reads `ret_id`, stores
`SHM_NONE` and unlocks. The server forks one child per region. The backend then
calls `sendRequest` for each operation: it writes the request, stores `SENT`,
waits for `DONE`, copies the result, stores `NONE`. The exit handler gives the
region back: the server stores `EXIT` in the region, clears the bit, waits for
the child and stores `SHM_DONE`.

`OpsChannel` is the whole of that: backends, server loop, children, and the
memory they share. One action is one access to a shared word or one stretch of
code between two of them. A process's position is `pc`; `server` and `child` say
where the server loop and the children are. A request is a value of `Ops`, and
the result of request `o` is represented by `o` itself, so "the answer is that of
my request" can be said. `exhausted` is a history variable: some request for a
region met a full bitmap, which the server answers with a stale `ret_id`.
`Faults` chooses what may go wrong: crashes of backends anywhere, the lock and
all, crashes of children, the timeout of `getSharedBuffer`, and new backends in
the place of old ones. The barriers of the code are taken to order its accesses,
so memory is sequentially consistent.

`OpsService` is what the channel promises: a backend is connected to a region of
its own or to none, sends one request at a time, and gets the answer to it.

### Operators: one call, end to end

Every command has the layout of its request class (`Layout`), a number of operands
(`Arity`), and operands whose failed decryption is not noticed (`Unchecked`). `Call` is the wrapper of
`iz/ops_client`, `Answer` the case of `handle_ops` with the operator it calls,
`AnswerEvalExpr` the case that runs into the next one, `Trap` the division of
integers by zero that kills the child, `Return` the comparison operators of the
UDFs and the check of `resp`. The request buffer is not cleared between calls, as
in the code, so a wrong field would show the previous call's data. A ciphertext is
its plaintext or `Bad`, one that does not decrypt.

The four kinds of computations have no state in common. `Computations`
instantiates them side by side with a variable `mode` that says which of them a
behaviour is about, and states their properties; `MCComputations` gives them
operands.

### Expression

`convert_expr` reads the text of an expression one character at a time into a
queue in reverse Polish order; `ops_server` evaluates the queue with a stack.
Values are symbolic trees, so the property says that the tree computed is the
tree the text stands for. `Grammar` says which tree a text stands for: a phrase is an
operand, a phrase in parentheses, a negated operand in parentheses, or two phrases
with an operator that binds less than those inside them. TLC enumerates the phrases of
two levels (`MCExpression`); the proof takes any set of phrases that follows the
grammar.

### Aggregates

`First`, `Iterate`, `Finish` are the aggregate functions' loop over the array of
values of a group, which sums `BULK_SIZE` values per call; `Fold` is the loop of
minima and maxima. Integers wrap at `Width` bits. Floats are exact
numbers, and 0/0 is the only value that is no number.

### PlainOps, Calendar, Base64 and Conversions

These are pure functions, each called once from `PlainCall` or `ConversionCall`
and compared with a reference. `MatchText` keeps the early ends of the C code
(`LIKE_ABORT` is 0 there, like `LIKE_FALSE`); the reference is the meaning of `%`,
`_` and the escape. `Calendar` computes with C's division towards zero; its
reference counts the days before a new year. `fromBase64` keeps the groups,
skipping and padding of the code. In `Conversions` a number is a token, since only
range, syntax and rounding matter, and `strtod` is a choice over what C libraries
do. The casts keep the width of their C types, scaled down by `CharBits`,
`IntBits`, `LongBits` and `Mantissa`.

### RecordReplay, RecordFile and RecordLog

`RecordReplay` has sessions that switch modes and make calls, and the directory
of log files, one per query and session. A log is the sequence of its records,
with a flag for the bytes of an older, longer recording that are left behind it.
The replayer maps its file, so a file overwritten under it yields anything
(`AnyOutcome`). `RecordFile` is one level below: where in a file and a mapping
the record buffers lie. `RecordLog` extends it with the bytes. The recorder copies
the fields of a record one `memcpy` at a time and may be killed between two; then
the desensitizer and the replayer each read the file with the offsets of their own
code. A cell of the file remembers the value it is part of, so a field read at a
wrong offset is not mistaken for it.

### TextOrder

`enc_text_add_order` gives each text of a column its rank, and comparisons use
ranks when both sides have one. `foreign` remembers that a ranked text was
copied into a column from another one.

### DecryptPool

The main thread of a child hands operands to slots, one thread per slot; the last
operand it decrypts itself, and then waits. Every access to a slot's
`status` is a step of its own. `frame` numbers the operations, so that a thread
still working for an earlier one can be told from a current one.

### UioDevice

`uio.c` and `uio-ivshmem.c`: `probe` with every step that can fail and the unwinding
of each label, `open`, `read`, `poll`, `mmap` and `release`, interrupts, the
attributes in sysfs, `remove`, and loading and unloading of the modules. A section
under `info_lock` or `minor_lock` is one action; the section of
`uio_unregister_device`, which waits for others, is several. An access to a freed
structure is recorded in `undefined`, and the behaviour is not followed further.
The PCI core, sysfs and wait queues are external and do what the kernel documents.

### SeedReplay and KleeRunner

`SeedReplay` is the executor with one seed. A symbolic expression is a function of
the input and the constraints are the set of inputs that satisfy them, so neither
terms nor a solver are needed. The interpreted programs are sequences of
instructions over values 0 to 3: arithmetic, floating point (which makes operands
concrete), branches, switches, indirect jumps, calls, memory, external functions.
`fixed` collects the inputs that agree with the seed where the code uses a value
and adds no constraint. `Concrete` runs the program without the executor and is
the reference.

`KleeRunner` is around it: batches of the script, `main`'s pool of children with
its two kinds of `waitpid`, tests numbered by position, and the sort of the solved
files. `leads` says whether KLEE leads its process group, on which `waitpid(-pgrp)`
depends. `MCDesensitize` runs either, as `mode` says.

## Runs

| run | instance | shows |
|---|---|---|
| `channel_faults` | 2 backends, 2 regions, 2 requests, all faults | lock, allocation and handshake are safe; a holder decides over its request and its region |
| `channel_orderly` | 2 backends, 2 regions, reconnecting, weak fairness | no region lost, bitmap never full, no deadlock, calls terminate; refinement of `OpsService` |
| `channel_exhaustion` | 2 backends, 1 region | violated: the server's assertion |
| `computations` | expressions of two levels over `-`, `*`, `^` and a negated operand; groups of up to 7, 3 per call, 5-bit integers; two calls of 31 commands with operands 0, 1 and undecryptable; texts up to 3 and patterns up to 4 characters; the days around the new years 1896 to 2005; texts of up to 4 tokens; all integers of 8 and 10 bits; ciphertexts up to 4 bytes | each computation gives what its reference does |
| `replay_mixed` | 2 sessions, 1 query, kills and overwriting | a replay gives the recorded answers |
| `replay_queries` | 2 sessions, 2 queries, 3 switches | logs are complete and not mixed up, the search skips recordings that do not match |
| `record_log` | 12 requests that cover every layout, up to 3 records, extensions of 19 cells | writes stay in the file; complete records are found again, by both readers |
| `order_column` | 2 columns, 2 rows, 3 texts | ranks answer as texts do |
| `pool_jobs` | 2 threads, 3 operations, up to 4 operands | waiting is complete, operations return |
| `uio_files` | 2 processes, 2 cards, 1 minor, no interrupts | open files keep device and module, nothing leaks, mappings stay inside |
| `uio_waits` | 2 processes, 1 card with an interrupt, 2 events, weak fairness | no event is lost, unbinding ends, only two windows lead to freed memory |
| `desensitize` | programs of 3 instructions over 2 symbolic operands, all seeds; 4 seeds in batches of 3 with 2 children, weak fairness | solutions follow the recorded path, seeds satisfy their constraints, children are bounded, lines match records, everything ends |

Why the bounds are enough for the cases of interest. Two backends and two regions
give every race for the lock, the reuse of a region, and a late child of an
earlier holder. Four operands for two
slots make the main thread wrap around the slots. Seven values in calls of
three give every remainder twice. Two calls in a row let the second see
everything the first left in the buffer. Three mode switches are two recordings
and a replay, or a replay between two recordings. Two levels of operators have every
pair of precedences on either side. Patterns of four characters have a wildcard
between an escape and a literal, in every order. The sizes of the fields of
`record_log` are all different, so that an offset cannot be right by accident, and
a second or third record crosses the end of the first extension. Two cards for one minor let
a registration fail for want of one, and let a minor be used again. Three
instructions after the symbolic objects are a value made concrete, a use of it and
a branch on it. Four seeds in batches of three have a full batch, a last one that
is not full, and more seeds than children.

In `computations`, `record_log` and `desensitize` a behaviour ends when its call,
its readers or its script end, and the other runs with `CHECK_DEADLOCK FALSE` end
where a bound on calls, switches or events is used up.

### Where the code differs from what is said of it

`channel_exhaustion` checks an assertion of the code. With one backend more than
regions the server finds no free bit and still stores `SHM_DONE`; the backend takes
the stale `ret_id` and shares a region. When both give it back,
`assert(GET(req->bitmap, id) == 1)` fails and `ops_server` stops for everyone.

The passing runs exclude some more cases, where a comment, a test, a query or a
document of the repository asks for something else than the code does. Each is a
definition of its module with a configuration that makes TLC show the trace, to be
run as `tlc -config <configuration> <module>`; with `-continue` a configuration that
names two definitions shows traces for both.

| statement | configuration, module | the code |
|---|---|---|
| `Expression!ComputesExpression` | `Expression_profit.cfg`, `MCExpression` | `convert_expr` takes a minus after `)` for a negation: query 9 of `scripts/sqls/exp_sqls` computes `-(4*5)` for `(1*(2-3))-(4*5)` |
| `Operators!EveryErrorReported` | `Operators_claims.cfg`, `Operators` | `handler.cpp:63` has no `break`, so the response of an expression is replaced by 0; and `decrypt_bytes_para` discards the result for a first operand |
| `Aggregates!UnitIsOne` | `Aggregates_claims.cfg`, `Aggregates` | the "cipher of '1'" is the first value divided by itself |
| `Aggregates!AvgIsAverage` | `Aggregates_claims.cfg`, `Aggregates` | for one value the count is never assigned |
| `Conversions!BigintCast` | `Computations_bigint.cfg`, `MCComputations` | `enc_float4.cpp:810` keeps the bigint in an `int8`, PostgreSQL's name of `signed char`; the comment at line 803 speaks of a bigint |
| `TextOrder!EqualIsEqual` | `TextOrder_claims.cfg`, `MCTextOrder` | ranks of two columns are compared with each other |
| `TextOrder!AddOrderSetsOrderOnly` | `TextOrder_claims.cfg`, `MCTextOrder` | ranking a column with copied ranks replaces texts |
| `RecordReplay!SearchFindsAny` | `RecordReplay_first.cfg`, `MCRecordReplay` | a first record of another operation ends the search |
| `RecordReplay!LogsAllOps` | `RecordReplay_eval.cfg`, `MCRecordReplay` | `CMD_FLOAT_EVAL_EXPR` is not recorded |
| `DecryptPool!OperandsDecrypted` | `DecryptPool_context.cfg`, `DecryptPool` | the cipher context is per thread, and only the main thread initialises it |
| `SeedReplay!EverySolutionFollows` | `Desensitize_control_flow.cfg`, `MCDesensitize` | `docs/anonymized-replay.md:5` says that anonymized logs "can reproduce the buggy control flow"; `toUnique` and the bounds check of a memory access use the seed's value and add no constraint, so some solutions leave the path |
| `KleeRunner!ParallelAlwaysBounded` | `Desensitize_runner.cfg`, `MCDesensitize` | a KLEE that a script starts leads no process group; `waitpid(-pgrp)` then fails at once, `max_parallel` does not limit the children, and `main` returns before they end (the script sleeps 10 seconds before it collects) |
| `KleeRunner!LinesMatch` | `Desensitize_runner.cfg`, `MCDesensitize` | seeds are sorted by the first number in their path, so with a digit in the directory's name their order is arbitrary |

Four more cases are described by comments next to the properties. The converse of
`OverlapFound` fails, as `docs/anonymized-replay.md:24` says of the bug it uses as
an example. `thread_entry` of the desensitizer means to skip floats and compares with
101 to 110, while floats are 21 to 31, so floats are not skipped. `uio_open` takes
its reference after it has released `minor_lock`, and a file can be opened while its
registration fails: `AccessesDefined` says that no other step leads to freed
memory. The wake-up of `uio_unregister_device` does not reach a reader between its
look at `idev->info` and its sleep; `UnregisterReleases` is about the others.

`DecryptPool_invariant.cfg` checks the inductive invariant of the pool with three
threads, and `OpsChannel_service.cfg` that of the channel, and the refinement, with
all faults.

### Fairness

`FairSpec` of `OpsChannel` has weak fairness of each backend inside an
operation, of the server loop and of each child: all of them spin without
blocking and run as operating system processes. It asks nothing of backends that
choose not to call. The spin lock is not fair, so `GetCompletes` and
`FreeCompletes`, which have to win it, assume that new backends stop coming
(`ArrivalsEnd`); `CallCompletes` needs no such thing. `FairSpec` of `DecryptPool`
has weak fairness of the main thread inside an operation and of each thread.

`FairSpec` of `UioDevice` has weak fairness of a process inside a system call, of a
`probe` or `remove` that has begun and of an interrupt handler, which the kernel's
scheduler gives; nobody is made to begin an operation, and no interrupt has to
come. `MCSpec` of `MCDesensitize` has weak fairness of the executor's loop, of the
script with `main`, and of the end of each child. The last rests on the operators
having bounded loops along the one path of a seed and on a solver that answers;
the scripts set no time limit.

## Proofs

Every safety invariant, action property and refinement that a passing run checks is
also proved, for every value of the constants; liveness is only model-checked (below).
The proofs use the assumptions named `...Assumption` next to the constants and nothing
else; TLC evaluates each of them on the instances of the runs. The modules that begin
with `USE Zenon` prove by Zenon the steps that name no other prover.

| module | about |
|---|---|
| `OpsChannelProofs` | `OpsChannel`, and that it implements `OpsService` |
| `UioDeviceProofs` | `UioDevice` |
| `RecordReplayProofs` | `RecordReplay` |
| `RecordLogProofs` | `RecordFile` and `RecordLog` |
| `ComputationProofs` | `DecryptPool`, and operators, aggregates and expressions in `Computations` |
| `DatatypeProofs` | `TextOrder`, `Calendar`, `Base64`, `PlainOps` and `Conversions` |
| `DesensitizeProofs` | `SeedReplay` and `KleeRunner` |
| `Induction` | induction, which the others use |

**Induction.** The induction theorems of the library take the property as an operator,
which the provers cannot instantiate. `Induction` derives them again for a property
given as the set of numbers that have it, from the theorem that the order of naturals
is well founded. That is enough for what recursive functions compute: a run of a loop
over data is a function `f` with `f[k]` the state after `k` elements, such a function is
shown to exist by induction, and its values by another.

**OpsChannel.** `IInv` is needed since no property of the channel is inductive by
itself: that two backends never share a region depends on the bitmap, the bitmap on
who is waiting for `SHM_DONE`, and that on the lock. Its conjuncts are proved one after
the other, each from those before: `ControlInv` (lock, status word, positions),
`ChildInv` (bits and children), `PoolInv` (bits and holders), `CallInv` (words of a
region), `LeakInv` (bits accounted for by holders), `RequestInv`. `BitmapAccounted`
adds a counting argument: when the bitmap is full, its holders and the backend that
asks are more backends than regions. `HoldersDecide` is an action property, and
`Refinement` says that within the capacity of the bitmap the channel implements
`OpsService`, with crashes and timeouts.

**UioDevice.** `IInv` says that reference counts are exact: the count of a structure is
the number of processes that hold it and one for its registration, and that of the
module the number of files and system calls inside it (`RefInv`); with it what each
card has at each point of `probe` and `remove` (`CardInv`), and which pointers, minors
and interrupts may exist (`LinkInv`). `OpenFilesKeep`, `NothingIsLeaked` and
`AccessesAreDefined` follow; `MappingsInside` is an action property about
`uio_mmap`. The number of processes, cards, minors and structures is arbitrary.

**RecordReplay.** `RRInv` counts: the recorder's cursor is the number of calls logged
since the switch and the file begins with exactly these, and the replayer's position is
the number of calls answered from its file. `LogsAreComplete`, `ReplaysAreFaithful`,
`AnswersComeFromQuery` and `SearchesFind` follow, for any number of sessions, queries
and calls. `ReplayFaithful` is about recordings nobody wrote to since they were found
(`intact`): the replayer maps its file, and bytes that change under it are anything.

**RecordFile and RecordLog.** `WritesStayInFile` rests on `LengthsAssumption`: a record
is no longer than one extension of the file. The recorder that copies field by field
implements `RecordFile` (`LogImplementsFile`), so the same holds of it. `LayoutsAgree`
says that the offsets of the recorder, the replayer and the desensitizer end every
record in the same place, for all sizes of the fields. `LogInv` puts it together for
logs of any number of records: the completed records are in the file one after another,
the first fields of the current one too, nothing but zeros follows, and each reader is
at the beginning of a record. `RecordsRecovered` and `AnswersAligned` follow.
`RequestsAssumption` asks that the ciphertext of a string is not empty (it has an
initialization vector and a tag) and that a record fits an extension.

**DecryptPool.** `IInv` says where each operand of the current operation is: worked on,
or in a slot that the main thread has yet to pass while waiting. `WaitCompletes`,
`DecryptsOnce`, `NoJobLeft` and `JobsAreStable` hold for any number of slots and
operands.

**Operators.** `OperatorInv` says what of the shared request buffer belongs to the call
under way at each of its steps; what the call before left in it is never read.

**Aggregates.** In `AggregateInv` the partial sum and the part of the array not yet sent
add up to the items seen so far, modulo the width, and the counts likewise; the order
of additions is that of the code. Sums of sequences are introduced by recursion
(`SumsExist`). A group has fewer items than an integer can count, and `BULK_SIZE` is at
least 2 (`AggregatesAssumption`; 256 in the code).

**Expressions.** `ExpressionsRight` is an argument about all phrases of the grammar. A run
of `convert_expr` on a text gives the stack and the queue after each character, and a
run of the evaluation the values after each symbol. `Reads(p)`: wherever the text of a
phrase `p` is met, with a stack whose operators bind less, the conversion leaves on
top of the stack operators of the level of `p`, and these with what was added to the
queue evaluate to the tree of `p` on top of whatever was there. It is proved by
induction on the length of the text, with a lemma for each rule of the grammar.
`ExpressionInv` says that the variables of the code are those of the two runs, and that the
queue is no longer than the number of symbols in the text, which is counted by
position. An expression without a tree may be refused or leave any result. As
`ExpressionsAssumption` says, the grammar has no minus after `)`, which the code takes
for a negation (see above).

**TextOrder.** Ranks are given by a numbering of distinct texts that grows with them
(`AddOrderCorrect`); `IInv` says this of any two cells of a column with no foreign rank,
which is what comparisons use.

**Texts, dates and numbers.** `FunctionSpec` is one call of any of these functions.
`FunctionsAreCalled` says that the specification of the run `computations` implements
it, so what is proved of it holds there.
- *LIKE.* The matcher is a function of the positions in text and pattern. By induction
  from the ends it agrees with the meaning of the pattern's characters, early ends
  included; where the code gives up after a `%`, no later position can match either.
  With substrings and concatenations this is `PlainAnswersRight`.
- *Years.* A day is written as cycles of 400 years, centuries, years of four and a rest
  (`Parts`); the code's year and the day count of the reference are both computed from
  these, and compared.
- *Prefix ranges.* `OverlapsFound`: a string in both ranges makes one prefix the
  beginning of the other, and each case of `pr_inter` then keeps the string.
- *Base64.* Each group of four digits determines its bytes (`GroupsRoundTrip`), and by
  induction on groups `fromBase64` puts them together again (`CiphertextsRoundTrip`).
- *Numbers.* `NumbersStay`: the text of a number is read to its end whatever the C
  library does, and a cast rounds to the nearest float. `BitsAssumption` states the
  powers of two that occur, which are arithmetic the provers lack.

**KleeRunner.** `RInv` says what `current_parallel` counts: the children not waited for
and, between the increment and the fork, the one to come; and that positions not
reached have no child, so that a new batch starts from none. A limit of 0 is excluded
by `RunnerAssumption` (the code has 40): with it `waitpid` has no child to wait for and
the count goes wrong. `LinesInOrder` adds which tests are written (`LinesInv`): when no
line is missing, the line at position `k` is that of seed `k`.

**SeedReplay.** `ReplayInv` is a simulation: for every input that satisfies the
constraints and agrees with the seed where `fixed` says so, the program run without the
executor is at the same instruction, and its values are those of the symbolic
expressions at that input. `SolutionsTakeThePath` and `SeedIsASolution` follow for
programs of any length over any values. `ReplayAssumption` describes the programs: a
wrapper makes its objects symbolic before anything else.

Only model-checked: liveness (`OperationsComplete`, `OperationsReturn`,
`EventsDelivered`, `UnbindEnds`, `DesensitizeEnds`), since the provers do not reason
about fairness and `ENABLED`; and the statements of the table above, which do not hold.

## Not modelled, and why

- AES-GCM, and the nonce, which `crypto.cpp` begins with random bytes and counts up:
  a ciphertext decrypts to its plaintext or does not. The primitives are mbedTLS,
  outside the repository.
- Float rounding in arithmetic, infinities, and what powers compute.
- Parsing and printing of timestamps, which is PostgreSQL's code.
- Weak memory: the barriers of the code are taken at their word.
- A restart of `ops_server` while backends are connected, and the hotfix tool that
  causes one: the shared memory is set up anew under backends that hold regions,
  and the code has no protocol for it.
- The modified KLEE's inner stack frames, vectors, exceptions, solver timeouts,
  statistics and its search without seeds, which the scripts do not use, and
  the setup of modules and globals, which is unmodified KLEE.
- The bytes of `.ktest` files and of solved logs.
- The cycle counter driver, which sets bits of performance registers.
- Pacing in performance replay, timers, debug output, SQL declarations, experiment
  scripts and the TPC-H generator, which have no state that operations depend on.
