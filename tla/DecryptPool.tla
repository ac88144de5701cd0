---------------------------- MODULE DecryptPool -----------------------------
(***************************************************************************)
(* Parallel decryption in a process of ops_server (ENABLE_PARALLEL builds).*)
(* The main thread hands the operands of an operation but the last to a    *)
(* pool of threads that poll a slot each, decrypts the last one itself and *)
(* waits until every slot is done.                                         *)
(*                                                                         *)
(* An operation is a frame of the main thread: its operands are decrypted  *)
(* into local variables, so a job is a pair <<frame, operand>>.            *)
(***************************************************************************)
EXTENDS Integers, FiniteSets

CONSTANTS
    MAX_DECRYPT_THREAD, \* slots, 10 in the code
    MaxArgs,            \* bound: operands of an expression
    MaxOps,             \* bound: operations
    BadOperands         \* whether ciphertexts may fail to decrypt

ASSUME PoolAssumption ==
    /\ MAX_DECRYPT_THREAD \in Nat \ {0}
    /\ MaxArgs \in Nat /\ MaxOps \in Nat
    /\ BadOperands \in BOOLEAN

VARIABLES
    pc,         \* the main thread
    kind,       \* "pair": two operands; "eval": enc_float32_eval_expr
    frame,      \* number of the operation
    nargs,      \* its operands
    bad,        \* those that fail to decrypt
    next,       \* operand to hand out
    i,          \* slot the main thread looks at
    early,      \* the last operation returned before it waited
    inited, status, job,    \* args_array
    worker,     \* the threads
    processed,  \* jobs the threads ran decrypt_bytes on
    plain       \* operands of the frame whose plaintext was written

opVars == <<kind, frame, nargs, bad>>
slotVars == <<inited, status, job>>
vars == <<pc, opVars, next, i, early, slotVars, worker, processed, plain>>

Slots == 1..MAX_DECRYPT_THREAD
NoJob == <<0, 0>>

\* Threads with a crypto context: aes is a variable of each thread, and only the
\* main thread, here 0, runs gcm_init.
Initialised == {0}

Init ==
    /\ pc = "idle" /\ kind = "pair" /\ frame = 0 /\ nargs = 2 /\ bad = {}
    /\ next = 1 /\ i = 1 /\ early = FALSE
    /\ inited = [s \in Slots |-> FALSE]
    /\ status = [s \in Slots |-> "NONE"]
    /\ job = [s \in Slots |-> NoJob]
    /\ worker = [s \in Slots |-> "none"]
    /\ processed = {} /\ plain = {}

\* The next operation; without a second operand nothing is handed out.
StartOp(k, n) ==
    /\ pc = "idle" /\ frame < MaxOps
    /\ k = "pair" => n = 2
    /\ kind' = k /\ nargs' = n /\ frame' = frame + 1
    /\ bad' \in (IF BadOperands THEN SUBSET (1..n) ELSE {{}})
    /\ next' = 1 /\ i' = 1 /\ plain' = {}
    /\ pc' = IF n > 1 THEN "find" ELSE "direct"
    /\ UNCHANGED <<early, slotVars, worker, processed>>

\* Plausible bug: a slot is taken when its thread runs, whatever its status is.
FindThread_NoStatus ==
    /\ pc = "find"
    /\ IF inited[i]
       THEN pc' = "fill" /\ UNCHANGED <<i, inited, worker>>
       ELSE /\ inited' = [inited EXCEPT ![i] = TRUE]
            /\ worker' = [worker EXCEPT ![i] = "poll"]
            /\ pc' = "fill" /\ i' = i
    /\ UNCHANGED <<opVars, next, early, status, job, processed, plain>>

\* One turn of the search for a slot: one that is done, or a new thread.
FindThread ==
    /\ pc = "find"
    /\ \/ /\ inited[i] /\ status[i] = "DONE"
          /\ pc' = "fill" /\ UNCHANGED <<i, inited, worker>>
       \/ /\ ~inited[i]
          /\ inited' = [inited EXCEPT ![i] = TRUE]
          /\ worker' = [worker EXCEPT ![i] = "poll"]
          /\ pc' = "fill" /\ i' = i
       \/ /\ inited[i] /\ status[i] # "DONE"
          /\ i' = IF i = MAX_DECRYPT_THREAD THEN 1 ELSE i + 1
          /\ UNCHANGED <<pc, inited, worker>>
    /\ UNCHANGED <<opVars, next, early, status, job, processed, plain>>

Fill ==
    /\ pc = "fill" /\ pc' = "send"
    /\ job' = [job EXCEPT ![i] = <<frame, next>>]
    /\ UNCHANGED <<opVars, next, i, early, inited, status, worker, processed, plain>>

Send ==
    /\ pc = "send"
    /\ status' = [status EXCEPT ![i] = "SENT"]
    /\ next' = next + 1 /\ i' = 1
    /\ pc' = IF next + 1 < nargs THEN "find" ELSE "direct"
    /\ UNCHANGED <<opVars, early, inited, job, worker, processed, plain>>

\* Plausible bug: the expression returns at once when the last operand fails.
Direct_NoErrorWait ==
    /\ pc = "direct"
    /\ IF nargs \notin bad
       THEN /\ plain' = plain \cup {nargs}
            /\ pc' = IF nargs > 1 THEN "wait" ELSE "compute"
            /\ UNCHANGED early
       ELSE /\ pc' = "idle"
            /\ early' = (early \/ kind = "pair")
            /\ UNCHANGED plain
    /\ i' = 1
    /\ UNCHANGED <<opVars, next, slotVars, worker, processed>>

\* The last operand.  When it fails an operation on a pair returns at once; the
\* expression waits for the operands it handed out first.
Direct ==
    /\ pc = "direct"
    /\ \/ /\ nargs \notin bad
          /\ plain' = plain \cup {nargs}
          /\ pc' = IF nargs > 1 THEN "wait" ELSE "compute"
          /\ UNCHANGED early
       \/ /\ nargs \in bad
          /\ pc' = IF kind = "eval" /\ nargs > 1 THEN "errwait" ELSE "idle"
          /\ early' = (early \/ kind = "pair")
          /\ UNCHANGED plain
    /\ i' = 1
    /\ UNCHANGED <<opVars, next, slotVars, worker, processed>>

\* Plausible bug: the wait ends at the first slot that is done.
Ready_AnySlot(s) == \E r \in Slots : inited[r] /\ status[r] = "DONE"
\* Plausible bug: slots without a thread are waited for.
Ready_NoInited(s) == status[s] = "DONE"
Ready(s) == ~(inited[s] /\ status[s] # "DONE")

\* One turn of decrypt_wait: it starts anew when it meets a slot in use.
Wait ==
    /\ pc \in {"wait", "errwait"}
    /\ \/ /\ ~Ready(i) /\ i' = 1 /\ UNCHANGED <<pc, early>>
       \/ /\ Ready(i) /\ i < MAX_DECRYPT_THREAD
          /\ i' = i + 1 /\ UNCHANGED <<pc, early>>
       \/ /\ Ready(i) /\ i = MAX_DECRYPT_THREAD
          /\ pc' = IF pc = "wait" THEN "compute" ELSE "idle"
          /\ early' = FALSE /\ i' = 1
    /\ UNCHANGED <<opVars, next, slotVars, worker, processed, plain>>

Compute ==
    /\ pc = "compute" /\ pc' = "idle"
    /\ UNCHANGED <<opVars, next, i, early, slotVars, worker, processed, plain>>

\* The region is given back: the threads are told to end, then the process does.
Exit ==
    /\ pc = "idle" /\ pc' = "exiting"
    /\ status' = [s \in Slots |-> IF inited[s] THEN "EXIT" ELSE status[s]]
    /\ UNCHANGED <<opVars, next, i, early, inited, job, worker, processed, plain>>

ExitProcess ==
    /\ pc = "exiting" /\ pc' = "exited"
    /\ UNCHANGED <<opVars, next, i, early, slotVars, worker, processed, plain>>

-----------------------------------------------------------------------------
(* decrypt_thread: a thread takes the job of its slot, decrypts, and       *)
(* reports.                                                                *)

WorkerStep(s, from, to) ==
    /\ pc # "exited" /\ worker[s] = from
    /\ worker' = [worker EXCEPT ![s] = to]
    /\ UNCHANGED <<pc, opVars, next, i, early, inited, job>>

Take(s) ==
    /\ WorkerStep(s, "poll", "decrypt") /\ status[s] = "SENT"
    /\ UNCHANGED <<status, processed, plain>>

\* The result of decrypt_bytes is not looked at.
Decrypt(s) ==
    /\ WorkerStep(s, "decrypt", "report")
    /\ processed' = processed \cup {job[s]}
    /\ plain' = IF job[s][1] = frame /\ job[s][2] \notin bad /\ s \in Initialised
                THEN plain \cup {job[s][2]} ELSE plain
    /\ UNCHANGED status

\* Plausible bug: the status is not stored.
Report_NoStatus(s) ==
    /\ WorkerStep(s, "report", "poll")
    /\ UNCHANGED <<status, processed, plain>>

Report(s) ==
    /\ WorkerStep(s, "report", "poll")
    /\ status' = [status EXCEPT ![s] = "DONE"]
    /\ UNCHANGED <<processed, plain>>

Quit(s) ==
    /\ WorkerStep(s, "poll", "none") /\ status[s] = "EXIT"
    /\ UNCHANGED <<status, processed, plain>>

Main == FindThread \/ Fill \/ Send \/ Direct \/ Wait \/ Compute
Worker(s) == Take(s) \/ Decrypt(s) \/ Report(s) \/ Quit(s)

Next ==
    \/ \E k \in {"pair", "eval"}, n \in 1..MaxArgs : StartOp(k, n)
    \/ Main
    \/ Exit \/ ExitProcess
    \/ \E s \in Slots : Worker(s)

Spec == Init /\ [][Next]_vars

\* The threads of a process are scheduled fairly.
FairSpec == Spec /\ WF_vars(Main) /\ \A s \in Slots : WF_vars(Worker(s))

-----------------------------------------------------------------------------
(* Properties.                                                             *)

TypeOK ==
    /\ pc \in {"idle", "find", "fill", "send", "direct", "wait", "errwait", "compute",
               "exiting", "exited"}
    /\ kind \in {"pair", "eval"} /\ frame \in Nat /\ nargs \in Nat \ {0}
    /\ bad \subseteq Nat
    /\ next \in Nat \ {0} /\ i \in Slots /\ early \in BOOLEAN
    /\ inited \in [Slots -> BOOLEAN]
    /\ status \in [Slots -> {"NONE", "SENT", "DONE", "EXIT"}]
    /\ job \in [Slots -> Nat \X Nat]
    /\ worker \in [Slots -> {"none", "poll", "decrypt", "report"}]
    /\ processed \subseteq Nat \X Nat /\ plain \subseteq Nat

\* When decrypt_wait returns to an operation, a thread has worked on every operand
\* the operation handed out, and its own operand is plain.
WaitComplete ==
    pc = "compute" =>
        /\ \A a \in 1..nargs - 1 : <<frame, a>> \in processed
        /\ nargs \in plain

\* No operand is decrypted twice, so no thread writes to an operand that is in use.
OnceEach == \A s \in Slots : worker[s] = "decrypt" => job[s] \notin processed

\* The arguments in a slot do not change from the moment they are sent until they
\* are reported done.
JobStable == [][\A s \in Slots : status[s] = "SENT" => job'[s] = job[s]]_vars

\* When an operation has returned no thread is still writing to its variables, but
\* for an operation on a pair that failed: enc_text_cmp and its like return on an
\* error without decrypt_wait, enc_float32_eval_expr does not.
NoJobOutlives ==
    pc = "idle" /\ ~early => \A s \in Slots : status[s] # "SENT"

\* Every operation returns: neither the search for a slot, with more operands than
\* slots, nor decrypt_wait spins for ever.
OperationsReturn == pc = "find" ~> pc = "idle"

-----------------------------------------------------------------------------
(* The inductive invariant.                                                *)

Running == pc \notin {"exiting", "exited"}

\* A job that was sent, or that a thread is still to decrypt.
Active(s) == status[s] = "SENT" \/ worker[s] = "decrypt"

\* A job handed out before the one that comes next.
Issued(p) == p[1] < frame \/ (p[1] = frame /\ p[2] < next)

\* Where the main thread is, with what it has established on its way.
MainInv ==
    /\ pc \in {"find", "fill", "send"} => next < nargs
    /\ pc \in {"direct", "wait", "errwait", "compute"} => next = nargs
    /\ pc \in {"fill", "send"} => inited[i] /\ status[i] \in {"NONE", "DONE"}
    /\ pc = "send" => job[i] = <<frame, next>>
    /\ pc \in {"wait", "compute"} => nargs \in plain
    /\ pc \in {"wait", "errwait"} => \A s \in 1..i - 1 : status[s] # "SENT"
    /\ pc = "compute" /\ nargs > 1 => \A s \in Slots : status[s] # "SENT"
    /\ (pc = "idle" \/ (nargs = 1 /\ pc \in {"direct", "compute"})) /\ ~early
        => \A s \in Slots : status[s] # "SENT"

\* How the state of a slot and of its thread go together.
SlotOK(s) ==
    /\ ~inited[s] => status[s] = "NONE" /\ worker[s] = "none"
    /\ Running /\ worker[s] \in {"decrypt", "report"} => status[s] = "SENT"
    /\ worker[s] = "report" => job[s] \in processed
    /\ status[s] = "SENT" /\ worker[s] # "report" => job[s] \notin processed
    /\ worker[s] = "decrypt" => job[s] \notin processed
    /\ Active(s) => Issued(job[s])

SlotInv == \A s \in Slots : SlotOK(s)

\* Jobs are distinct, and each one handed out in this operation was worked on or
\* is still in a slot.
JobInv ==
    /\ \A p \in processed : Issued(p)
    /\ \A s, r \in Slots : Active(s) /\ Active(r) /\ s # r => job[s] # job[r]
    /\ Running => \A a \in 1..next - 1 :
           \/ <<frame, a>> \in processed
           \/ \E s \in Slots : status[s] = "SENT" /\ job[s] = <<frame, a>>

\* What every step preserves: the main thread, the slots and the jobs agree.
IInv == TypeOK /\ MainInv /\ SlotInv /\ JobInv

\* The process has a crypto context: what it computes on, when every operand is
\* intact, is plaintext.
OperandsDecrypted == pc = "compute" /\ bad = {} => plain = 1..nargs
=============================================================================
