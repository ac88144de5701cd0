------------------------- MODULE ComputationProofs --------------------------
(***************************************************************************)
(* Proofs about the computations of ops_server: the pool of threads that   *)
(* decrypts operands, operators, aggregates and expressions.               *)
(***************************************************************************)
EXTENDS Computations, DecryptPool, Induction, FiniteSetTheorems, TLAPS

-----------------------------------------------------------------------------
(* The decryption pool: for every number of slots, operands and operations, *)
(* decrypt_wait returns when the work is done, no operand is decrypted twice *)
(* and no sent job changes.                                                *)

\* A process starts with idle slots.
LEMMA InitIInv == Init => IInv
<1> SUFFICES ASSUME Init PROVE IInv
  OBVIOUS
<1>1. TypeOK
  <2>1. early \in BOOLEAN /\ inited \in [Slots -> BOOLEAN]
    BY ZenonT(60) DEF Init
  <2>2. QED
    BY <2>1, PoolAssumption DEF Init, TypeOK, Slots, NoJob
<1>2. MainInv
  BY DEF Init, MainInv
<1>3. SlotInv
  BY DEF Init, SlotInv, SlotOK, Active, Issued
<1>4. JobInv
  BY DEF Init, JobInv, Active, Issued
<1>5. QED
  BY <1>1, <1>2, <1>3, <1>4 DEF IInv

\* A new operation finds the jobs of the ones before it handed out.
LEMMA StartOpIInv ==
    ASSUME NEW k \in {"pair", "eval"}, NEW n \in 1..MaxArgs, IInv, StartOp(k, n)
    PROVE  IInv'
<1>1. TypeOK'
  BY PoolAssumption DEF IInv, TypeOK, StartOp, opVars, slotVars, Slots, SlotInv,
                        SlotOK
<1>2. MainInv'
  BY PoolAssumption, SMTT(60)
    DEF IInv, TypeOK, MainInv, SlotInv, SlotOK, StartOp, opVars, slotVars, Slots,
        Running
<1>0. \A p \in Nat \X Nat : Issued(p) => Issued(p)'
  BY DEF IInv, TypeOK, StartOp, Issued
<1>a. Running /\ Running'
  BY DEF StartOp, Running
<1>3. SlotInv'
  <2> SUFFICES ASSUME NEW s \in Slots PROVE SlotOK(s)'
    BY DEF SlotInv
  <2>1. job[s] \in Nat \X Nat
    BY DEF IInv, TypeOK
  <2>2. Active(s)' = Active(s)
    BY DEF StartOp, Active, slotVars
  <2>3. QED
    BY <1>0, <1>a, <2>1, <2>2 DEF IInv, SlotInv, SlotOK, StartOp, slotVars
<1>4. JobInv'
  <2>1. \A p \in processed' : Issued(p)'
    BY <1>0 DEF IInv, TypeOK, JobInv, StartOp
  <2>2. \A s, r \in Slots : Active(s)' /\ Active(r)' /\ s # r => job'[s] # job'[r]
    BY DEF IInv, JobInv, StartOp, slotVars, Active
  <2>3. 1..next' - 1 = {}
    BY DEF StartOp
  <2>4. QED
    BY <2>1, <2>2, <2>3 DEF JobInv
<1>5. QED
  BY <1>1, <1>2, <1>3, <1>4 DEF IInv

\* The slot found is not in use.
LEMMA FindThreadIInv ==
    ASSUME IInv, FindThread
    PROVE  IInv'
<1>1. TypeOK'
  <2>1. inited' \in [Slots -> BOOLEAN]
    BY ZenonT(60) DEF IInv, TypeOK, FindThread, slotVars
  <2>2. i' \in Slots
    BY PoolAssumption, SMTT(60)
      DEF IInv, TypeOK, FindThread, Slots
  <2>3. QED
    BY <2>1, <2>2 DEF IInv, TypeOK, FindThread, opVars
<1>2. MainInv'
  BY PoolAssumption, SMTT(60)
    DEF IInv, TypeOK, MainInv, SlotInv, SlotOK, FindThread, opVars, slotVars, Slots,
        Running
<1>0. \A s \in Slots : Active(s)' => Active(s)
  BY DEF IInv, TypeOK, FindThread, Active
<1>a. \A p : Issued(p)' = Issued(p)
  BY DEF FindThread, Issued, opVars
<1>b. Running /\ Running'
  BY DEF FindThread, Running
<1>3. SlotInv'
  <2> SUFFICES ASSUME NEW s \in Slots PROVE SlotOK(s)'
    BY DEF SlotInv
  <2>1. ~inited'[s] => status'[s] = "NONE" /\ worker'[s] = "none"
    BY DEF IInv, TypeOK, SlotInv, SlotOK, FindThread
  <2>2. worker'[s] = worker[s] \/ (worker'[s] = "poll" /\ status[s] = "NONE")
    BY DEF IInv, TypeOK, SlotInv, SlotOK, FindThread
  <2>3. QED
    BY <1>0, <1>a, <1>b, <2>1, <2>2 DEF IInv, SlotInv, SlotOK, FindThread
<1>4. JobInv'
  <2>1. \A p \in processed' : Issued(p)'
    BY <1>a DEF IInv, JobInv, FindThread
  <2>2. \A s, r \in Slots : Active(s)' /\ Active(r)' /\ s # r => job'[s] # job'[r]
    BY <1>0 DEF IInv, JobInv, FindThread
  <2>3. QED
    BY <1>b, <2>1, <2>2 DEF IInv, JobInv, FindThread, opVars
<1>5. QED
  BY <1>1, <1>2, <1>3, <1>4 DEF IInv

\* Filling a slot disturbs no job in use.
LEMMA FillIInv ==
    ASSUME IInv, Fill
    PROVE  IInv'
<1>1. TypeOK'
  BY PoolAssumption, SMTT(60)
    DEF IInv, TypeOK, Fill, opVars, slotVars, Slots, SlotInv, SlotOK
<1>2. MainInv'
  BY PoolAssumption, SMTT(60)
    DEF IInv, TypeOK, MainInv, SlotInv, SlotOK, Fill, opVars, slotVars, Slots,
        Running
<1>3. SlotInv'
  BY PoolAssumption, SMTT(60)
    DEF IInv, TypeOK, MainInv, SlotInv, SlotOK, JobInv, Fill, opVars, slotVars,
        Slots, Running, Active, Issued
<1>4. JobInv'
  <2>1. ~Active(i)
    BY DEF IInv, TypeOK, MainInv, SlotInv, SlotOK, Active, Running, Fill
  <2>2. \A s \in Slots : Active(s)' => Active(s)
    BY DEF Fill, Active
  <2>3. \A s \in Slots : s # i => job'[s] = job[s]
    BY DEF IInv, TypeOK, Fill
  <2>4. \A q, r \in Slots : Active(q)' /\ Active(r)' /\ q # r => job'[q] # job'[r]
    BY <2>1, <2>2, <2>3 DEF IInv, JobInv
  <2>5. \A s \in Slots : status[s] = "SENT" => job'[s] = job[s]
    BY <2>1, <2>3 DEF Active
  <2>6. QED
    BY <2>4, <2>5 DEF IInv, JobInv, Fill, opVars, Issued, Running
<1>5. QED
  BY <1>1, <1>2, <1>3, <1>4 DEF IInv

\* The job sent is a new one.
LEMMA SendIInv ==
    ASSUME IInv, Send
    PROVE  IInv'
<1>1. TypeOK'
  BY PoolAssumption, SMTT(60)
    DEF IInv, TypeOK, Send, opVars, slotVars, Slots, SlotInv, SlotOK
<1>2. MainInv'
  BY PoolAssumption, SMTT(60)
    DEF IInv, TypeOK, MainInv, SlotInv, SlotOK, Send, opVars, slotVars, Slots,
        Running
<1>3. SlotInv'
  BY PoolAssumption, SMTT(60)
    DEF IInv, TypeOK, MainInv, SlotInv, SlotOK, JobInv, Send, opVars, slotVars,
        Slots, Running, Active, Issued
<1>4. JobInv'
  <2>1. \A p \in processed' : Issued(p)'
    BY DEF IInv, TypeOK, JobInv, Send, Issued, opVars
  <2>2. \A s \in Slots : Active(s)' => s = i \/ Active(s)
    BY DEF IInv, TypeOK, Send, Active
  <2>3. \A s \in Slots : Active(s) => job[s] # <<frame, next>>
    BY DEF IInv, TypeOK, SlotInv, SlotOK, Issued
  <2>4. \A s, r \in Slots : Active(s)' /\ Active(r)' /\ s # r => job'[s] # job'[r]
    BY <2>2, <2>3 DEF IInv, MainInv, JobInv, Send
  <2>5. ASSUME NEW a \in 1..next' - 1
        PROVE  \/ <<frame, a>>' \in processed'
               \/ \E s \in Slots : status'[s] = "SENT" /\ job'[s] = <<frame, a>>'
    <3>1. CASE a = next
      BY <3>1 DEF IInv, TypeOK, MainInv, Send, opVars
    <3>2. CASE a # next
      <4>1. a \in 1..next - 1
        BY <3>2 DEF IInv, TypeOK, Send
      <4>2. Running
        BY DEF Send, Running
      <4>3. \/ <<frame, a>> \in processed
            \/ \E s \in Slots : status[s] = "SENT" /\ job[s] = <<frame, a>>
        BY <4>1, <4>2 DEF IInv, JobInv
      <4>4. QED
        BY <4>3 DEF IInv, TypeOK, Send, opVars
    <3>3. QED
      BY <3>1, <3>2
  <2>6. QED
    BY <2>1, <2>4, <2>5 DEF JobInv
<1>5. QED
  BY <1>1, <1>2, <1>3, <1>4 DEF IInv

\* The last operand is the main thread's own.
LEMMA DirectIInv ==
    ASSUME IInv, Direct
    PROVE  IInv'
<1>1. TypeOK'
  <2>1. early' \in BOOLEAN
    BY ZenonT(60) DEF IInv, TypeOK, Direct
  <2>2. 1 \in Slots
    BY PoolAssumption DEF Slots
  <2>3. plain' \subseteq Nat
    BY ZenonT(60) DEF IInv, TypeOK, Direct
  <2>4. pc' \in {"wait", "errwait", "compute", "idle"} /\ i' \in Slots
    BY <2>2 DEF Direct
  <2>5. QED
    BY <2>1, <2>3, <2>4 DEF IInv, TypeOK, Direct, opVars, slotVars
<1>2. MainInv'
  BY PoolAssumption, SMTT(60)
    DEF IInv, TypeOK, MainInv, SlotInv, SlotOK, Direct, opVars, slotVars, Slots,
        Running
<1>3. SlotInv'
  BY PoolAssumption, SMTT(60)
    DEF IInv, TypeOK, MainInv, SlotInv, SlotOK, JobInv, Direct, opVars, slotVars,
        Slots, Running, Active, Issued
<1>4. JobInv'
  BY PoolAssumption, SMTT(60)
    DEF IInv, TypeOK, MainInv, SlotInv, SlotOK, JobInv, Direct, opVars, slotVars,
        Slots, Running, Active, Issued
<1>5. QED
  BY <1>1, <1>2, <1>3, <1>4 DEF IInv

\* decrypt_wait returns when it has met no slot in use.
LEMMA WaitIInv ==
    ASSUME IInv, Wait
    PROVE  IInv'
<1>1. TypeOK'
  <2>1. early' \in BOOLEAN
    BY ZenonT(60) DEF IInv, TypeOK, Wait
  <2>2. i' \in Slots
    BY PoolAssumption, SMTT(60)
      DEF IInv, TypeOK, Wait, Slots
  <2>3. QED
    BY <2>1, <2>2 DEF IInv, TypeOK, Wait, opVars, slotVars
<1>2. MainInv'
  <2>1. ASSUME Ready(i) PROVE status[i] # "SENT"
    BY <2>1 DEF IInv, TypeOK, SlotInv, SlotOK, Ready
  <2>2. CASE ~Ready(i)
    BY SMTT(60), <2>2, PoolAssumption DEF IInv, TypeOK, MainInv, Wait, opVars, slotVars, Slots
  <2>3. CASE Ready(i) /\ i < MAX_DECRYPT_THREAD
    <3>1. \A s \in 1..i' - 1 : status'[s] # "SENT"
      BY SMTT(60), <2>1, <2>3, PoolAssumption DEF IInv, TypeOK, MainInv, Wait, slotVars, Slots
    <3>2. UNCHANGED <<pc, early, opVars, next, slotVars, plain>>
      BY <2>3, PoolAssumption DEF IInv, TypeOK, Wait, Slots
    <3>3. pc \in {"wait", "errwait"}
      BY DEF Wait
    <3>4. QED
      BY <3>1, <3>2, <3>3 DEF IInv, MainInv, opVars, slotVars
  <2>4. CASE Ready(i) /\ i = MAX_DECRYPT_THREAD
    <3>1. \A s \in Slots : status'[s] # "SENT"
      BY <2>1, <2>4, PoolAssumption DEF IInv, TypeOK, MainInv, Wait, slotVars, Slots
    <3>2. QED
      BY <2>4, <3>1, PoolAssumption DEF IInv, TypeOK, MainInv, Wait, opVars, slotVars,
                                        Slots
  <2>5. QED
    BY <2>2, <2>3, <2>4, PoolAssumption DEF Wait, IInv, TypeOK, Slots
<1>3. SlotInv'
  BY DEF IInv, SlotInv, SlotOK, Wait, opVars, slotVars, Running, Active, Issued
<1>4. JobInv'
  BY DEF IInv, JobInv, Wait, opVars, slotVars, Running, Active, Issued
<1>5. QED
  BY <1>1, <1>2, <1>3, <1>4 DEF IInv

\* The operation returns.
LEMMA ComputeIInv ==
    ASSUME IInv, Compute
    PROVE  IInv'
<1>1. TypeOK'
  BY PoolAssumption DEF IInv, TypeOK, Compute, opVars, slotVars, Slots, SlotInv,
                        SlotOK
<1>2. MainInv'
  BY PoolAssumption, SMTT(60)
    DEF IInv, TypeOK, MainInv, SlotInv, SlotOK, Compute, opVars, slotVars, Slots,
        Running
<1>3. SlotInv'
  BY PoolAssumption, SMTT(60)
    DEF IInv, TypeOK, MainInv, SlotInv, SlotOK, JobInv, Compute, opVars, slotVars,
        Slots, Running, Active, Issued
<1>4. JobInv'
  BY PoolAssumption, SMTT(60)
    DEF IInv, TypeOK, MainInv, SlotInv, SlotOK, JobInv, Compute, opVars, slotVars,
        Slots, Running, Active, Issued
<1>5. QED
  BY <1>1, <1>2, <1>3, <1>4 DEF IInv

\* The threads are told to end.
LEMMA ExitIInv ==
    ASSUME IInv, Exit
    PROVE  IInv'
<1>1. TypeOK'
  BY PoolAssumption DEF IInv, TypeOK, Exit, opVars, slotVars, Slots, SlotInv, SlotOK
<1>2. MainInv'
  BY PoolAssumption, SMTT(60)
    DEF IInv, TypeOK, MainInv, SlotInv, SlotOK, Exit, opVars, slotVars, Slots,
        Running
<1>3. SlotInv'
  BY PoolAssumption, SMTT(60)
    DEF IInv, TypeOK, MainInv, SlotInv, SlotOK, JobInv, Exit, opVars, slotVars,
        Slots, Running, Active, Issued
<1>4. JobInv'
  BY PoolAssumption, SMTT(60)
    DEF IInv, TypeOK, MainInv, SlotInv, SlotOK, JobInv, Exit, opVars, slotVars,
        Slots, Running, Active, Issued
<1>5. QED
  BY <1>1, <1>2, <1>3, <1>4 DEF IInv

\* The process ends.
LEMMA ExitProcessIInv ==
    ASSUME IInv, ExitProcess
    PROVE  IInv'
<1>1. TypeOK'
  BY PoolAssumption DEF IInv, TypeOK, ExitProcess, opVars, slotVars, Slots, SlotInv,
                        SlotOK
<1>2. MainInv'
  BY PoolAssumption, SMTT(60)
    DEF IInv, TypeOK, MainInv, SlotInv, SlotOK, ExitProcess, opVars, slotVars,
        Slots, Running
<1>3. SlotInv'
  BY PoolAssumption, SMTT(60)
    DEF IInv, TypeOK, MainInv, SlotInv, SlotOK, JobInv, ExitProcess, opVars,
        slotVars, Slots, Running, Active, Issued
<1>4. JobInv'
  BY PoolAssumption, SMTT(60)
    DEF IInv, TypeOK, MainInv, SlotInv, SlotOK, JobInv, ExitProcess, opVars,
        slotVars, Slots, Running, Active, Issued
<1>5. QED
  BY <1>1, <1>2, <1>3, <1>4 DEF IInv

\* A thread takes the job of its slot.
LEMMA TakeIInv ==
    ASSUME NEW s \in Slots, IInv, Take(s)
    PROVE  IInv'
<1>1. TypeOK'
  BY SMTT(60), PoolAssumption DEF IInv, TypeOK, Take, WorkerStep, opVars, slotVars, Slots,
                        SlotInv, SlotOK
<1>2. MainInv'
  BY PoolAssumption, SMTT(60)
    DEF IInv, TypeOK, MainInv, SlotInv, SlotOK, Take, WorkerStep, opVars, slotVars,
        Slots, Running
<1>3. SlotInv'
  BY PoolAssumption, SMTT(60)
    DEF IInv, TypeOK, MainInv, SlotInv, SlotOK, JobInv, Take, WorkerStep, opVars,
        slotVars, Slots, Running, Active, Issued
<1>4. JobInv'
  <2>1. \A r \in Slots : Active(r)' => Active(r)
    BY DEF IInv, TypeOK, Take, WorkerStep, Active
  <2>2. \A q, r \in Slots : Active(q)' /\ Active(r)' /\ q # r => job'[q] # job'[r]
    BY <2>1 DEF IInv, JobInv, Take, WorkerStep
  <2>3. QED
    BY <2>2 DEF IInv, JobInv, Take, WorkerStep, opVars, Issued, Running
<1>5. QED
  BY <1>1, <1>2, <1>3, <1>4 DEF IInv

\* A thread decrypts its job, and no other slot holds the same job.
LEMMA DecryptIInv ==
    ASSUME NEW s \in Slots, IInv, Decrypt(s)
    PROVE  IInv'
<1>1. TypeOK'
  <2>1. job[s] \in Nat \X Nat
    BY DEF IInv, TypeOK
  <2>2. processed' \subseteq Nat \X Nat /\ plain' \subseteq Nat
    BY ZenonT(60), <2>1 DEF IInv, TypeOK, Decrypt
  <2>3. QED
    BY <2>2 DEF IInv, TypeOK, Decrypt, WorkerStep, opVars
<1>2. MainInv'
  BY PoolAssumption, SMTT(60)
    DEF IInv, TypeOK, MainInv, SlotInv, SlotOK, Decrypt, WorkerStep, opVars,
        slotVars, Slots, Running
<1>3. SlotInv'
  BY PoolAssumption, SMTT(60)
    DEF IInv, TypeOK, MainInv, SlotInv, SlotOK, JobInv, Decrypt, WorkerStep, opVars,
        slotVars, Slots, Running, Active, Issued
<1>4. JobInv'
  <2>1. \A r \in Slots : Active(r)' => Active(r)
    BY DEF IInv, TypeOK, Decrypt, WorkerStep, Active
  <2>2. \A q, r \in Slots : Active(q)' /\ Active(r)' /\ q # r => job'[q] # job'[r]
    BY SMTT(60), <2>1 DEF IInv, JobInv, Decrypt, WorkerStep
  <2>3. Issued(job[s])
    BY DEF IInv, SlotInv, SlotOK, Decrypt, WorkerStep, Active
  <2>4. \A p \in processed' : Issued(p)'
    BY <2>3 DEF IInv, JobInv, Decrypt, WorkerStep, opVars, Issued
  <2>5. QED
    BY <2>2, <2>4 DEF IInv, JobInv, Decrypt, WorkerStep, opVars, Running
<1>5. QED
  BY <1>1, <1>2, <1>3, <1>4 DEF IInv

\* A job reported done has been worked on.
LEMMA ReportIInv ==
    ASSUME NEW s \in Slots, IInv, Report(s)
    PROVE  IInv'
<1>1. TypeOK'
  BY PoolAssumption DEF IInv, TypeOK, Report, WorkerStep, opVars, slotVars, Slots,
                        SlotInv, SlotOK
<1>2. MainInv'
  BY PoolAssumption, SMTT(60)
    DEF IInv, TypeOK, MainInv, SlotInv, SlotOK, Report, WorkerStep, opVars,
        slotVars, Slots, Running
<1>3. SlotInv'
  BY PoolAssumption, SMTT(60)
    DEF IInv, TypeOK, MainInv, SlotInv, SlotOK, JobInv, Report, WorkerStep, opVars,
        slotVars, Slots, Running, Active, Issued
<1>4. JobInv'
  <2>1. \A r \in Slots : Active(r)' => Active(r)
    BY DEF IInv, TypeOK, Report, WorkerStep, Active
  <2>2. \A q, r \in Slots : Active(q)' /\ Active(r)' /\ q # r => job'[q] # job'[r]
    BY <2>1 DEF IInv, JobInv, Report, WorkerStep
  <2>3. \A r \in Slots : status[r] = "SENT" => status'[r] = "SENT" \/ job[r] \in processed
    BY DEF IInv, TypeOK, SlotInv, SlotOK, Report, WorkerStep
  <2>4. QED
    BY SMTT(60), <2>2, <2>3 DEF IInv, JobInv, Report, WorkerStep, opVars, Issued, Running
<1>5. QED
  BY <1>1, <1>2, <1>3, <1>4 DEF IInv

\* A thread ends.
LEMMA QuitIInv ==
    ASSUME NEW s \in Slots, IInv, Quit(s)
    PROVE  IInv'
<1>1. TypeOK'
  BY SMTT(60), PoolAssumption DEF IInv, TypeOK, Quit, WorkerStep, opVars, slotVars, Slots,
                        SlotInv, SlotOK
<1>2. MainInv'
  BY PoolAssumption, SMTT(60)
    DEF IInv, TypeOK, MainInv, SlotInv, SlotOK, Quit, WorkerStep, opVars, slotVars,
        Slots, Running
<1>3. SlotInv'
  BY PoolAssumption, SMTT(60)
    DEF IInv, TypeOK, MainInv, SlotInv, SlotOK, JobInv, Quit, WorkerStep, opVars,
        slotVars, Slots, Running, Active, Issued
<1>4. JobInv'
  <2>1. \A r \in Slots : Active(r)' => Active(r)
    BY DEF IInv, TypeOK, Quit, WorkerStep, Active
  <2>2. \A q, r \in Slots : Active(q)' /\ Active(r)' /\ q # r => job'[q] # job'[r]
    BY <2>1 DEF IInv, JobInv, Quit, WorkerStep
  <2>3. QED
    BY <2>2 DEF IInv, JobInv, Quit, WorkerStep, opVars, Issued, Running
<1>5. QED
  BY <1>1, <1>2, <1>3, <1>4 DEF IInv

\* Every step of the process preserves the invariant.
LEMMA NextIInv == IInv /\ [Next]_vars => IInv'
<1> SUFFICES ASSUME IInv, [Next]_vars PROVE IInv'
  OBVIOUS
<1>1. ASSUME NEW k \in {"pair", "eval"}, NEW n \in 1..MaxArgs, StartOp(k, n)
      PROVE  IInv'
  BY <1>1, StartOpIInv
<1>2. CASE Main
  BY <1>2, FindThreadIInv, FillIInv, SendIInv, DirectIInv, WaitIInv, ComputeIInv DEF
     Main
<1>3. CASE Exit \/ ExitProcess
  BY <1>3, ExitIInv, ExitProcessIInv
<1>4. ASSUME NEW s \in Slots, Worker(s) PROVE IInv'
  BY SMTT(60), <1>4, TakeIInv, DecryptIInv, ReportIInv, QuitIInv DEF Worker
<1>5. CASE UNCHANGED vars
  <2>1. /\ UNCHANGED <<pc, kind, frame, nargs, bad, next, i, early>>
        /\ UNCHANGED <<inited, status, job, worker, processed, plain>>
    BY <1>5, Zenon DEF vars, opVars, slotVars
  <2>2. TypeOK' <=> TypeOK
    BY <2>1, Zenon DEF TypeOK
  <2>3. MainInv' <=> MainInv
    BY <2>1, Zenon DEF MainInv, Running
  <2>4. SlotInv' <=> SlotInv
    BY <2>1, Zenon DEF SlotInv, SlotOK, Active, Issued, Running
  <2>5. JobInv' <=> JobInv
    BY <2>1, Zenon DEF JobInv, Active, Issued, Running
  <2> QED
    BY <2>2, <2>3, <2>4, <2>5, Zenon DEF IInv
<1>6. QED
  BY <1>1, <1>2, <1>3, <1>4, <1>5 DEF Next

\* The invariant holds in every state of a process of ops_server.
THEOREM InvariantHolds == Spec => []IInv
BY InitIInv, NextIInv, PTL DEF Spec

\* When decrypt_wait returns to an operation of ops_server, every operand the
\* operation handed out has been worked on.
THEOREM WaitCompletes == Spec => []WaitComplete
<1>1. IInv => WaitComplete
  <2> SUFFICES ASSUME IInv, pc = "compute" PROVE WaitComplete
    BY DEF WaitComplete
  <2>1. ASSUME NEW a \in 1..nargs - 1 PROVE <<frame, a>> \in processed
    <3>1. \A s \in Slots : status[s] # "SENT"
      BY <2>1 DEF IInv, TypeOK, MainInv
    <3>2. Running /\ next = nargs
      BY DEF IInv, MainInv, Running
    <3>3. QED
      BY <2>1, <3>1, <3>2 DEF IInv, JobInv
  <2>2. nargs \in plain
    BY DEF IInv, MainInv
  <2>3. QED
    BY <2>1, <2>2 DEF WaitComplete
<1>2. QED
  BY <1>1, InvariantHolds, PTL

\* No thread of the pool decrypts an operand a second time.
THEOREM DecryptsOnce == Spec => []OnceEach
<1>1. IInv => OnceEach
  BY DEF IInv, SlotInv, SlotOK, OnceEach
<1>2. QED
  BY <1>1, InvariantHolds, PTL

\* An operation that did not return early leaves no thread behind that writes to
\* its variables.
THEOREM NoJobLeft == Spec => []NoJobOutlives
<1>1. IInv => NoJobOutlives
  BY DEF IInv, MainInv, NoJobOutlives
<1>2. QED
  BY <1>1, InvariantHolds, PTL

\* A step of the process changes no job that was sent and is not reported done.
LEMMA StepKeepsJobs ==
    ASSUME IInv, [Next]_vars, NEW s \in Slots, status[s] = "SENT"
    PROVE  job'[s] = job[s]
<1>1. CASE Fill
  BY SMTT(60), <1>1 DEF Fill, IInv, TypeOK, MainInv
<1>2. CASE Main /\ ~Fill
  BY SMTT(60), <1>2 DEF Main, FindThread, Send, Direct, Wait, Compute, slotVars
<1>3. ASSUME NEW r \in Slots, Worker(r)
      PROVE  job'[s] = job[s]
  <2>1. UNCHANGED job
    BY <1>3, Zenon DEF Worker, Take, Decrypt, Report, Quit, WorkerStep
  <2> QED
    BY <2>1
<1>4. CASE \E k \in {"pair", "eval"}, n \in 1..MaxArgs : StartOp(k, n)
  BY <1>4 DEF StartOp, slotVars
<1>5. CASE Exit \/ ExitProcess
  BY <1>5 DEF Exit, ExitProcess, slotVars
<1>6. CASE UNCHANGED vars
  BY <1>6 DEF vars, slotVars
<1>7. QED
  BY <1>1, <1>2, <1>3, <1>4, <1>5, <1>6 DEF Next

\* The arguments in a slot of args_array stay while its thread may read them.
THEOREM JobsAreStable == Spec => JobStable
<1>1. IInv /\ [Next]_vars => [\A s \in Slots : status[s] = "SENT" => job'[s] = job[s]]_vars
  BY StepKeepsJobs
<1>2. QED
  BY <1>1, InvariantHolds, PTL DEF Spec, JobStable

-----------------------------------------------------------------------------
\* Zenon proves the steps below that name no other prover.
USE Zenon

-----------------------------------------------------------------------------
(* Operators.                                                              *)

\* A comparison has two operands.
LEMMA NumericArity == ASSUME NEW c \in O!Numeric PROVE O!Arity(c) = 2
<1>1. O!Layout[c] \in {"IntCmp", "FloatCmp", "TimestampCmp"}
  BY SMT DEF O!Numeric, O!Layout, O!IntRequests, O!FloatRequests, O!TextRequests,
             O!TimestampRequests
<1> QED
  BY <1>1 DEF O!Arity

\* The number of operands of a command.
LEMMA ArityNatural == ASSUME NEW c PROVE O!Arity(c) \in Nat
<1>1. 1 \in Nat /\ 2 \in Nat /\ 3 \in Nat
  BY SMT
<1> QED
  BY <1>1 DEF O!Arity

\* A comparison of numbers and the relation it is made for.
LEMMA HoldsRelated ==
    ASSUME NEW c \in O!Numeric, NEW r \in O!Relations, NEW x \in Int, NEW y \in Int
    PROVE  O!Holds(c, r, O!Sign(x, y)) <=> O!Related(r, x, y)
<1> DEFINE s == O!Sign(x, y)
<1>1. /\ 0 = s <=> x = y
      /\ -1 = s <=> x < y
      /\ 1 = s <=> x > y
      /\ s <= 0 <=> x <= y
      /\ s >= 0 <=> x >= y
      /\ s > 0 <=> x > y
  BY SMT DEF O!Sign
<1> HIDE DEF s
<1>2. c \in {"INT_CMP", "FLOAT_CMP", "TIMESTAMP_CMP"}
      /\ r \in {"cmp", "eq", "ne", "lt", "le", "gt", "ge"}
  BY DEF O!Numeric, O!Relations
<1>3. O!Holds(c, r, s) <=> O!Related(r, x, y)
  <2>1. O!IntRelation(r, s) <=> O!Related(r, x, y)
    BY <1>1, <1>2 DEF O!IntRelation, O!Related
  <2>2. O!TimestampRelation(r, s) <=> O!Related(r, x, y)
    BY <1>1, <1>2 DEF O!TimestampRelation, O!Related
  <2> QED
    BY <1>2, <2>1, <2>2 DEF O!Holds, O!FloatRelation
<1> QED
  BY <1>3 DEF s

\* A request that was made has the operands of its command.
RequestInv ==
    /\ args \in [1..O!Arity(reqType) -> O!Operands(reqType)] /\ rel \in O!Relations

\* The answer in the buffer belongs to the request: it is the term of its operands, or
\* the error that an operand which does not decrypt causes.
AnswerInv ==
    /\ O!Intact => resp = 0 /\ out = O!Term(reqType, args)
    /\ reqType # "FLOAT_EVAL_EXPR" /\ O!Failed(reqType, args) => resp = -1

\* What a call returned belongs to its own request.
ReturnInv == 
    /\ O!Intact =>
        /\ ~error /\ oResult.of = O!Term(reqType, args)
        /\ reqType \in O!Numeric => (oResult.holds <=> O!Related(rel, args[1], args[2]))
    /\ reqType # "FLOAT_EVAL_EXPR" /\ O!Failed(reqType, args) => error

\* The inductive invariant of the operators.
OperatorInv ==
    /\ calls \in Nat
    /\ oPc # "idle" \/ calls > 0 => RequestInv
    /\ oPc = "answered" => AnswerInv
    /\ oPc = "idle" /\ calls > 0 => ReturnInv

\* It holds before the first call.
LEMMA OperatorInit == O!Init => OperatorInv
BY SMT DEF O!Init, OperatorInv

\* A call writes its own request over that of the call before.
LEMMA OperatorCall ==
    ASSUME OperatorInv, NEW c \in Commands, NEW a \in [1..O!Arity(c) -> O!Operands(c)],
           NEW r \in O!Relations, O!Call(c, a, r)
    PROVE  OperatorInv'
<1>1. calls + 1 \in Nat
  BY SMT DEF OperatorInv
<1> QED
  BY <1>1 DEF OperatorInv, RequestInv, O!Call, O!serializeTo

\* ops_server answers the request that is in the buffer (handler).
LEMMA OperatorHandler ==
    ASSUME OperatorInv, O!handler
    PROVE  OperatorInv'
<1>1. RequestInv
  BY DEF OperatorInv, O!handler
<1>2. O!Intact => ~O!Failed(reqType, args) /\ ~(\E k \in 1..Len(args) : args[k] = Bad)
  BY DEF O!Intact, O!Failed
<1>3. AnswerInv'
  BY <1>2 DEF AnswerInv, O!handler, O!AnswerEvalExpr, O!Answer, O!Respond, O!Computed, O!Intact
<1> QED
  BY <1>1, <1>3 DEF OperatorInv, RequestInv, O!handler

\* The backend takes the result or raises the error (copyResultFrom).
LEMMA OperatorReturn ==
    ASSUME OperatorInv, O!Return
    PROVE  OperatorInv'
<1>1. RequestInv /\ AnswerInv
  BY DEF OperatorInv, O!Return
<1>2. 0 # -1
  BY SMT
<1>3. O!Intact /\ reqType \in O!Numeric => args[1] \in Int /\ args[2] \in Int
  <2> SUFFICES ASSUME O!Intact, reqType \in O!Numeric PROVE args[1] \in Int /\ args[2] \in Int
    OBVIOUS
  <2>1. args \in [1..2 -> Numbers \cup {Bad}]
    BY <1>1, NumericArity DEF RequestInv, O!Operands
  <2>2. Len(args) = 2 /\ 1 \in 1..2 /\ 2 \in 1..2
    BY <2>1, SMT
  <2> QED
    BY <2>1, <2>2, OperatorsAssumption DEF O!Intact
<1>4. ReturnInv'
  <2>1. ASSUME O!Intact
        PROVE  /\ ~error' /\ oResult'.of = O!Term(reqType, args)
               /\ reqType \in O!Numeric => (oResult'.holds <=> O!Related(rel, args[1], args[2]))
    <3>1. resp = 0 /\ out = O!Term(reqType, args)
      BY <1>1, <2>1 DEF AnswerInv
    <3>2. ~error' /\ oResult' = [of |-> out, holds |-> O!Holds(reqType, rel, out.cmp)]
      BY <3>1 DEF O!Return, O!copyResultFrom
    <3>3. oResult'.of = out /\ oResult'.holds = O!Holds(reqType, rel, out.cmp)
      BY <3>2
    <3>4. ASSUME reqType \in O!Numeric
          PROVE  oResult'.holds <=> O!Related(rel, args[1], args[2])
      <4>1. out.cmp = O!Sign(args[1], args[2])
        BY <3>1, <3>4 DEF O!Term
      <4>2. O!Holds(reqType, rel, O!Sign(args[1], args[2])) <=> O!Related(rel, args[1], args[2])
        BY <1>1, <1>3, <2>1, <3>4, HoldsRelated DEF RequestInv
      <4> QED
        BY <3>3, <4>1, <4>2
    <3> QED
      BY <3>1, <3>2, <3>3, <3>4
  <2>2. ASSUME reqType # "FLOAT_EVAL_EXPR", O!Failed(reqType, args) PROVE error'
    BY <1>1, <1>2, <2>2 DEF AnswerInv, O!Return
  <2>3. reqType' = reqType /\ args' = args /\ rel' = rel
    BY DEF O!Return
  <2> QED
    BY <2>1, <2>2, <2>3 DEF ReturnInv, O!Intact
<1> QED
  BY <1>1, <1>4 DEF OperatorInv, RequestInv, O!Return

\* Every step keeps the invariant.
LEMMA OperatorStep == OperatorInv /\ O!Next => OperatorInv'
<1> SUFFICES ASSUME OperatorInv, O!Next PROVE OperatorInv'
  OBVIOUS
<1>1. CASE O!Trap
  BY <1>1 DEF O!Trap, OperatorInv, RequestInv
<1> QED
  BY <1>1, OperatorCall, OperatorHandler, OperatorReturn DEF O!Next

\* So does a step of another computation.
LEMMA OperatorStutter == OperatorInv /\ UNCHANGED oVars => OperatorInv'
<1> SUFFICES ASSUME OperatorInv, UNCHANGED oVars PROVE OperatorInv'
  OBVIOUS
<1>1. /\ oPc' = oPc /\ calls' = calls /\ reqType' = reqType /\ args' = args /\ resp' = resp
      /\ out' = out /\ rel' = rel /\ error' = error /\ oResult' = oResult
  BY DEF oVars
<1>2. (RequestInv => RequestInv') /\ (AnswerInv => AnswerInv') /\ (ReturnInv => ReturnInv')
  BY <1>1 DEF RequestInv, AnswerInv, ReturnInv, O!Intact
<1> QED
  BY <1>1, <1>2 DEF OperatorInv

\* A call returns what its own command makes of its own operands, or raises an error,
\* however many calls of whatever commands came before (handler, copyResultFrom).
THEOREM OperatorsRight == ComputeSpec => []OperatorRight
<1> DEFINE Inv == mode = "operators" => OperatorInv
<1>1. ComputeInit => Inv
  BY OperatorInit DEF ComputeInit
<1>2. Inv /\ [ComputeNext]_computeVars => Inv'
  BY OperatorStep, OperatorStutter DEF ComputeNext, computeVars
<1>3. Inv => OperatorRight
  BY DEF OperatorInv, OperatorRight, O!OwnResult, O!FailureReported, O!Returned, ReturnInv
<1> QED
  BY <1>1, <1>2, <1>3, PTL DEF ComputeSpec

-----------------------------------------------------------------------------
(* Aggregates.                                                             *)

\* SumTo is the last of the partial sums.
LEMMA SumToIs ==
    ASSUME NEW n \in Nat, NEW a, NEW s, Sums(s, a, n)
    PROVE  A!SumTo(a, n) = s[n]
<1> DEFINE Body(f) == [k \in 0..n |-> IF k = 0 THEN 0 ELSE f[k - 1] + a[k]]
<1>1. s = Body(s)
  <2>1. \A k \in 0..n : s[k] = IF k = 0 THEN 0 ELSE s[k - 1] + a[k]
    BY SMT DEF Sums
  <2>2. s = [k \in 0..n |-> s[k]]
    BY DEF Sums
  <2> QED
    BY <2>1, <2>2
<1>2. A!SumTo(a, n) = (CHOOSE f : f = Body(f))[n]
  BY DEF A!SumTo
<1>3. PICK f : f = (CHOOSE g : g = Body(g)) /\ f = Body(f)
  <2> HIDE DEF Body
  <2> QED
    BY <1>1
<1>4. f[n] = s[n]
  <2>1. \A k \in 0..n : f[k] = IF k = 0 THEN 0 ELSE f[k - 1] + a[k]
    BY <1>3
  <2> HIDE DEF Body
  <2> QED
    BY <2>1, SumsComputed, SMT
<1> QED
  BY <1>2, <1>3, <1>4

\* The sum of integers is one.
LEMMA SumInt ==
    ASSUME NEW n \in Nat, NEW a, \A k \in 1..n : a[k] \in Int
    PROVE  A!SumTo(a, n) \in Int
<1>1. PICK s : Sums(s, a, n)
  BY SumsExist
<1>2. n \in 0..n
  BY SMT
<1>3. s[n] \in Int
  BY <1>1, <1>2 DEF Sums
<1> QED
  BY <1>1, <1>3, SumToIs

\* The sum of one number more.
LEMMA SumNext ==
    ASSUME NEW n \in Nat, NEW a, \A k \in 1..n + 1 : a[k] \in Int
    PROVE  A!SumTo(a, n + 1) = A!SumTo(a, n) + a[n + 1]
<1>1. n + 1 \in Nat /\ n + 1 \in 1..n + 1 /\ (n + 1) - 1 = n
  BY SMT
<1>2. PICK s : Sums(s, a, n + 1)
  BY <1>1, SumsExist
<1> DEFINE t == [k \in 0..n |-> s[k]]
<1>3. Sums(t, a, n) /\ t[n] = s[n]
  BY <1>2, SMT DEF Sums
<1>4. A!SumTo(a, n) = t[n]
  <2> HIDE DEF t
  <2> QED
    BY <1>3, SumToIs
<1>5. A!SumTo(a, n + 1) = s[n + 1]
  BY <1>1, <1>2, SumToIs
<1>6. s[n + 1] = s[n] + a[n + 1]
  BY <1>1, <1>2 DEF Sums
<1> QED
  BY <1>3, <1>4, <1>5, <1>6

\* The sum of nothing.
LEMMA SumNone == ASSUME NEW a PROVE A!SumTo(a, 0) = 0
<1> DEFINE s == [k \in 0..0 |-> 0]
<1>1. Sums(s, a, 0) /\ s[0] = 0 /\ 0 \in Nat
  BY SMT DEF Sums
<1> QED
  BY <1>1, SumToIs

\* The sum of one number is that number.
LEMMA SumOne == ASSUME NEW a, a[1] \in Int PROVE A!SumTo(a, 1) = a[1]
<1>1. 0 \in Nat /\ 0 + 1 = 1 /\ 0 + a[1] = a[1] /\ \A k \in 1..1 : k = 1
  BY SMT
<1>2. A!SumTo(a, 0 + 1) = A!SumTo(a, 0) + a[0 + 1]
  BY <1>1, SumNext
<1> QED
  BY <1>1, <1>2, SumNone

\* A sum depends on the numbers it is of.
LEMMA SumSame ==
    ASSUME NEW n \in Nat, NEW a, NEW b, \A k \in 1..n : a[k] \in Int /\ b[k] = a[k]
    PROVE  A!SumTo(b, n) = A!SumTo(a, n)
<1>1. PICK s : Sums(s, a, n)
  BY SumsExist
<1>2. Sums(s, b, n)
  BY <1>1 DEF Sums
<1> QED
  BY <1>1, <1>2, SumToIs

\* Half of the numbers of Width bits are not negative.
LEMMA Half ==
    /\ 2^(Width - 1) \in Nat \ {0} /\ 2^Width \in Nat \ {0} /\ 2^Width = 2 * 2^(Width - 1)
<1>1. \A h \in Nat \ {0} : 2 * h \in Nat \ {0}
  BY SMT
<1> QED
  BY <1>1, AggregatesAssumption

\* Numbers that are the same after a wrap-around stay so when another is added.
LEMMA WrapAdd ==
    ASSUME NEW x \in Int, NEW y \in Int, NEW z \in Int, A!Wrap(x) = A!Wrap(y)
    PROVE  A!Wrap(x + z) = A!Wrap(y + z)
<1>1. PICK h \in Nat \ {0}, m \in Nat \ {0} : h = 2^(Width - 1) /\ m = 2^Width
  BY Half
<1>2. x + h \in Int /\ y + h \in Int /\ x + z \in Int /\ y + z \in Int
  BY <1>1, SMT
<1>3. (x + h) % m \in Int /\ (y + h) % m \in Int
  BY <1>1, <1>2, Remainder
<1>4. ((x + h) % m) - h = ((y + h) % m) - h
  BY <1>1 DEF A!Wrap
<1>5. (x + h) % m = (y + h) % m
  BY <1>1, <1>3, <1>4, SMT
<1>6. ((x + h) + z) % m = ((y + h) + z) % m
  BY <1>1, <1>2, <1>5, SameRemainder, SMT
<1>7. (x + h) + z = (x + z) + h /\ (y + h) + z = (y + z) + h
  BY <1>1, SMT
<1> QED
  BY <1>1, <1>6, <1>7 DEF A!Wrap

\* A number of Width bits is not changed by a wrap-around.
LEMMA WrapKeeps ==
    ASSUME NEW x \in Int, -(2^(Width - 1)) <= x, x < 2^(Width - 1)
    PROVE  A!Wrap(x) = x
<1>1. PICK h \in Nat \ {0}, m \in Nat \ {0} :
        h = 2^(Width - 1) /\ m = 2^Width /\ m = 2 * h
  BY Half
<1>2. -h <= x /\ x < h
  BY <1>1
<1>3. x + h \in Int /\ 0 \in Int /\ x + h = m * 0 + (x + h) /\ 0 <= x + h /\ x + h < m
  BY <1>1, <1>2, SMT
<1>4. (x + h) % m = x + h
  BY <1>1, <1>3, RemainderIs
<1>5. (x + h) - h = x
  BY <1>1, SMT
<1> QED
  BY <1>1, <1>4, <1>5 DEF A!Wrap

\* A wrap-around yields a number of Width bits.
LEMMA WrapRange ==
    ASSUME NEW x \in Int
    PROVE  A!Wrap(x) \in Int /\ A!Wrap(A!Wrap(x)) = A!Wrap(x)
<1>1. PICK h \in Nat \ {0}, m \in Nat \ {0} :
        h = 2^(Width - 1) /\ m = 2^Width /\ m = 2 * h
  BY Half
<1>2. x + h \in Int
  BY <1>1, SMT
<1>3. (x + h) % m \in Int /\ 0 <= (x + h) % m /\ (x + h) % m < m
  BY <1>1, <1>2, Remainder
<1>4. ((x + h) % m) - h \in Int /\ -h <= ((x + h) % m) - h /\ ((x + h) % m) - h < h
  BY <1>1, <1>3, SMT
<1>5. A!Wrap(x) \in Int /\ -(2^(Width - 1)) <= A!Wrap(x) /\ A!Wrap(x) < 2^(Width - 1)
  BY <1>1, <1>4 DEF A!Wrap
<1> QED
  BY <1>5, WrapKeeps

\* What ops_server makes of a sum.
Reduced(t, x) == IF t = "int" THEN A!Wrap(x) ELSE x

\* Sums that ops_server takes to be the same stay so when a number is added.
LEMMA ReducedAdd ==
    ASSUME NEW t, NEW x \in Int, NEW y \in Int, NEW z \in Int, Reduced(t, x) = Reduced(t, y)
    PROVE  Reduced(t, x + z) = Reduced(t, y + z)
BY WrapAdd DEF Reduced

\* A sum that was reduced once stays the same.
LEMMA ReducedInt ==
    ASSUME NEW t, NEW x \in Int
    PROVE  Reduced(t, x) \in Int /\ Reduced(t, Reduced(t, x)) = Reduced(t, x)
BY WrapRange DEF Reduced

\* A number of Width bits is not changed.
LEMMA ReducedKeeps ==
    ASSUME NEW t, NEW x \in Int, -(2^(Width - 1)) <= x, x < 2^(Width - 1)
    PROVE  Reduced(t, x) = x
BY WrapKeeps DEF Reduced

\* The values of a group are such numbers.
LEMMA ReducedItem ==
    ASSUME NEW t, NEW x \in Values
    PROVE  x \in Int /\ Reduced(t, x) = x
<1>1. PICK h \in Nat \ {0} : h = 2^(Width - 1)
  BY Half
<1>2. x \in -h..h - 1
  BY <1>1, AggregatesAssumption
<1>3. x \in Int /\ -h <= x /\ x < h
  BY <1>2, SMT
<1> QED
  BY <1>1, <1>3, ReducedKeeps

\* So are the numbers of its items.
LEMMA ReducedCount ==
    ASSUME NEW t, NEW n \in 0..MaxItems
    PROVE  n \in Int /\ Reduced(t, n) = n
<1>1. PICK h \in Nat \ {0} : h = 2^(Width - 1)
  BY Half
<1>2. MaxItems < h /\ MaxItems \in Nat
  BY <1>1, AggregatesAssumption
<1>3. n \in Int /\ -h <= n /\ n < h
  BY <1>2, SMT
<1> QED
  BY <1>1, <1>3, ReducedKeeps

\* The groups an aggregate may be asked for.
ItemGroups == UNION {[1..n -> Values] : n \in 1..MaxItems}

\* The items of a group.
LEMMA GroupItems ==
    ASSUME NEW g \in ItemGroups
    PROVE  /\ Len(g) \in 1..MaxItems /\ Len(g) \in Nat
           /\ \A k \in 1..Len(g) : g[k] \in Values
<1>1. PICK n \in 1..MaxItems : g \in [1..n -> Values]
  BY DEF ItemGroups
<1>2. n \in Nat
  BY AggregatesAssumption, SMT
<1>3. Len(g) = n
  BY <1>1, <1>2, SMT
<1> QED
  BY <1>1, <1>2, <1>3

\* Between two items of SUM or AVG: what is in sum_array sums up to the items so far, and
\* the first entry, once it is all there is, is their sum; so it is with their number.
BulkInv ==
    /\ counter \in 1..BULK_SIZE - 1
    /\ Reduced(type, A!SumTo(sum_array, counter)) = Reduced(type, A!SumTo(items, aI - 1))
    /\ counter = 1 => sum = Reduced(type, A!SumTo(items, aI - 1))
    /\ aKind = "avg" =>
         /\ Reduced(type, A!SumTo(num_array, counter)) = aI - 1
         /\ counter = 1 /\ aI > 2 => num = aI - 1
         /\ valid = (items[1] # 0)

\* Between two items of MAX or MIN: the value held is the extreme of the items so far.
FoldInv ==
    /\ \E k \in 1..aI - 1 : items[k] = sum
    /\ \A k \in 1..aI - 1 : IF aKind = "max" THEN items[k] <= sum ELSE items[k] >= sum

\* What is returned is the sum, the number or the extreme of all items.
DoneInv ==
    /\ A!Bulk => aResult.sum = Reduced(type, A!SumTo(items, Len(items)))
    /\ aKind = "avg" =>
         /\ Len(items) >= 2 => aResult.num = Len(items)
         /\ aResult.valid = (items[1] # 0)
    /\ ~A!Bulk =>
         /\ \E k \in 1..Len(items) : items[k] = aResult.sum
         /\ \A k \in 1..Len(items) :
              IF aKind = "max" THEN items[k] <= aResult.sum ELSE items[k] >= aResult.sum

\* The inductive invariant of the aggregates.
AggregateInv ==
    /\ type \in {"int", "float"} /\ aKind \in {"sum", "avg", "max", "min"} /\ items \in ItemGroups
    /\ sum_array \in [1..BULK_SIZE -> Int] /\ num_array \in [1..BULK_SIZE -> Int]
    /\ sum \in Int /\ num \in Int /\ aPc \in {"first", "loop", "done", "stuck"}
    /\ aPc = "first" => aI = 1
    /\ aPc = "loop" => aI \in 2..Len(items) + 1
    /\ aPc = "loop" /\ A!Bulk => BulkInv
    /\ aPc = "loop" /\ ~A!Bulk => FoldInv
    /\ aPc = "done" => DoneInv

\* It holds before the first item.
LEMMA AggregateInit == A!Init => AggregateInv
<1> SUFFICES ASSUME A!Init PROVE AggregateInv
  OBVIOUS
<1>1. 0 \in Int /\ -1 \in Int
  BY SMT
<1>2. sum_array \in [1..BULK_SIZE -> Int] /\ num_array \in [1..BULK_SIZE -> Int]
  BY <1>1 DEF A!Init, A!Index
<1> QED
  BY <1>1, <1>2 DEF A!Init, AggregateInv, ItemGroups, A!Undefined

\* The first item is put into the arrays, or held as the extreme.
LEMMA AggregateFirst ==
    ASSUME AggregateInv, A!First
    PROVE  AggregateInv'
<1>1. PICK n \in Nat : n = Len(items) /\ n \in 1..MaxItems /\ \A k \in 1..n : items[k] \in Values
  BY GroupItems DEF AggregateInv
<1>2. items[1] \in Values /\ items[1] \in Int /\ Reduced(type, items[1]) = items[1]
  <2>1. 1 \in 1..n
    BY <1>1, SMT
  <2> QED
    BY <1>1, <2>1, ReducedItem
<1>3. BULK_SIZE \in Nat /\ 1 \in 1..BULK_SIZE /\ 1 \in 1..BULK_SIZE - 1 /\ 2 - 1 = 1
        /\ 2 \in 2..n + 1 /\ 1 \in Int
      /\ ~(2 > 2)
  BY <1>1, AggregatesAssumption, SMT
<1>4. sum_array' = [sum_array EXCEPT ![1] = items[1]]
  BY DEF A!First
<1>5. sum_array' \in [1..BULK_SIZE -> Int] /\ sum_array'[1] = items[1]
  BY <1>2, <1>3, <1>4 DEF AggregateInv
<1>6. num_array' \in [1..BULK_SIZE -> Int] /\ (aKind = "avg" => num_array'[1] = 1)
  BY <1>3 DEF A!First, AggregateInv, A!Index
<1>7. A!SumTo(items, 1) = items[1] /\ A!SumTo(sum_array', 1) = items[1]
  BY <1>2, <1>5, SumOne
<1>8. aKind = "avg" => Reduced(type, A!SumTo(num_array', 1)) = 1
  <2>1. 1 \in 0..MaxItems
    BY <1>1, AggregatesAssumption, SMT
  <2> QED
    BY <1>3, <1>6, <2>1, SumOne, ReducedCount
<1>9. BulkInv'
  BY <1>2, <1>3, <1>7, <1>8 DEF BulkInv, A!First, A!input
<1> QED
  BY <1>1, <1>2, <1>3, <1>5, <1>6, <1>9 DEF AggregateInv, A!First, A!input, A!Bulk

\* One value more in an array of which counter entries are in use.
LEMMA OneMore ==
    ASSUME NEW a \in [1..BULK_SIZE -> Int], NEW c \in 1..BULK_SIZE - 1, NEW v \in Int
    PROVE  /\ [a EXCEPT ![c + 1] = v] \in [1..BULK_SIZE -> Int]
           /\ A!SumTo([a EXCEPT ![c + 1] = v], c + 1) = A!SumTo(a, c) + v
           /\ A!SumTo(a, c) \in Int /\ A!SumTo([a EXCEPT ![c + 1] = v], c + 1) \in Int
<1> DEFINE b == [a EXCEPT ![c + 1] = v]
<1>1. BULK_SIZE \in Nat /\ c \in Nat /\ c + 1 \in Nat /\ c + 1 \in 1..BULK_SIZE
      /\ \A k \in 1..c : k \in 1..BULK_SIZE /\ k # c + 1
  BY AggregatesAssumption, SMT
<1>2. \A k \in 1..c + 1 : k \in 1..BULK_SIZE
  BY <1>1, SMT
<1>3. b \in [1..BULK_SIZE -> Int] /\ b[c + 1] = v /\ \A k \in 1..c : b[k] = a[k]
  BY <1>1
<1> HIDE DEF b
<1>4. A!SumTo(b, c) = A!SumTo(a, c)
  BY <1>1, <1>3, SumSame
<1>5. A!SumTo(b, c + 1) = A!SumTo(b, c) + b[c + 1]
  BY <1>1, <1>2, <1>3, SumNext
<1>6. A!SumTo(a, c) \in Int /\ A!SumTo(b, c + 1) \in Int
  BY <1>1, <1>2, <1>3, SumInt
<1>7. /\ b \in [1..BULK_SIZE -> Int] /\ A!SumTo(b, c + 1) = A!SumTo(a, c) + v
      /\ A!SumTo(a, c) \in Int /\ A!SumTo(b, c + 1) \in Int
  BY <1>3, <1>4, <1>5, <1>6
<1> QED
  BY <1>7 DEF b

\* The next item is added to the arrays; when they are full, ops_server sums them up and
\* its answer is the only entry left (the loop of enc_int4_sum_bulk and enc_int4_avg_bulk).
LEMMA AggregateIterate ==
    ASSUME AggregateInv, A!Iterate
    PROVE  AggregateInv'
<1> DEFINE s == [sum_array EXCEPT ![counter + 1] = items[aI]]
           n == IF aKind = "avg" THEN [num_array EXCEPT ![counter + 1] = 1] ELSE num_array
<1>1. aPc = "loop" /\ A!Bulk /\ aI <= Len(items) /\ BulkInv /\ aI \in 2..Len(items) + 1
  BY DEF A!Iterate, AggregateInv
<1>2. PICK g \in Nat : g = Len(items) /\ g \in 1..MaxItems /\ \A k \in 1..g : items[k] \in Values
  BY GroupItems DEF AggregateInv
<1>3. /\ aI \in Nat /\ aI \in 1..g /\ aI - 1 \in Nat /\ (aI - 1) + 1 = aI /\ aI + 1 \in 2..g + 1
      /\ (aI + 1) - 1 = aI /\ aI \in 0..MaxItems /\ 1 \in Int /\ aI - 1 \in Int
      /\ aI - 1 \in 0..MaxItems /\ \A k \in 1..(aI - 1) + 1 : k \in 1..g
  BY <1>1, <1>2, AggregatesAssumption, SMT
<1>4. \A k \in 1..g : items[k] \in Int
  BY <1>2, ReducedItem
<1>5. /\ A!SumTo(items, aI) = A!SumTo(items, aI - 1) + items[aI]
      /\ A!SumTo(items, aI - 1) \in Int /\ A!SumTo(items, aI) \in Int
  <2>1. A!SumTo(items, (aI - 1) + 1) = A!SumTo(items, aI - 1) + items[(aI - 1) + 1]
    BY <1>3, <1>4, SumNext
  <2>2. \A k \in 1..aI - 1 : k \in 1..g
    BY <1>3, SMT
  <2>3. \A k \in 1..aI : k \in 1..g
    BY <1>3
  <2> QED
    BY <1>3, <1>4, <2>1, <2>2, <2>3, SumInt
<1>6. counter \in 1..BULK_SIZE - 1 /\ counter \in Nat /\ BULK_SIZE \in Nat /\ 1 \in 1..BULK_SIZE
  BY <1>1, AggregatesAssumption, SMT DEF BulkInv
<1>7. /\ s \in [1..BULK_SIZE -> Int]
      /\ A!SumTo(s, counter + 1) = A!SumTo(sum_array, counter) + items[aI]
      /\ A!SumTo(sum_array, counter) \in Int /\ A!SumTo(s, counter + 1) \in Int
  BY <1>3, <1>4, <1>6, OneMore DEF AggregateInv
<1>8. aKind = "avg" =>
        /\ n \in [1..BULK_SIZE -> Int]
        /\ A!SumTo(n, counter + 1) = A!SumTo(num_array, counter) + 1
        /\ A!SumTo(num_array, counter) \in Int /\ A!SumTo(n, counter + 1) \in Int
  <2> SUFFICES ASSUME aKind = "avg"
               PROVE  /\ n \in [1..BULK_SIZE -> Int]
                      /\ A!SumTo(n, counter + 1) = A!SumTo(num_array, counter) + 1
                      /\ A!SumTo(num_array, counter) \in Int /\ A!SumTo(n, counter + 1) \in Int
    OBVIOUS
  <2>1. n = [num_array EXCEPT ![counter + 1] = 1] /\ num_array \in [1..BULK_SIZE -> Int]
    BY DEF AggregateInv
  <2>2. /\ [num_array EXCEPT ![counter + 1] = 1] \in [1..BULK_SIZE -> Int]
        /\ A!SumTo([num_array EXCEPT ![counter + 1] = 1], counter + 1)
             = A!SumTo(num_array, counter) + 1
        /\ A!SumTo([num_array EXCEPT ![counter + 1] = 1], counter + 1) \in Int
        /\ A!SumTo(num_array, counter) \in Int
    BY <1>3, <1>6, OneMore DEF AggregateInv
  <2> HIDE DEF n
  <2> QED
    BY <2>1, <2>2
<1>9. n \in [1..BULK_SIZE -> Int]
  BY <1>8 DEF AggregateInv
<1>10. Reduced(type, A!SumTo(s, counter + 1)) = Reduced(type, A!SumTo(items, aI))
  <2>1. Reduced(type, A!SumTo(sum_array, counter)) = Reduced(type, A!SumTo(items, aI - 1))
    BY <1>1 DEF BulkInv
  <2>2. PICK x \in Int, y \in Int, z \in Int :
          x = A!SumTo(sum_array, counter) /\ y = A!SumTo(items, aI - 1) /\ z = items[aI]
    BY <1>3, <1>4, <1>5, <1>7
  <2>3. Reduced(type, x) = Reduced(type, y)
    BY <2>1, <2>2
  <2>4. Reduced(type, x + z) = Reduced(type, y + z)
    BY <2>3, ReducedAdd
  <2> QED
    BY <1>5, <1>7, <2>2, <2>4
<1>11. aKind = "avg" => Reduced(type, A!SumTo(n, counter + 1)) = aI
  <2> SUFFICES ASSUME aKind = "avg" PROVE Reduced(type, A!SumTo(n, counter + 1)) = aI
    OBVIOUS
  <2>2. Reduced(type, A!SumTo(num_array, counter)) = Reduced(type, aI - 1)
    BY <1>1, <1>3, ReducedCount DEF BulkInv
  <2>3. PICK x \in Int, y \in Int : x = A!SumTo(num_array, counter) /\ y = aI - 1
    BY <1>3, <1>8
  <2>4. Reduced(type, x + 1) = Reduced(type, y + 1)
    <3>1. Reduced(type, x) = Reduced(type, y)
      BY <2>2, <2>3
    <3> QED
      BY <1>3, <3>1, ReducedAdd
  <2>5. Reduced(type, aI) = aI
    BY <1>3, ReducedCount
  <2> QED
    BY <1>3, <1>8, <2>3, <2>4, <2>5
<1>12. /\ aI' = aI + 1 /\ type' = type /\ aKind' = aKind /\ items' = items /\ valid' = valid
       /\ aPc' = aPc /\ aResult' = aResult
  BY DEF A!Iterate, A!input
<1>13. A!Bulk' /\ (aKind = "avg" => valid = (items[1] # 0))
  BY <1>1, <1>12 DEF A!Bulk, BulkInv
<1>14. CASE counter + 1 = BULK_SIZE
  <2>1. /\ sum' = A!sum_bulk(BULK_SIZE, s)
        /\ num' = IF aKind = "avg" THEN A!sum_bulk(BULK_SIZE, n) ELSE num
        /\ sum_array' = [s EXCEPT ![1] = sum']
        /\ num_array' = IF aKind = "avg" THEN [n EXCEPT ![1] = num'] ELSE n
        /\ counter' = 1
    BY <1>14 DEF A!Iterate, A!Added
  <2> HIDE DEF s, n
  <2>2. sum' = Reduced(type, A!SumTo(items, aI)) /\ sum' \in Int
    BY <1>5, <1>10, <1>14, <2>1, ReducedInt DEF A!sum_bulk, Reduced
  <2>3. sum_array' \in [1..BULK_SIZE -> Int] /\ sum_array'[1] = sum'
    BY <1>6, <1>7, <2>1, <2>2
  <2>4. Reduced(type, A!SumTo(sum_array', 1)) = Reduced(type, A!SumTo(items, aI))
    <3>1. A!SumTo(sum_array', 1) = sum'
      BY <2>2, <2>3, SumOne
    <3>2. PICK x \in Int : x = A!SumTo(items, aI)
      BY <1>5
    <3>3. Reduced(type, Reduced(type, x)) = Reduced(type, x)
      BY ReducedInt
    <3> QED
      BY <2>2, <3>1, <3>2, <3>3
  <2>5. num' \in Int /\ (aKind = "avg" => num' = aI)
    <3>1. CASE aKind = "avg"
      <4>1. num' = Reduced(type, A!SumTo(n, BULK_SIZE))
        BY <2>1, <3>1 DEF A!sum_bulk, Reduced
      <4>2. Reduced(type, A!SumTo(n, BULK_SIZE)) = aI
        BY <1>11, <1>14, <3>1
      <4> QED
        BY <1>3, <4>1, <4>2, SMT
    <3>2. CASE aKind # "avg"
      BY <2>1, <3>2 DEF AggregateInv
    <3> QED
      BY <3>1, <3>2
  <2>6. num_array' \in [1..BULK_SIZE -> Int] /\ (aKind = "avg" => num_array'[1] = num')
    BY <1>6, <1>9, <2>1, <2>5
  <2>7. aKind = "avg" => Reduced(type, A!SumTo(num_array', 1)) = aI
    BY <1>3, <2>5, <2>6, SumOne, ReducedCount
  <2>8. 1 \in 1..BULK_SIZE - 1
    BY <1>6, SMT
  <2>9. BulkInv'
    BY <1>3, <1>12, <1>13, <2>1, <2>2, <2>4, <2>5, <2>7, <2>8 DEF BulkInv
  <2> QED
    BY <1>1, <1>2, <1>3, <1>12, <1>13, <2>2, <2>3, <2>5, <2>6, <2>9 DEF AggregateInv
<1>15. CASE counter + 1 # BULK_SIZE
  <2>1. /\ sum' = sum /\ num' = num /\ sum_array' = s /\ num_array' = n
        /\ counter' = counter + 1
    BY <1>15 DEF A!Iterate
  <2> HIDE DEF s, n
  <2>2. counter + 1 \in 1..BULK_SIZE - 1 /\ counter + 1 # 1
    BY <1>6, <1>15, SMT
  <2>3. BulkInv'
    BY <1>3, <1>10, <1>11, <1>12, <1>13, <2>1, <2>2 DEF BulkInv
  <2> QED
    BY <1>1, <1>2, <1>3, <1>7, <1>9, <1>12, <1>13, <2>1, <2>3 DEF AggregateInv
<1> QED
  BY <1>14, <1>15

\* The entries that are left after the last item are summed up.
LEMMA AggregateFinish ==
    ASSUME AggregateInv, A!Finish
    PROVE  AggregateInv'
<1>1. aPc = "loop" /\ A!Bulk /\ aI > Len(items) /\ BulkInv /\ aI \in 2..Len(items) + 1
  BY DEF A!Finish, AggregateInv
<1>2. PICK g \in Nat : g = Len(items) /\ g \in 1..MaxItems
  BY GroupItems DEF AggregateInv
<1>3. aI - 1 = g /\ g \in 0..MaxItems /\ g \in Int /\ (g >= 2 => aI > 2)
  BY <1>1, <1>2, SMT
<1>4. /\ type' = type /\ aKind' = aKind /\ items' = items /\ valid' = valid
      /\ sum_array' = sum_array /\ num_array' = num_array /\ aPc' = "done"
      /\ aResult' = [sum |-> sum', num |-> num', valid |-> valid]
  BY DEF A!Finish, A!input
<1>5. aResult'.sum = sum' /\ aResult'.num = num' /\ aResult'.valid = valid
  BY <1>4
<1>6. PICK c \in Nat : c = counter /\ (c > 1 \/ c = 1) /\ c \in 1..BULK_SIZE /\ BULK_SIZE \in Nat
  BY <1>1, AggregatesAssumption, SMT DEF BulkInv
<1>7. \A k \in 1..c : k \in 1..BULK_SIZE
  BY <1>6, SMT
<1>8. A!SumTo(sum_array, c) \in Int /\ A!SumTo(num_array, c) \in Int
  BY <1>6, <1>7, SumInt DEF AggregateInv
<1>9. sum' = Reduced(type, A!SumTo(items, g)) /\ sum' \in Int
  <2>1. CASE c > 1
    BY <1>1, <1>3, <1>6, <1>8, <2>1, ReducedInt DEF A!Finish, A!Added, A!sum_bulk, BulkInv, Reduced
  <2>2. CASE c = 1
    <3>1. ~(c > 1)
      BY <2>2, SMT
    <3> QED
      BY <1>1, <1>3, <1>6, <2>2, <3>1 DEF A!Finish, BulkInv, AggregateInv
  <2> QED
    BY <1>6, <2>1, <2>2
<1>10. num' \in Int /\ (aKind = "avg" /\ g >= 2 => num' = g)
  <2>1. CASE c > 1
    BY <1>1, <1>3, <1>6, <1>8, <2>1, ReducedInt
       DEF A!Finish, A!Added, A!sum_bulk, BulkInv, Reduced, AggregateInv
  <2>2. CASE c = 1
    <3>1. ~(c > 1)
      BY <2>2, SMT
    <3> QED
      BY <1>1, <1>3, <1>6, <2>2, <3>1 DEF A!Finish, BulkInv, AggregateInv
  <2> QED
    BY <1>6, <2>1, <2>2
<1>11. A!Bulk' /\ (aKind = "avg" => valid = (items[1] # 0))
  BY <1>1, <1>4 DEF A!Bulk, BulkInv
<1>12. DoneInv'
  BY <1>2, <1>4, <1>5, <1>9, <1>10, <1>11 DEF DoneInv
<1> QED
  BY <1>4, <1>9, <1>10, <1>12 DEF AggregateInv

\* MAX and MIN choose the operand that is at least, or at most, the other.
LEMMA ChosenExtreme ==
    ASSUME NEW x \in Int, NEW y \in Int, aKind \in {"max", "min"}, type \in {"int", "float"}
    PROVE  /\ A!Chosen(x, y) = x \/ A!Chosen(x, y) = y
           /\ aKind = "max" => x <= A!Chosen(x, y) /\ y <= A!Chosen(x, y)
           /\ aKind # "max" => x >= A!Chosen(x, y) /\ y >= A!Chosen(x, y)
BY SMT DEF A!Chosen, A!cmp

\* Of the next item and the value held, ops_server chooses the extreme.
LEMMA AggregateFold ==
    ASSUME AggregateInv, A!Fold
    PROVE  AggregateInv'
<1>1. PICK g \in Nat : g = Len(items) /\ g \in 1..MaxItems /\ \A k \in 1..g : items[k] \in Values
  BY GroupItems DEF AggregateInv
<1>2. \A k \in 1..g : items[k] \in Int
  BY <1>1, ReducedItem
<1>3. PICK j \in Nat : j = aI /\ j \in 1..g /\ (j = 1 \/ (j # 1 /\ aPc = "loop"))
  BY <1>1, SMT DEF AggregateInv, A!Fold
<1>4. /\ type' = type /\ aKind' = aKind /\ items' = items /\ aI' = j + 1 /\ aPc' = "loop"
      /\ sum_array' = sum_array /\ num_array' = num_array /\ num' = num
      /\ sum' = IF j = 1 THEN items[1] ELSE A!Chosen(sum, items[j])
  BY <1>3 DEF A!Fold, A!input
<1>5. aKind \in {"max", "min"} /\ ~A!Bulk /\ ~A!Bulk' /\ type \in {"int", "float"}
  BY <1>4 DEF A!Fold, A!Bulk, AggregateInv
<1>6. items[j] \in Int
  BY <1>2, <1>3
<1>7. (j + 1) - 1 = j /\ j + 1 \in 2..g + 1 /\ j \in 1..j /\ \A k \in 1..j : k = j \/ k \in 1..j - 1
  BY <1>3, SMT
<1>8. /\ sum' \in Int
      /\ \E k \in 1..j : items[k] = sum'
      /\ \A k \in 1..j : IF aKind = "max" THEN items[k] <= sum' ELSE items[k] >= sum'
  <2>1. CASE j = 1
    BY <1>3, <1>4, <1>6, <2>1, SMT
  <2>2. CASE j # 1
    <3>1. sum \in Int /\ FoldInv /\ sum' = A!Chosen(sum, items[j])
      BY <1>3, <1>4, <1>5, <2>2 DEF AggregateInv
    <3>2. /\ sum' = sum \/ sum' = items[j]
          /\ aKind = "max" => sum <= sum' /\ items[j] <= sum'
          /\ aKind # "max" => sum >= sum' /\ items[j] >= sum'
      BY <1>5, <1>6, <3>1, ChosenExtreme
    <3>3. sum' \in Int
      BY <1>6, <3>1, <3>2
    <3>4. PICK k \in 1..j - 1 : items[k] = sum
      BY <1>3, <3>1 DEF FoldInv
    <3>5. k \in 1..j
      BY <1>3, SMT
    <3>6. ASSUME NEW m \in 1..j
          PROVE  IF aKind = "max" THEN items[m] <= sum' ELSE items[m] >= sum'
      <4>1. CASE m = j
        BY <3>2, <4>1
      <4>2. CASE m \in 1..j - 1
        <5>1. items[m] \in Int
          BY <1>2, <1>3, <4>2, SMT
        <5>2. IF aKind = "max" THEN items[m] <= sum ELSE items[m] >= sum
          BY <1>3, <3>1, <4>2 DEF FoldInv
        <5> QED
          BY <3>1, <3>2, <3>3, <5>1, <5>2, SMT
      <4> QED
        BY <1>7, <4>1, <4>2
    <3> QED
      BY <1>7, <3>2, <3>3, <3>4, <3>5, <3>6
  <2> QED
    BY <2>1, <2>2
<1>9. FoldInv'
  BY <1>4, <1>7, <1>8 DEF FoldInv
<1> QED
  BY <1>1, <1>4, <1>5, <1>7, <1>8, <1>9 DEF AggregateInv

\* The value held after the last item is returned.
LEMMA AggregateFoldFinish ==
    ASSUME AggregateInv, A!FoldFinish
    PROVE  AggregateInv'
<1>1. PICK g \in Nat : g = Len(items)
  BY GroupItems DEF AggregateInv
<1>2. aPc = "loop" /\ ~A!Bulk /\ aI > g /\ FoldInv /\ aI \in 2..g + 1
  BY <1>1 DEF A!FoldFinish, AggregateInv
<1>3. aI - 1 = g
  BY <1>2, SMT
<1>4. /\ type' = type /\ aKind' = aKind /\ items' = items /\ sum' = sum /\ num' = num
      /\ sum_array' = sum_array /\ num_array' = num_array /\ aPc' = "done"
      /\ aResult' = [A!NoResult EXCEPT !.sum = sum]
  BY DEF A!FoldFinish, A!input
<1>5. aResult'.sum = sum
  BY <1>4 DEF A!NoResult
<1>6. ~A!Bulk' /\ aKind # "avg"
  BY <1>2, <1>4 DEF A!Bulk
<1>7. DoneInv'
  BY <1>1, <1>2, <1>3, <1>4, <1>5, <1>6 DEF DoneInv, FoldInv
<1> QED
  BY <1>4, <1>7 DEF AggregateInv

\* Every step keeps the invariant.
LEMMA AggregateStep == AggregateInv /\ A!Next => AggregateInv'
<1> SUFFICES ASSUME AggregateInv, A!Next PROVE AggregateInv'
  OBVIOUS
<1>1. CASE A!DivisionByZero
  BY <1>1 DEF A!DivisionByZero, A!input, AggregateInv
<1> QED
  BY <1>1, AggregateFirst, AggregateIterate, AggregateFinish, AggregateFold, AggregateFoldFinish
     DEF A!Next

\* So does a step of another computation.
LEMMA AggregateStutter == AggregateInv /\ UNCHANGED aVars => AggregateInv'
BY DEF AggregateInv, BulkInv, FoldInv, DoneInv, A!Bulk, aVars

\* SUM, AVG, MAX and MIN are those of the items, for groups of any size, calls of any
\* size and numbers of any width (enc_int4_sum_bulk and the other aggregates).
THEOREM AggregatesRight == ComputeSpec => []AggregateRight
<1> DEFINE Inv == mode = "aggregate" => AggregateInv
<1>1. ComputeInit => Inv
  BY AggregateInit DEF ComputeInit
<1>2. Inv /\ [ComputeNext]_computeVars => Inv'
  BY AggregateStep, AggregateStutter DEF ComputeNext, computeVars
<1>3. Inv => AggregateRight
  <2>1. AggregateInv => A!SumCorrect /\ A!AvgCorrect /\ A!ExtremeCorrect
    BY DEF AggregateInv, DoneInv, A!SumCorrect, A!AvgCorrect, A!ExtremeCorrect, A!Total, Reduced,
       A!Bulk
  <2> QED
    BY <2>1 DEF AggregateRight
<1> QED
  BY <1>1, <1>2, <1>3, PTL DEF ComputeSpec

-----------------------------------------------------------------------------
(* Functions on texts, dates and numbers.                                  *)

\* Of the functions on texts, dates and numbers, every behaviour is one of FunctionSpec, and has
\* the properties that DatatypeProofs proves of them.
THEOREM FunctionsAreCalled == ComputeSpec => FunctionSpec
<1>1. ComputeInit => FunctionInit
  BY DEF ComputeInit
<1>2. [ComputeNext]_computeVars => [Function]_pVars
  <2>1. UNCHANGED computeVars => UNCHANGED pVars
    BY DEF computeVars
  <2>2. ASSUME ComputeNext
        PROVE  Function \/ UNCHANGED pVars
    BY <2>2 DEF ComputeNext
  <2> QED
    BY <2>1, <2>2
<1> QED
  BY <1>1, <1>2, PTL DEF ComputeSpec, FunctionSpec
=============================================================================
