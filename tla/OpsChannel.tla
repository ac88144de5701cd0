----------------------------- MODULE OpsChannel -----------------------------
(***************************************************************************)
(* The channel between PostgreSQL backends (integrity zone) and ops_server *)
(* (privacy zone): one ivshmem mapping that starts with the OpsServer      *)
(* control words and continues with fixed request regions.                 *)
(*                                                                         *)
(*   - a backend asks for a region, and gives it back, by a handshake on   *)
(*     OpsServer.status under OpsServer.lock (cvm_interface.cpp);          *)
(*   - the ops_server main loop owns the bitmap of regions, and forks one  *)
(*     child per region it hands out (ops_server.cpp);                     *)
(*   - a backend and the child of its region exchange requests by a        *)
(*     second handshake on the status word of the region (interface.cpp).  *)
(*                                                                         *)
(* A step is one access to a shared word that another process may see.     *)
(* What an operator computes is abstracted: an answer is identified with   *)
(* the request it was computed from.                                       *)
(***************************************************************************)
EXTENDS Integers, FiniteSets

CONSTANTS
  Backends,    \* PostgreSQL backend processes that use the extension
  NumRegions,  \* MAX_REGION_NUM of ops_server.cpp
  Ops,         \* operator invocations a backend may send
  NoOp,        \* an unset request or answer
  Faults       \* the environment events that may happen

FaultKinds == {"timeout", "backend_crash", "child_crash", "respawn"}

ASSUME BackendsAssumption == IsFiniteSet(Backends)
ASSUME RegionsAssumption == NumRegions \in Nat \ {0}
ASSUME OpsAssumption == NoOp \notin Ops
ASSUME FaultsAssumption == Faults \subseteq FaultKinds

Regions == 0 .. NumRegions - 1
OpsOrNone == Ops \union {NoOp}

ShmReqStatus == {"SHM_NONE", "SHM_GET", "SHM_FREE", "SHM_DONE"}
ReqStatus == {"NONE", "SENT", "DONE", "EXIT"}

VARIABLES
  lock,        \* OpsServer.lock
  status,      \* OpsServer.status
  free_id,     \* OpsServer.free_id
  ret_id,      \* OpsServer.ret_id
  bitmap,      \* OpsServer.bitmap, as the set of regions whose bit is 1
  server,      \* where the ops_server main loop is
  child,       \* where the child of each region is
  req_status,  \* BaseRequest.status of each region
  req_args,    \* the request serialized in each region
  req_result,  \* the request whose result and resp each region holds
  pc,          \* where each backend is
  shm_id,      \* the static shm_id of each backend
  sent,        \* the request each backend is executing
  answer,      \* the answer each backend copied out of its region last
  exhausted    \* history: some SHM_GET was answered with no region free

controlVars == <<lock, status, free_id, ret_id>>
serverVars == <<bitmap, server, child, exhausted>>
regionVars == <<req_status, req_args, req_result>>
backendVars == <<pc, shm_id, sent, answer>>
vars == <<controlVars, serverVars, regionVars, backendVars>>

-----------------------------------------------------------------------------
\* Program points.

\* Between spin_lock and spin_unlock.
CriticalPoints ==
  {"get_locked", "get_wait", "get_taken", "get_cleared",
   "free_locked", "free_wait", "free_cleared"}

\* Inside sendRequest.
CallPoints == {"filled", "await", "copied"}

BackendPoints ==
  CriticalPoints \union CallPoints \union
  {"idle", "get_spin", "init", "ready", "free_spin", "gone", "crashed", "aborted"}

DeadPoints == {"gone", "crashed", "aborted"}

\* "get_done" and "reap" are the points before the store of SHM_DONE.
ServerPoints == {"poll", "get_done", "reap", "aborted"}

\* "none": no such process; "zombie": exited, not yet reaped by waitpid.
ChildPoints == {"none", "poll", "busy", "zombie"}
Running == {"poll", "busy"}

FreeRegions == Regions \ bitmap

\* The region that the for loop of main finds first.
FirstFree == CHOOSE r \in FreeRegions : \A s \in FreeRegions : r <= s

Goto(b, from, to) ==
  /\ pc[b] = from
  /\ pc' = [pc EXCEPT ![b] = to]

\* The memory of a process goes with it.
ResetProcess(b, to) ==
  /\ pc' = [pc EXCEPT ![b] = to]
  /\ shm_id' = [shm_id EXCEPT ![b] = 0]
  /\ sent' = [sent EXCEPT ![b] = NoOp]
  /\ answer' = [answer EXCEPT ![b] = NoOp]

-----------------------------------------------------------------------------
\* memset of OpsServer at the start of main; no backend has an invoker yet.
Init ==
  /\ lock = 0
  /\ status = "SHM_NONE"
  /\ free_id = 0
  /\ ret_id = 0
  /\ bitmap = {}
  /\ server = "poll"
  /\ child = [r \in Regions |-> "none"]
  /\ req_status = [r \in Regions |-> "NONE"]
  /\ req_args = [r \in Regions |-> NoOp]
  /\ req_result = [r \in Regions |-> NoOp]
  /\ pc = [b \in Backends |-> "idle"]
  /\ shm_id = [b \in Backends |-> 0]
  /\ sent = [b \in Backends |-> NoOp]
  /\ answer = [b \in Backends |-> NoOp]
  /\ exhausted = FALSE

-----------------------------------------------------------------------------
\* Backend: the spin lock.

\* spin_lock: the compare-and-swap that succeeds.
spin_lock(b, from, to) ==
  /\ Goto(b, from, to)
  /\ lock = 0
  /\ lock' = 1
  /\ UNCHANGED <<status, free_id, ret_id, serverVars, regionVars,
                 shm_id, sent, answer>>

\* spin_unlock.
spin_unlock(b, from, to) ==
  /\ Goto(b, from, to)
  /\ lock' = 0
  /\ UNCHANGED <<status, free_id, ret_id, serverVars, regionVars,
                 shm_id, sent, answer>>

-----------------------------------------------------------------------------
\* Backend: getSharedBuffer and the TEEInvoker constructor.

\* The first operator of a session calls TEEInvoker::getInstance.
GetInstance(b) ==
  /\ Goto(b, "idle", "get_spin")
  /\ UNCHANGED <<controlVars, serverVars, regionVars, shm_id, sent, answer>>

GetLock(b) == spin_lock(b, "get_spin", "get_locked")

\* assert(status == SHM_NONE), then status = SHM_GET.
GetPost(b) ==
  /\ \/ /\ status = "SHM_NONE"
        /\ status' = "SHM_GET"
        /\ Goto(b, "get_locked", "get_wait")
     \/ /\ status # "SHM_NONE"
        /\ Goto(b, "get_locked", "aborted")
        /\ UNCHANGED status
  /\ UNCHANGED <<lock, free_id, ret_id, serverVars, regionVars,
                 shm_id, sent, answer>>

\* 5000 microseconds gone: getSharedBuffer returns 0 with the lock held, and the
\* constructor's store through the null buffer ends the process. The status word
\* was read before the clock, so SHM_DONE may have arrived in between.
GetTimeout(b) ==
  /\ "timeout" \in Faults
  /\ pc[b] = "get_wait"
  /\ ResetProcess(b, "crashed")
  /\ UNCHANGED <<controlVars, serverVars, regionVars>>

\* Mutant: ret_id is read before the server says SHM_DONE.
GetTake_Early(b) ==
  /\ Goto(b, "get_wait", "get_taken")
  /\ shm_id' = [shm_id EXCEPT ![b] = ret_id]
  /\ UNCHANGED <<controlVars, serverVars, regionVars, sent, answer>>

\* shm_id = ret_id, once the server says SHM_DONE.
GetTake(b) ==
  /\ status = "SHM_DONE"
  /\ Goto(b, "get_wait", "get_taken")
  /\ shm_id' = [shm_id EXCEPT ![b] = ret_id]
  /\ UNCHANGED <<controlVars, serverVars, regionVars, sent, answer>>

GetClear(b) ==
  /\ Goto(b, "get_taken", "get_cleared")
  /\ status' = "SHM_NONE"
  /\ UNCHANGED <<lock, free_id, ret_id, serverVars, regionVars,
                 shm_id, sent, answer>>

GetUnlock(b) == spin_unlock(b, "get_cleared", "init")

\* The constructor resets the status word of the region.
InvokerInit(b) ==
  /\ Goto(b, "init", "ready")
  /\ req_status' = [req_status EXCEPT ![shm_id[b]] = "NONE"]
  /\ UNCHANGED <<controlVars, serverVars, req_args, req_result,
                 shm_id, sent, answer>>

-----------------------------------------------------------------------------
\* Backend: TEEInvoker::sendRequest outside replay mode.

\* serializeTo writes the request into the region.
SerializeTo(b, op) ==
  /\ Goto(b, "ready", "filled")
  /\ sent' = [sent EXCEPT ![b] = op]
  /\ req_args' = [req_args EXCEPT ![shm_id[b]] = op]
  /\ UNCHANGED <<controlVars, serverVars, req_status, req_result,
                 shm_id, answer>>

SetSent(b) ==
  /\ Goto(b, "filled", "await")
  /\ req_status' = [req_status EXCEPT ![shm_id[b]] = "SENT"]
  /\ UNCHANGED <<controlVars, serverVars, req_args, req_result,
                 shm_id, sent, answer>>

\* Mutant: the result is copied without waiting for DONE.
CopyResultFrom_Early(b) ==
  /\ Goto(b, "await", "copied")
  /\ answer' = [answer EXCEPT ![b] = req_result[shm_id[b]]]
  /\ UNCHANGED <<controlVars, serverVars, regionVars, shm_id, sent>>

\* The wait for DONE ends; copyResultFrom and the read of resp.
CopyResultFrom(b) ==
  /\ req_status[shm_id[b]] = "DONE"
  /\ Goto(b, "await", "copied")
  /\ answer' = [answer EXCEPT ![b] = req_result[shm_id[b]]]
  /\ UNCHANGED <<controlVars, serverVars, regionVars, shm_id, sent>>

\* status = NONE and return; the Request object goes out of scope.
SetNone(b) ==
  /\ Goto(b, "copied", "ready")
  /\ req_status' = [req_status EXCEPT ![shm_id[b]] = "NONE"]
  /\ sent' = [sent EXCEPT ![b] = NoOp]
  /\ answer' = [answer EXCEPT ![b] = NoOp]
  /\ UNCHANGED <<controlVars, serverVars, req_args, req_result, shm_id>>

-----------------------------------------------------------------------------
\* Backend: exit_handler, ~TEEInvoker and freeBuffer.

ExitHandler(b) ==
  /\ Goto(b, "ready", "free_spin")
  /\ UNCHANGED <<controlVars, serverVars, regionVars, shm_id, sent, answer>>

FreeLock(b) == spin_lock(b, "free_spin", "free_locked")

\* Mutant: free_id is not stored, so the server sees the one of the last free.
FreePost_StaleId(b) ==
  /\ status = "SHM_NONE"
  /\ status' = "SHM_FREE"
  /\ Goto(b, "free_locked", "free_wait")
  /\ UNCHANGED <<lock, free_id, ret_id, serverVars, regionVars,
                 shm_id, sent, answer>>

\* assert(status == SHM_NONE), free_id = shm_id, then status = SHM_FREE.
FreePost(b) ==
  /\ \/ /\ status = "SHM_NONE"
        /\ free_id' = shm_id[b]
        /\ status' = "SHM_FREE"
        /\ Goto(b, "free_locked", "free_wait")
     \/ /\ status # "SHM_NONE"
        /\ Goto(b, "free_locked", "aborted")
        /\ UNCHANGED <<free_id, status>>
  /\ UNCHANGED <<lock, ret_id, serverVars, regionVars, shm_id, sent, answer>>

\* Mutant: freeBuffer leaves SHM_DONE in the status word.
FreeClear_NoReset(b) ==
  /\ status = "SHM_DONE"
  /\ Goto(b, "free_wait", "free_cleared")
  /\ UNCHANGED <<controlVars, serverVars, regionVars, shm_id, sent, answer>>

FreeClear(b) ==
  /\ status = "SHM_DONE"
  /\ Goto(b, "free_wait", "free_cleared")
  /\ status' = "SHM_NONE"
  /\ UNCHANGED <<lock, free_id, ret_id, serverVars, regionVars,
                 shm_id, sent, answer>>

FreeUnlock(b) == spin_unlock(b, "free_cleared", "gone")

-----------------------------------------------------------------------------
\* Backend: the environment.

\* A backend killed by a signal runs no exit handler.
BackendCrash(b) ==
  /\ "backend_crash" \in Faults
  /\ pc[b] \notin DeadPoints \union {"idle"}
  /\ ResetProcess(b, "crashed")
  /\ UNCHANGED <<controlVars, serverVars, regionVars>>

\* PostgreSQL starts a new backend: fresh statics, no invoker.
Respawn(b) ==
  /\ "respawn" \in Faults
  /\ pc[b] \in DeadPoints
  /\ ResetProcess(b, "idle")
  /\ UNCHANGED <<controlVars, serverVars, regionVars>>

-----------------------------------------------------------------------------
\* ops_server: the main loop.

\* Mutant: SET is missing, the bit of the region stays clear.
ServerGet_NoSet ==
  /\ server = "poll"
  /\ status = "SHM_GET"
  /\ FreeRegions # {}
  /\ ret_id' = FirstFree
  /\ child' = [child EXCEPT ![FirstFree] = "poll"]
  /\ server' = "get_done"
  /\ UNCHANGED <<lock, status, free_id, bitmap, exhausted, regionVars, backendVars>>

\* SHM_GET: take the first free region and fork its child; with no region free
\* the loop falls through and ret_id keeps its last value.
ServerGet ==
  /\ server = "poll"
  /\ status = "SHM_GET"
  /\ \/ /\ FreeRegions # {}
        /\ bitmap' = bitmap \union {FirstFree}
        /\ ret_id' = FirstFree
        /\ child' = [child EXCEPT ![FirstFree] = "poll"]
        /\ UNCHANGED exhausted
     \/ /\ FreeRegions = {}
        /\ exhausted' = TRUE
        /\ UNCHANGED <<bitmap, ret_id, child>>
  /\ server' = "get_done"
  /\ UNCHANGED <<lock, status, free_id, regionVars, backendVars>>

ServerGetDone ==
  /\ server = "get_done"
  /\ server' = "poll"
  /\ status' = "SHM_DONE"
  /\ UNCHANGED <<lock, free_id, ret_id, bitmap, child, exhausted,
                 regionVars, backendVars>>

\* Mutant: CLEAR is missing, the region is never handed out again.
ServerFree_NoClear ==
  /\ server = "poll"
  /\ status = "SHM_FREE"
  /\ req_status' = [req_status EXCEPT ![free_id] = "EXIT"]
  /\ server' = IF free_id \in bitmap THEN "reap" ELSE "aborted"
  /\ UNCHANGED <<controlVars, bitmap, child, exhausted, req_args, req_result,
                 backendVars>>

\* Mutant: the child is not told to exit.
ServerFree_NoExit ==
  /\ server = "poll"
  /\ status = "SHM_FREE"
  /\ free_id \in bitmap
  /\ bitmap' = bitmap \ {free_id}
  /\ server' = "reap"
  /\ UNCHANGED <<controlVars, child, exhausted, regionVars, backendVars>>

\* SHM_FREE: tell the child to exit, assert that the bit is set, clear it.
ServerFree ==
  /\ server = "poll"
  /\ status = "SHM_FREE"
  /\ req_status' = [req_status EXCEPT ![free_id] = "EXIT"]
  /\ \/ /\ free_id \in bitmap
        /\ bitmap' = bitmap \ {free_id}
        /\ server' = "reap"
     \/ /\ free_id \notin bitmap
        /\ server' = "aborted"
        /\ UNCHANGED bitmap
  /\ UNCHANGED <<controlVars, child, exhausted, req_args, req_result,
                 backendVars>>

\* Mutant: SHM_DONE without waitpid.
ServerReap_NoWait ==
  /\ server = "reap"
  /\ server' = "poll"
  /\ status' = "SHM_DONE"
  /\ UNCHANGED <<lock, free_id, ret_id, bitmap, child, exhausted, regionVars,
                 backendVars>>

\* waitpid returns; status = SHM_DONE.
ServerReap ==
  /\ server = "reap"
  /\ child[free_id] = "zombie"
  /\ child' = [child EXCEPT ![free_id] = "none"]
  /\ server' = "poll"
  /\ status' = "SHM_DONE"
  /\ UNCHANGED <<lock, free_id, ret_id, bitmap, exhausted, regionVars,
                 backendVars>>

-----------------------------------------------------------------------------
\* ops_server: the child forked for region r.

\* The child sees SENT and runs handler on the region.
ChildHandle(r) ==
  /\ child[r] = "poll"
  /\ req_status[r] = "SENT"
  /\ child' = [child EXCEPT ![r] = "busy"]
  /\ req_result' = [req_result EXCEPT ![r] = req_args[r]]
  /\ UNCHANGED <<controlVars, bitmap, server, exhausted, req_status, req_args,
                 backendVars>>

ChildDone(r) ==
  /\ child[r] = "busy"
  /\ child' = [child EXCEPT ![r] = "poll"]
  /\ req_status' = [req_status EXCEPT ![r] = "DONE"]
  /\ UNCHANGED <<controlVars, bitmap, server, exhausted, req_args, req_result,
                 backendVars>>

\* The child sees EXIT: it resets the status word and exits.
ChildExit(r) ==
  /\ child[r] = "poll"
  /\ req_status[r] = "EXIT"
  /\ child' = [child EXCEPT ![r] = "zombie"]
  /\ req_status' = [req_status EXCEPT ![r] = "NONE"]
  /\ UNCHANGED <<controlVars, bitmap, server, exhausted, req_args, req_result,
                 backendVars>>

\* The child dies: a signal raised inside handler (an integer division by zero
\* in plain_int32_calc, for one) or sent from outside.
ChildCrash(r) ==
  /\ "child_crash" \in Faults
  /\ child[r] \in Running
  /\ child' = [child EXCEPT ![r] = "zombie"]
  /\ UNCHANGED <<controlVars, bitmap, server, exhausted, regionVars,
                 backendVars>>

-----------------------------------------------------------------------------
\* The steps a live backend takes once it uses the extension.
BackendStep(b) ==
  \/ GetLock(b) \/ GetPost(b) \/ GetTake(b) \/ GetClear(b) \/ GetUnlock(b)
  \/ InvokerInit(b)
  \/ SetSent(b) \/ CopyResultFrom(b) \/ SetNone(b)
  \/ FreeLock(b) \/ FreePost(b) \/ FreeClear(b) \/ FreeUnlock(b)

\* What the client of the database decides.
SessionStep(b) ==
  \/ GetInstance(b)
  \/ \E op \in Ops : SerializeTo(b, op)
  \/ ExitHandler(b)

FaultStep(b) == GetTimeout(b) \/ BackendCrash(b) \/ Respawn(b)

ServerStep == ServerGet \/ ServerGetDone \/ ServerFree \/ ServerReap

ChildStep(r) == ChildHandle(r) \/ ChildDone(r) \/ ChildExit(r)

Next ==
  \/ \E b \in Backends : BackendStep(b) \/ SessionStep(b) \/ FaultStep(b)
  \/ ServerStep
  \/ \E r \in Regions : ChildStep(r) \/ ChildCrash(r)

Spec == Init /\ [][Next]_vars

\* Every loop of the code spins or yields, and none sleeps: each process that
\* can take its next step eventually takes it. Clients need not make calls, and
\* faults need not happen.
Fairness ==
  /\ \A b \in Backends : WF_vars(BackendStep(b))
  /\ WF_vars(ServerStep)
  /\ \A r \in Regions : WF_vars(ChildStep(r))

FairSpec == Spec /\ Fairness

-----------------------------------------------------------------------------
\* The program points at which a backend has a region as its own.
HoldingPoints ==
  CallPoints \union
  {"get_taken", "get_cleared", "init", "ready",
   "free_spin", "free_locked", "free_wait"}

Holds(b, r) == pc[b] \in HoldingPoints /\ shm_id[b] = r

\* The server has acted on the request in the status word.
Answered == server \in {"get_done", "reap"} \/ status = "SHM_DONE"

\* The server has chosen region r for the SHM_GET of backend b.
Granted(b, r) == pc[b] = "get_wait" /\ Answered /\ ret_id = r

\* No backend disappears without giving its region and the lock back.
OrderlyExits == Faults \intersect {"timeout", "backend_crash"} = {}

\* Every variable has its type: the control words of OpsServer, the region
\* headers, and the program points of backends, server and children.
TypeOK ==
  /\ lock \in 0 .. 1
  /\ status \in ShmReqStatus
  /\ free_id \in Regions /\ ret_id \in Regions
  /\ bitmap \in SUBSET Regions
  /\ server \in ServerPoints
  /\ child \in [Regions -> ChildPoints]
  /\ req_status \in [Regions -> ReqStatus]
  /\ req_args \in [Regions -> OpsOrNone]
  /\ req_result \in [Regions -> OpsOrNone]
  /\ pc \in [Backends -> BackendPoints]
  /\ shm_id \in [Backends -> Regions]
  /\ sent \in [Backends -> OpsOrNone]
  /\ answer \in [Backends -> OpsOrNone]
  /\ exhausted \in BOOLEAN

\* The spin lock excludes: at most one live backend is between spin_lock and
\* spin_unlock, whoever crashed or timed out while holding the lock.
LockExcludes ==
  \A b1, b2 \in Backends :
    pc[b1] \in CriticalPoints /\ pc[b2] \in CriticalPoints => b1 = b2

\* The assertions of getSharedBuffer and freeBuffer never fail: a backend that
\* has the lock always finds the server's status word at SHM_NONE.
ClientAssertsHold == \A b \in Backends : pc[b] # "aborted"

\* As long as no SHM_GET met a full bitmap, no two backends share a region,
\* whatever backends, children and timeouts did in between.
RegionExclusive ==
  ~exhausted =>
    \A b1, b2 \in Backends, r \in Regions :
      Holds(b1, r) /\ Holds(b2, r) => b1 = b2

\* As long as no SHM_GET met a full bitmap, the result a backend copies out of
\* its region is the result of the request it sent, never that of an earlier
\* request or of an earlier owner of the region.
AnswerMatches ==
  ~exhausted => \A b \in Backends : pc[b] = "copied" => answer[b] = sent[b]

\* As long as no SHM_GET met a full bitmap, the assertion of the main loop on
\* the bit of the region being freed holds.
ServerAssertHolds == ~exhausted => server # "aborted"

\* The lock does what getSharedBuffer and freeBuffer rely on: one backend at a
\* time, and a status word at SHM_NONE for whoever gets it.
LockSound == LockExcludes /\ ClientAssertsHold

\* Regions have one user each, and the main loop is only asked to free regions
\* that are taken, as long as no SHM_GET met a full bitmap.
RegionsSound == RegionExclusive /\ ServerAssertHolds

\* The assertion of the main loop as the code states it, with no condition.
ServerAssert == server # "aborted"

\* A region that has been handed out is accounted for: as long as every backend
\* exits through its exit handler, some backend holds it or is about to.
NoRegionLeak ==
  OrderlyExits =>
    \A r \in bitmap :
      \E b \in Backends : Holds(b, r) \/ Granted(b, r)

\* With at most as many backends as regions, each exiting through its exit
\* handler, no request for a region meets a full bitmap.
NeverExhausted ==
  OrderlyExits /\ Cardinality(Backends) <= NumRegions => ~exhausted

\* The bitmap is accounted for: backends that exit through their exit handler
\* lose no region, and have enough of them.
RegionsAccounted == NoRegionLeak /\ NeverExhausted

\* A region has a child process exactly from the fork to the waitpid: no child
\* outlives its region, and no region is handed out without a child.
ChildPerRegion ==
  \A r \in Regions :
    child[r] # "none" <=> r \in bitmap \/ (server = "reap" /\ free_id = r)

\* As long as no SHM_GET met a full bitmap, the request in a region does not
\* change while the child of the region is working on it.
RequestStable ==
  [][~exhausted' =>
       \A r \in Regions : child[r] = "busy" => req_args'[r] = req_args[r]]_vars

\* A region is only freed on behalf of the backend that holds it: a bit is
\* cleared while its holder waits in freeBuffer, or after that holder died there.
FreedByHolder ==
  [][~exhausted' =>
       \A r \in bitmap \ bitmap' :
         \A b \in Backends : Holds(b, r) => pc[b] = "free_wait"]_vars

\* What belongs to a region's holder only its holder gives up: the arguments
\* that its child works on, and the region itself.
HolderDecides == RequestStable /\ FreedByHolder

\* The spin lock is not fair: a waiting backend may be overtaken by new ones for
\* as long as they keep coming.
ArrivalsEnd == <>[][\A b \in Backends : ~Respawn(b)]_vars

\* A backend that asks for a region eventually gets its invoker ready, when no
\* stream of new backends overtakes it for ever.
GetCompletes ==
  ArrivalsEnd => \A b \in Backends : pc[b] = "get_spin" ~> pc[b] = "ready"

\* Every request is eventually answered: sendRequest returns.
CallCompletes == \A b \in Backends : pc[b] = "filled" ~> pc[b] = "ready"

\* A backend that exits eventually gives its region back and is gone, when no
\* stream of new backends overtakes it for ever.
FreeCompletes ==
  ArrivalsEnd => \A b \in Backends : pc[b] = "free_spin" ~> pc[b] = "gone"

\* getSharedBuffer, sendRequest and freeBuffer return, though each waits without
\* a timeout for another process that may itself be waiting.
OperationsComplete == GetCompletes /\ CallCompletes /\ FreeCompletes

-----------------------------------------------------------------------------
\* The inductive invariant behind the safety properties.

\* Who has the lock, what the status word then says, and where the server is.
ControlInv ==
  /\ LockExcludes
  /\ ClientAssertsHold
  /\ lock = 0 => status = "SHM_NONE"
  /\ server = "get_done" => status = "SHM_GET"
  /\ server \in {"reap", "aborted"} => status = "SHM_FREE"
  /\ \A b \in Backends :
       /\ pc[b] \in CriticalPoints => lock = 1
       /\ pc[b] \in {"get_locked", "get_cleared", "free_locked", "free_cleared"}
            => status = "SHM_NONE"
       /\ pc[b] = "get_wait" => status \in {"SHM_GET", "SHM_DONE"}
       /\ pc[b] = "get_taken" => status = "SHM_DONE"
       /\ pc[b] = "free_wait" => status \in {"SHM_FREE", "SHM_DONE"}
       /\ pc[b] = "free_wait" /\ status = "SHM_FREE" => free_id = shm_id[b]

\* Bits and children.
ChildInv ==
  /\ ChildPerRegion
  /\ server = "reap" => free_id \notin bitmap

\* Bits and holders.
PoolInv ==
  /\ RegionExclusive
  /\ ServerAssertHolds
  /\ ~exhausted =>
       /\ \A b \in Backends :
            /\ pc[b] \in HoldingPoints /\ ~(pc[b] = "free_wait" /\ Answered)
                 => shm_id[b] \in bitmap
            /\ pc[b] = "get_wait" /\ Answered
                 => /\ ret_id \in bitmap
                    /\ \A c \in Backends : ~Holds(c, ret_id)
            /\ status = "SHM_FREE" /\ Holds(b, free_id) => pc[b] = "free_wait"
       /\ status = "SHM_FREE" /\ server = "poll" => free_id \in bitmap

\* The words of a region, its holder and its child.
CallInv ==
  ~exhausted =>
    /\ \A r \in Regions :
         /\ r \notin bitmap => req_status[r] \in {"NONE", "EXIT"}
         /\ child[r] = "busy"
              => req_status[r] = "SENT" /\ req_result[r] = req_args[r]
    /\ status = "SHM_FREE" /\ server = "poll" => req_status[free_id] = "NONE"
    /\ \A b \in Backends :
         /\ pc[b] = "get_wait" /\ Answered => req_status[ret_id] \in {"NONE", "EXIT"}
         /\ pc[b] \in {"get_taken", "get_cleared", "init"}
              => req_status[shm_id[b]] \in {"NONE", "EXIT"}
         /\ pc[b] \in {"ready", "filled", "free_spin", "free_locked"}
              => req_status[shm_id[b]] = "NONE"
         /\ pc[b] \in {"filled", "await"} => req_args[shm_id[b]] = sent[b]
         /\ pc[b] = "await" => req_status[shm_id[b]] \in {"SENT", "DONE"}
         /\ pc[b] = "await" /\ req_status[shm_id[b]] = "DONE"
              => req_result[shm_id[b]] = sent[b]
         /\ pc[b] = "copied"
              => req_status[shm_id[b]] = "DONE" /\ answer[b] = sent[b]

\* Nothing is lost when every backend exits in order.
LeakInv ==
  OrderlyExits =>
    /\ NoRegionLeak
    /\ status = "SHM_GET" => \E b \in Backends : pc[b] = "get_wait"
    /\ \A b \in Backends : pc[b] = "free_wait" /\ Answered => shm_id[b] \notin bitmap

\* The data a backend keeps for a call exists exactly during the call.
RequestInv ==
  \A b \in Backends :
    /\ pc[b] \in CallPoints => sent[b] \in Ops
    /\ pc[b] \notin CallPoints => sent[b] = NoOp
    /\ pc[b] # "copied" => answer[b] = NoOp

\* The conjunction that every step preserves: the bookkeeping on both sides of the
\* channel agrees at every point of every process.
IInv ==
  /\ TypeOK /\ ControlInv /\ ChildInv
  /\ PoolInv /\ CallInv /\ LeakInv /\ RequestInv

-----------------------------------------------------------------------------
\* The channel as an implementation of OpsService.

NoRegion == -1

ConnectedRegion ==
  [b \in Backends |-> IF pc[b] \in HoldingPoints THEN shm_id[b] ELSE NoRegion]

Service ==
  INSTANCE OpsService
  WITH region <- ConnectedRegion, request <- sent, reply <- answer

\* The behaviours in which no SHM_GET meets a full bitmap.
WithinCapacitySpec == Init /\ [][Next /\ ~exhausted']_vars

\* Every step of the channel is a step of the service or invisible to it: from
\* the operators' side getSharedBuffer, sendRequest and freeBuffer behave as
\* atomic connect, call and disconnect on a region of their own.
ImplementsService == Service!Spec

=============================================================================
