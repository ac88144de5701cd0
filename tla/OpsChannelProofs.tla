-------------------------- MODULE OpsChannelProofs --------------------------
(***************************************************************************)
(* Proofs about OpsChannel, for every set of backends, number of regions,  *)
(* set of requests and combination of faults.                              *)
(***************************************************************************)
EXTENDS OpsChannel, Induction, FiniteSetTheorems, TLAPS

\* Zenon proves the steps that name no other prover.
USE Zenon

\* The loop over the bitmap of the main loop finds a free region when there is
\* one: the choice in FirstFree is always among the free regions.
LEMMA FirstFreeIsFree ==
  ASSUME FreeRegions # {}
  PROVE  FirstFree \in FreeRegions
<1>1. FreeRegions \in SUBSET Nat
  BY SMT, RegionsAssumption DEF FreeRegions, Regions
<1>2. \E r \in FreeRegions : \A s \in FreeRegions : r <= s
  BY <1>1, LeastNatural
<1> QED  BY <1>2 DEF FirstFree

\* The actions of Next, each under its quantifier, or a stuttering step.
LEMMA NextCases ==
  ASSUME [Next]_vars
  PROVE  \/ \E b \in Backends : BackendStep(b) \/ SessionStep(b) \/ FaultStep(b)
         \/ ServerStep
         \/ \E r \in Regions : ChildStep(r) \/ ChildCrash(r)
         \/ UNCHANGED vars
BY DEF Next

\* What SHM_GET does: it fails, and is remembered to have failed, or it hands out
\* a region whose bit was clear.
LEMMA ServerGetCases ==
  ASSUME ServerGet
  PROVE  \/ exhausted' = TRUE
         \/ \E f \in Regions :
              /\ f \notin bitmap
              /\ bitmap' = bitmap \union {f}
              /\ ret_id' = f
              /\ child' = [child EXCEPT ![f] = "poll"]
              /\ exhausted' = exhausted
BY FirstFreeIsFree DEF ServerGet, FreeRegions

-----------------------------------------------------------------------------
\* Types.

\* The zeroed control page and the disconnected backends are well typed.
LEMMA InitTypeOK == Init => TypeOK
<1>1. 0 \in Regions /\ 0 \in 0 .. 1
  BY SMT, RegionsAssumption DEF Regions
<1>2. Init => exhausted \in BOOLEAN
  BY Zenon DEF Init
<1> QED
  BY SMT, <1>1, <1>2
     DEF Init, TypeOK, OpsOrNone, ShmReqStatus, ReqStatus, ServerPoints,
         ChildPoints, BackendPoints, CriticalPoints, CallPoints

\* Every action of backends, server loop and children keeps the types.
LEMMA StepTypeOK ==
  ASSUME TypeOK, [Next]_vars
  PROVE  TypeOK'
<1> USE DEF TypeOK, controlVars, serverVars, regionVars, backendVars
<1>0. 0 \in Regions
  BY SMT, RegionsAssumption DEF Regions
<1>1. ASSUME NEW b \in Backends, BackendStep(b)
      PROVE  TypeOK'
  BY SMT, <1>1
     DEF BackendStep, GetLock, GetPost, GetTake, GetClear, GetUnlock,
         InvokerInit, SetSent, CopyResultFrom, SetNone, FreeLock, FreePost,
         FreeClear, FreeUnlock, spin_lock, spin_unlock, Goto, ShmReqStatus,
         ReqStatus, OpsOrNone, BackendPoints, CriticalPoints, CallPoints
<1>2. ASSUME NEW b \in Backends, SessionStep(b)
      PROVE  TypeOK'
  BY SMT, <1>2
     DEF SessionStep, GetInstance, SerializeTo, ExitHandler, Goto, OpsOrNone,
         BackendPoints, CriticalPoints, CallPoints
<1>3. ASSUME NEW b \in Backends, FaultStep(b)
      PROVE  TypeOK'
  BY <1>0, <1>3
     DEF FaultStep, GetTimeout, BackendCrash, Respawn, ResetProcess, OpsOrNone,
         BackendPoints
<1>4. ASSUME ServerStep
      PROVE  TypeOK'
  <2>1. CASE ServerGet
    <3>1. FreeRegions # {} => FirstFree \in Regions
      BY FirstFreeIsFree DEF FreeRegions
    <3> QED  BY ZenonT(60), <2>1, <3>1 DEF ServerGet, ServerPoints, ChildPoints
  <2>2. CASE ServerGetDone
    BY <2>2 DEF ServerGetDone, ServerPoints, ShmReqStatus
  <2>3. CASE ServerFree
    BY <2>3 DEF ServerFree, ServerPoints, ReqStatus
  <2>4. CASE ServerReap
    BY <2>4 DEF ServerReap, ServerPoints, ShmReqStatus, ChildPoints
  <2> QED  BY <1>4, <2>1, <2>2, <2>3, <2>4 DEF ServerStep
<1>5. ASSUME NEW r \in Regions, ChildStep(r) \/ ChildCrash(r)
      PROVE  TypeOK'
  BY SMT, <1>5
     DEF ChildStep, ChildHandle, ChildDone, ChildExit, ChildCrash, ReqStatus,
         ChildPoints
<1>6. CASE UNCHANGED vars
  BY <1>6 DEF vars
<1> QED  BY <1>1, <1>2, <1>3, <1>4, <1>5, <1>6, NextCases

\* Every reachable state of the channel is well typed.
THEOREM TypeCorrect == Spec => []TypeOK
<1>1. TypeOK /\ [Next]_vars => TypeOK'
  BY StepTypeOK
<1> QED  BY InitTypeOK, <1>1, PTL DEF Spec

-----------------------------------------------------------------------------
\* Control words.

\* Every step keeps the control page consistent: who holds the lock, and which
\* status word goes with which position of the holder and of the main loop.
LEMMA StepControlInv ==
  ASSUME TypeOK, ControlInv, [Next]_vars
  PROVE  ControlInv'
<1> USE DEF TypeOK, ControlInv, LockExcludes, ClientAssertsHold, CriticalPoints,
           controlVars, serverVars, regionVars, backendVars
<1>1. ASSUME NEW b \in Backends, GetLock(b)
      PROVE  ControlInv'
  BY SMT, <1>1
     DEF GetLock, spin_lock, Goto
<1>2. ASSUME NEW b \in Backends, GetPost(b)
      PROVE  ControlInv'
  BY SMT, <1>2
     DEF GetPost, Goto
<1>3. ASSUME NEW b \in Backends, GetTake(b)
      PROVE  ControlInv'
  BY <1>3
     DEF GetTake, Goto
<1>4. ASSUME NEW b \in Backends, GetClear(b)
      PROVE  ControlInv'
  BY <1>4
     DEF GetClear, Goto
<1>5. ASSUME NEW b \in Backends, GetUnlock(b)
      PROVE  ControlInv'
  BY <1>5
     DEF GetUnlock, spin_unlock, Goto
<1>6. ASSUME NEW b \in Backends, InvokerInit(b)
      PROVE  ControlInv'
  BY <1>6
     DEF InvokerInit, Goto
<1>7. ASSUME NEW b \in Backends, SetSent(b)
      PROVE  ControlInv'
  BY <1>7
     DEF SetSent, Goto
<1>8. ASSUME NEW b \in Backends, CopyResultFrom(b)
      PROVE  ControlInv'
  BY <1>8
     DEF CopyResultFrom, Goto
<1>9. ASSUME NEW b \in Backends, SetNone(b)
      PROVE  ControlInv'
  BY <1>9
     DEF SetNone, Goto
<1>10. ASSUME NEW b \in Backends, FreeLock(b)
      PROVE  ControlInv'
  BY SMT, <1>10
     DEF FreeLock, spin_lock, Goto
<1>11. ASSUME NEW b \in Backends, FreePost(b)
      PROVE  ControlInv'
  BY SMT, <1>11
     DEF FreePost, Goto
<1>12. ASSUME NEW b \in Backends, FreeClear(b)
      PROVE  ControlInv'
  BY <1>12
     DEF FreeClear, Goto
<1>13. ASSUME NEW b \in Backends, FreeUnlock(b)
      PROVE  ControlInv'
  BY <1>13
     DEF FreeUnlock, spin_unlock, Goto
<1>14. ASSUME NEW b \in Backends, GetInstance(b)
      PROVE  ControlInv'
  BY <1>14
     DEF GetInstance, Goto
<1>15. ASSUME NEW b \in Backends, ExitHandler(b)
      PROVE  ControlInv'
  BY <1>15
     DEF ExitHandler, Goto
<1>16. ASSUME NEW b \in Backends, GetTimeout(b)
      PROVE  ControlInv'
  BY <1>16
     DEF GetTimeout, ResetProcess
<1>17. ASSUME NEW b \in Backends, BackendCrash(b)
      PROVE  ControlInv'
  BY <1>17
     DEF BackendCrash, ResetProcess, DeadPoints
<1>18. ASSUME NEW b \in Backends, Respawn(b)
      PROVE  ControlInv'
  BY <1>18
     DEF Respawn, ResetProcess, DeadPoints
<1>19. ASSUME NEW b \in Backends, NEW op \in Ops, SerializeTo(b, op)
      PROVE  ControlInv'
  BY <1>19
     DEF SerializeTo, Goto
<1>20. CASE ServerGet
  BY SMTT(60), <1>20
     DEF ServerGet
<1>21. CASE ServerGetDone
  BY <1>21
     DEF ServerGetDone
<1>22. CASE ServerFree
  BY <1>22
     DEF ServerFree
<1>23. CASE ServerReap
  BY SMTT(60), <1>23
     DEF ServerReap
<1>24. ASSUME NEW r \in Regions, ChildHandle(r)
      PROVE  ControlInv'
  BY <1>24
     DEF ChildHandle
<1>25. ASSUME NEW r \in Regions, ChildDone(r)
      PROVE  ControlInv'
  BY SMTT(60), <1>25
     DEF ChildDone
<1>26. ASSUME NEW r \in Regions, ChildExit(r)
      PROVE  ControlInv'
  BY SMTT(60), <1>26
     DEF ChildExit
<1>27. ASSUME NEW r \in Regions, ChildCrash(r)
      PROVE  ControlInv'
  BY SMTT(60), <1>27
     DEF ChildCrash, Running
<1>28. CASE UNCHANGED vars
  BY SMTT(60), <1>28 DEF vars
<1> QED
  BY ZenonT(60), <1>1, <1>2, <1>3, <1>4, <1>5, <1>6, <1>7, <1>8, <1>9, <1>10, <1>11,
     <1>12, <1>13, <1>14, <1>15, <1>16, <1>17, <1>18, <1>19, <1>20, <1>21,
     <1>22, <1>23, <1>24, <1>25, <1>26, <1>27, <1>28, NextCases
     DEF BackendStep, SessionStep, FaultStep, ServerStep, ChildStep

\* Every step keeps children and bitmap consistent: a child is there from the fork
\* that follows the setting of its bit to the waitpid that follows its clearing.
LEMMA StepChildInv ==
  ASSUME TypeOK, ControlInv, ChildInv, [Next]_vars
  PROVE  ChildInv'
<1> USE DEF TypeOK, ControlInv, ChildInv, ChildPerRegion, controlVars, serverVars,
           regionVars, backendVars
<1>1. ASSUME NEW b \in Backends, GetLock(b)
      PROVE  ChildInv'
  BY <1>1
     DEF GetLock, spin_lock, Goto
<1>2. ASSUME NEW b \in Backends, GetPost(b)
      PROVE  ChildInv'
  BY <1>2
     DEF GetPost, Goto
<1>3. ASSUME NEW b \in Backends, GetTake(b)
      PROVE  ChildInv'
  BY <1>3
     DEF GetTake, Goto
<1>4. ASSUME NEW b \in Backends, GetClear(b)
      PROVE  ChildInv'
  BY <1>4
     DEF GetClear, Goto
<1>5. ASSUME NEW b \in Backends, GetUnlock(b)
      PROVE  ChildInv'
  BY <1>5
     DEF GetUnlock, spin_unlock, Goto
<1>6. ASSUME NEW b \in Backends, InvokerInit(b)
      PROVE  ChildInv'
  BY <1>6
     DEF InvokerInit, Goto
<1>7. ASSUME NEW b \in Backends, SetSent(b)
      PROVE  ChildInv'
  BY <1>7
     DEF SetSent, Goto
<1>8. ASSUME NEW b \in Backends, CopyResultFrom(b)
      PROVE  ChildInv'
  BY <1>8
     DEF CopyResultFrom, Goto
<1>9. ASSUME NEW b \in Backends, SetNone(b)
      PROVE  ChildInv'
  BY <1>9
     DEF SetNone, Goto
<1>10. ASSUME NEW b \in Backends, FreeLock(b)
      PROVE  ChildInv'
  BY <1>10
     DEF FreeLock, spin_lock, Goto
<1>11. ASSUME NEW b \in Backends, FreePost(b)
      PROVE  ChildInv'
  BY <1>11
     DEF FreePost, Goto
<1>12. ASSUME NEW b \in Backends, FreeClear(b)
      PROVE  ChildInv'
  BY <1>12
     DEF FreeClear, Goto
<1>13. ASSUME NEW b \in Backends, FreeUnlock(b)
      PROVE  ChildInv'
  BY <1>13
     DEF FreeUnlock, spin_unlock, Goto
<1>14. ASSUME NEW b \in Backends, GetInstance(b)
      PROVE  ChildInv'
  BY <1>14
     DEF GetInstance, Goto
<1>15. ASSUME NEW b \in Backends, ExitHandler(b)
      PROVE  ChildInv'
  BY <1>15
     DEF ExitHandler, Goto
<1>16. ASSUME NEW b \in Backends, GetTimeout(b)
      PROVE  ChildInv'
  BY <1>16
     DEF GetTimeout, ResetProcess
<1>17. ASSUME NEW b \in Backends, BackendCrash(b)
      PROVE  ChildInv'
  BY <1>17
     DEF BackendCrash, ResetProcess, DeadPoints
<1>18. ASSUME NEW b \in Backends, Respawn(b)
      PROVE  ChildInv'
  BY <1>18
     DEF Respawn, ResetProcess, DeadPoints
<1>19. ASSUME NEW b \in Backends, NEW op \in Ops, SerializeTo(b, op)
      PROVE  ChildInv'
  BY <1>19
     DEF SerializeTo, Goto
<1>20. CASE ServerGet
  BY SMT, <1>20
     DEF ServerGet
<1>21. CASE ServerGetDone
  BY <1>21
     DEF ServerGetDone
<1>22. CASE ServerFree
  BY <1>22
     DEF ServerFree
<1>23. CASE ServerReap
  BY <1>23
     DEF ServerReap
<1>24. ASSUME NEW r \in Regions, ChildHandle(r)
      PROVE  ChildInv'
  BY <1>24
     DEF ChildHandle
<1>25. ASSUME NEW r \in Regions, ChildDone(r)
      PROVE  ChildInv'
  BY <1>25
     DEF ChildDone
<1>26. ASSUME NEW r \in Regions, ChildExit(r)
      PROVE  ChildInv'
  BY <1>26
     DEF ChildExit
<1>27. ASSUME NEW r \in Regions, ChildCrash(r)
      PROVE  ChildInv'
  BY <1>27
     DEF ChildCrash, Running
<1>28. CASE UNCHANGED vars
  BY SMTT(60), <1>28 DEF vars
<1> QED
  BY SMTT(60), <1>1, <1>2, <1>3, <1>4, <1>5, <1>6, <1>7, <1>8, <1>9, <1>10, <1>11,
     <1>12, <1>13, <1>14, <1>15, <1>16, <1>17, <1>18, <1>19, <1>20, <1>21,
     <1>22, <1>23, <1>24, <1>25, <1>26, <1>27, <1>28, NextCases
     DEF BackendStep, SessionStep, FaultStep, ServerStep, ChildStep

-----------------------------------------------------------------------------
\* Regions.

\* Every step keeps the regions that backends hold, or are about to take, distinct
\* and their bits set, as long as no request for a region met a full bitmap.
LEMMA StepPoolInv ==
  ASSUME TypeOK, ControlInv, PoolInv, [Next]_vars
  PROVE  PoolInv'
<1> USE DEF TypeOK, ControlInv, LockExcludes, CriticalPoints, PoolInv,
           RegionExclusive, ServerAssertHolds, Holds, HoldingPoints, CallPoints,
           Answered, controlVars, serverVars, regionVars, backendVars
<1>1. ASSUME NEW b \in Backends, GetLock(b)
      PROVE  PoolInv'
  BY SMTT(60), <1>1
     DEF GetLock, spin_lock, Goto
<1>2. ASSUME NEW b \in Backends, GetPost(b)
      PROVE  PoolInv'
  BY SMTT(60), <1>2
     DEF GetPost, Goto
<1>3. ASSUME NEW b \in Backends, GetTake(b)
      PROVE  PoolInv'
  BY SMTT(60), <1>3
     DEF GetTake, Goto
<1>4. ASSUME NEW b \in Backends, GetClear(b)
      PROVE  PoolInv'
  BY SMTT(60), <1>4
     DEF GetClear, Goto
<1>5. ASSUME NEW b \in Backends, GetUnlock(b)
      PROVE  PoolInv'
  BY SMTT(60), <1>5
     DEF GetUnlock, spin_unlock, Goto
<1>6. ASSUME NEW b \in Backends, InvokerInit(b)
      PROVE  PoolInv'
  BY SMTT(60), <1>6
     DEF InvokerInit, Goto
<1>7. ASSUME NEW b \in Backends, SetSent(b)
      PROVE  PoolInv'
  BY SMTT(60), <1>7
     DEF SetSent, Goto
<1>8. ASSUME NEW b \in Backends, CopyResultFrom(b)
      PROVE  PoolInv'
  BY SMTT(60), <1>8
     DEF CopyResultFrom, Goto
<1>9. ASSUME NEW b \in Backends, SetNone(b)
      PROVE  PoolInv'
  BY SMTT(60), <1>9
     DEF SetNone, Goto
<1>10. ASSUME NEW b \in Backends, FreeLock(b)
      PROVE  PoolInv'
  BY SMTT(60), <1>10
     DEF FreeLock, spin_lock, Goto
<1>11. ASSUME NEW b \in Backends, FreePost(b)
      PROVE  PoolInv'
  BY SMTT(60), <1>11
     DEF FreePost, Goto
<1>12. ASSUME NEW b \in Backends, FreeClear(b)
      PROVE  PoolInv'
  BY SMTT(60), <1>12
     DEF FreeClear, Goto
<1>13. ASSUME NEW b \in Backends, FreeUnlock(b)
      PROVE  PoolInv'
  BY SMTT(60), <1>13
     DEF FreeUnlock, spin_unlock, Goto
<1>14. ASSUME NEW b \in Backends, GetInstance(b)
      PROVE  PoolInv'
  BY SMTT(60), <1>14
     DEF GetInstance, Goto
<1>15. ASSUME NEW b \in Backends, ExitHandler(b)
      PROVE  PoolInv'
  BY SMTT(60), <1>15
     DEF ExitHandler, Goto
<1>16. ASSUME NEW b \in Backends, GetTimeout(b)
      PROVE  PoolInv'
  BY SMTT(60), <1>16
     DEF GetTimeout, ResetProcess
<1>17. ASSUME NEW b \in Backends, BackendCrash(b)
      PROVE  PoolInv'
  BY SMTT(60), <1>17
     DEF BackendCrash, ResetProcess, DeadPoints
<1>18. ASSUME NEW b \in Backends, Respawn(b)
      PROVE  PoolInv'
  BY SMTT(60), <1>18
     DEF Respawn, ResetProcess, DeadPoints
<1>19. ASSUME NEW b \in Backends, NEW op \in Ops, SerializeTo(b, op)
      PROVE  PoolInv'
  BY SMTT(60), <1>19
     DEF SerializeTo, Goto
<1>20. CASE ServerGet
  <2>1. CASE exhausted' = TRUE
    BY <2>1
  <2>2. ASSUME NEW f \in Regions,
               f \notin bitmap,
               bitmap' = bitmap \union {f},
               ret_id' = f,
               exhausted' = exhausted
        PROVE  PoolInv'
    <3>1. /\ server = "poll" /\ server' = "get_done"
          /\ status = "SHM_GET" /\ UNCHANGED <<status, free_id, pc, shm_id>>
      BY SMTT(60), <1>20 DEF ServerGet
    <3>2. ~exhausted => \A b \in Backends : pc[b] \in HoldingPoints => shm_id[b] \in bitmap
      BY SMTT(60), <3>1
    <3>3. ~exhausted => \A c \in Backends : ~Holds(c, f)
      BY SMTT(60), <2>2, <3>2
    <3> QED  BY <2>2, <3>1, <3>2, <3>3
  <2> QED  BY ZenonT(60), <1>20, <2>1, <2>2, ServerGetCases
<1>21. CASE ServerGetDone
  BY SMTT(60), <1>21
     DEF ServerGetDone
<1>22. CASE ServerFree
  BY SMTT(60), <1>22
     DEF ServerFree
<1>23. CASE ServerReap
  BY SMTT(60), <1>23
     DEF ServerReap
<1>24. ASSUME NEW r \in Regions, ChildHandle(r)
      PROVE  PoolInv'
  BY SMTT(60), <1>24
     DEF ChildHandle
<1>25. ASSUME NEW r \in Regions, ChildDone(r)
      PROVE  PoolInv'
  BY SMTT(60), <1>25
     DEF ChildDone
<1>26. ASSUME NEW r \in Regions, ChildExit(r)
      PROVE  PoolInv'
  BY SMTT(60), <1>26
     DEF ChildExit
<1>27. ASSUME NEW r \in Regions, ChildCrash(r)
      PROVE  PoolInv'
  BY SMTT(60), <1>27
     DEF ChildCrash, Running
<1>28. CASE UNCHANGED vars
  BY SMTT(60), <1>28 DEF vars
<1> QED
  BY ZenonT(60), <1>1, <1>2, <1>3, <1>4, <1>5, <1>6, <1>7, <1>8, <1>9, <1>10, <1>11,
     <1>12, <1>13, <1>14, <1>15, <1>16, <1>17, <1>18, <1>19, <1>20, <1>21,
     <1>22, <1>23, <1>24, <1>25, <1>26, <1>27, <1>28, NextCases
     DEF BackendStep, SessionStep, FaultStep, ServerStep, ChildStep

\* Every step keeps the handshake of each region consistent: its status word and
\* the positions of its backend and of its child, under the same condition.
LEMMA StepCallInv ==
  ASSUME TypeOK, ControlInv, ChildInv, PoolInv, CallInv, [Next]_vars
  PROVE  CallInv'
<1> USE DEF TypeOK, ControlInv, LockExcludes, CriticalPoints, ChildInv,
           ChildPerRegion, PoolInv, RegionExclusive, Holds, HoldingPoints,
           CallPoints, CallInv, Answered, controlVars, serverVars,
           regionVars, backendVars
<1>1. ASSUME NEW b \in Backends, GetLock(b)
      PROVE  CallInv'
  BY <1>1, SMTT(60)
     DEF GetLock, spin_lock, Goto
<1>2. ASSUME NEW b \in Backends, GetPost(b)
      PROVE  CallInv'
  BY <1>2, SMTT(60)
     DEF GetPost, Goto
<1>3. ASSUME NEW b \in Backends, GetTake(b)
      PROVE  CallInv'
  BY <1>3, SMTT(60)
     DEF GetTake, Goto
<1>4. ASSUME NEW b \in Backends, GetClear(b)
      PROVE  CallInv'
  BY <1>4, SMTT(60)
     DEF GetClear, Goto
<1>5. ASSUME NEW b \in Backends, GetUnlock(b)
      PROVE  CallInv'
  BY <1>5, SMTT(60)
     DEF GetUnlock, spin_unlock, Goto
<1>6. ASSUME NEW b \in Backends, InvokerInit(b)
      PROVE  CallInv'
  BY <1>6, SMTT(60)
     DEF InvokerInit, Goto
<1>7. ASSUME NEW b \in Backends, SetSent(b)
      PROVE  CallInv'
  BY <1>7, SMTT(60)
     DEF SetSent, Goto
<1>8. ASSUME NEW b \in Backends, CopyResultFrom(b)
      PROVE  CallInv'
  BY <1>8, SMTT(60)
     DEF CopyResultFrom, Goto
<1>9. ASSUME NEW b \in Backends, SetNone(b)
      PROVE  CallInv'
  BY <1>9, SMTT(60)
     DEF SetNone, Goto
<1>10. ASSUME NEW b \in Backends, FreeLock(b)
      PROVE  CallInv'
  BY <1>10, SMTT(60)
     DEF FreeLock, spin_lock, Goto
<1>11. ASSUME NEW b \in Backends, FreePost(b)
      PROVE  CallInv'
  BY <1>11, SMTT(60)
     DEF FreePost, Goto
<1>12. ASSUME NEW b \in Backends, FreeClear(b)
      PROVE  CallInv'
  BY <1>12, SMTT(60)
     DEF FreeClear, Goto
<1>13. ASSUME NEW b \in Backends, FreeUnlock(b)
      PROVE  CallInv'
  BY <1>13, SMTT(60)
     DEF FreeUnlock, spin_unlock, Goto
<1>14. ASSUME NEW b \in Backends, GetInstance(b)
      PROVE  CallInv'
  BY <1>14, SMTT(60)
     DEF GetInstance, Goto
<1>15. ASSUME NEW b \in Backends, ExitHandler(b)
      PROVE  CallInv'
  BY <1>15, SMTT(60)
     DEF ExitHandler, Goto
<1>16. ASSUME NEW b \in Backends, GetTimeout(b)
      PROVE  CallInv'
  BY <1>16, SMTT(60)
     DEF GetTimeout, ResetProcess
<1>17. ASSUME NEW b \in Backends, BackendCrash(b)
      PROVE  CallInv'
  BY <1>17, SMTT(60)
     DEF BackendCrash, ResetProcess, DeadPoints
<1>18. ASSUME NEW b \in Backends, Respawn(b)
      PROVE  CallInv'
  BY <1>18, SMTT(60)
     DEF Respawn, ResetProcess, DeadPoints
<1>19. ASSUME NEW b \in Backends, NEW op \in Ops, SerializeTo(b, op)
      PROVE  CallInv'
  BY <1>19, SMTT(60)
     DEF SerializeTo, Goto
<1>20. CASE ServerGet
  <2>1. CASE exhausted' = TRUE
    BY ZenonT(60), <2>1
  <2>2. ASSUME NEW f \in Regions,
               f \notin bitmap,
               bitmap' = bitmap \union {f},
               ret_id' = f,
               child' = [child EXCEPT ![f] = "poll"],
               exhausted' = exhausted
        PROVE  CallInv'
    <3>1. /\ status = "SHM_GET" /\ server' = "get_done"
          /\ UNCHANGED <<status, req_status, req_args, req_result, pc, shm_id,
                         sent, answer>>
      BY SMTT(60), <1>20 DEF ServerGet
    <3> QED  BY <2>2, <3>1, SMTT(60)
  <2> QED  BY ZenonT(60), <1>20, <2>1, <2>2, ServerGetCases
<1>21. CASE ServerGetDone
  BY <1>21, SMTT(60)
     DEF ServerGetDone
<1>22. CASE ServerFree
  BY <1>22, SMTT(60)
     DEF ServerFree
<1>23. CASE ServerReap
  BY <1>23, SMTT(60)
     DEF ServerReap
<1>24. ASSUME NEW r \in Regions, ChildHandle(r)
      PROVE  CallInv'
  BY <1>24, SMTT(60)
     DEF ChildHandle
<1>25. ASSUME NEW r \in Regions, ChildDone(r)
      PROVE  CallInv'
  BY <1>25, SMTT(60)
     DEF ChildDone
<1>26. ASSUME NEW r \in Regions, ChildExit(r)
      PROVE  CallInv'
  BY <1>26, SMTT(60)
     DEF ChildExit
<1>27. ASSUME NEW r \in Regions, ChildCrash(r)
      PROVE  CallInv'
  BY <1>27, SMTT(60)
     DEF ChildCrash, Running
<1>28. CASE UNCHANGED vars
  BY SMTT(60), <1>28 DEF vars
<1> QED
  BY ZenonT(60), <1>1, <1>2, <1>3, <1>4, <1>5, <1>6, <1>7, <1>8, <1>9, <1>10, <1>11,
     <1>12, <1>13, <1>14, <1>15, <1>16, <1>17, <1>18, <1>19, <1>20, <1>21,
     <1>22, <1>23, <1>24, <1>25, <1>26, <1>27, <1>28, NextCases
     DEF BackendStep, SessionStep, FaultStep, ServerStep, ChildStep

\* Every step keeps each set bit accounted for by a backend that holds the region
\* or waits for it, while all backends leave through their exit handler.
LEMMA StepLeakInv ==
  ASSUME TypeOK, ControlInv, LeakInv, [Next]_vars
  PROVE  LeakInv'
<1> USE DEF TypeOK, ControlInv, LockExcludes, CriticalPoints, NoRegionLeak,
           Holds, HoldingPoints, CallPoints, Granted, Answered, LeakInv,
           OrderlyExits, controlVars, serverVars, regionVars, backendVars
<1>1. ASSUME NEW b \in Backends, GetLock(b)
      PROVE  LeakInv'
  BY SMTT(60), <1>1
     DEF GetLock, spin_lock, Goto
<1>2. ASSUME NEW b \in Backends, GetPost(b)
      PROVE  LeakInv'
  BY SMTT(60), <1>2
     DEF GetPost, Goto
<1>3. ASSUME NEW b \in Backends, GetTake(b)
      PROVE  LeakInv'
  BY SMTT(60), <1>3
     DEF GetTake, Goto
<1>4. ASSUME NEW b \in Backends, GetClear(b)
      PROVE  LeakInv'
  BY SMTT(60), <1>4
     DEF GetClear, Goto
<1>5. ASSUME NEW b \in Backends, GetUnlock(b)
      PROVE  LeakInv'
  BY SMTT(60), <1>5
     DEF GetUnlock, spin_unlock, Goto
<1>6. ASSUME NEW b \in Backends, InvokerInit(b)
      PROVE  LeakInv'
  BY SMTT(60), <1>6
     DEF InvokerInit, Goto
<1>7. ASSUME NEW b \in Backends, SetSent(b)
      PROVE  LeakInv'
  BY SMTT(60), <1>7
     DEF SetSent, Goto
<1>8. ASSUME NEW b \in Backends, CopyResultFrom(b)
      PROVE  LeakInv'
  BY SMTT(60), <1>8
     DEF CopyResultFrom, Goto
<1>9. ASSUME NEW b \in Backends, SetNone(b)
      PROVE  LeakInv'
  BY SMTT(60), <1>9
     DEF SetNone, Goto
<1>10. ASSUME NEW b \in Backends, FreeLock(b)
      PROVE  LeakInv'
  BY SMTT(60), <1>10
     DEF FreeLock, spin_lock, Goto
<1>11. ASSUME NEW b \in Backends, FreePost(b)
      PROVE  LeakInv'
  BY SMTT(60), <1>11
     DEF FreePost, Goto
<1>12. ASSUME NEW b \in Backends, FreeClear(b)
      PROVE  LeakInv'
  BY SMTT(60), <1>12
     DEF FreeClear, Goto
<1>13. ASSUME NEW b \in Backends, FreeUnlock(b)
      PROVE  LeakInv'
  BY SMTT(60), <1>13
     DEF FreeUnlock, spin_unlock, Goto
<1>14. ASSUME NEW b \in Backends, GetInstance(b)
      PROVE  LeakInv'
  BY SMTT(60), <1>14
     DEF GetInstance, Goto
<1>15. ASSUME NEW b \in Backends, ExitHandler(b)
      PROVE  LeakInv'
  BY SMTT(60), <1>15
     DEF ExitHandler, Goto
<1>16. ASSUME NEW b \in Backends, GetTimeout(b)
      PROVE  LeakInv'
  BY SMTT(60), <1>16
     DEF GetTimeout, ResetProcess
<1>17. ASSUME NEW b \in Backends, BackendCrash(b)
      PROVE  LeakInv'
  BY SMTT(60), <1>17
     DEF BackendCrash, ResetProcess, DeadPoints
<1>18. ASSUME NEW b \in Backends, Respawn(b)
      PROVE  LeakInv'
  BY SMTT(60), <1>18
     DEF Respawn, ResetProcess, DeadPoints
<1>19. ASSUME NEW b \in Backends, NEW op \in Ops, SerializeTo(b, op)
      PROVE  LeakInv'
  BY SMTT(60), <1>19
     DEF SerializeTo, Goto
<1>20. CASE ServerGet
  BY SMTT(60), <1>20, FirstFreeIsFree
     DEF ServerGet
<1>21. CASE ServerGetDone
  BY SMTT(60), <1>21
     DEF ServerGetDone
<1>22. CASE ServerFree
  BY SMTT(60), <1>22
     DEF ServerFree
<1>23. CASE ServerReap
  BY SMTT(60), <1>23
     DEF ServerReap
<1>24. ASSUME NEW r \in Regions, ChildHandle(r)
      PROVE  LeakInv'
  BY SMTT(60), <1>24
     DEF ChildHandle
<1>25. ASSUME NEW r \in Regions, ChildDone(r)
      PROVE  LeakInv'
  BY SMTT(60), <1>25
     DEF ChildDone
<1>26. ASSUME NEW r \in Regions, ChildExit(r)
      PROVE  LeakInv'
  BY SMTT(60), <1>26
     DEF ChildExit
<1>27. ASSUME NEW r \in Regions, ChildCrash(r)
      PROVE  LeakInv'
  BY SMTT(60), <1>27
     DEF ChildCrash, Running
<1>28. CASE UNCHANGED vars
  BY SMTT(60), <1>28 DEF vars
<1> QED
  BY ZenonT(60), <1>1, <1>2, <1>3, <1>4, <1>5, <1>6, <1>7, <1>8, <1>9, <1>10, <1>11,
     <1>12, <1>13, <1>14, <1>15, <1>16, <1>17, <1>18, <1>19, <1>20, <1>21,
     <1>22, <1>23, <1>24, <1>25, <1>26, <1>27, <1>28, NextCases
     DEF BackendStep, SessionStep, FaultStep, ServerStep, ChildStep

\* Every step keeps a request in the region until its answer has been copied out.
LEMMA StepRequestInv ==
  ASSUME TypeOK, RequestInv, [Next]_vars
  PROVE  RequestInv'
<1> USE DEF TypeOK, RequestInv, CallPoints, CriticalPoints, DeadPoints,
           controlVars, serverVars, regionVars, backendVars
<1>1. ASSUME NEW b \in Backends, GetLock(b)
      PROVE  RequestInv'
  BY SMTT(60), <1>1
     DEF GetLock, spin_lock, Goto
<1>2. ASSUME NEW b \in Backends, GetPost(b)
      PROVE  RequestInv'
  BY SMTT(60), <1>2
     DEF GetPost, Goto
<1>3. ASSUME NEW b \in Backends, GetTake(b)
      PROVE  RequestInv'
  BY SMTT(60), <1>3
     DEF GetTake, Goto
<1>4. ASSUME NEW b \in Backends, GetClear(b)
      PROVE  RequestInv'
  BY SMTT(60), <1>4
     DEF GetClear, Goto
<1>5. ASSUME NEW b \in Backends, GetUnlock(b)
      PROVE  RequestInv'
  BY SMTT(60), <1>5
     DEF GetUnlock, spin_unlock, Goto
<1>6. ASSUME NEW b \in Backends, InvokerInit(b)
      PROVE  RequestInv'
  BY SMTT(60), <1>6
     DEF InvokerInit, Goto
<1>7. ASSUME NEW b \in Backends, SetSent(b)
      PROVE  RequestInv'
  BY SMTT(60), <1>7
     DEF SetSent, Goto
<1>8. ASSUME NEW b \in Backends, CopyResultFrom(b)
      PROVE  RequestInv'
  BY SMTT(60), <1>8
     DEF CopyResultFrom, Goto
<1>9. ASSUME NEW b \in Backends, SetNone(b)
      PROVE  RequestInv'
  BY SMTT(60), <1>9
     DEF SetNone, Goto
<1>10. ASSUME NEW b \in Backends, FreeLock(b)
      PROVE  RequestInv'
  BY SMTT(60), <1>10
     DEF FreeLock, spin_lock, Goto
<1>11. ASSUME NEW b \in Backends, FreePost(b)
      PROVE  RequestInv'
  BY SMTT(60), <1>11
     DEF FreePost, Goto
<1>12. ASSUME NEW b \in Backends, FreeClear(b)
      PROVE  RequestInv'
  BY SMTT(60), <1>12
     DEF FreeClear, Goto
<1>13. ASSUME NEW b \in Backends, FreeUnlock(b)
      PROVE  RequestInv'
  BY SMTT(60), <1>13
     DEF FreeUnlock, spin_unlock, Goto
<1>14. ASSUME NEW b \in Backends, GetInstance(b)
      PROVE  RequestInv'
  BY SMTT(60), <1>14
     DEF GetInstance, Goto
<1>15. ASSUME NEW b \in Backends, ExitHandler(b)
      PROVE  RequestInv'
  BY SMTT(60), <1>15
     DEF ExitHandler, Goto
<1>16. ASSUME NEW b \in Backends, GetTimeout(b)
      PROVE  RequestInv'
  BY SMTT(60), <1>16
     DEF GetTimeout, ResetProcess
<1>17. ASSUME NEW b \in Backends, BackendCrash(b)
      PROVE  RequestInv'
  BY SMTT(60), <1>17
     DEF BackendCrash, ResetProcess, DeadPoints
<1>18. ASSUME NEW b \in Backends, Respawn(b)
      PROVE  RequestInv'
  BY SMTT(60), <1>18
     DEF Respawn, ResetProcess, DeadPoints
<1>19. ASSUME NEW b \in Backends, NEW op \in Ops, SerializeTo(b, op)
      PROVE  RequestInv'
  BY SMTT(60), <1>19
     DEF SerializeTo, Goto
<1>20. CASE ServerGet
  BY SMTT(60), <1>20
     DEF ServerGet
<1>21. CASE ServerGetDone
  BY SMTT(60), <1>21
     DEF ServerGetDone
<1>22. CASE ServerFree
  BY SMTT(60), <1>22
     DEF ServerFree
<1>23. CASE ServerReap
  BY SMTT(60), <1>23
     DEF ServerReap
<1>24. ASSUME NEW r \in Regions, ChildHandle(r)
      PROVE  RequestInv'
  BY SMTT(60), <1>24
     DEF ChildHandle
<1>25. ASSUME NEW r \in Regions, ChildDone(r)
      PROVE  RequestInv'
  BY SMTT(60), <1>25
     DEF ChildDone
<1>26. ASSUME NEW r \in Regions, ChildExit(r)
      PROVE  RequestInv'
  BY SMTT(60), <1>26
     DEF ChildExit
<1>27. ASSUME NEW r \in Regions, ChildCrash(r)
      PROVE  RequestInv'
  BY SMTT(60), <1>27
     DEF ChildCrash, Running
<1>28. CASE UNCHANGED vars
  BY SMTT(60), <1>28 DEF vars
<1> QED
  BY ZenonT(60), <1>1, <1>2, <1>3, <1>4, <1>5, <1>6, <1>7, <1>8, <1>9, <1>10, <1>11,
     <1>12, <1>13, <1>14, <1>15, <1>16, <1>17, <1>18, <1>19, <1>20, <1>21,
     <1>22, <1>23, <1>24, <1>25, <1>26, <1>27, <1>28, NextCases
     DEF BackendStep, SessionStep, FaultStep, ServerStep, ChildStep

-----------------------------------------------------------------------------
\* The theorems.

\* The inductive invariant holds when ops_server has started.
LEMMA InitIInv == Init => IInv
<1> SUFFICES ASSUME Init
             PROVE  IInv
  BY SMTT(60)
<1> USE DEF Init
<1>1. ControlInv
  BY DEF ControlInv, LockExcludes, ClientAssertsHold, CriticalPoints
<1>2. ChildInv
  BY SMTT(60) DEF ChildInv, ChildPerRegion
<1>3. PoolInv
  BY SMTT(60) DEF PoolInv, RegionExclusive, ServerAssertHolds, Holds, HoldingPoints, CallPoints
<1>4. CallInv
  BY DEF CallInv
<1>5. LeakInv
  BY DEF LeakInv, NoRegionLeak
<1>6. RequestInv
  BY DEF RequestInv, CallPoints
<1> QED  BY <1>1, <1>2, <1>3, <1>4, <1>5, <1>6, InitTypeOK DEF IInv

\* Every step preserves the inductive invariant, one conjunct per lemma above.
LEMMA StepIInv == IInv /\ [Next]_vars => IInv'
BY StepTypeOK, StepControlInv, StepChildInv, StepPoolInv, StepCallInv, StepLeakInv,
   StepRequestInv
   DEF IInv

\* The inductive invariant holds in every reachable state.
THEOREM Invariance == Spec => []IInv
BY InitIInv, StepIInv, PTL DEF Spec

\* spin_lock excludes, and so the assertions of getSharedBuffer and freeBuffer
\* on the status word never fail, with crashes and timeouts inside the critical
\* section included.
THEOREM LockCorrect == Spec => []LockSound
<1>1. IInv => LockSound
  BY SMTT(60) DEF IInv, ControlInv, LockSound
<1> QED  BY <1>1, Invariance, PTL

\* No two backends share a region, and the assertion of the main loop holds,
\* until a request for a region meets a full bitmap.
THEOREM RegionsCorrect == Spec => []RegionsSound
<1>1. IInv => RegionsSound
  BY SMTT(60) DEF IInv, PoolInv, RegionsSound
<1> QED  BY <1>1, Invariance, PTL

\* Every answer that a backend copies out is the answer to the request it sent,
\* until a request for a region meets a full bitmap.
THEOREM AnswersCorrect == Spec => []AnswerMatches
<1>1. IInv => AnswerMatches
  BY DEF IInv, CallInv, AnswerMatches
<1> QED  BY <1>1, Invariance, PTL

\* A region has a child exactly while it is allocated or being reaped.
THEOREM ChildrenCorrect == Spec => []ChildPerRegion
<1>1. IInv => ChildPerRegion
  BY SMTT(60) DEF IInv, ChildInv
<1> QED  BY <1>1, Invariance, PTL

\* No region is lost as long as backends exit through their exit handler.
THEOREM NoLeak == Spec => []NoRegionLeak
<1>1. IInv => NoRegionLeak
  BY DEF IInv, LeakInv, NoRegionLeak
<1> QED  BY <1>1, Invariance, PTL

\* When the bitmap is full, every region has a holder; one more backend is
\* waiting, so there are more backends than regions.
LEMMA FullBitmapNeedsBackends ==
  ASSUME IInv, OrderlyExits, ServerGet, FreeRegions = {}
  PROVE  NumRegions < Cardinality(Backends)
<1>1. server = "poll" /\ status = "SHM_GET"
  BY DEF ServerGet
<1>2. bitmap = Regions
  BY SMTT(60) DEF FreeRegions, IInv, TypeOK
<1>3. PICK w \in Backends : pc[w] = "get_wait"
  BY <1>1 DEF IInv, LeakInv
<1> DEFINE Others == Backends \ {w}
           f == [b \in Others |-> shm_id[b]]
<1>4. \A r \in Regions : \E b \in Others : shm_id[b] = r
  <2> TAKE r \in Regions
  <2>1. PICK b \in Backends : Holds(b, r) \/ Granted(b, r)
    BY <1>2 DEF IInv, LeakInv, NoRegionLeak
  <2>2. Holds(b, r)
    BY <1>1, <2>1 DEF Granted, Answered
  <2>3. b # w
    BY SMTT(60), <1>3, <2>2 DEF Holds, HoldingPoints, CallPoints
  <2> QED  BY <2>2, <2>3 DEF Holds
<1>5. f \in Surjection(Others, Regions)
  BY SMTT(60), <1>4 DEF IInv, TypeOK, Surjection
<1>6. /\ IsFiniteSet(Others)
      /\ Cardinality(Others) = Cardinality(Backends) - 1
      /\ Cardinality(Backends) \in Nat
  BY SMTT(60), <1>3, BackendsAssumption, FS_RemoveElement, FS_CardinalityType
<1>7. Cardinality(Regions) <= Cardinality(Others)
  <2> HIDE DEF f, Others
  <2> QED  BY <1>5, <1>6, FS_Surjection
<1>8. Cardinality(Regions) = NumRegions
  BY SMT, RegionsAssumption, FS_Interval DEF Regions
<1> QED  BY SMT, <1>6, <1>7, <1>8, RegionsAssumption

\* MAX_REGION_NUM regions serve MAX_REGION_NUM backends: if there are no more
\* backends than regions and each exits through its exit handler, no request for
\* a region meets a full bitmap, however often backends come and go.
THEOREM CapacitySuffices == Spec => []NeverExhausted
<1>1. Init => NeverExhausted
  BY DEF Init, NeverExhausted
<1>2. ASSUME IInv, NeverExhausted, [Next]_vars
      PROVE  NeverExhausted'
  <2> SUFFICES ASSUME OrderlyExits, Cardinality(Backends) <= NumRegions, ~exhausted
               PROVE  ~exhausted'
    BY <1>2 DEF NeverExhausted, OrderlyExits
  <2>1. CASE ServerGet
    <3>1. FreeRegions # {}
      BY SMTT(60), <1>2, <2>1, FullBitmapNeedsBackends, RegionsAssumption, BackendsAssumption,
         FS_CardinalityType
    <3> QED  BY <2>1, <3>1 DEF ServerGet
  <2>2. CASE ~ServerGet
    <3> USE DEF controlVars, serverVars, regionVars, backendVars, vars
    <3>1. ASSUME NEW b \in Backends, BackendStep(b) \/ SessionStep(b) \/ FaultStep(b)
          PROVE  UNCHANGED exhausted
      BY ZenonT(60), <3>1
         DEF BackendStep, SessionStep, FaultStep, GetLock, GetPost, GetTake,
             GetClear, GetUnlock, InvokerInit, SetSent, CopyResultFrom, SetNone,
             FreeLock, FreePost, FreeClear, FreeUnlock, spin_lock, spin_unlock,
             GetInstance, SerializeTo, ExitHandler, GetTimeout, BackendCrash, Respawn
    <3>2. ASSUME NEW r \in Regions, ChildStep(r) \/ ChildCrash(r)
          PROVE  UNCHANGED exhausted
      BY ZenonT(60), <3>2 DEF ChildStep, ChildHandle, ChildDone, ChildExit, ChildCrash
    <3>3. CASE ServerStep
      BY <2>2, <3>3 DEF ServerStep, ServerGetDone, ServerFree, ServerReap
    <3>4. CASE UNCHANGED vars
      BY <3>4
    <3> QED  BY SMTT(60), <1>2, <3>1, <3>2, <3>3, <3>4, NextCases
  <2> QED  BY <2>1, <2>2
<1> QED  BY <1>1, <1>2, Invariance, PTL DEF Spec

\* The bitmap is accounted for: no region is lost by backends that exit through
\* their exit handler, and one is free for each of them (ops_server, main loop).
THEOREM BitmapAccounted == Spec => []RegionsAccounted
<1>1. NoRegionLeak /\ NeverExhausted => RegionsAccounted
  BY DEF RegionsAccounted
<1> QED  BY <1>1, NoLeak, CapacitySuffices, PTL


-----------------------------------------------------------------------------
(* The action properties, and the refinement of OpsService as long as no   *)
(* request for a region meets a full bitmap.                               *)

\* Only serializeTo writes the request of a region.
LEMMA ArgsStep ==
  ASSUME IInv, [Next]_vars, ~exhausted',
         NEW q \in Regions, child[q] = "busy"
  PROVE  req_args'[q] = req_args[q]
<1> USE DEF controlVars, serverVars, regionVars, backendVars, vars
<1>1. ASSUME NEW b \in Backends, BackendStep(b) \/ FaultStep(b)
      PROVE  UNCHANGED req_args
  BY <1>1
     DEF BackendStep, FaultStep, GetLock, GetPost, GetTake, GetClear, GetUnlock,
         InvokerInit, SetSent, CopyResultFrom, SetNone, FreeLock, FreePost,
         FreeClear, FreeUnlock, spin_lock, spin_unlock, GetTimeout,
         BackendCrash, Respawn
<1>2. ASSUME NEW b \in Backends, NEW op \in Ops, SerializeTo(b, op)
      PROVE  req_args'[q] = req_args[q]
  <2>1. ~exhausted /\ pc[b] = "ready"
    BY <1>2 DEF SerializeTo, Goto
  <2>2. req_status[shm_id[b]] = "NONE"
    BY <2>1 DEF IInv, CallInv
  <2>3. shm_id[b] # q
    BY <2>1, <2>2 DEF IInv, CallInv
  <2> QED  BY <1>2, <2>3 DEF SerializeTo, IInv, TypeOK
<1>3. ASSUME NEW b \in Backends, GetInstance(b) \/ ExitHandler(b)
      PROVE  UNCHANGED req_args
  BY <1>3 DEF GetInstance, ExitHandler
<1>4. CASE ServerStep
  BY <1>4 DEF ServerStep, ServerGet, ServerGetDone, ServerFree, ServerReap
<1>5. ASSUME NEW r \in Regions, ChildStep(r) \/ ChildCrash(r)
      PROVE  UNCHANGED req_args
  BY <1>5 DEF ChildStep, ChildHandle, ChildDone, ChildExit, ChildCrash
<1>6. CASE UNCHANGED vars
  BY <1>6
<1> QED  BY ZenonT(60), <1>1, <1>2, <1>3, <1>4, <1>5, <1>6, NextCases DEF SessionStep

\* No backend overwrites a request that the child of its region is working on.
THEOREM RequestsStable == Spec => RequestStable
<1>1. IInv /\ [Next]_vars
        => [~exhausted' =>
              \A r \in Regions : child[r] = "busy" => req_args'[r] = req_args[r]]_vars
  BY ArgsStep
<1> QED  BY <1>1, Invariance, PTL DEF Spec, RequestStable

\* Only the main loop, serving SHM_FREE, clears a bit.
LEMMA BitmapStep ==
  ASSUME IInv, [Next]_vars, ~exhausted',
         NEW r \in bitmap \ bitmap', NEW b \in Backends, Holds(b, r)
  PROVE  pc[b] = "free_wait"
<1> USE DEF controlVars, serverVars, regionVars, backendVars, vars
<1>1. ASSUME NEW c \in Backends, BackendStep(c) \/ SessionStep(c) \/ FaultStep(c)
      PROVE  UNCHANGED bitmap
  BY ZenonT(60), <1>1
     DEF BackendStep, SessionStep, FaultStep, GetLock, GetPost, GetTake, GetClear,
         GetUnlock, InvokerInit, SetSent, CopyResultFrom, SetNone, FreeLock,
         FreePost, FreeClear, FreeUnlock, spin_lock, spin_unlock, GetInstance,
         SerializeTo, ExitHandler, GetTimeout, BackendCrash, Respawn
<1>2. ASSUME NEW q \in Regions, ChildStep(q) \/ ChildCrash(q)
      PROVE  UNCHANGED bitmap
  BY ZenonT(60), <1>2 DEF ChildStep, ChildHandle, ChildDone, ChildExit, ChildCrash
<1>3. CASE ServerStep
  <2>1. ServerFree
    BY <1>3 DEF ServerStep, ServerGet, ServerGetDone, ServerReap
  <2>2. status = "SHM_FREE" /\ r = free_id /\ ~exhausted
    BY <2>1 DEF ServerFree
  <2> QED  BY <2>2 DEF IInv, PoolInv
<1>4. CASE UNCHANGED vars
  BY <1>4
<1> QED  BY ZenonT(60), <1>1, <1>2, <1>3, <1>4, NextCases

\* A region is freed only while its holder, if any, waits for that in freeBuffer.
THEOREM FreesCorrect == Spec => FreedByHolder
<1>1. IInv /\ [Next]_vars
        => [~exhausted' =>
              \A r \in bitmap \ bitmap' :
                \A b \in Backends : Holds(b, r) => pc[b] = "free_wait"]_vars
  BY BitmapStep
<1> QED  BY <1>1, Invariance, PTL DEF Spec, FreedByHolder

\* Only its holder gives up a region and the arguments in it (sendRequest,
\* freeBuffer and the main loop).
THEOREM HoldersDecide == Spec => HolderDecides
BY RequestsStable, FreesCorrect DEF HolderDecides

-----------------------------------------------------------------------------
\* Refinement.

\* A step that changes neither call data nor who holds which region is invisible
\* to the service.
LEMMA Invisible ==
  ASSUME UNCHANGED <<sent, answer>>,
         \A c \in Backends :
           /\ pc'[c] \in HoldingPoints <=> pc[c] \in HoldingPoints
           /\ pc[c] \in HoldingPoints => shm_id'[c] = shm_id[c]
  PROVE  UNCHANGED Service!vars
BY DEF Service!vars, ConnectedRegion

\* Taking the granted region connects the backend to it.
LEMMA GetTakeConnects ==
  ASSUME IInv, ~exhausted, NEW b \in Backends, GetTake(b)
  PROVE  Service!Connect(b)
<1> USE DEF IInv, TypeOK
<1>1. /\ pc[b] = "get_wait" /\ status = "SHM_DONE"
      /\ pc' = [pc EXCEPT ![b] = "get_taken"]
      /\ shm_id' = [shm_id EXCEPT ![b] = ret_id]
      /\ UNCHANGED <<sent, answer>>
  BY DEF GetTake, Goto
<1>2. ConnectedRegion[b] = NoRegion
  BY <1>1 DEF ConnectedRegion, HoldingPoints, CallPoints
<1>3. ret_id \in Regions /\ ret_id # NoRegion
  BY SMT, RegionsAssumption DEF Regions, NoRegion
<1>4. \A c \in Backends : ConnectedRegion[c] # ret_id
  <2>1. \A c \in Backends : ~Holds(c, ret_id)
    BY <1>1 DEF PoolInv, Answered
  <2> QED  BY <1>3, <2>1 DEF ConnectedRegion, Holds
<1>5. ConnectedRegion' = [ConnectedRegion EXCEPT ![b] = ret_id]
  BY ZenonT(60), <1>1 DEF ConnectedRegion, HoldingPoints, CallPoints
<1> QED  BY ZenonT(60), <1>1, <1>2, <1>3, <1>4, <1>5 DEF Service!Connect

\* A backend that holds a region and leaves it, by freeBuffer or by dying,
\* disconnects.
LEMMA LeavingDisconnects ==
  ASSUME IInv, NEW b \in Backends,
         pc[b] \in HoldingPoints, pc'[b] \notin HoldingPoints,
         \A c \in Backends \ {b} : pc'[c] = pc[c] /\ shm_id'[c] = shm_id[c],
         sent' = [sent EXCEPT ![b] = NoOp], answer' = [answer EXCEPT ![b] = NoOp]
  PROVE  Service!Disconnect(b)
<1> USE DEF IInv, TypeOK
<1>1. shm_id[b] # NoRegion
  BY SMT, RegionsAssumption DEF Regions, NoRegion
<1>2. ConnectedRegion[b] # NoRegion
  BY <1>1 DEF ConnectedRegion
<1>3. ConnectedRegion' = [ConnectedRegion EXCEPT ![b] = NoRegion]
  BY ZenonT(60) DEF ConnectedRegion
<1> QED  BY ZenonT(60), <1>2, <1>3 DEF Service!Disconnect

\* Every step of the channel, within the capacity of the bitmap, is a step of the
\* service or one that the service does not see.
LEMMA RefinementStep ==
  ASSUME IInv, [Next]_vars, ~exhausted, ~exhausted'
  PROVE  [Service!Next]_(Service!vars)
<1> USE DEF IInv, TypeOK, controlVars, serverVars, regionVars, backendVars
<1>1. ASSUME NEW b \in Backends,
             \/ GetLock(b) \/ GetPost(b) \/ GetClear(b) \/ GetUnlock(b)
             \/ InvokerInit(b) \/ SetSent(b) \/ FreeLock(b) \/ FreeUnlock(b)
             \/ GetInstance(b) \/ ExitHandler(b)
      PROVE  UNCHANGED Service!vars
  BY ZenonT(60), <1>1, Invisible
     DEF GetLock, GetPost, GetClear, GetUnlock, InvokerInit, SetSent, FreeLock,
         FreeUnlock, GetInstance, ExitHandler, spin_lock, spin_unlock, Goto,
         HoldingPoints, CallPoints
<1>2. ASSUME NEW b \in Backends, GetTake(b)
      PROVE  Service!Next
  BY <1>2, GetTakeConnects DEF Service!Next
<1>3. ASSUME NEW b \in Backends, NEW op \in Ops, SerializeTo(b, op)
      PROVE  Service!Next
  <2>1. ConnectedRegion[b] # NoRegion
    BY SMTT(60), <1>3, RegionsAssumption
       DEF ConnectedRegion, SerializeTo, Goto, HoldingPoints, CallPoints, NoRegion,
           Regions
  <2>2. UNCHANGED ConnectedRegion
    BY <1>3 DEF ConnectedRegion, SerializeTo, Goto, HoldingPoints, CallPoints
  <2>3. sent[b] = NoOp
    BY <1>3 DEF SerializeTo, Goto, RequestInv, CallPoints
  <2>4. Service!Invoke(b)
    BY ZenonT(60), <1>3, <2>1, <2>2, <2>3 DEF SerializeTo, Service!Invoke
  <2> QED  BY <2>4 DEF Service!Next
<1>4. ASSUME NEW b \in Backends, CopyResultFrom(b)
      PROVE  Service!Next
  <2>1. pc[b] = "await" /\ sent[b] \in Ops /\ answer[b] = NoOp
    BY <1>4 DEF CopyResultFrom, Goto, RequestInv, CallPoints
  <2>2. req_result[shm_id[b]] = sent[b]
    BY <1>4, <2>1 DEF CopyResultFrom, CallInv
  <2>3. UNCHANGED ConnectedRegion
    BY <1>4 DEF ConnectedRegion, CopyResultFrom, Goto, HoldingPoints, CallPoints
  <2>4. Service!Reply(b)
    BY <1>4, <2>1, <2>2, <2>3, OpsAssumption DEF CopyResultFrom, Service!Reply
  <2> QED  BY <2>4 DEF Service!Next
<1>5. ASSUME NEW b \in Backends, SetNone(b)
      PROVE  Service!Next
  <2>1. pc[b] = "copied" /\ sent[b] \in Ops
    BY <1>5 DEF SetNone, Goto, RequestInv, CallPoints
  <2>2. answer[b] = sent[b]
    BY <2>1 DEF CallInv
  <2>3. UNCHANGED ConnectedRegion
    BY <1>5 DEF ConnectedRegion, SetNone, Goto, HoldingPoints, CallPoints
  <2>4. Service!Return(b)
    BY SMTT(60), <1>5, <2>1, <2>2, <2>3, OpsAssumption DEF SetNone, Service!Return
  <2> QED  BY <2>4 DEF Service!Next
<1>6. ASSUME NEW b \in Backends, FreePost(b)
      PROVE  UNCHANGED Service!vars
  <2>1. status = "SHM_NONE"
    BY SMTT(60), <1>6 DEF FreePost, Goto, ControlInv
  <2> QED  BY SMTT(60), <1>6, <2>1, Invisible DEF FreePost, Goto, HoldingPoints, CallPoints
<1>7. ASSUME NEW b \in Backends, FreeClear(b)
      PROVE  Service!Next
  <2>1. pc[b] \in HoldingPoints /\ pc'[b] \notin HoldingPoints
    BY <1>7 DEF FreeClear, Goto, HoldingPoints, CallPoints
  <2>2. \A c \in Backends \ {b} : pc'[c] = pc[c] /\ shm_id'[c] = shm_id[c]
    BY <1>7 DEF FreeClear, Goto
  <2>3. sent[b] = NoOp /\ answer[b] = NoOp
    BY <1>7 DEF FreeClear, Goto, RequestInv, CallPoints
  <2>4. /\ sent' = [sent EXCEPT ![b] = NoOp]
        /\ answer' = [answer EXCEPT ![b] = NoOp]
    BY <1>7, <2>3 DEF FreeClear
  <2> QED  BY ZenonT(60), <2>1, <2>2, <2>4, LeavingDisconnects DEF Service!Next
<1>8. ASSUME NEW b \in Backends, FaultStep(b)
      PROVE  [Service!Next]_(Service!vars)
  <2>1. /\ pc'[b] \notin HoldingPoints
        /\ \A c \in Backends \ {b} : pc'[c] = pc[c] /\ shm_id'[c] = shm_id[c]
        /\ sent' = [sent EXCEPT ![b] = NoOp]
        /\ answer' = [answer EXCEPT ![b] = NoOp]
    BY SMTT(60), <1>8
       DEF FaultStep, GetTimeout, BackendCrash, Respawn, ResetProcess,
           HoldingPoints, CallPoints
  <2>2. CASE pc[b] \in HoldingPoints
    BY ZenonT(60), <2>1, <2>2, LeavingDisconnects DEF Service!Next
  <2>3. CASE pc[b] \notin HoldingPoints
    <3>1. sent[b] = NoOp /\ answer[b] = NoOp
      BY <2>3 DEF RequestInv, HoldingPoints, CallPoints
    <3>2. UNCHANGED <<sent, answer>>
      BY <2>1, <3>1
    <3> QED  BY <2>1, <2>3, <3>2, Invisible
  <2> QED  BY <2>2, <2>3
<1>9. CASE ServerStep
  BY <1>9, Invisible
     DEF ServerStep, ServerGet, ServerGetDone, ServerFree, ServerReap
<1>10. ASSUME NEW r \in Regions, ChildStep(r) \/ ChildCrash(r)
      PROVE  UNCHANGED Service!vars
  BY SMTT(60), <1>10, Invisible
     DEF ChildStep, ChildHandle, ChildDone, ChildExit, ChildCrash
<1>11. CASE UNCHANGED vars
  BY <1>11, Invisible DEF vars
<1> QED
  BY ZenonT(60), <1>1, <1>2, <1>3, <1>4, <1>5, <1>6, <1>7, <1>8, <1>9, <1>10, <1>11, NextCases
     DEF BackendStep, SessionStep

\* As long as no request for a region meets a full bitmap, the channel implements
\* the service: connects, calls and disconnects look atomic, each backend has a
\* region of its own and each call returns its own answer, with backends and
\* children crashing and requests for regions timing out.
THEOREM Refinement == WithinCapacitySpec => ImplementsService
<1>1. Init => Service!Init
  BY DEF Init, Service!Init, ConnectedRegion, HoldingPoints, CallPoints
<1>2. [Next /\ ~exhausted']_vars => [Next]_vars
  OBVIOUS
<1>3. WithinCapacitySpec => Spec
  BY <1>2, PTL DEF WithinCapacitySpec, Spec
<1>4. Init => ~exhausted
  BY DEF Init
<1>5. ~exhausted /\ [Next /\ ~exhausted']_vars => ~exhausted'
  BY DEF vars, serverVars
<1>6. IInv /\ ~exhausted /\ [Next /\ ~exhausted']_vars
        => [Service!Next]_(Service!vars)
  BY <1>2, <1>5, RefinementStep
<1> QED
  BY <1>1, <1>3, <1>4, <1>5, <1>6, Invariance, PTL
     DEF WithinCapacitySpec, ImplementsService, Service!Spec

=============================================================================
