--------------------------- MODULE UioDeviceProofs ---------------------------
(***************************************************************************)
(* Proofs about UioDevice: for every number of processes, cards, minors    *)
(* and structures, an open file keeps the structure and the module it      *)
(* uses, nothing is left behind, only two windows lead to freed memory and *)
(* no mapping reaches past the memory of the device.                       *)
(***************************************************************************)
EXTENDS UioDevice, FiniteSetTheorems, TLAPS

\* Zenon proves the steps that name no other prover.
USE Zenon

-----------------------------------------------------------------------------
(* The holders of references.                                              *)

\* The processes that hold a reference are finitely many.
LEMMA HoldersFinite ==
    /\ \A i : IsFiniteSet(Holders(i)) /\ Cardinality(Holders(i)) \in Nat
    /\ IsFiniteSet(ModuleHolders) /\ Cardinality(ModuleHolders) \in Nat
<1>1. ASSUME NEW S, S \subseteq Procs
      PROVE  IsFiniteSet(S) /\ Cardinality(S) \in Nat
  BY <1>1, UioAssumption, FS_Subset, FS_CardinalityType
<1>2. ModuleHolders \subseteq Procs /\ \A i : Holders(i) \subseteq Procs
  BY DEF ModuleHolders, Holders
<1> QED BY <1>1, <1>2

\* A structure that nobody holds and no card has registered has no references.
LEMMA NoneHeld ==
    ASSUME NEW i, refs[i] = 0, Cardinality(Holders(i)) = 0, ~Registered(i)
    PROVE  refs[i] = Cardinality(Holders(i)) + (IF Registered(i) THEN 1 ELSE 0)
BY SMT

\* The parts of the invariant, and the whole after a step.
LEMMA InvParts == IInv => TypeOK /\ CardInv /\ RefInv /\ LinkInv /\ AccessesDefined
BY DEF IInv

LEMMA InvWhole ==
    ASSUME TypeOK', CardInv', RefInv', LinkInv', AccessesDefined'
    PROVE  IInv'
BY DEF IInv

\* A process that holds a reference is counted, so the structure is alive.
LEMMA HeldIsLive ==
    ASSUME IInv, NEW p \in Procs, Holds(p)
    PROVE  fdev[p] \in Idevs /\ kobj[fdev[p]] = "live" /\ Cardinality(Holders(fdev[p])) > 0
<1> TypeOK /\ CardInv /\ RefInv /\ LinkInv /\ AccessesDefined
  BY InvParts
<1>1. fdev[p] \in Idevs
  BY DEF RefInv
<1>2. Holders(fdev[p]) # {}
  BY DEF Holders
<1>3. Cardinality(Holders(fdev[p])) # 0
  BY <1>2, HoldersFinite, FS_EmptySet
<1>4. refs[fdev[p]] > 0
  BY SMT, <1>1, <1>3, HoldersFinite DEF RefInv
<1> QED BY SMT, <1>1, <1>3, <1>4, HoldersFinite DEF RefInv

\* A card that probe or remove works on has a structure that is in use.
LEMMA CardHasDevice ==
    ASSUME IInv, NEW c \in Cards, at[c] \notin {"unbound", "register"}
    PROVE  /\ idev[c] \in Idevs /\ kobj[idev[c]] # "none"
           /\ at[c] \in Counted => kobj[idev[c]] = "live" /\ Registered(idev[c])
<1> TypeOK /\ CardInv /\ RefInv /\ LinkInv /\ AccessesDefined
  BY InvParts
<1>1. idev[c] \in Idevs
  BY SMT DEF TypeOK, CardInv
<1>2. ASSUME at[c] \in Counted PROVE Registered(idev[c]) /\ kobj[idev[c]] = "live"
  <2>1. Registered(idev[c])
    BY <1>2 DEF Registered
  <2>2. refs[idev[c]] > 0
    BY SMT, <1>1, <2>1, HoldersFinite DEF RefInv
  <2> QED BY <1>1, <2>1, <2>2 DEF RefInv
<1>3. at[c] \in {"initialize", "free_minor"} \cup Counted
  BY DEF TypeOK
<1> QED BY <1>1, <1>2, <1>3 DEF CardInv

\* What names a structure by its card names it alone.
LEMMA OneCard ==
    ASSUME IInv, NEW c \in Cards, idev[c] # NULL
    PROVE  Registered(idev[c]) <=> at[c] \in Counted
BY InvParts DEF CardInv, Registered

-----------------------------------------------------------------------------
(* Steps that leave part of the state alone.                               *)

\* A step that follows idev->info of a device leads nowhere but to a failed
\* registration's memory.
LEMMA UsesInfoDefined ==
    ASSUME IInv, undefined = "none", NEW i \in Idevs, UsesInfo(i)
    PROVE  AccessesDefined'
<1> TypeOK /\ CardInv /\ RefInv /\ LinkInv /\ AccessesDefined
  BY InvParts
<1>1. Dangling(i) => i \in failed
  BY DEF LinkInv, Dangling
<1> QED BY <1>1 DEF UsesInfo, AccessesDefined

\* Processes that stay where they are hold what they held.
LEMMA SameHolders ==
    ASSUME UNCHANGED <<pc, fdev>>
    PROVE  ModuleHolders' = ModuleHolders /\ \A i : Holders(i)' = Holders(i)
BY DEF ModuleHolders, Holders, HoldsModule, Holds

\* The variables that IInv does not look at are locked, visible, event, waking, uio,
\* event_count, task and mapped; undefined matters to AccessesDefined only.
LEMMA StillKeeps ==
    ASSUME IInv, AccessesDefined',
           UNCHANGED <<cardVars, refVars, linkVars, attrs, irq, owner, module_refs, pc,
                       fdev, failed>>
    PROVE  IInv'
<1> TypeOK /\ CardInv /\ RefInv /\ LinkInv /\ AccessesDefined
  BY InvParts
<1> USE DEF cardVars, refVars, linkVars
<1>1. TypeOK'
  BY DEF TypeOK
<1>2. CardInv'
  BY DEF CardInv
<1>3. RefInv'
  BY SMT, SameHolders DEF RefInv, Registered, Holds, HoldsModule
<1>4. LinkInv'
  BY DEF LinkInv
<1> QED BY <1>1, <1>2, <1>3, <1>4, InvWhole

\* Where a process that holds the module can be.
Inside == {"open_info", "open", "check", "set", "compare", "schedule", "leave", "poll",
           "poll_queue", "poll_compare", "poll_wait", "poll_again"}

\* A process that moves on inside uio_read or poll keeps what it holds.
LEMMA MovesKeeps ==
    ASSUME IInv, AccessesDefined', NEW p \in Procs, HoldsModule(p), NEW x \in Inside,
           pc' = [pc EXCEPT ![p] = x],
           UNCHANGED <<cardVars, refVars, linkVars, attrs, irq, owner, module_refs, fdev,
                       failed>>
    PROVE  IInv'
<1> TypeOK /\ CardInv /\ RefInv /\ LinkInv /\ AccessesDefined
  BY InvParts
<1> USE DEF cardVars, refVars, linkVars
<1>p. pc \in [Procs -> {"closed", "found", "get_module", "show", "show_done"} \cup Inside]
  BY DEF TypeOK, Inside
<1>h. \A q \in Procs : /\ Holds(q)' <=> Holds(q)
                       /\ HoldsModule(q)' <=> HoldsModule(q)
                       /\ pc'[q] # "closed" <=> pc[q] # "closed"
  BY <1>p DEF Holds, HoldsModule, Inside
<1>1. TypeOK'
  BY DEF TypeOK, Inside
<1>2. CardInv'
  BY DEF CardInv
<1>3. RefInv'
  <2>1. ModuleHolders' = ModuleHolders /\ \A i : Holders(i)' = Holders(i)
    BY <1>h DEF ModuleHolders, Holders
  <2> QED BY <1>h, <2>1 DEF RefInv, Registered
<1>4. LinkInv'
  BY DEF LinkInv
<1> QED BY <1>1, <1>2, <1>3, <1>4, InvWhole

\* A process that takes or gives back nothing: it looks a device up, or enters or
\* leaves an attribute's show.
LEMMA OutsideKeeps ==
    ASSUME IInv, AccessesDefined', NEW p \in Procs, ~Holds(p),
           NEW x \in {"closed", "found", "show", "show_done"}, NEW i \in Idevs \cup {NULL},
           x # "closed" => i # NULL,
           pc' = [pc EXCEPT ![p] = x], fdev' = [fdev EXCEPT ![p] = i],
           UNCHANGED <<cardVars, refVars, linkVars, attrs, irq, owner, module_refs, failed>>
    PROVE  IInv'
<1> TypeOK /\ CardInv /\ RefInv /\ LinkInv /\ AccessesDefined
  BY InvParts
<1> USE DEF cardVars, refVars, linkVars
<1>p. pc \in [Procs -> {"closed", "found", "get_module", "show", "show_done"} \cup Inside]
      /\ fdev \in [Procs -> Idevs \cup {NULL}]
  BY DEF TypeOK, Inside
<1>h. \A q \in Procs : /\ Holds(q)' <=> Holds(q)
                       /\ HoldsModule(q)' <=> HoldsModule(q)
                       /\ Holds(q) => fdev'[q] = fdev[q]
                       /\ (pc[q] # "closed" => fdev[q] # NULL)
                          => (pc'[q] # "closed" => fdev'[q] # NULL)
  BY <1>p DEF Holds, HoldsModule, Inside
<1>1. TypeOK'
  BY DEF TypeOK
<1>2. CardInv'
  BY DEF CardInv
<1>3. RefInv'
  <2>1. ModuleHolders' = ModuleHolders /\ \A j : Holders(j)' = Holders(j)
    BY <1>h DEF ModuleHolders, Holders
  <2> QED BY ZenonT(60), <1>h, <2>1 DEF RefInv, Registered
<1>4. LinkInv'
  BY DEF LinkInv
<1> QED BY <1>1, <1>2, <1>3, <1>4, InvWhole

-----------------------------------------------------------------------------
(* Taking and giving back references.                                      *)

\* Put keeps the types, and frees the structure with its last reference only.
LEMMA PutType ==
    ASSUME IInv, NEW i \in Idevs, Put(i)
    PROVE  /\ refs' \in [Idevs -> Int] /\ refs'[i] = refs[i] - 1
           /\ kobj' \in [Idevs -> {"none", "raw", "live", "freed"}]
           /\ kobj'[i] = IF refs[i] = 1 THEN "freed" ELSE kobj[i]
           /\ \A j \in Idevs : j # i => refs'[j] = refs[j] /\ kobj'[j] = kobj[j]
BY SMT, InvParts DEF TypeOK, Put

\* A process that closes its file, or whose open fails, gives back its reference and
\* the module's, if it has taken it.
LEMMA DropKeeps ==
    ASSUME IInv, AccessesDefined', NEW p \in Procs, Holds(p),
           Put(fdev[p]), Closed(p),
           module_refs' = IF HoldsModule(p) THEN module_refs - 1 ELSE module_refs,
           UNCHANGED <<cardVars, linkVars, attrs, irq, owner, failed>>
    PROVE  IInv'
<1> TypeOK /\ CardInv /\ RefInv /\ LinkInv /\ AccessesDefined
  BY InvParts
<1> USE DEF cardVars, linkVars
<1>f. PICK i \in Idevs : i = fdev[p]
  BY HeldIsLive
<1>i. kobj[i] = "live"
  BY <1>f, HeldIsLive
<1>p. /\ pc \in [Procs -> {"closed", "found", "get_module", "show", "show_done"} \cup Inside]
      /\ fdev \in [Procs -> Idevs \cup {NULL}]
  BY DEF TypeOK, Inside
<1>h. /\ ~Holds(p)' /\ ~HoldsModule(p)' /\ pc'[p] = "closed"
      /\ \A q \in Procs : q # p => /\ pc'[q] = pc[q] /\ fdev'[q] = fdev[q]
                                   /\ Holds(q)' <=> Holds(q)
                                   /\ HoldsModule(q)' <=> HoldsModule(q)
  BY <1>p DEF Holds, HoldsModule, Closed
<1>t. /\ refs' \in [Idevs -> Int] /\ refs'[i] = refs[i] - 1
      /\ kobj' \in [Idevs -> {"none", "raw", "live", "freed"}]
      /\ kobj'[i] = IF refs[i] = 1 THEN "freed" ELSE kobj[i]
      /\ \A j \in Idevs : j # i => refs'[j] = refs[j] /\ kobj'[j] = kobj[j]
  BY <1>f, PutType
<1>c. /\ Cardinality(Holders(i))' = Cardinality(Holders(i)) - 1
      /\ \A j \in Idevs : j # i => Cardinality(Holders(j))' = Cardinality(Holders(j))
  <2>1. (Holders(i))' = Holders(i) \ {p} /\ p \in Holders(i)
    BY <1>f, <1>h DEF Holders
  <2>2. ASSUME NEW j \in Idevs, j # i PROVE Holders(j)' = Holders(j)
    BY <1>f, <1>h, <2>2 DEF Holders
  <2>3. Cardinality(Holders(i) \ {p}) = Cardinality(Holders(i)) - 1
    BY <2>1, HoldersFinite, FS_RemoveElement
  <2> QED BY <2>1, <2>2, <2>3
<1>m. Cardinality(ModuleHolders)' =
        IF HoldsModule(p) THEN Cardinality(ModuleHolders) - 1 ELSE Cardinality(ModuleHolders)
  <2>1. ModuleHolders' = ModuleHolders \ {p} /\ (p \in ModuleHolders <=> HoldsModule(p))
    BY <1>h DEF ModuleHolders
  <2>2. Cardinality(ModuleHolders \ {p}) =
          IF p \in ModuleHolders THEN Cardinality(ModuleHolders) - 1
          ELSE Cardinality(ModuleHolders)
    BY HoldersFinite, FS_RemoveElement
  <2> QED BY <2>1, <2>2
<1>1. TypeOK'
  BY SMT, <1>t DEF TypeOK, Closed
<1>3. RefInv'
  <2>1. ASSUME NEW j \in Idevs
        PROVE  /\ refs'[j] = Cardinality(Holders(j))' + (IF Registered(j)' THEN 1 ELSE 0)
               /\ kobj'[j] = "live" <=> refs'[j] > 0
               /\ kobj'[j] = "raw" => \E c \in Cards : idev'[c] = j /\ at'[c] = "initialize"
    <3>1. Registered(j)' <=> Registered(j)
      BY DEF Registered
    <3>2. refs[j] = Cardinality(Holders(j)) + (IF Registered(j) THEN 1 ELSE 0)
          /\ (kobj[j] = "live" <=> refs[j] > 0)
      BY DEF RefInv
    <3>3. CASE j = i
      BY SMT, <1>i, <1>t, <1>c, <3>1, <3>2, <3>3, HoldersFinite DEF TypeOK
    <3>4. CASE j # i
      BY <1>t, <1>c, <3>1, <3>2, <3>4 DEF RefInv
    <3> QED BY <3>3, <3>4
  <2>2. module_refs' = Cardinality(ModuleHolders)'
    BY <1>m DEF RefInv
  <2>3. ASSUME NEW q \in Procs
        PROVE  /\ Holds(q)' => fdev'[q] \in Idevs
               /\ pc'[q] # "closed" => fdev'[q] # NULL
               /\ HoldsModule(q)' => owner' = "live"
    BY ZenonT(60), <1>h DEF RefInv
  <2> QED BY <2>1, <2>2, <2>3 DEF RefInv
<1>2. CardInv'
  <2>1. ASSUME NEW c \in Cards, at[c] \in {"initialize", "free_minor"}
        PROVE  /\ at[c] = "initialize" => kobj'[idev[c]] = "raw"
               /\ at[c] = "free_minor" => kobj'[idev[c]] \in {"live", "freed"}
    <3>1. idev[c] \in Idevs
      BY <2>1, CardHasDevice
    <3> QED BY ZenonT(60), <1>i, <1>t, <2>1, <3>1 DEF CardInv
  <2> QED BY <2>1 DEF CardInv
<1>4. LinkInv'
  BY SMT, <1>i, <1>t DEF LinkInv
<1> QED BY <1>1, <1>2, <1>3, <1>4, InvWhole

\* get_device: the process that found the structure alive is counted from now on.
LEMMA OpenGetKeeps ==
    ASSUME IInv, undefined = "none", NEW p \in Procs, OpenGet(p)
    PROVE  IInv'
<1> TypeOK /\ CardInv /\ RefInv /\ LinkInv /\ AccessesDefined
  BY InvParts
<1> USE DEF cardVars, linkVars
<1>p. /\ pc \in [Procs -> {"closed", "found", "get_module", "show", "show_done"} \cup Inside]
      /\ fdev \in [Procs -> Idevs \cup {NULL}] /\ fdev[p] \in Idevs /\ pc[p] = "found"
  BY SMT DEF TypeOK, Inside, RefInv, OpenGet
<1>f. PICK i \in Idevs : i = fdev[p]
  BY <1>p
<1>1. CASE kobj[i] # "live"
  <2>1. AccessesDefined'
    BY <1>f, <1>1 DEF OpenGet, AccessesDefined
  <2> QED BY <1>f, <1>1, <2>1, StillKeeps DEF OpenGet, modVars, sysfsVars, irqVars, refVars
<1>2. CASE kobj[i] = "live"
  <2> USE <1>f, <1>2
  <2>u. /\ refs' = [refs EXCEPT ![i] = @ + 1] /\ pc' = [pc EXCEPT ![p] = "get_module"]
        /\ UNCHANGED <<cardVars, kobj, linkVars, attrs, irq, modVars, fdev, failed, undefined>>
    BY DEF OpenGet, sysfsVars, irqVars
  <2>h. /\ Holds(p)' /\ ~Holds(p) /\ ~HoldsModule(p)' /\ ~HoldsModule(p)
        /\ \A q \in Procs : q # p => /\ pc'[q] = pc[q]
                                     /\ Holds(q)' <=> Holds(q)
                                     /\ HoldsModule(q)' <=> HoldsModule(q)
    BY <1>p, <2>u DEF Holds, HoldsModule
  <2>c. /\ Cardinality(Holders(i))' = Cardinality(Holders(i)) + 1
        /\ \A j \in Idevs : j # i => Cardinality(Holders(j))' = Cardinality(Holders(j))
    <3>1. (Holders(i))' = Holders(i) \cup {p} /\ p \notin Holders(i)
      BY <2>h, <2>u DEF Holders
    <3>2. ASSUME NEW j \in Idevs, j # i PROVE Holders(j)' = Holders(j)
      BY <2>h, <2>u, <3>2 DEF Holders
    <3>3. Cardinality(Holders(i) \cup {p}) = Cardinality(Holders(i)) + 1
      BY <3>1, HoldersFinite, FS_AddElement
    <3> QED BY <3>1, <3>2, <3>3
  <2>m. ModuleHolders' = ModuleHolders
    BY <2>h DEF ModuleHolders
  <2>1. TypeOK'
    BY SMT, <2>u DEF TypeOK, modVars
  <2>2. CardInv'
    BY ZenonT(60), <2>u DEF CardInv
  <2>3. RefInv'
    <3>1. ASSUME NEW j \in Idevs
          PROVE  /\ refs'[j] = Cardinality(Holders(j))' + (IF Registered(j)' THEN 1 ELSE 0)
                 /\ kobj'[j] = "live" <=> refs'[j] > 0
                 /\ kobj'[j] = "raw" => \E c \in Cards : idev'[c] = j /\ at'[c] = "initialize"
      <4>1. Registered(j)' <=> Registered(j)
        BY <2>u DEF Registered
      <4>2. refs[j] = Cardinality(Holders(j)) + (IF Registered(j) THEN 1 ELSE 0)
            /\ (kobj[j] = "live" <=> refs[j] > 0)
        BY DEF RefInv
      <4>3. CASE j = i
        BY SMT, <2>u, <2>c, <4>1, <4>2, <4>3, HoldersFinite DEF TypeOK
      <4>4. CASE j # i
        BY SMT, <2>u, <2>c, <4>1, <4>2, <4>4 DEF RefInv, TypeOK
      <4> QED BY <4>3, <4>4
    <3>2. module_refs' = Cardinality(ModuleHolders)'
      BY <2>u, <2>m DEF RefInv, modVars
    <3>3. ASSUME NEW q \in Procs
          PROVE  /\ Holds(q)' => fdev'[q] \in Idevs
                 /\ pc'[q] # "closed" => fdev'[q] # NULL
                 /\ HoldsModule(q)' => owner' = "live"
      <4>1. CASE q = p
        BY <1>p, <2>h, <2>u, <4>1, UioAssumption
      <4>2. CASE q # p
        BY <2>h, <2>u, <4>2 DEF RefInv, modVars
      <4> QED BY <4>1, <4>2
    <3> QED BY <3>1, <3>2, <3>3 DEF RefInv
  <2>4. LinkInv'
    BY ZenonT(60), <2>u DEF LinkInv
  <2>5. AccessesDefined'
    BY <2>u DEF AccessesDefined
  <2> QED BY <2>1, <2>2, <2>3, <2>4, <2>5, InvWhole
<1> QED BY <1>1, <1>2

\* try_module_get counts the process, and only while the module is live.
LEMMA OpenModuleKeeps ==
    ASSUME IInv, undefined = "none", NEW p \in Procs, OpenModule(p)
    PROVE  IInv'
<1> TypeOK /\ CardInv /\ RefInv /\ LinkInv /\ AccessesDefined
  BY InvParts
<1> USE DEF cardVars, linkVars
<1>p. /\ pc \in [Procs -> {"closed", "found", "get_module", "show", "show_done"} \cup Inside]
      /\ pc[p] = "get_module" /\ Holds(p) /\ ~HoldsModule(p)
  BY DEF TypeOK, Inside, OpenModule, Holds, HoldsModule
<1>d. AccessesDefined'
  BY DEF AccessesDefined, OpenModule, memVars
<1>1. CASE Put(fdev[p]) /\ Closed(p) /\ UNCHANGED module_refs
  BY <1>p, <1>1, <1>d, DropKeeps DEF OpenModule, sysfsVars, irqVars, memVars
<1>2. CASE /\ owner = "live" /\ module_refs' = module_refs + 1
           /\ pc' = [pc EXCEPT ![p] = "open_info"]
           /\ UNCHANGED <<refs, kobj, fdev>>
  <2> USE <1>2
  <2>u. UNCHANGED <<cardVars, linkVars, attrs, irq, owner, failed>>
    BY DEF OpenModule, sysfsVars, irqVars, memVars
  <2>h. /\ Holds(p)' /\ HoldsModule(p)'
        /\ \A q \in Procs : q # p => /\ pc'[q] = pc[q]
                                     /\ Holds(q)' <=> Holds(q)
                                     /\ HoldsModule(q)' <=> HoldsModule(q)
    BY <1>p DEF Holds, HoldsModule
  <2>c. \A j \in Idevs : (Holders(j))' = Holders(j)
    BY <1>p, <2>h DEF Holders
  <2>m. Cardinality(ModuleHolders)' = Cardinality(ModuleHolders) + 1
    <3>1. ModuleHolders' = ModuleHolders \cup {p} /\ p \notin ModuleHolders
      BY <1>p, <2>h DEF ModuleHolders
    <3> QED BY <3>1, HoldersFinite, FS_AddElement
  <2>1. TypeOK'
    BY SMT, <2>u DEF TypeOK
  <2>2. CardInv'
    BY <2>u DEF CardInv
  <2>3. RefInv'
    <3>1. \A j \in Idevs :
             /\ refs'[j] = Cardinality(Holders(j))' + (IF Registered(j)' THEN 1 ELSE 0)
             /\ kobj'[j] = "live" <=> refs'[j] > 0
             /\ kobj'[j] = "raw" => \E c \in Cards : idev'[c] = j /\ at'[c] = "initialize"
      BY SMT, <2>u, <2>c DEF RefInv, Registered
    <3>2. module_refs' = Cardinality(ModuleHolders)'
      BY <2>m DEF RefInv
    <3>3. \A q \in Procs : /\ Holds(q)' => fdev'[q] \in Idevs
                           /\ pc'[q] # "closed" => fdev'[q] # NULL
                           /\ HoldsModule(q)' => owner' = "live"
      BY <1>p, <2>h, <2>u DEF RefInv
    <3> QED BY <3>1, <3>2, <3>3 DEF RefInv
  <2>4. LinkInv'
    BY <2>u DEF LinkInv
  <2> QED BY <1>d, <2>1, <2>2, <2>3, <2>4, InvWhole
<1> QED BY <1>1, <1>2 DEF OpenModule

\* Every step of a process preserves IInv.
LEMMA ProcessKeeps ==
    ASSUME IInv, undefined = "none", NEW p \in Procs,
           \/ \E m \in Minors : OpenFind(p, m)
           \/ Open(p) \/ uio_release(p)
           \/ ReadEnter(p) \/ Read(p) \/ Signal(p)
           \/ PollEnter(p) \/ Poll(p)
           \/ \E i \in Idevs : ShowEnter(p, i)
           \/ Show(p)
           \/ \E pages \in 1..MaxPages : uio_mmap(p, pages)
           \/ munmap(p) \/ uio_write(p) \/ uio_vma_fault(p)
    PROVE  IInv'
<1> TypeOK /\ CardInv /\ RefInv /\ LinkInv /\ AccessesDefined
  BY InvParts
<1>d. UNCHANGED undefined => AccessesDefined'
  BY DEF AccessesDefined
<1>f. pc[p] # "closed" => fdev[p] \in Idevs
  BY SMT DEF TypeOK, RefInv
<1>i. pc[p] # "closed" /\ UsesInfo(fdev[p]) => AccessesDefined'
  BY <1>f, UsesInfoDefined
<1>h. pc[p] \in Inside => Holds(p) /\ HoldsModule(p)
  BY DEF Inside, Holds, HoldsModule
<1> USE DEF cardVars, refVars, linkVars, sysfsVars, irqVars, devVars, modVars, procVars,
            memVars
<1>1. CASE \E m \in Minors : OpenFind(p, m)
  <2>1. PICK m \in Minors : OpenFind(p, m)
    BY <1>1
  <2>2. uio_idr[m] \in Idevs \cup {NULL} /\ uio_idr[m] # NULL
    BY <2>1 DEF OpenFind, TypeOK
  <2>3. ~Holds(p)
    BY <2>1 DEF OpenFind, Holds
  <2> QED BY <1>d, <2>1, <2>2, <2>3, OutsideKeeps DEF OpenFind
<1>2. CASE OpenGet(p)
  BY <1>2, OpenGetKeeps
<1>3. CASE OpenModule(p)
  BY <1>3, OpenModuleKeeps
<1>4. CASE OpenInfo(p)
  <2>1. pc[p] = "open_info" /\ AccessesDefined' /\ HoldsModule(p) /\ Holds(p)
    BY <1>4, <1>i, <1>h DEF OpenInfo, Inside
  <2>2. CASE OpenFails(p)
    BY <1>4, <2>1, <2>2, DropKeeps DEF OpenInfo, OpenFails
  <2>3. CASE pc' = [pc EXCEPT ![p] = "open"] /\ UNCHANGED <<refVars, module_refs, fdev>>
    BY <1>4, <2>1, <2>3, MovesKeeps DEF OpenInfo, Inside
  <2> QED BY <1>4, <2>2, <2>3 DEF OpenInfo
<1>5. CASE uio_release(p)
  BY <1>5, <1>i, <1>h, DropKeeps DEF uio_release, Inside
<1>6. CASE ReadEnter(p) \/ Read(p) \/ PollEnter(p) \/ Poll(p)
  <2>1. PICK x \in Inside : pc' = [pc EXCEPT ![p] = x]
    BY <1>6 DEF ReadEnter, Read, ReadCheck, ReadSet, ReadCompare, ReadSchedule, ReadLeave,
                PollEnter, Poll, uio_poll, poll_wait, PollCompare, PollWoken, Steps, Inside
  <2>2. pc[p] \in Inside
    BY <1>6 DEF ReadEnter, Read, ReadCheck, ReadSet, ReadCompare, ReadSchedule, ReadLeave,
                PollEnter, Poll, uio_poll, poll_wait, PollCompare, PollWoken, Steps, Inside
  <2>3. UsesInfo(fdev[p]) \/ UNCHANGED undefined
    BY <1>6 DEF ReadEnter, Read, ReadCheck, ReadSet, ReadCompare, ReadSchedule, ReadLeave,
                PollEnter, Poll, uio_poll, poll_wait, PollCompare, PollWoken
  <2>4. ProcStep
    BY <1>6 DEF ReadEnter, Read, ReadCheck, ReadSet, ReadCompare, ReadSchedule, ReadLeave,
                PollEnter, Poll, uio_poll, poll_wait, PollCompare, PollWoken
  <2>5. AccessesDefined' /\ HoldsModule(p)
    BY <1>d, <1>i, <1>h, <2>2, <2>3 DEF Inside
  <2> QED BY <2>1, <2>4, <2>5, MovesKeeps DEF ProcStep
<1>7. CASE Signal(p)
  BY <1>7, <1>d, StillKeeps DEF Signal, ProcStep
<1>8. CASE \E i \in Idevs : ShowEnter(p, i)
  <2>1. PICK i \in Idevs : ShowEnter(p, i)
    BY <1>8
  <2>2. ~Holds(p) /\ pc' = [pc EXCEPT ![p] = "show"]
    BY <2>1 DEF ShowEnter, Steps, Holds
  <2> QED BY <1>d, <2>1, <2>2, UioAssumption, OutsideKeeps DEF ShowEnter
<1>9. CASE name_show(p)
  <2>1. /\ ~Holds(p) /\ pc' = [pc EXCEPT ![p] = "show_done"] /\ fdev[p] \in Idevs
        /\ AccessesDefined'
    BY <1>9, <1>f, <1>i DEF name_show, Steps, Holds
  <2>2. fdev' = [fdev EXCEPT ![p] = fdev[p]]
    BY <1>9 DEF name_show, ProcStep, TypeOK
  <2> QED BY <1>9, <2>1, <2>2, UioAssumption, OutsideKeeps DEF name_show, ProcStep
<1>10. CASE ShowLeave(p)
  <2>1. ~Holds(p)
    BY <1>10 DEF ShowLeave, Holds
  <2> QED BY <1>10, <1>d, <2>1, OutsideKeeps DEF ShowLeave, Closed
<1>11. CASE \E pages \in 1..MaxPages : uio_mmap(p, pages)
  BY <1>11, <1>i, StillKeeps DEF uio_mmap
<1>12. CASE munmap(p)
  BY <1>12, <1>d, StillKeeps DEF munmap
<1>13. CASE uio_write(p) \/ uio_vma_fault(p)
  BY <1>13, <1>i, StillKeeps DEF uio_write, uio_vma_fault, OnlyUsesInfo
<1> QED BY <1>1, <1>2, <1>3, <1>4, <1>5, <1>6, <1>7, <1>8, <1>9, <1>10, <1>11, <1>12, <1>13
        DEF Open, Show

-----------------------------------------------------------------------------
(* Binding and unbinding a card.                                           *)

\* A card moves on to x while probe or remove holds the first reference to i.
Walks(c, i, x) ==
    /\ at' = [at EXCEPT ![c] = x]
    /\ info' \in [Idevs -> Cards \cup {NULL}]
    /\ attrs' \in [Idevs -> SUBSET ({"map", "port"} \X Int)]
    /\ irq' \in [Idevs -> BOOLEAN]
    /\ uio_idr' \in [Minors -> Idevs \cup {NULL}]
    /\ info'[i] = IF x \in Linked THEN c ELSE NULL
    /\ attrs'[i] # {} => x \in {"irq", "bound"} /\ attrs'[i] \subseteq AllKobjects(c)
    /\ irq'[i] => x \in {"bound", "unregister"}
    /\ \A j \in Idevs : j # i => /\ info'[j] = info[j] /\ attrs'[j] = attrs[j]
                                 /\ irq'[j] = irq[j]
    /\ \A m \in Minors : /\ uio_idr'[m] \in {uio_idr[m], NULL}
                         /\ x = "err_put" => uio_idr'[m] # i
    /\ UNCHANGED <<res, idev, refVars, owner, module_refs, pc, fdev, memVars>>

\* Such a move preserves IInv.
LEMMA WalkKeeps ==
    ASSUME IInv, NEW c \in Cards, NEW x \in Counted, at[c] \in Counted,
           NEW i \in Idevs, i = idev[c], Walks(c, i, x)
    PROVE  IInv'
<1> TypeOK /\ CardInv /\ RefInv /\ LinkInv /\ AccessesDefined
  BY InvParts
<1> USE DEF Walks, refVars, memVars
<1>a. /\ at \in [Cards -> {"unbound", "register", "initialize", "free_minor"} \cup Counted]
      /\ at'[c] = x /\ \A d \in Cards : d # c => at'[d] = at[d]
  BY DEF TypeOK
<1>u. \A d \in Cards : d # c => idev[d] # i
  BY ZenonT(60), UioAssumption DEF CardInv
<1>x. /\ x \notin {"unbound", "register", "initialize", "free_minor"}
      /\ at[c] \notin {"unbound", "register", "initialize", "free_minor"}
      /\ x \in Linked <=> x \notin Cleared
  BY DEF Counted, Linked, Cleared, Failing
<1>1. TypeOK'
  BY <1>a DEF TypeOK
<1>2. CardInv'
  <2>1. ASSUME NEW d \in Cards
        PROVE  /\ (idev'[d] = NULL) <=> (at'[d] \in {"unbound", "register"})
               /\ at'[d] = "unbound" => res'[d] = {}
               /\ at'[d] = "initialize" => kobj'[idev'[d]] = "raw"
               /\ at'[d] = "free_minor" => kobj'[idev'[d]] \in {"live", "freed"}
               /\ at'[d] \in Linked => info'[idev'[d]] = d
               /\ at'[d] \in Cleared => info'[idev'[d]] = NULL
               /\ at'[d] = "err_put" => \A m \in Minors : uio_idr'[m] # idev'[d]
    <3>1. CASE d = c
      BY SMT, <1>a, <1>x, <3>1, UioAssumption DEF CardInv
    <3>2. CASE d # c
      <4>1. at'[d] = at[d] /\ idev[d] # i /\ idev[d] \in Idevs \cup {NULL}
        BY <1>a, <1>u, <3>2 DEF TypeOK
      <4>2. at[d] \in Linked \cup Cleared => idev[d] \in Idevs
        BY <4>1 DEF CardInv, Linked, Cleared, Failing
      <4>3. /\ at[d] \in Linked => info'[idev[d]] = d
            /\ at[d] \in Cleared => info'[idev[d]] = NULL
        BY SMT, <4>1, <4>2 DEF CardInv
      <4>4. at[d] = "err_put" => \A m \in Minors : uio_idr'[m] # idev[d]
        <5>1. at[d] = "err_put" => idev[d] # NULL /\ \A m \in Minors : uio_idr[m] # idev[d]
          BY DEF CardInv
        <5> QED BY <5>1
      <4> QED BY ZenonT(60), <4>1, <4>3, <4>4 DEF CardInv
    <3> QED BY <3>1, <3>2
  <2>2. \A d, e \in Cards : (idev'[d] = idev'[e] /\ idev'[d] # NULL) => d = e
    BY DEF CardInv
  <2> QED BY <2>1, <2>2 DEF CardInv
<1>3. RefInv'
  <2>1. ASSUME NEW j \in Idevs PROVE Registered(j)' <=> Registered(j)
    <3>1. \A d \in Cards : at'[d] \in Counted <=> at[d] \in Counted
      BY <1>a
    <3> QED BY <3>1 DEF Registered
  <2>2. \A d \in Cards : at[d] = "initialize" <=> at'[d] = "initialize"
    BY <1>a, <1>x
  <2> QED BY SMT, <2>1, <2>2, SameHolders DEF RefInv, Holds, HoldsModule
<1>4. LinkInv'
  <2>1. ASSUME NEW j \in Idevs
        PROVE  /\ kobj'[j] = "none" => info'[j] = NULL
               /\ info'[j] # NULL => (idev'[info'[j]] = j \/ j \in failed')
               /\ irq'[j] => \E d \in Cards : idev'[d] = j /\ at'[d] \in {"bound", "unregister"}
               /\ attrs'[j] # {} => \E d \in Cards : /\ idev'[d] = j /\ at'[d] \in {"irq", "bound"}
                                                     /\ attrs'[j] \subseteq AllKobjects(d)
    <3>1. CASE j = i
      <4>1. kobj[i] # "none"
        BY <1>x, CardHasDevice
      <4> QED BY <1>a, <3>1, <4>1
    <3>2. CASE j # i
      <4>1. \A d \in Cards : idev[d] = j => at'[d] = at[d]
        BY <1>a, <3>2
      <4> QED BY SMT, <3>2, <4>1 DEF LinkInv
    <3> QED BY <3>1, <3>2
  <2>2. \A m \in Minors : uio_idr'[m] # NULL => \E d \in Cards : idev'[d] = uio_idr'[m]
    BY SMT DEF LinkInv
  <2> QED BY <2>1, <2>2 DEF LinkInv
<1>5. AccessesDefined'
  BY DEF AccessesDefined
<1> QED BY <1>1, <1>2, <1>3, <1>4, <1>5, InvWhole

\* Wherever uio_dev_add_attributes fails, its labels put every kobject it has made.
LEMMA UnwoundAll ==
    ASSUME NEW c \in Cards, NEW f \in Failures(c)
    PROVE  Made(c, f) \ Unwound(c, f) = {}
<1>1. Shape[c].maps \in Nat /\ Shape[c].ports \in Nat
  BY UioAssumption
<1>2. f.k \in Int /\ f.k >= -1
  BY SMT, <1>1 DEF Failures
<1>3. \A n \in Int : (-1..n) \subseteq (0..n) \cup {-1}
  BY SMT
<1>4. \A n \in Int : ({f.kind} \X (-1..n)) \subseteq ({f.kind} \X (0..n)) \cup {<<f.kind, -1>>}
  BY SMT, <1>3
<1> QED BY SMT, <1>2, <1>4 DEF Made, Unwound

\* The kobjects of a card are maps and ports.
LEMMA KobjectsType ==
    ASSUME NEW c \in Cards
    PROVE  AllKobjects(c) \in SUBSET ({"map", "port"} \X Int)
<1>1. Shape[c].maps \in Nat /\ Shape[c].ports \in Nat
  BY UioAssumption
<1> QED BY SMT, <1>1 DEF AllKobjects, Kobjects

\* The steps of __uio_register_device and uio_unregister_device between the first
\* reference and its release.
LEMMA RegisteredKeeps ==
    ASSUME IInv, NEW c \in Cards,
           \/ uio_dev_add_attributes(c) \/ request_irq(c) \/ err_uio_dev_add_attributes(c)
           \/ err_device_create(c) \/ ivshmem_pci_remove(c) \/ Disconnect(c) \/ WakeWaiters(c)
    PROVE  IInv'
<1> TypeOK /\ CardInv /\ RefInv /\ LinkInv /\ AccessesDefined
  BY InvParts
<1> USE DEF cardVars, refVars, linkVars, sysfsVars, irqVars, devVars, modVars, procVars,
            memVars
<1>c. /\ at[c] \in {"attributes", "irq", "err_uio_dev_add_attributes", "err_device_create",
                    "bound", "unregister", "wake"}
      /\ at[c] \in Counted /\ at[c] \notin {"unbound", "register"}
  BY DEF uio_dev_add_attributes, request_irq, err_uio_dev_add_attributes,
         err_device_create, ivshmem_pci_remove, Disconnect, WakeWaiters, Counted, Failing
<1>i. PICK i \in Idevs : i = idev[c]
  BY <1>c, CardHasDevice
<1>t. /\ at \in [Cards -> {"unbound", "register", "initialize", "free_minor"} \cup Counted]
      /\ info \in [Idevs -> Cards \cup {NULL}] /\ irq \in [Idevs -> BOOLEAN]
      /\ attrs \in [Idevs -> SUBSET ({"map", "port"} \X Int)]
      /\ uio_idr \in [Minors -> Idevs \cup {NULL}]
  BY DEF TypeOK
<1>n. info[i] = IF at[c] \in Linked THEN c ELSE NULL
  BY <1>c, <1>i DEF CardInv, Linked, Cleared, Failing
<1>a. attrs[i] # {} => at[c] \in {"irq", "bound"} /\ attrs[i] \subseteq AllKobjects(c)
  BY SMT, <1>i, UioAssumption DEF LinkInv, CardInv
<1>q. irq[i] => at[c] \in {"bound", "unregister"}
  BY SMT, <1>i, UioAssumption DEF LinkInv, CardInv
<1>d. DelAttributes(i) /\ info[i] = c => /\ attrs' \in [Idevs -> SUBSET ({"map", "port"} \X Int)]
                          /\ attrs'[i] = {} /\ \A j \in Idevs : j # i => attrs'[j] = attrs[j]
  <2> SUFFICES ASSUME DelAttributes(i), info[i] = c
               PROVE  /\ attrs' \in [Idevs -> SUBSET ({"map", "port"} \X Int)]
                      /\ attrs'[i] = {} /\ \A j \in Idevs : j # i => attrs'[j] = attrs[j]
    OBVIOUS
  <2>1. attrs' = [attrs EXCEPT ![i] = @ \ AllKobjects(c)]
    BY DEF DelAttributes
  <2>2. attrs[i] \ AllKobjects(c) = {}
    BY <1>a
  <2> QED BY <1>t, <2>1, <2>2
<1>1. CASE uio_dev_add_attributes(c)
  <2>1. CASE attrs' = [attrs EXCEPT ![i] = AllKobjects(c)] /\ at' = [at EXCEPT ![c] = "irq"]
    <3>1. "irq" \in Counted /\ "irq" \in Linked /\ at[c] \in Linked
      BY <1>1 DEF Counted, Linked, uio_dev_add_attributes
    <3>w. Walks(c, i, "irq")
      BY <1>1, <1>i, <1>t, <1>n, <1>q, <2>1, <3>1, KobjectsType DEF Walks, uio_dev_add_attributes
    <3> QED BY <1>c, <1>i, <3>1, <3>w, WalkKeeps
  <2>2. CASE /\ \E f \in Failures(c) :
                   attrs' = [attrs EXCEPT ![i] = Made(c, f) \ Unwound(c, f)]
             /\ at' = [at EXCEPT ![c] = "err_uio_dev_add_attributes"]
    <3>1. /\ "err_uio_dev_add_attributes" \in Counted
          /\ "err_uio_dev_add_attributes" \in Linked /\ at[c] \in Linked
      BY <1>1 DEF Counted, Linked, Failing, uio_dev_add_attributes
    <3>2. attrs' = [attrs EXCEPT ![i] = {}]
      BY <2>2, UnwoundAll
    <3>w. Walks(c, i, "err_uio_dev_add_attributes")
      BY <1>1, <1>i, <1>t, <1>n, <1>q, <2>2, <3>1, <3>2 DEF Walks, uio_dev_add_attributes
    <3> QED BY <1>c, <1>i, <3>1, <3>w, WalkKeeps
  <2> QED BY <1>1, <1>i, <2>1, <2>2 DEF uio_dev_add_attributes
<1>2. CASE request_irq(c)
  <2>1. CASE /\ at' = [at EXCEPT ![c] = "bound"]
             /\ irq' = [irq EXCEPT ![i] = Shape[c].irq]
             /\ UNCHANGED attrs
    <3>1. "bound" \in Counted /\ "bound" \in Linked /\ at[c] \in Linked
      BY <1>2 DEF Counted, Linked, request_irq
    <3>2. Shape[c].irq \in BOOLEAN
      BY UioAssumption
    <3>3. irq' \in [Idevs -> BOOLEAN] /\ \A j \in Idevs : j # i => irq'[j] = irq[j]
      BY <1>t, <2>1, <3>2
    <3>w. Walks(c, i, "bound")
      BY <1>2, <1>i, <1>t, <1>n, <1>a, <2>1, <3>1, <3>3 DEF Walks, request_irq
    <3> QED BY <1>c, <1>i, <3>1, <3>w, WalkKeeps
  <2>2. CASE /\ at' = [at EXCEPT ![c] = "err_uio_dev_add_attributes"]
             /\ DelAttributes(i) /\ UNCHANGED irq
    <3>1. /\ "err_uio_dev_add_attributes" \in Counted /\ at[c] = "irq"
          /\ "err_uio_dev_add_attributes" \in Linked /\ at[c] \in Linked
      BY <1>2 DEF Counted, Linked, Failing, request_irq
    <3>w. Walks(c, i, "err_uio_dev_add_attributes")
      BY <1>2, <1>i, <1>t, <1>n, <1>q, <1>d, <2>2, <3>1 DEF Walks, request_irq
    <3> QED BY <1>c, <1>i, <3>1, <3>w, WalkKeeps
  <2> QED BY <1>2, <1>i, <2>1, <2>2 DEF request_irq
<1>3. CASE err_uio_dev_add_attributes(c)
  <2>1. CASE UNCHANGED at
    <3>1. AccessesDefined'
      BY <1>3 DEF AccessesDefined, err_uio_dev_add_attributes
    <3> QED BY <1>3, <2>1, <3>1, StillKeeps DEF err_uio_dev_add_attributes
  <2>2. CASE at' = [at EXCEPT ![c] = "err_device_create"]
    <3>1. /\ "err_device_create" \in Counted /\ at[c] = "err_uio_dev_add_attributes"
          /\ "err_device_create" \in Linked /\ at[c] \in Linked
      BY <1>3 DEF Counted, Linked, Failing, err_uio_dev_add_attributes
    <3>w. Walks(c, i, "err_device_create")
      BY <1>3, <1>i, <1>t, <1>n, <1>a, <1>q, <2>2, <3>1 DEF Walks, err_uio_dev_add_attributes
    <3> QED BY <1>c, <1>i, <3>1, <3>w, WalkKeeps
  <2> QED BY <1>3, <2>1, <2>2 DEF err_uio_dev_add_attributes
<1>4. CASE err_device_create(c)
  <2>1. /\ "err_put" \in Counted /\ at[c] = "err_device_create"
        /\ "err_put" \in Linked /\ at[c] \in Linked
    BY <1>4 DEF Counted, Linked, Failing, err_device_create
  <2>2. /\ uio_idr' \in [Minors -> Idevs \cup {NULL}]
        /\ \A m \in Minors : uio_idr'[m] \in {uio_idr[m], NULL} /\ uio_idr'[m] # i
    BY <1>4, <1>i, <1>t, UioAssumption DEF err_device_create, Unnumbered
  <2>w. Walks(c, i, "err_put")
    BY <1>4, <1>i, <1>t, <1>n, <1>a, <1>q, <2>1, <2>2 DEF Walks, err_device_create
  <2> QED BY <1>c, <1>i, <2>1, <2>w, WalkKeeps
<1>5. CASE ivshmem_pci_remove(c)
  <2>1. /\ "unregister" \in Counted /\ at[c] = "bound"
        /\ "unregister" \in Linked /\ at[c] \in Linked
    BY <1>5 DEF Counted, Linked, Failing, ivshmem_pci_remove
  <2>w. Walks(c, i, "unregister")
    BY <1>5, <1>i, <1>t, <1>n, <1>d, <1>q, <2>1 DEF Walks, ivshmem_pci_remove
  <2> QED BY <1>c, <1>i, <2>1, <2>w, WalkKeeps
<1>6. CASE Disconnect(c)
  <2>1. "wake" \in Counted /\ at[c] = "unregister" /\ "wake" \notin Linked
    BY <1>6 DEF Counted, Linked, Failing, Disconnect
  <2>2. irq' \in [Idevs -> BOOLEAN] /\ ~irq'[i] /\ \A j \in Idevs : j # i => irq'[j] = irq[j]
    BY <1>6, <1>i, <1>t DEF Disconnect
  <2>3. /\ info' \in [Idevs -> Cards \cup {NULL}] /\ info'[i] = NULL
        /\ \A j \in Idevs : j # i => info'[j] = info[j]
    BY <1>6, <1>i, <1>t DEF Disconnect
  <2>w. Walks(c, i, "wake")
    BY <1>6, <1>i, <1>t, <1>a, <2>1, <2>2, <2>3 DEF Walks, Disconnect
  <2> QED BY <1>c, <1>i, <2>1, <2>w, WalkKeeps
<1>7. CASE WakeWaiters(c)
  <2>1. "device_del" \in Counted /\ at[c] = "wake" /\ {"wake", "device_del"} \cap Linked = {}
    BY <1>7 DEF Counted, Linked, Failing, WakeWaiters
  <2>w. Walks(c, i, "device_del")
    BY <1>7, <1>i, <1>t, <1>n, <1>a, <1>q, <2>1 DEF Walks, WakeWaiters
  <2> QED BY <1>c, <1>i, <2>1, <2>w, WalkKeeps
<1> QED BY <1>1, <1>2, <1>3, <1>4, <1>5, <1>6, <1>7

\* A card without a structure: probe begins or fails, and uio_get_minor's failure ends it.
LEMMA UnregisteredKeeps ==
    ASSUME IInv, NEW c \in Cards, NEW x \in {"unbound", "register"},
           at[c] \in {"unbound", "register"},
           at' = [at EXCEPT ![c] = x], idev' = [idev EXCEPT ![c] = NULL],
           res' \in [Cards -> SUBSET Resources], x = "unbound" => res'[c] = {},
           \A d \in Cards : d # c => res'[d] = res[d],
           UNCHANGED <<refVars, linkVars, attrs, irq, owner, module_refs, pc, fdev, memVars>>
    PROVE  IInv'
<1> TypeOK /\ CardInv /\ RefInv /\ LinkInv /\ AccessesDefined
  BY InvParts
<1> USE DEF refVars, linkVars, memVars
<1>i. idev[c] = NULL /\ idev \in [Cards -> Idevs \cup {NULL}] /\ idev' = idev
  BY SMT DEF TypeOK, CardInv
<1>a. /\ at \in [Cards -> {"unbound", "register", "initialize", "free_minor"} \cup Counted]
      /\ at'[c] = x /\ \A d \in Cards : d # c => at'[d] = at[d]
  BY DEF TypeOK
<1>x. x \notin Linked \cup Cleared \cup Counted /\ at[c] \notin Linked \cup Cleared \cup Counted
  BY DEF Counted, Linked, Cleared, Failing
<1>u. \A d \in Cards : idev[d] # NULL => at'[d] = at[d]
  BY <1>a, <1>i
<1>1. TypeOK'
  BY <1>a, <1>i DEF TypeOK
<1>2. CardInv'
  <2>1. ASSUME NEW d \in Cards
        PROVE  /\ (idev'[d] = NULL) <=> (at'[d] \in {"unbound", "register"})
               /\ at'[d] = "unbound" => res'[d] = {}
               /\ at'[d] = "initialize" => kobj'[idev'[d]] = "raw"
               /\ at'[d] = "free_minor" => kobj'[idev'[d]] \in {"live", "freed"}
               /\ at'[d] \in Linked => info'[idev'[d]] = d
               /\ at'[d] \in Cleared => info'[idev'[d]] = NULL
               /\ at'[d] = "err_put" => \A m \in Minors : uio_idr'[m] # idev'[d]
    <3>1. CASE d = c
      BY <1>a, <1>i, <1>x, <3>1
    <3>2. CASE d # c
      BY SMT, <1>a, <1>i, <3>2 DEF CardInv
    <3> QED BY <3>1, <3>2
  <2> QED BY SMT, <1>i, <2>1 DEF CardInv
<1>3. RefInv'
  <2>1. ASSUME NEW j \in Idevs PROVE Registered(j)' <=> Registered(j)
    BY ZenonT(60), <1>i, <1>u, UioAssumption DEF Registered
  <2>2. ASSUME NEW j \in Idevs, kobj'[j] = "raw"
        PROVE  \E d \in Cards : idev'[d] = j /\ at'[d] = "initialize"
    BY SMT, <1>i, <1>u, <2>2, UioAssumption DEF RefInv
  <2> QED BY SMT, <2>1, <2>2, SameHolders DEF RefInv, Holds, HoldsModule
<1>4. LinkInv'
  <2>1. \A d \in Cards, j \in Idevs : idev[d] = j => idev'[d] = j /\ at'[d] = at[d]
    BY ZenonT(60), <1>i, <1>u, UioAssumption
  <2> QED BY SMT, <1>i, <2>1 DEF LinkInv
<1>5. AccessesDefined'
  BY DEF AccessesDefined
<1> QED BY <1>1, <1>2, <1>3, <1>4, <1>5, InvWhole

\* idr_alloc has found a minor: the structure is fresh, and only this card names it.
LEMMA AllocatedKeeps ==
    ASSUME IInv, NEW c \in Cards, at[c] = "register", NEW i \in Idevs, kobj[i] = "none",
           NEW n,
           at' = [at EXCEPT ![c] = "initialize"],
           kobj' = [kobj EXCEPT ![i] = "raw"], info' = [info EXCEPT ![i] = c],
           idev' = [idev EXCEPT ![c] = i], uio_idr' = [uio_idr EXCEPT ![n] = i],
           UNCHANGED <<res, refs, attrs, irq, owner, module_refs, pc, fdev, memVars>>
    PROVE  IInv'
<1> TypeOK /\ CardInv /\ RefInv /\ LinkInv /\ AccessesDefined
  BY InvParts
<1> USE DEF memVars
<1>t. /\ at \in [Cards -> {"unbound", "register", "initialize", "free_minor"} \cup Counted]
      /\ idev \in [Cards -> Idevs \cup {NULL}] /\ idev[c] = NULL
      /\ kobj \in [Idevs -> {"none", "raw", "live", "freed"}]
      /\ info \in [Idevs -> Cards \cup {NULL}]
      /\ uio_idr \in [Minors -> Idevs \cup {NULL}]
      /\ UNCHANGED <<failed, undefined>>
  BY DEF TypeOK, CardInv
<1>o. \A d \in Cards : d # c => at'[d] = at[d] /\ idev'[d] = idev[d]
  BY <1>t
<1>f. \A d \in Cards : idev[d] # i
  <2> SUFFICES ASSUME NEW d \in Cards, idev[d] = i PROVE FALSE
    OBVIOUS
  <2>1. at[d] \notin {"unbound", "register"}
    BY UioAssumption DEF CardInv
  <2> QED BY <2>1, CardHasDevice
<1>x. /\ "initialize" \notin Counted \cup Cleared /\ "register" \notin Counted \cup Linked \cup Cleared
      /\ "initialize" \in Linked
  BY DEF Counted, Linked, Cleared, Failing
<1>1. TypeOK'
  BY <1>t DEF TypeOK
<1>2. CardInv'
  <2>1. ASSUME NEW d \in Cards
        PROVE  /\ (idev'[d] = NULL) <=> (at'[d] \in {"unbound", "register"})
               /\ at'[d] = "unbound" => res'[d] = {}
               /\ at'[d] = "initialize" => kobj'[idev'[d]] = "raw"
               /\ at'[d] = "free_minor" => kobj'[idev'[d]] \in {"live", "freed"}
               /\ at'[d] \in Linked => info'[idev'[d]] = d
               /\ at'[d] \in Cleared => info'[idev'[d]] = NULL
               /\ at'[d] = "err_put" => \A m \in Minors : uio_idr'[m] # idev'[d]
    <3>1. CASE d = c
      BY <1>t, <1>x, <3>1, UioAssumption
    <3>2. CASE d # c
      <4>1. at'[d] = at[d] /\ idev'[d] = idev[d] /\ idev[d] # i
        BY <1>o, <1>f, <3>2
      <4>2. at[d] \notin {"unbound", "register"} => idev[d] \in Idevs
        BY SMT, <1>t DEF CardInv
      <4>3. at[d] \in Linked \cup Cleared => at[d] \notin {"unbound", "register"}
        BY DEF Linked, Cleared, Failing
      <4>4. at[d] \notin {"unbound", "register"} =>
              kobj'[idev[d]] = kobj[idev[d]] /\ info'[idev[d]] = info[idev[d]]
        BY <1>t, <4>1, <4>2
      <4>5. at[d] = "err_put" => \A m \in Minors : uio_idr'[m] # idev[d]
        BY ZenonT(60), <1>t, <4>1 DEF CardInv
      <4> QED BY SMT, <4>1, <4>3, <4>4, <4>5 DEF CardInv
    <3> QED BY <3>1, <3>2
  <2>2. \A d, e \in Cards : (idev'[d] = idev'[e] /\ idev'[d] # NULL) => d = e
    BY SMT, <1>t, <1>o, <1>f DEF CardInv
  <2> QED BY <2>1, <2>2 DEF CardInv
<1>3. RefInv'
  <2>1. ASSUME NEW j \in Idevs PROVE Registered(j)' <=> Registered(j)
    <3>1. at'[c] \notin Counted /\ at[c] \notin Counted
      BY <1>t, <1>x
    <3> QED BY <1>o, <3>1 DEF Registered
  <2>2. ASSUME NEW j \in Idevs
        PROVE  /\ kobj'[j] = "live" <=> kobj[j] = "live"
               /\ kobj'[j] = "raw" => \E d \in Cards : idev'[d] = j /\ at'[d] = "initialize"
    <3>1. CASE j = i
      BY <1>t, <3>1
    <3>2. CASE j # i
      <4>1. kobj'[j] = kobj[j]
        BY <1>t, <3>2
      <4> QED BY SMT, <1>o, <4>1 DEF RefInv
    <3> QED BY <3>1, <3>2
  <2> QED BY SMT, <2>1, <2>2, SameHolders DEF RefInv, Holds, HoldsModule
<1>4. LinkInv'
  <2>1. \A d \in Cards, j \in Idevs : idev[d] = j => idev'[d] = j /\ at'[d] = at[d]
    BY <1>t, <1>o, UioAssumption
  <2>2. ASSUME NEW j \in Idevs
        PROVE  /\ kobj'[j] = "none" => info'[j] = NULL
               /\ info'[j] # NULL => (idev'[info'[j]] = j \/ j \in failed')
    <3>1. CASE j = i
      BY <1>t, <3>1
    <3>2. CASE j # i
      BY SMT, <1>t, <2>1, <3>2 DEF LinkInv
    <3> QED BY <3>1, <3>2
  <2>3. ASSUME NEW j \in Idevs
        PROVE  /\ irq'[j] => \E d \in Cards : idev'[d] = j /\ at'[d] \in {"bound", "unregister"}
               /\ attrs'[j] # {} => \E d \in Cards : /\ idev'[d] = j /\ at'[d] \in {"irq", "bound"}
                                                     /\ attrs'[j] \subseteq AllKobjects(d)
    BY SMT, <2>1 DEF LinkInv
  <2>4. \A m \in Minors : uio_idr'[m] # NULL => \E d \in Cards : idev'[d] = uio_idr'[m]
    BY SMT, <1>t, <2>1 DEF LinkInv
  <2> QED BY ZenonT(60), <2>2, <2>3, <2>4 DEF LinkInv
<1>5. AccessesDefined'
  BY <1>t DEF AccessesDefined
<1> QED BY <1>1, <1>2, <1>3, <1>4, <1>5, InvWhole

\* device_initialize gives the structure its first reference: no process held it.
LEMMA DeviceAddKeeps ==
    ASSUME IInv, NEW c \in Cards, device_add(c)
    PROVE  IInv'
<1> TypeOK /\ CardInv /\ RefInv /\ LinkInv /\ AccessesDefined
  BY InvParts
<1> USE DEF cardVars, linkVars, irqVars, modVars, procVars, memVars
<1>i. PICK i \in Idevs : i = idev[c]
  BY CardHasDevice DEF device_add
<1>x. PICK x \in {"attributes", "err_device_create"} : at' = [at EXCEPT ![c] = x]
  BY DEF device_add
<1>t. /\ at \in [Cards -> {"unbound", "register", "initialize", "free_minor"} \cup Counted]
      /\ at[c] = "initialize" /\ kobj \in [Idevs -> {"none", "raw", "live", "freed"}]
      /\ refs \in [Idevs -> Int] /\ kobj[i] = "raw"
      /\ kobj' = [kobj EXCEPT ![i] = "live"] /\ refs' = [refs EXCEPT ![i] = 1]
  BY <1>i DEF TypeOK, CardInv, device_add
<1>f. UNCHANGED <<res, idev, info, uio_idr, attrs, irq, owner, module_refs, pc, fdev,
                  failed, undefined>>
  BY DEF device_add
<1>s. x \in Counted /\ x \in Linked /\ x \notin Cleared /\ "initialize" \notin Counted
      /\ "initialize" \in Linked
  BY DEF Counted, Linked, Cleared, Failing
<1>o. \A d \in Cards : d # c => at'[d] = at[d] /\ idev[d] # i
  BY ZenonT(60), <1>t, <1>x, <1>i, UioAssumption DEF CardInv
<1>0. Cardinality(Holders(i)) = 0
  <2>1. ~Registered(i)
    BY ZenonT(60), <1>i, <1>t, <1>s, UioAssumption, OneCard
  <2> QED BY SMT, <1>t, <2>1, HoldersFinite DEF RefInv
<1>1. TypeOK'
  BY SMT, <1>t, <1>x, <1>f, <1>s DEF TypeOK
<1>2. CardInv'
  <2>1. ASSUME NEW d \in Cards
        PROVE  /\ (idev'[d] = NULL) <=> (at'[d] \in {"unbound", "register"})
               /\ at'[d] = "unbound" => res'[d] = {}
               /\ at'[d] = "initialize" => kobj'[idev'[d]] = "raw"
               /\ at'[d] = "free_minor" => kobj'[idev'[d]] \in {"live", "freed"}
               /\ at'[d] \in Linked => info'[idev'[d]] = d
               /\ at'[d] \in Cleared => info'[idev'[d]] = NULL
               /\ at'[d] = "err_put" => \A m \in Minors : uio_idr'[m] # idev'[d]
    <3>1. CASE d = c
      BY <1>i, <1>t, <1>x, <1>f, <1>s, <3>1, UioAssumption DEF CardInv
    <3>2. CASE d # c
      <4>1. at'[d] = at[d] /\ idev[d] # i
        BY <1>o, <3>2
      <4>2. at[d] \in {"initialize", "free_minor"} => idev[d] \in Idevs
        BY CardHasDevice
      <4> QED BY ZenonT(60), <1>t, <1>f, <4>1, <4>2 DEF CardInv
    <3> QED BY <3>1, <3>2
  <2> QED BY SMT, <1>f, <2>1 DEF CardInv
<1>3. RefInv'
  <2>1. ASSUME NEW j \in Idevs
        PROVE  /\ refs'[j] = Cardinality(Holders(j))' + (IF Registered(j)' THEN 1 ELSE 0)
               /\ kobj'[j] = "live" <=> refs'[j] > 0
               /\ kobj'[j] = "raw" => \E d \in Cards : idev'[d] = j /\ at'[d] = "initialize"
    <3>1. Cardinality(Holders(j))' = Cardinality(Holders(j))
      BY <1>f, SameHolders
    <3>2. CASE j = i
      <4>1. Registered(i)'
        BY <1>i, <1>t, <1>x, <1>f, <1>s DEF Registered
      <4> QED BY SMT, <1>t, <1>0, <3>1, <3>2, <4>1
    <3>3. CASE j # i
      <4>1. Registered(j)' <=> Registered(j)
        BY <1>i, <1>o, <1>f, <3>3 DEF Registered
      <4>2. kobj'[j] = kobj[j] /\ refs'[j] = refs[j]
        BY <1>t, <3>3
      <4>3. kobj[j] = "raw" => \E d \in Cards : idev'[d] = j /\ at'[d] = "initialize"
        BY SMTT(60), <1>i, <1>o, <1>f, <3>3 DEF RefInv
      <4> QED BY SMT, <3>1, <4>1, <4>2, <4>3 DEF RefInv
    <3> QED BY <3>2, <3>3
  <2> QED BY <1>f, <2>1, SameHolders DEF RefInv, Holds, HoldsModule
<1>4. LinkInv'
  <2>1. \A d \in Cards : /\ at[d] \in {"bound", "unregister", "irq"} => at'[d] = at[d]
    BY <1>t, <1>o
  <2>2. \A j \in Idevs : kobj'[j] = "none" => kobj[j] = "none"
    BY <1>t
  <2> QED BY SMT, <1>f, <2>1, <2>2 DEF LinkInv
<1>5. AccessesDefined'
  BY <1>f DEF AccessesDefined
<1> QED BY <1>1, <1>2, <1>3, <1>4, <1>5, InvWhole

\* What a structure's first reference does to the counts when it is given back.
LEMMA LastPut ==
    ASSUME IInv, NEW c \in Cards, at[c] \in Counted, NEW i \in Idevs, i = idev[c], Put(i),
           NEW x \in {"unbound", "free_minor"}, at' = [at EXCEPT ![c] = x],
           idev' \in {idev, [idev EXCEPT ![c] = NULL]},
           UNCHANGED <<pc, fdev, owner, module_refs>>
    PROVE  RefInv' /\ kobj'[i] \in {"live", "freed"}
<1> TypeOK /\ CardInv /\ RefInv /\ LinkInv /\ AccessesDefined
  BY InvParts
<1>t. /\ refs' \in [Idevs -> Int] /\ refs'[i] = refs[i] - 1
      /\ kobj' \in [Idevs -> {"none", "raw", "live", "freed"}]
      /\ kobj'[i] = IF refs[i] = 1 THEN "freed" ELSE kobj[i]
      /\ \A j \in Idevs : j # i => refs'[j] = refs[j] /\ kobj'[j] = kobj[j]
  BY PutType
<1>a. /\ at \in [Cards -> {"unbound", "register", "initialize", "free_minor"} \cup Counted]
      /\ idev \in [Cards -> Idevs \cup {NULL}] /\ refs \in [Idevs -> Int]
      /\ x \notin Counted
  BY DEF TypeOK, Counted, Failing
<1>o. \A d \in Cards : d # c => at'[d] = at[d] /\ idev'[d] = idev[d] /\ idev[d] # i
  BY SMT, <1>a, UioAssumption DEF CardInv
<1>r. /\ Registered(i) /\ ~Registered(i)' /\ kobj[i] = "live"
      /\ \A j \in Idevs : j # i => (Registered(j)' <=> Registered(j))
  <2>1. Registered(i) /\ kobj[i] = "live"
    BY CardHasDevice DEF Counted, Failing
  <2>2. ~Registered(i)'
    BY <1>a, <1>o DEF Registered
  <2>3. ASSUME NEW j \in Idevs, j # i PROVE Registered(j)' <=> Registered(j)
    BY <1>a, <1>o, <2>3 DEF Registered
  <2> QED BY <2>1, <2>2, <2>3
<1>1. ASSUME NEW j \in Idevs
      PROVE  /\ refs'[j] = Cardinality(Holders(j))' + (IF Registered(j)' THEN 1 ELSE 0)
             /\ kobj'[j] = "live" <=> refs'[j] > 0
             /\ kobj'[j] = "raw" => \E d \in Cards : idev'[d] = j /\ at'[d] = "initialize"
  <2>1. Cardinality(Holders(j))' = Cardinality(Holders(j))
    BY SameHolders
  <2>2. refs[j] = Cardinality(Holders(j)) + (IF Registered(j) THEN 1 ELSE 0)
        /\ (kobj[j] = "live" <=> refs[j] > 0)
    BY DEF RefInv
  <2>3. CASE j = i
    BY SMT, <1>t, <1>a, <1>r, <2>1, <2>2, <2>3, HoldersFinite
  <2>4. CASE j # i
    <3>1. kobj[j] = "raw" => \E d \in Cards : idev'[d] = j /\ at'[d] = "initialize"
      BY SMT, <1>o, <2>4 DEF RefInv
    <3> QED BY <1>t, <1>r, <2>1, <2>2, <2>4, <3>1
  <2> QED BY <2>3, <2>4
<1>2. RefInv'
  BY <1>1, SameHolders DEF RefInv, Holds, HoldsModule
<1> QED BY <1>2, <1>t, <1>r

\* put_device of a failed registration: idev->info dangles, and failed tells so.
LEMMA RegisterFailsKeeps ==
    ASSUME IInv, NEW c \in Cards, RegisterFails(c)
    PROVE  IInv'
<1> TypeOK /\ CardInv /\ RefInv /\ LinkInv /\ AccessesDefined
  BY InvParts
<1> USE DEF linkVars, sysfsVars, irqVars, modVars, procVars
<1>c. at[c] = "err_put" /\ at[c] \in Counted
  BY DEF RegisterFails, Counted, Failing
<1>i. PICK i \in Idevs : i = idev[c]
  BY <1>c, CardHasDevice
<1>s. /\ at' = [at EXCEPT ![c] = "unbound"] /\ idev' = [idev EXCEPT ![c] = NULL]
      /\ Put(i) /\ failed' = failed \cup {i}
      /\ res' = [res EXCEPT ![c] = @ \ Resources]
      /\ UNCHANGED <<info, uio_idr, attrs, irq, owner, module_refs, pc, fdev, undefined>>
  BY <1>i DEF RegisterFails, ProbeFails, ProbeReleases
<1>t. /\ at \in [Cards -> {"unbound", "register", "initialize", "free_minor"} \cup Counted]
      /\ idev \in [Cards -> Idevs \cup {NULL}] /\ res \in [Cards -> SUBSET Resources]
      /\ info \in [Idevs -> Cards \cup {NULL}]
  BY DEF TypeOK
<1>p. /\ refs' \in [Idevs -> Int]
      /\ kobj' \in [Idevs -> {"none", "raw", "live", "freed"}]
      /\ \A j \in Idevs : j # i => refs'[j] = refs[j] /\ kobj'[j] = kobj[j]
  BY <1>s, PutType
<1>o. \A d \in Cards : d # c => at'[d] = at[d] /\ idev'[d] = idev[d] /\ idev[d] # i
  BY SMT, <1>i, <1>s, <1>t, UioAssumption DEF CardInv
<1>r. RefInv' /\ kobj'[i] \in {"live", "freed"}
  BY <1>c, <1>i, <1>s, LastPut
<1>1. TypeOK'
  BY <1>s, <1>t, <1>p DEF TypeOK
<1>2. CardInv'
  <2>1. ASSUME NEW d \in Cards
        PROVE  /\ (idev'[d] = NULL) <=> (at'[d] \in {"unbound", "register"})
               /\ at'[d] = "unbound" => res'[d] = {}
               /\ at'[d] = "initialize" => kobj'[idev'[d]] = "raw"
               /\ at'[d] = "free_minor" => kobj'[idev'[d]] \in {"live", "freed"}
               /\ at'[d] \in Linked => info'[idev'[d]] = d
               /\ at'[d] \in Cleared => info'[idev'[d]] = NULL
               /\ at'[d] = "err_put" => \A m \in Minors : uio_idr'[m] # idev'[d]
    <3>1. CASE d = c
      <4>1. res'[c] = {} /\ at'[c] = "unbound" /\ idev'[c] = NULL
        BY <1>s, <1>t
      <4> QED BY <3>1, <4>1 DEF Linked, Cleared, Failing
    <3>2. CASE d # c
      <4>1. at'[d] = at[d] /\ idev'[d] = idev[d] /\ idev[d] # i /\ res'[d] = res[d]
        BY <1>o, <1>s, <1>t, <3>2
      <4>2. at[d] \in {"initialize", "free_minor"} => idev[d] \in Idevs
        BY CardHasDevice
      <4> QED BY SMT, <1>s, <1>p, <4>1, <4>2 DEF CardInv
    <3> QED BY <3>1, <3>2
  <2>2. \A d, e \in Cards : (idev'[d] = idev'[e] /\ idev'[d] # NULL) => d = e
    BY SMT, <1>s, <1>t, <1>o DEF CardInv
  <2> QED BY <2>1, <2>2 DEF CardInv
<1>4. LinkInv'
  <2>1. ASSUME NEW j \in Idevs
        PROVE  /\ kobj'[j] = "none" => info'[j] = NULL
               /\ info'[j] # NULL => (idev'[info'[j]] = j \/ j \in failed')
               /\ irq'[j] => \E d \in Cards : idev'[d] = j /\ at'[d] \in {"bound", "unregister"}
               /\ attrs'[j] # {} => \E d \in Cards : /\ idev'[d] = j /\ at'[d] \in {"irq", "bound"}
                                                     /\ attrs'[j] \subseteq AllKobjects(d)
    <3>1. CASE j = i
      <4>1. ~irq[i] /\ attrs[i] = {}
        BY SMT, <1>c, <1>i, UioAssumption DEF LinkInv, CardInv
      <4> QED BY ZenonT(60), <1>s, <1>r, <3>1, <4>1
    <3>2. CASE j # i
      <4>1. \A d \in Cards : idev[d] = j => idev'[d] = j /\ at'[d] = at[d]
        BY <1>i, <1>o, <3>2
      <4> QED BY SMT, <1>s, <1>t, <1>p, <3>2, <4>1 DEF LinkInv
    <3> QED BY <3>1, <3>2
  <2>2. ASSUME NEW m \in Minors, uio_idr'[m] # NULL
        PROVE  \E d \in Cards : idev'[d] = uio_idr'[m]
    <3>1. uio_idr[m] # i
      BY <1>c, <1>i DEF CardInv
    <3> QED BY SMT, <1>i, <1>s, <1>o, <2>2, <3>1 DEF LinkInv
  <2> QED BY <2>1, <2>2 DEF LinkInv
<1>5. AccessesDefined'
  BY <1>s DEF AccessesDefined
<1> QED BY <1>1, <1>2, <1>r, <1>4, <1>5, InvWhole

\* device_unregister removes the attributes, then gives the first reference back.
LEMMA DeviceUnregisterKeeps ==
    ASSUME IInv, NEW c \in Cards, device_unregister(c)
    PROVE  IInv'
<1> TypeOK /\ CardInv /\ RefInv /\ LinkInv /\ AccessesDefined
  BY InvParts
<1> USE DEF linkVars, irqVars, modVars, procVars, memVars
<1>c. at[c] = "device_del" /\ at[c] \in Counted
  BY DEF device_unregister, Counted
<1>i. PICK i \in Idevs : i = idev[c]
  BY <1>c, CardHasDevice
<1>5. AccessesDefined'
  BY DEF AccessesDefined, device_unregister
<1>v. CASE UNCHANGED <<at, refs, kobj>>
  BY <1>v, <1>5, StillKeeps DEF device_unregister, cardVars, refVars
<1>w. CASE Put(i) /\ at' = [at EXCEPT ![c] = "free_minor"]
  <2>s. UNCHANGED <<res, idev, info, uio_idr, attrs, irq, owner, module_refs, pc, fdev,
                    failed, undefined>>
    BY DEF device_unregister
  <2>t. at \in [Cards -> {"unbound", "register", "initialize", "free_minor"} \cup Counted]
    BY DEF TypeOK
  <2>p. /\ refs' \in [Idevs -> Int]
        /\ kobj' \in [Idevs -> {"none", "raw", "live", "freed"}]
        /\ \A j \in Idevs : j # i => refs'[j] = refs[j] /\ kobj'[j] = kobj[j]
    BY <1>w, PutType
  <2>o. \A d \in Cards : d # c => at'[d] = at[d] /\ idev[d] # i
    BY SMT, <1>i, <1>w, <2>t, UioAssumption DEF CardInv
  <2>r. RefInv' /\ kobj'[i] \in {"live", "freed"}
    BY <1>c, <1>i, <1>w, <2>s, LastPut
  <2>1. TypeOK'
    BY <1>w, <2>s, <2>t, <2>p DEF TypeOK
  <2>2. CardInv'
    <3>1. ASSUME NEW d \in Cards
          PROVE  /\ (idev'[d] = NULL) <=> (at'[d] \in {"unbound", "register"})
                 /\ at'[d] = "unbound" => res'[d] = {}
                 /\ at'[d] = "initialize" => kobj'[idev'[d]] = "raw"
                 /\ at'[d] = "free_minor" => kobj'[idev'[d]] \in {"live", "freed"}
                 /\ at'[d] \in Linked => info'[idev'[d]] = d
                 /\ at'[d] \in Cleared => info'[idev'[d]] = NULL
                 /\ at'[d] = "err_put" => \A m \in Minors : uio_idr'[m] # idev'[d]
      <4>1. CASE d = c
        <5>1. /\ at'[c] = "free_minor" /\ "free_minor" \notin Linked
              /\ "device_del" \in Cleared
          BY <1>w, <2>t DEF Linked, Failing, Cleared
        <5>2. idev[c] # NULL /\ info[idev[c]] = NULL
          BY ZenonT(60), <1>c, <5>1 DEF CardInv
        <5> QED BY <1>i, <2>s, <2>r, <4>1, <5>1, <5>2
      <4>2. CASE d # c
        <5>1. at'[d] = at[d] /\ idev[d] # i
          BY ZenonT(60), <2>o, <4>2
        <5>2. at[d] \in {"initialize", "free_minor"} => idev[d] \in Idevs
          BY CardHasDevice
        <5> QED BY SMT, <2>s, <2>p, <5>1, <5>2 DEF CardInv
      <4> QED BY <4>1, <4>2
    <3> QED BY SMT, <2>s, <3>1 DEF CardInv
  <2>4. LinkInv'
    <3>1. \A d \in Cards : at[d] \in {"bound", "unregister", "irq"} => at'[d] = at[d]
      BY <1>c, <2>o
    <3>2. \A j \in Idevs : kobj'[j] = "none" => kobj[j] = "none"
      BY <2>p, <2>r
    <3> QED BY SMT, <2>s, <3>1, <3>2 DEF LinkInv
  <2> QED BY <1>5, <2>1, <2>2, <2>r, <2>4, InvWhole
<1> QED BY <1>i, <1>v, <1>w DEF device_unregister

\* The end of remove: the minor is free, and no pointer to the uio_info is left.
LEMMA RemoveEndsKeeps ==
    ASSUME IInv, NEW c \in Cards, RemoveEnds(c)
    PROVE  IInv'
<1> TypeOK /\ CardInv /\ RefInv /\ LinkInv /\ AccessesDefined
  BY InvParts
<1> USE DEF refVars, sysfsVars, irqVars, modVars, procVars, memVars
<1>c. at[c] = "free_minor" /\ at[c] \in Cleared /\ at[c] \notin Counted
  BY DEF RemoveEnds, Counted, Cleared, Failing
<1>i. PICK i \in Idevs : i = idev[c]
  BY <1>c, CardHasDevice
<1>s. /\ at' = [at EXCEPT ![c] = "unbound"] /\ idev' = [idev EXCEPT ![c] = NULL]
      /\ res' = [res EXCEPT ![c] = @ \ Resources]
      /\ uio_idr' = [m \in Minors |-> IF uio_idr[m] = i THEN NULL ELSE uio_idr[m]]
      /\ UNCHANGED <<info, refs, kobj, attrs, irq, owner, module_refs, pc, fdev, failed,
                     undefined>>
  <2>1. Resources = {"regions", "enabled", "info", "ivshmem_info"}
    BY DEF Resources
  <2> QED BY <1>i, <2>1 DEF RemoveEnds, Unnumbered
<1>t. /\ at \in [Cards -> {"unbound", "register", "initialize", "free_minor"} \cup Counted]
      /\ idev \in [Cards -> Idevs \cup {NULL}] /\ res \in [Cards -> SUBSET Resources]
      /\ info \in [Idevs -> Cards \cup {NULL}]
      /\ uio_idr \in [Minors -> Idevs \cup {NULL}]
  BY DEF TypeOK
<1>o. \A d \in Cards : d # c => at'[d] = at[d] /\ idev'[d] = idev[d] /\ idev[d] # i
  BY SMT, <1>i, <1>s, <1>t, UioAssumption DEF CardInv
<1>n. info[i] = NULL
  BY <1>c, <1>i DEF CardInv
<1>1. TypeOK'
  BY <1>s, <1>t DEF TypeOK
<1>2. CardInv'
  <2>1. ASSUME NEW d \in Cards
        PROVE  /\ (idev'[d] = NULL) <=> (at'[d] \in {"unbound", "register"})
               /\ at'[d] = "unbound" => res'[d] = {}
               /\ at'[d] = "initialize" => kobj'[idev'[d]] = "raw"
               /\ at'[d] = "free_minor" => kobj'[idev'[d]] \in {"live", "freed"}
               /\ at'[d] \in Linked => info'[idev'[d]] = d
               /\ at'[d] \in Cleared => info'[idev'[d]] = NULL
               /\ at'[d] = "err_put" => \A m \in Minors : uio_idr'[m] # idev'[d]
    <3>1. CASE d = c
      <4>1. res'[c] = {} /\ at'[c] = "unbound" /\ idev'[c] = NULL
        BY ZenonT(60), <1>s, <1>t
      <4> QED BY <3>1, <4>1 DEF Linked, Cleared, Failing
    <3>2. CASE d # c
      <4>1. at'[d] = at[d] /\ idev'[d] = idev[d] /\ res'[d] = res[d]
        BY <1>o, <1>s, <1>t, <3>2
      <4>2. at[d] = "err_put" => \A m \in Minors : uio_idr'[m] # idev[d]
        <5>1. at[d] = "err_put" => idev[d] # NULL /\ \A m \in Minors : uio_idr[m] # idev[d]
          BY DEF CardInv
        <5> QED BY <1>s, <5>1
      <4> QED BY SMT, <1>s, <4>1, <4>2 DEF CardInv
    <3> QED BY <3>1, <3>2
  <2>2. \A d, e \in Cards : (idev'[d] = idev'[e] /\ idev'[d] # NULL) => d = e
    BY SMT, <1>s, <1>t, <1>o DEF CardInv
  <2> QED BY <2>1, <2>2 DEF CardInv
<1>3. RefInv'
  <2>1. ASSUME NEW j \in Idevs PROVE Registered(j)' <=> Registered(j)
    <3>1. at'[c] \notin Counted
      BY ZenonT(60), <1>s, <1>t DEF Counted, Failing
    <3> QED BY <1>c, <1>o, <3>1 DEF Registered
  <2>2. ASSUME NEW j \in Idevs, kobj'[j] = "raw"
        PROVE  \E d \in Cards : idev'[d] = j /\ at'[d] = "initialize"
    BY SMT, <1>c, <1>s, <1>o, <2>2 DEF RefInv
  <2> QED BY SMT, <1>s, <2>1, <2>2, SameHolders DEF RefInv, Holds, HoldsModule
<1>4. LinkInv'
  <2>1. ASSUME NEW j \in Idevs
        PROVE  /\ kobj'[j] = "none" => info'[j] = NULL
               /\ info'[j] # NULL => (idev'[info'[j]] = j \/ j \in failed')
               /\ irq'[j] => \E d \in Cards : idev'[d] = j /\ at'[d] \in {"bound", "unregister"}
               /\ attrs'[j] # {} => \E d \in Cards : /\ idev'[d] = j /\ at'[d] \in {"irq", "bound"}
                                                     /\ attrs'[j] \subseteq AllKobjects(d)
    <3>1. CASE j = i
      <4>1. ~irq[i] /\ attrs[i] = {}
        BY SMTT(60), <1>c, <1>i, UioAssumption DEF LinkInv, CardInv
      <4> QED BY ZenonT(60), <1>s, <1>n, <3>1, <4>1
    <3>2. CASE j # i
      <4>1. \A d \in Cards : idev[d] = j => idev'[d] = j /\ at'[d] = at[d]
        BY <1>i, <1>o, <3>2
      <4> QED BY SMTT(60), <1>s, <1>t, <3>2, <4>1 DEF LinkInv
    <3> QED BY <3>1, <3>2
  <2>2. ASSUME NEW m \in Minors, uio_idr'[m] # NULL
        PROVE  \E d \in Cards : idev'[d] = uio_idr'[m]
    <3>1. uio_idr'[m] = uio_idr[m] /\ uio_idr[m] # i
      BY <1>s, <2>2
    <3> QED BY SMT, <1>i, <1>o, <2>2, <3>1 DEF LinkInv
  <2> QED BY <2>1, <2>2 DEF LinkInv
<1>5. AccessesDefined'
  BY <1>s DEF AccessesDefined
<1> QED BY <1>1, <1>2, <1>3, <1>4, <1>5, InvWhole

\* Every step of probe and remove preserves IInv.
LEMMA CardKeeps ==
    ASSUME IInv, NEW c \in Cards,
           ivshmem_pci_probe(c) \/ Probe(c) \/ ivshmem_pci_remove(c) \/ Remove(c)
    PROVE  IInv'
<1> TypeOK /\ CardInv /\ RefInv /\ LinkInv /\ AccessesDefined
  BY InvParts
<1> USE DEF devVars, refVars, linkVars, sysfsVars, irqVars, modVars, procVars, memVars
<1>t. /\ at \in [Cards -> {"unbound", "register", "initialize", "free_minor"} \cup Counted]
      /\ idev \in [Cards -> Idevs \cup {NULL}] /\ res \in [Cards -> SUBSET Resources]
  BY DEF TypeOK
<1>n. at[c] \in {"unbound", "register"} /\ idev' = idev => idev' = [idev EXCEPT ![c] = NULL]
  BY SMT, <1>t DEF CardInv
<1>1. CASE ivshmem_pci_probe(c)
  <2>1. CASE at' = [at EXCEPT ![c] = "register"] /\ res' = [res EXCEPT ![c] = Resources]
    BY <1>1, <1>t, <1>n, <2>1, UnregisteredKeeps DEF ivshmem_pci_probe
  <2>2. CASE UNCHANGED at /\ \E step \in ProbeSteps :
                res' = [res EXCEPT ![c] = ProbeHolds(step) \ ProbeReleases(step)]
    <3>1. \A step \in ProbeSteps : ProbeHolds(step) \ ProbeReleases(step) = {}
      BY DEF ProbeSteps, ProbeHolds, ProbeReleases
    <3>2. res' = [res EXCEPT ![c] = {}] /\ at[c] = "unbound"
          /\ at' = [at EXCEPT ![c] = "unbound"]
      BY <1>1, <1>t, <2>2, <3>1 DEF ivshmem_pci_probe
    <3> QED BY <1>1, <1>t, <1>n, <3>2, UnregisteredKeeps DEF ivshmem_pci_probe
  <2> QED BY <1>1, <2>1, <2>2 DEF ivshmem_pci_probe
<1>2. CASE uio_get_minor(c)
  <2>1. CASE ProbeFails(c) /\ UNCHANGED <<kobj, info, uio_idr>>
    <3>1. /\ res' = [res EXCEPT ![c] = @ \ Resources] /\ at[c] = "register"
          /\ at' = [at EXCEPT ![c] = "unbound"] /\ idev' = [idev EXCEPT ![c] = NULL]
      BY <1>2, <2>1 DEF uio_get_minor, ProbeFails, ProbeReleases
    <3>2. res' \in [Cards -> SUBSET Resources] /\ res'[c] = {}
          /\ \A d \in Cards : d # c => res'[d] = res[d]
      BY <1>t, <3>1
    <3> QED BY <1>2, <2>1, <3>1, <3>2, UnregisteredKeeps DEF uio_get_minor
  <2>2. CASE ~(ProbeFails(c) /\ UNCHANGED <<kobj, info, uio_idr>>)
    BY <1>2, <2>2, AllocatedKeeps DEF uio_get_minor
  <2> QED BY <2>1, <2>2
<1>3. CASE device_add(c)
  BY <1>3, DeviceAddKeeps
<1>4. CASE \/ uio_dev_add_attributes(c) \/ request_irq(c) \/ err_uio_dev_add_attributes(c)
           \/ err_device_create(c) \/ ivshmem_pci_remove(c) \/ Disconnect(c) \/ WakeWaiters(c)
  BY <1>4, RegisteredKeeps
<1>5. CASE RegisterFails(c)
  BY <1>5, RegisterFailsKeeps
<1>6. CASE device_unregister(c)
  BY <1>6, DeviceUnregisterKeeps
<1>7. CASE RemoveEnds(c)
  BY <1>7, RemoveEndsKeeps
<1> QED BY <1>1, <1>2, <1>3, <1>4, <1>5, <1>6, <1>7 DEF Probe, Remove

-----------------------------------------------------------------------------
(* Interrupts and the modules.                                             *)

\* A module that no one holds may go.
LEMMA OwnerKeeps ==
    ASSUME IInv, (\E p \in Procs : HoldsModule(p)) => owner' = "live",
           UNCHANGED <<cardVars, refVars, linkVars, attrs, irq, module_refs, pc, fdev, memVars>>
    PROVE  IInv'
<1> TypeOK /\ CardInv /\ RefInv /\ LinkInv /\ AccessesDefined
  BY InvParts
<1> USE DEF cardVars, refVars, linkVars, memVars
<1>1. TypeOK'
  BY DEF TypeOK
<1>2. CardInv'
  BY ZenonT(60) DEF CardInv
<1>3. RefInv'
  BY SMT, SameHolders DEF RefInv, Registered, Holds, HoldsModule
<1>4. LinkInv'
  BY DEF LinkInv
<1>5. AccessesDefined'
  BY DEF AccessesDefined
<1> QED BY <1>1, <1>2, <1>3, <1>4, <1>5, InvWhole

\* Loading and unloading the modules, and interrupts, preserve IInv.
LEMMA SystemKeeps ==
    ASSUME IInv, undefined = "none",
           \/ uio_init \/ uio_exit \/ insmod \/ rmmod \/ Unloaded
           \/ \E i \in Idevs : uio_interrupt(i) \/ uio_event_notify(i)
    PROVE  IInv'
<1> TypeOK /\ CardInv /\ RefInv /\ LinkInv /\ AccessesDefined
  BY InvParts
<1> USE DEF cardVars, refVars, linkVars, sysfsVars, irqVars, devVars, modVars, procVars,
            memVars
<1>d. UNCHANGED undefined => AccessesDefined'
  BY DEF AccessesDefined
<1>1. CASE uio_init \/ uio_exit
  BY <1>1, <1>d, StillKeeps DEF uio_init, uio_exit
<1>2. CASE insmod
  BY <1>2, OwnerKeeps DEF insmod
<1>3. CASE rmmod
  <2>1. ModuleHolders = {}
    BY <1>3, HoldersFinite, FS_EmptySet DEF rmmod, RefInv
  <2>2. ~\E p \in Procs : HoldsModule(p)
    BY <2>1 DEF ModuleHolders
  <2> QED BY <1>3, <2>2, OwnerKeeps DEF rmmod
<1>4. CASE Unloaded
  <2>1. ~\E p \in Procs : HoldsModule(p)
    BY <1>4 DEF Unloaded, RefInv
  <2> QED BY <1>4, <2>1, OwnerKeeps DEF Unloaded
<1>5. CASE \E i \in Idevs : uio_interrupt(i)
  <2>1. PICK i \in Idevs : uio_interrupt(i)
    BY <1>5
  <2>2. PICK c \in Cards : idev[c] = i /\ at[c] \in {"bound", "unregister"}
    BY <2>1 DEF uio_interrupt, LinkInv
  <2>3. info[i] = c
    BY <2>2 DEF CardInv, Linked
  <2>4. AccessesDefined'
    BY <2>1, <2>3, UioAssumption, UsesInfoDefined DEF uio_interrupt
  <2> QED BY <2>1, <2>4, StillKeeps DEF uio_interrupt
<1>6. CASE \E i \in Idevs : uio_event_notify(i)
  BY <1>6, <1>d, StillKeeps DEF uio_event_notify
<1> QED BY <1>1, <1>2, <1>3, <1>4, <1>5, <1>6

-----------------------------------------------------------------------------
(* The theorems.                                                           *)

\* Nothing is bound, loaded or open at first.
LEMMA InitIInv == Init => IInv
<1> SUFFICES ASSUME Init PROVE IInv
  OBVIOUS
<1>1. irq \in [Idevs -> BOOLEAN] /\ \A i \in Idevs : ~irq[i]
  BY DEF Init
<1>2. TypeOK
  BY SMT, <1>1 DEF Init, TypeOK, Resources
<1>3. CardInv
  BY DEF Init, CardInv, Linked, Cleared, Failing
<1>h. \A p \in Procs : ~Holds(p) /\ ~HoldsModule(p)
  BY DEF Init, Holds, HoldsModule
<1>4. RefInv
  <2>1. ModuleHolders = {} /\ \A i : Holders(i) = {}
    BY <1>h DEF ModuleHolders, Holders
  <2>2. \A i \in Idevs : ~Registered(i)
    BY UioAssumption DEF Init, Registered
  <2>3. Cardinality({}) = 0
    BY ZenonT(60), FS_EmptySet
  <2>4. ASSUME NEW i \in Idevs
        PROVE  /\ refs[i] = Cardinality(Holders(i)) + (IF Registered(i) THEN 1 ELSE 0)
               /\ kobj[i] = "none" /\ refs[i] = 0
    <3>1. refs[i] = 0 /\ kobj[i] = "none" /\ ~Registered(i)
      BY <2>2 DEF Init
    <3>2. Cardinality(Holders(i)) = 0
      BY <2>1, <2>3
    <3> QED BY <3>1, <3>2, NoneHeld
  <2> QED BY SMT, <1>h, <2>1, <2>3, <2>4 DEF Init, RefInv
<1>5. LinkInv
  BY <1>1 DEF Init, LinkInv
<1> QED BY <1>2, <1>3, <1>4, <1>5 DEF Init, IInv, AccessesDefined

\* Every step of the driver, of the module loader and of a process preserves IInv.
LEMMA StepKeeps == IInv /\ [Next]_vars => IInv'
<1> SUFFICES ASSUME IInv, [Next]_vars PROVE IInv'
  OBVIOUS
<1> TypeOK /\ CardInv /\ RefInv /\ LinkInv /\ AccessesDefined
  BY InvParts
<1>1. CASE UNCHANGED vars
  <2>1. AccessesDefined'
    BY <1>1 DEF vars, memVars, AccessesDefined
  <2> QED BY <1>1, <2>1, StillKeeps
          DEF vars, cardVars, devVars, refVars, linkVars, sysfsVars, irqVars, modVars,
              procVars, memVars
<1>2. CASE Next
  BY <1>2, ProcessKeeps, CardKeeps, SystemKeeps DEF Next
<1> QED BY <1>1, <1>2

\* The reference counts of uio.c are exact and its pointers name what they should, in
\* every behaviour of the driver.
THEOREM DriverInvariant == Spec => []IInv
BY InitIInv, StepKeeps, PTL DEF Spec

\* From uio_open's references to the end of uio_release the structure stays and so does
\* the module, for every number of processes, cards and registrations.
THEOREM OpenFilesKeep == Spec => []OpenFileKeeps
<1>1. IInv => OpenFileKeeps
  BY InvParts, HeldIsLive DEF RefInv, OpenFileKeeps
<1> QED BY <1>1, DriverInvariant, PTL

\* Freed memory is reached through uio_open's window and after a failed registration
\* only: interrupts, sysfs, read, poll, mmap and release find idev->info cleared or valid.
THEOREM AccessesAreDefined == Spec => []AccessesDefined
<1>1. IInv => AccessesDefined
  BY InvParts
<1> QED BY <1>1, DriverInvariant, PTL

\* When every card is unbound and every file closed, whatever failed on the way, every
\* structure, minor, kobject, interrupt, resource and module reference has been given back.
THEOREM NothingIsLeaked == Spec => []NothingLeaks
<1>1. IInv => NothingLeaks
  <2> SUFFICES ASSUME IInv, \A c \in Cards : at[c] = "unbound",
                      \A p \in Procs : pc[p] = "closed"
               PROVE  /\ \A i \in Idevs : kobj[i] \in {"none", "freed"} /\ attrs[i] = {} /\ ~irq[i]
                      /\ \A m \in Minors : uio_idr[m] = NULL
                      /\ \A c \in Cards : res[c] = {}
                      /\ module_refs = 0
    BY DEF NothingLeaks
  <2> TypeOK /\ CardInv /\ RefInv /\ LinkInv /\ AccessesDefined
    BY InvParts
  <2>1. ModuleHolders = {} /\ \A i : Holders(i) = {}
    BY DEF ModuleHolders, Holders, HoldsModule, Holds
  <2>2. Cardinality({}) = 0
    BY FS_EmptySet
  <2>3. \A c \in Cards : idev[c] = NULL /\ res[c] = {}
    BY DEF CardInv
  <2>4. ASSUME NEW i \in Idevs
        PROVE  kobj[i] \in {"none", "freed"} /\ attrs[i] = {} /\ ~irq[i]
    <3>1. \A c \in Cards : idev[c] # i
      BY <2>3, UioAssumption
    <3>2. refs[i] = 0
      BY SMTT(60), <2>1, <2>2, <3>1 DEF RefInv, Registered
    <3>3. kobj[i] \in {"none", "freed"}
      BY SMT, <3>1, <3>2 DEF RefInv, TypeOK
    <3> QED BY <3>1, <3>3 DEF LinkInv
  <2>5. \A m \in Minors : uio_idr[m] = NULL
    BY <2>3 DEF LinkInv, TypeOK
  <2>6. module_refs = 0
    BY <2>1, <2>2 DEF RefInv
  <2> QED BY <2>3, <2>4, <2>5, <2>6
<1> QED BY <1>1, DriverInvariant, PTL

\* uio_mmap maps no byte past physical memory and no page past the kernel's, for every
\* size, offset and page size.
THEOREM MappingsInside == Spec => MappingInside
<1> DEFINE Inside2 == \A p \in Procs, pages \in 1..MaxPages :
         (uio_mmap(p, pages) /\ mapped'[p] = pages)
         => LET c == info[fdev[p]]
            IN  pages * PAGE_SIZE <= (IF Shape[c].logical THEN ActualPages(c) * PAGE_SIZE
                                      ELSE Shape[c].size)
<1>1. IInv => Inside2
  <2> SUFFICES ASSUME IInv, NEW p \in Procs, NEW pages \in 1..MaxPages, uio_mmap(p, pages)
               PROVE  LET c == info[fdev[p]]
                      IN  pages * PAGE_SIZE <= (IF Shape[c].logical THEN ActualPages(c) * PAGE_SIZE
                                                ELSE Shape[c].size)
    OBVIOUS
  <2> TypeOK /\ CardInv /\ RefInv /\ LinkInv /\ AccessesDefined
    BY ZenonT(60), InvParts
  <2>1. PICK c \in Cards : c = info[fdev[p]]
    BY SMT DEF uio_mmap, TypeOK, RefInv
  <2>2. MapFits(c, pages)
    BY <2>1 DEF uio_mmap
  <2>3. ActualPages(c) \in Int /\ PAGE_SIZE \in Nat /\ pages \in Int
    BY SMT, UioAssumption DEF ActualPages
  <2>4. \A a, b \in Int, n \in Nat : a <= b => a * n <= b * n
    BY SMT
  <2> QED BY <2>1, <2>2, <2>3, <2>4 DEF MapFits
<1>2. IInv /\ [Next]_vars => [Inside2]_vars
  BY <1>1
<1> QED BY <1>2, DriverInvariant, PTL DEF MappingInside, Spec

=============================================================================
