------------------------------ MODULE UioDevice ------------------------------
(***************************************************************************)
(* The kernel driver behind the shared memory: uio.c, which turns a device *)
(* into /dev/uioN, and uio-ivshmem.c, which registers the ivshmem card     *)
(* with it.  Backends and ops_server open the device and map its memory;   *)
(* meanwhile the card may be bound and unbound, the modules loaded and     *)
(* unloaded, and every registration may fail at any of its steps.          *)
(*                                                                         *)
(* A section under info_lock or minor_lock is one action, except that      *)
(* uio_unregister_device's section, which waits for others, is several.    *)
(***************************************************************************)
EXTENDS Integers, FiniteSets

CONSTANTS
    Procs,      \* processes, each with at most one open file
    Cards,      \* devices that are registered with uio
    Idevs,      \* the uio_device structures, one for each registration
    Minors,     \* 0..UIO_MAX_DEVICES - 1
    Shape,      \* [maps, ports, irq, logical, offset, size] of every card's uio_info
    PAGE_SIZE,
    MaxPages,   \* bound: pages a process asks for
    MaxEvents,  \* bound: interrupts of a registration
    NULL

\* Processes are finitely many; a map has an offset and a size, a page a size.
ASSUME UioAssumption ==
    /\ IsFiniteSet(Procs)
    /\ NULL \notin Cards /\ NULL \notin Idevs
    /\ Shape \in [Cards -> [maps : Nat, ports : Nat, irq : BOOLEAN, logical : BOOLEAN,
                            offset : Nat, size : Nat]]
    /\ PAGE_SIZE \in Nat \ {0}

VARIABLES
    at,          \* where probe and remove are with a card
    res,         \* what probe holds for a card: memory and PCI resources
    idev,        \* the uio_device of a card
    kobj,        \* of a uio_device: "none", "raw", "live", "freed"
    refs,        \* its reference count
    info,        \* the card whose uio_info it points to, or NULL
    locked,      \* uio_unregister_device is inside info_lock
    visible,     \* its attributes name and version are in sysfs
    attrs,       \* its kobjects below maps/ and portio/
    irq,         \* its interrupt is requested
    event,       \* interrupts counted
    waking,      \* an interrupt has been counted and not yet announced
    uio_idr,     \* minor -> uio_device
    owner,       \* the module uio-ivshmem: "gone", "live", "going"
    module_refs, \* its reference count
    uio,         \* what init_uio_class has set up
    pc,          \* where a process is
    fdev,        \* listener->dev, or what uio_open found
    event_count, \* listener->event_count
    task,        \* "running" or "interruptible"
    mapped,      \* pages a process has mapped
    failed,      \* history: the structures whose registration failed
    undefined    \* the first access to freed memory: "none" until there is one

cardVars == <<at, res, idev>>
refVars == <<kobj, refs>>
linkVars == <<info, uio_idr>>
sysfsVars == <<visible, attrs>>
irqVars == <<irq, event, waking>>
devVars == <<refVars, linkVars, sysfsVars, irqVars, locked>>
modVars == <<owner, module_refs, uio>>
procVars == <<pc, fdev, event_count, task, mapped>>
memVars == <<failed, undefined>>
vars == <<cardVars, devVars, modVars, procVars, memVars>>

Init ==
    /\ at = [c \in Cards |-> "unbound"] /\ res = [c \in Cards |-> {}]
    /\ idev = [c \in Cards |-> NULL]
    /\ kobj = [i \in Idevs |-> "none"] /\ refs = [i \in Idevs |-> 0]
    /\ info = [i \in Idevs |-> NULL]
    /\ locked = [i \in Idevs |-> FALSE] /\ visible = [i \in Idevs |-> FALSE]
    /\ attrs = [i \in Idevs |-> {}] /\ irq = [i \in Idevs |-> FALSE]
    /\ event = [i \in Idevs |-> 0] /\ waking = [i \in Idevs |-> FALSE]
    /\ uio_idr = [m \in Minors |-> NULL]
    /\ owner = "gone" /\ module_refs = 0 /\ uio = {}
    /\ pc = [p \in Procs |-> "closed"] /\ fdev = [p \in Procs |-> NULL]
    /\ event_count = [p \in Procs |-> 0] /\ task = [p \in Procs |-> "running"]
    /\ mapped = [p \in Procs |-> 0]
    /\ failed = {} /\ undefined = "none"

-----------------------------------------------------------------------------
(* The module uio.                                                         *)

Major == {"region", "cdev"}
uio_class_registered == "class" \in uio

\* What a failure of init_uio_class leaves: each label gives back what had been
\* set up before the step that failed.
InitLeaves(step) ==
    CASE step = "alloc_chrdev_region" -> {}
      [] step = "cdev_alloc" -> (Major \ {"cdev"}) \ {"region"}
      [] step = "cdev_add" -> Major \ {"cdev", "region"}
      [] step = "class_register" -> Major \ {"region", "cdev"}

InitSteps == {"alloc_chrdev_region", "cdev_alloc", "cdev_add", "class_register"}

uio_init ==
    /\ uio = {}
    /\ \/ uio' = Major \cup {"class"}
       \/ \E step \in InitSteps : uio' = InitLeaves(step)
    /\ UNCHANGED <<cardVars, devVars, owner, module_refs, procVars, memVars>>

\* No module that uses uio is loaded and no file is open (the character device
\* holds uio while one is).
uio_exit ==
    /\ uio_class_registered /\ owner = "gone" /\ \A p \in Procs : pc[p] = "closed"
    /\ uio' = uio \ ({"class"} \cup Major)
    /\ UNCHANGED <<cardVars, devVars, owner, module_refs, procVars, memVars>>

\* External: the module loader.  A module is unloaded when no one holds it; its
\* exit routine then unbinds every card.
insmod ==
    /\ uio_class_registered /\ owner = "gone"
    /\ owner' = "live"
    /\ UNCHANGED <<cardVars, devVars, module_refs, uio, procVars, memVars>>

rmmod ==
    /\ owner = "live" /\ module_refs = 0
    /\ owner' = "going"
    /\ UNCHANGED <<cardVars, devVars, module_refs, uio, procVars, memVars>>

Unloaded ==
    /\ owner = "going" /\ \A c \in Cards : at[c] = "unbound"
    /\ owner' = "gone"
    /\ UNCHANGED <<cardVars, devVars, module_refs, uio, procVars, memVars>>

-----------------------------------------------------------------------------
(* References.                                                             *)

\* put_device: the last reference frees the structure (uio_device_release).
Put(i) ==
    /\ refs' = [refs EXCEPT ![i] = @ - 1]
    /\ kobj' = [kobj EXCEPT ![i] = IF refs[i] = 1 THEN "freed" ELSE @]

\* idev->info points to memory that probe or remove has freed.
Dangling(i) == info[i] # NULL /\ idev[info[i]] # i

\* A step that follows idev->info.
UsesInfo(i) ==
    IF ~Dangling(i) THEN UNCHANGED undefined
    ELSE undefined' = IF i \in failed THEN "failed registration" ELSE "info"

-----------------------------------------------------------------------------
(* Binding a card: ivshmem_pci_probe and __uio_register_device.            *)

Resources == {"info", "ivshmem_info", "enabled", "regions"}
ProbeSteps == {"kzalloc info", "kzalloc ivshmem_info", "pci_enable_device",
               "pci_request_regions", "pci_resource_start"}

\* What probe holds when a step fails, and what it then gives back.
ProbeHolds(step) ==
    CASE step = "kzalloc info" -> {}
      [] step = "kzalloc ivshmem_info" -> {"info"}
      [] step = "pci_enable_device" -> {"info", "ivshmem_info"}
      [] step = "pci_request_regions" -> {"info", "ivshmem_info", "enabled"}
      [] OTHER -> Resources

ProbeReleases(step) ==
    CASE step = "kzalloc info" -> {}
      [] step = "kzalloc ivshmem_info" -> {"info"}
      [] step = "pci_enable_device" -> {"info", "ivshmem_info"}
      [] step = "pci_request_regions" -> {"info", "ivshmem_info", "enabled"}
      [] OTHER -> Resources

\* Probe up to the call of uio_register_device, or to one of its own failures.
ivshmem_pci_probe(c) ==
    /\ owner = "live" /\ at[c] = "unbound"
    /\ \/ at' = [at EXCEPT ![c] = "register"] /\ res' = [res EXCEPT ![c] = Resources]
       \/ \E step \in ProbeSteps :
            res' = [res EXCEPT ![c] = ProbeHolds(step) \ ProbeReleases(step)] /\ UNCHANGED at
    /\ UNCHANGED <<idev, devVars, modVars, procVars, memVars>>

\* uio_register_device has failed: out_unmap gives everything back.
ProbeFails(c) ==
    /\ at' = [at EXCEPT ![c] = "unbound"]
    /\ res' = [res EXCEPT ![c] = @ \ ProbeReleases("register")]
    /\ idev' = [idev EXCEPT ![c] = NULL]

\* idr_alloc: the lowest minor that is free.
FreeMinors == {m \in Minors : uio_idr[m] = NULL}
Lowest == CHOOSE m \in FreeMinors : \A n \in FreeMinors : m <= n

\* The structure is allocated, filled in and found through its minor from now on.
uio_get_minor(c) ==
    /\ at[c] = "register"
    /\ \/ /\ FreeMinors # {}
          /\ \E i \in Idevs :
               /\ kobj[i] = "none"
               /\ kobj' = [kobj EXCEPT ![i] = "raw"]
               /\ info' = [info EXCEPT ![i] = c]
               /\ idev' = [idev EXCEPT ![c] = i]
               /\ uio_idr' = [uio_idr EXCEPT ![Lowest] = i]
          /\ at' = [at EXCEPT ![c] = "initialize"]
          /\ UNCHANGED res
       \/ ProbeFails(c) /\ UNCHANGED <<kobj, info, uio_idr>>
    /\ UNCHANGED <<refs, locked, sysfsVars, irqVars, modVars, procVars, memVars>>

\* device_initialize, then device_add, which may fail (as may dev_set_name).
device_add(c) ==
    LET i == idev[c]
    IN  /\ at[c] = "initialize"
        /\ kobj' = [kobj EXCEPT ![i] = "live"]
        /\ refs' = [refs EXCEPT ![i] = 1]
        /\ \/ /\ at' = [at EXCEPT ![c] = "attributes"]
              /\ visible' = [visible EXCEPT ![i] = TRUE]
           \/ at' = [at EXCEPT ![c] = "err_device_create"] /\ UNCHANGED visible
        /\ UNCHANGED <<res, idev, linkVars, locked, attrs, irqVars, modVars, procVars,
                       memVars>>

\* The kobjects of the memory maps or of the ports: one directory (-1) and one
\* for each, if there are any.
Kobjects(kind, n) == IF n = 0 THEN {} ELSE {kind} \X (-1..n - 1)
AllKobjects(c) == Kobjects("map", Shape[c].maps) \cup Kobjects("port", Shape[c].ports)

\* Where uio_dev_add_attributes may fail: the directory, the allocation of entry
\* k or its kobject_add (or uevent).
Failures(c) ==
    [kind : {"map"}, k : 0..Shape[c].maps - 1, step : {"alloc", "add"}]
      \cup [kind : {"port"}, k : 0..Shape[c].ports - 1, step : {"alloc", "add"}]
      \cup [kind : {x \in {"map", "port"} : Kobjects(x, IF x = "map" THEN Shape[c].maps
                                                       ELSE Shape[c].ports) # {}},
            k : {-1}, step : {"alloc"}]

\* What exists at a failure: the directory and the entries before, and the entry
\* itself when it was kobject_add that failed.
Made(c, f) ==
    (IF f.kind = "port" THEN Kobjects("map", Shape[c].maps) ELSE {})
      \cup ({f.kind} \X (-1..(IF f.step = "add" THEN f.k ELSE f.k - 1)))

\* Plausible bug: a failed kobject_add jumps to err_map, which skips the entry.
Unwound_SkipsEntry(c, f) ==
    (IF f.kind = "port" THEN Kobjects("map", Shape[c].maps) ELSE {})
      \cup ({f.kind} \X (0..f.k - 1)) \cup {<<f.kind, -1>>}

\* What the labels put: err_portio and err_map start below the entry that failed,
\* err_portio_kobj and err_map_kobj at it, and the ports' labels run into err_map.
Unwound(c, f) ==
    (IF f.kind = "port" THEN Kobjects("map", Shape[c].maps) ELSE {})
      \cup ({f.kind} \X (0..(IF f.step = "add" THEN f.k ELSE f.k - 1))) \cup {<<f.kind, -1>>}

uio_dev_add_attributes(c) ==
    LET i == idev[c]
    IN  /\ at[c] = "attributes"
        /\ \/ /\ attrs' = [attrs EXCEPT ![i] = AllKobjects(c)]
              /\ at' = [at EXCEPT ![c] = "irq"]
           \/ /\ \E f \in Failures(c) :
                   attrs' = [attrs EXCEPT ![i] = Made(c, f) \ Unwound(c, f)]
              /\ at' = [at EXCEPT ![c] = "err_uio_dev_add_attributes"]
        /\ UNCHANGED <<res, idev, refVars, linkVars, locked, visible, irqVars, modVars,
                       procVars, memVars>>

\* uio_dev_del_attributes drops every kobject of the device.
DelAttributes(i) == attrs' = [attrs EXCEPT ![i] = @ \ AllKobjects(info[i])]

request_irq(c) ==
    LET i == idev[c]
    IN  /\ at[c] = "irq"
        /\ \/ /\ at' = [at EXCEPT ![c] = "bound"]
              /\ irq' = [irq EXCEPT ![i] = Shape[c].irq]
              /\ UNCHANGED attrs
           \/ /\ Shape[c].irq
              /\ at' = [at EXCEPT ![c] = "err_uio_dev_add_attributes"]
              /\ DelAttributes(i)
              /\ UNCHANGED irq
        /\ UNCHANGED <<res, idev, refVars, linkVars, locked, visible, event, waking,
                       modVars, procVars, memVars>>

\* The labels of __uio_register_device.  device_del waits for readers of the
\* attributes it removes.
Showing(i) == \E p \in Procs : pc[p] \in {"show", "show_done"} /\ fdev[p] = i

err_uio_dev_add_attributes(c) ==
    LET i == idev[c]
    IN  /\ at[c] = "err_uio_dev_add_attributes"
        /\ IF visible[i]
           THEN visible' = [visible EXCEPT ![i] = FALSE] /\ UNCHANGED at
           ELSE /\ ~Showing(i)
                /\ at' = [at EXCEPT ![c] = "err_device_create"]
                /\ UNCHANGED visible
        /\ UNCHANGED <<res, idev, refVars, linkVars, locked, attrs, irqVars, modVars,
                       procVars, memVars>>

Unnumbered(i) == uio_idr' = [m \in Minors |-> IF uio_idr[m] = i THEN NULL ELSE uio_idr[m]]

err_device_create(c) ==
    /\ at[c] = "err_device_create"
    /\ Unnumbered(idev[c])
    /\ at' = [at EXCEPT ![c] = "err_put"]
    /\ UNCHANGED <<res, idev, refVars, info, locked, sysfsVars, irqVars, modVars, procVars,
                   memVars>>

\* put_device and the rest of probe; nothing has cleared idev->info.
RegisterFails(c) ==
    /\ at[c] = "err_put"
    /\ Put(idev[c]) /\ ProbeFails(c)
    /\ failed' = failed \cup {idev[c]}
    /\ UNCHANGED <<linkVars, locked, sysfsVars, irqVars, modVars, procVars, undefined>>

-----------------------------------------------------------------------------
(* Unbinding a card: ivshmem_pci_remove and uio_unregister_device.         *)

ivshmem_pci_remove(c) ==
    LET i == idev[c]
    IN  /\ at[c] = "bound"
        /\ at' = [at EXCEPT ![c] = "unregister"]
        /\ locked' = [locked EXCEPT ![i] = TRUE]
        /\ DelAttributes(i)
        /\ UNCHANGED <<res, idev, refVars, linkVars, visible, irqVars, modVars, procVars,
                       memVars>>

\* Plausible bug: idev->info stays.
Disconnect_KeepsInfo(c) ==
    LET i == idev[c]
    IN  /\ at[c] = "unregister" /\ ~waking[i]
        /\ at' = [at EXCEPT ![c] = "wake"]
        /\ irq' = [irq EXCEPT ![i] = FALSE]
        /\ locked' = [locked EXCEPT ![i] = FALSE]
        /\ UNCHANGED <<res, idev, refVars, linkVars, sysfsVars, event, waking, modVars,
                       procVars, memVars>>

\* free_irq waits for a handler that runs; then info goes and the lock with it.
Disconnect(c) ==
    LET i == idev[c]
    IN  /\ at[c] = "unregister" /\ ~waking[i]
        /\ at' = [at EXCEPT ![c] = "wake"]
        /\ irq' = [irq EXCEPT ![i] = FALSE]
        /\ info' = [info EXCEPT ![i] = NULL]
        /\ locked' = [locked EXCEPT ![i] = FALSE]
        /\ UNCHANGED <<res, idev, refVars, sysfsVars, event, waking, uio_idr, modVars,
                       procVars, memVars>>

\* Processes on the wait queue of a device (add_wait_queue and poll_wait).
Queued(i) ==
    {p \in Procs : fdev[p] = i /\ pc[p] \in {"check", "set", "compare", "schedule",
                                             "poll_compare", "poll_wait", "poll_again"}}

\* Plausible bug: only one waiter is woken.
wake_up_One(i) ==
    task' = IF Queued(i) = {} THEN task
            ELSE [task EXCEPT ![CHOOSE p \in Queued(i) : TRUE] = "running"]

wake_up(i) == task' = [p \in Procs |-> IF p \in Queued(i) THEN "running" ELSE task[p]]

\* Plausible bug: uio_unregister_device wakes no one.
WakeWaiters_Not(c) ==
    /\ at[c] = "wake"
    /\ at' = [at EXCEPT ![c] = "device_del"]
    /\ UNCHANGED <<res, idev, devVars, modVars, procVars, memVars>>

WakeWaiters(c) ==
    /\ at[c] = "wake"
    /\ wake_up(idev[c])
    /\ at' = [at EXCEPT ![c] = "device_del"]
    /\ UNCHANGED <<res, idev, devVars, modVars, pc, fdev, event_count, mapped, memVars>>

device_unregister(c) ==
    LET i == idev[c]
    IN  /\ at[c] = "device_del"
        /\ IF visible[i]
           THEN /\ visible' = [visible EXCEPT ![i] = FALSE]
                /\ UNCHANGED <<at, refs, kobj>>
           ELSE /\ ~Showing(i) /\ Put(i)
                /\ at' = [at EXCEPT ![c] = "free_minor"]
                /\ UNCHANGED visible
        /\ UNCHANGED <<res, idev, linkVars, locked, attrs, irqVars, modVars, procVars,
                       memVars>>

\* uio_free_minor, then remove gives back what probe had taken.
RemoveEnds(c) ==
    /\ at[c] = "free_minor"
    /\ Unnumbered(idev[c])
    /\ at' = [at EXCEPT ![c] = "unbound"]
    /\ res' = [res EXCEPT ![c] = @ \ {"regions", "enabled", "info", "ivshmem_info"}]
    /\ idev' = [idev EXCEPT ![c] = NULL]
    /\ UNCHANGED <<refVars, info, locked, sysfsVars, irqVars, modVars, procVars, memVars>>

-----------------------------------------------------------------------------
(* Interrupts.                                                             *)

uio_interrupt(i) ==
    /\ irq[i] /\ ~waking[i] /\ event[i] < MaxEvents
    /\ event' = [event EXCEPT ![i] = @ + 1]
    /\ waking' = [waking EXCEPT ![i] = TRUE]
    /\ IF info[i] = NULL THEN undefined' = "interrupt" ELSE UsesInfo(i)
    /\ UNCHANGED <<cardVars, refVars, linkVars, locked, sysfsVars, irq, modVars, procVars,
                   failed>>

uio_event_notify(i) ==
    /\ waking[i]
    /\ waking' = [waking EXCEPT ![i] = FALSE]
    /\ wake_up(i)
    /\ UNCHANGED <<cardVars, refVars, linkVars, locked, sysfsVars, irq, event, modVars, pc,
                   fdev, event_count, mapped, memVars>>

-----------------------------------------------------------------------------
(* Opening and closing a file.                                             *)

OpenFind(p, m) ==
    /\ uio_class_registered /\ pc[p] = "closed" /\ uio_idr[m] # NULL
    /\ pc' = [pc EXCEPT ![p] = "found"]
    /\ fdev' = [fdev EXCEPT ![p] = uio_idr[m]]
    /\ UNCHANGED <<cardVars, devVars, modVars, event_count, task, mapped, memVars>>

\* Plausible bug: get_device is forgotten.
OpenGet_NoReference(p) ==
    /\ pc[p] = "found"
    /\ pc' = [pc EXCEPT ![p] = "get_module"]
    /\ UNCHANGED <<cardVars, devVars, modVars, fdev, event_count, task, mapped, memVars>>

\* minor_lock has been released: the structure that was found may be gone, or not
\* yet have a reference count.
OpenGet(p) ==
    LET i == fdev[p]
    IN  /\ pc[p] = "found"
        /\ IF kobj[i] = "live"
           THEN /\ refs' = [refs EXCEPT ![i] = @ + 1]
                /\ pc' = [pc EXCEPT ![p] = "get_module"]
                /\ UNCHANGED undefined
           ELSE undefined' = "open" /\ UNCHANGED <<refs, pc>>
        /\ UNCHANGED <<cardVars, kobj, linkVars, locked, sysfsVars, irqVars, modVars, fdev,
                       event_count, task, mapped, failed>>

Closed(p) ==
    /\ pc' = [pc EXCEPT ![p] = "closed"]
    /\ fdev' = [fdev EXCEPT ![p] = NULL]
    /\ event_count' = [event_count EXCEPT ![p] = 0]

\* try_module_get fails once the module is going; so may the allocation of the
\* listener, which gives the module back.
OpenModule(p) ==
    LET i == fdev[p]
    IN  /\ pc[p] = "get_module"
        /\ \/ /\ owner = "live"
              /\ module_refs' = module_refs + 1
              /\ event_count' = [event_count EXCEPT ![p] = event[i]]
              /\ pc' = [pc EXCEPT ![p] = "open_info"]
              /\ UNCHANGED <<refs, kobj, fdev>>
           \/ Put(i) /\ Closed(p) /\ UNCHANGED module_refs
        /\ UNCHANGED <<cardVars, linkVars, locked, sysfsVars, irqVars, owner, uio, task,
                       mapped, memVars>>

\* err_infoopen and the labels below it.
OpenFails(p) ==
    /\ module_refs' = module_refs - 1
    /\ Put(fdev[p]) /\ Closed(p)

\* The last step of uio_open: the device may have been unregistered meanwhile, and
\* the driver's own open may fail.
OpenInfo(p) ==
    LET i == fdev[p]
    IN  /\ pc[p] = "open_info" /\ ~locked[i]
        /\ \/ /\ info[i] # NULL
              /\ pc' = [pc EXCEPT ![p] = "open"]
              /\ UNCHANGED <<refVars, module_refs, fdev, event_count>>
           \/ OpenFails(p)
        /\ UsesInfo(i)
        /\ UNCHANGED <<cardVars, linkVars, locked, sysfsVars, irqVars, owner, uio, task,
                       mapped, failed>>

\* A mapping holds the file, so it is gone by now.
uio_release(p) ==
    LET i == fdev[p]
    IN  /\ pc[p] = "open" /\ mapped[p] = 0 /\ ~locked[i]
        /\ module_refs' = module_refs - 1
        /\ Put(i) /\ Closed(p)
        /\ UsesInfo(i)
        /\ UNCHANGED <<cardVars, linkVars, locked, sysfsVars, irqVars, owner, uio, task,
                       mapped, failed>>

-----------------------------------------------------------------------------
(* Reading, polling and the attributes in sysfs.                           *)

Steps(p, from, to) == pc[p] = from /\ pc' = [pc EXCEPT ![p] = to]
ProcStep == UNCHANGED <<cardVars, devVars, modVars, fdev, mapped, failed>>

\* uio_read: on the wait queue from here to ReadLeave.
ReadEnter(p) ==
    /\ Steps(p, "open", "check")
    /\ ProcStep /\ UNCHANGED <<event_count, task, undefined>>

NoInterrupts(i) == info[i] = NULL \/ ~Shape[info[i]].irq

ReadCheck(p) ==
    LET i == fdev[p]
    IN  /\ Steps(p, "check", IF NoInterrupts(i) THEN "leave" ELSE "set")
        /\ ~locked[i]
        /\ UsesInfo(i)
        /\ ProcStep /\ UNCHANGED <<event_count, task>>

ReadSet(p) ==
    /\ Steps(p, "set", "compare")
    /\ task' = [task EXCEPT ![p] = "interruptible"]
    /\ ProcStep /\ UNCHANGED <<event_count, undefined>>

\* A new count is copied to the user, which may fail; otherwise a file opened with
\* O_NONBLOCK or a pending signal ends the call, or the process sleeps.
ReadCompare(p) ==
    LET new == event[fdev[p]] # event_count[p]
    IN  /\ pc[p] = "compare"
        /\ \/ /\ new
              /\ Steps(p, "compare", "leave")
              /\ event_count' \in {event_count, [event_count EXCEPT ![p] = event[fdev[p]]]}
           \/ ~new /\ Steps(p, "compare", "leave") /\ UNCHANGED event_count
           \/ ~new /\ Steps(p, "compare", "schedule") /\ UNCHANGED event_count
        /\ ProcStep /\ UNCHANGED <<task, undefined>>

\* schedule returns when someone has made the process runnable, or a signal does.
ReadSchedule(p) ==
    /\ task[p] = "running"
    /\ Steps(p, "schedule", "check")
    /\ ProcStep /\ UNCHANGED <<event_count, task, undefined>>

Signal(p) ==
    /\ pc[p] \in {"schedule", "poll_wait"} /\ task[p] = "interruptible"
    /\ task' = [task EXCEPT ![p] = "running"]
    /\ ProcStep /\ UNCHANGED <<pc, event_count, undefined>>

ReadLeave(p) ==
    /\ Steps(p, "leave", "open")
    /\ task' = [task EXCEPT ![p] = "running"]
    /\ ProcStep /\ UNCHANGED <<event_count, undefined>>

\* uio_poll, in the loop of poll(2) (external): the first call puts the process on
\* the queue, and each wake-up since then has it called again.
PollEnter(p) ==
    /\ Steps(p, "open", "poll")
    /\ ProcStep /\ UNCHANGED <<event_count, task, undefined>>

uio_poll(p) ==
    LET i == fdev[p]
        next == IF pc[p] = "poll" THEN "poll_queue" ELSE "poll_compare"
    IN  /\ pc[p] \in {"poll", "poll_again"} /\ ~locked[i]
        /\ pc' = [pc EXCEPT ![p] = IF NoInterrupts(i) THEN "leave" ELSE next]
        /\ UsesInfo(i)
        /\ ProcStep /\ UNCHANGED <<event_count, task>>

poll_wait(p) ==
    /\ Steps(p, "poll_queue", "poll_compare")
    /\ task' = [task EXCEPT ![p] = "interruptible"]
    /\ ProcStep /\ UNCHANGED <<event_count, undefined>>

PollCompare(p) ==
    /\ pc[p] = "poll_compare"
    /\ pc' = [pc EXCEPT ![p] = IF event[fdev[p]] # event_count[p] THEN "leave" ELSE "poll_wait"]
    /\ ProcStep /\ UNCHANGED <<event_count, task, undefined>>

PollWoken(p) ==
    /\ task[p] = "running"
    /\ Steps(p, "poll_wait", "poll_again")
    /\ task' = [task EXCEPT ![p] = "interruptible"]
    /\ ProcStep /\ UNCHANGED <<event_count, undefined>>

\* Reading name or version: sysfs keeps the attribute while a reader is inside
\* (external), and the reader takes info_lock.
ShowEnter(p, i) ==
    /\ visible[i] /\ Steps(p, "closed", "show")
    /\ fdev' = [fdev EXCEPT ![p] = i]
    /\ UNCHANGED <<cardVars, devVars, modVars, event_count, task, mapped, memVars>>

name_show(p) ==
    LET i == fdev[p]
    IN  /\ Steps(p, "show", "show_done")
        /\ ~locked[i]
        /\ UsesInfo(i)
        /\ ProcStep /\ UNCHANGED <<event_count, task>>

ShowLeave(p) ==
    /\ pc[p] = "show_done" /\ Closed(p)
    /\ UNCHANGED <<cardVars, devVars, modVars, task, mapped, memVars>>

-----------------------------------------------------------------------------
(* Mapping the memory of the device: mem[0] is its only map that is used.  *)

ActualPages(c) == (Shape[c].offset + Shape[c].size + PAGE_SIZE - 1) \div PAGE_SIZE

\* uio_find_mem_index for the first map.
MapExists(c) == Shape[c].maps > 0

\* Plausible bug: the length of a physical mapping is not compared with the size.
MapFits_WholePages(c, pages) ==
    pages <= ActualPages(c) /\ (Shape[c].logical \/ Shape[c].offset = 0)

\* The test of uio_mmap counts whole pages; uio_mmap_physical also compares bytes.
MapFits(c, pages) ==
    /\ pages <= ActualPages(c)
    /\ Shape[c].logical \/ (Shape[c].offset = 0 /\ pages * PAGE_SIZE <= Shape[c].size)

uio_mmap(p, pages) ==
    LET i == fdev[p]
    IN  /\ pc[p] = "open" /\ mapped[p] = 0 /\ ~locked[i] /\ info[i] # NULL
        /\ UsesInfo(i)
        /\ MapExists(info[i]) /\ MapFits(info[i], pages)
        /\ mapped' = [mapped EXCEPT ![p] = pages]
        /\ UNCHANGED <<cardVars, devVars, modVars, pc, fdev, event_count, task, failed>>

munmap(p) ==
    /\ pc[p] = "open" /\ mapped[p] > 0
    /\ mapped' = [mapped EXCEPT ![p] = 0]
    /\ UNCHANGED <<cardVars, devVars, modVars, pc, fdev, event_count, task, memVars>>

\* The calls that read idev->info under the lock and change nothing: writing to the
\* file, and the fault on a page of a mapping.
OnlyUsesInfo(p) ==
    /\ ~locked[fdev[p]] /\ UsesInfo(fdev[p])
    /\ UNCHANGED <<cardVars, devVars, modVars, procVars, failed>>

uio_write(p) == pc[p] = "open" /\ OnlyUsesInfo(p)
uio_vma_fault(p) == pc[p] = "open" /\ mapped[p] > 0 /\ OnlyUsesInfo(p)

-----------------------------------------------------------------------------
Probe(c) ==
    \/ uio_get_minor(c) \/ device_add(c) \/ uio_dev_add_attributes(c) \/ request_irq(c)
    \/ err_uio_dev_add_attributes(c) \/ err_device_create(c) \/ RegisterFails(c)

Remove(c) == Disconnect(c) \/ WakeWaiters(c) \/ device_unregister(c) \/ RemoveEnds(c)

Open(p) == OpenGet(p) \/ OpenModule(p) \/ OpenInfo(p)

Read(p) == ReadCheck(p) \/ ReadSet(p) \/ ReadCompare(p) \/ ReadSchedule(p) \/ ReadLeave(p)

Poll(p) == uio_poll(p) \/ poll_wait(p) \/ PollCompare(p) \/ PollWoken(p)

Show(p) == name_show(p) \/ ShowLeave(p)

\* Nothing is said of what follows an access to freed memory.
Next ==
    /\ undefined = "none"
    /\ \/ uio_init \/ uio_exit \/ insmod \/ rmmod \/ Unloaded
       \/ \E c \in Cards :
            ivshmem_pci_probe(c) \/ Probe(c) \/ ivshmem_pci_remove(c) \/ Remove(c)
       \/ \E i \in Idevs : uio_interrupt(i) \/ uio_event_notify(i)
       \/ \E p \in Procs :
            \/ (\E m \in Minors : OpenFind(p, m)) \/ Open(p) \/ uio_release(p)
            \/ ReadEnter(p) \/ Read(p) \/ Signal(p)
            \/ PollEnter(p) \/ Poll(p)
            \/ (\E i \in Idevs : ShowEnter(p, i)) \/ Show(p)
            \/ (\E pages \in 1..MaxPages : uio_mmap(p, pages)) \/ munmap(p)
            \/ uio_write(p) \/ uio_vma_fault(p)

Spec == Init /\ [][Next]_vars

\* A process inside the kernel, a probe or remove that has begun and an interrupt
\* handler go on; nothing makes anyone begin an operation.
FairSpec ==
    /\ Spec
    /\ \A c \in Cards : WF_vars(undefined = "none" /\ (Probe(c) \/ Remove(c)))
    /\ \A i \in Idevs : WF_vars(undefined = "none" /\ uio_event_notify(i))
    /\ \A p \in Procs :
         WF_vars(undefined = "none" /\ (Open(p) \/ Read(p) \/ Poll(p) \/ Show(p)))

-----------------------------------------------------------------------------
(* Properties.                                                             *)

\* A process that has taken a reference to the device (uio_open, to the end of
\* uio_release).
Holds(p) == pc[p] \notin {"closed", "found", "show", "show_done"}
HoldsModule(p) == Holds(p) /\ pc[p] # "get_module"

\* An open file keeps what it needs: from uio_open's references to the end of
\* uio_release the structure is not freed and the module that drives the device
\* stays, whatever probe, remove, rmmod and the other files do.
OpenFileKeeps ==
    \A p \in Procs :
        /\ Holds(p) => kobj[fdev[p]] = "live"
        /\ HoldsModule(p) => owner = "live"

\* Only two windows lead to freed memory: uio_open between the lookup of the minor
\* and its reference, and a file opened while the registration fails.  Every other
\* step, interrupts and sysfs included, finds what it points to (idev->info is
\* cleared before remove frees the uio_info).
AccessesDefined == undefined \in {"none", "open", "failed registration"}

\* Whatever failed and in whatever order things were undone, nothing is left when
\* every card is unbound and every file closed: no structure, minor, kobject,
\* interrupt, PCI resource or module reference.
NothingLeaks ==
    ((\A c \in Cards : at[c] = "unbound") /\ (\A p \in Procs : pc[p] = "closed")
       /\ undefined = "none")
    => /\ \A i \in Idevs : kobj[i] \in {"none", "freed"} /\ attrs[i] = {} /\ ~irq[i]
       /\ \A m \in Minors : uio_idr[m] = NULL
       /\ \A c \in Cards : res[c] = {}
       /\ module_refs = 0

\* A mapping never reaches past the memory of the device: not by a byte for
\* physical memory, not by a page for the memory of the kernel.
MappingInside ==
    [][\A p \in Procs, pages \in 1..MaxPages :
         (uio_mmap(p, pages) /\ mapped'[p] = pages)
         => LET c == info[fdev[p]]
            IN  pages * PAGE_SIZE <= (IF Shape[c].logical THEN ActualPages(c) * PAGE_SIZE
                                      ELSE Shape[c].size)]_vars

-----------------------------------------------------------------------------
(* The inductive invariant behind OpenFileKeeps, NothingLeaks and          *)
(* AccessesDefined: who holds which reference, and whom every pointer names. *)

Failing == {"err_uio_dev_add_attributes", "err_device_create", "err_put"}

\* Where probe and remove hold the first reference, and where idev->info names the card.
Counted == {"attributes", "irq", "bound", "unregister", "wake", "device_del"} \cup Failing
Linked == {"initialize", "attributes", "irq", "bound", "unregister"} \cup Failing
Cleared == {"wake", "device_del", "free_minor"}

TypeOK ==
    /\ at \in [Cards -> {"unbound", "register", "initialize", "free_minor"} \cup Counted]
    /\ res \in [Cards -> SUBSET Resources]
    /\ idev \in [Cards -> Idevs \cup {NULL}]
    /\ kobj \in [Idevs -> {"none", "raw", "live", "freed"}]
    /\ refs \in [Idevs -> Int] /\ module_refs \in Int
    /\ info \in [Idevs -> Cards \cup {NULL}]
    /\ attrs \in [Idevs -> SUBSET ({"map", "port"} \X Int)]
    /\ irq \in [Idevs -> BOOLEAN]
    /\ uio_idr \in [Minors -> Idevs \cup {NULL}]
    /\ pc \in [Procs -> {"closed", "found", "get_module", "open_info", "open", "check",
                         "set", "compare", "schedule", "leave", "poll", "poll_queue",
                         "poll_compare", "poll_wait", "poll_again", "show", "show_done"}]
    /\ fdev \in [Procs -> Idevs \cup {NULL}]

\* A card that probe or remove works on has a structure of its own, alive while they
\* hold its first reference, and what it took is given back when it is unbound.
CardInv ==
    /\ \A c \in Cards :
         /\ (idev[c] = NULL) <=> (at[c] \in {"unbound", "register"})
         /\ at[c] = "unbound" => res[c] = {}
         /\ at[c] = "initialize" => kobj[idev[c]] = "raw"
         /\ at[c] = "free_minor" => kobj[idev[c]] \in {"live", "freed"}
         /\ at[c] \in Linked => info[idev[c]] = c
         /\ at[c] \in Cleared => info[idev[c]] = NULL
         /\ at[c] = "err_put" => \A m \in Minors : uio_idr[m] # idev[c]
    /\ \A c, d \in Cards : (idev[c] = idev[d] /\ idev[c] # NULL) => c = d

\* The reference counts are exact: one for a registration that holds its first
\* reference and one for each process.
Registered(i) == \E c \in Cards : idev[c] = i /\ at[c] \in Counted
Holders(i) == {p \in Procs : Holds(p) /\ fdev[p] = i}
ModuleHolders == {p \in Procs : HoldsModule(p)}

RefInv ==
    /\ \A i \in Idevs :
         /\ refs[i] = Cardinality(Holders(i)) + (IF Registered(i) THEN 1 ELSE 0)
         /\ kobj[i] = "live" <=> refs[i] > 0
         /\ kobj[i] = "raw" => \E c \in Cards : idev[c] = i /\ at[c] = "initialize"
    /\ module_refs = Cardinality(ModuleHolders)
    /\ \A p \in Procs :
         /\ Holds(p) => fdev[p] \in Idevs
         /\ pc[p] # "closed" => fdev[p] # NULL
         /\ HoldsModule(p) => owner = "live"

\* A pointer to a uio_info dangles only after a failed registration; an interrupt,
\* kobjects below sysfs and a minor belong to a card that is registered.
LinkInv ==
    /\ \A i \in Idevs :
         /\ kobj[i] = "none" => info[i] = NULL
         /\ info[i] # NULL => (idev[info[i]] = i \/ i \in failed)
         /\ irq[i] => \E c \in Cards : idev[c] = i /\ at[c] \in {"bound", "unregister"}
         /\ attrs[i] # {} => \E c \in Cards : /\ idev[c] = i /\ at[c] \in {"irq", "bound"}
                                              /\ attrs[i] \subseteq AllKobjects(c)
    /\ \A m \in Minors : uio_idr[m] # NULL => \E c \in Cards : idev[c] = uio_idr[m]

IInv == TypeOK /\ CardInv /\ RefInv /\ LinkInv /\ AccessesDefined

-----------------------------------------------------------------------------
(* Liveness.                                                               *)

Reading(p) == pc[p] \in {"check", "set", "compare", "schedule"}
Polling(p) == pc[p] \in {"poll", "poll_queue", "poll_compare", "poll_wait", "poll_again"}
Missed(p) == fdev[p] # NULL /\ event[fdev[p]] # event_count[p]

\* No event is lost between the comparison and the sleep of uio_read and poll(2): a
\* process that waits returns once an interrupt has been counted that it has not
\* read yet.
EventsDelivered ==
    \A p \in Procs :
        ((Reading(p) \/ Polling(p)) /\ Missed(p))
        ~> (~(Reading(p) \/ Polling(p)) \/ undefined # "none")

\* uio_unregister_device releases who waits for the device when it wakes the queue: a
\* process that poll(2) has put there, wherever it is, and a reader that is asleep.
\* (The wake-up does not reach a reader between its look at idev->info and its sleep,
\* nor a process in poll(2) between that look and the queue.)
UnregisterReleases ==
    \A p \in Procs, c \in Cards :
        (pc[p] \in {"schedule", "poll_compare", "poll_wait", "poll_again"}
           /\ at[c] = "wake" /\ idev[c] = fdev[p])
        ~> (~(Reading(p) \/ Polling(p)) \/ undefined # "none")

\* Unbinding a card ends: neither files that stay open nor readers of the
\* attributes, who take info_lock, can hold it up for ever.
RemoveCompletes ==
    \A c \in Cards : (at[c] \in {"unregister", "wake", "device_del", "free_minor"})
                     ~> (at[c] = "unbound" \/ undefined # "none")

\* An unregistration ends, for the one who unbinds the card and for those who wait
\* for the device (uio_unregister_device, ivshmem_pci_remove).
UnbindEnds == UnregisterReleases /\ RemoveCompletes
=============================================================================
