---------------------------- MODULE MCUioDevice ----------------------------
(* Devices for TLC: the ivshmem card, which has one memory map and no      *)
(* interrupt, and a device with an interrupt, two maps and a port.  Both   *)
(* have a size that is no multiple of the page size.                       *)
EXTENDS UioDevice, TLC

CONSTANTS ivshmem, other

MCShape ==
    [c \in Cards |->
        IF c = ivshmem
        THEN [maps |-> 1, ports |-> 0, irq |-> FALSE, logical |-> FALSE,
              offset |-> 0, size |-> 3]
        ELSE [maps |-> 2, ports |-> 1, irq |-> TRUE, logical |-> TRUE,
              offset |-> 1, size |-> 3]]

\* Processes are alike, and so are the structures that have not been allocated.
Alike == Permutations(Procs) \cup Permutations(Idevs)
=============================================================================
