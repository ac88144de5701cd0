---------------------------- MODULE MCOpsChannel ----------------------------
(***************************************************************************)
(* Instances of OpsChannel for TLC.                                        *)
(***************************************************************************)
EXTENDS OpsChannel, TLC

\* Backends and requests are interchangeable; regions are not, since the server
\* hands out the lowest free one.
Symmetry == Permutations(Backends) \union Permutations(Ops)

AllFaults == FaultKinds
NoFaults == {}
Reconnects == {"respawn"}
=============================================================================
