----------------------------- MODULE OpsService -----------------------------
(***************************************************************************)
(* What the channel promises to the operators of the extension: a backend  *)
(* connects to a region that no other backend is connected to, and every   *)
(* call it makes returns the answer to that very call. Locks, handshakes,  *)
(* the bitmap and the children of ops_server do not appear.                *)
(***************************************************************************)
CONSTANTS Backends, Regions, Ops, NoOp, NoRegion

VARIABLES
  region,   \* the region each backend is connected to, or NoRegion
  request,  \* the call each backend is making, or NoOp
  reply     \* the answer to that call, or NoOp

vars == <<region, request, reply>>

Init ==
  /\ region = [b \in Backends |-> NoRegion]
  /\ request = [b \in Backends |-> NoOp]
  /\ reply = [b \in Backends |-> NoOp]

Connect(b) ==
  /\ region[b] = NoRegion
  /\ \E r \in Regions :
       /\ \A c \in Backends : region[c] # r
       /\ region' = [region EXCEPT ![b] = r]
  /\ UNCHANGED <<request, reply>>

Invoke(b) ==
  /\ region[b] # NoRegion
  /\ request[b] = NoOp
  /\ \E op \in Ops : request' = [request EXCEPT ![b] = op]
  /\ UNCHANGED <<region, reply>>

Reply(b) ==
  /\ request[b] # NoOp
  /\ reply[b] = NoOp
  /\ reply' = [reply EXCEPT ![b] = request[b]]
  /\ UNCHANGED <<region, request>>

Return(b) ==
  /\ reply[b] # NoOp
  /\ request' = [request EXCEPT ![b] = NoOp]
  /\ reply' = [reply EXCEPT ![b] = NoOp]
  /\ UNCHANGED region

\* At any time: a backend may die in the middle of a call.
Disconnect(b) ==
  /\ region[b] # NoRegion
  /\ region' = [region EXCEPT ![b] = NoRegion]
  /\ request' = [request EXCEPT ![b] = NoOp]
  /\ reply' = [reply EXCEPT ![b] = NoOp]

Next ==
  \E b \in Backends :
    Connect(b) \/ Invoke(b) \/ Reply(b) \/ Return(b) \/ Disconnect(b)

Spec == Init /\ [][Next]_vars

=============================================================================
