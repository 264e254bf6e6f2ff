------------------------------ MODULE Gather ------------------------------
(***************************************************************************)
(* What Collect of pkg/controller/prom.go promises the registry that calls *)
(* it: it lists the senders, lets each of them send for itself, and does   *)
(* not return before the last one is gone, as the registry then closes the *)
(* channel they send on.                                                   *)
(***************************************************************************)
CONSTANTS
  Senders,
  Items         \* what a sender may send

VARIABLES
  phase,        \* idle, listing, waiting or closed
  role,         \* role[s]: out, sending or gone
  taken         \* what was sent, each with its sender

vars == <<phase, role, taken>>

Init ==
  /\ phase = "idle"
  /\ role = [s \in Senders |-> "out"]
  /\ taken = {}

Open ==
  /\ phase = "idle" /\ phase' = "listing"
  /\ role' = [s \in Senders |-> "out"]
  /\ UNCHANGED taken

\* Nobody joins once the list is at its end, and nobody twice.
Join(s) ==
  /\ phase = "listing" /\ role[s] = "out"
  /\ role' = [role EXCEPT ![s] = "sending"]
  /\ UNCHANGED <<phase, taken>>

Give(s) ==
  /\ phase \in {"listing", "waiting"} /\ role[s] = "sending"
  /\ \E x \in Items : taken' = taken \cup {<<s, x>>}
  /\ UNCHANGED <<phase, role>>

Leave(s) ==
  /\ role[s] = "sending"
  /\ role' = [role EXCEPT ![s] = "gone"]
  /\ UNCHANGED <<phase, taken>>

Settle ==
  /\ phase = "listing" /\ phase' = "waiting"
  /\ UNCHANGED <<role, taken>>

\* The channel is closed when nobody is left to send on it.
Close ==
  /\ phase = "waiting" /\ phase' = "closed"
  /\ \A s \in Senders : role[s] # "sending"
  /\ UNCHANGED <<role, taken>>

Finish ==
  /\ phase = "closed" /\ phase' = "idle"
  /\ taken' = {}
  /\ UNCHANGED role

Next ==
  \/ Open \/ Settle \/ Close \/ Finish
  \/ \E s \in Senders : Join(s) \/ Give(s) \/ Leave(s)

Spec == Init /\ [][Next]_vars
=============================================================================
