------------------------------ MODULE Exchange ------------------------------
(***************************************************************************)
(* What a command promises its clients (command of pkg/server/server.go):  *)
(* each request gets one answer.  It is refused and reaches no run, or it  *)
(* is passed on over a connection of its own to one run; then the answer   *)
(* is what that run replied, if the reply was whole in time, and a failure *)
(* otherwise.                                                              *)
(***************************************************************************)
CONSTANTS
  Clients,
  Replies,        \* what a run may reply
  NoReply,
  Outcome         \* Outcome[r]: the status a reply is passed on with

VARIABLES
  life,           \* the instance: absent, stopped or running
  stage,          \* of client c: free, pending, connected, or cut from its run
  reply,          \* the whole reply to its request, or NoReply
  late,           \* its deadline is over
  told            \* how its latest request was answered

vars == <<life, stage, reply, late, told>>

Init ==
  /\ life = "absent"
  /\ stage = [c \in Clients |-> "free"]
  /\ reply = [c \in Clients |-> NoReply]
  /\ late = [c \in Clients |-> FALSE]
  /\ told = [c \in Clients |-> "none"]

Ask(c) ==
  /\ stage[c] = "free"
  /\ stage' = [stage EXCEPT ![c] = "pending"]
  /\ told' = [told EXCEPT ![c] = "none"]
  /\ UNCHANGED <<life, reply, late>>

\* A request whose body is no command is answered at once.
Reject(c) ==
  /\ stage[c] = "free"
  /\ told' = [told EXCEPT ![c] = "400"]
  /\ UNCHANGED <<life, stage, reply, late>>

\* The one answer of a request, which has none before.
Tell(c, status) ==
  /\ told[c] = "none"
  /\ told' = [told EXCEPT ![c] = status]
  /\ stage' = [stage EXCEPT ![c] = "free"]
  /\ reply' = [reply EXCEPT ![c] = NoReply]
  /\ late' = [late EXCEPT ![c] = FALSE]
  /\ UNCHANGED life

\* A 404 is true of the instance; a 412 may deny a run, see NoRunIsDenied of Repository.
Refuse(c) ==
  /\ stage[c] = "pending"
  /\ \/ life = "absent" /\ Tell(c, "404")
     \/ Tell(c, "412")

Connect(c) ==
  /\ stage[c] = "pending" /\ life = "running"
  /\ stage' = [stage EXCEPT ![c] = "connected"]
  /\ UNCHANGED <<life, reply, late, told>>

\* One reply, from the run the client is connected to.
Give(c) ==
  /\ stage[c] = "connected" /\ life = "running" /\ reply[c] = NoReply
  /\ \E r \in Replies : reply' = [reply EXCEPT ![c] = r]
  /\ UNCHANGED <<life, stage, late, told>>

Part(c) ==
  /\ stage[c] = "connected"
  /\ stage' = [stage EXCEPT ![c] = "cut"]
  /\ UNCHANGED <<life, reply, late, told>>

\* The reply is passed on once it has come to its end.
PassOn(c) ==
  /\ stage[c] = "cut" /\ reply[c] # NoReply
  /\ Tell(c, Outcome[reply[c]])

\* Nobody is told of a failure who has a reply in time.
Fail(c) ==
  /\ stage[c] # "free"
  /\ reply[c] = NoReply \/ late[c]
  /\ Tell(c, "500")

\* The deadlines of those who wait for a run pass.
Expire ==
  /\ \E some \in SUBSET {c \in Clients : stage[c] \in {"connected", "cut"}} :
       late' = [c \in Clients |-> late[c] \/ c \in some]
  /\ UNCHANGED <<life, stage, reply, told>>

LifeSteps ==
  /\ \/ life = "absent" /\ life' = "stopped"
     \/ life = "stopped" /\ life' \in {"absent", "running"}
  /\ UNCHANGED <<stage, reply, late, told>>

\* The end of a run parts it from all its clients at once.
RunEnds ==
  /\ life = "running" /\ life' = "stopped"
  /\ stage' = [c \in Clients |-> IF stage[c] = "connected" THEN "cut" ELSE stage[c]]
  /\ UNCHANGED <<reply, late, told>>

Next ==
  \/ \E c \in Clients : \/ Ask(c) \/ Reject(c) \/ Refuse(c) \/ Connect(c)
                        \/ Give(c) \/ Part(c) \/ PassOn(c) \/ Fail(c)
  \/ Expire \/ LifeSteps \/ RunEnds

Spec == Init /\ [][Next]_vars
=============================================================================
