------------------------------ MODULE Lifecycle ------------------------------
(***************************************************************************)
(* What the controller promises of an instance, whatever happens inside:   *)
(* the interface Repository of pkg/controller/model.go and the answers of  *)
(* docs/swagger.yaml.  An instance is absent, stopped or running; only a   *)
(* stopped one is configured, started or deleted; at any moment at most    *)
(* one bngblaster serves it, so a start never finds another one running.   *)
(***************************************************************************)
CONSTANTS
  Instances,
  Configs,      \* what a configuration file may hold
  NoConfig      \* what it holds when there is no instance

VARIABLES phase, config

vars == <<phase, config>>

Init ==
  /\ phase = [i \in Instances |-> "absent"]
  /\ config = [i \in Instances |-> NoConfig]

Create(i) ==
  /\ phase[i] = "absent"
  /\ phase' = [phase EXCEPT ![i] = "stopped"]
  /\ UNCHANGED config

\* A create over an instance that is there, or a delete on its way.
Configure(i) ==
  /\ phase[i] = "stopped"
  /\ \E c \in Configs : config' = [config EXCEPT ![i] = c]
  /\ UNCHANGED phase

Start(i) ==
  /\ phase[i] = "stopped"
  /\ phase' = [phase EXCEPT ![i] = "running"]
  /\ UNCHANGED config

Delete(i) ==
  /\ phase[i] = "stopped"
  /\ config[i] = NoConfig
  /\ phase' = [phase EXCEPT ![i] = "absent"]
  /\ UNCHANGED config

\* A bngblaster ends, by itself, by a signal, or several of them at once with
\* the controller.
Finish(ended) ==
  /\ ended # {}
  /\ \A i \in ended : phase[i] = "running"
  /\ phase' = [i \in Instances |-> IF i \in ended THEN "stopped" ELSE phase[i]]
  /\ UNCHANGED config

Next ==
  \/ \E i \in Instances : Create(i) \/ Configure(i) \/ Start(i) \/ Delete(i)
  \/ \E ended \in SUBSET Instances : Finish(ended)

Spec == Init /\ [][Next]_vars
=============================================================================
