---------------------------- MODULE MCRepository ----------------------------
(* Instances of Repository for TLC.                                        *)
EXTENDS Repository, TLC

\* A process id is never given to a second process.
MCPidOf == [p \in Runs \cup Foreign |-> p]

\* One id for them all, given again as soon as it is free.
MCReusedPid == [p \in Runs \cup Foreign |-> CHOOSE n \in Pids : TRUE]

MCSymmetry == Permutations(Handlers) \cup Permutations(Runs)

MCInstanceSymmetry == MCSymmetry \cup Permutations(Instances)
=============================================================================
