--------------------------- MODULE DaemonizeProofs ---------------------------
(***************************************************************************)
(* The error and the status the process ends with, for any signals and any *)
(* number of them.                                                         *)
(***************************************************************************)
EXTENDS Daemonize, SequenceTheorems, TLAPS

\* How far the assignment of err has come, whoever looks at it.
Assigned ==
  /\ server \in {"serving", "assign"} => err = "nil"
  /\ server = "assign2" => err = "torn"
  /\ server \in {"send", "stop", "done"} => err = "set"

\* Completion is on its way, or received, only after the assignment.
Completed == server \in {"stop", "done"}

Ordered ==
  /\ \A k \in 1..Len(sigc) : sigc[k] = Normal => Completed
  /\ main \in {"return", "exit"} => sig \in Signals \cup {Normal}
  /\ main \in {"return", "exit"} /\ sig = Normal => Completed

IInv == TypeOK /\ Assigned /\ Ordered /\ NormalIsWhole /\ ZeroMeansAsked

LEMMA InitIInv == Init => IInv
<1> SUFFICES ASSUME Init PROVE IInv
  OBVIOUS
<1>1. TypeOK
  BY DaemonizeAssumption DEF Init, TypeOK, Capacity
<1>2. Assigned /\ Ordered
  BY DEF Init, Assigned, Ordered
<1>3. NormalIsWhole /\ ZeroMeansAsked
  BY DEF Init, NormalIsWhole, ZeroMeansAsked
<1> QED
  BY <1>1, <1>2, <1>3 DEF IInv

\* What is put on the channel keeps it short enough and in order.
LEMMA SendStep ==
  ASSUME IInv, Running, NEW v \in Signals \cup {Normal}, CanSend, v = Normal => Completed'
  PROVE  /\ Append(sigc, v) \in Seq(Signals \cup {Normal})
         /\ Len(Append(sigc, v)) <= Capacity
         /\ \A k \in 1..Len(Append(sigc, v)) :
              Append(sigc, v)[k] = Normal => Completed \/ Completed'
  BY DEF IInv, TypeOK, Ordered, CanSend, Capacity

LEMMA StepIInv == IInv /\ [Next]_vars => IInv'
<1> SUFFICES ASSUME IInv, [Next]_vars PROVE IInv'
  OBVIOUS
<1>0. TypeOK /\ Assigned /\ Ordered /\ NormalIsWhole /\ ZeroMeansAsked
  BY DEF IInv
<1> USE <1>0 DEF Running
<1>1. CASE UNCHANGED vars
  BY <1>1 DEF vars, IInv, TypeOK, Assigned, Ordered, Completed, NormalIsWhole, ZeroMeansAsked
<1>2. ASSUME NEW s \in Signals, OSSignal(s) PROVE IInv'
  <2>1. CASE notified /\ CanSend
    <3>1. sigc' = Append(sigc, s) /\ UNCHANGED <<main, server, notified, err, sig, ret, exit>>
      BY <1>2, <2>1 DEF OSSignal
    <3>2. /\ sigc' \in Seq(Signals \cup {Normal}) /\ Len(sigc') <= Capacity
          /\ \A k \in 1..Len(sigc') : sigc'[k] = Normal => Completed'
      BY <1>2, <2>1, <3>1, SendStep, DaemonizeAssumption DEF OSSignal, Completed
    <3>3. sent' \in 0..MaxSignals
      BY <1>2, DaemonizeAssumption DEF OSSignal, TypeOK
    <3> QED
      BY <3>1, <3>2, <3>3 DEF IInv, TypeOK, Assigned, Ordered, Completed, NormalIsWhole, ZeroMeansAsked
  <2>2. CASE ~(notified /\ CanSend)
    <3>1. /\ UNCHANGED <<main, server, sigc, notified, err, sig, ret>>
          /\ exit' \in {exit, "killed"}
      BY <1>2, <2>2 DEF OSSignal
    <3>2. sent' \in 0..MaxSignals
      BY <1>2, DaemonizeAssumption DEF OSSignal, TypeOK
    <3> QED
      BY <3>1, <3>2 DEF IInv, TypeOK, Assigned, Ordered, Completed, NormalIsWhole, ZeroMeansAsked
  <2> QED
    BY <2>1, <2>2
<1>3. CASE ServeReturns \/ AssignErr
  BY <1>3 DEF ServeReturns, AssignErr, IInv, TypeOK, Assigned, Ordered, Completed, NormalIsWhole, ZeroMeansAsked
<1>4. CASE SendNormal
  <2>1. /\ sigc' = Append(sigc, Normal) /\ server' = "stop" /\ server = "send" /\ CanSend
        /\ UNCHANGED <<main, notified, err, sig, ret, sent, exit>>
    BY <1>4 DEF SendNormal
  <2>2. /\ sigc' \in Seq(Signals \cup {Normal}) /\ Len(sigc') <= Capacity
        /\ \A k \in 1..Len(sigc') : sigc'[k] = Normal => Completed'
    BY <1>4, <2>1, SendStep DEF SendNormal, Completed
  <2> QED
    BY <2>1, <2>2 DEF IInv, TypeOK, Assigned, Ordered, Completed, NormalIsWhole, ZeroMeansAsked
<1>5. CASE StopNotify \/ Wait
  BY <1>5 DEF StopNotify, Wait, IInv, TypeOK, Assigned, Ordered, Completed, NormalIsWhole, ZeroMeansAsked
<1>6. CASE Receive
  <2>1. /\ main' = "return" /\ sig' = Head(sigc) /\ sigc' = Tail(sigc) /\ sigc # <<>>
        /\ UNCHANGED <<server, notified, err, ret, sent, exit>> /\ exit = "running"
    BY <1>6 DEF Receive
  <2>2. sigc \in Seq(Signals \cup {Normal}) /\ Len(sigc) <= 1
    BY DEF TypeOK, Capacity
  <2> HIDE <1>0
  <2>3. Len(sigc) \in Nat \ {0}
    BY <2>1, <2>2, EmptySeq
  <2>4. Len(sigc) = 1
    <3> DEFINE n == Len(sigc)
    <3> HIDE DEF n
    <3>1. n \in Nat \ {0} /\ n <= 1
      BY <2>2, <2>3 DEF n
    <3>2. n = 1
      BY <3>1
    <3> QED
      BY <3>2 DEF n
  <2>5. Head(sigc) = sigc[1] /\ sigc[1] \in Signals \cup {Normal} /\ (sigc[1] = Normal => Completed)
    BY <1>0, <2>2, <2>4 DEF Ordered
  <2>6. Tail(sigc) \in Seq(Signals \cup {Normal}) /\ Len(Tail(sigc)) = 0
    BY <2>1, <2>2, <2>4
  <2>7. TypeOK'
    BY <1>0, <2>1, <2>5, <2>6 DEF TypeOK, Capacity
  <2>8. Assigned' /\ Ordered'
    BY <1>0, <2>1, <2>5, <2>6 DEF Assigned, Ordered, Completed
  <2>9. NormalIsWhole' /\ ZeroMeansAsked'
    BY <1>0, <2>1 DEF NormalIsWhole, ZeroMeansAsked
  <2> QED
    BY <2>7, <2>8, <2>9 DEF IInv
<1>7. CASE ReturnErr
  BY <1>7 DEF ReturnErr, IInv, TypeOK, Assigned, Ordered, Completed, NormalIsWhole, ZeroMeansAsked
<1>8. CASE Exit
  <2>1. ret = "nil" => sig \in Signals
    BY <1>8 DEF Exit, Ordered, NormalIsWhole
  <2> QED
    BY <1>8, <2>1 DEF Exit, IInv, TypeOK, Assigned, Ordered, Completed, NormalIsWhole, ZeroMeansAsked
<1> QED
  BY <1>1, <1>2, <1>3, <1>4, <1>5, <1>6, <1>7, <1>8 DEF Next, Main, Server

\* The inductive invariant holds in every reachable state.
THEOREM Invariance == Spec => []IInv
  BY InitIInv, StepIInv, PTL DEF Spec

\* The types hold; the channel never holds more than one value.
THEOREM TypeCorrect == Spec => []TypeOK
<1>1. IInv => TypeOK
  BY DEF IInv
<1> QED
  BY <1>1, Invariance, PTL

\* Told that the server is done, main returns the server's error, whole.
THEOREM NormalReturnsWholeError == Spec => []NormalIsWhole
<1>1. IInv => NormalIsWhole
  BY DEF IInv
<1> QED
  BY <1>1, Invariance, PTL

\* Status zero is the answer to a signal, never to a server that failed.
THEOREM ZeroOnlyIfAsked == Spec => []ZeroMeansAsked
<1>1. IInv => ZeroMeansAsked
  BY DEF IInv
<1> QED
  BY <1>1, Invariance, PTL

\* Signals are delivered until the server is done.
Heard == SomethingWaits /\ (notified \/ server = "done")

LEMMA StepHeard == IInv /\ Heard /\ [Next]_vars => Heard'
<1> SUFFICES ASSUME IInv, Heard, [Next]_vars PROVE Heard'
  OBVIOUS
<1>0. /\ main \in {"start", "receive", "return", "exit"} /\ sent \in Nat
      /\ sigc \in Seq(Signals \cup {Normal})
  BY DaemonizeAssumption DEF IInv, TypeOK
<1> USE DEF Running, SomethingWaits, Heard
<1>1. CASE UNCHANGED vars
  BY <1>1 DEF vars
<1>2. ASSUME NEW s \in Signals, OSSignal(s)
      PROVE  Heard'
  <2>1. UNCHANGED <<main, server, notified>>
    BY <1>2 DEF OSSignal
  <2>2. CASE notified /\ CanSend
    <3>1. sigc' = Append(sigc, s)
      BY <1>2, <2>2 DEF OSSignal
    <3>2. sigc' # <<>>
      BY <1>0, <3>1
    <3> QED
      BY <2>1, <2>2, <3>2
  <2>3. CASE notified /\ ~CanSend
    <3>1. sigc' = sigc
      BY <1>2, <2>3 DEF OSSignal
    <3>2. sigc # <<>>
      BY <2>3 DEF CanSend, Capacity
    <3> QED
      BY <2>1, <2>3, <3>1, <3>2
  <2>4. CASE ~notified
    <3>1. exit' = "killed"
      BY <1>2, <2>4 DEF OSSignal
    <3> QED
      BY <2>1, <3>1
  <2> QED
    BY <2>2, <2>3, <2>4
<1>3. CASE SendNormal
  <2>1. sigc' = Append(sigc, Normal) /\ UNCHANGED notified /\ server = "send"
    BY <1>3 DEF SendNormal
  <2>2. sigc' # <<>>
    BY <1>0, <2>1
  <2> QED
    BY <2>1, <2>2
<1>4. CASE ServeReturns \/ AssignErr \/ StopNotify
  BY <1>4 DEF ServeReturns, AssignErr, StopNotify
<1>5. CASE Main
  BY <1>5 DEF Main, Wait, Receive, ReturnErr, Exit
<1> QED
  BY <1>1, <1>2, <1>3, <1>4, <1>5 DEF Next, Server

\* Whoever told the process to end is heard: something waits until main receives,
\* for any signals and any number of them.
THEOREM NothingIsLost == Spec => []SomethingWaits
<1>1. Init => Heard
  BY DEF Init, SomethingWaits, Heard
<1>2. Heard => SomethingWaits
  BY DEF Heard
<1> QED
  BY <1>1, <1>2, StepHeard, Invariance, PTL DEF Spec

=============================================================================
