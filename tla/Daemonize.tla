------------------------------ MODULE Daemonize ------------------------------
(***************************************************************************)
(* How the controller's process ends: Daemonize of pkg/daemonize and its   *)
(* caller serve of cmd/bngblasterctrl.  One goroutine runs the HTTP server *)
(* and reports its end on the channel sigc, on which the runtime also      *)
(* delivers signals; main waits for the first of them.  The variable err   *)
(* is shared without a lock, and as an interface value it is two words.    *)
(***************************************************************************)
EXTENDS Naturals, Sequences

CONSTANTS
  Signals,      \* SIGINT, SIGTERM and SIGQUIT
  Normal,       \* NormalTerminationSignal
  MaxSignals    \* bound: how many signals the process is sent

ASSUME DaemonizeAssumption == Normal \notin Signals /\ MaxSignals \in Nat

VARIABLES
  main,         \* what main does next
  server,       \* what the goroutine that runs start() does next
  sigc,         \* the channel
  notified,     \* signal.Notify is in force for sigc
  err,          \* the shared variable
  sig, ret,     \* what main received, and the err it returned
  sent,         \* how many signals were sent
  exit          \* how the process ended

vars == <<main, server, sigc, notified, err, sig, ret, sent, exit>>

UnbufferedCapacity == 0                         \* mutant: make(chan os.Signal)
Capacity == 1

TypeOK ==
  /\ main \in {"start", "receive", "return", "exit"}
  /\ server \in {"serving", "assign", "assign2", "send", "stop", "done"}
  /\ sigc \in Seq(Signals \cup {Normal}) /\ Len(sigc) <= Capacity
  /\ notified \in BOOLEAN
  /\ err \in {"nil", "torn", "set"} /\ ret \in {"nil", "torn", "set"}
  /\ sig \in Signals \cup {Normal, "none"}
  /\ sent \in 0..MaxSignals
  /\ exit \in {"running", "zero", "nonzero", "killed"}

\* The goroutine is spawned and main is about to wait.
Init ==
  /\ main = "start" /\ server = "serving"
  /\ sigc = <<>> /\ notified = TRUE
  /\ err = "nil" /\ ret = "nil" /\ sig = "none"
  /\ sent = 0 /\ exit = "running"

Running == exit = "running"

AlwaysSend == TRUE                              \* mutant: a queue without a limit

\* A channel takes a value if it has room or its receiver waits.
CanSend == Len(sigc) < Capacity \/ (main = "receive" /\ sigc = <<>>)

\* The runtime never waits to deliver a signal: without room it is lost.  A
\* signal nobody is notified of any more ends the process.
OSSignal(s) ==
  /\ Running /\ sent < MaxSignals
  /\ sent' = sent + 1
  /\ sigc' = IF notified /\ CanSend THEN Append(sigc, s) ELSE sigc
  /\ exit' = IF notified THEN exit ELSE "killed"
  /\ UNCHANGED <<main, server, notified, err, sig, ret>>

\* ListenAndServe fails, at once or later; it never returns nil.
ServeReturns ==
  /\ Running /\ server = "serving"
  /\ server' = "assign"
  /\ UNCHANGED <<main, sigc, notified, err, sig, ret, sent, exit>>

\* err = start(), one word after the other.
AssignErr ==
  /\ Running
  /\ \/ server = "assign" /\ server' = "assign2" /\ err' = "torn"
     \/ server = "assign2" /\ server' = "send" /\ err' = "set"
  /\ UNCHANGED <<main, sigc, notified, sig, ret, sent, exit>>

SendEarly ==                                    \* mutant: completion is sent first
  /\ Running /\ server = "assign" /\ CanSend
  /\ sigc' = Append(sigc, Normal)
  /\ UNCHANGED <<main, server, notified, err, sig, ret, sent, exit>>

SendNormal ==
  /\ Running /\ server = "send" /\ CanSend
  /\ server' = "stop"
  /\ sigc' = Append(sigc, Normal)
  /\ UNCHANGED <<main, notified, err, sig, ret, sent, exit>>

StopNotify ==
  /\ Running /\ server = "stop"
  /\ server' = "done"
  /\ notified' = FALSE
  /\ UNCHANGED <<main, sigc, err, sig, ret, sent, exit>>

Wait ==
  /\ Running /\ main = "start"
  /\ main' = "receive"
  /\ UNCHANGED <<server, sigc, notified, err, sig, ret, sent, exit>>

Receive ==
  /\ Running /\ main = "receive" /\ sigc # <<>>
  /\ main' = "return"
  /\ sig' = Head(sigc) /\ sigc' = Tail(sigc)
  /\ UNCHANGED <<server, notified, err, ret, sent, exit>>

\* return sig, err: a read in the middle of the assignment may see anything.
ReturnErr ==
  /\ Running /\ main = "return"
  /\ main' = "exit"
  /\ ret' \in IF err = "torn" THEN {"nil", "torn", "set"} ELSE {err}
  /\ UNCHANGED <<server, sigc, notified, err, sig, sent, exit>>

ExitQuietly ==                                  \* mutant: the error is only logged
  /\ Running /\ main = "exit"
  /\ exit' = "zero"
  /\ UNCHANGED <<main, server, sigc, notified, err, sig, ret, sent>>

\* serve: log.Fatal ends the process with a status that systemd restarts on.
Exit ==
  /\ Running /\ main = "exit"
  /\ exit' = IF ret = "nil" THEN "zero" ELSE "nonzero"
  /\ UNCHANGED <<main, server, sigc, notified, err, sig, ret, sent>>

Main   == Wait \/ Receive \/ ReturnErr \/ Exit
Server == AssignErr \/ SendNormal \/ StopNotify

Next == Main \/ Server \/ ServeReturns \/ \E s \in Signals : OSSignal(s)

\* The scheduler runs both goroutines; nothing makes the server return or a
\* signal come.
Spec == Init /\ [][Next]_vars /\ WF_vars(Main) /\ WF_vars(Server)

-----------------------------------------------------------------------------
\* When main is told that the server is done it returns the server's own error,
\* whole: the send on sigc orders the assignment before the read, although
\* nothing else does (daemonize.go:22-31).
NormalIsWhole == sig = Normal /\ main = "exit" => ret = "set"

\* The process ends with status zero only because somebody sent it a signal: a
\* server that fails by itself is restarted (bngblasterctrld.go:58-61,
\* Restart=on-failure of the systemd unit).
ZeroMeansAsked == exit = "zero" => sig \in Signals

\* As long as main has not received anything, what told the process to end waits in
\* the channel: the first signal finds room also before main has come to
\* `<-sigc`, and a later one that is dropped is not the only one (daemonize.go:17-29).
SomethingWaits ==
  Running /\ main \in {"start", "receive"} /\ (sent > 0 \/ server \in {"stop", "done"}) =>
    sigc # <<>>

\* A signal, or the end of the server, ends the process: none is lost between
\* `go func()` and `<-sigc`, and the two senders do not block each other
\* (daemonize.go:17, capacity 1).
EndsWhenTold == (sent > 0 \/ server # "serving") ~> ~Running

=============================================================================
