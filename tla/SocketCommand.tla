---------------------------- MODULE SocketCommand ----------------------------
(***************************************************************************)
(* A command to a running bngblaster: command of pkg/server/server.go and  *)
(* Command of pkg/controller/repository.go, which the metrics collector    *)
(* calls too.  Each request has a connection of its own to run.sock; the   *)
(* far end may answer in pieces, answer for ever, close early, reset the   *)
(* connection or die.  One instance, whose life the detailed module        *)
(* Repository describes, is reduced here to its phase.                     *)
(***************************************************************************)
EXTENDS Naturals

CONSTANTS
  Clients,        \* goroutines that send a command
  WriteTimeout,   \* ticks of the clock until a write fails
  ReadTimeout     \* ticks of the clock until the reads fail, all of them together

ASSUME SocketCommandAssumption ==
  WriteTimeout \in Nat \ {0} /\ ReadTimeout \in Nat \ {0}

VARIABLES
  blaster,        \* the instance: absent, stopped, starting (no run.sock yet), listening
  pc,             \* what client c does next
  code,           \* how its latest request was answered
  timer,          \* ticks left until its deadline
  conn,           \* the far end of its connection
  queue,          \* what it has not read: none, more (a piece), last (and the reply is whole)
  received,       \* what it has read: nothing, part or the whole of the reply
  answer          \* what the reply says once it is whole

vars == <<blaster, pc, code, timer, conn, queue, received, answer>>
link == <<conn, queue, received, answer>>

\* ok: code 0 or none; coded: a code HTTP knows; bad: a number HTTP has no
\* status for; garbage: no JSON.
Answers == {"ok", "coded", "bad", "garbage"}

Longest == IF ReadTimeout > WriteTimeout THEN ReadTimeout ELSE WriteTimeout

TypeOK ==
  /\ blaster \in {"absent", "stopped", "starting", "listening"}
  /\ pc \in [Clients -> {"idle", "exists", "running", "dial", "send", "receive", "decode"}]
  /\ code \in [Clients -> {"none", "200", "400", "404", "412", "500", "coded", "aborted"}]
  /\ timer \in [Clients -> 0..Longest]
  /\ conn \in [Clients -> {"none", "open", "reset", "closed"}]
  /\ queue \in [Clients -> {"none", "more", "last"}]
  /\ received \in [Clients -> {"nothing", "part", "whole"}]
  /\ answer \in [Clients -> Answers]
  /\ \A c \in Clients : conn[c] = "none" <=> pc[c] \notin {"send", "receive"}

Init ==
  /\ blaster = "absent"
  /\ pc = [c \in Clients |-> "idle"]
  /\ code = [c \in Clients |-> "none"]
  /\ timer = [c \in Clients |-> 0]
  /\ conn = [c \in Clients |-> "none"]
  /\ queue = [c \in Clients |-> "none"]
  /\ received = [c \in Clients |-> "nothing"]
  /\ answer \in [Clients -> {"ok"}]

-----------------------------------------------------------------------------
(* The client.                                                             *)

Goto(c, label) == pc' = [pc EXCEPT ![c] = label] /\ UNCHANGED code

Reply(c, status) ==
  /\ pc' = [pc EXCEPT ![c] = "idle"]
  /\ code' = [code EXCEPT ![c] = status]

LeaveOpen(c) ==                                 \* mutant: the deferred Close is missing
  /\ timer' = [timer EXCEPT ![c] = 0]
  /\ UNCHANGED <<conn, queue>>

\* Command returns and its deferred Close runs; it holds no deadline any more.
Hangup(c) ==
  /\ conn' = [conn EXCEPT ![c] = "none"]
  /\ queue' = [queue EXCEPT ![c] = "none"]
  /\ timer' = [timer EXCEPT ![c] = 0]

Ask(c) ==
  /\ pc[c] = "idle"
  /\ \/ pc' = [pc EXCEPT ![c] = "exists"] /\ code' = [code EXCEPT ![c] = "none"]
     \/ Reply(c, "400")
  /\ received' = [received EXCEPT ![c] = "nothing"]
  /\ answer' = [answer EXCEPT ![c] = "ok"]
  /\ UNCHANGED <<blaster, timer, conn, queue>>

Exists(c) ==
  /\ pc[c] = "exists"
  /\ IF blaster = "absent" THEN Reply(c, "404") ELSE Goto(c, "running")
  /\ UNCHANGED <<blaster, timer, link>>

RunningGoesOn(c) ==                             \* mutant: no return after the 412
  /\ pc[c] = "running"
  /\ \/ Goto(c, "dial")
     \/ pc' = [pc EXCEPT ![c] = "dial"] /\ code' = [code EXCEPT ![c] = "412"]
  /\ UNCHANGED <<blaster, timer, link>>

\* What Running says of run.pid and of the process it names need not be true of the
\* instance, neither before nor now: Repository has its system calls and what they
\* race with.
Running(c) ==
  /\ pc[c] = "running"
  /\ Goto(c, "dial") \/ Reply(c, "412")
  /\ UNCHANGED <<blaster, timer, link>>

\* Without a listener, or one whose backlog is full, the dial fails at once.
Dial(c) ==
  /\ pc[c] = "dial"
  /\ \/ /\ blaster = "listening"
        /\ conn' = [conn EXCEPT ![c] = "open"]
        /\ \E a \in Answers : answer' = [answer EXCEPT ![c] = a]
        /\ timer' = [timer EXCEPT ![c] = WriteTimeout]
        /\ Goto(c, "send")
     \/ Reply(c, "500") /\ UNCHANGED <<conn, answer, timer>>
  /\ UNCHANGED <<blaster, queue, received>>

Send(c) ==
  /\ pc[c] = "send"
  /\ IF timer[c] > 0 /\ conn[c] = "open"
     THEN /\ timer' = [timer EXCEPT ![c] = ReadTimeout]
          /\ Goto(c, "receive")
          /\ UNCHANGED <<conn, queue>>
     ELSE Hangup(c) /\ Reply(c, "500")
  /\ UNCHANGED <<blaster, received, answer>>

\* The errors of Read that the loop goes on after.
ResetIsFinal == {}                              \* mutant: any error but EOF is returned
Tolerated    == {"reset"}

\* The deadline of all the reads is set once.
RenewedDeadline(c) == ReadTimeout               \* mutant: SetReadDeadline moves into the loop
Deadline(c) == timer[c]

\* One Read: the kernel hands out what is queued, then the reset, once, then
\* the end of the stream; past the deadline, an error.
Receive(c) ==
  /\ pc[c] = "receive"
  /\ \/ /\ timer[c] > 0 /\ queue[c] # "none"
        /\ received' = [received EXCEPT ![c] = IF queue[c] = "last" THEN "whole" ELSE "part"]
        /\ queue' = [queue EXCEPT ![c] = "none"]
        /\ timer' = [timer EXCEPT ![c] = Deadline(c)]
        /\ Goto(c, "receive")
        /\ UNCHANGED conn
     \/ /\ timer[c] > 0 /\ queue[c] = "none"
        /\ conn[c] \in Tolerated
        /\ conn' = [conn EXCEPT ![c] = "closed"]
        /\ Goto(c, "receive")
        /\ UNCHANGED <<received, queue, timer>>
     \/ /\ timer[c] > 0 /\ queue[c] = "none" /\ conn[c] = "closed"
        /\ Hangup(c)
        /\ Goto(c, "decode")
        /\ UNCHANGED received
     \/ /\ \/ timer[c] = 0
           \/ queue[c] = "none" /\ conn[c] \in {"reset"} \ Tolerated
        /\ Hangup(c)
        /\ Reply(c, "500")
        /\ UNCHANGED received
  /\ UNCHANGED <<blaster, answer>>

DecodeAnything(c) ==                            \* mutant: the error of Decode is dropped
  /\ pc[c] = "decode"
  /\ Reply(c, "200")
  /\ UNCHANGED <<blaster, timer, link>>

\* The reply is passed on with its own code, which WriteHeader checks: a number
\* below 100 or above 999 makes it panic and the client gets no answer.
Decode(c) ==
  /\ pc[c] = "decode"
  /\ Reply(c, CASE received[c] # "whole" \/ answer[c] = "garbage" -> "500"
                [] received[c] = "whole" /\ answer[c] = "ok"      -> "200"
                [] received[c] = "whole" /\ answer[c] = "coded"   -> "coded"
                [] received[c] = "whole" /\ answer[c] = "bad"     -> "aborted")
  /\ UNCHANGED <<blaster, timer, link>>

ClientStep(c) ==
  Exists(c) \/ Running(c) \/ Dial(c) \/ Send(c) \/ Receive(c) \/ Decode(c)

-----------------------------------------------------------------------------
(* The bngblaster and the clock.                                           *)

\* The reply goes out in as many pieces as it likes, perhaps for ever.
PeerWrites(c) ==
  /\ pc[c] = "receive" /\ conn[c] = "open" /\ queue[c] = "none" /\ received[c] # "whole"
  /\ \E piece \in {"more", "last"} : queue' = [queue EXCEPT ![c] = piece]
  /\ UNCHANGED <<blaster, pc, code, timer, conn, received, answer>>

\* A close with the end of the command still unread arrives as a reset.
PeerCloses(c) ==
  /\ conn[c] = "open"
  /\ \E how \in {"closed", "reset"} : conn' = [conn EXCEPT ![c] = how]
  /\ UNCHANGED <<blaster, pc, code, timer, queue, received, answer>>

BlasterSteps ==
  /\ \/ blaster = "absent" /\ blaster' = "stopped"
     \/ blaster = "stopped" /\ blaster' \in {"absent", "starting"}
     \/ blaster = "starting" /\ blaster' = "listening"
  /\ UNCHANGED <<pc, code, timer, link>>

\* It ends, and every connection with it.
BlasterEnds ==
  /\ blaster \in {"starting", "listening"}
  /\ blaster' = "stopped"
  /\ \E how \in [Clients -> {"closed", "reset"}] :
       conn' = [c \in Clients |-> IF conn[c] = "open" THEN how[c] ELSE conn[c]]
  /\ UNCHANGED <<pc, code, timer, queue, received, answer>>

UnguardedTick ==                                \* mutant: a deadline fires again and again
  /\ \E c \in Clients : pc[c] = "receive"
  /\ timer' = [c \in Clients |-> timer[c] - 1]
  /\ UNCHANGED <<blaster, pc, code, link>>

Tick ==
  /\ \E c \in Clients : timer[c] > 0
  /\ timer' = [c \in Clients |-> IF timer[c] > 0 THEN timer[c] - 1 ELSE 0]
  /\ UNCHANGED <<blaster, pc, code, link>>

Next ==
  \/ \E c \in Clients : Ask(c) \/ ClientStep(c) \/ PeerWrites(c) \/ PeerCloses(c)
  \/ BlasterSteps \/ BlasterEnds \/ Tick

\* The scheduler runs the goroutines and time passes; the bngblaster owes nothing.
Spec == Init /\ [][Next]_vars /\ WF_vars(Tick) /\ \A c \in Clients : WF_vars(ClientStep(c))

-----------------------------------------------------------------------------
\* A reply the bngblaster wrote whole before the deadline reaches the client,
\* however the connection was ended: only a reply that never was whole, that is
\* no JSON, or that was not read in time gives a 500 (repository.go:316-329).
ReplyWhole(c) == queue[c] = "last" \/ received[c] = "whole"

WholeReplyDelivered ==
  [][\A c \in Clients : pc[c] \in {"receive", "decode"} /\ code'[c] = "500" =>
       ~ReplyWhole(c) \/ answer[c] = "garbage" \/ (pc[c] = "receive" /\ timer[c] = 0)]_vars

\* A reply that is passed on as the answer was received whole, to the end of
\* the stream, never the pieces that had come when something went wrong
\* (repository.go:320-328).
OnlyWholeReplies ==
  [][\A c \in Clients : code'[c] # code[c] /\ code'[c] \in {"200", "coded"} =>
       received[c] = "whole" /\ conn[c] = "none"]_vars

\* What these rest on: nobody is answered before the request is over, what was
\* read or is unread came over the connection of this request, and one that is
\* open leads to the run there is (repository.go:298-331).
Connected ==
  \A c \in Clients :
    /\ pc[c] # "idle" => code[c] = "none"
    /\ queue[c] # "none" => pc[c] = "receive" /\ received[c] # "whole"
    /\ received[c] # "nothing" => pc[c] \notin {"exists", "running", "dial", "send"}
    /\ conn[c] = "open" => blaster = "listening"

IInv == TypeOK /\ Connected

\* The request, its connection and its reply as a client sees them.
Life == IF blaster \in {"starting", "listening"} THEN "running" ELSE blaster

StageOf(c) ==
  CASE pc[c] = "idle"                            -> "free"
    [] pc[c] \in {"exists", "running", "dial"}   -> "pending"
    [] conn[c] = "open"                          -> "connected"
    [] OTHER                                     -> "cut"

ReplyOf(c) == IF pc[c] # "idle" /\ ReplyWhole(c) THEN answer[c] ELSE "none"
IsLate(c)  == pc[c] \in {"send", "receive"} /\ timer[c] = 0

Abstract == INSTANCE Exchange WITH
  Replies <- Answers,
  NoReply <- "none",
  Outcome <- [ok |-> "200", coded |-> "coded", bad |-> "aborted", garbage |-> "500"],
  life    <- Life,
  stage   <- [c \in Clients |-> StageOf(c)],
  reply   <- [c \in Clients |-> ReplyOf(c)],
  late    <- [c \in Clients |-> IsLate(c)],
  told    <- code

\* Each request is answered once: a refused one never reached a run, and one that
\* did is answered with what that run replied, if it came whole and in time
\* (server.go:368-395, repository.go:289-332).
ImplementsExchange == Abstract!Spec

\* In the read loop time only runs down, whatever arrives and however often, and
\* past the deadline nothing more is read: the next step is the answer, a failure
\* (repository.go:315-329).
DeadlineIsFinal ==
  [][\A c \in Clients : pc[c] = "receive" =>
       /\ pc'[c] = "receive" => timer'[c] <= timer[c] /\ (timer[c] = 0 => received'[c] = received[c])
       /\ timer[c] = 0 /\ pc'[c] # "receive" => pc'[c] = "idle" /\ code'[c] = "500"]_vars

\* A bngblaster that never stops sending, never answers or never reads cannot
\* hold a request for ever (repository.go:306 and 315).
CommandAnswered == \A c \in Clients : pc[c] # "idle" ~> pc[c] = "idle"

=============================================================================
