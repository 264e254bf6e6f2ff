------------------------- MODULE SocketCommandProofs -------------------------
(***************************************************************************)
(* What a client is told of a command, for any clients and deadlines.      *)
(***************************************************************************)
EXTENDS SocketCommand, TLAPS

LEMMA Timeouts ==
  /\ Longest \in Nat /\ 0 \in 0..Longest
  /\ WriteTimeout \in 0..Longest /\ ReadTimeout \in 0..Longest
  BY SocketCommandAssumption DEF Longest

LEMMA InitTypeOK == Init => TypeOK
  BY Timeouts DEF Init, TypeOK, Answers

\* A step of one client keeps the types of what it changes and of the others.
LEMMA ClientTypeOK ==
  ASSUME TypeOK, NEW c \in Clients, ClientStep(c)
  PROVE  TypeOK'
<1> USE Timeouts DEF TypeOK, Answers, Goto, Reply, link
<1>1. CASE Exists(c) \/ Running(c)
  BY <1>1 DEF Exists, Running
<1>2. CASE Dial(c)
  BY <1>2 DEF Dial
<1>3. CASE Send(c)
  BY <1>3 DEF Send, Hangup
<1>4. CASE Receive(c)
  BY <1>4 DEF Receive, Hangup, Tolerated, Deadline
<1>5. CASE Decode(c)
  BY <1>5 DEF Decode
<1> QED
  BY <1>1, <1>2, <1>3, <1>4, <1>5 DEF ClientStep

LEMMA StepTypeOK == TypeOK /\ [Next]_vars => TypeOK'
<1> SUFFICES ASSUME TypeOK, [Next]_vars PROVE TypeOK'
  OBVIOUS
<1>1. CASE UNCHANGED vars
  BY <1>1 DEF vars, TypeOK
<1>2. ASSUME NEW c \in Clients, Ask(c) PROVE TypeOK'
  BY <1>2 DEF Ask, Reply, TypeOK, Answers
<1>3. ASSUME NEW c \in Clients, ClientStep(c) PROVE TypeOK'
  BY <1>3, ClientTypeOK
<1>4. ASSUME NEW c \in Clients, PeerWrites(c) \/ PeerCloses(c) PROVE TypeOK'
  BY <1>4 DEF PeerWrites, PeerCloses, TypeOK
<1>5. CASE BlasterSteps \/ BlasterEnds
  BY <1>5 DEF BlasterSteps, BlasterEnds, TypeOK, link
<1>6. CASE Tick
  <2>1. timer' \in [Clients -> 0..Longest]
    BY <1>6, Timeouts DEF Tick, TypeOK
  <2> QED
    BY <1>6, <2>1 DEF Tick, TypeOK, link
<1> QED
  BY <1>1, <1>2, <1>3, <1>4, <1>5, <1>6 DEF Next

\* The types hold, and only a command between its dial and its return has a
\* connection.
THEOREM TypeCorrect == Spec => []TypeOK
  BY InitTypeOK, StepTypeOK, PTL DEF Spec

\* A client is answered by its own steps only.
LEMMA OthersAnswerNobody ==
  ASSUME TypeOK, [Next]_vars, NEW c \in Clients,
         ~(Ask(c) \/ Exists(c) \/ Running(c) \/ Dial(c) \/ Send(c) \/ Receive(c) \/ Decode(c))
  PROVE  code'[c] = code[c]
<1> USE DEF TypeOK
<1>1. CASE UNCHANGED vars
  BY <1>1 DEF vars
<1>2. ASSUME NEW d \in Clients, Ask(d) \/ ClientStep(d) PROVE code'[c] = code[c]
  <2>1. d # c
    BY <1>2 DEF ClientStep
  <2> QED
    BY <1>2, <2>1 DEF ClientStep, Ask, Exists, Running, Dial, Send, Receive, Decode, Goto, Reply
<1>3. ASSUME NEW d \in Clients, PeerWrites(d) \/ PeerCloses(d) PROVE code'[c] = code[c]
  BY <1>3 DEF PeerWrites, PeerCloses
<1>4. CASE BlasterSteps \/ BlasterEnds \/ Tick
  BY <1>4 DEF BlasterSteps, BlasterEnds, Tick
<1> QED
  BY <1>1, <1>2, <1>3, <1>4 DEF Next

\* A step keeps what is known of the connections.
LEMMA StepConnected == TypeOK /\ Connected /\ [Next]_vars => Connected'
<1> SUFFICES ASSUME TypeOK, Connected, [Next]_vars PROVE Connected'
  OBVIOUS
<1> USE DEF TypeOK, Connected
<1>1. CASE UNCHANGED vars
  BY <1>1 DEF vars
<1>2. ASSUME NEW d \in Clients, Ask(d) PROVE Connected'
  BY <1>2 DEF Ask, Reply
<1>3. ASSUME NEW d \in Clients, ClientStep(d) PROVE Connected'
  <2> USE DEF Goto, Reply, Hangup, link
  <2>1. CASE Exists(d) \/ Running(d) \/ Dial(d) \/ Send(d)
    BY <2>1 DEF Exists, Running, Dial, Send
  <2>2. CASE Receive(d)
    BY <2>2 DEF Receive
  <2>3. CASE Decode(d)
    BY <2>3 DEF Decode
  <2> QED
    BY <1>3, <2>1, <2>2, <2>3 DEF ClientStep
<1>4. ASSUME NEW d \in Clients, PeerWrites(d) \/ PeerCloses(d) PROVE Connected'
  BY <1>4 DEF PeerWrites, PeerCloses
<1>5. CASE BlasterSteps \/ BlasterEnds \/ Tick
  BY <1>5 DEF BlasterSteps, BlasterEnds, Tick, link
<1> QED
  BY <1>1, <1>2, <1>3, <1>4, <1>5 DEF Next

\* What is known of a connection holds of every behaviour, for any clients and
\* deadlines.
THEOREM Invariance == Spec => []IInv
<1>1. Init => Connected
  BY DEF Init, Connected
<1> QED
  BY <1>1, InitTypeOK, StepTypeOK, StepConnected, PTL DEF Spec, IInv

\* A whole reply is answered 500 only if it is no JSON or the deadline is over.
THEOREM WholeRepliesAreDelivered == Spec => WholeReplyDelivered
<1>1. TypeOK /\ Connected /\ [Next]_vars =>
        [\A c \in Clients : pc[c] \in {"receive", "decode"} /\ code'[c] = "500" =>
           ~ReplyWhole(c) \/ answer[c] = "garbage" \/ (pc[c] = "receive" /\ timer[c] = 0)]_vars
  <2> SUFFICES ASSUME TypeOK, Connected, [Next]_vars, NEW c \in Clients,
                      pc[c] \in {"receive", "decode"}, code'[c] = "500", ReplyWhole(c)
               PROVE  answer[c] = "garbage" \/ (pc[c] = "receive" /\ timer[c] = 0)
    OBVIOUS
  <2>1. Receive(c) \/ Decode(c)
    BY OthersAnswerNobody DEF Connected, Ask, Exists, Running, Dial, Send
  <2>2. CASE Receive(c)
    BY <2>2 DEF Receive, Goto, Reply, Tolerated, Connected, TypeOK
  <2>3. CASE Decode(c)
    BY <2>3 DEF Decode, Reply, ReplyWhole, Connected, TypeOK, Answers
  <2> QED
    BY <2>1, <2>2, <2>3
<1> QED
  BY <1>1, Invariance, PTL DEF Spec, WholeReplyDelivered, IInv

\* What is passed on as the reply was received whole, to the end of the stream.
THEOREM NoPieceIsPassedOn == Spec => OnlyWholeReplies
<1>1. TypeOK /\ [Next]_vars =>
        [\A c \in Clients : code'[c] # code[c] /\ code'[c] \in {"200", "coded"} =>
           received[c] = "whole" /\ conn[c] = "none"]_vars
  <2> SUFFICES ASSUME TypeOK, [Next]_vars, NEW c \in Clients,
                      code'[c] # code[c], code'[c] \in {"200", "coded"}
               PROVE  received[c] = "whole" /\ conn[c] = "none"
    OBVIOUS
  <2>1. Ask(c) \/ Exists(c) \/ Running(c) \/ Dial(c) \/ Send(c) \/ Receive(c) \/ Decode(c)
    BY OthersAnswerNobody
  <2>2. Decode(c)
    BY <2>1 DEF Ask, Exists, Running, Dial, Send, Receive, Goto, Reply, TypeOK
  <2> QED
    BY <2>2 DEF Decode, Reply, TypeOK
<1> QED
  BY <1>1, TypeCorrect, PTL DEF Spec, OnlyWholeReplies
\* A step of one client, or of its peer, moves nothing of the others.
Alone(c) ==
  \A d \in Clients \ {c} :
    /\ pc'[d] = pc[d] /\ timer'[d] = timer[d] /\ conn'[d] = conn[d]
    /\ queue'[d] = queue[d] /\ received'[d] = received[d] /\ answer'[d] = answer[d]

LEMMA StepsAreAlone ==
  ASSUME TypeOK, NEW c \in Clients, Ask(c) \/ ClientStep(c) \/ PeerWrites(c) \/ PeerCloses(c)
  PROVE  Alone(c) /\ blaster' = blaster
<1> USE DEF TypeOK, Alone, Goto, Reply, Hangup, link
<1>1. CASE Ask(c)
  BY <1>1 DEF Ask
<1>2. CASE Exists(c) \/ Running(c) \/ Dial(c) \/ Send(c)
  BY <1>2 DEF Exists, Running, Dial, Send
<1>3. CASE Receive(c)
  BY <1>3 DEF Receive
<1>4. CASE Decode(c)
  BY <1>4 DEF Decode
<1>5. CASE PeerWrites(c) \/ PeerCloses(c)
  BY <1>5 DEF PeerWrites, PeerCloses
<1> QED
  BY <1>1, <1>2, <1>3, <1>4, <1>5 DEF ClientStep

\* Nothing gives a read loop more time, nor reads after the deadline.
THEOREM DeadlinesAreFinal == Spec => DeadlineIsFinal
<1> DEFINE Final(c) ==
      /\ pc'[c] = "receive" => timer'[c] <= timer[c] /\ (timer[c] = 0 => received'[c] = received[c])
      /\ timer[c] = 0 /\ pc'[c] # "receive" => pc'[c] = "idle" /\ code'[c] = "500"
<1>1. TypeOK /\ [Next]_vars => [\A c \in Clients : pc[c] = "receive" => Final(c)]_vars
  <2> SUFFICES ASSUME TypeOK, Next, NEW c \in Clients, pc[c] = "receive"
               PROVE  Final(c)
    OBVIOUS
  <2>1. timer[c] \in Nat
    BY Timeouts DEF TypeOK
  <2>2. CASE Receive(c)
    BY <2>1, <2>2 DEF Receive, Hangup, Goto, Reply, Deadline, Tolerated, TypeOK
  <2>3. ASSUME NEW d \in Clients, d # c, Ask(d) \/ ClientStep(d) \/ PeerWrites(d) \/ PeerCloses(d)
        PROVE  Final(c)
    BY <2>1, <2>3, StepsAreAlone DEF Alone
  <2>4. CASE PeerWrites(c) \/ PeerCloses(c) \/ BlasterSteps \/ BlasterEnds
    BY <2>1, <2>4 DEF PeerWrites, PeerCloses, BlasterSteps, BlasterEnds, link
  <2>5. CASE Tick
    BY <2>1, <2>5 DEF Tick, link
  <2>6. ~Ask(c) /\ ~Exists(c) /\ ~Running(c) /\ ~Dial(c) /\ ~Send(c) /\ ~Decode(c)
    BY DEF Ask, Exists, Running, Dial, Send, Decode
  <2> QED
    BY <2>2, <2>3, <2>4, <2>5, <2>6 DEF Next, ClientStep
<1> QED
  BY <1>1, TypeCorrect, PTL DEF Spec, DeadlineIsFinal

-----------------------------------------------------------------------------
(* A command implements Exchange.                                          *)

\* What a client that is not at work, or has no connection, shows.
LEMMA Shows ==
  ASSUME IInv, NEW c \in Clients
  PROVE  /\ StageOf(c) = "free" <=> pc[c] = "idle"
         /\ StageOf(c) = "pending" <=> pc[c] \in {"exists", "running", "dial"}
         /\ StageOf(c) = "connected" <=> conn[c] = "open"
         /\ pc[c] \in {"idle", "exists", "running", "dial", "send"} => ReplyOf(c) = "none"
         /\ pc[c] \notin {"send", "receive"} => IsLate(c) = FALSE
  BY DEF IInv, TypeOK, Connected, StageOf, ReplyOf, ReplyWhole, IsLate

\* So the mapped functions change at most at that client.
LEMMA OneMoves ==
  ASSUME NEW c \in Clients, Alone(c)
  PROVE  /\ [d \in Clients |-> StageOf(d)]' = [[d \in Clients |-> StageOf(d)] EXCEPT ![c] = StageOf(c)']
         /\ [d \in Clients |-> ReplyOf(d)]' = [[d \in Clients |-> ReplyOf(d)] EXCEPT ![c] = ReplyOf(c)']
         /\ [d \in Clients |-> IsLate(d)]' = [[d \in Clients |-> IsLate(d)] EXCEPT ![c] = IsLate(c)']
<1> SUFFICES ASSUME NEW d \in Clients, d # c
             PROVE  StageOf(d)' = StageOf(d) /\ ReplyOf(d)' = ReplyOf(d) /\ IsLate(d)' = IsLate(d)
  OBVIOUS
<1> QED
  BY DEF Alone, StageOf, ReplyOf, ReplyWhole, IsLate

\* A step that shows nothing of its client is a stutter.
LEMMA Hidden ==
  ASSUME NEW c \in Clients, Alone(c), blaster' = blaster, code' = code,
         StageOf(c)' = StageOf(c), ReplyOf(c)' = ReplyOf(c), IsLate(c)' = IsLate(c)
  PROVE  UNCHANGED Abstract!vars
<1>1. \A d \in Clients : StageOf(d)' = StageOf(d) /\ ReplyOf(d)' = ReplyOf(d) /\ IsLate(d)' = IsLate(d)
  BY DEF Alone, StageOf, ReplyOf, ReplyWhole, IsLate
<1> QED
  BY <1>1 DEF Abstract!vars, Life

\* A client that is answered is told, once, and keeps nothing.
LEMMA AnswersTell ==
  ASSUME IInv, IInv', NEW c \in Clients, pc[c] # "idle", Alone(c), blaster' = blaster,
         NEW status, Reply(c, status)
  PROVE  Abstract!Tell(c, status)
<1>1. code[c] = "none" /\ pc'[c] = "idle" /\ code' = [code EXCEPT ![c] = status]
  BY DEF IInv, TypeOK, Connected, Reply
<1>2. StageOf(c)' = "free"
  BY <1>1 DEF StageOf, IInv, TypeOK
<1>3. ReplyOf(c)' = "none"
  BY <1>1 DEF ReplyOf
<1>4. IsLate(c)' = FALSE
  BY <1>1 DEF IsLate
<1> QED
  BY <1>1, <1>2, <1>3, <1>4, OneMoves DEF Abstract!Tell, Life

\* The steps of a client.
LEMMA ClientIsExchange ==
  ASSUME IInv, IInv', NEW c \in Clients, Ask(c) \/ ClientStep(c)
  PROVE  [Abstract!Next]_(Abstract!vars)
<1>1. TypeOK /\ Connected /\ TypeOK' /\ Connected' /\ Alone(c) /\ blaster' = blaster
  BY StepsAreAlone DEF IInv
<1>2. CASE Ask(c)
  <2>1. pc[c] = "idle" /\ ReplyOf(c)' = "none" /\ IsLate(c)' = FALSE
    <3>1. pc[c] = "idle" /\ pc'[c] \in {"idle", "exists"} /\ received'[c] = "nothing"
      BY <1>1, <1>2 DEF Ask, Reply, TypeOK
    <3>2. ReplyOf(c)' = "none"
      BY <1>1, <3>1 DEF ReplyOf, ReplyWhole, Connected
    <3>3. IsLate(c)' = FALSE
      BY <3>1 DEF IsLate
    <3> QED
      BY <3>1, <3>2, <3>3
  <2>2. CASE Reply(c, "400")
    <3>1. StageOf(c)' = "free"
      BY <1>1, <2>2 DEF Reply, StageOf, TypeOK
    <3>2. Abstract!Reject(c)
      BY <1>1, <2>1, <2>2, <3>1, Shows, OneMoves DEF Abstract!Reject, Reply, Life
    <3> QED
      BY <3>2 DEF Abstract!Next
  <2>3. CASE pc' = [pc EXCEPT ![c] = "exists"] /\ code' = [code EXCEPT ![c] = "none"]
    <3>1. StageOf(c)' = "pending"
      BY <1>1, <2>3 DEF StageOf, TypeOK
    <3>2. Abstract!Ask(c)
      BY <1>1, <2>1, <2>3, <3>1, Shows, OneMoves DEF Abstract!Ask, Life
    <3> QED
      BY <3>2 DEF Abstract!Next
  <2> QED
    BY <1>2, <2>2, <2>3 DEF Ask
<1>3. CASE Exists(c) \/ Running(c)
  <2>1. CASE UNCHANGED code
    <3>1. StageOf(c)' = StageOf(c)
      BY <1>1, <1>3, <2>1 DEF Exists, Running, Goto, Reply, StageOf, TypeOK, Connected, link
    <3>2. ReplyOf(c)' = ReplyOf(c) /\ IsLate(c)' = IsLate(c)
      BY <1>1, <1>3 DEF Exists, Running, Goto, Reply, ReplyOf, ReplyWhole, IsLate, Connected, TypeOK, link
    <3> QED
      BY <1>1, <2>1, <3>1, <3>2, Hidden
  <2>2. CASE \/ Reply(c, "404") /\ blaster = "absent"
             \/ Reply(c, "412")
    <3>1. StageOf(c) = "pending"
      BY <1>3, Shows DEF Exists, Running
    <3>2. Abstract!Refuse(c)
      BY <1>1, <1>3, <2>2, <3>1, AnswersTell DEF Abstract!Refuse, Life, Exists, Running
    <3> QED
      BY <3>2 DEF Abstract!Next
  <2> QED
    BY <1>1, <1>3, <2>1, <2>2 DEF Exists, Running, Goto, Life, TypeOK
<1>4. ASSUME Reply(c, "500"), pc[c] # "idle", ReplyOf(c) = "none" \/ IsLate(c)
      PROVE  [Abstract!Next]_(Abstract!vars)
  <2>1. Abstract!Fail(c)
    BY <1>1, <1>4, Shows, AnswersTell DEF Abstract!Fail
  <2> QED
    BY <2>1 DEF Abstract!Next
<1>5. CASE Dial(c)
  <2>1. CASE Reply(c, "500")
    BY <1>4, <1>5, <2>1, Shows DEF Dial
  <2>2. CASE ~Reply(c, "500")
    <3>1. /\ pc[c] = "dial" /\ pc'[c] = "send" /\ conn'[c] = "open" /\ code' = code
          /\ blaster = "listening" /\ timer'[c] # 0
      BY <1>1, <1>5, <2>2, SocketCommandAssumption DEF Dial, Goto, TypeOK
    <3>2. StageOf(c)' = "connected" /\ ReplyOf(c)' = "none"
      BY <1>1, <3>1 DEF StageOf, ReplyOf, ReplyWhole, Connected
    <3>3. IsLate(c)' = FALSE
      BY <3>1 DEF IsLate
    <3>4. Abstract!Connect(c)
      BY <1>1, <3>1, <3>2, <3>3, Shows, OneMoves DEF Abstract!Connect, Life
    <3> QED
      BY <3>4 DEF Abstract!Next
  <2> QED
    BY <2>1, <2>2
<1>6. CASE Send(c)
  <2>1. CASE Reply(c, "500")
    BY <1>4, <1>6, <2>1, Shows DEF Send
  <2>2. CASE ~Reply(c, "500")
    <3>1. /\ pc[c] = "send" /\ pc'[c] = "receive" /\ conn' = conn /\ code' = code
          /\ timer[c] # 0 /\ timer'[c] # 0 /\ queue' = queue /\ received' = received
      BY <1>1, <1>6, <2>2, SocketCommandAssumption DEF Send, Goto, TypeOK
    <3>2. StageOf(c)' = StageOf(c)
      BY <1>1, <3>1 DEF StageOf
    <3>3. ReplyOf(c)' = "none"
      BY <1>1, <3>1 DEF ReplyOf, ReplyWhole, Connected
    <3>4. IsLate(c) = FALSE /\ IsLate(c)' = FALSE
      BY <3>1 DEF IsLate
    <3> QED
      BY <1>1, <3>1, <3>2, <3>3, <3>4, Shows, Hidden
  <2> QED
    BY <2>1, <2>2
<1>7. CASE Receive(c)
  <2>1. CASE Reply(c, "500")
    <3>1. pc[c] = "receive" /\ timer[c] = 0
      BY <1>1, <1>7, <2>1 DEF Receive, Reply, Goto, Tolerated, TypeOK
    <3> QED
      BY <1>4, <2>1, <3>1 DEF IsLate
  <2>2. CASE ~Reply(c, "500")
    <3>1. /\ pc[c] = "receive" /\ pc'[c] \in {"receive", "decode"} /\ code' = code
          /\ timer[c] # 0 /\ (pc'[c] = "receive" => timer'[c] # 0)
      BY <1>1, <1>7, <2>2 DEF Receive, Goto, Deadline, Tolerated, TypeOK
    <3>2. IsLate(c) = FALSE /\ IsLate(c)' = FALSE
      BY <3>1 DEF IsLate
    <3>3. conn'[c] = "open" <=> conn[c] = "open"
      BY <1>1, <1>7, <2>2 DEF Receive, Hangup, Tolerated, TypeOK
    <3>4. StageOf(c)' = StageOf(c)
      BY <1>1, <3>1, <3>3 DEF StageOf, TypeOK
    <3>5. ReplyWhole(c)' <=> ReplyWhole(c)
      BY <1>1, <1>7, <2>2 DEF Receive, Hangup, ReplyWhole, TypeOK, Connected
    <3>6. answer' = answer
      BY <1>7 DEF Receive
    <3>7. ReplyOf(c)' = ReplyOf(c)
      BY <3>1, <3>5, <3>6 DEF ReplyOf
    <3> QED
      BY <1>1, <3>1, <3>2, <3>4, <3>7, Hidden
  <2> QED
    BY <2>1, <2>2
<1>8. CASE Decode(c)
  <2>1. pc[c] = "decode" /\ StageOf(c) = "cut"
    BY <1>1, <1>8 DEF Decode, StageOf, TypeOK
  <2>2. CASE received[c] = "whole"
    <3>1. ReplyOf(c) = answer[c] /\ answer[c] \in Answers
      BY <1>1, <2>1, <2>2 DEF ReplyOf, ReplyWhole, TypeOK
    <3>2. Reply(c, [ok |-> "200", coded |-> "coded", bad |-> "aborted", garbage |-> "500"][answer[c]])
      BY <1>8, <2>2, <3>1 DEF Decode, Answers
    <3>3. Abstract!PassOn(c)
      BY <1>1, <2>1, <3>1, <3>2, AnswersTell DEF Abstract!PassOn, Answers
    <3> QED
      BY <3>3 DEF Abstract!Next
  <2>3. CASE received[c] # "whole"
    <3>1. ReplyOf(c) = "none"
      BY <1>1, <2>1, <2>3 DEF ReplyOf, ReplyWhole, Connected
    <3>2. Reply(c, "500")
      BY <1>8, <2>3 DEF Decode
    <3> QED
      BY <1>4, <2>1, <3>1, <3>2
  <2> QED
    BY <2>2, <2>3
<1> QED
  BY <1>2, <1>3, <1>5, <1>6, <1>7, <1>8 DEF ClientStep

\* The steps of a peer: it gives its reply, or parts.
LEMMA PeerIsExchange ==
  ASSUME IInv, IInv', NEW c \in Clients, PeerWrites(c) \/ PeerCloses(c)
  PROVE  [Abstract!Next]_(Abstract!vars)
<1>1. TypeOK /\ Connected /\ TypeOK' /\ Connected' /\ Alone(c) /\ blaster' = blaster
  BY StepsAreAlone DEF IInv
<1>2. /\ conn[c] = "open" /\ blaster = "listening" /\ StageOf(c) = "connected"
      /\ pc' = pc /\ code' = code /\ timer' = timer /\ received' = received /\ answer' = answer
  BY <1>1, Shows DEF PeerWrites, PeerCloses, Connected
<1>3. IsLate(c)' = IsLate(c)
  BY <1>2 DEF IsLate
<1>4. CASE PeerWrites(c)
  <2>1. /\ pc[c] = "receive" /\ queue[c] = "none" /\ received[c] # "whole"
        /\ conn' = conn /\ queue'[c] \in {"more", "last"}
    BY <1>1, <1>4 DEF PeerWrites, TypeOK
  <2>2. StageOf(c)' = StageOf(c)
    BY <1>2, <2>1 DEF StageOf
  <2>3. ReplyOf(c) = "none"
    BY <2>1 DEF ReplyOf, ReplyWhole
  <2>4. CASE queue'[c] = "more"
    <3>1. ReplyOf(c)' = "none"
      BY <1>2, <2>1, <2>4 DEF ReplyOf, ReplyWhole
    <3> QED
      BY <1>1, <1>2, <1>3, <2>2, <2>3, <3>1, Hidden
  <2>5. CASE queue'[c] = "last"
    <3>1. ReplyOf(c)' = answer[c] /\ answer[c] \in Answers
      BY <1>1, <1>2, <2>1, <2>5 DEF ReplyOf, ReplyWhole, TypeOK
    <3>2. Abstract!Give(c)
      BY <1>1, <1>2, <1>3, <2>2, <2>3, <3>1, OneMoves DEF Abstract!Give, Life
    <3> QED
      BY <3>2 DEF Abstract!Next
  <2> QED
    BY <2>1, <2>4, <2>5
<1>5. CASE PeerCloses(c)
  <2>1. conn'[c] \in {"closed", "reset"} /\ queue' = queue
    BY <1>1, <1>5 DEF PeerCloses, TypeOK
  <2>2. ReplyOf(c)' = ReplyOf(c)
    BY <1>2, <2>1 DEF ReplyOf, ReplyWhole
  <2>3. StageOf(c)' = "cut"
    BY <1>1, <1>2, <2>1 DEF StageOf, TypeOK
  <2>4. Abstract!Part(c)
    BY <1>1, <1>2, <1>3, <2>2, <2>3, OneMoves DEF Abstract!Part, Life
  <2> QED
    BY <2>4 DEF Abstract!Next
<1> QED
  BY <1>4, <1>5

\* The steps of the instance and of the clock.
LEMMA WorldIsExchange ==
  ASSUME IInv, IInv', BlasterSteps \/ BlasterEnds \/ Tick
  PROVE  [Abstract!Next]_(Abstract!vars)
<1>1. TypeOK /\ Connected /\ TypeOK' /\ Connected'
  BY DEF IInv
<1>2. /\ pc' = pc /\ code' = code /\ queue' = queue /\ received' = received /\ answer' = answer
      /\ \A c \in Clients : ReplyOf(c)' = ReplyOf(c)
  BY DEF BlasterSteps, BlasterEnds, Tick, link, ReplyOf, ReplyWhole
<1>3. CASE BlasterSteps
  <2>1. conn' = conn /\ timer' = timer
    BY <1>3 DEF BlasterSteps, link
  <2>2. \A c \in Clients : StageOf(c)' = StageOf(c) /\ IsLate(c)' = IsLate(c)
    BY <1>2, <2>1 DEF StageOf, IsLate
  <2>3. \/ Life' = Life
        \/ Life = "absent" /\ Life' = "stopped"
        \/ Life = "stopped" /\ Life' \in {"absent", "running"}
    BY <1>3 DEF BlasterSteps, Life
  <2>4. Abstract!LifeSteps \/ UNCHANGED Abstract!vars
    BY <1>2, <2>2, <2>3 DEF Abstract!LifeSteps, Abstract!vars
  <2> QED
    BY <2>4 DEF Abstract!Next
<1>4. CASE BlasterEnds
  <2>1. Life = "running" /\ Life' = "stopped" /\ timer' = timer
    BY <1>4 DEF BlasterEnds, Life
  <2>2. \A c \in Clients : IsLate(c)' = IsLate(c)
    BY <1>2, <2>1 DEF IsLate
  <2>3. ASSUME NEW c \in Clients
        PROVE  StageOf(c)' = IF StageOf(c) = "connected" THEN "cut" ELSE StageOf(c)
    <3>1. IF conn[c] = "open" THEN conn'[c] \in {"closed", "reset"} ELSE conn'[c] = conn[c]
      <4>1. PICK how \in [Clients -> {"closed", "reset"}] :
              conn' = [d \in Clients |-> IF conn[d] = "open" THEN how[d] ELSE conn[d]]
        BY <1>4 DEF BlasterEnds
      <4> QED
        BY <4>1
    <3> QED
      BY <1>1, <1>2, <3>1 DEF StageOf, TypeOK
  <2>4. Abstract!RunEnds
    BY <1>2, <2>1, <2>2, <2>3 DEF Abstract!RunEnds
  <2> QED
    BY <2>4 DEF Abstract!Next
<1>5. CASE Tick
  <2>1. blaster' = blaster /\ conn' = conn
    BY <1>5 DEF Tick, link
  <2>2. \A c \in Clients : StageOf(c)' = StageOf(c)
    BY <1>2, <2>1 DEF StageOf
  <2> DEFINE passed == {c \in Clients : IsLate(c)'}
  <2>3. \A c \in passed : StageOf(c) \in {"connected", "cut"}
    BY <1>1, <1>2 DEF IsLate, StageOf, TypeOK
  <2>4. \A c \in Clients : IsLate(c) => IsLate(c)'
    BY <1>1, <1>2, <1>5 DEF IsLate, Tick, TypeOK
  <2>5. [c \in Clients |-> IsLate(c)]' = [c \in Clients |-> [d \in Clients |-> IsLate(d)][c] \/ c \in passed]
    <3>1. ASSUME NEW c \in Clients PROVE IsLate(c)' = (IsLate(c) \/ c \in passed)
      BY <2>4 DEF IsLate
    <3> QED
      BY <3>1
  <2>6. passed \in SUBSET {c \in Clients : [d \in Clients |-> StageOf(d)][c] \in {"connected", "cut"}}
    BY <2>3
  <2> HIDE DEF passed
  <2>7. Abstract!Expire
    BY <1>2, <2>1, <2>2, <2>5, <2>6 DEF Abstract!Expire, Life
  <2> QED
    BY <2>7 DEF Abstract!Next
<1> QED
  BY <1>3, <1>4, <1>5

LEMMA ExchangeStep ==
  ASSUME IInv, IInv', [Next]_vars
  PROVE  [Abstract!Next]_(Abstract!vars)
<1>1. CASE UNCHANGED vars
  BY <1>1 DEF vars, Abstract!vars, Life, StageOf, ReplyOf, ReplyWhole, IsLate
<1> QED
  BY <1>1, ClientIsExchange, PeerIsExchange, WorldIsExchange DEF Next

\* A command implements Exchange, for any clients and deadlines and whatever the
\* bngblaster and its life do: one answer to each request, which is the reply of the
\* run it was connected to if that came whole and in time; a refused one reached none.
THEOREM ExchangeIsImplemented == Spec => ImplementsExchange
<1>1. Init => Abstract!Init
  <2> SUFFICES ASSUME Init PROVE Abstract!Init
    OBVIOUS
  <2>1. IInv
    BY InitTypeOK DEF Init, IInv, Connected
  <2>2. \A c \in Clients : StageOf(c) = "free" /\ ReplyOf(c) = "none" /\ IsLate(c) = FALSE
    BY <2>1, Shows DEF Init
  <2> QED
    BY <2>2 DEF Init, Abstract!Init, Life
<1>2. IInv /\ IInv' /\ [Next]_vars => [Abstract!Next]_(Abstract!vars)
  BY ExchangeStep
<1> QED
  BY <1>1, <1>2, Invariance, PTL DEF Spec, ImplementsExchange, Abstract!Spec

=============================================================================
