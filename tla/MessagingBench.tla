--------------------------- MODULE MessagingBench ---------------------------
(***************************************************************************)
(* The messaging benchmarks that go past the database: GrpcBenchClient     *)
(* with GrpcBenchServer, TCPBenchClient with TCPBenchServer.  A sender     *)
(* thread sends a batch of messages, waits for as many in return, records  *)
(* the latency and begins again; the two programs run one of               *)
(*   "grpc"           a call of PingPong for each message                  *)
(*   "grpcBroadcast"  the same, each call to a receiver of its own (-b)    *)
(*   "stream"         one StreamPingPong call for the whole run (-S)       *)
(*   "tcp"            messages over a socket                               *)
(*   "tcpBroadcast"   over several sockets, one message each (-b)          *)
(*                                                                         *)
(* What is in a message is never looked at, but a TCP message is MsgSize   *)
(* units that read and write may tear apart, so a connection is the number *)
(* of units on their way in each direction.                                *)
(***************************************************************************)
EXTENDS Totals

CONSTANTS
  Modes,          \* the benchmarks that are run
  NumSenders,     \* -N of the client: sender threads
  NumMessages,    \* -M: messages in a batch
  NumReceivers,   \* -R of the client: receivers of a broadcast
  MsgSize,        \* -m: the units of a TCP message
  Buffer,         \* units a connection holds in one direction
  MaxEntries,     \* kMaxEntries, the size of the latency array
  AllowFailures   \* may a call fail, a connection be refused, the server die?

ASSUME MessagingAssumption ==
  /\ Modes \subseteq {"grpc", "grpcBroadcast", "stream", "tcp", "tcpBroadcast"}
  /\ {NumSenders, NumMessages, NumReceivers, MsgSize, Buffer} \subseteq Nat \ {0}
  /\ MaxEntries \in Nat /\ AllowFailures \in BOOLEAN

VARIABLES
  mode,
  clientMain,         \* where the client's main() is
  serverUp,           \* the server process is running
  mainFinished,
  msgLatsArrayIndex,  \* next free entry of the latency array (atomic)
  pc,                 \* where each sender thread is
  connected,          \* how many receivers it has connected to
  sent, got,          \* units of this round it has sent and received
  reading,            \* the receiver whose reply it is reading
  up, down,           \* units on their way to a receiver, and to a sender
  serverPc,           \* where each receiver is
  numMessages,        \* messages in a batch, as far as it knows
  count               \* units it has read, or written, of this batch

programs == <<mode, clientMain, serverUp, mainFinished, msgLatsArrayIndex>>
sender   == <<pc, connected, sent, got, reading>>
network  == <<up, down>>
receiver == <<serverPc, numMessages, count>>
vars     == <<programs, sender, network, receiver>>

Tcp       == mode \in {"tcp", "tcpBroadcast"}
Broadcast == mode \in {"grpcBroadcast", "tcpBroadcast"}
Unary     == mode \in {"grpc", "grpcBroadcast"}

\* A TCP receiver serves one connection only, so there is one sender that
\* broadcasts over TCP; gRPC servers do not mind.
Senders   == IF mode = "tcpBroadcast" THEN {0} ELSE 0 .. NumSenders - 1
Receivers == 0 .. NumSenders + NumReceivers - 2

\* The receivers of sender s, by their ports.
Targets(s) == IF Broadcast THEN s .. s + NumReceivers - 1 ELSE {s}
Sockets    == {c \in (0 .. NumSenders - 1) \X Receivers : c[1] \in Senders /\ c[2] \in Targets(c[1])}

\* The receivers the server was started with.
Serving == {c[2] : c \in Sockets}

MsgUnits == IF Tcp THEN MsgSize ELSE 1
Round(s) == MsgUnits * (IF Broadcast THEN NumReceivers ELSE NumMessages)

ClientUp == clientMain \in {"run", "join"}

Init ==
  /\ mode \in Modes
  /\ clientMain = "run" /\ serverUp = TRUE /\ mainFinished = FALSE
  /\ msgLatsArrayIndex = 0
  /\ pc = [s \in Senders |-> IF Tcp THEN "connect" ELSE "barrier"]
  /\ connected = [s \in Senders |-> 0]
  /\ sent = [s \in Senders |-> 0] /\ got = [s \in Senders |-> 0]
  /\ reading = [s \in Senders |-> s]
  /\ up = [c \in Sockets |-> 0] /\ down = [c \in Sockets |-> 0]
  /\ serverPc = [r \in Serving |-> IF Tcp THEN "accept" ELSE "read"]
  /\ numMessages = [r \in Serving |-> CASE mode = "tcp" -> NumMessages
                                        [] mode = "tcpBroadcast" -> 1
                                        [] OTHER -> -1]
  /\ count = [r \in Serving |-> 0]
-----------------------------------------------------------------------------
(* A sender thread: connect, meet the others, send a round.                *)

Goto(s, place) == pc' = [pc EXCEPT ![s] = place]

\* An exit or an assert that fails ends the client, with all its threads.
ClientExits ==
  /\ clientMain' = "exited"
  /\ UNCHANGED <<mode, serverUp, mainFinished, msgLatsArrayIndex, sender, network, receiver>>

\* Broadcasters over TCP do not wait for each other.
Connect(s) ==
  /\ ClientUp /\ pc[s] = "connect" /\ serverUp
  /\ connected' = [connected EXCEPT ![s] = @ + 1]
  /\ Goto(s, IF connected[s] + 1 < Cardinality(Targets(s)) THEN "connect"
             ELSE IF Broadcast THEN "send" ELSE "barrier")
  /\ UNCHANGED <<programs, sent, got, reading, network, receiver>>

ConnectFails(s) ==
  /\ AllowFailures
  /\ ClientUp /\ pc[s] = "connect"
  /\ ClientExits

PassBarrier ==
  /\ ClientUp /\ \A s \in Senders : pc[s] = "barrier"
  /\ pc' = [s \in Senders |-> "send"]
  /\ UNCHANGED <<programs, connected, sent, got, reading, network, receiver>>

\* The receiver that the next unit goes to.
Target(s) == IF Broadcast THEN s + sent[s] \div MsgUnits ELSE s

Sending(s) == ClientUp /\ pc[s] = "send"

\* One unit more: after the last one of the round the thread turns to the answers.
SentOne(s) ==
  /\ sent' = [sent EXCEPT ![s] = @ + 1]
  /\ got' = [got EXCEPT ![s] = 0]
  /\ Goto(s, IF sent[s] + 1 = Round(s) THEN "recv" ELSE "send")
  /\ UNCHANGED <<programs, connected, reading, down, receiver>>

\* A call is only started; a stream and a socket take what they have room for.
Send(s) ==
  /\ Sending(s) /\ serverUp
  /\ Unary \/ up[<<s, Target(s)>>] < Buffer
  /\ up' = [up EXCEPT ![<<s, Target(s)>>] = @ + 1]
  /\ SentOne(s)

\* The server has died: what is sent is lost (a stream's Write says so, which is
\* not looked at), ...
SendIsLost(s) ==
  /\ Sending(s) /\ ~serverUp
  /\ SentOne(s) /\ UNCHANGED up

\* ... or the socket reports it.
SendFails(s) == Sending(s) /\ ~serverUp /\ Tcp /\ ClientExits
-----------------------------------------------------------------------------
(* ... receive as much in return, and record.                              *)

\* Where the next unit may come from: once a reply over a socket has begun it
\* is read to its end.
Sources(s) == IF Tcp /\ got[s] % MsgUnits # 0 THEN {reading[s]} ELSE Targets(s)

Receiving(s) == ClientUp /\ pc[s] = "recv"

\* Mutation of Recv: what one read returns is taken for a whole message.
RecvShort(s) ==
  /\ Receiving(s)
  /\ \E r \in Sources(s) :
       /\ down[<<s, r>>] > 0
       /\ down' = [down EXCEPT ![<<s, r>>] = @ - 1]
       /\ reading' = [reading EXCEPT ![s] = r]
  /\ got' = [got EXCEPT ![s] = @ + MsgUnits]
  /\ Goto(s, IF got[s] + MsgUnits = Round(s) THEN "record" ELSE "recv")
  /\ UNCHANGED <<programs, connected, sent, up, receiver>>

Recv(s) ==
  /\ Receiving(s)
  /\ \E r \in Sources(s) :
       /\ down[<<s, r>>] > 0
       /\ down' = [down EXCEPT ![<<s, r>>] = @ - 1]
       /\ reading' = [reading EXCEPT ![s] = r]
  /\ got' = [got EXCEPT ![s] = @ + 1]
  /\ Goto(s, IF got[s] + 1 = Round(s) THEN "record" ELSE "recv")
  /\ UNCHANGED <<programs, connected, sent, up, receiver>>

\* A call, or the stream, fails: an assert does not hold.  It may fail at any
\* time, and does when the server has died with the call unanswered.
CallFails(s) ==
  /\ Receiving(s) /\ ~Tcp
  /\ AllowFailures \/ (~serverUp /\ \A r \in Targets(s) : down[<<s, r>>] = 0)
  /\ ClientExits

\* The server has died: read reports an error and the client exits ...
ReadFails(s) == Receiving(s) /\ Tcp /\ ~serverUp /\ ClientExits

\* ... or it returns 0, which is no error and no progress: the loop goes on.
ReadsNothing(s) ==
  /\ Receiving(s) /\ Tcp /\ ~serverUp /\ \A r \in Sources(s) : down[<<s, r>>] = 0
  /\ UNCHANGED vars

\* Mutation of Record: the index is not compared with the size of the array.
RecordUnbounded(s) ==
  /\ ClientUp /\ pc[s] = "record" /\ msgLatsArrayIndex < MaxEntries + 2 * NumSenders
  /\ msgLatsArrayIndex' = msgLatsArrayIndex + 1
  /\ Goto(s, "test")
  /\ UNCHANGED <<mode, clientMain, serverUp, mainFinished, connected, sent, got, reading,
                 network, receiver>>

\* fetch_add claims an entry; a thread whose entry is past the end of the array
\* does not use it, and the others may claim more before its exit takes effect.
Record(s) ==
  /\ ClientUp /\ pc[s] = "record"
  /\ msgLatsArrayIndex' = msgLatsArrayIndex + 1
  /\ Goto(s, IF msgLatsArrayIndex < MaxEntries THEN "test" ELSE "full")
  /\ UNCHANGED <<mode, clientMain, serverUp, mainFinished, connected, sent, got, reading,
                 network, receiver>>

ArrayFull(s) == ClientUp /\ pc[s] = "full" /\ ClientExits

LoopTest(s) ==
  /\ ClientUp /\ pc[s] = "test"
  /\ sent' = [sent EXCEPT ![s] = 0]
  /\ Goto(s, IF ~mainFinished THEN "send" ELSE IF mode = "stream" THEN "finish" ELSE "finished")
  /\ UNCHANGED <<programs, connected, got, reading, network, receiver>>

\* WritesDone, then Finish waits for the handler's status.
Finish(s) ==
  /\ ClientUp /\ pc[s] = "finish" /\ serverPc[s] = "returned"
  /\ Goto(s, "finished")
  /\ UNCHANGED <<programs, connected, sent, got, reading, network, receiver>>

FinishFails(s) ==
  /\ ClientUp /\ pc[s] = "finish" /\ (AllowFailures \/ ~serverUp)
  /\ ClientExits

FinishRun ==
  /\ clientMain = "run"
  /\ clientMain' = "join" /\ mainFinished' = TRUE
  /\ UNCHANGED <<mode, serverUp, msgLatsArrayIndex, sender, network, receiver>>

JoinThreads ==
  /\ clientMain = "join" /\ \A s \in Senders : pc[s] = "finished"
  /\ clientMain' = "done"
  /\ UNCHANGED <<mode, serverUp, mainFinished, msgLatsArrayIndex, sender, network, receiver>>
-----------------------------------------------------------------------------
(* The server.  A gRPC one has handlers, a TCP one a thread per receiver.  *)

\* A handler has answered one call.
PingPong(c) ==
  /\ serverUp /\ Unary /\ up[c] > 0
  /\ up' = [up EXCEPT ![c] = @ - 1] /\ down' = [down EXCEPT ![c] = @ + 1]
  /\ UNCHANGED <<programs, sender, receiver>>

\* accept: the one connection a receiver serves.
Accept(c) ==
  /\ serverUp /\ serverPc[c[2]] = "accept"
  /\ connected[c[1]] > c[2] - c[1]
  /\ serverPc' = [serverPc EXCEPT ![c[2]] = "barrier"]
  /\ UNCHANGED <<programs, sender, network, numMessages, count>>

\* No receiver reads before each has its connection.
ServerBarrier ==
  /\ serverUp /\ \A r \in Serving : serverPc[r] = "barrier"
  /\ serverPc' = [r \in Serving |-> "read"]
  /\ UNCHANGED <<programs, sender, network, numMessages, count>>

\* A stream's first message says how many there are in a batch.
BatchOf(r) == MsgUnits * (IF numMessages[r] < 0 THEN NumMessages ELSE numMessages[r])

\* Mutation of ReadUnit: each message is answered on its own.
ReadAndAnswerEach(c) ==
  /\ serverUp /\ ~Unary /\ serverPc[c[2]] = "read" /\ up[c] > 0
  /\ up' = [up EXCEPT ![c] = @ - 1]
  /\ numMessages' = [numMessages EXCEPT ![c[2]] = 1]
  /\ count' = [count EXCEPT ![c[2]] = (@ + 1) % MsgUnits]
  /\ serverPc' = [serverPc EXCEPT ![c[2]] = IF count'[c[2]] = 0 THEN "write" ELSE "read"]
  /\ UNCHANGED <<programs, sender, down>>

\* StreamPingPong and the TCP receiver: read a batch ...
ReadUnit(c) ==
  /\ serverUp /\ ~Unary /\ serverPc[c[2]] = "read" /\ up[c] > 0
  /\ up' = [up EXCEPT ![c] = @ - 1]
  /\ numMessages' = [numMessages EXCEPT ![c[2]] = IF @ < 0 THEN NumMessages ELSE @]
  /\ count' = [count EXCEPT ![c[2]] = (@ + 1) % BatchOf(c[2])]
  /\ serverPc' = [serverPc EXCEPT ![c[2]] = IF count'[c[2]] = 0 THEN "write" ELSE "read"]
  /\ UNCHANGED <<programs, sender, down>>

\* ... then write as much.
WriteUnit(c) ==
  /\ serverUp /\ serverPc[c[2]] = "write" /\ down[c] < Buffer
  /\ down' = [down EXCEPT ![c] = @ + 1]
  /\ count' = [count EXCEPT ![c[2]] = (@ + 1) % BatchOf(c[2])]
  /\ serverPc' = [serverPc EXCEPT ![c[2]] = IF count'[c[2]] = 0 THEN "read" ELSE "write"]
  /\ UNCHANGED <<programs, sender, up, numMessages>>

\* Mutation of StreamEnds: the handler reads on after the client's WritesDone.
StreamGoesOn(c) ==
  /\ serverUp /\ mode = "stream" /\ ~ClientUp /\ serverPc[c[2]] \in {"read", "write"}
  /\ serverPc' = [serverPc EXCEPT ![c[2]] = "returned"]
  /\ UNCHANGED <<programs, sender, network, numMessages, count>>

\* The stream is over: the client has written its last, or is gone.
StreamEnds(c) ==
  /\ serverUp /\ mode = "stream"
  /\ \/ serverPc[c[2]] = "read" /\ up[c] = 0 /\ (pc[c[1]] = "finish" \/ ~ClientUp)
     \/ serverPc[c[2]] = "write" /\ ~ClientUp
  /\ serverPc' = [serverPc EXCEPT ![c[2]] = "returned"]
  /\ UNCHANGED <<programs, sender, network, numMessages, count>>

\* The client is gone, with answers to come or unread: the server exits.
SocketFails(c) ==
  /\ serverUp /\ Tcp /\ ~ClientUp
  /\ serverPc[c[2]] = "write" \/ (serverPc[c[2]] = "read" /\ down[c] > 0)
  /\ serverUp' = FALSE
  /\ UNCHANGED <<mode, clientMain, mainFinished, msgLatsArrayIndex, sender, network, receiver>>

\* The server process dies.
ServerDies ==
  /\ AllowFailures /\ serverUp
  /\ serverUp' = FALSE
  /\ UNCHANGED <<mode, clientMain, mainFinished, msgLatsArrayIndex, sender, network, receiver>>

\* The client is over; a receiver without one waits, or reads nothing, for ever.
Over == ~ClientUp /\ UNCHANGED vars

Thread(s) ==
  \/ Connect(s) \/ ConnectFails(s) \/ Send(s) \/ SendIsLost(s) \/ SendFails(s)
  \/ Recv(s) \/ CallFails(s) \/ ReadFails(s) \/ ReadsNothing(s)
  \/ Record(s) \/ ArrayFull(s) \/ LoopTest(s) \/ Finish(s) \/ FinishFails(s)

Main == PassBarrier \/ FinishRun \/ JoinThreads

Receiver(c) ==
  PingPong(c) \/ Accept(c) \/ ReadUnit(c) \/ WriteUnit(c) \/ StreamEnds(c) \/ SocketFails(c)

Next ==
  \/ \E s \in Senders : Thread(s)
  \/ Main
  \/ \E c \in Sockets : Receiver(c)
  \/ ServerBarrier \/ ServerDies \/ Over

Spec == Init /\ [][Next]_vars

\* What a thread does when it runs: its calls fail only if the server has died.
Progress(s) ==
  \/ Connect(s) \/ Send(s) \/ SendIsLost(s) \/ Recv(s)
  \/ Record(s) \/ ArrayFull(s) \/ LoopTest(s) \/ Finish(s)
  \/ ~serverUp /\ (ConnectFails(s) \/ CallFails(s) \/ FinishFails(s))

\* Threads and handlers run, barriers open; nothing need fail.
FairSpec ==
  /\ Spec
  /\ \A s \in 0 .. NumSenders - 1 : WF_vars(s \in Senders /\ Progress(s))
  /\ WF_vars(PassBarrier) /\ WF_vars(FinishRun) /\ WF_vars(JoinThreads)
  /\ \A s \in 0 .. NumSenders - 1, r \in Receivers :
       WF_vars(<<s, r>> \in Sockets /\ Receiver(<<s, r>>) /\ serverUp')
  /\ WF_vars(ServerBarrier)
-----------------------------------------------------------------------------
\* Every variable of the two programs has its type, and a buffer holds what it
\* can.
MessagingTypeOK ==
  /\ mode \in Modes /\ clientMain \in {"run", "join", "done", "exited"}
  /\ serverUp \in BOOLEAN /\ mainFinished \in BOOLEAN
  /\ msgLatsArrayIndex \in Nat
  /\ pc \in [Senders -> {"connect", "barrier", "send", "recv", "record", "full", "test",
                         "finish", "finished"}]
  /\ {connected, sent, got, reading} \subseteq [Senders -> Nat]
  /\ \A s \in Senders : /\ connected[s] <= Cardinality(Targets(s))
                        /\ sent[s] <= Round(s) /\ got[s] <= Round(s)
                        /\ reading[s] \in Targets(s)
  /\ {up, down} \subseteq [Sockets -> Nat]
  /\ \A c \in Sockets : ~Unary => up[c] <= Buffer /\ down[c] <= Buffer
  /\ serverPc \in [Serving -> {"accept", "barrier", "read", "write", "returned"}]
  /\ numMessages \in [Serving -> {-1, 1, NumMessages}]
  /\ count \in [Serving -> Nat] /\ \A r \in Serving : count[r] < BatchOf(r)

\* A latency is that of one round: when a sender has received its last unit,
\* nothing of this round is on its way in either direction, and each of its
\* receivers is at the start of a batch, whatever read and write tore apart.
RoundsInStep ==
  \A c \in Sockets :
    pc[c[1]] \in {"record", "full", "test", "finish", "finished"} =>
      /\ up[c] = 0 /\ down[c] = 0
      /\ count[c[2]] = 0 /\ serverPc[c[2]] # "write"

\* A receiver of a stream or a socket answers only what it was sent in full:
\* nothing is on its way back while its sender may still be blocked writing, so
\* the two never wait for each other with full buffers.
AnswersFollowBatch ==
  \A c \in Sockets : ~Unary /\ (down[c] > 0 \/ serverPc[c[2]] = "write") =>
    \/ pc[c[1]] = "recv"
    \/ Broadcast /\ sent[c[1]] >= MsgUnits * (c[2] - c[1] + 1)

\* When its time is over the client ends, with its own return or an exit: no
\* sender waits for ever, except over TCP for a server that died, whose closed
\* socket reads as no data.
MessagingClientEnds == mainFinished ~> ~ClientUp \/ (Tcp /\ ~serverUp)
-----------------------------------------------------------------------------
(* The inductive invariant of MessagingProofs, in parts.                   *)

\* The units of one batch over a socket, and how many of this round's were sent
\* to it: a broadcaster serves its receivers one after the other.
SocketBatch == MsgUnits * (IF Broadcast THEN 1 ELSE NumMessages)

SentBefore(c) == MsgUnits * (c[2] - c[1])

SentTo(c) ==
  IF ~Broadcast THEN sent[c[1]]
  ELSE IF sent[c[1]] <= SentBefore(c) THEN 0
  ELSE IF sent[c[1]] - SentBefore(c) <= MsgUnits THEN sent[c[1]] - SentBefore(c)
  ELSE MsgUnits

\* Units that a receiver has read and not written back, all that are under way
\* over a socket, and over all sockets of a sender.
InHand(c) == CASE serverPc[c[2]] = "read"  -> count[c[2]]
               [] serverPc[c[2]] = "write" -> SocketBatch - count[c[2]]
               [] OTHER -> 0
Load(c)     == up[c] + InHand(c) + down[c]
UnderWay(s) == SumOf([r \in Targets(s) |-> Load(<<s, r>>)])

\* What a receiver knows and where it can be in each of the benchmarks.
ReceiverInMode ==
  \A r \in Serving :
    /\ mode = "tcp" => numMessages[r] = NumMessages
    /\ mode = "tcpBroadcast" => numMessages[r] = 1
    /\ ~Tcp => /\ numMessages[r] \in {-1, NumMessages}
               /\ serverPc[r] \notin {"accept", "barrier"}
    /\ Unary => serverPc[r] = "read" /\ count[r] = 0

\* Where a sender is tells how much of the round it has sent.
SenderInRound ==
  \A s \in Senders :
    /\ pc[s] = "connect" => connected[s] < Cardinality(Targets(s))
    /\ pc[s] \in {"connect", "barrier"} => sent[s] = 0
    /\ pc[s] = "send" => sent[s] < Round(s)
    /\ pc[s] = "recv" => sent[s] = Round(s)

\* Nothing is received twice: what is under way or received was sent in this
\* round, and between two rounds there is nothing.
RoundCounted ==
  \A s \in Senders :
    UnderWay(s) + (IF pc[s] = "recv" THEN got[s] ELSE 0)
      <= (IF pc[s] \in {"send", "recv"} THEN sent[s] ELSE 0)

\* A receiver of a stream or a socket reads a batch, and when it has read it
\* all, writes as much.
SocketFlow ==
  ~Unary => \A c \in Sockets :
    LET r == c[2] IN
    /\ serverPc[r] = "read" =>
         \/ down[c] = 0 /\ up[c] + count[r] <= SentTo(c)
         \/ up[c] = 0 /\ count[r] = 0 /\ SentTo(c) = SocketBatch
    /\ serverPc[r] = "write" => up[c] = 0 /\ down[c] <= count[r] /\ SentTo(c) = SocketBatch
    /\ serverPc[r] \in {"accept", "barrier"} => down[c] = 0 /\ count[r] = 0 /\ up[c] <= SentTo(c)
    /\ serverPc[r] = "returned" =>
         /\ down[c] > 0 => SentTo(c) = SocketBatch
         /\ pc[c[1]] \in {"finish", "finished"} \/ ~ClientUp

\* An entry past the end of the latency array is claimed only by a thread that
\* goes on to exit(1): there are at most NumSenders of them, and each latency
\* that is recorded has an entry of the array.
EntriesClaimed ==
  msgLatsArrayIndex <= MaxEntries + Cardinality({s \in Senders : pc[s] = "full"})

\* What every step of the two programs preserves.
MessagingInv ==
  /\ MessagingTypeOK /\ ReceiverInMode /\ SenderInRound /\ RoundCounted /\ SocketFlow /\ RoundsInStep
  /\ EntriesClaimed
=============================================================================
