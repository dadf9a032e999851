------------------------------- MODULE DBComm -------------------------------
(***************************************************************************)
(* Messages through the database: sender threads of DBCommBenchClient and  *)
(* receiver threads of DBCommBenchServer play ping-pong over the Message   *)
(* table.  A thread sends a batch of messages asynchronously, waits for    *)
(* the answers to all of them, then polls for a batch in return.           *)
(*                                                                         *)
(* Sender i has endpoint i, receiver i has endpoint i + 100.  What is in a *)
(* message is never looked at: the table is the number of rows for each    *)
(* ReceiverID and SenderID.                                                *)
(***************************************************************************)
EXTENDS Totals

CONSTANTS
  NumSenders,     \* -N of the client, unless it broadcasts: then there is one
  NumMessages,    \* -M of the client: messages in a batch
  MaxEntries,     \* kMaxEntries, the size of the latency array
  AllowFailures   \* may the invocation of a procedure fail?

\* With more than 100 senders an endpoint would have two threads.
ASSUME CommAssumption ==
  /\ NumSenders \in 1 .. 100 /\ NumMessages \in Nat \ {0}
  /\ MaxEntries \in Nat /\ AllowFailures \in BOOLEAN

VARIABLES
  broadcast,          \* -b: each message of a batch goes to a receiver of its own
  Message,            \* rows, by ReceiverID and SenderID
  clientMain,         \* where the client's main() is
  serverUp,           \* the server is running
  mainFinished,
  msgLatsArrayIndex,  \* next free entry of the latency array (atomic)
  pc,                 \* where each thread is
  connected,          \* per thread: it is past the barrier
  issued,             \* per thread: SendMessages not executed yet, by receiver
  answered,           \* per thread: answers its callback has not seen yet
  m_count,            \* per thread: callbacks still to come in this batch
  recvd,              \* per thread: messages of the current batch received
  clientId,           \* per receiver: whom to answer
  failed              \* history: some invocation has failed

tables   == <<Message>>
programs == <<broadcast, clientMain, serverUp, mainFinished, msgLatsArrayIndex>>
threads  == <<pc, connected, issued, answered, m_count, recvd, clientId, failed>>
vars     == <<tables, programs, threads>>

SenderIds   == 0 .. NumSenders - 1
ReceiverIds == 100 .. 99 + (IF NumSenders >= NumMessages THEN NumSenders ELSE NumMessages)
Endpoints   == SenderIds \cup ReceiverIds

\* The threads there are.  Both programs are started so that every receiver has
\* one sender: with -b, one sender and a receiver for each of its messages.
Senders   == IF broadcast THEN {0} ELSE SenderIds
Receivers == 100 .. 99 + (IF broadcast THEN NumMessages ELSE NumSenders)

\* -M: what each thread sends and waits for.
BatchOf(n) == IF broadcast /\ n \in ReceiverIds THEN 1 ELSE NumMessages

\* The process of thread n is running.
Up(n) == \/ n \in Senders /\ clientMain \in {"run", "join"}
         \/ n \in Receivers /\ serverUp

Nothing == [e \in Endpoints |-> 0]

Init ==
  /\ broadcast \in BOOLEAN
  /\ Message = [e \in Endpoints |-> Nothing]
  /\ clientMain = "run" /\ serverUp = TRUE /\ mainFinished = FALSE
  /\ msgLatsArrayIndex = 0
  /\ pc = [n \in Endpoints |-> IF n \in SenderIds THEN "send" ELSE "recv"]
  /\ connected = [n \in Endpoints |-> FALSE]
  /\ issued = [n \in Endpoints |-> Nothing]
  /\ answered = [n \in Endpoints |-> 0]
  /\ m_count = [n \in Endpoints |-> BatchOf(n)]
  /\ recvd = [n \in Endpoints |-> 0]
  /\ clientId = [n \in ReceiverIds |-> -1] /\ failed = FALSE
-----------------------------------------------------------------------------
(* The procedures.                                                         *)

SendMessage(receiverID, senderID) ==
  Message' = [Message EXCEPT ![receiverID][senderID] = @ + 1]

RowCount(receiverID) == SumOf(Message[receiverID])

\* Mutation of ReceiveMessage: the rows are not deleted.
ReceiveWithoutAck(receiverID) == UNCHANGED Message

\* SELECT what there is for the receiver, and DELETE it.
ReceiveMessage(receiverID) == Message' = [Message EXCEPT ![receiverID] = Nothing]
-----------------------------------------------------------------------------
(* dbos_send, in either program.                                           *)

Goto(n, place) == pc' = [pc EXCEPT ![n] = place]

\* Where the messages of one batch go to.
Destinations(n) ==
  CASE n \in Receivers -> [Nothing EXCEPT ![clientId[n]] = BatchOf(n)]
    [] n \in Senders /\ ~broadcast -> [Nothing EXCEPT ![n + 100] = NumMessages]
    [] n \in Senders /\ broadcast ->
         [e \in Endpoints |-> IF e - (n + 100) \in 0 .. NumMessages - 1 THEN 1 ELSE 0]

\* Issue the whole batch, then enter the event loop.
DbosSend(n) ==
  /\ Up(n) /\ pc[n] = "send"
  /\ issued' = [issued EXCEPT ![n] = Destinations(n)]
  /\ Goto(n, "events")
  /\ UNCHANGED <<tables, programs, connected, answered, m_count, recvd, clientId, failed>>

\* Where a thread goes on from the event loop: a sender polls, a receiver waits
\* for its fellows once and then polls for the next batch.
AfterSend(n) == IF n \in Senders \/ connected[n] THEN "recv" ELSE "barrier"

\* Mutation of SendCallback: the counter is not set back.
CallbackWithoutReset(n) ==
  /\ Up(n) /\ pc[n] = "events" /\ answered[n] > 0
  /\ answered' = [answered EXCEPT ![n] = @ - 1]
  /\ m_count' = [m_count EXCEPT ![n] = @ - 1]
  /\ recvd' = [recvd EXCEPT ![n] = IF m_count[n] = 1 THEN 0 ELSE @]
  /\ Goto(n, IF m_count[n] = 1 THEN AfterSend(n) ELSE "events")
  /\ UNCHANGED <<tables, programs, connected, issued, clientId, failed>>

\* The callback; a failure is only reported.  The last one of a batch sets the
\* counter back and breaks the loop.
SendCallback(n) ==
  /\ Up(n) /\ pc[n] = "events" /\ answered[n] > 0
  /\ answered' = [answered EXCEPT ![n] = @ - 1]
  /\ m_count' = [m_count EXCEPT ![n] = IF @ = 1 THEN BatchOf(n) ELSE @ - 1]
  /\ recvd' = [recvd EXCEPT ![n] = IF m_count[n] = 1 THEN 0 ELSE @]
  /\ Goto(n, IF m_count[n] = 1 THEN AfterSend(n) ELSE "events")
  /\ UNCHANGED <<tables, programs, connected, issued, clientId, failed>>

\* The database executes a SendMessage, or it fails, executed or not.  The
\* thread's process may have ended meanwhile.
Execute(n) ==
  \E e \in Endpoints :
    /\ issued[n][e] > 0
    /\ issued' = [issued EXCEPT ![n][e] = @ - 1]
    /\ answered' = [answered EXCEPT ![n] = @ + 1]
    /\ \/ SendMessage(e, n) /\ UNCHANGED failed
       \/ AllowFailures /\ (SendMessage(e, n) \/ UNCHANGED Message) /\ failed' = TRUE
    /\ UNCHANGED <<programs, pc, connected, m_count, recvd, clientId>>
-----------------------------------------------------------------------------
(* dbos_recv, in either program.                                           *)

AfterRecv(n) == IF n \in Receivers THEN "send" ELSE IF connected[n] THEN "record" ELSE "barrier"

\* Mutation of DbosRecv: a receiver answers as soon as there is a message.
RecvAny(n) ==
  /\ Up(n) /\ pc[n] = "recv"
  /\ ReceiveMessage(n)
  /\ recvd' = [recvd EXCEPT ![n] = @ + RowCount(n)]
  /\ IF n \in Receivers /\ RowCount(n) > 0
     THEN \E s \in {e \in Endpoints : Message[n][e] > 0} :
            clientId' = [clientId EXCEPT ![n] = s]
     ELSE UNCHANGED clientId
  /\ Goto(n, IF recvd'[n] > 0 THEN AfterRecv(n) ELSE "recv")
  /\ UNCHANGED <<programs, connected, issued, answered, m_count, failed>>

\* One poll.  A receiver remembers the sender in the first row.
DbosRecv(n) ==
  /\ Up(n) /\ pc[n] = "recv"
  /\ ReceiveMessage(n)
  /\ recvd' = [recvd EXCEPT ![n] = @ + RowCount(n)]
  /\ IF n \in Receivers /\ RowCount(n) > 0
     THEN \E s \in {e \in Endpoints : Message[n][e] > 0} :
            clientId' = [clientId EXCEPT ![n] = s]
     ELSE UNCHANGED clientId
  /\ Goto(n, IF recvd'[n] >= BatchOf(n) THEN AfterRecv(n) ELSE "recv")
  /\ UNCHANGED <<programs, connected, issued, answered, m_count, failed>>

\* A poll that fails ends the program, executed or not.
DbosRecvFails(n) ==
  /\ AllowFailures
  /\ Up(n) /\ pc[n] = "recv"
  /\ ReceiveMessage(n) \/ UNCHANGED Message
  /\ IF n \in Senders THEN clientMain' = "exited" /\ UNCHANGED serverUp
                      ELSE serverUp' = FALSE /\ UNCHANGED clientMain
  /\ failed' = TRUE
  /\ UNCHANGED <<broadcast, mainFinished, msgLatsArrayIndex, pc, connected, issued, answered,
                 m_count, recvd, clientId>>

\* pthread_barrier_wait: each program has a barrier for all its threads.
PassBarrier(group) ==
  /\ \A n \in group : Up(n) /\ pc[n] = "barrier"
  /\ pc' = [n \in Endpoints |-> IF n \notin group THEN pc[n]
                                ELSE IF n \in Senders THEN "send" ELSE "recv"]
  /\ connected' = [n \in Endpoints |-> n \in group \/ connected[n]]
  /\ UNCHANGED <<tables, programs, issued, answered, m_count, recvd, clientId, failed>>
-----------------------------------------------------------------------------
(* The rest of a sender's round, and the client's main.                    *)

Record(n) ==
  /\ Up(n) /\ pc[n] = "record" /\ msgLatsArrayIndex < MaxEntries
  /\ msgLatsArrayIndex' = msgLatsArrayIndex + 1
  /\ Goto(n, "test")
  /\ UNCHANGED <<tables, broadcast, clientMain, serverUp, mainFinished, connected, issued,
                 answered, m_count, recvd, clientId, failed>>

\* The array is full: exit(1).
\* The claim and the exit are one step: a thread that claims between them finds the array
\* full as well, and only exits.
ArrayFull(n) ==
  /\ Up(n) /\ pc[n] = "record" /\ msgLatsArrayIndex >= MaxEntries
  /\ msgLatsArrayIndex' = msgLatsArrayIndex + 1
  /\ clientMain' = "exited"
  /\ UNCHANGED <<tables, broadcast, serverUp, mainFinished, threads>>

LoopTest(n) ==
  /\ Up(n) /\ pc[n] = "test"
  /\ Goto(n, IF mainFinished THEN "finished" ELSE "send")
  /\ UNCHANGED <<tables, programs, connected, issued, answered, m_count, recvd, clientId, failed>>

FinishRun ==
  /\ clientMain = "run"
  /\ clientMain' = "join" /\ mainFinished' = TRUE
  /\ UNCHANGED <<tables, broadcast, serverUp, msgLatsArrayIndex, threads>>

JoinThreads ==
  /\ clientMain = "join" /\ \A n \in Senders : pc[n] = "finished"
  /\ clientMain' = "done"
  /\ UNCHANGED <<tables, broadcast, serverUp, mainFinished, msgLatsArrayIndex, threads>>

Thread(n) ==
  \/ DbosSend(n) \/ SendCallback(n) \/ DbosRecv(n)
  \/ Record(n) \/ ArrayFull(n) \/ LoopTest(n)

Main == FinishRun \/ JoinThreads \/ PassBarrier(Senders) \/ PassBarrier(Receivers)

\* Both programs are over; the server ends only by failing.
Over == clientMain \in {"done", "exited"} /\ ~serverUp /\ UNCHANGED vars

Next ==
  \/ Main
  \/ \E n \in Endpoints : Thread(n) \/ DbosRecvFails(n) \/ Execute(n)
  \/ Over

Spec == Init /\ [][Next]_vars

\* Threads run, barriers open, and the database executes what it is sent.
FairSpec ==
  /\ Spec
  /\ WF_vars(FinishRun) /\ WF_vars(JoinThreads)
  /\ WF_vars(PassBarrier(Senders)) /\ WF_vars(PassBarrier(Receivers))
  /\ \A n \in Endpoints : WF_vars(Thread(n)) /\ WF_vars(Execute(n))
-----------------------------------------------------------------------------
\* Every variable of both programs and the table have their types.
CommTypeOK ==
  /\ Message \in [Endpoints -> [Endpoints -> Nat]]
  /\ clientMain \in {"run", "join", "done", "exited"}
  /\ serverUp \in BOOLEAN /\ mainFinished \in BOOLEAN /\ msgLatsArrayIndex \in Nat
  /\ pc \in [Endpoints -> {"send", "events", "recv", "barrier", "record", "test",
                           "finished"}]
  /\ connected \in [Endpoints -> BOOLEAN]
  /\ issued \in [Endpoints -> [Endpoints -> Nat]]
  /\ answered \in [Endpoints -> Nat]
  /\ m_count \in [Endpoints -> Nat] /\ \A n \in Endpoints : m_count[n] \in 1 .. BatchOf(n)
  /\ recvd \in [Endpoints -> Nat]
  /\ clientId \in [ReceiverIds -> SenderIds \cup {-1}]
  /\ broadcast \in BOOLEAN /\ failed \in BOOLEAN

\* A thread never receives more than the batch it waits for: no message is
\* counted twice and none of another batch slips in, so the latency a sender
\* records is that of one round trip.
BatchExact == \A n \in Endpoints : recvd[n] <= BatchOf(n)

\* When a sender begins a batch, all of the last one has been received and
\* answered: nothing from it or for it is in the table or on its way there.
RoundsDoNotOverlap ==
  \A n \in Senders : pc[n] \in {"send", "record", "test", "finished"} =>
    \A e \in Endpoints : /\ Message[n][e] = 0 /\ Message[e][n] = 0
                         /\ issued[n][e] = 0 /\ issued[e][n] = 0

\* When its time is over the client ends, unless an invocation has failed: no
\* sender waits for ever for a batch.
ClientEnds == mainFinished ~> clientMain \in {"done", "exited"} \/ failed
-----------------------------------------------------------------------------
(* The inductive invariant of DBCommProofs, in parts.                      *)

\* The sender that receiver r plays with.
SenderOf(r) == IF broadcast THEN 0 ELSE r - 100

\* Messages go between a receiver and its sender only.
Linked(n, e) == \/ n \in Receivers /\ e = SenderOf(n)
                \/ e \in Receivers /\ n = SenderOf(e)

OnlyLinks ==
  \A n, e \in Endpoints : ~Linked(n, e) => Message[n][e] = 0 /\ issued[n][e] = 0

\* In the event loop a thread waits for the callbacks of the SendMessages that
\* are not executed or not answered; elsewhere there are none.
BatchCounted ==
  \A n \in Endpoints :
    IF pc[n] = "events" THEN m_count[n] = answered[n] + SumOf(issued[n])
    ELSE answered[n] = 0 /\ issued[n] = Nothing /\ m_count[n] = BatchOf(n)

\* What is on its way to receiver r, and what it has collected of the batch.
Toward(r)    == issued[SenderOf(r)][r] + Message[r][SenderOf(r)]
Collected(r) == IF pc[r] \in {"recv", "barrier"} THEN recvd[r] ELSE 0

\* It has something of this round still to answer, and what that makes it send.
Owes(r)      == pc[r] = "send" \/ Toward(r) + Collected(r) > 0
StillDue(r)  == issued[r][SenderOf(r)] + (IF Owes(r) THEN BatchOf(r) ELSE 0)
Due(s)       == SumOf([r \in Receivers |-> IF SenderOf(r) = s THEN StillDue(r) ELSE 0])

\* A receiver has at most one batch before it, knows whom to answer once it has
\* some of it, and has none of its answers under way while it owes more.
ReceiverInStep ==
  \A r \in Receivers :
    /\ pc[r] \in {"recv", "send", "events", "barrier"}
    /\ Toward(r) + Collected(r) <= BatchOf(r)
    /\ Owes(r) => issued[r][SenderOf(r)] = 0 /\ Message[SenderOf(r)][r] = 0
    /\ pc[r] = "send" => Toward(r) = 0
    /\ pc[r] = "send" \/ Collected(r) > 0 => clientId[r] = SenderOf(r)

\* Between two rounds of its sender nothing is due; in a round what was
\* received, is in the table or is due makes at most one batch.
SenderInStep ==
  \A s \in Senders :
    IF pc[s] \in {"events", "recv"}
    THEN (IF pc[s] = "recv" THEN recvd[s] ELSE 0) + RowCount(s) + Due(s) <= BatchOf(s)
    ELSE \A r \in Receivers : SenderOf(r) = s => StillDue(r) = 0 /\ Message[s][r] = 0

\* What every step of both programs and of the database preserves.
CommInv ==
  /\ CommTypeOK /\ OnlyLinks /\ BatchCounted /\ ReceiverInStep /\ SenderInStep /\ BatchExact
=============================================================================
