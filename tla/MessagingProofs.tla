-------------------------- MODULE MessagingProofs ---------------------------
(***************************************************************************)
(* Proofs about MessagingBench: a round of messages is over before the     *)
(* next begins, for any number of senders, receivers and messages, and     *)
(* however read and write tear the messages apart.                         *)
(***************************************************************************)
EXTENDS MessagingBench, TotalsProofs

(* The parameters.                                                         *)

LEMMA Given ==
  /\ NumSenders \in Nat /\ NumSenders >= 1 /\ NumMessages \in Nat /\ NumMessages >= 1
  /\ NumReceivers \in Nat /\ NumReceivers >= 1 /\ MsgSize \in Nat /\ MsgSize >= 1
  /\ Buffer \in Nat /\ Buffer >= 1 /\ MaxEntries \in Nat
BY MessagingAssumption

LEMMA ProductPos ==
  ASSUME NEW a \in Nat, NEW b \in Nat, a >= 1, b >= 1
  PROVE  a * b \in Nat /\ a * b >= 1 /\ a * b >= a
OBVIOUS

LEMMA Units ==
  /\ MsgUnits \in Nat /\ MsgUnits >= 1 /\ SocketBatch \in Nat /\ SocketBatch >= 1
  /\ \A s : Round(s) \in Nat /\ Round(s) >= 1 /\ (~Broadcast => Round(s) = SocketBatch)
  /\ \A s : Broadcast => Round(s) = MsgUnits * NumReceivers /\ SocketBatch = MsgUnits
<1>1. MsgUnits \in Nat /\ MsgUnits >= 1
  BY Given DEF MsgUnits
<1>2. PICK m \in Nat : m = MsgUnits /\ m >= 1
  BY <1>1
<1>3. /\ m * NumMessages \in Nat /\ m * NumMessages >= 1
      /\ m * NumReceivers \in Nat /\ m * NumReceivers >= 1
  BY <1>2, Given, ProductPos
<1>4. m * 1 = m
  BY <1>2
<1> QED BY <1>1, <1>2, <1>3, <1>4 DEF SocketBatch, Round

\* Who is connected with whom.
LEMMA Topology ==
  /\ \A s \in Senders : /\ s \in Nat /\ s < NumSenders
                        /\ IsFiniteSet(Targets(s)) /\ Targets(s) \subseteq Nat /\ s \in Targets(s)
                        /\ Cardinality(Targets(s)) \in Nat /\ Cardinality(Targets(s)) >= 1
                        /\ \A r \in Targets(s) : <<s, r>> \in Sockets
  /\ \A c \in Sockets : /\ c[1] \in Senders /\ c[2] \in Targets(c[1]) /\ c[2] \in Serving
                        /\ c = <<c[1], c[2]>>
  /\ ~Unary => \A c, d \in Sockets : c[2] = d[2] => c = d
<1>1. ASSUME NEW s \in Senders
      PROVE  /\ s \in Nat /\ s < NumSenders
             /\ IsFiniteSet(Targets(s)) /\ Targets(s) \subseteq Receivers /\ s \in Targets(s)
             /\ Cardinality(Targets(s)) \in Nat /\ Cardinality(Targets(s)) >= 1
  <2>1. s \in Nat /\ s < NumSenders /\ s \in 0 .. NumSenders - 1
    BY Given DEF Senders
  <2>2. IsFiniteSet(Targets(s))
    <3>1. IsFiniteSet({s})
      BY FS_Singleton
    <3>2. \A a, b \in Int : IsFiniteSet(a .. b)
      BY FS_Interval
    <3>3. s \in Int /\ s + NumReceivers - 1 \in Int
      BY <2>1, Given
    <3> QED BY <3>1, <3>2, <3>3 DEF Targets
  <2>3. Targets(s) \subseteq Receivers /\ s \in Targets(s)
    BY <2>1, Given DEF Targets, Receivers
  <2>4. Cardinality(Targets(s)) \in Nat
    BY <2>2, FS_CardinalityType
  <2>5. Cardinality(Targets(s)) # 0
    BY <2>2, <2>3, FS_EmptySet
  <2> QED BY <2>1, <2>2, <2>3, <2>4, <2>5
<1>2. ASSUME NEW s \in Senders, NEW r \in Targets(s) PROVE <<s, r>> \in Sockets
  <2>1. s \in 0 .. NumSenders - 1 /\ r \in Receivers
    BY <1>1, Given
  <2> QED BY <2>1 DEF Sockets
<1>3. ASSUME NEW c \in Sockets
      PROVE  /\ c[1] \in Senders /\ c[2] \in Targets(c[1]) /\ c[2] \in Serving
             /\ c = <<c[1], c[2]>>
  BY DEF Sockets, Serving
<1>4. ASSUME ~Unary, NEW c \in Sockets, NEW d \in Sockets, c[2] = d[2] PROVE c = d
  <2>1. CASE mode = "tcpBroadcast"
    <3>1. c[1] = 0 /\ d[1] = 0
      BY <1>3, <2>1 DEF Senders
    <3> QED BY <1>3, <1>4, <3>1
  <2>2. CASE mode # "tcpBroadcast"
    <3>1. ~Broadcast
      BY <1>4, <2>2 DEF Unary, Broadcast
    <3>2. c[2] = c[1] /\ d[2] = d[1]
      BY <1>3, <3>1 DEF Targets
    <3> QED BY <1>3, <1>4, <3>2
  <2> QED BY <2>1, <2>2
<1>5. Receivers \subseteq Nat
  BY DEF Receivers
<1> QED BY <1>1, <1>2, <1>3, <1>4, <1>5

\* The benchmark, and with it who takes part, never changes.
LEMMA ModeNext == [Next]_vars => mode' = mode
BY DEF Next, Thread, Main, Receiver, Connect, ConnectFails, Send, SendIsLost, SendFails, SentOne, Recv,
       CallFails, ReadFails, ReadsNothing, Record, ArrayFull, LoopTest, Finish, FinishFails, ClientExits,
       PassBarrier, FinishRun, JoinThreads, PingPong, Accept, ReadUnit, WriteUnit, StreamEnds, SocketFails,
       ServerBarrier, ServerDies, Over, vars, programs

LEMMA ModeStill ==
  ASSUME mode' = mode
  PROVE  /\ Senders' = Senders /\ Sockets' = Sockets /\ Serving' = Serving
         /\ (Tcp' <=> Tcp) /\ (Unary' <=> Unary) /\ (Broadcast' <=> Broadcast)
         /\ MsgUnits' = MsgUnits /\ SocketBatch' = SocketBatch
         /\ \A s : Round(s)' = Round(s) /\ Targets(s)' = Targets(s)
         /\ \A c : SentBefore(c)' = SentBefore(c)
<1>1. (Tcp' <=> Tcp) /\ (Unary' <=> Unary) /\ (Broadcast' <=> Broadcast) /\ Senders' = Senders
  BY DEF Tcp, Unary, Broadcast, Senders
<1>2. MsgUnits' = MsgUnits /\ \A s : Targets(s)' = Targets(s)
  BY <1>1 DEF MsgUnits, Targets
<1>3. Sockets' = Sockets
  BY <1>1, <1>2 DEF Sockets, Receivers
<1>4. Serving' = Serving
  BY <1>3 DEF Serving
<1>5. SocketBatch' = SocketBatch /\ \A s : Round(s)' = Round(s)
  BY <1>1, <1>2 DEF SocketBatch, Round
<1>6. \A c : SentBefore(c)' = SentBefore(c)
  BY <1>2 DEF SentBefore
<1> QED BY <1>1, <1>2, <1>3, <1>4, <1>5, <1>6

(* What is under way.                                                      *)

SenderPlaces == {"connect", "barrier", "send", "recv", "record", "full", "test", "finish",
                 "finished"}
ServerPlaces == {"accept", "barrier", "read", "write", "returned"}

TypesOK ==
  /\ pc \in [Senders -> SenderPlaces]
  /\ connected \in [Senders -> Nat] /\ sent \in [Senders -> Nat] /\ got \in [Senders -> Nat]
  /\ reading \in [Senders -> Nat]
  /\ up \in [Sockets -> Nat] /\ down \in [Sockets -> Nat]
  /\ serverPc \in [Serving -> ServerPlaces]
  /\ numMessages \in [Serving -> {-1, 1, NumMessages}] /\ count \in [Serving -> Nat]

LEMMA Types == MessagingTypeOK => TypesOK
BY DEF MessagingTypeOK, TypesOK, SenderPlaces, ServerPlaces

\* A receiver that holds a connection counts in units of its batch.
LEMMA BatchIs ==
  ReceiverInMode => \A r \in Serving : ~Unary => BatchOf(r) = SocketBatch
<1> SUFFICES ASSUME ReceiverInMode, NEW r \in Serving, ~Unary PROVE BatchOf(r) = SocketBatch
  OBVIOUS
<1>1. CASE mode = "tcp"
  BY <1>1, Given DEF ReceiverInMode, BatchOf, SocketBatch, Broadcast
<1>2. CASE mode = "tcpBroadcast"
  BY <1>2 DEF ReceiverInMode, BatchOf, SocketBatch, Broadcast
<1>3. CASE mode \notin {"tcp", "tcpBroadcast"}
  <2>1. ~Tcp /\ ~Broadcast
    BY <1>3 DEF Tcp, Broadcast, Unary
  <2>2. numMessages[r] \in {-1, NumMessages}
    BY <2>1 DEF ReceiverInMode
  <2> QED BY <2>1, <2>2, Given DEF BatchOf, SocketBatch
<1> QED BY <1>1, <1>2, <1>3

LoadsOK ==
  /\ \A c \in Sockets : /\ up[c] \in Nat /\ down[c] \in Nat /\ count[c[2]] \in Nat
                        /\ InHand(c) \in Nat /\ Load(c) \in Nat
                        /\ ~Unary => count[c[2]] < SocketBatch
  /\ \A s \in Senders : UnderWay(s) \in Nat
  /\ TypesOK

LEMMA Loads == MessagingTypeOK /\ ReceiverInMode => LoadsOK
<1> SUFFICES ASSUME MessagingTypeOK, ReceiverInMode PROVE LoadsOK
  OBVIOUS
<1>1. TypesOK
  BY Types
<1>2. ASSUME NEW c \in Sockets
      PROVE  /\ up[c] \in Nat /\ down[c] \in Nat /\ count[c[2]] \in Nat
             /\ InHand(c) \in Nat /\ Load(c) \in Nat
             /\ ~Unary => count[c[2]] < SocketBatch
  <2>1. up[c] \in Nat /\ down[c] \in Nat /\ count[c[2]] \in Nat /\ c[2] \in Serving
    BY <1>1, Topology DEF TypesOK
  <2>2. ~Unary => count[c[2]] < SocketBatch
    BY <2>1, BatchIs DEF MessagingTypeOK
  <2>3. Unary => serverPc[c[2]] = "read"
    BY <2>1 DEF ReceiverInMode
  <2>4. InHand(c) \in Nat
    BY <2>1, <2>2, <2>3, Units DEF InHand
  <2> QED BY <2>1, <2>2, <2>4 DEF Load
<1>3. ASSUME NEW s \in Senders PROVE UnderWay(s) \in Nat
  <2>1. PICK f : f = [r \in Targets(s) |-> Load(<<s, r>>)]
    OBVIOUS
  <2>2. f \in [Targets(s) -> Nat] /\ IsFiniteSet(Targets(s))
    BY <1>2, <2>1, Topology
  <2> QED BY <2>1, <2>2, SumNat DEF UnderWay
<1> QED BY <1>1, <1>2, <1>3 DEF LoadsOK

LEMMA LoadsNext == MessagingTypeOK' /\ ReceiverInMode' => LoadsOK'
BY Loads, PTL

LoadTable(s) == [r \in Targets(s) |-> Load(<<s, r>>)]

LEMMA LoadTableIs ==
  ASSUME LoadsOK, NEW s \in Senders
  PROVE  /\ UnderWay(s) = SumOf(LoadTable(s)) /\ LoadTable(s) \in [Targets(s) -> Nat]
         /\ \A r \in Targets(s) : LoadTable(s)[r] = Load(<<s, r>>)
BY Topology DEF UnderWay, LoadTable, LoadsOK

LEMMA LoadTableNext ==
  ASSUME LoadsOK', mode' = mode, NEW s \in Senders
  PROVE  /\ UnderWay(s)' = SumOf(LoadTable(s)') /\ LoadTable(s)' \in [Targets(s) -> Nat]
         /\ \A r \in Targets(s) : LoadTable(s)'[r] = Load(<<s, r>>)'
<1>1. Targets(s)' = Targets(s) /\ Sockets' = Sockets
  BY ModeStill
<1>2. UnderWay(s)' = SumOf(LoadTable(s)')
  BY DEF UnderWay, LoadTable
<1>3. LoadTable(s)' = [r \in Targets(s) |-> Load(<<s, r>>)']
  BY <1>1 DEF LoadTable
<1>4. \A r \in Targets(s) : Load(<<s, r>>)' \in Nat
  BY <1>1, Topology DEF LoadsOK
<1> QED BY <1>2, <1>3, <1>4

LEMMA LoadKept ==
  ASSUME LoadsOK, LoadsOK', mode' = mode, NEW s \in Senders,
         \A r \in Targets(s) : Load(<<s, r>>)' <= Load(<<s, r>>)
  PROVE  UnderWay(s)' <= UnderWay(s)
<1>1. \A r \in Targets(s) : LoadTable(s)'[r] <= LoadTable(s)[r]
  BY LoadTableIs, LoadTableNext
<1>2. IsFiniteSet(Targets(s))
  BY Topology
<1> QED BY <1>1, <1>2, LoadTableIs, LoadTableNext, SumMonotone

LEMMA LoadFollows ==
  ASSUME LoadsOK, LoadsOK', mode' = mode, NEW s \in Senders, NEW r0 \in Targets(s),
         \A r \in Targets(s) \ {r0} : Load(<<s, r>>)' = Load(<<s, r>>)
  PROVE  UnderWay(s)' = UnderWay(s) + Load(<<s, r0>>)' - Load(<<s, r0>>)
<1>1. \A r \in Targets(s) \ {r0} : LoadTable(s)'[r] = LoadTable(s)[r]
  BY LoadTableIs, LoadTableNext
<1>2. LoadTable(s)[r0] = Load(<<s, r0>>) /\ LoadTable(s)'[r0] = Load(<<s, r0>>)'
  BY LoadTableIs, LoadTableNext
<1>3. IsFiniteSet(Targets(s))
  BY Topology
<1> QED BY <1>1, <1>2, <1>3, LoadTableIs, LoadTableNext, SumChanges

LEMMA LoadBounds ==
  ASSUME LoadsOK, NEW s \in Senders
  PROVE  /\ \A r \in Targets(s) : Load(<<s, r>>) <= UnderWay(s)
         /\ UnderWay(s) = 0 <=> \A r \in Targets(s) : Load(<<s, r>>) = 0
<1>1. IsFiniteSet(Targets(s))
  BY Topology
<1>2. /\ \A r \in Targets(s) : LoadTable(s)[r] <= SumOf(LoadTable(s))
      /\ SumOf(LoadTable(s)) = 0 <=> \A r \in Targets(s) : LoadTable(s)[r] = 0
  BY <1>1, LoadTableIs, SumBounds
<1> QED BY <1>2, LoadTableIs

(* How much was sent over each socket of a broadcaster.                    *)

LEMMA Scaled ==
  ASSUME NEW m \in Nat, NEW a \in Nat, NEW b \in Nat, a < b
  PROVE  m * a \in Nat /\ m * b \in Nat /\ m * a + m <= m * b
<1>1. PICK d \in Nat : b = a + 1 + d
  BY b - a - 1 \in Nat
<1>2. m * b = m * a + m + m * d /\ m * d \in Nat /\ m * a \in Nat
  BY <1>1
<1> QED BY <1>2

LEMMA Divided ==
  ASSUME NEW m \in Nat, m >= 1, NEW x \in Nat
  PROVE  /\ x \div m \in Nat /\ m * (x \div m) <= x /\ x < m * (x \div m) + m
         /\ m * (x \div m) \in Nat
OBVIOUS

LEMMA SentBeforeIs ==
  ASSUME NEW c \in Sockets, Broadcast
  PROVE  /\ c[1] \in Nat /\ c[2] \in Nat /\ c[2] - c[1] \in Nat
         /\ SentBefore(c) \in Nat /\ SentBefore(c) = MsgUnits * (c[2] - c[1])
         /\ MsgUnits * (c[2] - c[1] + 1) = SentBefore(c) + MsgUnits
<1>1. c[1] \in Nat /\ c[2] \in c[1] .. c[1] + NumReceivers - 1
  BY Topology DEF Targets
<1>2. PICK d \in Nat : d = c[2] - c[1]
  BY <1>1, Given
<1>3. PICK m \in Nat : m = MsgUnits
  BY Units
<1>4. m * d \in Nat /\ m * (d + 1) = m * d + m
  OBVIOUS
<1> QED BY <1>1, <1>2, <1>3, <1>4, Given DEF SentBefore

LEMMA SentToIs ==
  ASSUME TypesOK, NEW c \in Sockets, sent[c[1]] <= Round(c[1])
  PROVE  /\ SentTo(c) \in Nat /\ SentTo(c) <= SocketBatch
         /\ SentTo(c) = SocketBatch =>
              \/ sent[c[1]] = Round(c[1])
              \/ Broadcast /\ sent[c[1]] >= MsgUnits * (c[2] - c[1] + 1)
<1>1. sent[c[1]] \in Nat
  BY Topology DEF TypesOK
<1>2. CASE ~Broadcast
  BY <1>1, <1>2, Units DEF SentTo
<1>3. CASE Broadcast
  <2>1. SentBefore(c) \in Nat /\ MsgUnits * (c[2] - c[1] + 1) = SentBefore(c) + MsgUnits
    BY <1>3, SentBeforeIs
  <2>2. SocketBatch = MsgUnits /\ MsgUnits \in Nat /\ MsgUnits >= 1
    BY <1>3, Units
  <2> QED BY <1>1, <1>3, <2>1, <2>2 DEF SentTo
<1> QED BY <1>2, <1>3

LEMMA SentToGrows ==
  ASSUME TypesOK, mode' = mode, NEW c \in Sockets, sent'[c[1]] = sent[c[1]] + 1
  PROVE  /\ SentTo(c)' >= SentTo(c)
         /\ c[2] = Target(c[1]) => SentTo(c)' = SentTo(c) + 1
<1>1. sent[c[1]] \in Nat /\ c[1] \in Nat
  BY Topology DEF TypesOK
<1>2. /\ (Broadcast' <=> Broadcast) /\ MsgUnits' = MsgUnits /\ SentBefore(c)' = SentBefore(c)
  BY ModeStill
<1>3. CASE ~Broadcast
  BY <1>1, <1>2, <1>3 DEF SentTo
<1>4. CASE Broadcast
  <2>1. /\ SentBefore(c) \in Nat /\ SentBefore(c) = MsgUnits * (c[2] - c[1]) /\ c[2] \in Nat
        /\ MsgUnits \in Nat /\ MsgUnits >= 1
    BY <1>4, SentBeforeIs, Units
  <2>2. PICK b \in Nat : b = SentBefore(c)
    BY <2>1
  <2>3. PICK m \in Nat : m = MsgUnits /\ m >= 1
    BY <2>1
  <2>4. PICK x \in Nat : x = sent[c[1]]
    BY <1>1
  <2>5. SentTo(c) = IF x <= b THEN 0 ELSE IF x - b <= m THEN x - b ELSE m
    BY <1>4, <2>2, <2>3, <2>4 DEF SentTo
  <2>6. SentTo(c)' = IF x + 1 <= b THEN 0 ELSE IF x + 1 - b <= m THEN x + 1 - b ELSE m
    BY <1>2, <1>4, <2>2, <2>3, <2>4 DEF SentTo
  <2>7. SentTo(c)' >= SentTo(c)
    BY <2>3, <2>5, <2>6
  <2>8. ASSUME c[2] = Target(c[1]) PROVE SentTo(c)' = SentTo(c) + 1
    <3>1. c[2] = c[1] + x \div m
      BY <1>4, <2>3, <2>4, <2>8 DEF Target
    <3>2. x \div m \in Nat /\ m * (x \div m) <= x /\ x < m * (x \div m) + m
      BY <2>3, Divided
    <3>3. c[2] - c[1] = x \div m
      BY <1>1, <3>1, <3>2
    <3>4. b <= x /\ x < b + m
      BY <2>1, <2>2, <2>3, <3>2, <3>3
    <3> QED BY <2>3, <2>5, <2>6, <3>4
  <2> QED BY <2>7, <2>8
<1> QED BY <1>3, <1>4

LEMMA TargetIn ==
  ASSUME TypesOK, NEW s \in Senders, sent[s] < Round(s)
  PROVE  Target(s) \in Targets(s)
<1>1. sent[s] \in Nat /\ s \in Nat
  BY Topology DEF TypesOK
<1>2. CASE ~Broadcast
  BY <1>2 DEF Target, Targets
<1>3. CASE Broadcast
  <2>1. PICK m \in Nat : m = MsgUnits /\ m >= 1
    BY Units
  <2>2. PICK q \in Nat : q = sent[s] \div m
    BY <1>1, <2>1, Divided
  <2>3. m * q <= sent[s] /\ sent[s] < m * q + m /\ m * q \in Nat
    BY <1>1, <2>1, <2>2, Divided
  <2>4. sent[s] < m * NumReceivers /\ NumReceivers \in Nat /\ m * NumReceivers \in Nat
    BY <1>3, <2>1, Units, Given
  <2>5. q < NumReceivers
    <3>1. SUFFICES ASSUME ~(q < NumReceivers) PROVE FALSE
      OBVIOUS
    <3>2. q = NumReceivers \/ NumReceivers < q
      BY <2>4, <3>1
    <3>3. m * NumReceivers <= m * q
      <4>1. CASE q = NumReceivers
        BY <2>3, <4>1
      <4>2. CASE NumReceivers < q
        <5>1. m * NumReceivers + m <= m * q
          BY <2>4, <4>2, Scaled
        <5> QED BY <2>1, <2>3, <2>4, <5>1
      <4> QED BY <3>2, <4>1, <4>2
    <3> QED BY <1>1, <2>3, <2>4, <3>3
  <2>6. s + q \in s .. s + NumReceivers - 1
    BY <1>1, <2>4, <2>5
  <2> QED BY <1>3, <2>1, <2>2, <2>6 DEF Target, Targets
<1> QED BY <1>2, <1>3

(* The invariant, sender by sender and socket by socket.                   *)

ModeOK(r) ==
  /\ mode = "tcp" => numMessages[r] = NumMessages
  /\ mode = "tcpBroadcast" => numMessages[r] = 1
  /\ ~Tcp => /\ numMessages[r] \in {-1, NumMessages}
             /\ serverPc[r] \notin {"accept", "barrier"}
  /\ Unary => serverPc[r] = "read" /\ count[r] = 0

PlaceOK(s) ==
  /\ pc[s] = "connect" => connected[s] < Cardinality(Targets(s))
  /\ pc[s] \in {"connect", "barrier"} => sent[s] = 0
  /\ pc[s] = "send" => sent[s] < Round(s)
  /\ pc[s] = "recv" => sent[s] = Round(s)

CountOK(s) ==
  UnderWay(s) + (IF pc[s] = "recv" THEN got[s] ELSE 0)
    <= (IF pc[s] \in {"send", "recv"} THEN sent[s] ELSE 0)

FlowOK(c) ==
  /\ serverPc[c[2]] = "read" =>
       \/ down[c] = 0 /\ up[c] + count[c[2]] <= SentTo(c)
       \/ up[c] = 0 /\ count[c[2]] = 0 /\ SentTo(c) = SocketBatch
  /\ serverPc[c[2]] = "write" => up[c] = 0 /\ down[c] <= count[c[2]] /\ SentTo(c) = SocketBatch
  /\ serverPc[c[2]] \in {"accept", "barrier"} =>
       down[c] = 0 /\ count[c[2]] = 0 /\ up[c] <= SentTo(c)
  /\ serverPc[c[2]] = "returned" =>
       /\ down[c] > 0 => SentTo(c) = SocketBatch
       /\ pc[c[1]] \in {"finish", "finished"} \/ ~ClientUp

Between == {"record", "full", "test", "finish", "finished"}

RestOK(c) ==
  pc[c[1]] \in Between =>
    up[c] = 0 /\ down[c] = 0 /\ count[c[2]] = 0 /\ serverPc[c[2]] # "write"

LEMMA InvParts ==
  /\ ReceiverInMode <=> \A r \in Serving : ModeOK(r)
  /\ SenderInRound <=> \A s \in Senders : PlaceOK(s)
  /\ RoundCounted <=> \A s \in Senders : CountOK(s)
  /\ SocketFlow <=> (~Unary => \A c \in Sockets : FlowOK(c))
  /\ RoundsInStep <=> \A c \in Sockets : RestOK(c)
<1>1. /\ ReceiverInMode <=> \A r \in Serving : ModeOK(r)
      /\ SenderInRound <=> \A s \in Senders : PlaceOK(s)
      /\ RoundCounted <=> \A s \in Senders : CountOK(s)
  BY Zenon DEF ReceiverInMode, SenderInRound, RoundCounted, ModeOK, PlaceOK, CountOK
<1>2. SocketFlow <=> (~Unary => \A c \in Sockets : FlowOK(c))
  BY Zenon DEF SocketFlow, FlowOK
<1>3. RoundsInStep <=> \A c \in Sockets : RestOK(c)
  BY Zenon DEF RoundsInStep, RestOK, Between
<1> QED BY <1>1, <1>2, <1>3

LEMMA InvFacts ==
  ASSUME MessagingInv
  PROVE  /\ MessagingTypeOK /\ LoadsOK /\ TypesOK /\ ReceiverInMode
         /\ \A r \in Serving : ModeOK(r)
         /\ \A s \in Senders : PlaceOK(s) /\ CountOK(s)
         /\ ~Unary => \A c \in Sockets : FlowOK(c)
         /\ \A c \in Sockets : RestOK(c)
BY Loads, InvParts DEF MessagingInv, LoadsOK

\* The threads that found the latency array full.
LEMMA FullFinite ==
  LET full == {s \in Senders : pc[s] = "full"}
  IN  IsFiniteSet(full) /\ Cardinality(full) \in Nat
<1> DEFINE full == {s \in Senders : pc[s] = "full"}
<1>1. IsFiniteSet(0 .. NumSenders - 1)
  BY Given, FS_Interval
<1>2. full \subseteq 0 .. NumSenders - 1
  BY Given DEF Senders
<1>3. IsFiniteSet(full)
  BY <1>1, <1>2, FS_Subset
<1> QED BY <1>3, FS_CardinalityType

\* They stay there, so a step that claims no entry keeps the account of entries.
LEMMA EntriesKept ==
  ASSUME MessagingInv, mode' = mode, msgLatsArrayIndex' = msgLatsArrayIndex,
         \A s \in Senders : pc[s] = "full" => pc'[s] = "full"
  PROVE  EntriesClaimed'
<1> DEFINE full == {s \in Senders : pc[s] = "full"}
           more == {s \in Senders' : pc'[s] = "full"}
<1>1. IsFiniteSet(full) /\ Cardinality(full) \in Nat
  BY FullFinite
<1>2. IsFiniteSet(more) /\ Cardinality(more) \in Nat
  <2>1. more \subseteq 0 .. NumSenders - 1
    BY Given DEF Senders
  <2>2. IsFiniteSet(0 .. NumSenders - 1)
    BY Given, FS_Interval
  <2> HIDE DEF more
  <2>3. IsFiniteSet(more)
    BY <2>1, <2>2, FS_Subset
  <2> QED BY <2>3, FS_CardinalityType
<1>3. full \subseteq more
  BY ModeStill
<1>4. /\ msgLatsArrayIndex \in Nat /\ MaxEntries \in Nat
      /\ msgLatsArrayIndex <= MaxEntries + Cardinality(full)
  BY Given DEF MessagingInv, MessagingTypeOK, EntriesClaimed
<1> HIDE DEF full, more
<1>5. Cardinality(full) <= Cardinality(more)
  BY <1>1, <1>2, <1>3, FS_Subset
<1>6. msgLatsArrayIndex' <= MaxEntries + Cardinality(more)
  BY <1>1, <1>2, <1>4, <1>5
<1> QED BY <1>6 DEF EntriesClaimed, more

LEMMA InvNext ==
  ASSUME mode' = mode, MessagingTypeOK', \A r \in Serving : ModeOK(r)',
         \A s \in Senders : PlaceOK(s)' /\ CountOK(s)',
         ~Unary => \A c \in Sockets : FlowOK(c)',
         \A c \in Sockets : RestOK(c)',
         EntriesClaimed'
  PROVE  MessagingInv'
<1>1. Senders' = Senders /\ Sockets' = Sockets /\ Serving' = Serving /\ (Unary' <=> Unary)
  BY ModeStill
<1>2. /\ (\A r \in Serving : ModeOK(r))'
      /\ (\A s \in Senders : PlaceOK(s))' /\ (\A s \in Senders : CountOK(s))'
      /\ (~Unary => \A c \in Sockets : FlowOK(c))'
      /\ (\A c \in Sockets : RestOK(c))'
  BY <1>1
<1>3. ReceiverInMode' /\ SenderInRound' /\ RoundCounted' /\ SocketFlow' /\ RoundsInStep'
  BY <1>2, InvParts, PTL
<1> QED BY <1>3 DEF MessagingInv

LEMMA LoadsAfter ==
  ASSUME mode' = mode, MessagingTypeOK', \A r \in Serving : ModeOK(r)'
  PROVE  LoadsOK'
<1>1. Serving' = Serving
  BY ModeStill
<1>2. (\A r \in Serving : ModeOK(r))'
  BY <1>1
<1>3. ReceiverInMode'
  BY <1>2, InvParts, PTL
<1> QED BY <1>3, LoadsNext

SentOK ==
  \A c \in Sockets :
    /\ SentTo(c) \in Nat /\ SentTo(c) <= SocketBatch
    /\ SentTo(c) = SocketBatch =>
         \/ sent[c[1]] = Round(c[1])
         \/ Broadcast /\ sent[c[1]] >= MsgUnits * (c[2] - c[1] + 1)

LEMMA Sent == MessagingTypeOK => SentOK
BY Types, SentToIs, Topology DEF SentOK, MessagingTypeOK

LEMMA SentNext == MessagingTypeOK' => SentOK'
BY Sent, PTL

(* What a step that leaves a socket or a sender alone preserves.           *)

SocketStill(c) ==
  /\ up'[c] = up[c] /\ down'[c] = down[c]
  /\ serverPc'[c[2]] = serverPc[c[2]] /\ count'[c[2]] = count[c[2]]

SenderStill(s) ==
  /\ pc'[s] = pc[s] /\ sent'[s] = sent[s] /\ got'[s] = got[s] /\ connected'[s] = connected[s]

LEMMA LoadStill ==
  ASSUME mode' = mode, NEW c, SocketStill(c)
  PROVE  Load(c)' = Load(c)
<1>1. SocketBatch' = SocketBatch
  BY ModeStill
<1>2. InHand(c)' = InHand(c)
  BY <1>1 DEF SocketStill, InHand
<1> QED BY <1>2 DEF SocketStill, Load

LEMMA FlowStill ==
  ASSUME mode' = mode, NEW c, SocketStill(c), pc'[c[1]] = pc[c[1]], sent'[c[1]] = sent[c[1]],
         ClientUp' => ClientUp
  PROVE  /\ FlowOK(c) => FlowOK(c)'
         /\ RestOK(c) => RestOK(c)'
<1>1. SocketBatch' = SocketBatch /\ SentTo(c)' = SentTo(c)
  BY ModeStill DEF SentTo
<1>2. FlowOK(c) => FlowOK(c)'
  BY <1>1 DEF SocketStill, FlowOK
<1>3. RestOK(c) => RestOK(c)'
  BY DEF SocketStill, RestOK
<1> QED BY <1>2, <1>3

LEMMA SenderKept ==
  ASSUME LoadsOK, LoadsOK', mode' = mode, NEW s \in Senders, SenderStill(s),
         \A r \in Targets(s) : Load(<<s, r>>)' <= Load(<<s, r>>),
         PlaceOK(s), CountOK(s)
  PROVE  PlaceOK(s)' /\ CountOK(s)'
<1>1. UnderWay(s)' <= UnderWay(s)
  BY LoadKept
<1>2. Targets(s)' = Targets(s) /\ Round(s)' = Round(s) /\ Senders' = Senders
  BY ModeStill
<1>3. UnderWay(s) \in Nat /\ UnderWay(s)' \in Nat /\ got[s] \in Nat /\ sent[s] \in Nat
  BY <1>2 DEF LoadsOK, TypesOK
<1>4. PlaceOK(s)'
  BY <1>2 DEF PlaceOK, SenderStill
<1>5. CountOK(s)'
  <2>1. PICK g \in Nat : g = IF pc[s] = "recv" THEN got[s] ELSE 0
    BY <1>3
  <2>2. PICK x \in Nat : x = IF pc[s] \in {"send", "recv"} THEN sent[s] ELSE 0
    BY <1>3
  <2>3. UnderWay(s)' + g <= x
    BY <1>1, <1>3, <2>1, <2>2 DEF CountOK
  <2>4. g = (IF pc'[s] = "recv" THEN got'[s] ELSE 0) /\ x = (IF pc'[s] \in {"send", "recv"} THEN sent'[s] ELSE 0)
    BY <2>1, <2>2 DEF SenderStill
  <2> QED BY <2>3, <2>4 DEF CountOK
<1> QED BY <1>4, <1>5

LEMMA ModeKept ==
  ASSUME mode' = mode, NEW r, ModeOK(r), numMessages'[r] = numMessages[r],
         serverPc'[r] = serverPc[r], count'[r] = count[r]
  PROVE  ModeOK(r)'
BY ModeStill DEF ModeOK

\* Steps of main() and exits, and of the server process.
LEMMA OutsideStep ==
  ASSUME MessagingInv, UNCHANGED <<mode, sender, network, receiver>>,
         clientMain' \in {"run", "join", "done", "exited"}, serverUp' \in BOOLEAN, mainFinished' \in BOOLEAN,
         msgLatsArrayIndex' = msgLatsArrayIndex, ClientUp' => ClientUp
  PROVE  MessagingInv'
<1>1. /\ Senders' = Senders /\ Sockets' = Sockets /\ Serving' = Serving
      /\ (Unary' <=> Unary) /\ MsgUnits' = MsgUnits
      /\ \A s : Round(s)' = Round(s) /\ Targets(s)' = Targets(s)
  BY ModeStill
<1>2. UNCHANGED <<mode, pc, connected, sent, got, reading, up, down, serverPc, numMessages, count>>
  BY DEF sender, network, receiver
<1>3. MessagingTypeOK'
  <2>1. \A r : BatchOf(r)' = BatchOf(r)
    BY <1>1, <1>2 DEF BatchOf
  <2> QED BY <1>1, <1>2, <2>1 DEF MessagingInv, MessagingTypeOK
<1>4. \A c : SocketStill(c)
  BY <1>2 DEF SocketStill
<1>5. \A s : SenderStill(s)
  BY <1>2 DEF SenderStill
<1>6. \A r \in Serving : ModeOK(r)'
  BY <1>2, InvFacts, ModeKept
<1>7. LoadsOK /\ LoadsOK'
  BY <1>2, <1>3, <1>6, InvFacts, LoadsAfter
<1>8. \A s \in Senders : PlaceOK(s)' /\ CountOK(s)'
  <2>1. SUFFICES ASSUME NEW s \in Senders PROVE PlaceOK(s)' /\ CountOK(s)'
    OBVIOUS
  <2>2. \A r \in Targets(s) : Load(<<s, r>>)' <= Load(<<s, r>>)
    BY <1>2, <1>4, <1>7, LoadStill, Topology DEF LoadsOK
  <2> QED BY <1>2, <1>5, <1>7, <2>2, InvFacts, SenderKept
<1>9. \A c \in Sockets : (~Unary => FlowOK(c)') /\ RestOK(c)'
  BY <1>2, <1>4, InvFacts, FlowStill
<1>10. EntriesClaimed'
  BY <1>2, EntriesKept
<1> QED BY <1>2, <1>3, <1>6, <1>8, <1>9, <1>10, InvNext

LEMMA OutsideSteps ==
  ASSUME MessagingInv,
         \/ UNCHANGED vars \/ FinishRun \/ JoinThreads \/ ServerDies
         \/ \E s \in Senders : \/ ConnectFails(s) \/ SendFails(s) \/ CallFails(s) \/ ReadFails(s)
                               \/ ReadsNothing(s) \/ ArrayFull(s) \/ FinishFails(s)
         \/ \E c \in Sockets : SocketFails(c)
  PROVE  MessagingInv'
<1>1. /\ clientMain \in {"run", "join", "done", "exited"} /\ serverUp \in BOOLEAN /\ mainFinished \in BOOLEAN
  BY DEF MessagingInv, MessagingTypeOK
<1>2. CASE UNCHANGED vars \/ \E s \in Senders : ReadsNothing(s)
  <2>1. UNCHANGED vars
    BY <1>2 DEF ReadsNothing
  <2> QED BY <1>1, <2>1, OutsideStep DEF vars, programs, ClientUp
<1>3. CASE FinishRun \/ JoinThreads
  BY <1>1, <1>3, OutsideStep DEF FinishRun, JoinThreads, ClientUp
<1>4. CASE ServerDies \/ \E c \in Sockets : SocketFails(c)
  <2>1. /\ UNCHANGED <<mode, clientMain, mainFinished, msgLatsArrayIndex, sender, network, receiver>>
        /\ serverUp' = FALSE
    BY <1>4 DEF ServerDies, SocketFails
  <2> QED BY <1>1, <2>1, OutsideStep DEF ClientUp
<1>5. CASE ClientExits
  BY <1>1, <1>5, OutsideStep DEF ClientExits, ClientUp
<1> QED BY <1>2, <1>3, <1>4, <1>5
        DEF ConnectFails, SendFails, CallFails, ReadFails, ArrayFull, FinishFails

(* A sender between two rounds.                                            *)

Moves(s) ==
  /\ ClientUp /\ pc[s] \notin {"send", "recv"} /\ pc'[s] # "recv"
  /\ pc'[s] \in Between => pc[s] \in Between
  /\ pc[s] \in {"finish", "finished"} => pc'[s] \in {"finish", "finished"}

\* Nothing is on its way over the sockets of a sender that is not in a round.
LEMMA Quiet ==
  ASSUME MessagingInv, NEW c \in Sockets, pc[c[1]] \notin {"send", "recv"}
  PROVE  /\ UnderWay(c[1]) = 0 /\ Load(c) = 0 /\ up[c] = 0 /\ down[c] = 0 /\ InHand(c) = 0
         /\ ~Unary => serverPc[c[2]] # "write" /\ (serverPc[c[2]] = "read" => count[c[2]] = 0)
<1>1. c[1] \in Senders /\ c[2] \in Targets(c[1]) /\ c = <<c[1], c[2]>>
  BY Topology
<1>2. LoadsOK /\ CountOK(c[1])
  BY <1>1, InvFacts
<1>3. UnderWay(c[1]) = 0
  BY <1>1, <1>2 DEF CountOK, LoadsOK
<1>4. Load(c) = 0
  BY <1>1, <1>2, <1>3, LoadBounds
<1>5. /\ up[c] \in Nat /\ down[c] \in Nat /\ InHand(c) \in Nat /\ count[c[2]] \in Nat
      /\ ~Unary => count[c[2]] < SocketBatch
  BY <1>2 DEF LoadsOK
<1>6. up[c] = 0 /\ down[c] = 0 /\ InHand(c) = 0
  BY <1>4, <1>5 DEF Load
<1>7. ~Unary => serverPc[c[2]] # "write" /\ (serverPc[c[2]] = "read" => count[c[2]] = 0)
  BY <1>5, <1>6, Units DEF InHand
<1> QED BY <1>3, <1>4, <1>6, <1>7

LEMMA MoveStep ==
  ASSUME MessagingInv, mode' = mode, MessagingTypeOK', UNCHANGED <<network, receiver>>,
         ClientUp' => ClientUp, EntriesClaimed',
         \A s \in Senders : PlaceOK(s)' /\ (SenderStill(s) \/ Moves(s))
  PROVE  MessagingInv'
<1>1. /\ Senders' = Senders /\ Sockets' = Sockets
      /\ \A s : Targets(s)' = Targets(s)
  BY ModeStill
<1>2. UNCHANGED <<up, down, serverPc, numMessages, count>>
  BY DEF network, receiver
<1>3. \A c : SocketStill(c) /\ Load(c)' = Load(c)
  BY <1>2, LoadStill DEF SocketStill
<1>4. \A r \in Serving : ModeOK(r)'
  BY <1>2, InvFacts, ModeKept
<1>5. LoadsOK /\ LoadsOK' /\ SentOK'
  BY <1>4, InvFacts, LoadsAfter, SentNext
<1>6. ASSUME NEW s \in Senders PROVE PlaceOK(s)' /\ CountOK(s)'
  <2>1. \A r \in Targets(s) : Load(<<s, r>>)' <= Load(<<s, r>>)
    BY <1>3, <1>5, Topology DEF LoadsOK
  <2>2. CASE SenderStill(s)
    BY <1>5, <2>1, <2>2, InvFacts, SenderKept
  <2>3. CASE Moves(s)
    <3>1. UnderWay(s) = 0 /\ UnderWay(s)' <= UnderWay(s) /\ UnderWay(s)' \in Nat
      BY <1>1, <1>5, <2>1, <2>3, InvFacts, LoadKept DEF CountOK, Moves, LoadsOK
    <3>2. sent'[s] \in Nat
      BY <1>1, <1>5 DEF LoadsOK, TypesOK
    <3>3. pc'[s] # "recv" /\ UnderWay(s)' = 0
      BY <2>3, <3>1 DEF Moves
    <3>4. CountOK(s)'
      BY <3>2, <3>3 DEF CountOK
    <3> QED BY <3>4
  <2> QED BY <2>2, <2>3
<1>7. ASSUME NEW c \in Sockets PROVE (~Unary => FlowOK(c)') /\ RestOK(c)'
  <2>1. c[1] \in Senders
    BY Topology
  <2>2. CASE SenderStill(c[1])
    BY <1>3, <2>2, InvFacts, FlowStill DEF SenderStill
  <2>3. CASE Moves(c[1])
    <3>1. /\ up[c] = 0 /\ down[c] = 0
          /\ ~Unary => serverPc[c[2]] # "write" /\ (serverPc[c[2]] = "read" => count[c[2]] = 0)
      BY <2>3, Quiet DEF Moves
    <3>2. SentTo(c)' \in Nat
      BY <1>1, <1>5 DEF SentOK
    <3>3. ~Unary => FlowOK(c)'
      <4>1. SUFFICES ASSUME ~Unary PROVE FlowOK(c)'
        OBVIOUS
      <4>2. FlowOK(c)
        BY <4>1, InvFacts
      <4>3. serverPc[c[2]] = "returned" => pc'[c[1]] \in {"finish", "finished"}
        BY <2>3, <4>2 DEF FlowOK, Moves
      <4> QED BY <1>2, <3>1, <3>2, <4>1, <4>2, <4>3 DEF FlowOK
    <3>4. RestOK(c)'
      <4>1. RestOK(c)
        BY InvFacts
      <4> QED BY <1>2, <2>3, <4>1 DEF RestOK, Moves
    <3> QED BY <3>3, <3>4
  <2> QED BY <2>1, <2>2, <2>3
<1> QED BY <1>4, <1>6, <1>7, InvNext

(* Types, part by part.                                                    *)

ProgramTypes ==
  /\ mode \in Modes /\ clientMain \in {"run", "join", "done", "exited"}
  /\ serverUp \in BOOLEAN /\ mainFinished \in BOOLEAN
  /\ msgLatsArrayIndex \in Nat

SenderTypes ==
  /\ pc \in [Senders -> SenderPlaces]
  /\ connected \in [Senders -> Nat] /\ sent \in [Senders -> Nat] /\ got \in [Senders -> Nat]
  /\ reading \in [Senders -> Nat]
  /\ \A s \in Senders : /\ connected[s] <= Cardinality(Targets(s))
                        /\ sent[s] <= Round(s) /\ got[s] <= Round(s)
                        /\ reading[s] \in Targets(s)

NetworkTypes ==
  /\ up \in [Sockets -> Nat] /\ down \in [Sockets -> Nat]
  /\ \A c \in Sockets : ~Unary => up[c] <= Buffer /\ down[c] <= Buffer

ReceiverTypes ==
  /\ serverPc \in [Serving -> ServerPlaces]
  /\ numMessages \in [Serving -> {-1, 1, NumMessages}]
  /\ count \in [Serving -> Nat] /\ \A r \in Serving : count[r] < BatchOf(r)

LEMMA TypeParts == MessagingTypeOK <=> ProgramTypes /\ SenderTypes /\ NetworkTypes /\ ReceiverTypes
BY DEF MessagingTypeOK, ProgramTypes, SenderTypes, NetworkTypes, ReceiverTypes, SenderPlaces, ServerPlaces

LEMMA TypePartsNext ==
  ProgramTypes' /\ SenderTypes' /\ NetworkTypes' /\ ReceiverTypes' => MessagingTypeOK'
BY TypeParts, PTL

LEMMA PartsStill ==
  ASSUME MessagingTypeOK, mode' = mode
  PROVE  /\ UNCHANGED programs => ProgramTypes'
         /\ UNCHANGED sender => SenderTypes'
         /\ UNCHANGED network => NetworkTypes'
         /\ UNCHANGED receiver => ReceiverTypes'
<1>1. /\ Senders' = Senders /\ Sockets' = Sockets /\ Serving' = Serving
      /\ (Unary' <=> Unary) /\ MsgUnits' = MsgUnits
      /\ \A s : Round(s)' = Round(s) /\ Targets(s)' = Targets(s)
  BY ModeStill
<1>2. ProgramTypes /\ SenderTypes /\ NetworkTypes /\ ReceiverTypes
  BY TypeParts
<1>3. UNCHANGED programs => ProgramTypes'
  BY <1>2 DEF programs, ProgramTypes
<1>4. UNCHANGED sender => SenderTypes'
  BY <1>1, <1>2 DEF sender, SenderTypes
<1>5. UNCHANGED network => NetworkTypes'
  BY <1>1, <1>2 DEF network, NetworkTypes
<1>6. UNCHANGED receiver => ReceiverTypes'
  BY <1>1, <1>2 DEF receiver, ReceiverTypes, BatchOf
<1> QED BY <1>3, <1>4, <1>5, <1>6

\* Connecting, meeting at the barrier, recording, and the loop's test.
LEMMA ConnectStep ==
  ASSUME MessagingInv, NEW s \in Senders, Connect(s)
  PROVE  MessagingInv'
<1>1. mode' = mode /\ UNCHANGED <<programs, network, receiver>>
  BY DEF Connect, programs
<1>2. /\ Senders' = Senders /\ (ClientUp' <=> ClientUp)
      /\ \A x : Round(x)' = Round(x) /\ Targets(x)' = Targets(x)
  BY <1>1, ModeStill DEF programs, ClientUp
<1>3. SenderTypes /\ MessagingTypeOK /\ PlaceOK(s)
  BY TypeParts, InvFacts
<1>4. /\ pc[s] = "connect" /\ ClientUp /\ connected[s] \in Nat /\ sent[s] = 0
      /\ connected'[s] = connected[s] + 1
      /\ pc'[s] = IF connected[s] + 1 < Cardinality(Targets(s)) THEN "connect"
                  ELSE IF Broadcast THEN "send" ELSE "barrier"
      /\ \A x \in Senders \ {s} : pc'[x] = pc[x] /\ connected'[x] = connected[x]
      /\ UNCHANGED <<sent, got, reading>>
      /\ pc' \in [Senders -> SenderPlaces] /\ connected' \in [Senders -> Nat]
  BY <1>3 DEF Connect, Goto, SenderTypes, PlaceOK, SenderPlaces
<1>5. Cardinality(Targets(s)) \in Nat /\ Round(s) \in Nat /\ Round(s) >= 1
  BY Topology, Units
<1>6. SenderTypes'
  <2>1. connected'[s] <= Cardinality(Targets(s))
    BY <1>3, <1>4, <1>5 DEF PlaceOK
  <2> QED BY <1>2, <1>3, <1>4, <2>1 DEF SenderTypes
<1>7. MessagingTypeOK'
  BY <1>1, <1>3, <1>6, PartsStill, TypePartsNext
<1>8. PlaceOK(s)' /\ Moves(s)
  BY <1>2, <1>4, <1>5 DEF PlaceOK, Moves, Between
<1>9. \A x \in Senders : PlaceOK(x)' /\ (SenderStill(x) \/ Moves(x))
  <2>1. SUFFICES ASSUME NEW x \in Senders, x # s PROVE PlaceOK(x)' /\ SenderStill(x)
    BY <1>8
  <2>2. SenderStill(x) /\ PlaceOK(x)
    BY <1>4, <2>1, InvFacts DEF SenderStill
  <2> QED BY <1>2, <2>2 DEF PlaceOK, SenderStill
<1>10. EntriesClaimed'
  BY <1>1, <1>4, EntriesKept DEF programs
<1> QED BY <1>1, <1>2, <1>7, <1>9, <1>10, MoveStep

LEMMA BarrierStep ==
  ASSUME MessagingInv, PassBarrier
  PROVE  MessagingInv'
<1>1. mode' = mode /\ UNCHANGED <<programs, network, receiver>>
  BY DEF PassBarrier, programs
<1>2. /\ Senders' = Senders /\ (ClientUp' <=> ClientUp)
      /\ \A x : Round(x)' = Round(x) /\ Targets(x)' = Targets(x)
  BY <1>1, ModeStill DEF programs, ClientUp
<1>3. SenderTypes /\ MessagingTypeOK
  BY TypeParts, InvFacts
<1>4. /\ ClientUp /\ pc' = [s \in Senders |-> "send"] /\ UNCHANGED <<connected, sent, got, reading>>
      /\ \A s \in Senders : pc[s] = "barrier"
  BY DEF PassBarrier
<1>5. SenderTypes'
  BY <1>2, <1>3, <1>4 DEF SenderTypes, SenderPlaces
<1>6. MessagingTypeOK'
  BY <1>1, <1>3, <1>5, PartsStill, TypePartsNext
<1>7. ASSUME NEW s \in Senders PROVE PlaceOK(s)' /\ Moves(s)
  <2>1. PlaceOK(s) /\ Round(s) \in Nat /\ Round(s) >= 1
    BY InvFacts, Units
  <2> QED BY <1>2, <1>4, <2>1 DEF PlaceOK, Moves, Between
<1>8. EntriesClaimed'
  BY <1>1, <1>4, EntriesKept DEF programs
<1> QED BY <1>1, <1>2, <1>6, <1>7, <1>8, MoveStep

LEMMA RecordStep ==
  ASSUME MessagingInv, NEW s \in Senders, Record(s)
  PROVE  MessagingInv'
<1>1. /\ mode' = mode /\ UNCHANGED <<clientMain, serverUp, mainFinished, network, receiver>>
      /\ msgLatsArrayIndex' = msgLatsArrayIndex + 1
  BY DEF Record
<1>2. /\ Senders' = Senders /\ (ClientUp' <=> ClientUp)
      /\ \A x : Round(x)' = Round(x) /\ Targets(x)' = Targets(x)
  BY <1>1, ModeStill DEF ClientUp
<1>3. SenderTypes /\ ProgramTypes /\ MessagingTypeOK
  BY TypeParts, InvFacts
<1>4. /\ pc[s] = "record" /\ ClientUp
      /\ pc'[s] = IF msgLatsArrayIndex < MaxEntries THEN "test" ELSE "full"
      /\ \A x \in Senders \ {s} : pc'[x] = pc[x]
      /\ UNCHANGED <<connected, sent, got, reading>>
      /\ pc' \in [Senders -> SenderPlaces]
  BY <1>3 DEF Record, Goto, SenderTypes, SenderPlaces
<1>5. SenderTypes'
  BY <1>2, <1>3, <1>4 DEF SenderTypes
<1>6. ProgramTypes'
  BY <1>1, <1>3 DEF ProgramTypes
<1>7. MessagingTypeOK'
  BY <1>1, <1>3, <1>5, <1>6, PartsStill, TypePartsNext
<1>8. PlaceOK(s)' /\ Moves(s)
  BY <1>4 DEF PlaceOK, Moves, Between
<1>9. \A x \in Senders : PlaceOK(x)' /\ (SenderStill(x) \/ Moves(x))
  <2>1. SUFFICES ASSUME NEW x \in Senders, x # s PROVE PlaceOK(x)' /\ SenderStill(x)
    BY <1>8
  <2>2. SenderStill(x) /\ PlaceOK(x)
    BY <1>4, <2>1, InvFacts DEF SenderStill
  <2> QED BY <1>2, <2>2 DEF PlaceOK, SenderStill
<1>10. EntriesClaimed'
  <2> DEFINE full == {x \in Senders : pc[x] = "full"}
  <2>1. IsFiniteSet(full) /\ Cardinality(full) \in Nat
    BY FullFinite
  <2>2. msgLatsArrayIndex \in Nat /\ MaxEntries \in Nat /\ msgLatsArrayIndex <= MaxEntries + Cardinality(full)
    BY <1>3, Given DEF ProgramTypes, MessagingInv, EntriesClaimed
  <2>3. CASE msgLatsArrayIndex < MaxEntries
    <3>1. {x \in Senders' : pc'[x] = "full"} = full
      BY <1>2, <1>4, <2>3
    <3> HIDE DEF full
    <3>2. msgLatsArrayIndex + 1 <= MaxEntries + Cardinality(full)
      BY <2>1, <2>2, <2>3
    <3> QED BY <1>1, <3>1, <3>2 DEF EntriesClaimed
  <2>4. CASE ~(msgLatsArrayIndex < MaxEntries)
    <3>1. {x \in Senders' : pc'[x] = "full"} = full \cup {s} /\ s \notin full
      BY <1>2, <1>4, <2>4
    <3> HIDE DEF full
    <3>2. Cardinality(full \cup {s}) = Cardinality(full) + 1
      BY <2>1, <3>1, FS_AddElement
    <3>3. msgLatsArrayIndex + 1 <= MaxEntries + (Cardinality(full) + 1)
      BY <2>1, <2>2
    <3> QED BY <1>1, <3>1, <3>2, <3>3 DEF EntriesClaimed
  <2> QED BY <2>3, <2>4
<1> QED BY <1>1, <1>2, <1>7, <1>9, <1>10, MoveStep

LEMMA TestStep ==
  ASSUME MessagingInv, NEW s \in Senders, LoopTest(s) \/ Finish(s)
  PROVE  MessagingInv'
<1>1. mode' = mode /\ UNCHANGED <<programs, network, receiver>>
  BY DEF LoopTest, Finish, programs
<1>2. /\ Senders' = Senders /\ (ClientUp' <=> ClientUp)
      /\ \A x : Round(x)' = Round(x) /\ Targets(x)' = Targets(x)
  BY <1>1, ModeStill DEF programs, ClientUp
<1>3. SenderTypes /\ MessagingTypeOK
  BY TypeParts, InvFacts
<1>4. /\ ClientUp /\ UNCHANGED <<connected, got, reading>>
      /\ \A x \in Senders \ {s} : pc'[x] = pc[x] /\ sent'[x] = sent[x]
      /\ \/ pc[s] = "test" /\ pc'[s] \in {"send", "finish", "finished"} /\ sent'[s] = 0
         \/ pc[s] = "finish" /\ pc'[s] = "finished" /\ sent'[s] = sent[s]
      /\ pc' \in [Senders -> SenderPlaces] /\ sent' \in [Senders -> Nat]
  <2>1. CASE LoopTest(s)
    BY <1>3, <2>1 DEF LoopTest, Goto, SenderTypes, SenderPlaces
  <2>2. CASE Finish(s)
    BY <1>3, <2>2 DEF Finish, Goto, SenderTypes, SenderPlaces
  <2> QED BY <2>1, <2>2
<1>5. Round(s) \in Nat /\ Round(s) >= 1
  BY Units
<1>6. SenderTypes'
  BY <1>2, <1>3, <1>4, <1>5 DEF SenderTypes
<1>7. MessagingTypeOK'
  BY <1>1, <1>3, <1>6, PartsStill, TypePartsNext
<1>8. PlaceOK(s)' /\ Moves(s)
  BY <1>2, <1>4, <1>5 DEF PlaceOK, Moves, Between
<1>9. \A x \in Senders : PlaceOK(x)' /\ (SenderStill(x) \/ Moves(x))
  <2>1. SUFFICES ASSUME NEW x \in Senders, x # s PROVE PlaceOK(x)' /\ SenderStill(x)
    BY <1>8
  <2>2. SenderStill(x) /\ PlaceOK(x)
    BY <1>4, <2>1, InvFacts DEF SenderStill
  <2> QED BY <1>2, <2>2 DEF PlaceOK, SenderStill
<1>10. EntriesClaimed'
  BY <1>1, <1>4, EntriesKept DEF programs
<1> QED BY <1>1, <1>2, <1>7, <1>9, <1>10, MoveStep

(* Sending and receiving a unit.                                           *)

LEMMA SendStep ==
  ASSUME MessagingInv, NEW s \in Senders, Send(s) \/ SendIsLost(s)
  PROVE  MessagingInv'
<1>1. mode' = mode /\ UNCHANGED <<programs, connected, reading, down, receiver>>
  BY DEF Send, SendIsLost, SentOne, programs
<1>2. /\ Senders' = Senders /\ Sockets' = Sockets /\ (ClientUp' <=> ClientUp) /\ (Unary' <=> Unary)
      /\ SocketBatch' = SocketBatch
      /\ \A x : Round(x)' = Round(x) /\ Targets(x)' = Targets(x)
  BY <1>1, ModeStill DEF programs, ClientUp
<1>3. SenderTypes /\ NetworkTypes /\ MessagingTypeOK /\ TypesOK /\ LoadsOK /\ SentOK /\ PlaceOK(s) /\ CountOK(s)
  BY TypeParts, InvFacts, Sent
<1>4. /\ pc[s] = "send" /\ ClientUp /\ sent[s] \in Nat /\ got'[s] = 0
      /\ sent'[s] = sent[s] + 1
      /\ pc'[s] = IF sent[s] + 1 = Round(s) THEN "recv" ELSE "send"
      /\ \A x \in Senders \ {s} : pc'[x] = pc[x] /\ sent'[x] = sent[x] /\ got'[x] = got[x]
      /\ pc' \in [Senders -> SenderPlaces] /\ sent' \in [Senders -> Nat] /\ got' \in [Senders -> Nat]
  BY <1>3 DEF Send, SendIsLost, Sending, SentOne, Goto, SenderTypes, SenderPlaces
<1>5. sent[s] < Round(s) /\ Round(s) \in Nat
  BY <1>3, <1>4, Units DEF PlaceOK
<1>6. PICK c0 \in Sockets : c0 = <<s, Target(s)>> /\ c0[1] = s /\ c0[2] = Target(s) /\ Target(s) \in Targets(s)
  <2>1. Target(s) \in Targets(s)
    BY <1>3, <1>5, TargetIn
  <2> QED BY <2>1, Topology
<1>7. /\ up' \in [Sockets -> Nat] /\ \A c \in Sockets \ {c0} : up'[c] = up[c]
      /\ up'[c0] \in {up[c0], up[c0] + 1} /\ (~Unary => up'[c0] <= Buffer) /\ up[c0] \in Nat
  <2>1. CASE Send(s)
    BY <1>3, <1>6, <2>1, Given DEF Send, NetworkTypes
  <2>2. CASE SendIsLost(s)
    BY <1>3, <2>2 DEF SendIsLost, NetworkTypes
  <2> QED BY <2>1, <2>2
<1>8. SenderTypes' /\ NetworkTypes'
  <2>1. SenderTypes'
    BY <1>1, <1>2, <1>3, <1>4, <1>5 DEF SenderTypes
  <2>2. NetworkTypes'
    BY <1>1, <1>2, <1>3, <1>7 DEF NetworkTypes
  <2> QED BY <2>1, <2>2
<1>9. MessagingTypeOK'
  BY <1>1, <1>3, <1>8, PartsStill, TypePartsNext
<1>10. UNCHANGED <<serverPc, numMessages, count>>
  BY <1>1 DEF receiver
<1>11. \A r \in Serving : ModeOK(r)'
  BY <1>1, <1>10, InvFacts, ModeKept
<1>12. LoadsOK' /\ SentOK'
  BY <1>1, <1>9, <1>11, LoadsAfter, SentNext
<1>13. \A c \in Sockets \ {c0} : SocketStill(c) /\ Load(c)' = Load(c)
  BY <1>1, <1>7, <1>10, LoadStill DEF SocketStill
<1>14. Load(c0)' <= Load(c0) + 1
  <2>1. InHand(c0)' = InHand(c0) /\ InHand(c0) \in Nat /\ down[c0] \in Nat
    BY <1>2, <1>3, <1>10 DEF InHand, LoadsOK
  <2> QED BY <1>1, <1>7, <2>1 DEF Load
<1>15. PlaceOK(s)' /\ CountOK(s)'
  <2>1. UnderWay(s)' = UnderWay(s) + Load(c0)' - Load(c0)
    <3>1. \A r \in Targets(s) \ {Target(s)} : Load(<<s, r>>)' = Load(<<s, r>>)
      <4>1. SUFFICES ASSUME NEW r \in Targets(s), r # Target(s) PROVE Load(<<s, r>>)' = Load(<<s, r>>)
        OBVIOUS
      <4>2. <<s, r>> \in Sockets /\ <<s, r>> # c0
        BY <1>6, <4>1, Topology
      <4> QED BY <1>13, <4>2
    <3> QED BY <1>1, <1>3, <1>6, <1>12, <3>1, LoadFollows
  <2>2. UnderWay(s) \in Nat /\ UnderWay(s)' \in Nat /\ Load(c0) \in Nat /\ Load(c0)' \in Nat
    BY <1>2, <1>3, <1>12 DEF LoadsOK
  <2>3. UnderWay(s)' <= sent'[s]
    <3>1. UnderWay(s) + 0 <= sent[s]
      BY <1>3, <1>4 DEF CountOK
    <3> QED BY <1>4, <1>14, <2>1, <2>2, <3>1
  <2>4. PlaceOK(s)'
    BY <1>2, <1>4, <1>5 DEF PlaceOK
  <2>5. CountOK(s)'
    BY <1>4, <2>2, <2>3 DEF CountOK
  <2> QED BY <2>4, <2>5
<1>16. ASSUME NEW x \in Senders, x # s PROVE PlaceOK(x)' /\ CountOK(x)'
  <2>1. SenderStill(x) /\ PlaceOK(x) /\ CountOK(x)
    BY <1>1, <1>4, <1>16, InvFacts DEF SenderStill
  <2>2. ASSUME NEW r \in Targets(x) PROVE Load(<<x, r>>)' <= Load(<<x, r>>)
    <3>1. <<x, r>> \in Sockets /\ <<x, r>> # c0
      BY <1>6, <1>16, Topology
    <3> QED BY <1>3, <1>13, <3>1 DEF LoadsOK
  <2> QED BY <1>1, <1>3, <1>12, <2>1, <2>2, SenderKept
<1>17. ASSUME NEW c \in Sockets, c[1] # s PROVE (~Unary => FlowOK(c)') /\ RestOK(c)'
  <2>1. c # c0 /\ c[1] \in Senders
    BY <1>6, <1>17, Topology
  <2> QED BY <1>1, <1>2, <1>4, <1>13, <1>17, <2>1, InvFacts, FlowStill
<1>18. ASSUME NEW c \in Sockets, c[1] = s PROVE (~Unary => FlowOK(c)') /\ RestOK(c)'
  <2>1. RestOK(c)'
    BY <1>4, <1>18 DEF RestOK, Between
  <2>2. ASSUME ~Unary PROVE FlowOK(c)'
    <3>1. FlowOK(c)
      BY <2>2, InvFacts
    <3>2. SentTo(c)' >= SentTo(c) /\ (c[2] = Target(s) => SentTo(c)' = SentTo(c) + 1)
      BY <1>1, <1>3, <1>4, <1>18, SentToGrows
    <3>3. /\ SentTo(c) \in Nat /\ SentTo(c) <= SocketBatch /\ SentTo(c)' \in Nat /\ SentTo(c)' <= SocketBatch
          /\ SocketBatch \in Nat /\ up[c] \in Nat /\ down[c] \in Nat /\ count[c[2]] \in Nat
      BY <1>2, <1>3, <1>12, Units DEF SentOK, LoadsOK
    <3>4. serverPc[c[2]] # "returned"
      BY <1>4, <1>18, <3>1 DEF FlowOK
    <3>5. CASE c = c0
      <4>1. SentTo(c)' = SentTo(c) + 1 /\ SentTo(c) # SocketBatch
        BY <1>6, <3>2, <3>3, <3>5
      <4> QED BY <1>1, <1>7, <1>10, <3>1, <3>3, <3>4, <3>5, <4>1 DEF FlowOK
    <3>6. CASE c # c0
      <4>1. SentTo(c) = SocketBatch => SentTo(c)' = SocketBatch
        BY <3>2, <3>3
      <4> QED BY <1>1, <1>2, <1>7, <1>10, <3>1, <3>2, <3>3, <3>4, <3>6, <4>1 DEF FlowOK
    <3> QED BY <3>5, <3>6
  <2> QED BY <2>1, <2>2
<1>19. EntriesClaimed'
  BY <1>1, <1>4, EntriesKept DEF programs
<1> QED BY <1>1, <1>9, <1>11, <1>15, <1>16, <1>17, <1>18, <1>19, InvNext

LEMMA RecvStep ==
  ASSUME MessagingInv, NEW s \in Senders, Recv(s)
  PROVE  MessagingInv'
<1>1. mode' = mode /\ UNCHANGED <<programs, connected, sent, up, receiver>>
  BY DEF Recv, programs
<1>2. /\ Senders' = Senders /\ Sockets' = Sockets /\ (ClientUp' <=> ClientUp) /\ (Unary' <=> Unary)
      /\ SocketBatch' = SocketBatch
      /\ \A x : Round(x)' = Round(x) /\ Targets(x)' = Targets(x)
  BY <1>1, ModeStill DEF programs, ClientUp
<1>3. SenderTypes /\ NetworkTypes /\ MessagingTypeOK /\ TypesOK /\ LoadsOK /\ SentOK /\ PlaceOK(s) /\ CountOK(s)
  BY TypeParts, InvFacts, Sent
<1>4. PICK r0 \in Targets(s) : /\ down[<<s, r0>>] > 0
                               /\ down' = [down EXCEPT ![<<s, r0>>] = @ - 1]
                               /\ reading' = [reading EXCEPT ![s] = r0]
  BY <1>3 DEF Recv, Sources, SenderTypes
<1>5. PICK c0 \in Sockets : c0 = <<s, r0>> /\ c0[1] = s /\ c0[2] = r0
  BY Topology
<1>6. r0 \in Nat
  BY Topology
<1>7. /\ pc[s] = "recv" /\ ClientUp /\ got[s] \in Nat /\ got'[s] = got[s] + 1
      /\ pc'[s] = IF got[s] + 1 = Round(s) THEN "record" ELSE "recv"
      /\ \A x \in Senders \ {s} : pc'[x] = pc[x] /\ got'[x] = got[x] /\ reading'[x] = reading[x]
      /\ pc' \in [Senders -> SenderPlaces] /\ got' \in [Senders -> Nat]
      /\ reading' \in [Senders -> Nat] /\ reading'[s] = r0
  BY <1>3, <1>4, <1>6 DEF Recv, Receiving, Goto, SenderTypes, SenderPlaces
<1>8. /\ down' \in [Sockets -> Nat] /\ \A c \in Sockets \ {c0} : down'[c] = down[c]
      /\ down'[c0] = down[c0] - 1 /\ down[c0] > 0 /\ down[c0] \in Nat
  BY <1>3, <1>4, <1>5 DEF NetworkTypes
<1>9. UNCHANGED <<serverPc, numMessages, count>>
  BY <1>1 DEF receiver
<1>10. /\ UnderWay(s) + got[s] <= Round(s) /\ UnderWay(s) \in Nat /\ Round(s) \in Nat
       /\ Load(c0) <= UnderWay(s) /\ Load(c0) \in Nat /\ Load(c0) >= 1 /\ sent[s] = Round(s)
  <2>1. UnderWay(s) + got[s] <= sent[s] /\ sent[s] = Round(s)
    BY <1>3, <1>7 DEF CountOK, PlaceOK
  <2>2. Load(c0) <= UnderWay(s)
    BY <1>3, <1>5, LoadBounds
  <2>3. up[c0] \in Nat /\ InHand(c0) \in Nat /\ UnderWay(s) \in Nat
    BY <1>3 DEF LoadsOK
  <2> QED BY <1>8, <2>1, <2>2, <2>3, Units DEF Load
<1>11. SenderTypes' /\ NetworkTypes'
  <2>1. got'[s] <= Round(s)
    BY <1>7, <1>10
  <2>2. SenderTypes'
    BY <1>1, <1>2, <1>3, <1>4, <1>7, <2>1 DEF SenderTypes
  <2>3. NetworkTypes'
    BY <1>1, <1>2, <1>3, <1>8, Given DEF NetworkTypes
  <2> QED BY <2>2, <2>3
<1>12. MessagingTypeOK'
  BY <1>1, <1>3, <1>11, PartsStill, TypePartsNext
<1>13. \A r \in Serving : ModeOK(r)'
  BY <1>1, <1>9, InvFacts, ModeKept
<1>14. LoadsOK'
  BY <1>1, <1>12, <1>13, LoadsAfter
<1>15. \A c \in Sockets \ {c0} : SocketStill(c) /\ Load(c)' = Load(c)
  BY <1>1, <1>8, <1>9, LoadStill DEF SocketStill
<1>16. Load(c0)' = Load(c0) - 1
  <2>1. InHand(c0)' = InHand(c0) /\ InHand(c0) \in Nat /\ up[c0] \in Nat
    BY <1>2, <1>3, <1>9 DEF InHand, LoadsOK
  <2> QED BY <1>1, <1>8, <2>1 DEF Load
<1>17. UnderWay(s)' = UnderWay(s) - 1
  <2>1. \A r \in Targets(s) \ {r0} : Load(<<s, r>>)' = Load(<<s, r>>)
    <3>1. SUFFICES ASSUME NEW r \in Targets(s), r # r0 PROVE Load(<<s, r>>)' = Load(<<s, r>>)
      OBVIOUS
    <3>2. <<s, r>> \in Sockets /\ <<s, r>> # c0
      BY <1>5, <3>1, Topology
    <3> QED BY <1>15, <3>2
  <2>2. UnderWay(s)' = UnderWay(s) + Load(c0)' - Load(c0)
    BY <1>1, <1>3, <1>5, <1>14, <2>1, LoadFollows
  <2> QED BY <1>10, <1>16, <2>2
<1>18. PlaceOK(s)' /\ CountOK(s)'
  <2>1. sent'[s] = Round(s)
    BY <1>1, <1>10
  <2>2. PlaceOK(s)'
    BY <1>2, <1>7, <2>1 DEF PlaceOK
  <2>3. CASE got[s] + 1 = Round(s)
    <3>1. pc'[s] = "record" /\ UnderWay(s)' = 0
      BY <1>7, <1>10, <1>17, <2>3
    <3> QED BY <2>2, <3>1 DEF CountOK
  <2>4. CASE got[s] + 1 # Round(s)
    <3>1. pc'[s] = "recv" /\ UnderWay(s)' + got'[s] <= sent'[s]
      BY <1>7, <1>10, <1>17, <2>1, <2>4
    <3> QED BY <2>2, <3>1 DEF CountOK
  <2> QED BY <2>3, <2>4
<1>19. ASSUME NEW x \in Senders, x # s PROVE PlaceOK(x)' /\ CountOK(x)'
  <2>1. SenderStill(x) /\ PlaceOK(x) /\ CountOK(x)
    BY <1>1, <1>7, <1>19, InvFacts DEF SenderStill
  <2>2. ASSUME NEW r \in Targets(x) PROVE Load(<<x, r>>)' <= Load(<<x, r>>)
    <3>1. <<x, r>> \in Sockets /\ <<x, r>> # c0
      BY <1>5, <1>19, Topology
    <3> QED BY <1>3, <1>15, <3>1 DEF LoadsOK
  <2> QED BY <1>1, <1>3, <1>14, <2>1, <2>2, SenderKept
<1>20. ASSUME NEW c \in Sockets, c[1] # s PROVE (~Unary => FlowOK(c)') /\ RestOK(c)'
  <2>1. c # c0 /\ c[1] \in Senders
    BY <1>5, <1>20, Topology
  <2> QED BY <1>1, <1>2, <1>7, <1>15, <1>20, <2>1, InvFacts, FlowStill
<1>21. ASSUME NEW c \in Sockets, c[1] = s PROVE (~Unary => FlowOK(c)') /\ RestOK(c)'
  <2>1. /\ down'[c] <= down[c] /\ down'[c] \in Nat /\ down[c] \in Nat /\ up[c] \in Nat /\ count[c[2]] \in Nat
    BY <1>3, <1>8 DEF LoadsOK
  <2>2. ASSUME ~Unary PROVE FlowOK(c)' /\ serverPc[c[2]] # "returned"
    <3>1. FlowOK(c)
      BY <2>2, InvFacts
    <3>2. SentTo(c)' = SentTo(c)
      BY <1>1, ModeStill DEF SentTo
    <3>3. serverPc[c[2]] # "returned"
      BY <1>7, <1>21, <3>1 DEF FlowOK
    <3> QED BY <1>1, <1>2, <1>9, <2>1, <3>1, <3>2, <3>3 DEF FlowOK
  <2>3. RestOK(c)'
    <3>1. SUFFICES ASSUME pc'[s] \in Between
                   PROVE  up'[c] = 0 /\ down'[c] = 0 /\ count'[c[2]] = 0 /\ serverPc'[c[2]] # "write"
      BY <1>21 DEF RestOK
    <3>2. UnderWay(s)' = 0
      BY <1>7, <1>10, <1>17, <3>1 DEF Between
    <3>3. Load(c)' = 0
      <4>1. c[2] \in Targets(s) /\ c = <<s, c[2]>>
        BY <1>21, Topology
      <4>2. LoadTable(s)'[c[2]] = Load(c)' /\ LoadTable(s)' \in [Targets(s) -> Nat] /\ SumOf(LoadTable(s)') = 0
        BY <1>1, <1>14, <3>2, <4>1, LoadTableNext
      <4>3. IsFiniteSet(Targets(s))
        BY Topology
      <4> QED BY <4>1, <4>2, <4>3, SumBounds
    <3>4. /\ up'[c] \in Nat /\ down'[c] \in Nat /\ InHand(c)' \in Nat /\ count'[c[2]] \in Nat
          /\ ~Unary => count'[c[2]] < SocketBatch
      BY <1>2, <1>14 DEF LoadsOK
    <3>5. up'[c] = 0 /\ down'[c] = 0 /\ InHand(c)' = 0
      BY <3>3, <3>4 DEF Load
    <3>6. CASE Unary
      <4>1. c[2] \in Serving
        BY Topology
      <4>2. serverPc[c[2]] = "read" /\ count[c[2]] = 0
        BY <3>6, <4>1, InvFacts DEF ModeOK
      <4> QED BY <1>9, <3>5, <4>2
    <3>7. CASE ~Unary
      <4>1. c[2] \in Serving /\ serverPc[c[2]] \in ServerPlaces /\ serverPc'[c[2]] = serverPc[c[2]]
        BY <1>3, <1>9, Topology DEF TypesOK
      <4>2. serverPc'[c[2]] # "write"
        BY <1>2, <3>4, <3>5, <3>7, Units DEF InHand
      <4>3. serverPc'[c[2]] = "read" => count'[c[2]] = 0
        BY <3>5 DEF InHand
      <4>4. serverPc'[c[2]] \in {"accept", "barrier"} => count'[c[2]] = 0
        BY <2>2, <3>7 DEF FlowOK
      <4>5. serverPc'[c[2]] # "returned"
        BY <2>2, <3>7, <4>1
      <4> QED BY <3>5, <4>1, <4>2, <4>3, <4>4, <4>5 DEF ServerPlaces
    <3> QED BY <3>6, <3>7
  <2> QED BY <2>2, <2>3
<1>22. EntriesClaimed'
  BY <1>1, <1>7, EntriesKept DEF programs
<1> QED BY <1>1, <1>12, <1>13, <1>18, <1>19, <1>20, <1>21, <1>22, InvNext

(* The server.                                                             *)

LEMMA ServerStep ==
  ASSUME MessagingInv, UNCHANGED <<programs, sender>>, NetworkTypes', ReceiverTypes',
         \A r \in Serving : ModeOK(r)',
         \A c \in Sockets : Load(c)' <= Load(c),
         \A c \in Sockets : (~Unary => FlowOK(c)') /\ RestOK(c)'
  PROVE  MessagingInv'
<1>1. mode' = mode /\ (ClientUp' <=> ClientUp) /\ msgLatsArrayIndex' = msgLatsArrayIndex
  BY DEF programs, ClientUp
<1>2. MessagingTypeOK /\ LoadsOK
  BY InvFacts
<1>3. MessagingTypeOK'
  BY <1>1, <1>2, PartsStill, TypePartsNext
<1>4. LoadsOK'
  BY <1>1, <1>3, LoadsAfter
<1>5. ASSUME NEW s \in Senders PROVE PlaceOK(s)' /\ CountOK(s)'
  <2>1. SenderStill(s) /\ PlaceOK(s) /\ CountOK(s)
    BY InvFacts DEF SenderStill, sender
  <2>2. \A r \in Targets(s) : Load(<<s, r>>)' <= Load(<<s, r>>)
    BY Topology
  <2> QED BY <1>1, <1>2, <1>4, <2>1, <2>2, SenderKept
<1>6. EntriesClaimed'
  BY <1>1, EntriesKept DEF sender
<1> QED BY <1>1, <1>3, <1>5, <1>6, InvNext

\* A socket that the step leaves alone, with its receiver.
LEMMA SocketKept ==
  ASSUME MessagingInv, UNCHANGED <<programs, sender>>, NEW c \in Sockets, SocketStill(c)
  PROVE  Load(c)' <= Load(c) /\ (~Unary => FlowOK(c)') /\ RestOK(c)'
<1>1. mode' = mode /\ (ClientUp' <=> ClientUp) /\ UNCHANGED <<pc, sent>>
  BY DEF programs, sender, ClientUp
<1>2. Load(c)' = Load(c) /\ Load(c) \in Nat
  BY <1>1, LoadStill, InvFacts DEF LoadsOK
<1> QED BY <1>1, <1>2, InvFacts, FlowStill

LEMMA PingPongStep ==
  ASSUME MessagingInv, NEW c \in Sockets, PingPong(c)
  PROVE  MessagingInv'
<1>1. UNCHANGED <<programs, sender, receiver>> /\ mode' = mode /\ Unary /\ UNCHANGED pc
  BY DEF PingPong, programs, sender
<1>2. MessagingTypeOK /\ NetworkTypes /\ LoadsOK /\ Sockets' = Sockets /\ (Unary' <=> Unary) /\ SocketBatch' = SocketBatch
  BY <1>1, InvFacts, TypeParts, ModeStill
<1>3. /\ up[c] > 0 /\ up[c] \in Nat /\ down[c] \in Nat /\ InHand(c) \in Nat
      /\ up'[c] = up[c] - 1 /\ down'[c] = down[c] + 1
      /\ \A d \in Sockets \ {c} : up'[d] = up[d] /\ down'[d] = down[d]
      /\ up' \in [Sockets -> Nat] /\ down' \in [Sockets -> Nat]
  BY <1>2 DEF PingPong, NetworkTypes, LoadsOK
<1>4. NetworkTypes' /\ ReceiverTypes'
  <2>1. NetworkTypes'
    BY <1>1, <1>2, <1>3 DEF NetworkTypes
  <2> QED BY <1>1, <1>2, <2>1, PartsStill
<1>5. UNCHANGED <<serverPc, numMessages, count>>
  BY <1>1 DEF receiver
<1>6. \A r \in Serving : ModeOK(r)'
  BY <1>1, <1>5, InvFacts, ModeKept
<1>7. Load(c)' <= Load(c)
  <2>1. InHand(c)' = InHand(c)
    BY <1>2, <1>5 DEF InHand
  <2> QED BY <1>3, <2>1 DEF Load
<1>8. RestOK(c)'
  <2>1. pc[c[1]] \notin Between
    <3>1. RestOK(c)
      BY InvFacts
    <3> QED BY <1>3, <3>1 DEF RestOK
  <2> QED BY <1>1, <2>1 DEF RestOK
<1>9. ASSUME NEW d \in Sockets, d # c PROVE Load(d)' <= Load(d) /\ RestOK(d)'
  <2>1. SocketStill(d)
    BY <1>3, <1>5, <1>9 DEF SocketStill
  <2> QED BY <1>1, <2>1, SocketKept
<1> QED BY <1>1, <1>4, <1>6, <1>7, <1>8, <1>9, ServerStep

\* A receiver goes where there is nothing to read or write.
Goes(c) ==
  \/ serverPc'[c[2]] = serverPc[c[2]]
  \/ serverPc[c[2]] = "accept" /\ serverPc'[c[2]] = "barrier"
  \/ serverPc[c[2]] = "barrier" /\ serverPc'[c[2]] = "read"
  \/ /\ mode = "stream" /\ serverPc[c[2]] \in {"read", "write"} /\ serverPc'[c[2]] = "returned"
     /\ pc[c[1]] = "finish" \/ ~ClientUp

LEMMA GoesStep ==
  ASSUME MessagingInv, UNCHANGED <<programs, sender, network, numMessages, count>>,
         serverPc' \in [Serving -> ServerPlaces], \A c \in Sockets : Goes(c)
  PROVE  MessagingInv'
<1>1. /\ mode' = mode /\ (ClientUp' <=> ClientUp) /\ UNCHANGED <<pc, sent, up, down, numMessages, count>>
      /\ UNCHANGED <<programs, sender, network>>
  BY DEF programs, sender, network, ClientUp
<1>2. /\ Serving' = Serving /\ Sockets' = Sockets /\ SocketBatch' = SocketBatch /\ MsgUnits' = MsgUnits
      /\ (Unary' <=> Unary) /\ (Tcp' <=> Tcp)
  BY <1>1, ModeStill
<1>3. MessagingTypeOK /\ ReceiverTypes /\ LoadsOK
  BY InvFacts, TypeParts
<1>4. NetworkTypes' /\ ReceiverTypes'
  <2>1. NetworkTypes'
    BY <1>1, <1>3, PartsStill
  <2>2. \A r : BatchOf(r)' = BatchOf(r)
    BY <1>1, <1>2 DEF BatchOf
  <2> QED BY <1>1, <1>2, <1>3, <2>1, <2>2 DEF ReceiverTypes
<1>5. ASSUME NEW r \in Serving PROVE ModeOK(r)'
  <2>1. PICK c \in Sockets : c[2] = r
    BY DEF Serving
  <2>2. ModeOK(r) /\ Goes(c)
    BY InvFacts
  <2>3. /\ ~Tcp => serverPc'[r] \notin {"accept", "barrier"}
        /\ Unary => serverPc'[r] = "read"
    BY <2>1, <2>2 DEF ModeOK, Goes, Unary
  <2> QED BY <1>1, <1>2, <2>2, <2>3 DEF ModeOK
<1>6. ASSUME NEW c \in Sockets PROVE Load(c)' <= Load(c) /\ (~Unary => FlowOK(c)') /\ RestOK(c)'
  <2>0. /\ Goes(c) /\ RestOK(c) /\ (~Unary => FlowOK(c)) /\ c[2] \in Serving
        /\ (Unary => serverPc[c[2]] = "read")
    BY InvFacts, Topology DEF ModeOK
  <2>1. CASE serverPc'[c[2]] = serverPc[c[2]]
    <3>1. SocketStill(c)
      BY <1>1, <2>1 DEF SocketStill
    <3> QED BY <1>1, <3>1, SocketKept
  <2>2. CASE serverPc'[c[2]] # serverPc[c[2]]
    <3>0. ~Unary
      BY <2>0, <2>2 DEF Goes, Unary
    <3>1. FlowOK(c) /\ SentTo(c)' = SentTo(c)
      BY <1>1, <2>0, <3>0, ModeStill DEF SentTo
    <3>2. /\ up[c] \in Nat /\ down[c] \in Nat /\ count[c[2]] \in Nat /\ InHand(c) \in Nat
      BY <1>3 DEF LoadsOK
    <3>3. RestOK(c)'
      BY <1>1, <2>0, <2>2 DEF RestOK, Goes
    <3>4. InHand(c)' = 0
      BY <1>1, <2>0, <2>2, <3>1 DEF Goes, FlowOK, InHand
    <3>5. Load(c)' <= Load(c)
      BY <1>1, <3>2, <3>4 DEF Load
    <3>6. FlowOK(c)'
      <4>1. CASE serverPc[c[2]] = "accept" /\ serverPc'[c[2]] = "barrier"
        BY <1>1, <3>1, <4>1 DEF FlowOK
      <4>2. CASE serverPc[c[2]] = "barrier" /\ serverPc'[c[2]] = "read"
        BY <1>1, <3>1, <3>2, <4>2 DEF FlowOK
      <4>3. CASE serverPc[c[2]] \in {"read", "write"} /\ serverPc'[c[2]] = "returned"
        <5>1. pc[c[1]] = "finish" \/ ~ClientUp
          BY <2>0, <4>3 DEF Goes
        <5> QED BY <1>1, <1>2, <3>1, <3>2, <4>3, <5>1 DEF FlowOK
      <4> QED BY <2>0, <2>2, <4>1, <4>2, <4>3 DEF Goes
    <3> QED BY <3>3, <3>5, <3>6
  <2> QED BY <2>1, <2>2
<1> QED BY <1>1, <1>4, <1>5, <1>6, ServerStep

LEMMA AcceptStep ==
  ASSUME MessagingInv, NEW c \in Sockets, Accept(c)
  PROVE  MessagingInv'
<1>1. serverPc \in [Serving -> ServerPlaces] /\ c[2] \in Serving
  BY InvFacts, Topology DEF TypesOK
<1>2. /\ serverPc[c[2]] = "accept" /\ serverPc'[c[2]] = "barrier"
      /\ \A r \in Serving \ {c[2]} : serverPc'[r] = serverPc[r]
      /\ serverPc' \in [Serving -> ServerPlaces]
  BY <1>1 DEF Accept, ServerPlaces
<1>3. \A d \in Sockets : Goes(d)
  BY <1>2, Topology DEF Goes
<1> QED BY <1>2, <1>3, GoesStep DEF Accept

LEMMA ServerBarrierStep ==
  ASSUME MessagingInv, ServerBarrier
  PROVE  MessagingInv'
<1>1. serverPc' \in [Serving -> ServerPlaces] /\ \A r \in Serving : serverPc[r] = "barrier" /\ serverPc'[r] = "read"
  BY DEF ServerBarrier, ServerPlaces
<1>2. \A d \in Sockets : Goes(d)
  BY <1>1, Topology DEF Goes
<1> QED BY <1>1, <1>2, GoesStep DEF ServerBarrier

LEMMA StreamEndsStep ==
  ASSUME MessagingInv, NEW c \in Sockets, StreamEnds(c)
  PROVE  MessagingInv'
<1>1. serverPc \in [Serving -> ServerPlaces] /\ c[2] \in Serving
  BY InvFacts, Topology DEF TypesOK
<1>2. /\ serverPc[c[2]] \in {"read", "write"} /\ serverPc'[c[2]] = "returned" /\ mode = "stream"
      /\ pc[c[1]] = "finish" \/ ~ClientUp
      /\ \A r \in Serving \ {c[2]} : serverPc'[r] = serverPc[r]
      /\ serverPc' \in [Serving -> ServerPlaces]
  BY <1>1 DEF StreamEnds, ServerPlaces
<1>3. ~Unary
  BY <1>2 DEF Unary
<1>4. ASSUME NEW d \in Sockets PROVE Goes(d)
  <2>1. CASE d[2] = c[2]
    <3>1. d = c
      BY <1>3, <2>1, Topology
    <3> QED BY <1>2, <3>1 DEF Goes
  <2>2. CASE d[2] # c[2]
    <3>1. d[2] \in Serving
      BY Topology
    <3> QED BY <1>2, <2>2, <3>1 DEF Goes
  <2> QED BY <2>1, <2>2
<1> QED BY <1>2, <1>4, GoesStep DEF StreamEnds

LEMMA Wraps ==
  ASSUME NEW k \in Nat, NEW x \in Nat, x < k
  PROVE  (x + 1) % k = IF x + 1 = k THEN 0 ELSE x + 1
<1>1. k >= 1 /\ x + 1 \in Nat
  OBVIOUS
<1>2. CASE x + 1 = k
  <2>1. k % k = 0
    BY <1>1
  <2> QED BY <1>2, <2>1
<1>3. CASE x + 1 < k
  BY <1>1, <1>3
<1> QED BY <1>2, <1>3

\* What a receiver's reading or writing of a unit leaves alone.
LEMMA UnitSteps ==
  ASSUME MessagingInv, NEW c \in Sockets, UNCHANGED <<programs, sender>>, ~Unary,
         NetworkTypes', serverPc' \in [Serving -> ServerPlaces],
         numMessages' \in [Serving -> {-1, 1, NumMessages}], count' \in [Serving -> Nat],
         \A r \in Serving \ {c[2]} : /\ serverPc'[r] = serverPc[r] /\ count'[r] = count[r]
                                     /\ numMessages'[r] = numMessages[r],
         numMessages'[c[2]] \in {numMessages[c[2]], NumMessages},
         numMessages[c[2]] >= 0 => numMessages'[c[2]] = numMessages[c[2]],
         serverPc'[c[2]] \in {"read", "write"}, serverPc[c[2]] \in {"read", "write"},
         count'[c[2]] < SocketBatch,
         \A d \in Sockets \ {c} : up'[d] = up[d] /\ down'[d] = down[d],
         Load(c)' <= Load(c), FlowOK(c)', RestOK(c)'
  PROVE  MessagingInv'
<1>1. mode' = mode
  BY DEF programs
<1>2. Serving' = Serving /\ MsgUnits' = MsgUnits /\ (Unary' <=> Unary) /\ (Tcp' <=> Tcp)
  BY <1>1, ModeStill
<1>3. c[2] \in Serving /\ ReceiverInMode /\ ReceiverTypes /\ ModeOK(c[2])
  BY Topology, InvFacts, TypeParts
<1>4. ASSUME NEW r \in Serving PROVE count'[r] < BatchOf(r)'
  <2>1. CASE r = c[2]
    <3>1. BatchOf(r) = SocketBatch
      BY <1>3, BatchIs
    <3>2. numMessages[r] \in {-1, 1, NumMessages} /\ NumMessages \in Nat
      BY <1>3, Given DEF ReceiverTypes
    <3>3. BatchOf(r)' = BatchOf(r)
      BY <1>2, <2>1, <3>2 DEF BatchOf
    <3> QED BY <2>1, <3>1, <3>3
  <2>2. CASE r # c[2]
    BY <1>2, <1>3, <2>2 DEF BatchOf, ReceiverTypes
  <2> QED BY <2>1, <2>2
<1>5. ReceiverTypes'
  BY <1>2, <1>4 DEF ReceiverTypes
<1>6. ASSUME NEW r \in Serving PROVE ModeOK(r)'
  <2>1. CASE r = c[2]
    <3>1. mode = "tcpBroadcast" => numMessages[r] >= 0
      BY <1>3, <2>1 DEF ModeOK
    <3> QED BY <1>1, <1>2, <1>3, <2>1, <3>1 DEF ModeOK
  <2>2. CASE r # c[2]
    BY <1>1, <2>2, InvFacts, ModeKept
  <2> QED BY <2>1, <2>2
<1>7. ASSUME NEW d \in Sockets, d # c PROVE Load(d)' <= Load(d) /\ (~Unary => FlowOK(d)') /\ RestOK(d)'
  <2>1. d[2] \in Serving /\ d[2] # c[2]
    BY <1>7, Topology
  <2>2. SocketStill(d)
    BY <1>7, <2>1 DEF SocketStill
  <2> QED BY <2>2, SocketKept
<1> QED BY <1>5, <1>6, <1>7, ServerStep

LEMMA ReadStep ==
  ASSUME MessagingInv, NEW c \in Sockets, ReadUnit(c)
  PROVE  MessagingInv'
<1>1. /\ UNCHANGED <<programs, sender, down>> /\ mode' = mode /\ ~Unary /\ UNCHANGED <<pc, sent>>
      /\ serverPc[c[2]] = "read" /\ up[c] > 0
  BY DEF ReadUnit, programs, sender
<1>2. /\ Sockets' = Sockets /\ SocketBatch' = SocketBatch /\ (Unary' <=> Unary)
      /\ SentTo(c)' = SentTo(c) /\ (ClientUp' <=> ClientUp)
  BY <1>1, ModeStill DEF SentTo, programs, ClientUp
<1>3. /\ NetworkTypes /\ LoadsOK /\ TypesOK /\ SentOK /\ ReceiverInMode /\ FlowOK(c) /\ RestOK(c) /\ c[2] \in Serving
  BY <1>1, InvFacts, TypeParts, Sent, Topology
<1>4. /\ up[c] \in Nat /\ down[c] \in Nat /\ count[c[2]] \in Nat /\ count[c[2]] < SocketBatch
      /\ SocketBatch \in Nat /\ SentTo(c) \in Nat /\ SentTo(c) <= SocketBatch
  BY <1>1, <1>3, Units DEF LoadsOK, SentOK
<1>5. (count[c[2]] + 1) % BatchOf(c[2]) = IF count[c[2]] + 1 = SocketBatch THEN 0 ELSE count[c[2]] + 1
  <2>1. BatchOf(c[2]) = SocketBatch
    BY <1>1, <1>3, BatchIs
  <2> QED BY <1>4, <2>1, Wraps
<1>6. /\ count'[c[2]] = IF count[c[2]] + 1 = SocketBatch THEN 0 ELSE count[c[2]] + 1
      /\ serverPc'[c[2]] = IF count'[c[2]] = 0 THEN "write" ELSE "read"
      /\ up'[c] = up[c] - 1 /\ up' \in [Sockets -> Nat]
      /\ \A d \in Sockets \ {c} : up'[d] = up[d]
      /\ \A r \in Serving \ {c[2]} : /\ serverPc'[r] = serverPc[r] /\ count'[r] = count[r]
                                     /\ numMessages'[r] = numMessages[r]
  <2>1. count' = [count EXCEPT ![c[2]] = (count[c[2]] + 1) % BatchOf(c[2])]
    BY DEF ReadUnit
  <2>2. /\ count'[c[2]] = IF count[c[2]] + 1 = SocketBatch THEN 0 ELSE count[c[2]] + 1
        /\ \A r \in Serving \ {c[2]} : count'[r] = count[r]
    BY <1>3, <1>5, <2>1 DEF TypesOK
  <2>3. /\ serverPc'[c[2]] = IF count'[c[2]] = 0 THEN "write" ELSE "read"
        /\ \A r \in Serving \ {c[2]} : serverPc'[r] = serverPc[r] /\ numMessages'[r] = numMessages[r]
    BY <1>3 DEF ReadUnit, TypesOK
  <2>4. up'[c] = up[c] - 1 /\ up' \in [Sockets -> Nat] /\ \A d \in Sockets \ {c} : up'[d] = up[d]
    BY <1>1, <1>3, <1>4 DEF ReadUnit, TypesOK
  <2> QED BY <2>2, <2>3, <2>4
<1>7. /\ serverPc' \in [Serving -> ServerPlaces] /\ count' \in [Serving -> Nat]
      /\ numMessages' \in [Serving -> {-1, 1, NumMessages}]
      /\ numMessages'[c[2]] \in {numMessages[c[2]], NumMessages}
      /\ numMessages[c[2]] >= 0 => numMessages'[c[2]] = numMessages[c[2]]
  <2>1. serverPc' \in [Serving -> ServerPlaces]
    BY <1>3 DEF ReadUnit, TypesOK, ServerPlaces
  <2>2. count' \in [Serving -> Nat]
    <3>1. count' = [count EXCEPT ![c[2]] = (count[c[2]] + 1) % BatchOf(c[2])]
      BY DEF ReadUnit
    <3>2. (count[c[2]] + 1) % BatchOf(c[2]) \in Nat /\ count \in [Serving -> Nat]
      BY <1>3, <1>4, <1>5 DEF TypesOK
    <3> QED BY <1>3, <3>1, <3>2
  <2>3. /\ numMessages' \in [Serving -> {-1, 1, NumMessages}]
        /\ numMessages'[c[2]] = IF numMessages[c[2]] < 0 THEN NumMessages ELSE numMessages[c[2]]
    BY <1>3 DEF ReadUnit, TypesOK
  <2>4. numMessages[c[2]] \in Int
    BY <1>3, Given DEF TypesOK
  <2> QED BY <2>1, <2>2, <2>3, <2>4
<1>8. NetworkTypes'
  <2>1. \A d \in Sockets : ~Unary => up'[d] <= Buffer
    BY <1>3, <1>4, <1>6, Given DEF NetworkTypes
  <2> QED BY <1>1, <1>2, <1>3, <1>6, <2>1 DEF NetworkTypes
<1>9. Load(c)' = Load(c)
  <2>1. InHand(c) = count[c[2]]
    BY <1>1 DEF InHand
  <2>2. InHand(c)' = count[c[2]] + 1
    <3>1. CASE count[c[2]] + 1 = SocketBatch
      <4>1. serverPc'[c[2]] = "write" /\ count'[c[2]] = 0
        BY <1>6, <3>1
      <4> QED BY <1>2, <1>4, <3>1, <4>1 DEF InHand
    <3>2. CASE count[c[2]] + 1 # SocketBatch
      <4>1. serverPc'[c[2]] = "read" /\ count'[c[2]] = count[c[2]] + 1
        BY <1>4, <1>6, <3>2
      <4> QED BY <4>1 DEF InHand
    <3> QED BY <3>1, <3>2
  <2> QED BY <1>1, <1>4, <1>6, <2>1, <2>2 DEF Load
<1>10. FlowOK(c)'
  <2>1. down[c] = 0 /\ up[c] + count[c[2]] <= SentTo(c)
    BY <1>1, <1>3, <1>4 DEF FlowOK
  <2>2. CASE count[c[2]] + 1 = SocketBatch
    <3>1. serverPc'[c[2]] = "write" /\ count'[c[2]] = 0 /\ up'[c] = 0 /\ SentTo(c) = SocketBatch
      BY <1>1, <1>4, <1>6, <2>1, <2>2
    <3> QED BY <1>1, <1>2, <2>1, <3>1 DEF FlowOK
  <2>3. CASE count[c[2]] + 1 # SocketBatch
    <3>1. serverPc'[c[2]] = "read" /\ count'[c[2]] = count[c[2]] + 1 /\ up'[c] + count'[c[2]] <= SentTo(c)
      BY <1>4, <1>6, <2>1, <2>3
    <3> QED BY <1>1, <1>2, <2>1, <3>1 DEF FlowOK
  <2> QED BY <2>2, <2>3
<1>11. RestOK(c)'
  <2>1. pc[c[1]] \notin Between
    BY <1>1, <1>3, <1>4 DEF RestOK
  <2> QED BY <1>1, <2>1 DEF RestOK
<1>12. count'[c[2]] < SocketBatch /\ Load(c)' <= Load(c)
  <2>1. count'[c[2]] < SocketBatch
    BY <1>4, <1>6
  <2>2. Load(c) \in Nat
    BY <1>3 DEF LoadsOK
  <2> QED BY <1>9, <2>1, <2>2
<1>13. serverPc'[c[2]] \in {"read", "write"}
  BY <1>6
<1> QED BY <1>1, <1>6, <1>7, <1>8, <1>10, <1>11, <1>12, <1>13, UnitSteps

LEMMA WriteStep ==
  ASSUME MessagingInv, NEW c \in Sockets, WriteUnit(c)
  PROVE  MessagingInv'
<1>1. /\ UNCHANGED <<programs, sender, up, numMessages>> /\ mode' = mode /\ UNCHANGED <<pc, sent>>
      /\ serverPc[c[2]] = "write" /\ down[c] < Buffer
  BY DEF WriteUnit, programs, sender
<1>2. c[2] \in Serving /\ ~Unary
  <2>1. c[2] \in Serving
    BY Topology
  <2>2. ModeOK(c[2])
    BY <2>1, InvFacts
  <2> QED BY <1>1, <2>1, <2>2 DEF ModeOK
<1>3. /\ Sockets' = Sockets /\ SocketBatch' = SocketBatch /\ (Unary' <=> Unary)
      /\ SentTo(c)' = SentTo(c) /\ (ClientUp' <=> ClientUp)
  BY <1>1, ModeStill DEF SentTo, programs, ClientUp
<1>4. NetworkTypes /\ LoadsOK /\ TypesOK /\ ReceiverInMode /\ FlowOK(c) /\ RestOK(c)
  BY <1>2, InvFacts, TypeParts
<1>5. /\ up[c] \in Nat /\ down[c] \in Nat /\ count[c[2]] \in Nat /\ count[c[2]] < SocketBatch
      /\ SocketBatch \in Nat
  BY <1>2, <1>4, Units DEF LoadsOK
<1>6. up[c] = 0 /\ down[c] <= count[c[2]] /\ SentTo(c) = SocketBatch
  BY <1>1, <1>4 DEF FlowOK
<1>7. (count[c[2]] + 1) % BatchOf(c[2]) = IF count[c[2]] + 1 = SocketBatch THEN 0 ELSE count[c[2]] + 1
  <2>1. BatchOf(c[2]) = SocketBatch
    BY <1>2, <1>4, BatchIs
  <2> QED BY <1>5, <2>1, Wraps
<1>8. /\ count'[c[2]] = IF count[c[2]] + 1 = SocketBatch THEN 0 ELSE count[c[2]] + 1
      /\ \A r \in Serving \ {c[2]} : count'[r] = count[r]
      /\ count' \in [Serving -> Nat]
  <2>1. count' = [count EXCEPT ![c[2]] = (count[c[2]] + 1) % BatchOf(c[2])]
    BY DEF WriteUnit
  <2>2. count \in [Serving -> Nat]
    BY <1>4 DEF TypesOK
  <2>3. (count[c[2]] + 1) % BatchOf(c[2]) \in Nat
    BY <1>5, <1>7
  <2> QED BY <1>2, <1>7, <2>1, <2>2, <2>3
<1>9. /\ serverPc'[c[2]] = IF count'[c[2]] = 0 THEN "read" ELSE "write"
      /\ \A r \in Serving \ {c[2]} : serverPc'[r] = serverPc[r]
      /\ serverPc' \in [Serving -> ServerPlaces]
  BY <1>2, <1>4 DEF WriteUnit, TypesOK, ServerPlaces
<1>10. /\ down'[c] = down[c] + 1 /\ down' \in [Sockets -> Nat]
       /\ \A d \in Sockets \ {c} : down'[d] = down[d]
  BY <1>4, <1>5 DEF WriteUnit, TypesOK
<1>11. NetworkTypes'
  <2>1. \A d \in Sockets : ~Unary => down'[d] <= Buffer
    BY <1>1, <1>4, <1>5, <1>10, Given DEF NetworkTypes
  <2> QED BY <1>1, <1>3, <1>4, <1>10, <2>1 DEF NetworkTypes
<1>12. Load(c)' = Load(c)
  <2>1. InHand(c) = SocketBatch - count[c[2]]
    BY <1>1 DEF InHand
  <2>2. InHand(c)' = SocketBatch - count[c[2]] - 1
    <3>1. CASE count[c[2]] + 1 = SocketBatch
      <4>1. serverPc'[c[2]] = "read" /\ count'[c[2]] = 0
        BY <1>8, <1>9, <3>1
      <4> QED BY <1>5, <3>1, <4>1 DEF InHand
    <3>2. CASE count[c[2]] + 1 # SocketBatch
      <4>1. serverPc'[c[2]] = "write" /\ count'[c[2]] = count[c[2]] + 1
        BY <1>5, <1>8, <1>9, <3>2
      <4> QED BY <1>3, <1>5, <4>1 DEF InHand
    <3> QED BY <3>1, <3>2
  <2> QED BY <1>1, <1>5, <1>10, <2>1, <2>2 DEF Load
<1>13. FlowOK(c)'
  <2>1. CASE count[c[2]] + 1 = SocketBatch
    <3>1. serverPc'[c[2]] = "read" /\ count'[c[2]] = 0
      BY <1>8, <1>9, <2>1
    <3> QED BY <1>1, <1>3, <1>6, <3>1 DEF FlowOK
  <2>2. CASE count[c[2]] + 1 # SocketBatch
    <3>1. serverPc'[c[2]] = "write" /\ count'[c[2]] = count[c[2]] + 1 /\ down'[c] <= count'[c[2]]
      BY <1>5, <1>6, <1>8, <1>9, <1>10, <2>2
    <3> QED BY <1>1, <1>3, <1>6, <3>1 DEF FlowOK
  <2> QED BY <2>1, <2>2
<1>14. RestOK(c)'
  <2>1. pc[c[1]] \notin Between
    BY <1>1, <1>4 DEF RestOK
  <2> QED BY <1>1, <2>1 DEF RestOK
<1>15. count'[c[2]] < SocketBatch /\ Load(c)' <= Load(c)
  <2>1. count'[c[2]] < SocketBatch
    BY <1>5, <1>8
  <2>2. Load(c) \in Nat
    BY <1>4 DEF LoadsOK
  <2> QED BY <1>12, <2>1, <2>2
<1>16. /\ numMessages' = numMessages /\ numMessages \in [Serving -> {-1, 1, NumMessages}]
       /\ serverPc'[c[2]] \in {"read", "write"}
  BY <1>1, <1>4, <1>9 DEF TypesOK
<1> QED BY <1>1, <1>2, <1>8, <1>9, <1>10, <1>11, <1>13, <1>14, <1>15, <1>16, UnitSteps

(* The theorems.                                                           *)

LEMMA MessagingInit == Init => MessagingInv
<1> SUFFICES ASSUME Init PROVE MessagingInv
  OBVIOUS
<1>1. ProgramTypes /\ EntriesClaimed
  <2>1. mode \in Modes /\ clientMain = "run" /\ serverUp = TRUE /\ mainFinished = FALSE
    BY DEF Init
  <2>2. msgLatsArrayIndex = 0
    BY DEF Init
  <2>3. EntriesClaimed
    BY <2>2, Given, FullFinite DEF EntriesClaimed
  <2> QED BY <2>1, <2>2, <2>3 DEF ProgramTypes
<1>2. SenderTypes
  <2>1. /\ pc \in [Senders -> SenderPlaces] /\ connected \in [Senders -> Nat]
        /\ sent \in [Senders -> Nat] /\ got \in [Senders -> Nat]
    BY DEF Init, SenderPlaces
  <2>2. reading \in [Senders -> Nat] /\ \A s \in Senders : reading[s] \in Targets(s)
    BY Topology DEF Init
  <2>3. \A s \in Senders : connected[s] <= Cardinality(Targets(s)) /\ sent[s] <= Round(s) /\ got[s] <= Round(s)
    BY Topology, Units DEF Init
  <2> QED BY <2>1, <2>2, <2>3 DEF SenderTypes
<1>3. NetworkTypes
  BY Given DEF Init, NetworkTypes
<1>4. ASSUME NEW r \in Serving
      PROVE  /\ serverPc[r] = IF Tcp THEN "accept" ELSE "read"
             /\ count[r] = 0
             /\ mode = "tcp" => numMessages[r] = NumMessages
             /\ mode = "tcpBroadcast" => numMessages[r] = 1
             /\ ~Tcp => numMessages[r] = -1
             /\ numMessages[r] \in {-1, 1, NumMessages}
  BY DEF Init, Tcp
<1>5. ReceiverTypes
  <2>1. /\ serverPc \in [Serving -> ServerPlaces] /\ count \in [Serving -> Nat]
    BY DEF Init, ServerPlaces
  <2>2. numMessages \in [Serving -> {-1, 1, NumMessages}]
    <3>1. numMessages = [r \in Serving |-> numMessages[r]]
      BY DEF Init
    <3> QED BY <1>4, <3>1
  <2>3. ASSUME NEW r \in Serving PROVE count[r] < BatchOf(r)
    <3>1. PICK k \in Nat : k = (IF numMessages[r] < 0 THEN NumMessages ELSE numMessages[r]) /\ k >= 1
      BY <1>4, Given
    <3>2. PICK m \in Nat : m = MsgUnits /\ m >= 1
      BY Units
    <3>3. m * k >= 1 /\ m * k \in Nat
      BY <3>1, <3>2, ProductPos
    <3>4. BatchOf(r) = m * k
      BY <3>1, <3>2 DEF BatchOf
    <3> QED BY <1>4, <3>3, <3>4
  <2> QED BY <2>1, <2>2, <2>3 DEF ReceiverTypes
<1>6. MessagingTypeOK
  BY <1>1, <1>2, <1>3, <1>5, TypeParts
<1>7. ReceiverInMode
  <2>1. Unary => ~Tcp
    BY DEF Unary, Tcp
  <2> QED BY <1>4, <2>1 DEF ReceiverInMode
<1>8. LoadsOK /\ SentOK
  BY <1>6, <1>7, Loads, Sent
<1>9. ASSUME NEW c \in Sockets
      PROVE  /\ up[c] = 0 /\ down[c] = 0 /\ count[c[2]] = 0 /\ c[2] \in Serving
             /\ serverPc[c[2]] \in {"accept", "read"} /\ Load(c) = 0
  <2>1. /\ up[c] = 0 /\ down[c] = 0 /\ count[c[2]] = 0 /\ c[2] \in Serving
        /\ serverPc[c[2]] \in {"accept", "read"}
    BY <1>4, Topology DEF Init
  <2>2. InHand(c) = 0
    BY <2>1 DEF InHand
  <2> QED BY <2>1, <2>2 DEF Load
<1>10. ASSUME NEW s \in Senders PROVE PlaceOK(s) /\ CountOK(s)
  <2>1. UnderWay(s) = 0
    BY <1>8, <1>9, LoadBounds, Topology
  <2>2. pc[s] \in {"connect", "barrier"} /\ sent[s] = 0 /\ connected[s] = 0
    BY DEF Init
  <2>3. Cardinality(Targets(s)) >= 1 /\ Cardinality(Targets(s)) \in Nat
    BY Topology
  <2> QED BY <2>1, <2>2, <2>3 DEF PlaceOK, CountOK
<1>11. ASSUME NEW c \in Sockets PROVE FlowOK(c) /\ RestOK(c)
  <2>1. pc[c[1]] \in {"connect", "barrier"}
    BY Topology DEF Init
  <2>2. SentTo(c) \in Nat
    BY <1>8 DEF SentOK
  <2> QED BY <1>9, <2>1, <2>2 DEF FlowOK, RestOK, Between
<1>12. SenderInRound /\ RoundCounted /\ SocketFlow /\ RoundsInStep
  BY <1>10, <1>11, InvParts
<1> QED BY <1>1, <1>6, <1>7, <1>12 DEF MessagingInv

LEMMA MessagingStep == MessagingInv /\ [Next]_vars => MessagingInv'
<1> SUFFICES ASSUME MessagingInv, [Next]_vars PROVE MessagingInv'
  OBVIOUS
<1>1. CASE UNCHANGED vars \/ Over \/ ServerDies
  BY <1>1, OutsideSteps DEF Over
<1>2. CASE Main
  BY <1>2, BarrierStep, OutsideSteps DEF Main
<1>3. CASE ServerBarrier
  BY <1>3, ServerBarrierStep
<1>4. ASSUME NEW s \in Senders, Thread(s) PROVE MessagingInv'
  <2>1. CASE \/ ConnectFails(s) \/ SendFails(s) \/ CallFails(s) \/ ReadFails(s)
             \/ ReadsNothing(s) \/ ArrayFull(s) \/ FinishFails(s)
    BY <2>1, OutsideSteps
  <2>2. CASE Connect(s)
    BY <2>2, ConnectStep
  <2>3. CASE Send(s) \/ SendIsLost(s)
    BY <2>3, SendStep
  <2>4. CASE Recv(s)
    BY <2>4, RecvStep
  <2>5. CASE Record(s)
    BY <2>5, RecordStep
  <2>6. CASE LoopTest(s) \/ Finish(s)
    BY <2>6, TestStep
  <2> QED BY <1>4, <2>1, <2>2, <2>3, <2>4, <2>5, <2>6 DEF Thread
<1>5. ASSUME NEW c \in Sockets, Receiver(c) PROVE MessagingInv'
  <2>1. CASE PingPong(c)
    BY <2>1, PingPongStep
  <2>2. CASE Accept(c)
    BY <2>2, AcceptStep
  <2>3. CASE ReadUnit(c)
    BY <2>3, ReadStep
  <2>4. CASE WriteUnit(c)
    BY <2>4, WriteStep
  <2>5. CASE StreamEnds(c)
    BY <2>5, StreamEndsStep
  <2>6. CASE SocketFails(c)
    BY <2>6, OutsideSteps
  <2> QED BY <1>5, <2>1, <2>2, <2>3, <2>4, <2>5, <2>6 DEF Receiver
<1> QED BY <1>1, <1>2, <1>3, <1>4, <1>5 DEF Next

\* Every step of the two programs preserves MessagingInv, in each of the five
\* benchmarks: no unit of a round is counted twice, and a receiver of a stream or
\* a socket writes only when it has read its whole batch.
THEOREM MessagingInvariant == Spec => []MessagingInv
BY MessagingInit, MessagingStep, PTL DEF Spec

\* A latency is that of one round trip: when the last unit has come back nothing
\* is on its way, and every receiver is at the start of a batch.
THEOREM RoundsStayInStep == Spec => []RoundsInStep
<1>1. MessagingInv => RoundsInStep
  BY DEF MessagingInv
<1> QED BY <1>1, MessagingInvariant, PTL

\* A receiver answers only a batch that was sent in full, so it and its sender
\* never wait for each other with full buffers, however small those are.
THEOREM AnswersComeAfter == Spec => []AnswersFollowBatch
<1>1. MessagingInv => AnswersFollowBatch
  <2> SUFFICES ASSUME MessagingInv, NEW c \in Sockets, ~Unary, down[c] > 0 \/ serverPc[c[2]] = "write"
               PROVE  \/ pc[c[1]] = "recv"
                      \/ Broadcast /\ sent[c[1]] >= MsgUnits * (c[2] - c[1] + 1)
    BY DEF AnswersFollowBatch
  <2>1. /\ FlowOK(c) /\ SentOK /\ TypesOK /\ LoadsOK /\ c[1] \in Senders /\ c[2] \in Serving
    BY InvFacts, Sent, Topology
  <2>2. pc[c[1]] \in {"send", "recv"}
    BY <2>1, Quiet DEF LoadsOK
  <2>3. SentTo(c) = SocketBatch
    <3>1. serverPc[c[2]] \in ServerPlaces /\ down[c] \in Nat
      BY <2>1 DEF TypesOK, LoadsOK
    <3> QED BY <2>1, <3>1 DEF FlowOK, ServerPlaces
  <2>4. \/ sent[c[1]] = Round(c[1])
        \/ Broadcast /\ sent[c[1]] >= MsgUnits * (c[2] - c[1] + 1)
    BY <2>1, <2>3 DEF SentOK
  <2>5. PlaceOK(c[1]) /\ sent[c[1]] \in Nat /\ Round(c[1]) \in Nat
    BY <2>1, InvFacts, Units DEF TypesOK
  <2> QED BY <2>2, <2>4, <2>5 DEF PlaceOK
<1> QED BY <1>1, MessagingInvariant, PTL
=============================================================================
