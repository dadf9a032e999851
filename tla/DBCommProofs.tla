---------------------------- MODULE DBCommProofs ----------------------------
(***************************************************************************)
(* Proofs about DBComm: rounds of messages through the table do not run    *)
(* into each other, for any number of senders and messages.                *)
(***************************************************************************)
EXTENDS DBComm, TotalsProofs

(* Who plays with whom.                                                    *)

Mine(s)  == {r \in Receivers : SenderOf(r) = s}
PerLink  == IF broadcast THEN 1 ELSE NumMessages

LEMMA Ids ==
  /\ IsFiniteSet(Endpoints) /\ SenderIds \subseteq Endpoints /\ ReceiverIds \subseteq Endpoints
  /\ SenderIds \cap ReceiverIds = {} /\ Endpoints = SenderIds \cup ReceiverIds
  /\ Endpoints \subseteq Nat /\ NumMessages \in Nat \ {0} /\ 0 \in SenderIds
<1>1. /\ NumSenders \in Nat /\ NumSenders - 1 \in Int /\ NumSenders >= 1 /\ NumSenders <= 100
      /\ NumMessages \in Nat \ {0}
  BY CommAssumption
<1>2. PICK m \in Int : m = 99 + (IF NumSenders >= NumMessages THEN NumSenders ELSE NumMessages)
  BY <1>1
<1>3. IsFiniteSet(0 .. NumSenders - 1) /\ IsFiniteSet(100 .. m)
  <2>1. \A a, b \in Int : IsFiniteSet(a .. b)
    BY FS_Interval
  <2> QED BY <1>1, <1>2, <2>1
<1>4. SenderIds = 0 .. NumSenders - 1 /\ ReceiverIds = 100 .. m
  BY <1>2 DEF SenderIds, ReceiverIds
<1>5. IsFiniteSet(Endpoints)
  BY <1>3, <1>4, FS_Union DEF Endpoints
<1> QED BY <1>1, <1>4, <1>5 DEF Endpoints

LEMMA Pairing ==
  ASSUME broadcast \in BOOLEAN
  PROVE  /\ Senders \subseteq SenderIds /\ Receivers \subseteq ReceiverIds /\ IsFiniteSet(Receivers)
         /\ Senders \cap Receivers = {}
         /\ \A r \in Receivers : SenderOf(r) \in Senders /\ BatchOf(r) = PerLink
         /\ \A s \in Senders : BatchOf(s) = NumMessages
         /\ \A n \in Endpoints : BatchOf(n) \in Nat \ {0}
         /\ PerLink \in Nat \ {0}
<1>1. /\ NumSenders \in Nat /\ NumSenders >= 1 /\ NumSenders <= 100 /\ NumMessages \in Nat \ {0}
  BY CommAssumption
<1>2. Senders \subseteq SenderIds /\ Receivers \subseteq ReceiverIds
  BY <1>1 DEF Senders, Receivers, SenderIds, ReceiverIds
<1>3. IsFiniteSet(Receivers) /\ Senders \cap Receivers = {}
  BY <1>2, Ids, FS_Subset
<1>4. \A r \in Receivers : SenderOf(r) \in Senders
  BY <1>1 DEF Senders, Receivers, SenderOf, SenderIds
<1>5. /\ \A r \in Receivers : BatchOf(r) = PerLink
      /\ \A s \in Senders : BatchOf(s) = NumMessages
      /\ \A n \in Endpoints : BatchOf(n) \in Nat \ {0}
      /\ PerLink \in Nat \ {0}
  BY <1>1, <1>2, Ids DEF BatchOf, PerLink
<1> QED BY <1>2, <1>3, <1>4, <1>5

\* A sender's batch is PerLink messages for each of its receivers.
LEMMA DestinationsAre ==
  ASSUME broadcast \in BOOLEAN, NEW s \in Senders
  PROVE  /\ Destinations(s) = [e \in Endpoints |-> IF e \in Mine(s) THEN PerLink ELSE 0]
         /\ Cardinality(Mine(s)) * PerLink = BatchOf(s)
<1>1. /\ NumSenders \in Nat /\ NumSenders >= 1 /\ NumSenders <= 100 /\ NumMessages \in Nat \ {0}
  BY CommAssumption
<1>2. s \in SenderIds /\ s \notin Receivers /\ s \in Nat /\ s < NumSenders /\ BatchOf(s) = NumMessages
  BY <1>1, Pairing DEF SenderIds
<1>3. CASE ~broadcast
  <2>1. Mine(s) = {s + 100}
    BY <1>1, <1>2, <1>3 DEF Mine, Receivers, SenderOf
  <2>2. s + 100 \in Endpoints
    <3>1. s + 100 \in Receivers
      BY <2>1 DEF Mine
    <3> QED BY <3>1, Pairing, Ids
  <2>3. Destinations(s) = [Nothing EXCEPT ![s + 100] = NumMessages]
    BY <1>2, <1>3 DEF Destinations
  <2>4. Cardinality(Mine(s)) = 1
    BY <2>1, FS_Singleton
  <2> QED BY <1>1, <1>2, <1>3, <2>1, <2>2, <2>3, <2>4 DEF Nothing, PerLink
<1>4. CASE broadcast
  <2>1. s = 0 /\ Mine(s) = 100 .. 99 + NumMessages
    BY <1>1, <1>4 DEF Mine, Receivers, SenderOf, Senders
  <2>2. Destinations(s) = [e \in Endpoints |-> IF e - (s + 100) \in 0 .. NumMessages - 1 THEN 1 ELSE 0]
    BY <1>2, <1>4 DEF Destinations
  <2>3. \A e \in Endpoints : e - (s + 100) \in 0 .. NumMessages - 1 <=> e \in Mine(s)
    BY <1>1, <2>1, Ids
  <2>4. Cardinality(100 .. 99 + NumMessages) = NumMessages
    BY <1>1, FS_Interval
  <2> QED BY <1>1, <1>2, <1>4, <2>1, <2>2, <2>3, <2>4 DEF PerLink
<1> QED BY <1>3, <1>4

\* Which program runs, and with which threads, never changes.
LEMMA PairingStill ==
  ASSUME broadcast' = broadcast
  PROVE  /\ Senders' = Senders /\ Receivers' = Receivers /\ PerLink' = PerLink
         /\ \A n : BatchOf(n)' = BatchOf(n) /\ SenderOf(n)' = SenderOf(n)
         /\ \A n, e : Linked(n, e)' <=> Linked(n, e)
BY DEF Senders, Receivers, BatchOf, SenderOf, Linked, PerLink

LEMMA Links ==
  ASSUME broadcast \in BOOLEAN
  PROVE  /\ \A s \in Senders : \A e : Linked(s, e) => e \in Receivers /\ SenderOf(e) = s
         /\ \A r \in Receivers : \A e : Linked(r, e) => e = SenderOf(r)
         /\ \A r \in Receivers : Linked(r, SenderOf(r)) /\ Linked(SenderOf(r), r)
BY Pairing, Zenon DEF Linked

(* The numbers of the invariant.                                           *)

Round == {"events", "recv"}

RecvOK(r) ==
  /\ pc[r] \in {"recv", "send", "events", "barrier"}
  /\ Toward(r) + Collected(r) <= BatchOf(r)
  /\ Owes(r) => issued[r][SenderOf(r)] = 0 /\ Message[SenderOf(r)][r] = 0
  /\ pc[r] = "send" => Toward(r) = 0
  /\ pc[r] = "send" \/ Collected(r) > 0 => clientId[r] = SenderOf(r)

SendOK(s) ==
  IF pc[s] \in Round
  THEN (IF pc[s] = "recv" THEN recvd[s] ELSE 0) + RowCount(s) + Due(s) <= BatchOf(s)
  ELSE \A r \in Receivers : SenderOf(r) = s => StillDue(r) = 0 /\ Message[s][r] = 0

LEMMA InStep ==
  /\ ReceiverInStep <=> \A r \in Receivers : RecvOK(r)
  /\ SenderInStep <=> \A s \in Senders : SendOK(s)
BY Zenon DEF ReceiverInStep, SenderInStep, RecvOK, SendOK, Round

NumbersOK ==
  /\ \A n, e \in Endpoints : Message[n][e] \in Nat /\ issued[n][e] \in Nat
  /\ \A n \in Endpoints : /\ recvd[n] \in Nat /\ m_count[n] \in Nat /\ answered[n] \in Nat
                          /\ Message[n] \in [Endpoints -> Nat]
                          /\ issued[n] \in [Endpoints -> Nat]
                          /\ RowCount(n) \in Nat /\ SumOf(issued[n]) \in Nat
  /\ \A r \in Receivers : /\ r \in Endpoints /\ SenderOf(r) \in Endpoints
                          /\ SenderOf(r) \in Senders /\ r \notin Senders
                          /\ Toward(r) \in Nat /\ Collected(r) \in Nat
                          /\ StillDue(r) \in Nat /\ BatchOf(r) \in Nat /\ BatchOf(r) >= 1
  /\ \A s \in Senders : s \in Endpoints /\ s \notin Receivers

LEMMA Numbers == CommTypeOK => NumbersOK
<1> SUFFICES ASSUME CommTypeOK PROVE NumbersOK
  OBVIOUS
<1>1. /\ \A n, e \in Endpoints : Message[n][e] \in Nat /\ issued[n][e] \in Nat
      /\ \A n \in Endpoints : /\ recvd[n] \in Nat /\ m_count[n] \in Nat /\ answered[n] \in Nat
                              /\ Message[n] \in [Endpoints -> Nat]
                              /\ issued[n] \in [Endpoints -> Nat]
      /\ broadcast \in BOOLEAN
  BY DEF CommTypeOK
<1>2. \A n \in Endpoints : RowCount(n) \in Nat /\ SumOf(issued[n]) \in Nat
  <2>1. SUFFICES ASSUME NEW n \in Endpoints PROVE SumOf(Message[n]) \in Nat /\ SumOf(issued[n]) \in Nat
    BY DEF RowCount
  <2>2. IsFiniteSet(Endpoints)
    BY Ids
  <2> QED BY <1>1, <2>2, SumNat
<1>3. ASSUME NEW r \in Receivers
      PROVE  /\ r \in Endpoints /\ SenderOf(r) \in Endpoints
             /\ SenderOf(r) \in Senders /\ r \notin Senders
             /\ BatchOf(r) \in Nat /\ BatchOf(r) >= 1
  <2>1. r \in Endpoints /\ SenderOf(r) \in Senders /\ SenderOf(r) \in Endpoints /\ r \notin Senders
    BY <1>1, Pairing, Ids
  <2>2. BatchOf(r) \in Nat \ {0}
    BY <1>1, <2>1, Pairing
  <2> QED BY <2>1, <2>2
<1>4. ASSUME NEW r \in Receivers
      PROVE  Toward(r) \in Nat /\ Collected(r) \in Nat /\ StillDue(r) \in Nat
  BY <1>1, <1>3 DEF Toward, Collected, StillDue
<1>5. \A s \in Senders : s \in Endpoints /\ s \notin Receivers
  BY <1>1, Pairing, Ids
<1> QED BY <1>1, <1>2, <1>3, <1>4, <1>5 DEF NumbersOK

LEMMA NumbersNext == CommTypeOK' => NumbersOK'
BY Numbers, PTL

DueTable(s) == [r \in Receivers |-> IF SenderOf(r) = s THEN StillDue(r) ELSE 0]

LEMMA DueTableIs ==
  ASSUME CommTypeOK, NEW s
  PROVE  /\ Due(s) = SumOf(DueTable(s)) /\ DueTable(s) \in [Receivers -> Nat]
         /\ IsFiniteSet(Receivers) /\ Due(s) \in Nat
         /\ \A r \in Receivers : DueTable(s)[r] = IF SenderOf(r) = s THEN StillDue(r) ELSE 0
<1>1. Due(s) = SumOf(DueTable(s))
  BY DEF Due, DueTable
<1>2. DueTable(s) \in [Receivers -> Nat]
  BY Numbers DEF NumbersOK, DueTable
<1>3. IsFiniteSet(Receivers)
  BY Pairing DEF CommTypeOK
<1>4. \A r \in Receivers : DueTable(s)[r] = IF SenderOf(r) = s THEN StillDue(r) ELSE 0
  BY DEF DueTable
<1> QED BY <1>1, <1>2, <1>3, <1>4, SumNat

LEMMA DueZero ==
  ASSUME CommTypeOK, NEW s
  PROVE  Due(s) = 0 <=> \A r \in Mine(s) : StillDue(r) = 0
<1>1. Due(s) = 0 <=> \A r \in Receivers : DueTable(s)[r] = 0
  BY DueTableIs, SumBounds
<1> QED BY <1>1 DEF DueTable, Mine

\* The table of dues in the next state.
LEMMA DueTableNext ==
  ASSUME CommTypeOK', broadcast' = broadcast, NEW s
  PROVE  /\ Due(s)' = SumOf(DueTable(s)') /\ DueTable(s)' \in [Receivers -> Nat] /\ Due(s)' \in Nat
         /\ \A r \in Receivers : DueTable(s)'[r] = IF SenderOf(r) = s THEN StillDue(r)' ELSE 0
<1>1. Receivers' = Receivers /\ \A n : SenderOf(n)' = SenderOf(n)
  BY PairingStill
<1>2. Due(s)' = SumOf(DueTable(s)')
  BY DEF Due, DueTable
<1>3. DueTable(s)' = [r \in Receivers |-> IF SenderOf(r) = s THEN StillDue(r)' ELSE 0]
  BY <1>1 DEF DueTable
<1>4. IsFiniteSet(Receivers)
  BY <1>1, Pairing DEF CommTypeOK
<1>5. \A r \in Receivers : StillDue(r)' \in Nat
  BY <1>1, NumbersNext DEF NumbersOK
<1>6. DueTable(s)' \in [Receivers -> Nat] /\ \A r \in Receivers : DueTable(s)'[r] = IF SenderOf(r) = s THEN StillDue(r)' ELSE 0
  BY <1>3, <1>5
<1> QED BY <1>2, <1>4, <1>6, SumNat

\* What is due does not grow when nothing of it does, and follows the one
\* receiver that changes.
LEMMA DueKept ==
  ASSUME CommTypeOK, CommTypeOK', broadcast' = broadcast, NEW s,
         \A r \in Mine(s) : StillDue(r)' <= StillDue(r)
  PROVE  Due(s)' <= Due(s)
<1>1. \A r \in Receivers : DueTable(s)'[r] <= DueTable(s)[r]
  <2>1. SUFFICES ASSUME NEW r \in Receivers PROVE DueTable(s)'[r] <= DueTable(s)[r]
    OBVIOUS
  <2>2. CASE SenderOf(r) = s
    BY <2>2, DueTableIs, DueTableNext DEF Mine
  <2>3. CASE SenderOf(r) # s
    BY <2>3, DueTableIs, DueTableNext
  <2> QED BY <2>2, <2>3
<1> QED BY <1>1, DueTableIs, DueTableNext, SumMonotone

LEMMA DueFollows ==
  ASSUME CommTypeOK, CommTypeOK', broadcast' = broadcast, NEW s, NEW r0 \in Mine(s),
         \A r \in Mine(s) \ {r0} : StillDue(r)' = StillDue(r)
  PROVE  Due(s)' = Due(s) + StillDue(r0)' - StillDue(r0)
<1>1. \A r \in Receivers \ {r0} : DueTable(s)'[r] = DueTable(s)[r]
  BY DueTableIs, DueTableNext DEF Mine
<1>2. r0 \in Receivers /\ DueTable(s)[r0] = StillDue(r0) /\ DueTable(s)'[r0] = StillDue(r0)'
  BY DueTableIs, DueTableNext DEF Mine
<1> QED BY <1>1, <1>2, DueTableIs, DueTableNext, SumChanges

LEMMA RowsKept ==
  ASSUME CommTypeOK, CommTypeOK', NEW n \in Endpoints,
         \A e \in Endpoints : Message'[n][e] <= Message[n][e]
  PROVE  RowCount(n)' <= RowCount(n)
<1>1. Message[n] \in [Endpoints -> Nat] /\ Message'[n] \in [Endpoints -> Nat] /\ IsFiniteSet(Endpoints)
  BY Numbers, NumbersNext, Ids DEF NumbersOK
<1>2. RowCount(n) = SumOf(Message[n]) /\ RowCount(n)' = SumOf(Message'[n])
  BY DEF RowCount
<1> QED BY <1>1, <1>2, SumMonotone

LEMMA RowsFollow ==
  ASSUME CommTypeOK, CommTypeOK', NEW n \in Endpoints, NEW e \in Endpoints,
         \A x \in Endpoints \ {e} : Message'[n][x] = Message[n][x]
  PROVE  RowCount(n)' = RowCount(n) + Message'[n][e] - Message[n][e]
<1>1. Message[n] \in [Endpoints -> Nat] /\ Message'[n] \in [Endpoints -> Nat] /\ IsFiniteSet(Endpoints)
  BY Numbers, NumbersNext, Ids DEF NumbersOK
<1>2. RowCount(n) = SumOf(Message[n]) /\ RowCount(n)' = SumOf(Message'[n])
  BY DEF RowCount
<1> QED BY <1>1, <1>2, SumChanges

\* A receiver's rows are those of its sender.
LEMMA RowsOfReceiver ==
  ASSUME CommTypeOK, OnlyLinks, NEW r \in Receivers
  PROVE  RowCount(r) = Message[r][SenderOf(r)]
<1>1. Message[r] \in [Endpoints -> Nat] /\ IsFiniteSet(Endpoints) /\ r \in Endpoints /\ SenderOf(r) \in Endpoints
  BY Numbers, Ids DEF NumbersOK
<1>2. \A e \in Endpoints \ {SenderOf(r)} : Message[r][e] = 0
  BY <1>1, Links DEF OnlyLinks, CommTypeOK
<1> QED BY <1>1, <1>2, SumSingle DEF RowCount

\* What receiver r and its sender share is as it was, or the sender has
\* received what the receiver had answered.
Still(r) ==
  /\ pc'[r] = pc[r] /\ recvd'[r] = recvd[r] /\ clientId'[r] = clientId[r]
  /\ issued'[SenderOf(r)][r] = issued[SenderOf(r)][r]
  /\ issued'[r][SenderOf(r)] = issued[r][SenderOf(r)]
  /\ Message'[SenderOf(r)][r] \in {0, Message[SenderOf(r)][r]}
  /\ Message'[r][SenderOf(r)] = Message[r][SenderOf(r)]

LEMMA StillOK ==
  ASSUME broadcast' = broadcast, NEW r \in Receivers, Still(r)
  PROVE  /\ RecvOK(r) => RecvOK(r)'
         /\ StillDue(r)' = StillDue(r) /\ Toward(r)' = Toward(r) /\ Collected(r)' = Collected(r)
         /\ Owes(r)' <=> Owes(r)
<1>1. BatchOf(r)' = BatchOf(r) /\ SenderOf(r)' = SenderOf(r)
  BY PairingStill
<1>2. Toward(r)' = Toward(r) /\ Collected(r)' = Collected(r)
  BY <1>1 DEF Still, Toward, Collected
<1>3. Owes(r)' <=> Owes(r)
  BY <1>2 DEF Still, Owes
<1>4. StillDue(r)' = StillDue(r)
  BY <1>1, <1>3 DEF Still, StillDue
<1>5. RecvOK(r) => RecvOK(r)'
  BY <1>1, <1>2, <1>3 DEF Still, RecvOK
<1> QED BY <1>2, <1>3, <1>4, <1>5

\* A sender that nothing new is due to, or comes for, stays in step.
LEMMA SendKept ==
  ASSUME CommTypeOK, CommTypeOK', broadcast' = broadcast, NEW s \in Senders, SendOK(s),
         pc'[s] \in Round <=> pc[s] \in Round,
         pc'[s] \in Round => pc'[s] = pc[s] /\ recvd'[s] = recvd[s],
         \A r \in Mine(s) : StillDue(r)' <= StillDue(r),
         \A e \in Endpoints : Message'[s][e] <= Message[s][e]
  PROVE  SendOK(s)'
<1>1. Receivers' = Receivers /\ (\A n : BatchOf(n)' = BatchOf(n) /\ SenderOf(n)' = SenderOf(n))
  BY PairingStill
<1>2. s \in Endpoints /\ RowCount(s) \in Nat /\ RowCount(s)' \in Nat /\ recvd[s] \in Nat
  BY <1>1, Numbers, NumbersNext DEF NumbersOK
<1>3. BatchOf(s) \in Nat
  BY <1>2, Pairing DEF CommTypeOK
<1>4. CASE pc[s] \in Round
  <2>1. RowCount(s)' <= RowCount(s)
    BY <1>2, RowsKept
  <2>2. Due(s)' <= Due(s) /\ Due(s) \in Nat /\ Due(s)' \in Nat
    BY DueKept, DueTableIs, DueTableNext
  <2>3. PICK k \in Nat : k = IF pc[s] = "recv" THEN recvd[s] ELSE 0
    BY <1>2
  <2>4. k + RowCount(s) + Due(s) <= BatchOf(s)
    BY <1>4, <2>3 DEF SendOK
  <2>5. k + RowCount(s)' + Due(s)' <= BatchOf(s)'
    BY <1>1, <1>2, <1>3, <2>1, <2>2, <2>4
  <2>6. pc'[s] \in Round /\ k = IF pc'[s] = "recv" THEN recvd'[s] ELSE 0
    BY <1>4, <2>3
  <2> QED BY <2>5, <2>6 DEF SendOK, Round
<1>5. CASE pc[s] \notin Round
  <2>1. pc'[s] \notin Round
    BY <1>5
  <2>2. \A r \in Receivers : SenderOf(r) = s => StillDue(r) = 0 /\ Message[s][r] = 0
    BY <1>5 DEF SendOK
  <2>3. ASSUME NEW r \in Receivers, SenderOf(r) = s PROVE StillDue(r)' = 0 /\ Message'[s][r] = 0
    <3>1. /\ StillDue(r)' \in Nat /\ Message'[s][r] \in Nat /\ r \in Mine(s) /\ r \in Endpoints
          /\ StillDue(r) = 0 /\ Message[s][r] = 0
      BY <1>1, <1>2, <2>2, <2>3, Numbers, NumbersNext DEF NumbersOK, Mine
    <3> QED BY <3>1
  <2> QED BY <1>1, <2>1, <2>3 DEF SendOK, Round
<1> QED BY <1>4, <1>5

(* Types.                                                                  *)

LEMMA BroadcastStill == [Next]_vars => broadcast' = broadcast
BY DEF Next, Main, Thread, FinishRun, JoinThreads, PassBarrier, DbosSend, SendCallback, DbosRecv,
       Record, ArrayFull, LoopTest, DbosRecvFails, Execute, Over, vars, programs

LEMMA NothingTyped == Nothing \in [Endpoints -> Nat] /\ \A e \in Endpoints : Nothing[e] = 0
BY DEF Nothing

LEMMA DestinationsTyped ==
  ASSUME CommTypeOK, NEW n \in Endpoints, Up(n)
  PROVE  Destinations(n) \in [Endpoints -> Nat]
<1>1. n \in Senders \/ n \in Receivers
  BY DEF Up
<1>2. BatchOf(n) \in Nat /\ broadcast \in BOOLEAN /\ PerLink \in Nat
  BY Pairing DEF CommTypeOK
<1>3. CASE n \in Receivers
  <2>1. Destinations(n) = [Nothing EXCEPT ![clientId[n]] = BatchOf(n)]
    BY <1>2, <1>3, Pairing DEF Destinations
  <2> QED BY <1>2, <2>1, NothingTyped
<1>4. CASE n \in Senders
  BY <1>2, <1>4, DestinationsAre
<1> QED BY <1>1, <1>3, <1>4

\* The four families of rows and requests keep their types.
LEMMA EntryTyped ==
  ASSUME NEW T \in [Endpoints -> [Endpoints -> Nat]], NEW n \in Endpoints, NEW e \in Endpoints, NEW k \in Nat,
         NEW U, U = [T EXCEPT ![n][e] = k]
  PROVE  /\ U \in [Endpoints -> [Endpoints -> Nat]] /\ U[n][e] = k
         /\ \A x \in Endpoints \ {n} : U[x] = T[x]
         /\ \A y \in Endpoints \ {e} : U[n][y] = T[n][y]
<1>1. U = [T EXCEPT ![n] = [T[n] EXCEPT ![e] = k]]
  OBVIOUS
<1>2. T[n] \in [Endpoints -> Nat]
  OBVIOUS
<1>3. PICK g : g = [T[n] EXCEPT ![e] = k]
  OBVIOUS
<1>4. g \in [Endpoints -> Nat] /\ g[e] = k /\ \A y \in Endpoints \ {e} : g[y] = T[n][y]
  BY <1>2, <1>3
<1> QED BY <1>1, <1>3, <1>4

LEMMA RowTyped ==
  ASSUME NEW T \in [Endpoints -> [Endpoints -> Nat]], NEW n \in Endpoints, NEW g \in [Endpoints -> Nat],
         NEW U, U = [T EXCEPT ![n] = g]
  PROVE  /\ U \in [Endpoints -> [Endpoints -> Nat]] /\ U[n] = g
         /\ \A x \in Endpoints \ {n} : U[x] = T[x]
OBVIOUS

LEMMA TypeStep ==
  ASSUME CommTypeOK, OnlyLinks, [Next]_vars
  PROVE  CommTypeOK'
<1>0. broadcast' = broadcast /\ broadcast \in BOOLEAN /\ \A n : BatchOf(n)' = BatchOf(n)
  BY BroadcastStill, PairingStill DEF CommTypeOK
<1> USE <1>0
<1>b. \A n \in Endpoints : BatchOf(n) \in Nat \ {0}
  BY Pairing
<1>1. CASE UNCHANGED vars
  BY <1>1 DEF vars, tables, programs, threads, CommTypeOK
<1>2. CASE Main
  <2>1. CASE FinishRun
    BY <2>1 DEF FinishRun, tables, programs, threads, CommTypeOK
  <2>2. CASE JoinThreads
    BY <2>2 DEF JoinThreads, tables, programs, threads, CommTypeOK
  <2>3. ASSUME NEW group, PassBarrier(group) PROVE CommTypeOK'
    <3>1. /\ pc' \in [Endpoints -> {"send", "events", "recv", "barrier", "record", "test", "finished"}]
          /\ connected' \in [Endpoints -> BOOLEAN]
      BY <2>3 DEF PassBarrier, CommTypeOK
    <3> QED BY <2>3, <3>1 DEF PassBarrier, tables, programs, CommTypeOK
  <2> QED BY <1>2, <2>1, <2>2, <2>3 DEF Main
<1>3. ASSUME NEW n \in Endpoints, DbosSend(n) PROVE CommTypeOK'
  <2>1. Destinations(n) \in [Endpoints -> Nat]
    BY <1>3, DestinationsTyped DEF DbosSend
  <2>2. issued' \in [Endpoints -> [Endpoints -> Nat]]
    BY <1>3, <2>1, RowTyped DEF DbosSend, CommTypeOK
  <2> QED BY <1>3, <2>2 DEF DbosSend, Goto, tables, programs, CommTypeOK
<1>4. ASSUME NEW n \in Endpoints, SendCallback(n) PROVE CommTypeOK'
  <2>1. m_count[n] \in 1 .. BatchOf(n) /\ BatchOf(n) \in Nat /\ BatchOf(n) >= 1 /\ answered[n] \in Nat
    BY <1>b DEF CommTypeOK
  <2>2. m_count' \in [Endpoints -> Nat] /\ \A x \in Endpoints : m_count'[x] \in 1 .. BatchOf(x)
    BY <1>4, <2>1 DEF SendCallback, CommTypeOK
  <2>3. answered' \in [Endpoints -> Nat] /\ recvd' \in [Endpoints -> Nat]
    BY <1>4, <2>1 DEF SendCallback, CommTypeOK
  <2>4. pc' \in [Endpoints -> {"send", "events", "recv", "barrier", "record", "test", "finished"}]
    BY <1>4 DEF SendCallback, Goto, AfterSend, CommTypeOK
  <2> QED BY <1>4, <2>2, <2>3, <2>4 DEF SendCallback, tables, programs, CommTypeOK
<1>5. ASSUME NEW n \in Endpoints, DbosRecv(n) PROVE CommTypeOK'
  <2>1. Message' \in [Endpoints -> [Endpoints -> Nat]]
    BY <1>5, RowTyped, NothingTyped DEF DbosRecv, ReceiveMessage, CommTypeOK
  <2>2. recvd' \in [Endpoints -> Nat]
    <3>1. recvd[n] + RowCount(n) \in Nat
      BY Numbers DEF NumbersOK
    <3> QED BY <1>5, <3>1 DEF DbosRecv, CommTypeOK
  <2>3. pc' \in [Endpoints -> {"send", "events", "recv", "barrier", "record", "test", "finished"}]
    BY <1>5 DEF DbosRecv, Goto, AfterRecv, CommTypeOK
  <2>4. clientId' \in [ReceiverIds -> SenderIds \cup {-1}]
    <3>1. CASE clientId' = clientId
      BY <3>1 DEF CommTypeOK
    <3>2. CASE clientId' # clientId
      <4>1. PICK s \in Endpoints : Message[n][s] > 0 /\ n \in Receivers /\ clientId' = [clientId EXCEPT ![n] = s]
        BY <1>5, <3>2 DEF DbosRecv
      <4>2. Message[n][s] # 0
        BY <4>1, Numbers DEF NumbersOK
      <4>3. s = SenderOf(n)
        BY <4>1, <4>2, Links DEF OnlyLinks
      <4>4. s \in SenderIds
        BY <4>1, <4>3, Pairing
      <4> QED BY <4>1, <4>4 DEF CommTypeOK
    <3> QED BY <3>1, <3>2
  <2> QED BY <1>5, <2>1, <2>2, <2>3, <2>4 DEF DbosRecv, programs, CommTypeOK
<1>6. ASSUME NEW n \in Endpoints, Record(n) PROVE CommTypeOK'
  BY <1>6 DEF Record, Goto, tables, CommTypeOK
<1>7. ASSUME NEW n \in Endpoints, ArrayFull(n) PROVE CommTypeOK'
  BY <1>7 DEF ArrayFull, tables, threads, CommTypeOK
<1>8. ASSUME NEW n \in Endpoints, LoopTest(n) PROVE CommTypeOK'
  BY <1>8 DEF LoopTest, Goto, tables, programs, CommTypeOK
<1>9. ASSUME NEW n \in Endpoints, DbosRecvFails(n) PROVE CommTypeOK'
  <2>1. Message' \in [Endpoints -> [Endpoints -> Nat]]
    <3>1. CASE ReceiveMessage(n)
      BY <3>1, RowTyped, NothingTyped DEF ReceiveMessage, CommTypeOK
    <3>2. CASE UNCHANGED Message
      BY <3>2 DEF CommTypeOK
    <3> QED BY <1>9, <3>1, <3>2 DEF DbosRecvFails
  <2> QED BY <1>9, <2>1 DEF DbosRecvFails, CommTypeOK
<1>10. ASSUME NEW n \in Endpoints, Execute(n) PROVE CommTypeOK'
  <2>1. PICK e \in Endpoints : /\ issued[n][e] > 0
                               /\ issued' = [issued EXCEPT ![n][e] = issued[n][e] - 1]
                               /\ Message' = Message \/ Message' = [Message EXCEPT ![e][n] = Message[e][n] + 1]
    BY <1>10 DEF Execute, SendMessage
  <2>2. issued[n][e] - 1 \in Nat /\ Message[e][n] + 1 \in Nat
    BY <2>1, Numbers DEF NumbersOK
  <2>3. issued' \in [Endpoints -> [Endpoints -> Nat]]
    BY <2>1, <2>2, EntryTyped DEF CommTypeOK
  <2>4. Message' \in [Endpoints -> [Endpoints -> Nat]]
    <3>1. CASE Message' = Message
      BY <3>1 DEF CommTypeOK
    <3>2. CASE Message' = [Message EXCEPT ![e][n] = Message[e][n] + 1]
      BY <2>2, <3>2, EntryTyped DEF CommTypeOK
    <3> QED BY <2>1, <3>1, <3>2
  <2>5. answered' \in [Endpoints -> Nat]
    BY <1>10 DEF Execute, CommTypeOK
  <2>6. failed' \in BOOLEAN
    BY <1>10 DEF Execute, CommTypeOK
  <2> QED BY <1>10, <2>3, <2>4, <2>5, <2>6 DEF Execute, programs, CommTypeOK
<1> QED BY <1>1, <1>2, <1>3, <1>4, <1>5, <1>6, <1>7, <1>8, <1>9, <1>10 DEF Next, Thread, Over

LEMMA CommInvNext ==
  ASSUME broadcast' = broadcast, CommTypeOK', OnlyLinks', BatchCounted', BatchExact',
         \A r \in Receivers : RecvOK(r)', \A s \in Senders : SendOK(s)'
  PROVE  CommInv'
<1>1. Senders' = Senders /\ Receivers' = Receivers
  BY PairingStill
<1>2. (\A r \in Receivers : RecvOK(r))' /\ (\A s \in Senders : SendOK(s))'
  BY <1>1
<1>3. ReceiverInStep' /\ SenderInStep'
  BY <1>2, InStep, PTL
<1> QED BY <1>3 DEF CommInv

(* Steps that move no message.                                             *)

LEMMA QuietStep ==
  ASSUME CommInv, CommTypeOK', broadcast' = broadcast,
         UNCHANGED <<Message, issued, answered, m_count, recvd, clientId>>,
         \A n \in Endpoints :
           \/ pc'[n] = pc[n]
           \/ n \in Senders /\ pc[n] \notin Round /\ pc'[n] \notin Round
           \/ n \in Receivers /\ pc[n] = "barrier" /\ pc'[n] = "recv"
  PROVE  CommInv'
<1>1. /\ Senders' = Senders /\ Receivers' = Receivers
      /\ \A n : BatchOf(n)' = BatchOf(n) /\ SenderOf(n)' = SenderOf(n)
      /\ \A n, e : Linked(n, e)' <=> Linked(n, e)
  BY PairingStill
<1>2. CommTypeOK /\ NumbersOK
  BY Numbers DEF CommInv
<1>3. OnlyLinks'
  BY <1>1 DEF CommInv, OnlyLinks
<1>4. BatchCounted'
  <2>1. \A n \in Endpoints : pc'[n] = "events" <=> pc[n] = "events"
    BY DEF Round
  <2> QED BY <1>1, <2>1 DEF CommInv, BatchCounted, Nothing
<1>5. BatchExact'
  BY <1>1 DEF CommInv, BatchExact
<1>6. ASSUME NEW r \in Receivers PROVE RecvOK(r)' /\ StillDue(r)' = StillDue(r)
  <2>1. r \in Endpoints /\ r \notin Senders /\ RecvOK(r)
    BY <1>2, InStep DEF NumbersOK, CommInv
  <2>2. CASE pc'[r] = pc[r]
    <3>1. Still(r)
      BY <2>2 DEF Still
    <3> QED BY <2>1, <3>1, StillOK
  <2>3. CASE pc[r] = "barrier" /\ pc'[r] = "recv"
    <3>1. Toward(r)' = Toward(r) /\ Collected(r)' = Collected(r)
      BY <1>1, <2>3 DEF Toward, Collected
    <3>2. Owes(r)' <=> Owes(r)
      BY <2>3, <3>1 DEF Owes
    <3>3. StillDue(r)' = StillDue(r)
      BY <1>1, <3>2 DEF StillDue
    <3>4. RecvOK(r)'
      BY <1>1, <2>1, <2>3, <3>1, <3>2 DEF RecvOK
    <3> QED BY <3>3, <3>4
  <2> QED BY <2>1, <2>2, <2>3
<1>7. ASSUME NEW s \in Senders PROVE SendOK(s)'
  <2>1. s \in Endpoints /\ s \notin Receivers /\ SendOK(s)
    BY <1>2, InStep DEF NumbersOK, CommInv
  <2>2. /\ pc'[s] \in Round <=> pc[s] \in Round
        /\ pc'[s] \in Round => pc'[s] = pc[s] /\ recvd'[s] = recvd[s]
    BY <2>1
  <2>3. \A r \in Mine(s) : StillDue(r)' <= StillDue(r)
    BY <1>2, <1>6 DEF Mine, NumbersOK
  <2>4. \A e \in Endpoints : Message'[s][e] <= Message[s][e]
    BY <1>2, <2>1 DEF NumbersOK
  <2> QED BY <1>2, <2>1, <2>2, <2>3, <2>4, SendKept
<1> QED BY <1>3, <1>4, <1>5, <1>6, <1>7, CommInvNext

LEMMA BarrierStep ==
  ASSUME CommInv, CommTypeOK', broadcast' = broadcast, NEW group, group = Senders \/ group = Receivers, PassBarrier(group)
  PROVE  CommInv'
<1>1. ASSUME NEW n \in Endpoints
      PROVE  \/ pc'[n] = pc[n]
             \/ n \in Senders /\ pc[n] \notin Round /\ pc'[n] \notin Round
             \/ n \in Receivers /\ pc[n] = "barrier" /\ pc'[n] = "recv"
  <2>1. CASE n \notin group
    BY <2>1 DEF PassBarrier
  <2>2. CASE n \in group /\ n \in Senders
    BY <2>2 DEF PassBarrier, Round
  <2>3. CASE n \in group /\ n \in Receivers /\ n \notin Senders
    BY <2>3 DEF PassBarrier, Round
  <2> QED BY <2>1, <2>2, <2>3
<1> QED BY <1>1, QuietStep DEF PassBarrier, tables

LEMMA QuietSteps ==
  ASSUME CommInv, CommTypeOK', broadcast' = broadcast,
         \/ UNCHANGED vars \/ Main
         \/ \E n \in Endpoints : Record(n) \/ ArrayFull(n) \/ LoopTest(n)
  PROVE  CommInv'
<1>1. CASE UNCHANGED vars
  BY <1>1, QuietStep DEF vars, tables, threads
<1>2. CASE FinishRun \/ JoinThreads
  BY <1>2, QuietStep DEF FinishRun, JoinThreads, tables, threads
<1>3. CASE PassBarrier(Senders) \/ PassBarrier(Receivers)
  BY <1>3, BarrierStep
<1>4. ASSUME NEW n \in Endpoints, ArrayFull(n) PROVE CommInv'
  BY <1>4, QuietStep DEF ArrayFull, tables, threads
<1>5. ASSUME NEW n \in Endpoints, Record(n) \/ LoopTest(n) PROVE CommInv'
  <2>1. /\ UNCHANGED <<Message, issued, answered, m_count, recvd, clientId>>
        /\ pc[n] \in {"record", "test"} /\ Up(n)
    BY <1>5 DEF Record, LoopTest, tables
  <2>2. \A x \in Endpoints : x # n => pc'[x] = pc[x]
    BY <1>5 DEF Record, LoopTest, Goto, CommInv, CommTypeOK
  <2>3. pc'[n] \in {"test", "finished", "send"}
    BY <1>5 DEF Record, LoopTest, Goto, CommInv, CommTypeOK
  <2>4. n \in Senders
    <3>1. n \in Receivers => pc[n] \in {"recv", "send", "events", "barrier"}
      BY DEF CommInv, ReceiverInStep
    <3> QED BY <2>1, <3>1 DEF Up
  <2>5. pc[n] \notin Round /\ pc'[n] \notin Round
    BY <2>1, <2>3 DEF Round
  <2> QED BY <2>1, <2>2, <2>4, <2>5, QuietStep
<1> QED BY <1>1, <1>2, <1>3, <1>4, <1>5 DEF Main

(* Sending a batch.                                                        *)

LEMMA InvFacts ==
  ASSUME CommInv
  PROVE  /\ CommTypeOK /\ NumbersOK /\ OnlyLinks /\ broadcast \in BOOLEAN
         /\ \A r \in Receivers : RecvOK(r)
         /\ \A s \in Senders : SendOK(s)
BY Numbers, InStep DEF CommInv, CommTypeOK

\* A batch is counted in full when it is issued.
LEMMA CountedSend ==
  ASSUME CommInv, CommTypeOK', broadcast' = broadcast, NEW n \in Endpoints, DbosSend(n),
         SumOf(issued'[n]) = BatchOf(n)
  PROVE  BatchCounted' /\ BatchExact'
<1>1. \A x : BatchOf(x)' = BatchOf(x)
  BY PairingStill
<1>2. /\ \A x \in Endpoints \ {n} : pc'[x] = pc[x] /\ issued'[x] = issued[x]
      /\ pc'[n] = "events" /\ pc[n] = "send" /\ UNCHANGED <<answered, m_count, recvd>>
  BY DEF DbosSend, Goto, CommInv, CommTypeOK
<1>3. answered[n] = 0 /\ m_count[n] = BatchOf(n)
  BY <1>2 DEF CommInv, BatchCounted
<1>4. m_count'[n] = answered'[n] + SumOf(issued'[n])
  <2>1. BatchOf(n) \in Nat
    BY Pairing DEF CommInv, CommTypeOK
  <2> QED BY <1>2, <1>3, <2>1
<1>5. ASSUME NEW x \in Endpoints
      PROVE  IF pc'[x] = "events" THEN m_count'[x] = answered'[x] + SumOf(issued'[x])
             ELSE answered'[x] = 0 /\ issued'[x] = Nothing /\ m_count'[x] = BatchOf(x)
  <2>1. CASE x = n
    BY <1>2, <1>4, <2>1
  <2>2. CASE x # n
    BY <1>2, <2>2 DEF CommInv, BatchCounted
  <2> QED BY <2>1, <2>2
<1>6. BatchCounted'
  BY <1>1, <1>5 DEF BatchCounted, Nothing
<1>7. BatchExact'
  BY <1>1, <1>2 DEF CommInv, BatchExact
<1> QED BY <1>6, <1>7

LEMMA SenderSends ==
  ASSUME CommInv, CommTypeOK', broadcast' = broadcast, NEW s \in Senders, DbosSend(s)
  PROVE  CommInv'
<1>1. /\ Senders' = Senders /\ Receivers' = Receivers /\ PerLink' = PerLink
      /\ \A n : BatchOf(n)' = BatchOf(n) /\ SenderOf(n)' = SenderOf(n)
      /\ \A n, e : Linked(n, e)' <=> Linked(n, e)
  BY PairingStill
<1>2. /\ CommTypeOK /\ NumbersOK /\ OnlyLinks /\ broadcast \in BOOLEAN /\ SendOK(s)
      /\ s \in Endpoints /\ s \notin Receivers /\ PerLink \in Nat \ {0}
      /\ \A r \in Receivers : BatchOf(r) = PerLink
  BY InvFacts, Pairing DEF NumbersOK
<1>3. /\ issued'[s] = Destinations(s) /\ pc[s] = "send" /\ pc'[s] = "events"
      /\ \A x \in Endpoints \ {s} : issued'[x] = issued[x] /\ pc'[x] = pc[x]
      /\ UNCHANGED <<Message, recvd, clientId, answered, m_count>>
  BY <1>2 DEF DbosSend, Goto, tables, CommTypeOK
<1>4. /\ \A e \in Endpoints : issued'[s][e] = IF e \in Mine(s) THEN PerLink ELSE 0
      /\ Cardinality(Mine(s)) * PerLink = BatchOf(s)
  BY <1>2, <1>3, DestinationsAre
<1>5. \A r \in Mine(s) : StillDue(r) = 0 /\ Message[s][r] = 0
  BY <1>2, <1>3 DEF SendOK, Round, Mine
<1>6. Mine(s) \subseteq Receivers /\ Mine(s) \subseteq Endpoints /\ IsFiniteSet(Endpoints) /\ IsFiniteSet(Receivers)
  BY <1>2, Ids, Pairing DEF Mine, NumbersOK
<1>7. BatchCounted' /\ BatchExact'
  <2>1. issued'[s] \in [Endpoints -> Nat]
    BY <1>2, NumbersNext DEF NumbersOK
  <2>2. SumOf(issued'[s]) = BatchOf(s)
    BY <1>2, <1>4, <1>6, <2>1, SumSame
  <2> QED BY <1>2, <2>2, CountedSend
<1>8. OnlyLinks'
  <2>1. ASSUME NEW e \in Endpoints, ~Linked(s, e) PROVE issued'[s][e] = 0
    BY <1>4, <2>1 DEF Linked, Mine
  <2> QED BY <1>1, <1>2, <1>3, <2>1 DEF OnlyLinks
<1>9. ASSUME NEW r \in Mine(s) PROVE RecvOK(r)' /\ StillDue(r)' = PerLink
  <2>1. r \in Receivers /\ r \in Endpoints /\ SenderOf(r) = s /\ RecvOK(r) /\ r # s
    BY <1>2, <1>6, InvFacts DEF Mine
  <2>2. issued[r][s] \in Nat /\ Toward(r) \in Nat /\ Collected(r) \in Nat /\ BatchOf(r) \in Nat /\ BatchOf(r) >= 1
        /\ issued[s][r] \in Nat /\ Message[r][s] \in Nat
    BY <1>2, <2>1 DEF NumbersOK
  <2>3. ~Owes(r) /\ issued[r][s] = 0
    BY <1>5, <2>1, <2>2 DEF StillDue
  <2>4. Toward(r) = 0 /\ Collected(r) = 0 /\ pc[r] # "send"
    BY <2>2, <2>3 DEF Owes
  <2>5. Message[r][s] = 0
    BY <2>1, <2>2, <2>4 DEF Toward
  <2>6. Toward(r)' = PerLink
    BY <1>1, <1>2, <1>3, <1>4, <2>1, <2>5 DEF Toward
  <2>7. Collected(r)' = 0 /\ pc'[r] = pc[r]
    BY <1>3, <2>1, <2>4 DEF Collected
  <2>8. issued'[r][s] = 0 /\ Message'[s][r] = 0
    BY <1>3, <1>5, <2>1, <2>3
  <2>9. Owes(r)'
    BY <1>2, <2>6, <2>7 DEF Owes
  <2>10. StillDue(r)' = PerLink
    BY <1>1, <1>2, <2>1, <2>8, <2>9 DEF StillDue
  <2>11. RecvOK(r)'
    BY <1>1, <1>2, <2>1, <2>4, <2>6, <2>7, <2>8 DEF RecvOK
  <2> QED BY <2>10, <2>11
<1>10. ASSUME NEW r \in Receivers \ Mine(s) PROVE RecvOK(r)' /\ StillDue(r)' = StillDue(r)
  <2>1. SenderOf(r) # s /\ r # s /\ r \in Endpoints /\ SenderOf(r) \in Endpoints /\ RecvOK(r)
    BY <1>2, InvFacts DEF Mine, NumbersOK
  <2>2. Still(r)
    BY <1>3, <2>1 DEF Still
  <2> QED BY <2>1, <2>2, StillOK
<1>11. SendOK(s)'
  <2>1. \A e \in Endpoints : Message[s][e] = 0
    BY <1>2, <1>5, Links DEF OnlyLinks, Mine
  <2>2. RowCount(s)' = 0
    <3>1. Message[s] \in [Endpoints -> Nat]
      BY <1>2 DEF NumbersOK
    <3>2. SumOf(Message[s]) = 0
      BY <1>6, <2>1, <3>1, SumBounds
    <3> QED BY <1>3, <3>2 DEF RowCount
  <2>3. Due(s)' = BatchOf(s)
    <3>1. /\ Due(s)' = SumOf(DueTable(s)') /\ DueTable(s)' \in [Receivers -> Nat]
          /\ \A r \in Receivers : DueTable(s)'[r] = IF SenderOf(r) = s THEN StillDue(r)' ELSE 0
      BY DueTableNext
    <3>2. \A r \in Receivers : DueTable(s)'[r] = IF r \in Mine(s) THEN PerLink ELSE 0
      BY <1>9, <3>1 DEF Mine
    <3> QED BY <1>2, <1>4, <1>6, <3>1, <3>2, SumSame
  <2>4. BatchOf(s) \in Nat
    BY <1>2, Pairing
  <2>5. 0 + RowCount(s)' + Due(s)' <= BatchOf(s)'
    BY <1>1, <2>2, <2>3, <2>4
  <2> QED BY <1>3, <2>5 DEF SendOK, Round
<1>12. ASSUME NEW x \in Senders, x # s PROVE SendOK(x)'
  <2>1. SendOK(x) /\ x \in Endpoints /\ pc'[x] = pc[x] /\ recvd'[x] = recvd[x]
    BY <1>2, <1>3, <1>12, InvFacts DEF NumbersOK
  <2>2. \A r \in Mine(x) : StillDue(r)' <= StillDue(r)
    BY <1>2, <1>10, <1>12 DEF Mine, NumbersOK
  <2>3. \A e \in Endpoints : Message'[x][e] <= Message[x][e]
    BY <1>2, <1>3, <2>1 DEF NumbersOK
  <2> QED BY <1>2, <2>1, <2>2, <2>3, SendKept
<1> QED BY <1>7, <1>8, <1>9, <1>10, <1>11, <1>12, CommInvNext

LEMMA ReceiverSends ==
  ASSUME CommInv, CommTypeOK', broadcast' = broadcast, NEW r \in Receivers, DbosSend(r)
  PROVE  CommInv'
<1>1. /\ Senders' = Senders /\ Receivers' = Receivers
      /\ \A n : BatchOf(n)' = BatchOf(n) /\ SenderOf(n)' = SenderOf(n)
      /\ \A n, e : Linked(n, e)' <=> Linked(n, e)
  BY PairingStill
<1>2. /\ CommTypeOK /\ NumbersOK /\ OnlyLinks /\ broadcast \in BOOLEAN /\ RecvOK(r)
      /\ r \in Endpoints /\ r \notin Senders /\ BatchOf(r) \in Nat /\ BatchOf(r) >= 1
  BY InvFacts DEF NumbersOK
<1>3. PICK s \in Senders : s = SenderOf(r) /\ s \in Endpoints /\ s \notin Receivers /\ s # r
  BY <1>2 DEF NumbersOK
<1>4. /\ issued'[r] = Destinations(r) /\ pc[r] = "send" /\ pc'[r] = "events"
      /\ \A x \in Endpoints \ {r} : issued'[x] = issued[x] /\ pc'[x] = pc[x]
      /\ UNCHANGED <<Message, recvd, clientId, answered, m_count>>
  BY <1>2 DEF DbosSend, Goto, tables, CommTypeOK
<1>5. /\ clientId[r] = s /\ Toward(r) = 0 /\ issued[r][s] = 0 /\ Message[s][r] = 0 /\ Owes(r)
  BY <1>2, <1>3, <1>4 DEF RecvOK, Owes
<1>6. /\ issued'[r][s] = BatchOf(r) /\ \A e \in Endpoints \ {s} : issued'[r][e] = 0
  <2>1. Destinations(r) = [Nothing EXCEPT ![s] = BatchOf(r)]
    BY <1>2, <1>5 DEF Destinations
  <2> QED BY <1>3, <1>4, <2>1, NothingTyped
<1>7. BatchCounted' /\ BatchExact'
  <2>1. issued'[r] \in [Endpoints -> Nat] /\ IsFiniteSet(Endpoints)
    BY <1>2, NumbersNext, Ids DEF NumbersOK
  <2>2. SumOf(issued'[r]) = BatchOf(r)
    BY <1>3, <1>6, <2>1, SumSingle
  <2> QED BY <1>2, <2>2, CountedSend
<1>8. OnlyLinks'
  <2>1. \A e \in Endpoints : ~Linked(r, e) => issued'[r][e] = 0
    BY <1>2, <1>3, <1>6, Links
  <2> QED BY <1>1, <1>2, <1>4, <2>1 DEF OnlyLinks
<1>9. RecvOK(r)' /\ StillDue(r)' = StillDue(r)
  <2>1. Toward(r)' = 0
    BY <1>1, <1>3, <1>4, <1>5 DEF Toward
  <2>2. Collected(r)' = 0 /\ ~(pc[r] = "recv")
    BY <1>4 DEF Collected
  <2>3. ~Owes(r)'
    BY <1>4, <2>1, <2>2 DEF Owes
  <2>4. StillDue(r)' = StillDue(r)
    BY <1>1, <1>2, <1>3, <1>5, <1>6, <2>3 DEF StillDue
  <2>5. RecvOK(r)'
    BY <1>1, <1>2, <1>4, <2>1, <2>2, <2>3 DEF RecvOK
  <2> QED BY <2>4, <2>5
<1>10. ASSUME NEW x \in Receivers, x # r PROVE RecvOK(x)' /\ StillDue(x)' = StillDue(x)
  <2>1. x \in Endpoints /\ SenderOf(x) \in Endpoints /\ SenderOf(x) # r /\ RecvOK(x)
    BY <1>2, InvFacts DEF NumbersOK
  <2>2. Still(x)
    BY <1>4, <1>10, <2>1 DEF Still
  <2> QED BY <2>1, <2>2, StillOK
<1>11. ASSUME NEW x \in Senders PROVE SendOK(x)'
  <2>1. SendOK(x) /\ x \in Endpoints /\ x # r /\ pc'[x] = pc[x] /\ recvd'[x] = recvd[x]
    BY <1>2, <1>4, InvFacts DEF NumbersOK
  <2>2. \A y \in Mine(x) : StillDue(y)' <= StillDue(y)
    BY <1>2, <1>9, <1>10 DEF Mine, NumbersOK
  <2>3. \A e \in Endpoints : Message'[x][e] <= Message[x][e]
    BY <1>2, <1>4, <2>1 DEF NumbersOK
  <2> QED BY <1>2, <2>1, <2>2, <2>3, SendKept
<1> QED BY <1>7, <1>8, <1>9, <1>10, <1>11, CommInvNext

(* The callback.                                                           *)

\* The last callback of a batch leaves nothing of it behind.
LEMMA LastCallback ==
  ASSUME CommInv, NEW n \in Endpoints, SendCallback(n), m_count[n] = 1
  PROVE  answered[n] = 1 /\ issued[n] = Nothing
<1>1. /\ issued[n] \in [Endpoints -> Nat] /\ IsFiniteSet(Endpoints) /\ SumOf(issued[n]) \in Nat
      /\ answered[n] \in Nat /\ answered[n] > 0
  BY InvFacts, Ids DEF NumbersOK, SendCallback
<1>2. m_count[n] = answered[n] + SumOf(issued[n])
  BY DEF SendCallback, CommInv, BatchCounted
<1>3. answered[n] = 1 /\ SumOf(issued[n]) = 0
  BY <1>1, <1>2
<1>4. \A e \in Endpoints : issued[n][e] = 0
  BY <1>1, <1>3, SumBounds
<1> QED BY <1>1, <1>3, <1>4 DEF Nothing

LEMMA CallbackStep ==
  ASSUME CommInv, CommTypeOK', broadcast' = broadcast, NEW n \in Endpoints, SendCallback(n)
  PROVE  CommInv'
<1>1. /\ Senders' = Senders /\ Receivers' = Receivers
      /\ \A x : BatchOf(x)' = BatchOf(x) /\ SenderOf(x)' = SenderOf(x)
      /\ \A x, e : Linked(x, e)' <=> Linked(x, e)
  BY PairingStill
<1>2. CommTypeOK /\ NumbersOK /\ OnlyLinks
  BY InvFacts
<1>3. /\ pc[n] = "events" /\ answered[n] > 0 /\ Up(n)
      /\ \A x \in Endpoints \ {n} : /\ pc'[x] = pc[x] /\ recvd'[x] = recvd[x]
                                    /\ answered'[x] = answered[x] /\ m_count'[x] = m_count[x]
      /\ answered'[n] = answered[n] - 1
      /\ m_count'[n] = IF m_count[n] = 1 THEN BatchOf(n) ELSE m_count[n] - 1
      /\ recvd'[n] = IF m_count[n] = 1 THEN 0 ELSE recvd[n]
      /\ pc'[n] = IF m_count[n] = 1 THEN AfterSend(n) ELSE "events"
      /\ UNCHANGED <<Message, issued, clientId>>
  BY <1>2 DEF SendCallback, Goto, tables, CommTypeOK
<1>4. AfterSend(n) \in {"recv", "barrier"} /\ (n \in Senders => AfterSend(n) = "recv")
  BY DEF AfterSend
<1>5. OnlyLinks'
  BY <1>1, <1>2, <1>3 DEF OnlyLinks
<1>6. BatchExact'
  <2>1. BatchOf(n) \in Nat
    BY <1>2, Pairing DEF CommTypeOK
  <2> QED BY <1>1, <1>3, <2>1 DEF CommInv, BatchExact
<1>7. BatchCounted'
  <2>1. ASSUME NEW x \in Endpoints
        PROVE  IF pc'[x] = "events" THEN m_count'[x] = answered'[x] + SumOf(issued'[x])
               ELSE answered'[x] = 0 /\ issued'[x] = Nothing /\ m_count'[x] = BatchOf(x)
    <3>1. CASE x # n
      BY <1>3, <3>1 DEF CommInv, BatchCounted
    <3>2. CASE x = n /\ m_count[n] = 1
      <4>1. answered[n] = 1 /\ issued[n] = Nothing
        BY <3>2, LastCallback
      <4> QED BY <1>3, <1>4, <3>2, <4>1
    <3>3. CASE x = n /\ m_count[n] # 1
      <4>1. /\ SumOf(issued[n]) \in Nat /\ answered[n] \in Nat /\ m_count[n] \in Nat
            /\ m_count[n] = answered[n] + SumOf(issued[n])
        BY <1>2, <1>3 DEF NumbersOK, CommInv, BatchCounted
      <4> QED BY <1>3, <3>3, <4>1
    <3> QED BY <3>1, <3>2, <3>3
  <2> QED BY <1>1, <2>1 DEF BatchCounted, Nothing
<1>8. ASSUME NEW r \in Receivers PROVE RecvOK(r)' /\ StillDue(r)' = StillDue(r)
  <2>1. r \in Endpoints /\ RecvOK(r)
    BY <1>2, InvFacts DEF NumbersOK
  <2>2. CASE r # n \/ m_count[n] # 1
    <3>1. Still(r)
      BY <1>3, <2>1, <2>2 DEF Still
    <3> QED BY <2>1, <3>1, StillOK
  <2>3. CASE r = n /\ m_count[n] = 1
    <3>1. Toward(r)' = Toward(r)
      BY <1>1, <1>3 DEF Toward
    <3>2. Collected(r)' = 0 /\ Collected(r) = 0
      BY <1>3, <2>3 DEF Collected
    <3>3. Owes(r)' <=> Owes(r)
      BY <1>3, <1>4, <2>3, <3>1, <3>2 DEF Owes
    <3>4. StillDue(r)' = StillDue(r)
      BY <1>1, <1>3, <3>3 DEF StillDue
    <3>5. RecvOK(r)'
      BY <1>1, <1>3, <1>4, <2>1, <2>3, <3>1, <3>2, <3>3 DEF RecvOK
    <3> QED BY <3>4, <3>5
  <2> QED BY <2>2, <2>3
<1>9. ASSUME NEW s \in Senders PROVE SendOK(s)'
  <2>1. SendOK(s) /\ s \in Endpoints
    BY <1>2, InvFacts DEF NumbersOK
  <2>2. \A r \in Mine(s) : StillDue(r)' <= StillDue(r)
    BY <1>2, <1>8 DEF Mine, NumbersOK
  <2>3. \A e \in Endpoints : Message'[s][e] <= Message[s][e]
    BY <1>2, <1>3, <2>1 DEF NumbersOK
  <2>4. CASE s # n \/ m_count[n] # 1
    <3>1. pc'[s] = pc[s] /\ recvd'[s] = recvd[s]
      BY <1>3, <2>1, <2>4
    <3> QED BY <1>2, <2>1, <2>2, <2>3, <3>1, SendKept
  <2>5. CASE s = n /\ m_count[n] = 1
    <3>1. pc'[s] = "recv" /\ recvd'[s] = 0 /\ pc[s] = "events"
      BY <1>3, <1>4, <2>5
    <3>2. 0 + RowCount(s) + Due(s) <= BatchOf(s)
      BY <2>1, <3>1 DEF SendOK, Round
    <3>3. RowCount(s)' = RowCount(s)
      BY <1>3 DEF RowCount
    <3>4. Due(s)' <= Due(s) /\ Due(s) \in Nat /\ Due(s)' \in Nat
      BY <1>2, <2>2, DueKept, DueTableIs, DueTableNext
    <3>5. RowCount(s) \in Nat /\ BatchOf(s) \in Nat
      BY <1>2, <2>1, Pairing DEF NumbersOK, CommTypeOK
    <3>6. 0 + RowCount(s)' + Due(s)' <= BatchOf(s)'
      BY <1>1, <3>2, <3>3, <3>4, <3>5
    <3> QED BY <3>1, <3>6 DEF SendOK, Round
  <2> QED BY <2>4, <2>5
<1> QED BY <1>5, <1>6, <1>7, <1>8, <1>9, CommInvNext

(* The database executes a SendMessage.                                    *)

\* Less is on its way to receiver r than was.
Lossy(r) ==
  /\ pc'[r] = pc[r] /\ recvd'[r] = recvd[r] /\ clientId'[r] = clientId[r]
  /\ Toward(r)' <= Toward(r)
  /\ issued'[r][SenderOf(r)] = issued[r][SenderOf(r)]
  /\ Message'[SenderOf(r)][r] \in {0, Message[SenderOf(r)][r]}

LEMMA LossyOK ==
  ASSUME CommInv, CommTypeOK', broadcast' = broadcast, NEW r \in Receivers, Lossy(r)
  PROVE  RecvOK(r)' /\ StillDue(r)' <= StillDue(r)
<1>1. Receivers' = Receivers /\ BatchOf(r)' = BatchOf(r) /\ SenderOf(r)' = SenderOf(r)
  BY PairingStill
<1>2. /\ RecvOK(r) /\ BatchOf(r) \in Nat /\ Toward(r) \in Nat /\ Collected(r) \in Nat
      /\ issued[r][SenderOf(r)] \in Nat
  BY InvFacts DEF NumbersOK
<1>3. Toward(r)' \in Nat
  BY <1>1, NumbersNext DEF NumbersOK
<1>4. Collected(r)' = Collected(r)
  BY DEF Lossy, Collected
<1>5. Owes(r)' => Owes(r)
  BY <1>2, <1>3, <1>4 DEF Lossy, Owes
<1>6. StillDue(r)' <= StillDue(r)
  BY <1>1, <1>2, <1>5 DEF Lossy, StillDue
<1>7. RecvOK(r)'
  BY <1>1, <1>2, <1>3, <1>4, <1>5 DEF Lossy, RecvOK
<1> QED BY <1>6, <1>7

\* What one execution does, for thread n and endpoint e.
Executed(n, e) ==
  /\ issued[n][e] > 0 /\ pc[n] = "events"
  /\ issued'[n][e] = issued[n][e] - 1
  /\ \A x \in Endpoints \ {n} : issued'[x] = issued[x]
  /\ \A y \in Endpoints \ {e} : issued'[n][y] = issued[n][y]
  /\ Message'[e][n] \in {Message[e][n], Message[e][n] + 1}
  /\ \A x \in Endpoints \ {e} : Message'[x] = Message[x]
  /\ \A y \in Endpoints \ {n} : Message'[e][y] = Message[e][y]
  /\ answered' = [answered EXCEPT ![n] = @ + 1]
  /\ UNCHANGED <<pc, m_count, recvd, clientId>>

LEMMA ExecuteIs ==
  ASSUME CommInv, NEW n \in Endpoints, Execute(n)
  PROVE  \E e \in Endpoints : Executed(n, e)
<1>1. PICK e \in Endpoints : /\ issued[n][e] > 0
                             /\ issued' = [issued EXCEPT ![n][e] = issued[n][e] - 1]
                             /\ Message' = Message \/ Message' = [Message EXCEPT ![e][n] = Message[e][n] + 1]
  BY DEF Execute, SendMessage
<1>2. /\ issued \in [Endpoints -> [Endpoints -> Nat]] /\ Message \in [Endpoints -> [Endpoints -> Nat]]
      /\ issued[n][e] \in Nat /\ Message[e][n] \in Nat
  BY InvFacts DEF CommTypeOK, NumbersOK
<1>3. /\ issued'[n][e] = issued[n][e] - 1
      /\ \A x \in Endpoints \ {n} : issued'[x] = issued[x]
      /\ \A y \in Endpoints \ {e} : issued'[n][y] = issued[n][y]
  <2>1. issued[n][e] - 1 \in Nat
    BY <1>1, <1>2
  <2> QED BY <1>1, <1>2, <2>1, EntryTyped
<1>4. /\ Message'[e][n] \in {Message[e][n], Message[e][n] + 1}
      /\ \A x \in Endpoints \ {e} : Message'[x] = Message[x]
      /\ \A y \in Endpoints \ {n} : Message'[e][y] = Message[e][y]
  <2>1. CASE Message' = Message
    BY <2>1
  <2>2. CASE Message' = [Message EXCEPT ![e][n] = Message[e][n] + 1]
    <3>1. Message[e][n] + 1 \in Nat
      BY <1>2
    <3> QED BY <1>2, <2>2, <3>1, EntryTyped
  <2> QED BY <1>1, <2>1, <2>2
<1>5. pc[n] = "events"
  <2>1. issued[n] # Nothing
    BY <1>1, NothingTyped
  <2> QED BY <2>1 DEF CommInv, BatchCounted
<1>6. answered' = [answered EXCEPT ![n] = @ + 1] /\ UNCHANGED <<pc, m_count, recvd, clientId>>
  BY DEF Execute
<1>7. Executed(n, e)
  BY <1>1, <1>3, <1>4, <1>5, <1>6 DEF Executed
<1> QED BY <1>7

\* What the step leaves of the counts, and of the links.
LEMMA ExecuteCounts ==
  ASSUME CommInv, CommTypeOK', broadcast' = broadcast, NEW n \in Endpoints, NEW e \in Endpoints, Executed(n, e)
  PROVE  OnlyLinks' /\ BatchCounted' /\ BatchExact' /\ Linked(n, e)
<1>1. /\ \A x : BatchOf(x)' = BatchOf(x)
      /\ \A x, y : Linked(x, y)' <=> Linked(x, y)
  BY PairingStill
<1>2. CommTypeOK /\ NumbersOK /\ NumbersOK' /\ OnlyLinks
  BY InvFacts, NumbersNext
<1>3. Linked(n, e)
  <2>1. issued[n][e] # 0
    BY <1>2 DEF Executed, NumbersOK
  <2> QED BY <1>2, <2>1 DEF OnlyLinks
<1>4. Linked(e, n)
  BY <1>3 DEF Linked
<1>5. OnlyLinks'
  <2>1. ASSUME NEW x \in Endpoints, NEW y \in Endpoints, ~Linked(x, y)
        PROVE  Message'[x][y] = 0 /\ issued'[x][y] = 0
    <3>1. Message[x][y] = 0 /\ issued[x][y] = 0 /\ (x # n \/ y # e) /\ (x # e \/ y # n)
      BY <1>2, <1>3, <1>4, <2>1 DEF OnlyLinks
    <3>2. Message'[x][y] = Message[x][y]
      BY <3>1 DEF Executed
    <3>3. issued'[x][y] = issued[x][y]
      BY <3>1 DEF Executed
    <3> QED BY <3>1, <3>2, <3>3
  <2> QED BY <1>1, <2>1 DEF OnlyLinks
<1>6. ASSUME NEW x \in Endpoints
      PROVE  IF pc'[x] = "events" THEN m_count'[x] = answered'[x] + SumOf(issued'[x])
             ELSE answered'[x] = 0 /\ issued'[x] = Nothing /\ m_count'[x] = BatchOf(x)
  <2>1. CASE x = n
    <3>1. /\ issued[n] \in [Endpoints -> Nat] /\ issued'[n] \in [Endpoints -> Nat] /\ IsFiniteSet(Endpoints)
          /\ answered[n] \in Nat /\ issued[n][e] \in Nat
      BY <1>2, Ids DEF NumbersOK
    <3>2. SumOf(issued[n]) \in Nat /\ SumOf(issued'[n]) = SumOf(issued[n]) + issued'[n][e] - issued[n][e]
      BY <3>1, SumChanges DEF Executed
    <3>3. answered'[n] = answered[n] + 1
      BY <1>2 DEF Executed, CommTypeOK
    <3>4. m_count[n] = answered[n] + SumOf(issued[n])
      BY DEF Executed, CommInv, BatchCounted
    <3>5. pc'[n] = "events" /\ m_count'[n] = m_count[n] /\ issued'[n][e] = issued[n][e] - 1
      BY DEF Executed
    <3>6. m_count'[n] = answered'[n] + SumOf(issued'[n])
      BY <3>1, <3>2, <3>3, <3>4, <3>5
    <3> QED BY <2>1, <3>5, <3>6
  <2>2. CASE x # n
    BY <1>2, <2>2 DEF Executed, CommInv, BatchCounted, CommTypeOK
  <2> QED BY <2>1, <2>2
<1>7. BatchCounted'
  BY <1>1, <1>6 DEF BatchCounted, Nothing
<1>8. BatchExact'
  BY <1>1 DEF Executed, CommInv, BatchExact
<1> QED BY <1>3, <1>5, <1>7, <1>8

LEMMA SenderExecuted ==
  ASSUME CommInv, CommTypeOK', broadcast' = broadcast, NEW r \in Receivers, Executed(SenderOf(r), r)
  PROVE  CommInv'
<1>1. SenderOf(r)' = SenderOf(r)
  BY PairingStill
<1>2. /\ CommTypeOK /\ NumbersOK /\ NumbersOK' /\ r \in Endpoints
  BY InvFacts, NumbersNext DEF NumbersOK
<1>3. PICK s \in Senders : s = SenderOf(r) /\ s \in Endpoints /\ s \notin Receivers /\ s # r
  BY <1>2 DEF NumbersOK
<1>4. /\ issued'[s][r] = issued[s][r] - 1
      /\ \A x \in Endpoints \ {s} : issued'[x] = issued[x]
      /\ \A y \in Endpoints \ {r} : issued'[s][y] = issued[s][y]
      /\ Message'[r][s] \in {Message[r][s], Message[r][s] + 1}
      /\ \A x \in Endpoints \ {r} : Message'[x] = Message[x]
      /\ UNCHANGED <<pc, recvd, clientId>>
  BY <1>3 DEF Executed
<1>5. OnlyLinks' /\ BatchCounted' /\ BatchExact'
  BY <1>2, <1>3, ExecuteCounts
<1>6. RecvOK(r)' /\ StillDue(r)' <= StillDue(r)
  <2>1. Toward(r)' <= Toward(r)
    <3>1. issued[s][r] \in Nat /\ Message[r][s] \in Nat
      BY <1>2, <1>3 DEF NumbersOK
    <3>2. issued'[s][r] + Message'[r][s] <= issued[s][r] + Message[r][s]
      BY <1>4, <3>1
    <3> QED BY <1>1, <1>3, <3>2 DEF Toward
  <2>2. Lossy(r)
    BY <1>2, <1>3, <1>4, <2>1 DEF Lossy
  <2> QED BY <2>2, LossyOK
<1>7. ASSUME NEW x \in Receivers, x # r PROVE RecvOK(x)' /\ StillDue(x)' = StillDue(x)
  <2>1. x \in Endpoints /\ SenderOf(x) \in Endpoints /\ SenderOf(x) \notin Receivers /\ x # s /\ RecvOK(x)
    BY <1>2, <1>3, InvFacts DEF NumbersOK
  <2>2. issued'[SenderOf(x)][x] = issued[SenderOf(x)][x]
    BY <1>3, <1>4, <1>7, <2>1
  <2>3. Still(x)
    BY <1>4, <1>7, <2>1, <2>2 DEF Still
  <2> QED BY <2>1, <2>3, StillOK
<1>8. ASSUME NEW x \in Senders PROVE SendOK(x)'
  <2>1. SendOK(x) /\ x \in Endpoints /\ x # r /\ pc'[x] = pc[x] /\ recvd'[x] = recvd[x]
    BY <1>2, <1>4, InvFacts DEF NumbersOK
  <2>2. \A y \in Mine(x) : StillDue(y)' <= StillDue(y)
    BY <1>2, <1>6, <1>7 DEF Mine, NumbersOK
  <2>3. \A e \in Endpoints : Message'[x][e] <= Message[x][e]
    BY <1>2, <1>4, <2>1 DEF NumbersOK
  <2> QED BY <1>2, <2>1, <2>2, <2>3, SendKept
<1> QED BY <1>5, <1>6, <1>7, <1>8, CommInvNext

\* A row that comes for a sender is one less that is due.
LEMMA ReceiverExecuted ==
  ASSUME CommInv, CommTypeOK', broadcast' = broadcast, NEW r \in Receivers, Executed(r, SenderOf(r))
  PROVE  CommInv'
<1>1. Receivers' = Receivers /\ \A n : BatchOf(n)' = BatchOf(n) /\ SenderOf(n)' = SenderOf(n)
  BY PairingStill
<1>2. /\ CommTypeOK /\ NumbersOK /\ NumbersOK' /\ r \in Endpoints /\ RecvOK(r) /\ BatchOf(r) \in Nat
  BY InvFacts, NumbersNext DEF NumbersOK
<1>3. PICK s \in Senders : s = SenderOf(r) /\ s \in Endpoints /\ s \notin Receivers /\ s # r
  BY <1>2 DEF NumbersOK
<1>4. /\ issued'[r][s] = issued[r][s] - 1 /\ issued[r][s] > 0
      /\ \A x \in Endpoints \ {r} : issued'[x] = issued[x]
      /\ Message'[s][r] \in {Message[s][r], Message[s][r] + 1}
      /\ \A x \in Endpoints \ {s} : Message'[x] = Message[x]
      /\ \A y \in Endpoints \ {r} : Message'[s][y] = Message[s][y]
      /\ UNCHANGED <<pc, recvd, clientId>>
  BY <1>3 DEF Executed
<1>n. issued[r][s] \in Nat /\ Message[s][r] \in Nat
  BY <1>2, <1>3 DEF NumbersOK
<1>5. OnlyLinks' /\ BatchCounted' /\ BatchExact'
  BY <1>2, <1>3, ExecuteCounts
<1>6. RecvOK(r)' /\ StillDue(r) = issued[r][s] /\ StillDue(r)' = issued[r][s] - 1
  <2>1. ~Owes(r)
    BY <1>2, <1>3, <1>4, <1>n DEF RecvOK
  <2>2. Toward(r)' = Toward(r) /\ Collected(r)' = Collected(r)
    BY <1>1, <1>2, <1>3, <1>4 DEF Toward, Collected
  <2>3. ~Owes(r)'
    BY <1>4, <2>1, <2>2 DEF Owes
  <2>4. StillDue(r) = issued[r][s] /\ StillDue(r)' = issued[r][s] - 1
    BY <1>1, <1>3, <1>4, <1>n, <2>1, <2>3 DEF StillDue
  <2>5. RecvOK(r)'
    BY <1>1, <1>2, <1>4, <2>2, <2>3 DEF RecvOK
  <2> QED BY <2>4, <2>5
<1>7. ASSUME NEW x \in Receivers, x # r PROVE RecvOK(x)' /\ StillDue(x)' = StillDue(x)
  <2>1. x \in Endpoints /\ SenderOf(x) \in Endpoints /\ SenderOf(x) # r /\ x # s /\ RecvOK(x)
    BY <1>2, <1>3, InvFacts DEF NumbersOK
  <2>2. Message'[SenderOf(x)][x] = Message[SenderOf(x)][x]
    BY <1>4, <1>7, <2>1
  <2>3. Still(x)
    BY <1>4, <1>7, <2>1, <2>2 DEF Still
  <2> QED BY <2>1, <2>3, StillOK
<1>8. SendOK(s)'
  <2>1. SendOK(s) /\ r \in Mine(s)
    BY <1>3, InvFacts DEF Mine
  <2>2. pc[s] \in Round
    <3>1. StillDue(r) # 0
      BY <1>4, <1>6, <1>n
    <3> QED BY <1>3, <2>1, <3>1 DEF SendOK
  <2>3. Due(s)' = Due(s) - 1 /\ Due(s) \in Nat /\ Due(s)' \in Nat
    <3>1. \A x \in Mine(s) \ {r} : StillDue(x)' = StillDue(x)
      BY <1>7 DEF Mine
    <3>2. Due(s)' = Due(s) + StillDue(r)' - StillDue(r) /\ Due(s) \in Nat /\ Due(s)' \in Nat
      BY <1>2, <2>1, <3>1, DueFollows, DueTableIs, DueTableNext
    <3> QED BY <1>6, <1>n, <3>2
  <2>4. RowCount(s)' <= RowCount(s) + 1 /\ RowCount(s) \in Nat /\ RowCount(s)' \in Nat
    <3>1. RowCount(s)' = RowCount(s) + Message'[s][r] - Message[s][r]
      BY <1>2, <1>3, <1>4, RowsFollow
    <3>2. RowCount(s) \in Nat /\ RowCount(s)' \in Nat
      BY <1>2, <1>3 DEF NumbersOK
    <3> QED BY <1>4, <1>n, <3>1, <3>2
  <2>5. PICK k \in Nat : k = IF pc[s] = "recv" THEN recvd[s] ELSE 0
    BY <1>2, <1>3 DEF NumbersOK
  <2>6. k + RowCount(s) + Due(s) <= BatchOf(s) /\ BatchOf(s) \in Nat
    BY <1>2, <1>3, <2>1, <2>2, <2>5, Pairing DEF SendOK, CommTypeOK
  <2>7. k + RowCount(s)' + Due(s)' <= BatchOf(s)'
    BY <1>1, <2>3, <2>4, <2>6
  <2>8. pc'[s] \in Round /\ k = IF pc'[s] = "recv" THEN recvd'[s] ELSE 0
    BY <1>4, <2>2, <2>5
  <2> QED BY <2>7, <2>8 DEF SendOK, Round
<1>9. ASSUME NEW x \in Senders, x # s PROVE SendOK(x)'
  <2>1. SendOK(x) /\ x \in Endpoints /\ pc'[x] = pc[x] /\ recvd'[x] = recvd[x]
    BY <1>2, <1>4, InvFacts DEF NumbersOK
  <2>2. \A y \in Mine(x) : StillDue(y)' <= StillDue(y)
    BY <1>2, <1>3, <1>7, <1>9 DEF Mine, NumbersOK
  <2>3. \A e \in Endpoints : Message'[x][e] <= Message[x][e]
    BY <1>2, <1>4, <1>9, <2>1 DEF NumbersOK
  <2> QED BY <1>2, <2>1, <2>2, <2>3, SendKept
<1> QED BY <1>5, <1>6, <1>7, <1>8, <1>9, CommInvNext

LEMMA ExecuteStep ==
  ASSUME CommInv, CommTypeOK', broadcast' = broadcast, NEW n \in Endpoints, Execute(n)
  PROVE  CommInv'
<1>1. PICK e \in Endpoints : Executed(n, e)
  BY ExecuteIs
<1>2. Linked(n, e)
  BY <1>1, ExecuteCounts
<1>3. CASE n \in Receivers /\ e = SenderOf(n)
  BY <1>1, <1>3, ReceiverExecuted
<1>4. CASE e \in Receivers /\ n = SenderOf(e)
  BY <1>1, <1>4, SenderExecuted
<1> QED BY <1>2, <1>3, <1>4 DEF Linked

(* Polling for a batch.                                                    *)

\* The rows of n are gone, the others are where they were.
LEMMA Received ==
  ASSUME CommTypeOK, NEW n \in Endpoints, ReceiveMessage(n)
  PROVE  /\ \A e \in Endpoints : Message'[n][e] = 0
         /\ \A x \in Endpoints \ {n} : Message'[x] = Message[x]
<1>1. Message'[n] = Nothing /\ \A x \in Endpoints \ {n} : Message'[x] = Message[x]
  BY RowTyped, NothingTyped DEF ReceiveMessage, CommTypeOK
<1> QED BY <1>1, NothingTyped

LEMMA RowsGone ==
  ASSUME CommTypeOK', NEW n \in Endpoints, \A e \in Endpoints : Message'[n][e] = 0
  PROVE  RowCount(n)' = 0
<1>1. Message'[n] \in [Endpoints -> Nat] /\ IsFiniteSet(Endpoints)
  BY NumbersNext, Ids DEF NumbersOK
<1>2. SumOf(Message'[n]) = 0
  BY <1>1, SumBounds
<1> QED BY <1>2 DEF RowCount

\* What a poll leaves alone, and what it does to the thread.
LEMMA PollIs ==
  ASSUME CommInv, CommTypeOK', broadcast' = broadcast, NEW n \in Endpoints, DbosRecv(n)
  PROVE  /\ pc[n] = "recv" /\ Up(n) /\ UNCHANGED issued
         /\ recvd'[n] = recvd[n] + RowCount(n)
         /\ pc'[n] = IF recvd'[n] >= BatchOf(n) THEN AfterRecv(n) ELSE "recv"
         /\ \A e \in Endpoints : Message'[n][e] = 0
         /\ \A x \in Endpoints \ {n} : Message'[x] = Message[x] /\ pc'[x] = pc[x] /\ recvd'[x] = recvd[x]
         /\ \A x \in ReceiverIds \ {n} : clientId'[x] = clientId[x]
         /\ OnlyLinks' /\ BatchCounted'
<1>1. /\ \A x : BatchOf(x)' = BatchOf(x)
      /\ \A x, y : Linked(x, y)' <=> Linked(x, y)
  BY PairingStill
<1>2. CommTypeOK /\ NumbersOK /\ OnlyLinks
  BY InvFacts
<1>3. /\ pc[n] = "recv" /\ Up(n) /\ UNCHANGED <<issued, answered, m_count>>
      /\ recvd'[n] = recvd[n] + RowCount(n)
      /\ pc'[n] = IF recvd'[n] >= BatchOf(n) THEN AfterRecv(n) ELSE "recv"
      /\ \A x \in Endpoints \ {n} : pc'[x] = pc[x] /\ recvd'[x] = recvd[x]
  BY <1>2 DEF DbosRecv, Goto, CommTypeOK
<1>4. /\ \A e \in Endpoints : Message'[n][e] = 0
      /\ \A x \in Endpoints \ {n} : Message'[x] = Message[x]
  BY <1>2, Received DEF DbosRecv
<1>5. \A x \in ReceiverIds \ {n} : clientId'[x] = clientId[x]
  BY <1>2 DEF DbosRecv, CommTypeOK
<1>6. OnlyLinks'
  BY <1>1, <1>2, <1>3, <1>4 DEF OnlyLinks
<1>7. AfterRecv(n) # "events"
  BY DEF AfterRecv
<1>8. \A x \in Endpoints : pc'[x] = "events" <=> pc[x] = "events"
  BY <1>3, <1>7
<1>9. BatchCounted'
  BY <1>1, <1>3, <1>8 DEF CommInv, BatchCounted, Nothing
<1> QED BY <1>3, <1>4, <1>5, <1>6, <1>9

LEMMA SenderPolls ==
  ASSUME CommInv, CommTypeOK', broadcast' = broadcast, NEW s \in Senders, DbosRecv(s)
  PROVE  CommInv'
<1>1. Receivers' = Receivers /\ \A n : BatchOf(n)' = BatchOf(n) /\ SenderOf(n)' = SenderOf(n)
  BY PairingStill
<1>2. /\ CommTypeOK /\ NumbersOK /\ s \in Endpoints /\ s \notin Receivers /\ SendOK(s)
      /\ BatchOf(s) \in Nat /\ Receivers \subseteq ReceiverIds
  BY InvFacts, Pairing, Ids DEF NumbersOK
<1>3. /\ pc[s] = "recv" /\ UNCHANGED issued
      /\ recvd'[s] = recvd[s] + RowCount(s)
      /\ pc'[s] = IF recvd'[s] >= BatchOf(s) THEN AfterRecv(s) ELSE "recv"
      /\ \A e \in Endpoints : Message'[s][e] = 0
      /\ \A x \in Endpoints \ {s} : Message'[x] = Message[x] /\ pc'[x] = pc[x] /\ recvd'[x] = recvd[x]
      /\ \A x \in ReceiverIds \ {s} : clientId'[x] = clientId[x]
      /\ OnlyLinks' /\ BatchCounted'
  BY <1>2, PollIs
<1>4. ASSUME NEW r \in Receivers PROVE RecvOK(r)' /\ StillDue(r)' = StillDue(r)
  <2>1. r \in Endpoints /\ r # s /\ SenderOf(r) \in Endpoints /\ RecvOK(r) /\ r \in ReceiverIds
    BY <1>2, InvFacts DEF NumbersOK
  <2>2. Message'[SenderOf(r)][r] \in {0, Message[SenderOf(r)][r]}
    BY <1>3, <2>1
  <2>3. Still(r)
    BY <1>3, <2>1, <2>2 DEF Still
  <2> QED BY <2>1, <2>3, StillOK
<1>5. /\ recvd[s] + RowCount(s) + Due(s) <= BatchOf(s)
      /\ recvd[s] \in Nat /\ RowCount(s) \in Nat /\ Due(s) \in Nat /\ Due(s)' \in Nat /\ Due(s)' <= Due(s)
  <2>1. recvd[s] + RowCount(s) + Due(s) <= BatchOf(s)
    BY <1>2, <1>3 DEF SendOK, Round
  <2>2. \A r \in Mine(s) : StillDue(r)' <= StillDue(r)
    BY <1>2, <1>4 DEF Mine, NumbersOK
  <2>3. Due(s) \in Nat /\ Due(s)' \in Nat /\ Due(s)' <= Due(s)
    BY <1>2, <2>2, DueKept, DueTableIs, DueTableNext
  <2> QED BY <1>2, <2>1, <2>3 DEF NumbersOK
<1>6. BatchExact'
  <2>1. recvd'[s] <= BatchOf(s)
    BY <1>2, <1>3, <1>5
  <2> QED BY <1>1, <1>3, <2>1 DEF CommInv, BatchExact
<1>7. SendOK(s)'
  <2>1. CASE recvd'[s] >= BatchOf(s)
    <3>1. Due(s) = 0
      BY <1>2, <1>3, <1>5, <2>1
    <3>2. \A r \in Mine(s) : StillDue(r) = 0
      BY <1>2, <3>1, DueZero
    <3>3. pc'[s] \notin Round
      BY <1>2, <1>3, <2>1 DEF AfterRecv, Round
    <3>4. \A r \in Receivers : SenderOf(r) = s => StillDue(r)' = 0 /\ Message'[s][r] = 0
      BY <1>2, <1>3, <1>4, <3>2 DEF Mine, NumbersOK
    <3> QED BY <1>1, <3>3, <3>4 DEF SendOK, Round
  <2>2. CASE ~(recvd'[s] >= BatchOf(s))
    <3>1. pc'[s] = "recv" /\ RowCount(s)' = 0
      BY <1>2, <1>3, <2>2, RowsGone
    <3>2. recvd'[s] + RowCount(s)' + Due(s)' <= BatchOf(s)'
      BY <1>1, <1>2, <1>3, <1>5, <3>1
    <3> QED BY <3>1, <3>2 DEF SendOK, Round
  <2> QED BY <2>1, <2>2
<1>8. ASSUME NEW x \in Senders, x # s PROVE SendOK(x)'
  <2>1. SendOK(x) /\ x \in Endpoints /\ pc'[x] = pc[x] /\ recvd'[x] = recvd[x]
    BY <1>2, <1>3, <1>8, InvFacts DEF NumbersOK
  <2>2. \A y \in Mine(x) : StillDue(y)' <= StillDue(y)
    BY <1>2, <1>4 DEF Mine, NumbersOK
  <2>3. \A e \in Endpoints : Message'[x][e] <= Message[x][e]
    BY <1>2, <1>3, <1>8, <2>1 DEF NumbersOK
  <2> QED BY <1>2, <2>1, <2>2, <2>3, SendKept
<1> QED BY <1>3, <1>4, <1>6, <1>7, <1>8, CommInvNext

LEMMA ReceiverPolls ==
  ASSUME CommInv, CommTypeOK', broadcast' = broadcast, NEW r \in Receivers, DbosRecv(r)
  PROVE  CommInv'
<1>1. Receivers' = Receivers /\ \A n : BatchOf(n)' = BatchOf(n) /\ SenderOf(n)' = SenderOf(n)
  BY PairingStill
<1>2. /\ CommTypeOK /\ NumbersOK /\ OnlyLinks /\ r \in Endpoints /\ r \notin Senders /\ RecvOK(r)
      /\ BatchOf(r) \in Nat /\ BatchOf(r) >= 1 /\ Receivers \subseteq ReceiverIds /\ r \in ReceiverIds
  BY InvFacts, Pairing, Ids DEF NumbersOK
<1>3. PICK s \in Senders : s = SenderOf(r) /\ s \in Endpoints /\ s \notin Receivers /\ s # r
  BY <1>2 DEF NumbersOK
<1>4. /\ pc[r] = "recv" /\ UNCHANGED issued
      /\ recvd'[r] = recvd[r] + RowCount(r)
      /\ pc'[r] = IF recvd'[r] >= BatchOf(r) THEN AfterRecv(r) ELSE "recv"
      /\ \A e \in Endpoints : Message'[r][e] = 0
      /\ \A x \in Endpoints \ {r} : Message'[x] = Message[x] /\ pc'[x] = pc[x] /\ recvd'[x] = recvd[x]
      /\ \A x \in ReceiverIds \ {r} : clientId'[x] = clientId[x]
      /\ OnlyLinks' /\ BatchCounted'
  BY <1>2, PollIs
<1>5. /\ RowCount(r) = Message[r][s] /\ recvd[r] \in Nat /\ Message[r][s] \in Nat /\ issued[s][r] \in Nat
  BY <1>2, <1>3, RowsOfReceiver DEF NumbersOK
<1>6. /\ Toward(r) = issued[s][r] + Message[r][s] /\ Collected(r) = recvd[r]
      /\ issued[s][r] + Message[r][s] + recvd[r] <= BatchOf(r)
  BY <1>2, <1>3, <1>4 DEF Toward, Collected, RecvOK
<1>7. Toward(r)' = issued[s][r]
  BY <1>1, <1>3, <1>4, <1>5 DEF Toward
<1>8. Message[r][s] > 0 => clientId'[r] = s
  <2>1. SUFFICES ASSUME Message[r][s] > 0 PROVE clientId'[r] = s
    OBVIOUS
  <2>2. PICK e \in Endpoints : Message[r][e] > 0 /\ clientId' = [clientId EXCEPT ![r] = e]
    BY <1>5, <2>1 DEF DbosRecv
  <2>3. Message[r][e] # 0
    BY <1>2, <2>2 DEF NumbersOK
  <2>4. e = s
    BY <1>2, <1>3, <2>3, Links DEF OnlyLinks, CommTypeOK
  <2> QED BY <1>2, <2>2, <2>4 DEF CommTypeOK
<1>9. Message[r][s] = 0 => clientId'[r] = clientId[r]
  BY <1>5 DEF DbosRecv
<1>10. recvd[r] > 0 => clientId[r] = s
  BY <1>2, <1>3, <1>6 DEF RecvOK
<1>11. recvd'[r] > 0 => clientId'[r] = s
  BY <1>4, <1>5, <1>8, <1>9, <1>10
<1>12. BatchExact'
  <2>1. recvd'[r] <= BatchOf(r)
    BY <1>2, <1>4, <1>5, <1>6
  <2> QED BY <1>1, <1>4, <2>1 DEF CommInv, BatchExact
<1>13. RecvOK(r)' /\ StillDue(r)' = StillDue(r)
  <2>m. Message'[s][r] = Message[s][r]
    BY <1>2, <1>3, <1>4
  <2>1. CASE recvd'[r] >= BatchOf(r)
    <3>1. pc'[r] = "send"
      BY <1>4, <2>1 DEF AfterRecv
    <3>2. issued[s][r] = 0 /\ Toward(r) + Collected(r) > 0 /\ recvd'[r] > 0
      BY <1>2, <1>4, <1>5, <1>6, <2>1
    <3>3. Owes(r) /\ Owes(r)'
      BY <3>1, <3>2 DEF Owes
    <3>4. StillDue(r)' = StillDue(r)
      BY <1>1, <1>4, <3>3 DEF StillDue
    <3>5. Toward(r)' = 0 /\ Collected(r)' = 0
      BY <1>7, <3>1, <3>2 DEF Collected
    <3>6. RecvOK(r)'
      BY <1>1, <1>2, <1>3, <1>4, <1>11, <2>m, <3>1, <3>2, <3>3, <3>5 DEF RecvOK
    <3> QED BY <3>4, <3>6
  <2>2. CASE ~(recvd'[r] >= BatchOf(r))
    <3>1. pc'[r] = "recv"
      BY <1>4, <2>2
    <3>2. Collected(r)' = recvd'[r] /\ Toward(r)' + Collected(r)' = Toward(r) + Collected(r)
      BY <1>4, <1>5, <1>6, <1>7, <3>1 DEF Collected
    <3>3. Owes(r)' <=> Owes(r)
      BY <1>4, <3>1, <3>2 DEF Owes
    <3>4. StillDue(r)' = StillDue(r)
      BY <1>1, <1>4, <3>3 DEF StillDue
    <3>5. RecvOK(r)'
      BY <1>1, <1>2, <1>3, <1>4, <1>11, <2>m, <3>1, <3>2, <3>3 DEF RecvOK
    <3> QED BY <3>4, <3>5
  <2> QED BY <2>1, <2>2
<1>14. ASSUME NEW x \in Receivers, x # r PROVE RecvOK(x)' /\ StillDue(x)' = StillDue(x)
  <2>1. x \in Endpoints /\ SenderOf(x) \in Endpoints /\ SenderOf(x) # r /\ RecvOK(x) /\ x \in ReceiverIds
    BY <1>2, InvFacts DEF NumbersOK
  <2>2. Still(x)
    BY <1>4, <1>14, <2>1 DEF Still
  <2> QED BY <2>1, <2>2, StillOK
<1>15. ASSUME NEW x \in Senders PROVE SendOK(x)'
  <2>1. SendOK(x) /\ x \in Endpoints /\ x # r /\ pc'[x] = pc[x] /\ recvd'[x] = recvd[x]
    BY <1>2, <1>4, InvFacts DEF NumbersOK
  <2>2. \A y \in Mine(x) : StillDue(y)' <= StillDue(y)
    BY <1>2, <1>13, <1>14 DEF Mine, NumbersOK
  <2>3. \A e \in Endpoints : Message'[x][e] <= Message[x][e]
    BY <1>2, <1>4, <2>1 DEF NumbersOK
  <2> QED BY <1>2, <2>1, <2>2, <2>3, SendKept
<1> QED BY <1>4, <1>12, <1>13, <1>14, <1>15, CommInvNext

LEMMA PollFails ==
  ASSUME CommInv, CommTypeOK', broadcast' = broadcast, NEW n \in Endpoints, DbosRecvFails(n)
  PROVE  CommInv'
<1>1. /\ Receivers' = Receivers /\ \A x : BatchOf(x)' = BatchOf(x) /\ SenderOf(x)' = SenderOf(x)
      /\ \A x, y : Linked(x, y)' <=> Linked(x, y)
  BY PairingStill
<1>2. CommTypeOK /\ NumbersOK /\ OnlyLinks
  BY InvFacts
<1>3. UNCHANGED <<pc, issued, answered, m_count, recvd, clientId>>
  BY DEF DbosRecvFails
<1>4. \A x, y \in Endpoints : Message'[x][y] \in {0, Message[x][y]}
  <2>1. CASE ReceiveMessage(n)
    BY <1>2, <2>1, Received
  <2>2. CASE UNCHANGED Message
    BY <2>2
  <2> QED BY <2>1, <2>2 DEF DbosRecvFails
<1>5. \A x, y \in Endpoints : Message'[x][y] <= Message[x][y]
  BY <1>2, <1>4 DEF NumbersOK
<1>6. OnlyLinks'
  BY <1>1, <1>2, <1>3, <1>4 DEF OnlyLinks
<1>7. BatchCounted' /\ BatchExact'
  BY <1>1, <1>3 DEF CommInv, BatchCounted, BatchExact, Nothing
<1>8. ASSUME NEW r \in Receivers PROVE RecvOK(r)' /\ StillDue(r)' <= StillDue(r)
  <2>1. r \in Endpoints /\ SenderOf(r) \in Endpoints /\ issued[SenderOf(r)][r] \in Nat
        /\ Message[r][SenderOf(r)] \in Nat
    BY <1>2 DEF NumbersOK
  <2>2. Toward(r)' <= Toward(r)
    BY <1>1, <1>3, <1>4, <2>1 DEF Toward
  <2>3. Lossy(r)
    BY <1>3, <1>4, <2>1, <2>2 DEF Lossy
  <2> QED BY <2>3, LossyOK
<1>9. ASSUME NEW s \in Senders PROVE SendOK(s)'
  <2>1. SendOK(s) /\ s \in Endpoints /\ pc'[s] = pc[s] /\ recvd'[s] = recvd[s]
    BY <1>2, <1>3, InvFacts DEF NumbersOK
  <2>2. \A r \in Mine(s) : StillDue(r)' <= StillDue(r)
    BY <1>8 DEF Mine
  <2> QED BY <1>2, <1>5, <2>1, <2>2, SendKept
<1> QED BY <1>6, <1>7, <1>8, <1>9, CommInvNext

(* The theorems.                                                           *)

LEMMA CommInit == Init => CommInv
<1> SUFFICES ASSUME Init PROVE CommInv
  OBVIOUS
<1>1. broadcast \in BOOLEAN
  BY DEF Init
<1>2. /\ SenderIds \subseteq Endpoints /\ ReceiverIds \subseteq Endpoints
      /\ \A n \in Endpoints : BatchOf(n) \in Nat \ {0}
      /\ \A r \in Receivers : r \in ReceiverIds /\ r \notin SenderIds /\ r \in Endpoints
      /\ \A s \in Senders : s \in SenderIds /\ s \in Endpoints
  BY <1>1, Ids, Pairing
<1>3. CommTypeOK
  <2>1. Message \in [Endpoints -> [Endpoints -> Nat]] /\ issued \in [Endpoints -> [Endpoints -> Nat]]
    BY NothingTyped DEF Init
  <2>2. /\ pc \in [Endpoints -> {"send", "events", "recv", "barrier", "record", "test", "finished"}]
        /\ connected \in [Endpoints -> BOOLEAN] /\ answered \in [Endpoints -> Nat] /\ recvd \in [Endpoints -> Nat]
        /\ clientId \in [ReceiverIds -> SenderIds \cup {-1}]
    BY DEF Init
  <2>3. m_count \in [Endpoints -> Nat] /\ \A n \in Endpoints : m_count[n] \in 1 .. BatchOf(n)
    BY <1>2 DEF Init
  <2>4. /\ clientMain \in {"run", "join", "done", "exited"}
        /\ serverUp \in BOOLEAN /\ mainFinished \in BOOLEAN /\ msgLatsArrayIndex \in Nat /\ failed \in BOOLEAN
    BY DEF Init
  <2> QED BY <1>1, <2>1, <2>2, <2>3, <2>4 DEF CommTypeOK
<1>4. NumbersOK
  BY <1>3, Numbers
<1>5. \A n, e \in Endpoints : Message[n][e] = 0 /\ issued[n][e] = 0
  BY NothingTyped DEF Init
<1>6. OnlyLinks
  BY <1>5 DEF OnlyLinks
<1>7. BatchCounted
  BY DEF Init, BatchCounted
<1>8. BatchExact
  BY <1>2 DEF Init, BatchExact
<1>9. ASSUME NEW r \in Receivers PROVE RecvOK(r) /\ StillDue(r) = 0
  <2>1. /\ r \in Endpoints /\ SenderOf(r) \in Endpoints /\ BatchOf(r) \in Nat
        /\ pc[r] = "recv" /\ recvd[r] = 0
    BY <1>2, <1>4 DEF NumbersOK, Init
  <2>2. Toward(r) = 0 /\ Collected(r) = 0
    BY <1>5, <2>1 DEF Toward, Collected
  <2>3. ~Owes(r)
    BY <2>1, <2>2 DEF Owes
  <2>4. StillDue(r) = 0
    BY <1>5, <2>1, <2>3 DEF StillDue
  <2> QED BY <2>1, <2>2, <2>3, <2>4 DEF RecvOK
<1>10. ASSUME NEW s \in Senders PROVE SendOK(s)
  <2>1. s \in Endpoints /\ pc[s] = "send"
    BY <1>2 DEF Init
  <2>2. \A r \in Receivers : StillDue(r) = 0 /\ Message[s][r] = 0
    BY <1>2, <1>5, <1>9, <2>1
  <2> QED BY <2>1, <2>2 DEF SendOK, Round
<1>11. ReceiverInStep /\ SenderInStep
  BY <1>9, <1>10, InStep
<1> QED BY <1>3, <1>6, <1>7, <1>8, <1>11 DEF CommInv

LEMMA CommStep == CommInv /\ [Next]_vars => CommInv'
<1> SUFFICES ASSUME CommInv, [Next]_vars PROVE CommInv'
  OBVIOUS
<1>1. CommTypeOK' /\ broadcast' = broadcast
  BY TypeStep, BroadcastStill DEF CommInv
<1>2. CASE UNCHANGED vars \/ Main \/ Over
  BY <1>1, <1>2, QuietSteps DEF Over
<1>3. ASSUME NEW n \in Endpoints, Thread(n) \/ DbosRecvFails(n) \/ Execute(n) PROVE CommInv'
  <2>1. CASE DbosSend(n)
    BY <1>1, <2>1, SenderSends, ReceiverSends DEF DbosSend, Up
  <2>2. CASE SendCallback(n)
    BY <1>1, <2>2, CallbackStep
  <2>3. CASE DbosRecv(n)
    BY <1>1, <2>3, SenderPolls, ReceiverPolls DEF DbosRecv, Up
  <2>4. CASE Record(n) \/ ArrayFull(n) \/ LoopTest(n)
    BY <1>1, <2>4, QuietSteps
  <2>5. CASE DbosRecvFails(n)
    BY <1>1, <2>5, PollFails
  <2>6. CASE Execute(n)
    BY <1>1, <2>6, ExecuteStep
  <2> QED BY <1>3, <2>1, <2>2, <2>3, <2>4, <2>5, <2>6 DEF Thread
<1> QED BY <1>2, <1>3 DEF Next

\* Every step of the two programs and of the database preserves CommInv: each
\* callback is counted, and what a sender has received, what is in the table for
\* it and what its receivers have still to answer never exceed its batch.
THEOREM CommInvariant == Spec => []CommInv
BY CommInit, CommStep, PTL DEF Spec

\* A thread never receives more messages than the batch it waits for, whatever
\* the number of senders and messages and whatever invocations fail.
THEOREM BatchesAreExact == Spec => []BatchExact
<1>1. CommInv => BatchExact
  BY DEF CommInv
<1> QED BY <1>1, CommInvariant, PTL

\* A sender that is about to send, or is done, has nothing under way in either
\* direction: a round trip begins only when the one before it is complete.
THEOREM RoundsAreSeparate == Spec => []RoundsDoNotOverlap
<1>1. CommInv => RoundsDoNotOverlap
  <2> SUFFICES ASSUME CommInv, NEW s \in Senders, pc[s] \in {"send", "record", "test", "finished"},
                      NEW e \in Endpoints
               PROVE  /\ Message[s][e] = 0 /\ Message[e][s] = 0
                      /\ issued[s][e] = 0 /\ issued[e][s] = 0
    BY DEF RoundsDoNotOverlap
  <2>1. /\ CommTypeOK /\ NumbersOK /\ OnlyLinks /\ SendOK(s) /\ s \in Endpoints /\ s \notin Receivers
        /\ broadcast \in BOOLEAN
    BY InvFacts DEF NumbersOK
  <2>2. CASE e \in Mine(s)
    <3>1. e \in Receivers /\ SenderOf(e) = s
      BY <2>2 DEF Mine
    <3>2. StillDue(e) = 0 /\ Message[s][e] = 0
      BY <2>1, <3>1 DEF SendOK, Round
    <3>3. /\ issued[e][s] \in Nat /\ BatchOf(e) \in Nat /\ BatchOf(e) >= 1
          /\ Toward(e) \in Nat /\ Collected(e) \in Nat /\ issued[s][e] \in Nat /\ Message[e][s] \in Nat
      BY <2>1, <3>1 DEF NumbersOK
    <3>4. issued[e][s] = 0 /\ ~Owes(e)
      BY <3>1, <3>2, <3>3 DEF StillDue
    <3>5. Toward(e) = 0
      BY <3>3, <3>4 DEF Owes
    <3>6. issued[s][e] = 0 /\ Message[e][s] = 0
      BY <3>1, <3>3, <3>5 DEF Toward
    <3> QED BY <3>2, <3>4, <3>6
  <2>3. CASE e \notin Mine(s)
    <3>1. ~Linked(s, e)
      BY <2>1, <2>3, Links DEF Mine
    <3>2. ~Linked(e, s)
      BY <3>1 DEF Linked
    <3> QED BY <2>1, <3>1, <3>2 DEF OnlyLinks
  <2> QED BY <2>2, <2>3
<1> QED BY <1>1, CommInvariant, PTL
=============================================================================
