------------------------- MODULE PNConnectionProofs -------------------------
(* Proofs about PNConnection for every set of lengths and every bound, and *)
(* about the GrowableBuffer that collects what a connection receives, for  *)
(* every Byte, slack constants and bounds.                                 *)
EXTENDS PNConnection, GrowableBuffer, SequenceTheorems, TLAPS

(* The byte store is total and leaves a non-negative offset. *)
LEMMA LowByte ==
  \A o \in Nat : \A b \in {0, 1} :
    SetLowByte(o, b) \in Nat /\ SetLowByte(o, b) % 256 = b
<1> SUFFICES ASSUME NEW o \in Nat, NEW b \in {0, 1}
             PROVE  SetLowByte(o, b) \in Nat /\ SetLowByte(o, b) % 256 = b
  OBVIOUS
<1>1. o % 256 \in 0..255 /\ o = 256 * (o \div 256) + (o % 256)
  OBVIOUS
<1>2. SetLowByte(o, b) = 256 * (o \div 256) + b
  BY <1>1 DEF SetLowByte
<1>3. o \div 256 \in Nat
  OBVIOUS
<1>4. QED BY <1>2, <1>3

(* A completion is an OVERLAPPED. *)
LEMMA DoneType == \A n \in Nat : Done(n) \in Overlapped
BY DEF Done, Overlapped

(* A pending and a failed operation are OVERLAPPEDs. *)
LEMMA MarkType == Pending \in Overlapped /\ Failed \in Overlapped
BY DEF Pending, Failed, Overlapped

(* An accepted or refused CFastSocket::send keeps its fields typed. *)
LEMMA FastSendType ==
  ASSUME TypeOK, NEW len \in Nat, FastSend(len)
  PROVE  /\ shared' \in Overlapped /\ sendPending' \in BOOLEAN
         /\ sends' \in Seq(SendOp)
<1>1. [slot |-> "shared", len |-> len] \in SendOp
  BY DEF SendOp
<1>2. CASE shared' = Done(len) /\ sendPending' = TRUE /\ UNCHANGED sends
  BY <1>2, DoneType DEF TypeOK
<1>3. CASE /\ shared' = Pending /\ sendPending' = FALSE
           /\ sends' = Append(sends, [slot |-> "shared", len |-> len])
  BY <1>1, <1>3, MarkType, AppendProperties DEF TypeOK
<1>4. QED BY <1>2, <1>3 DEF FastSend

(* An accepted CFastSocket::recv keeps its fields typed. *)
LEMMA FastRecvType ==
  ASSUME TypeOK, NEW len \in Int, FastRecv(len)
  PROVE  /\ shared' \in Overlapped /\ recvPending' \in BOOLEAN
         /\ mixed' \in BOOLEAN /\ delivered' \in Nat
         /\ recvs' \in Seq(Nat \ {0})
<1>1. recvPending' \in BOOLEAN /\ mixed' \in BOOLEAN
  BY DEF FastRecv, TypeOK
<1>2. len \in Nat \ {0}
  BY DEF FastRecv
<1>3. CASE shared' = Pending /\ recvs' = Append(recvs, len) /\ UNCHANGED delivered
  BY <1>1, <1>2, <1>3, MarkType, AppendProperties DEF TypeOK
<1>4. ASSUME NEW n \in ChunkSizes, shared' = Done(n), delivered' = delivered + n,
             UNCHANGED recvs
      PROVE  shared' \in Overlapped /\ delivered' \in Nat /\ recvs' \in Seq(Nat \ {0})
  BY <1>4, DoneType, LengthsAssumption DEF TypeOK
<1>5. QED BY <1>1, <1>3, <1>4 DEF FastRecv

(* A call of TCPSocket::Send more or less under way *)
LEMMA CallCounted ==
  ASSUME NEW calls \in [done : Nat, pending : Nat]
  PROVE  /\ [calls EXCEPT !.done = @ + 1] \in [done : Nat, pending : Nat]
         /\ [calls EXCEPT !.pending = @ + 1] \in [done : Nat, pending : Nat]
         /\ calls.done > 0 =>
              [calls EXCEPT !.done = @ - 1] \in [done : Nat, pending : Nat]
         /\ calls.pending > 0 =>
              [calls EXCEPT !.pending = @ - 1] \in [done : Nat, pending : Nat]
OBVIOUS

(* Every field keeps its type; no receive of a non-positive length is issued. *)
LEMMA TypeStep == TypeOK /\ [Next]_vars => TypeOK'
<1> SUFFICES ASSUME TypeOK, [Next]_vars PROVE TypeOK'
  OBVIOUS
<1> USE DEF node, config, rx, tcp
<1>1. CASE RetryConnect
  BY <1>1 DEF RetryConnect, TypeOK
<1>2. CASE RunState1
  <2>1. CASE upnpMode \notin {0, 1} /\ fsm' = 5
               /\ UNCHANGED <<sendPendingConn, sendPending, shared, sends>>
    BY <1>2, <2>1 DEF RunState1, TypeOK
  <2>2. CASE ArmSend(sendOffset) /\ fsm' = 2
    <3>1. outbound - sendOffset \in Nat /\ FastSend(outbound - sendOffset)
      BY <2>2 DEF ArmSend, TypeOK
    <3>2. /\ shared' \in Overlapped /\ sendPending' \in BOOLEAN
          /\ sends' \in Seq(SendOp)
      BY <3>1, FastSendType
    <3>3. sendPendingConn' \in BOOLEAN /\ fsm' \in 1..5
      BY <2>2 DEF ArmSend
    <3>4. UNCHANGED <<sendOffset, sendBytesDone, recvBytesTotal, recvSize,
                      config, rx, sendov, net, tcp>>
      BY <1>2 DEF RunState1
    <3>5. QED BY <3>2, <3>3, <3>4 DEF TypeOK
  <2>3. CASE ArmSendFails(sendOffset, sendPendingConn, sendPending) /\ fsm' = 5
    <3>1. sendPendingConn' \in BOOLEAN /\ sendPending' \in BOOLEAN
      BY <2>3 DEF ArmSendFails, FastSendFails, TypeOK
    <3>2. fsm' \in 1..5
      BY <2>3
    <3>3. UNCHANGED <<shared, sends, sendOffset, sendBytesDone, recvBytesTotal,
                      recvSize, config, rx, sendov, net, tcp>>
      BY <1>2, <2>3 DEF RunState1, ArmSendFails, FastSendFails
    <3>4. QED BY <3>1, <3>2, <3>3 DEF TypeOK
  <2>4. QED BY <1>2, <2>1, <2>2, <2>3 DEF RunState1
<1>3. CASE RunState2
  <2> DEFINE offset == Advance(SendReport)
  <2>1. SendReport \in Nat
    BY DEF SendReport, TypeOK, Overlapped
  <2>2. offset \in Nat
    BY <2>1 DEF Advance, TypeOK
  <2> HIDE DEF offset
  <2>3. /\ sendBytesDone' \in Nat
        /\ UNCHANGED <<recvBytesTotal, recvSize, config, sendov, net, tcp>>
    BY <1>3, <2>1 DEF RunState2, TypeOK
  <2>4. CASE /\ MoreToSend(offset) /\ sendOffset' = offset
             /\ ArmSend(offset) /\ UNCHANGED fsm /\ UNCHANGED rx
    <3>1. outbound - offset \in Nat /\ FastSend(outbound - offset)
      BY <2>2, <2>4 DEF ArmSend, TypeOK
    <3>2. /\ shared' \in Overlapped /\ sendPending' \in BOOLEAN
          /\ sends' \in Seq(SendOp)
      BY <3>1, FastSendType
    <3>3. sendPendingConn' \in BOOLEAN /\ sendOffset' \in Nat
      BY <2>2, <2>4 DEF ArmSend
    <3>4. UNCHANGED <<fsm, rx>>
      BY <2>4
    <3>5. QED BY <2>3, <3>2, <3>3, <3>4 DEF TypeOK
  <2>5. CASE /\ sendOffset' = offset
             /\ ArmSendFails(offset, FALSE, FALSE) /\ fsm' = 5 /\ UNCHANGED rx
    <3>1. sendPendingConn' \in BOOLEAN /\ sendPending' \in BOOLEAN
      BY <2>5 DEF ArmSendFails, FastSendFails, TypeOK
    <3>2. fsm' \in 1..5
      BY <2>5
    <3>3. sendOffset' \in Nat
      BY <2>2, <2>5
    <3>4. UNCHANGED <<shared, sends, rx>>
      BY <2>5 DEF ArmSendFails, FastSendFails
    <3>5. QED BY <2>3, <3>1, <3>2, <3>3, <3>4 DEF TypeOK
  <2>6. CASE /\ sendPendingConn' = FALSE /\ sendPending' = FALSE /\ UNCHANGED sends
             /\ FastRecv(RecvLimit) /\ fsm' = 3 /\ sendOffset' = SetLowByte(offset, 1)
    <3>1. RecvLimit \in Int
      BY DEF RecvLimit
    <3>2. sendOffset' \in Nat
      BY <2>2, <2>6, LowByte
    <3>3. sendPendingConn' \in BOOLEAN /\ sendPending' \in BOOLEAN
      BY <2>6, Zenon
    <3>4. fsm' \in 1..5 /\ UNCHANGED sends
      BY <2>6, SMT
    <3>5. /\ shared' \in Overlapped /\ recvPending' \in BOOLEAN
          /\ mixed' \in BOOLEAN /\ delivered' \in Nat
          /\ recvs' \in Seq(Nat \ {0})
      BY <2>6, <3>1, FastRecvType
    <3>6. QED BY <2>3, <3>2, <3>3, <3>4, <3>5 DEF TypeOK
  <2>7. CASE /\ sendPendingConn' = FALSE /\ sendPending' = FALSE /\ UNCHANGED sends
             /\ FastRecvFails /\ fsm' = 5 /\ sendOffset' = SetLowByte(offset, 0)
    <3>1. sendOffset' \in Nat
      BY <2>2, <2>7, LowByte
    <3>2. /\ sendPendingConn' \in BOOLEAN /\ sendPending' \in BOOLEAN
          /\ recvPending' \in BOOLEAN
      BY <2>7, Zenon DEF FastRecvFails
    <3>3. fsm' \in 1..5 /\ UNCHANGED <<sends, shared, recvs, delivered, mixed>>
      BY <2>7, SMT DEF FastRecvFails
    <3>4. QED BY <2>3, <3>1, <3>2, <3>3 DEF TypeOK
  <2>8. QED BY <1>3, <2>4, <2>5, <2>6, <2>7 DEF RunState2, offset
<1>4. CASE RunState3
  <2> DEFINE total == recvBytesTotal + shared.bytes
  <2>1. shared.bytes \in Nat /\ total \in Nat
    BY DEF TypeOK, Overlapped
  <2> HIDE DEF total
  <2>2. /\ UNCHANGED <<sendPendingConn, sendBytesDone, config, sendPending, sendov,
                       net, sends, tcp>>
        /\ recvSize' \in Nat /\ recvBytesTotal' \in Nat
    BY <1>4, <2>1 DEF RunState3, TypeOK, total
  <2>3. CASE /\ fsm' = 4 /\ sendOffset' = SetLowByte(sendOffset, 0)
             /\ recvPending' = FALSE /\ UNCHANGED <<shared, recvs, delivered, mixed>>
    <3>1. sendOffset' \in Nat
      BY <2>3, LowByte DEF TypeOK
    <3>2. recvPending' \in BOOLEAN
      BY <2>3, Zenon
    <3>3. fsm' \in 1..5 /\ UNCHANGED <<shared, recvs, delivered, mixed>>
      BY <2>3, SMT
    <3>4. QED BY <2>2, <3>1, <3>2, <3>3 DEF TypeOK
  <2>4. CASE /\ sendOffset' = SetLowByte(sendOffset, 1)
             /\ FastRecv(Remaining(total)) /\ UNCHANGED fsm
    <3>1. sendOffset' \in Nat
      BY <2>4, LowByte DEF TypeOK
    <3>2. Remaining(total) \in Int
      BY <2>1 DEF Remaining, RecvLimit
    <3>3. /\ shared' \in Overlapped /\ recvPending' \in BOOLEAN
          /\ mixed' \in BOOLEAN /\ delivered' \in Nat
          /\ recvs' \in Seq(Nat \ {0})
      BY <2>4, <3>2, FastRecvType
    <3>4. UNCHANGED fsm
      BY <2>4
    <3>5. QED BY <2>2, <3>1, <3>3, <3>4 DEF TypeOK
  <2>5. CASE /\ sendOffset' = SetLowByte(sendOffset, 1)
             /\ FastRecvFails /\ fsm' = 5
    <3>1. sendOffset' \in Nat
      BY <2>5, LowByte DEF TypeOK
    <3>2. recvPending' \in BOOLEAN
      BY <2>5, Zenon DEF FastRecvFails
    <3>3. fsm' \in 1..5 /\ UNCHANGED <<shared, recvs, delivered, mixed>>
      BY <2>5, SMT DEF FastRecvFails
    <3>4. QED BY <2>2, <3>1, <3>2, <3>3 DEF TypeOK
  <2>6. QED BY <1>4, <2>3, <2>4, <2>5 DEF RunState3, total
<1>5. ASSUME NEW len \in TcpLengths, TcpSend(len) PROVE TypeOK'
  <2>1. len \in Nat /\ [slot |-> "sendov", len |-> len] \in SendOp
    BY LengthsAssumption DEF SendOp
  <2>2. tcpCalls' \in [done : Nat, pending : Nat]
    BY <1>5, CallCounted DEF TcpSend, TypeOK
  <2>3. sendov' \in Overlapped /\ sends' \in Seq(SendOp)
    <3>1. CASE sendov' = Done(len) /\ UNCHANGED sends
      BY <2>1, <3>1, DoneType DEF TypeOK
    <3>2. CASE /\ sendov' = Pending
               /\ sends' = Append(sends, [slot |-> "sendov", len |-> len])
      BY <2>1, <3>2, MarkType, AppendProperties DEF TypeOK
    <3>3. QED BY <1>5, <3>1, <3>2 DEF TcpSend
  <2>4. UNCHANGED <<node, config, rx, sendPending, shared, net>>
    BY <1>5 DEF TcpSend
  <2>5. tcpSends' \in Nat
    BY <1>5 DEF TcpSend, TypeOK
  <2>6. QED BY <2>2, <2>3, <2>4, <2>5 DEF TypeOK
<1>6. CASE TcpSendRecords
  <2>1. tcpCalls' \in [done : Nat, pending : Nat]
    BY <1>6, CallCounted DEF TcpSendRecords, TypeOK
  <2>2. sendPending' \in BOOLEAN
    BY <1>6, Zenon DEF TcpSendRecords
  <2>3. UNCHANGED <<node, config, rx, shared, sendov, net, sends, tcpSends>>
    BY <1>6 DEF TcpSendRecords
  <2>4. QED BY <2>1, <2>2, <2>3 DEF TypeOK
<1>7. CASE SendCompletes
  <2>1. Head(sends) \in SendOp /\ sends' \in Seq(SendOp)
    BY <1>7, HeadTailProperties DEF SendCompletes, TypeOK
  <2>2. Head(sends).len \in Nat
    BY <2>1 DEF SendOp
  <2>3. shared' \in Overlapped /\ sendov' \in Overlapped
    BY <1>7, <2>2, DoneType, MarkType DEF SendCompletes, TypeOK
  <2>4. UNCHANGED <<node, config, rx, sendPending, net, tcp>>
    BY <1>7 DEF SendCompletes
  <2>5. QED BY <2>1, <2>3, <2>4 DEF TypeOK
<1>8. CASE RecvCompletes
  <2>1. recvs' \in Seq(Nat \ {0})
    BY <1>8, HeadTailProperties DEF RecvCompletes, TypeOK
  <2>2. shared' \in Overlapped /\ delivered' \in Nat
    BY <1>8, DoneType, MarkType, LengthsAssumption DEF RecvCompletes, TypeOK
  <2>3. UNCHANGED <<node, config, recvPending, mixed, sendPending, sendov, net,
                    sends, tcp>>
    BY <1>8 DEF RecvCompletes
  <2>4. QED BY <2>1, <2>2, <2>3 DEF TypeOK
<1>9. CASE ConnectResolves
  BY <1>9 DEF ConnectResolves, TypeOK
<1>10. CASE HandleCloses
  BY <1>10 DEF HandleCloses, TypeOK
<1>11. CASE UNCHANGED vars
  BY <1>11 DEF vars, TypeOK
<1>12. QED
  BY <1>1, <1>2, <1>3, <1>4, <1>5, <1>6, <1>7, <1>8, <1>9, <1>10, <1>11 DEF Next

(* A freshly built node on a connecting socket is well typed. *)
LEMMA InitTypeOK == Init => TypeOK
<1> SUFFICES ASSUME Init PROVE TypeOK
  OBVIOUS
<1>1. shared \in Overlapped /\ sendov \in Overlapped
  BY DoneType DEF Init
<1>2. sends \in Seq(SendOp) /\ recvs \in Seq(Nat \ {0})
  BY EmptySeq DEF Init
<1>3. outbound \in Nat
  BY LengthsAssumption DEF Init
<1>4. /\ fast \in BOOLEAN /\ gateway \in BOOLEAN /\ sendPendingConn \in BOOLEAN
      /\ recvPending \in BOOLEAN /\ sendPending \in BOOLEAN /\ mixed \in BOOLEAN
  BY Zenon DEF Init
<1>5. /\ fsm \in 1..5 /\ upnpMode \in 0..2
      /\ sendOffset \in Nat /\ sendBytesDone \in Nat /\ recvBytesTotal \in Nat
      /\ recvSize \in Nat /\ tcpSends \in Nat /\ delivered \in Nat
  BY SMT DEF Init
<1>6. /\ net \in {"connecting", "open", "refused", "bad"}
      /\ tcpCalls \in [done : Nat, pending : Nat]
  BY DEF Init
<1>7. QED BY <1>1, <1>2, <1>3, <1>4, <1>5, <1>6, Zenon DEF TypeOK

(* Type correctness of the connection node, its socket and the kernel. *)
THEOREM TypeCorrect == Spec => []TypeOK
BY InitTypeOK, TypeStep, PTL DEF Spec

-----------------------------------------------------------------------------
(* Until the game has sent on the socket, the OVERLAPPED read by           *)
(* send_complete is the zeroed one and nothing in flight will write it.    *)
UntouchedSendov ==
  tcpSends = 0 => /\ sendov = Done(0)
                  /\ \A i \in 1..Len(sends) : sends[i].slot = "shared"
                  /\ fsm \notin {3, 4}

(* The send accounts, with what states 2 to 4 remember of the outbound string. *)
SendLedger ==
  /\ fsm \in {1, 2} => sendOffset = sendBytesDone
  /\ fsm = 1 => sendOffset = 0
  /\ fsm \in {2, 3, 4} => outbound > 0
  /\ fsm = 2 => sendBytesDone < outbound
  /\ fsm \in {3, 4} => sendBytesDone >= outbound

(* The one receive of state 3: in flight, failed, or completed and unread. *)
RecvOutstanding ==
  \/ /\ shared.status = "pending" /\ Len(recvs) = 1
     /\ recvs[1] <= RecvLimit - recvBytesTotal
     /\ recvBytesTotal = delivered
  \/ shared.status = "err" /\ recvs = <<>> /\ recvBytesTotal = delivered
  \/ /\ shared.status = "ok" /\ recvs = <<>>
     /\ recvBytesTotal + shared.bytes = delivered

(* The receive accounts by state; RecvExact alone is not inductive since   *)
(* it does not say what the next completion may add.                       *)
RecvLedger ==
  /\ fsm \in {1, 2} => ~mixed
  /\ ~mixed =>
       /\ recvSize = recvBytesTotal
       /\ delivered <= RecvLimit
       /\ fsm \in {1, 2} => recvs = <<>> /\ delivered = 0 /\ recvBytesTotal = 0
       /\ fsm = 3 => ~SharedSendInFlight /\ RecvOutstanding
       /\ fsm \in {4, 5} => recvs = <<>> /\ recvBytesTotal = delivered

IInv == TypeOK /\ FlagsMatchState /\ UntouchedSendov /\ SendLedger /\ RecvLedger

(* Every action but the three handlers leaves the node's fields alone. *)
LEMMA NodeFrame ==
  ASSUME [Next]_vars, ~RetryConnect, ~RunState1, ~RunState2, ~RunState3
  PROVE  UNCHANGED node /\ UNCHANGED <<recvPending, mixed, config>>
BY DEF Next, TcpSend, TcpSendRecords, SendCompletes, RecvCompletes, ConnectResolves,
       HandleCloses, vars, rx

(* The flags agree with the state whichever handler runs. *)
LEMMA FlagsStep == TypeOK /\ FlagsMatchState /\ [Next]_vars => FlagsMatchState'
<1> SUFFICES ASSUME TypeOK, FlagsMatchState, [Next]_vars PROVE FlagsMatchState'
  OBVIOUS
<1>1. CASE RetryConnect
  <2>1. fsm = 1 /\ fsm' \in {1, 5}
    BY <1>1 DEF RetryConnect
  <2>2. sendPendingConn' = sendPendingConn /\ recvPending' = recvPending
    BY <1>1 DEF RetryConnect, rx
  <2>3. QED BY <2>1, <2>2 DEF FlagsMatchState
<1>2. CASE RunState1
  <2>1. fsm = 1 /\ recvPending' = recvPending
    BY <1>2 DEF RunState1, rx
  <2>2. ~recvPending /\ ~sendPendingConn
    BY <2>1 DEF FlagsMatchState
  <2>3. (fsm' = 2 /\ sendPendingConn') \/ (fsm' = 5 /\ ~sendPendingConn')
    BY <1>2, <2>2 DEF RunState1, ArmSend, ArmSendFails
  <2>4. QED BY <2>1, <2>2, <2>3 DEF FlagsMatchState
<1>3. CASE RunState2
  <2> DEFINE offset == Advance(SendReport)
  <2>1. offset \in Nat
    BY DEF Advance, SendReport, TypeOK, Overlapped
  <2> HIDE DEF offset
  <2>2. fsm = 2 /\ ~recvPending
    BY <1>3 DEF RunState2, FlagsMatchState
  <2>3. CASE sendPendingConn' /\ fsm' = 2 /\ UNCHANGED rx
    BY <2>2, <2>3 DEF FlagsMatchState, rx
  <2>4. CASE ~sendPendingConn' /\ fsm' = 5 /\ UNCHANGED rx
    BY <2>2, <2>4 DEF FlagsMatchState, rx
  <2>5. CASE ~sendPendingConn' /\ fsm' = 3 /\ recvPending' /\ sendOffset' = SetLowByte(offset, 1)
    <3>1. sendOffset' % 256 = 1
      BY <2>1, <2>5, LowByte
    <3>2. QED BY <2>5, <3>1 DEF FlagsMatchState
  <2>6. CASE ~sendPendingConn' /\ fsm' = 5 /\ ~recvPending'
    BY <2>6 DEF FlagsMatchState
  <2>7. QED
    BY <1>3, <2>2, <2>3, <2>4, <2>5, <2>6
       DEF RunState2, ArmSend, ArmSendFails, FastRecv, FastRecvFails, offset
<1>4. CASE RunState3
  <2>1. fsm = 3 /\ ~sendPendingConn' /\ sendOffset \in Nat
    BY <1>4 DEF RunState3, FlagsMatchState, TypeOK
  <2>2. \/ fsm' = 3 /\ recvPending' /\ sendOffset' = SetLowByte(sendOffset, 1)
        \/ fsm' \in {4, 5} /\ ~recvPending'
    BY <1>4, <2>1 DEF RunState3, FastRecv, FastRecvFails
  <2>3. CASE fsm' = 3 /\ recvPending' /\ sendOffset' = SetLowByte(sendOffset, 1)
    <3>1. sendOffset' % 256 = 1
      BY <2>1, <2>3, LowByte
    <3>2. QED BY <2>1, <2>3, <3>1 DEF FlagsMatchState
  <2>4. CASE fsm' \in {4, 5} /\ ~recvPending'
    BY <2>1, <2>4 DEF FlagsMatchState
  <2>5. QED BY <2>2, <2>3, <2>4
<1>5. CASE ~RetryConnect /\ ~RunState1 /\ ~RunState2 /\ ~RunState3
  <2>1. /\ fsm' = fsm /\ sendPendingConn' = sendPendingConn
        /\ recvPending' = recvPending /\ sendOffset' = sendOffset
    BY <1>5, NodeFrame DEF node
  <2>2. QED BY <2>1 DEF FlagsMatchState
<1>6. QED BY <1>1, <1>2, <1>3, <1>4, <1>5

(* Before the first TCPSocket::Send nothing reaches the slot send_complete *)
(* polls, so RunState2 finds nothing to report and states 3, 4 are out of reach. *)
LEMMA SendovStep == TypeOK /\ UntouchedSendov /\ [Next]_vars => UntouchedSendov'
<1> SUFFICES ASSUME TypeOK, UntouchedSendov, [Next]_vars, tcpSends' = 0
             PROVE  /\ sendov' = Done(0)
                    /\ \A i \in 1..Len(sends') : sends'[i].slot = "shared"
                    /\ fsm' \notin {3, 4}
  BY DEF UntouchedSendov
<1>1. CASE tcpSends' = tcpSends + 1
  BY <1>1 DEF TypeOK
<1> SUFFICES ASSUME tcpSends' = tcpSends
             PROVE  /\ sendov' = Done(0)
                    /\ \A i \in 1..Len(sends') : sends'[i].slot = "shared"
                    /\ fsm' \notin {3, 4}
  BY <1>1 DEF Next, RetryConnect, RunState1, RunState2, RunState3, TcpSend,
              TcpSendRecords, SendCompletes, RecvCompletes, ConnectResolves,
              HandleCloses, tcp, vars
<1>2. /\ sendov = Done(0) /\ fsm \notin {3, 4}
      /\ \A i \in 1..Len(sends) : sends[i].slot = "shared"
  BY DEF UntouchedSendov
<1>3. ~RunState2
  BY <1>2 DEF RunState2, SendReport, Done
<1>4. ~RunState3
  BY <1>2 DEF RunState3
<1>5. ASSUME NEW len \in TcpLengths PROVE ~TcpSend(len)
  BY DEF TcpSend, TypeOK
<1>6. CASE RetryConnect
  BY <1>2, <1>6 DEF RetryConnect
<1>7. CASE RunState1
  <2>1. sendov' = sendov /\ fsm' \in {2, 5}
    BY <1>7 DEF RunState1
  <2>2. sends' = sends \/ \E len : sends' = Append(sends, [slot |-> "shared", len |-> len])
    BY <1>7 DEF RunState1, ArmSend, ArmSendFails, FastSend, FastSendFails
  <2>3. ASSUME NEW len, sends' = Append(sends, [slot |-> "shared", len |-> len])
        PROVE  \A i \in 1..Len(sends') : sends'[i].slot = "shared"
    BY <1>2, <2>3, AppendProperties DEF TypeOK, SendOp
  <2>4. CASE sends' = sends
    BY <1>2, <2>1, <2>4
  <2>5. CASE \E len : sends' = Append(sends, [slot |-> "shared", len |-> len])
    <3>1. \A i \in 1..Len(sends') : sends'[i].slot = "shared"
      BY <2>3, <2>5, Zenon
    <3>2. sendov' = Done(0) /\ fsm' \notin {3, 4}
      BY <1>2, <2>1
    <3>3. QED BY <3>1, <3>2
  <2>6. QED BY <2>2, <2>4, <2>5
<1>8. CASE SendCompletes
  <2>1. sends # <<>> /\ sends \in Seq(SendOp) /\ sends' = Tail(sends)
    BY <1>8 DEF SendCompletes, TypeOK
  <2>2. Head(sends).slot = "shared"
    BY <1>2, <2>1, HeadTailProperties, EmptySeq
  <2>3. sendov' = sendov /\ fsm' = fsm
    BY <1>8, <2>2 DEF SendCompletes, node
  <2>4. \A i \in 1..Len(sends') : sends'[i] = sends[i + 1] /\ i + 1 \in 1..Len(sends)
    BY <2>1, HeadTailProperties
  <2>5. QED BY <1>2, <2>3, <2>4
<1>9. CASE TcpSendRecords \/ RecvCompletes \/ ConnectResolves \/ HandleCloses \/ UNCHANGED vars
  <2>1. sendov' = sendov /\ sends' = sends /\ fsm' = fsm
    BY <1>9 DEF TcpSendRecords, RecvCompletes, ConnectResolves, HandleCloses, vars, node
  <2>2. QED BY <1>2, <2>1
<1>10. QED BY <1>3, <1>4, <1>5, <1>6, <1>7, <1>8, <1>9 DEF Next

(* The two accounts move together until the string is covered. *)
LEMMA SendStep == TypeOK /\ SendLedger /\ [Next]_vars => SendLedger'
<1> SUFFICES ASSUME TypeOK, SendLedger, [Next]_vars PROVE SendLedger'
  OBVIOUS
<1>1. CASE RetryConnect
  <2>1. /\ fsm = 1 /\ fsm' \in {1, 5} /\ sendOffset' = sendOffset
        /\ sendBytesDone' = sendBytesDone /\ outbound' = outbound
    BY <1>1 DEF RetryConnect, config
  <2>2. QED BY <2>1 DEF SendLedger
<1>2. CASE RunState1
  <2>1. /\ fsm = 1 /\ sendOffset' = sendOffset /\ sendBytesDone' = sendBytesDone
        /\ outbound' = outbound
    BY <1>2 DEF RunState1, config
  <2>2. fsm' = 5 \/ (fsm' = 2 /\ outbound - sendOffset > 0)
    BY <1>2 DEF RunState1, ArmSend
  <2>3. QED BY <2>1, <2>2 DEF SendLedger, TypeOK
<1>3. CASE RunState2
  <2> DEFINE bytes == SendReport
  <2>1. bytes \in Nat
    BY DEF SendReport, TypeOK, Overlapped
  <2>2. /\ fsm = 2 /\ sendBytesDone' = sendBytesDone + bytes /\ outbound' = outbound
    BY <1>3 DEF RunState2, config
  <2>3. \/ fsm' = 5
        \/ fsm' = 2 /\ sendOffset' = sendOffset + bytes /\ outbound - sendOffset' > 0
        \/ fsm' = 3 /\ ~(outbound - (sendOffset + bytes) > 0)
    BY <1>3, <2>2 DEF RunState2, MoreToSend, Advance
  <2> HIDE DEF bytes
  <2>4. QED BY <2>1, <2>2, <2>3 DEF SendLedger, TypeOK
<1>4. CASE RunState3
  <2>1. /\ fsm = 3 /\ fsm' \in {3, 4, 5} /\ sendBytesDone' = sendBytesDone
        /\ outbound' = outbound
    BY <1>4 DEF RunState3, config
  <2>2. QED BY <2>1 DEF SendLedger
<1>5. CASE ~RetryConnect /\ ~RunState1 /\ ~RunState2 /\ ~RunState3
  <2>1. /\ fsm' = fsm /\ sendOffset' = sendOffset /\ sendBytesDone' = sendBytesDone
        /\ outbound' = outbound
    BY <1>5, NodeFrame DEF node, config
  <2>2. QED BY <2>1 DEF SendLedger
<1>6. QED BY <1>1, <1>2, <1>3, <1>4, <1>5

(* A receive armed for what is left of the window, with nothing unread and *)
(* no send on the shared OVERLAPPED, cannot overfill the window.           *)
LEMMA FastRecvOutstanding ==
  ASSUME TypeOK, NEW len \in Int, FastRecv(len), ~mixed', recvs = <<>>,
         recvBytesTotal' = delivered, len = RecvLimit - delivered
  PROVE  ~SharedSendInFlight' /\ RecvOutstanding' /\ delivered' <= RecvLimit
<1>1. ~SharedSendInFlight' /\ len > 0
  BY DEF FastRecv
<1>2. CASE shared' = Pending /\ recvs' = Append(recvs, len) /\ delivered' = delivered
  <2>1. len \in Nat \ {0} /\ recvs \in Seq(Nat \ {0}) /\ Len(recvs) = 0
    BY <1>1 DEF TypeOK
  <2>2. Len(recvs') = 1 /\ recvs'[1] = len
    BY <1>2, <2>1, AppendProperties
  <2>3. shared'.status = "pending"
    BY <1>2 DEF Pending
  <2>4. delivered' <= RecvLimit
    BY <1>1, <1>2 DEF TypeOK, RecvLimit
  <2>5. RecvOutstanding'
    BY <1>2, <2>2, <2>3 DEF RecvOutstanding, RecvLimit
  <2>6. QED BY <1>1, <2>4, <2>5
<1>3. ASSUME NEW n \in ChunkSizes, n <= len, shared' = Done(n),
             delivered' = delivered + n, UNCHANGED recvs
      PROVE  RecvOutstanding' /\ delivered' <= RecvLimit
  <2>1. n \in Nat
    BY LengthsAssumption
  <2>2. delivered' <= RecvLimit
    BY <1>3, <2>1 DEF TypeOK, RecvLimit
  <2>3. shared'.status = "ok" /\ shared'.bytes = n
    BY <1>3 DEF Done
  <2>4. RecvOutstanding'
    BY <1>3, <2>3 DEF RecvOutstanding
  <2>5. QED BY <2>2, <2>4
<1>4. QED BY <1>1, <1>2, <1>3 DEF FastRecv

(* The receive accounts survive every handler, send and completion. *)
LEMMA RecvStep ==
  TypeOK /\ FlagsMatchState /\ RecvLedger /\ [Next]_vars => RecvLedger'
<1> SUFFICES ASSUME TypeOK, FlagsMatchState, RecvLedger, [Next]_vars PROVE RecvLedger'
  OBVIOUS
<1>1. CASE /\ fsm \in {1, 2} /\ fsm' \in {1, 2, 5} /\ UNCHANGED rx
           /\ UNCHANGED <<recvBytesTotal, recvSize>>
  BY <1>1 DEF RecvLedger, rx, RecvLimit
<1>2. CASE RetryConnect
  BY <1>1, <1>2 DEF RetryConnect
<1>3. CASE RunState1
  BY <1>1, <1>3 DEF RunState1
<1>4. CASE RunState2
  <2>1. fsm = 2 /\ UNCHANGED <<recvBytesTotal, recvSize>>
    BY <1>4 DEF RunState2
  <2>2. ~mixed /\ recvSize = 0 /\ recvs = <<>> /\ delivered = 0 /\ recvBytesTotal = 0
    BY <2>1 DEF RecvLedger
  <2>3. CASE fsm' \in {2, 5} /\ UNCHANGED rx
    BY <1>1, <2>1, <2>3
  <2>4. CASE fsm' = 5 /\ UNCHANGED <<recvs, delivered, mixed>>
    BY <2>1, <2>2, <2>4 DEF RecvLedger, RecvLimit
  <2>5. CASE fsm' = 3 /\ FastRecv(RecvLimit)
    <3>1. ~mixed' => ~SharedSendInFlight' /\ RecvOutstanding' /\ delivered' <= RecvLimit
      BY <2>1, <2>2, <2>5, FastRecvOutstanding DEF RecvLimit
    <3>2. recvSize' = recvBytesTotal'
      BY <2>1, <2>2
    <3>3. QED BY <2>5, <3>1, <3>2 DEF RecvLedger
  <2>6. QED BY <1>4, <2>1, <2>3, <2>4, <2>5 DEF RunState2, FastRecvFails
<1>5. CASE RunState3
  <2> DEFINE total == recvBytesTotal + shared.bytes
  <2>1. fsm = 3 /\ recvSize' = recvSize + shared.bytes /\ recvBytesTotal' = total
    BY <1>5 DEF RunState3
  <2>2. /\ fsm' \in {3, 4, 5}
        /\ mixed => mixed'
    <3>1. fsm' \in {3, 4, 5}
      BY <1>5, <2>1, SMT DEF RunState3
    <3>2. mixed => mixed'
      BY <1>5, Zenon DEF RunState3, FastRecv, FastRecvFails
    <3>3. QED BY <3>1, <3>2
  <2>3. CASE mixed'
    BY <2>2, <2>3 DEF RecvLedger
  <2>4. CASE ~mixed'
    <3>1. /\ recvs = <<>> /\ total = delivered /\ recvSize = recvBytesTotal
          /\ delivered <= RecvLimit
      BY <1>5, <2>1, <2>2, <2>4 DEF RunState3, RecvLedger, RecvOutstanding, RecvReady
    <3>2. recvSize' = recvBytesTotal' /\ recvBytesTotal' = delivered
      BY <2>1, <3>1
    <3>3. CASE fsm' \in {4, 5} /\ UNCHANGED <<recvs, delivered>>
      BY <2>4, <3>1, <3>2, <3>3 DEF RecvLedger
    <3>4. CASE fsm' = 3 /\ FastRecv(RecvLimit - delivered)
      <4>1. RecvLimit - delivered \in Int
        BY DEF TypeOK, RecvLimit
      <4>2. ~SharedSendInFlight' /\ RecvOutstanding' /\ delivered' <= RecvLimit
        BY <2>4, <3>1, <3>2, <3>4, <4>1, FastRecvOutstanding
      <4>3. QED BY <2>4, <3>2, <3>4, <4>2 DEF RecvLedger
    <3>5. \/ fsm' \in {4, 5} /\ UNCHANGED <<recvs, delivered>>
          \/ fsm' = 3 /\ FastRecv(RecvLimit - delivered)
      BY <1>5, <2>1, <3>1 DEF RunState3, FastRecvFails, Remaining
    <3>6. QED BY <3>3, <3>4, <3>5
  <2>5. QED BY <2>3, <2>4
<1>6. CASE RecvCompletes
  <2>1. /\ recvs # <<>> /\ recvs' = Tail(recvs) /\ mixed' = mixed /\ fsm' = fsm
        /\ recvSize' = recvSize /\ recvBytesTotal' = recvBytesTotal /\ sends' = sends
    BY <1>6 DEF RecvCompletes, node
  <2>2. CASE mixed
    BY <2>1, <2>2 DEF RecvLedger
  <2>3. CASE ~mixed
    <3>1. fsm = 3
      BY <2>1, <2>3 DEF RecvLedger, TypeOK
    <3>2. /\ ~SharedSendInFlight /\ Len(recvs) = 1 /\ recvBytesTotal = delivered
          /\ recvs[1] <= RecvLimit - delivered /\ recvSize = recvBytesTotal
          /\ delivered <= RecvLimit
      BY <2>1, <2>3, <3>1 DEF RecvLedger, RecvOutstanding
    <3>3. recvs \in Seq(Nat \ {0}) /\ Head(recvs) = recvs[1]
      BY <2>1 DEF TypeOK
    <3>4. recvs' = <<>>
      BY <2>1, <3>2, <3>3
    <3>5. ~SharedSendInFlight'
      BY <2>1, <3>2 DEF SharedSendInFlight
    <3>6. CASE shared' = Failed /\ UNCHANGED delivered
      BY <2>1, <3>1, <3>2, <3>4, <3>5, <3>6 DEF RecvLedger, RecvOutstanding, Failed
    <3>7. ASSUME NEW n \in ChunkSizes, n <= Head(recvs), shared' = Done(n),
                 delivered' = delivered + n
          PROVE  RecvLedger'
      <4>1. n \in Nat /\ Head(recvs) \in Nat
        BY <2>1, <3>3, LengthsAssumption
      <4>2. delivered' <= RecvLimit
        BY <3>2, <3>3, <3>7, <4>1 DEF TypeOK, RecvLimit
      <4>3. shared'.status = "ok" /\ shared'.bytes = n
        BY <3>7 DEF Done
      <4>4. RecvOutstanding'
        BY <2>1, <3>2, <3>4, <3>7, <4>3 DEF RecvOutstanding
      <4>5. QED BY <2>1, <3>1, <3>2, <3>5, <4>2, <4>4 DEF RecvLedger
    <3>8. QED BY <1>6, <3>6, <3>7 DEF RecvCompletes
  <2>4. QED BY <2>2, <2>3
<1>7. CASE SendCompletes
  <2>1. /\ sends # <<>> /\ sends \in Seq(SendOp) /\ sends' = Tail(sends)
        /\ UNCHANGED <<node, rx>>
    BY <1>7 DEF SendCompletes, TypeOK
  <2>2. \A i \in 1..Len(sends') : sends'[i] = sends[i + 1] /\ i + 1 \in 1..Len(sends)
    BY <2>1, HeadTailProperties
  <2>3. ~SharedSendInFlight => ~SharedSendInFlight'
    BY <2>2 DEF SharedSendInFlight
  <2>4. ~SharedSendInFlight => Head(sends).slot # "shared"
    BY <2>1, HeadTailProperties, EmptySeq DEF SharedSendInFlight
  <2>5. ~SharedSendInFlight => shared' = shared
    BY <1>7, <2>4 DEF SendCompletes
  <2>6. QED BY <2>1, <2>3, <2>5 DEF RecvLedger, RecvOutstanding, node, rx
<1>8. ASSUME NEW len \in TcpLengths, TcpSend(len) PROVE RecvLedger'
  <2>1. UNCHANGED <<node, rx, shared>>
    BY <1>8 DEF TcpSend
  <2>2. sends' = sends \/ sends' = Append(sends, [slot |-> "sendov", len |-> len])
    BY <1>8 DEF TcpSend
  <2>3. CASE sends' = sends
    BY <2>1, <2>3 DEF RecvLedger, RecvOutstanding, SharedSendInFlight, node, rx
  <2>4. CASE sends' = Append(sends, [slot |-> "sendov", len |-> len])
    <3>1. sends \in Seq(SendOp) /\ [slot |-> "sendov", len |-> len] \in SendOp
      BY LengthsAssumption DEF TypeOK, SendOp
    <3>2. \A i \in 1..Len(sends') :
            \/ i \in 1..Len(sends) /\ sends'[i] = sends[i]
            \/ sends'[i].slot = "sendov"
      BY <2>4, <3>1, AppendProperties
    <3>3. ~SharedSendInFlight => ~SharedSendInFlight'
      BY <3>2 DEF SharedSendInFlight
    <3>4. QED BY <2>1, <3>3 DEF RecvLedger, RecvOutstanding, node, rx
  <2>5. QED BY <2>2, <2>3, <2>4
<1>9. CASE TcpSendRecords \/ ConnectResolves \/ HandleCloses \/ UNCHANGED vars
  <2>1. UNCHANGED <<node, rx, shared, sends>>
    BY <1>9 DEF TcpSendRecords, ConnectResolves, HandleCloses, vars
  <2>2. QED BY <2>1 DEF RecvLedger, RecvOutstanding, SharedSendInFlight, node, rx
<1>10. QED BY <1>2, <1>3, <1>4, <1>5, <1>6, <1>7, <1>8, <1>9 DEF Next

-----------------------------------------------------------------------------
(* A freshly built node satisfies the inductive invariant. *)
LEMMA InitIInv == Init => IInv
<1> SUFFICES ASSUME Init PROVE IInv
  OBVIOUS
<1>1. TypeOK
  BY InitTypeOK
<1>2. FlagsMatchState
  BY DEF Init, FlagsMatchState
<1>3. sends = <<>> /\ recvs = <<>> /\ fsm = 1 /\ ~mixed
  BY DEF Init
<1>4. UntouchedSendov
  BY <1>3 DEF Init, UntouchedSendov
<1>5. SendLedger
  BY <1>3 DEF Init, SendLedger
<1>6. RecvLedger
  <2>1. recvSize = 0 /\ recvBytesTotal = 0 /\ delivered = 0
    BY DEF Init
  <2>2. QED BY <1>3, <2>1 DEF RecvLedger, RecvLimit
<1>7. QED BY <1>1, <1>2, <1>4, <1>5, <1>6 DEF IInv

(* The inductive invariant holds in every reachable state. *)
LEMMA Inductive == Spec => []IInv
<1>1. IInv /\ [Next]_vars => IInv'
  BY TypeStep, FlagsStep, SendovStep, SendStep, RecvStep DEF IInv
<1>2. QED BY InitIInv, <1>1, PTL DEF Spec

(* The flags of the node and of the socket agree with the state, through   *)
(* the byte the receive flag shares with the send offset.                  *)
THEOREM FlagsTheorem == Spec => []FlagsMatchState
<1>1. IInv => FlagsMatchState
  BY DEF IInv
<1>2. QED BY Inductive, <1>1, PTL

(* The two accounts of the bytes sent agree while the string is being sent. *)
THEOREM AccountsTheorem == Spec => []SendAccountsAgree
<1>1. IInv => SendAccountsAgree
  BY DEF IInv, SendLedger, SendAccountsAgree
<1>2. QED BY Inductive, <1>1, PTL

(* While it sends, what was reported to the node leaves something of the   *)
(* string; when it has turned to receiving, the reports cover a string     *)
(* that was not empty.                                                     *)
THEOREM CoveredTheorem == Spec => []OutboundCovered
<1>1. IInv => OutboundCovered
  BY DEF IInv, SendLedger, OutboundCovered
<1>2. QED BY Inductive, <1>1, PTL

(* Without a TCPSocket::Send by the game the node never receives. *)
THEOREM NeedsTcpSendTheorem == Spec => []ReceiveNeedsTcpSend
<1>1. IInv => ReceiveNeedsTcpSend
  BY DEF IInv, TypeOK, UntouchedSendov, ReceiveNeedsTcpSend
<1>2. QED BY Inductive, <1>1, PTL

(* Unless a receive was armed over a send on the shared OVERLAPPED, every  *)
(* received byte is appended once, within the window, one receive at a time. *)
THEOREM RecvExactTheorem == Spec => []RecvExact
<1>1. IInv => RecvExact
  <2> SUFFICES ASSUME IInv, ~mixed
               PROVE  /\ recvSize = recvBytesTotal
                      /\ recvBytesTotal + Unread = delivered
                      /\ delivered <= RecvLimit
                      /\ Len(recvs) <= 1
    BY DEF RecvExact
  <2>1. recvSize = recvBytesTotal /\ delivered <= RecvLimit
    BY DEF IInv, RecvLedger
  <2>2. recvBytesTotal \in Nat /\ fsm \in 1..5
    BY DEF IInv, TypeOK
  <2>3. CASE fsm = 3
    <3>1. recvPending /\ RecvOutstanding
      BY <2>3 DEF IInv, RecvLedger, FlagsMatchState
    <3>2. recvBytesTotal + Unread = delivered
      BY <2>2, <3>1 DEF RecvOutstanding, Unread
    <3>3. Len(recvs) <= 1
      BY <3>1 DEF RecvOutstanding
    <3>4. QED BY <2>1, <3>2, <3>3
  <2>4. CASE fsm # 3
    <3>1. ~recvPending
      BY <2>4 DEF IInv, FlagsMatchState
    <3>2. recvs = <<>> /\ recvBytesTotal = delivered
      BY <2>2, <2>4 DEF IInv, RecvLedger
    <3>3. Unread = 0
      BY <3>1 DEF Unread
    <3>4. QED BY <2>1, <2>2, <3>2, <3>3
  <2>5. QED BY <2>3, <2>4
<1>2. QED BY Inductive, <1>1, PTL

-----------------------------------------------------------------------------
(* The buffer behind recv, and the staging buffers of the socket *)

(* calc_capacity never returns less than what was asked for, and its sum   *)
(* is an int.                                                              *)
LEMMA CapacityCovers ==
  ASSUME BufferTypeOK, NEW m \in Nat, m <= MaxSize
  PROVE  calc_capacity(m) \in Nat /\ m <= calc_capacity(m) /\ calc_capacity(m) <= IntMax
<1>. DEFINE share == size \div SlackShare
<1>1. size \in 0..MaxSize /\ MaxSize \in Nat
  BY ConstantsAssumption DEF BufferTypeOK
<1>2. share \in Nat
  BY <1>1, ConstantsAssumption
<1>3. MaxSize + share <= IntMax
  BY <1>1, WidthAssumption
<1>4. IntMax \in Nat
  BY DEF IntMax
<1>. HIDE DEF share
<1>5. Slack = CASE growth_mode = 0 ->
                     IF share < SlackCeiling THEN Larger(share, SlackFloor)
                                             ELSE SlackCeiling
                [] growth_mode = 1 -> Larger(share, WideFloor)
                [] OTHER           -> 0
  BY DEF Slack, share
<1>6. Slack \in {share, SlackFloor, SlackCeiling, WideFloor, 0}
  BY <1>2, <1>5, ConstantsAssumption DEF Larger
<1>7. Slack \in Nat /\ m + Slack <= IntMax
  BY <1>1, <1>2, <1>3, <1>4, <1>6, ConstantsAssumption, WidthAssumption
     DEF IntMax, BufferTypeOK
<1>8. QED
  BY <1>4, <1>7 DEF calc_capacity, Larger, BufferTypeOK

(* An index below a bound is below every larger bound. *)
LEMMA IndexBelow ==
  \A m \in Int, c \in Nat : m <= c => \A i \in 0..(m - 1) : i \in 0..(c - 1)
OBVIOUS

(* A fresh block has the type of a heap block of its capacity. *)
LEMMA NewBlockType ==
  ASSUME BufferTypeOK, NEW cap \in Nat, NEW keep \in Nat, keep <= capacity
  PROVE  NewBlock(cap, keep) \in [0..(cap - 1) -> Cell]
BY DEF NewBlock, BufferTypeOK, Cell

(* Growth keeps the buffer well formed and its first size bytes in place. *)
LEMMA GrowthLemma ==
  ASSUME BufferTypeOK, NEW m \in Nat, m <= MaxSize, ~Fits(m),
         GrowCopy(m) \/ GrowRealloc(m)
  PROVE  /\ size' = m /\ capacity' \in Nat /\ m <= capacity' /\ capacity' <= IntMax
         /\ data' \in [0..(capacity' - 1) -> Cell]
         /\ \A i \in 0..(m - 1) : i < size => data'[i] = data[i]
<1> DEFINE cap == calc_capacity(m)
<1>1. cap \in Nat /\ m <= cap /\ cap <= IntMax
  BY CapacityCovers
<1>2. capacity < cap /\ size <= capacity /\ size < m
  BY <1>1 DEF Fits, BufferTypeOK
<1> HIDE DEF cap
<1>3. CASE GrowCopy(m)
  <2>1. data' = NewBlock(cap, size) /\ capacity' = cap /\ size' = m
    BY <1>3 DEF GrowCopy, cap
  <2>2. data' \in [0..(cap - 1) -> Cell]
    BY <2>1, <1>1, <1>2, NewBlockType DEF BufferTypeOK
  <2>3. ASSUME NEW i \in 0..(m - 1), i < size PROVE data'[i] = data[i]
    BY <2>1, <2>3, <1>1 DEF NewBlock
  <2>4. QED BY <2>1, <2>2, <2>3, <1>1
<1>4. CASE GrowRealloc(m)
  <2>1. data' = NewBlock(cap, capacity) /\ capacity' = cap /\ size' = m
    BY <1>4, <1>2 DEF GrowRealloc, cap
  <2>2. data' \in [0..(cap - 1) -> Cell]
    BY <2>1, <1>1, NewBlockType DEF BufferTypeOK
  <2>3. ASSUME NEW i \in 0..(m - 1), i < size PROVE data'[i] = data[i]
    BY <2>1, <2>3, <1>1, <1>2 DEF NewBlock, BufferTypeOK
  <2>4. QED BY <2>1, <2>2, <2>3, <1>1
<1>5. QED BY <1>3, <1>4

(* An append leaves the old bytes and writes the caller's behind them. *)
LEMMA AppendLemma ==
  ASSUME BufferTypeOK, NEW len \in Int, NEW src \in [0..(len - 1) -> Byte], len > 0,
         size + len <= MaxSize,
         Fits(size + len) \/ growth_mode # 3,
         data' = [i \in DOMAIN AppendRoom(size + len) |->
                    IF i \in size..(size + len - 1) THEN src[i - size]
                    ELSE AppendRoom(size + len)[i]],
         capacity' = IF Fits(size + len) THEN capacity
                     ELSE calc_capacity(size + len),
         size' = size + len
  PROVE  /\ capacity' \in Nat /\ size' <= capacity' /\ capacity' <= IntMax
         /\ data' \in [0..(capacity' - 1) -> Cell]
         /\ \A i \in 0..(size + len - 1) :
              data'[i] = IF i < size THEN data[i] ELSE src[i - size]
<1> DEFINE room == AppendRoom(size + len)
<1>1. size \in Nat /\ size + len \in Nat /\ size < size + len
  BY DEF BufferTypeOK
<1>2. /\ capacity' \in Nat /\ size + len <= capacity' /\ capacity' <= IntMax
      /\ room \in [0..(capacity' - 1) -> Cell]
      /\ \A i \in 0..(size - 1) : room[i] = data[i]
  <2>1. CASE Fits(size + len)
    BY <2>1, <1>1 DEF AppendRoom, Fits, BufferTypeOK
  <2>2. CASE ~Fits(size + len)
    <3>1. /\ calc_capacity(size + len) \in Nat
          /\ size + len <= calc_capacity(size + len)
          /\ calc_capacity(size + len) <= IntMax
      BY <1>1, CapacityCovers
    <3>2. room = NewBlock(calc_capacity(size + len), size)
      BY <2>2 DEF AppendRoom
    <3>3. NewBlock(calc_capacity(size + len), size)
            \in [0..(calc_capacity(size + len) - 1) -> Cell]
      BY <3>1, <1>1, NewBlockType DEF BufferTypeOK
    <3>4. \A i \in 0..(size - 1) : room[i] = data[i]
      BY <3>1, <3>2, <1>1 DEF NewBlock
    <3>5. QED BY <3>1, <3>2, <3>3, <3>4, <2>2
  <2>3. QED BY <2>1, <2>2
<1>3. data' = [i \in DOMAIN room |->
                 IF i \in size..(size + len - 1) THEN src[i - size] ELSE room[i]]
  OBVIOUS
<1> HIDE DEF room
<1>4. data' = [i \in 0..(capacity' - 1) |->
                 IF i \in size..(size + len - 1) THEN src[i - size] ELSE room[i]]
  BY <1>2, <1>3, Zenon
<1>5. \A i \in size..(size + len - 1) : src[i - size] \in Cell
  BY <1>1 DEF Cell
<1>6. data' \in [0..(capacity' - 1) -> Cell]
  BY <1>2, <1>4, <1>5
<1>7. ASSUME NEW i \in 0..(size + len - 1)
      PROVE data'[i] = IF i < size THEN data[i] ELSE src[i - size]
  <2>1. i \in 0..(capacity' - 1)
    BY <1>1, <1>2
  <2>2. CASE i < size
    BY <2>1, <2>2, <1>1, <1>2, <1>4
  <2>3. CASE ~(i < size)
    BY <2>1, <2>3, <1>1, <1>2, <1>4
  <2>4. QED BY <2>2, <2>3
<1>8. size' <= capacity'
  BY <1>1, <1>2
<1>9. QED BY <1>2, <1>6, <1>7, <1>8, Zenon

-----------------------------------------------------------------------------
(* The types hold in every reachable state; in particular the bytes in use *)
(* never reach past the block, whatever the growth mode and the heap do.   *)
THEOREM BufferTypeCorrect == BufferSpec => []BufferTypeOK
<1>1. BufferInit => BufferTypeOK
  BY ConstantsAssumption, WidthAssumption DEF BufferInit, BufferTypeOK, Cell, IntMax
<1>2. BufferTypeOK /\ [BufferNext]_buffer => BufferTypeOK'
  <2> SUFFICES ASSUME BufferTypeOK, [BufferNext]_buffer PROVE BufferTypeOK'
    OBVIOUS
  <2>1. ASSUME NEW m \in Int, m <= MaxSize, Resize(m) PROVE BufferTypeOK'
    <3>2. CASE UNCHANGED <<size, capacity, data>>
      BY <2>1, <3>2 DEF BufferTypeOK, Resize, Cell
    <3>3. CASE m >= 0 /\ Fits(m) /\ size' = m /\ UNCHANGED <<capacity, data>>
      BY <2>1, <3>3 DEF BufferTypeOK, Resize, Fits, Cell
    <3>4. CASE m >= 0 /\ ~Fits(m) /\ (GrowCopy(m) \/ GrowRealloc(m))
      <4>1. /\ size' = m /\ capacity' \in Nat /\ m <= capacity' /\ capacity' <= IntMax
            /\ data' \in [0..(capacity' - 1) -> Cell]
        BY <2>1, <3>4, GrowthLemma
      <4>2. UNCHANGED <<copying, min_capacity, growth_mode>>
        BY <2>1 DEF Resize
      <4>3. size' \in Nat /\ size' <= capacity' /\ size' <= MaxSize
        BY <2>1, <3>4, <4>1
      <4>4. QED BY <4>1, <4>2, <4>3 DEF BufferTypeOK
    <3>5. QED BY <2>1, <3>2, <3>3, <3>4 DEF Resize, Throw
  <2>2. ASSUME NEW len \in Int, NEW src \in [0..(len - 1) -> Byte],
               size + len <= MaxSize, append(src, len)
        PROVE  BufferTypeOK'
    <3>2. CASE UNCHANGED <<size, capacity, data>>
      BY <2>2, <3>2 DEF BufferTypeOK, append, Cell
    <3>3. CASE ~UNCHANGED <<size, capacity, data>>
      <4>1. /\ capacity' \in Nat /\ size' <= capacity' /\ size' = size + len
            /\ capacity' <= IntMax
            /\ data' \in [0..(capacity' - 1) -> Cell] /\ len > 0
        BY <2>2, <3>3, AppendLemma DEF append, Throw
      <4>2. UNCHANGED <<copying, min_capacity, growth_mode>>
        BY <2>2 DEF append
      <4>3. size' \in Nat /\ size' <= MaxSize
        BY <2>2, <4>1 DEF BufferTypeOK
      <4>4. QED BY <4>1, <4>2, <4>3 DEF BufferTypeOK, Cell
    <3>4. QED BY <3>2, <3>3
  <2>3. CASE UNCHANGED buffer
    BY <2>3 DEF buffer, BufferTypeOK, Cell
  <2>4. QED BY <2>1, <2>2, <2>3, ConstantsAssumption DEF BufferNext
<1>3. QED BY <1>1, <1>2, PTL DEF BufferSpec

(* GrowableBuffer.cpp with RecvAppend.cpp implements the byte stream: no   *)
(* growth, by realloc or by copy, loses or moves a byte already appended.  *)
THEOREM ImplementsStream == BufferSpec => StreamSpec
<1>1. BufferInit => Stream!SInit
  <2> SUFFICES ASSUME BufferInit PROVE Stream!SInit
    OBVIOUS
  <2>1. size = 0 /\ call = Stream!NoCall
    BY DEF BufferInit, NoCall, Stream!NoCall
  <2>2. contents \in [0..-1 -> Stream!Cell]
    BY <2>1 DEF contents
  <2>3. QED BY <2>1, <2>2 DEF Stream!SInit
<1>2. BufferTypeOK /\ [BufferNext]_buffer
        => [Stream!SNext]_<<size, contents, call>>
  <2> SUFFICES ASSUME BufferTypeOK, [BufferNext]_buffer
               PROVE  [Stream!SNext]_<<size, contents, call>>
    OBVIOUS
  <2>1. ASSUME NEW m \in Int, m <= MaxSize, Resize(m) PROVE Stream!SNext
    <3>2. CASE ~call'.ok /\ UNCHANGED <<size, capacity, data>>
      BY <3>2 DEF Stream!SNext, Stream!SThrow, contents
    <3>3. CASE /\ m >= 0 /\ size' = m
               /\ data' \in [0..(capacity' - 1) -> Cell] /\ m <= capacity'
               /\ capacity' \in Nat
               /\ \A i \in 0..(m - 1) : i < size => data'[i] = data[i]
               /\ call'.op = "resize" /\ call'.ok /\ call'.len = m
      <4>1. contents' = [i \in 0..(m - 1) |-> data'[i]]
        BY <3>3 DEF contents
      <4>2. \A i \in 0..(m - 1) : data'[i] \in Stream!Cell
        <5>0. capacity' \in Nat /\ m <= capacity'
          BY <3>3
        <5>1. ASSUME NEW i \in 0..(m - 1) PROVE data'[i] \in Cell
          <6>1. i \in 0..(capacity' - 1)
            BY <5>0, IndexBelow
          <6>2. QED BY <3>3, <6>1
        <5>2. QED BY <5>1 DEF Cell, Stream!Cell
      <4>3. \A i \in 0..(m - 1) : i < size => contents'[i] = contents[i]
        <5>1. \A i \in 0..(m - 1) : i < size => i \in 0..(size - 1)
          BY DEF BufferTypeOK
        <5>2. \A i \in 0..(m - 1) : contents'[i] = data'[i]
          BY <4>1
        <5>3. \A i \in 0..(size - 1) : contents[i] = data[i]
          BY DEF contents
        <5>4. QED BY <3>3, <5>1, <5>2, <5>3
      <4>5. contents' \in [0..(m - 1) -> Stream!Cell]
        BY <4>1, <4>2
      <4>6. QED BY <3>3, <4>3, <4>5 DEF Stream!SNext, Stream!SResize
    <3>4. CASE m >= 0 /\ Fits(m) /\ size' = m /\ UNCHANGED <<capacity, data>>
               /\ call' = [op |-> "resize", len |-> m, src |-> <<>>, ok |-> TRUE]
      BY <3>3, <3>4 DEF BufferTypeOK, Fits
    <3>5. CASE m >= 0 /\ ~Fits(m) /\ (GrowCopy(m) \/ GrowRealloc(m))
               /\ call' = [op |-> "resize", len |-> m, src |-> <<>>, ok |-> TRUE]
      BY <2>1, <3>3, <3>5, GrowthLemma
    <3>6. QED BY <2>1, <3>2, <3>4, <3>5 DEF Resize, Throw
  <2>2. ASSUME NEW len \in Int, NEW src \in [0..(len - 1) -> Byte],
               size + len <= MaxSize, append(src, len)
        PROVE  Stream!SNext
    <3>2. CASE ~call'.ok /\ UNCHANGED <<size, capacity, data>>
      BY <3>2 DEF Stream!SNext, Stream!SThrow, contents
    <3>3. CASE ~(~call'.ok /\ UNCHANGED <<size, capacity, data>>)
      <4>1. /\ call' = [op |-> "append", len |-> len, src |-> src, ok |-> TRUE]
            /\ size' = size + len /\ len > 0
            /\ \A i \in 0..(size + len - 1) :
                 data'[i] = IF i < size THEN data[i] ELSE src[i - size]
        BY <2>2, <3>3, AppendLemma DEF append, Throw
      <4>2. contents' = [i \in 0..(size + len - 1) |-> data'[i]]
        <5>1. size' = size + len
          BY <4>1
        <5>2. contents' = [i \in 0..(size' - 1) |-> data'[i]]
          BY DEF contents
        <5>3. 0..(size' - 1) = 0..(size + len - 1)
          BY <5>1 DEF BufferTypeOK
        <5>4. QED BY <5>2, <5>3, Zenon
      <4>3. ASSUME NEW i \in 0..(size + len - 1)
            PROVE  data'[i] = IF i < size THEN contents[i] ELSE src[i - size]
        BY <4>1, <4>3 DEF contents, BufferTypeOK
      <4>4. contents' = [i \in 0..(size + len - 1) |->
                           IF i < size THEN contents[i] ELSE src[i - size]]
        BY <4>2, <4>3
      <4>5. QED BY <4>1, <4>4 DEF Stream!SNext, Stream!SAppend
    <3>4. QED BY <3>2, <3>3
  <2>3. CASE UNCHANGED buffer
    BY <2>3 DEF buffer, contents
  <2>4. QED BY <2>1, <2>2, <2>3, ConstantsAssumption DEF BufferNext
<1>3. QED
  BY <1>1, <1>2, BufferTypeCorrect, PTL DEF BufferSpec, StreamSpec, Stream!SSpec
=============================================================================
