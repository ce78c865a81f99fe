---------------------------- MODULE PNConnection ----------------------------
(***************************************************************************)
(* One ProudNet connection node: the worker states 1 (connect), 2 (send)   *)
(* and 3 (receive) of src/src/ProudNet/ConnectionNode.cpp over the         *)
(* overlapped socket of src/src/ProudNet/FastSocket.cpp, together with     *)
(*   - the kernel, which completes the operations in flight at any time;   *)
(*   - the game threads that call TCPSocket::Send on the same object       *)
(*     (src/src/game/engine/TCPSocket.cpp).                                *)
(*                                                                         *)
(* CFastSocket and TCPSocket are two views of one object with two          *)
(* OVERLAPPED structures: `shared` (offset 116) is given to WSARecv and to *)
(* the WSASend of CFastSocket::send; `sendov` (offset 168) is given to     *)
(* the WSASend of TCPSocket::Send and is the one send_complete reads.      *)
(*                                                                         *)
(* A handler call that finds nothing ready changes nothing and is a        *)
(* stuttering step.  Left out: flags only written for a log line or a      *)
(* statistic (send warning, send count, interrupt retries) and the retry   *)
(* loop on WSAEINTR, which repeats the same call.                          *)
(***************************************************************************)
EXTENDS Integers, Sequences

CONSTANTS OutboundLengths,  \* lengths of the outbound string
          TcpLengths,       \* lengths the game passes to TCPSocket::Send
          ChunkSizes,       \* byte counts a receive may complete with
          MaxTcpSends       \* bound on calls of TCPSocket::Send

RecvLimit == 32768          \* 0x8000, the receive window of states 2 and 3

ASSUME LengthsAssumption ==
  /\ OutboundLengths \subseteq Nat
  /\ TcpLengths \subseteq Nat \ {0}
  /\ ChunkSizes \subseteq Nat
  /\ MaxTcpSends \in Nat

VARIABLES
  fsm,              \* conn+64: 1 connect, 2 send, 3 receive, 4 done, 5 failed
  fast,             \* *conn->fast_socket is not null
  gateway,          \* conn+72 is not null
  upnpMode,         \* conn+68
  outbound,         \* length of the outbound string
  sendPendingConn,  \* conn+16
  sendOffset,       \* conn+20, an int; its low byte is also kRecvPending
  sendBytesDone,    \* conn+24
  recvBytesTotal,   \* conn+28
  recvSize,         \* conn+32: recv.size_
  recvPending,      \* socket+136
  sendPending,      \* socket+0x12A
  shared,           \* socket+116: [status, bytes]
  sendov,           \* socket+168: [status, bytes]
  net,              \* the socket: connecting, open, refused, bad handle
  sends,            \* sends in flight: sequence of [slot, len]
  recvs,            \* receives in flight: sequence of requested lengths
  tcpSends,         \* accepted calls of TCPSocket::Send
  tcpCalls,         \* game threads in TCPSocket::Send between WSASend and the
                    \*   store of the flag, by how their WSASend ended
  delivered,        \* bytes that completed receives put in the staging area
  mixed             \* a receive was armed over a send in flight on `shared`

node    == <<fsm, sendPendingConn, sendOffset, sendBytesDone, recvBytesTotal, recvSize>>
config  == <<fast, gateway, upnpMode, outbound>>
tcp     == <<tcpSends, tcpCalls>>
rx      == <<recvPending, recvs, delivered, mixed>>
vars    == <<node, config, rx, sendPending, shared, sendov, net, sends, tcp>>

Pending == [status |-> "pending", bytes |-> 0]
Failed  == [status |-> "err", bytes |-> 0]
Done(n) == [status |-> "ok", bytes |-> n]

Init ==
  /\ fsm = 1
  /\ fast \in BOOLEAN /\ gateway \in BOOLEAN
  /\ upnpMode \in 0..2                    \* 2: any value but 0 and 1
  /\ outbound \in OutboundLengths
  /\ sendPendingConn = FALSE
  /\ sendOffset = 0 /\ sendBytesDone = 0
  /\ recvBytesTotal = 0 /\ recvSize = 0
  /\ recvPending = FALSE /\ sendPending = FALSE
  /\ shared = Done(0) /\ sendov = Done(0) \* zeroed structures read as success
  /\ net = "connecting"
  /\ sends = <<>> /\ recvs = <<>>
  /\ tcpSends = 0 /\ tcpCalls = [done |-> 0, pending |-> 0]
  /\ delivered = 0 /\ mixed = FALSE

-----------------------------------------------------------------------------
(* CFastSocket                                                             *)

(* CFastSocket::send accepted: completed inside the call (the pending flag *)
(* is raised) or left in flight (the pending flag is cleared).             *)
FastSend(len) ==
  /\ net = "open"
  /\ \/ /\ sends = <<>>
        /\ shared' = Done(len) /\ sendPending' = TRUE
        /\ UNCHANGED sends
     \/ /\ shared' = Pending /\ sendPending' = FALSE
        /\ sends' = Append(sends, [slot |-> "shared", len |-> len])

(* CFastSocket::send refused: WSASend failed, send_complete had run. *)
FastSendFails(flag) == sendPending' = flag /\ UNCHANGED <<shared, sends>>

(* Mutant of SendReport: the slot CFastSocket::send really used. *)
SendReportShared ==
  IF sendPending /\ shared.status = "ok" /\ net # "bad" THEN shared.bytes ELSE 0

(* send_complete: bytes reported, 0 when it returns 0.  A zeroed OVERLAPPED *)
(* and a completion of 0 bytes both count as nothing to report;            *)
(* WSAGetOverlappedResult refuses a closed handle whatever has completed.  *)
SendReport ==
  IF sendPending /\ sendov.status = "ok" /\ net # "bad" THEN sendov.bytes ELSE 0

SharedSendInFlight == \E i \in 1..Len(sends) : sends[i].slot = "shared"

(* CFastSocket::recv accepted: data was there, or the receive is in flight. *)
FastRecv(len) ==
  /\ net = "open" /\ len > 0
  /\ recvPending' = TRUE
  /\ mixed' = (mixed \/ SharedSendInFlight')
  /\ \/ /\ recvs = <<>>
        /\ \E n \in ChunkSizes :
             /\ n <= len
             /\ shared' = Done(n) /\ delivered' = delivered + n
        /\ UNCHANGED recvs
     \/ /\ shared' = Pending
        /\ recvs' = Append(recvs, len)
        /\ UNCHANGED delivered

(* CFastSocket::recv refused *)
FastRecvFails == recvPending' = FALSE /\ UNCHANGED <<shared, recvs, delivered, mixed>>

(* Mutant of RecvReady: the send flag is tested for the receive flag. *)
RecvReadyOnSendFlag == sendPending /\ shared.status = "ok" /\ net # "bad"

(* recv_complete returns 1: the tag of `shared` is not STATUS_PENDING and  *)
(* WSAGetOverlappedResult succeeds.  On an error it returns 0 and leaves   *)
(* the pending flag set.                                                   *)
RecvReady == recvPending /\ shared.status = "ok" /\ net # "bad"

-----------------------------------------------------------------------------
(* The connection node                                                     *)

(* Mutant of SetLowByte: the flag has a byte of its own. *)
SetOwnByte(offset, b) == offset

(* Mutant of SetLowByte: the store spills over the next byte. *)
SetByteBorrow(offset, b) == offset - 256 + b

(* base[conn::kRecvPending] = b: byte 0 of the little-endian send_offset. *)
SetLowByte(offset, b) == offset - (offset % 256) + b

(* SendArm::arm_send from the given offset *)
ArmSend(offset) ==
  /\ outbound - offset > 0
  /\ sendPendingConn' = TRUE
  /\ FastSend(outbound - offset)

ArmSendFails(offset, pendingConn, pendingSock) ==
  /\ FastSendFails(pendingSock)
  /\ sendPendingConn' = (IF outbound - offset > 0 THEN FALSE ELSE pendingConn)

(* run_state_1, the poll reports the except set: TCPSocket::Connect again. *)
RetryConnect ==
  /\ fsm = 1 /\ fast /\ net = "refused"
  /\ \/ gateway /\ net' \in {"open", "connecting"} /\ UNCHANGED fsm
     \/ fsm' = 5 /\ UNCHANGED net         \* no gateway, or Connect fails
  /\ UNCHANGED <<sendPendingConn, sendOffset, sendBytesDone, recvBytesTotal, recvSize,
                 config, rx, sendPending, shared, sendov, sends, tcp>>

(* run_state_1, the socket is writable.  select fails on a dead handle and *)
(* leaves the sets as filled in, which poll takes for ready.               *)
RunState1 ==
  /\ fsm = 1 /\ fast /\ net \in {"open", "bad"}
  /\ \/ /\ upnpMode \notin {0, 1}
        /\ fsm' = 5
        /\ UNCHANGED <<sendPendingConn, sendPending, shared, sends>>
     \/ /\ upnpMode \in {0, 1}
        /\ ArmSend(sendOffset)
        /\ fsm' = 2
     \/ /\ upnpMode \in {0, 1}            \* empty string or WSASend failed
        /\ ArmSendFails(sendOffset, sendPendingConn, sendPending)
        /\ fsm' = 5
  /\ UNCHANGED <<sendOffset, sendBytesDone, recvBytesTotal, recvSize,
                 config, rx, sendov, net, tcp>>

(* Mutant of Advance: the offset is assigned instead of accumulated. *)
AdvanceAssign(bytes) == bytes
Advance(bytes) == sendOffset + bytes

(* Mutant of MoreToSend: the last byte is forgotten. *)
MoreToSendShort(offset) == outbound - offset > 1
MoreToSend(offset) == outbound - offset > 0

(* run_state_2 *)
RunState2 ==
  LET bytes  == SendReport
      offset == Advance(bytes)
  IN /\ fsm = 2 /\ fast /\ bytes > 0
     /\ sendBytesDone' = sendBytesDone + bytes
     /\ UNCHANGED <<recvBytesTotal, recvSize, config, sendov, net, tcp>>
     /\ \/ /\ MoreToSend(offset)
           /\ sendOffset' = offset
           /\ \/ ArmSend(offset) /\ UNCHANGED fsm
              \/ ArmSendFails(offset, FALSE, FALSE) /\ fsm' = 5
           /\ UNCHANGED rx
        \/ /\ ~MoreToSend(offset)
           /\ sendPendingConn' = FALSE /\ sendPending' = FALSE
           /\ UNCHANGED sends
           /\ \/ /\ FastRecv(RecvLimit)
                 /\ fsm' = 3 /\ sendOffset' = SetLowByte(offset, 1)
              \/ /\ FastRecvFails
                 /\ fsm' = 5 /\ sendOffset' = SetLowByte(offset, 0)

(* Mutant of Remaining: every receive asks for the whole window. *)
RemainingWhole(total) == IF total < RecvLimit THEN RecvLimit ELSE 0
Remaining(total) == RecvLimit - total

(* run_state_3 *)
RunState3 ==
  LET chunk == shared.bytes
      total == recvBytesTotal + chunk
  IN /\ fsm = 3 /\ fast /\ RecvReady
     /\ UNCHANGED <<sendPendingConn, sendBytesDone, config, sendPending, sendov,
                    net, sends, tcp>>
     /\ recvSize' = recvSize + chunk      \* RecvBuffer::append
     /\ recvBytesTotal' = total
     /\ \/ /\ chunk = 0 \/ Remaining(total) <= 0
           /\ fsm' = 4
           /\ sendOffset' = SetLowByte(sendOffset, 0)
           /\ recvPending' = FALSE
           /\ UNCHANGED <<shared, recvs, delivered, mixed>>
        \/ /\ chunk > 0 /\ Remaining(total) > 0
           /\ sendOffset' = SetLowByte(sendOffset, 1)
           /\ \/ FastRecv(Remaining(total)) /\ UNCHANGED fsm
              \/ FastRecvFails /\ fsm' = 5

-----------------------------------------------------------------------------
(* The game and the kernel                                                 *)

(* TCPSocket::Send, its WSASend accepted; refused, the call changes nothing *)
(* modelled here.  No lock keeps game threads apart.                       *)
TcpSend(len) ==
  /\ fast /\ net = "open" /\ tcpSends < MaxTcpSends
  /\ tcpSends' = tcpSends + 1
  /\ \/ /\ sends = <<>>
        /\ sendov' = Done(len)
        /\ tcpCalls' = [tcpCalls EXCEPT !.done = @ + 1]
        /\ UNCHANGED sends
     \/ /\ sendov' = Pending
        /\ tcpCalls' = [tcpCalls EXCEPT !.pending = @ + 1]
        /\ sends' = Append(sends, [slot |-> "sendov", len |-> len])
  /\ UNCHANGED <<node, config, rx, sendPending, shared, net>>

(* A game thread, running beside the worker, then stores m_sendPending:    *)
(* TRUE only if its WSASend had completed inside the call.                 *)
TcpSendRecords ==
  /\ \/ tcpCalls.done > 0 /\ sendPending' = TRUE
        /\ tcpCalls' = [tcpCalls EXCEPT !.done = @ - 1]
     \/ tcpCalls.pending > 0 /\ sendPending' = FALSE
        /\ tcpCalls' = [tcpCalls EXCEPT !.pending = @ - 1]
  /\ UNCHANGED <<node, config, rx, shared, sendov, net, sends, tcpSends>>

(* The kernel finishes the oldest send and writes the OVERLAPPED it was    *)
(* given, whatever else that structure has been lent to since.             *)
SendCompletes ==
  /\ sends # <<>>
  /\ sends' = Tail(sends)
  /\ \E result \in {Done(Head(sends).len), Failed} :
       IF Head(sends).slot = "shared"
         THEN shared' = result /\ UNCHANGED sendov
         ELSE sendov' = result /\ UNCHANGED shared
  /\ UNCHANGED <<node, config, rx, sendPending, net, tcp>>

RecvCompletes ==
  /\ recvs # <<>>
  /\ recvs' = Tail(recvs)
  /\ \/ \E n \in ChunkSizes :
          /\ n <= Head(recvs)
          /\ shared' = Done(n) /\ delivered' = delivered + n
     \/ shared' = Failed /\ UNCHANGED delivered
  /\ UNCHANGED <<node, config, recvPending, mixed, sendPending, sendov, net, sends,
                 tcp>>

ConnectResolves ==
  /\ net = "connecting"
  /\ net' \in {"open", "refused"}
  /\ UNCHANGED <<node, config, rx, sendPending, shared, sendov, sends, tcp>>

(* The game closes the handle under the node. *)
HandleCloses ==
  /\ net # "bad"
  /\ net' = "bad"
  /\ UNCHANGED <<node, config, rx, sendPending, shared, sendov, sends, tcp>>

Next == \/ RetryConnect \/ RunState1 \/ RunState2 \/ RunState3
        \/ \E len \in TcpLengths : TcpSend(len)
        \/ TcpSendRecords \/ SendCompletes \/ RecvCompletes \/ ConnectResolves \/ HandleCloses

Spec == Init /\ [][Next]_vars

(* The ProudNet worker calls the handler of the node's state on every tick. *)
FairSpec == Spec /\ WF_vars(RunState2) /\ WF_vars(RunState3)

-----------------------------------------------------------------------------
Overlapped == [status : {"pending", "ok", "err"}, bytes : Nat]
SendOp     == [slot : {"shared", "sendov"}, len : Nat]

(* The fields of the node and of the socket keep their types: the flag     *)
(* stored through the low byte never makes the offset negative and no      *)
(* receive of a non-positive length is handed to the kernel.               *)
TypeOK ==
  /\ fsm \in 1..5
  /\ fast \in BOOLEAN /\ gateway \in BOOLEAN
  /\ upnpMode \in 0..2 /\ outbound \in Nat
  /\ sendPendingConn \in BOOLEAN
  /\ sendOffset \in Nat /\ sendBytesDone \in Nat
  /\ recvBytesTotal \in Nat /\ recvSize \in Nat
  /\ recvPending \in BOOLEAN /\ sendPending \in BOOLEAN
  /\ shared \in Overlapped /\ sendov \in Overlapped
  /\ net \in {"connecting", "open", "refused", "bad"}
  /\ sends \in Seq(SendOp) /\ recvs \in Seq(Nat \ {0})
  /\ tcpSends \in Nat /\ tcpCalls \in [done : Nat, pending : Nat]
  /\ delivered \in Nat /\ mixed \in BOOLEAN

(* ConnectionNode.cpp keeps two accounts of the bytes sent, and the offset *)
(* shares its low byte with the receive flag.  While the outbound string   *)
(* is being sent the flag has not touched the offset yet: both accounts    *)
(* agree, so every slice starts where the reported bytes end.              *)
SendAccountsAgree == fsm \in {1, 2} => sendOffset = sendBytesDone

(* The flags agree with the state: a send is marked outstanding exactly in *)
(* state 2, the aliased byte marks a receive in state 3, and the socket's  *)
(* own receive flag is set exactly in state 3.                             *)
FlagsMatchState ==
  /\ sendPendingConn <=> fsm = 2
  /\ recvPending <=> fsm = 3
  /\ fsm = 3 => sendOffset % 256 = 1

(* What was reported as sent leaves something of the outbound string as    *)
(* long as the node is sending, and covers the whole of a string that was  *)
(* not empty when it has turned to receiving.  A report may be that of a   *)
(* TCPSocket::Send, so the bytes that went out may be others.              *)
OutboundCovered ==
  /\ fsm = 2 => sendBytesDone < outbound
  /\ fsm \in {3, 4} => outbound > 0 /\ sendBytesDone >= outbound

(* send_complete reads the OVERLAPPED of TCPSocket::Send, so state 2 is    *)
(* left forwards only after the game itself sent on the same socket.       *)
ReceiveNeedsTcpSend == fsm \in {3, 4} => tcpSends > 0

(* Received bytes not yet consumed by run_state_3 *)
Unread == IF recvPending /\ shared.status = "ok" THEN shared.bytes ELSE 0

(* As long as no receive was armed over a send in flight on the shared     *)
(* OVERLAPPED, every byte a receive delivered is appended exactly once,    *)
(* the window is never exceeded and receives never overlap.                *)
RecvExact ==
  ~mixed => /\ recvSize = recvBytesTotal
            /\ recvBytesTotal + Unread = delivered
            /\ delivered <= RecvLimit
            /\ Len(recvs) <= 1

(* A completed receive does not lie unread: run_state_3 takes it, and the  *)
(* node moves on or waits for a receive that has not completed, unless the *)
(* handle is closed under it.                                              *)
CompletedRecvConsumed ==
  (fsm = 3 /\ fast /\ shared.status = "ok")
    ~> (fsm # 3 \/ shared.status # "ok" \/ net = "bad")

(* FastSocket.hpp calls send_complete the completion of overlapped sends   *)
(* and docs/proudnet-sdk-crossmap.md lists 0xA8 as the OVERLAPPED of       *)
(* WSASend: when the slice armed for state 2 has been sent, the worker     *)
(* sees it and state 2 is left, unless the handle is closed under it.      *)
SendCompletionObserved ==
  (fsm = 2 /\ sends = <<>> /\ shared.status = "ok") ~> (fsm # 2 \/ net = "bad")
=============================================================================
