------------------------- MODULE ProudConnectProofs -------------------------
(***************************************************************************)
(* The socket table under w_connect_2, for any nodes, callers and handles. *)
(***************************************************************************)
EXTENDS ProudConnect, TLAPS

(* A socket that was only opened has no peer. *)
FreshHasNoPeer == \A h \in Handles : sock[h].state = "fresh" => sock[h].port = 0

(* The handle of a node that has begun to connect is in the table, so what *)
(* Proud::TcpTrace::log_chunk would add of its own is there already.       *)
NodesTracked ==
  \A n \in Nodes : phase[n] # "idle" => \E p \in TrackPorts : slot[n] \in tracked[p]

(* As long as no handle was closed under a node: two calls work on two     *)
(* open sockets;                                                           *)
CallsApart ==
  \A c \in Callers : InCall(c) =>
    /\ sock[Sock(c)].state # "free"
    /\ \A d \in Callers \ {c} : InCall(d) => Sock(d) # Sock(c)

(* what a node has is open, and only a socket that was connected once is   *)
(* in two slots;                                                           *)
SlotsOpen ==
  \A n \in Nodes : slot[n] \in Handles =>
    /\ sock[slot[n]].state # "free"
    /\ \A m \in Nodes \ {n} : slot[m] = slot[n] => sock[slot[n]].state \in {"connected", "reset"}

(* what a call may still close is not connected yet;                       *)
CallsFresh ==
  \A c \in Callers : InCall(c) /\ ~ConnectedThrough(c) => sock[Sock(c)].state = "fresh"

(* and a node that is connecting has its own peer, or ENTRY.               *)
SlotsPeer ==
  \A n \in Nodes : phase[n] = "connect" =>
    sock[slot[n]].port = Leg[n] \/ (override /\ sock[slot[n]].port = EntryPort)

TableInv == PTypeOK /\ FreshHasNoPeer /\ LegsTracked /\ NodesTracked
SlotsInv ==
  orphaned = {} => /\ CallsApart /\ SlotsOpen /\ CallsFresh /\ SlotsPeer
                   /\ CloseableIsPrivate /\ HelloPeer
IInv == TableInv /\ SlotsInv

-----------------------------------------------------------------------------
(* Types *)

Sockets == [state : States, port : Ports \cup {0}]
Calls == [at : {"returned", "resolve", "callback", "bind", "connect", "track", "through"},
          sock : Handles \cup {NoHandle}, out : Handles \cup {NoHandle},
          stream : BOOLEAN, port : {0} \cup TrackPorts, hooked : BOOLEAN]

LEMMA RefuseTypes ==
  ASSUME PTypeOK, NEW c \in Callers, Sock(c) \in Handles, Refuse(c)
  PROVE  /\ call' \in [Callers -> Calls] /\ call'[c].at = "returned"
         /\ \A d \in Callers \ {c} : call'[d] = call[d]
         /\ sock' \in [Handles -> Sockets] /\ orphaned' \subseteq Nodes
<1>1. PICK hooked \in BOOLEAN : Return(c, NoHandle, hooked)
  BY DEF Refuse
<1>2. Returned(NoHandle, hooked) \in Calls /\ Returned(NoHandle, hooked).at = "returned"
  BY DEF Returned, Calls
<1>3. call \in [Callers -> Calls]
  BY DEF PTypeOK, CallOK, Calls
<1>4. call' = [call EXCEPT ![c] = Returned(NoHandle, hooked)]
  BY <1>1 DEF Return
<1>5. Free \in Sockets
  BY DEF Free, Sockets, States
<1>6. sock' = sock \/ sock' = [sock EXCEPT ![Sock(c)] = Free]
  BY DEF Refuse
<1>7. sock \in [Handles -> Sockets] /\ orphaned \subseteq Nodes
  BY DEF PTypeOK, TypeOK, Sockets
<1>8. orphaned' \subseteq Nodes
  BY <1>7 DEF Refuse
<1>9. sock' \in [Handles -> Sockets]
  BY <1>5, <1>6, <1>7
<1>10. QED BY <1>2, <1>3, <1>4, <1>8, <1>9

LEMMA TcpConnectTypes ==
  ASSUME PTypeOK, NEW n \in Nodes, slot[n] \in Handles, TcpConnect(n)
  PROVE  /\ tracked' \in [TrackPorts -> SUBSET Handles]
         /\ sock' \in [Handles -> Sockets]
         /\ phase' \in [Nodes -> {"idle", "connect", "send", "failed"}]
         /\ \A m \in Nodes \ {n} : phase'[m] = phase[m]
<1>1. Leg[n] \in TrackPorts /\ Leg[n] \in Ports
  BY LegAssumption DEF Ports
<1>2. tracked' \in [TrackPorts -> SUBSET Handles]
  BY DEF PTypeOK, TypeOK, TcpConnect, Track
<1>3. sock' \in [Handles -> Sockets]
  BY <1>1 DEF PTypeOK, TypeOK, TcpConnect, Sockets, States
<1>4. QED BY <1>2, <1>3 DEF PTypeOK, TypeOK, TcpConnect

LEMMA KernelTypes ==
  ASSUME PTypeOK, NEW h \in Handles, NEW port \in Ports, NEW answer \in Answers,
         KernelConnect(h, port, answer)
  PROVE  sock' \in [Handles -> Sockets]
  BY DEF PTypeOK, TypeOK, KernelConnect, Sockets, States

(* What a connect that is handed out makes of the socket and of the call *)
LEMMA ForwardTypes ==
  ASSUME PTypeOK, NEW c \in Callers, InCall(c), Forward(c)
  PROVE  /\ call' \in [Callers -> Calls] /\ Sock(c)' = Sock(c)
         /\ InCall(c)' /\ ConnectedThrough(c)'
         /\ \A d \in Callers \ {c} : call'[d] = call[d]
         /\ sock' \in [Handles -> Sockets] /\ sock[Sock(c)].state = "fresh"
         /\ \A h \in Handles \ {Sock(c)} : sock'[h] = sock[h]
         /\ \/ UNCHANGED sock
            \/ /\ sock'[Sock(c)].state \in {"connecting", "connected"}
               /\ sock'[Sock(c)].port \in TrackPorts =>
                    call'[c].at = "track" /\ call'[c].port = sock'[Sock(c)].port
         /\ UNCHANGED orphaned
<1>1. PICK answer \in {"done", "blocks", "inprogress"}, port \in Ports :
        /\ KernelConnect(Sock(c), port, answer)
        /\ call' = [call EXCEPT ![c] =
             IF Tracks(port, answer) THEN [@ EXCEPT !.at = "track", !.port = port]
                                     ELSE [@ EXCEPT !.at = "through"]]
        /\ UNCHANGED orphaned
  BY DEF Forward, HandsOut
<1>2. /\ call \in [Callers -> Calls] /\ sock \in [Handles -> Sockets] /\ Sock(c) \in Handles
      /\ answer \in Answers
  BY DEF PTypeOK, TypeOK, CallOK, Calls, Sockets, Answers
<1>. DEFINE rec == IF Tracks(port, answer)
                     THEN [call[c] EXCEPT !.at = "track", !.port = port]
                     ELSE [call[c] EXCEPT !.at = "through"]
<1>3. call[c] \in Calls /\ call' = [call EXCEPT ![c] = rec]
  BY <1>1, <1>2
<1>4. /\ rec \in Calls /\ rec.sock = call[c].sock /\ rec.at \in {"track", "through"}
      /\ Tracks(port, answer) => rec.at = "track" /\ rec.port = port
  BY <1>3 DEF Calls, Tracks
<1>. HIDE DEF rec
<1>5. /\ call' \in [Callers -> Calls] /\ call'[c] = rec
      /\ \A d \in Callers \ {c} : call'[d] = call[d]
  BY <1>2, <1>3, <1>4
<1>6. Sock(c)' = Sock(c) /\ InCall(c)' /\ ConnectedThrough(c)'
  BY <1>4, <1>5 DEF InCall, ConnectedThrough, Sock
<1>7. sock' \in [Handles -> Sockets]
  BY <1>1, <1>2, KernelTypes
<1>8. /\ sock[Sock(c)].state = "fresh" /\ \A h \in Handles \ {Sock(c)} : sock'[h] = sock[h]
      /\ \/ UNCHANGED sock
         \/ /\ sock'[Sock(c)].state \in {"connecting", "connected"}
            /\ sock'[Sock(c)].port = port /\ answer \in {"done", "blocks"}
  BY <1>1, <1>2 DEF KernelConnect
<1>9. QED BY <1>1, <1>4, <1>5, <1>6, <1>7, <1>8 DEF Tracks

LEMMA TrackTypes ==
  ASSUME PTypeOK, NEW h \in Handles, NEW port, Track(h, port)
  PROVE  /\ tracked' \in [TrackPorts -> SUBSET Handles]
         /\ \A p \in TrackPorts : tracked[p] \subseteq tracked'[p]
         /\ port \in TrackPorts => h \in tracked'[port]
  BY LegAssumption DEF PTypeOK, TypeOK, Track

LEMMA TrackSocketTypes ==
  ASSUME PTypeOK, NEW c \in Callers, TrackSocket(c)
  PROVE  /\ call' \in [Callers -> Calls] /\ Sock(c)' = Sock(c)
         /\ InCall(c)' /\ ConnectedThrough(c)'
         /\ \A d \in Callers \ {c} : call'[d] = call[d]
         /\ tracked' \in [TrackPorts -> SUBSET Handles]
         /\ \A p \in TrackPorts : tracked[p] \subseteq tracked'[p]
         /\ call[c].port \in TrackPorts => Sock(c) \in tracked'[call[c].port]
<1>1. call \in [Callers -> Calls] /\ Sock(c) \in Handles
  BY DEF PTypeOK, CallOK, Calls, TrackSocket, InCall
<1>2. call' = [call EXCEPT ![c] = [call[c] EXCEPT !.at = "through", !.port = 0]]
  BY <1>1 DEF TrackSocket
<1>3. /\ call' \in [Callers -> Calls] /\ Sock(c)' = Sock(c)
      /\ InCall(c)' /\ ConnectedThrough(c)'
      /\ \A d \in Callers \ {c} : call'[d] = call[d]
  BY <1>1, <1>2 DEF Calls, InCall, ConnectedThrough, Sock
<1>4. QED BY <1>1, <1>3, TrackTypes DEF TrackSocket

LEMMA SyncedHandles ==
  ASSUME PTypeOK, NEW n \in Nodes, NEW h \in Synced(n), slot[n] \in Handles
  PROVE  /\ h \in Handles
         /\ h # slot[n] => /\ override /\ h \in tracked[EntryPort]
                           /\ sock[h].state = "connected" /\ sock[h].port = EntryPort
<1>1. EntryPort \in TrackPorts /\ EntryPort # 0
  BY DEF TrackPorts, EntryPort
<1>2. CASE h \in Candidates
  BY <1>1, <1>2 DEF Candidates, Peer, PTypeOK, TypeOK, Synced
<1>3. CASE h \notin Candidates
  BY <1>3 DEF Synced
<1>4. QED BY <1>2, <1>3

LEMMA ReturnTypes ==
  ASSUME PTypeOK, NEW c \in Callers, NEW out \in Handles \cup {NoHandle},
         NEW hooked \in BOOLEAN, Return(c, out, hooked)
  PROVE  /\ call' \in [Callers -> Calls] /\ call'[c].at = "returned"
         /\ \A d \in Callers \ {c} : call'[d] = call[d]
<1>1. Returned(out, hooked) \in Calls /\ Returned(out, hooked).at = "returned"
  BY DEF Returned, Calls
<1>2. call \in [Callers -> Calls]
  BY DEF PTypeOK, CallOK, Calls
<1>3. QED BY <1>1, <1>2 DEF Return

LEMMA GoOnTypes ==
  ASSUME PTypeOK, NEW c \in Callers, Sock(c) \in Handles,
         NEW at \in {"callback", "bind", "connect"}, NEW stream \in BOOLEAN,
         GoOn(c, at, stream)
  PROVE  /\ call' \in [Callers -> Calls] /\ Sock(c)' = Sock(c) /\ InCall(c)'
         /\ \A d \in Callers \ {c} : call'[d] = call[d]
         /\ UNCHANGED <<sock, orphaned>>
<1>1. call \in [Callers -> Calls]
  BY DEF PTypeOK, CallOK, Calls
<1>2. call' = [call EXCEPT ![c] = [call[c] EXCEPT !.at = at, !.stream = stream]]
  BY <1>1 DEF GoOn
<1>3. [call[c] EXCEPT !.at = at, !.stream = stream] \in Calls
  BY <1>1 DEF Calls
<1>4. QED BY <1>1, <1>2, <1>3 DEF GoOn, Sock, InCall, Calls

(* The step of a call goes on or ends it, and ends it with or without the  *)
(* socket being closed.                                                    *)
LEMMA CallStepIs ==
  ASSUME NEW c \in Callers, CallStep(c)
  PROVE  /\ InCall(c) /\ UNCHANGED <<override, slot, phase, begun, hello, outside>>
         /\ \/ ~ConnectedThrough(c) /\ Refuse(c) /\ UNCHANGED tracked
            \/ /\ ~ConnectedThrough(c)
               /\ \E at \in {"callback", "bind", "connect"}, stream \in {call[c].stream} \cup BOOLEAN :
                   GoOn(c, at, stream)
               /\ UNCHANGED tracked
            \/ /\ call[c].at # "track" /\ Return(c, Sock(c), FALSE)
               /\ UNCHANGED <<sock, tracked, orphaned>>
            \/ ~ConnectedThrough(c) /\ Forward(c) /\ UNCHANGED tracked
            \/ TrackSocket(c) /\ UNCHANGED <<sock, orphaned>>
<1>1. CASE ResolvePeer(c)
  BY <1>1 DEF ResolvePeer, InCall, ConnectedThrough
<1>2. CASE AskCallback(c)
  <2>1. \A skip \in BOOLEAN : (call[c].stream /\ ~skip) \in BOOLEAN
    OBVIOUS
  <2>2. QED BY <1>2, <2>1 DEF AskCallback, InCall, ConnectedThrough
<1>3. CASE Bind(c)
  BY <1>3 DEF Bind, InCall, ConnectedThrough
<1>4. CASE ConnectSocket(c)
  BY <1>4 DEF ConnectSocket, InCall, ConnectedThrough
<1>5. CASE TrackSocket(c)
  BY <1>5 DEF TrackSocket, InCall
<1>6. CASE HandOut(c)
  BY <1>6 DEF HandOut, vars, InCall
<1>7. QED BY <1>1, <1>2, <1>3, <1>4, <1>5, <1>6 DEF CallStep

(* A call touches no socket but its own, and that only before it is        *)
(* connected through.                                                      *)
LEMMA CallFrame ==
  ASSUME PTypeOK, NEW c \in Callers, CallStep(c)
  PROVE  /\ \A h \in Handles \ {Sock(c)} : sock'[h] = sock[h]
         /\ ConnectedThrough(c) => UNCHANGED sock
         /\ InCall(c)' => /\ Sock(c)' = Sock(c)
                          /\ UNCHANGED sock \/ sock'[Sock(c)].state # "free"
                          /\ ~ConnectedThrough(c)' => UNCHANGED sock /\ ~ConnectedThrough(c)
<1>1. InCall(c) /\ Sock(c) \in Handles /\ sock \in [Handles -> Sockets]
      /\ call \in [Callers -> Calls]
  BY CallStepIs DEF PTypeOK, TypeOK, CallOK, Sockets, Calls
<1>2. CASE ~ConnectedThrough(c) /\ Refuse(c)
  <2>1. \A h \in Handles \ {Sock(c)} : sock'[h] = sock[h]
    BY <1>1, <1>2 DEF Refuse
  <2>2. QED BY <1>1, <1>2, <2>1, RefuseTypes DEF InCall
<1>3. ASSUME NEW at \in {"callback", "bind", "connect"}, ~ConnectedThrough(c),
             NEW stream \in {call[c].stream} \cup BOOLEAN, GoOn(c, at, stream)
      PROVE  Sock(c)' = Sock(c) /\ UNCHANGED sock /\ ~ConnectedThrough(c)
  BY <1>1, <1>3, GoOnTypes DEF Calls
<1>4. ASSUME Return(c, Sock(c), FALSE) PROVE ~InCall(c)'
  BY <1>1, <1>4, ReturnTypes DEF InCall
<1>5. ASSUME Forward(c)
      PROVE  /\ \A h \in Handles \ {Sock(c)} : sock'[h] = sock[h]
             /\ Sock(c)' = Sock(c) /\ ConnectedThrough(c)'
             /\ UNCHANGED sock \/ sock'[Sock(c)].state # "free"
  BY <1>1, <1>5, ForwardTypes
<1>6. ASSUME TrackSocket(c) PROVE Sock(c)' = Sock(c) /\ ConnectedThrough(c)'
  BY <1>6, TrackSocketTypes
<1>7. QED BY <1>2, <1>3, <1>4, <1>5, <1>6, CallStepIs

(* What a step of a call keeps *)
LEMMA CallStepTypes ==
  ASSUME PTypeOK, NEW c \in Callers, CallStep(c)
  PROVE  PTypeOK' /\ \A d \in Callers \ {c} : call'[d] = call[d]
<1>1. /\ InCall(c) /\ Sock(c) \in Handles
      /\ UNCHANGED <<override, slot, phase, begun, hello, outside>>
  BY CallStepIs DEF PTypeOK
<1>. DEFINE Typed ==
                    /\ call' \in [Callers -> Calls]
                    /\ \A d \in Callers \ {c} : call'[d] = call[d]
                    /\ call'[c].at # "returned" => call'[c].sock \in Handles
                    /\ sock' \in [Handles -> Sockets]
                    /\ tracked' \in [TrackPorts -> SUBSET Handles]
                    /\ orphaned' \subseteq Nodes
<1>. SUFFICES Typed
  BY <1>1 DEF PTypeOK, TypeOK, CallOK, Calls, Sockets, InCall, Sock
<1>2. /\ call \in [Callers -> Calls] /\ sock \in [Handles -> Sockets]
      /\ tracked \in [TrackPorts -> SUBSET Handles] /\ orphaned \subseteq Nodes
  BY DEF PTypeOK, TypeOK, CallOK, Calls, Sockets
<1>3. CASE Refuse(c) /\ UNCHANGED tracked
  BY <1>1, <1>2, <1>3, RefuseTypes
<1>4. ASSUME NEW at \in {"callback", "bind", "connect"}, NEW stream \in {call[c].stream} \cup BOOLEAN,
             GoOn(c, at, stream), UNCHANGED tracked
      PROVE  Typed
  <2>1. stream \in BOOLEAN
    BY <1>2 DEF Calls
  <2>2. QED BY <1>1, <1>2, <1>4, <2>1, GoOnTypes DEF Sock
<1>5. CASE Return(c, Sock(c), FALSE) /\ UNCHANGED <<sock, tracked, orphaned>>
  BY <1>1, <1>2, <1>5, ReturnTypes
<1>6. CASE Forward(c) /\ UNCHANGED tracked
  BY <1>1, <1>2, <1>6, ForwardTypes DEF Sock
<1>7. CASE TrackSocket(c) /\ UNCHANGED <<sock, orphaned>>
  BY <1>1, <1>2, <1>7, TrackSocketTypes DEF Sock
<1>8. QED BY <1>3, <1>4, <1>5, <1>6, <1>7, CallStepIs

LEMMA BeginTypes ==
  ASSUME PTypeOK, NEW h \in Handles, NEW port \in Ports, Begin(h, port) \/ UNCHANGED begun
  PROVE  /\ begun' \subseteq Handles \X TrackPorts /\ begun \subseteq begun'
         /\ Begin(h, port) /\ port \in TrackPorts => <<h, port>> \in begun'
  BY DEF Begin, PTypeOK, TypeOK

LEMMA TypesKept == PTypeOK /\ [PNext]_pvars => PTypeOK'
<1>. SUFFICES ASSUME PTypeOK, [PNext]_pvars PROVE PTypeOK'
  OBVIOUS
<1>. USE DEF Sockets
<1>1. /\ outside \in Nat /\ 0..MaxOutside = {k \in Nat : k <= MaxOutside}
  BY LegAssumption DEF PTypeOK, TypeOK
<1>2. Outside => outside' \in 0..MaxOutside
  BY <1>1, LegAssumption DEF Outside
<1>3. CASE UNCHANGED pvars
  BY <1>3 DEF pvars, vars, PTypeOK, TypeOK, CallOK, InCall, ConnectedThrough, Sock
<1>4. ASSUME NEW c \in Callers, OpenSocket(c) PROVE PTypeOK'
  <2>1. CASE Return(c, NoHandle, FALSE) /\ UNCHANGED sock
    BY <1>2, <1>4, <2>1, ReturnTypes DEF OpenSocket, PTypeOK, TypeOK, CallOK, Calls, InCall, ConnectedThrough, Sock
  <2>2. ASSUME NEW h \in Handles, NEW stream \in BOOLEAN,
               sock' = [sock EXCEPT ![h] = [state |-> "fresh", port |-> 0]],
               call' = [call EXCEPT ![c] = Opened(h, stream)]
        PROVE  PTypeOK'
    <3>1. CallOK' /\ (\A d \in Callers : InCall(d) => Sock(d) \in Handles)'
      BY <2>2 DEF Opened, PTypeOK, CallOK, InCall, Sock
    <3>2. sock' \in [Handles -> Sockets]
      BY <2>2 DEF PTypeOK, TypeOK, States
    <3>3. TypeOK'
      BY <1>2, <1>4, <3>2 DEF OpenSocket, PTypeOK, TypeOK
    <3>4. QED BY <3>1, <3>3 DEF PTypeOK
  <2>3. QED BY <1>4, <2>1, <2>2 DEF OpenSocket
<1>5. ASSUME NEW c \in Callers, CallStep(c) PROVE PTypeOK'
  BY <1>5, CallStepTypes
<1>6. ASSUME NEW h \in Handles, NEW port \in Ports, Connect3(h, port) PROVE PTypeOK'
  <2>1. PICK answer \in Answers :
          /\ KernelConnect(h, port, answer)
          /\ Begin(h, port) \/ UNCHANGED begun
    BY <1>6 DEF Connect3
  <2>2. TypeOK'
    BY <1>2, <1>6, <2>1, KernelTypes, BeginTypes DEF Connect3, PTypeOK, TypeOK
  <2>3. QED BY <1>6, <2>2 DEF Connect3, PTypeOK, CallOK, InCall, Sock
<1>7. ASSUME TypeOK', UNCHANGED call PROVE PTypeOK'
  BY <1>7 DEF PTypeOK, CallOK, InCall, ConnectedThrough, Sock
<1>8. ASSUME NEW h \in Handles, Close(h) PROVE TypeOK'
  BY <1>2, <1>8 DEF Close, Free, States, PTypeOK, TypeOK
<1>9. ASSUME NEW n \in Nodes, Connect(n) PROVE TypeOK'
  <2>1. slot[n] \in Handles
    BY <1>9 DEF Connect, PTypeOK, TypeOK
  <2>2. QED BY <1>9, <2>1, TcpConnectTypes DEF Connect, PTypeOK, TypeOK
<1>10. ASSUME NEW n \in Nodes, RunState1(n) PROVE TypeOK'
  <2>1. slot[n] \in Handles
    BY <1>10 DEF RunState1, PTypeOK, TypeOK
  <2>2. PICK h \in Synced(n) : slot' = [slot EXCEPT ![n] = h]
    BY <1>10 DEF RunState1
  <2>3. h \in Handles
    BY <2>1, SyncedHandles
  <2>4. slot' \in [Nodes -> Handles \cup {NoHandle}] /\ slot'[n] \in Handles
    BY <2>2, <2>3 DEF PTypeOK, TypeOK
  <2>5. Peer(slot[n]) \in Ports \cup {0}
    BY <2>1 DEF Peer, PTypeOK, TypeOK
  <2>6. /\ tracked' \in [TrackPorts -> SUBSET Handles]
        /\ sock' \in [Handles -> Sockets]
        /\ phase' \in [Nodes -> {"idle", "connect", "send", "failed"}]
        /\ hello' \in [Nodes -> Ports \cup {0}]
        /\ \A m \in Nodes \ {n} : phase'[m] = phase[m]
    <3>1. CASE TcpConnect(n) /\ UNCHANGED hello
      BY <2>1, <3>1, TcpConnectTypes DEF PTypeOK, TypeOK
    <3>2. CASE ~(TcpConnect(n) /\ UNCHANGED hello)
      <4>0. UNCHANGED <<sock, tracked>>
        BY <1>10, <3>2 DEF RunState1
      <4>1. \/ UNCHANGED phase \/ phase' = [phase EXCEPT ![n] = "send"]
            \/ phase' = [phase EXCEPT ![n] = "failed"]
        BY <1>10, <3>2 DEF RunState1
      <4>2. UNCHANGED hello \/ hello' = [hello EXCEPT ![n] = Peer(slot[n])]
        BY <1>10, <2>1 DEF RunState1
      <4>3. /\ phase' \in [Nodes -> {"idle", "connect", "send", "failed"}]
            /\ \A m \in Nodes \ {n} : phase'[m] = phase[m]
        BY <4>1 DEF PTypeOK, TypeOK
      <4>4. hello' \in [Nodes -> Ports \cup {0}]
        BY <2>5, <4>2 DEF PTypeOK, TypeOK
      <4>5. QED BY <4>0, <4>3, <4>4 DEF PTypeOK, TypeOK
    <3>3. QED BY <3>1, <3>2
  <2>7. \A m \in Nodes : phase'[m] # "idle" => slot'[m] \in Handles
    BY <2>2, <2>4, <2>6 DEF PTypeOK, TypeOK
  <2>8. QED BY <1>10, <2>4, <2>6, <2>7 DEF RunState1, PTypeOK, TypeOK
<1>11. ASSUME NEW n \in Nodes, NEW h \in Handles, Open(n, h) PROVE TypeOK'
  BY <1>11 DEF Open, States, PTypeOK, TypeOK
<1>12. ASSUME NEW h \in Handles, NEW port \in Ports, SysConnect(h, port) PROVE TypeOK'
  <2>1. begun' \subseteq Handles \X TrackPorts
    BY <1>12, BeginTypes DEF SysConnect
  <2>2. sock' \in [Handles -> Sockets]
    BY <1>12 DEF SysConnect, States, PTypeOK, TypeOK
  <2>3. QED BY <1>2, <1>12, <2>1, <2>2 DEF SysConnect, PTypeOK, TypeOK
<1>13. ASSUME NEW h \in Handles, Resolve(h) PROVE TypeOK'
  BY <1>13 DEF Resolve, States, PTypeOK, TypeOK
<1>14. ASSUME NEW h \in Handles, Reset(h) PROVE TypeOK'
  BY <1>2, <1>14 DEF Reset, States, PTypeOK, TypeOK
<1>15. ASSUME NEW h \in Handles, NEW port \in Ports, SysTrack(h, port) PROVE TypeOK'
  BY <1>15, TrackTypes DEF SysTrack, PTypeOK, TypeOK
<1>16. QED
  BY <1>3, <1>4, <1>5, <1>6, <1>7, <1>8, <1>9, <1>10, <1>11, <1>12, <1>13, <1>14, <1>15 DEF PNext

-----------------------------------------------------------------------------
(* The table *)

Table == FreshHasNoPeer /\ LegsTracked /\ NodesTracked

(* The table has the handle under the port, or a thread is about to. *)
Known(h, port) == h \in tracked[port] \/ AboutToTrack(h, port)

(* No entry is ever removed from the table. *)
LEMMA TrackedGrows ==
  ASSUME PTypeOK, [PNext]_pvars
  PROVE  \A p \in TrackPorts : tracked[p] \subseteq tracked'[p]
<1>. DEFINE Grows == \A p \in TrackPorts : tracked[p] \subseteq tracked'[p]
<1>1. CASE UNCHANGED tracked
  BY <1>1
<1>2. ASSUME NEW c \in Callers, CallStep(c) PROVE Grows
  <2>1. CASE TrackSocket(c)
    BY <2>1, TrackSocketTypes
  <2>2. QED BY <1>1, <1>2, <2>1, CallStepIs
<1>3. ASSUME NEW n \in Nodes, slot[n] \in Handles, TcpConnect(n) PROVE Grows
  BY <1>3, TrackTypes DEF TcpConnect
<1>4. ASSUME NEW n \in Nodes, Connect(n) \/ RunState1(n) PROVE Grows
  <2>1. slot[n] \in Handles
    BY <1>4 DEF Connect, RunState1, PTypeOK, TypeOK
  <2>2. TcpConnect(n) \/ UNCHANGED tracked
    BY <1>4 DEF Connect, RunState1
  <2>3. QED BY <1>1, <1>3, <2>1, <2>2
<1>5. ASSUME NEW h \in Handles, NEW port \in Ports, SysTrack(h, port) PROVE Grows
  BY <1>5, TrackTypes DEF SysTrack
<1>6. QED
  BY <1>1, <1>2, <1>4, <1>5
  DEF PNext, pvars, vars, OpenSocket, Connect3, Close, Open, SysConnect, Resolve, Reset

(* What a thread is about to enter it enters: nothing else ends that.      *)
LEMMA KnownGrows ==
  ASSUME PTypeOK, [PNext]_pvars, NEW h \in Handles, NEW port \in TrackPorts, Known(h, port)
  PROVE  Known(h, port)'
<1>1. CASE h \in tracked[port]
  BY <1>1, TrackedGrows DEF Known
<1>2. CASE <<h, port>> \in begun
  <2>1. CASE <<h, port>> \in begun'
    BY <2>1 DEF Known, AboutToTrack
  <2>2. ASSUME NEW k \in Handles, NEW p \in Ports, SysTrack(k, p), <<h, port>> \notin begun'
        PROVE  Known(h, port)'
    <3>1. k = h /\ p = port
      BY <1>2, <2>2 DEF SysTrack
    <3>2. QED BY <2>2, <3>1, TrackTypes DEF SysTrack, Known
  <2>3. ASSUME NEW c \in Callers, CallStep(c) PROVE UNCHANGED begun
    BY <2>3, CallStepIs
  <2>4. QED
    BY <1>2, <2>1, <2>2, <2>3
    DEF PNext, pvars, vars, OpenSocket, Connect3, Begin, Close, Connect, RunState1, Open,
        SysConnect, Resolve, Reset
<1>3. ASSUME NEW c \in Callers, call[c].at = "track", Sock(c) = h, call[c].port = port
      PROVE  Known(h, port)'
  <2>1. CASE call'[c] = call[c]
    BY <1>3, <2>1 DEF Known, AboutToTrack, Sock
  <2>2. ASSUME NEW d \in Callers, OpenSocket(d) PROVE call'[c] = call[c]
    <3>1. d # c /\ call \in [Callers -> Calls]
      BY <1>3, <2>2 DEF OpenSocket, InCall, PTypeOK, CallOK, Calls
    <3>2. QED BY <2>2, <3>1 DEF OpenSocket, Return
  <2>3. ASSUME NEW d \in Callers, CallStep(d) PROVE Known(h, port)'
    <3>1. CASE d # c
      BY <2>1, <2>3, <3>1, CallStepTypes
    <3>2. CASE d = c
      <4>1. ConnectedThrough(c)
        BY <1>3 DEF ConnectedThrough
      <4>2. TrackSocket(c)
        BY <1>3, <2>3, <3>2, <4>1, CallStepIs
      <4>3. QED BY <1>3, <4>2, TrackSocketTypes DEF Known
    <3>3. QED BY <3>1, <3>2
  <2>4. QED BY <2>1, <2>2, <2>3 DEF PNext, pvars, Connect3
<1>4. QED BY <1>1, <1>2, <1>3 DEF Known, AboutToTrack

(* What a step makes of a socket: nothing, an unconnected or closed one,   *)
(* the answer to its connect, or one that is connecting and known.         *)
Moves(h) ==
  \/ sock'[h] = sock[h]
  \/ sock'[h].state \in {"free", "fresh"} /\ sock'[h].port = 0
  \/ /\ sock[h].state \in {"connecting", "connected"} /\ sock'[h].state # "fresh"
     /\ sock'[h].port = sock[h].port
  \/ /\ sock'[h].state \in {"connecting", "connected"}
     /\ \A p \in TrackPorts : sock'[h].port = p => Known(h, p)'

LEMMA SocketMoves ==
  ASSUME PTypeOK, [PNext]_pvars, NEW h \in Handles
  PROVE  Moves(h)
<1>0. sock \in [Handles -> Sockets]
  BY DEF PTypeOK, TypeOK, Sockets
<1>1. CASE UNCHANGED sock
  BY <1>1 DEF Moves
<1>2. ASSUME NEW k \in Handles, NEW state \in {"free", "fresh"},
             sock' = [sock EXCEPT ![k] = [state |-> state, port |-> 0]]
      PROVE  Moves(h)
  BY <1>0, <1>2 DEF Moves
<1>3. ASSUME NEW c \in Callers, OpenSocket(c) PROVE Moves(h)
  BY <1>1, <1>2, <1>3 DEF OpenSocket
<1>4. ASSUME NEW c \in Callers, CallStep(c) PROVE Moves(h)
  <2>1. Sock(c) \in Handles /\ InCall(c)
    BY <1>4, CallStepIs DEF PTypeOK
  <2>2. CASE Refuse(c)
    BY <1>1, <1>2, <2>1, <2>2 DEF Refuse, Free
  <2>3. CASE Forward(c)
    <3>1. CASE h # Sock(c)
      BY <2>1, <2>3, <3>1, ForwardTypes DEF Moves
    <3>2. CASE h = Sock(c)
      BY <1>1, <2>1, <2>3, <3>2, ForwardTypes DEF Moves, Known, AboutToTrack, Sock
    <3>3. QED BY <3>1, <3>2
  <2>4. QED BY <1>1, <1>4, <2>2, <2>3, CallStepIs DEF GoOn
<1>5. ASSUME NEW k \in Handles, NEW port \in Ports, Connect3(k, port) PROVE Moves(h)
  <2>1. PICK answer \in Answers :
          /\ KernelConnect(k, port, answer)
          /\ Tracks(port, answer) => Begin(k, port)
          /\ Begin(k, port) \/ UNCHANGED begun
    BY <1>5 DEF Connect3
  <2>2. CASE answer \in {"done", "blocks"}
    <3>1. /\ sock'[k].state \in {"connecting", "connected"} /\ sock'[k].port = port
          /\ h # k => sock'[h] = sock[h]
      BY <1>0, <2>1, <2>2 DEF KernelConnect
    <3>2. port \in TrackPorts => <<k, port>> \in begun'
      BY <2>1, <2>2, BeginTypes DEF Tracks
    <3>3. QED BY <3>1, <3>2 DEF Moves, Known, AboutToTrack
  <2>3. QED BY <1>1, <2>1, <2>2 DEF KernelConnect, Answers
<1>6. ASSUME NEW k \in Handles, Close(k) PROVE Moves(h)
  BY <1>2, <1>6 DEF Close, Free
<1>7. ASSUME NEW n \in Nodes, Connect(n) \/ RunState1(n) PROVE Moves(h)
  <2>1. slot[n] \in Handles /\ Leg[n] \in TrackPorts
    BY <1>7, LegAssumption DEF Connect, RunState1, PTypeOK, TypeOK
  <2>2. CASE TcpConnect(n)
    <3>1. slot[n] \in tracked'[Leg[n]]
      BY <2>1, <2>2, TrackTypes DEF TcpConnect
    <3>2. CASE sock' = [sock EXCEPT ![slot[n]] = [state |-> "connecting", port |-> Leg[n]]]
      <4>1. CASE h = slot[n]
        BY <1>0, <2>1, <3>1, <3>2, <4>1 DEF Moves, Known
      <4>2. QED BY <1>0, <3>2, <4>1 DEF Moves
    <3>3. QED BY <1>1, <2>2, <3>2 DEF TcpConnect
  <2>3. QED BY <1>1, <1>7, <2>2 DEF Connect, RunState1
<1>8. ASSUME NEW n \in Nodes, NEW k \in Handles, Open(n, k) PROVE Moves(h)
  BY <1>2, <1>8 DEF Open
<1>9. ASSUME NEW k \in Handles, NEW port \in Ports, SysConnect(k, port) PROVE Moves(h)
  <2>1. port \in TrackPorts => <<k, port>> \in begun'
    BY <1>9, BeginTypes DEF SysConnect
  <2>2. /\ sock'[k].state = "connecting" /\ sock'[k].port = port
        /\ h # k => sock'[h] = sock[h]
    BY <1>0, <1>9 DEF SysConnect
  <2>3. QED BY <2>1, <2>2 DEF Moves, Known, AboutToTrack
<1>10. ASSUME NEW k \in Handles, Resolve(k) \/ Reset(k) PROVE Moves(h)
  <2>1. /\ sock[k].state \in {"connecting", "connected"}
        /\ \E at \in {"connected", "refused", "reset"} : sock' = [sock EXCEPT ![k].state = at]
    BY <1>10 DEF Resolve, Reset
  <2>2. QED BY <1>0, <2>1 DEF Moves, Sockets
<1>11. QED
  BY <1>1, <1>3, <1>4, <1>5, <1>6, <1>7, <1>8, <1>9, <1>10 DEF PNext, SysTrack, pvars, vars

(* What poll puts into a slot it has taken from the table. *)
LEMMA NodesKept ==
  ASSUME PTypeOK, NodesTracked, [PNext]_pvars
  PROVE  NodesTracked'
<1>0. \A p \in TrackPorts : tracked[p] \subseteq tracked'[p]
  BY TrackedGrows
<1>1. CASE UNCHANGED <<slot, phase>>
  BY <1>0, <1>1 DEF NodesTracked
<1>2. ASSUME NEW c \in Callers, CallStep(c) PROVE NodesTracked'
  BY <1>1, <1>2, CallStepIs
<1>3. ASSUME NEW n \in Nodes, Connect(n) PROVE NodesTracked'
  <2>1. slot[n] \in Handles /\ TcpConnect(n) /\ UNCHANGED slot
    BY <1>3 DEF Connect, PTypeOK, TypeOK
  <2>2. Leg[n] \in TrackPorts /\ \A m \in Nodes \ {n} : phase'[m] = phase[m]
    BY <2>1, TcpConnectTypes, LegAssumption
  <2>3. slot[n] \in tracked'[Leg[n]]
    BY <2>1, <2>2, TrackTypes DEF TcpConnect
  <2>4. QED BY <1>0, <2>1, <2>2, <2>3 DEF NodesTracked
<1>4. ASSUME NEW n \in Nodes, RunState1(n) PROVE NodesTracked'
  <2>1. slot[n] \in Handles /\ phase[n] = "connect"
    BY <1>4 DEF RunState1, PTypeOK, TypeOK
  <2>2. PICK h \in Synced(n) : slot' = [slot EXCEPT ![n] = h]
    BY <1>4 DEF RunState1
  <2>3. \A m \in Nodes \ {n} : phase'[m] = phase[m] /\ slot'[m] = slot[m]
    BY <1>4, <2>1, <2>2, TcpConnectTypes DEF RunState1, PTypeOK, TypeOK
  <2>4. \E p \in TrackPorts : slot[n] \in tracked[p]
    BY <2>1 DEF NodesTracked
  <2>5. EntryPort \in TrackPorts /\ slot'[n] = h
    BY <2>2 DEF TrackPorts, PTypeOK, TypeOK
  <2>6. \E p \in TrackPorts : slot'[n] \in tracked[p]
    BY <2>1, <2>4, <2>5, SyncedHandles
  <2>7. QED BY <1>0, <2>3, <2>6 DEF NodesTracked
<1>5. ASSUME NEW n \in Nodes, NEW h \in Handles, Open(n, h) PROVE NodesTracked'
  BY <1>0, <1>5 DEF Open, NodesTracked, PTypeOK, TypeOK
<1>6. QED
  BY <1>1, <1>2, <1>3, <1>4, <1>5
  DEF PNext, pvars, vars, OpenSocket, Connect3, Close, SysConnect, SysTrack, Resolve, Reset

LEMMA TableKept ==
  ASSUME PTypeOK, Table, [PNext]_pvars
  PROVE  Table'
<1>1. ASSUME NEW h \in Handles PROVE sock'[h].state = "fresh" => sock'[h].port = 0
  BY SocketMoves DEF Moves, Table, FreshHasNoPeer
<1>2. ASSUME NEW h \in Handles, sock'[h].state \in {"connecting", "connected"},
             NEW p \in TrackPorts, sock'[h].port = p
      PROVE  Known(h, p)'
  <2>1. CASE sock[h].state \in {"connecting", "connected"} /\ sock[h].port = p
    BY <2>1, KnownGrows DEF Table, LegsTracked, Known
  <2>2. sock[h].state # "fresh" \/ sock[h].port # p
    BY DEF Table, FreshHasNoPeer, TrackPorts, EntryPort, GamePort, ProbePort
  <2>3. QED BY <1>2, <2>1, SocketMoves DEF Moves
<1>3. FreshHasNoPeer'
  BY <1>1 DEF FreshHasNoPeer
<1>4. LegsTracked'
  BY <1>2 DEF LegsTracked, Known, AboutToTrack
<1>5. QED BY <1>3, <1>4, NodesKept DEF Table

-----------------------------------------------------------------------------
(* The calls *)

LEMMA ApartUnlessFreed ==
  ASSUME CallsApart, UNCHANGED call,
         \A h \in Handles : sock'[h] = sock[h] \/ sock'[h].state # "free" \/ NotInCall(h),
         PTypeOK
  PROVE  CallsApart'
<1>1. \A c \in Callers : InCall(c) => Sock(c) \in Handles /\ ~NotInCall(Sock(c))
  BY DEF PTypeOK, NotInCall
<1>2. QED BY <1>1 DEF CallsApart, InCall, ConnectedThrough, Sock

LEMMA ApartKept ==
  ASSUME PTypeOK, CallsApart, [PNext]_pvars, orphaned' = {}
  PROVE  CallsApart'
<1>0. sock \in [Handles -> Sockets] /\ call \in [Callers -> Calls]
  BY DEF PTypeOK, TypeOK, CallOK, Sockets, Calls
<1>1. CASE UNCHANGED pvars
  BY <1>1, ApartUnlessFreed DEF pvars, vars
<1>2. ASSUME NEW c \in Callers, OpenSocket(c) PROVE CallsApart'
  <2>1. CASE Return(c, NoHandle, FALSE) /\ UNCHANGED sock
    BY <1>2, <2>1, ReturnTypes DEF CallsApart, InCall, ConnectedThrough, Sock
  <2>2. ASSUME NEW h \in Handles, NEW stream \in BOOLEAN, sock[h].state = "free",
               sock' = [sock EXCEPT ![h] = [state |-> "fresh", port |-> 0]],
               call' = [call EXCEPT ![c] = Opened(h, stream)]
        PROVE  CallsApart'
    <3>1. call'[c].sock = h /\ sock'[h].state = "fresh" /\ \A d \in Callers \ {c} : call'[d] = call[d]
      BY <1>0, <2>2 DEF Opened
    <3>2. \A d \in Callers : InCall(d) => Sock(d) # h /\ sock'[Sock(d)] = sock[Sock(d)]
      BY <1>0, <2>2 DEF CallsApart, PTypeOK
    <3>3. QED BY <3>1, <3>2 DEF CallsApart, InCall, ConnectedThrough, Sock
  <2>3. QED BY <1>2, <2>1, <2>2 DEF OpenSocket
<1>3. ASSUME NEW c \in Callers, CallStep(c) PROVE CallsApart'
  <2>1. InCall(c) /\ Sock(c) \in Handles /\ \A d \in Callers \ {c} : call'[d] = call[d]
    BY <1>3, CallStepIs, CallStepTypes DEF PTypeOK
  <2>2. /\ \A h \in Handles \ {Sock(c)} : sock'[h] = sock[h]
        /\ InCall(c)' => Sock(c)' = Sock(c)
        /\ InCall(c)' => UNCHANGED sock \/ sock'[Sock(c)].state # "free"
    BY <1>3, <2>1, CallFrame
  <2>3. QED BY <2>1, <2>2 DEF CallsApart, InCall, ConnectedThrough, Sock, PTypeOK
<1>4. ASSUME NEW h \in Handles, NEW port \in Ports, Connect3(h, port) PROVE CallsApart'
  BY <1>0, <1>4, ApartUnlessFreed DEF Connect3, KernelConnect
<1>5. ASSUME NEW h \in Handles, MayClose(h), Close(h), UNCHANGED call PROVE CallsApart'
  <2>1. NotInCall(h)
    BY <1>5 DEF MayClose, Close
  <2>2. QED BY <1>0, <1>5, <2>1, ApartUnlessFreed DEF Close
<1>6. ASSUME NEW n \in Nodes, Connect(n) \/ RunState1(n), UNCHANGED call PROVE CallsApart'
  <2>1. UNCHANGED sock \/ sock' = [sock EXCEPT ![slot[n]] = [state |-> "connecting", port |-> Leg[n]]]
    BY <1>6 DEF Connect, RunState1, TcpConnect
  <2>2. \A h \in Handles : sock'[h] = sock[h] \/ sock'[h].state # "free"
    BY <1>0, <2>1
  <2>3. QED BY <1>6, <2>2, ApartUnlessFreed
<1>7. ASSUME NEW h \in Handles, UNCHANGED call,
             \/ \E n \in Nodes : Open(n, h)
             \/ \E port \in Ports : SysConnect(h, port) \/ SysTrack(h, port)
             \/ Resolve(h) \/ Reset(h)
      PROVE  CallsApart'
  <2>1. \/ UNCHANGED sock
        \/ \E rec \in Sockets : rec.state # "free" /\ sock' = [sock EXCEPT ![h] = rec]
        \/ \E at \in {"connected", "refused", "reset"} : sock' = [sock EXCEPT ![h].state = at]
    BY <1>7 DEF Open, SysConnect, SysTrack, Resolve, Reset, Sockets, States
  <2>2. \A k \in Handles : sock'[k] = sock[k] \/ sock'[k].state # "free"
    BY <1>0, <2>1 DEF Sockets
  <2>3. QED BY <1>7, <2>2, ApartUnlessFreed
<1>8. QED
  BY <1>1, <1>2, <1>3, <1>4, <1>5, <1>6, <1>7 DEF PNext

-----------------------------------------------------------------------------
(* The slots *)

Slots == CallsApart /\ SlotsOpen /\ CallsFresh /\ SlotsPeer
         /\ (\A c \in Callers, n \in Nodes : InCall(c) /\ slot[n] = Sock(c) => ConnectedThrough(c))
         /\ (\A n \in Nodes : hello[n] \in {0, Leg[n]} \/ (override /\ hello[n] = EntryPort))

LEMMA SlotsInvIs == SlotsInv <=> (orphaned = {} => Slots)
  BY DEF SlotsInv, Slots, CloseableIsPrivate, HelloPeer

LEMMA OrphanedGrows == [PNext]_pvars => orphaned \subseteq orphaned'
<1>. SUFFICES ASSUME [PNext]_pvars PROVE orphaned \subseteq orphaned'
  OBVIOUS
<1>1. ASSUME NEW c \in Callers, CallStep(c) PROVE orphaned \subseteq orphaned'
  BY <1>1, CallStepIs DEF GoOn, Refuse, Forward
<1>2. QED
  BY <1>1 DEF PNext, pvars, vars, OpenSocket, Connect3, Close, Connect, RunState1, Open,
              SysConnect, SysTrack, Resolve, Reset

(* A step that leaves the nodes and their sockets alone keeps the slots if *)
(* what a call may still close is fresh and in no slot.                    *)
LEMMA SlotsUntouched ==
  ASSUME Slots, CallsApart', UNCHANGED <<override, slot, phase, hello>>,
         \A n \in Nodes : slot[n] \in Handles => sock'[slot[n]] = sock[slot[n]],
         \A n \in Nodes : phase[n] # "idle" => slot[n] \in Handles,
         \A c \in Callers : InCall(c)' /\ ~ConnectedThrough(c)' =>
           sock'[Sock(c)'].state = "fresh" /\ \A n \in Nodes : slot[n] # Sock(c)'
  PROVE  Slots'
<1>1. SlotsOpen'
  BY DEF Slots, SlotsOpen
<1>2. SlotsPeer'
  BY DEF Slots, SlotsPeer
<1>3. CallsFresh'
  BY DEF CallsFresh
<1>4. QED BY <1>1, <1>2, <1>3 DEF Slots

LEMMA OpenSocketSlots ==
  ASSUME PTypeOK, Slots, CallsApart', NEW c \in Callers, OpenSocket(c)
  PROVE  Slots'
<1>0. sock \in [Handles -> Sockets] /\ call \in [Callers -> Calls]
      /\ \A n \in Nodes : phase[n] # "idle" => slot[n] \in Handles
  BY DEF PTypeOK, TypeOK, CallOK, Sockets, Calls
<1>1. CASE Return(c, NoHandle, FALSE) /\ UNCHANGED sock
  <2>1. \A d \in Callers : InCall(d)' => InCall(d) /\ UNCHANGED call[d]
    BY <1>1, ReturnTypes DEF InCall
  <2>2. QED BY <1>0, <1>1, <2>1, SlotsUntouched
            DEF OpenSocket, Slots, CallsFresh, InCall, ConnectedThrough, Sock
<1>2. ASSUME NEW h \in Handles, NEW stream \in BOOLEAN, sock[h].state = "free",
             sock' = [sock EXCEPT ![h] = [state |-> "fresh", port |-> 0]],
             call' = [call EXCEPT ![c] = Opened(h, stream)]
      PROVE  Slots'
  <2>1. Sock(c)' = h /\ sock'[h].state = "fresh" /\ \A d \in Callers \ {c} : call'[d] = call[d]
    BY <1>0, <1>2 DEF Opened, Sock
  <2>2. \A n \in Nodes : slot[n] # h
    BY <1>2 DEF Slots, SlotsOpen
  <2>3. \A d \in Callers : InCall(d) /\ ~ConnectedThrough(d) =>
          Sock(d) # h /\ sock'[Sock(d)].state = "fresh"
    BY <1>0, <1>2 DEF Slots, CallsFresh, PTypeOK
  <2>4. \A d \in Callers : InCall(d)' /\ ~ConnectedThrough(d)' =>
          sock'[Sock(d)'].state = "fresh" /\ \A n \in Nodes : slot[n] # Sock(d)'
    BY <2>1, <2>2, <2>3 DEF InCall, ConnectedThrough, Sock, Slots
  <2>5. \A n \in Nodes : slot[n] \in Handles => sock'[slot[n]] = sock[slot[n]]
    BY <1>0, <1>2, <2>2
  <2>6. QED BY <1>0, <2>4, <2>5, SlotsUntouched DEF OpenSocket
<1>3. QED BY <1>1, <1>2 DEF OpenSocket

LEMMA CallStepSlots ==
  ASSUME PTypeOK, Slots, CallsApart', NEW c \in Callers, CallStep(c)
  PROVE  Slots'
<1>0. \A n \in Nodes : phase[n] # "idle" => slot[n] \in Handles
  BY DEF PTypeOK, TypeOK
<1>1. /\ InCall(c) /\ Sock(c) \in Handles /\ UNCHANGED <<override, slot, phase, hello>>
      /\ \A d \in Callers \ {c} : call'[d] = call[d]
      /\ \A h \in Handles \ {Sock(c)} : sock'[h] = sock[h]
      /\ ConnectedThrough(c) => UNCHANGED sock
      /\ InCall(c)' /\ ~ConnectedThrough(c)' =>
           Sock(c)' = Sock(c) /\ UNCHANGED sock /\ ~ConnectedThrough(c)
  BY CallStepIs, CallStepTypes, CallFrame DEF PTypeOK
<1>2. \A n \in Nodes : slot[n] \in Handles => sock'[slot[n]] = sock[slot[n]]
  BY <1>1 DEF Slots
<1>3. \A d \in Callers \ {c} : InCall(d)' /\ ~ConnectedThrough(d)' =>
        sock'[Sock(d)'].state = "fresh" /\ \A n \in Nodes : slot[n] # Sock(d)'
  BY <1>1 DEF InCall, ConnectedThrough, Sock, Slots, CallsFresh, CallsApart, PTypeOK
<1>4. InCall(c)' /\ ~ConnectedThrough(c)' =>
        sock'[Sock(c)'].state = "fresh" /\ \A n \in Nodes : slot[n] # Sock(c)'
  BY <1>1 DEF Slots, CallsFresh
<1>5. QED BY <1>0, <1>1, <1>2, <1>3, <1>4, SlotsUntouched

(* connect(2) takes a socket that is fresh or was refused: never one that  *)
(* two nodes have.                                                         *)
LEMMA TcpConnectSlots ==
  ASSUME PTypeOK, Slots, CallsApart', NEW n \in Nodes, slot[n] \in Handles, TcpConnect(n),
         UNCHANGED <<override, slot, hello, call>>
  PROVE  Slots'
<1>0. sock \in [Handles -> Sockets] /\ phase \in [Nodes -> {"idle", "connect", "send", "failed"}]
      /\ \A m \in Nodes : phase[m] # "idle" => slot[m] \in Handles
  BY DEF PTypeOK, TypeOK, Sockets
<1>1. CASE /\ sock[slot[n]].state \in {"fresh", "refused"}
           /\ sock' = [sock EXCEPT ![slot[n]] = [state |-> "connecting", port |-> Leg[n]]]
           /\ phase' = [phase EXCEPT ![n] = "connect"]
  <2>1. \A m \in Nodes \ {n} : slot[m] # slot[n]
    BY <1>1 DEF Slots, SlotsOpen
  <2>2. \A m \in Nodes \ {n} : phase'[m] = phase[m]
                               /\ (slot[m] \in Handles => sock'[slot[m]] = sock[slot[m]])
    BY <1>0, <1>1, <2>1
  <2>3. sock'[slot[n]].state = "connecting" /\ sock'[slot[n]].port = Leg[n]
    BY <1>0, <1>1
  <2>4. SlotsOpen' /\ SlotsPeer'
    BY <1>0, <2>1, <2>2, <2>3 DEF Slots, SlotsOpen, SlotsPeer
  <2>5. \A c \in Callers : InCall(c) /\ ~ConnectedThrough(c) => sock'[Sock(c)] = sock[Sock(c)]
    BY <1>0, <1>1 DEF Slots, PTypeOK
  <2>6. CallsFresh'
    BY <2>5 DEF CallsFresh, InCall, ConnectedThrough, Sock, Slots
  <2>7. QED BY <2>4, <2>6 DEF Slots, InCall, ConnectedThrough, Sock
<1>2. CASE phase' = [phase EXCEPT ![n] = "failed"] /\ UNCHANGED sock
  <2>1. \A m \in Nodes : phase'[m] = "connect" => phase[m] = "connect"
    BY <1>0, <1>2
  <2>2. SlotsPeer'
    BY <1>2, <2>1 DEF Slots, SlotsPeer
  <2>3. QED BY <1>2, <2>2 DEF Slots, SlotsOpen, CallsFresh, InCall, ConnectedThrough, Sock
<1>3. QED BY <1>1, <1>2 DEF TcpConnect

(* An overwritten slot holds a connected socket to ENTRY. *)
LEMMA RunState1Slots ==
  ASSUME PTypeOK, Slots, CallsApart', NEW n \in Nodes, RunState1(n), UNCHANGED call
  PROVE  Slots'
<1>0. /\ sock \in [Handles -> Sockets] /\ slot \in [Nodes -> Handles \cup {NoHandle}]
      /\ phase \in [Nodes -> {"idle", "connect", "send", "failed"}]
      /\ hello \in [Nodes -> Ports \cup {0}]
      /\ \A m \in Nodes : phase[m] # "idle" => slot[m] \in Handles
      /\ slot[n] \in Handles /\ phase[n] = "connect" /\ UNCHANGED override
  BY DEF RunState1, PTypeOK, TypeOK, Sockets
<1>1. PICK h \in Synced(n) :
        /\ slot' = [slot EXCEPT ![n] = h]
        /\ \/ /\ h # slot[n] \/ (~Writable(h) /\ ~Excepted(h))
              /\ UNCHANGED <<phase, sock, tracked, hello>>
           \/ /\ h = slot[n] /\ sock[h].state = "connected"
              /\ phase' = [phase EXCEPT ![n] = "send"]
              /\ hello' = [hello EXCEPT ![n] = Peer(h)]
              /\ UNCHANGED <<sock, tracked>>
           \/ /\ h = slot[n] /\ Writable(h)
              /\ phase' = [phase EXCEPT ![n] = "failed"]
              /\ UNCHANGED <<sock, tracked, hello>>
           \/ /\ h = slot[n] /\ Excepted(h)
              /\ TcpConnect(n)
              /\ UNCHANGED hello
  BY DEF RunState1
<1>2. CASE h # slot[n]
  <2>1. /\ h \in Handles /\ override
        /\ sock[h].state = "connected" /\ sock[h].port = EntryPort
    BY <1>0, <1>2, SyncedHandles
  <2>2. slot'[n] = h /\ UNCHANGED <<phase, sock, hello>> /\ \A m \in Nodes \ {n} : slot'[m] = slot[m]
    BY <1>0, <1>1, <1>2
  <2>3. SlotsOpen' /\ SlotsPeer'
    BY <1>0, <2>1, <2>2 DEF Slots, SlotsOpen, SlotsPeer
  <2>4. CallsFresh' /\ \A c \in Callers : InCall(c)' /\ slot'[n] = Sock(c)' => ConnectedThrough(c)'
    BY <2>1, <2>2 DEF Slots, CallsFresh, InCall, ConnectedThrough, Sock
  <2>5. QED BY <1>0, <2>2, <2>3, <2>4 DEF Slots, InCall, ConnectedThrough, Sock
<1>3. CASE h = slot[n]
  <2>0. UNCHANGED slot
    BY <1>0, <1>1, <1>3
  <2>1. CASE UNCHANGED <<phase, sock, hello>>
    BY <1>0, <2>0, <2>1 DEF Slots, SlotsOpen, SlotsPeer, CallsFresh, InCall, ConnectedThrough, Sock
  <2>2. ASSUME NEW at \in {"send", "failed"}, UNCHANGED sock, phase' = [phase EXCEPT ![n] = at],
               \/ UNCHANGED hello
               \/ sock[h].state = "connected" /\ hello' = [hello EXCEPT ![n] = Peer(h)]
        PROVE  Slots'
    <3>1. \A m \in Nodes : phase'[m] = "connect" => phase[m] = "connect"
      BY <1>0, <2>2
    <3>2. sock[h].port = Leg[n] \/ (override /\ sock[h].port = EntryPort)
      BY <1>0, <1>3 DEF Slots, SlotsPeer
    <3>3. sock[h].state = "connected" => Peer(h) = sock[h].port
      BY <1>0, <1>3, LegAssumption DEF Peer
    <3>4. \A m \in Nodes : hello'[m] \in {0, Leg[m]} \/ (override' /\ hello'[m] = EntryPort)
      BY <1>0, <2>2, <3>2, <3>3 DEF Slots
    <3>5. SlotsPeer' /\ SlotsOpen' /\ CallsFresh'
      BY <1>0, <2>0, <2>2, <3>1 DEF Slots, SlotsOpen, SlotsPeer, CallsFresh, InCall, ConnectedThrough, Sock
    <3>6. QED BY <2>0, <3>4, <3>5 DEF Slots, InCall, ConnectedThrough, Sock
  <2>3. CASE TcpConnect(n) /\ UNCHANGED hello
    BY <1>0, <2>0, <2>3, TcpConnectSlots
  <2>4. QED BY <1>1, <1>3, <2>1, <2>2, <2>3
<1>4. QED BY <1>2, <1>3

LEMMA SlotsKept ==
  ASSUME PTypeOK, Table, Slots, [PNext]_pvars, orphaned' = {}
  PROVE  Slots'
<1>0. /\ sock \in [Handles -> Sockets] /\ slot \in [Nodes -> Handles \cup {NoHandle}]
      /\ \A n \in Nodes : phase[n] # "idle" => slot[n] \in Handles
      /\ \A c \in Callers : InCall(c) => Sock(c) \in Handles
      /\ \A c \in Callers : InCall(c) /\ ~ConnectedThrough(c) =>
           sock[Sock(c)].state = "fresh" /\ \A n \in Nodes : slot[n] # Sock(c)
      /\ CallsApart /\ CallsApart'
  <2>1. CallsApart /\ CallsApart'
    BY ApartKept DEF Slots
  <2>2. QED BY <2>1 DEF PTypeOK, TypeOK, Sockets, Slots, CallsFresh
<1>1. CASE UNCHANGED pvars
  BY <1>0, <1>1 DEF pvars, vars, Slots, SlotsOpen, SlotsPeer, CallsFresh, InCall, ConnectedThrough, Sock
<1>2. ASSUME NEW c \in Callers, OpenSocket(c) \/ CallStep(c) PROVE Slots'
  BY <1>0, <1>2, OpenSocketSlots, CallStepSlots
<1>3. ASSUME NEW h \in Handles, NEW port \in Ports, Connect3(h, port) PROVE Slots'
  <2>1. /\ UNCHANGED <<override, slot, phase, hello, call>> /\ sock[h].state = "fresh"
        /\ NotInCall(h)
        /\ \/ UNCHANGED sock
           \/ \E state \in {"connecting", "connected"} :
                sock' = [sock EXCEPT ![h] = [state |-> state, port |-> port]]
    BY <1>3 DEF Connect3, KernelConnect
  <2>2. \A k \in Handles : (k # h => sock'[k] = sock[k])
                           /\ (sock[k].state # "free" => sock'[k].state # "free")
    BY <1>0, <2>1
  <2>3. SlotsOpen'
    BY <1>0, <2>1, <2>2 DEF Slots, SlotsOpen
  <2>4. \A n \in Nodes : phase[n] = "connect" => slot[n] # h
    BY <2>1, LegAssumption DEF Slots, SlotsPeer, Table, FreshHasNoPeer, TrackPorts, EntryPort,
                               GamePort, ProbePort
  <2>5. SlotsPeer'
    BY <1>0, <2>1, <2>2, <2>4 DEF Slots, SlotsPeer
  <2>6. CallsFresh'
    BY <1>0, <2>1, <2>2 DEF CallsFresh, NotInCall, InCall, ConnectedThrough, Sock
  <2>7. QED BY <1>0, <2>1, <2>3, <2>5, <2>6 DEF Slots, InCall, ConnectedThrough, Sock
<1>4. ASSUME NEW h \in Handles, MayClose(h), Close(h), UNCHANGED call PROVE Slots'
  <2>1. \A n \in Nodes : slot[n] # h
    BY <1>4 DEF Close
  <2>2. \A k \in Handles \ {h} : sock'[k] = sock[k]
    BY <1>0, <1>4 DEF Close
  <2>3. \A c \in Callers : InCall(c)' /\ ~ConnectedThrough(c)' =>
          sock'[Sock(c)'].state = "fresh" /\ \A n \in Nodes : slot[n] # Sock(c)'
    BY <1>0, <1>4, <2>1, <2>2 DEF MayClose, NotInCall, InCall, ConnectedThrough, Sock
  <2>4. QED BY <1>0, <1>4, <2>1, <2>2, <2>3, SlotsUntouched DEF Close
<1>5. ASSUME NEW n \in Nodes, Connect(n), UNCHANGED call PROVE Slots'
  <2>1. slot[n] \in Handles
    BY <1>0, <1>5 DEF Connect
  <2>2. QED BY <1>5, <2>1, TcpConnectSlots, <1>0 DEF Connect
<1>6. ASSUME NEW n \in Nodes, RunState1(n), UNCHANGED call PROVE Slots'
  BY <1>0, <1>6, RunState1Slots
<1>7. ASSUME NEW n \in Nodes, NEW h \in Handles, Open(n, h), UNCHANGED call PROVE Slots'
  <2>1. \A m \in Nodes : slot[m] # h
    BY <1>7 DEF Open, Slots, SlotsOpen
  <2>2. \A k \in Handles \ {h} : sock'[k] = sock[k]
    BY <1>0, <1>7 DEF Open
  <2>3. /\ slot'[n] = h /\ \A m \in Nodes \ {n} : slot'[m] = slot[m]
        /\ sock'[h].state = "fresh" /\ phase[n] = "idle" /\ slot[n] \notin Handles
        /\ UNCHANGED <<override, phase, hello>>
    BY <1>0, <1>7, LegAssumption DEF Open
  <2>4. \A c \in Callers : InCall(c) => Sock(c) # h
    BY <1>0, <1>7 DEF Open, Slots, CallsApart
  <2>5. SlotsOpen' /\ SlotsPeer'
    BY <1>0, <2>1, <2>2, <2>3 DEF Slots, SlotsOpen, SlotsPeer
  <2>6. CallsFresh'
    BY <1>0, <1>7, <2>2, <2>4 DEF CallsFresh, InCall, ConnectedThrough, Sock
  <2>7. QED BY <1>0, <1>7, <2>3, <2>4, <2>5, <2>6 DEF Slots, InCall, ConnectedThrough, Sock
<1>8. ASSUME NEW h \in Handles, NEW port \in Ports, SysConnect(h, port), UNCHANGED call
      PROVE  Slots'
  <2>1. \A n \in Nodes : slot[n] # h
    BY <1>8 DEF SysConnect, Slots, SlotsOpen
  <2>2. \A k \in Handles \ {h} : sock'[k] = sock[k]
    BY <1>0, <1>8 DEF SysConnect
  <2>3. \A c \in Callers : InCall(c) => Sock(c) # h
    BY <1>0, <1>8 DEF SysConnect, Slots, CallsApart
  <2>4. \A c \in Callers : InCall(c)' /\ ~ConnectedThrough(c)' =>
          sock'[Sock(c)'].state = "fresh" /\ \A n \in Nodes : slot[n] # Sock(c)'
    BY <1>0, <1>8, <2>2, <2>3 DEF InCall, ConnectedThrough, Sock
  <2>5. QED BY <1>0, <1>8, <2>1, <2>2, <2>4, SlotsUntouched DEF SysConnect
<1>9. ASSUME NEW h \in Handles, Resolve(h) \/ Reset(h), UNCHANGED call PROVE Slots'
  <2>1. /\ UNCHANGED <<override, slot, phase, hello>>
        /\ \/ /\ sock[h].state = "connecting"
              /\ \E answer \in {"connected", "refused"} :
                   sock' = [sock EXCEPT ![h].state = answer]
           \/ /\ sock[h].state = "connected"
              /\ sock' = [sock EXCEPT ![h].state = "reset"]
    BY <1>9 DEF Resolve, Reset
  <2>2. \A k \in Handles :
          /\ sock'[k].port = sock[k].port
          /\ k # h => sock'[k] = sock[k]
          /\ sock[k].state # "free" => sock'[k].state # "free"
          /\ sock[k].state = "fresh" => sock'[k].state = "fresh"
          /\ sock[k].state \in {"connected", "reset"} => sock'[k].state \in {"connected", "reset"}
    BY <1>0, <2>1 DEF Sockets
  <2>3. SlotsOpen'
    BY <1>0, <2>1, <2>2 DEF Slots, SlotsOpen
  <2>4. SlotsPeer'
    BY <1>0, <2>1, <2>2 DEF Slots, SlotsPeer
  <2>5. CallsFresh'
    BY <1>0, <1>9, <2>2 DEF CallsFresh, InCall, ConnectedThrough, Sock
  <2>6. QED BY <1>0, <1>9, <2>1, <2>3, <2>4, <2>5 DEF Slots, InCall, ConnectedThrough, Sock
<1>10. ASSUME NEW h \in Handles, NEW port \in Ports, SysTrack(h, port), UNCHANGED call
       PROVE  Slots'
  <2>1. \A c \in Callers : InCall(c)' /\ ~ConnectedThrough(c)' =>
          sock'[Sock(c)'].state = "fresh" /\ \A n \in Nodes : slot[n] # Sock(c)'
    BY <1>0, <1>10 DEF SysTrack, InCall, ConnectedThrough, Sock
  <2>2. QED BY <1>0, <1>10, <2>1, SlotsUntouched DEF SysTrack
<1>11. QED
  BY <1>1, <1>2, <1>3, <1>4, <1>5, <1>6, <1>7, <1>8, <1>9, <1>10 DEF PNext

-----------------------------------------------------------------------------
(* What a return of w_connect_2 leaves *)

HandsOver(c) ==
  IF call'[c].out # NoHandle
    THEN call'[c].out = Sock(c) /\ (orphaned = {} => sock'[Sock(c)].state # "free")
    ELSE sock'[Sock(c)].state = "free" \/ call'[c].hooked

LEMMA CallHandsOver ==
  ASSUME PTypeOK, orphaned = {} => CallsApart, NEW c \in Callers, CallStep(c), call'[c].at = "returned"
  PROVE  HandsOver(c)
<1>0. /\ call \in [Callers -> Calls] /\ sock \in [Handles -> Sockets]
      /\ Sock(c) \in Handles /\ Sock(c) # NoHandle
      /\ orphaned = {} => sock[Sock(c)].state # "free"
  BY CallStepIs, LegAssumption DEF PTypeOK, TypeOK, CallOK, Calls, Sockets, CallsApart
<1>1. ASSUME NEW out, NEW hooked \in BOOLEAN, Return(c, out, hooked)
      PROVE  call'[c].out = out /\ call'[c].hooked = hooked
  BY <1>0, <1>1 DEF Return, Returned
<1>2. CASE Refuse(c)
  <2>1. CASE Return(c, NoHandle, FALSE) /\ sock' = [sock EXCEPT ![Sock(c)] = Free]
    BY <1>0, <1>1, <2>1 DEF HandsOver, Free
  <2>2. CASE Return(c, NoHandle, TRUE)
    BY <1>1, <2>2 DEF HandsOver
  <2>3. QED BY <1>2, <2>1, <2>2 DEF Refuse
<1>3. CASE Return(c, Sock(c), FALSE) /\ UNCHANGED sock
  BY <1>0, <1>1, <1>3 DEF HandsOver
<1>4. CASE Forward(c) \/ TrackSocket(c)
  BY <1>4, CallStepIs, ForwardTypes, TrackSocketTypes DEF InCall
<1>5. ASSUME NEW at \in {"callback", "bind", "connect"},
             NEW stream \in {call[c].stream} \cup BOOLEAN, GoOn(c, at, stream)
      PROVE  FALSE
  BY <1>0, <1>5 DEF GoOn, Calls
<1>6. QED BY <1>2, <1>3, <1>4, <1>5, CallStepIs

(* No step but its own ends a call. *)
LEMMA ReturnHandsOver ==
  ASSUME PTypeOK, orphaned = {} => CallsApart, [PNext]_pvars,
         NEW c \in Callers, InCall(c), call'[c].at = "returned"
  PROVE  HandsOver(c)
<1>0. call \in [Callers -> Calls]
  BY DEF PTypeOK, CallOK, Calls
<1>1. UNCHANGED call => FALSE
  BY DEF InCall
<1>2. ASSUME NEW d \in Callers, OpenSocket(d) PROVE FALSE
  <2>1. ~InCall(d) /\ d # c
    BY <1>2 DEF OpenSocket
  <2>2. call'[c] = call[c]
    BY <1>0, <1>2, <2>1 DEF OpenSocket, Return
  <2>3. QED BY <2>2 DEF InCall
<1>3. ASSUME NEW d \in Callers, CallStep(d) PROVE HandsOver(c)
  <2>1. d = c
    BY <1>3, CallStepTypes DEF InCall
  <2>2. QED BY <1>3, <2>1, CallHandsOver
<1>4. QED BY <1>1, <1>2, <1>3 DEF PNext, Connect3, pvars

-----------------------------------------------------------------------------
(* The invariant *)

LEMMA InitInv == PInit => IInv
<1>. SUFFICES ASSUME PInit PROVE IInv
  OBVIOUS
<1>1. \A c \in Callers : ~InCall(c)
  BY DEF PInit, Returned, InCall
<1>2. CallOK
  BY DEF PInit, Returned, CallOK
<1>3. TypeOK
  BY LegAssumption DEF PInit, Init, TypeOK, Free, States
<1>4. PTypeOK /\ Table
  BY <1>1, <1>2, <1>3
  DEF PTypeOK, Table, FreshHasNoPeer, LegsTracked, NodesTracked, PInit, Init, Free
<1>5. Slots
  BY <1>1, LegAssumption DEF Slots, CallsApart, SlotsOpen, CallsFresh, SlotsPeer, PInit, Init
<1>6. QED BY <1>4, <1>5, SlotsInvIs DEF IInv, TableInv, Table

LEMMA InvKept == IInv /\ [PNext]_pvars => IInv'
<1>. SUFFICES ASSUME IInv, [PNext]_pvars PROVE IInv'
  OBVIOUS
<1>1. PTypeOK /\ Table /\ (orphaned = {} => Slots)
  BY SlotsInvIs DEF IInv, TableInv, Table
<1>2. PTypeOK' /\ Table'
  BY <1>1, TypesKept, TableKept
<1>3. ASSUME orphaned' = {} PROVE Slots'
  BY <1>1, <1>3, OrphanedGrows, SlotsKept
<1>4. SlotsInv'
  BY <1>3 DEF SlotsInv, Slots, CloseableIsPrivate, HelloPeer
<1>5. QED BY <1>2, <1>4 DEF IInv, TableInv, Table

LEMMA Inv == PSpec => []IInv
  BY InitInv, InvKept, PTL DEF PSpec

(* The tables keep their types, and a call that has not returned has a     *)
(* socket, whatever the nodes, the kernel and the other callers do.        *)
THEOREM TypeCorrect == PSpec => []PTypeOK
<1>1. IInv => PTypeOK
  BY DEF IInv, TableInv
<1>2. QED BY <1>1, Inv, PTL

(* Every socket that has one of the three servers as its peer is in the    *)
(* table under that port, or the thread that connected it is between the   *)
(* connect and the entry: but for that moment pick_tracked_entry_socket    *)
(* misses no ENTRY socket because of the way it was connected.             *)
THEOREM LegsAlwaysTracked == PSpec => []LegsTracked
<1>1. IInv => LegsTracked
  BY DEF IInv, TableInv
<1>2. QED BY <1>1, Inv, PTL

(* A node that has begun to connect has its handle in the table: the entry *)
(* that log_chunk makes for a socket it has not seen yet is never made for *)
(* one of the nodes.                                                       *)
THEOREM NodesAlwaysTracked == PSpec => []NodesTracked
<1>1. IInv => NodesTracked
  BY DEF IInv, TableInv
<1>2. QED BY <1>1, Inv, PTL

(* While w_connect_2 may still close a socket no node holds it, although   *)
(* the table may know its number from before: poll puts only connected     *)
(* sockets into a slot.  A node may get it once connect has answered, and  *)
(* then the call hands it out.                                             *)
THEOREM NotSharedInCall == PSpec => []CloseableIsPrivate
<1>1. IInv => CloseableIsPrivate
  BY DEF IInv, SlotsInv, CloseableIsPrivate
<1>2. QED BY <1>1, Inv, PTL

(* The first slice a node sends goes to its own server, or to ENTRY with   *)
(* the override active, as long as no socket was closed under a node.      *)
THEOREM HelloReachesPeer == PSpec => []HelloPeer
<1>1. IInv => HelloPeer
  BY DEF IInv, SlotsInv, HelloPeer
<1>2. QED BY <1>1, Inv, PTL

(* w_connect_2: whatever its steps answer and whatever the nodes, the      *)
(* kernel and the other callers do, every return either hands out the      *)
(* call's socket, open as long as no node was closed that poll had given   *)
(* a socket to, or leaves *out_socket invalid with the socket closed or    *)
(* left to the close hook.                                                 *)
THEOREM HandedOverAlways == PSpec => HandedOver
<1>1. ASSUME IInv, [PNext]_pvars, NEW c \in Callers, InCall(c), call'[c].at = "returned"
      PROVE  HandsOver(c)
  BY <1>1, ReturnHandsOver DEF IInv, TableInv, SlotsInv
<1>2. IInv /\ [PNext]_pvars =>
        [\A c \in Callers : InCall(c) /\ call'[c].at = "returned" =>
           IF call'[c].out # NoHandle
             THEN call'[c].out = Sock(c) /\ (orphaned = {} => sock'[Sock(c)].state # "free")
             ELSE sock'[Sock(c)].state = "free" \/ call'[c].hooked]_pvars
  BY <1>1 DEF HandsOver
<1>3. QED BY <1>2, Inv, PTL DEF PSpec, HandedOver
=============================================================================
