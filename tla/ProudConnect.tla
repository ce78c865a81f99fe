---------------------------- MODULE ProudConnect ----------------------------
(***************************************************************************)
(* w_connect_2, src/src/game/net/proud_connect.cpp, on top of SelectSync:  *)
(* it opens a socket, reads the peer's address, asks a callback, binds and *)
(* connects; each step may refuse, and then the socket is closed and not   *)
(* handed out.  Meanwhile the nodes poll, the kernel answers and the game  *)
(* closes other handles, whose numbers are used again.                     *)
(***************************************************************************)
EXTENDS SelectSync

CONSTANT Callers     \* threads inside w_connect_2

VARIABLE call   \* of each caller: where the call is, its socket, *out_socket

pvars == <<vars, call>>

(* stream: ctx+116 is SOCK_STREAM and no callback asked to skip the        *)
(* connect.  port: what the call is about to track.  hooked: the socket    *)
(* was left to the close hook at ctx+40.                                   *)
Returned(out, hooked) == [at |-> "returned", sock |-> NoHandle, out |-> out,
                          stream |-> FALSE, port |-> 0, hooked |-> hooked]
Opened(h, stream) == [at |-> "resolve", sock |-> h, out |-> NoHandle,
                      stream |-> stream, port |-> 0, hooked |-> FALSE]

PInit == Init /\ call = [c \in Callers |-> Returned(NoHandle, FALSE)]

Sock(c) == call[c].sock
InCall(c) == call[c].at # "returned"
Return(c, out, hooked) == call' = [call EXCEPT ![c] = Returned(out, hooked)]
NotInCall(h) == \A c \in Callers : InCall(c) => Sock(c) # h

(* Once connect is under way nothing in w_connect_2 closes the socket.     *)
ConnectedThrough(c) == call[c].at \in {"track", "through"}

-----------------------------------------------------------------------------
(* open_socket.  Any type but SOCK_DGRAM is given protocol 17: unless the  *)
(* game has a factory of its own the kernel refuses a stream.              *)
Opens(stream, factory) == stream => factory

OpenSocket(c) ==
  /\ Outside
  /\ ~InCall(c)
  /\ \/ Return(c, NoHandle, FALSE) /\ UNCHANGED sock          \* INVALID_SOCKET
     \/ \E h \in Handles, stream, factory \in BOOLEAN :
          /\ Opens(stream, factory)
          /\ sock[h].state = "free"
          /\ sock' = [sock EXCEPT ![h] = [state |-> "fresh", port |-> 0]]
          /\ call' = [call EXCEPT ![c] = Opened(h, stream)]
  /\ UNCHANGED <<override, slot, phase, tracked, begun, hello, orphaned>>

(* Mutant of Refuse: the failing step forgets to close. *)
RefuseOpen(c) == Return(c, NoHandle, FALSE) /\ UNCHANGED <<sock, orphaned>>

(* An early return: 0, 42 or 45, *out_socket stays INVALID_SOCKET, and     *)
(* close_socket_ctx closes the socket.  A close hook, unless ctx+308 and   *)
(* +316 except this socket, is called instead with its client pointer      *)
(* only: what it closes, if anything, it must know by itself.              *)
Refuse(c) ==
  \/ /\ Return(c, NoHandle, FALSE)
     /\ sock' = [sock EXCEPT ![Sock(c)] = Free]
     /\ orphaned' = orphaned \cup {n \in Nodes : slot[n] = Sock(c)}
  \/ Return(c, NoHandle, TRUE) /\ UNCHANGED <<sock, orphaned>>

GoOn(c, at, stream) ==
  /\ call' = [call EXCEPT ![c].at = at, ![c].stream = stream]
  /\ UNCHANGED <<sock, orphaned>>

(* resolve_sockaddr: only AF_INET has a name *)
ResolvePeer(c) ==
  /\ call[c].at = "resolve"
  /\ Refuse(c) \/ GoOn(c, "callback", call[c].stream)
  /\ UNCHANGED <<override, slot, phase, tracked, begun, hello, outside>>

(* the callback at mgr+364: 0 or none, 2 for no connect, anything else *)
AskCallback(c) ==
  /\ call[c].at = "callback"
  /\ \/ Refuse(c)
     \/ \E skip \in BOOLEAN : GoOn(c, "bind", call[c].stream /\ ~skip)
  /\ UNCHANGED <<override, slot, phase, tracked, begun, hello, outside>>

(* w_bind_3: nothing to bind to, or bound to one of the ports it tries; no *)
(* such interface or address, or no port free.                             *)
Bind(c) ==
  /\ call[c].at = "bind"
  /\ Refuse(c) \/ GoOn(c, "connect", call[c].stream)
  /\ UNCHANGED <<override, slot, phase, tracked, begun, hello, outside>>

(* Mutant of Tracks: a connect that would block is not tracked. *)
TracksDone(port, answer) == port \in TrackPorts /\ answer = "done"

(* connect_with_remap of ws32.cpp tracks what is connected or would block  *)
Tracks(port, answer) == port \in TrackPorts /\ answer \in {"done", "blocks"}

(* connect_is_pending: also WSAEINPROGRESS, a connect that was not begun   *)
HandsOut(answer) == answer \in {"done", "blocks", "inprogress"}
Answers == {"done", "blocks", "inprogress", "error"}

(* What the kernel says to connect, and what it makes of the socket *)
KernelConnect(h, port, answer) ==
  /\ sock[h].state = "fresh"
  /\ \/ answer = "blocks" /\ sock' = [sock EXCEPT ![h] = [state |-> "connecting", port |-> port]]
     \/ answer = "done" /\ sock' = [sock EXCEPT ![h] = [state |-> "connected", port |-> port]]
     \/ answer = "inprogress" /\ UNCHANGED sock

(* connect_forward, when the socket is handed out whatever the answer is *)
Forward(c) ==
  \E answer \in {a \in Answers : HandsOut(a)}, port \in Ports :
    /\ KernelConnect(Sock(c), port, answer)
    /\ call' = [call EXCEPT ![c] =
         IF Tracks(port, answer) THEN [@ EXCEPT !.at = "track", !.port = port]
                                 ELSE [@ EXCEPT !.at = "through"]]
    /\ UNCHANGED orphaned

(* Nothing to connect: handed out at once.  A connect that fails leaves    *)
(* the socket as it was, so closing it is part of the step.                *)
ConnectSocket(c) ==
  /\ call[c].at = "connect"
  /\ \/ ~call[c].stream /\ Return(c, Sock(c), FALSE) /\ UNCHANGED <<sock, orphaned>>
     \/ call[c].stream /\ (Forward(c) \/ Refuse(c))
  /\ UNCHANGED <<override, slot, phase, tracked, begun, hello, outside>>

(* track_connect, and after it the return with *out_socket: polls of the   *)
(* nodes and answers of the kernel come before either.                     *)
TrackSocket(c) ==
  /\ call[c].at = "track"
  /\ Track(Sock(c), call[c].port)
  /\ call' = [call EXCEPT ![c].at = "through", ![c].port = 0]
  /\ UNCHANGED <<override, slot, phase, sock, begun, hello, orphaned, outside>>

HandOut(c) ==
  /\ call[c].at = "through"
  /\ Return(c, Sock(c), FALSE)
  /\ UNCHANGED vars

(* w_connect_3, on a socket the game has opened: the same call, of which   *)
(* the caller learns only whether it is through.                           *)
Connect3(h, port) ==
  /\ Outside
  /\ NotInCall(h)
  /\ \E answer \in Answers \ {"error"} :
       /\ KernelConnect(h, port, answer)
       /\ IF Tracks(port, answer) THEN Begin(h, port) ELSE UNCHANGED begun
  /\ UNCHANGED <<override, slot, phase, tracked, hello, orphaned, call>>

CallStep(c) == \/ ResolvePeer(c) \/ AskCallback(c) \/ Bind(c)
               \/ ConnectSocket(c) \/ TrackSocket(c) \/ HandOut(c)

(* The game does not close a socket a call is still working on, unless     *)
(* poll has given it to a node, whose socket it then takes it for.         *)
MayClose(h) == NotInCall(h) \/ \E n \in Nodes : slot[n] = h

PNext == \/ \E c \in Callers : OpenSocket(c) \/ CallStep(c)
         \/ \E h \in Handles, port \in Ports : Connect3(h, port)
         \/ \E h \in Handles : MayClose(h) /\ Close(h) /\ UNCHANGED call
         \/ /\ \/ \E n \in Nodes : Connect(n) \/ RunState1(n)
               \/ \E n \in Nodes, h \in Handles : Open(n, h)
               \/ \E h \in Handles, port \in Ports : SysConnect(h, port) \/ SysTrack(h, port)
               \/ \E h \in Handles : Resolve(h) \/ Reset(h)
            /\ UNCHANGED call

PSpec == PInit /\ [][PNext]_pvars

-----------------------------------------------------------------------------
(* A call has a socket of its own from the first step to the last. *)
CallOK ==
  call \in [Callers -> [at : {"returned", "resolve", "callback", "bind", "connect",
                              "track", "through"},
                        sock : Handles \cup {NoHandle}, out : Handles \cup {NoHandle},
                        stream : BOOLEAN, port : {0} \cup TrackPorts, hooked : BOOLEAN]]

PTypeOK == TypeOK /\ CallOK /\ \A c \in Callers : InCall(c) => Sock(c) \in Handles

(* On every return of w_connect_2 exactly one party has the socket: it is  *)
(* handed out, and open unless a node that got it from poll was closed; or *)
(* it has been closed, unless a close hook was asked to, which is not told *)
(* what to close.                                                          *)
HandedOver ==
  [][\A c \in Callers : InCall(c) /\ call'[c].at = "returned" =>
       IF call'[c].out # NoHandle
         THEN call'[c].out = Sock(c) /\ (orphaned = {} => sock'[Sock(c)].state # "free")
         ELSE sock'[Sock(c)].state = "free" \/ call'[c].hooked]_pvars

(* The table still knows the number of a closed ENTRY socket when          *)
(* w_connect_2 is given it again, and a poll may run between any two steps *)
(* of the call.  As long as a step that refuses can still close the        *)
(* socket, no poll puts it into the slot of a node, whose hello it would   *)
(* get and which the close would leave without a socket.  From the connect *)
(* on a poll may, and the socket is handed out as well.                    *)
CloseableIsPrivate ==
  orphaned = {} => \A c \in Callers, n \in Nodes :
    InCall(c) /\ slot[n] = Sock(c) => ConnectedThrough(c)

(* A thread has connected the socket and is about to enter it. *)
AboutToTrack(h, port) ==
  \/ <<h, port>> \in begun
  \/ \E c \in Callers : call[c].at = "track" /\ Sock(c) = h /\ call[c].port = port

(* Whoever connects, TCPSocket::Connect, the import hook, w_connect_2 or   *)
(* w_connect_3, and however connect answers: a socket that has a leg's     *)
(* server as its peer, or will have, is in the table poll chooses from, or *)
(* the thread that connected it is just about to enter it.                 *)
LegsTracked ==
  \A h \in Handles :
    sock[h].state \in {"connecting", "connected"} /\ sock[h].port \in TrackPorts
      => h \in tracked[sock[h].port] \/ AboutToTrack(h, sock[h].port)
=============================================================================
