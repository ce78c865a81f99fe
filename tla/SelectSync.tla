----------------------------- MODULE SelectSync -----------------------------
(***************************************************************************)
(* Which kernel socket a ProudNet leg talks on while it connects:          *)
(*   - the table of connect-tracked sockets and sync_fast_socket_handle,   *)
(*     src/src/game/net/socket_trace.cpp;                                  *)
(*   - CSelectContext::poll, src/src/ProudNet/SelectContext.cpp, as called *)
(*     by ConnectionNode::run_state_1 after a select on the old handle;    *)
(*   - the places that fill the table: TCPSocket::Connect and the connect  *)
(*     hook of src/src/hooks/system/ws32.cpp.                              *)
(* Handles are a small set: the kernel hands a closed one out again, and   *)
(* nothing ever removes it from the table.                                 *)
(***************************************************************************)
EXTENDS Naturals, FiniteSets

CONSTANTS Nodes,       \* connection nodes
          Leg,         \* [Nodes -> TrackPorts]: the port a node connects to
          Handles,     \* kernel socket handles
          NoHandle,    \* INVALID_SOCKET
          OtherPort,   \* a port of some other server
          MaxOutside   \* bound on connects outside the nodes, resets and closes

EntryPort == 7000
GamePort  == 27380
ProbePort == 20009
TrackPorts == {EntryPort, GamePort, ProbePort}
Ports == TrackPorts \cup {OtherPort}

ASSUME LegAssumption ==
  /\ Leg \in [Nodes -> TrackPorts]
  /\ NoHandle \notin Handles
  /\ OtherPort \in Nat \ ({0} \cup TrackPorts)
  /\ MaxOutside \in Nat

VARIABLES
  override,   \* ServerOverride::override_active(), fixed by the configuration
  slot,       \* CFastSocket+300 of each node
  phase,      \* idle (no connect yet), connect (state 1), send (2), failed (5)
  sock,       \* the kernel: state and peer port of each handle
  tracked,    \* g_sockets_by_port
  begun,      \* connects the kernel has begun and the table does not have yet
  hello,      \* peer the first slice of the node went to, 0 before
  orphaned,   \* nodes whose handle was closed under them
  outside     \* events so far that MaxOutside bounds

vars == <<override, slot, phase, sock, tracked, begun, hello, orphaned, outside>>

Free == [state |-> "free", port |-> 0]

Init ==
  /\ override \in BOOLEAN
  /\ slot = [n \in Nodes |-> NoHandle]
  /\ phase = [n \in Nodes |-> "idle"]
  /\ sock = [h \in Handles |-> Free]
  /\ tracked = [p \in TrackPorts |-> {}]
  /\ begun = {}
  /\ hello = [n \in Nodes |-> 0]
  /\ orphaned = {}
  /\ outside = 0

-----------------------------------------------------------------------------
(* peer_port: 0 unless getpeername knows the peer *)
Peer(h) == IF h # NoHandle /\ sock[h].state = "connected" THEN sock[h].port ELSE 0

(* track_connect *)
Track(h, port) ==
  tracked' = IF port \in TrackPorts /\ h # NoHandle
             THEN [tracked EXCEPT ![port] = @ \cup {h}] ELSE tracked

(* TCPSocket::Connect on the node's own handle.  The handle is tracked     *)
(* before the name is resolved and whatever connect answers; until connect *)
(* is called it has no peer and poll cannot choose it, so the two are one  *)
(* step.                                                                   *)
TcpConnect(n) ==
  /\ Track(slot[n], Leg[n])
  /\ \/ /\ sock[slot[n]].state \in {"fresh", "refused"}
        /\ sock' = [sock EXCEPT ![slot[n]] = [state |-> "connecting", port |-> Leg[n]]]
        /\ phase' = [phase EXCEPT ![n] = "connect"]
     \/ phase' = [phase EXCEPT ![n] = "failed"] /\ UNCHANGED sock

(* The game gives the node a socket and connects it. *)
Open(n, h) ==
  /\ phase[n] = "idle" /\ slot[n] = NoHandle /\ sock[h].state = "free"
  /\ slot' = [slot EXCEPT ![n] = h]
  /\ sock' = [sock EXCEPT ![h] = [state |-> "fresh", port |-> 0]]
  /\ UNCHANGED <<override, phase, tracked, begun, hello, orphaned, outside>>

Connect(n) ==
  /\ phase[n] = "idle" /\ slot[n] # NoHandle
  /\ TcpConnect(n)
  /\ UNCHANGED <<override, slot, begun, hello, orphaned, outside>>

(* What the bound MaxOutside counts. *)
Outside == outside < MaxOutside /\ outside' = outside + 1

(* Mutant of Begin: every port is tracked. *)
BeginEvery(h, port) == begun' = begun \cup {<<h, port>>}

(* What connect_with_remap of ws32.cpp has yet to track when the kernel    *)
(* has answered.                                                           *)
Begin(h, port) == begun' = IF port \in TrackPorts THEN begun \cup {<<h, port>>} ELSE begun

(* connect_with_remap, for the sockets the game opens outside the nodes:   *)
(* the kernel's connect,                                                   *)
SysConnect(h, port) ==
  /\ Outside
  /\ sock[h].state = "free"
  /\ sock' = [sock EXCEPT ![h] = [state |-> "connecting", port |-> port]]
  /\ Begin(h, port)
  /\ UNCHANGED <<override, slot, phase, tracked, hello, orphaned>>

(* and only then the table.  The handle may be connected, polled past,     *)
(* closed or another socket by now.                                        *)
SysTrack(h, port) ==
  /\ <<h, port>> \in begun
  /\ Track(h, port)
  /\ begun' = begun \ {<<h, port>>}
  /\ UNCHANGED <<override, slot, phase, sock, hello, orphaned, outside>>

-----------------------------------------------------------------------------
(* Mutant of Candidates: any tracked handle, without asking for its peer. *)
CandidatesStale == tracked[EntryPort]

(* pick_tracked_entry_socket: the iteration order of the set is unknown. *)
Candidates == {h \in tracked[EntryPort] : Peer(h) = EntryPort}

(* A slot whose peer is known to be one of the three legs is left alone. *)
Keeps(h) == Peer(h) \in {GamePort, ProbePort, EntryPort}

(* Mutant of Synced: poll forgets to ask whether the override is active. *)
SyncedAlways(n) ==
  IF Keeps(slot[n]) \/ Candidates = {} THEN {slot[n]} ELSE Candidates

(* The slot after poll has called sync_fast_socket_handle. *)
Synced(n) ==
  IF ~override \/ Keeps(slot[n]) \/ Candidates = {} THEN {slot[n]} ELSE Candidates

(* select answers for the handle the slot held before poll; its failure on *)
(* a closed handle is ignored and leaves the sets filled in.               *)
Writable(h) == sock[h].state \in {"connected", "free"}
Excepted(h) == sock[h].state \in {"refused", "reset"}

(* run_state_1.  After an overwrite the new handle is in neither set, so   *)
(* the node uses it on the next tick.                                      *)
RunState1(n) ==
  /\ phase[n] = "connect"
  /\ \E h \in Synced(n) :
       /\ slot' = [slot EXCEPT ![n] = h]
       /\ \/ /\ h # slot[n] \/ (~Writable(h) /\ ~Excepted(h))
             /\ UNCHANGED <<phase, sock, tracked, hello>>
          \/ /\ h = slot[n] /\ sock[h].state = "connected"
             /\ phase' = [phase EXCEPT ![n] = "send"]
             /\ hello' = [hello EXCEPT ![n] = Peer(h)]
             /\ UNCHANGED <<sock, tracked>>
          \/ /\ h = slot[n] /\ Writable(h)      \* upnp mode, string or WSASend
             /\ phase' = [phase EXCEPT ![n] = "failed"]
             /\ UNCHANGED <<sock, tracked, hello>>
          \/ /\ h = slot[n] /\ Excepted(h)
             /\ TcpConnect(n)
             /\ UNCHANGED hello
  /\ UNCHANGED <<override, begun, orphaned, outside>>

-----------------------------------------------------------------------------
(* The kernel and the game *)

Resolve(h) ==
  /\ sock[h].state = "connecting"
  /\ \E answer \in {"connected", "refused"} : sock' = [sock EXCEPT ![h].state = answer]
  /\ UNCHANGED <<override, slot, phase, tracked, begun, hello, orphaned, outside>>

Reset(h) ==
  /\ Outside
  /\ sock[h].state = "connected"
  /\ sock' = [sock EXCEPT ![h].state = "reset"]
  /\ UNCHANGED <<override, slot, phase, tracked, begun, hello, orphaned>>

(* closesocket: the slots and the table keep the number. *)
Close(h) ==
  /\ Outside
  /\ sock[h].state # "free"
  /\ sock' = [sock EXCEPT ![h] = Free]
  /\ orphaned' = orphaned \cup {n \in Nodes : slot[n] = h}
  /\ UNCHANGED <<override, slot, phase, tracked, begun, hello>>

Next == \/ \E n \in Nodes : Connect(n) \/ RunState1(n)
        \/ \E n \in Nodes, h \in Handles : Open(n, h)
        \/ \E h \in Handles, port \in Ports : SysConnect(h, port) \/ SysTrack(h, port)
        \/ \E h \in Handles : Resolve(h) \/ Reset(h) \/ Close(h)

Spec == Init /\ [][Next]_vars

-----------------------------------------------------------------------------
States == {"free", "fresh", "connecting", "connected", "refused", "reset"}

(* The tables keep their types; a node past its connect has a handle.      *)
TypeOK ==
  /\ override \in BOOLEAN
  /\ slot \in [Nodes -> Handles \cup {NoHandle}]
  /\ phase \in [Nodes -> {"idle", "connect", "send", "failed"}]
  /\ sock \in [Handles -> [state : States, port : Ports \cup {0}]]
  /\ tracked \in [TrackPorts -> SUBSET Handles]
  /\ begun \subseteq Handles \X TrackPorts
  /\ hello \in [Nodes -> Ports \cup {0}]
  /\ orphaned \subseteq Nodes
  /\ outside \in 0..MaxOutside
  /\ \A n \in Nodes : phase[n] # "idle" => slot[n] \in Handles

(* As long as no handle was closed under a node (and handed to another     *)
(* socket), every first slice reaches the node's own server, or ENTRY and  *)
(* then only with the override active.                                     *)
HelloPeer ==
  orphaned = {} => \A n \in Nodes :
    hello[n] \in {0, Leg[n]} \/ (override /\ hello[n] = EntryPort)

(* docs/proudnet/protocol.md: "pn_select_sync must not overwrite GAME      *)
(* socket with ENTRY socket after :27380 connect", and socket_trace.hpp:   *)
(* "never stomp :27380".                                                   *)
GameSlotKept ==
  [][\A n \in Nodes :
       /\ phase[n] = "connect" /\ Leg[n] = GamePort
       /\ sock[slot[n]].port = GamePort
       /\ sock[slot[n]].state \in {"connecting", "connected"}
       => slot'[n] = slot[n]]_vars
=============================================================================
