---------------------------- MODULE ProcessLayer ----------------------------
(***************************************************************************)
(* ProcessMessageProudNetLayer, src/src/ProudNet/ProcessProudNetLayer.cpp: *)
(* one received message, perhaps wrapped in compressed and encrypted ones, *)
(* is read, dispatched on its MessageType and answered processed or not.   *)
(* A message is the sequence of its types, the envelope first.  The        *)
(* worker's handlers and the two unwrapping functions belong to the game;  *)
(* what they are told is what the layer owes them.                         *)
(***************************************************************************)
EXTENDS Naturals, Sequences, FiniteSets

CONSTANT MaxWraps     \* bound on the wrappers around a message

ASSUME WrapsAssumption == MaxWraps \in Nat

(* MessageType.hpp, in the order of the switch *)
Rmi                == 1
UserMessage        == 2
ConnectNotices     == {3, 4, 6, 8, 9, 10, 11, 13, 15, 17}
ServerHolepunchAck == 19
PeerNotices        == {24, 25, 26, 29}
ServerNotices      == 31..34
GameNotify35       == 35
GameNotify36       == 36
LateNotices        == {40, 41, 49, 50}

(* What dispatch_with_peer_guard or a test of its own keeps from a remote  *)
(* client peer, and what anybody may send                                  *)
Guarded == ConnectNotices \cup PeerNotices \cup {GameNotify35}
Open    == {ServerHolepunchAck, GameNotify36} \cup ServerNotices \cup LateNotices

Noop               == {7, 14, 18, 20, 22, 27, 28, 30, 48}
Wrapper            == {37, 38, 39}
Types              == 0..56
Ignored            == Types \ ({Rmi, UserMessage} \cup Guarded \cup Open \cup Noop \cup Wrapper)

VARIABLES
  nest,      \* the types of the message, the envelope first
  remote,    \* the envelope came from a remote client peer
  frames,    \* activations of the layer, innermost last: the next step, the
             \* read offset, and where the metadata of the message is from
  calls,     \* handlers called: the depth and the type
  live,      \* received messages constructed on the stack, not yet destroyed
  answer     \* of the activation that returned last

vars == <<nest, remote, frames, calls, live, answer>>

(* Mutant of CopiedMetadata: the metadata stay as constructed. *)
NoMetadata(source) == "constructed"

(* copy_received_metadata *)
CopiedMetadata(source) == source

Activation(meta) == [pc |-> "read", offset |-> "start", meta |-> meta]

Init ==
  /\ \E n \in 0..MaxWraps : \E w \in [1..n -> Wrapper], t \in Types \ Wrapper :
       nest = w \o <<t>>
  /\ remote \in BOOLEAN
  /\ frames = <<Activation("envelope")>>
  /\ calls = <<>> /\ live = 0 /\ answer = "none"

-----------------------------------------------------------------------------
depth == Len(frames)
frame == frames[depth]
type  == nest[depth]
At(pc) == depth > 0 /\ frame.pc = pc

Update(f) == frames' = [frames EXCEPT ![depth] = f]
Answer(a) == answer' = a /\ frames' = SubSeq(frames, 1, depth - 1)

(* is_from_remote_client_peer asks the metadata of the message. *)
FromPeer == frame.meta = "envelope" /\ remote

(* Message_Read *)
Read ==
  /\ At("read")
  /\ Update([frame EXCEPT !.pc = "dispatch", !.offset = "body"])
  /\ UNCHANGED <<nest, remote, calls, live, answer>>

ReadFails ==
  /\ At("read")
  /\ Update([frame EXCEPT !.pc = "rewind", !.offset = "body"])
  /\ UNCHANGED <<nest, remote, calls, live, answer>>

Handle(processed) ==
  /\ calls' = Append(calls, [depth |-> depth, type |-> type])
  /\ Update([frame EXCEPT !.pc = IF processed THEN "processed" ELSE "rewind"])
  /\ UNCHANGED <<nest, remote, live, answer>>

Skip(processed) ==
  /\ Update([frame EXCEPT !.pc = IF processed THEN "processed" ELSE "rewind"])
  /\ UNCHANGED <<nest, remote, calls, live, answer>>

(* The RMI handler reports through its out flag, that of UserMessage is    *)
(* not looked at.                                                          *)
DispatchRmi  == At("dispatch") /\ type = Rmi /\ \E flag \in BOOLEAN : Handle(flag)
DispatchUser == At("dispatch") /\ type = UserMessage /\ Handle(FALSE)

(* dispatch_with_peer_guard, and the guarded wide-string handlers *)
DispatchGuarded ==
  /\ At("dispatch") /\ type \in Guarded
  /\ IF FromPeer THEN Skip(TRUE) ELSE Handle(TRUE)

DispatchOpen   == At("dispatch") /\ type \in Open /\ Handle(TRUE)
DispatchNoop   == At("dispatch") /\ type \in Noop /\ Skip(TRUE)
DispatchIgnore == At("dispatch") /\ type \in Ignored /\ Skip(FALSE)

(* dispatch_compressed_or_encrypted: the stack message is constructed ...  *)
Unwrap ==
  /\ At("dispatch") /\ type \in Wrapper
  /\ live' = live + 1
  /\ frames' = Append([frames EXCEPT ![depth].pc = "inner"],
                      Activation(CopiedMetadata(frame.meta)))
  /\ UNCHANGED <<nest, remote, calls, answer>>

(* Mutant of UnwrapFails: the early return skips the destructor. *)
UnwrapFailsLeaks ==
  /\ At("dispatch") /\ type \in Wrapper
  /\ live' = live + 1
  /\ Answer("unprocessed")
  /\ UNCHANGED <<nest, remote, calls>>

(* ... and destroyed at once if the unwrapping fails; the offset stays.    *)
UnwrapFails ==
  /\ At("dispatch") /\ type \in Wrapper
  /\ Answer("unprocessed")
  /\ UNCHANGED <<nest, remote, calls, live>>

(* Mutant of InnerReturned: the message is destroyed once more. *)
InnerReturnedTwice ==
  /\ At("inner")
  /\ live' = live - 2
  /\ Answer(answer)
  /\ UNCHANGED <<nest, remote, calls>>

(* The answer of the inner message is the answer; nothing is rewound.      *)
InnerReturned ==
  /\ At("inner")
  /\ live' = live - 1
  /\ Answer(answer)
  /\ UNCHANGED <<nest, remote, calls>>

(* Mutant of Rewound: the offset is left behind the type. *)
NotRewound(f) == f

(* restore_read_offset *)
Rewound(f) == [f EXCEPT !.offset = "start"]

Rewind ==
  /\ At("rewind")
  /\ Update([Rewound(frame) EXCEPT !.pc = "failed"])
  /\ UNCHANGED <<nest, remote, calls, live, answer>>

ReturnFalse ==
  /\ At("failed")
  /\ Answer("unprocessed")
  /\ UNCHANGED <<nest, remote, calls, live>>

ReturnTrue ==
  /\ At("processed")
  /\ Answer("processed")
  /\ UNCHANGED <<nest, remote, calls, live>>

Next == \/ Read \/ ReadFails
        \/ DispatchRmi \/ DispatchUser \/ DispatchGuarded
        \/ DispatchOpen \/ DispatchNoop \/ DispatchIgnore
        \/ Unwrap \/ UnwrapFails \/ InnerReturned
        \/ Rewind \/ ReturnFalse \/ ReturnTrue

Spec == Init /\ [][Next]_vars

-----------------------------------------------------------------------------
Innermost == nest[Len(nest)]

(* What a message of type t may come to: the answer, and whether a handler *)
(* saw it.                                                                 *)
Outcomes(t) ==
  IF t \in Guarded /\ remote THEN {<<"processed", FALSE>>}
  ELSE IF t \in Guarded \cup Open THEN {<<"processed", TRUE>>}
  ELSE IF t = Rmi THEN {<<"processed", TRUE>>, <<"unprocessed", TRUE>>}
  ELSE IF t = UserMessage THEN {<<"unprocessed", TRUE>>}
  ELSE IF t \in Noop THEN {<<"processed", FALSE>>}
  ELSE {<<"unprocessed", FALSE>>}

(* The activations, calls and messages keep their types; no more messages  *)
(* are on the stack than there are wrappers.                               *)
TypeOK ==
  /\ nest \in Seq(Types) /\ Len(nest) \in 1..(MaxWraps + 1)
  /\ remote \in BOOLEAN
  /\ frames \in Seq([pc : {"read", "dispatch", "inner", "rewind", "failed", "processed"},
                     offset : {"start", "body"}, meta : {"envelope", "constructed"}])
  /\ depth \in 0..Len(nest)
  /\ calls \in Seq([depth : 1..(MaxWraps + 1), type : Types])
  /\ live \in 0..MaxWraps
  /\ answer \in {"none", "processed", "unprocessed"}

(* Wrapping is transparent: a message comes to what its innermost type     *)
(* comes to on its own, the peer guard of the envelope included, or it is  *)
(* unprocessed and no handler saw it.  One handler at most sees it, and    *)
(* only after every wrapper is off.                                        *)
WrapTransparent ==
  /\ depth = 0 => <<answer, calls # <<>>>> \in Outcomes(Innermost) \cup {<<"unprocessed", FALSE>>}
  /\ Len(calls) <= 1
  /\ calls # <<>> => calls[1] = [depth |-> Len(nest), type |-> Innermost]

(* On every path, failures included, exactly the stack messages of the     *)
(* wrappers being unwrapped are alive.                                     *)
StackMessagesDestroyed ==
  live = Cardinality({i \in 1..depth : frames[i].pc = "inner"})

(* docs/proudnet/message-dispatch.md: "Message_Read fails -> restore       *)
(* offset -> return 0; unhandled switch -> same".  A message that is not a *)
(* wrapper goes back unprocessed only as whole as it came.                 *)
ReturnedWhole ==
  [][depth' < depth /\ answer' = "unprocessed" /\ type \notin Wrapper
       => frame.offset = "start"]_vars
=============================================================================
