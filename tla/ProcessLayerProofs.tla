------------------------- MODULE ProcessLayerProofs -------------------------
(***************************************************************************)
(* What ProcessLayer owes the worker's handlers, for messages under any    *)
(* number of wrappers.                                                     *)
(***************************************************************************)
EXTENDS ProcessLayer, SequenceTheorems, FiniteSetTheorems, TLAPS

(* A message is a row of wrappers around one that is none. *)
Nested ==
  /\ Innermost \notin Wrapper
  /\ \A i \in 1..(Len(nest) - 1) : nest[i] \in Wrapper

(* Every activation but the innermost waits for one further in, for the    *)
(* sake of a wrapper; the metadata are the envelope's all the way down.    *)
Stacked ==
  \A i \in 1..depth : /\ frames[i].meta = "envelope"
                      /\ i < depth => frames[i].pc = "inner"
                      /\ frames[i].pc = "inner" => nest[i] \in Wrapper

Awaiting == IF depth = 0 THEN 0 ELSE IF frame.pc = "inner" THEN depth ELSE depth - 1

(* What the message comes to with the answer a *)
Settled(a) == <<a, calls # <<>>>> \in Outcomes(Innermost) \cup {<<"unprocessed", FALSE>>}

Answered ==
  /\ At("read") \/ At("dispatch") => calls = <<>>
  /\ At("processed") => Settled("processed")
  /\ At("rewind") \/ At("failed") => Settled("unprocessed")
  /\ depth = 0 \/ At("inner") => Settled(answer)

CalledOnce ==
  /\ Len(calls) <= 1
  /\ calls # <<>> => calls[1] = [depth |-> Len(nest), type |-> Innermost]

(* restore_read_offset comes before the unprocessed answer. *)
Whole == At("failed") => frame.offset = "start"

IInv == TypeOK /\ Nested /\ Stacked /\ live = Awaiting /\ Answered /\ CalledOnce /\ Whole

-----------------------------------------------------------------------------
(* The stack of activations *)

Activations == [pc : {"read", "dispatch", "inner", "rewind", "failed", "processed"},
                offset : {"start", "body"}, meta : {"envelope", "constructed"}]
Called == [depth : 1..(MaxWraps + 1), type : Types]

LEMMA Stack ==
  ASSUME TypeOK
  PROVE  /\ frames \in Seq(Activations) /\ calls \in Seq(Called)
         /\ depth \in Nat /\ depth = Len(frames) /\ depth <= Len(nest)
         /\ Len(nest) \in Nat /\ 1 <= Len(nest) /\ Len(nest) <= MaxWraps + 1
         /\ MaxWraps \in Nat
         /\ depth > 0 => /\ depth \in 1..Len(frames) /\ frame \in Activations
                         /\ depth \in 1..(MaxWraps + 1) /\ type \in Types
<1>1. frames \in Seq(Activations) /\ calls \in Seq(Called)
  BY DEF TypeOK, Activations, Called
<1>2. depth \in Nat /\ depth = Len(frames)
  BY <1>1, LenProperties DEF depth
<1>3. /\ MaxWraps \in Nat /\ Len(nest) \in Nat /\ 1 <= Len(nest) /\ Len(nest) <= MaxWraps + 1
      /\ depth <= Len(nest) /\ nest \in Seq(Types)
  BY WrapsAssumption DEF TypeOK
<1>4. ASSUME depth > 0
      PROVE  depth \in 1..Len(frames) /\ frame \in Activations /\ type \in Types
  BY <1>1, <1>2, <1>3, <1>4, ElementOfSeq DEF frame, type
<1>5. QED BY <1>1, <1>2, <1>3, <1>4

LEMMA Updated ==
  ASSUME TypeOK, depth > 0, NEW f \in Activations, Update(f)
  PROVE  /\ frames' \in Seq(Activations) /\ depth' = depth /\ frame' = f
         /\ \A i \in 1..(depth - 1) : frames'[i] = frames[i]
<1>1. depth \in 1..Len(frames) /\ frames \in Seq(Activations) /\ depth \in Nat
  BY Stack
<1>2. /\ frames' \in Seq(Activations) /\ Len(frames') = Len(frames)
      /\ \A j \in 1..Len(frames) : frames'[j] = IF j = depth THEN f ELSE frames[j]
  BY <1>1, ExceptSeq DEF Update
<1>3. QED BY <1>1, <1>2 DEF depth, frame

LEMMA Popped ==
  ASSUME TypeOK, depth > 0, NEW a, Answer(a)
  PROVE  /\ frames' \in Seq(Activations) /\ depth' = depth - 1 /\ answer' = a
         /\ \A i \in 1..(depth - 1) : frames'[i] = frames[i]
<1>1. depth = Len(frames) /\ frames \in Seq(Activations) /\ depth \in Nat
  BY Stack
<1>2. \A i \in 1..(depth - 1) : frames[i] \in Activations
  BY <1>1, ElementOfSeq
<1>3. /\ frames' \in Seq(Activations)
      /\ Len(frames') = IF 1 <= depth - 1 THEN depth - 1 ELSE 0
      /\ \A i \in 1..(depth - 1) : frames'[i] = frames[i]
  BY <1>1, <1>2, SubSeqProperties DEF Answer
<1>4. Len(frames') = depth - 1
  BY <1>1, <1>3
<1>5. depth' = depth - 1
  BY <1>4 DEF depth
<1>6. QED BY <1>3, <1>5 DEF Answer

LEMMA Pushed ==
  ASSUME TypeOK, At("dispatch"), frame.meta = "envelope",
         frames' = Append([frames EXCEPT ![depth].pc = "inner"],
                          Activation(CopiedMetadata(frame.meta)))
  PROVE  /\ frames' \in Seq(Activations) /\ depth' = depth + 1
         /\ frame' = Activation("envelope")
         /\ frames'[depth].pc = "inner" /\ frames'[depth].meta = frame.meta
         /\ \A i \in 1..(depth - 1) : frames'[i] = frames[i]
<1>. DEFINE waiting == [frame EXCEPT !.pc = "inner"]
            below == [frames EXCEPT ![depth] = waiting]
            top == Activation("envelope")
<1>1. /\ depth \in 1..Len(frames) /\ frames \in Seq(Activations) /\ depth \in Nat
      /\ depth = Len(frames) /\ frame \in Activations
  BY Stack DEF At
<1>2. waiting \in Activations /\ top \in Activations
  BY <1>1 DEF Activations, Activation
<1>3. waiting.pc = "inner" /\ waiting.meta = frame.meta
  BY <1>1 DEF Activations
<1>4. frames' = Append(below, top)
  BY <1>1 DEF CopiedMetadata, frame
<1>. HIDE DEF waiting, top
<1>5. /\ below \in Seq(Activations) /\ Len(below) = depth
      /\ \A j \in 1..Len(frames) : below[j] = IF j = depth THEN waiting ELSE frames[j]
  BY <1>1, <1>2, ExceptSeq
<1>. HIDE DEF below
<1>6. /\ Append(below, top) \in Seq(Activations) /\ Len(Append(below, top)) = depth + 1
      /\ \A i \in 1..depth : Append(below, top)[i] = below[i]
      /\ Append(below, top)[depth + 1] = top
  BY <1>2, <1>5, AppendProperties
<1>7. /\ frames' \in Seq(Activations) /\ Len(frames') = depth + 1
      /\ \A i \in 1..depth : frames'[i] = below[i]
      /\ frames'[depth + 1] = top
  BY <1>4, <1>6
<1>8. depth' = depth + 1
  BY <1>7 DEF depth
<1>9. frame' = top
  BY <1>7, <1>8 DEF frame
<1>10. frames'[depth] = waiting
  BY <1>1, <1>5, <1>7
<1>11. \A i \in 1..(depth - 1) : frames'[i] = frames[i]
  BY <1>1, <1>5, <1>7
<1>12. QED BY <1>3, <1>7, <1>8, <1>9, <1>10, <1>11 DEF top

-----------------------------------------------------------------------------
(* What the steps have in common *)

(* The innermost activation goes on. *)
LEMMA GoesOn ==
  ASSUME IInv, depth > 0, frame.pc # "inner",
         NEW f \in Activations, f.pc # "inner", f.meta = frame.meta, Update(f),
         UNCHANGED <<nest, remote, live, answer>>, calls' \in Seq(Called)
  PROVE  /\ TypeOK' /\ Nested' /\ Stacked' /\ live' = Awaiting'
         /\ depth' = depth /\ depth' > 0 /\ frame' = f
<1>1. /\ frames' \in Seq(Activations) /\ depth' = depth /\ frame' = f
      /\ \A i \in 1..(depth - 1) : frames'[i] = frames[i]
  BY Updated DEF IInv
<1>2. depth \in Nat /\ depth > 0
  BY Stack DEF IInv
<1>3. TypeOK'
  BY <1>1, <1>2 DEF IInv, TypeOK, Activations, Called
<1>4. Nested' /\ live' = Awaiting'
  BY <1>1, <1>2 DEF IInv, Nested, Awaiting, Innermost
<1>5. frames'[depth] = f /\ frames[depth] = frame
  BY <1>1 DEF frame
<1>6. Stacked'
  BY <1>1, <1>2, <1>5 DEF IInv, Stacked
<1>7. QED BY <1>1, <1>2, <1>3, <1>4, <1>6

(* The innermost activation returns. *)
LEMMA Returns ==
  ASSUME IInv, depth > 0, NEW a \in {"processed", "unprocessed"}, Answer(a),
         live' = IF frame.pc = "inner" THEN live - 1 ELSE live,
         UNCHANGED <<nest, remote, calls>>, Settled(a)
  PROVE  IInv'
<1>1. /\ frames' \in Seq(Activations) /\ depth' = depth - 1 /\ answer' = a
      /\ \A i \in 1..(depth - 1) : frames'[i] = frames[i]
  BY Popped DEF IInv
<1>2. /\ depth \in Nat /\ depth > 0 /\ depth <= Len(nest) /\ Len(nest) \in Nat
      /\ Len(nest) <= MaxWraps + 1 /\ MaxWraps \in Nat
  BY Stack DEF IInv
<1>3. depth' > 0 => frame' = frames[depth - 1] /\ frames[depth - 1].pc = "inner"
  BY <1>1, <1>2 DEF frame, IInv, Stacked
<1>4. live' = depth - 1
  BY <1>2 DEF IInv, Awaiting
<1>5. live' = Awaiting'
  BY <1>1, <1>2, <1>3, <1>4 DEF Awaiting
<1>6. TypeOK'
  BY <1>1, <1>2, <1>4 DEF IInv, TypeOK, Activations
<1>7. Stacked'
  BY <1>1, <1>2 DEF IInv, Stacked
<1>8. Nested' /\ CalledOnce'
  BY DEF IInv, Nested, CalledOnce, Innermost
<1>9. Settled(a)'
  BY DEF Settled, Innermost, Outcomes
<1>10. ~At("read")' /\ ~At("dispatch")' /\ ~At("processed")' /\ ~At("rewind")' /\ ~At("failed")'
  BY <1>3 DEF At
<1>11. Answered' /\ Whole'
  BY <1>1, <1>9, <1>10 DEF Answered, Whole
<1>12. QED BY <1>5, <1>6, <1>7, <1>8, <1>11 DEF IInv

-----------------------------------------------------------------------------
LEMMA InitInv == Init => IInv
<1>. SUFFICES ASSUME Init PROVE IInv
  OBVIOUS
<1>1. PICK n \in 0..MaxWraps :
        \E w \in [1..n -> Wrapper], t \in Types \ Wrapper : nest = w \o <<t>>
  BY Zenon DEF Init
<1>2. PICK w \in [1..n -> Wrapper], t \in Types \ Wrapper : nest = w \o <<t>>
  BY <1>1, Zenon
<1>3. n \in Nat /\ n <= MaxWraps /\ MaxWraps \in Nat
  BY WrapsAssumption
<1>4. \A i \in 1..n : w[i] \in Wrapper /\ w[i] \in Types
  BY <1>2 DEF Wrapper, Types
<1>5. w \in Seq(Types) /\ Len(w) = n
  BY <1>3, <1>4
<1>6. <<t>> \in Seq(Types) /\ Len(<<t>>) = 1 /\ <<t>>[1] = t
  OBVIOUS
<1>7. /\ nest \in Seq(Types) /\ Len(nest) = n + 1
      /\ \A i \in 1..(n + 1) : nest[i] = IF i <= n THEN w[i] ELSE <<t>>[i - n]
  <2>1. /\ w \o <<t>> \in Seq(Types) /\ Len(w \o <<t>>) = Len(w) + Len(<<t>>)
        /\ \A i \in 1..(Len(w) + Len(<<t>>)) :
             (w \o <<t>>)[i] = IF i <= Len(w) THEN w[i] ELSE <<t>>[i - Len(w)]
    BY <1>5, <1>6, ConcatProperties
  <2>2. Len(w) = n /\ Len(<<t>>) = 1 /\ nest = w \o <<t>>
    BY <1>2, <1>5, <1>6
  <2> HIDE <1>2, <1>5, <1>6
  <2> QED BY <2>1, <2>2
<1>8. Innermost = t /\ \A i \in 1..n : nest[i] = w[i]
  BY <1>3, <1>6, <1>7 DEF Innermost
<1>9. Nested
  BY <1>2, <1>3, <1>4, <1>7, <1>8 DEF Nested
<1>10. /\ Activation("envelope") \in Activations
       /\ Activation("envelope").pc = "read" /\ Activation("envelope").meta = "envelope"
  BY DEF Activation, Activations
<1>11. /\ frames \in Seq(Activations) /\ depth = 1 /\ frame.pc = "read" /\ frame = frames[1]
       /\ frames[1].meta = "envelope"
  BY <1>10 DEF Init, depth, frame
<1>12. TypeOK
  BY <1>3, <1>7, <1>11 DEF Init, TypeOK, Activations
<1>13. Stacked /\ live = Awaiting /\ Answered /\ CalledOnce /\ Whole
  BY <1>11 DEF Init, Stacked, Awaiting, Answered, CalledOnce, Whole, At
<1>14. QED BY <1>9, <1>12, <1>13 DEF IInv

(* A message that is no wrapper is the innermost one. *)
LEMMA Dispatched ==
  ASSUME IInv, At("dispatch")
  PROVE  /\ depth > 0 /\ depth \in Nat /\ frame \in Activations /\ type \in Types
         /\ frame.meta = "envelope" /\ calls = <<>>
         /\ type \notin Wrapper => depth = Len(nest) /\ type = Innermost
<1>1. /\ depth > 0 /\ depth \in Nat /\ frame \in Activations /\ type \in Types
      /\ depth <= Len(nest) /\ Len(nest) \in Nat
  BY Stack DEF IInv, At
<1>2. frame.meta = "envelope" /\ calls = <<>>
  BY <1>1 DEF IInv, Stacked, Answered, frame
<1>3. depth < Len(nest) => type \in Wrapper
  BY <1>1 DEF IInv, Nested, type
<1>4. QED BY <1>1, <1>2, <1>3 DEF type, Innermost

(* The kinds of types exclude each other. *)
LEMMA Kinds ==
  ASSUME NEW t
  PROVE  /\ t \in Guarded => t \notin Wrapper
         /\ t \in Open => t \notin Wrapper /\ <<"processed", TRUE>> \in Outcomes(t)
         /\ t = Rmi => t \notin Wrapper /\ \A flag \in BOOLEAN :
              <<IF flag THEN "processed" ELSE "unprocessed", TRUE>> \in Outcomes(t)
         /\ t = UserMessage => t \notin Wrapper /\ <<"unprocessed", TRUE>> \in Outcomes(t)
         /\ t \in Noop => t \notin Wrapper /\ <<"processed", FALSE>> \in Outcomes(t)
         /\ t \in Ignored => t \notin Wrapper /\ <<"unprocessed", FALSE>> \in Outcomes(t)
<1>0. /\ \A g \in Guarded : g \in {3, 4, 6, 8, 9, 10, 11, 13, 15, 17, 24, 25, 26, 29, 35}
      /\ \A o \in Open : o \in {19, 31, 32, 33, 34, 36, 40, 41, 49, 50}
  BY DEF Guarded, ConnectNotices, PeerNotices, GameNotify35,
         Open, ServerHolepunchAck, ServerNotices, GameNotify36, LateNotices
<1>1. t \in Guarded => t \notin Wrapper
  BY <1>0 DEF Wrapper
<1>2. t \in Open => t \notin Wrapper /\ t \notin Guarded
  BY <1>0 DEF Wrapper
<1>3. t = Rmi => t \notin Wrapper /\ t \notin Guarded \cup Open
  BY <1>0 DEF Rmi, Wrapper
<1>4. t = UserMessage => t \notin Wrapper /\ t \notin Guarded \cup Open /\ t # Rmi
  BY <1>0 DEF UserMessage, Rmi, Wrapper
<1>5. t \in Noop => t \notin Wrapper /\ t \notin Guarded \cup Open /\ t # Rmi /\ t # UserMessage
  BY <1>0 DEF Noop, UserMessage, Rmi, Wrapper
<1>6. t \in Ignored =>
        t \notin Wrapper /\ t \notin Guarded \cup Open /\ t # Rmi /\ t # UserMessage /\ t \notin Noop
  BY DEF Ignored
<1>7. QED BY <1>1, <1>2, <1>3, <1>4, <1>5, <1>6 DEF Outcomes

(* The dispatch ends with a handler called or not. *)
LEMMA DispatchEnds ==
  ASSUME IInv, At("dispatch"), type \notin Wrapper,
         NEW processed \in BOOLEAN, NEW called \in BOOLEAN,
         IF called THEN Handle(processed) ELSE Skip(processed),
         <<IF processed THEN "processed" ELSE "unprocessed", called>> \in Outcomes(type)
  PROVE  IInv'
<1>. DEFINE f == [frame EXCEPT !.pc = IF processed THEN "processed" ELSE "rewind"]
<1>1. /\ depth > 0 /\ depth \in Nat /\ frame \in Activations /\ type \in Types
      /\ frame.meta = "envelope" /\ calls = <<>>
      /\ depth = Len(nest) /\ type = Innermost
  BY Dispatched
<1>2. /\ f \in Activations /\ f.meta = frame.meta
      /\ f.pc = IF processed THEN "processed" ELSE "rewind"
  BY <1>1 DEF Activations
<1>3. Update(f) /\ UNCHANGED <<nest, remote, live, answer>>
  BY DEF Handle, Skip
<1>4. [depth |-> depth, type |-> type] \in Called
  BY <1>1, Stack DEF IInv, Called
<1>. DEFINE c == [depth |-> depth, type |-> type]
<1>5. \A x \in Called : Append(<<>>, x) = <<x>> /\ <<x>> \in Seq(Called) /\ <<x>> # <<>>
  OBVIOUS
<1>6. /\ calls' \in Seq(Called)
      /\ called => calls' = <<[depth |-> Len(nest), type |-> Innermost]>>
      /\ (calls' # <<>>) = called
  <2>1. CASE called
    <3>1. calls' = Append(<<>>, c) /\ c \in Called
      BY <1>1, <1>4, <2>1 DEF Handle
    <3>2. calls' = <<c>> /\ c = [depth |-> Len(nest), type |-> Innermost]
      BY <1>1, <1>5, <3>1
    <3>. HIDE DEF c
    <3>3. QED BY <1>5, <2>1, <3>1, <3>2
  <2>2. CASE ~called
    BY <1>1, <2>2 DEF Skip
  <2>3. QED BY <2>1, <2>2
<1>7. CalledOnce'
  <2>. DEFINE seen == [depth |-> Len(nest), type |-> Innermost]
  <2>1. seen' = seen
    BY <1>3 DEF Innermost
  <2>. HIDE DEF seen
  <2>2. calls' = <<>> \/ calls' = <<seen>>
    BY <1>6 DEF seen
  <2>3. Len(calls') <= 1 /\ (calls' # <<>> => calls'[1] = seen')
    BY <2>1, <2>2
  <2>4. QED BY <2>3 DEF CalledOnce, seen
<1>8. frame.pc # "inner" /\ f.pc # "inner"
  BY <1>2 DEF At
<1>. HIDE DEF f
<1>9. /\ TypeOK' /\ Nested' /\ Stacked' /\ live' = Awaiting'
      /\ depth' > 0 /\ frame' = f
  BY <1>1, <1>2, <1>3, <1>6, <1>8, GoesOn
<1>10. Outcomes(Innermost)' = Outcomes(type)
  BY <1>1, <1>3 DEF Outcomes, Innermost
<1>11. Settled(IF processed THEN "processed" ELSE "unprocessed")'
  BY <1>6, <1>10 DEF Settled
<1>12. Answered' /\ Whole'
  BY <1>2, <1>9, <1>11 DEF Answered, Whole, At
<1>13. QED BY <1>7, <1>9, <1>12 DEF IInv

LEMMA InvKept == IInv /\ [Next]_vars => IInv'
<1>. SUFFICES ASSUME IInv, [Next]_vars PROVE IInv'
  OBVIOUS
<1>1. CASE UNCHANGED vars
  BY <1>1 DEF vars, IInv, TypeOK, Nested, Stacked, Awaiting, Answered, CalledOnce, Whole, Settled,
              Outcomes, Innermost, At, depth, frame
<1>2. ASSUME depth > 0, frame.pc # "inner", NEW f \in Activations,
             f.pc \in {"dispatch", "rewind"}, f.meta = frame.meta,
             calls = <<>>, Update(f), UNCHANGED <<nest, remote, calls, live, answer>>
      PROVE  IInv'
  <2>1. /\ TypeOK' /\ Nested' /\ Stacked' /\ live' = Awaiting'
        /\ depth' > 0 /\ frame' = f
    BY <1>2, GoesOn, Stack DEF IInv
  <2>2. (calls' # <<>>) = FALSE
    BY <1>2
  <2>3. Settled("unprocessed")' /\ CalledOnce'
    <3>1. Settled("unprocessed")'
      BY <2>2, Zenon DEF Settled
    <3>2. calls' = <<>> /\ Len(calls') = 0
      BY <1>2
    <3>3. QED BY <3>1, <3>2 DEF CalledOnce
  <2>4. Answered' /\ Whole'
    BY <1>2, <2>1, <2>3 DEF Answered, Whole, At
  <2>5. QED BY <2>1, <2>3, <2>4 DEF IInv
<1>3. CASE Read \/ ReadFails
  <2>1. depth > 0 /\ frame.pc = "read" /\ frame \in Activations /\ calls = <<>>
    BY <1>3, Stack DEF Read, ReadFails, IInv, Answered, At
  <2>2. \A pc \in {"dispatch", "rewind"} :
          /\ [frame EXCEPT !.pc = pc, !.offset = "body"] \in Activations
          /\ [frame EXCEPT !.pc = pc, !.offset = "body"].pc = pc
          /\ [frame EXCEPT !.pc = pc, !.offset = "body"].meta = frame.meta
    BY <2>1 DEF Activations
  <2>3. CASE Read
    BY <1>2, <2>1, <2>2, <2>3 DEF Read
  <2>4. CASE ReadFails
    BY <1>2, <2>1, <2>2, <2>4 DEF ReadFails
  <2>5. QED BY <1>3, <2>3, <2>4
<1>4. CASE DispatchRmi
  <2>1. PICK flag \in BOOLEAN : Handle(flag)
    BY <1>4 DEF DispatchRmi
  <2>2. /\ At("dispatch") /\ type \notin Wrapper
        /\ <<IF flag THEN "processed" ELSE "unprocessed", TRUE>> \in Outcomes(type)
    BY <1>4, Kinds DEF DispatchRmi
  <2>3. QED BY <2>1, <2>2, DispatchEnds
<1>5. CASE DispatchUser
  <2>1. /\ At("dispatch") /\ type \notin Wrapper /\ Handle(FALSE)
        /\ <<"unprocessed", TRUE>> \in Outcomes(type)
    BY <1>5, Kinds DEF DispatchUser
  <2>2. QED BY <2>1, DispatchEnds
<1>6. CASE DispatchGuarded
  <2>1. At("dispatch") /\ type \notin Wrapper /\ FromPeer = remote
    BY <1>6, Dispatched, Kinds DEF DispatchGuarded, FromPeer, IInv, TypeOK
  <2>2. CASE remote
    <3>1. Skip(TRUE) /\ <<"processed", FALSE>> \in Outcomes(type)
      BY <1>6, <2>1, <2>2 DEF DispatchGuarded, Outcomes
    <3>2. QED BY <2>1, <3>1, DispatchEnds
  <2>3. CASE ~remote
    <3>1. Handle(TRUE) /\ <<"processed", TRUE>> \in Outcomes(type)
      BY <1>6, <2>1, <2>3 DEF DispatchGuarded, Outcomes
    <3>2. QED BY <2>1, <3>1, DispatchEnds
  <2>4. QED BY <2>2, <2>3
<1>7. CASE DispatchOpen
  <2>1. /\ At("dispatch") /\ type \notin Wrapper /\ Handle(TRUE)
        /\ <<"processed", TRUE>> \in Outcomes(type)
    BY <1>7, Kinds DEF DispatchOpen
  <2>2. QED BY <2>1, DispatchEnds
<1>8. CASE DispatchNoop
  <2>1. /\ At("dispatch") /\ type \notin Wrapper /\ Skip(TRUE)
        /\ <<"processed", FALSE>> \in Outcomes(type)
    BY <1>8, Kinds DEF DispatchNoop
  <2>2. QED BY <2>1, DispatchEnds
<1>9. CASE DispatchIgnore
  <2>1. /\ At("dispatch") /\ type \notin Wrapper /\ Skip(FALSE)
        /\ <<"unprocessed", FALSE>> \in Outcomes(type)
    BY <1>9, Kinds DEF DispatchIgnore
  <2>2. QED BY <2>1, DispatchEnds
<1>10. CASE Unwrap
  <2>1. At("dispatch") /\ type \in Wrapper /\ UNCHANGED <<nest, remote, calls, answer>> /\ live' = live + 1
    BY <1>10 DEF Unwrap
  <2>2. /\ depth > 0 /\ depth \in Nat /\ frame.meta = "envelope" /\ calls = <<>>
        /\ frame.pc = "dispatch"
    BY <2>1, Dispatched DEF At
  <2>3. /\ frames' \in Seq(Activations) /\ depth' = depth + 1
        /\ frame' = Activation("envelope")
        /\ frames'[depth].pc = "inner" /\ frames'[depth].meta = "envelope"
        /\ \A i \in 1..(depth - 1) : frames'[i] = frames[i]
    BY <1>10, <2>1, <2>2, Pushed DEF Unwrap, IInv
  <2>4. /\ depth < Len(nest) /\ Len(nest) \in Nat /\ Len(nest) <= MaxWraps + 1 /\ MaxWraps \in Nat
    BY <2>1, Stack DEF IInv, Nested, type, Innermost
  <2>5. live = depth - 1 /\ live' = depth
    BY <2>1, <2>2 DEF IInv, Awaiting
  <2>6. TypeOK'
    BY <2>1, <2>2, <2>3, <2>4, <2>5 DEF IInv, TypeOK, Activations
  <2>7. frame'.pc = "read" /\ frame'.meta = "envelope" /\ frame' = frames'[depth + 1]
    BY <2>3 DEF Activation, frame
  <2>8. live' = Awaiting'
    BY <2>2, <2>3, <2>5, <2>7 DEF Awaiting
  <2>9. Stacked'
    BY <2>1, <2>2, <2>3, <2>7 DEF IInv, Stacked, type
  <2>10. Nested' /\ CalledOnce'
    BY <2>1 DEF IInv, Nested, CalledOnce, Innermost
  <2>11. Answered' /\ Whole'
    BY <2>1, <2>2, <2>3, <2>7 DEF Answered, Whole, At
  <2>12. QED BY <2>6, <2>8, <2>9, <2>10, <2>11 DEF IInv
<1>11. CASE UnwrapFails
  <2>1. At("dispatch") /\ Answer("unprocessed") /\ UNCHANGED <<nest, remote, calls, live>>
    BY <1>11 DEF UnwrapFails
  <2>2. depth > 0 /\ frame.pc # "inner" /\ calls = <<>>
    BY <2>1, Dispatched DEF At
  <2>3. Settled("unprocessed")
    BY <2>2 DEF Settled
  <2>4. QED BY <2>1, <2>2, <2>3, Returns
<1>12. CASE InnerReturned
  <2>1. At("inner") /\ Answer(answer) /\ live' = live - 1 /\ UNCHANGED <<nest, remote, calls>>
    BY <1>12 DEF InnerReturned
  <2>2. depth > 0 /\ frame.pc = "inner" /\ Settled(answer)
    BY <2>1 DEF At, IInv, Answered
  <2>3. answer \in {"processed", "unprocessed"}
    BY <2>2 DEF Settled, Outcomes
  <2>4. QED BY <2>1, <2>2, <2>3, Returns
<1>13. CASE Rewind
  <2>1. At("rewind") /\ UNCHANGED <<nest, remote, calls, live, answer>>
        /\ Update([Rewound(frame) EXCEPT !.pc = "failed"])
    BY <1>13 DEF Rewind
  <2>2. depth > 0 /\ frame.pc = "rewind" /\ frame \in Activations /\ Settled("unprocessed")
    BY <2>1, Stack DEF At, IInv, Answered
  <2>3. PICK f \in Activations : /\ f.pc = "failed" /\ f.meta = frame.meta /\ f.offset = "start"
                                 /\ Update(f)
    <3>1. /\ [Rewound(frame) EXCEPT !.pc = "failed"] \in Activations
          /\ [Rewound(frame) EXCEPT !.pc = "failed"].pc = "failed"
          /\ [Rewound(frame) EXCEPT !.pc = "failed"].meta = frame.meta
          /\ [Rewound(frame) EXCEPT !.pc = "failed"].offset = "start"
      BY <2>2 DEF Rewound, Activations
    <3>2. QED BY <2>1, <3>1
  <2>4. /\ TypeOK' /\ Nested' /\ Stacked' /\ live' = Awaiting'
        /\ depth' > 0 /\ frame' = f
    BY <2>1, <2>2, <2>3, GoesOn, Stack DEF IInv
  <2>5. Settled("unprocessed")' /\ CalledOnce'
    BY <2>1, <2>2 DEF IInv, Settled, CalledOnce, Outcomes, Innermost
  <2>6. Answered' /\ Whole'
    BY <2>3, <2>4, <2>5 DEF Answered, Whole, At
  <2>7. QED BY <2>4, <2>5, <2>6 DEF IInv
<1>14. CASE ReturnFalse
  <2>1. At("failed") /\ Answer("unprocessed") /\ UNCHANGED <<nest, remote, calls, live>>
    BY <1>14 DEF ReturnFalse
  <2>2. depth > 0 /\ frame.pc # "inner" /\ Settled("unprocessed")
    BY <2>1 DEF At, IInv, Answered
  <2>3. QED BY <2>1, <2>2, Returns
<1>15. CASE ReturnTrue
  <2>1. At("processed") /\ Answer("processed") /\ UNCHANGED <<nest, remote, calls, live>>
    BY <1>15 DEF ReturnTrue
  <2>2. depth > 0 /\ frame.pc # "inner" /\ Settled("processed")
    BY <2>1 DEF At, IInv, Answered
  <2>3. QED BY <2>1, <2>2, Returns
<1>16. QED
  BY <1>1, <1>3, <1>4, <1>5, <1>6, <1>7, <1>8, <1>9, <1>10, <1>11, <1>12, <1>13, <1>14, <1>15
  DEF Next

LEMMA Inv == Spec => []IInv
  BY InitInv, InvKept, PTL DEF Spec

-----------------------------------------------------------------------------
(* The activations, calls and messages keep their types under any number   *)
(* of wrappers.                                                            *)
THEOREM TypeCorrect == Spec => []TypeOK
<1>1. IInv => TypeOK
  BY DEF IInv
<1>2. QED BY <1>1, Inv, PTL

(* However often a message was compressed or encrypted, it comes to what   *)
(* its innermost type comes to on its own, or to unprocessed and unseen.   *)
THEOREM WrappingTheorem == Spec => []WrapTransparent
<1>1. IInv => WrapTransparent
  BY DEF IInv, Answered, Settled, CalledOnce, WrapTransparent
<1>2. QED BY <1>1, Inv, PTL

(* On every path each message constructed on the stack is destroyed once:  *)
(* as many are alive as activations wait for an inner one.                 *)
THEOREM StackTheorem == Spec => []StackMessagesDestroyed
<1>1. ASSUME IInv PROVE StackMessagesDestroyed
  <2>. DEFINE waiting == {i \in 1..depth : frames[i].pc = "inner"}
  <2>1. depth \in Nat /\ (depth > 0 => frame = frames[depth])
    BY <1>1, Stack DEF IInv, frame
  <2>2. waiting = 1..live /\ live \in Nat
    <3>1. CASE depth = 0
      BY <1>1, <2>1, <3>1 DEF IInv, Awaiting
    <3>2. CASE depth > 0 /\ frame.pc = "inner"
      <4>1. \A i \in 1..depth : frames[i].pc = "inner"
        BY <1>1, <2>1, <3>2 DEF IInv, Stacked
      <4>2. live = depth
        BY <1>1, <3>2 DEF IInv, Awaiting
      <4>3. QED BY <2>1, <4>1, <4>2
    <3>3. CASE depth > 0 /\ frame.pc # "inner"
      <4>1. \A i \in 1..depth : frames[i].pc = "inner" <=> i # depth
        BY <1>1, <2>1, <3>3 DEF IInv, Stacked
      <4>2. live = depth - 1
        BY <1>1, <3>3 DEF IInv, Awaiting
      <4>3. QED BY <2>1, <3>3, <4>1, <4>2
    <3>4. QED BY <2>1, <3>1, <3>2, <3>3
  <2>3. Cardinality(1..live) = live
    <3>1. 1 \in Int /\ live \in Int
      BY <2>2
    <3>2. Cardinality(1..live) = IF 1 > live THEN 0 ELSE live - 1 + 1
      BY <3>1, FS_Interval, Zenon
    <3>3. QED BY <2>2, <3>2
  <2>4. QED BY <2>2, <2>3 DEF StackMessagesDestroyed
<1>2. QED BY <1>1, Inv, PTL

(* A message that is no wrapper goes back unprocessed with its read offset *)
(* where it was when it came.                                              *)
THEOREM WholeTheorem == Spec => ReturnedWhole
<1>1. ASSUME IInv, [Next]_vars, depth' < depth, answer' = "unprocessed", type \notin Wrapper
      PROVE  frame.offset = "start"
  <2>1. depth \in Nat
    BY <1>1, Stack DEF IInv
  <2>2. ASSUME depth > 0, NEW f, Update(f) PROVE FALSE
    <3>1. frames \in Seq(Activations \cup {f}) /\ depth \in 1..Len(frames)
      BY <1>1, <2>2, Stack, SeqMonotonic DEF IInv
    <3>2. Len(frames') = Len(frames)
      BY <2>2, <3>1, ExceptSeq DEF Update
    <3>3. QED BY <1>1, <2>1, <3>2 DEF depth
  <2>3. CASE UNCHANGED vars
    BY <1>1, <2>1, <2>3 DEF vars, depth
  <2>4. CASE Read \/ ReadFails \/ Rewind
    BY <2>2, <2>4 DEF Read, ReadFails, Rewind, At
  <2>5. ASSUME At("dispatch"), NEW processed \in BOOLEAN, Handle(processed) \/ Skip(processed)
        PROVE  FALSE
    BY <2>2, <2>5 DEF Handle, Skip, At
  <2>6. CASE DispatchRmi \/ DispatchUser \/ DispatchGuarded \/ DispatchOpen \/ DispatchNoop \/ DispatchIgnore
    BY <2>5, <2>6 DEF DispatchRmi, DispatchUser, DispatchGuarded, DispatchOpen, DispatchNoop,
                      DispatchIgnore
  <2>7. CASE Unwrap
    <3>1. At("dispatch") /\ frame.meta = "envelope"
      BY <1>1, <2>7, Dispatched DEF Unwrap
    <3>2. depth' = depth + 1
      BY <1>1, <2>7, <3>1, Pushed DEF Unwrap, IInv
    <3>3. QED BY <1>1, <2>1, <3>2
  <2>8. CASE UnwrapFails
    BY <1>1, <2>8 DEF UnwrapFails
  <2>9. CASE InnerReturned
    BY <1>1, <2>1, <2>9 DEF InnerReturned, IInv, Stacked, At, type, frame
  <2>10. CASE ReturnFalse
    BY <1>1, <2>10 DEF ReturnFalse, IInv, Whole
  <2>11. CASE ReturnTrue
    BY <1>1, <2>11 DEF ReturnTrue, Answer
  <2>12. QED
    BY <1>1, <2>3, <2>4, <2>6, <2>7, <2>8, <2>9, <2>10, <2>11 DEF Next
<1>2. IInv /\ [Next]_vars =>
        [depth' < depth /\ answer' = "unprocessed" /\ type \notin Wrapper
           => frame.offset = "start"]_vars
  BY <1>1
<1>3. QED BY <1>2, Inv, PTL DEF Spec, ReturnedWhole

-----------------------------------------------------------------------------
(* The steps the layer has left: three for every message not yet reached,  *)
(* one for every activation to return, and those of the innermost.         *)
Left ==
  IF depth = 0 THEN 0
  ELSE depth + CASE frame.pc = "read"     -> 3 * (Len(nest) - depth) + 3
                 [] frame.pc = "dispatch" -> 3 * (Len(nest) - depth) + 2
                 [] frame.pc = "rewind"   -> 1
                 [] OTHER                 -> 0

LEMMA LeftBounded ==
  ASSUME IInv
  PROVE  /\ Left \in 0..(3 * Len(nest) + 1) /\ depth <= Left
         /\ depth > 0 => /\ frame.pc = "read" => Left = depth + 3 * (Len(nest) - depth) + 3
                         /\ frame.pc = "dispatch" => Left = depth + 3 * (Len(nest) - depth) + 2
                         /\ frame.pc = "rewind" => Left = depth + 1
                         /\ frame.pc \in {"inner", "failed", "processed"} => Left = depth
<1>1. /\ depth \in Nat /\ Len(nest) \in Nat /\ depth <= Len(nest)
      /\ depth > 0 => frame.pc \in {"read", "dispatch", "inner", "rewind", "failed", "processed"}
  BY Stack DEF IInv, Activations
<1>2. CASE depth = 0
  BY <1>1, <1>2 DEF Left
<1>3. CASE depth > 0 /\ frame.pc = "read"
  BY <1>1, <1>3 DEF Left
<1>4. CASE depth > 0 /\ frame.pc = "dispatch"
  BY <1>1, <1>4 DEF Left
<1>5. CASE depth > 0 /\ frame.pc = "rewind"
  BY <1>1, <1>5 DEF Left
<1>6. CASE depth > 0 /\ frame.pc \in {"inner", "failed", "processed"}
  BY <1>1, <1>6 DEF Left
<1>7. QED BY <1>1, <1>2, <1>3, <1>4, <1>5, <1>6

(* A return leaves the activations that wait for one. *)
LEMMA ReturnLowers ==
  ASSUME IInv, depth > 0, NEW a, Answer(a), UNCHANGED nest
  PROVE  Left' < Left
<1>1. /\ depth \in Nat /\ depth' = depth - 1
      /\ \A i \in 1..(depth - 1) : frames'[i] = frames[i]
  BY Popped, Stack DEF IInv
<1>2. depth <= Left /\ Left \in Nat
  BY LeftBounded, Stack DEF IInv
<1>3. CASE depth = 1
  BY <1>1, <1>2, <1>3 DEF Left
<1>4. CASE depth > 1
  <2>1. depth - 1 \in 1..depth /\ frames[depth - 1].pc = "inner"
    BY <1>1, <1>4 DEF IInv, Stacked
  <2>2. frame'.pc = "inner"
    BY <1>1, <1>4, <2>1 DEF frame
  <2>3. Left' = depth - 1
    BY <1>1, <1>4, <2>2 DEF Left
  <2>4. QED BY <1>1, <1>2, <2>3
<1>5. QED BY <1>1, <1>3, <1>4

(* So does every step of the innermost activation. *)
LEMMA UpdateLowers ==
  ASSUME IInv, depth > 0, UNCHANGED nest, NEW f \in Activations, Update(f),
         \/ frame.pc = "read" /\ f.pc \in {"dispatch", "rewind"}
         \/ frame.pc = "dispatch" /\ f.pc \in {"processed", "rewind"}
         \/ frame.pc = "rewind" /\ f.pc = "failed"
  PROVE  Left' < Left
<1>1. /\ depth \in Nat /\ Len(nest) \in Nat /\ depth <= Len(nest)
      /\ depth' = depth /\ frame' = f /\ Len(nest)' = Len(nest)
  BY Updated, Stack DEF IInv
<1>2. /\ f.pc = "dispatch" => Left' = depth + 3 * (Len(nest) - depth) + 2
      /\ f.pc = "rewind" => Left' = depth + 1
      /\ f.pc \in {"failed", "processed"} => Left' = depth
  BY <1>1 DEF Left
<1>3. QED BY <1>1, <1>2, LeftBounded

LEMMA StepLowers ==
  ASSUME IInv, Next
  PROVE  Left' < Left
<1>1. depth > 0 => frame \in Activations
  BY Stack DEF IInv
<1>2. CASE Read
  <2>1. [frame EXCEPT !.pc = "dispatch", !.offset = "body"] \in Activations
    BY <1>1, <1>2 DEF Read, At, Activations
  <2>2. [frame EXCEPT !.pc = "dispatch", !.offset = "body"].pc = "dispatch"
    BY <1>1, <1>2 DEF Read, At, Activations
  <2>3. QED BY <1>2, <2>1, <2>2, UpdateLowers DEF Read, At
<1>3. CASE ReadFails
  <2>1. [frame EXCEPT !.pc = "rewind", !.offset = "body"] \in Activations
    BY <1>1, <1>3 DEF ReadFails, At, Activations
  <2>2. [frame EXCEPT !.pc = "rewind", !.offset = "body"].pc = "rewind"
    BY <1>1, <1>3 DEF ReadFails, At, Activations
  <2>3. QED BY <1>3, <2>1, <2>2, UpdateLowers DEF ReadFails, At
<1>4. ASSUME At("dispatch"), NEW processed \in BOOLEAN, Handle(processed) \/ Skip(processed)
      PROVE  Left' < Left
  <2>. DEFINE f == [frame EXCEPT !.pc = IF processed THEN "processed" ELSE "rewind"]
  <2>1. f \in Activations /\ f.pc \in {"processed", "rewind"}
    BY <1>1, <1>4 DEF At, Activations
  <2>2. Update(f) /\ UNCHANGED nest
    BY <1>4 DEF Handle, Skip
  <2>. HIDE DEF f
  <2>3. QED BY <1>4, <2>1, <2>2, UpdateLowers DEF At
<1>5. CASE DispatchRmi \/ DispatchUser \/ DispatchGuarded \/ DispatchOpen \/ DispatchNoop \/ DispatchIgnore
  BY <1>4, <1>5 DEF DispatchRmi, DispatchUser, DispatchGuarded, DispatchOpen, DispatchNoop,
                    DispatchIgnore
<1>6. CASE Unwrap
  <2>1. /\ At("dispatch") /\ UNCHANGED nest
        /\ depth > 0 /\ depth \in Nat /\ frame.meta = "envelope" /\ frame.pc = "dispatch"
    BY <1>6, Dispatched DEF Unwrap, At
  <2>2. depth' = depth + 1 /\ frame' = Activation("envelope")
    BY <1>6, <2>1, Pushed DEF Unwrap, IInv
  <2>3. Len(nest) \in Nat /\ Len(nest)' = Len(nest)
    BY <2>1, Stack DEF IInv
  <2>4. Left' = depth + 1 + 3 * (Len(nest) - (depth + 1)) + 3
    BY <2>1, <2>2, <2>3 DEF Left, Activation
  <2>5. Left = depth + 3 * (Len(nest) - depth) + 2
    BY <2>1, LeftBounded
  <2>6. QED BY <2>1, <2>3, <2>4, <2>5
<1>7. CASE UnwrapFails \/ InnerReturned \/ ReturnFalse \/ ReturnTrue
  BY <1>7, ReturnLowers DEF UnwrapFails, InnerReturned, ReturnFalse, ReturnTrue, At
<1>8. CASE Rewind
  <2>1. [Rewound(frame) EXCEPT !.pc = "failed"] \in Activations
    BY <1>1, <1>8 DEF Rewind, Rewound, At, Activations
  <2>2. [Rewound(frame) EXCEPT !.pc = "failed"].pc = "failed"
    BY <1>1, <1>8 DEF Rewind, Rewound, At, Activations
  <2>3. QED BY <1>8, <2>1, <2>2, UpdateLowers DEF Rewind, At
<1>9. QED BY <1>2, <1>3, <1>5, <1>6, <1>7, <1>8 DEF Next

(* The layer recurses without a limit of its own, yet not without an end:  *)
(* over a message under n wrappers it takes at most 3n + 4 steps, for each *)
(* lowers the steps left.                                                  *)
THEOREM EndTheorem ==
  Spec => [](Left \in 0..(3 * Len(nest) + 1)) /\ [][Left' < Left]_vars
<1>1. IInv => Left \in 0..(3 * Len(nest) + 1)
  BY LeftBounded
<1>2. IInv /\ [Next]_vars => [Left' < Left]_vars
  BY StepLowers
<1>3. QED BY <1>1, <1>2, Inv, PTL DEF Spec
=============================================================================
