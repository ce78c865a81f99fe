--------------------------- MODULE NavFlowProofs ---------------------------
(***************************************************************************)
(* Types and message order of NavFlow, for any queue, any number of        *)
(* commands and any number of fades.                                       *)
(***************************************************************************)
EXTENDS NavFlow, SequenceTheorems, TLAPS

(* How many of reader and main thread are at a place *)
At(place) == (IF reader = place THEN 1 ELSE 0) + (IF main = place THEN 1 ELSE 0)

(* Hooks and the handle.  Without a handle every hook is still to be       *)
(* stored, or is matched by a failure whose answer has been stored.  With  *)
(* one, a thread that is about to install counts once, and one that is     *)
(* about to store a refusal twice: it will clear the handle, and then two  *)
(* threads may install again.                                              *)
LateHooks ==
  /\ ~handle => hooks + At("null") <= At("hooked") + failures
  /\ handle => hooks + At("hook") + 2 * At("null") <= 2 + failures
  /\ handle \/ At("hooked") > 0 => hooks > 0

(* The flags of a pending flow say what has been sent for it. *)
FlagsTell ==
  /\ ~didNotify
  /\ pending =>
       sent = IF didRequest THEN <<"select", "request">>
              ELSE IF didSelect THEN <<"select">> ELSE <<>>
  /\ didRequest => didSelect

(* The parts of TypeOK, but for the bound on the hooks *)
Counted ==
  /\ queued \in 0..QueueSize /\ commands \in 0..MaxCommands /\ events \in 0..MaxGameEvents
  /\ failures \in 0..MaxFailures
  /\ hooks \in Nat

Placed ==
  /\ reader \in {"idle", "sched", "hook", "hooked", "null", "wake"}
  /\ main \in {"idle", "hook", "hooked", "null", "drain", "pass"}
  /\ wake \in {"off", "check", "sleep", "exit"}
  /\ scene \in {"shard", "lobby"}

Flags ==
  /\ mainKnown \in BOOLEAN /\ handle \in BOOLEAN
  /\ posted \in BOOLEAN /\ pending \in BOOLEAN
  /\ didSelect \in BOOLEAN /\ didRequest \in BOOLEAN /\ didNotify \in BOOLEAN
  /\ unwoken \in BOOLEAN /\ locked \in BOOLEAN /\ moving \in BOOLEAN

IInv == Counted /\ Placed /\ Flags /\ LateHooks /\ SentInOrder /\ FlagsTell

-----------------------------------------------------------------------------
(* A message more *)
LEMMA Appended1 ==
  ASSUME NEW M, NEW a \in M, NEW b \in M
  PROVE  <<a>> \o <<b>> = <<a, b>>
<1>1. <<a>> \in Seq(M) /\ <<b>> \in Seq(M) /\ <<a, b>> \in Seq(M)
  OBVIOUS
<1>2. Len(<<a>>) = 1 /\ Len(<<b>>) = 1 /\ Len(<<a, b>>) = 2
  OBVIOUS
<1>3. /\ <<a>> \o <<b>> \in Seq(M) /\ Len(<<a>> \o <<b>>) = 2
      /\ (<<a>> \o <<b>>)[1] = a /\ (<<a>> \o <<b>>)[2] = b
  BY <1>1, <1>2, ConcatProperties
<1>4. \A i \in 1..2 : (<<a>> \o <<b>>)[i] = <<a, b>>[i]
  BY <1>3
<1>5. QED BY <1>1, <1>2, <1>3, <1>4, SeqEqual

LEMMA Appended2 ==
  ASSUME NEW M, NEW a \in M, NEW b \in M, NEW c \in M
  PROVE  <<a, b>> \o <<c>> = <<a, b, c>>
<1>1. <<a, b>> \in Seq(M) /\ <<c>> \in Seq(M) /\ <<a, b, c>> \in Seq(M)
  OBVIOUS
<1>2. Len(<<a, b>>) = 2 /\ Len(<<c>>) = 1 /\ Len(<<a, b, c>>) = 3
  OBVIOUS
<1>3. /\ <<a, b>> \o <<c>> \in Seq(M) /\ Len(<<a, b>> \o <<c>>) = 3
      /\ (<<a, b>> \o <<c>>)[1] = a /\ (<<a, b>> \o <<c>>)[2] = b
      /\ (<<a, b>> \o <<c>>)[3] = c
  BY <1>1, <1>2, ConcatProperties
<1>4. \A i \in 1..3 : (<<a, b>> \o <<c>>)[i] = <<a, b, c>>[i]
  BY <1>3
<1>5. QED BY <1>1, <1>2, <1>3, <1>4, SeqEqual

LEMMA Appended0 ==
  ASSUME NEW M, NEW a \in M, NEW b \in M, NEW c \in M
  PROVE  /\ <<>> \o <<>> = <<>>
         /\ <<>> \o <<a>> = <<a>> /\ <<a>> \o <<>> = <<a>>
         /\ <<a, b>> \o <<>> = <<a, b>>
         /\ <<a, b, c>> \o <<>> = <<a, b, c>>
<1>1. <<>> \in Seq(M) /\ <<a>> \in Seq(M) /\ <<a, b>> \in Seq(M) /\ <<a, b, c>> \in Seq(M)
  OBVIOUS
<1>2. QED BY <1>1, ConcatEmptySeq

(* What a pump appends, message by message *)
LEMMA Appended ==
  /\ <<>> \o <<>> = <<>> /\ <<>> \o <<"select">> = <<"select">>
  /\ <<"select">> \o <<>> = <<"select">>
  /\ <<"select", "request">> \o <<>> = <<"select", "request">>
  /\ <<"select", "notify">> \o <<>> = <<"select", "notify">>
  /\ <<"select", "request", "notify">> \o <<>> = <<"select", "request", "notify">>
  /\ <<"select">> \o <<"request">> = <<"select", "request">>
  /\ <<"select">> \o <<"notify">> = <<"select", "notify">>
  /\ <<"select", "request">> \o <<"notify">> = <<"select", "request", "notify">>
<1>. DEFINE M == {"select", "request", "notify"}
<1>1. "select" \in M /\ "request" \in M /\ "notify" \in M
  OBVIOUS
<1>. HIDE DEF M
<1>2. <<>> \o <<>> = <<>> /\ <<>> \o <<"select">> = <<"select">> /\ <<"select">> \o <<>> = <<"select">>
  BY <1>1, Appended0, Zenon
<1>3. /\ <<"select", "request">> \o <<>> = <<"select", "request">>
      /\ <<"select", "notify">> \o <<>> = <<"select", "notify">>
      /\ <<"select", "request", "notify">> \o <<>> = <<"select", "request", "notify">>
  BY <1>1, Appended0, Zenon
<1>4. /\ <<"select">> \o <<"request">> = <<"select", "request">>
      /\ <<"select">> \o <<"notify">> = <<"select", "notify">>
  BY <1>1, Appended1, Zenon
<1>5. <<"select", "request">> \o <<"notify">> = <<"select", "request", "notify">>
  BY <1>1, Appended2, Zenon
<1>6. QED BY <1>2, <1>3, <1>4, <1>5

(* One call of pump_pass_shard_select *)
LEMMA PassSends ==
  ASSUME IInv, pending
  PROVE  sent \o Select \o Notify \o Request =
           IF scene = "lobby"
             THEN IF didRequest THEN <<"select", "request", "notify">> ELSE <<"select", "notify">>
             ELSE IF didRequest \/ ~locked THEN <<"select", "request">> ELSE <<"select">>
<1>1. didSelect \in BOOLEAN /\ didRequest \in BOOLEAN /\ locked \in BOOLEAN /\ ~didNotify
  BY DEF IInv, Flags, FlagsTell
<1>2. sent \o Select = IF didRequest THEN <<"select", "request">> ELSE <<"select">>
  BY <1>1, Appended DEF IInv, FlagsTell, Select
<1>3. CASE scene = "lobby"
  <2>1. Notify = <<"notify">> /\ Request = <<>>
    BY <1>1, <1>3 DEF Notify, Request
  <2>2. QED BY <1>1, <1>2, <1>3, <2>1, Appended
<1>4. CASE scene # "lobby"
  <2>1. Notify = <<>> /\ Request = IF locked \/ didRequest THEN <<>> ELSE <<"request">>
    BY <1>1, <1>4 DEF Notify, Request
  <2>2. QED BY <1>1, <1>2, <1>4, <2>1, Appended
<1>5. QED BY <1>3, <1>4

-----------------------------------------------------------------------------
(* The bound on the hooks *)
LEMMA HookBound ==
  ASSUME Counted, Placed, Flags, LateHooks
  PROVE  TypeOK
<1>1. failures \in Nat /\ hooks \in Nat
  BY NavAssumption DEF Counted
<1>2. At("hook") \in 0..2 /\ At("null") \in 0..2 /\ At("hooked") \in 0..2
  BY DEF At
<1>3. hooks <= 2 + failures
  BY <1>1, <1>2 DEF LateHooks
<1>4. hooks \in 0..(2 + failures) /\ (handle => hooks > 0)
  BY <1>1, <1>3 DEF LateHooks
<1>5. QED BY <1>4 DEF TypeOK, Counted, Placed, Flags

LEMMA PlacedKept == Placed /\ [Next]_vars => Placed'
<1>. SUFFICES ASSUME Placed, [Next]_vars PROVE Placed'
  OBVIOUS
<1>. USE DEF Placed
<1>1. CASE UNCHANGED vars
  BY <1>1 DEF vars, queue, waker, game
<1>2. CASE Enqueue \/ Schedule \/ ReaderWakes
  BY <1>2 DEF Enqueue, Schedule, ReaderWakes, queue, waker, game
<1>3. CASE ReaderHooks \/ ReaderStores
  BY <1>3 DEF ReaderHooks, ReaderStores, Install, Store, waker, game
<1>4. CASE MainHooks \/ MainStores
  BY <1>4 DEF MainHooks, MainStores, Install, Store, queue, waker, game
<1>5. CASE StageTick \/ GetMessage
  <2>1. main' \in {"idle", "hook", "drain"}
    BY <1>5 DEF StageTick, GetMessage, EnterPump
  <2>2. UNCHANGED <<reader, waker, game>>
    BY <1>5 DEF StageTick, GetMessage, queue
  <2>3. QED BY <2>1, <2>2 DEF waker, game
<1>6. CASE Drain
  <2>1. main' \in {"drain", "pass"} /\ UNCHANGED <<reader, scene>>
    BY <1>6 DEF Drain, game
  <2>2. wake' \in {"off", "check", "sleep", "exit"}
    BY <1>6 DEF Drain, StartWakeup, waker
  <2>3. QED BY <2>1, <2>2
<1>7. CASE Pass
  BY <1>7 DEF Pass, queue, waker, game
<1>8. CASE WakerNext \/ WakeGivesUp
  BY <1>8 DEF WakerNext, WakeCheck, WakeSleeps, WakeExits, WakeGivesUp, queue, waker, game
<1>9. CASE GameNext \/ Fade \/ LeaveLobby
  BY <1>9 DEF GameNext, FadeEnds, EnterLobby, Fade, LeaveLobby, queue, waker, game
<1>10. QED
  BY <1>1, <1>2, <1>3, <1>4, <1>5, <1>6, <1>7, <1>8, <1>9
  DEF Next, ReaderNext, MainNext

LEMMA FlagsKept == Flags /\ [Next]_vars => Flags'
<1>. SUFFICES ASSUME Flags, [Next]_vars PROVE Flags'
  OBVIOUS
<1>. USE DEF Flags
<1>1. CASE UNCHANGED vars
  BY <1>1 DEF vars, hook, flow, waker, game
<1>2. CASE Enqueue \/ Schedule \/ ReaderWakes
  BY <1>2 DEF Enqueue, Schedule, ReaderWakes, hook, flow, waker, game
<1>3. CASE ReaderHooks \/ MainHooks
  BY <1>3 DEF ReaderHooks, MainHooks, flow, waker, game
<1>4. CASE ReaderStores \/ MainStores
  <2>1. handle' \in BOOLEAN
    BY <1>4, Zenon DEF ReaderStores, MainStores, Store
  <2>2. UNCHANGED <<mainKnown, posted, flow, waker, game>>
    BY <1>4 DEF ReaderStores, MainStores
  <2>3. QED BY <2>1, <2>2 DEF flow, waker, game
<1>5. CASE StageTick \/ GetMessage
  <2>1. mainKnown' \in BOOLEAN /\ handle' \in BOOLEAN /\ posted' \in BOOLEAN
    BY <1>5, Zenon DEF StageTick, GetMessage, EnterPump, hook
  <2>2. UNCHANGED <<flow, waker, game>>
    BY <1>5 DEF StageTick, GetMessage
  <2>3. QED BY <2>1, <2>2 DEF flow, waker, game
<1>6. CASE Drain
  <2>1. /\ pending' \in BOOLEAN /\ didSelect' \in BOOLEAN
        /\ didRequest' \in BOOLEAN /\ didNotify' \in BOOLEAN
    BY <1>6, Zenon DEF Drain, flow
  <2>2. unwoken' \in BOOLEAN
    BY <1>6, Zenon DEF Drain, StartWakeup, waker
  <2>3. UNCHANGED <<mainKnown, handle, posted, locked, moving>>
    BY <1>6 DEF Drain, hook, game
  <2>4. QED BY <2>1, <2>2, <2>3
<1>7. CASE Pass
  <2>1. /\ pending' \in BOOLEAN /\ didSelect' \in BOOLEAN
        /\ didRequest' \in BOOLEAN /\ didNotify' \in BOOLEAN
    BY <1>7, Zenon DEF Pass, ClearFlow, flow
  <2>2. unwoken' \in BOOLEAN /\ moving' \in BOOLEAN
    BY <1>7, Zenon DEF Pass, waker
  <2>3. UNCHANGED <<mainKnown, handle, posted, locked>>
    BY <1>7 DEF Pass, hook
  <2>4. QED BY <2>1, <2>2, <2>3
<1>8. CASE WakerNext \/ WakeGivesUp
  <2>1. posted' \in BOOLEAN /\ unwoken' \in BOOLEAN
    BY <1>8, Zenon DEF WakerNext, WakeCheck, WakeSleeps, WakeExits, WakeGivesUp
  <2>2. UNCHANGED <<hook, flow, game>>
    BY <1>8 DEF WakerNext, WakeCheck, WakeSleeps, WakeExits, WakeGivesUp
  <2>3. QED BY <2>1, <2>2 DEF hook, flow, game
<1>9. CASE GameNext \/ Fade \/ LeaveLobby
  <2>1. locked' \in BOOLEAN /\ moving' \in BOOLEAN
    BY <1>9, Zenon DEF GameNext, FadeEnds, EnterLobby, Fade, LeaveLobby
  <2>2. UNCHANGED <<hook, posted, flow, waker>>
    BY <1>9 DEF GameNext, FadeEnds, EnterLobby, Fade, LeaveLobby
  <2>3. QED BY <2>1, <2>2 DEF hook, flow, waker
<1>10. QED
  BY <1>1, <1>2, <1>3, <1>4, <1>5, <1>6, <1>7, <1>8, <1>9
  DEF Next, ReaderNext, MainNext

(* Who counts *)
LEMMA CountedKept == Counted /\ [Next]_vars => Counted'
<1>. SUFFICES ASSUME Counted, [Next]_vars PROVE Counted'
  OBVIOUS
<1>0. /\ QueueSize \in Nat /\ MaxCommands \in Nat /\ MaxFailures \in Nat
      /\ MaxGameEvents \in Nat
  BY NavAssumption
<1>. USE <1>0 DEF Counted
<1>1. CASE UNCHANGED vars
  BY <1>1 DEF vars, queue, hook, game
<1>2. CASE Enqueue
  BY <1>2 DEF Enqueue, hook, game
<1>3. CASE ReaderNext
  <2>1. CASE ReaderHooks
    BY <2>1 DEF ReaderHooks, Install, Fails, game
  <2>2. QED
    BY <1>3, <2>1 DEF ReaderNext, Schedule, ReaderStores, ReaderWakes, hook, game
<1>4. CASE MainHooks
  BY <1>4 DEF MainHooks, Install, Fails, queue, game
<1>5. CASE StageTick \/ MainStores
  BY <1>5 DEF StageTick, EnterPump, MainStores, queue, game
<1>6. CASE GetMessage
  BY <1>6 DEF GetMessage, EnterPump, queue, hook, game
<1>7. CASE Drain
  BY <1>7 DEF Drain, hook, game
<1>8. CASE Pass
  BY <1>8 DEF Pass, queue, hook
<1>9. CASE WakerNext \/ WakeGivesUp
  BY <1>9 DEF WakerNext, WakeCheck, WakeSleeps, WakeExits, WakeGivesUp, queue, hook, game
<1>10. CASE GameNext \/ Fade \/ LeaveLobby
  BY <1>10 DEF GameNext, FadeEnds, EnterLobby, Fade, LeaveLobby, GameEvent, queue, hook
<1>11. QED
  BY <1>1, <1>2, <1>3, <1>4, <1>5, <1>6, <1>7, <1>8, <1>9, <1>10 DEF Next, MainNext

(* Who installs a hook, and who stores its handle *)
LEMMA HooksKept ==
  ASSUME Counted, Placed, Flags, LateHooks, [Next]_vars
  PROVE  LateHooks'
<1>0. hooks \in Nat /\ failures \in Nat /\ handle \in BOOLEAN
  BY NavAssumption DEF Counted, Flags
<1>. USE <1>0
<1>1. ASSUME UNCHANGED <<handle, hooks, failures>>,
             At("hooked")' = At("hooked") /\ At("null")' = At("null"),
             At("hook")' = At("hook") \/ ~handle
      PROVE  LateHooks'
  BY <1>1 DEF LateHooks
<1>2. CASE UNCHANGED <<reader, main, handle, hooks, failures>>
  BY <1>1, <1>2 DEF At
<1>3. CASE Schedule
  <2>1. /\ UNCHANGED <<main, handle, hooks, failures>> /\ reader = "sched"
        /\ reader' = "wake" \/ (reader' = "hook" /\ ~handle)
    BY <1>3 DEF Schedule, hook
  <2>2. QED BY <1>1, <2>1 DEF At
<1>4. CASE StageTick \/ GetMessage
  <2>1. /\ UNCHANGED <<reader, handle, hooks, failures>> /\ main = "idle"
        /\ main' \in {"idle", "drain"} \/ (main' = "hook" /\ ~handle)
    BY <1>4 DEF StageTick, GetMessage, EnterPump, hook, queue
  <2>2. QED BY <1>1, <2>1 DEF At
<1>5. CASE ReaderHooks
  <2>1. /\ reader = "hook" /\ UNCHANGED <<main, handle>>
        /\ \/ hooks' = hooks /\ failures' = failures + 1 /\ reader' \in {"wake", "null"}
           \/ hooks' = hooks + 1 /\ failures' = failures /\ reader' = "hooked"
    BY <1>5 DEF ReaderHooks, Install, Fails
  <2>2. QED BY <2>1 DEF LateHooks, At
<1>6. CASE MainHooks
  <2>1. /\ main = "hook" /\ UNCHANGED <<reader, handle>>
        /\ \/ hooks' = hooks /\ failures' = failures + 1 /\ main' \in {"drain", "null"}
           \/ hooks' = hooks + 1 /\ failures' = failures /\ main' = "hooked"
    BY <1>6 DEF MainHooks, Install, Fails, queue
  <2>2. QED BY <2>1 DEF LateHooks, At
<1>7. CASE ReaderStores
  <2>1. /\ reader \in {"hooked", "null"} /\ handle' = (reader = "hooked") /\ reader' = "wake"
        /\ UNCHANGED <<main, hooks, failures>>
    BY <1>7 DEF ReaderStores, Store
  <2>2. CASE reader = "hooked"
    <3>0. At("hooked") > 0
      BY <2>2 DEF At
    <3>1. handle' /\ hooks > 0
      BY <2>1, <2>2, <3>0 DEF LateHooks
    <3>2. /\ At("hook")' = (IF main = "hook" THEN 1 ELSE 0) /\ At("hook") = At("hook")'
          /\ At("null")' = (IF main = "null" THEN 1 ELSE 0) /\ At("null") = At("null")'
          /\ At("hooked") = 1 + (IF main = "hooked" THEN 1 ELSE 0)
      BY <2>1, <2>2 DEF At
    <3>3. hooks + At("hook")' + 2 * At("null")' <= 2 + failures
      BY <3>2 DEF LateHooks
    <3>4. QED BY <2>1, <3>1, <3>3 DEF LateHooks
  <2>3. CASE reader = "null"
    BY <2>1, <2>3 DEF LateHooks, At
  <2>4. QED BY <2>1, <2>2, <2>3
<1>8. CASE MainStores
  <2>1. /\ main \in {"hooked", "null"} /\ handle' = (main = "hooked") /\ main' = "drain"
        /\ UNCHANGED <<reader, hooks, failures>>
    BY <1>8 DEF MainStores, Store, queue
  <2>2. CASE main = "hooked"
    <3>0. At("hooked") > 0
      BY <2>2 DEF At
    <3>1. handle' /\ hooks > 0
      BY <2>1, <2>2, <3>0 DEF LateHooks
    <3>2. /\ At("hook")' = (IF reader = "hook" THEN 1 ELSE 0) /\ At("hook") = At("hook")'
          /\ At("null")' = (IF reader = "null" THEN 1 ELSE 0) /\ At("null") = At("null")'
          /\ At("hooked") = 1 + (IF reader = "hooked" THEN 1 ELSE 0)
      BY <2>1, <2>2 DEF At
    <3>3. hooks + At("hook")' + 2 * At("null")' <= 2 + failures
      BY <3>2 DEF LateHooks
    <3>4. QED BY <2>1, <3>1, <3>3 DEF LateHooks
  <2>3. CASE main = "null"
    BY <2>1, <2>3 DEF LateHooks, At
  <2>4. QED BY <2>1, <2>2, <2>3
<1>9. CASE Enqueue \/ ReaderWakes
  <2>1. /\ UNCHANGED <<main, handle, hooks, failures>>
        /\ \A place \in {"hook", "hooked", "null"} : (reader = place) = (reader' = place)
    BY <1>9 DEF Enqueue, ReaderWakes, hook
  <2>2. QED BY <1>1, <2>1 DEF At
<1>10. CASE Drain \/ Pass
  <2>1. /\ UNCHANGED <<reader, handle, hooks, failures>>
        /\ \A place \in {"hook", "hooked", "null"} : (main = place) = (main' = place)
    BY <1>10 DEF Drain, Pass, hook, queue
  <2>2. QED BY <1>1, <2>1 DEF At
<1>11. CASE WakerNext \/ WakeGivesUp
  BY <1>2, <1>11 DEF WakerNext, WakeCheck, WakeSleeps, WakeExits, WakeGivesUp, queue, hook
<1>12. CASE GameNext \/ Fade \/ LeaveLobby
  BY <1>2, <1>12 DEF GameNext, FadeEnds, EnterLobby, Fade, LeaveLobby, queue, hook
<1>13. CASE UNCHANGED vars
  BY <1>2, <1>13 DEF vars, queue, hook
<1>14. QED
  BY <1>3, <1>4, <1>5, <1>6, <1>7, <1>8, <1>9, <1>10, <1>11, <1>12, <1>13
  DEF Next, ReaderNext, MainNext

(* Who sends *)
LEMMA FlowKept == IInv /\ [Next]_vars => SentInOrder' /\ FlagsTell'
<1>. SUFFICES ASSUME IInv, [Next]_vars PROVE SentInOrder' /\ FlagsTell'
  OBVIOUS
<1>1. CASE UNCHANGED flow
  BY <1>1 DEF IInv, flow, SentInOrder, FlagsTell
<1>2. CASE Drain
  <2>1. \/ UNCHANGED flow
        \/ /\ didSelect' = FALSE /\ didRequest' = FALSE /\ didNotify' = FALSE
           /\ sent' = <<>>
    BY <1>2 DEF Drain
  <2>2. QED BY <1>1, <2>1 DEF SentInOrder, FlagsTell
<1>3. CASE Pass /\ pending /\ scene = "lobby"
  <2>1. sent' \in {<<"select", "request", "notify">>, <<"select", "notify">>} /\ ClearFlow
    BY <1>3, PassSends DEF Pass
  <2>2. QED BY <2>1 DEF ClearFlow, SentInOrder, FlagsTell
<1>4. CASE Pass /\ pending /\ scene # "lobby"
  <2>1. /\ sent' = IF didRequest \/ ~locked THEN <<"select", "request">> ELSE <<"select">>
        /\ didSelect' = TRUE /\ didRequest' = (didRequest \/ ~locked) /\ UNCHANGED didNotify
    BY <1>4, PassSends DEF Pass
  <2>2. QED BY <2>1 DEF IInv, SentInOrder, FlagsTell
<1>5. CASE Pass /\ ~pending
  BY <1>1, <1>5 DEF Pass
<1>6. CASE ~Drain /\ ~Pass
  <2>1. ASSUME Enqueue \/ ReaderNext PROVE UNCHANGED flow
    BY <2>1 DEF Enqueue, ReaderNext, Schedule, ReaderHooks, ReaderStores, Install, Store, ReaderWakes
  <2>2. ASSUME StageTick \/ GetMessage \/ MainHooks \/ MainStores PROVE UNCHANGED flow
    BY <2>2 DEF StageTick, GetMessage, MainHooks, MainStores
  <2>3. ASSUME WakerNext \/ WakeGivesUp PROVE UNCHANGED flow
    BY <2>3 DEF WakerNext, WakeCheck, WakeSleeps, WakeExits, WakeGivesUp
  <2>4. ASSUME GameNext \/ Fade \/ LeaveLobby PROVE UNCHANGED flow
    BY <2>4 DEF GameNext, FadeEnds, EnterLobby, Fade, LeaveLobby
  <2>5. UNCHANGED flow
    BY <1>6, <2>1, <2>2, <2>3, <2>4 DEF Next, MainNext, vars
  <2>6. QED BY <1>1, <2>5
<1>7. QED BY <1>2, <1>3, <1>4, <1>5, <1>6

LEMMA InitInv == Init => IInv
<1>. SUFFICES ASSUME Init PROVE IInv
  OBVIOUS
<1>1. Counted
  BY NavAssumption DEF Init, Counted
<1>2. Placed /\ Flags
  BY DEF Init, Placed, Flags
<1>3. LateHooks /\ SentInOrder /\ FlagsTell
  BY DEF Init, LateHooks, At, SentInOrder, FlagsTell
<1>4. QED BY <1>1, <1>2, <1>3 DEF IInv

LEMMA InvKept == IInv /\ [Next]_vars => IInv'
<1>. SUFFICES ASSUME IInv, [Next]_vars PROVE IInv'
  OBVIOUS
<1>1. Counted /\ Placed /\ Flags /\ LateHooks
  BY DEF IInv
<1>2. Counted' /\ Placed' /\ Flags' /\ LateHooks'
  BY <1>1, CountedKept, HooksKept, PlacedKept, FlagsKept
<1>3. QED BY <1>2, FlowKept DEF IInv

LEMMA Inv == Spec => []IInv
  BY InitInv, InvKept, PTL DEF Spec

(* The flow's variables keep their types.  Reader and main thread install  *)
(* two message hooks at most, and at most one more for every installation  *)
(* that failed, although a failure clears the handle of a hook that is     *)
(* there; a handle always stands for a hook.  However long the queue and   *)
(* however many commands, fades and failures there are.                    *)
THEOREM TypeCorrect == Spec => []TypeOK
<1>1. IInv => TypeOK
  BY HookBound DEF IInv
<1>2. QED BY <1>1, Inv, PTL

(* The command drained last sends its messages in the order select,        *)
(* request, notify, and none of them twice.                                *)
THEOREM OrderTheorem == Spec => []SentInOrder
<1>1. IInv => SentInOrder
  BY DEF IInv
<1>2. QED BY <1>1, Inv, PTL
=============================================================================
