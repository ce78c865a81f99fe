--------------------------- MODULE DiagnosticsProofs ---------------------------
(***************************************************************************)
(* Types, whole lines, the single start, the one connection and the stage  *)
(* told of Diagnostics, for any number of threads, NamedPipe objects,      *)
(* attempts, events and sessions.                                          *)
(***************************************************************************)
EXTENDS Diagnostics, FiniteSetTheorems, TLAPS

(* A pipe of the controller takes one client: at most one object, or one   *)
(* thread on its way there, holds the latest one, and none as long as the  *)
(* controller listens.                                                     *)
Holds(p)  == handle[p] = sessions
Opened(t) == opened[t] = sessions

OneClient ==
  /\ \A p \in Pipes : handle[p] <= sessions
  /\ \A t \in Threads : opened[t] <= sessions
  /\ peer = "listening" => /\ \A p \in Pipes : ~Holds(p)
                           /\ \A t \in Threads : ~Opened(t)
  /\ sessions > 0 => /\ \A p, q \in Pipes : Holds(p) /\ Holds(q) => p = q
                     /\ \A t, u \in Threads : Opened(t) /\ Opened(u) => t = u
                     /\ \A p \in Pipes, t \in Threads : ~(Holds(p) /\ Opened(t))

(* Who writes has the lock of his object, unless it is an exception. *)
WritesLocked ==
  \A t \in Threads : pc[t] \in {"text", "newline"} /\ ev[t] # "exception" => lock[mine[t]] = t

(* Before the first exception, a line without its end is one whose writer  *)
(* is about to end it through the object that holds the session; or nobody *)
(* holds the session any more.                                             *)
Lost == /\ \A p \in Pipes : ~Holds(p)
        /\ \A t \in Threads : ~Opened(t)

HalfLine ==
  ~unlocked =>
    /\ ~torn
    /\ \A t \in Threads : pc[t] = "newline" => ev[t] # "exception"
    /\ half # Null => /\ peer = "open" /\ sessions > 0
                      /\ (pc[half] = "newline" /\ Holds(mine[half])) \/ Lost

(* As long as the two startups did not overlap *)
OneStartup ==
  ~overlap =>
    /\ \A t, u \in Threads : InStartup(t) /\ InStartup(u) => t = u
    /\ \A t \in Threads : InStartup(t) /\ ev[t] = "startup" => ~started
    /\ \A t \in Threads : pc[t] = "adding" => ~veh
    /\ handlers = IF veh THEN 1 ELSE 0
    /\ hellos <= 1 /\ (~started => hellos = 0)

(* Main is at rest when it is let loose, and a startup is one until its    *)
(* hello.                                                                  *)
MainWaits == phase \in {"attach", "loaded"} => pc[Main] = "rest"

Handlers == \A t \in Threads : pc[t] \in {"veh", "adding"} => ev[t] = "startup"

-----------------------------------------------------------------------------
LEMMA ThreadsFinite == IsFiniteSet(Threads)
  <1>1. IsFiniteSet(Others)  BY DiagnosticsAssumption
  <1>2. IsFiniteSet(Others \cup {Main})  BY <1>1, FS_AddElement
  <1>3. IsFiniteSet((Others \cup {Main}) \cup {Poll})  BY <1>2, FS_AddElement
  <1>4. Threads = (Others \cup {Main}) \cup {Poll}  BY DEF Threads
  <1>5. QED  BY <1>3, <1>4

(* There are more objects than threads: as long as g_pipe is null, one of  *)
(* them is nobody's.                                                       *)
LEMMA FreshIsNobodys ==
  ASSUME mine \in [Threads -> Pipes \cup {Null}], gpipe = Null
  PROVE  Fresh \in Pipes /\ \A t \in Threads : mine[t] # Fresh
  <1> DEFINE Named == {mine[t] : t \in Threads}
  <1>1. mine \in Surjection(Threads, Named)
    BY DEF Surjection
  <1>2. IsFiniteSet(Named) /\ Cardinality(Named) <= Cardinality(Threads)
    BY <1>1, ThreadsFinite, FS_Surjection
  <1>3. ~(Pipes \subseteq Named)
    <2> SUFFICES ASSUME Pipes \subseteq Named PROVE FALSE
      OBVIOUS
    <2>1. Cardinality(Pipes) <= Cardinality(Named)
      BY <1>2, FS_Subset
    <2>2. Cardinality(Pipes) \in Nat /\ Cardinality(Named) \in Nat /\ Cardinality(Threads) \in Nat
      BY <1>2, ThreadsFinite, FS_CardinalityType, DiagnosticsAssumption
    <2>3. Cardinality(Pipes) > Cardinality(Threads)
      BY DiagnosticsAssumption
    <2>4. QED  BY <2>1, <2>2, <2>3, <1>2
  <1>4. PICK p \in Pipes : p # gpipe /\ \A t \in Threads : mine[t] # p
    <2>1. Null \notin Pipes  BY DiagnosticsAssumption
    <2>2. QED  BY <1>3, <2>1
  <1>5. QED  BY <1>4 DEF Fresh

-----------------------------------------------------------------------------
(* The types, in groups the provers can take *)
Places == {"rest", "veh", "adding", "connect", "made", "try", "store", "settle", "resolve",
           "enter", "text", "newline", "crashed"}

TypeThreads ==
  /\ pc \in [Threads -> Places]
  /\ ev \in [Threads -> Emits \cup {"startup"}]
  /\ mine \in [Threads -> Pipes \cup {Null}]
  /\ got \in [Threads -> BOOLEAN]
TypeMine == \A t \in Threads : pc[t] \in {"made", "store", "enter", "text", "newline"}
                                => mine[t] \in Pipes
TypeCounts ==
  /\ opened \in [Threads -> 0..MaxSessions]
  /\ tries \in [Threads -> 0..Tries]
  /\ rounds \in 0..Rounds /\ events \in 0..MaxEvents
  /\ sessions \in 0..MaxSessions
  /\ peer \in {"absent", "listening", "open"}
  /\ peer # "absent" => sessions # 0
TypeObjects ==
  /\ gpipe \in Pipes \cup {Null}
  /\ handle \in [Pipes -> 0..MaxSessions]
  /\ lock \in [Pipes -> Threads \cup {Null}]
TypeGlobals ==
  /\ started \in BOOLEAN /\ veh \in BOOLEAN /\ handling \in BOOLEAN
  /\ last \in StageSet \cup {Null}
  /\ phase \in {"attach", "boot", "loaded", "entered"}
  /\ half \in Threads \cup {Null} /\ told \in StageSet \cup {Null}
  /\ torn \in BOOLEAN
TypeHistory ==
  /\ raced \in BOOLEAN /\ overlap \in BOOLEAN /\ mixed \in BOOLEAN
  /\ unlocked \in BOOLEAN
  /\ handlers \in Nat /\ hellos \in Nat /\ readers \in {0, 1}

Typed == TypeThreads /\ TypeMine /\ TypeCounts /\ TypeObjects /\ TypeGlobals /\ TypeHistory

LEMMA TypeGroups == Typed <=> TypeOK
  BY Zenon DEF Typed, TypeOK, TypeThreads, TypeMine, TypeCounts, TypeObjects, TypeGlobals,
     TypeHistory, Places

LEMMA TypeInit == Init => Typed
  <1> SUFFICES ASSUME Init PROVE Typed
    OBVIOUS
  <1>1. /\ Tries \in Nat /\ Rounds \in Nat /\ MaxEvents \in Nat /\ MaxSessions \in Nat
    BY DiagnosticsAssumption
  <1>2. TypeThreads  BY DEF Init, TypeThreads, Places, Emits
  <1>3. TypeMine  BY DEF Init, TypeMine
  <1>4. TypeCounts  BY <1>1 DEF Init, TypeCounts
  <1>5. TypeObjects  BY <1>1 DEF Init, TypeObjects
  <1>6. TypeGlobals  BY DEF Init, TypeGlobals
  <1>7. TypeHistory  BY DEF Init, TypeHistory
  <1>8. QED  BY <1>2, <1>3, <1>4, <1>5, <1>6, <1>7 DEF Typed

LEMMA CountsAreNat ==
  /\ Tries \in Nat /\ Rounds \in Nat /\ MaxEvents \in Nat /\ MaxSessions \in Nat
  /\ 0 \in 0..Tries /\ 0 \in 0..MaxSessions
  <1>1. Tries \in Nat /\ Rounds \in Nat /\ MaxEvents \in Nat /\ MaxSessions \in Nat
    BY DiagnosticsAssumption
  <1>2. QED  BY <1>1

LEMMA BeginTypes ==
  ASSUME TypeThreads, NEW t \in Threads, NEW event \in Emits, Begin(t, event),
         UNCHANGED <<mine, got>>
  PROVE  TypeThreads'
  <1>1. pc' \in [Threads -> Places]
    BY DEF TypeThreads, Begin, Goto, Places
  <1>2. ev' \in [Threads -> Emits \cup {"startup"}]
    BY DEF TypeThreads, Begin
  <1>3. QED  BY <1>1, <1>2 DEF TypeThreads

LEMMA EnterTypes ==
  ASSUME TypeThreads, TypeCounts, NEW t \in Threads, EnterStartup(t)
  PROVE  TypeThreads' /\ tries' \in [Threads -> 0..Tries] /\ overlap' \in BOOLEAN
  <1>1. TypeThreads'
    BY DEF TypeThreads, EnterStartup, Goto, Places
  <1>2. tries' \in [Threads -> 0..Tries]
    BY CountsAreNat DEF TypeCounts, EnterStartup
  <1>3. QED  BY <1>1, <1>2 DEF EnterStartup

LEMMA DoneTypes ==
  ASSUME TypeThreads, TypeHistory, NEW t \in Threads, Done(t)
  PROVE  TypeThreads' /\ handling' \in BOOLEAN /\ mixed' \in BOOLEAN /\ readers' \in {0, 1}
  <1>1. TypeThreads'
    <2>1. pc' \in [Threads -> Places]
      BY DEF TypeThreads, Done, Goto, Places
    <2>2. ev' \in [Threads -> Emits \cup {"startup"}]
      BY DEF TypeThreads, Done, Emits, StageSet
    <2>3. mine' \in [Threads -> Pipes \cup {Null}] /\ got' \in [Threads -> BOOLEAN]
      BY DEF TypeThreads, Done
    <2>4. QED  BY <2>1, <2>2, <2>3 DEF TypeThreads
  <1>2. handling' \in BOOLEAN
    BY DEF Done
  <1>3. mixed' \in BOOLEAN
    BY DEF Done
  <1>4. readers' \in {0, 1}
    BY DEF Done, TypeHistory
  <1>5. QED  BY <1>1, <1>2, <1>3, <1>4, Zenon

LEMMA LeakTypes ==
  ASSUME handle \in [Pipes -> 0..MaxSessions], Leak
  PROVE  handle' \in [Pipes -> 0..MaxSessions]
  BY CountsAreNat DEF Leak

LEMMA OpensTypes ==
  TypeCounts => Opens \in 0..MaxSessions
  BY CountsAreNat DEF Opens, TypeCounts

LEMMA TypeStep == Typed /\ [Next]_vars => Typed'
  <1> SUFFICES ASSUME Typed, [Next]_vars PROVE Typed'
    OBVIOUS
  <1>0. TypeThreads /\ TypeMine /\ TypeCounts /\ TypeObjects /\ TypeGlobals /\ TypeHistory
    BY DEF Typed
  <1>1. ASSUME BootLogs PROVE Typed'
    <2>1. TypeThreads'
      <3>1. "log" \in Emits /\ Main \in Threads
        BY DEF Emits, Threads
      <3>2. QED  BY <1>0, <1>1, <3>1, BeginTypes DEF BootLogs
    <2>2. TypeMine'
      BY <1>0, <1>1 DEF BootLogs, Begin, Goto, object, globals, ctl, TypeMine, TypeThreads
    <2>3. TypeGlobals'
      BY <1>0, <1>1 DEF BootLogs, Begin, Goto, object, globals, ctl, TypeGlobals,
         TypeThreads, StageSet, Emits
    <2>4. TypeHistory'
      BY <1>0, <1>1 DEF BootLogs, Begin, Goto, object, globals, ctl, TypeHistory
    <2>5. TypeCounts' /\ TypeObjects'
      BY <1>0, <1>1 DEF BootLogs, object, globals, ctl, TypeCounts, TypeObjects
    <2>6. QED  BY <2>1, <2>2, <2>3, <2>4, <2>5 DEF Typed
  <1>2. ASSUME Loaded PROVE Typed'
    <2>1. TypeGlobals'
      BY <1>0, <1>2 DEF Loaded, thread, object, globals, ctl, history, TypeGlobals,
         TypeThreads, StageSet, Emits
    <2>2. TypeThreads' /\ TypeMine' /\ TypeCounts' /\ TypeObjects' /\ TypeHistory'
      BY <1>0, <1>2 DEF Loaded, thread, object, globals, ctl, history, TypeThreads,
         TypeMine, TypeCounts, TypeObjects, TypeHistory
    <2>3. QED  BY <2>1, <2>2 DEF Typed
  <1>3. ASSUME EntryPoint PROVE Typed'
    <2>1. TypeThreads'
      BY <1>0, <1>3 DEF EntryPoint, EnterStartup, Goto, object, globals, ctl, thread,
         history, TypeThreads, Places, Emits, StageSet
    <2>2. TypeMine'
      BY <1>0, <1>3 DEF EntryPoint, EnterStartup, Goto, object, globals, ctl, thread,
         history, TypeMine, TypeThreads
    <2>3. TypeCounts'
      BY <1>0, <1>3, CountsAreNat, EnterTypes DEF EntryPoint, EnterStartup, Goto,
         object, globals, ctl, thread, history, TypeCounts
    <2>4. TypeObjects'
      BY <1>0, <1>3 DEF EntryPoint, EnterStartup, Goto, object, globals, ctl, thread,
         history, TypeObjects, TypeMine, TypeThreads
    <2>5. TypeGlobals'
      BY <1>0, <1>3 DEF EntryPoint, EnterStartup, Goto, object, globals, ctl, thread,
         history, TypeGlobals, TypeThreads, StageSet, Emits
    <2>6. TypeHistory'
      BY <1>0, <1>3 DEF EntryPoint, EnterStartup, Goto, object, globals, ctl, thread,
         history, TypeHistory
    <2>7. QED  BY <2>1, <2>2, <2>3, <2>4, <2>5, <2>6 DEF Typed
  <1>4. ASSUME PollRound PROVE Typed'
    <2>1. TypeThreads'
      BY <1>0, <1>4 DEF PollRound, EnterStartup, Goto, object, globals, ctl,
         TypeThreads, Places, Emits, StageSet
    <2>2. TypeMine'
      BY <1>0, <1>4 DEF PollRound, EnterStartup, Goto, object, globals, ctl, TypeMine,
         TypeThreads
    <2>3. TypeCounts'
      <3>1. Poll \in Threads
        BY DEF Threads
      <3>2. tries' \in [Threads -> 0..Tries]
        BY <1>0, <1>4, <3>1, EnterTypes DEF PollRound
      <3>3. QED  BY <1>0, <1>4, <3>2, CountsAreNat DEF PollRound, EnterStartup, ctl,
         TypeCounts
    <2>4. TypeHistory'
      BY <1>0, <1>4 DEF PollRound, EnterStartup, Goto, object, globals, ctl, TypeHistory
    <2>5. TypeObjects' /\ TypeGlobals'
      BY <1>0, <1>4 DEF PollRound, EnterStartup, object, globals, ctl, TypeObjects,
         TypeGlobals
    <2>6. QED  BY <2>1, <2>2, <2>3, <2>4, <2>5 DEF Typed
  <1>5. ASSUME Listen PROVE Typed'
    <2>1. TypeCounts'
      BY <1>0, <1>5, CountsAreNat DEF Listen, thread, object, globals, process,
         history, TypeCounts
    <2>2. TypeThreads' /\ TypeMine' /\ TypeObjects' /\ TypeGlobals' /\ TypeHistory'
      BY <1>0, <1>5 DEF Listen, thread, object, globals, process, history, TypeThreads,
         TypeMine, TypeObjects, TypeGlobals, TypeHistory
    <2>3. QED  BY <2>1, <2>2 DEF Typed
  <1>6. ASSUME HangUp PROVE Typed'
    <2>1. TypeCounts'
      BY <1>0, <1>6, CountsAreNat DEF HangUp, thread, object, globals, process,
         history, TypeCounts
    <2>2. TypeGlobals'
      BY <1>0, <1>6 DEF HangUp, thread, object, globals, process, history, TypeGlobals,
         TypeThreads, StageSet, Emits
    <2>3. TypeThreads' /\ TypeMine' /\ TypeObjects' /\ TypeHistory'
      BY <1>0, <1>6 DEF HangUp, thread, object, globals, process, history, TypeThreads,
         TypeMine, TypeObjects, TypeHistory
    <2>4. QED  BY <2>1, <2>2, <2>3 DEF Typed
  <1>7. ASSUME NEW t \in Threads, NEW stage \in Stages, Stage(t, stage) PROVE Typed'
    <2>1. TypeThreads'
      <3>1. stage \in Emits
        BY DEF Emits, StageSet
      <3>2. QED  BY <1>0, <1>7, <3>1, BeginTypes DEF Stage
    <2>2. TypeMine'
      BY <1>0, <1>7 DEF Stage, Begin, Goto, object, globals, ctl, TypeMine, TypeThreads
    <2>3. TypeCounts'
      BY <1>0, <1>7, CountsAreNat DEF Stage, Begin, Goto, object, globals, ctl, TypeCounts
    <2>4. TypeHistory'
      BY <1>0, <1>7 DEF Stage, Begin, Goto, object, globals, ctl, TypeHistory
    <2>5. TypeObjects' /\ TypeGlobals'
      BY <1>0, <1>7 DEF Stage, object, globals, ctl, TypeObjects, TypeGlobals
    <2>6. QED  BY <2>1, <2>2, <2>3, <2>4, <2>5 DEF Typed
  <1>8. ASSUME NEW t \in Threads, Log(t) PROVE Typed'
    <2>1. TypeThreads'
      <3>1. "log" \in Emits
        BY DEF Emits, StageSet
      <3>2. QED  BY <1>0, <1>8, <3>1, BeginTypes DEF Log
    <2>2. TypeMine'
      BY <1>0, <1>8 DEF Log, Begin, Goto, object, globals, ctl, TypeMine, TypeThreads
    <2>3. TypeCounts'
      BY <1>0, <1>8, CountsAreNat DEF Log, Begin, Goto, object, globals, ctl, TypeCounts
    <2>4. TypeHistory'
      BY <1>0, <1>8 DEF Log, Begin, Goto, object, globals, ctl, TypeHistory
    <2>5. TypeObjects' /\ TypeGlobals'
      BY <1>0, <1>8 DEF Log, object, globals, ctl, TypeObjects, TypeGlobals
    <2>6. QED  BY <2>1, <2>2, <2>3, <2>4, <2>5 DEF Typed
  <1>9. ASSUME NEW t \in Threads, Fault(t) PROVE Typed'
    <2>1. TypeThreads'
      <3>1. "exception" \in Emits
        BY DEF Emits, StageSet
      <3>2. QED  BY <1>0, <1>9, <3>1, BeginTypes DEF Fault
    <2>2. TypeMine'
      BY <1>0, <1>9 DEF Fault, Begin, Goto, object, ctl, TypeMine, TypeThreads
    <2>3. TypeCounts'
      BY <1>0, <1>9, CountsAreNat DEF Fault, Begin, Goto, object, ctl, TypeCounts
    <2>4. TypeObjects'
      BY <1>0, <1>9 DEF Fault, Begin, Goto, object, ctl, TypeObjects, TypeMine,
         TypeThreads
    <2>5. TypeGlobals'
      BY <1>0, <1>9 DEF Fault, Begin, Goto, object, ctl, TypeGlobals, TypeThreads,
         StageSet, Emits
    <2>6. TypeHistory'
      BY <1>0, <1>9 DEF Fault, Begin, Goto, object, ctl, TypeHistory
    <2>7. QED  BY <2>1, <2>2, <2>3, <2>4, <2>5, <2>6 DEF Typed
  <1>10. ASSUME NEW t \in Threads, TestHandler(t) PROVE Typed'
    <2>1. TypeThreads'
      BY <1>0, <1>10 DEF TestHandler, Goto, object, globals, process, ctl, history,
         TypeThreads, Places, Emits, StageSet
    <2>2. TypeMine'
      BY <1>0, <1>10 DEF TestHandler, Goto, object, globals, process, ctl, history,
         TypeMine, TypeThreads
    <2>3. TypeCounts' /\ TypeObjects' /\ TypeGlobals' /\ TypeHistory'
      BY <1>0, <1>10 DEF TestHandler, object, globals, process, ctl, history,
         TypeCounts, TypeObjects, TypeGlobals, TypeHistory
    <2>4. QED  BY <2>1, <2>2, <2>3 DEF Typed
  <1>11. ASSUME NEW t \in Threads, AddHandler(t) PROVE Typed'
    <2>1. TypeThreads'
      BY <1>0, <1>11 DEF AddHandler, Goto, object, process, ctl, TypeThreads, Places,
         Emits, StageSet
    <2>2. TypeMine'
      BY <1>0, <1>11 DEF AddHandler, Goto, object, process, ctl, TypeMine, TypeThreads
    <2>3. TypeGlobals'
      BY <1>0, <1>11 DEF AddHandler, Goto, object, process, ctl, TypeGlobals,
         TypeThreads, StageSet, Emits
    <2>4. TypeHistory'
      BY <1>0, <1>11 DEF AddHandler, Goto, object, process, ctl, TypeHistory
    <2>5. TypeCounts' /\ TypeObjects'
      BY <1>0, <1>11 DEF AddHandler, object, process, ctl, TypeCounts, TypeObjects
    <2>6. QED  BY <2>1, <2>2, <2>3, <2>4, <2>5 DEF Typed
  <1>12. ASSUME NEW t \in Threads, Construct(t) PROVE Typed'
    <2>1. TypeThreads'
      <3>1. CASE gpipe = Null
        BY <1>0, <1>12, <3>1, FreshIsNobodys DEF Construct, Goto, TypeThreads, Places
      <3>2. CASE gpipe # Null
        BY <1>0, <1>12, <3>2 DEF Construct, Goto, TypeThreads, Places
      <3>3. QED  BY <3>1, <3>2
    <2>2. TypeMine'
      <3>1. CASE gpipe = Null
        BY <1>0, <1>12, <3>1, FreshIsNobodys DEF Construct, Goto, TypeThreads, TypeMine
      <3>2. CASE gpipe # Null
        BY <1>0, <1>12, <3>2 DEF Construct, Goto, TypeThreads, TypeMine
      <3>3. QED  BY <3>1, <3>2
    <2>3. TypeCounts'
      BY <1>0, <1>12, CountsAreNat, OpensTypes DEF Construct, Goto, PeerTook, Opens,
         globals, process, TypeCounts
    <2>4. TypeObjects'
      BY <1>0, <1>12, CountsAreNat, OpensTypes, FreshIsNobodys DEF Construct, Goto,
         PeerTook, Opens, globals, process, TypeObjects, TypeMine, TypeThreads
    <2>5. TypeGlobals'
      BY <1>0, <1>12 DEF Construct, Goto, PeerTook, Opens, globals, process,
         TypeGlobals, TypeThreads, StageSet, Emits
    <2>6. TypeHistory'
      BY <1>0, <1>12 DEF Construct, Goto, PeerTook, Opens, globals, process, TypeHistory
    <2>7. QED  BY <2>1, <2>2, <2>3, <2>4, <2>5, <2>6 DEF Typed
  <1>13. ASSUME NEW t \in Threads, Publish(t) PROVE Typed'
    <2>1. TypeThreads'
      BY <1>0, <1>13 DEF Publish, Goto, Leak, globals, process, ctl, history,
         TypeThreads, Places, Emits, StageSet
    <2>2. TypeMine'
      BY <1>0, <1>13 DEF Publish, Goto, Leak, globals, process, ctl, history, TypeMine,
         TypeThreads
    <2>3. TypeObjects'
      BY <1>0, <1>13, LeakTypes DEF Publish, Goto, Leak, globals, process, ctl,
         history, TypeObjects, TypeMine, TypeThreads
    <2>4. TypeCounts' /\ TypeGlobals' /\ TypeHistory'
      BY <1>0, <1>13 DEF Publish, globals, process, ctl, history, TypeCounts,
         TypeGlobals, TypeHistory
    <2>5. QED  BY <2>1, <2>2, <2>3, <2>4 DEF Typed
  <1>14. ASSUME NEW t \in Threads, TryConnect(t) PROVE Typed'
    <2>1. TypeThreads'
      <3>1. pc' \in [Threads -> Places]
        BY <1>0, <1>14 DEF TryConnect, Goto, TypeThreads, Places
      <3>2. mine' \in [Threads -> Pipes \cup {Null}] /\ got' \in [Threads -> BOOLEAN]
        BY <1>0, <1>14 DEF TryConnect, TypeThreads, TypeObjects
      <3>3. QED  BY <1>0, <1>14, <3>1, <3>2 DEF TryConnect, TypeThreads
    <2>2. TypeMine'
      <3>1. CASE gpipe = Null \/ Connected
        BY <1>0, <1>14, <3>1 DEF TryConnect, Goto, TypeMine, TypeThreads
      <3>2. CASE ~(gpipe = Null \/ Connected)
        BY <1>0, <1>14, <3>2 DEF TryConnect, Goto, TypeMine, TypeThreads, TypeObjects
      <3>3. QED  BY <3>1, <3>2
    <2>3. TypeCounts'
      BY <1>0, <1>14, CountsAreNat, OpensTypes DEF TryConnect, Goto, PeerTook, Opens,
         object, globals, process, history, TypeCounts
    <2>4. TypeObjects' /\ TypeGlobals' /\ TypeHistory'
      BY <1>0, <1>14 DEF TryConnect, object, globals, process, history, TypeObjects,
         TypeGlobals, TypeHistory
    <2>5. QED  BY <2>1, <2>2, <2>3, <2>4 DEF Typed
  <1>15. ASSUME NEW t \in Threads, StoreHandle(t) PROVE Typed'
    <2>1. TypeThreads'
      BY <1>0, <1>15 DEF StoreHandle, Goto, globals, process, ctl, history,
         TypeThreads, Places, Emits, StageSet
    <2>2. TypeMine'
      BY <1>0, <1>15 DEF StoreHandle, Goto, globals, process, ctl, history, TypeMine,
         TypeThreads
    <2>3. TypeCounts'
      BY <1>0, <1>15, CountsAreNat, OpensTypes DEF StoreHandle, Goto, globals, process,
         ctl, history, TypeCounts
    <2>4. TypeObjects'
      <3>1. opened[t] \in 0..MaxSessions
        BY <1>0 DEF TypeCounts
      <3>2. handle' \in [Pipes -> 0..MaxSessions]
        BY <1>0, <1>15, <3>1 DEF StoreHandle, TypeObjects
      <3>3. QED  BY <1>0, <1>15, <3>2 DEF StoreHandle, TypeObjects
    <2>5. TypeGlobals' /\ TypeHistory'
      BY <1>0, <1>15 DEF StoreHandle, globals, process, ctl, history, TypeGlobals,
         TypeHistory
    <2>6. QED  BY <2>1, <2>2, <2>3, <2>4, <2>5 DEF Typed
  <1>16. ASSUME NEW t \in Threads, StartupSettles(t) PROVE Typed'
    <2>1. TypeThreads'
      BY <1>0, <1>16 DEF StartupSettles, Goto, Leak, Settled, SetStarted, process, ctl,
         TypeThreads, Places, Emits, StageSet
    <2>2. TypeMine'
      BY <1>0, <1>16 DEF StartupSettles, Goto, Leak, Settled, SetStarted, process, ctl,
         TypeMine, TypeThreads
    <2>3. TypeCounts'
      BY <1>0, <1>16, CountsAreNat DEF StartupSettles, Goto, Leak, Settled, SetStarted,
         process, ctl, TypeCounts
    <2>4. TypeObjects'
      BY <1>0, <1>16, LeakTypes DEF StartupSettles, Goto, Leak, Settled, SetStarted,
         process, ctl, TypeObjects, TypeMine, TypeThreads
    <2>5. TypeGlobals'
      BY <1>0, <1>16 DEF StartupSettles, Goto, Leak, Settled, SetStarted, process, ctl,
         TypeGlobals, TypeThreads, StageSet, Emits
    <2>6. TypeHistory'
      BY <1>0, <1>16 DEF StartupSettles, Goto, Leak, Settled, SetStarted, process, ctl,
         TypeHistory
    <2>7. QED  BY <2>1, <2>2, <2>3, <2>4, <2>5, <2>6 DEF Typed
  <1>17. ASSUME NEW t \in Threads, EventSettles(t) PROVE Typed'
    <2>1. TypeThreads'
      BY <1>0, <1>17 DEF EventSettles, Goto, Leak, Settled, globals, process, ctl,
         history, TypeThreads, Places, Emits, StageSet
    <2>2. TypeMine'
      BY <1>0, <1>17 DEF EventSettles, Goto, Leak, Settled, globals, process, ctl,
         history, TypeMine, TypeThreads
    <2>3. TypeObjects'
      BY <1>0, <1>17, LeakTypes DEF EventSettles, Goto, Leak, Settled, globals,
         process, ctl, history, TypeObjects, TypeMine, TypeThreads
    <2>4. TypeCounts' /\ TypeGlobals' /\ TypeHistory'
      BY <1>0, <1>17 DEF EventSettles, globals, process, ctl, history, TypeCounts,
         TypeGlobals, TypeHistory
    <2>5. QED  BY <2>1, <2>2, <2>3, <2>4 DEF Typed
  <1>18. ASSUME NEW t \in Threads, EmitDrops(t) PROVE Typed'
    <2>1. TypeThreads'
      BY <1>0, <1>18 DEF EmitDrops, Goto, Done, object, process, ctl, TypeThreads,
         Places, Emits, StageSet
    <2>2. TypeMine'
      BY <1>0, <1>18 DEF EmitDrops, Goto, Done, object, process, ctl, TypeMine,
         TypeThreads
    <2>3. TypeGlobals'
      BY <1>0, <1>18 DEF EmitDrops, Goto, Done, object, process, ctl, TypeGlobals,
         TypeThreads, StageSet, Emits
    <2>4. TypeHistory'
      BY <1>0, <1>18 DEF EmitDrops, Goto, Done, object, process, ctl, TypeHistory
    <2>5. TypeCounts' /\ TypeObjects'
      BY <1>0, <1>18 DEF EmitDrops, object, process, ctl, TypeCounts, TypeObjects
    <2>6. QED  BY <2>1, <2>2, <2>3, <2>4, <2>5 DEF Typed
  <1>19. ASSUME NEW t \in Threads, EmitResolves(t) PROVE Typed'
    <2>1. TypeThreads'
      BY <1>0, <1>19 DEF EmitResolves, Goto, TypeThreads, TypeObjects, Places
    <2>2. TypeMine'
      <3>1. gpipe \in Pipes
        BY <1>0, <1>19 DEF EmitResolves, HasPipe, TypeObjects
      <3>2. QED  BY <1>0, <1>19, <3>1 DEF EmitResolves, Goto, TypeMine, TypeThreads
    <2>3. TypeGlobals'
      BY <1>0, <1>19 DEF EmitResolves, Goto, Remember, HasPipe, object, process, ctl,
         history, TypeGlobals, TypeThreads, StageSet, Emits
    <2>4. TypeCounts' /\ TypeObjects' /\ TypeHistory'
      BY <1>0, <1>19 DEF EmitResolves, object, process, ctl, history, TypeCounts,
         TypeObjects, TypeHistory
    <2>5. QED  BY <2>1, <2>2, <2>3, <2>4 DEF Typed
  <1>20. ASSUME NEW t \in Threads, EnterLock(t) PROVE Typed'
    <2>1. TypeThreads'
      BY <1>0, <1>20 DEF EnterLock, Goto, Free, globals, process, ctl, history,
         TypeThreads, Places, Emits, StageSet
    <2>2. TypeMine'
      BY <1>0, <1>20 DEF EnterLock, Goto, Free, globals, process, ctl, history,
         TypeMine, TypeThreads
    <2>3. TypeObjects'
      BY <1>0, <1>20 DEF EnterLock, Goto, Free, globals, process, ctl, history,
         TypeObjects, TypeMine, TypeThreads
    <2>4. TypeCounts' /\ TypeGlobals' /\ TypeHistory'
      BY <1>0, <1>20 DEF EnterLock, globals, process, ctl, history, TypeCounts,
         TypeGlobals, TypeHistory
    <2>5. QED  BY <2>1, <2>2, <2>3, <2>4 DEF Typed
  <1>21. ASSUME NEW t \in Threads, WriteText(t) PROVE Typed'
    <2>1. TypeThreads'
      BY <1>0, <1>21 DEF WriteText, Goto, Reached, Opens, globals, process,
         TypeThreads, Places, Emits, StageSet
    <2>2. TypeMine'
      BY <1>0, <1>21 DEF WriteText, Goto, Reached, Opens, globals, process, TypeMine,
         TypeThreads
    <2>3. TypeCounts'
      BY <1>0, <1>21, CountsAreNat, OpensTypes DEF WriteText, Goto, Reached, Opens,
         globals, process, TypeCounts
    <2>4. TypeObjects'
      BY <1>0, <1>21, CountsAreNat, OpensTypes DEF WriteText, Goto, Reached, Opens,
         globals, process, TypeObjects, TypeMine, TypeThreads
    <2>5. TypeGlobals'
      BY <1>0, <1>21 DEF WriteText, Goto, Reached, Opens, globals, process,
         TypeGlobals, TypeThreads, StageSet, Emits
    <2>6. TypeHistory'
      BY <1>0, <1>21 DEF WriteText, Goto, Reached, Opens, globals, process, TypeHistory
    <2>7. QED  BY <2>1, <2>2, <2>3, <2>4, <2>5, <2>6 DEF Typed
  <1>22. ASSUME NEW t \in Threads, WriteRefused(t) PROVE Typed'
    <2>1. TypeThreads'
      BY <1>0, <1>22 DEF WriteRefused, Done, Goto, Leave, Leak, Reached, Opens,
         process, ctl, TypeThreads, Places, Emits, StageSet
    <2>2. TypeMine'
      BY <1>0, <1>22 DEF WriteRefused, Done, Goto, Leave, Leak, Reached, Opens,
         process, ctl, TypeMine, TypeThreads
    <2>3. TypeCounts'
      BY <1>0, <1>22, CountsAreNat DEF WriteRefused, Done, Goto, Leave, Leak, Reached,
         Opens, process, ctl, TypeCounts
    <2>4. TypeObjects'
      BY <1>0, <1>22, LeakTypes DEF WriteRefused, Done, Goto, Leave, Leak, Reached,
         Opens, process, ctl, TypeObjects, TypeMine, TypeThreads
    <2>5. TypeGlobals'
      BY <1>0, <1>22 DEF WriteRefused, Done, Goto, Leave, Leak, Reached, Opens,
         process, ctl, TypeGlobals, TypeThreads, StageSet, Emits
    <2>6. TypeHistory'
      BY <1>0, <1>22 DEF WriteRefused, Done, Goto, Leave, Leak, Reached, Opens,
         process, ctl, TypeHistory
    <2>7. QED  BY <2>1, <2>2, <2>3, <2>4, <2>5, <2>6 DEF Typed
  <1>23. ASSUME NEW t \in Threads, WriteNewline(t) PROVE Typed'
    <2>1. TypeThreads'
      BY <1>0, <1>23 DEF WriteNewline, Done, Goto, Leave, Leak, process, TypeThreads,
         Places, Emits, StageSet
    <2>2. TypeMine'
      BY <1>0, <1>23 DEF WriteNewline, Done, Goto, Leave, Leak, process, TypeMine,
         TypeThreads
    <2>3. TypeCounts'
      BY <1>0, <1>23, CountsAreNat DEF WriteNewline, Done, Goto, Leave, Leak, process,
         TypeCounts
    <2>4. TypeObjects'
      BY <1>0, <1>23, LeakTypes DEF WriteNewline, Done, Goto, Leave, Leak, process,
         TypeObjects, TypeMine, TypeThreads
    <2>5. TypeGlobals'
      BY <1>0, <1>23 DEF WriteNewline, Done, Goto, Leave, Leak, process, TypeGlobals,
         TypeThreads, StageSet, Emits
    <2>6. TypeHistory'
      BY <1>0, <1>23 DEF WriteNewline, Done, Goto, Leave, Leak, process, TypeHistory
    <2>7. QED  BY <2>1, <2>2, <2>3, <2>4, <2>5, <2>6 DEF Typed
  <1>24. ASSUME UNCHANGED vars PROVE Typed'
    <2>1. TypeThreads' /\ TypeMine' /\ TypeCounts' /\ TypeObjects' /\ TypeGlobals' /\ TypeHistory'
      BY <1>0, <1>24 DEF vars, thread, object, globals, process, ctl, history,
         TypeThreads, TypeMine, TypeCounts, TypeObjects, TypeGlobals, TypeHistory
    <2>2. QED  BY <2>1 DEF Typed
  <1>25. QED
    BY <1>1, <1>2, <1>3, <1>4, <1>5, <1>6, <1>7, <1>8, <1>9, <1>10, <1>11, <1>12,
       <1>13, <1>14, <1>15, <1>16, <1>17, <1>18, <1>19, <1>20, <1>21, <1>22, <1>23,
          <1>24 DEF Next, Step

-----------------------------------------------------------------------------
(* One client *)

LEMMA ClientsLost ==
  ASSUME Typed, OneClient, Typed', sessions' = sessions,
         peer' = "listening" => peer = "listening",
         \A p \in Pipes : handle'[p] \in {handle[p], 0},
         \A t \in Threads : opened'[t] \in {opened[t], 0}
  PROVE  OneClient'
  <1>1. /\ sessions \in Nat
        /\ \A p \in Pipes : handle[p] \in Nat /\ handle'[p] \in Nat
        /\ \A t \in Threads : opened[t] \in Nat /\ opened'[t] \in Nat
    BY CountsAreNat DEF Typed, TypeCounts, TypeObjects
  <1>2. sessions > 0 => /\ \A p \in Pipes : Holds(p)' => Holds(p)
                        /\ \A t \in Threads : Opened(t)' => Opened(t)
    BY <1>1 DEF Holds, Opened
  <1>3. peer = "listening" => sessions > 0
    BY <1>1 DEF Typed, TypeCounts
  <1>4. /\ \A p \in Pipes : handle'[p] <= sessions'
        /\ \A t \in Threads : opened'[t] <= sessions'
    BY <1>1 DEF OneClient
  <1>5. QED  BY <1>2, <1>3, <1>4 DEF OneClient

(* CreateFile: an object or a thread takes the session only when nobody    *)
(* has it.                                                                 *)
LEMMA ObjectOpens ==
  ASSUME Typed, OneClient, Typed', sessions' = sessions, PeerTook, UNCHANGED opened,
         NEW q \in Pipes, handle' = [handle EXCEPT ![q] = Opens]
  PROVE  OneClient'
  <1>1. /\ sessions \in Nat
        /\ \A p \in Pipes : handle[p] \in Nat /\ handle'[p] \in Nat
        /\ \A t \in Threads : opened[t] \in Nat
    BY CountsAreNat DEF Typed, TypeCounts, TypeObjects
  <1>2. handle \in [Pipes -> 0..MaxSessions]
    BY DEF Typed, TypeObjects
  <1>3. CASE peer = "listening"
    BY <1>1, <1>2, <1>3 DEF OneClient, Holds, Opened, PeerTook, Opens
  <1>4. CASE peer # "listening"
    <2>1. \A p \in Pipes : handle'[p] \in {handle[p], 0}
      BY <1>2, <1>4 DEF Opens
    <2>2. QED  BY <1>4, <2>1, ClientsLost DEF PeerTook
  <1>5. QED  BY <1>3, <1>4

LEMMA ThreadOpens ==
  ASSUME Typed, OneClient, Typed', sessions' = sessions, PeerTook, UNCHANGED handle,
         NEW u \in Threads, opened' = [opened EXCEPT ![u] = Opens]
  PROVE  OneClient'
  <1>1. /\ sessions \in Nat
        /\ \A p \in Pipes : handle[p] \in Nat
        /\ \A t \in Threads : opened[t] \in Nat /\ opened'[t] \in Nat
    BY CountsAreNat DEF Typed, TypeCounts, TypeObjects
  <1>2. opened \in [Threads -> 0..MaxSessions]
    BY DEF Typed, TypeCounts
  <1>3. CASE peer = "listening"
    BY <1>1, <1>2, <1>3 DEF OneClient, Holds, Opened, PeerTook, Opens
  <1>4. CASE peer # "listening"
    <2>1. \A t \in Threads : opened'[t] \in {opened[t], 0}
      BY <1>2, <1>4 DEF Opens
    <2>2. QED  BY <1>4, <2>1, ClientsLost DEF PeerTook
  <1>5. QED  BY <1>3, <1>4

LEMMA LeakLoses ==
  ASSUME Typed, Leak PROVE \A p \in Pipes : handle'[p] \in {handle[p], 0}
  BY DEF Leak

LEMMA OneClientStep ==
  ASSUME Typed, OneClient, Typed', [Next]_vars
  PROVE  OneClient'
  <1>0. handle \in [Pipes -> 0..MaxSessions] /\ opened \in [Threads -> 0..MaxSessions]
    BY DEF Typed, TypeCounts, TypeObjects
  <1>1. ASSUME UNCHANGED <<handle, opened, peer, sessions>> PROVE OneClient'
    BY <1>1 DEF OneClient, Holds, Opened
  <1>2. ASSUME \/ BootLogs \/ Loaded \/ EntryPoint \/ PollRound \/ UNCHANGED vars
               \/ \E t \in Threads : Log(t) \/ Fault(t) \/ \E stage \in Stages : Stage(t, stage)
        PROVE  OneClient'
    BY <1>1, <1>2 DEF BootLogs, Loaded, EntryPoint, PollRound, EnterStartup, Log,
       Fault, Stage,
       vars, thread, object, ctl
  <1>3. CASE Listen
    <2>1. /\ sessions \in Nat /\ sessions' = sessions + 1
          /\ \A p \in Pipes : handle[p] \in Nat
          /\ \A t \in Threads : opened[t] \in Nat
      BY <1>3, CountsAreNat DEF Listen, Typed, TypeCounts, TypeObjects
    <2>2. UNCHANGED <<handle, opened>>
      BY <1>3 DEF Listen, thread, object
    <2>3. QED  BY <2>1, <2>2 DEF OneClient, Holds, Opened
  <1>4. CASE HangUp
    BY <1>4, ClientsLost DEF HangUp, thread, object
  <1>5. ASSUME NEW t \in Threads,
               TestHandler(t) \/ AddHandler(t) \/ EmitDrops(t) \/ EmitResolves(t) \/ EnterLock(t)
        PROVE  OneClient'
    BY <1>1, <1>5 DEF TestHandler, AddHandler, EmitDrops, EmitResolves, EnterLock,
       object, ctl
  <1>6. ASSUME NEW t \in Threads, Construct(t) PROVE OneClient'
    <2>1. CASE gpipe = Null
      <3>1. Fresh \in Pipes
        BY <2>1, FreshIsNobodys DEF Typed, TypeThreads
      <3>2. QED  BY <1>6, <2>1, <3>1, ObjectOpens DEF Construct
    <2>2. CASE gpipe # Null
      BY <1>1, <1>6, <2>2 DEF Construct
    <2>3. QED  BY <2>1, <2>2
  <1>7. ASSUME NEW t \in Threads, TryConnect(t) PROVE OneClient'
    <2>1. CASE UNCHANGED <<opened, peer>>
      BY <1>1, <1>7, <2>1 DEF TryConnect, object
    <2>2. CASE opened' = [opened EXCEPT ![t] = Opens] /\ PeerTook
      BY <1>7, <2>2, ThreadOpens DEF TryConnect, object
    <2>3. QED  BY <1>7, <2>1, <2>2 DEF TryConnect
  <1>8. ASSUME NEW t \in Threads, StoreHandle(t) PROVE OneClient'
    <2>1. mine[t] \in Pipes
      BY <1>8 DEF StoreHandle, Typed, TypeMine
    <2>2. /\ handle'[mine[t]] = opened[t] /\ opened'[t] = 0
          /\ \A p \in Pipes \ {mine[t]} : handle'[p] = handle[p]
          /\ \A u \in Threads \ {t} : opened'[u] = opened[u]
          /\ sessions' = sessions /\ peer' = peer
      BY <1>0, <1>8, <2>1 DEF StoreHandle, ctl
    <2>3. /\ sessions \in Nat /\ (peer = "listening" => sessions > 0)
          /\ \A p \in Pipes : handle[p] \in Nat
          /\ \A u \in Threads : opened[u] \in Nat
      BY CountsAreNat DEF Typed, TypeCounts, TypeObjects
    <2>4. QED  BY <2>1, <2>2, <2>3 DEF OneClient, Holds, Opened
  <1>9. ASSUME NEW t \in Threads,
               \/ Publish(t) \/ StartupSettles(t) \/ EventSettles(t)
               \/ WriteRefused(t) \/ WriteNewline(t)
        PROVE  OneClient'
    <2>1. Leak /\ UNCHANGED <<opened, peer, sessions>>
      BY <1>9 DEF Publish, StartupSettles, EventSettles, WriteRefused, WriteNewline, ctl
    <2>2. QED  BY <2>1, LeakLoses, ClientsLost
  <1>10. ASSUME NEW t \in Threads, WriteText(t) PROVE OneClient'
    <2>1. mine[t] \in Pipes
      BY <1>10 DEF WriteText, Typed, TypeMine
    <2>2. CASE handle[mine[t]] = 0
      <3>1. Opens # 0 /\ handle' = [handle EXCEPT ![mine[t]] = Opens] /\ peer' = "open"
        BY <1>10, <2>2 DEF WriteText, Reached
      <3>2. PeerTook
        BY <3>1 DEF Opens, PeerTook
      <3>3. QED  BY <1>10, <2>1, <3>1, <3>2, ObjectOpens DEF WriteText
    <2>3. CASE handle[mine[t]] # 0
      <3>1. handle' = handle /\ peer' = peer
        BY <1>0, <1>10, <2>1, <2>3 DEF WriteText, Reached
      <3>2. QED  BY <1>1, <1>10, <3>1 DEF WriteText
    <2>4. QED  BY <2>2, <2>3
  <1>11. QED
    BY <1>2, <1>3, <1>4, <1>5, <1>6, <1>7, <1>8, <1>9, <1>10 DEF Next, Step

-----------------------------------------------------------------------------
(* A step is one thread's *)

Stays(u) == pc'[u] = pc[u] /\ ev'[u] = ev[u] /\ mine'[u] = mine[u]

LEMMA OthersStay ==
  ASSUME Typed, NEW t \in Threads, Step(t), NEW u \in Threads, u # t
  PROVE  Stays(u)
  <1>0. mine \in [Threads -> Pipes \cup {Null}]
    BY DEF Typed, TypeThreads
  <1>1. CASE TestHandler(t) \/ AddHandler(t) \/ Construct(t) \/ Publish(t)
    BY <1>0, <1>1 DEF TestHandler, AddHandler, Construct, Publish, Goto, Stays, Typed,
       TypeThreads
  <1>2. CASE TryConnect(t) \/ StoreHandle(t) \/ StartupSettles(t) \/ EventSettles(t)
    BY <1>0, <1>2 DEF TryConnect, StoreHandle, StartupSettles, EventSettles, Goto,
       Stays, Typed,
       TypeThreads
  <1>3. CASE EmitDrops(t) \/ EmitResolves(t) \/ EnterLock(t)
    BY <1>0, <1>3 DEF EmitDrops, EmitResolves, EnterLock, Done, Goto, Stays, Typed,
       TypeThreads
  <1>4. CASE WriteText(t) \/ WriteRefused(t) \/ WriteNewline(t)
    BY <1>0, <1>4 DEF WriteText, WriteRefused, WriteNewline, Done, Goto, Stays, Typed,
       TypeThreads
  <1>5. QED  BY <1>1, <1>2, <1>3, <1>4 DEF Step

LEMMA StepBegun ==
  ASSUME NEW t \in Threads, Step(t)
  PROVE  pc[t] # "rest" /\ phase' = phase
  <1>1. CASE TestHandler(t) \/ AddHandler(t) \/ Construct(t) \/ Publish(t)
    BY <1>1 DEF TestHandler, AddHandler, Construct, Publish, process
  <1>2. CASE TryConnect(t) \/ StoreHandle(t) \/ StartupSettles(t) \/ EventSettles(t)
    BY <1>2 DEF TryConnect, StoreHandle, StartupSettles, EventSettles, process
  <1>3. CASE EmitDrops(t) \/ EmitResolves(t) \/ EnterLock(t)
    BY <1>3 DEF EmitDrops, EmitResolves, EnterLock, process
  <1>4. CASE WriteText(t) \/ WriteRefused(t) \/ WriteNewline(t)
    BY <1>4 DEF WriteText, WriteRefused, WriteNewline, process
  <1>5. QED  BY <1>1, <1>2, <1>3, <1>4 DEF Step

(* What begins outside a thread's own steps begins with a thread at rest.  *)
Begins(t) == \/ BootLogs /\ t = Main
             \/ EntryPoint /\ EnterStartup(t) /\ t = Main
             \/ PollRound /\ t = Poll
             \/ Log(t) \/ Fault(t) \/ \E stage \in Stages : Stage(t, stage)

Idles == \/ EntryPoint /\ started /\ UNCHANGED <<thread, object, globals, ctl, history>>
         \/ Loaded \/ Listen \/ HangUp \/ UNCHANGED vars

LEMMA NextSplit ==
  ASSUME [Next]_vars
  PROVE  \/ \E t \in Threads : Begins(t) \/ Step(t)
         \/ Idles
  <1>1. Main \in Threads /\ Poll \in Threads
    BY DEF Threads
  <1>2. CASE EntryPoint
    BY <1>1, <1>2 DEF EntryPoint, Begins, Idles
  <1>3. QED  BY <1>1, <1>2 DEF Next, Begins, Idles

LEMMA BeginsRest ==
  ASSUME Typed, MainWaits, NEW t \in Threads, Begins(t)
  PROVE  /\ pc[t] = "rest" /\ pc'[t] \in {"veh", "connect"}
         /\ ev'[t] \in {"startup", "log", "exception"} \cup Stages
         /\ UNCHANGED <<mine, opened, handle, lock, peer, sessions, half, torn, unlocked>>
         /\ \A u \in Threads \ {t} : Stays(u)
  <1>1. pc[t] = "rest"
    BY DEF Begins, BootLogs, EntryPoint, PollRound, Log, Fault, Stage, MainWaits
  <1>2. pc'[t] \in {"veh", "connect"} /\ ev'[t] \in {"startup", "log", "exception"} \cup Stages
    BY DEF Begins, BootLogs, EntryPoint, PollRound, EnterStartup, Log, Fault, Stage,
       Begin, Goto,
       Typed, TypeThreads
  <1>3. UNCHANGED <<mine, opened, handle, lock, peer, sessions, half, torn, unlocked>>
    BY DEF Begins, BootLogs, EntryPoint, PollRound, EnterStartup, Log, Fault, Stage,
       object, ctl
  <1>4. \A u \in Threads \ {t} : pc'[u] = pc[u] /\ ev'[u] = ev[u]
    BY DEF Begins, BootLogs, EntryPoint, PollRound, EnterStartup, Log, Fault, Stage,
       Begin, Goto,
       Typed, TypeThreads
  <1>5. QED  BY <1>1, <1>2, <1>3, <1>4 DEF Stays

LEMMA IdlesStay ==
  ASSUME Idles
  PROVE  UNCHANGED <<thread, object, globals, torn, history>>
  BY DEF Idles, Loaded, Listen, HangUp, vars, ctl

LEMMA MainWaitsStep ==
  ASSUME Typed, MainWaits, [Next]_vars PROVE MainWaits'
  <1>1. CASE \E t \in Threads : Step(t)
    BY <1>1, OthersStay, StepBegun DEF MainWaits, Stays, Threads
  <1>2. CASE \E t \in Threads : Begins(t)
    <2>1. Main # Poll
      BY DiagnosticsAssumption
    <2>2. QED
      BY <1>2, <2>1 DEF Begins, BootLogs, EntryPoint, PollRound, EnterStartup, Log,
         Fault, Stage,
         Begin, Goto, MainWaits, Typed, TypeThreads, Threads
  <1>3. CASE Idles
    BY <1>3 DEF Idles, Loaded, EntryPoint, Listen, HangUp, vars, thread, process,
       MainWaits
  <1>4. QED  BY <1>1, <1>2, <1>3, NextSplit

-----------------------------------------------------------------------------
(* The locks *)

LEMMA WritesLockedStep ==
  ASSUME Typed, Typed', MainWaits, WritesLocked, [Next]_vars PROVE WritesLocked'
  <1>0. /\ mine \in [Threads -> Pipes \cup {Null}] /\ lock \in [Pipes -> Threads \cup {Null}]
        /\ pc \in [Threads -> Places]
        /\ \A u \in Threads : pc[u] \in {"text", "newline"} => mine[u] \in Pipes
        /\ Null \notin Threads
    BY DiagnosticsAssumption DEF Typed, TypeThreads, TypeObjects, TypeMine
  <1>1. ASSUME NEW t \in Threads, Begins(t) PROVE WritesLocked'
    BY <1>1, BeginsRest DEF WritesLocked, Stays
  <1>2. CASE Idles
    BY <1>2, IdlesStay DEF WritesLocked, thread, object
  <1>3. ASSUME NEW t \in Threads, Step(t), lock' = lock, pc'[t] \notin {"text", "newline"}
        PROVE  WritesLocked'
    BY <1>3, OthersStay DEF WritesLocked, Stays
  <1>4. ASSUME NEW t \in Threads,
               \/ TestHandler(t) \/ AddHandler(t) \/ Publish(t) \/ TryConnect(t)
               \/ StoreHandle(t) \/ StartupSettles(t) \/ EventSettles(t) \/ EmitDrops(t)
        PROVE  WritesLocked'
    <2>1. lock' = lock /\ pc'[t] \notin {"text", "newline"}
      BY <1>0, <1>4 DEF TestHandler, AddHandler, Publish, TryConnect, StoreHandle,
         StartupSettles, EventSettles, EmitDrops, Done, Goto, object
    <2>2. QED  BY <1>3, <1>4, <2>1 DEF Step
  <1>5. ASSUME NEW t \in Threads, Construct(t) PROVE WritesLocked'
    <2>1. pc'[t] \notin {"text", "newline"}
      BY <1>0, <1>5 DEF Construct, Goto
    <2>2. CASE gpipe = Null
      <3>1. Fresh \in Pipes /\ \A u \in Threads : mine[u] # Fresh
        BY <1>0, <2>2, FreshIsNobodys
      <3>2. \A p \in Pipes \ {Fresh} : lock'[p] = lock[p]
        BY <1>0, <1>5, <2>2 DEF Construct
      <3>3. QED  BY <1>0, <1>5, <2>1, <3>1, <3>2, OthersStay DEF WritesLocked, Stays, Step
    <2>3. CASE gpipe # Null
      BY <1>3, <1>5, <2>1, <2>3 DEF Construct, Step
    <2>4. QED  BY <2>2, <2>3
  <1>6. ASSUME NEW t \in Threads, EmitResolves(t) PROVE WritesLocked'
    <2>1. lock' = lock /\ ev' = ev /\ (pc'[t] \in {"text", "newline"} => ev[t] = "exception")
      BY <1>0, <1>6 DEF EmitResolves, Goto, object
    <2>2. QED  BY <1>6, <2>1, OthersStay DEF WritesLocked, Stays, Step
  <1>7. ASSUME NEW t \in Threads, EnterLock(t) PROVE WritesLocked'
    <2>1. /\ mine[t] \in Pipes /\ lock[mine[t]] = Null
          /\ lock' = [lock EXCEPT ![mine[t]] = t] /\ mine' = mine
      BY <1>7 DEF EnterLock, Free, Typed, TypeMine
    <2>2. QED  BY <1>0, <1>7, <2>1, OthersStay DEF WritesLocked, Stays, Step
  <1>8. ASSUME NEW t \in Threads, WriteText(t) PROVE WritesLocked'
    <2>1. lock' = lock /\ mine' = mine /\ ev' = ev /\ pc[t] = "text"
      BY <1>8 DEF WriteText
    <2>2. QED  BY <1>8, <2>1, OthersStay DEF WritesLocked, Stays, Step
  <1>9. ASSUME NEW t \in Threads, WriteRefused(t) \/ WriteNewline(t) PROVE WritesLocked'
    <2>1. Leave(t) /\ pc'[t] \notin {"text", "newline"}
      BY <1>0, <1>9 DEF WriteRefused, WriteNewline, Done, Goto
    <2>2. \A u \in Threads \ {t}, p \in Pipes : lock[p] = u => lock'[p] = u
      BY <2>1 DEF Leave
    <2>3. QED  BY <1>0, <1>9, <2>1, <2>2, OthersStay DEF WritesLocked, Stays, Step
  <1>10. QED
    BY <1>1, <1>2, <1>4, <1>5, <1>6, <1>7, <1>8, <1>9, NextSplit DEF Step

-----------------------------------------------------------------------------
(* The line that has no end yet *)

(* Nothing gets connected, and who is to write a line end keeps its object *)
LEMMA HalfStays ==
  ASSUME Typed, HalfLine, UNCHANGED <<half, torn, unlocked, peer, sessions>>,
         half # Null =>
           /\ \A p \in Pipes : Holds(p)' => Holds(p)
           /\ \A u \in Threads : Opened(u)' => Opened(u),
         \A u \in Threads : pc'[u] = "newline" => pc[u] = "newline" /\ ev'[u] = ev[u],
         \A u \in Threads : pc[u] = "newline" =>
           /\ pc'[u] = "newline" /\ mine'[u] = mine[u]
           /\ Holds(mine[u]) => Holds(mine[u])'
  PROVE  HalfLine'
  <1>1. half \in Threads \cup {Null}
    BY DEF Typed, TypeGlobals
  <1>2. Lost /\ half # Null => Lost'
    BY DEF Lost
  <1>3. QED  BY <1>1, <1>2 DEF HalfLine, Holds

LEMMA HalfLineStep ==
  ASSUME Typed, Typed', MainWaits, OneClient, WritesLocked, HalfLine, [Next]_vars
  PROVE  HalfLine'
  <1>0. /\ pc \in [Threads -> Places] /\ handle \in [Pipes -> 0..MaxSessions]
        /\ mine \in [Threads -> Pipes \cup {Null}] /\ opened \in [Threads -> 0..MaxSessions]
        /\ \A u \in Threads : pc[u] \in {"store", "text", "newline"} => mine[u] \in Pipes
        /\ Null \notin Pipes
    BY DiagnosticsAssumption DEF Typed, TypeThreads, TypeMine, TypeCounts, TypeObjects
  <1>1. half # Null /\ ~unlocked => peer = "open" /\ sessions > 0 /\ half \in Threads
    BY DEF HalfLine, Typed, TypeGlobals
  <1>2. CASE unlocked'
    BY <1>2 DEF HalfLine
  <1>3. ASSUME NEW t \in Threads, Begins(t), ~unlocked' PROVE HalfLine'
    <2>1. UNCHANGED <<handle, opened>>
      BY <1>3, BeginsRest
    <2>2. QED  BY <1>3, <2>1, BeginsRest, HalfStays DEF Stays, Holds, Opened
  <1>4. ASSUME Idles, ~unlocked' PROVE HalfLine'
    <2>1. CASE UNCHANGED <<half, peer, sessions>>
      BY <1>4, <2>1, IdlesStay, HalfStays DEF thread, object, history, Holds, Opened
    <2>2. CASE Listen
      <3>1. half = Null
        BY <1>1, <1>4, <2>2 DEF Listen, history
      <3>2. QED  BY <1>4, <2>2, <3>1 DEF Listen, HalfLine, thread, object, history
    <2>3. CASE HangUp
      BY <1>4, <2>3 DEF HangUp, HalfLine, thread, object, history
    <2>4. QED  BY <1>4, <2>1, <2>2, <2>3 DEF Idles, Loaded, vars, ctl
  <1>5. ASSUME NEW t \in Threads, ~unlocked',
               \/ TestHandler(t) \/ AddHandler(t) \/ Publish(t) \/ StartupSettles(t)
               \/ EventSettles(t) \/ EmitDrops(t) \/ EmitResolves(t) \/ EnterLock(t)
               \/ WriteRefused(t)
        PROVE  HalfLine'
    <2>1. Step(t)
      BY <1>5 DEF Step
    <2>2. UNCHANGED <<half, torn, unlocked, peer, sessions>> /\ pc[t] # "newline" /\ pc'[t] # "newline"
      BY <1>0, <1>5 DEF TestHandler, AddHandler, Publish, StartupSettles, EventSettles,
         EmitDrops,
         EmitResolves, EnterLock, WriteRefused, Done, Goto, ctl, history
    <2>3. opened' = opened /\ (handle' = handle \/ Leak)
      BY <1>5 DEF TestHandler, AddHandler, Publish, StartupSettles, EventSettles,
         EmitDrops,
         EmitResolves, EnterLock, WriteRefused, object
    <2>4. \A u \in Threads : pc[u] = "newline" =>
            /\ mine[u] \in Pipes /\ mine'[u] = mine[u] /\ pc'[u] = "newline"
            /\ handle'[mine[u]] = handle[mine[u]]
      BY <1>0, <2>1, <2>2, <2>3, OthersStay DEF Stays, Leak
    <2>5. half # Null => \A p \in Pipes : Holds(p)' => Holds(p)
      BY <1>1, <1>5, <2>2, <2>3, LeakLoses DEF Holds
    <2>6. QED  BY <2>1, <2>2, <2>3, <2>4, <2>5, OthersStay, HalfStays DEF Stays, Holds,
       Opened
  <1>6. ASSUME NEW t \in Threads, Construct(t), ~unlocked' PROVE HalfLine'
    <2>1. /\ UNCHANGED <<half, torn, unlocked, sessions, opened>>
          /\ pc[t] # "newline" /\ pc'[t] # "newline" /\ Step(t)
      BY <1>0, <1>6 DEF Construct, Goto, Step
    <2>2. ~unlocked
      BY <1>6, <2>1
    <2>3. CASE half = Null
      BY <1>6, <2>1, <2>2, <2>3, OthersStay DEF HalfLine, Stays
    <2>4. CASE half # Null
      <3>1. Opens = 0 /\ peer' = peer
        BY <1>1, <1>6, <2>2, <2>4 DEF Opens, Construct, PeerTook
      <3>2. gpipe = Null => Fresh \in Pipes /\ \A u \in Threads : mine[u] # Fresh
        BY <1>0, FreshIsNobodys
      <3>3. \A p \in Pipes : handle'[p] \in {handle[p], 0}
        BY <1>0, <1>6, <3>1, <3>2 DEF Construct
      <3>4. \A p \in Pipes : Holds(p)' => Holds(p)
        BY <1>1, <2>1, <2>2, <2>4, <3>3 DEF Holds
      <3>5. \A u \in Threads \ {t} : mine[u] \in Pipes => handle'[mine[u]] = handle[mine[u]]
        BY <1>0, <1>6, <3>2 DEF Construct
      <3>6. QED  BY <1>0, <2>1, <3>1, <3>4, <3>5, OthersStay, HalfStays DEF Stays,
         Holds, Opened
    <2>5. QED  BY <2>3, <2>4
  <1>7. ASSUME NEW t \in Threads, TryConnect(t), ~unlocked' PROVE HalfLine'
    <2>1. /\ UNCHANGED <<half, torn, unlocked, sessions, handle>>
          /\ pc[t] # "newline" /\ pc'[t] # "newline" /\ Step(t)
      BY <1>0, <1>7 DEF TryConnect, Goto, Step, object, history
    <2>2. ~unlocked
      BY <1>7, <2>1
    <2>3. CASE half = Null
      BY <1>7, <2>1, <2>2, <2>3, OthersStay DEF HalfLine, Stays
    <2>4. CASE half # Null
      <3>1. Opens = 0 /\ peer' = peer
        BY <1>1, <1>7, <2>2, <2>4 DEF Opens, TryConnect, PeerTook
      <3>2. \A u \in Threads : Opened(u)' => Opened(u)
        BY <1>0, <1>1, <1>7, <2>1, <2>2, <2>4, <3>1 DEF TryConnect, Opened
      <3>3. QED  BY <2>1, <3>1, <3>2, OthersStay, HalfStays DEF Stays, Holds
    <2>5. QED  BY <2>3, <2>4
  <1>8. ASSUME NEW t \in Threads, StoreHandle(t), ~unlocked' PROVE HalfLine'
    <2>1. /\ UNCHANGED <<half, torn, unlocked, sessions, peer, mine>>
          /\ pc[t] # "newline" /\ pc'[t] # "newline" /\ Step(t) /\ mine[t] \in Pipes
      BY <1>0, <1>8 DEF StoreHandle, Goto, Step, ctl, history
    <2>2. ~unlocked
      BY <1>8, <2>1
    <2>3. /\ handle'[mine[t]] = opened[t] /\ opened'[t] = 0
          /\ \A p \in Pipes \ {mine[t]} : handle'[p] = handle[p]
          /\ \A u \in Threads \ {t} : opened'[u] = opened[u]
      BY <1>0, <1>8, <2>1 DEF StoreHandle
    <2>4. /\ ~torn' /\ \A u \in Threads : pc'[u] = "newline" => ev'[u] # "exception"
      BY <2>1, <2>2, OthersStay DEF HalfLine, Stays
    <2>5. ASSUME half # Null
          PROVE  (pc'[half] = "newline" /\ Holds(mine[half])') \/ Lost'
      <3>1. half \in Threads /\ sessions > 0 /\ sessions # 0
        BY <1>1, <2>2, <2>5
      <3>2. CASE pc[half] = "newline" /\ Holds(mine[half]) /\ mine[half] # mine[t]
        <4>1. mine[half] \in Pipes /\ pc'[half] = "newline"
          BY <1>0, <2>1, <3>1, <3>2, OthersStay DEF Stays
        <4>2. QED  BY <2>1, <2>3, <3>2, <4>1 DEF Holds
      <3>3. CASE pc[half] = "newline" /\ Holds(mine[half]) /\ mine[half] = mine[t]
        <4>1. /\ \A p \in Pipes \ {mine[t]} : ~Holds(p)
              /\ \A u \in Threads : ~Opened(u)
          BY <2>1, <3>1, <3>3 DEF OneClient
        <4>2. QED  BY <2>1, <2>3, <3>1, <4>1 DEF Lost, Holds, Opened
      <3>4. CASE Lost
        BY <2>1, <2>3, <3>1, <3>4 DEF Lost, Holds, Opened
      <3>5. QED  BY <2>2, <2>5, <3>2, <3>3, <3>4 DEF HalfLine
    <2>6. QED  BY <1>1, <2>1, <2>2, <2>4, <2>5 DEF HalfLine
  <1>9. ASSUME NEW t \in Threads, NEW u \in Threads, u # t, ~unlocked, sessions > 0,
               pc[t] \in {"text", "newline"}, ev[t] # "exception", Holds(mine[t]),
               pc[u] = "newline"
        PROVE  ~Holds(mine[u])
    <2>1. mine[t] \in Pipes /\ mine[u] \in Pipes /\ ev[u] # "exception"
      BY <1>0, <1>9 DEF HalfLine
    <2>2. lock[mine[t]] = t /\ lock[mine[u]] = u
      BY <1>9, <2>1 DEF WritesLocked
    <2>3. QED  BY <1>9, <2>1, <2>2 DEF OneClient
  <1>10. ASSUME NEW t \in Threads, WriteText(t), ~unlocked' PROVE HalfLine'
    <2>1. /\ ~unlocked /\ ev[t] # "exception" /\ pc[t] = "text" /\ mine[t] \in Pipes
          /\ UNCHANGED <<sessions, opened, mine, ev>> /\ pc'[t] = "newline" /\ Step(t)
      BY <1>0, <1>10 DEF WriteText, Goto, Step
    <2>2. \A u \in Threads : pc'[u] = "newline" => ev'[u] # "exception"
      BY <2>1, OthersStay DEF HalfLine, Stays
    <2>3. CASE handle[mine[t]] = 0
      <3>1. peer = "listening" /\ Reached(t) = sessions /\ sessions # 0
        BY <1>10, <2>3 DEF WriteText, Reached, Opens
      <3>2. half = Null
        BY <1>1, <2>1, <3>1
      <3>3. half' = t /\ ~torn' /\ peer' = "open" /\ handle'[mine[t]] = sessions
        BY <1>0, <1>10, <2>1, <2>3, <3>1, <3>2 DEF WriteText, HalfLine
      <3>4. sessions > 0
        BY <3>1, CountsAreNat DEF Typed, TypeCounts
      <3>5. QED  BY <2>1, <2>2, <3>3, <3>4 DEF HalfLine, Holds
    <2>4. CASE handle[mine[t]] # 0 /\ Attached(handle[mine[t]])
      <3>1. handle' = handle /\ peer' = peer /\ peer = "open" /\ Holds(mine[t])
        BY <1>0, <1>10, <2>1, <2>4 DEF WriteText, Reached, Attached, Holds
      <3>2. sessions > 0
        BY <3>1, CountsAreNat DEF Typed, TypeCounts
      <3>3. half = Null
        <4>1. ASSUME half # Null PROVE FALSE
          <5>1. half \in Threads
            BY <1>1, <2>1, <4>1
          <5>2. ~Lost
            BY <2>1, <3>1 DEF Lost
          <5>3. pc[half] = "newline" /\ Holds(mine[half])
            BY <2>1, <4>1, <5>2 DEF HalfLine
          <5>4. QED  BY <1>9, <2>1, <3>1, <3>2, <5>1, <5>3
        <4>2. QED  BY <4>1
      <3>4. half' = t /\ ~torn'
        BY <1>10, <2>1, <2>4, <3>3 DEF WriteText, HalfLine
      <3>5. QED  BY <2>1, <2>2, <3>1, <3>2, <3>4 DEF HalfLine, Holds
    <2>5. CASE handle[mine[t]] # 0 /\ ~Attached(handle[mine[t]])
      <3>1. handle' = handle /\ peer' = peer /\ half' = half /\ torn' = torn
        BY <1>0, <1>10, <2>1, <2>5 DEF WriteText, Reached
      <3>2. ASSUME half # Null
            PROVE  (pc'[half] = "newline" /\ Holds(mine[half])') \/ Lost'
        <4>1. half \in Threads
          BY <1>1, <2>1, <3>2
        <4>2. pc[half] = "newline" => pc'[half] = "newline"
          BY <2>1, <4>1, OthersStay DEF Stays
        <4>3. QED  BY <2>1, <3>1, <3>2, <4>2 DEF HalfLine, Lost, Holds, Opened
      <3>3. QED  BY <1>1, <2>1, <2>2, <3>1, <3>2 DEF HalfLine
    <2>6. QED  BY <2>3, <2>4, <2>5
  <1>11. ASSUME NEW t \in Threads, WriteNewline(t), ~unlocked' PROVE HalfLine'
    <2>1. /\ ~unlocked /\ pc[t] = "newline" /\ mine[t] \in Pipes /\ ev[t] # "exception"
          /\ UNCHANGED <<sessions, opened, peer>> /\ pc'[t] # "newline" /\ Step(t) /\ Leak
      BY <1>0, <1>11 DEF WriteNewline, Done, Goto, Step, HalfLine
    <2>2. \A u \in Threads : pc'[u] = "newline" => ev'[u] # "exception"
      BY <2>1, OthersStay DEF HalfLine, Stays
    <2>3. CASE Attached(handle[mine[t]])
      <3>1. sessions > 0 /\ Holds(mine[t])
        BY <2>3, CountsAreNat DEF Attached, Holds, Typed, TypeCounts
      <3>2. half \in {t, Null}
        <4>1. ASSUME half \notin {t, Null} PROVE FALSE
          <5>1. half \in Threads
            BY <1>1, <2>1, <4>1
          <5>2. ~Lost
            BY <2>1, <3>1 DEF Lost
          <5>3. pc[half] = "newline" /\ Holds(mine[half])
            BY <2>1, <4>1, <5>2 DEF HalfLine
          <5>4. QED  BY <1>9, <2>1, <3>1, <4>1, <5>1, <5>3
        <4>2. QED  BY <4>1
      <3>3. half' = Null /\ ~torn'
        BY <1>11, <2>1, <2>3, <3>2 DEF WriteNewline, HalfLine
      <3>4. QED  BY <2>2, <3>3 DEF HalfLine
    <2>4. CASE ~Attached(handle[mine[t]])
      <3>1. half' = half /\ torn' = torn
        BY <1>11, <2>4 DEF WriteNewline
      <3>2. ASSUME half # Null
            PROVE  (pc'[half] = "newline" /\ Holds(mine[half])') \/ Lost'
        <4>1. half \in Threads /\ sessions > 0 /\ sessions # 0 /\ peer = "open"
          BY <1>1, <2>1, <3>2
        <4>2. CASE Lost
          <5>1. \A p \in Pipes : handle'[p] \in {handle[p], 0}
            BY <2>1, LeakLoses
          <5>2. QED  BY <2>1, <4>1, <4>2, <5>1 DEF Lost, Holds, Opened
        <4>3. CASE pc[half] = "newline" /\ Holds(mine[half])
          <5>1. half # t
            BY <2>4, <4>1, <4>3 DEF Attached, Holds
          <5>2. mine[half] \in Pipes /\ mine'[half] = mine[half] /\ pc'[half] = "newline"
            BY <1>0, <2>1, <4>1, <4>3, <5>1, OthersStay DEF Stays
          <5>3. handle'[mine[half]] = handle[mine[half]]
            BY <2>1, <4>1, <5>2 DEF Leak
          <5>4. QED  BY <2>1, <3>1, <4>3, <5>2, <5>3 DEF Holds
        <4>4. QED  BY <2>1, <3>2, <4>2, <4>3 DEF HalfLine
      <3>3. QED  BY <1>1, <2>1, <2>2, <3>1, <3>2 DEF HalfLine
    <2>5. QED  BY <2>3, <2>4
  <1>12. QED
    BY <1>2, <1>3, <1>4, <1>5, <1>6, <1>7, <1>8, <1>10, <1>11, NextSplit DEF Step

-----------------------------------------------------------------------------
(* Startup *)

(* What the steps of a startup change, in one place *)
LEMMA StartupQuiet ==
  ASSUME NEW t \in Threads, Step(t), ~AddHandler(t), ~StartupSettles(t)
  PROVE  UNCHANGED <<started, veh, overlap, handlers, hellos>>
  <1>1. CASE TestHandler(t) \/ Construct(t) \/ Publish(t) \/ TryConnect(t) \/ StoreHandle(t)
    BY <1>1 DEF TestHandler, Construct, Publish, TryConnect, StoreHandle, globals, history
  <1>2. CASE EventSettles(t) \/ EmitResolves(t) \/ EmitDrops(t)
    BY <1>2 DEF EventSettles, EmitResolves, EmitDrops, globals, history
  <1>3. CASE EnterLock(t) \/ WriteText(t) \/ WriteRefused(t) \/ WriteNewline(t)
    BY <1>3 DEF EnterLock, WriteText, WriteRefused, WriteNewline, globals, history
  <1>4. QED  BY <1>1, <1>2, <1>3 DEF Step

(* A thread's step neither enters startup nor goes back in it *)
LEMMA StepInStartup ==
  ASSUME Typed, Handlers, NEW t \in Threads, Step(t)
  PROVE  /\ InStartup(t)' => InStartup(t)
         /\ ev'[t] = "startup" => ev[t] = "startup"
         /\ pc'[t] # "veh"
         /\ pc'[t] = "adding" => TestHandler(t) /\ ~veh
         /\ Handlers'
  <1>0. pc \in [Threads -> Places] /\ ev \in [Threads -> Emits \cup {"startup"}]
    BY DEF Typed, TypeThreads
  <1>1. ASSUME TestHandler(t) \/ AddHandler(t) \/ Construct(t) \/ Publish(t) \/ TryConnect(t)
               \/ StoreHandle(t) \/ EventSettles(t) \/ EmitResolves(t) \/ EnterLock(t)
               \/ WriteText(t)
        PROVE  ev' = ev /\ pc[t] # "rest" /\ pc'[t] # "veh"
               /\ (pc'[t] = "adding" => TestHandler(t) /\ ~veh)
    BY <1>0, <1>1 DEF TestHandler, AddHandler, Construct, Publish, TryConnect,
       StoreHandle,
       EventSettles, EmitResolves, EnterLock, WriteText, Goto
  <1>2. ASSUME StartupSettles(t)
        PROVE  /\ ev'[t] \in {"startup", "hello"} /\ ev[t] = "startup" /\ pc[t] # "rest"
               /\ pc'[t] \notin {"veh", "adding"}
    BY <1>0, <1>2 DEF StartupSettles, Goto
  <1>3. ASSUME Done(t)
        PROVE  /\ pc'[t] = (IF ev[t] = "hello" THEN "connect" ELSE "rest")
               /\ ev'[t] = (IF ev[t] = "hello" THEN "started" ELSE "log")
    BY <1>0, <1>3 DEF Done, Goto
  <1>4. ASSUME EmitDrops(t) \/ WriteRefused(t) \/ WriteNewline(t)
        PROVE  /\ pc[t] # "rest" /\ pc'[t] \notin {"veh", "adding"}
               /\ Done(t) \/ (ev' = ev /\ pc'[t] = "crashed")
    BY <1>0, <1>3, <1>4 DEF EmitDrops, WriteRefused, WriteNewline, Goto
  <1>5. /\ InStartup(t)' => InStartup(t)
        /\ ev'[t] = "startup" => ev[t] = "startup"
        /\ pc'[t] # "veh"
        /\ pc'[t] = "adding" => TestHandler(t) /\ ~veh
    BY <1>1, <1>2, <1>3, <1>4 DEF Step, InStartup
  <1>6. pc'[t] = "adding" => ev'[t] = "startup"
    BY <1>1, <1>5 DEF Handlers, TestHandler
  <1>7. Handlers'
    BY <1>5, <1>6, OthersStay DEF Handlers, Stays
  <1>8. QED  BY <1>5, <1>7

LEMMA BeginsInStartup ==
  ASSUME Typed, MainWaits, Handlers, NEW t \in Threads, Begins(t)
  PROVE  /\ UNCHANGED <<started, veh, handlers, hellos>>
         /\ InStartup(t)' => /\ ev'[t] = "startup" /\ ~started
                             /\ overlap' = (overlap \/ \E u \in Threads \ {t} : InStartup(u))
         /\ ~overlap' => ~overlap
         /\ pc'[t] # "adding"
         /\ Handlers'
  <1>0. pc \in [Threads -> Places] /\ ev \in [Threads -> Emits \cup {"startup"}]
    BY DEF Typed, TypeThreads
  <1>1. UNCHANGED <<started, veh, handlers, hellos>>
    BY DEF Begins, BootLogs, EntryPoint, PollRound, EnterStartup, Log, Fault, Stage,
       globals
  <1>2. ASSUME EnterStartup(t)
        PROVE  /\ ev'[t] = "startup" /\ ~started /\ pc'[t] = "veh"
               /\ overlap' = (overlap \/ \E u \in Threads \ {t} : InStartup(u))
    BY <1>0, <1>2 DEF EnterStartup, Goto
  <1>3. ASSUME \/ BootLogs /\ t = Main
               \/ Log(t) \/ Fault(t) \/ \E stage \in Stages : Stage(t, stage)
        PROVE  /\ ev'[t] \in {"log", "exception"} \cup Stages /\ pc'[t] = "connect"
               /\ overlap' = overlap
    BY <1>0, <1>3 DEF BootLogs, Log, Fault, Stage, Begin, Goto
  <1>4. ev'[t] \in Stages => ev'[t] \notin {"startup", "hello", "started"}
    BY DiagnosticsAssumption
  <1>5. EnterStartup(t) \/ (BootLogs /\ t = Main) \/ Log(t) \/ Fault(t)
          \/ \E stage \in Stages : Stage(t, stage)
    BY DEF Begins, PollRound
  <1>6. Handlers'
    BY <1>2, <1>3, <1>5, BeginsRest DEF Handlers, Stays
  <1>7. /\ InStartup(t)' => /\ ev'[t] = "startup" /\ ~started
                           /\ overlap' = (overlap \/ \E u \in Threads \ {t} : InStartup(u))
        /\ ~overlap' => ~overlap
        /\ pc'[t] # "adding"
    <2>1. CASE EnterStartup(t)
      BY <1>2, <2>1
    <2>2. CASE ~EnterStartup(t)
      <3>1. /\ ev'[t] \in {"log", "exception"} \cup Stages /\ pc'[t] = "connect"
            /\ overlap' = overlap
        BY <1>3, <1>5, <2>2
      <3>2. ~InStartup(t)'
        BY <1>4, <3>1 DEF InStartup
      <3>3. QED  BY <3>1, <3>2
    <2>3. QED  BY <2>1, <2>2
  <1>8. QED  BY <1>1, <1>6, <1>7

LEMMA OneStartupStep ==
  ASSUME Typed, Typed', MainWaits, Handlers, OneStartup, [Next]_vars
  PROVE  Handlers' /\ OneStartup'
  <1>1. CASE Idles
    BY <1>1, IdlesStay DEF Handlers, OneStartup, InStartup, thread, globals, history
  <1>2. ASSUME NEW t \in Threads, Begins(t) PROVE Handlers' /\ OneStartup'
    <2>1. ASSUME ~overlap' PROVE OneStartup'
      <3>1. \A u \in Threads \ {t} : Stays(u)
        BY <1>2, BeginsRest
      <3>2. InStartup(t)' => \A u \in Threads \ {t} : ~InStartup(u)
        BY <1>2, <2>1, BeginsInStartup
      <3>3. QED  BY <1>2, <2>1, <3>1, <3>2, BeginsInStartup DEF OneStartup, InStartup,
         Stays
    <2>2. QED  BY <1>2, <2>1, BeginsInStartup DEF OneStartup
  <1>3. ASSUME NEW t \in Threads, Step(t), ~AddHandler(t), ~StartupSettles(t)
        PROVE  Handlers' /\ OneStartup'
    <2>1. \A u \in Threads \ {t} : Stays(u)
      BY <1>3, OthersStay
    <2>2. /\ \A u \in Threads : InStartup(u)' => InStartup(u)
          /\ \A u \in Threads : ev'[u] = "startup" => ev[u] = "startup"
          /\ ~overlap => \A u \in Threads : pc'[u] = "adding" => ~veh
      BY <1>3, <2>1, StepInStartup DEF InStartup, Stays, OneStartup
    <2>3. QED  BY <1>3, <2>2, StartupQuiet, StepInStartup DEF OneStartup
  <1>4. ASSUME NEW t \in Threads, AddHandler(t) PROVE Handlers' /\ OneStartup'
    <2>1. Step(t) /\ pc[t] = "adding" /\ ev[t] = "startup" /\ InStartup(t)
      BY <1>4 DEF Step, AddHandler, Handlers, InStartup
    <2>2. /\ \A u \in Threads \ {t} : Stays(u)
          /\ \A u \in Threads : InStartup(u)' => InStartup(u)
      BY <2>1, OthersStay, StepInStartup DEF InStartup, Stays
    <2>3. /\ UNCHANGED <<started, overlap, hellos, ev>> /\ veh' = TRUE
          /\ handlers' = handlers + 1 /\ pc'[t] = "connect"
      BY <1>4 DEF AddHandler, Goto, Typed, TypeThreads
    <2>4. ~overlap => \A u \in Threads : pc'[u] # "adding"
      BY <2>1, <2>2, <2>3 DEF OneStartup, Handlers, InStartup, Stays
    <2>5. ~overlap => handlers' = 1
      BY <2>1, <2>3 DEF OneStartup
    <2>6. Handlers'
      BY <2>1, StepInStartup
    <2>7. QED  BY <2>2, <2>3, <2>4, <2>5, <2>6 DEF OneStartup
  <1>5. ASSUME NEW t \in Threads, StartupSettles(t) PROVE Handlers' /\ OneStartup'
    <2>1. Step(t) /\ ev[t] = "startup" /\ InStartup(t)
      BY <1>5 DEF Step, StartupSettles, InStartup
    <2>2. /\ \A u \in Threads \ {t} : Stays(u)
          /\ \A u \in Threads : InStartup(u)' => InStartup(u)
          /\ \A u \in Threads : pc'[u] = "adding" => pc[u] = "adding"
      BY <1>5, <2>1, OthersStay, StepInStartup DEF InStartup, Stays, StartupSettles,
         TestHandler
    <2>3. UNCHANGED <<overlap, veh, handlers>>
      BY <1>5 DEF StartupSettles
    <2>4. \/ started' = TRUE /\ hellos' = hellos + 1 /\ ev'[t] = "hello"
          \/ UNCHANGED <<ev, started, hellos>>
      BY <1>5 DEF StartupSettles, SetStarted, Typed, TypeThreads
    <2>5. ASSUME ~overlap PROVE OneStartup'
      <3>1. ~started /\ hellos = 0 /\ \A u \in Threads \ {t} : ~InStartup(u)'
        BY <2>1, <2>2, <2>5 DEF OneStartup
      <3>2. hellos' <= 1 /\ (~started' => hellos' = 0)
        BY <2>4, <3>1
      <3>3. \A u \in Threads : InStartup(u)' /\ ev'[u] = "startup" => ~started'
        BY <2>4, <3>1
      <3>4. /\ \A u, w \in Threads : InStartup(u)' /\ InStartup(w)' => u = w
            /\ \A u \in Threads : pc'[u] = "adding" => ~veh'
            /\ handlers' = IF veh' THEN 1 ELSE 0
        BY <2>2, <2>3, <2>5 DEF OneStartup
      <3>5. QED  BY <3>2, <3>3, <3>4 DEF OneStartup
    <2>6. QED  BY <2>1, <2>3, <2>5, StepInStartup DEF OneStartup
  <1>6. QED  BY <1>1, <1>2, <1>3, <1>4, <1>5, NextSplit

-----------------------------------------------------------------------------
(* Who may be where as long as no two threads were connecting at once.     *)
(* Until g_pipe is connected one thread at a time is between its test of   *)
(* g_pipe and its use of the result; once it is connected it stays so, and *)
(* whoever writes, writes through it.                                      *)
Ending(t)  == pc[t] \in {"settle", "resolve"}
Writing(t) == pc[t] \in {"enter", "text", "newline"}

Alone == ~Connected => \A t, u \in Threads : Connecting(t) /\ Connecting(u) => t = u

AtPlace(t) ==
  /\ pc[t] # "crashed"
  /\ pc[t] = "made" => gpipe = Null
  /\ pc[t] = "try" => gpipe # Null
  /\ pc[t] = "store" => gpipe # Null /\ mine[t] = gpipe /\ ~Connected
  /\ Ending(t) => (got[t] <=> Connected)
  /\ pc[t] = "resolve" /\ ~got[t] => gpipe = Null
  /\ Writing(t) => Connected /\ mine[t] = gpipe

Carries(t) == \/ pc[t] = "made" /\ handle[mine[t]] = sessions
              \/ pc[t] = "store" /\ opened[t] = sessions

SessionHeld ==
  peer = "open" => \/ gpipe # Null /\ handle[gpipe] = sessions
                   \/ \E t \in Threads : Carries(t)

Unraced == /\ Alone
           /\ \A t \in Threads : AtPlace(t)
           /\ last # Null => Connected
           /\ SessionHeld

OnePipe == ~raced => Unraced

(* Not on the way to the pipe, nor using it *)
Clear(t) == pc[t] \in {"rest", "veh", "adding", "connect"}

LEMMA ClearPlace ==
  ASSUME NEW t \in Threads, Clear(t)
  PROVE  AtPlace(t) /\ ~Connecting(t) /\ ~Carries(t)
  BY DEF Clear, AtPlace, Connecting, Carries, Ending, Writing

LEMMA OthersClear ==
  ASSUME Typed, Unraced, ~Connected, NEW t \in Threads, Connecting(t),
         NEW u \in Threads, u # t
  PROVE  Clear(u)
  <1>1. ~Connecting(u) /\ AtPlace(u)
    BY DEF Unraced, Alone
  <1>2. pc[u] \in Places
    BY DEF Typed, TypeThreads
  <1>3. QED  BY <1>1, <1>2 DEF Places, Connecting, AtPlace, Ending, Writing, Clear

(* The one who has the first session is on its way to g_pipe. *)
LEMMA Carrier ==
  ASSUME Typed, Unraced, ~Connected, peer = "open"
  PROVE  \E t \in Threads : Carries(t) /\ Connecting(t)
  <1>1. sessions # 0
    BY DEF Typed, TypeCounts
  <1>2. PICK t \in Threads : Carries(t)
    BY <1>1 DEF Unraced, SessionHeld, Connected
  <1>3. QED  BY <1>2 DEF Carries, Connecting

LEMMA OthersKeep ==
  ASSUME Typed, NEW t \in Threads, Step(t), NEW u \in Threads, u # t
  PROVE  got'[u] = got[u] /\ opened'[u] = opened[u]
  <1>0. got \in [Threads -> BOOLEAN] /\ opened \in [Threads -> 0..MaxSessions]
    BY DEF Typed, TypeThreads, TypeCounts
  <1>1. CASE TestHandler(t) \/ AddHandler(t) \/ Construct(t) \/ Publish(t)
    BY <1>1 DEF TestHandler, AddHandler, Construct, Publish
  <1>2. CASE TryConnect(t) \/ StoreHandle(t) \/ StartupSettles(t) \/ EventSettles(t)
    BY <1>0, <1>2 DEF TryConnect, StoreHandle, StartupSettles, EventSettles
  <1>3. CASE EmitDrops(t) \/ EmitResolves(t) \/ EnterLock(t)
    BY <1>0, <1>3 DEF EmitDrops, EmitResolves, EnterLock, Done
  <1>4. CASE WriteText(t) \/ WriteRefused(t) \/ WriteNewline(t)
    BY <1>0, <1>4 DEF WriteText, WriteRefused, WriteNewline, Done
  <1>5. QED  BY <1>1, <1>2, <1>3, <1>4 DEF Step

LEMMA PlaceKept ==
  ASSUME NEW u \in Threads, Stays(u), got'[u] = got[u],
         gpipe' = gpipe, Connected' <=> Connected, AtPlace(u)
  PROVE  AtPlace(u)' /\ (Connecting(u)' => Connecting(u))
  BY DEF AtPlace, Stays, Connecting, Ending, Writing

(* A step of a thread that leaves g_pipe and its connection as they are *)
LEMMA PipeKept ==
  ASSUME Typed, Unraced, NEW t \in Threads, Step(t),
         gpipe' = gpipe, Connected' <=> Connected, last' = last \/ Connected,
         AtPlace(t)', ~Connected => (Connecting(t)' => Connecting(t)), SessionHeld'
  PROVE  Unraced'
  <1>1. \A u \in Threads \ {t} : AtPlace(u)' /\ (Connecting(u)' => Connecting(u))
    BY OthersStay, OthersKeep, PlaceKept DEF Unraced
  <1>2. Alone'
    BY <1>1 DEF Unraced, Alone
  <1>3. \A u \in Threads : AtPlace(u)'
    BY <1>1
  <1>4. (last # Null => Connected)'
    BY DEF Unraced
  <1>5. QED  BY <1>2, <1>3, <1>4 DEF Unraced

(* A step of the one thread on its way *)
LEMMA WayKept ==
  ASSUME Typed, Unraced, NEW t \in Threads, Step(t),
         \A u \in Threads \ {t} : Clear(u),
         last' = last, ~Connected, AtPlace(t)', SessionHeld'
  PROVE  Unraced'
  <1>1. \A u \in Threads \ {t} : Clear(u)'
    BY OthersStay DEF Clear, Stays
  <1>2. \A u \in Threads \ {t} : AtPlace(u)' /\ ~Connecting(u)'
    <2>1. \A u \in Threads : Clear(u) => AtPlace(u) /\ ~Connecting(u)
      BY ClearPlace
    <2>2. \A u \in Threads : Clear(u)' => AtPlace(u)' /\ ~Connecting(u)'
      BY DEF Clear, AtPlace, Connecting, Ending, Writing
    <2>3. QED  BY <1>1, <2>2
  <1>3. Alone' /\ \A u \in Threads : AtPlace(u)'
    BY <1>2 DEF Alone
  <1>4. (last # Null => Connected)'
    BY DEF Unraced
  <1>5. QED  BY <1>3, <1>4 DEF Unraced

(* Once connected *)
LEMMA ConnectedHeld ==
  ASSUME Typed, Unraced, Connected, UNCHANGED <<peer, sessions, gpipe>>,
         handle'[gpipe] = handle[gpipe]
  PROVE  SessionHeld' /\ Connected'
  <1>1. \A t \in Threads : ~Carries(t)
    BY DEF Carries, Unraced, AtPlace, Connected
  <1>2. QED  BY <1>1 DEF SessionHeld, Connected, Unraced

LEMMA ConnectedStep ==
  ASSUME Typed, Unraced, Connected, NEW t \in Threads, Step(t)
  PROVE  Unraced' /\ gpipe' = gpipe /\ handle'[gpipe] = handle[gpipe]
  <1>0. /\ pc \in [Threads -> Places] /\ ev \in [Threads -> Emits \cup {"startup"}]
        /\ mine \in [Threads -> Pipes \cup {Null}] /\ got \in [Threads -> BOOLEAN]
        /\ handle \in [Pipes -> 0..MaxSessions]
        /\ gpipe \in Pipes /\ gpipe # Null /\ handle[gpipe] # 0
    BY DEF Typed, TypeThreads, TypeObjects, Connected
  <1>1. AtPlace(t)
    BY DEF Unraced
  <1>2. ASSUME UNCHANGED <<peer, sessions, gpipe>>, handle'[gpipe] = handle[gpipe],
               Connected' => AtPlace(t)'
        PROVE  Unraced' /\ gpipe' = gpipe /\ handle'[gpipe] = handle[gpipe]
    <2>1. SessionHeld' /\ Connected'
      BY <1>2, ConnectedHeld
    <2>2. QED  BY <1>2, <2>1, PipeKept
  <1>3. CASE TestHandler(t) \/ AddHandler(t)
    <2>1. /\ UNCHANGED <<peer, sessions, gpipe>> /\ handle'[gpipe] = handle[gpipe]
          /\ pc'[t] \in {"connect", "adding"}
      BY <1>0, <1>3 DEF TestHandler, AddHandler, Goto, object, ctl
    <2>2. QED  BY <1>2, <2>1 DEF AtPlace, Ending, Writing
  <1>4. CASE Construct(t)
    <2>1. UNCHANGED <<peer, sessions, gpipe>> /\ handle'[gpipe] = handle[gpipe] /\ pc'[t] = "try"
      BY <1>0, <1>4 DEF Construct, Goto
    <2>2. QED  BY <1>0, <1>2, <2>1 DEF AtPlace, Ending, Writing
  <1>5. CASE TryConnect(t)
    <2>1. /\ UNCHANGED <<peer, sessions, gpipe>> /\ handle'[gpipe] = handle[gpipe]
          /\ pc'[t] = "settle" /\ got'[t] = TRUE
      BY <1>0, <1>5 DEF TryConnect, Goto, object, Connected
    <2>2. QED  BY <1>2, <2>1 DEF AtPlace, Ending, Writing
  <1>6. CASE StartupSettles(t) \/ EventSettles(t)
    <2>1. got[t] /\ gpipe' = gpipe
      BY <1>1, <1>6 DEF StartupSettles, EventSettles, Settled, AtPlace, Ending
    <2>2. /\ Leak /\ UNCHANGED <<peer, sessions>>
          /\ pc'[t] = "connect" \/ (pc'[t] = "resolve" /\ got'[t])
      BY <1>0, <1>6, <2>1 DEF StartupSettles, EventSettles, Goto, ctl
    <2>3. handle'[gpipe] = handle[gpipe]
      BY <1>0, <2>1, <2>2 DEF Leak
    <2>4. QED  BY <1>2, <2>1, <2>2, <2>3 DEF AtPlace, Ending, Writing
  <1>7. CASE EmitDrops(t)
    <2>1. /\ UNCHANGED <<peer, sessions, gpipe>> /\ handle'[gpipe] = handle[gpipe]
          /\ pc'[t] \in {"connect", "rest"}
      BY <1>0, <1>7 DEF EmitDrops, Done, Goto, object, ctl
    <2>2. QED  BY <1>2, <2>1 DEF AtPlace, Ending, Writing
  <1>8. CASE EmitResolves(t)
    <2>1. /\ UNCHANGED <<peer, sessions, gpipe>> /\ handle'[gpipe] = handle[gpipe]
          /\ pc'[t] \in {"enter", "text"} /\ mine'[t] = gpipe
      BY <1>0, <1>8 DEF EmitResolves, Goto, object, ctl
    <2>2. QED  BY <1>2, <2>1 DEF AtPlace, Ending, Writing
  <1>9. CASE EnterLock(t)
    <2>1. /\ UNCHANGED <<peer, sessions, gpipe>> /\ handle'[gpipe] = handle[gpipe]
          /\ pc[t] = "enter" /\ pc'[t] = "text" /\ mine'[t] = mine[t]
      BY <1>0, <1>9 DEF EnterLock, Goto, ctl
    <2>2. QED  BY <1>1, <1>2, <2>1 DEF AtPlace, Ending, Writing
  <1>10. CASE WriteText(t)
    <2>1. pc[t] = "text" /\ mine[t] = gpipe
      BY <1>1, <1>10 DEF WriteText, AtPlace, Writing
    <2>2. /\ UNCHANGED <<peer, sessions, gpipe>> /\ handle'[gpipe] = handle[gpipe]
          /\ pc'[t] = "newline" /\ mine'[t] = mine[t]
      BY <1>0, <1>10, <2>1 DEF WriteText, Goto, Reached
    <2>3. QED  BY <1>2, <2>1, <2>2 DEF AtPlace, Ending, Writing
  <1>11. CASE WriteNewline(t)
    <2>1. Leak /\ UNCHANGED <<peer, sessions, gpipe>> /\ pc'[t] \in {"connect", "rest"}
      BY <1>0, <1>11 DEF WriteNewline, Done, Goto
    <2>2. handle'[gpipe] = handle[gpipe]
      BY <1>0, <2>1 DEF Leak
    <2>3. QED  BY <1>2, <2>1, <2>2 DEF AtPlace, Ending, Writing
  <1>12. ~Publish(t) /\ ~StoreHandle(t)
    BY <1>0, <1>1 DEF Publish, StoreHandle, AtPlace
  <1>13. ~WriteRefused(t)
    BY <1>0, <1>1 DEF WriteRefused, AtPlace, Writing, Reached
  <1>14. QED
    BY <1>3, <1>4, <1>5, <1>6, <1>7, <1>8, <1>9, <1>10, <1>11, <1>12, <1>13 DEF Step

LEMMA UnconnectedStep ==
  ASSUME Typed, Unraced, ~Connected, ~raced', NEW t \in Threads, Step(t)
  PROVE  Unraced'
  <1>0. /\ pc \in [Threads -> Places] /\ ev \in [Threads -> Emits \cup {"startup"}]
        /\ mine \in [Threads -> Pipes \cup {Null}] /\ got \in [Threads -> BOOLEAN]
        /\ opened \in [Threads -> 0..MaxSessions]
        /\ handle \in [Pipes -> 0..MaxSessions] /\ gpipe \in Pipes \cup {Null}
        /\ Null \notin Pipes
    BY DiagnosticsAssumption DEF Typed, TypeThreads, TypeCounts, TypeObjects
  <1>1. AtPlace(t)
    BY DEF Unraced
  <1>2. /\ Connecting(t) => \A u \in Threads \ {t} : Clear(u)
        /\ Connecting(t) /\ peer = "open" => Carries(t)
    <2>1. Connecting(t) => \A u \in Threads \ {t} : Clear(u)
      BY OthersClear
    <2>2. QED  BY <2>1, Carrier, ClearPlace
  <1>3. CASE TestHandler(t) \/ AddHandler(t)
    <2>1. /\ UNCHANGED <<peer, sessions, gpipe, handle, last>>
          /\ pc[t] \in {"veh", "adding"} /\ pc'[t] \in {"connect", "adding"}
      BY <1>0, <1>3 DEF TestHandler, AddHandler, Goto, object, globals, ctl
    <2>2. Connected' <=> Connected
      BY <2>1 DEF Connected
    <2>3. AtPlace(t)' /\ ~Connecting(t)'
      BY <2>1 DEF AtPlace, Connecting, Ending, Writing
    <2>4. SessionHeld'
      <3>1. \A u \in Threads : Carries(u) => Carries(u)'
        <4>1. ~Carries(t)
          BY <2>1 DEF Carries
        <4>2. \A u \in Threads \ {t} : Carries(u) => Carries(u)'
          BY <2>1, OthersStay, OthersKeep DEF Carries, Stays
        <4>3. QED  BY <4>1, <4>2
      <3>2. QED  BY <2>1, <3>1 DEF SessionHeld, Unraced
    <2>5. QED  BY <2>1, <2>2, <2>3, <2>4, PipeKept
  <1>4. CASE Construct(t)
    <2>1. /\ pc[t] = "connect" /\ UNCHANGED <<gpipe, sessions, last>>
          /\ \A u \in Threads \ {t} : ~Connecting(u)
      BY <1>4 DEF Construct, globals
    <2>2. \A u \in Threads \ {t} : Clear(u)
      <3>1. \A u \in Threads \ {t} : AtPlace(u) /\ pc[u] \in Places
        BY <1>0 DEF Unraced
      <3>2. QED  BY <2>1, <3>1 DEF Places, Connecting, AtPlace, Ending, Writing, Clear
    <2>3. peer # "open"
      BY <2>1, Carrier DEF Connecting
    <2>4. AtPlace(t)' /\ SessionHeld'
      <3>1. CASE gpipe = Null
        <4>1. /\ pc'[t] = "made" /\ mine'[t] = Fresh /\ Fresh \in Pipes
              /\ handle'[Fresh] = Opens /\ PeerTook
          BY <1>0, <1>4, <3>1, FreshIsNobodys DEF Construct, Goto
        <4>2. peer' = "open" => handle'[Fresh] = sessions'
          BY <2>1, <2>3, <4>1 DEF PeerTook, Opens
        <4>3. AtPlace(t)'
          BY <2>1, <3>1, <4>1 DEF AtPlace, Ending, Writing
        <4>4. SessionHeld'
          BY <4>1, <4>2 DEF SessionHeld, Carries
        <4>5. QED  BY <4>3, <4>4
      <3>2. CASE gpipe # Null
        <4>1. pc'[t] = "try" /\ peer' = peer
          BY <1>0, <1>4, <3>2 DEF Construct, Goto
        <4>2. QED  BY <2>1, <2>3, <3>2, <4>1 DEF AtPlace, Ending, Writing, SessionHeld
      <3>3. QED  BY <3>1, <3>2
    <2>5. QED  BY <2>1, <2>2, <2>4, WayKept
  <1>5. CASE Publish(t)
    <2>1. /\ pc[t] = "made" /\ mine[t] \in Pipes
          /\ gpipe' = mine[t] /\ Leak /\ UNCHANGED <<peer, sessions, last>> /\ pc'[t] = "try"
      BY <1>0, <1>5 DEF Publish, Goto, globals, ctl, Typed, TypeMine
    <2>2. Connecting(t) /\ handle'[gpipe'] = handle[mine[t]]
      BY <2>1 DEF Connecting, Leak
    <2>3. AtPlace(t)'
      BY <1>0, <2>1 DEF AtPlace, Ending, Writing
    <2>4. SessionHeld'
      BY <1>0, <1>2, <2>1, <2>2 DEF Carries, SessionHeld
    <2>5. QED  BY <1>2, <2>1, <2>2, <2>3, <2>4, WayKept
  <1>6. CASE TryConnect(t)
    <2>1. pc[t] = "try" /\ Connecting(t) /\ gpipe # Null
      BY <1>1, <1>6 DEF TryConnect, Connecting, AtPlace
    <2>2. /\ mine'[t] = gpipe /\ opened'[t] = Opens /\ PeerTook /\ pc'[t] = "store"
          /\ UNCHANGED <<gpipe, handle, sessions, last>>
      BY <1>0, <1>6, <2>1 DEF TryConnect, Goto, object, globals
    <2>3. ~Connected'
      BY <2>2 DEF Connected
    <2>4. AtPlace(t)'
      BY <2>1, <2>2, <2>3 DEF AtPlace, Ending, Writing
    <2>5. peer # "open"
      BY <1>2, <2>1 DEF Carries
    <2>6. SessionHeld'
      BY <2>2, <2>5 DEF SessionHeld, Carries, PeerTook, Opens
    <2>7. QED  BY <1>2, <2>1, <2>2, <2>4, <2>6, WayKept
  <1>7. CASE StoreHandle(t)
    <2>1. pc[t] = "store" /\ Connecting(t) /\ gpipe # Null /\ gpipe \in Pipes /\ mine[t] = gpipe
      BY <1>0, <1>1, <1>7 DEF StoreHandle, Connecting, AtPlace
    <2>2. /\ handle'[gpipe] = opened[t] /\ got'[t] = (opened[t] # 0) /\ pc'[t] = "settle"
          /\ UNCHANGED <<gpipe, peer, sessions, last>>
      BY <1>0, <1>7, <2>1 DEF StoreHandle, Goto, globals, ctl
    <2>3. Connected' <=> got'[t]
      BY <2>1, <2>2 DEF Connected
    <2>4. AtPlace(t)'
      BY <2>2, <2>3 DEF AtPlace, Ending, Writing
    <2>5. SessionHeld'
      BY <1>2, <2>1, <2>2 DEF SessionHeld, Carries
    <2>6. QED  BY <1>2, <2>1, <2>2, <2>4, <2>5, WayKept
  <1>8. CASE StartupSettles(t) \/ EventSettles(t)
    <2>1. pc[t] = "settle" /\ ~got[t] /\ Connecting(t)
      BY <1>1, <1>8 DEF StartupSettles, EventSettles, AtPlace, Ending, Connecting
    <2>2. /\ gpipe' = Null /\ UNCHANGED <<peer, sessions, last>>
          /\ pc'[t] \in {"connect", "rest"} \/ (pc'[t] = "resolve" /\ ~got'[t])
      BY <1>0, <1>8, <2>1 DEF StartupSettles, EventSettles, Settled, Goto, globals, ctl
    <2>3. ~Connected'
      BY <2>2 DEF Connected
    <2>4. AtPlace(t)'
      BY <2>2, <2>3 DEF AtPlace, Ending, Writing
    <2>5. SessionHeld'
      BY <1>2, <2>1, <2>2 DEF SessionHeld, Carries
    <2>6. QED  BY <1>2, <2>1, <2>2, <2>4, <2>5, WayKept
  <1>9. CASE EmitDrops(t)
    <2>1. pc[t] = "resolve" /\ ~got[t] /\ Connecting(t)
      BY <1>1, <1>9 DEF EmitDrops, AtPlace, Ending, Connecting
    <2>2. pc'[t] \in {"connect", "rest"} /\ UNCHANGED <<peer, sessions, last>>
      BY <1>0, <1>9, <2>1 DEF EmitDrops, Done, Goto, ctl
    <2>3. AtPlace(t)'
      BY <2>2 DEF AtPlace, Ending, Writing
    <2>4. SessionHeld'
      BY <1>2, <2>1, <2>2 DEF SessionHeld, Carries
    <2>5. QED  BY <1>2, <2>1, <2>2, <2>3, <2>4, WayKept
  <1>10. ~EmitResolves(t)
    BY <1>1 DEF EmitResolves, HasPipe, AtPlace, Ending
  <1>11. ~EnterLock(t) /\ ~WriteText(t) /\ ~WriteRefused(t) /\ ~WriteNewline(t)
    BY <1>1 DEF EnterLock, WriteText, WriteRefused, WriteNewline, AtPlace, Writing
  <1>12. QED
    BY <1>3, <1>4, <1>5, <1>6, <1>7, <1>8, <1>9, <1>10, <1>11 DEF Step

LEMMA BeginsKeep ==
  ASSUME Typed, NEW t \in Threads, Begins(t)
  PROVE  UNCHANGED <<got, gpipe, last, told, raced>>
  BY DEF Begins, BootLogs, EntryPoint, PollRound, EnterStartup, Log, Fault, Stage,
     object, globals, ctl

LEMMA RacedStays ==
  ASSUME [Next]_vars, raced PROVE raced'
  <1>1. CASE Idles
    BY <1>1, IdlesStay DEF history
  <1>2. ASSUME NEW t \in Threads, Begins(t) PROVE raced'
    BY <1>2 DEF Begins, BootLogs, EntryPoint, PollRound, EnterStartup, Log, Fault, Stage
  <1>3. ASSUME NEW t \in Threads, Step(t) PROVE raced'
    <2>1. CASE TestHandler(t) \/ AddHandler(t) \/ Construct(t) \/ Publish(t)
      BY <2>1 DEF TestHandler, AddHandler, Construct, Publish, history
    <2>2. CASE TryConnect(t) \/ StoreHandle(t) \/ StartupSettles(t) \/ EventSettles(t)
      BY <2>2 DEF TryConnect, StoreHandle, StartupSettles, EventSettles, history
    <2>3. CASE EmitDrops(t) \/ EmitResolves(t) \/ EnterLock(t)
      BY <2>3 DEF EmitDrops, EmitResolves, EnterLock, history
    <2>4. CASE WriteText(t) \/ WriteRefused(t) \/ WriteNewline(t)
      BY <2>4 DEF WriteText, WriteRefused, WriteNewline, history
    <2>5. QED  BY <1>3, <2>1, <2>2, <2>3, <2>4 DEF Step
  <1>4. QED  BY <1>1, <1>2, <1>3, NextSplit

LEMMA OnePipeStep ==
  ASSUME Typed, Typed', MainWaits, OnePipe, [Next]_vars PROVE OnePipe'
  <1> SUFFICES ASSUME ~raced' PROVE Unraced'
    BY DEF OnePipe
  <1>0. ~raced /\ Unraced
    BY RacedStays DEF OnePipe
  <1>1. CASE Idles
    <2>1. UNCHANGED <<pc, mine, opened, got, gpipe, handle, last>>
      BY <1>1, IdlesStay DEF thread, object, globals
    <2>2. UNCHANGED <<peer, sessions>> \/ peer' # "open"
      BY <1>1 DEF Idles, Loaded, Listen, HangUp, vars, ctl
    <2>3. SessionHeld'
      BY <1>0, <2>1, <2>2 DEF Unraced, SessionHeld, Carries
    <2>4. QED  BY <1>0, <2>1, <2>3 DEF Unraced, Alone, AtPlace, Connected, Connecting,
       Ending, Writing
  <1>2. ASSUME NEW t \in Threads, Begins(t) PROVE Unraced'
    <2>1. /\ UNCHANGED <<opened, got, gpipe, handle, last, peer, sessions>>
          /\ \A u \in Threads \ {t} : Stays(u)
          /\ pc[t] = "rest" /\ pc'[t] \in {"veh", "connect"}
      BY <1>2, BeginsRest, BeginsKeep
    <2>2. Connected' <=> Connected
      BY <2>1 DEF Connected
    <2>3. \A u \in Threads \ {t} : AtPlace(u)' /\ (Connecting(u)' => Connecting(u))
      BY <1>0, <2>1, <2>2, PlaceKept DEF Unraced
    <2>4. AtPlace(t)' /\ ~Connecting(t)'
      BY <2>1 DEF AtPlace, Connecting, Ending, Writing
    <2>5. Alone' /\ \A u \in Threads : AtPlace(u)'
      BY <1>0, <2>2, <2>3, <2>4 DEF Unraced, Alone
    <2>6. SessionHeld'
      <3>1. ~Carries(t) /\ \A u \in Threads \ {t} : Carries(u) => Carries(u)'
        BY <2>1 DEF Carries, Stays
      <3>2. QED  BY <1>0, <2>1, <3>1 DEF Unraced, SessionHeld
    <2>7. QED  BY <1>0, <2>1, <2>2, <2>5, <2>6 DEF Unraced
  <1>3. ASSUME NEW t \in Threads, Step(t) PROVE Unraced'
    BY <1>0, <1>3, ConnectedStep, UnconnectedStep
  <1>4. QED  BY <1>1, <1>2, <1>3, NextSplit

-----------------------------------------------------------------------------
(* What the controller was told *)

(* A stage is told to a session that is open. *)
ToldOpen == told # Null => peer = "open"

(* As long as no two threads reported a stage at once, the one that is     *)
(* about to be written is the one emit_game_stage remembers.               *)
Tells(t) == pc[t] \in {"enter", "text"} /\ ev[t] \in StageSet

OneStage ==
  ~mixed => /\ \A t, u \in Threads : InStage(t) /\ InStage(u) => t = u
            /\ \A t \in Threads : Tells(t) => ev[t] = last

Told == \/ told = last
        \/ \E t \in Threads : Tells(t) /\ ev[t] = last

StageTold == ~raced /\ ~mixed /\ sessions = 1 /\ peer = "open" => Told

(* What the steps do to these, in one place *)
LEMMA StepTold ==
  ASSUME Typed, NEW t \in Threads, Step(t)
  PROVE  /\ sessions' = sessions
         /\ WriteText(t) \/ told' = told
         /\ EmitResolves(t) \/ last' = last
         /\ peer' = peer \/ (peer = "listening" /\ peer' = "open")
         /\ mixed => mixed'
  <1>1. CASE TestHandler(t) \/ AddHandler(t) \/ Construct(t) \/ Publish(t)
    BY <1>1 DEF TestHandler, AddHandler, Construct, Publish, PeerTook, globals, ctl, history
  <1>2. CASE TryConnect(t) \/ StoreHandle(t) \/ StartupSettles(t) \/ EventSettles(t)
    BY <1>2 DEF TryConnect, StoreHandle, StartupSettles, EventSettles, PeerTook, globals,
       ctl, history
  <1>3. CASE EmitResolves(t) \/ EnterLock(t)
    BY <1>3 DEF EmitResolves, EnterLock, globals, ctl, history
  <1>4. CASE WriteText(t)
    <2>1. handle[mine[t]] = 0 => peer = "listening"
      BY <1>4 DEF WriteText, Reached, Opens
    <2>2. QED  BY <1>4, <2>1 DEF WriteText, globals
  <1>5. CASE EmitDrops(t) \/ WriteRefused(t) \/ WriteNewline(t)
    <2>1. mixed => mixed'
      BY <1>5 DEF EmitDrops, WriteRefused, WriteNewline, Done
    <2>2. UNCHANGED <<last, told, peer, sessions>>
      BY <1>5 DEF EmitDrops, WriteRefused, WriteNewline, ctl
    <2>3. QED  BY <2>1, <2>2
  <1>6. QED  BY <1>1, <1>2, <1>3, <1>4, <1>5 DEF Step

LEMMA ToldOpenStep ==
  ASSUME Typed, MainWaits, ToldOpen, [Next]_vars PROVE ToldOpen'
  <1>1. CASE Idles
    BY <1>1 DEF Idles, Loaded, Listen, HangUp, vars, ctl, ToldOpen
  <1>2. ASSUME NEW t \in Threads, Begins(t) PROVE ToldOpen'
    BY <1>2, BeginsRest, BeginsKeep DEF ToldOpen
  <1>3. ASSUME NEW t \in Threads, Step(t) PROVE ToldOpen'
    <2>1. CASE told' = told
      BY <1>3, <2>1, StepTold DEF ToldOpen
    <2>2. CASE told' # told
      BY <1>3, <2>2, StepTold DEF WriteText, Attached, ToldOpen
    <2>3. QED  BY <2>1, <2>2
  <1>4. QED  BY <1>1, <1>2, <1>3, NextSplit

(* A stage is begun, or hello is followed by one, when nobody else is in   *)
(* one.                                                                    *)
LEMMA StageAlone ==
  ASSUME Typed, NEW t \in Threads, Begins(t) \/ Step(t), ~mixed'
  PROVE  /\ ~mixed
         /\ InStage(t)' => InStage(t) \/ \A u \in Threads \ {t} : ~InStage(u)
  <1>0. pc \in [Threads -> Places] /\ ev \in [Threads -> Emits \cup {"startup"}]
    BY DEF Typed, TypeThreads
  <1>1. "log" \notin StageSet /\ "exception" \notin StageSet
        /\ "startup" \notin StageSet /\ "hello" \notin StageSet
    BY DiagnosticsAssumption DEF StageSet
  <1>2. ASSUME NEW event, Begin(t, event)
        PROVE  /\ ~mixed
               /\ InStage(t)' => \A u \in Threads \ {t} : ~InStage(u)
    BY <1>0, <1>2 DEF Begin, Goto, InStage
  <1>3. ASSUME EnterStartup(t) PROVE ~mixed /\ ~InStage(t)'
    BY <1>0, <1>1, <1>3 DEF EnterStartup, InStage
  <1>4. CASE Begins(t)
    <2>1. EnterStartup(t) \/ \E event \in Emits : Begin(t, event)
      BY <1>4 DEF Begins, BootLogs, EntryPoint, PollRound, Log, Fault, Stage, Emits, StageSet
    <2>2. QED  BY <1>2, <1>3, <2>1
  <1>5. ASSUME Done(t)
        PROVE  /\ ~mixed
               /\ InStage(t)' => \A u \in Threads \ {t} : ~InStage(u)
    BY <1>0, <1>1, <1>5 DEF Done, Goto, InStage
  <1>6. CASE StartupSettles(t)
    <2>1. ev'[t] \in {"startup", "hello"} /\ mixed' = mixed
      BY <1>0, <1>6 DEF StartupSettles
    <2>2. QED  BY <1>1, <2>1 DEF InStage
  <1>7. CASE Step(t) /\ ~StartupSettles(t) /\ ~Done(t)
    <2>1. /\ pc[t] # "rest" /\ ev' = ev /\ mixed' = mixed
      BY <1>7 DEF Step, TestHandler, AddHandler, Construct, Publish, TryConnect,
         StoreHandle, EventSettles, EmitDrops, EmitResolves, EnterLock, WriteText,
         WriteRefused, WriteNewline, history
    <2>2. QED  BY <2>1 DEF InStage
  <1>8. QED  BY <1>4, <1>5, <1>6, <1>7

LEMMA OneStageStep ==
  ASSUME Typed, Typed', MainWaits, OneStage, [Next]_vars PROVE OneStage'
  <1>0. /\ pc \in [Threads -> Places] /\ ev \in [Threads -> Emits \cup {"startup"}]
    BY DEF Typed, TypeThreads
  <1>1. CASE Idles
    BY <1>1, IdlesStay DEF OneStage, InStage, Tells, thread, globals, history
  <1>2. ASSUME NEW t \in Threads, Begins(t) \/ Step(t), ~mixed'
        PROVE  OneStage'
    <2>1. ~mixed /\ \A u \in Threads \ {t} : Stays(u)
      BY <1>2, StageAlone, BeginsRest, OthersStay
    <2>2. \A u, w \in Threads : InStage(u)' /\ InStage(w)' => u = w
      <3>1. \A u \in Threads \ {t} : InStage(u)' => InStage(u)
        BY <2>1 DEF InStage, Stays
      <3>2. InStage(t)' => \A u \in Threads \ {t} : ~InStage(u)
        BY <1>2, <2>1, StageAlone DEF OneStage
      <3>3. QED  BY <2>1, <3>1, <3>2 DEF OneStage
    <2>3. Tells(t)' => ev'[t] = last'
      <3>1. CASE Begins(t)
        BY <3>1, BeginsRest DEF Tells
      <3>2. CASE EmitResolves(t)
        BY <1>0, <3>2 DEF EmitResolves, Remember, Tells
      <3>3. CASE EnterLock(t)
        BY <2>1, <3>3 DEF EnterLock, Tells, OneStage, globals
      <3>4. CASE Step(t) /\ ~EmitResolves(t) /\ ~EnterLock(t)
        <4>1. CASE TestHandler(t) \/ AddHandler(t) \/ Construct(t) \/ Publish(t)
                   \/ TryConnect(t) \/ StoreHandle(t)
          BY <1>0, <4>1 DEF TestHandler, AddHandler, Construct, Publish, TryConnect,
             StoreHandle, Goto, Tells
        <4>2. CASE StartupSettles(t) \/ EventSettles(t) \/ WriteText(t)
          BY <1>0, <4>2 DEF StartupSettles, EventSettles, WriteText, Goto, Tells
        <4>3. CASE EmitDrops(t) \/ WriteRefused(t) \/ WriteNewline(t)
          BY <1>0, <4>3 DEF EmitDrops, WriteRefused, WriteNewline, Done, Goto, Tells
        <4>4. QED  BY <3>4, <4>1, <4>2, <4>3 DEF Step
      <3>5. QED  BY <1>2, <3>1, <3>2, <3>3, <3>4
    <2>4. ASSUME NEW u \in Threads \ {t}, Tells(u)' PROVE ev'[u] = last'
      <3>1. Tells(u) /\ ev'[u] = ev[u]
        BY <2>1, <2>4 DEF Tells, Stays
      <3>2. CASE last' = last
        BY <2>1, <3>1, <3>2 DEF OneStage
      <3>3. CASE last' # last
        <4>1. EmitResolves(t) /\ ev[t] \in StageSet
          BY <1>2, <3>3, StepTold, BeginsKeep DEF EmitResolves, Remember
        <4>2. InStage(t) /\ InStage(u)
          BY <3>1, <4>1 DEF EmitResolves, Tells, InStage
        <4>3. QED  BY <2>1, <2>4, <4>2 DEF OneStage
      <3>4. QED  BY <3>2, <3>3
    <2>5. \A u \in Threads : Tells(u)' => ev'[u] = last'
      BY <2>3, <2>4
    <2>6. QED  BY <2>2, <2>5 DEF OneStage
  <1>3. CASE mixed'
    BY <1>3 DEF OneStage
  <1>4. QED  BY <1>1, <1>2, <1>3, NextSplit

(* The first session is taken before anything was remembered, and nothing  *)
(* was told before it was.                                                 *)
LEMMA FirstSession ==
  ASSUME Typed, OneClient, OnePipe, ToldOpen, ~raced, sessions = 1, peer = "listening"
  PROVE  told = Null /\ last = Null
  <1>1. ~Connected
    <2>1. \A p \in Pipes : handle[p] \in Nat /\ handle[p] <= 1 /\ handle[p] # 1
      BY CountsAreNat DEF Typed, TypeObjects, OneClient, Holds
    <2>2. QED  BY <2>1 DEF Connected, Typed, TypeObjects
  <1>2. QED  BY <1>1 DEF OnePipe, Unraced, ToldOpen

LEMMA StageToldStep ==
  ASSUME Typed, Typed', MainWaits, OneClient, OnePipe, ToldOpen, OneStage, StageTold,
         [Next]_vars
  PROVE  StageTold'
  <1> SUFFICES ASSUME ~raced', ~mixed', sessions' = 1, peer' = "open" PROVE Told'
    BY DEF StageTold
  <1>0. ~raced
    BY RacedStays
  <1>1. CASE Idles
    <2>1. UNCHANGED <<pc, ev, last, told, peer, sessions, mixed>>
      BY <1>1, IdlesStay DEF Idles, Loaded, Listen, HangUp, vars, thread, globals, ctl,
         history
    <2>2. QED  BY <1>0, <2>1 DEF StageTold, Told, Tells
  <1>2. ASSUME NEW t \in Threads, Begins(t) PROVE Told'
    <2>1. /\ UNCHANGED <<last, told, peer, sessions>> /\ pc[t] = "rest" /\ ~mixed
          /\ \A u \in Threads \ {t} : Stays(u)
      BY <1>2, BeginsRest, BeginsKeep, StageAlone
    <2>2. QED  BY <1>0, <2>1 DEF StageTold, Told, Tells, Stays
  <1>3. ASSUME NEW t \in Threads, Step(t) PROVE Told'
    <2>1. sessions = 1 /\ ~mixed /\ \A u \in Threads \ {t} : Stays(u)
      BY <1>3, StepTold, StageAlone, OthersStay
    <2>2. Told
      <3>1. CASE peer = "open"
        BY <1>0, <2>1, <3>1 DEF StageTold
      <3>2. CASE peer = "listening"
        BY <1>0, <2>1, <3>2, FirstSession DEF Told
      <3>3. QED  BY <1>3, <3>1, <3>2, StepTold
    <2>3. CASE EmitResolves(t)
      <3>1. told' = told /\ ev' = ev
            /\ (ev[t] \in StageSet => last' = ev[t] /\ pc'[t] = "enter")
            /\ (ev[t] \notin StageSet => last' = last) /\ pc[t] = "resolve"
        BY <2>3, DiagnosticsAssumption DEF EmitResolves, Remember, Goto, StageSet, ctl,
           Typed, TypeThreads
      <3>2. CASE ev[t] \in StageSet
        BY <3>1, <3>2 DEF Told, Tells
      <3>3. CASE ev[t] \notin StageSet
        BY <2>1, <2>2, <3>1, <3>3 DEF Told, Tells, Stays
      <3>4. QED  BY <3>2, <3>3
    <2>4. CASE WriteText(t)
      <3>1. pc[t] = "text" /\ last' = last /\ mine[t] = gpipe /\ Connected /\ gpipe \in Pipes
        BY <1>0, <2>4 DEF WriteText, OnePipe, Unraced, AtPlace, Writing, globals, Connected,
           Typed, TypeObjects
      <3>2. handle[gpipe] = 1
        <4>1. handle[gpipe] \in Nat /\ handle[gpipe] # 0 /\ handle[gpipe] <= 1
          BY <2>1, <3>1, CountsAreNat DEF Connected, Typed, TypeObjects, OneClient
        <4>2. QED  BY <4>1
      <3>3. peer' = peer
        BY <2>4, <3>1, <3>2 DEF WriteText
      <3>4. told' = IF ev[t] \in StageSet THEN ev[t] ELSE told
        BY <2>1, <2>4, <3>1, <3>2, <3>3 DEF WriteText, Attached
      <3>5. CASE ev[t] \in StageSet
        <4>1. ev[t] = last
          BY <2>1, <3>1, <3>5 DEF OneStage, Tells
        <4>2. QED  BY <3>1, <3>4, <3>5, <4>1 DEF Told
      <3>6. CASE ev[t] \notin StageSet
        BY <2>1, <2>2, <3>1, <3>4, <3>6 DEF Told, Tells, Stays
      <3>7. QED  BY <3>5, <3>6
    <2>5. CASE EnterLock(t)
      <3>1. told' = told /\ last' = last /\ ev' = ev /\ pc[t] = "enter" /\ pc'[t] = "text"
        BY <2>5 DEF EnterLock, Goto, globals, ctl, Typed, TypeThreads
      <3>2. QED  BY <2>1, <2>2, <3>1 DEF Told, Tells, Stays
    <2>6. CASE ~EmitResolves(t) /\ ~WriteText(t) /\ ~EnterLock(t)
      <3>1. told' = told /\ last' = last
        BY <1>3, <2>6, StepTold
      <3>2. ~WriteRefused(t)
        BY <1>0 DEF WriteRefused, OnePipe, Unraced, AtPlace, Writing, Connected, Reached
      <3>3. pc[t] \notin {"enter", "text"}
        BY <1>3, <2>6, <3>2 DEF Step, TestHandler, AddHandler, Construct, Publish,
           TryConnect, StoreHandle, StartupSettles, EventSettles, EmitDrops, WriteNewline
      <3>4. QED  BY <2>1, <2>2, <3>1, <3>3 DEF Told, Tells, Stays
    <2>7. QED  BY <2>3, <2>4, <2>5, <2>6
  <1>4. QED  BY <1>1, <1>2, <1>3, NextSplit

-----------------------------------------------------------------------------
IInv == /\ Typed /\ MainWaits
        /\ OneClient /\ WritesLocked /\ HalfLine
        /\ Handlers /\ OneStartup
        /\ OnePipe /\ ToldOpen /\ OneStage /\ StageTold

LEMMA IInvInit == Init => IInv
  <1> SUFFICES ASSUME Init PROVE IInv
    OBVIOUS
  <1>1. Typed
    BY TypeInit
  <1>2. MainWaits /\ WritesLocked /\ Handlers
    BY DEF Init, MainWaits, WritesLocked, Handlers, Threads
  <1>3. OneClient
    BY DEF Init, OneClient, Holds, Opened
  <1>4. HalfLine
    BY DEF Init, HalfLine
  <1>5. OneStartup
    BY DEF Init, OneStartup, InStartup
  <1>6. OnePipe
    <2>1. ~Connected /\ \A t \in Threads : Clear(t)
      BY DEF Init, Connected, Clear
    <2>2. \A t \in Threads : AtPlace(t) /\ ~Connecting(t)
      BY <2>1, ClearPlace
    <2>3. QED  BY <2>2 DEF Init, OnePipe, Unraced, Alone, SessionHeld
  <1>7. ToldOpen /\ StageTold
    BY DEF Init, ToldOpen, StageTold
  <1>8. OneStage
    BY DEF Init, OneStage, InStage, Tells
  <1>9. QED  BY <1>1, <1>2, <1>3, <1>4, <1>5, <1>6, <1>7, <1>8 DEF IInv

LEMMA IInvStep == IInv /\ [Next]_vars => IInv'
  <1> SUFFICES ASSUME IInv, [Next]_vars PROVE IInv'
    OBVIOUS
  <1>1. Typed'
    BY TypeStep DEF IInv
  <1>2. MainWaits' /\ OneClient' /\ WritesLocked'
    BY <1>1, MainWaitsStep, OneClientStep, WritesLockedStep DEF IInv
  <1>3. HalfLine'
    BY <1>1, HalfLineStep DEF IInv
  <1>4. Handlers' /\ OneStartup'
    BY <1>1, OneStartupStep DEF IInv
  <1>5. OnePipe'
    BY <1>1, OnePipeStep DEF IInv
  <1>6. ToldOpen' /\ OneStage' /\ StageTold'
    BY <1>1, ToldOpenStep, OneStageStep, StageToldStep DEF IInv
  <1>7. QED  BY <1>1, <1>2, <1>3, <1>4, <1>5, <1>6 DEF IInv

LEMMA IInvAlways == Spec => []IInv
  BY IInvInit, IInvStep, PTL DEF Spec

(* The fields keep their types, whatever the number of threads. *)
THEOREM TypeCorrect == Spec => []TypeOK
  <1>1. IInv => TypeOK
    BY TypeGroups DEF IInv
  <1>2. QED  BY <1>1, IInvAlways, PTL

(* write_line: as long as no exception was written past the lock, no line  *)
(* that reaches the controller is mixed with another one.                  *)
THEOREM LinesTheorem == Spec => []LinesWhole
  <1>1. IInv => LinesWhole
    BY DEF IInv, HalfLine, LinesWhole
  <1>2. QED  BY <1>1, IInvAlways, PTL

(* startup: unless the entrypoint and the poll thread were in it at once,  *)
(* one hello is sent and one exception handler installed.                  *)
THEOREM StartTheorem == Spec => []SingleStart
  <1>1. ASSUME IInv PROVE SingleStart
    <2>1. hellos \in Nat /\ handlers \in Nat
      BY <1>1 DEF IInv, Typed, TypeHistory
    <2>2. ~overlap => hellos <= 1 /\ handlers <= 1
      BY <1>1, <2>1 DEF IInv, OneStartup
    <2>3. QED  BY <2>1, <2>2 DEF SingleStart
  <1>2. QED  BY <1>1, IInvAlways, PTL

(* connect_pipe: as long as no two threads were connecting at once, no     *)
(* emit runs into a null g_pipe, and the handle an attached controller     *)
(* answers to is in g_pipe or on its way there.                            *)
THEOREM ReachedTheorem == Spec => []AttachedReachable
  <1>1. IInv => AttachedReachable
    BY DEF IInv, OnePipe, Unraced, AtPlace, SessionHeld, Carries, AttachedReachable
  <1>2. QED  BY <1>1, IInvAlways, PTL

(* emit_game_stage: under the same condition, and unless two threads were  *)
(* reporting at once, the first controller has been told the stage that is *)
(* remembered, or that line is being written.                              *)
THEOREM StageTheorem == Spec => []StageReported
  <1>1. IInv => StageReported
    BY DEF IInv, StageTold, Told, Tells, StageReported
  <1>2. QED  BY <1>1, IInvAlways, PTL

(* connect_pipe: a NamedPipe that was connected once never connects again, *)
(* and as long as no two threads were connecting at once g_pipe keeps it   *)
(* and the handle it has, whether or not the controller hung up since.     *)
THEOREM KeptTheorem ==
  Spec => [][~raced /\ Connected =>
               gpipe' = gpipe /\ handle'[gpipe] = handle[gpipe]]_<<gpipe, handle>>
  <1>1. ASSUME IInv, [Next]_vars, ~raced, Connected
        PROVE  gpipe' = gpipe /\ handle'[gpipe] = handle[gpipe]
    <2>1. Typed /\ MainWaits /\ Unraced
      BY <1>1 DEF IInv, OnePipe
    <2>2. CASE Idles
      BY <2>2 DEF Idles, Loaded, Listen, HangUp, vars, thread, object, globals
    <2>3. ASSUME NEW t \in Threads, Begins(t)
          PROVE  gpipe' = gpipe /\ handle' = handle
      BY <1>1, <2>1, <2>3, BeginsRest, BeginsKeep
    <2>4. ASSUME NEW t \in Threads, Step(t)
          PROVE  gpipe' = gpipe /\ handle'[gpipe] = handle[gpipe]
      BY <1>1, <2>1, <2>4, ConnectedStep
    <2>5. QED  BY <1>1, <2>2, <2>3, <2>4, NextSplit
  <1>2. IInv /\ [Next]_vars =>
          [~raced /\ Connected =>
             gpipe' = gpipe /\ handle'[gpipe] = handle[gpipe]]_<<gpipe, handle>>
    BY <1>1
  <1>3. QED  BY <1>2, IInvAlways, PTL DEF Spec
=============================================================================
