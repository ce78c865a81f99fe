----------------------------- MODULE Diagnostics -----------------------------
(***************************************************************************)
(* Startup and the diagnostics pipe: src/src/diagnostics/handlers.cpp,     *)
(* namedpipe.cpp, the exception handlers and the log functions that emit   *)
(* events.  g_pipe is one unprotected global.  Every thread that emits     *)
(* runs connect_pipe, which may construct a NamedPipe, call CreateFile and *)
(* store both results in separate steps, and assigns g_pipe once more;     *)
(* only the writing of a line is under the lock of a NamedPipe, and not    *)
(* even that for an exception.                                             *)
(* A pipe of the controller takes one client.  A NamedPipe nobody points   *)
(* to any more is leaked; its place in Pipes is used again.  Teardown runs *)
(* when the other threads are gone and is not modelled.                    *)
(***************************************************************************)
EXTENDS Integers, FiniteSets

CONSTANTS Main, Poll,    \* the game's main thread, start_diagnostics_poll's
          Others,        \* the threads that log
          Pipes,         \* the NamedPipe objects
          Null,          \* no object, no thread, no stage
          Stages,        \* that the game's hooks report
          Tries,         \* connect attempts of one startup, 50
          Rounds,        \* startups by the poll thread, 600
          MaxEvents,     \* bound on logs, stages and exceptions after the entrypoint
          MaxSessions    \* bound on the pipes the controller opens

Threads  == {Main, Poll} \cup Others
StageSet == Stages \cup {"started"}
Emits    == StageSet \cup {"hello", "log", "exception"}

ASSUME DiagnosticsAssumption ==
  /\ Main # Poll /\ Main \notin Others /\ Poll \notin Others
  /\ Null \notin Pipes \cup Threads \cup StageSet
  /\ Stages \cap {"startup", "hello", "log", "exception", "started"} = {}
  /\ IsFiniteSet(Pipes) /\ IsFiniteSet(Others)
  /\ Cardinality(Pipes) > Cardinality(Threads)
  /\ Tries \in Nat \ {0} /\ Rounds \in Nat
  /\ MaxEvents \in Nat /\ MaxSessions \in Nat

VARIABLES
  pc,       \* of each thread: rest, veh, adding, connect, made, try, store, settle,
            \* resolve, enter, text, newline, crashed
  ev,       \* what it is about: startup or an event
  mine,     \* the NamedPipe it works on
  opened,   \* what CreateFile gave it: a session, 0 for none
  got,      \* what connect_pipe returns
  tries,    \* attempts of its startup
  gpipe,    \* g_pipe
  handle,   \* of each NamedPipe: its session, 0 for INVALID_HANDLE_VALUE
  lock,     \* of each NamedPipe: its owner
  started,  \* g_diagnostics_started
  veh,      \* g_veh_handle is set
  handling, \* g_handling_exception
  last,     \* g_last_game_stage
  phase,    \* of the process: attach, boot (logging), loaded, entered
  rounds, events,             \* what the bounds count
  peer, sessions,             \* the controller: absent, listening, open; its pipes so far
  half,                       \* thread whose line has no line end yet
  told,                       \* the last stage this session was told
  torn,                       \* a line was mixed with another
  raced,                      \* two threads were connecting at once
  overlap,                    \* two threads were in startup at once
  mixed,                      \* two threads were reporting a stage at once
  unlocked,                   \* an exception was written
  handlers, hellos, readers   \* how often each was set up

thread  == <<pc, ev, mine, opened, got, tries>>
object  == <<gpipe, handle, lock>>
globals == <<started, veh, handling, last>>
process == <<phase, rounds, events>>
ctl     == <<peer, sessions, half, told, torn>>
history == <<raced, overlap, mixed, unlocked, handlers, hellos, readers>>
vars    == <<thread, object, globals, process, ctl, history>>

Init ==
  /\ pc = [t \in Threads |-> "rest"] /\ ev = [t \in Threads |-> "log"]
  /\ mine = [t \in Threads |-> Null] /\ opened = [t \in Threads |-> 0]
  /\ got = [t \in Threads |-> FALSE] /\ tries = [t \in Threads |-> 0]
  /\ gpipe = Null
  /\ handle = [p \in Pipes |-> 0] /\ lock = [p \in Pipes |-> Null]
  /\ started = FALSE /\ veh = FALSE /\ handling = FALSE /\ last = Null
  /\ phase = "attach" /\ rounds = 0 /\ events = 0
  /\ peer = "absent" /\ sessions = 0 /\ half = Null /\ told = Null /\ torn = FALSE
  /\ raced = FALSE /\ overlap = FALSE /\ mixed = FALSE /\ unlocked = FALSE
  /\ handlers = 0 /\ hellos = 0 /\ readers = 0

-----------------------------------------------------------------------------
Goto(t, where) == pc' = [pc EXCEPT ![t] = where]

InStartup(t) == pc[t] # "rest" /\ ev[t] \in {"startup", "hello", "started"}
InStage(t)   == pc[t] # "rest" /\ ev[t] \in StageSet

(* A thread starts on an event: emit_message, emit_game_stage,             *)
(* emit_exception_event up to connect_pipe                                 *)
Begin(t, event) ==
  /\ Goto(t, "connect")
  /\ ev' = [ev EXCEPT ![t] = event]
  /\ mixed' = (mixed \/ (event \in StageSet /\ \E u \in Threads \ {t} : InStage(u)))

(* DllMain logs before there is any other thread *)
BootLogs ==
  /\ phase = "attach"
  /\ phase' = "boot" /\ Begin(Main, "log")
  /\ UNCHANGED <<mine, opened, got, tries, object, globals, rounds, events, ctl, raced,
                 overlap, unlocked, handlers, hellos, readers>>

Loaded ==
  /\ phase = "boot" /\ pc[Main] = "rest"
  /\ phase' = "loaded"
  /\ UNCHANGED <<thread, object, globals, rounds, events, ctl, history>>

(* logf, eventf, the log's own exceptions and emit_proudnet_tcp: one message *)
Log(t) ==
  /\ phase = "entered" /\ t # Poll /\ pc[t] = "rest" /\ events < MaxEvents
  /\ events' = events + 1 /\ Begin(t, "log")
  /\ UNCHANGED <<mine, opened, got, tries, object, globals, phase, rounds, ctl, raced,
                 overlap, unlocked, handlers, hellos, readers>>

(* stagef, from a stage hook or from TCPSocket::Connect on any thread *)
Stage(t, stage) ==
  /\ phase = "entered" /\ t # Poll /\ pc[t] = "rest" /\ events < MaxEvents
  /\ events' = events + 1 /\ Begin(t, stage)
  /\ UNCHANGED <<mine, opened, got, tries, object, globals, phase, rounds, ctl, raced,
                 overlap, unlocked, handlers, hellos, readers>>

(* An exception in the game's code: without the handler, or while another  *)
(* thread is in it, nothing is emitted.                                    *)
Fault(t) ==
  /\ phase = "entered" /\ t # Poll /\ pc[t] = "rest" /\ events < MaxEvents
  /\ veh /\ ~handling
  /\ handling' = TRUE
  /\ events' = events + 1 /\ Begin(t, "exception")
  /\ UNCHANGED <<mine, opened, got, tries, object, started, veh, last, phase, rounds,
                 ctl, raced, overlap, unlocked, handlers, hellos, readers>>

-----------------------------------------------------------------------------
(* startup, from the entrypoint hook and from the poll thread *)

EnterStartup(t) ==
  /\ ~started
  /\ Goto(t, "veh")
  /\ ev' = [ev EXCEPT ![t] = "startup"]
  /\ tries' = [tries EXCEPT ![t] = 0]
  /\ overlap' = (overlap \/ \E u \in Threads \ {t} : InStartup(u))
  /\ UNCHANGED <<mine, opened, got, object, globals, events, ctl, raced, mixed, unlocked,
                 handlers, hellos, readers>>

EntryPoint ==
  /\ phase = "loaded"
  /\ phase' = "entered" /\ UNCHANGED rounds
  /\ \/ EnterStartup(Main)
     \/ started /\ UNCHANGED <<thread, object, globals, events, ctl, history>>

PollRound ==
  /\ phase \in {"loaded", "entered"} /\ pc[Poll] = "rest" /\ rounds < Rounds
  /\ rounds' = rounds + 1 /\ UNCHANGED phase
  /\ EnterStartup(Poll)

(* The vectored handler: its handle is tested, then set *)
TestHandler(t) ==
  /\ pc[t] = "veh"
  /\ Goto(t, IF veh THEN "connect" ELSE "adding")
  /\ UNCHANGED <<ev, mine, opened, got, tries, object, globals, process, ctl, history>>

AddHandler(t) ==
  /\ pc[t] = "adding"
  /\ veh' = TRUE /\ handlers' = handlers + 1
  /\ Goto(t, "connect")
  /\ UNCHANGED <<ev, mine, opened, got, tries, object, started, handling, last, process,
                 ctl, raced, overlap, mixed, unlocked, hellos, readers>>

-----------------------------------------------------------------------------
(* connect_pipe *)

Connected == gpipe # Null /\ handle[gpipe] # 0
Connecting(t) == \/ pc[t] \in {"made", "try", "store"}
                 \/ pc[t] \in {"settle", "resolve"} /\ ~got[t]

(* CreateFile: the session the caller has now *)
Opens   == IF peer = "listening" THEN sessions ELSE 0
PeerTook == peer' = IF peer = "listening" THEN "open" ELSE peer

(* An object nobody points to any more is never closed; what it is         *)
(* connected to is lost.                                                   *)
Leak == handle' = [p \in Pipes |-> IF p = gpipe' \/ \E t \in Threads : mine'[t] = p
                                     THEN handle[p] ELSE 0]

Fresh == CHOOSE p \in Pipes : p # gpipe /\ \A t \in Threads : mine[t] # p

(* g_pipe is tested; new NamedPipe calls CreateFile in its constructor *)
Construct(t) ==
  /\ pc[t] = "connect"
  /\ raced' = (raced \/ (~Connected /\ \E u \in Threads \ {t} : Connecting(u)))
  /\ IF gpipe = Null
       THEN /\ mine' = [mine EXCEPT ![t] = Fresh]
            /\ handle' = [handle EXCEPT ![Fresh] = Opens]
            /\ lock' = [lock EXCEPT ![Fresh] = Null]
            /\ PeerTook /\ Goto(t, "made")
       ELSE Goto(t, "try") /\ UNCHANGED <<mine, handle, lock, peer>>
  /\ UNCHANGED <<ev, opened, got, tries, gpipe, globals, process, sessions, half, told,
                 torn, overlap, mixed, unlocked, handlers, hellos, readers>>

Publish(t) ==
  /\ pc[t] = "made"
  /\ gpipe' = mine[t] /\ mine' = [mine EXCEPT ![t] = Null]
  /\ Leak
  /\ Goto(t, "try")
  /\ UNCHANGED <<ev, opened, got, tries, lock, globals, process, ctl, history>>

(* NamedPipe::connect_pipe on what g_pipe is by now *)
TryConnect(t) ==
  /\ pc[t] = "try"
  /\ \/ /\ gpipe = Null \/ Connected
        /\ got' = [got EXCEPT ![t] = gpipe # Null]
        /\ Goto(t, "settle")
        /\ UNCHANGED <<mine, opened, peer>>
     \/ /\ gpipe # Null /\ ~Connected
        /\ mine' = [mine EXCEPT ![t] = gpipe]
        /\ opened' = [opened EXCEPT ![t] = Opens]
        /\ PeerTook /\ Goto(t, "store")
        /\ UNCHANGED got
  /\ UNCHANGED <<ev, tries, object, globals, process, sessions, half, told, torn, history>>

StoreHandle(t) ==
  /\ pc[t] = "store"
  /\ handle' = [handle EXCEPT ![mine[t]] = opened[t]]
  /\ got' = [got EXCEPT ![t] = opened[t] # 0]
  /\ opened' = [opened EXCEPT ![t] = 0]
  /\ Goto(t, "settle")
  /\ UNCHANGED <<ev, mine, tries, gpipe, lock, globals, process, ctl, history>>

(* Mutant of Settled: the result is the wrong way round. *)
SettledSwapped(t) == IF got[t] THEN Null ELSE gpipe

(* The caller assigns the result to g_pipe: an unconnected NamedPipe is    *)
(* forgotten, never deleted.                                               *)
Settled(t) == IF got[t] THEN gpipe ELSE Null

(* Mutant of SetStarted: startup goes on without setting the flag. *)
SetStartedNever == UNCHANGED started

SetStarted == started' = TRUE

(* startup's loop: connected, try again, or give up *)
StartupSettles(t) ==
  /\ pc[t] = "settle" /\ ev[t] = "startup"
  /\ gpipe' = Settled(t)
  /\ mine' = [mine EXCEPT ![t] = Null] /\ got' = [got EXCEPT ![t] = FALSE]
  /\ Leak
  /\ \/ /\ gpipe' # Null
        /\ SetStarted
        /\ hellos' = hellos + 1
        /\ ev' = [ev EXCEPT ![t] = "hello"] /\ Goto(t, "connect")
        /\ tries' = [tries EXCEPT ![t] = 0]
     \/ /\ gpipe' = Null
        /\ IF tries[t] + 1 < Tries
             THEN tries' = [tries EXCEPT ![t] = @ + 1] /\ Goto(t, "connect")
             ELSE tries' = [tries EXCEPT ![t] = 0] /\ Goto(t, "rest")
        /\ UNCHANGED <<ev, started, hellos>>
  /\ UNCHANGED <<opened, lock, veh, handling, last, process, ctl, raced,
                 overlap, mixed, unlocked, handlers, readers>>

EventSettles(t) ==
  /\ pc[t] = "settle" /\ ev[t] # "startup"
  /\ gpipe' = Settled(t)
  /\ mine' = [mine EXCEPT ![t] = Null]
  /\ Leak
  /\ Goto(t, "resolve")
  /\ UNCHANGED <<ev, opened, got, tries, lock, globals, process, ctl, history>>

-----------------------------------------------------------------------------
(* The rest of an emit *)

(* The emit returns: startup goes on from hello to the stage "started", to *)
(* HandlerPipe::start, which lets one caller through.                      *)
Done(t) ==
  /\ mine' = [mine EXCEPT ![t] = Null] /\ got' = [got EXCEPT ![t] = FALSE]
  /\ Goto(t, IF ev[t] = "hello" THEN "connect" ELSE "rest")
  /\ ev' = [ev EXCEPT ![t] = IF @ = "hello" THEN "started" ELSE "log"]
  /\ readers' = IF ev[t] = "started" /\ readers = 0 THEN 1 ELSE readers
  /\ handling' = (handling /\ ev[t] # "exception")
  /\ mixed' = (mixed \/ (ev[t] = "hello" /\ \E u \in Threads \ {t} : InStage(u)))

(* emit_game_stage drops what it reported last *)
Repeated(t) == ev[t] \in StageSet /\ last = ev[t]

(* Mutant of Remember: the stage is not kept. *)
RememberNever(t) == UNCHANGED last

Remember(t) == last' = IF ev[t] \in StageSet THEN ev[t] ELSE last

(* g_pipe is null: the emit returns, unless it was null only at its use *)
EmitDrops(t) ==
  /\ pc[t] = "resolve"
  /\ gpipe = Null \/ Repeated(t)
  /\ \/ Done(t)
     \/ /\ gpipe = Null /\ got[t] /\ Goto(t, "crashed")
        /\ UNCHANGED <<ev, mine, got, handling, mixed, readers>>
  /\ UNCHANGED <<opened, tries, object, started, veh, last, process, ctl, raced,
                 overlap, unlocked, handlers, hellos>>

(* Mutant of HasPipe: g_pipe is used without the test. *)
HasPipeUntested == TRUE

HasPipe == gpipe # Null

EmitResolves(t) ==
  /\ pc[t] = "resolve" /\ HasPipe /\ ~Repeated(t)
  /\ Remember(t)
  /\ mine' = [mine EXCEPT ![t] = gpipe] /\ got' = [got EXCEPT ![t] = FALSE]
  /\ Goto(t, IF ev[t] = "exception" THEN "text" ELSE "enter")
  /\ UNCHANGED <<ev, opened, tries, object, started, veh, handling, process, ctl, history>>

(* Mutant of Free: the line is written without waiting for the lock. *)
FreeAlways(p) == TRUE

Free(p) == lock[p] = Null

EnterLock(t) ==
  /\ pc[t] = "enter" /\ Free(mine[t])
  /\ lock' = [lock EXCEPT ![mine[t]] = t]
  /\ Goto(t, "text")
  /\ UNCHANGED <<ev, mine, opened, got, tries, gpipe, handle, globals, process, ctl, history>>

(* Mutant of Leave: the lock is kept. *)
LeaveKeeps(t) == UNCHANGED lock

Leave(t) == lock' = [p \in Pipes |-> IF lock[p] = t THEN Null ELSE lock[p]]

(* What the object is connected to when it is written to *)
Reached(t) == IF handle[mine[t]] # 0 THEN handle[mine[t]] ELSE Opens
Attached(s) == peer = "open" /\ s = sessions

(* write_line_unlocked: connect once more, then the text of the line *)
WriteText(t) ==
  /\ pc[t] = "text" /\ Reached(t) # 0
  /\ handle' = [handle EXCEPT ![mine[t]] = Reached(t)]
  /\ peer' = IF handle[mine[t]] = 0 THEN "open" ELSE peer
  /\ IF handle[mine[t]] = 0 \/ Attached(handle[mine[t]])
       THEN /\ half' = t
            /\ torn' = (torn \/ half # Null)
            /\ told' = IF ev[t] \in StageSet THEN ev[t] ELSE told
       ELSE UNCHANGED <<half, torn, told>>
  /\ unlocked' = (unlocked \/ ev[t] = "exception")
  /\ Goto(t, "newline")
  /\ UNCHANGED <<ev, mine, opened, got, tries, gpipe, lock, globals, process, sessions,
                 raced, overlap, mixed, handlers, hellos, readers>>

WriteRefused(t) ==
  /\ pc[t] = "text" /\ Reached(t) = 0
  /\ UNCHANGED gpipe /\ Leave(t) /\ Done(t) /\ Leak
  /\ UNCHANGED <<opened, tries, started, veh, last, process, ctl, raced,
                 overlap, unlocked, handlers, hellos>>

(* ... and its line end *)
WriteNewline(t) ==
  /\ pc[t] = "newline"
  /\ IF Attached(handle[mine[t]])
       THEN half' = Null /\ torn' = (torn \/ half \notin {t, Null})
       ELSE UNCHANGED <<half, torn>>
  /\ UNCHANGED gpipe /\ Leave(t) /\ Done(t) /\ Leak
  /\ UNCHANGED <<opened, tries, started, veh, last, process, peer,
                 sessions, told, raced, overlap, unlocked, handlers, hellos>>

-----------------------------------------------------------------------------
(* The controller *)

Listen ==
  /\ peer = "absent" /\ sessions < MaxSessions
  /\ peer' = "listening" /\ sessions' = sessions + 1
  /\ UNCHANGED <<thread, object, globals, process, half, told, torn, history>>

HangUp ==
  /\ peer # "absent"
  /\ peer' = "absent" /\ half' = Null /\ told' = Null
  /\ UNCHANGED <<thread, object, globals, process, sessions, torn, history>>

(* What a thread does once it has begun *)
Step(t) == \/ TestHandler(t) \/ AddHandler(t)
           \/ Construct(t) \/ Publish(t) \/ TryConnect(t) \/ StoreHandle(t)
           \/ StartupSettles(t) \/ EventSettles(t)
           \/ EmitDrops(t) \/ EmitResolves(t)
           \/ EnterLock(t) \/ WriteText(t) \/ WriteRefused(t) \/ WriteNewline(t)

Next == \/ BootLogs \/ Loaded \/ EntryPoint \/ PollRound
        \/ \E t \in Threads : \/ Log(t) \/ Fault(t) \/ Step(t)
                              \/ \E stage \in Stages : Stage(t, stage)
        \/ Listen \/ HangUp

Spec == Init /\ [][Next]_vars

(* The threads run, and the loader, the entrypoint and the poll loop with  *)
(* them; the controller and the game's events owe nothing.                 *)
FairSpec == /\ Spec
            /\ \A t \in Threads : WF_vars(Step(t))
            /\ WF_vars(BootLogs) /\ WF_vars(Loaded)
            /\ WF_vars(EntryPoint) /\ WF_vars(PollRound)

-----------------------------------------------------------------------------
(* The fields keep their types. *)
TypeOK ==
  /\ pc \in [Threads -> {"rest", "veh", "adding", "connect", "made", "try", "store",
                         "settle", "resolve", "enter", "text", "newline", "crashed"}]
  /\ ev \in [Threads -> Emits \cup {"startup"}]
  /\ mine \in [Threads -> Pipes \cup {Null}]
  /\ \A t \in Threads : pc[t] \in {"made", "store", "enter", "text", "newline"}
                          => mine[t] \in Pipes
  /\ opened \in [Threads -> 0..MaxSessions]
  /\ got \in [Threads -> BOOLEAN]
  /\ tries \in [Threads -> 0..Tries]
  /\ gpipe \in Pipes \cup {Null}
  /\ handle \in [Pipes -> 0..MaxSessions]
  /\ lock \in [Pipes -> Threads \cup {Null}]
  /\ started \in BOOLEAN /\ veh \in BOOLEAN /\ handling \in BOOLEAN
  /\ last \in StageSet \cup {Null}
  /\ phase \in {"attach", "boot", "loaded", "entered"}
  /\ rounds \in 0..Rounds /\ events \in 0..MaxEvents
  /\ peer \in {"absent", "listening", "open"} /\ sessions \in 0..MaxSessions
  /\ peer # "absent" => sessions # 0
  /\ half \in Threads \cup {Null} /\ told \in StageSet \cup {Null}
  /\ torn \in BOOLEAN /\ raced \in BOOLEAN /\ overlap \in BOOLEAN /\ mixed \in BOOLEAN
  /\ unlocked \in BOOLEAN
  /\ handlers \in Nat /\ hellos \in Nat /\ readers \in {0, 1}

(* Every line reaches the controller whole, with its line end before the   *)
(* next one, unless an exception was written: that path takes no lock.     *)
LinesWhole == torn => unlocked

(* Readme.md: "If a controller is attached, it sends messages".  As long   *)
(* as no two threads were connecting at once, the handle the controller    *)
(* answers to is the one the next event is written through, or on its way  *)
(* there, and no emit runs into a null g_pipe.                             *)
AttachedReachable ==
  ~raced =>
    /\ \A t \in Threads : pc[t] # "crashed"
    /\ peer = "open" =>
         \/ gpipe # Null /\ handle[gpipe] = sessions
         \/ \E t \in Threads : \/ pc[t] = "made" /\ handle[mine[t]] = sessions
                               \/ pc[t] = "store" /\ opened[t] = sessions

(* Under the same condition the first controller has been told the stage   *)
(* emit_game_stage remembers, unless that line is being written, or two    *)
(* threads were reporting at once: a stage is remembered only if it could  *)
(* be sent.                                                                *)
StageReported ==
  ~raced /\ ~mixed /\ sessions = 1 /\ peer = "open" =>
    \/ told = last
    \/ \E t \in Threads : ev[t] = last /\ pc[t] \in {"enter", "text"}

(* Startup is tried by two threads, again and again; unless both were in   *)
(* it at once, one of them says hello and one handler is installed, and    *)
(* the handler pipe has one reader in any case.                            *)
SingleStart == (hellos > 1 \/ handlers > 1) => overlap

(* A first controller that listens while the poll thread has a round left  *)
(* is attached to, and startup runs to its end, the reader of the handler  *)
(* pipe included, unless the controller goes away or two threads connect   *)
(* at once.                                                                *)
AttachedStarted ==
  (peer = "listening" /\ sessions = 1 /\ rounds < Rounds)
    ~> (started /\ readers = 1) \/ peer = "absent" \/ raced
=============================================================================
