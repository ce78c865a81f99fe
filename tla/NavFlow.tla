------------------------------ MODULE NavFlow ------------------------------
(***************************************************************************)
(* The navigation command of the handler pipe: src/src/RMI/NavCommands.cpp *)
(* and src/src/RMI/Nav.cpp.  Three threads share it:                       *)
(*   - the pipe reader, which queues a command and, still under the queue  *)
(*     lock, installs the message hook and wakes the main thread;          *)
(*   - the main thread, which enters NavPump from a stage hook or from the *)
(*     message hook, drains the queue and advances the flow;               *)
(*   - the wake-up thread, which posts a message every half second while   *)
(*     the flow is pending.                                                *)
(* Commands are all alike, so the queue is its length.  NavTeardown runs   *)
(* when the process is detaching and its threads are gone: left out.       *)
(***************************************************************************)
EXTENDS Naturals, Sequences

CONSTANTS QueueSize,      \* kQueueSize, 16 in the code
          MaxCommands,    \* bound on commands received
          MaxFailures,    \* bound on hooks that could not be installed
          MaxGameEvents   \* bound on fades and on leaving the lobby

ASSUME NavAssumption ==
  /\ QueueSize \in Nat \ {0}
  /\ MaxCommands \in Nat /\ MaxFailures \in Nat /\ MaxGameEvents \in Nat

VARIABLES
  queued,      \* g_tail - g_head
  reader,      \* pipe reader: idle, or holding the lock in sched, hook,
               \*   hooked or null (what SetWindowsHookExA answered), wake
  main,        \* main thread: idle, hook, hooked or null, drain, pass
  mainKnown,   \* g_main_tid # 0
  handle,      \* g_getmsg_hook is set
  hooks,       \* hooks the system has installed
  failures,    \* installations that failed
  posted,      \* a message waits in the main thread's queue
  pending, didSelect, didRequest, didNotify,    \* the flow's flags
  wake,        \* wake-up thread: off, check, sleep, exit
  unwoken,     \* a flow is pending and no wake-up thread attends to it
  scene, locked, moving,   \* the game: scene, transition lock, state change
  sent,        \* messages sent for the command drained last
  commands, events

queue == <<queued, reader, commands>>
hook  == <<mainKnown, handle, hooks, failures>>
flow  == <<pending, didSelect, didRequest, didNotify, sent>>
waker == <<wake, unwoken>>
game  == <<scene, locked, moving, events>>
vars  == <<queue, main, hook, posted, flow, waker, game>>

Init ==
  /\ queued = 0 /\ reader = "idle" /\ commands = 0
  /\ main = "idle"
  /\ mainKnown = FALSE /\ handle = FALSE /\ hooks = 0 /\ failures = 0
  /\ posted = FALSE
  /\ pending = FALSE /\ didSelect = FALSE /\ didRequest = FALSE /\ didNotify = FALSE
  /\ sent = <<>>
  /\ wake = "off" /\ unwoken = FALSE
  /\ scene = "shard" /\ locked \in BOOLEAN /\ moving = FALSE /\ events = 0

-----------------------------------------------------------------------------
(* The pipe reader: NavEnqueueCommand, NavSchedulePump                     *)

(* A full queue drops the command; the pipe answers ok all the same. *)
Enqueue ==
  /\ reader = "idle" /\ commands < MaxCommands
  /\ commands' = commands + 1
  /\ \/ /\ queued < QueueSize
        /\ queued' = queued + 1 /\ reader' = "sched"
     \/ /\ queued = QueueSize
        /\ UNCHANGED <<queued, reader>>
  /\ UNCHANGED <<main, hook, posted, flow, waker, game>>

(* ensure_getmsg_hook looks at the handle ... *)
Schedule ==
  /\ reader = "sched"
  /\ reader' = IF handle \/ ~mainKnown THEN "wake" ELSE "hook"
  /\ UNCHANGED <<queued, commands, main, hook, posted, flow, waker, game>>

Fails == failures < MaxFailures /\ failures' = failures + 1 /\ UNCHANGED hooks

(* ... a thread that has seen none asks for one: the module may not be     *)
(* found, the system may refuse, or it installs one more hook,             *)
Install(at, after) ==
  \/ Fails /\ at' = after
  \/ Fails /\ at' = "null"
  \/ hooks' = hooks + 1 /\ at' = "hooked" /\ UNCHANGED failures

(* and the answer is stored, whatever another thread stored in between.    *)
Store(at, after) ==
  /\ at \in {"hooked", "null"}
  /\ handle' = (at = "hooked")
  /\ at' = after

ReaderHooks ==
  /\ reader = "hook"
  /\ Install(reader, "wake")
  /\ UNCHANGED <<queued, commands, main, mainKnown, handle, posted, flow, waker, game>>

ReaderStores ==
  /\ Store(reader, "wake")
  /\ UNCHANGED <<queued, commands, main, mainKnown, hooks, failures, posted, flow, waker, game>>

(* wake_main_thread, then the queue lock is released *)
ReaderWakes ==
  /\ reader = "wake"
  /\ posted' = (posted \/ mainKnown)
  /\ reader' = "idle"
  /\ UNCHANGED <<queued, commands, main, hook, flow, waker, game>>

LockFree == reader = "idle"

-----------------------------------------------------------------------------
(* The main thread                                                         *)

(* Mutant of EnterPump: the hook is installed without looking for one. *)
EnterPumpHooks ==
  /\ mainKnown' = TRUE
  /\ main' = "hook"
  /\ UNCHANGED <<handle, hooks, failures>>

(* NavPump up to ensure_getmsg_hook's test *)
EnterPump ==
  /\ mainKnown' = TRUE
  /\ main' = IF handle THEN "drain" ELSE "hook"
  /\ UNCHANGED <<handle, hooks, failures>>

(* A stage hook of the active game state *)
StageTick ==
  /\ main = "idle"
  /\ EnterPump
  /\ UNCHANGED <<queue, posted, flow, waker, game>>

(* Mutant of HasWork: only the queue is asked. *)
HasWorkQueueOnly == queued > 0

(* Mutant of HasWork: only the flow is asked. *)
HasWorkFlowOnly == pending

HasWork == pending \/ queued > 0

(* A message is taken; nav_getmsg_proc runs if the hook is in place.  It   *)
(* asks the queue, under its lock, only when no flow is pending.           *)
GetMessage ==
  /\ main = "idle" /\ posted
  /\ hooks > 0 /\ ~pending => LockFree
  /\ posted' = FALSE
  /\ IF hooks > 0 /\ HasWork THEN EnterPump ELSE UNCHANGED <<main, hook>>
  /\ UNCHANGED <<queue, flow, waker, game>>

MainHooks ==
  /\ main = "hook"
  /\ Install(main, "drain")
  /\ UNCHANGED <<queue, mainKnown, handle, posted, flow, waker, game>>

MainStores ==
  /\ Store(main, "drain")
  /\ UNCHANGED <<queue, mainKnown, hooks, failures, posted, flow, waker, game>>

(* start_nav_wakeup_thread: nothing when the flag of a thread is still up, *)
(* even that of a thread on its way out; the thread may not be created.    *)
StartWakeup ==
  \/ wake = "off" /\ wake' = "check" /\ unwoken' = FALSE
  \/ wake = "off" /\ unwoken' = TRUE /\ UNCHANGED wake
  \/ wake # "off" /\ unwoken' = (unwoken \/ wake = "exit") /\ UNCHANGED wake

(* NavDrainCommands, one command per step *)
Drain ==
  /\ main = "drain" /\ LockFree
  /\ \/ /\ queued > 0
        /\ queued' = queued - 1
        /\ pending' = TRUE
        /\ didSelect' = FALSE /\ didRequest' = FALSE /\ didNotify' = FALSE
        /\ sent' = <<>>
        /\ StartWakeup
        /\ UNCHANGED main
     \/ /\ queued = 0
        /\ main' = "pass"
        /\ UNCHANGED <<queued, flow, waker>>
  /\ UNCHANGED <<reader, commands, hook, posted, game>>

(* The messages one call of pump_pass_shard_select sends *)
Select  == IF didSelect THEN <<>> ELSE <<"select">>
Notify  == IF scene # "lobby" \/ didNotify THEN <<>> ELSE <<"notify">>
Request == IF scene = "lobby" \/ locked \/ didRequest THEN <<>> ELSE <<"request">>

(* Mutant of ClearFlow: the flow stays pending. *)
ClearFlowKeepsPending ==
  /\ pending' = pending
  /\ didSelect' = FALSE /\ didRequest' = FALSE /\ didNotify' = FALSE

(* clear_pass_shard_flow *)
ClearFlow ==
  /\ pending' = FALSE
  /\ didSelect' = FALSE /\ didRequest' = FALSE /\ didNotify' = FALSE

(* pump_pass_shard_select *)
Pass ==
  /\ main = "pass"
  /\ main' = "idle"
  /\ \/ /\ ~pending
        /\ UNCHANGED <<flow, waker, moving>>
     \/ /\ pending
        /\ sent' = sent \o Select \o Notify \o Request
        /\ \/ /\ scene = "lobby"
              /\ ClearFlow
              /\ unwoken' = FALSE
              /\ UNCHANGED moving
           \/ /\ scene # "lobby"
              /\ didSelect' = TRUE
              /\ didRequest' = (didRequest \/ ~locked)
              /\ moving' = (moving \/ Request # <<>>)
              /\ UNCHANGED <<pending, didNotify, unwoken>>
        /\ UNCHANGED wake
  /\ UNCHANGED <<queue, hook, posted, scene, locked, events>>

-----------------------------------------------------------------------------
(* nav_wakeup_thread                                                       *)

WakeCheck ==
  /\ wake = "check"
  /\ wake' = IF pending THEN "sleep" ELSE "exit"
  /\ posted' = (posted \/ (pending /\ mainKnown))
  /\ UNCHANGED <<queue, main, hook, flow, unwoken, game>>

WakeSleeps ==
  /\ wake = "sleep"
  /\ wake' = "check"
  /\ UNCHANGED <<queue, main, hook, posted, flow, unwoken, game>>

(* 120 wake-ups are over: a minute, in which the main thread handles its   *)
(* messages, so the game itself holds the flow up, or no hook sees them.   *)
WakeGivesUp ==
  /\ wake = "check" /\ pending /\ (locked \/ moving \/ hooks = 0)
  /\ wake' = "exit" /\ unwoken' = TRUE
  /\ UNCHANGED <<queue, main, hook, posted, flow, game>>

(* The flag is cleared only after the loop. *)
WakeExits ==
  /\ wake = "exit"
  /\ wake' = "off"
  /\ UNCHANGED <<queue, main, hook, posted, flow, unwoken, game>>

-----------------------------------------------------------------------------
(* The game                                                                *)

GameEvent == events < MaxGameEvents /\ events' = events + 1

Fade ==
  /\ GameEvent /\ ~locked
  /\ locked' = TRUE
  /\ UNCHANGED <<queue, main, hook, posted, flow, waker, scene, moving>>

FadeEnds ==
  /\ locked
  /\ locked' = FALSE
  /\ UNCHANGED <<queue, main, hook, posted, flow, waker, scene, moving, events>>

EnterLobby ==
  /\ moving /\ ~locked
  /\ scene' = "lobby" /\ moving' = FALSE
  /\ UNCHANGED <<queue, main, hook, posted, flow, waker, locked, events>>

(* Every frame of the lobby runs its stage hook before the lobby is left. *)
LeaveLobby ==
  /\ GameEvent /\ scene = "lobby" /\ ~pending /\ main = "idle"
  /\ scene' = "shard"
  /\ UNCHANGED <<queue, main, hook, posted, flow, waker, locked, moving>>

ReaderNext == Schedule \/ ReaderHooks \/ ReaderStores \/ ReaderWakes
MainNext   == GetMessage \/ MainHooks \/ MainStores \/ Drain \/ Pass
WakerNext  == WakeCheck \/ WakeSleeps \/ WakeExits
GameNext   == FadeEnds \/ EnterLobby

Next == \/ Enqueue \/ ReaderNext
        \/ StageTick \/ MainNext
        \/ WakerNext \/ WakeGivesUp
        \/ GameNext \/ Fade \/ LeaveLobby

Spec == Init /\ [][Next]_vars

(* Threads run, the game comes out of a fade and reaches the scene it was  *)
(* asked for, the first stage hook fires and the lobby ticks every frame;  *)
(* the shard picker need not tick.                                         *)
Fairness ==
  /\ WF_vars(ReaderNext)
  /\ WF_vars(MainNext)
  /\ WF_vars(WakerNext)
  /\ WF_vars(FadeEnds) /\ WF_vars(EnterLobby)
  /\ WF_vars(~mainKnown /\ StageTick)
  /\ WF_vars(scene = "lobby" /\ StageTick)

FairSpec == Spec /\ Fairness

-----------------------------------------------------------------------------
(* The flow's variables keep their types.  Reader and main thread can both *)
(* find no hook and install one each; a further one is installed only      *)
(* after an installation that failed, which may also have overwritten the  *)
(* handle of a hook that is still there.                                   *)
TypeOK ==
  /\ queued \in 0..QueueSize /\ commands \in 0..MaxCommands
  /\ reader \in {"idle", "sched", "hook", "hooked", "null", "wake"}
  /\ main \in {"idle", "hook", "hooked", "null", "drain", "pass"}
  /\ mainKnown \in BOOLEAN /\ handle \in BOOLEAN
  /\ failures \in 0..MaxFailures
  /\ hooks \in 0..(2 + failures) /\ (handle => hooks > 0)
  /\ posted \in BOOLEAN /\ pending \in BOOLEAN
  /\ didSelect \in BOOLEAN /\ didRequest \in BOOLEAN /\ didNotify \in BOOLEAN
  /\ wake \in {"off", "check", "sleep", "exit"} /\ unwoken \in BOOLEAN
  /\ scene \in {"shard", "lobby"} /\ locked \in BOOLEAN /\ moving \in BOOLEAN
  /\ events \in 0..MaxGameEvents

(* However pumps, fades and further commands interleave, the command       *)
(* drained last sends 0x3EB2, then RequestState(4) if the lobby is not up  *)
(* yet, then 0x3F40, each at most once and in this order.                  *)
SentInOrder ==
  sent \in {<<>>, <<"select">>, <<"select", "request">>,
            <<"select", "request", "notify">>, <<"select", "notify">>}

(* There is no hook, because installing it failed: what the shard picker,  *)
(* which need not tick, does not take up nobody does.                      *)
Hookless == hooks = 0 /\ failures > 0

(* A queued command reaches the main thread, also one queued before the    *)
(* main thread was known, while the shard picker does not tick, or when a  *)
(* failed installation has made the code forget a hook it has: unless      *)
(* there is no hook for good.                                              *)
QueuedDrained == queued > 0 ~> (queued = 0 \/ []Hookless)

(* A command taken up reaches the lobby and its notification, unless there *)
(* is no hook for good, or the wake-up thread gave up on a blocked game,   *)
(* could not be created, or was found on its way out by the drain.         *)
CommandCompletes == pending ~> (~pending \/ unwoken \/ []Hookless)
=============================================================================
