# A verification of TheGame.dll

TheGame.dll is loaded into GAME.exe and replaces parts of it: it jumps from the
game's functions into its own (`hook_manager.cpp`), reimplements a slice of the
ProudNet client library (`src/ProudNet/`), traces and redirects its sockets
(`src/game/net/`), reports to and is driven by an external controller over two
named pipes (`src/diagnostics/`, `src/RMI/`), and reimplements the game's
strings (`src/game/engine/`). The code runs on threads it did not start, inside
objects whose layout it shares with the game, so most of what can go wrong is
an interleaving, a stale field or an early return that leaves half a change
behind. The modules here model those parts in TLA+, TLC checks them on small
instances and TLAPS proves the central invariants for all values of the
constants.

Paths below are relative to the repository (`src/` is its source tree).

## Inventory

### A, B. Overlapped socket and connection node
`src/ProudNet/FastSocket.cpp`, `ConnectionNode.cpp`,
`src/game/engine/TCPSocket.cpp`; layout in `include/ProudNet/Layout.hpp`.

- State: per node the FSM (1 connect, 2 send, 3 receive, 4 done, 5 failed), the
  outbound string, a send offset whose low byte is also a receive flag, two
  byte accounts and a receive buffer; per socket two OVERLAPPED structures, a
  flag for each direction, the staging buffers and the kernel handle.
- Operations: `run_state_1/2/3`, `retry_connect`, `arm_send`; `send`, `recv`,
  `send_complete`, `recv_complete`; the game's `TCPSocket::Send` on the same
  object from its own thread.
- Hard: completions arrive at any time; `CFastSocket::send` and `recv` share one
  OVERLAPPED while `send_complete` reads the other; handles close under a node.
- Correct when: the bytes reported as sent cover the outbound string before the
  node turns to receiving, received bytes are consumed once and inside the window,
  the flags follow the state, and a completion is eventually seen.

### C. Select, socket tracking and connecting
`src/game/net/socket_trace.cpp`, `proud_connect.cpp`,
`src/ProudNet/SelectContext.cpp`, `SelectFd.cpp`, `src/hooks/system/ws32.cpp`.

- State: `g_sockets_by_port`, never shrunk; the slot (+300) of each socket object;
  of each `w_connect_2` the socket it has opened and not yet handed out.
- Operations: `connect_with_remap` (the system's connect, then `track_connect`),
  `sync_fast_socket_handle` inside `poll`;
  `w_connect_2` (open, resolve, callback, bind, connect), `w_bind_3`, `w_connect_3`.
- Hard: handles are closed and reused while the table keeps them; the leg of a
  slot is guessed from `getpeername`, which does not answer before the connect
  is through; `select` ran on the handle the slot held before; `w_connect_2` may
  return early behind each of its steps with a socket open; polls on other threads
  run between the connect, the entry into the table and the return.
- Correct when: a hello reaches its own server, a socket that is on its way to a
  leg's server is in the table on every path, or about to be entered by the thread
  that connected it, a socket has one owner on every return, and no node uses a
  socket that `w_connect_2` may still close.

### D. Growable buffers
`src/ProudNet/GrowableBuffer.cpp`, `RecvAppend.cpp`. A block, its capacity and
the bytes in use, grown by realloc (staging) or by copy (receive). Hard: the
boundaries of the growth rule, a heap that fails between two steps. Correct when
it behaves as a byte stream and never claims more bytes than its block has.

### E. Message layer
`src/ProudNet/ProcessProudNetLayer.cpp`. Reads a received message, unwraps
compressed and encrypted envelopes recursively, checks the peer guard, dispatches
on the type. Hard: failures between construction and destruction of the stack
message, metadata that must follow the unwrapping, the read offset on every
early return. Correct when wrapping is transparent and nothing leaks.

### F. Hook manager
`src/hook_manager.cpp`, `src/thegame/dll_main.cpp` and the hooks that call the
original function by taking their patch out (`pn_compress_hook.cpp`,
`pn_net_client_factory.cpp`). State: the patched bytes, the saved bytes and the
flag of each stub, the two lists of stubs. Hard: several threads take one patch
out and put it back; a patch fails; the DLL detaches half way. Correct when the
saved bytes are always the game's and nothing points into an unloaded DLL.

### G. Lobby navigation
`src/RMI/Nav.cpp`, `NavCommands.cpp`, `src/hooks/game_state.cpp`. A command
queue, four flow flags, a message hook, a wake-up thread. Hard: three threads,
an idle screen that does not tick, a hook that cannot be installed and clears the
handle of one that was, fades, restarts of a running flow. Correct
when each command sends its messages in order, once, and reaches the lobby.

### H. Handler pipe
`src/diagnostics/handler_pipe.cpp`. A reader thread polls a duplex pipe every
50 ms into an 8192-byte buffer, cuts lines with `strchr`, dispatches and answers
them; connects by leaving and re-entering its lock; stops within five seconds.
Hard: overflow and `size_t` arithmetic, a pipe that breaks in the call that read a
request, stop against a reader that retries its connect for thirty seconds.
Correct when every whole line is answered once and in order and the lock
outlives its users.

### I. Diagnostics pipe
`src/diagnostics/handlers.cpp`, `namedpipe.cpp`, `exceptions.cpp`, the log
functions that emit events.

- State: `g_pipe`, a global without a lock; of each NamedPipe its handle and its
  lock; `g_diagnostics_started`, `g_veh_handle`, `g_handling_exception`,
  `g_last_game_stage`.
- Operations: `startup`, `connect_pipe` (construct, publish, connect, store,
  assign once more), the emits, `write_line`, the controller's listening and
  hanging up.
- Hard: `startup` is entered by the entrypoint hook and by a poll thread; every
  thread that emits may construct and connect; a line is two writes; an exception
  writes without the lock; a stage is remembered before it is written.
- Correct when: lines are whole, there is one hello, one exception handler and one
  reader, and the handle the controller answers to is the one events go through.

### J. Strings
`src/game/engine/string.cpp`, `WString.cpp`.

- State: the handle of each string; of each body its reference count, its length
  and its text; the shared empty body `nullstr`.
- Operations: all of the class: copying, assigning, truncating, trimming,
  `Reserve`, `Realloc`, `CopyOnWrite`, `Concatenate`, `Vformat`.
- Hard: bodies are shared between strings of several threads; `CopyOnWrite` drops
  its reference before it copies; `nullstr` is released but never acquired; one
  field is capacity to `Reserve` and length to `Concatenate`.
- Correct when: a body lives exactly as long as it has owners, and a program
  cannot tell that bodies are shared.

### K. The rest
Frame scanning and encoding (`ProudFrame`, `TcpTrace`), server override,
configuration, logs to console and file, database, CRT stubs, naked thunks, RMI
send hooks, string converters: pure functions, thunks without state or plain
output.

### How they interact
The entrypoint hook and a poll thread started by `DllMain` run `startup` (I),
which starts the handler pipe (H) and navigation (G). H queues commands for G,
whose work is done by stage hooks installed through F. The network thread calls
B for every node; B uses A for its transfers, D for its bytes and C before every
connect poll. `TCPSocket::Send` (game threads) writes into the same object as A.
`w_connect_2` fills C's table from the game's threads. Messages drained from a
socket enter E. Everything reports through I.

## Modules

| module | code | state and actions |
| --- | --- | --- |
| `ByteStream` | promise of the buffers | abstract: a byte count, the bytes, the last call |
| `GrowableBuffer` | D | `size`, `capacity`, the heap block; `Resize` (both growth paths), `Append`; refines `ByteStream` |
| `PNConnection` | A, B, `TCPSocket::Send` | node and socket fields by offset (`sendOffset` keeps its aliased low byte), both OVERLAPPEDs; one action per handler call; the kernel's completions are actions of their own, and a `TCPSocket::Send` is two (its WSASend, its store of the flag), of any number of game threads at once |
| `SelectSync` | C without `w_connect_2`, `TCPSocket::Connect` | `slot`, `tracked`, the kernel's socket table, and in `begun` the connects not yet entered; `SysConnect` and `SysTrack` are `connect_forward` and `track_connect`; `RunState1` is select, poll with the slot rewriting and the handler's decision |
| `ProudConnect` | `w_connect_2`, `w_bind_3`, `w_connect_3` | extends `SelectSync` with the calls: where each is, its socket, `*out_socket`; one action per step of `w_connect_2`, each with its refusal; the connect, the entry into the table and the return with `*out_socket` are three |
| `ProcessLayer` | E | a stack of activations of the recursive function; one action per read, unwrap, dispatch arm and return |
| `HookManager` | F | `code` at each address, `saved`, `hooked`, both lists, DllMain's phase, the call stack of each thread inside passthrough hooks |
| `NavFlow` | G | the queue as a length, the flags, the message hook, the wake-up thread, the scene; one action per critical section or atomic access; installing the hook (or failing to) and storing what `SetWindowsHookExA` answered are two |
| `HandlerPipe` | H | `g_read_pending` as an array of cells with the pending length beside it, the reader's place, the session and the controller |
| `Diagnostics` | I | of each thread where it is in `startup` or an emit; `g_pipe` and the NamedPipe objects; the globals; the controller. One action per access to `g_pipe` or a handle and per write |
| `StringValues` | promise of the strings | abstract: a text per string, and whether the class was misused |
| `StringRef` | J | the handle of each string, count, length and text of each body, the count of `nullstr`; one action per operation, three steps for a `CopyOnWrite` of a shared body; refines `StringValues` |
| `*Proofs` | | theorems about `PNConnection` (with its buffer, `GrowableBuffer`), `HookManager`, `StringRef`, `ProudConnect`, `NavFlow`, `ProcessLayer`, `HandlerPipe`, `Diagnostics` |
| `MC*` | | constants of the TLC instances |

History variables, which no code holds: `mixed`, `delivered`, `tcpSends`
(PNConnection), `hello`, `orphaned`, `outside` (SelectSync), `calls`, `answer`
(ProcessLayer), `races` (HookManager), `sent`, `unwoken` (NavFlow), `line`,
`due`, `asked`, `enqueued`, `stale`, `overflowed`, `lost` (HandlerPipe), `half`,
`told`, `torn`, `raced`, `overlap`, `mixed`, `unlocked`, `handlers`, `hellos`,
`readers` (Diagnostics), `leaked`, `flaws` (StringRef). A call
that finds nothing to do changes nothing and is a stuttering step. A step is
what runs under one lock or between two points where another thread or the
kernel can be observed.

In a definition commented "Mutant of X", X is replaced by a plausible bug; the
property it is meant for fails then. They are not part of any specification.

## Runs

| run | asks | bounds |
| --- | --- | --- |
| `growable` | `BufferTypeOK`: bytes in use fit the block; `StreamSpec`: refinement of `ByteStream` | slack constants scaled down to 1, 2, 3 so that all branches of the growth rule occur below 5 bytes; every mode, also a rejected one; `WidthAssumption` keeps sizes so small that no sum of a request and a slack leaves the 32-bit int |
| `connection` | accounts, flags, coverage, exact receive, a completed receive is consumed | outbound strings of 0, 101 and 300 bytes, game sends of 100 and 257: partial slices, and an offset beyond 256 where the aliased byte matters; receives of 0, part and all of the real 32768-byte window; two game sends, which may overlap |
| `connection_send` | violated: `SendCompletionObserved` | no game sends |
| `select_sync` | `HelloPeer`: hello to the right peer; `LegsTracked`: a leg's socket is in the table; `CloseableIsPrivate`, `HandedOver`: whose a socket is during and after `w_connect_2` | a GAME and a PROBE leg, one `w_connect_2` beside them, three handles (interchangeable), three outside events: one handle can be connected by one thread, closed, and handed out again to `w_connect_2` while the table still knows it |
| `select_game` | violated: `GameSlotKept` | the same |
| `nav` | message order, queue drained, command completes | queue of 2, four commands, three fades or lobby exits: the queue fills and a running flow is restarted twice; two failed installations: a refusal can clear the handle of a live hook, and there can be no hook at all |
| `hooks` | patch and flag agree, patch back at rest, reentry only by race, clean unload | an import, an inline hook, a passthrough hook, two stubs on one address; two threads, four calls, two failing patches |
| `process` | wrapping transparent, stack messages destroyed, unprocessed messages returned whole | all 57 type ordinals under up to three wrappers |
| `handler` | replies in order and a command only for a request, lock outlives reader, requests answered | buffer of 5 cells, chunks of 3, five cells sent over two sessions: a request can be cut anywhere, overflow and be left behind; a connect loop of two attempts |
| `handler_stale` | violated: `OneReplyPerRequest` | the same |
| `diagnostics` | `LinesWhole`, `SingleStart`, `AttachedReachable`: the handle the controller answers to is the one written through; `StageReported`; `AttachedStarted`: a controller that listens is attached to and startup ends | main and poll thread, three NamedPipe objects (one more than threads, so a constructor always finds one), one stage, two attempts, two rounds of the poll thread, two events, two sessions |
| `strings` | `RefsExact`: a body's count is its owners and what `Realloc` forgot; `ValuesSpec`: refinement of `StringValues` | two strings of two threads, four bodies (two in use, two in a `CopyOnWrite` or leaked), two letters, texts up to three, counts up to three; states are compared up to the names of bodies (VIEW) and a behaviour ends with the first flaw |

Data independence makes the bounds enough: buffers compare lengths, never byte
values; handles, stubs and threads are only compared for equality; a message is
its sequence of types. What depends on numbers (the low byte of the send offset,
the receive window, the growth boundaries, the overflow test) is kept as
arithmetic with instances on both sides of each boundary, and for the first three
the theorems cover all values. Where a system may really stop (a finished node, a
detached DLL, an idle controller) deadlock is not checked.

### Fairness

- `connection`: weak fairness of `RunState2` and `RunState3`. The worker calls the
  handler of every node on each tick. Nothing is assumed of the kernel.
- `nav`: weak fairness of the reader's, the main thread's and the wake-up thread's
  steps (threads run), of the end of a fade and of the arrival in a requested
  scene (the game finishes what it began), of the first stage hook, and of the stage
  hook while the scene is the lobby, which runs every frame. The shard picker is
  not assumed to tick: docs/rmi/autonav.md says it may not.
- `handler`: weak fairness of the reader thread.
- `diagnostics`: weak fairness of each thread's steps, of the loader, the
  entrypoint and the poll loop (which sleeps between rounds and goes on). Nothing
  is assumed of the controller or of the game's events.

### What the properties leave open

Some of the hazards are what the code does. No property can promise that they do not
happen, so each of the following promises everything up to them, and names them:

- `CompletedRecvConsumed`, `SendCompletionObserved`: a handle closed under the node, after
  which `recv_complete` fails for good.
- `RecvExact`: `mixed`, a receive armed over a send in flight on the shared OVERLAPPED.
- `OutboundCovered`, `SendAccountsAgree` speak of the bytes reported. A report may be that
  of a `TCPSocket::Send`, and then bytes of the slice go out twice.
- `FlagsMatchState` speaks of the flags and the state, not of the operation in flight.
- `HelloPeer`: a leg moved to ENTRY under the server override; `HelloPeer`,
  `CloseableIsPrivate` and the openness in `HandedOver`: `orphaned`, a handle closed under a
  node.
- `QueuedDrained`, `CommandCompletes`: `Hookless`, no message hook because every
  installation failed: while the shard picker does not tick, nobody takes the queue up.
  `CommandCompletes` also `unwoken`: the wake-up thread gave up, could not be created or was
  on its way out.
- `UnloadedClean`: a restore that fails.
- `RepliesInOrder`, `RequestsAnswered`: `Clean`, that is an overflow or lines left behind by
  a broken pipe, which `handler_stale` shows. `LockOutlivesReader`: a stop that gave up
  waiting for the reader.
- `LinesWhole`: an exception was written (`unlocked`). `AttachedReachable`,
  `AttachedStarted`: two threads connected at once (`raced`). `StageReported`: also two that
  reported at once, and all sessions but the first. `SingleStart`: two threads in startup
  at once (`overlap`).
- `ValuesSpec`: the first misuse (`flaws`). `RefsExact` counts what `Realloc` forgot.

### Findings

1. `connection_send`: `CFastSocket::send` gives `WSASend` the OVERLAPPED at +116,
   `send_complete` polls the one at +168, which only `TCPSocket::Send` uses. A
   slice that completes is reported only if the game itself sent on that socket
   (`ReceiveNeedsTcpSend` is the invariant form, proved).
2. `select_game`: while the connect of a GAME leg is pending `getpeername` does not
   know its peer, so `sync_fast_socket_handle` replaces the slot by the ENTRY
   socket, against `docs/proudnet/protocol.md` and `socket_trace.hpp`.
3. `handler_stale`: lines read in the call in which the pipe breaks stay in the
   buffer behind a length of zero. The next session is answered for them and
   `remaining` wraps below zero, so `memmove` faults. The same wrap follows an
   overflow over whole lines.

### Noticed without a run

- Hooks: two String stubs name `0xCF1A90`; the second patch replaces the first,
  whose `is_hooked` stays true, and the restore order leaves a jump into the
  unloaded DLL. `PatchAgrees` and `UnloadedClean` are stated for addresses with one
  stub, the instance has both stubs.
- Message layer: `docs/proudnet/message-dispatch.md` lists types 7, 14, 18, 20, 22,
  27 and 28 as empty arms ("default") where the code answers processed, and no peer
  guard for 35 where the code has one; wrappers that return unprocessed do not
  rewind.
- Navigation: a full queue drops a command although the pipe has answered ok; the
  sixteen queued ones restart the same flow, so the drop has no visible effect. A refused
  `SetWindowsHookExA` stores nullptr over the handle of a hook that another thread has
  installed meanwhile; the hook stays, and the next pump installs a further one.
- Connecting: `open_socket` asks for protocol 17 unless the type is SOCK_DGRAM, so a
  stream without the game's socket factory always fails. The close hook is called
  with its client pointer, not with the handle: what it closes it must know itself.
- Diagnostics: a connect that fails forgets the NamedPipe it was tried on. A handle
  the controller hung up on is never replaced, so a second controller is attached to
  only by a process that had no first. OutputDebugString is not among the events,
  although `Readme.md:145` lists it.
- Strings: `Realloc` takes a new body and keeps the reference to the old one. One
  field is the capacity after `Reserve` or `Swap` and the length in `Concatenate`,
  which then appends behind the NUL. `CopyOnWrite` drops its reference before it
  copies: the other owner may free the text meanwhile. `Truncate` writes into a
  shared body in place. `nullstr` is counted down by every release and up by none.
  `RefsExact` counts what is forgotten; `ValuesSpec` promises values up to the first
  such use (`flaws`), and says nothing behind it.

## Proofs

All theorems hold for every value of the constants under the named assumptions of
the modules (`ConstantsAssumption`, `WidthAssumption`, `LengthsAssumption`, `HookAssumption`,
`PassthroughAssumption`, `LegAssumption`, `NavAssumption`, `WrapsAssumption`, `PipeAssumption`,
`StringAssumption`, `DiagnosticsAssumption`), which TLC evaluates in the runs. Every
invariant, action property and refinement of the passing runs is a theorem; what the
runs add is liveness, and that nothing holds for want of behaviour.

`PNConnectionProofs`, the buffer: `BufferTypeCorrect` (the bytes in use lie inside the
block and its capacity is an int; it is inductive as it stands) and `ImplementsStream`
(each step maps to an append, a resize or a throw of `ByteStream`). `CapacityCovers`
carries the arithmetic of the growth rule: under `WidthAssumption` (`MaxSize` with any
slack fits 2^31 - 1; the code asks for 0x8000 bytes or the length of a message)
`need + slack` does not overflow. The rest is pointwise reasoning about blocks.

`PNConnectionProofs`, the node: `TypeCorrect`, then
`IInv == TypeOK /\ FlagsMatchState /\ UntouchedSendov /\ SendLedger /\ RecvLedger`.
`SendLedger` says that both accounts agree until the flag is stored into the low
byte, that a remainder is left in state 2 and that states 3 and 4 were reached over a
covered string; `UntouchedSendov`
that the polled OVERLAPPED reports nothing before the first game send;
`RecvLedger` relates counter, buffer, window, the receive in flight and what is
delivered. None of the checked invariants is inductive alone: `RecvExact`, for
one, needs that at most one receive is in flight and that its request is what is
left of the window. `FlagsTheorem`, `AccountsTheorem`, `CoveredTheorem`,
`NeedsTcpSendTheorem` and `RecvExactTheorem` follow.

`HookManagerProofs`: `IInv == TypeOK /\ PatchAgrees /\ Untouched /\ Listing /\ Walked`,
for any stubs, threads and numbers of calls and failures. `Untouched`: an address
whose only stub is not hooked holds the game's bytes. `Listing`: every hooked stub
is in the list restore_all_hooks walks. `Walked`: in a detach without failures the
entries already walked are not hooked. `PatchTheorem` and `CleanTheorem` follow.
`PassthroughAssumption` (the stubs of `pn_compress_hook.cpp` and
`pn_net_client_factory.cpp` share no address and install_hooks installs them) gives two
more. `PutBack`: while no patch failed, a passthrough stub that is not hooked is in some
frame that has still to call make_hook; with `Installed` it is inductive and gives
`RepatchedTheorem`. `NInv`: every frame under the innermost one waits for its original
(`Waiting`), and a call about to enter a jump already has the race or the failure
that left it there on its account (`Budget`); this gives `ReentryTheorem`.

`StringRefProofs`, for any strings, threads and bodies that are shared in any way.
`ReferencesExact` rests on `RefsInv == CountsOK /\ CowOK`; `CowOK` says that a `CopyOnWrite`
in progress is its owner's and that its string has no body once the reference is
dropped, without which a second release could be counted against it. The lemmas
(`OwnersMove`, `TakesFresh` and others) count the owners of a body before and after a
handle changes. `TypeCorrect` and `StringsAreValues`, the refinement of `StringValues`, rest
on `TypeInv == RefsInv /\ HeapOK /\ NullOK /\ PendingOK`: no text is
longer than the length kept beside it (`HeapOK`), `nullstr` is not freed (`NullOK`, both
up to the first flaw), and what a
`CopyOnWrite` is about to make fits and is what the operation promises on the text of
the body it has already let go (`PendingOK`). A step without a flaw changes the text of
a body only if one string has it and nobody is copying it (`Quiet`), so no other
string changes its value. What the assumption says of the texts that callers pass is
that they fit `MaxLen`.

`ProudConnectProofs`: `IInv == TableInv /\ SlotsInv`, for any nodes, callers and
handles. `LegsAlwaysTracked` and `NodesAlwaysTracked` hold whatever the game closes;
they need that a socket that was only opened has no peer (`FreshHasNoPeer`). A thread
between its connect and its entry into the table is part of the invariant: the socket has
its peer already, and `LegsTracked` names the thread that owes the entry (`AboutToTrack`).
`HelloReachesPeer` and `NotSharedInCall` hold as long as no handle was closed under a
node: only then do two calls work on two open sockets (`CallsApart`), is what a node holds
open (`SlotsOpen`), what a call works on fresh until it connects (`CallsFresh`) and a
connecting node's peer its own or ENTRY (`SlotsPeer`).
What `NotSharedInCall` promises is what the code can keep: a poll may put a tracked socket
into a node's slot before `w_connect_2` has returned it, but by then nothing in the call
closes it any more. `HandedOverAlways` is an action property: each of the returns either
hands the call's socket out, which is open up to there (`CallsApart`), closes it or leaves
it to the close hook (`CallHandsOver`); no step of anybody else ends a call.

`NavFlowProofs`: `IInv == Counted /\ Placed /\ Flags /\ LateHooks /\ SentInOrder /\
FlagsTell`; the first three are the parts of `TypeOK` but for the number of hooks.
`LateHooks` bounds that number. Without a handle every hook is still to be stored or is
matched by a failure; with one, a thread about to install counts once, and a thread about
to store a refusal twice, for it will clear the handle and then both threads may install
again: never more than two hooks and one for each failure. `FlagsTell`: the flags of a
pending flow are what has been sent for it. `TypeCorrect` and `OrderTheorem` follow.

`ProcessLayerProofs`: `IInv` is `TypeOK` with `Nested` (wrappers around one message that is
none), `Stacked` (every activation but the innermost waits for one further in),
`live = Awaiting`, `Answered` (what each return stands for), `CalledOnce` and `Whole`.
`WrappingTheorem`, `StackTheorem` and `WholeTheorem` hold for any depth of wrapping,
where the run stops at three. The code has no limit for that depth; `EndTheorem` gives the
end: `Left` counts the steps left, at most 3n + 4 under n wrappers, and every step lowers it.

`HandlerPipeProofs`, for any buffer size, chunks, sessions and bytes:
`PipeInv == TypeInv /\ Plumbing /\ (Clean => Window /\ Told)`. `Plumbing` ties the reader's place
to the pipe; `TypeInv` adds that a stop which waited finds no reader (`Stopping`) and
gives `LockTheorem`. `Window`: as long as nothing overflowed or was left behind, every cell in
use holds a byte and no line end lies outside the part still to be scanned, so none is
hidden or found twice. `Told`: the stream the controller sent parses into the lines answered
so far and the line under way, and the replies written are a prefix of their answers.
This gives `RepliesTheorem` however the bytes were cut into reads. The parse is a
sequence of positions; its induction goes through the least element of a set
(`Least`, from well-foundedness), because the induction theorems of the library take an
operator.

`DiagnosticsProofs`: for any threads, objects, attempts and sessions.
`OneClient`: at most one object, or one thread between CreateFile and the store, has
the session of the controller. `WritesLocked`: who writes has the lock of its object.
`HalfLine`: a line without its end is one whose writer holds the session's object,
or nobody holds the session any more. From these `LinesTheorem`: two writers of one
session write through one object, hence hold one lock, hence are one thread.
`OneStartup` (while no two startups overlapped, who is in startup is alone there, and
before its hello the flag is unset) gives `StartTheorem`. `FreshIsNobodys` is the
pigeonhole argument that there is always an object for the next NamedPipe.
`ReachedTheorem` rests on `OnePipe`: as long as no two threads were connecting at once,
there is one thread between the test of `g_pipe` and the use of the result until
`g_pipe` is connected (`Alone`), what each place of `connect_pipe` and of an emit knows of
`g_pipe` (`AtPlace`), and from then on `g_pipe` and its connection stay: whoever writes,
writes through it. `OthersClear` is the step that is used everywhere: while `g_pipe` is
not connected and one thread is on its way, all others are outside. `StageTheorem`
adds `ToldOpen` (a stage is told to an open session) and `OneStage` (while no two threads
reported at once, the stage about to be written is the one remembered); `FirstSession`
says that the first controller is found before anything was remembered. `KeptTheorem` is
what `ConnectedStep` shows on the way: without such a race a connected `g_pipe` and its
handle never change, so a controller that hung up is never replaced.

Only model-checked: liveness (`CompletedRecvConsumed`, `QueuedDrained`,
`CommandCompletes`, `RequestsAnswered`, `AttachedStarted`), because fairness and ENABLED are
outside the prover, and the three runs that expect a violation.

## Not modelled

- Fields and calls that only feed a log line or a statistic, retry loops on
  WSAEINTR that repeat the same call, formatting.
- Allocation failures inside `send` and `recv` (an exception leaves through the
  game's frames); they are actions of `GrowableBuffer` itself.
- Unsynchronised accesses without a defined outcome: the walk of
  `g_sockets_by_port` during an insert, the first use of a critical section from
  two threads, instruction bytes torn while another thread executes them. They are
  listed as hazards without a property.
- `NavTeardown` and the restore of hooks with other threads still inside the DLL:
  DllMain's detach is modelled as the end of the process. `invoke_hooked` and
  `hook_import` have no caller that undoes them.
- Patched places that overlap each other without being equal.
- Diagnostics: teardown, which runs at process detach when the other threads are
  gone, and an exception raised inside a thread that is emitting.
- Strings: allocation failures, handles that are nullptr, and the wide-character
  operations of `WString` whose code is not `String`'s with wider letters.
- `ProudFrame` and `TcpTrace`: frame headers are encoded and scanned without state.
  `TcpTrace` would enter a socket into the table of C, but only one that is missing;
  `NodesAlwaysTracked` says that a node's never is.
- The composition of `HandlerPipe` with `NavFlow` over the command queue: each counts
  the commands that cross it, and a queue is all they share.
- String converters, RMI send hooks, CRT stubs, naked thunks, configuration, log files
  and the database: pure functions, register shuffling and output.
