---------------------------- MODULE HookManager ----------------------------
(***************************************************************************)
(* The patches TheGame.dll puts into GAME.exe: src/src/hook_manager.cpp,   *)
(* installed and removed by src/src/thegame/dll_main.cpp, and taken out    *)
(* and put back around every call by the hooks that need the whole         *)
(* original function (restore_hook, call, make_hook: pn_compress_hook.cpp, *)
(* pn_net_client_factory.cpp, ProcessProudNetLayer.cpp).                   *)
(* A stub is an inline jump at an address of the game or a slot of its     *)
(* import table; the patched places do not overlap, unless two stubs name  *)
(* the same address.  invoke_hooked has no caller and is left out.         *)
(***************************************************************************)
EXTENDS Naturals, Sequences, FiniteSets

CONSTANTS Stubs,        \* HookStub and SysHookStub objects
          SysStubs,     \* those that patch the import table
          Passthrough,  \* those whose hook calls the original by its address
          Addresses, Addr,   \* [Stubs -> Addresses]
          Order,        \* sequence of the stubs install_hooks installs
          Game,         \* the bytes, or the import, the game came with
          Threads,
          MaxCalls,     \* bound on calls of passthrough hooks
          MaxFailures   \* bound on failing VirtualProtect, WriteProcessMemory

ASSUME HookAssumption ==
  /\ SysStubs \subseteq Stubs /\ Passthrough \subseteq Stubs \ SysStubs
  /\ Addr \in [Stubs -> Addresses]
  /\ Order \in Seq(Stubs)
  /\ Game \notin Stubs
  /\ MaxCalls \in Nat /\ MaxFailures \in Nat

(* A stub a hook takes out has its address for itself and is one of those  *)
(* install_hooks installs.                                                 *)
ASSUME PassthroughAssumption ==
  \A s \in Passthrough : /\ \A other \in Stubs : Addr[other] = Addr[s] => other = s
                         /\ \E i \in 1..Len(Order) : Order[i] = s

VARIABLES
  code,      \* what each address holds: Game, or the stub it jumps to
  saved,     \* original_bytes (sym_addr for a SysHookStub)
  hooked,    \* is_hooked
  hooks, syshooks,   \* HookManager::hooks and ::syshooks
  phase,     \* attach, running, detach, unloaded
  position,  \* stubs installed (attach), entries walked (detach)
  status,    \* of restore_all_hooks
  stack,     \* the passthrough hooks each thread is in, innermost last
  races,     \* jumps put back by other threads since a thread's call began
  calls, failures

patch == <<code, saved, hooked, hooks, syshooks>>
dll   == <<phase, position, status>>
vars  == <<patch, dll, stack, races, calls, failures>>

Init ==
  /\ code = [a \in Addresses |-> Game]
  /\ saved = [s \in Stubs |-> Game]
  /\ hooked = [s \in Stubs |-> FALSE]
  /\ hooks = <<>> /\ syshooks = <<>>
  /\ phase = "attach" /\ position = 0 /\ status = TRUE
  /\ stack = [t \in Threads |-> <<>>]
  /\ races = [t \in Threads |-> 0]
  /\ calls = 0 /\ failures = 0

-----------------------------------------------------------------------------
(* make_hook, under the patch lock, and make_syshook *)

(* Mutant of AlreadyHooked: make_hook does not look. *)
NeverHooked(s) == FALSE

AlreadyHooked(s) == s \notin SysStubs /\ hooked[s]

(* The import's target is resolved anew, inline bytes are read in place. *)
Original(s) == IF s \in SysStubs THEN Game ELSE code[Addr[s]]

(* Mutant of Listed: only the first stub is remembered. *)
ListedOnce(s) ==
  IF hooks = <<>> THEN hooks' = <<s>> /\ UNCHANGED syshooks
                  ELSE UNCHANGED <<hooks, syshooks>>

(* Mutant of Listed: import stubs go to the list of the inline ones. *)
ListedTogether(s) == hooks' = Append(hooks, s) /\ UNCHANGED syshooks

Listed(s) ==
  IF s \in SysStubs THEN syshooks' = Append(syshooks, s) /\ UNCHANGED hooks
                    ELSE hooks' = Append(hooks, s) /\ UNCHANGED syshooks

Make(s) ==
  \/ /\ AlreadyHooked(s)
     /\ UNCHANGED <<patch, failures>>
  \/ /\ ~AlreadyHooked(s)
     /\ saved' = [saved EXCEPT ![s] = Original(s)]
     /\ code' = [code EXCEPT ![Addr[s]] = s]
     /\ hooked' = [hooked EXCEPT ![s] = TRUE]
     /\ Listed(s)
     /\ UNCHANGED failures
  \/ /\ ~AlreadyHooked(s) /\ failures < MaxFailures
     /\ failures' = failures + 1
     /\ saved' = [saved EXCEPT ![s] = Original(s)]
     /\ UNCHANGED <<code, hooked, hooks, syshooks>>

(* Mutant of Unhooked: is_hooked stays set. *)
StillHooked(s) == hooked

Unhooked(s) == [hooked EXCEPT ![s] = FALSE]

(* restore_hook, under the patch lock, and restore_syshook *)
RestoreNothing(s) ==
  /\ ~hooked[s]
  /\ UNCHANGED <<patch, failures>>

RestoreBytes(s) ==
  /\ hooked[s]
  /\ code' = [code EXCEPT ![Addr[s]] = saved[s]]
  /\ hooked' = Unhooked(s)
  /\ UNCHANGED <<saved, hooks, syshooks, failures>>

RestoreFails(s) ==
  /\ hooked[s] /\ failures < MaxFailures
  /\ failures' = failures + 1
  /\ UNCHANGED patch

-----------------------------------------------------------------------------
(* DllMain *)

(* install_hooks; the results are not looked at. *)
Install ==
  /\ phase = "attach" /\ position < Len(Order)
  /\ Make(Order[position + 1])
  /\ position' = position + 1
  /\ UNCHANGED <<phase, status, stack, races, calls>>

Attached ==
  /\ phase = "attach" /\ position = Len(Order)
  /\ phase' = "running" /\ position' = 0
  /\ UNCHANGED <<patch, status, stack, races, calls, failures>>

(* DLL_PROCESS_DETACH: the process exits, its other threads are gone       *)
(* wherever they were.                                                     *)
Detach ==
  /\ phase = "running"
  /\ phase' = "detach"
  /\ UNCHANGED <<patch, position, status, stack, races, calls, failures>>

(* restore_all_hooks: in installation order, nothing after a failure *)
RestoreNext ==
  /\ phase = "detach" /\ position < Len(hooks \o syshooks)
  /\ position' = position + 1
  /\ LET s == (hooks \o syshooks)[position + 1] IN
       \/ ~status /\ UNCHANGED <<patch, status, failures>>
       \/ status /\ (RestoreNothing(s) \/ RestoreBytes(s)) /\ UNCHANGED status
       \/ status /\ RestoreFails(s) /\ status' = FALSE
  /\ UNCHANGED <<phase, stack, races, calls>>

Unload ==
  /\ phase = "detach" /\ position = Len(hooks \o syshooks)
  /\ phase' = "unloaded"
  /\ UNCHANGED <<patch, position, status, stack, races, calls, failures>>

-----------------------------------------------------------------------------
(* A passthrough hook: entered through the jump, or called by the layer    *)
(* dispatcher with or without a jump in place.                             *)

Top(t) == stack[t][Len(stack[t])]
Outer(t) == SubSeq(stack[t], 1, Len(stack[t]) - 1)
In(t, pc) == phase = "running" /\ stack[t] # <<>> /\ Top(t).pc = pc
Goto(t, pc) == stack' = [stack EXCEPT ![t] = Append(Outer(t), [stub |-> Top(t).stub, pc |-> pc])]

Call(t, s) ==
  /\ phase = "running" /\ stack[t] = <<>> /\ calls < MaxCalls
  /\ stack' = [stack EXCEPT ![t] = <<[stub |-> s, pc |-> "restore"]>>]
  /\ races' = [races EXCEPT ![t] = 0]
  /\ calls' = calls + 1
  /\ UNCHANGED <<patch, dll, failures>>

HookRestores(t) ==
  /\ In(t, "restore")
  /\ \/ RestoreNothing(Top(t).stub)
     \/ RestoreBytes(Top(t).stub)
     \/ RestoreFails(Top(t).stub)
  /\ Goto(t, "call")
  /\ UNCHANGED <<dll, races, calls>>

(* The original is called by its address: whatever is there is entered. *)
HookCalls(t) ==
  /\ In(t, "call")
  /\ LET target == code[Addr[Top(t).stub]] IN
       \/ target = Game /\ Goto(t, "original")
       \/ /\ target \in Passthrough
          /\ stack' = [stack EXCEPT ![t] =
               Outer(t) \o <<[stub |-> Top(t).stub, pc |-> "original"],
                             [stub |-> target, pc |-> "restore"]>>]
  /\ UNCHANGED <<patch, dll, races, calls, failures>>

OriginalReturns(t) ==
  /\ In(t, "original")
  /\ Goto(t, "make")
  /\ UNCHANGED <<patch, dll, races, calls, failures>>

HookMakes(t) ==
  /\ In(t, "make")
  /\ Make(Top(t).stub)
  /\ stack' = [stack EXCEPT ![t] = Outer(t)]
  /\ races' = [u \in Threads |-> IF u # t /\ code' # code THEN races[u] + 1 ELSE races[u]]
  /\ UNCHANGED <<dll, calls>>

Next == \/ Install \/ Attached \/ Detach \/ RestoreNext \/ Unload
        \/ \E t \in Threads : \/ \E s \in Passthrough : Call(t, s)
                              \/ HookRestores(t) \/ HookCalls(t)
                              \/ OriginalReturns(t) \/ HookMakes(t)

Spec == Init /\ [][Next]_vars

-----------------------------------------------------------------------------
Frames == [stub : Passthrough, pc : {"restore", "call", "original", "make"}]

(* The patch tables and the call stacks keep their types. *)
TypeOK ==
  /\ code \in [Addresses -> Stubs \cup {Game}]
  /\ saved \in [Stubs -> Stubs \cup {Game}]
  /\ hooked \in [Stubs -> BOOLEAN]
  /\ hooks \in Seq(Stubs \ SysStubs) /\ syshooks \in Seq(SysStubs)
  /\ phase \in {"attach", "running", "detach", "unloaded"}
  /\ position \in Nat /\ status \in BOOLEAN
  /\ stack \in [Threads -> Seq(Frames)]
  /\ races \in [Threads -> Nat]
  /\ calls \in 0..MaxCalls /\ failures \in 0..MaxFailures

(* Stubs that share their address with no other *)
Sole == {s \in Stubs : \A other \in Stubs : Addr[other] = Addr[s] => other = s}

(* hook_manager.h: "is_hooked - Track hook status".  Whatever threads take *)
(* the patch out and put it back, the address of a stub jumps to its hook  *)
(* exactly when is_hooked says so, and then the bytes saved for the        *)
(* restore are the game's own, never a jump.                               *)
PatchAgrees ==
  \A s \in Sole : /\ hooked[s] <=> code[Addr[s]] = s
                  /\ hooked[s] => saved[s] = Game

(* No call leaves the game unhooked: once no thread is inside the hook of  *)
(* a passthrough stub its jump is back in place (if no patch failed).      *)
RepatchedAtRest ==
  phase = "running" /\ failures = 0 =>
    \A s \in Sole \cap Passthrough :
      (\A t \in Threads : \A i \in 1..Len(stack[t]) : stack[t][i].stub # s)
        => code[Addr[s]] = s

(* A hook runs into its own jump again only where another thread put the   *)
(* jump back in between, or the restore failed.                            *)
ReentryNeedsRace ==
  \A t \in Threads : Len(stack[t]) <= 1 + races[t] + failures

(* dll_main.cpp logs "DLL unloaded - hooks removed": if no restore failed  *)
(* nothing in the game points into the DLL any more.                       *)
UnloadedClean ==
  phase = "unloaded" /\ status => \A s \in Sole : code[Addr[s]] = Game
=============================================================================
