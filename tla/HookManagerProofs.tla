------------------------- MODULE HookManagerProofs -------------------------
(* Proofs about HookManager for any stubs, addresses, threads and bounds.  *)
EXTENDS HookManager, SequenceTheorems, TLAPS

Walk == hooks \o syshooks

(* The walk of restore_all_hooks visits stubs, the inline ones first. *)
LEMMA WalkType ==
  ASSUME TypeOK
  PROVE  /\ Walk \in Seq(Stubs) /\ Len(Walk) = Len(hooks) + Len(syshooks)
         /\ Len(hooks) \in Nat /\ Len(syshooks) \in Nat
         /\ \A i \in 1..Len(hooks) : Walk[i] = hooks[i]
         /\ \A i \in 1..Len(syshooks) : Walk[Len(hooks) + i] = syshooks[i]
<1>1. hooks \in Seq(Stubs) /\ syshooks \in Seq(Stubs)
  BY SeqMonotonic, HookAssumption DEF TypeOK
<1>2. Len(hooks) \in Nat /\ Len(syshooks) \in Nat
  BY <1>1, LenProperties
<1> QED BY <1>1, <1>2, ConcatProperties DEF Walk

(* Listing a stub appends it to the list of its kind. *)
LEMMA ListedFacts ==
  ASSUME TypeOK, NEW s \in Stubs, Listed(s)
  PROVE  /\ hooks' \in Seq(Stubs \ SysStubs) /\ syshooks' \in Seq(SysStubs)
         /\ s \in SysStubs =>
              /\ Len(syshooks') = Len(syshooks) + 1
              /\ syshooks'[Len(syshooks) + 1] = s
              /\ \A i \in 1..Len(syshooks) : syshooks'[i] = syshooks[i]
              /\ hooks' = hooks
         /\ s \notin SysStubs =>
              /\ Len(hooks') = Len(hooks) + 1
              /\ hooks'[Len(hooks) + 1] = s
              /\ \A i \in 1..Len(hooks) : hooks'[i] = hooks[i]
              /\ syshooks' = syshooks
<1>1. hooks \in Seq(Stubs \ SysStubs) /\ syshooks \in Seq(SysStubs)
  BY DEF TypeOK
<1>2. CASE s \in SysStubs
  <2>1. syshooks' = Append(syshooks, s) /\ hooks' = hooks
    BY <1>2 DEF Listed
  <2>2. /\ Append(syshooks, s) \in Seq(SysStubs)
        /\ Len(Append(syshooks, s)) = Len(syshooks) + 1
        /\ Append(syshooks, s)[Len(syshooks) + 1] = s
        /\ \A i \in 1..Len(syshooks) : Append(syshooks, s)[i] = syshooks[i]
    BY <1>1, <1>2, AppendProperties
  <2> QED BY <1>1, <1>2, <2>1, <2>2
<1>3. CASE s \notin SysStubs
  <2>1. hooks' = Append(hooks, s) /\ syshooks' = syshooks
    BY <1>3 DEF Listed
  <2>2. s \in Stubs \ SysStubs
    BY <1>3
  <2>3. /\ Append(hooks, s) \in Seq(Stubs \ SysStubs)
        /\ Len(Append(hooks, s)) = Len(hooks) + 1
        /\ Append(hooks, s)[Len(hooks) + 1] = s
        /\ \A i \in 1..Len(hooks) : Append(hooks, s)[i] = hooks[i]
    BY <1>1, <2>2, AppendProperties
  <2> QED BY <1>1, <1>3, <2>1, <2>3
<1> QED BY <1>2, <1>3

(* make_hook and make_syshook keep the patch tables typed. *)
LEMMA MakeType ==
  ASSUME TypeOK, NEW s \in Stubs, Make(s)
  PROVE  /\ code' \in [Addresses -> Stubs \cup {Game}]
         /\ saved' \in [Stubs -> Stubs \cup {Game}]
         /\ hooked' \in [Stubs -> BOOLEAN]
         /\ hooks' \in Seq(Stubs \ SysStubs) /\ syshooks' \in Seq(SysStubs)
         /\ failures' \in 0..MaxFailures
<1>1. Addr[s] \in Addresses /\ MaxFailures \in Nat
  BY HookAssumption
<1>2. Original(s) \in Stubs \cup {Game}
  BY <1>1 DEF Original, TypeOK
<1>3. CASE AlreadyHooked(s) /\ UNCHANGED <<patch, failures>>
  BY <1>3 DEF TypeOK, patch
<1>4. CASE /\ saved' = [saved EXCEPT ![s] = Original(s)]
           /\ code' = [code EXCEPT ![Addr[s]] = s]
           /\ hooked' = [hooked EXCEPT ![s] = TRUE]
           /\ Listed(s)
           /\ UNCHANGED failures
  <2>1. hooks' \in Seq(Stubs \ SysStubs) /\ syshooks' \in Seq(SysStubs)
    BY <1>4, ListedFacts
  <2>2. hooked' \in [Stubs -> BOOLEAN]
    BY <1>4, Zenon DEF TypeOK
  <2> QED BY <1>1, <1>2, <1>4, <2>1, <2>2 DEF TypeOK
<1>5. CASE /\ failures < MaxFailures /\ failures' = failures + 1
           /\ saved' = [saved EXCEPT ![s] = Original(s)]
           /\ UNCHANGED <<code, hooked, hooks, syshooks>>
  BY <1>1, <1>2, <1>5 DEF TypeOK
<1> QED BY <1>3, <1>4, <1>5 DEF Make

(* So do restore_hook and restore_syshook. *)
LEMMA RestoreType ==
  ASSUME TypeOK, NEW s \in Stubs,
         RestoreNothing(s) \/ RestoreBytes(s) \/ RestoreFails(s)
  PROVE  /\ code' \in [Addresses -> Stubs \cup {Game}]
         /\ saved' \in [Stubs -> Stubs \cup {Game}]
         /\ hooked' \in [Stubs -> BOOLEAN]
         /\ hooks' \in Seq(Stubs \ SysStubs) /\ syshooks' \in Seq(SysStubs)
         /\ failures' \in 0..MaxFailures
<1>1. Addr[s] \in Addresses /\ MaxFailures \in Nat
  BY HookAssumption
<1>2. CASE RestoreNothing(s)
  BY <1>2 DEF RestoreNothing, TypeOK, patch
<1>3. CASE RestoreBytes(s)
  <2>1. hooked' \in [Stubs -> BOOLEAN]
    BY <1>3, Zenon DEF RestoreBytes, Unhooked, TypeOK
  <2> QED BY <1>1, <1>3, <2>1 DEF RestoreBytes, TypeOK
<1>4. CASE RestoreFails(s)
  BY <1>1, <1>4 DEF RestoreFails, TypeOK, patch
<1> QED BY <1>2, <1>3, <1>4

(* A thread in a hook has an innermost frame, and outer ones. *)
LEMMA FrameType ==
  ASSUME TypeOK, NEW t \in Threads, stack[t] # <<>>
  PROVE  /\ Top(t) \in Frames /\ Top(t).stub \in Stubs
         /\ Outer(t) \in Seq(Frames)
<1>1. stack[t] \in Seq(Frames)
  BY DEF TypeOK
<1>2. Len(stack[t]) \in Nat \ {0}
  BY <1>1, EmptySeq
<1>3. Top(t) \in Frames
  BY <1>1, <1>2, ElementOfSeq DEF Top
<1>4. Top(t).stub \in Stubs
  BY <1>3, HookAssumption DEF Frames
<1>5. \A i \in 1..(Len(stack[t]) - 1) : stack[t][i] \in Frames
  BY <1>1, <1>2, ElementOfSeq
<1>6. Outer(t) \in Seq(Frames)
  BY <1>2, <1>5, SubSeqProperties DEF Outer
<1> QED BY <1>3, <1>4, <1>6

(* Moving a frame on leaves a stack of frames. *)
LEMMA GotoType ==
  ASSUME TypeOK, NEW t \in Threads, stack[t] # <<>>,
         NEW pc \in {"restore", "call", "original", "make"}, Goto(t, pc)
  PROVE  stack' \in [Threads -> Seq(Frames)]
<1>1. [stub |-> Top(t).stub, pc |-> pc] \in Frames
  BY FrameType DEF Frames
<1>2. Append(Outer(t), [stub |-> Top(t).stub, pc |-> pc]) \in Seq(Frames)
  BY <1>1, FrameType, AppendProperties
<1> QED BY <1>2 DEF Goto, TypeOK

LEMMA TypeInit == Init => TypeOK
BY HookAssumption, EmptySeq DEF Init, TypeOK

(* Every action keeps the types. *)
LEMMA TypeStep == TypeOK /\ [Next]_vars => TypeOK'
<1> SUFFICES ASSUME TypeOK, [Next]_vars PROVE TypeOK'
  OBVIOUS
<1> USE HookAssumption
<1>1. CASE Install
  <2>1. Order[position + 1] \in Stubs
    <3>1. position + 1 \in 1..Len(Order)
      BY <1>1, LenProperties DEF Install, TypeOK
    <3> QED BY <3>1, ElementOfSeq
  <2> QED BY <1>1, <2>1, MakeType DEF Install, TypeOK
<1>2. CASE Attached
  BY <1>2 DEF Attached, TypeOK, patch
<1>3. CASE Detach
  BY <1>3 DEF Detach, TypeOK, patch
<1>4. CASE RestoreNext
  <2>1. position + 1 \in 1..Len(Walk)
    BY <1>4, WalkType, LenProperties DEF RestoreNext, TypeOK, Walk
  <2> DEFINE s == Walk[position + 1]
  <2>2. s \in Stubs
    BY <2>1, WalkType, ElementOfSeq
  <2>3. \/ UNCHANGED <<patch, status, failures>>
        \/ /\ RestoreNothing(s) \/ RestoreBytes(s) \/ RestoreFails(s)
           /\ status' \in BOOLEAN
    BY <1>4 DEF RestoreNext, Walk, TypeOK
  <2>4. position' \in Nat /\ UNCHANGED <<phase, stack, races, calls>>
    BY <1>4 DEF RestoreNext, TypeOK
  <2>5. CASE UNCHANGED <<patch, status, failures>>
    BY <2>4, <2>5 DEF TypeOK, patch
  <2>6. CASE /\ RestoreNothing(s) \/ RestoreBytes(s) \/ RestoreFails(s)
             /\ status' \in BOOLEAN
    <3> HIDE DEF s
    <3> QED BY <2>2, <2>4, <2>6, RestoreType DEF TypeOK
  <2> QED BY <2>3, <2>5, <2>6
<1>5. CASE Unload
  BY <1>5 DEF Unload, TypeOK, patch
<1>6. ASSUME NEW t \in Threads, NEW s \in Passthrough, Call(t, s)
      PROVE  TypeOK'
  <2>1. [stub |-> s, pc |-> "restore"] \in Frames
    BY DEF Frames
  <2>2. stack' \in [Threads -> Seq(Frames)]
    BY <1>6, <2>1 DEF Call, TypeOK
  <2> QED BY <1>6, <2>2 DEF Call, TypeOK, patch, dll
<1>7. ASSUME NEW t \in Threads, HookRestores(t)
      PROVE  TypeOK'
  <2>1. stack[t] # <<>> /\ stack' \in [Threads -> Seq(Frames)]
    BY <1>7, GotoType DEF HookRestores, In
  <2>2. Top(t).stub \in Stubs
    BY <2>1, FrameType
  <2> QED BY <1>7, <2>1, <2>2, RestoreType DEF HookRestores, TypeOK, dll
<1>8. ASSUME NEW t \in Threads, HookCalls(t)
      PROVE  TypeOK'
  <2>1. stack[t] # <<>>
    BY <1>8 DEF HookCalls, In
  <2>2. stack' \in [Threads -> Seq(Frames)]
    <3>1. CASE Goto(t, "original")
      BY <2>1, <3>1, GotoType
    <3>2. ASSUME NEW target \in Passthrough,
                 stack' = [stack EXCEPT ![t] =
                    Outer(t) \o <<[stub |-> Top(t).stub, pc |-> "original"],
                                  [stub |-> target, pc |-> "restore"]>>]
          PROVE  stack' \in [Threads -> Seq(Frames)]
      <4>1. <<[stub |-> Top(t).stub, pc |-> "original"],
              [stub |-> target, pc |-> "restore"]>> \in Seq(Frames)
        BY <2>1, FrameType DEF Frames
      <4>2. Outer(t) \o <<[stub |-> Top(t).stub, pc |-> "original"],
                          [stub |-> target, pc |-> "restore"]>> \in Seq(Frames)
        BY <2>1, <4>1, FrameType, ConcatProperties
      <4> QED BY <3>2, <4>2 DEF TypeOK
    <3> QED BY <1>8, <3>1, <3>2 DEF HookCalls
  <2> QED BY <1>8, <2>2 DEF HookCalls, TypeOK, patch, dll
<1>9. ASSUME NEW t \in Threads, OriginalReturns(t)
      PROVE  TypeOK'
  <2>1. stack' \in [Threads -> Seq(Frames)]
    BY <1>9, GotoType DEF OriginalReturns, In
  <2> QED BY <1>9, <2>1 DEF OriginalReturns, TypeOK, patch, dll
<1>10. ASSUME NEW t \in Threads, HookMakes(t)
       PROVE  TypeOK'
  <2>1. stack[t] # <<>>
    BY <1>10 DEF HookMakes, In
  <2>2. stack' \in [Threads -> Seq(Frames)]
    BY <1>10, <2>1, FrameType DEF HookMakes, TypeOK
  <2>3. races' \in [Threads -> Nat]
    BY <1>10 DEF HookMakes, TypeOK
  <2>4. Top(t).stub \in Stubs
    BY <2>1, FrameType
  <2> QED BY <1>10, <2>2, <2>3, <2>4, MakeType DEF HookMakes, TypeOK, dll
<1>11. CASE UNCHANGED vars
  BY <1>11 DEF TypeOK, vars, patch, dll
<1> QED BY <1>1, <1>2, <1>3, <1>4, <1>5, <1>6, <1>7, <1>8, <1>9, <1>10, <1>11 DEF Next

-----------------------------------------------------------------------------
(* What PatchAgrees needs to be inductive: an address nobody is hooked at  *)
(* holds the game's own bytes, so make_hook saves those.                   *)
Untouched == \A s \in Sole : ~hooked[s] => code[Addr[s]] = Game

(* Every hooked stub is in the list the detach walks. *)
Listing ==
  \A s \in Stubs : hooked[s] => \/ \E i \in 1..Len(hooks) : hooks[i] = s
                                \/ \E i \in 1..Len(syshooks) : syshooks[i] = s

(* As long as no restore failed, what the walk has passed is unhooked. *)
Walked ==
  /\ phase \in {"attach", "running"} => status
  /\ phase = "running" => position = 0
  /\ phase = "unloaded" => position = Len(Walk)
  /\ phase \in {"detach", "unloaded"} /\ status =>
       \A i \in 1..Len(Walk) : i <= position => ~hooked[Walk[i]]

IInv == TypeOK /\ PatchAgrees /\ Untouched /\ Listing /\ Walked

(* A patch put in keeps the three facts about stubs. *)
LEMMA MakeAgrees ==
  ASSUME TypeOK, PatchAgrees, Untouched, NEW s \in Stubs, Make(s)
  PROVE  PatchAgrees' /\ Untouched'
<1> SUFFICES ASSUME NEW r \in Sole
             PROVE  /\ hooked'[r] <=> code'[Addr[r]] = r
                    /\ hooked'[r] => saved'[r] = Game
                    /\ ~hooked'[r] => code'[Addr[r]] = Game
  BY DEF PatchAgrees, Untouched, Sole
<1>1. /\ hooked[r] <=> code[Addr[r]] = r
      /\ hooked[r] => saved[r] = Game
      /\ ~hooked[r] => code[Addr[r]] = Game
  BY DEF PatchAgrees, Untouched
<1>2. r \in Stubs /\ (s # r => Addr[s] # Addr[r]) /\ Game # r
  BY HookAssumption DEF Sole
<1>3. Addr[s] \in Addresses /\ Addr[r] \in Addresses
  BY <1>2, HookAssumption
<1>4. CASE AlreadyHooked(s) /\ UNCHANGED <<patch, failures>>
  BY <1>1, <1>4 DEF patch
<1>5. CASE /\ ~AlreadyHooked(s)
           /\ saved' = [saved EXCEPT ![s] = Original(s)]
           /\ code' = [code EXCEPT ![Addr[s]] = s]
           /\ hooked' = [hooked EXCEPT ![s] = TRUE]
  <2>1. CASE s = r
    <3>1. Original(s) = Game
      BY <1>1, <1>5, <2>1 DEF Original, AlreadyHooked
    <3> QED BY <1>2, <1>3, <1>5, <2>1, <3>1 DEF TypeOK
  <2>2. CASE s # r
    <3>1. hooked'[r] = hooked[r] /\ saved'[r] = saved[r] /\ code'[Addr[r]] = code[Addr[r]]
      BY <1>2, <1>3, <1>5, <2>2 DEF TypeOK
    <3> QED BY <1>1, <3>1
  <2> QED BY <2>1, <2>2
<1>6. CASE /\ ~AlreadyHooked(s)
           /\ saved' = [saved EXCEPT ![s] = Original(s)]
           /\ UNCHANGED <<code, hooked>>
  <2>1. CASE s = r
    <3>1. Original(s) = Game
      BY <1>1, <1>6, <2>1 DEF Original, AlreadyHooked
    <3> QED BY <1>1, <1>2, <1>6, <2>1, <3>1 DEF TypeOK
  <2>2. CASE s # r
    BY <1>1, <1>2, <1>6, <2>2 DEF TypeOK
  <2> QED BY <2>1, <2>2
<1> QED BY <1>4, <1>5, <1>6 DEF Make

(* So does a patch taken out. *)
LEMMA RestoreAgrees ==
  ASSUME TypeOK, PatchAgrees, Untouched, NEW s \in Stubs,
         RestoreNothing(s) \/ RestoreBytes(s) \/ RestoreFails(s)
  PROVE  PatchAgrees' /\ Untouched'
<1> SUFFICES ASSUME NEW r \in Sole
             PROVE  /\ hooked'[r] <=> code'[Addr[r]] = r
                    /\ hooked'[r] => saved'[r] = Game
                    /\ ~hooked'[r] => code'[Addr[r]] = Game
  BY DEF PatchAgrees, Untouched, Sole
<1>1. /\ hooked[r] <=> code[Addr[r]] = r
      /\ hooked[r] => saved[r] = Game
      /\ ~hooked[r] => code[Addr[r]] = Game
  BY DEF PatchAgrees, Untouched
<1>2. r \in Stubs /\ (s # r => Addr[s] # Addr[r]) /\ Game # r
  BY HookAssumption DEF Sole
<1>3. Addr[s] \in Addresses /\ Addr[r] \in Addresses
  BY <1>2, HookAssumption
<1>4. CASE UNCHANGED <<code, saved, hooked>>
  BY <1>1, <1>4
<1>5. CASE RestoreBytes(s)
  <2>1. CASE s = r
    BY <1>1, <1>2, <1>3, <1>5, <2>1 DEF RestoreBytes, Unhooked, TypeOK
  <2>2. CASE s # r
    <3>1. hooked'[r] = hooked[r] /\ saved'[r] = saved[r] /\ code'[Addr[r]] = code[Addr[r]]
      BY <1>2, <1>3, <1>5, <2>2 DEF RestoreBytes, Unhooked, TypeOK
    <3> QED BY <1>1, <3>1
  <2> QED BY <2>1, <2>2
<1> QED BY <1>4, <1>5 DEF RestoreNothing, RestoreFails, patch

(* A stub that becomes hooked is remembered. *)
LEMMA MakeListing ==
  ASSUME TypeOK, Listing, NEW s \in Stubs, Make(s)
  PROVE  Listing'
<1>1. CASE UNCHANGED <<hooked, hooks, syshooks>>
  BY <1>1 DEF Listing
<1>2. CASE hooked' = [hooked EXCEPT ![s] = TRUE] /\ Listed(s)
  <2> SUFFICES ASSUME NEW r \in Stubs, hooked'[r]
               PROVE  \/ \E i \in 1..Len(hooks') : hooks'[i] = r
                      \/ \E i \in 1..Len(syshooks') : syshooks'[i] = r
    BY DEF Listing
  <2>1. r = s \/ hooked[r]
    BY <1>2, Zenon DEF TypeOK
  <2>2. CASE s \in SysStubs
    <3>1. /\ Len(syshooks) \in Nat /\ Len(syshooks') = Len(syshooks) + 1
          /\ syshooks'[Len(syshooks) + 1] = s
          /\ \A i \in 1..Len(syshooks) : syshooks'[i] = syshooks[i]
          /\ hooks' = hooks
      BY <1>2, <2>2, ListedFacts, LenProperties DEF TypeOK
    <3>2. CASE r = s
      BY <3>1, <3>2
    <3>3. CASE hooked[r]
      BY <3>1, <3>3 DEF Listing
    <3> QED BY <2>1, <3>2, <3>3
  <2>3. CASE s \notin SysStubs
    <3>1. /\ Len(hooks) \in Nat /\ Len(hooks') = Len(hooks) + 1
          /\ hooks'[Len(hooks) + 1] = s
          /\ \A i \in 1..Len(hooks) : hooks'[i] = hooks[i]
          /\ syshooks' = syshooks
      BY <1>2, <2>3, ListedFacts, LenProperties DEF TypeOK
    <3>2. CASE r = s
      BY <3>1, <3>2
    <3>3. CASE hooked[r]
      BY <3>1, <3>3 DEF Listing
    <3> QED BY <2>1, <3>2, <3>3
  <2> QED BY <2>2, <2>3
<1> QED BY <1>1, <1>2 DEF Make, patch

(* A restore unhooks at most its own stub and forgets none. *)
LEMMA RestoreOnlyUnhooks ==
  ASSUME TypeOK, NEW s \in Stubs,
         RestoreNothing(s) \/ RestoreBytes(s) \/ RestoreFails(s)
  PROVE  /\ \A r \in Stubs : hooked'[r] => hooked[r]
         /\ RestoreNothing(s) \/ RestoreBytes(s) => ~hooked'[s]
         /\ UNCHANGED <<hooks, syshooks>>
<1>1. CASE RestoreNothing(s)
  BY <1>1 DEF RestoreNothing, patch
<1>2. CASE RestoreFails(s)
  BY <1>2 DEF RestoreFails, RestoreNothing, RestoreBytes, patch
<1>3. CASE RestoreBytes(s)
  <2>1. hooked' = [hooked EXCEPT ![s] = FALSE] /\ hooked \in [Stubs -> BOOLEAN]
    BY <1>3 DEF RestoreBytes, Unhooked, TypeOK
  <2>2. \A r \in Stubs : hooked'[r] => hooked[r]
    BY <2>1, Zenon
  <2>3. ~hooked'[s]
    BY <2>1, Zenon
  <2> QED BY <1>3, <2>2, <2>3 DEF RestoreBytes
<1> QED BY <1>1, <1>2, <1>3

LEMMA InitIInv == Init => IInv
<1> SUFFICES ASSUME Init PROVE IInv
  OBVIOUS
<1>1. TypeOK
  BY TypeInit
<1>2. PatchAgrees /\ Untouched
  BY HookAssumption DEF Init, PatchAgrees, Untouched, Sole
<1>3. Listing /\ Walked
  BY DEF Init, Listing, Walked
<1> QED BY <1>1, <1>2, <1>3 DEF IInv

(* Every action keeps the inductive invariant. *)
LEMMA Inductive == IInv /\ [Next]_vars => IInv'
<1> SUFFICES ASSUME IInv, [Next]_vars PROVE IInv'
  OBVIOUS
<1>0. TypeOK /\ PatchAgrees /\ Untouched /\ Listing /\ Walked /\ TypeOK'
  BY TypeStep DEF IInv
<1>1. CASE Install
  <2>1. Order[position + 1] \in Stubs
    <3>1. position + 1 \in 1..Len(Order)
      BY <1>0, <1>1, HookAssumption, LenProperties DEF Install, TypeOK
    <3> QED BY <3>1, HookAssumption, ElementOfSeq
  <2>2. PatchAgrees' /\ Untouched' /\ Listing'
    BY <1>0, <1>1, <2>1, MakeAgrees, MakeListing DEF Install
  <2>3. Walked'
    BY <1>0, <1>1 DEF Install, Walked
  <2> QED BY <1>0, <2>2, <2>3 DEF IInv
<1>2. ASSUME UNCHANGED <<patch, status>>, Walked'
      PROVE  IInv'
  <2>1. PatchAgrees' /\ Untouched' /\ Listing'
    BY <1>0, <1>2 DEF PatchAgrees, Untouched, Listing, patch
  <2> QED BY <1>0, <1>2, <2>1 DEF IInv
<1>3. CASE Attached
  <2>1. Walked'
    BY <1>0, <1>3 DEF Attached, Walked
  <2> QED BY <1>2, <1>3, <2>1 DEF Attached
<1>4. CASE Detach
  <2>1. position' = 0 /\ phase' = "detach" /\ position = 0
    BY <1>0, <1>4 DEF Detach, Walked
  <2>2. Walked'
    BY <2>1 DEF Walked
  <2> QED BY <1>2, <1>4, <2>2 DEF Detach
<1>5. CASE RestoreNext
  <2> DEFINE s == Walk[position + 1]
  <2>1. position \in Nat /\ position + 1 \in 1..Len(Walk) /\ Len(Walk) \in Nat
    BY <1>0, <1>5, WalkType, LenProperties DEF RestoreNext, TypeOK, Walk
  <2>2. s \in Stubs /\ \A i \in 1..Len(Walk) : Walk[i] \in Stubs
    BY <1>0, <2>1, WalkType, ElementOfSeq
  <2>3. /\ phase' = "detach" /\ phase = "detach" /\ position' = position + 1
        /\ \/ ~status /\ UNCHANGED <<patch, status, failures>>
           \/ status /\ (RestoreNothing(s) \/ RestoreBytes(s)) /\ UNCHANGED status
           \/ status /\ RestoreFails(s) /\ status' = FALSE
    BY <1>5 DEF RestoreNext, Walk
  <2>4. CASE ~status /\ UNCHANGED <<patch, status, failures>>
    <3>1. Walked'
      BY <2>3, <2>4 DEF Walked
    <3> QED BY <1>2, <2>4, <3>1
  <2> HIDE DEF s
  <2>5. CASE status /\ (RestoreNothing(s) \/ RestoreBytes(s)) /\ UNCHANGED status
    <3>1. /\ \A r \in Stubs : hooked'[r] => hooked[r]
          /\ ~hooked'[s] /\ UNCHANGED <<hooks, syshooks>>
      BY <1>0, <2>2, <2>5, RestoreOnlyUnhooks
    <3>2. Walk' = Walk
      BY <3>1 DEF Walk
    <3>3. \A i \in 1..Len(Walk) : i <= position => ~hooked[Walk[i]]
      BY <1>0, <2>3, <2>5 DEF Walked
    <3>4. \A i \in 1..Len(Walk) : i <= position + 1 => ~hooked'[Walk[i]]
      <4> SUFFICES ASSUME NEW i \in 1..Len(Walk), i <= position + 1
                   PROVE  ~hooked'[Walk[i]]
        OBVIOUS
      <4>1. CASE i = position + 1
        BY <3>1, <4>1 DEF s
      <4>2. CASE i <= position
        BY <2>2, <3>1, <3>3, <4>2
      <4> QED BY <2>1, <4>1, <4>2
    <3>5. Walked'
      BY <2>3, <3>2, <3>4 DEF Walked
    <3>6. Listing'
      BY <1>0, <3>1 DEF Listing
    <3>7. PatchAgrees' /\ Untouched'
      BY <1>0, <2>2, <2>5, RestoreAgrees
    <3> QED BY <1>0, <3>5, <3>6, <3>7 DEF IInv
  <2>6. CASE status /\ RestoreFails(s) /\ status' = FALSE
    <3>1. UNCHANGED patch /\ Walked'
      BY <2>3, <2>6 DEF RestoreFails, Walked
    <3>2. PatchAgrees' /\ Untouched' /\ Listing'
      BY <1>0, <3>1 DEF PatchAgrees, Untouched, Listing, patch
    <3> QED BY <1>0, <3>1, <3>2 DEF IInv
  <2> QED BY <2>3, <2>4, <2>5, <2>6
<1>6. CASE Unload
  <2>1. position' = Len(Walk) /\ position = Len(Walk) /\ Walk' = Walk /\ hooked' = hooked
        /\ phase = "detach" /\ phase' = "unloaded" /\ status' = status
    BY <1>6 DEF Unload, Walk, patch
  <2>2. Walked'
    BY <1>0, <2>1 DEF Walked
  <2> QED BY <1>2, <1>6, <2>2 DEF Unload
<1>7. ASSUME phase = "running", UNCHANGED <<patch, dll>>
      PROVE  IInv'
  <2>1. Walked'
    BY <1>0, <1>7 DEF Walked, dll
  <2> QED BY <1>2, <1>7, <2>1 DEF dll
<1>8. ASSUME NEW t \in Threads, HookRestores(t)
      PROVE  IInv'
  <2>1. stack[t] # <<>> /\ phase = "running" /\ UNCHANGED dll
    BY <1>8 DEF HookRestores, In
  <2>2. Top(t).stub \in Stubs
    BY <1>0, <2>1, FrameType
  <2>3. PatchAgrees' /\ Untouched'
    BY <1>0, <1>8, <2>2, RestoreAgrees DEF HookRestores
  <2>4. /\ \A r \in Stubs : hooked'[r] => hooked[r]
        /\ UNCHANGED <<hooks, syshooks>>
    BY <1>0, <1>8, <2>2, RestoreOnlyUnhooks DEF HookRestores
  <2>5. Listing' /\ Walked'
    BY <1>0, <2>1, <2>4 DEF Listing, Walked, dll
  <2> QED BY <1>0, <2>3, <2>5 DEF IInv
<1>9. ASSUME NEW t \in Threads, HookMakes(t)
      PROVE  IInv'
  <2>1. stack[t] # <<>> /\ phase = "running" /\ UNCHANGED dll
    BY <1>9 DEF HookMakes, In
  <2>2. Top(t).stub \in Stubs
    BY <1>0, <2>1, FrameType
  <2>3. PatchAgrees' /\ Untouched' /\ Listing'
    BY <1>0, <1>9, <2>2, MakeAgrees, MakeListing DEF HookMakes
  <2>4. Walked'
    BY <1>0, <2>1 DEF Walked, dll
  <2> QED BY <1>0, <2>3, <2>4 DEF IInv
<1>10. ASSUME NEW t \in Threads, (\E s \in Passthrough : Call(t, s)) \/ HookCalls(t) \/ OriginalReturns(t)
       PROVE  IInv'
  BY <1>7, <1>10 DEF Call, HookCalls, OriginalReturns, In
<1>11. CASE UNCHANGED vars
  <2>1. Walked'
    BY <1>0, <1>11 DEF Walked, Walk, vars, patch, dll
  <2> QED BY <1>2, <1>11, <2>1 DEF vars, dll
<1> QED BY <1>1, <1>3, <1>4, <1>5, <1>6, <1>8, <1>9, <1>10, <1>11 DEF Next

(* The inductive invariant gives a clean game after the walk. *)
LEMMA CleanFromIInv == IInv => UnloadedClean
<1> SUFFICES ASSUME IInv, phase = "unloaded", status, NEW s \in Sole
             PROVE  code[Addr[s]] = Game
  BY DEF UnloadedClean
<1>1. TypeOK /\ Listing /\ Walked /\ Untouched /\ s \in Stubs
  BY DEF IInv, Sole
<1>2. position = Len(Walk) /\ Len(Walk) \in Nat /\ \A i \in 1..Len(Walk) : i <= position => ~hooked[Walk[i]]
  BY <1>1, WalkType, LenProperties DEF Walked
<1>3. \A i \in 1..Len(hooks) : ~hooked[hooks[i]]
  BY <1>1, <1>2, WalkType
<1>4. \A i \in 1..Len(syshooks) : ~hooked[syshooks[i]]
  BY <1>1, <1>2, WalkType
<1>5. ~hooked[s]
  BY <1>1, <1>3, <1>4 DEF Listing
<1> QED BY <1>1, <1>5 DEF Untouched

-----------------------------------------------------------------------------
(* What happens to a stack: its innermost frame moves on, is left, or      *)
(* waits for one more.                                                     *)
LEMMA MovesOn ==
  ASSUME TypeOK, NEW t \in Threads, stack[t] # <<>>,
         NEW pc \in {"restore", "call", "original", "make"}, Goto(t, pc)
  PROVE  /\ Len(stack[t]) \in Nat \ {0} /\ Len(stack'[t]) = Len(stack[t])
         /\ stack'[t][Len(stack[t])] = [stub |-> Top(t).stub, pc |-> pc]
         /\ \A i \in 1..(Len(stack[t]) - 1) : stack'[t][i] = stack[t][i]
         /\ \A u \in Threads \ {t} : stack'[u] = stack[u]
<1> DEFINE new == [stub |-> Top(t).stub, pc |-> pc]
<1>1. stack[t] \in Seq(Frames) /\ Len(stack[t]) \in Nat \ {0}
  BY EmptySeq, LenProperties DEF TypeOK
<1>2. /\ Outer(t) \in Seq(Frames) /\ Len(Outer(t)) = Len(stack[t]) - 1
      /\ \A i \in 1..(Len(stack[t]) - 1) : Outer(t)[i] = stack[t][i]
  <2>1. \A i \in 1..(Len(stack[t]) - 1) : stack[t][i] \in Frames
    BY <1>1, ElementOfSeq
  <2> QED BY <1>1, <2>1, SubSeqProperties DEF Outer
<1>3. new \in Frames
  BY FrameType DEF Frames
<1>4. stack'[t] = Append(Outer(t), new) /\ \A u \in Threads \ {t} : stack'[u] = stack[u]
  BY DEF Goto, TypeOK
<1>5. /\ Len(Append(Outer(t), new)) = Len(Outer(t)) + 1
      /\ Append(Outer(t), new)[Len(Outer(t)) + 1] = new
      /\ \A i \in 1..Len(Outer(t)) : Append(Outer(t), new)[i] = Outer(t)[i]
  BY <1>2, <1>3, AppendProperties
<1> QED BY <1>1, <1>2, <1>4, <1>5

(* A call that is left leaves the outer frames as they were. *)
LEMMA Leaves ==
  ASSUME TypeOK, NEW t \in Threads, stack[t] # <<>>, stack' = [stack EXCEPT ![t] = Outer(t)]
  PROVE  /\ Len(stack[t]) \in Nat \ {0} /\ Len(stack'[t]) = Len(stack[t]) - 1
         /\ \A i \in 1..(Len(stack[t]) - 1) : stack'[t][i] = stack[t][i]
         /\ \A u \in Threads \ {t} : stack'[u] = stack[u]
<1>1. stack[t] \in Seq(Frames) /\ Len(stack[t]) \in Nat \ {0}
  BY EmptySeq, LenProperties DEF TypeOK
<1>2. /\ Len(Outer(t)) = Len(stack[t]) - 1
      /\ \A i \in 1..(Len(stack[t]) - 1) : Outer(t)[i] = stack[t][i]
  <2>1. \A i \in 1..(Len(stack[t]) - 1) : stack[t][i] \in Frames
    BY <1>1, ElementOfSeq
  <2> QED BY <1>1, <2>1, SubSeqProperties DEF Outer
<1> QED BY <1>1, <1>2 DEF TypeOK

(* A call that enters a jump waits under the frame of the hook it runs. *)
LEMMA Nests ==
  ASSUME TypeOK, NEW t \in Threads, stack[t] # <<>>, NEW a \in Frames, NEW b \in Frames,
         stack' = [stack EXCEPT ![t] = Outer(t) \o <<a, b>>]
  PROVE  /\ Len(stack[t]) \in Nat \ {0} /\ Len(stack'[t]) = Len(stack[t]) + 1
         /\ stack'[t][Len(stack[t])] = a /\ stack'[t][Len(stack[t]) + 1] = b
         /\ \A i \in 1..(Len(stack[t]) - 1) : stack'[t][i] = stack[t][i]
         /\ \A u \in Threads \ {t} : stack'[u] = stack[u]
<1>1. stack[t] \in Seq(Frames) /\ Len(stack[t]) \in Nat \ {0}
  BY EmptySeq, LenProperties DEF TypeOK
<1>2. /\ Outer(t) \in Seq(Frames) /\ Len(Outer(t)) = Len(stack[t]) - 1
      /\ \A i \in 1..(Len(stack[t]) - 1) : Outer(t)[i] = stack[t][i]
  <2>1. \A i \in 1..(Len(stack[t]) - 1) : stack[t][i] \in Frames
    BY <1>1, ElementOfSeq
  <2> QED BY <1>1, <2>1, SubSeqProperties DEF Outer
<1>3. <<a, b>> \in Seq(Frames) /\ Len(<<a, b>>) = 2 /\ <<a, b>>[1] = a /\ <<a, b>>[2] = b
  OBVIOUS
<1>4. /\ Len(Outer(t) \o <<a, b>>) = Len(Outer(t)) + 2
      /\ \A i \in 1..Len(Outer(t)) : (Outer(t) \o <<a, b>>)[i] = Outer(t)[i]
      /\ (Outer(t) \o <<a, b>>)[Len(Outer(t)) + 1] = a
      /\ (Outer(t) \o <<a, b>>)[Len(Outer(t)) + 2] = b
  BY <1>2, <1>3, ConcatProperties
<1>5. stack'[t] = Outer(t) \o <<a, b>> /\ \A u \in Threads \ {t} : stack'[u] = stack[u]
  BY DEF TypeOK
<1> QED BY <1>1, <1>2, <1>4, <1>5

(* A passthrough stub that is not hooked is in a frame that will hook it   *)
(* again, and is hooked once installation has come by.                     *)
Remakes(s, t, i) == stack[t][i].stub = s /\ stack[t][i].pc # "restore"

PutBack ==
  phase = "running" /\ failures = 0 =>
    \A s \in Passthrough :
      hooked[s] \/ \E t \in Threads : \E i \in 1..Len(stack[t]) : Remakes(s, t, i)

Installed ==
  phase = "attach" /\ failures = 0 =>
    \A i \in 1..Len(Order) : i <= position => hooked[Order[i]]

(* make_hook, unless it fails, leaves its stub hooked, and every other one *)
(* as it was; a restore leaves the others as they were.                    *)
LEMMA MakeHooks ==
  ASSUME TypeOK, NEW s \in Stubs, Make(s)
  PROVE  /\ \A r \in Stubs : hooked[r] => hooked'[r]
         /\ failures' = 0 => failures = 0 /\ hooked'[s]
<1>1. CASE AlreadyHooked(s) /\ UNCHANGED <<patch, failures>>
  BY <1>1 DEF AlreadyHooked, patch
<1>2. CASE hooked' = [hooked EXCEPT ![s] = TRUE] /\ UNCHANGED failures
  <2>1. \A r \in Stubs : hooked[r] => hooked'[r]
    BY <1>2, Zenon DEF TypeOK
  <2>2. hooked'[s]
    BY <1>2, Zenon DEF TypeOK
  <2> QED BY <1>2, <2>1, <2>2
<1>3. CASE failures' = failures + 1 /\ UNCHANGED hooked
  <2>1. failures' # 0
    BY <1>3, HookAssumption DEF TypeOK
  <2> QED BY <1>3, <2>1
<1> QED BY <1>1, <1>2, <1>3 DEF Make

(* A restore that worked unhooks no stub but its own. *)
LEMMA RestoreKeepsOthers ==
  ASSUME TypeOK, NEW s \in Stubs,
         RestoreNothing(s) \/ RestoreBytes(s) \/ RestoreFails(s)
  PROVE  /\ \A r \in Stubs \ {s} : hooked[r] => hooked'[r]
         /\ failures' = 0 => failures = 0
<1>1. CASE RestoreBytes(s)
  <2>1. \A r \in Stubs \ {s} : hooked[r] => hooked'[r]
    BY <1>1, Zenon DEF RestoreBytes, Unhooked, TypeOK
  <2> QED BY <1>1, <2>1 DEF RestoreBytes
<1>2. CASE RestoreNothing(s)
  BY <1>2 DEF RestoreNothing, patch
<1>3. CASE RestoreFails(s)
  <2>1. failures' # 0
    BY <1>3, HookAssumption DEF RestoreFails, TypeOK
  <2> QED BY <1>3, <2>1 DEF RestoreFails, patch
<1> QED BY <1>1, <1>2, <1>3

(* Until a patch fails, installation leaves hooked what it has come by. *)
LEMMA InstalledStep ==
  ASSUME TypeOK, Installed, [Next]_vars
  PROVE  Installed'
<1>1. CASE Install
  <2> DEFINE s == Order[position + 1]
  <2>1. position \in Nat /\ position + 1 \in 1..Len(Order) /\ Len(Order) \in Nat
    BY <1>1, HookAssumption, LenProperties DEF Install, TypeOK
  <2>2. s \in Stubs /\ \A i \in 1..Len(Order) : Order[i] \in Stubs
    BY <2>1, HookAssumption, ElementOfSeq
  <2>3. Make(s) /\ position' = position + 1 /\ phase = "attach"
    BY <1>1 DEF Install
  <2> HIDE DEF s
  <2>4. /\ \A r \in Stubs : hooked[r] => hooked'[r]
        /\ failures' = 0 => failures = 0 /\ hooked'[s]
    BY <2>2, <2>3, MakeHooks
  <2> SUFFICES ASSUME failures' = 0, NEW i \in 1..Len(Order), i <= position + 1
               PROVE  hooked'[Order[i]]
    BY <2>3 DEF Installed
  <2>5. CASE i = position + 1
    BY <2>4, <2>5 DEF s
  <2>6. CASE i <= position
    BY <2>2, <2>3, <2>4, <2>6 DEF Installed
  <2> QED BY <2>1, <2>5, <2>6
<1>2. CASE UNCHANGED vars
  BY <1>2 DEF Installed, vars, patch, dll
<1>3. CASE Attached \/ Detach \/ RestoreNext \/ Unload
  BY <1>3 DEF Attached, Detach, RestoreNext, Unload, Installed
<1>4. ASSUME NEW t \in Threads, \/ \E s \in Passthrough : Call(t, s)
                                \/ HookRestores(t) \/ HookCalls(t)
                                \/ OriginalReturns(t) \/ HookMakes(t)
      PROVE  Installed'
  BY <1>4 DEF Call, HookRestores, HookCalls, OriginalReturns, HookMakes, In, Installed, dll
<1> QED BY <1>1, <1>2, <1>3, <1>4 DEF Next

(* No step loses the last frame that would hook a stub again. *)
LEMMA PutBackStep ==
  ASSUME TypeOK, Installed, PutBack, [Next]_vars
  PROVE  PutBack'
<1>0. Passthrough \subseteq Stubs
  BY HookAssumption
<1>1. CASE Install \/ Detach \/ RestoreNext \/ Unload
  BY <1>1 DEF Install, Detach, RestoreNext, Unload, PutBack
<1>2. CASE Attached
  BY <1>2, PassthroughAssumption DEF Attached, PutBack, Installed, patch
<1>3. CASE UNCHANGED vars
  BY <1>3 DEF PutBack, Remakes, vars, patch, dll
<1>4. ASSUME NEW t \in Threads, NEW s \in Passthrough, Call(t, s) PROVE PutBack'
  <2>1. /\ \A u \in Threads \ {t} : stack'[u] = stack[u]
        /\ 1..Len(stack[t]) = {} /\ phase = "running" /\ UNCHANGED <<hooked, failures>>
    BY <1>4 DEF Call, TypeOK, patch
  <2> QED BY <2>1 DEF PutBack, Remakes
<1>5. ASSUME NEW t \in Threads, HookRestores(t) PROVE PutBack'
  <2>1. /\ stack[t] # <<>> /\ phase = "running" /\ Top(t).pc = "restore" /\ Goto(t, "call")
        /\ RestoreNothing(Top(t).stub) \/ RestoreBytes(Top(t).stub) \/ RestoreFails(Top(t).stub)
    BY <1>5 DEF HookRestores, In
  <2>2. Top(t).stub \in Stubs
    BY <2>1, FrameType
  <2>3. /\ \A r \in Stubs \ {Top(t).stub} : hooked[r] => hooked'[r]
        /\ failures' = 0 => failures = 0
    BY <2>1, <2>2, RestoreKeepsOthers
  <2>4. /\ Len(stack[t]) \in Nat \ {0} /\ Len(stack'[t]) = Len(stack[t])
        /\ stack'[t][Len(stack[t])] = [stub |-> Top(t).stub, pc |-> "call"]
        /\ \A i \in 1..(Len(stack[t]) - 1) : stack'[t][i] = stack[t][i]
        /\ \A u \in Threads \ {t} : stack'[u] = stack[u]
    BY <2>1, MovesOn
  <2> SUFFICES ASSUME failures' = 0, NEW s \in Passthrough, ~hooked'[s]
               PROVE  \E u \in Threads : \E i \in 1..Len(stack'[u]) : Remakes(s, u, i)'
    BY DEF PutBack
  <2>5. CASE s = Top(t).stub
    <3>1. Remakes(s, t, Len(stack[t]))'
      BY <2>4, <2>5 DEF Remakes
    <3>2. Len(stack[t]) \in 1..Len(stack'[t])
      BY <2>4
    <3> QED BY <2>4, <3>1, <3>2 DEF Remakes
  <2>6. CASE s # Top(t).stub
    <3>1. PICK u \in Threads : \E i \in 1..Len(stack[u]) : Remakes(s, u, i)
      BY <1>0, <2>1, <2>3, <2>6 DEF PutBack
    <3>2. PICK i \in 1..Len(stack[u]) : Remakes(s, u, i)
      BY <3>1
    <3>3. CASE u = t
      <4>1. i # Len(stack[t])
        BY <2>6, <3>2, <3>3 DEF Remakes, Top
      <4>2. i \in 1..(Len(stack[t]) - 1) /\ i \in 1..Len(stack'[t])
        BY <2>4, <3>3, <4>1
      <4> QED BY <2>4, <3>2, <3>3, <4>2 DEF Remakes
    <3>4. CASE u # t
      BY <2>4, <3>2, <3>4 DEF Remakes
    <3> QED BY <3>3, <3>4
  <2> QED BY <2>5, <2>6
<1>6. ASSUME NEW t \in Threads, stack[t] # <<>>, phase = "running",
             UNCHANGED <<hooked, failures>>, Len(stack'[t]) >= Len(stack[t]),
             Len(stack[t]) \in Nat \ {0}, Len(stack'[t]) \in Nat,
             stack'[t][Len(stack[t])].stub = Top(t).stub,
             stack'[t][Len(stack[t])].pc # "restore",
             \A i \in 1..(Len(stack[t]) - 1) : stack'[t][i] = stack[t][i],
             \A u \in Threads \ {t} : stack'[u] = stack[u]
      PROVE  PutBack'
  <2> SUFFICES ASSUME failures = 0, NEW s \in Passthrough, ~hooked[s]
               PROVE  \E u \in Threads : \E i \in 1..Len(stack'[u]) : Remakes(s, u, i)'
    BY <1>6 DEF PutBack
  <2>1. PICK u \in Threads : \E i \in 1..Len(stack[u]) : Remakes(s, u, i)
    BY <1>6 DEF PutBack
  <2>2. PICK i \in 1..Len(stack[u]) : Remakes(s, u, i)
    BY <2>1
  <2>3. CASE u # t
    BY <1>6, <2>2, <2>3 DEF Remakes
  <2>4. CASE u = t
    <3>1. i \in 1..Len(stack'[t])
      BY <1>6, <2>4
    <3>2. CASE i = Len(stack[t])
      BY <1>6, <2>2, <2>4, <3>1, <3>2 DEF Remakes, Top
    <3>3. CASE i # Len(stack[t])
      BY <1>6, <2>2, <2>4, <3>1, <3>3 DEF Remakes
    <3> QED BY <3>2, <3>3
  <2> QED BY <2>3, <2>4
<1>7. ASSUME NEW t \in Threads, HookCalls(t) PROVE PutBack'
  <2>1. stack[t] # <<>> /\ phase = "running" /\ UNCHANGED <<hooked, failures>>
    BY <1>7 DEF HookCalls, In, patch
  <2>2. CASE Goto(t, "original")
    <3>1. /\ Len(stack[t]) \in Nat \ {0} /\ Len(stack'[t]) = Len(stack[t])
          /\ stack'[t][Len(stack[t])] = [stub |-> Top(t).stub, pc |-> "original"]
          /\ \A i \in 1..(Len(stack[t]) - 1) : stack'[t][i] = stack[t][i]
          /\ \A u \in Threads \ {t} : stack'[u] = stack[u]
      BY <2>1, <2>2, MovesOn
    <3>2. /\ stack'[t][Len(stack[t])].stub = Top(t).stub
          /\ stack'[t][Len(stack[t])].pc # "restore"
          /\ Len(stack'[t]) >= Len(stack[t]) /\ Len(stack'[t]) \in Nat
      BY <3>1
    <3> QED BY <1>6, <2>1, <3>1, <3>2, Zenon
  <2>3. ASSUME NEW target \in Passthrough,
               stack' = [stack EXCEPT ![t] =
                 Outer(t) \o <<[stub |-> Top(t).stub, pc |-> "original"],
                               [stub |-> target, pc |-> "restore"]>>]
        PROVE  PutBack'
    <3>1. /\ [stub |-> Top(t).stub, pc |-> "original"] \in Frames
          /\ [stub |-> target, pc |-> "restore"] \in Frames
      BY <2>1, FrameType DEF Frames
    <3>2. /\ Len(stack[t]) \in Nat \ {0} /\ Len(stack'[t]) = Len(stack[t]) + 1
          /\ stack'[t][Len(stack[t])] = [stub |-> Top(t).stub, pc |-> "original"]
          /\ \A i \in 1..(Len(stack[t]) - 1) : stack'[t][i] = stack[t][i]
          /\ \A u \in Threads \ {t} : stack'[u] = stack[u]
      BY <2>1, <2>3, <3>1, Nests
    <3>3. /\ stack'[t][Len(stack[t])].stub = Top(t).stub
          /\ stack'[t][Len(stack[t])].pc # "restore"
          /\ Len(stack'[t]) >= Len(stack[t]) /\ Len(stack'[t]) \in Nat
      BY <3>2
    <3> QED BY <1>6, <2>1, <3>2, <3>3, Zenon
  <2> QED BY <1>7, <2>2, <2>3 DEF HookCalls
<1>8. ASSUME NEW t \in Threads, OriginalReturns(t) PROVE PutBack'
  <2>1. /\ stack[t] # <<>> /\ phase = "running" /\ UNCHANGED <<hooked, failures>>
        /\ Goto(t, "make")
    BY <1>8 DEF OriginalReturns, In, patch
  <2>2. /\ Len(stack[t]) \in Nat \ {0} /\ Len(stack'[t]) = Len(stack[t])
        /\ stack'[t][Len(stack[t])] = [stub |-> Top(t).stub, pc |-> "make"]
        /\ \A i \in 1..(Len(stack[t]) - 1) : stack'[t][i] = stack[t][i]
        /\ \A u \in Threads \ {t} : stack'[u] = stack[u]
    BY <2>1, MovesOn
  <2>3. /\ stack'[t][Len(stack[t])].stub = Top(t).stub
        /\ stack'[t][Len(stack[t])].pc # "restore"
        /\ Len(stack'[t]) >= Len(stack[t]) /\ Len(stack'[t]) \in Nat
    BY <2>2
  <2> QED BY <1>6, <2>1, <2>2, <2>3, Zenon
<1>9. ASSUME NEW t \in Threads, HookMakes(t) PROVE PutBack'
  <2>1. /\ stack[t] # <<>> /\ phase = "running" /\ Make(Top(t).stub)
        /\ stack' = [stack EXCEPT ![t] = Outer(t)]
    BY <1>9 DEF HookMakes, In
  <2>2. Top(t).stub \in Stubs
    BY <2>1, FrameType
  <2>3. /\ \A r \in Stubs : hooked[r] => hooked'[r]
        /\ failures' = 0 => failures = 0 /\ hooked'[Top(t).stub]
    BY <2>1, <2>2, MakeHooks
  <2>4. /\ Len(stack[t]) \in Nat \ {0} /\ Len(stack'[t]) = Len(stack[t]) - 1
        /\ \A i \in 1..(Len(stack[t]) - 1) : stack'[t][i] = stack[t][i]
        /\ \A u \in Threads \ {t} : stack'[u] = stack[u]
    BY <2>1, Leaves
  <2> SUFFICES ASSUME failures' = 0, NEW s \in Passthrough, ~hooked'[s]
               PROVE  \E u \in Threads : \E i \in 1..Len(stack'[u]) : Remakes(s, u, i)'
    BY DEF PutBack
  <2>5. PICK u \in Threads : \E i \in 1..Len(stack[u]) : Remakes(s, u, i)
    BY <1>0, <2>1, <2>3 DEF PutBack
  <2>6. PICK i \in 1..Len(stack[u]) : Remakes(s, u, i)
    BY <2>5
  <2>7. CASE u # t
    BY <2>4, <2>6, <2>7 DEF Remakes
  <2>8. CASE u = t
    <3>1. i # Len(stack[t])
      BY <2>3, <2>6, <2>8 DEF Remakes, Top
    <3>2. i \in 1..Len(stack'[t]) /\ stack'[t][i] = stack[t][i]
      BY <2>4, <2>8, <3>1
    <3> QED BY <2>6, <2>8, <3>2 DEF Remakes
  <2> QED BY <2>7, <2>8
<1> QED BY <1>1, <1>2, <1>3, <1>4, <1>5, <1>7, <1>8, <1>9 DEF Next

-----------------------------------------------------------------------------
(* A thread is in hooks only once they are installed.  The frames under    *)
(* its innermost one wait for the original they called.                    *)
Idle == phase = "attach" => \A t \in Threads : stack[t] = <<>>

Waiting ==
  \A t \in Threads : \A i \in 1..(Len(stack[t]) - 1) : stack[t][i].pc = "original"

(* A call that is about to enter its own jump already has the race or the  *)
(* failure that left the jump there to its account.                        *)
Depth(t) == Len(stack[t]) <= 1 + races[t] + failures
Jumps(t) == stack[t] # <<>> /\ Top(t).pc = "call" /\ hooked[Top(t).stub]
Budget(t) == Depth(t) /\ (Jumps(t) => Len(stack[t]) <= races[t] + failures)

NInv == Idle /\ Waiting /\ \A t \in Threads : Budget(t)

(* No thread is in a hook at first. *)
LEMMA NInit == Init => NInv
<1> SUFFICES ASSUME Init PROVE NInv
  OBVIOUS
<1>1. Idle
  BY DEF Init, Idle
<1>2. ASSUME NEW t \in Threads
      PROVE  (\A i \in 1..(Len(stack[t]) - 1) : stack[t][i].pc = "original") /\ Budget(t)
  <2>1. stack[t] = <<>> /\ Len(stack[t]) = 0 /\ races[t] = 0 /\ failures = 0
    BY DEF Init
  <2> QED BY <2>1 DEF Budget, Depth, Jumps
<1> QED BY <1>1, <1>2 DEF NInv, Waiting

(* A jump put in changes the code, and the other threads notice. *)
LEMMA MakeNoticed ==
  ASSUME TypeOK, PatchAgrees, Untouched, NEW s \in Passthrough, Make(s)
  PROVE  /\ failures' \in Nat /\ failures' >= failures
         /\ code' # code \/ hooked' = hooked
<1>1. s \in Stubs \ SysStubs /\ s \in Sole /\ Addr[s] \in Addresses /\ failures \in Nat
  BY HookAssumption, PassthroughAssumption DEF Sole, TypeOK
<1>2. CASE UNCHANGED <<patch, failures>>
  BY <1>1, <1>2 DEF patch
<1>3. CASE /\ ~AlreadyHooked(s) /\ code' = [code EXCEPT ![Addr[s]] = s] /\ UNCHANGED failures
  <2>1. ~hooked[s] /\ code[Addr[s]] # s
    BY <1>1, <1>3 DEF AlreadyHooked, PatchAgrees
  <2>2. code'[Addr[s]] = s
    BY <1>1, <1>3 DEF TypeOK
  <2> QED BY <1>1, <1>3, <2>1, <2>2
<1>4. CASE failures' = failures + 1 /\ UNCHANGED hooked
  BY <1>1, <1>4
<1> QED BY <1>2, <1>3, <1>4 DEF Make

(* A restore that leaves the jump where it was is a failure. *)
LEMMA RestoreNoticed ==
  ASSUME TypeOK, NEW s \in Stubs,
         RestoreNothing(s) \/ RestoreBytes(s) \/ RestoreFails(s)
  PROVE  /\ failures' \in Nat /\ failures' >= failures
         /\ hooked'[s] => failures' = failures + 1
<1>1. failures \in Nat
  BY HookAssumption DEF TypeOK
<1>2. CASE RestoreNothing(s) \/ RestoreBytes(s)
  <2>1. ~hooked'[s]
    BY <1>2, RestoreOnlyUnhooks
  <2> QED BY <1>1, <1>2, <2>1 DEF RestoreNothing, RestoreBytes
<1>3. CASE RestoreFails(s)
  BY <1>1, <1>3 DEF RestoreFails
<1> QED BY <1>2, <1>3

(* What the rest of the system does costs a thread in its hooks nothing. *)
LEMMA BudgetKept ==
  ASSUME TypeOK, TypeOK', NEW t \in Threads, Budget(t), stack'[t] = stack[t],
         races'[t] \in Nat, failures' >= failures, races'[t] >= races[t],
         \/ \A r \in Stubs : hooked'[r] => hooked[r]
         \/ races'[t] = races[t] + 1
  PROVE  Budget(t)'
<1>1. /\ Len(stack[t]) \in Nat /\ races[t] \in Nat /\ failures \in Nat /\ failures' \in Nat
      /\ stack[t] # <<>> => Top(t).stub \in Stubs
  BY FrameType, LenProperties, HookAssumption DEF TypeOK
<1>2. Top(t)' = Top(t)
  BY DEF Top
<1>3. Depth(t)'
  BY <1>1 DEF Budget, Depth
<1>4. ASSUME Jumps(t)' PROVE Len(stack'[t]) <= races'[t] + failures'
  <2>1. CASE races'[t] = races[t] + 1
    BY <1>1, <2>1 DEF Budget, Depth
  <2>2. CASE \A r \in Stubs : hooked'[r] => hooked[r]
    <3>1. Jumps(t)
      BY <1>1, <1>2, <1>4, <2>2 DEF Jumps
    <3> QED BY <1>1, <3>1 DEF Budget
  <2> QED BY <2>1, <2>2
<1> QED BY <1>3, <1>4 DEF Budget

(* A thread's step keeps the account if its own frames do. *)
LEMMA OneThread ==
  ASSUME TypeOK, TypeOK', NInv, NEW t \in Threads,
         phase' = "running", failures' >= failures,
         \A u \in Threads \ {t} :
            /\ stack'[u] = stack[u] /\ races'[u] >= races[u]
            /\ (\A r \in Stubs : hooked'[r] => hooked[r]) \/ races'[u] = races[u] + 1,
         \A i \in 1..(Len(stack'[t]) - 1) : stack'[t][i].pc = "original",
         Budget(t)'
  PROVE  NInv'
<1>1. ASSUME NEW u \in Threads \ {t} PROVE Budget(u)'
  <2>1. Budget(u) /\ races'[u] \in Nat
    BY DEF NInv, TypeOK
  <2> QED BY <2>1, BudgetKept
<1>2. Waiting'
  BY DEF NInv, Waiting
<1>3. Idle'
  BY DEF Idle
<1> QED BY <1>1, <1>2, <1>3 DEF NInv

(* Every action keeps the accounts of all threads. *)
LEMMA NStep ==
  ASSUME TypeOK, TypeOK', PatchAgrees, Untouched, NInv, [Next]_vars
  PROVE  NInv'
<1>0. /\ failures \in Nat /\ failures' \in Nat
      /\ \A u \in Threads : /\ races[u] \in Nat /\ races'[u] \in Nat
                            /\ Len(stack[u]) \in Nat /\ Len(stack'[u]) \in Nat
  BY LenProperties, HookAssumption DEF TypeOK
<1>1. CASE Install
  <2>1. \A u \in Threads : stack'[u] = <<>>
    BY <1>1 DEF Install, NInv, Idle
  <2>2. Idle' /\ Waiting'
    BY <2>1 DEF Idle, Waiting
  <2>3. ASSUME NEW u \in Threads PROVE Budget(u)'
    <3>1. stack'[u] = <<>> /\ Len(stack'[u]) = 0
      BY <2>1
    <3> QED BY <1>0, <3>1 DEF Budget, Depth, Jumps
  <2> QED BY <2>2, <2>3 DEF NInv
<1>2. ASSUME UNCHANGED <<stack, races>>, failures' >= failures,
             \A r \in Stubs : hooked'[r] => hooked[r],
             phase' = "attach" => phase = "attach"
      PROVE  NInv'
  <2>1. Idle' /\ Waiting'
    BY <1>2 DEF NInv, Idle, Waiting
  <2>2. ASSUME NEW u \in Threads PROVE Budget(u)'
    BY <1>0, <1>2, BudgetKept DEF NInv
  <2> QED BY <2>1, <2>2 DEF NInv
<1>3. CASE Attached \/ Detach \/ Unload \/ UNCHANGED vars
  BY <1>0, <1>2, <1>3 DEF Attached, Detach, Unload, vars, patch, dll
<1>4. CASE RestoreNext
  <2> DEFINE s == (hooks \o syshooks)[position + 1]
  <2>1. s \in Stubs
    <3>1. position \in Nat /\ position + 1 \in 1..Len(Walk) /\ Len(Walk) \in Nat
      BY <1>4, WalkType, LenProperties DEF RestoreNext, TypeOK, Walk
    <3> QED BY <3>1, WalkType, ElementOfSeq DEF Walk
  <2>2. /\ UNCHANGED <<phase, stack, races>>
        /\ \/ UNCHANGED <<patch, failures>>
           \/ RestoreNothing(s) \/ RestoreBytes(s) \/ RestoreFails(s)
    BY <1>4 DEF RestoreNext
  <2> HIDE DEF s
  <2>3. (\A r \in Stubs : hooked'[r] => hooked[r]) /\ failures' >= failures
    BY <1>0, <2>1, <2>2, RestoreOnlyUnhooks, RestoreNoticed DEF patch
  <2> QED BY <1>2, <2>2, <2>3
<1>5. ASSUME NEW t \in Threads, NEW s \in Passthrough, Call(t, s) PROVE NInv'
  <2>1. /\ phase' = "running" /\ UNCHANGED <<patch, failures>>
        /\ stack'[t] = <<[stub |-> s, pc |-> "restore"]>> /\ races'[t] = 0
        /\ \A u \in Threads \ {t} : stack'[u] = stack[u] /\ races'[u] = races[u]
    BY <1>5 DEF Call, dll, TypeOK
  <2>2. Len(stack'[t]) = 1 /\ Top(t)'.pc = "restore"
    BY <2>1 DEF Top
  <2>3. Budget(t)'
    BY <1>0, <2>1, <2>2 DEF Budget, Depth, Jumps
  <2>4. \A u \in Threads \ {t} : races'[u] >= races[u]
    BY <1>0, <2>1
  <2>5. \A i \in 1..(Len(stack'[t]) - 1) : stack'[t][i].pc = "original"
    BY <2>2
  <2>6. failures' >= failures /\ \A r \in Stubs : hooked'[r] => hooked[r]
    BY <1>0, <2>1 DEF patch
  <2> QED BY <2>1, <2>3, <2>4, <2>5, <2>6, OneThread
<1>6. ASSUME NEW t \in Threads, HookRestores(t) PROVE NInv'
  <2>1. /\ stack[t] # <<>> /\ phase' = "running" /\ Goto(t, "call") /\ races' = races
        /\ RestoreNothing(Top(t).stub) \/ RestoreBytes(Top(t).stub) \/ RestoreFails(Top(t).stub)
    BY <1>6 DEF HookRestores, In, dll
  <2>2. Top(t).stub \in Stubs
    BY <2>1, FrameType
  <2>3. /\ failures' >= failures /\ \A r \in Stubs : hooked'[r] => hooked[r]
        /\ hooked'[Top(t).stub] => failures' = failures + 1
    BY <2>1, <2>2, RestoreNoticed, RestoreOnlyUnhooks
  <2>4. /\ Len(stack[t]) \in Nat \ {0} /\ Len(stack'[t]) = Len(stack[t])
        /\ stack'[t][Len(stack[t])] = [stub |-> Top(t).stub, pc |-> "call"]
        /\ \A i \in 1..(Len(stack[t]) - 1) : stack'[t][i] = stack[t][i]
        /\ \A u \in Threads \ {t} : stack'[u] = stack[u]
    BY <2>1, MovesOn
  <2>5. Top(t)'.stub = Top(t).stub
    BY <2>4 DEF Top
  <2>6. Budget(t)'
    <3>1. Len(stack[t]) <= 1 + races[t] + failures
      BY DEF NInv, Budget, Depth
    <3> QED BY <1>0, <2>1, <2>3, <2>4, <2>5, <3>1 DEF Budget, Depth, Jumps
  <2>7. \A i \in 1..(Len(stack'[t]) - 1) : stack'[t][i].pc = "original"
    BY <2>4 DEF NInv, Waiting
  <2>8. \A u \in Threads \ {t} : races'[u] >= races[u]
    BY <1>0, <2>1
  <2> QED BY <2>1, <2>3, <2>4, <2>6, <2>7, <2>8, OneThread
<1>7. ASSUME NEW t \in Threads, OriginalReturns(t) PROVE NInv'
  <2>1. /\ stack[t] # <<>> /\ phase' = "running" /\ Goto(t, "make")
        /\ UNCHANGED <<races, hooked, failures>>
    BY <1>7 DEF OriginalReturns, In, patch, dll
  <2>2. /\ Len(stack[t]) \in Nat \ {0} /\ Len(stack'[t]) = Len(stack[t])
        /\ stack'[t][Len(stack[t])] = [stub |-> Top(t).stub, pc |-> "make"]
        /\ \A i \in 1..(Len(stack[t]) - 1) : stack'[t][i] = stack[t][i]
        /\ \A u \in Threads \ {t} : stack'[u] = stack[u]
    BY <2>1, MovesOn
  <2>3. Top(t)'.pc = "make"
    BY <2>2 DEF Top
  <2>4. Budget(t)'
    <3>1. Len(stack[t]) <= 1 + races[t] + failures
      BY DEF NInv, Budget, Depth
    <3> QED BY <2>1, <2>2, <2>3, <3>1 DEF Budget, Depth, Jumps
  <2>5. \A i \in 1..(Len(stack'[t]) - 1) : stack'[t][i].pc = "original"
    BY <2>2 DEF NInv, Waiting
  <2>6. failures' >= failures /\ \A u \in Threads \ {t} : races'[u] >= races[u]
    BY <1>0, <2>1
  <2> QED BY <2>1, <2>2, <2>4, <2>5, <2>6, OneThread
<1>8. ASSUME NEW t \in Threads, HookCalls(t) PROVE NInv'
  <2>1. /\ stack[t] # <<>> /\ phase' = "running" /\ Top(t).pc = "call"
        /\ UNCHANGED <<races, hooked, failures>>
    BY <1>8 DEF HookCalls, In, patch, dll
  <2>2. Len(stack[t]) <= 1 + races[t] + failures
    BY DEF NInv, Budget, Depth
  <2>3. failures' >= failures /\ \A u \in Threads \ {t} : races'[u] >= races[u]
    BY <1>0, <2>1
  <2>4. CASE Goto(t, "original")
    <3>1. /\ Len(stack[t]) \in Nat \ {0} /\ Len(stack'[t]) = Len(stack[t])
          /\ stack'[t][Len(stack[t])] = [stub |-> Top(t).stub, pc |-> "original"]
          /\ \A i \in 1..(Len(stack[t]) - 1) : stack'[t][i] = stack[t][i]
          /\ \A u \in Threads \ {t} : stack'[u] = stack[u]
      BY <2>1, <2>4, MovesOn
    <3>2. Top(t)'.pc = "original"
      BY <3>1 DEF Top
    <3>3. Budget(t)'
      BY <2>1, <2>2, <3>1, <3>2 DEF Budget, Depth, Jumps
    <3>4. \A i \in 1..(Len(stack'[t]) - 1) : stack'[t][i].pc = "original"
      BY <3>1 DEF NInv, Waiting
    <3> QED BY <2>1, <2>3, <3>1, <3>3, <3>4, OneThread
  <2>5. ASSUME NEW target \in Passthrough, code[Addr[Top(t).stub]] = target,
               stack' = [stack EXCEPT ![t] =
                 Outer(t) \o <<[stub |-> Top(t).stub, pc |-> "original"],
                               [stub |-> target, pc |-> "restore"]>>]
        PROVE  NInv'
    <3> DEFINE a == [stub |-> Top(t).stub, pc |-> "original"]
               b == [stub |-> target, pc |-> "restore"]
    <3>0. stack' = [stack EXCEPT ![t] = Outer(t) \o <<a, b>>] /\ a.pc = "original" /\ b.pc = "restore"
      BY <2>5
    <3>1. a \in Frames /\ b \in Frames /\ Top(t).stub \in Passthrough
      BY <2>1, FrameType DEF Frames
    <3> HIDE DEF a, b
    <3>2. /\ Len(stack[t]) \in Nat \ {0} /\ Len(stack'[t]) = Len(stack[t]) + 1
          /\ stack'[t][Len(stack[t])] = a /\ stack'[t][Len(stack[t]) + 1] = b
          /\ \A i \in 1..(Len(stack[t]) - 1) : stack'[t][i] = stack[t][i]
          /\ \A u \in Threads \ {t} : stack'[u] = stack[u]
      BY <2>1, <3>0, <3>1, Nests
    <3>3. hooked[Top(t).stub]
      <4>1. Top(t).stub \in Sole
        BY <3>1, HookAssumption, PassthroughAssumption DEF Sole
      <4> QED BY <2>5, <4>1, HookAssumption DEF Untouched
    <3>4. Len(stack[t]) <= races[t] + failures
      BY <2>1, <3>3 DEF NInv, Budget, Jumps
    <3>5. Top(t)'.pc = "restore"
      BY <3>0, <3>2 DEF Top
    <3>6. Budget(t)'
      BY <1>0, <2>1, <3>2, <3>4, <3>5 DEF Budget, Depth, Jumps
    <3>7. \A i \in 1..(Len(stack'[t]) - 1) : stack'[t][i].pc = "original"
      <4>1. \A i \in 1..(Len(stack[t]) - 1) : stack'[t][i].pc = "original"
        BY <3>2 DEF NInv, Waiting
      <4>2. stack'[t][Len(stack[t])].pc = "original"
        BY <3>0, <3>2
      <4>3. \A i \in 1..(Len(stack'[t]) - 1) : i \in 1..(Len(stack[t]) - 1) \/ i = Len(stack[t])
        BY <3>2
      <4> QED BY <4>1, <4>2, <4>3
    <3> QED BY <2>1, <2>3, <3>2, <3>6, <3>7, OneThread
  <2> QED BY <1>8, <2>4, <2>5 DEF HookCalls
<1>9. ASSUME NEW t \in Threads, HookMakes(t) PROVE NInv'
  <2>1. /\ stack[t] # <<>> /\ phase' = "running" /\ Make(Top(t).stub)
        /\ stack' = [stack EXCEPT ![t] = Outer(t)]
        /\ \A u \in Threads : races'[u] = IF u # t /\ code' # code THEN races[u] + 1 ELSE races[u]
    BY <1>9 DEF HookMakes, In, dll
  <2>2. Top(t).stub \in Passthrough
    BY <2>1, FrameType DEF Frames
  <2>3. /\ failures' >= failures
        /\ code' # code \/ hooked' = hooked
    BY <2>1, <2>2, MakeNoticed
  <2>4. /\ Len(stack[t]) \in Nat \ {0} /\ Len(stack'[t]) = Len(stack[t]) - 1
        /\ \A i \in 1..(Len(stack[t]) - 1) : stack'[t][i] = stack[t][i]
        /\ \A u \in Threads \ {t} : stack'[u] = stack[u]
    BY <2>1, Leaves
  <2>5. \A i \in 1..(Len(stack[t]) - 1) : stack'[t][i].pc = "original"
    BY <2>4 DEF NInv, Waiting
  <2>6. Budget(t)'
    <3>1. Len(stack[t]) <= 1 + races[t] + failures /\ races'[t] = races[t]
      BY <2>1 DEF NInv, Budget, Depth
    <3>2. Depth(t)'
      BY <1>0, <2>3, <2>4, <3>1 DEF Depth
    <3>3. ~Jumps(t)'
      <4>1. CASE Len(stack[t]) = 1
        <5>1. stack'[t] = <<>>
          BY <2>4, <4>1, EmptySeq DEF TypeOK
        <5> QED BY <5>1 DEF Jumps
      <4>2. CASE Len(stack[t]) > 1
        <5>1. Len(stack'[t]) \in 1..(Len(stack[t]) - 1)
          BY <2>4, <4>2
        <5>2. Top(t)'.pc = "original"
          BY <2>5, <5>1 DEF Top
        <5> QED BY <5>2 DEF Jumps
      <4> QED BY <2>4, <4>1, <4>2 DEF Jumps
    <3> QED BY <3>2, <3>3 DEF Budget
  <2>7. \A i \in 1..(Len(stack'[t]) - 1) : stack'[t][i].pc = "original"
    BY <2>4, <2>5
  <2>8. \A u \in Threads \ {t} :
          /\ stack'[u] = stack[u] /\ races'[u] >= races[u]
          /\ (\A r \in Stubs : hooked'[r] => hooked[r]) \/ races'[u] = races[u] + 1
    BY <1>0, <2>1, <2>3, <2>4
  <2> QED BY <2>1, <2>3, <2>6, <2>7, <2>8, OneThread
<1> QED BY <1>1, <1>3, <1>4, <1>5, <1>6, <1>7, <1>8, <1>9 DEF Next

(* Every reachable state has typed patch tables and call stacks. *)
THEOREM TypeCorrect == Spec => []TypeOK
<1>1. Init => TypeOK
  BY TypeInit
<1>2. TypeOK /\ [Next]_vars => TypeOK'
  BY TypeStep
<1> QED BY <1>1, <1>2, PTL DEF Spec

(* is_hooked and the bytes at the address agree, and what would be put     *)
(* back is the game's, for any number of threads in passthrough hooks.     *)
THEOREM PatchTheorem == Spec => []PatchAgrees
<1>1. IInv => PatchAgrees
  BY DEF IInv
<1> QED BY <1>1, InitIInv, Inductive, PTL DEF Spec

(* A detach in which no restore failed leaves no jump of a stub that has   *)
(* its address for itself.                                                 *)
THEOREM CleanTheorem == Spec => []UnloadedClean
<1> QED BY CleanFromIInv, InitIInv, Inductive, PTL DEF Spec

(* Once no thread is inside the hook of a passthrough stub its jump is     *)
(* back, unless a patch failed: for any number of threads and stubs.       *)
THEOREM RepatchedTheorem == Spec => []RepatchedAtRest
<1>1. Init => Installed /\ PutBack
  <2> SUFFICES ASSUME Init PROVE Installed /\ PutBack
    OBVIOUS
  <2>1. Len(Order) \in Nat /\ position = 0 /\ phase = "attach"
    BY HookAssumption, LenProperties DEF Init
  <2> QED BY <2>1 DEF Installed, PutBack
<1>2. IInv /\ Installed /\ PutBack /\ [Next]_vars => (Installed /\ PutBack)'
  BY InstalledStep, PutBackStep DEF IInv
<1>3. ASSUME IInv, PutBack PROVE RepatchedAtRest
  BY <1>3 DEF IInv, PatchAgrees, PutBack, Remakes, RepatchedAtRest
<1> QED BY <1>1, <1>2, <1>3, InitIInv, Inductive, PTL DEF Spec

(* However many threads take the jumps out and put them back, a call that  *)
(* runs into a jump again owes it to another thread's make_hook or to a    *)
(* patch that failed: without them no hook nests.                          *)
THEOREM ReentryTheorem == Spec => []ReentryNeedsRace
<1>1. IInv /\ IInv' /\ NInv /\ [Next]_vars => NInv'
  BY NStep DEF IInv
<1>2. NInv => ReentryNeedsRace
  BY DEF NInv, Budget, Depth, ReentryNeedsRace
<1> QED BY <1>1, <1>2, NInit, InitIInv, Inductive, PTL DEF Spec
=============================================================================
