--------------------------- MODULE GrowableBuffer ---------------------------
(***************************************************************************)
(* Proud::GrowableBuffer (send and receive staging of a CFastSocket) and   *)
(* Proud::RecvBuffer (bytes collected by a ConnectionNode):                *)
(* src/src/ProudNet/GrowableBuffer.cpp and src/src/ProudNet/RecvAppend.cpp.*)
(* Every call is one action; the outcome of the heap is a choice.          *)
(***************************************************************************)
EXTENDS Integers

CONSTANTS Byte, Junk,
          SlackFloor,       \* mode 0: least slack   (4 in the code)
          SlackCeiling,     \* mode 0: largest slack (1024)
          WideFloor,        \* mode 1: least slack   (64)
          SlackShare,       \* a growth adds size / SlackShare (8)
          MinCapacities,    \* values of min_capacity_
          Requests,         \* sizes callers ask for
          MaxSize           \* bound on size_: callers ask for 0x8000 bytes at
                            \*   most, or for the length of a message they send

ASSUME ConstantsAssumption ==
  /\ Junk \notin Byte
  /\ SlackFloor \in Nat
  /\ SlackCeiling \in Nat
  /\ WideFloor \in Nat
  /\ SlackShare \in Nat \ {0}
  /\ MinCapacities \subseteq Nat
  /\ Requests \subseteq Int
  /\ MaxSize \in Nat

IntMax == 2147483647        \* the largest int

(* calc_capacity adds ints: no size a caller reaches lets the sum overflow. *)
ASSUME WidthAssumption ==
  /\ \A cap \in MinCapacities : cap <= IntMax
  /\ MaxSize + SlackFloor <= IntMax /\ MaxSize + SlackCeiling <= IntMax
  /\ MaxSize + WideFloor <= IntMax
  /\ \A n \in 0..MaxSize : MaxSize + (n \div SlackShare) <= IntMax

VARIABLES copying,      \* a RecvBuffer (copies on growth) or a staging buffer
          min_capacity, growth_mode,
          size, capacity,
          data,         \* the heap block: [0..capacity-1 -> Cell]
          call          \* the last call and whether it returned

buffer == <<copying, min_capacity, growth_mode, size, capacity, data, call>>

Cell == Byte \cup {Junk}
NoCall == [op |-> "none", len |-> 0, src |-> <<>>, ok |-> TRUE]

Larger(a, b) == IF a > b THEN a ELSE b

(* calc_capacity: the slack of each growth mode, from the size in use now *)
Slack == LET share == size \div SlackShare
         IN  CASE growth_mode = 0 ->
                    IF share < SlackCeiling THEN Larger(share, SlackFloor)
                                            ELSE SlackCeiling
               [] growth_mode = 1 -> Larger(share, WideFloor)
               [] OTHER           -> 0

calc_capacity(need) == Larger(need + Slack, min_capacity)

BufferInit ==
  /\ copying \in BOOLEAN
  /\ min_capacity \in MinCapacities
  /\ growth_mode \in 0..3              \* 3: any mode the code rejects
  /\ size = 0 /\ capacity = 0
  /\ data \in [0..-1 -> Cell]
  /\ call = NoCall

(* Mutant of NewBlock: the copy loop stops one byte early. *)
NewBlockShort(cap, keep) ==
  [i \in 0..(cap - 1) |-> IF i + 1 < keep THEN data[i] ELSE Junk]

(* A block of cap bytes whose first keep bytes come from the old one. *)
NewBlock(cap, keep) ==
  [i \in 0..(cap - 1) |-> IF i < keep THEN data[i] ELSE Junk]

Throw(op, len) ==
  /\ call' = [op |-> op, len |-> len, src |-> <<>>, ok |-> FALSE]
  /\ UNCHANGED <<size, capacity, data>>

(* ensure_size: realloc keeps the whole old block. *)
GrowRealloc(m) ==
  LET cap == calc_capacity(m)
  IN  /\ data' = NewBlock(cap, IF capacity < cap THEN capacity ELSE cap)
      /\ capacity' = cap
      /\ size' = m

(* ensure_capacity_copy: a new block gets only the size_ bytes in use. *)
GrowCopy(m) ==
  LET cap == calc_capacity(m)
  IN  /\ data' = NewBlock(cap, size)
      /\ capacity' = cap
      /\ size' = m

(* Mutant of Fits: the capacity test is off by one. *)
FitsLoose(m) == m = size \/ m <= capacity + 1

Fits(m) == m = size \/ m <= capacity

(* ensure_size / RecvBuffer::ensure_capacity with any request *)
Resize(m) ==
  /\ UNCHANGED <<copying, min_capacity, growth_mode>>
  /\ \/ /\ m < 0 \/ (~Fits(m) /\ growth_mode = 3)
        /\ Throw("resize", m)
     \/ /\ m >= 0 /\ ~Fits(m) /\ growth_mode # 3       \* the heap is exhausted
        /\ Throw("resize", m)
     \/ /\ m >= 0 /\ Fits(m)
        /\ size' = m
        /\ UNCHANGED <<capacity, data>>
        /\ call' = [op |-> "resize", len |-> m, src |-> <<>>, ok |-> TRUE]
     \/ /\ m >= 0 /\ ~Fits(m) /\ growth_mode # 3
        /\ IF copying THEN GrowCopy(m) ELSE GrowRealloc(m)
        /\ call' = [op |-> "resize", len |-> m, src |-> <<>>, ok |-> TRUE]

(* RecvBuffer::append: make room, then write behind the old bytes. *)
AppendRoom(m) == IF Fits(m) THEN data ELSE NewBlock(calc_capacity(m), size)

append(src, len) ==
  /\ copying
  /\ UNCHANGED <<copying, min_capacity, growth_mode>>
  /\ \/ /\ len < 0
        /\ Throw("append", len)
     \/ /\ len > 0 /\ ~Fits(size + len)      \* rejected mode or no memory
        /\ Throw("append", len)
     \/ /\ len > 0 /\ (Fits(size + len) \/ growth_mode # 3)
        /\ data' = [i \in DOMAIN AppendRoom(size + len) |->
                      IF i \in size..(size + len - 1) THEN src[i - size]
                      ELSE AppendRoom(size + len)[i]]
        /\ capacity' = IF Fits(size + len) THEN capacity
                       ELSE calc_capacity(size + len)
        /\ size' = size + len
        /\ call' = [op |-> "append", len |-> len, src |-> src, ok |-> TRUE]

BufferNext ==
  \/ \E m \in Requests : m <= MaxSize /\ Resize(m)
  \/ \E len \in Requests :
       /\ size + len <= MaxSize
       /\ \E src \in [0..(len - 1) -> Byte] : append(src, len)

BufferSpec == BufferInit /\ [][BufferNext]_buffer

-----------------------------------------------------------------------------
(* Types, and the memory-safety fact every user relies on: the bytes in    *)
(* use always lie inside the block GrowableBuffer.cpp allocated for them,  *)
(* whose size is an int that has not overflowed.                           *)
BufferTypeOK ==
  /\ copying \in BOOLEAN
  /\ min_capacity \in Nat /\ min_capacity <= IntMax
  /\ growth_mode \in 0..3
  /\ size \in Nat /\ capacity \in Nat
  /\ size <= MaxSize /\ size <= capacity /\ capacity <= IntMax
  /\ data \in [0..(capacity - 1) -> Cell]

(* The buffer seen by its users: the first size bytes of the block. *)
contents == [i \in 0..(size - 1) |-> data[i]]

Stream == INSTANCE ByteStream WITH n <- size, content <- contents

(* GrowableBuffer.cpp and RecvAppend.cpp implement a byte stream: growth,   *)
(* by realloc or by copy, never loses or reorders a byte already appended, *)
(* and a call that throws leaves the bytes as they were.                   *)
StreamSpec == Stream!SSpec
=============================================================================
