-------------------------- MODULE StringRefProofs --------------------------
(***************************************************************************)
(* StringRef for any number of threads and of Strings that share bodies in *)
(* any way: its reference counts, its lengths and types, and the proof     *)
(* that Strings are values.                                                *)
(***************************************************************************)
EXTENDS StringRef, FiniteSetTheorems, SequenceTheorems, WellFoundedInduction, TLAPS

(* A CopyOnWrite in progress is its owner's, and once it has dropped its   *)
(* reference its String has no body.                                       *)
CowOK ==
  /\ cow = [t \in Threads |-> cow[t]]
  /\ \A t \in Threads :
       /\ cow[t] = [at |-> cow[t].at, op |-> cow[t].op, old |-> cow[t].old]
       /\ cow[t].at \in {"no", "drop", "copy"}
       /\ cow[t].at # "no" => cow[t].op.s \in Strings /\ Owner[cow[t].op.s] = t
       /\ cow[t].at = "copy" => handle[cow[t].op.s] = Null

CountsOK ==
  /\ handle \in [Strings -> Bodies \cup {Null}]
  /\ refs \in [Bodies -> Int] /\ leaked \in [Bodies -> Int]
  /\ RefsExact

(* RefsExact made inductive *)
RefsInv == CountsOK /\ CowOK

-----------------------------------------------------------------------------
(* Giving one String another body changes two counts by one. *)
LEMMA OwnersMove ==
  ASSUME handle \in [Strings -> Bodies \cup {Null}], NEW s \in Strings,
         NEW new \in Bodies \cup {Null}, NEW b \in Bodies,
         handle' = [handle EXCEPT ![s] = new]
  PROVE  /\ Cardinality(Owners(b)) \in Nat
         /\ Cardinality(Owners(b)') =
              Cardinality(Owners(b)) + (IF new = b THEN 1 ELSE 0)
                                     - (IF handle[s] = b THEN 1 ELSE 0)
<1>1. IsFiniteSet(Owners(b))
  BY FS_Subset, StringAssumption DEF Owners
<1>2. Cardinality(Owners(b)) \in Nat
  BY <1>1, FS_CardinalityType
<1>3. s \in Owners(b) <=> handle[s] = b
  BY DEF Owners
<1>4. CASE new = b
  <2>1. Owners(b)' = Owners(b) \cup {s}
    BY <1>4 DEF Owners
  <2>2. Cardinality(Owners(b)') = IF s \in Owners(b) THEN Cardinality(Owners(b))
                                                     ELSE Cardinality(Owners(b)) + 1
    BY <2>1, <1>1, FS_AddElement
  <2>3. QED BY <2>2, <1>2, <1>3, <1>4
<1>5. CASE new # b
  <2>1. Owners(b)' = Owners(b) \ {s}
    BY <1>5 DEF Owners
  <2>2. Cardinality(Owners(b)') = IF s \in Owners(b) THEN Cardinality(Owners(b)) - 1
                                                     ELSE Cardinality(Owners(b))
    BY <2>1, <1>1, FS_RemoveElement
  <2>3. QED BY <2>2, <1>2, <1>3, <1>5
<1>6. QED BY <1>2, <1>4, <1>5

(* A String that takes a body of its own leaves its old one with a         *)
(* reference too many, which counts as leaked.                             *)
LEMMA TakesFresh ==
  ASSUME CountsOK, NEW s \in Strings, NEW b \in Fresh,
         handle' = [handle EXCEPT ![s] = b], refs' = [refs EXCEPT ![b] = 1],
         leaked' = [c \in Bodies |-> IF c = b THEN 0
                                     ELSE IF c = handle[s] THEN leaked[c] + 1 ELSE leaked[c]]
  PROVE  CountsOK'
<1>1. b \in Bodies /\ Owners(b) = {}
  BY DEF Fresh
<1>2. /\ handle' \in [Strings -> Bodies \cup {Null}]
      /\ refs' \in [Bodies -> Int] /\ leaked' \in [Bodies -> Int]
  BY <1>1 DEF CountsOK
<1>3. ASSUME NEW c \in Bodies
      PROVE  refs'[c] = Cardinality(Owners(c)') + leaked'[c]
  <2>1. /\ Cardinality(Owners(c)) \in Nat
        /\ Cardinality(Owners(c)') =
             Cardinality(Owners(c)) + (IF b = c THEN 1 ELSE 0)
                                    - (IF handle[s] = c THEN 1 ELSE 0)
    BY <1>1, OwnersMove DEF CountsOK
  <2>2. refs[c] = Cardinality(Owners(c)) + leaked[c] /\ refs[c] \in Int /\ leaked[c] \in Int
    BY DEF CountsOK, RefsExact
  <2>3. CASE c = b
    <3>1. Cardinality(Owners(c)) = 0 /\ handle[s] # c
      BY <2>3, <1>1, FS_EmptySet DEF Owners
    <3>2. refs'[c] = 1 /\ leaked'[c] = 0
      BY <2>3, <1>1 DEF CountsOK
    <3>3. QED BY <2>1, <2>3, <3>1, <3>2
  <2>4. CASE c # b
    <3>1. refs'[c] = refs[c]
          /\ leaked'[c] = IF c = handle[s] THEN leaked[c] + 1 ELSE leaked[c]
      BY <2>4 DEF CountsOK
    <3>2. QED BY <2>1, <2>2, <2>4, <3>1
  <2>5. QED BY <2>3, <2>4
<1>4. QED BY <1>2, <1>3 DEF CountsOK, RefsExact

(* ... and leaves nothing behind if it had no body. *)
LEMMA EmptyTakesFresh ==
  ASSUME CountsOK, NEW s \in Strings, handle[s] = Null, NEW b \in Fresh,
         handle' = [handle EXCEPT ![s] = b], refs' = [refs EXCEPT ![b] = 1],
         leaked' = [leaked EXCEPT ![b] = 0]
  PROVE  CountsOK'
<1>1. leaked' = [c \in Bodies |-> IF c = b THEN 0
                                  ELSE IF c = handle[s] THEN leaked[c] + 1 ELSE leaked[c]]
  BY StringAssumption DEF CountsOK
<1>2. QED BY <1>1, TakesFresh

(* Letting go of the old body and taking another one, or none, with the    *)
(* counts following.                                                       *)
LEMMA Exchanges ==
  ASSUME CountsOK, NEW s \in Strings, NEW new \in Bodies \cup {Null}, new # handle[s],
         handle' = [handle EXCEPT ![s] = new], leaked' = leaked,
         refs' = [b \in Bodies |-> IF b = handle[s] THEN refs[b] - 1
                                   ELSE IF b = new THEN refs[b] + 1 ELSE refs[b]]
  PROVE  CountsOK'
<1>1. /\ handle' \in [Strings -> Bodies \cup {Null}]
      /\ refs' \in [Bodies -> Int] /\ leaked' \in [Bodies -> Int]
  BY DEF CountsOK
<1>2. ASSUME NEW c \in Bodies
      PROVE  refs'[c] = Cardinality(Owners(c)') + leaked'[c]
  <2>1. /\ Cardinality(Owners(c)) \in Nat
        /\ Cardinality(Owners(c)') =
             Cardinality(Owners(c)) + (IF new = c THEN 1 ELSE 0)
                                    - (IF handle[s] = c THEN 1 ELSE 0)
    BY OwnersMove DEF CountsOK
  <2>2. refs[c] = Cardinality(Owners(c)) + leaked[c] /\ refs[c] \in Int /\ leaked[c] \in Int
    BY DEF CountsOK, RefsExact
  <2>3. refs'[c] = IF c = handle[s] THEN refs[c] - 1
                   ELSE IF c = new THEN refs[c] + 1 ELSE refs[c]
    OBVIOUS
  <2>4. QED BY <2>1, <2>2, <2>3
<1>3. QED BY <1>1, <1>2 DEF CountsOK, RefsExact

(* Nothing is counted when no handle moves. *)
LEMMA CountsStay ==
  ASSUME CountsOK, UNCHANGED <<handle, refs, leaked>>
  PROVE  CountsOK'
BY DEF CountsOK, RefsExact, Owners

(* A String at rest can get any body without disturbing a CopyOnWrite. *)
LEMMA CowStays ==
  ASSUME CowOK, NEW s \in Strings, NEW new, ~Busy(s), cow' = cow,
         handle' = [handle EXCEPT ![s] = new]
  PROVE  CowOK'
<1>1. \A t \in Threads : cow[t].at = "copy" => cow[t].op.s # s
  BY DEF CowOK, Busy, Idle
<1>2. QED BY <1>1 DEF CowOK

-----------------------------------------------------------------------------
(* DecRefCount of a String at rest or in CopyOnWrite *)
LEMMA DropCounts ==
  ASSUME CountsOK, NEW s \in Strings, Drop(s), leaked' = leaked
  PROVE  CountsOK'
<1>1. CASE handle[s] = Null
  BY <1>1, CountsStay DEF Drop, Uncounted, CountsOK
<1>2. CASE handle[s] # Null
  <2>1. refs' = [b \in Bodies |-> IF b = handle[s] THEN refs[b] - 1
                                  ELSE IF b = Null THEN refs[b] + 1 ELSE refs[b]]
    BY <1>2, StringAssumption DEF Drop, Uncounted, CountsOK
  <2>2. QED BY <1>2, <2>1, Exchanges DEF Drop
<1>3. QED BY <1>1, <1>2

(* Each operation of the class keeps the counts exact. *)
LEMMA WriteKeeps ==
  ASSUME RefsInv, NEW s \in Strings, NEW name, NEW size, NEW x, NEW cut,
         Write(Op(name, s, size, x, cut))
  PROVE  RefsInv'
<1> DEFINE op == Op(name, s, size, x, cut)
<1>0. op.s \in Strings /\ [op EXCEPT !.size = 0].s = op.s /\ Write(op)
  BY DEF Op
<1> HIDE DEF op
<1>1. CASE WriteGrown(op)
  <2>1. PICK b \in Fresh :
          /\ NewBody(op.s, b, NewLen(op, op.size), NewText(op, Text(op.s)))
          /\ refs' = [refs EXCEPT ![b] = 1]
          /\ Left(op.s)
    BY <1>1 DEF WriteGrown
  <2>2. handle'[op.s] = b
    BY <2>1, <1>0 DEF NewBody, RefsInv, CountsOK
  <2>3. leaked' = [c \in Bodies |-> IF c = b THEN 0
                     ELSE IF c = handle[op.s] THEN leaked[c] + 1 ELSE leaked[c]]
    BY <2>1, <2>2 DEF Left
  <2>4. CountsOK'
    BY <2>1, <2>3, <1>0, TakesFresh DEF NewBody, RefsInv
  <2>5. CowOK'
    BY <1>1, <2>1, <1>0, CowStays DEF NewBody, WriteGrown, Write, RefsInv
  <2>6. QED BY <2>4, <2>5 DEF RefsInv
<1>2. CASE WriteInPlace(op)
  BY <1>2, CountsStay DEF WriteInPlace, RefsInv, CowOK
<1>3. CASE WriteEmpty(op)
  <2>1. PICK b \in Fresh :
          /\ NewBody(op.s, b, 0, <<>>)
          /\ refs' = [refs EXCEPT ![b] = 1] /\ leaked' = [leaked EXCEPT ![b] = 0]
    BY <1>3 DEF WriteEmpty
  <2>2. CountsOK'
    BY <1>3, <2>1, <1>0, EmptyTakesFresh DEF NewBody, WriteEmpty, RefsInv
  <2>3. CowOK'
    BY <1>3, <2>1, <1>0, CowStays DEF NewBody, WriteEmpty, Write, RefsInv
  <2>4. QED BY <2>2, <2>3 DEF RefsInv
<1>4. CASE WriteShared(op)
  <2>1. CountsOK'
    BY <1>4, CountsStay DEF WriteShared, heap, RefsInv
  <2> DEFINE c == [at |-> "drop", op |-> [op EXCEPT !.size = 0], old |-> handle[op.s]]
  <2>2. cow' = [cow EXCEPT ![Owner[op.s]] = c] /\ handle' = handle /\ Owner[op.s] \in Threads
    BY <1>4, <1>0, StringAssumption DEF WriteShared
  <2>3. c.at = "drop" /\ c.op.s = op.s /\ c = [at |-> c.at, op |-> c.op, old |-> c.old]
    BY <1>0
  <2> HIDE DEF c
  <2>4. CowOK'
    BY <2>2, <2>3, <1>0 DEF CowOK, RefsInv
  <2>5. QED BY <2>1, <2>4 DEF RefsInv
<1>5. QED BY <1>0, <1>1, <1>2, <1>3, <1>4 DEF Write

LEMMA TruncateKeeps ==
  ASSUME RefsInv, NEW s \in Strings, NEW n, Truncate(s, n)
  PROVE  RefsInv'
BY CountsStay DEF Truncate, RefsInv, CowOK

LEMMA ReallocKeeps ==
  ASSUME RefsInv, NEW s \in Strings, NEW n, Realloc(s, n)
  PROVE  RefsInv'
<1>1. PICK b \in Fresh :
        /\ NewBody(s, b, n, SubSeq(Text(s), 1, Smaller(n, Len(Text(s)))))
        /\ refs' = [refs EXCEPT ![b] = 1]
        /\ Left(s)
  BY DEF Realloc
<1>2. handle' = [handle EXCEPT ![s] = b] /\ handle'[s] = b
  BY <1>1 DEF NewBody, RefsInv, CountsOK
<1>3. leaked' = [c \in Bodies |-> IF c = b THEN 0
                   ELSE IF c = handle[s] THEN leaked[c] + 1 ELSE leaked[c]]
  BY <1>1, <1>2 DEF Left
<1>4. CountsOK'
  BY <1>1, <1>2, <1>3, TakesFresh DEF RefsInv
<1>5. CowOK'
  BY <1>2, CowStays DEF Realloc, RefsInv
<1>6. QED BY <1>4, <1>5 DEF RefsInv

LEMMA ConstructKeeps ==
  ASSUME RefsInv, NEW s \in Strings, NEW x, Construct(s, x)
  PROVE  RefsInv'
<1>1. PICK b \in Fresh :
        /\ NewBody(s, b, Len(x), x)
        /\ refs' = [refs EXCEPT ![b] = 1] /\ leaked' = [leaked EXCEPT ![b] = 0]
  BY DEF Construct
<1>2. CountsOK'
  BY <1>1, EmptyTakesFresh DEF NewBody, Construct, RefsInv
<1>3. CowOK'
  BY <1>1, CowStays DEF NewBody, Construct, RefsInv
<1>4. QED BY <1>2, <1>3 DEF RefsInv

LEMMA CopyKeeps ==
  ASSUME RefsInv, NEW s \in Strings, NEW from \in Strings, Copy(s, from)
  PROVE  RefsInv'
<1>1. handle[from] \in Bodies /\ handle[s] = Null /\ Null \notin Bodies
  BY StringAssumption DEF Copy, RefsInv, CountsOK
<1>2. refs' = [b \in Bodies |-> IF b = handle[s] THEN refs[b] - 1
                 ELSE IF b = handle[from] THEN refs[b] + 1 ELSE refs[b]]
  BY <1>1 DEF Copy, Counted, RefsInv, CountsOK
<1>3. CountsOK'
  BY <1>1, <1>2, Exchanges DEF Copy, RefsInv
<1>4. CowOK'
  BY CowStays DEF Copy, RefsInv
<1>5. QED BY <1>3, <1>4 DEF RefsInv

LEMMA AssignKeeps ==
  ASSUME RefsInv, NEW s \in Strings, NEW from \in Strings, Assign(s, from)
  PROVE  RefsInv'
<1>1. handle[from] \in Bodies \cup {Null}
  BY DEF RefsInv, CountsOK
<1>2. CountsOK'
  BY <1>1, Exchanges DEF Assign, RefsInv
<1>3. CowOK'
  BY CowStays DEF Assign, RefsInv
<1>4. QED BY <1>2, <1>3 DEF RefsInv

LEMMA DestroyKeeps ==
  ASSUME RefsInv, NEW s \in Strings, Destroy(s)
  PROVE  RefsInv'
<1>1. CountsOK'
  BY DropCounts DEF Destroy, RefsInv
<1>2. CowOK'
  BY CowStays DEF Destroy, Drop, RefsInv
<1>3. QED BY <1>1, <1>2 DEF RefsInv

(* The two steps of CopyOnWrite *)
LEMMA CowDropsKeeps ==
  ASSUME RefsInv, NEW t \in Threads, CowDrops(t)
  PROVE  RefsInv'
<1> DEFINE s == cow[t].op.s
<1>1. s \in Strings /\ cow[t].at = "drop" /\ Owner[s] = t
  BY DEF CowDrops, RefsInv, CowOK
<1>2. /\ Drop(s) /\ leaked' = leaked
      /\ cow' = [cow EXCEPT ![t] = [cow[t] EXCEPT !.at = "copy"]]
  BY DEF CowDrops
<1>3. CountsOK'
  BY <1>1, <1>2, DropCounts DEF RefsInv
<1>4. handle' = [handle EXCEPT ![s] = Null] /\ handle'[s] = Null
  BY <1>1, <1>2 DEF Drop, RefsInv, CountsOK
<1>5. [cow[t] EXCEPT !.at = "copy"] = [at |-> "copy", op |-> cow[t].op, old |-> cow[t].old]
  BY DEF RefsInv, CowOK
<1>6. CowOK'
  <2>1. cow' = [u \in Threads |-> IF u = t THEN [at |-> "copy", op |-> cow[t].op,
                                                 old |-> cow[t].old] ELSE cow[u]]
    BY <1>2, <1>5 DEF RefsInv, CowOK
  <2>2. \A u \in Threads : cow[u].at = "copy" => handle'[cow[u].op.s] = Null
    BY <1>1, <1>4 DEF RefsInv, CowOK, CountsOK
  <2>3. QED BY <1>1, <1>4, <2>1, <2>2 DEF RefsInv, CowOK
<1>7. QED BY <1>3, <1>6 DEF RefsInv

LEMMA CowCopiesKeeps ==
  ASSUME RefsInv, NEW t \in Threads, CowCopies(t)
  PROVE  RefsInv'
<1> DEFINE s == cow[t].op.s
<1>1. s \in Strings /\ Owner[s] = t /\ handle[s] = Null
  BY DEF CowCopies, RefsInv, CowOK
<1>2. PICK b \in Fresh :
        /\ handle' = [handle EXCEPT ![s] = b]
        /\ refs' = [refs EXCEPT ![b] = 1] /\ leaked' = [leaked EXCEPT ![b] = 0]
  BY DEF CowCopies, NewBody
<1>3. CountsOK'
  BY <1>1, <1>2, EmptyTakesFresh DEF RefsInv
<1>4. cow' = [u \in Threads |-> IF u = t THEN Idle ELSE cow[u]]
  BY DEF CowCopies, RefsInv, CowOK
<1>5. \A u \in Threads : u # t /\ cow[u].at = "copy" => handle'[cow[u].op.s] = Null
  BY <1>1, <1>2 DEF RefsInv, CowOK, CountsOK
<1>6. CowOK'
  BY <1>4, <1>5 DEF RefsInv, CowOK, Idle
<1>7. QED BY <1>3, <1>6 DEF RefsInv

-----------------------------------------------------------------------------
LEMMA RefsInvInit == Init => RefsInv
<1> SUFFICES ASSUME Init PROVE RefsInv
  OBVIOUS
<1>1. \A b \in Bodies : Owners(b) = {}
  BY StringAssumption DEF Init, Owners
<1>2. CountsOK
  <2>1. \A b \in Bodies : Cardinality(Owners(b)) = 0
    BY <1>1, FS_EmptySet
  <2>2. QED BY <2>1 DEF Init, CountsOK, RefsExact
<1>3. CowOK
  BY DEF Init, CowOK, Idle
<1>4. QED BY <1>2, <1>3 DEF RefsInv

LEMMA ChangeKeeps ==
  ASSUME RefsInv, NEW s \in Strings, Change(s)
  PROVE  RefsInv'
<1>1. CASE Destroy(s)  BY <1>1, DestroyKeeps
<1>2. CASE TruncateSelf(s)  BY <1>2, TruncateKeeps DEF TruncateSelf
<1>3. CASE CopyOnWrite(s)  BY <1>3, WriteKeeps DEF CopyOnWrite
<1>4. ASSUME NEW x \in Inputs,
             Construct(s, x) \/ Swap(s, x) \/ Vformat(s, x) \/ ConcatenateCstr(s, x)
      PROVE  RefsInv'
  BY <1>4, ConstructKeeps, WriteKeeps DEF Swap, Vformat, ConcatenateCstr, Extend
<1>5. ASSUME NEW from \in Strings, Copy(s, from) \/ Assign(s, from) \/ Concatenate(s, from)
      PROVE  RefsInv'
  BY <1>5, CopyKeeps, AssignKeeps, WriteKeeps DEF Concatenate, Extend
<1>6. ASSUME NEW c \in Letters, TruncateAtFirst(s, c) \/ TrimLeft(s, c)
      PROVE  RefsInv'
  BY <1>6, WriteKeeps DEF TruncateAtFirst, TrimLeft
<1>7. ASSUME NEW n \in 0..MaxLen, Truncate(s, n) \/ Reserve(s, n)
      PROVE  RefsInv'
  BY <1>7, TruncateKeeps, WriteKeeps DEF Reserve
<1>8. ASSUME NEW n \in 1..MaxLen, Realloc(s, n)
      PROVE  RefsInv'
  BY <1>8, ReallocKeeps
<1>9. QED BY <1>1, <1>2, <1>3, <1>4, <1>5, <1>6, <1>7, <1>8 DEF Change

LEMMA RefsInvNext == RefsInv /\ [Next]_vars => RefsInv'
<1> SUFFICES ASSUME RefsInv, [Next]_vars PROVE RefsInv'
  OBVIOUS
<1>1. ASSUME NEW s \in Strings, Change(s) PROVE RefsInv'
  BY <1>1, ChangeKeeps
<1>2. ASSUME NEW t \in Threads, CowDrops(t) \/ CowCopies(t) PROVE RefsInv'
  BY <1>2, CowDropsKeeps, CowCopiesKeeps
<1>3. CASE UNCHANGED vars
  BY <1>3, CountsStay DEF vars, heap, RefsInv, CowOK
<1>4. QED BY <1>1, <1>2, <1>3 DEF Next

(* The references of every body are exactly its Strings and what Realloc   *)
(* left behind: neither a race between two CopyOnWrites nor any order of   *)
(* copies, assignments and destructions frees a body a String still has.   *)
THEOREM ReferencesExact == Spec => []RefsExact
<1>1. RefsInv => RefsExact
  BY DEF RefsInv, CountsOK
<1>2. QED BY RefsInvInit, RefsInvNext, <1>1, PTL DEF Spec

-----------------------------------------------------------------------------
(* Types *)

(* What an op makes of a text x in a body of size l *)
Fits(op, l, x) ==
  /\ NewText(op, x) \in Seq(Letters)
  /\ NewLen(op, l) \in 0..MaxLen
  /\ Flaw(op, l, x) = {} => Len(NewText(op, x)) <= NewLen(op, l)

(* The results of an op that reads no other String, by the specification of values *)
Made(x) == Inputs \cup {x} \cup Values!Prefixes(x) \cup Values!Trimmed(x)

(* What CopyOnWrite needs to know of the op it was called for *)
Ready(op, x) == Fits(op, Len(x), x) /\ NewText(op, x) \in Made(x)

HeapOK ==
  /\ len \in [Bodies -> 0..MaxLen] /\ text \in [Bodies -> Seq(Letters)]
  /\ leaked \in [Bodies -> Nat]
  /\ flaws \subseteq Flaws
  /\ flaws = {} => \A b \in Bodies : Len(text[b]) <= len[b]
NullOK ==
  /\ nullRefs \in 0..NullRefs
  /\ flaws = {} => nullRefs > 0
PendingOK ==
  \A t \in Threads : cow[t].at # "no" =>
    /\ cow[t].old \in Bodies
    /\ cow[t].at = "drop" => handle[cow[t].op.s] = cow[t].old
    /\ flaws = {} => Ready(cow[t].op, text[cow[t].old])

(* TypeOK made inductive *)
TypeInv == RefsInv /\ HeapOK /\ NullOK /\ PendingOK

LEMMA TypeInvType == TypeInv => TypeOK
<1> SUFFICES ASSUME TypeInv PROVE TypeOK
  OBVIOUS
<1>1. ASSUME NEW b \in Bodies PROVE refs[b] \in Nat
  <2>1. IsFiniteSet(Owners(b))
    BY FS_Subset, StringAssumption DEF Owners
  <2>2. Cardinality(Owners(b)) \in Nat
    BY <2>1, FS_CardinalityType
  <2>3. refs[b] = Cardinality(Owners(b)) + leaked[b] /\ leaked[b] \in Nat
    BY DEF TypeInv, RefsInv, CountsOK, RefsExact, HeapOK
  <2> QED BY <2>2, <2>3
<1>2. refs \in [Bodies -> Nat]
  BY <1>1 DEF TypeInv, RefsInv, CountsOK
<1> QED BY <1>2 DEF TypeInv, TypeOK, RefsInv, CountsOK, CowOK, HeapOK, NullOK

(* The text behind a handle fits the length the program reads. *)
LEMMA TextFits ==
  ASSUME TypeInv, Sound, NEW s \in Strings
  PROVE  /\ Text(s) \in Seq(Letters) /\ Length(s) \in 0..MaxLen /\ MaxLen \in Nat \ {0}
         /\ Len(Text(s)) \in Nat /\ Len(Text(s)) <= Length(s)
<1>1. CASE handle[s] = Null
  <2>1. Text(s) = <<>> /\ Length(s) = 0
    BY <1>1 DEF Text, Length
  <2> QED BY <2>1, StringAssumption
<1>2. CASE handle[s] # Null
  <2>1. handle[s] \in Bodies /\ Text(s) = text[handle[s]] /\ Length(s) = len[handle[s]]
    BY <1>2 DEF Text, Length, TypeInv, RefsInv, CountsOK
  <2>2. Text(s) \in Seq(Letters) /\ Length(s) \in 0..MaxLen /\ Len(Text(s)) <= Length(s)
    BY <2>1 DEF TypeInv, HeapOK, Sound
  <2> QED BY <2>2, StringAssumption
<1> QED BY <1>1, <1>2

(* A body with a single reference has a single String. *)
LEMMA AloneOwner ==
  ASSUME TypeInv, NEW s \in Strings, Alone(s)
  PROVE  handle[s] \in Bodies /\ Owners(handle[s]) = {s}
<1> DEFINE b == handle[s]
<1>1. b \in Bodies /\ s \in Owners(b)
  BY DEF Alone, TypeInv, RefsInv, CountsOK, Owners
<1>2. IsFiniteSet(Owners(b))
  BY FS_Subset, StringAssumption DEF Owners
<1>3. Cardinality(Owners(b)) \in Nat
  BY <1>2, FS_CardinalityType
<1>4. refs[b] = Cardinality(Owners(b)) + leaked[b] /\ leaked[b] \in Nat /\ ~(refs[b] > 1)
  BY <1>1 DEF TypeInv, RefsInv, CountsOK, RefsExact, HeapOK, Alone, Shared
<1>5. Cardinality(Owners(b)) # 0
  BY <1>1, <1>2, FS_EmptySet
<1>6. Cardinality(Owners(b)) = 1
  BY <1>3, <1>4, <1>5
<1>7. PICK o : Owners(b) = {o}
  BY <1>2, <1>6, FS_Singleton
<1> QED BY <1>1, <1>7

-----------------------------------------------------------------------------
(* What a step on s may change without being a flaw *)
Private(s, b) == Owners(b) \subseteq {s} /\ ~Copying(b)
Quiet(s) == \A b \in Bodies : text'[b] = text[b] \/ Private(s, b)

LEMMA HeapChanged ==
  ASSUME HeapOK, Sound, NEW b \in Bodies, NEW n \in 0..MaxLen, NEW x \in Seq(Letters),
         len' = [len EXCEPT ![b] = n], text' = [text EXCEPT ![b] = x],
         leaked' \in [Bodies -> Nat], flaws' \subseteq Flaws,
         flaws' = {} => Len(x) <= n
  PROVE  HeapOK'
<1>1. len' \in [Bodies -> 0..MaxLen] /\ text' \in [Bodies -> Seq(Letters)]
  BY DEF HeapOK
<1>2. ASSUME flaws' = {}, NEW c \in Bodies PROVE Len(text'[c]) <= len'[c]
  <2>1. CASE c = b
    <3>1. text'[c] = x /\ len'[c] = n
      BY <2>1 DEF HeapOK
    <3> QED BY <3>1, <1>2
  <2>2. CASE c # b
    <3>1. text'[c] = text[c] /\ len'[c] = len[c]
      BY <2>2 DEF HeapOK
    <3> QED BY <3>1 DEF HeapOK, Sound
  <2> QED BY <2>1, <2>2
<1> QED BY <1>1, <1>2 DEF HeapOK

(* A quiet step of a String at rest leaves what CopyOnWrites of others need. *)
LEMMA PendingStays ==
  ASSUME TypeInv, Sound, NEW s \in Strings, NEW new, ~Busy(s), cow' = cow,
         handle' = handle \/ handle' = [handle EXCEPT ![s] = new],
         flaws' = {} => Quiet(s)
  PROVE  PendingOK'
<1> SUFFICES ASSUME NEW t \in Threads, cow[t].at # "no"
             PROVE  /\ cow[t].old \in Bodies
                    /\ cow[t].at = "drop" => handle'[cow[t].op.s] = cow[t].old
                    /\ flaws' = {} => Ready(cow[t].op, text'[cow[t].old])
  BY DEF PendingOK, Ready, Fits, Made
<1>1. /\ cow[t].old \in Bodies
      /\ cow[t].at = "drop" => handle[cow[t].op.s] = cow[t].old
      /\ Ready(cow[t].op, text[cow[t].old])
  BY DEF TypeInv, PendingOK, Sound
<1>2. cow[t].op.s \in Strings /\ Owner[cow[t].op.s] = t /\ cow[t] # Idle
  BY DEF TypeInv, RefsInv, CowOK, Idle
<1>3. cow[t].op.s # s
  BY <1>2 DEF Busy
<1>4. Copying(cow[t].old)
  BY <1>2 DEF Copying
<1>5. flaws' = {} => text'[cow[t].old] = text[cow[t].old]
  BY <1>1, <1>4 DEF Quiet, Private
<1>6. handle'[cow[t].op.s] = handle[cow[t].op.s]
  BY <1>2, <1>3 DEF TypeInv, RefsInv, CountsOK
<1> QED BY <1>1, <1>5, <1>6

-----------------------------------------------------------------------------
(* The ops of the class: whatever body is written, the text is what it     *)
(* should be and fits, or the step is flawed.                              *)
Proper(op) ==
  /\ op.s \in Strings
  /\ ~Enough(op) => Fits(op, op.size, Text(op.s))
  /\ Enough(op) => Fits(op, Length(op.s), Text(op.s)) /\ Ready(op, Text(op.s))

(* The size an op reserves is of no concern to CopyOnWrite. *)
LEMMA SizeGone ==
  ASSUME NEW name, NEW s, NEW size, NEW x, NEW cut, NEW y,
         Ready(Op(name, s, size, x, cut), y)
  PROVE  Ready([Op(name, s, size, x, cut) EXCEPT !.size = 0], y)
<1> DEFINE op == Op(name, s, size, x, cut)
           og == [op EXCEPT !.size = 0]
<1>1. op.name = og.name /\ op.x = og.x /\ op.cut = og.cut /\ op.was = og.was
  BY DEF Op
<1> HIDE DEF op, og
<1>2. NewText(op, y) = NewText(og, y)
  BY <1>1 DEF NewText
<1>3. \A l : NewLen(op, l) = NewLen(og, l)
  BY <1>1 DEF NewLen
<1>4. \A l : Flaw(op, l, y) = Flaw(og, l, y)
  BY <1>1 DEF Flaw
<1>5. Ready(op, y)
  BY DEF op
<1>6. Ready(og, y)
  BY <1>2, <1>3, <1>4, <1>5 DEF Ready, Fits
<1> QED BY <1>6 DEF og, op

LEMMA PrefixFits ==
  ASSUME NEW x \in Seq(Letters), NEW n \in 0..Len(x)
  PROVE  /\ SubSeq(x, 1, n) \in Seq(Letters) /\ Len(SubSeq(x, 1, n)) = n
         /\ SubSeq(x, n + 1, Len(x)) \in Seq(Letters)
         /\ Len(SubSeq(x, n + 1, Len(x))) = Len(x) - n
<1>1. Len(x) \in Nat
  BY LenProperties
<1> QED BY <1>1

LEMMA KeepProper ==
  ASSUME TypeInv, Sound, NEW s \in Strings, NEW name \in {"CopyOnWrite", "Reserve"},
         NEW size \in 0..MaxLen
  PROVE  Proper(Op(name, s, size, <<>>, Uncut))
<1> DEFINE op == Op(name, s, size, <<>>, Uncut)
           x == Text(s)
<1>1. op.s = s /\ op.name = name /\ op.size = size /\ op.cut = Uncut
  BY DEF Op
<1> HIDE DEF op
<1>2. NewText(op, x) = x
  BY <1>1 DEF NewText
<1>3. \A l \in 0..MaxLen : NewLen(op, l) = l
  BY <1>1, StringAssumption DEF NewLen, Smaller, Uncut
<1>4. /\ x \in Seq(Letters) /\ Length(s) \in 0..MaxLen /\ MaxLen \in Nat \ {0}
      /\ Len(x) \in Nat /\ Len(x) <= Length(s)
  BY TextFits
<1> HIDE DEF x
<1>5. ~Enough(op) => Length(s) < size
  BY <1>1, <1>4 DEF Enough
<1>6. \A l \in 0..MaxLen : Len(x) <= l => Fits(op, l, x)
  BY <1>2, <1>3, <1>4 DEF Fits
<1>7. x \in Made(x)
  BY DEF Made
<1>8. Len(x) \in 0..MaxLen /\ (~Enough(op) => Len(x) <= size)
  BY <1>4, <1>5
<1>9. Proper(op)
  BY <1>1, <1>2, <1>4, <1>6, <1>7, <1>8 DEF Proper, Ready, x
<1> QED BY <1>9 DEF op

LEMMA InputProper ==
  ASSUME TypeInv, Sound, NEW s \in Strings, NEW name \in {"Swap", "Vformat"},
         NEW y \in Inputs, NEW cut \in {Uncut, Len(y)}
  PROVE  Proper(Op(name, s, Larger(1, Len(y)), y, cut))
<1> DEFINE op == Op(name, s, Larger(1, Len(y)), y, cut)
           x == Text(s)
           n == Len(y)
<1>1. op.s = s /\ op.name = name /\ op.size = Larger(1, n) /\ op.cut = cut /\ op.x = y
  BY DEF Op
<1> HIDE DEF op
<1>2. NewText(op, x) = y
  BY <1>1 DEF NewText
<1>3. n \in 0..MaxLen /\ y \in Seq(Letters) /\ MaxLen \in Nat \ {0}
  BY StringAssumption, LenProperties
<1>4. /\ x \in Seq(Letters) /\ Length(s) \in 0..MaxLen
      /\ Len(x) \in Nat /\ Len(x) <= Length(s)
  BY TextFits
<1> HIDE DEF x
<1>5. op.size \in 0..MaxLen /\ op.size >= n
  BY <1>1, <1>3 DEF Larger
<1>6. ASSUME NEW l \in 0..MaxLen PROVE Fits(op, l, x)
  <2>1. NewLen(op, l) = IF cut < l THEN cut ELSE l
    BY <1>1 DEF NewLen, Smaller
  <2>2. NewLen(op, l) \in 0..MaxLen /\ (n <= l => n <= NewLen(op, l))
    BY <2>1, <1>3 DEF Uncut
  <2>3. Flaw(op, l, x) = {} => ~(n > l)
    BY <1>1 DEF Flaw
  <2> HIDE DEF n
  <2>4. Flaw(op, l, x) = {} => n <= l
    BY <2>3, <1>3
  <2> QED BY <1>2, <1>3, <2>2, <2>4 DEF Fits, n
<1>7. y \in Made(x)
  BY DEF Made
<1>8. Len(x) \in 0..MaxLen
  BY <1>3, <1>4
<1>9. Proper(op)
  BY <1>1, <1>2, <1>4, <1>5, <1>6, <1>7, <1>8 DEF Proper, Ready, x
<1> QED BY <1>9 DEF op

(* A set of naturals has a least element: the induction First needs. *)
LEMMA Least ==
  ASSUME NEW S, S \subseteq Nat, S # {}
  PROVE  \E n \in S : \A m \in S : n <= m
<1> DEFINE R == OpToRel(<, Nat)
<1>1. R = {ss \in Nat \X Nat : ss[1] < ss[2]}
  BY Zenon DEF OpToRel
<1>2. IsWellFoundedOn(R, Nat)
  BY NatLessThanWellFounded, Zenon
<1> HIDE DEF R
<1>3. PICK n \in S : \A m \in S : ~(<<m, n>> \in R)
  BY <1>2, WFMin
<1>4. \A m \in S : ~(m < n)
  BY <1>1, <1>3
<1> QED BY <1>4

(* A run of letters at the start of a text, whatever it is that ends it. *)
LEMMA RunEnds ==
  ASSUME NEW x \in Seq(Letters), NEW Ends, Ends \subseteq 1..Len(x)
  PROVE  \E n \in 0..Len(x) : /\ \A i \in 1..n : i \notin Ends
                              /\ n = Len(x) \/ n + 1 \in Ends
<1>1. Len(x) \in Nat
  BY LenProperties
<1>2. CASE Ends = {}
  BY <1>1, <1>2
<1>3. CASE Ends # {}
  <2>0. Ends \subseteq Nat
    BY <1>1
  <2>1. PICK k \in Ends : \A m \in Ends : k <= m
    BY <1>3, <2>0, Least
  <2>2. k \in 1..Len(x) /\ k - 1 \in 0..Len(x) /\ (k - 1) + 1 = k
    BY <1>1
  <2>3. \A i \in 1..(k - 1) : i \notin Ends
    BY <2>1, <2>2
  <2> QED BY <2>1, <2>2, <2>3
<1> QED BY <1>2, <1>3

LEMMA FirstRight ==
  ASSUME NEW x \in Seq(Letters), NEW c
  PROVE  First(x, c) \in 0..Len(x)
<1> DEFINE Ends == {i \in 1..Len(x) : x[i] = c}
           P(n) == /\ \A i \in 1..n : x[i] # c
                   /\ n = Len(x) \/ x[n + 1] = c
<1>1. Len(x) \in Nat /\ Ends \subseteq 1..Len(x)
  BY LenProperties
<1>2. PICK n \in 0..Len(x) : /\ \A i \in 1..n : i \notin Ends
                             /\ n = Len(x) \/ n + 1 \in Ends
  BY <1>1, RunEnds
<1>3. P(n)
  BY <1>1, <1>2
<1>4. First(x, c) = CHOOSE m \in 0..Len(x) : P(m)
  BY DEF First
<1> HIDE DEF P
<1> QED BY <1>3, <1>4

LEMMA LeadingRight ==
  ASSUME NEW x \in Seq(Letters), NEW c
  PROVE  Leading(x, c) \in 0..Len(x) /\ \A i \in 1..Leading(x, c) : x[i] = c
<1> DEFINE Ends == {i \in 1..Len(x) : x[i] # c}
           P(n) == /\ \A i \in 1..n : x[i] = c
                   /\ n = Len(x) \/ x[n + 1] # c
<1>1. Len(x) \in Nat /\ Ends \subseteq 1..Len(x)
  BY LenProperties
<1>2. PICK n \in 0..Len(x) : /\ \A i \in 1..n : i \notin Ends
                             /\ n = Len(x) \/ n + 1 \in Ends
  BY <1>1, RunEnds
<1>3. P(n)
  BY <1>1, <1>2
<1>4. Leading(x, c) = CHOOSE m \in 0..Len(x) : P(m)
  BY DEF Leading
<1> HIDE DEF P
<1>5. Leading(x, c) \in 0..Len(x) /\ P(Leading(x, c))
  BY <1>3, <1>4
<1> QED BY <1>5 DEF P

LEMMA CutProper ==
  ASSUME TypeInv, Sound, NEW s \in Strings, NEW n \in 0..Len(Text(s)), n < Len(Text(s))
  PROVE  Proper(Op("TruncateAtFirst", s, Larger(1, n), <<>>, n))
<1> DEFINE op == Op("TruncateAtFirst", s, Larger(1, n), <<>>, n)
           x == Text(s)
<1>1. op.s = s /\ op.name = "TruncateAtFirst" /\ op.size = Larger(1, n) /\ op.cut = n
  BY DEF Op
<1> HIDE DEF op
<1>2. /\ x \in Seq(Letters) /\ Length(s) \in 0..MaxLen /\ MaxLen \in Nat \ {0}
      /\ Len(x) \in Nat /\ Len(x) <= Length(s)
  BY TextFits
<1>3. n \in 0..Len(x) /\ n < Len(x)
  OBVIOUS
<1> HIDE DEF x
<1>4. NewText(op, x) = SubSeq(x, 1, n)
  BY <1>1, <1>2, <1>3 DEF NewText, Smaller
<1>5. SubSeq(x, 1, n) \in Seq(Letters) /\ Len(SubSeq(x, 1, n)) = n
  BY <1>2, <1>3, PrefixFits
<1>6. \A l \in 0..MaxLen : NewLen(op, l) = IF n < l THEN n ELSE l
  BY <1>1 DEF NewLen, Smaller
<1>7. Enough(op)
  BY <1>1, <1>2, <1>3 DEF Enough, Larger
<1>8. \A l \in 0..MaxLen : Len(x) <= l => Fits(op, l, x)
  BY <1>2, <1>3, <1>4, <1>5, <1>6 DEF Fits
<1>9. SubSeq(x, 1, n) \in Made(x)
  BY <1>3 DEF Made, Values!Prefixes
<1>10. Len(x) \in 0..MaxLen
  BY <1>2
<1>11. Proper(op)
  BY <1>1, <1>2, <1>4, <1>7, <1>8, <1>9, <1>10 DEF Proper, Ready, x
<1> QED BY <1>11 DEF op

LEMMA TrimProper ==
  ASSUME TypeInv, Sound, NEW s \in Strings, NEW n \in 0..Len(Text(s)),
         NEW c, \A i \in 1..n : Text(s)[i] = c
  PROVE  Proper(Op("TrimLeft", s, 0, <<>>, Length(s) - n))
<1> DEFINE op == Op("TrimLeft", s, 0, <<>>, Length(s) - n)
           x == Text(s)
           k == Length(s)
<1>1. /\ op.s = s /\ op.name = "TrimLeft" /\ op.size = 0
      /\ op.was = k /\ op.cut = k - n
  BY DEF Op
<1> HIDE DEF op
<1>2. /\ x \in Seq(Letters) /\ k \in 0..MaxLen /\ MaxLen \in Nat \ {0}
      /\ Len(x) \in Nat /\ Len(x) <= k
  BY TextFits
<1>3. n \in 0..Len(x) /\ \A i \in 1..n : x[i] = c
  OBVIOUS
<1> HIDE DEF x, k
<1>4. NewText(op, x) = SubSeq(x, n + 1, Len(x))
  <2>1. op.was - op.cut = n
    BY <1>1, <1>2, <1>3
  <2> QED BY <1>1, <2>1 DEF NewText
<1>5. SubSeq(x, n + 1, Len(x)) \in Seq(Letters) /\ Len(SubSeq(x, n + 1, Len(x))) = Len(x) - n
  BY <1>2, <1>3, PrefixFits
<1>6. \A l \in 0..MaxLen : NewLen(op, l) = IF k - n < l THEN k - n ELSE l
  BY <1>1 DEF NewLen, Smaller
<1>7. Enough(op)
  BY <1>1 DEF Enough
<1>8. \A l \in 0..MaxLen : Flaw(op, l, x) = {} => ~(k > l)
  BY <1>1 DEF Flaw
<1>9. \A l \in 0..MaxLen : Fits(op, l, x)
  BY <1>2, <1>3, <1>4, <1>5, <1>6, <1>8 DEF Fits
<1>10. SubSeq(x, n + 1, Len(x)) \in Made(x)
  <2>1. \A i \in 1..n : x[i] = x[1]
    BY <1>2, <1>3
  <2> QED BY <1>3, <2>1 DEF Made, Values!Trimmed
<1>11. Len(x) \in 0..MaxLen
  BY <1>2
<1>12. Proper(op)
  BY <1>1, <1>2, <1>4, <1>7, <1>9, <1>10, <1>11 DEF Proper, Ready, x, k
<1> QED BY <1>12 DEF op, k

LEMMA ExtendProper ==
  ASSUME TypeInv, Sound, NEW s \in Strings, NEW y \in Seq(Letters), NEW n \in Nat,
         Len(y) <= n, Length(s) + n <= MaxLen
  PROVE  LET total == Length(s) + n
         IN  Proper(Op("Concatenate", s, Larger(1, total), y, total))
<1> DEFINE k == Length(s)
           total == k + n
           op == Op("Concatenate", s, Larger(1, total), y, total)
           x == Text(s)
<1>1. /\ op.s = s /\ op.name = "Concatenate" /\ op.size = Larger(1, total)
      /\ op.was = k /\ op.cut = total /\ op.x = y
  BY DEF Op
<1> HIDE DEF op
<1>2. /\ x \in Seq(Letters) /\ k \in 0..MaxLen /\ MaxLen \in Nat \ {0}
      /\ Len(x) \in Nat /\ Len(x) <= k
  BY TextFits
<1>3. total \in 0..MaxLen /\ total = k + n /\ k + n <= MaxLen
  BY <1>2
<1>y. Len(y) \in Nat /\ Len(y) <= n /\ y \in Seq(Letters) /\ n \in Nat
  BY LenProperties
<1>4. op.size \in 1..MaxLen /\ op.size >= total /\ (total > 0 => op.size = total)
  BY <1>1, <1>2, <1>3 DEF Larger
<1>5. NewText(op, x) = IF Len(x) = k THEN x \o y ELSE x
  BY <1>1 DEF NewText
<1>6. x \o y \in Seq(Letters) /\ Len(x \o y) = Len(x) + Len(y)
  BY <1>2, <1>y, ConcatProperties
<1> HIDE DEF x, k, total
<1>7. NewText(op, x) \in Seq(Letters)
  BY <1>2, <1>5, <1>6
<1>8. \A l \in 0..MaxLen : NewLen(op, l) = IF total < l THEN total ELSE l
  BY <1>1 DEF NewLen, Smaller
<1>9. \A l \in 0..MaxLen : NewLen(op, l) \in 0..MaxLen
  BY <1>3, <1>8
<1>10. ASSUME ~Enough(op) PROVE Fits(op, op.size, x)
  <2>1. op.size \in 0..MaxLen /\ NewLen(op, op.size) = total
    BY <1>2, <1>3, <1>4, <1>8
  <2>2. Len(NewText(op, x)) <= total
    BY <1>2, <1>3, <1>y, <1>5, <1>6
  <2> QED BY <2>1, <2>2, <1>7, <1>9 DEF Fits
<1>11. ASSUME Enough(op) PROVE Fits(op, k, x) /\ Ready(op, x)
  <2>1. k >= op.size
    BY <1>11, <1>1, <1>4 DEF Enough, k
  <2>2. n = 0 /\ total = k
    BY <2>1, <1>2, <1>3, <1>4, <1>y
  <2>3. y = <<>>
    BY <2>2, <1>y, EmptySeq
  <2>4. NewText(op, x) = x
    BY <2>3, <1>2, <1>5, ConcatEmptySeq
  <2>5. ASSUME NEW l \in 0..MaxLen, Len(x) <= l PROVE Fits(op, l, x)
    <3>1. Len(x) <= NewLen(op, l)
      BY <2>2, <2>5, <1>2, <1>8
    <3> QED BY <3>1, <2>4, <1>7, <1>9 DEF Fits
  <2>6. x \in Made(x)
    BY DEF Made
  <2>7. Len(x) \in 0..MaxLen
    BY <1>2
  <2> QED BY <2>4, <2>5, <2>6, <2>7, <1>2 DEF Ready
<1>12. Proper(op)
  BY <1>1, <1>10, <1>11 DEF Proper, x, k
<1> QED BY <1>12 DEF op, total, k

-----------------------------------------------------------------------------
(* Each operation keeps the types. *)

LEMMA FlawKnown ==
  ASSUME NEW op, NEW l, NEW x, NEW b
  PROVE  Flaw(op, l, x) \subseteq Flaws /\ Freed(b) \subseteq Flaws
<1>1. Flaw(op, l, x) \in {{"overflow"}, {"stale length"}, {}}
  BY DEF Flaw
<1> QED BY <1>1 DEF Freed, Flaws

(* A body of one's own can be written. *)
LEMMA FreshPrivate ==
  ASSUME NEW s, NEW b \in Fresh
  PROVE  b \in Bodies /\ Private(s, b)
BY DEF Fresh, Private

LEMMA QuietOne ==
  ASSUME HeapOK, NEW s, NEW b \in Bodies, NEW x, Private(s, b) \/ text[b] = x,
         text' = [text EXCEPT ![b] = x]
  PROVE  Quiet(s)
BY DEF Quiet, HeapOK

(* What a type-correct step of a String at rest shows of itself *)
Typed(s) == /\ HeapOK' /\ NullOK'
            /\ flaws' = {} => Quiet(s)

LEMMA GrownTyped ==
  ASSUME TypeInv, Sound, NEW op, Proper(op), WriteGrown(op)
  PROVE  Typed(op.s)
<1> DEFINE n == NewLen(op, op.size)
           x == NewText(op, Text(op.s))
<1>1. PICK b \in Fresh : NewBody(op.s, b, n, x) /\ Left(op.s)
  BY DEF WriteGrown
<1>2. Fits(op, op.size, Text(op.s))
  BY DEF Proper, WriteGrown
<1>3. /\ flaws' = flaws \cup Flaw(op, op.size, Text(op.s))
      /\ nullRefs' = nullRefs
  BY DEF WriteGrown
<1>4. flaws' \subseteq Flaws /\ (flaws' = {} => Len(x) <= n)
  BY <1>2, <1>3, FlawKnown DEF Fits, TypeInv, HeapOK
<1>5. n \in 0..MaxLen /\ x \in Seq(Letters)
  BY <1>2 DEF Fits
<1>6. b \in Bodies /\ Private(op.s, b)
  BY FreshPrivate
<1>7. leaked' \in [Bodies -> Nat]
  BY <1>1 DEF Left, TypeInv, HeapOK
<1>8. len' = [len EXCEPT ![b] = n] /\ text' = [text EXCEPT ![b] = x]
  BY <1>1 DEF NewBody
<1> HIDE DEF n, x
<1>9. HeapOK'
  BY <1>4, <1>5, <1>6, <1>7, <1>8, HeapChanged DEF TypeInv
<1>10. Quiet(op.s)
  BY <1>6, <1>8, QuietOne DEF TypeInv
<1>11. NullOK'
  BY <1>3 DEF TypeInv, NullOK, Sound
<1> QED BY <1>9, <1>10, <1>11 DEF Typed

LEMMA InPlaceTyped ==
  ASSUME TypeInv, Sound, NEW op, Proper(op), WriteInPlace(op)
  PROVE  Typed(op.s)
<1> DEFINE b == handle[op.s]
           n == NewLen(op, len[b])
           x == NewText(op, text[b])
<1>1. op.s \in Strings /\ b \in Bodies /\ Owners(b) = {op.s} /\ b # Null
  BY AloneOwner DEF Proper, WriteInPlace, Alone
<1>2. Text(op.s) = text[b] /\ Length(op.s) = len[b]
  BY <1>1 DEF Text, Length
<1>3. Fits(op, len[b], text[b])
  BY <1>2 DEF Proper, WriteInPlace
<1>4. /\ flaws' = flaws \cup Flaw(op, len[b], text[b])
                   \cup (IF Copying(b) /\ x # text[b] THEN {"shared change"} ELSE {})
      /\ nullRefs' = nullRefs /\ leaked' = leaked
      /\ len' = [len EXCEPT ![b] = n] /\ text' = [text EXCEPT ![b] = x]
  BY DEF WriteInPlace
<1>5. n \in 0..MaxLen /\ x \in Seq(Letters) /\ (flaws' = {} => Len(x) <= n)
  BY <1>3, <1>4 DEF Fits
<1>6. flaws' \subseteq Flaws
  <2>1. Flaw(op, len[b], text[b]) \subseteq Flaws
    BY FlawKnown
  <2> QED BY <2>1, <1>4 DEF TypeInv, HeapOK, Flaws
<1>7. flaws' = {} => Private(op.s, b) \/ text[b] = x
  BY <1>1, <1>4 DEF Private
<1> HIDE DEF n, x, b
<1>8. HeapOK'
  BY <1>1, <1>4, <1>5, <1>6, HeapChanged DEF TypeInv, HeapOK
<1>9. flaws' = {} => Quiet(op.s)
  BY <1>1, <1>4, <1>7, QuietOne DEF TypeInv
<1>10. NullOK'
  BY <1>4 DEF TypeInv, NullOK, Sound
<1> QED BY <1>8, <1>9, <1>10 DEF Typed

LEMMA EmptyTyped ==
  ASSUME TypeInv, Sound, NEW op, WriteEmpty(op)
  PROVE  Typed(op.s)
<1>1. PICK b \in Fresh : NewBody(op.s, b, 0, <<>>) /\ leaked' = [leaked EXCEPT ![b] = 0]
  BY DEF WriteEmpty
<1>2. flaws' = flaws \cup {"no end"} /\ nullRefs' = nullRefs
  BY DEF WriteEmpty
<1>3. b \in Bodies
  BY FreshPrivate
<1>4. /\ len' = [len EXCEPT ![b] = 0] /\ text' = [text EXCEPT ![b] = <<>>]
      /\ leaked' \in [Bodies -> Nat] /\ flaws' \subseteq Flaws /\ flaws' # {}
      /\ 0 \in 0..MaxLen /\ <<>> \in Seq(Letters)
  <2>1. len' = [len EXCEPT ![b] = 0] /\ text' = [text EXCEPT ![b] = <<>>]
    BY <1>1 DEF NewBody
  <2>2. leaked' \in [Bodies -> Nat]
    BY <1>1 DEF TypeInv, HeapOK
  <2>3. flaws' \subseteq Flaws /\ flaws' # {}
    BY <1>2 DEF TypeInv, HeapOK, Flaws
  <2>4. 0 \in 0..MaxLen /\ <<>> \in Seq(Letters)
    BY StringAssumption
  <2> QED BY <2>1, <2>2, <2>3, <2>4
<1>5. HeapOK'
  BY <1>3, <1>4, HeapChanged DEF TypeInv
<1> QED BY <1>2, <1>4, <1>5 DEF Typed, TypeInv, NullOK, Sound

LEMMA SharedPends ==
  ASSUME TypeInv, Sound, NEW op, Ready([op EXCEPT !.size = 0], Text(op.s)),
         op.s \in Strings, [op EXCEPT !.size = 0].s = op.s, WriteShared(op)
  PROVE  HeapOK' /\ NullOK' /\ PendingOK' /\ Quiet(op.s)
<1> DEFINE b == handle[op.s]
           og == [op EXCEPT !.size = 0]
           c == [at |-> "drop", op |-> og, old |-> b]
           u == Owner[op.s]
<1>1. /\ cow' = [cow EXCEPT ![u] = c] /\ u \in Threads
      /\ UNCHANGED <<handle, refs, leaked, len, text, nullRefs, flaws>>
  BY StringAssumption DEF WriteShared, heap
<1>2. b \in Bodies /\ Text(op.s) = text[b]
  BY DEF WriteShared, Text, TypeInv, RefsInv, CountsOK
<1>3. Ready(og, text[b]) /\ og.s = op.s
  BY <1>2
<1>4. HeapOK' /\ NullOK' /\ Quiet(op.s)
  BY <1>1 DEF TypeInv, HeapOK, NullOK, Quiet
<1>5. c.at = "drop" /\ c.op = og /\ c.old = b
  OBVIOUS
<1> HIDE DEF b, og, c, u
<1>6. ASSUME NEW t \in Threads, cow'[t].at # "no"
      PROVE  /\ cow'[t].old \in Bodies
             /\ cow'[t].at = "drop" => handle'[cow'[t].op.s] = cow'[t].old
             /\ flaws' = {} => Ready(cow'[t].op, text'[cow'[t].old])
  <2>1. CASE t = u
    <3>1. cow'[t] = c
      BY <1>1, <2>1 DEF TypeInv, RefsInv, CowOK
    <3> QED BY <3>1, <1>1, <1>2, <1>3, <1>5 DEF b
  <2>2. CASE t # u
    <3>1. cow'[t] = cow[t]
      BY <1>1, <2>2 DEF TypeInv, RefsInv, CowOK
    <3> QED BY <3>1, <1>1, <1>6 DEF TypeInv, PendingOK
  <2> QED BY <2>1, <2>2
<1>7. PendingOK'
  BY <1>6 DEF PendingOK, Ready, Fits, Made
<1> QED BY <1>4, <1>7

LEMMA WriteTyped ==
  ASSUME TypeInv, Sound, NEW s \in Strings, NEW name, NEW size, NEW x, NEW cut,
         Proper(Op(name, s, size, x, cut)), Write(Op(name, s, size, x, cut))
  PROVE  TypeInv'
<1> DEFINE op == Op(name, s, size, x, cut)
           og == [op EXCEPT !.size = 0]
<1>1. op.s = s /\ og.s = op.s /\ Write(op) /\ Proper(op)
  BY DEF Op
<1>2. Ready(op, Text(s)) => Ready(og, Text(s))
  BY SizeGone
<1>3. RefsInv'
  BY WriteKeeps DEF TypeInv
<1> HIDE DEF op, og
<1>4. CASE WriteShared(op)
  <2>1. Ready(og, Text(s))
    BY <1>1, <1>2, <1>4 DEF Proper, WriteShared
  <2> QED BY <1>1, <1>3, <1>4, <2>1, SharedPends DEF TypeInv, og
<1>5. CASE ~WriteShared(op)
  <2>1. WriteGrown(op) \/ WriteInPlace(op) \/ WriteEmpty(op)
    BY <1>1, <1>5 DEF Write
  <2>2. Typed(s)
    BY <1>1, <2>1, GrownTyped, InPlaceTyped, EmptyTyped
  <2>3. cow' = cow /\ ~Busy(s)
    BY <1>1, <2>1 DEF Write, WriteGrown, WriteInPlace, WriteEmpty
  <2>4. handle' = handle \/ \E b : handle' = [handle EXCEPT ![s] = b]
    BY <1>1, <2>1 DEF WriteGrown, WriteInPlace, WriteEmpty, NewBody
  <2>5. PendingOK'
    BY <2>2, <2>3, <2>4, PendingStays DEF Typed
  <2> QED BY <1>3, <2>2, <2>5 DEF TypeInv, Typed
<1> QED BY <1>4, <1>5

LEMMA TruncateTyped ==
  ASSUME TypeInv, Sound, NEW s \in Strings, NEW n \in Nat, Truncate(s, n)
  PROVE  Typed(s)
<1> DEFINE b == handle[s]
           m == Smaller(Len(text[b]), n)
           x == SubSeq(text[b], 1, m)
           l == Smaller(len[b], n)
<1>1. b \in Bodies
  BY DEF Truncate, TypeInv, RefsInv, CountsOK
<1>2. /\ len' = [len EXCEPT ![b] = l] /\ text' = [text EXCEPT ![b] = x]
      /\ leaked' = leaked /\ nullRefs' = nullRefs
      /\ flaws' = flaws \cup IF n < Len(text[b]) /\ (Shared(s) \/ Copying(b))
                             THEN {"shared change"} ELSE {}
  BY DEF Truncate
<1>3. text[b] \in Seq(Letters) /\ Len(text[b]) \in Nat /\ len[b] \in 0..MaxLen /\ Len(text[b]) <= len[b]
  BY <1>1, LenProperties DEF TypeInv, HeapOK, Sound
<1>4. m \in 0..Len(text[b]) /\ l \in 0..MaxLen /\ m <= l /\ MaxLen \in Nat
  BY <1>3, StringAssumption DEF Smaller
<1>5. x \in Seq(Letters) /\ Len(x) = m
  BY <1>3, <1>4, PrefixFits
<1>6. flaws' \subseteq Flaws
  BY <1>2 DEF TypeInv, HeapOK, Flaws
<1>7. flaws' = {} => Private(s, b) \/ text[b] = x
  <2>1. CASE n < Len(text[b]) /\ (Shared(s) \/ Copying(b))
    BY <2>1, <1>2
  <2>2. CASE ~Shared(s) /\ ~Copying(b)
    <3>1. Alone(s)
      BY <2>2 DEF Alone, Truncate
    <3>2. Owners(b) = {s}
      BY <3>1, AloneOwner
    <3> QED BY <3>2, <2>2 DEF Private
  <2>3. CASE ~(n < Len(text[b]))
    <3>1. m = Len(text[b])
      BY <2>3, <1>3 DEF Smaller
    <3>2. x = text[b]
      BY <3>1, <1>3
    <3> QED BY <3>2
  <2> QED BY <2>1, <2>2, <2>3
<1> HIDE DEF b, m, x, l
<1>8. HeapOK'
  BY <1>1, <1>2, <1>4, <1>5, <1>6, HeapChanged DEF TypeInv, HeapOK
<1>9. flaws' = {} => Quiet(s)
  BY <1>1, <1>2, <1>7, QuietOne DEF TypeInv
<1>10. NullOK'
  BY <1>2 DEF TypeInv, NullOK, Sound
<1> QED BY <1>8, <1>9, <1>10 DEF Typed

LEMMA ReallocTyped ==
  ASSUME TypeInv, Sound, NEW s \in Strings, NEW n \in 0..MaxLen, Realloc(s, n)
  PROVE  Typed(s)
<1> DEFINE y == Text(s)
           m == Smaller(n, Len(y))
           x == SubSeq(y, 1, m)
<1>1. PICK b \in Fresh : NewBody(s, b, n, x) /\ Left(s)
  BY DEF Realloc
<1>2. nullRefs' = nullRefs /\ flaws' = flaws
  BY DEF Realloc
<1>3. y \in Seq(Letters) /\ Len(y) \in Nat
  BY TextFits
<1>4. m \in 0..Len(y) /\ m <= n
  BY <1>3 DEF Smaller
<1>5. x \in Seq(Letters) /\ Len(x) = m
  BY <1>3, <1>4, PrefixFits
<1>6. b \in Bodies /\ Private(s, b)
  BY FreshPrivate
<1>7. leaked' \in [Bodies -> Nat] /\ flaws' \subseteq Flaws
  BY <1>1, <1>2 DEF Left, TypeInv, HeapOK
<1>8. len' = [len EXCEPT ![b] = n] /\ text' = [text EXCEPT ![b] = x]
  BY <1>1 DEF NewBody
<1> HIDE DEF x, m, y
<1>9. HeapOK'
  BY <1>4, <1>5, <1>6, <1>7, <1>8, HeapChanged DEF TypeInv
<1>10. Quiet(s)
  BY <1>6, <1>8, QuietOne DEF TypeInv
<1> QED BY <1>2, <1>9, <1>10 DEF Typed, TypeInv, NullOK, Sound

LEMMA ConstructTyped ==
  ASSUME TypeInv, Sound, NEW s \in Strings, NEW x \in Inputs, Construct(s, x)
  PROVE  Typed(s)
<1>1. PICK b \in Fresh : NewBody(s, b, Len(x), x) /\ leaked' = [leaked EXCEPT ![b] = 0]
  BY DEF Construct
<1>2. nullRefs' = nullRefs /\ flaws' = flaws
  BY DEF Construct
<1>3. x \in Seq(Letters) /\ Len(x) \in 0..MaxLen
  BY StringAssumption, LenProperties
<1>4. b \in Bodies /\ Private(s, b)
  BY FreshPrivate
<1>5. leaked' \in [Bodies -> Nat] /\ flaws' \subseteq Flaws
  BY <1>1, <1>2 DEF TypeInv, HeapOK
<1>6. len' = [len EXCEPT ![b] = Len(x)] /\ text' = [text EXCEPT ![b] = x]
  BY <1>1 DEF NewBody
<1> DEFINE n == Len(x)
<1>7. HeapOK'
  <2>1. n \in 0..MaxLen /\ len' = [len EXCEPT ![b] = n] /\ Len(x) <= n
    BY <1>3, <1>6
  <2> HIDE DEF n
  <2> QED BY <2>1, <1>3, <1>4, <1>5, <1>6, HeapChanged DEF TypeInv
<1>8. Quiet(s)
  BY <1>4, <1>6, QuietOne DEF TypeInv
<1> QED BY <1>2, <1>7, <1>8 DEF Typed, TypeInv, NullOK, Sound

(* Letting go of a body frees no text that is looked at: a freed one is a  *)
(* flaw, and nullstr is freed with one reference too few.                  *)
LEMMA LetGoTyped ==
  ASSUME TypeInv, Sound, NEW s \in Strings, NEW b,
         nullRefs' = IF b = Null THEN nullRefs - 1 ELSE nullRefs,
         flaws' = flaws \cup Freed(b), UNCHANGED <<leaked, len, text>>
  PROVE  Typed(s)
<1>1. flaws' \subseteq Flaws
  <2>1. Freed(b) \subseteq Flaws
    BY FlawKnown
  <2> QED BY <2>1 DEF TypeInv, HeapOK
<1>2. HeapOK'
  BY <1>1 DEF TypeInv, HeapOK, Sound
<1>3. NullOK'
  <2>1. nullRefs \in 0..NullRefs /\ nullRefs > 0 /\ NullRefs \in Nat
    BY StringAssumption DEF TypeInv, NullOK, Sound
  <2>2. b = Null /\ nullRefs = 1 => flaws' # {}
    BY DEF Freed
  <2> QED BY <2>1, <2>2 DEF NullOK
<1> QED BY <1>2, <1>3 DEF Typed, Quiet

(* A step of one thread's String leaves what the others' CopyOnWrites need. *)
LEMMA OthersPend ==
  ASSUME TypeInv, Sound, NEW s \in Strings, NEW new, NEW u \in Threads, u # Owner[s],
         cow[u].at # "no", handle' = [handle EXCEPT ![s] = new],
         flaws' = {} => Quiet(s)
  PROVE  /\ cow[u].old \in Bodies
         /\ cow[u].at = "drop" => handle'[cow[u].op.s] = cow[u].old
         /\ flaws' = {} => Ready(cow[u].op, text'[cow[u].old])
<1>1. /\ cow[u].old \in Bodies
      /\ cow[u].at = "drop" => handle[cow[u].op.s] = cow[u].old
      /\ Ready(cow[u].op, text[cow[u].old])
  BY DEF TypeInv, PendingOK, Sound
<1>2. cow[u].op.s \in Strings /\ Owner[cow[u].op.s] = u /\ cow[u] # Idle
  BY DEF TypeInv, RefsInv, CowOK, Idle
<1>3. cow[u].op.s # s
  BY <1>2
<1>4. flaws' = {} => text'[cow[u].old] = text[cow[u].old]
  BY <1>1, <1>2 DEF Quiet, Private, Copying
<1>5. handle'[cow[u].op.s] = handle[cow[u].op.s]
  BY <1>2, <1>3 DEF TypeInv, RefsInv, CountsOK
<1> QED BY <1>1, <1>4, <1>5

LEMMA CowDropsTyped ==
  ASSUME TypeInv, Sound, NEW t \in Threads, CowDrops(t)
  PROVE  TypeInv' /\ Typed(cow[t].op.s)
<1> DEFINE s == cow[t].op.s
<1>1. s \in Strings /\ cow[t].at = "drop" /\ Owner[s] = t
  BY DEF CowDrops, TypeInv, RefsInv, CowOK
<1>2. /\ Drop(s) /\ UNCHANGED <<leaked, len, text>>
      /\ cow' = [cow EXCEPT ![t] = [cow[t] EXCEPT !.at = "copy"]]
  BY DEF CowDrops
<1>3. Typed(s)
  BY <1>1, <1>2, LetGoTyped DEF Drop, Uncounted
<1>4. cow'[t] = [at |-> "copy", op |-> cow[t].op, old |-> cow[t].old]
      /\ \A u \in Threads : u # t => cow'[u] = cow[u]
  BY <1>2 DEF TypeInv, RefsInv, CowOK
<1>5. handle' = [handle EXCEPT ![s] = Null]
  BY <1>2 DEF Drop
<1> HIDE DEF s
<1>6. ASSUME NEW u \in Threads, cow'[u].at # "no"
      PROVE  /\ cow'[u].old \in Bodies
             /\ cow'[u].at = "drop" => handle'[cow'[u].op.s] = cow'[u].old
             /\ flaws' = {} => Ready(cow'[u].op, text'[cow'[u].old])
  <2>1. CASE u = t
    <3>1. cow[t].old \in Bodies /\ Ready(cow[t].op, text[cow[t].old])
      BY <1>1 DEF TypeInv, PendingOK, Sound
    <3>2. text' = text
      BY <1>2
    <3> QED BY <2>1, <3>1, <3>2, <1>4
  <2>2. CASE u # t
    <3>1. cow'[u] = cow[u]
      BY <2>2, <1>4
    <3>2. flaws' = {} => Quiet(s)
      BY <1>3 DEF Typed
    <3> QED BY <3>1, <3>2, <1>1, <1>5, <1>6, <2>2, OthersPend
  <2> QED BY <2>1, <2>2
<1>7. PendingOK'
  BY <1>6 DEF PendingOK, Ready, Fits, Made
<1>8. RefsInv'
  BY CowDropsKeeps DEF TypeInv
<1> QED BY <1>3, <1>7, <1>8 DEF TypeInv, Typed, s

LEMMA CowCopiesTyped ==
  ASSUME TypeInv, Sound, NEW t \in Threads, CowCopies(t)
  PROVE  TypeInv' /\ Typed(cow[t].op.s)
<1> DEFINE op == cow[t].op
           s == cow[t].op.s
           x == text[cow[t].old]
           n == NewLen(op, Len(x))
           y == NewText(op, x)
<1>1. /\ s \in Strings /\ cow[t].at = "copy" /\ Owner[s] = t
      /\ cow[t].old \in Bodies /\ Ready(op, x)
  BY DEF CowCopies, TypeInv, RefsInv, CowOK, PendingOK, Sound
<1>2. PICK b \in Fresh : NewBody(s, b, n, y) /\ leaked' = [leaked EXCEPT ![b] = 0]
  BY DEF CowCopies
<1>3. /\ flaws' = flaws \cup Flaw(op, Len(x), x) /\ nullRefs' = nullRefs
      /\ cow' = [cow EXCEPT ![t] = Idle]
  BY DEF CowCopies
<1>4. n \in 0..MaxLen /\ y \in Seq(Letters) /\ (flaws' = {} => Len(y) <= n)
  BY <1>1, <1>3 DEF Ready, Fits
<1>5. flaws' \subseteq Flaws /\ leaked' \in [Bodies -> Nat]
  BY <1>2, <1>3, FlawKnown DEF TypeInv, HeapOK
<1>6. b \in Bodies /\ Private(s, b)
  BY FreshPrivate
<1>7. /\ len' = [len EXCEPT ![b] = n] /\ text' = [text EXCEPT ![b] = y]
      /\ handle' = [handle EXCEPT ![s] = b]
  BY <1>2 DEF NewBody
<1>8. cow'[t].at = "no" /\ \A u \in Threads : u # t => cow'[u] = cow[u]
  BY <1>3 DEF Idle, TypeInv, RefsInv, CowOK
<1> HIDE DEF n, y, x, s, op
<1>9. HeapOK'
  BY <1>4, <1>5, <1>6, <1>7, HeapChanged DEF TypeInv
<1>10. Quiet(s)
  BY <1>6, <1>7, QuietOne DEF TypeInv
<1>11. ASSUME NEW u \in Threads, cow'[u].at # "no"
       PROVE  /\ cow'[u].old \in Bodies
              /\ cow'[u].at = "drop" => handle'[cow'[u].op.s] = cow'[u].old
              /\ flaws' = {} => Ready(cow'[u].op, text'[cow'[u].old])
  <2>1. u # t /\ cow'[u] = cow[u]
    BY <1>8, <1>11
  <2> QED BY <2>1, <1>1, <1>7, <1>10, <1>11, OthersPend
<1>12. PendingOK'
  BY <1>11 DEF PendingOK, Ready, Fits, Made
<1>13. NullOK'
  BY <1>3 DEF TypeInv, NullOK, Sound
<1>14. RefsInv'
  BY CowCopiesKeeps DEF TypeInv
<1> QED BY <1>9, <1>10, <1>12, <1>13, <1>14 DEF TypeInv, Typed, s

(* An operation in one step: quiet, at rest, and it moves one handle. *)
LEMMA AtRestTyped ==
  ASSUME TypeInv, Sound, NEW s \in Strings, NEW new, ~Busy(s), cow' = cow, Typed(s), RefsInv',
         handle' = handle \/ handle' = [handle EXCEPT ![s] = new]
  PROVE  TypeInv'
<1>1. PendingOK'
  BY PendingStays DEF Typed
<1> QED BY <1>1 DEF TypeInv, Typed

LEMMA PlainTyped ==
  ASSUME TypeInv, Sound, NEW s \in Strings
  PROVE  /\ Destroy(s) => TypeInv' /\ Typed(s)
         /\ \A n \in Nat : Truncate(s, n) => TypeInv' /\ Typed(s)
         /\ \A n \in 0..MaxLen : Realloc(s, n) => TypeInv' /\ Typed(s)
         /\ \A x \in Inputs : Construct(s, x) => TypeInv' /\ Typed(s)
         /\ \A from \in Strings : Copy(s, from) \/ Assign(s, from) => TypeInv' /\ Typed(s)
<1>1. ASSUME Destroy(s) PROVE TypeInv' /\ Typed(s)
  <2>1. Typed(s)
    BY <1>1, LetGoTyped DEF Destroy, Drop, Uncounted
  <2>2. RefsInv'
    BY <1>1, DestroyKeeps DEF TypeInv
  <2> QED BY <1>1, <2>1, <2>2, AtRestTyped DEF Destroy, Drop
<1>2. ASSUME NEW n \in Nat, Truncate(s, n) PROVE TypeInv' /\ Typed(s)
  <2>1. Typed(s) /\ RefsInv'
    BY <1>2, TruncateTyped, TruncateKeeps DEF TypeInv
  <2> QED BY <1>2, <2>1, AtRestTyped DEF Truncate
<1>3. ASSUME NEW n \in 0..MaxLen, Realloc(s, n) PROVE TypeInv' /\ Typed(s)
  <2>1. Typed(s) /\ RefsInv'
    BY <1>3, ReallocTyped, ReallocKeeps DEF TypeInv
  <2> QED BY <1>3, <2>1, AtRestTyped DEF Realloc, NewBody
<1>4. ASSUME NEW x \in Inputs, Construct(s, x) PROVE TypeInv' /\ Typed(s)
  <2>1. Typed(s) /\ RefsInv'
    BY <1>4, ConstructTyped, ConstructKeeps DEF TypeInv
  <2> QED BY <1>4, <2>1, AtRestTyped DEF Construct, NewBody
<1>5. ASSUME NEW from \in Strings, Copy(s, from) PROVE TypeInv' /\ Typed(s)
  <2>1. Typed(s)
    BY <1>5 DEF Copy, Typed, Quiet, TypeInv, HeapOK, NullOK
  <2>2. RefsInv'
    BY <1>5, CopyKeeps DEF TypeInv
  <2> QED BY <1>5, <2>1, <2>2, AtRestTyped DEF Copy
<1>6. ASSUME NEW from \in Strings, Assign(s, from) PROVE TypeInv' /\ Typed(s)
  <2>1. Typed(s)
    BY <1>6, LetGoTyped DEF Assign
  <2>2. RefsInv'
    BY <1>6, AssignKeeps DEF TypeInv
  <2> QED BY <1>6, <2>1, <2>2, AtRestTyped DEF Assign
<1> QED BY <1>1, <1>2, <1>3, <1>4, <1>5, <1>6

LEMMA OpsProper ==
  ASSUME TypeInv, Sound, NEW s \in Strings
  PROVE  /\ Proper(Op("CopyOnWrite", s, 0, <<>>, Uncut))
         /\ \A n \in 0..MaxLen : Proper(Op("Reserve", s, Larger(1, n), <<>>, Uncut))
         /\ \A x \in Inputs :
              /\ Proper(Op("Swap", s, Larger(1, Len(x)), x, Uncut))
              /\ Proper(Op("Vformat", s, Larger(1, Len(x)), x, Len(x)))
         /\ \A x \in Seq(Letters), n \in Nat :
              Len(x) <= n /\ Length(s) + n <= MaxLen =>
                Proper(Op("Concatenate", s, Larger(1, Length(s) + n), x, Length(s) + n))
         /\ \A c : First(Text(s), c) < Len(Text(s)) =>
              Proper(Op("TruncateAtFirst", s, Larger(1, First(Text(s), c)), <<>>, First(Text(s), c)))
         /\ \A c : Proper(Op("TrimLeft", s, 0, <<>>, Length(s) - Leading(Text(s), c)))
<1>1. MaxLen \in Nat \ {0} /\ Text(s) \in Seq(Letters)
  BY TextFits
<1>2. Proper(Op("CopyOnWrite", s, 0, <<>>, Uncut))
  BY <1>1, KeepProper
<1>3. ASSUME NEW n \in 0..MaxLen PROVE Proper(Op("Reserve", s, Larger(1, n), <<>>, Uncut))
  <2>1. Larger(1, n) \in 0..MaxLen
    BY <1>1 DEF Larger
  <2> QED BY <2>1, KeepProper
<1>4. ASSUME NEW x \in Inputs
      PROVE  /\ Proper(Op("Swap", s, Larger(1, Len(x)), x, Uncut))
             /\ Proper(Op("Vformat", s, Larger(1, Len(x)), x, Len(x)))
  BY InputProper
<1>5. ASSUME NEW x \in Seq(Letters), NEW n \in Nat, Len(x) <= n, Length(s) + n <= MaxLen
      PROVE  Proper(Op("Concatenate", s, Larger(1, Length(s) + n), x, Length(s) + n))
  BY <1>5, ExtendProper
<1>6. ASSUME NEW c, First(Text(s), c) < Len(Text(s))
      PROVE  Proper(Op("TruncateAtFirst", s, Larger(1, First(Text(s), c)), <<>>, First(Text(s), c)))
  BY <1>1, <1>6, FirstRight, CutProper
<1>7. ASSUME NEW c PROVE Proper(Op("TrimLeft", s, 0, <<>>, Length(s) - Leading(Text(s), c)))
  BY <1>1, LeadingRight, TrimProper
<1> QED BY <1>2, <1>3, <1>4, <1>5, <1>6, <1>7

LEMMA ChangeTyped ==
  ASSUME TypeInv, Sound, NEW s \in Strings, Change(s)
  PROVE  TypeInv'
<1>0. /\ MaxLen \in Nat \ {0} /\ Inputs \subseteq Seq(Letters)
      /\ \A x \in Inputs : Len(x) \in Nat
  BY StringAssumption, LenProperties
<1>1. CASE Destroy(s)  BY <1>1, PlainTyped
<1>2. CASE TruncateSelf(s)
  <2>1. Len(Text(s)) \in Nat
    BY TextFits
  <2> QED BY <1>2, <2>1, PlainTyped DEF TruncateSelf
<1>3. CASE CopyOnWrite(s)  BY <1>3, OpsProper, WriteTyped DEF CopyOnWrite
<1>4. ASSUME NEW x \in Inputs,
             Construct(s, x) \/ Swap(s, x) \/ Vformat(s, x) \/ ConcatenateCstr(s, x)
      PROVE  TypeInv'
  <2>1. CASE Construct(s, x)  BY <2>1, PlainTyped
  <2>2. CASE Swap(s, x)  BY <2>2, OpsProper, WriteTyped DEF Swap
  <2>3. CASE Vformat(s, x)  BY <2>3, OpsProper, WriteTyped DEF Vformat
  <2>4. CASE ConcatenateCstr(s, x)
    <3>1. x \in Seq(Letters) /\ Len(x) \in Nat /\ Len(x) <= Len(x)
      BY <1>0
    <3> QED BY <2>4, <3>1, OpsProper, WriteTyped DEF ConcatenateCstr, Extend
  <2> QED BY <1>4, <2>1, <2>2, <2>3, <2>4
<1>5. ASSUME NEW from \in Strings, Copy(s, from) \/ Assign(s, from) \/ Concatenate(s, from)
      PROVE  TypeInv'
  <2>1. CASE Copy(s, from) \/ Assign(s, from)  BY <2>1, PlainTyped
  <2>2. CASE Concatenate(s, from)
    <3>1. Text(from) \in Seq(Letters) /\ Length(from) \in Nat /\ Len(Text(from)) <= Length(from)
      BY <1>0, TextFits
    <3> QED BY <2>2, <3>1, OpsProper, WriteTyped DEF Concatenate, Extend
  <2> QED BY <1>5, <2>1, <2>2
<1>6. ASSUME NEW c \in Letters, TruncateAtFirst(s, c) \/ TrimLeft(s, c)
      PROVE  TypeInv'
  BY <1>6, OpsProper, WriteTyped DEF TruncateAtFirst, TrimLeft
<1>7. ASSUME NEW n \in 0..MaxLen, Truncate(s, n) \/ Reserve(s, n)
      PROVE  TypeInv'
  <2>1. n \in Nat
    BY <1>0
  <2> QED BY <1>7, <2>1, PlainTyped, OpsProper, WriteTyped DEF Reserve
<1>8. ASSUME NEW n \in 1..MaxLen, Realloc(s, n)
      PROVE  TypeInv'
  <2>1. n \in 0..MaxLen
    BY <1>0
  <2> QED BY <1>8, <2>1, PlainTyped
<1> QED BY <1>1, <1>2, <1>3, <1>4, <1>5, <1>6, <1>7, <1>8 DEF Change

LEMMA TypeInvInit == Init => TypeInv
<1> SUFFICES ASSUME Init PROVE TypeInv
  OBVIOUS
<1>1. RefsInv
  BY RefsInvInit
<1>2. HeapOK
  <2>1. \A b \in Bodies : text[b] = <<>> /\ len[b] = 0
    BY DEF Init
  <2> QED BY <2>1, StringAssumption DEF Init, HeapOK
<1>3. NullOK /\ PendingOK
  BY StringAssumption DEF Init, NullOK, PendingOK, Idle
<1> QED BY <1>1, <1>2, <1>3 DEF TypeInv

LEMMA TypeInvNext == TypeInv /\ [Next]_vars => TypeInv'
<1> SUFFICES ASSUME TypeInv, [Next]_vars PROVE TypeInv'
  OBVIOUS
<1>1. ASSUME Sound, NEW s \in Strings, Change(s) PROVE TypeInv'
  BY <1>1, ChangeTyped
<1>2. ASSUME Sound, NEW t \in Threads, CowDrops(t) \/ CowCopies(t) PROVE TypeInv'
  BY <1>2, CowDropsTyped, CowCopiesTyped
<1>3. CASE UNCHANGED vars
  <2>1. UNCHANGED <<handle, refs, leaked, len, text, nullRefs, cow, flaws>>
    BY <1>3 DEF vars, heap
  <2>2. RefsInv'
    BY <1>3, RefsInvNext DEF TypeInv
  <2>3. HeapOK' /\ NullOK'
    BY <2>1 DEF TypeInv, HeapOK, NullOK
  <2>4. PendingOK'
    BY <2>1 DEF TypeInv, PendingOK, Ready, Fits, Made
  <2> QED BY <2>2, <2>3, <2>4 DEF TypeInv
<1>4. QED BY <1>1, <1>2, <1>3 DEF Next

(* Types, and the promise of the class' lengths: until something goes      *)
(* wrong the text of every body ends within the room its length field      *)
(* gives, whatever was truncated, reserved or copied under other Strings.  *)
THEOREM TypeCorrect == Spec => []TypeOK
<1>1. TypeInv => TypeOK
  BY TypeInvType
<1>2. QED BY TypeInvInit, TypeInvNext, <1>1, PTL DEF Spec

-----------------------------------------------------------------------------
(* Strings are values: the refinement of StringValues. *)

LEMMA RestSeems ==
  ASSUME NEW s, ~Busy(s)
  PROVE  Seeming(s) = Text(s)
BY DEF Busy, Idle, Seeming

(* The results an operation on s may have *)
LEMMA ResultsOf ==
  ASSUME NEW s \in Strings
  PROVE  /\ Made(Seeming(s)) \subseteq Values!Results(s)
         /\ \A from \in Strings : /\ Seeming(from) \in Values!Results(s)
                                  /\ Seeming(s) \o Seeming(from) \in Values!Results(s)
<1> DEFINE v == [o \in Strings |-> Seeming(o)]
<1>1. v[s] = Seeming(s) /\ \A from \in Strings : v[from] = Seeming(from)
  OBVIOUS
<1>2. Values!Texts = Inputs \cup {v[o] : o \in Strings}
  BY DEF Values!Texts, Contents
<1>3. Values!Results(s) = Values!Texts \cup {v[s] \o x : x \in Values!Texts}
                            \cup Values!Prefixes(v[s]) \cup Values!Trimmed(v[s])
  BY DEF Values!Results, Contents
<1> HIDE DEF v
<1> QED BY <1>1, <1>2, <1>3 DEF Made

(* A quiet step on s leaves every other String alone. *)
LEMMA OthersSeem ==
  ASSUME TypeInv, NEW s \in Strings, NEW new, NEW o \in Strings, o # s, Quiet(s),
         handle' = handle \/ handle' = [handle EXCEPT ![s] = new],
         \/ cow'[Owner[o]] = cow[Owner[o]]
         \/ /\ ~(cow[Owner[o]].at = "copy" /\ cow[Owner[o]].op.s = o)
            /\ ~(cow'[Owner[o]].at = "copy" /\ cow'[Owner[o]].op.s = o)
  PROVE  Seeming(o)' = Seeming(o)
<1> DEFINE c == cow[Owner[o]]
<1>1. Owner[o] \in Threads
  BY StringAssumption
<1>2. CASE c.at = "copy" /\ c.op.s = o
  <2>1. c' = c
    BY <1>2
  <2>2. c.old \in Bodies /\ Copying(c.old)
    BY <1>1, <1>2 DEF TypeInv, PendingOK, Copying, Idle
  <2>3. text'[c.old] = text[c.old]
    BY <2>2 DEF Quiet, Private
  <2> QED BY <1>2, <2>1, <2>3 DEF Seeming
<1>3. CASE ~(c.at = "copy" /\ c.op.s = o)
  <2>1. ~(c'.at = "copy" /\ c'.op.s = o)
    BY <1>3
  <2>2. handle'[o] = handle[o] /\ (handle[o] = Null \/ handle[o] \in Bodies)
    BY DEF TypeInv, RefsInv, CountsOK
  <2>3. handle[o] \in Bodies => text'[handle[o]] = text[handle[o]]
    BY DEF Quiet, Private, Owners
  <2>4. Text(o)' = Text(o)
    BY <2>2, <2>3 DEF Text
  <2> QED BY <1>3, <2>1, <2>4 DEF Seeming
<1> QED BY <1>2, <1>3

(* A flawed step promises nothing; another one gives s one of its results. *)
LEMMA ValueChanges ==
  ASSUME TypeInv, Sound, NEW s \in Strings,
         flaws' = {} => /\ \A o \in Strings \ {s} : Seeming(o)' = Seeming(o)
                        /\ Seeming(s)' \in Values!Results(s)
  PROVE  Values!Next
<1> DEFINE v == [o \in Strings |-> Seeming(o)]
<1>1. CASE flaws' # {}
  BY <1>1 DEF Values!Next
<1>2. CASE flaws' = {}
  <2>1. v' = [v EXCEPT ![s] = Seeming(s)']
    BY <1>2
  <2>2. Values!Change(s)
    BY <1>2, <2>1 DEF Values!Change, Contents, Sound
  <2> QED BY <2>2 DEF Values!Next, Sound
<1> QED BY <1>1, <1>2

LEMMA ValueStays ==
  ASSUME Sound, flaws' = {} => \A o \in Strings : Seeming(o)' = Seeming(o)
  PROVE  [Values!Next]_<<Contents, flaws # {}>>
<1>1. CASE flaws' # {}
  BY <1>1 DEF Values!Next
<1>2. CASE flaws' = {}
  BY <1>2 DEF Sound, Contents
<1> QED BY <1>1, <1>2

LEMMA RestChanges ==
  ASSUME TypeInv, Sound, NEW s \in Strings, NEW new, ~Busy(s), cow' = cow,
         flaws' = {} => Quiet(s),
         handle' = handle \/ handle' = [handle EXCEPT ![s] = new],
         flaws' = {} => Text(s)' \in Values!Results(s)
  PROVE  Values!Next
<1>1. flaws' = {} => \A o \in Strings \ {s} : Seeming(o)' = Seeming(o)
  BY OthersSeem
<1>2. Seeming(s)' = Text(s)'
  BY DEF Busy, Idle, Seeming
<1> QED BY <1>1, <1>2, ValueChanges

(* What each op makes of the text it found is a result of the specification. *)
Outcome(op) == NewText(op, Text(op.s)) \in Values!Results(op.s)

LEMMA OpsOutcome ==
  ASSUME TypeInv, Sound, NEW s \in Strings, ~Busy(s)
  PROVE  /\ \A size : Outcome(Op("CopyOnWrite", s, size, <<>>, Uncut))
         /\ \A size : Outcome(Op("Reserve", s, size, <<>>, Uncut))
         /\ \A x \in Inputs : \A size, cut :
              /\ Outcome(Op("Swap", s, size, x, cut))
              /\ Outcome(Op("Vformat", s, size, x, cut))
         /\ \A x \in Inputs : \A size, cut : Outcome(Op("Concatenate", s, size, x, cut))
         /\ \A from \in Strings : \A size, cut :
              ~Busy(from) => Outcome(Op("Concatenate", s, size, Text(from), cut))
         /\ \A c, size : First(Text(s), c) < Len(Text(s)) =>
              Outcome(Op("TruncateAtFirst", s, size, <<>>, First(Text(s), c)))
         /\ \A c, size : Outcome(Op("TrimLeft", s, size, <<>>, Length(s) - Leading(Text(s), c)))
<1> DEFINE y == Text(s)
<1>1. /\ y \in Seq(Letters) /\ Length(s) \in 0..MaxLen /\ MaxLen \in Nat \ {0}
      /\ Len(y) \in Nat /\ Len(y) <= Length(s)
  BY TextFits
<1>2. /\ Made(y) \subseteq Values!Results(s)
      /\ \A from \in Strings : ~Busy(from) => y \o Text(from) \in Values!Results(s)
  BY ResultsOf, RestSeems
<1>3. /\ y \in Made(y) /\ Inputs \subseteq Made(y)
      /\ \A x \in Inputs : y \o x \in Values!Results(s)
  <2>1. Seeming(s) = y
    BY RestSeems
  <2> HIDE DEF y
  <2> QED BY <2>1 DEF Made, Values!Results, Values!Texts, Contents
<1>4. ASSUME NEW name \in {"CopyOnWrite", "Reserve"}, NEW size
      PROVE  Outcome(Op(name, s, size, <<>>, Uncut))
  <2> DEFINE op == Op(name, s, size, <<>>, Uncut)
  <2>1. op.s = s /\ op.name = name
    BY DEF Op
  <2> HIDE DEF op
  <2>2. Outcome(op)
    BY <2>1, <1>2, <1>3 DEF NewText, Outcome
  <2> QED BY <2>2 DEF op
<1>5. ASSUME NEW name \in {"Swap", "Vformat"}, NEW x \in Inputs, NEW size, NEW cut
      PROVE  Outcome(Op(name, s, size, x, cut))
  <2> DEFINE op == Op(name, s, size, x, cut)
  <2>1. op.s = s /\ op.name = name /\ op.x = x
    BY DEF Op
  <2> HIDE DEF op
  <2>2. Outcome(op)
    BY <2>1, <1>2, <1>3 DEF NewText, Outcome
  <2> QED BY <2>2 DEF op
<1>6. ASSUME NEW x, y \o x \in Values!Results(s), NEW size, NEW cut
      PROVE  Outcome(Op("Concatenate", s, size, x, cut))
  <2> DEFINE op == Op("Concatenate", s, size, x, cut)
  <2>1. op.s = s /\ op.name = "Concatenate" /\ op.x = x
    BY DEF Op
  <2> HIDE DEF op
  <2>2. NewText(op, y) \in {y \o x, y}
    BY <2>1 DEF NewText
  <2>3. Outcome(op)
    BY <2>1, <2>2, <1>2, <1>3, <1>6 DEF Outcome
  <2> QED BY <2>3 DEF op
<1>7. ASSUME NEW n \in 0..Len(y), NEW size
      PROVE  Outcome(Op("TruncateAtFirst", s, size, <<>>, n))
  <2> DEFINE op == Op("TruncateAtFirst", s, size, <<>>, n)
  <2>1. op.s = s /\ op.name = "TruncateAtFirst" /\ op.cut = n
    BY DEF Op
  <2> HIDE DEF op
  <2>2. NewText(op, y) = SubSeq(y, 1, n)
    BY <2>1, <1>1 DEF NewText, Smaller
  <2>3. SubSeq(y, 1, n) \in Made(y)
    BY DEF Made, Values!Prefixes
  <2>4. Outcome(op)
    BY <2>1, <2>2, <2>3, <1>2 DEF Outcome
  <2> QED BY <2>4 DEF op
<1>8. ASSUME NEW n \in 0..Len(y), NEW c, \A i \in 1..n : y[i] = c, NEW size
      PROVE  Outcome(Op("TrimLeft", s, size, <<>>, Length(s) - n))
  <2> DEFINE op == Op("TrimLeft", s, size, <<>>, Length(s) - n)
  <2>1. op.s = s /\ op.name = "TrimLeft" /\ op.was = Length(s) /\ op.cut = Length(s) - n
    BY DEF Op
  <2> HIDE DEF op
  <2>2. op.was - op.cut = n
    BY <2>1, <1>1
  <2>3. NewText(op, y) = SubSeq(y, n + 1, Len(y))
    BY <2>1, <2>2 DEF NewText
  <2>4. SubSeq(y, n + 1, Len(y)) \in Made(y)
    <3>1. \A i \in 1..n : y[i] = y[1]
      BY <1>1, <1>8
    <3> HIDE DEF y
    <3> QED BY <3>1 DEF Made, Values!Trimmed
  <2>5. Outcome(op)
    BY <2>1, <2>3, <2>4, <1>2 DEF Outcome
  <2> QED BY <2>5 DEF op
<1>9. \A c : /\ First(y, c) \in 0..Len(y) /\ Leading(y, c) \in 0..Len(y)
             /\ \A i \in 1..Leading(y, c) : y[i] = c
  BY <1>1, FirstRight, LeadingRight
<1> QED BY <1>2, <1>3, <1>4, <1>5, <1>6, <1>7, <1>8, <1>9

LEMMA WriteValue ==
  ASSUME TypeInv, Sound, NEW s \in Strings, NEW name, NEW size, NEW x, NEW cut,
         Proper(Op(name, s, size, x, cut)), Outcome(Op(name, s, size, x, cut)),
         Write(Op(name, s, size, x, cut))
  PROVE  Values!Next
<1> DEFINE op == Op(name, s, size, x, cut)
           og == [op EXCEPT !.size = 0]
           y == NewText(op, Text(s))
<1>1. op.s = s /\ og.s = op.s /\ Write(op) /\ Proper(op) /\ ~Busy(s)
      /\ y \in Values!Results(s)
  BY DEF Op, Write, Outcome
<1>2. Ready(op, Text(s)) => Ready(og, Text(s))
  BY SizeGone
<1> HIDE DEF op, og
<1>3. CASE WriteGrown(op)
  <2>1. Typed(s) /\ cow' = cow
    BY <1>1, <1>3, GrownTyped DEF WriteGrown
  <2>2. PICK b \in Fresh : NewBody(s, b, NewLen(op, op.size), y)
    BY <1>1, <1>3 DEF WriteGrown
  <2>3. handle' = [handle EXCEPT ![s] = b] /\ text' = [text EXCEPT ![b] = y] /\ b \in Bodies
    BY <2>2 DEF NewBody, Fresh
  <2>4. Text(s)' = y
    BY <2>3, StringAssumption DEF Text, TypeInv, RefsInv, CountsOK, HeapOK
  <2> QED BY <1>1, <2>1, <2>3, <2>4, RestChanges DEF Typed
<1>4. CASE WriteInPlace(op)
  <2>1. Typed(s) /\ cow' = cow /\ handle' = handle
    BY <1>1, <1>4, InPlaceTyped DEF WriteInPlace
  <2>2. handle[s] \in Bodies /\ handle[s] # Null
    BY <1>1, <1>4, AloneOwner DEF WriteInPlace, Alone
  <2>3. Text(s) = text[handle[s]] /\ text' = [text EXCEPT ![handle[s]] = y]
    BY <1>1, <1>4, <2>2 DEF WriteInPlace, Text
  <2>4. Text(s)' = y
    BY <2>1, <2>2, <2>3 DEF Text, TypeInv, HeapOK
  <2> QED BY <1>1, <2>1, <2>4, RestChanges DEF Typed
<1>5. CASE WriteEmpty(op)
  <2>1. flaws' # {}
    BY <1>5 DEF WriteEmpty
  <2> QED BY <2>1 DEF Values!Next
<1>6. CASE WriteShared(op)
  <2>1. Ready(og, Text(s))
    BY <1>1, <1>2, <1>6 DEF Proper, WriteShared
  <2>2. Quiet(s)
    BY <1>1, <1>6, <2>1, SharedPends DEF og
  <2>3. /\ handle' = handle /\ text' = text
        /\ cow' = [cow EXCEPT ![Owner[s]] = [at |-> "drop", op |-> og, old |-> handle[s]]]
    BY <1>1, <1>6 DEF WriteShared, heap, og
  <2>4. \A o \in Strings : Owner[o] = Owner[s] => cow[Owner[o]].at = "no" /\ cow'[Owner[o]].at = "drop"
    BY <1>1, <2>3, StringAssumption DEF Busy, Idle, TypeInv, RefsInv, CowOK
  <2>5. \A o \in Strings : Owner[o] # Owner[s] => cow'[Owner[o]] = cow[Owner[o]]
    BY <2>3, StringAssumption DEF TypeInv, RefsInv, CowOK
  <2>6. \A o \in Strings \ {s} : Seeming(o)' = Seeming(o)
    BY <2>2, <2>3, <2>4, <2>5, OthersSeem
  <2>7. Seeming(s)' = Text(s)' /\ Text(s)' = Text(s) /\ Text(s) = Seeming(s)
    <3>1. Seeming(s)' = Text(s)'
      BY <2>4 DEF Seeming
    <3>2. Text(s)' = Text(s)
      BY <2>3 DEF Text
    <3> QED BY <1>1, <3>1, <3>2, RestSeems
  <2>8. Seeming(s)' \in Values!Results(s)
    BY <2>7, ResultsOf
  <2> QED BY <2>6, <2>8, ValueChanges
<1> QED BY <1>1, <1>3, <1>4, <1>5, <1>6 DEF Write

LEMMA DestroyValue ==
  ASSUME TypeInv, Sound, NEW s \in Strings, Destroy(s)
  PROVE  Values!Next
<1>1. /\ Typed(s) /\ cow' = cow /\ ~Busy(s)
      /\ handle' = [handle EXCEPT ![s] = Null]
  BY PlainTyped DEF Destroy, Drop
<1>2. Text(s)' = <<>>
  BY <1>1 DEF Text, TypeInv, RefsInv, CountsOK
<1>3. <<>> \in Values!Results(s)
  <2>1. Text(s) \in Seq(Letters) /\ Len(Text(s)) \in Nat /\ Seeming(s) = Text(s)
    BY <1>1, TextFits, RestSeems
  <2>2. SubSeq(Text(s), 1, 0) = <<>> /\ 0 \in 0..Len(Text(s))
    BY <2>1
  <2>3. <<>> \in Made(Text(s))
    BY <2>2 DEF Made, Values!Prefixes
  <2> QED BY <2>1, <2>3, ResultsOf
<1> QED BY <1>1, <1>2, <1>3, RestChanges DEF Typed

LEMMA TruncateValue ==
  ASSUME TypeInv, Sound, NEW s \in Strings, NEW n \in Nat, Truncate(s, n)
  PROVE  Values!Next
<1> DEFINE y == Text(s)
           m == Smaller(Len(y), n)
<1>1. Typed(s) /\ cow' = cow /\ ~Busy(s) /\ handle' = handle
  BY PlainTyped DEF Truncate
<1>2. handle[s] \in Bodies /\ handle[s] # Null /\ y = text[handle[s]]
  BY DEF Truncate, TypeInv, RefsInv, CountsOK, Text
<1>3. text' = [text EXCEPT ![handle[s]] = SubSeq(y, 1, m)]
  BY <1>2 DEF Truncate
<1>4. Text(s)' = SubSeq(y, 1, m)
  BY <1>1, <1>2, <1>3 DEF Text, TypeInv, HeapOK
<1>5. m \in 0..Len(y) /\ Seeming(s) = y
  BY <1>1, TextFits, RestSeems DEF Smaller
<1> HIDE DEF y, m
<1>6. SubSeq(y, 1, m) \in Values!Results(s)
  <2>1. SubSeq(y, 1, m) \in Made(y)
    BY <1>5 DEF Made, Values!Prefixes
  <2> QED BY <2>1, <1>5, ResultsOf
<1> QED BY <1>1, <1>4, <1>6, RestChanges DEF Typed

LEMMA ReallocValue ==
  ASSUME TypeInv, Sound, NEW s \in Strings, NEW n \in 0..MaxLen, Realloc(s, n)
  PROVE  Values!Next
<1> DEFINE y == Text(s)
           m == Smaller(n, Len(y))
<1>1. Typed(s) /\ cow' = cow /\ ~Busy(s)
  BY PlainTyped DEF Realloc
<1>2. PICK b \in Fresh : NewBody(s, b, n, SubSeq(y, 1, m))
  BY DEF Realloc
<1>3. /\ handle' = [handle EXCEPT ![s] = b] /\ b \in Bodies
      /\ text' = [text EXCEPT ![b] = SubSeq(y, 1, m)]
  BY <1>2 DEF NewBody, Fresh
<1>4. Text(s)' = SubSeq(y, 1, m)
  BY <1>3, StringAssumption DEF Text, TypeInv, RefsInv, CountsOK, HeapOK
<1>5. m \in 0..Len(y) /\ Seeming(s) = y
  BY <1>1, TextFits, RestSeems DEF Smaller
<1> HIDE DEF y, m
<1>6. SubSeq(y, 1, m) \in Values!Results(s)
  <2>1. SubSeq(y, 1, m) \in Made(y)
    BY <1>5 DEF Made, Values!Prefixes
  <2> QED BY <2>1, <1>5, ResultsOf
<1> QED BY <1>1, <1>3, <1>4, <1>6, RestChanges DEF Typed

LEMMA ConstructValue ==
  ASSUME TypeInv, Sound, NEW s \in Strings, NEW x \in Inputs, Construct(s, x)
  PROVE  Values!Next
<1>1. Typed(s) /\ cow' = cow /\ ~Busy(s)
  BY PlainTyped DEF Construct
<1>2. PICK b \in Fresh : NewBody(s, b, Len(x), x)
  BY DEF Construct
<1>3. /\ handle' = [handle EXCEPT ![s] = b] /\ b \in Bodies
      /\ text' = [text EXCEPT ![b] = x]
  BY <1>2 DEF NewBody, Fresh
<1>4. Text(s)' = x
  BY <1>3, StringAssumption DEF Text, TypeInv, RefsInv, CountsOK, HeapOK
<1>5. x \in Values!Results(s)
  BY ResultsOf DEF Made
<1> QED BY <1>1, <1>3, <1>4, <1>5, RestChanges DEF Typed

(* Copy and Assign *)
LEMMA ShareValue ==
  ASSUME TypeInv, Sound, NEW s \in Strings, NEW from \in Strings,
         Copy(s, from) \/ Assign(s, from)
  PROVE  Values!Next
<1>1. /\ Typed(s) /\ cow' = cow /\ ~Busy(s) /\ ~Busy(from)
      /\ handle' = [handle EXCEPT ![s] = handle[from]] /\ text' = text
  BY PlainTyped DEF Copy, Assign
<1>2. Text(s)' = Text(from) /\ Seeming(from) = Text(from)
  BY <1>1, RestSeems DEF Text, TypeInv, RefsInv, CountsOK
<1>3. Text(from) \in Values!Results(s)
  BY <1>2, ResultsOf
<1> QED BY <1>1, <1>2, <1>3, RestChanges DEF Typed

LEMMA CowDropsValue ==
  ASSUME TypeInv, Sound, NEW t \in Threads, CowDrops(t)
  PROVE  [Values!Next]_<<Contents, flaws # {}>>
<1>0. PICK s \in Strings : s = cow[t].op.s
  BY DEF CowDrops, TypeInv, RefsInv, CowOK
<1>1. /\ s \in Strings /\ cow[t].at = "drop" /\ Owner[s] = t
      /\ cow[t].old \in Bodies /\ handle[s] = cow[t].old
  BY <1>0 DEF CowDrops, TypeInv, RefsInv, CowOK, PendingOK
<1>2. /\ text' = text /\ handle' = [handle EXCEPT ![s] = Null]
      /\ flaws' = {} => Quiet(s)
      /\ cow' = [cow EXCEPT ![t] = [cow[t] EXCEPT !.at = "copy"]]
  BY <1>0, CowDropsTyped DEF CowDrops, Drop, Typed
<1>3. /\ cow'[t] = [at |-> "copy", op |-> cow[t].op, old |-> cow[t].old]
      /\ \A u \in Threads : u # t => cow'[u] = cow[u]
  BY <1>2 DEF TypeInv, RefsInv, CowOK
<1>4. cow'[t].at = "copy" /\ cow'[t].op.s = s /\ cow'[t].old = cow[t].old
  BY <1>0, <1>3
<1>5. \A o \in Strings \ {s} : flaws' = {} => Seeming(o)' = Seeming(o)
  <2> SUFFICES ASSUME NEW o \in Strings \ {s}, flaws' = {} PROVE Seeming(o)' = Seeming(o)
    OBVIOUS
  <2>1. \/ cow'[Owner[o]] = cow[Owner[o]]
        \/ /\ ~(cow[Owner[o]].at = "copy" /\ cow[Owner[o]].op.s = o)
           /\ ~(cow'[Owner[o]].at = "copy" /\ cow'[Owner[o]].op.s = o)
    BY <1>0, <1>1, <1>3, <1>4, StringAssumption
  <2> QED BY <2>1, <1>1, <1>2, OthersSeem
<1>6. Seeming(s)' = Seeming(s)
  <2>1. cow[t].old # Null
    BY <1>1, StringAssumption
  <2>2. Seeming(s) = text[cow[t].old]
    BY <1>0, <1>1, <2>1 DEF Seeming, Text
  <2>3. Seeming(s)' = text'[cow[t].old]
    BY <1>1, <1>4 DEF Seeming
  <2> QED BY <1>2, <2>2, <2>3
<1> QED BY <1>5, <1>6, ValueStays

LEMMA CowCopiesValue ==
  ASSUME TypeInv, Sound, NEW t \in Threads, CowCopies(t)
  PROVE  Values!Next
<1>s. PICK s \in Strings : s = cow[t].op.s
  BY DEF CowCopies, TypeInv, RefsInv, CowOK
<1>0. PICK op, x, y :
        s = cow[t].op.s /\ op = cow[t].op /\ x = text[cow[t].old] /\ y = NewText(op, x)
  BY <1>s
<1>1. /\ s \in Strings /\ cow[t].at = "copy" /\ Owner[s] = t
      /\ cow[t].old \in Bodies /\ Ready(op, x)
  BY <1>0 DEF CowCopies, TypeInv, RefsInv, CowOK, PendingOK, Sound
<1>2. PICK b \in Fresh : NewBody(s, b, NewLen(op, Len(x)), y)
  BY <1>0 DEF CowCopies
<1>3. /\ handle' = [handle EXCEPT ![s] = b] /\ text' = [text EXCEPT ![b] = y] /\ b \in Bodies
      /\ flaws' = {} => Quiet(s)
      /\ cow' = [cow EXCEPT ![t] = Idle]
  BY <1>0, <1>2, CowCopiesTyped DEF NewBody, Fresh, CowCopies, Typed
<1>4. cow'[t].at = "no" /\ \A u \in Threads : u # t => cow'[u] = cow[u]
  BY <1>3 DEF Idle, TypeInv, RefsInv, CowOK
<1>5. \A o \in Strings \ {s} : flaws' = {} => Seeming(o)' = Seeming(o)
  <2> SUFFICES ASSUME NEW o \in Strings \ {s}, flaws' = {} PROVE Seeming(o)' = Seeming(o)
    OBVIOUS
  <2>1. \/ cow'[Owner[o]] = cow[Owner[o]]
        \/ /\ ~(cow[Owner[o]].at = "copy" /\ cow[Owner[o]].op.s = o)
           /\ ~(cow'[Owner[o]].at = "copy" /\ cow'[Owner[o]].op.s = o)
    BY <1>0, <1>1, <1>4, StringAssumption
  <2> QED BY <2>1, <1>1, <1>3, OthersSeem
<1>6. Seeming(s)' = y
  <2>1. Text(s)' = y
    BY <1>1, <1>3, StringAssumption DEF Text, TypeInv, RefsInv, CountsOK, HeapOK
  <2>2. Seeming(s)' = Text(s)'
    BY <1>1, <1>4 DEF Seeming
  <2> QED BY <2>1, <2>2
<1>7. Seeming(s) = x
  BY <1>0, <1>1 DEF Seeming
<1>8. y \in Values!Results(s)
  BY <1>0, <1>1, <1>7, ResultsOf DEF Ready
<1> QED BY <1>1, <1>5, <1>6, <1>8, ValueChanges

LEMMA ChangeValue ==
  ASSUME TypeInv, Sound, NEW s \in Strings, Change(s)
  PROVE  Values!Next
<1>0. /\ MaxLen \in Nat \ {0} /\ Inputs \subseteq Seq(Letters)
      /\ \A x \in Inputs : Len(x) \in Nat
  BY StringAssumption, LenProperties
<1>1. CASE Destroy(s)  BY <1>1, DestroyValue
<1>2. CASE TruncateSelf(s)
  <2>1. Len(Text(s)) \in Nat
    BY TextFits
  <2> QED BY <1>2, <2>1, TruncateValue DEF TruncateSelf
<1>3. CASE CopyOnWrite(s)
  <2>1. ~Busy(s)
    BY <1>3 DEF CopyOnWrite, Write, Op
  <2> QED BY <1>3, <2>1, OpsProper, OpsOutcome, WriteValue DEF CopyOnWrite
<1>4. ASSUME NEW x \in Inputs,
             Construct(s, x) \/ Swap(s, x) \/ Vformat(s, x) \/ ConcatenateCstr(s, x)
      PROVE  Values!Next
  <2>1. CASE Construct(s, x)  BY <2>1, ConstructValue
  <2>2. CASE Swap(s, x) \/ Vformat(s, x)
    <3>1. ~Busy(s)
      BY <2>2 DEF Swap, Vformat, Write, Op
    <3> QED BY <2>2, <3>1, OpsProper, OpsOutcome, WriteValue DEF Swap, Vformat
  <2>3. CASE ConcatenateCstr(s, x)
    <3>1. ~Busy(s)
      BY <2>3 DEF ConcatenateCstr, Extend, Write, Op
    <3>2. x \in Seq(Letters) /\ Len(x) \in Nat /\ Len(x) <= Len(x)
      BY <1>0
    <3> QED BY <2>3, <3>1, <3>2, OpsProper, OpsOutcome, WriteValue DEF ConcatenateCstr, Extend
  <2> QED BY <1>4, <2>1, <2>2, <2>3
<1>5. ASSUME NEW from \in Strings, Copy(s, from) \/ Assign(s, from) \/ Concatenate(s, from)
      PROVE  Values!Next
  <2>1. CASE Copy(s, from) \/ Assign(s, from)  BY <2>1, ShareValue
  <2>2. CASE Concatenate(s, from)
    <3>1. Text(from) \in Seq(Letters) /\ Length(from) \in Nat /\ Len(Text(from)) <= Length(from)
      BY <1>0, TextFits
    <3>2. ~Busy(s) /\ ~Busy(from)
      BY <2>2 DEF Concatenate, Extend, Write, Op
    <3> QED BY <2>2, <3>1, <3>2, OpsProper, OpsOutcome, WriteValue DEF Concatenate, Extend
  <2> QED BY <1>5, <2>1, <2>2
<1>6. ASSUME NEW c \in Letters, TruncateAtFirst(s, c) \/ TrimLeft(s, c)
      PROVE  Values!Next
  <2>1. ~Busy(s)
    BY <1>6 DEF TruncateAtFirst, TrimLeft, Write, Op
  <2> QED BY <1>6, <2>1, OpsProper, OpsOutcome, WriteValue DEF TruncateAtFirst, TrimLeft
<1>7. ASSUME NEW n \in 0..MaxLen, Truncate(s, n) \/ Reserve(s, n)
      PROVE  Values!Next
  <2>1. CASE Truncate(s, n)
    BY <1>0, <2>1, TruncateValue
  <2>2. CASE Reserve(s, n)
    <3>1. ~Busy(s)
      BY <2>2 DEF Reserve, Write, Op
    <3> QED BY <2>2, <3>1, OpsProper, OpsOutcome, WriteValue DEF Reserve
  <2> QED BY <1>7, <2>1, <2>2
<1>8. ASSUME NEW n \in 1..MaxLen, Realloc(s, n)
      PROVE  Values!Next
  <2>1. n \in 0..MaxLen
    BY <1>0
  <2> QED BY <1>8, <2>1, ReallocValue
<1> QED BY <1>1, <1>2, <1>3, <1>4, <1>5, <1>6, <1>7, <1>8 DEF Change

LEMMA ValuesInit == Init => Values!Init
<1> SUFFICES ASSUME Init PROVE Values!Init
  OBVIOUS
<1>1. ASSUME NEW s \in Strings PROVE Seeming(s) = <<>>
  BY StringAssumption DEF Init, Idle, Seeming, Text
<1> QED BY <1>1 DEF Init, Values!Init, Contents

LEMMA ValuesNext ==
  TypeInv /\ [Next]_vars => [Values!Next]_<<Contents, flaws # {}>>
<1> SUFFICES ASSUME TypeInv, [Next]_vars
             PROVE  [Values!Next]_<<Contents, flaws # {}>>
  OBVIOUS
<1>1. ASSUME Sound, NEW s \in Strings, Change(s) PROVE Values!Next
  BY <1>1, ChangeValue
<1>2. ASSUME Sound, NEW t \in Threads, CowDrops(t)
      PROVE  [Values!Next]_<<Contents, flaws # {}>>
  BY <1>2, CowDropsValue
<1>3. ASSUME Sound, NEW t \in Threads, CowCopies(t) PROVE Values!Next
  BY <1>3, CowCopiesValue
<1>4. CASE UNCHANGED vars
  <2>1. UNCHANGED <<handle, text, cow, flaws>>
    BY <1>4 DEF vars, heap
  <2>2. \A o \in Strings : Seeming(o)' = Seeming(o)
    BY <2>1 DEF Seeming, Text
  <2> QED BY <2>1, <2>2 DEF Contents
<1>5. QED BY <1>1, <1>2, <1>3, <1>4 DEF Next

(* Strings are values, whoever shares their bodies and however the steps   *)
(* of CopyOnWrite of several threads mix, up to the first misuse.          *)
THEOREM StringsAreValues == Spec => ValuesSpec
<1>1. Init => Values!Init
  BY ValuesInit
<1>2. TypeInv /\ [Next]_vars => [Values!Next]_<<Contents, flaws # {}>>
  BY ValuesNext
<1>3. QED BY TypeInvInit, TypeInvNext, <1>1, <1>2, PTL DEF Spec, ValuesSpec, Values!Spec
=============================================================================
