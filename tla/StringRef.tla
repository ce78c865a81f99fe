------------------------------ MODULE StringRef ------------------------------
(***************************************************************************)
(* The game's reference-counted String as src/src/game/engine/string.cpp   *)
(* implements it; WString.cpp is the same code for wide characters.        *)
(* A String is a handle to a body: a length, a count of references and a   *)
(* text ended by NUL.  The one length field is taken for the room of the   *)
(* buffer by Reserve and for the length of the text by Concatenate.        *)
(* Each String belongs to a thread; bodies are shared between threads, and *)
(* CopyOnWrite drops its reference before it copies.  An operation that    *)
(* reads another String finds it at rest: handing Strings over is for the  *)
(* program to order.  The heap always has memory, so no handle is nullptr. *)
(***************************************************************************)
EXTENDS Integers, Sequences, FiniteSets

CONSTANTS Threads,
          Strings,
          Owner,       \* [Strings -> Threads]
          Bodies,
          Null,        \* nullstr, the body all empty Strings share
          Letters,
          Inputs,      \* the texts the program brings along
          MaxLen,      \* bound on lengths
          MaxRefs,     \* bound on the references to a body
          NullRefs     \* references nullstr starts with

ASSUME StringAssumption ==
  /\ Owner \in [Strings -> Threads]
  /\ IsFiniteSet(Strings) /\ Null \notin Bodies
  /\ Inputs \subseteq Seq(Letters) /\ \A x \in Inputs : Len(x) <= MaxLen
  /\ MaxLen \in Nat \ {0} /\ MaxRefs \in Nat \ {0} /\ NullRefs \in Nat \ {0}

VARIABLES
  handle,    \* m_kHandle of each String
  refs,      \* m_RefCount of each body, 0 when it is free
  leaked,    \* how many of them Realloc left behind
  len,       \* m_cbBufferSize
  text,      \* up to the NUL
  nullRefs,  \* m_RefCount of nullstr
  cow,       \* of each thread: where its CopyOnWrite is (drop, copy) and for what
  flaws      \* what has gone wrong

heap == <<refs, leaked, len, text>>
vars == <<handle, heap, nullRefs, cow, flaws>>

Idle == [at |-> "no", op |-> <<>>, old |-> Null]
Busy(s) == cow[Owner[s]] # Idle

Init ==
  /\ handle = [s \in Strings |-> Null]
  /\ refs = [b \in Bodies |-> 0] /\ leaked = [b \in Bodies |-> 0]
  /\ len = [b \in Bodies |-> 0] /\ text = [b \in Bodies |-> <<>>]
  /\ nullRefs = NullRefs
  /\ cow = [t \in Threads |-> Idle]
  /\ flaws = {}

-----------------------------------------------------------------------------
Smaller(m, n) == IF m < n THEN m ELSE n
Larger(m, n)  == IF m < n THEN n ELSE m

Owners(b) == {s \in Strings : handle[s] = b}
Copying(b) == \E t \in Threads : cow[t] # Idle /\ cow[t].old = b

(* GetLength, and the text behind a handle *)
Length(s) == IF handle[s] = Null THEN 0 ELSE len[handle[s]]
Text(s)   == IF handle[s] = Null THEN <<>> ELSE text[handle[s]]
Shared(s) == handle[s] # Null /\ refs[handle[s]] > 1

(* A body nobody can reach: free, or leaked by Realloc and reused here for *)
(* a new address.                                                          *)
Fresh == {b \in Bodies : Owners(b) = {} /\ ~Copying(b)}

(* Mutant of Counted: the new owner is not counted. *)
CountedNot(b) == UNCHANGED refs

(* IncRefCount: nullstr is not counted up *)
Counted(b) == /\ refs[b] < MaxRefs
              /\ refs' = [refs EXCEPT ![b] = @ + 1]

(* DecRefCount frees the body at zero: whoever is about to copy its text   *)
(* reads freed memory.  nullstr is counted down, and freed like the others.*)
Freed(b) == IF b = Null THEN IF nullRefs = 1 THEN {"null freed"} ELSE {}
                        ELSE IF refs[b] = 1 /\ Copying(b) THEN {"copies freed"} ELSE {}

Uncounted(b) ==
  /\ refs' = IF b = Null THEN refs ELSE [refs EXCEPT ![b] = @ - 1]
  /\ nullRefs' = IF b = Null THEN nullRefs - 1 ELSE nullRefs
  /\ flaws' = flaws \cup Freed(b)

(* DecRefCount leaves the String empty *)
Drop(s) == Uncounted(handle[s]) /\ handle' = [handle EXCEPT ![s] = Null]

(* Mutant of NewBody: the length counts the NUL. *)
NewBodyNul(s, b, size, x) ==
  /\ b \in Fresh
  /\ handle' = [handle EXCEPT ![s] = b]
  /\ len' = [len EXCEPT ![b] = size + 1]
  /\ text' = [text EXCEPT ![b] = x]

(* AllocateAndCopy for s; the body it had is none of its business *)
NewBody(s, b, size, x) ==
  /\ b \in Fresh
  /\ handle' = [handle EXCEPT ![s] = b]
  /\ len' = [len EXCEPT ![b] = size]
  /\ text' = [text EXCEPT ![b] = x]

-----------------------------------------------------------------------------
(* Construction, copy, assignment, destruction *)

(* String(LPCSTR) and its variants, in the place of an empty String *)
Construct(s, x) ==
  /\ ~Busy(s) /\ handle[s] = Null
  /\ \E b \in Fresh :
       /\ NewBody(s, b, Len(x), x)
       /\ refs' = [refs EXCEPT ![b] = 1] /\ leaked' = [leaked EXCEPT ![b] = 0]
  /\ UNCHANGED <<nullRefs, cow, flaws>>

(* String(const String &), in the place of an empty String *)
Copy(s, from) ==
  /\ ~Busy(s) /\ ~Busy(from) /\ handle[s] = Null /\ handle[from] # Null
  /\ handle' = [handle EXCEPT ![s] = handle[from]]
  /\ Counted(handle[from])
  /\ UNCHANGED <<leaked, len, text, nullRefs, cow, flaws>>

(* operator=(const String &), SetBuffer; an empty original is not counted *)
Assign(s, from) ==
  LET old == handle[s]
      new == handle[from] IN
  /\ ~Busy(s) /\ ~Busy(from) /\ old # new
  /\ handle' = [handle EXCEPT ![s] = new]
  /\ new # Null => refs[new] < MaxRefs
  /\ refs' = [b \in Bodies |-> IF b = old THEN refs[b] - 1
                               ELSE IF b = new THEN refs[b] + 1 ELSE refs[b]]
  /\ nullRefs' = IF old = Null THEN nullRefs - 1 ELSE nullRefs
  /\ flaws' = flaws \cup Freed(old)
  /\ UNCHANGED <<leaked, len, text, cow>>

(* ~String, Swap(nullptr), Realloc(0) *)
Destroy(s) ==
  /\ ~Busy(s)
  /\ Drop(s)
  /\ UNCHANGED <<leaked, len, text, cow>>

-----------------------------------------------------------------------------
(* Truncate: in place, whoever else has the body *)
Truncate(s, n) ==
  LET b == handle[s] IN
  /\ ~Busy(s) /\ b # Null
  /\ len' = [len EXCEPT ![b] = Smaller(@, n)]
  /\ text' = [text EXCEPT ![b] = SubSeq(@, 1, Smaller(Len(@), n))]
  /\ flaws' = flaws \cup IF n < Len(text[b]) /\ (Shared(s) \/ Copying(b))
                         THEN {"shared change"} ELSE {}
  /\ UNCHANGED <<handle, refs, leaked, nullRefs, cow>>

TruncateSelf(s) == Truncate(s, Len(Text(s)))

(* Realloc: a body of the new size, and the reference to the old one is    *)
(* kept for ever.                                                          *)
Left(s) == leaked' = [b \in Bodies |-> IF b = handle'[s] THEN 0
                                       ELSE IF b = handle[s] THEN leaked[b] + 1 ELSE leaked[b]]

Realloc(s, n) ==
  /\ ~Busy(s) /\ n # Length(s)
  /\ \E b \in Fresh :
       /\ NewBody(s, b, n, SubSeq(Text(s), 1, Smaller(n, Len(Text(s)))))
       /\ refs' = [refs EXCEPT ![b] = 1]
       /\ Left(s)
  /\ UNCHANGED <<nullRefs, cow, flaws>>

-----------------------------------------------------------------------------
(* The operations that make the String the only owner first.  Such an op   *)
(* has its String s, the size it reserves (0: it does not reserve), the    *)
(* text x it brings along, the length `was' it read and the length `cut'   *)
(* it will truncate to (Uncut: it will not).                               *)

Uncut == MaxLen + 1

First(x, c) == CHOOSE n \in 0..Len(x) :
                 /\ \A i \in 1..n : x[i] # c
                 /\ n = Len(x) \/ x[n + 1] = c
Leading(x, c) == CHOOSE n \in 0..Len(x) :
                   /\ \A i \in 1..n : x[i] = c
                   /\ n = Len(x) \/ x[n + 1] # c

(* What the op makes of a body of text x; behind a NUL nothing is appended *)
NewText(op, x) ==
  CASE op.name \in {"CopyOnWrite", "Reserve"} -> x
    [] op.name \in {"Swap", "Vformat"} -> op.x
    [] op.name = "TruncateAtFirst" -> SubSeq(x, 1, Smaller(op.cut, Len(x)))
    [] op.name = "TrimLeft" -> SubSeq(x, op.was - op.cut + 1, Len(x))
    [] op.name = "Concatenate" -> IF Len(x) = op.was THEN x \o op.x ELSE x
NewLen(op, l) == Smaller(op.cut, l)

(* Writing or moving beyond a body of size l, which CopyOnWrite made as    *)
(* large as the text; appending behind the NUL                             *)
Flaw(op, l, x) ==
  CASE op.name \in {"Swap", "Vformat"} /\ Len(op.x) > l -> {"overflow"}
    [] op.name = "TrimLeft" /\ op.was > l -> {"overflow"}
    [] op.name = "Concatenate" /\ op.x # <<>> /\ op.was # Len(x) -> {"stale length"}
    [] OTHER -> {}

Enough(op) == op.size = 0 \/ Length(op.s) >= op.size

(* Mutant of Alone: two owners pass for one. *)
AloneOfTwo(s) == handle[s] # Null /\ refs[handle[s]] <= 2

(* CopyOnWrite's test *)
Alone(s) == handle[s] # Null /\ ~Shared(s)

(* Not enough room: Realloc, and the new body is not shared *)
WriteGrown(op) ==
  /\ ~Enough(op)
  /\ \E b \in Fresh :
       /\ NewBody(op.s, b, NewLen(op, op.size), NewText(op, Text(op.s)))
       /\ refs' = [refs EXCEPT ![b] = 1]
       /\ Left(op.s)
  /\ flaws' = flaws \cup Flaw(op, op.size, Text(op.s))
  /\ UNCHANGED <<nullRefs, cow>>

WriteInPlace(op) ==
  LET b == handle[op.s] IN
  /\ Enough(op) /\ Alone(op.s)
  /\ len' = [len EXCEPT ![b] = NewLen(op, len[b])]
  /\ text' = [text EXCEPT ![b] = NewText(op, text[b])]
  /\ flaws' = flaws \cup Flaw(op, len[b], text[b])
                   \cup (IF Copying(b) /\ NewText(op, text[b]) # text[b]
                         THEN {"shared change"} ELSE {})
  /\ UNCHANGED <<handle, refs, leaked, nullRefs, cow>>

(* CopyOnWrite of an empty String: a body for no letter, without its NUL *)
WriteEmpty(op) ==
  /\ Enough(op) /\ handle[op.s] = Null
  /\ \E b \in Fresh :
       /\ NewBody(op.s, b, 0, <<>>)
       /\ refs' = [refs EXCEPT ![b] = 1] /\ leaked' = [leaked EXCEPT ![b] = 0]
  /\ flaws' = flaws \cup {"no end"}
  /\ UNCHANGED <<nullRefs, cow>>

(* The body was found to be shared *)
WriteShared(op) ==
  /\ Enough(op) /\ handle[op.s] # Null /\ ~Alone(op.s)
  /\ cow' = [cow EXCEPT ![Owner[op.s]] = [at |-> "drop", op |-> [op EXCEPT !.size = 0],
                                          old |-> handle[op.s]]]
  /\ UNCHANGED <<handle, heap, nullRefs, flaws>>

Write(op) == /\ ~Busy(op.s)
             /\ WriteGrown(op) \/ WriteInPlace(op) \/ WriteEmpty(op) \/ WriteShared(op)

(* ... its reference is dropped *)
CowDrops(t) ==
  /\ cow[t].at = "drop"
  /\ LET s == cow[t].op.s IN
       /\ cow' = [cow EXCEPT ![t].at = "copy"]
       /\ Drop(s)
  /\ UNCHANGED <<leaked, len, text>>

(* ... and its text copied from where it was, into a body just as large *)
CowCopies(t) ==
  /\ cow[t].at = "copy"
  /\ LET op == cow[t].op
         x  == text[cow[t].old] IN
       /\ \E b \in Fresh :
            /\ NewBody(op.s, b, NewLen(op, Len(x)), NewText(op, x))
            /\ refs' = [refs EXCEPT ![b] = 1] /\ leaked' = [leaked EXCEPT ![b] = 0]
       /\ flaws' = flaws \cup Flaw(op, Len(x), x)
  /\ cow' = [cow EXCEPT ![t] = Idle]
  /\ UNCHANGED nullRefs

-----------------------------------------------------------------------------
Op(name, s, size, x, cut) ==
  [name |-> name, s |-> s, size |-> size, x |-> x, was |-> Length(s), cut |-> cut]

CopyOnWrite(s)  == Write(Op("CopyOnWrite", s, 0, <<>>, Uncut))
Reserve(s, n)   == Write(Op("Reserve", s, Larger(1, n), <<>>, Uncut))
Swap(s, x)      == Write(Op("Swap", s, Larger(1, Len(x)), x, Uncut))
Vformat(s, x)   == Write(Op("Vformat", s, Larger(1, Len(x)), x, Len(x)))

(* only if the letter occurs *)
TruncateAtFirst(s, c) ==
  LET n == First(Text(s), c) IN
  n < Len(Text(s)) /\ Write(Op("TruncateAtFirst", s, Larger(1, n), <<>>, n))

TrimLeft(s, c) ==
  LET n == Leading(Text(s), c) IN
  n > 0 /\ Write(Op("TrimLeft", s, 0, <<>>, Length(s) - n))

(* Concatenate_cstr; Concatenate does nothing for an empty String *)
Extend(s, x, n) ==
  LET total == Length(s) + n IN
  total <= MaxLen /\ Write(Op("Concatenate", s, Larger(1, total), x, total))
ConcatenateCstr(s, x) == Extend(s, x, Len(x))
Concatenate(s, from)  == /\ ~Busy(from) /\ Length(from) # 0
                         /\ Extend(s, Text(from), Length(from))

(* After the first flaw nothing is looked at any more. *)
Sound == flaws = {}

Change(s) ==
  \/ Destroy(s) \/ TruncateSelf(s) \/ CopyOnWrite(s)
  \/ \E x \in Inputs : Construct(s, x) \/ Swap(s, x) \/ Vformat(s, x) \/ ConcatenateCstr(s, x)
  \/ \E from \in Strings : Copy(s, from) \/ Assign(s, from) \/ Concatenate(s, from)
  \/ \E c \in Letters : TruncateAtFirst(s, c) \/ TrimLeft(s, c)
  \/ \E n \in 0..MaxLen : Truncate(s, n) \/ Reserve(s, n)
  \/ \E n \in 1..MaxLen : Realloc(s, n)

Next == /\ Sound
        /\ \/ \E s \in Strings : Change(s)
           \/ \E t \in Threads : CowDrops(t) \/ CowCopies(t)

Spec == Init /\ [][Next]_vars

-----------------------------------------------------------------------------
(* The variables have their types, and as long as nothing went wrong a     *)
(* text fits the length of its body.                                       *)
Flaws == {"null freed", "copies freed", "overflow", "shared change", "stale length", "no end"}
TypeOK ==
  /\ handle \in [Strings -> Bodies \cup {Null}]
  /\ refs \in [Bodies -> Nat] /\ leaked \in [Bodies -> Nat]
  /\ len \in [Bodies -> 0..MaxLen] /\ text \in [Bodies -> Seq(Letters)]
  /\ nullRefs \in 0..NullRefs
  /\ \A t \in Threads : cow[t].at \in {"no", "drop", "copy"}
  /\ flaws \subseteq Flaws
  /\ flaws = {} => \A b \in Bodies : Len(text[b]) <= len[b]

(* The count of a body is that of the Strings which have it and of the     *)
(* references Realloc forgot, whatever the threads do: DecRefCount never   *)
(* frees a body a String has, and frees it with the last one unless        *)
(* Realloc was called on one of them.                                      *)
RefsExact ==
  \A b \in Bodies : refs[b] = Cardinality(Owners(b)) + leaked[b]

(* As long as nothing has gone wrong Strings are values.  A String whose   *)
(* text is being copied still has it.                                      *)
Seeming(s) == LET c == cow[Owner[s]] IN
              IF c.at = "copy" /\ c.op.s = s THEN text[c.old] ELSE Text(s)
Contents == [s \in Strings |-> Seeming(s)]
Values == INSTANCE StringValues WITH value <- Contents, spoilt <- flaws # {}
ValuesSpec == Values!Spec

=============================================================================
