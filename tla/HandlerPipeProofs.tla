-------------------------- MODULE HandlerPipeProofs --------------------------
(***************************************************************************)
(* Types, the lock and the replies of HandlerPipe, for any buffer size,    *)
(* chunks, sessions and commands.                                          *)
(***************************************************************************)
EXTENDS HandlerPipe, SequenceTheorems, WellFoundedInduction, TLAPS

(* A set of naturals has a least element: the induction the proofs need. *)
LEMMA Least ==
  ASSUME NEW S, S \subseteq Nat, S # {}
  PROVE  \E n \in S : \A m \in S : n <= m
<1> DEFINE R == OpToRel(<, Nat)
<1>1. R = {ss \in Nat \X Nat : ss[1] < ss[2]}
  BY Zenon DEF OpToRel
<1>2. IsWellFoundedOn(R, Nat)
  BY NatLessThanWellFounded, Zenon
<1> HIDE DEF R
<1>3. PICK n \in S : \A m \in S : ~(<<m, n>> \in R)
  BY <1>2, WFMin
<1>4. \A m \in S : ~(m < n)
  BY <1>1, <1>3
<1> QED BY <1>4

(* Two elements more at the end of a sequence. *)
LEMMA TwoMore ==
  ASSUME NEW S, NEW s \in Seq(S), NEW v \in S, NEW w \in S, NEW n \in Nat, Len(s) = n, NEW r, r = (s \o <<v>>) \o <<w>>
  PROVE  /\ Len(r) = n + 2 /\ r[n + 1] = v /\ r[n + 2] = w
         /\ \A i \in 1..n : r[i] = s[i]
<1>1. /\ s \o <<v>> = Append(s, v) /\ Append(s, v) \in Seq(S)
      /\ Append(s, v) \o <<w>> = Append(Append(s, v), w)
  BY AppendIsConcat, AppendProperties
<1>3. /\ Append(s, v) \in Seq(S) /\ Len(Append(s, v)) = n + 1 /\ Append(s, v)[n + 1] = v
      /\ \A i \in 1..n : Append(s, v)[i] = s[i]
  BY AppendProperties
<1>4. /\ Len(r) = n + 2 /\ r[n + 2] = w /\ \A i \in 1..(n + 1) : r[i] = Append(s, v)[i]
  <2>1. r = Append(Append(s, v), w)
    BY <1>1
  <2>2. n + 1 + 1 = n + 2
    OBVIOUS
  <2> QED BY <1>3, <2>1, <2>2, AppendProperties
<1>5. n + 1 \in 1..(n + 1) /\ \A i \in 1..n : i \in 1..(n + 1)
  OBVIOUS
<1> QED BY <1>3, <1>4, <1>5

(* An answer is one word or none. *)
LEMMA AnswerShape ==
  ASSUME NEW l
  PROVE  /\ Answer(l) = <<>> \/ \E w \in {"list", "ok", "error"} : Answer(l) = <<w>>
         /\ Answer(l) \in Seq({"list", "ok", "error"})
         /\ Len(Answer(l)) \in {0, 1}
<1>1. Answer(l) = <<>> \/ \E w \in {"list", "ok", "error"} : Answer(l) = <<w>>
  BY DEF Answer
<1>2. CASE Answer(l) = <<>>
  BY <1>1, <1>2
<1>3. ASSUME NEW w \in {"list", "ok", "error"}, Answer(l) = <<w>>
      PROVE  Answer(l) \in Seq({"list", "ok", "error"}) /\ Len(Answer(l)) = 1
  <2>1. <<w>> \in Seq({"list", "ok", "error"}) /\ Len(<<w>>) = 1
    OBVIOUS
  <2> QED BY <1>3, <2>1
<1> QED BY <1>1, <1>2, <1>3

-----------------------------------------------------------------------------
(* Types and the lock *)

(* What the reader is at while there are attempts left, a pipe, a lock. *)
Stopping ==
  /\ pc = "connect" => tries < Retries
  /\ stopper # "idle" => ~running
  /\ stopper = "idle" /\ ~running => pc = "off"
  /\ stopper = "joined" => pc \in {"off", "done"}
  /\ lock = "deleted" => stopper \in {"joined", "late"}

TypeInv == TypeOK /\ Stopping /\ LockOutlivesReader

LEMMA TypeInit == Init => TypeInv
BY PipeAssumption, EmptySeq DEF Init, TypeInv, TypeOK, Stopping, LockOutlivesReader, Cells, Letters

(* Reading takes cells from the front of what was sent. *)
LEMMA ReadTakes ==
  ASSUME TypeOK
  PROVE  /\ ReadCount \in 0..Len(inbox) /\ Len(inbox) \in Nat
         /\ SubSeq(inbox, ReadCount + 1, Len(inbox)) \in Seq(Cells)
         /\ Len(SubSeq(inbox, ReadCount + 1, Len(inbox))) = Len(inbox) - ReadCount
         /\ \A i \in 1..(Len(inbox) - ReadCount) :
              SubSeq(inbox, ReadCount + 1, Len(inbox))[i] = inbox[i + ReadCount]
         /\ \A i \in 1..Len(inbox) : inbox[i] \in Cells
<1>1. inbox \in Seq(Cells) /\ Len(inbox) \in Nat /\ \A i \in 1..Len(inbox) : inbox[i] \in Cells
  BY LenProperties, ElementOfSeq DEF TypeOK
<1>2. ReadCount \in 0..Len(inbox)
  BY <1>1, PipeAssumption DEF ReadCount
<1>3. \A i \in (ReadCount + 1)..Len(inbox) : inbox[i] \in Cells
  BY <1>1, <1>2
<1>4. CASE ReadCount < Len(inbox)
  <2>1. ReadCount + 1 \in Int /\ Len(inbox) \in Int /\ ReadCount + 1 <= Len(inbox) + 1
    BY <1>1, <1>2, <1>4
  <2> QED BY <1>1, <1>2, <1>3, <1>4, <2>1, SubSeqProperties
<1>5. CASE ReadCount = Len(inbox)
  <2>1. ReadCount + 1 > Len(inbox)
    BY <1>1, <1>5
  <2> QED BY <1>1, <1>2, <1>3, <1>5, <2>1, SubSeqProperties
<1> QED BY <1>1, <1>2, <1>4, <1>5

(* Writing an answer leaves a sequence of answers and line ends. *)
LEMMA WriteType ==
  ASSUME TypeOK, NEW l, Write(Answer(l))
  PROVE  replies' \in Seq({"list", "ok", "error", NL}) /\ lost' \in BOOLEAN
<1> DEFINE W == {"list", "ok", "error", NL}
<1>1. Answer(l) \in Seq(W) /\ replies \in Seq(W)
  BY AnswerShape, SeqMonotonic DEF TypeOK
<1>2. replies \o Answer(l) \in Seq(W)
  BY <1>1, ConcatProperties
<1>3. (replies \o Answer(l)) \o <<NL>> \in Seq(W)
  <2>1. <<NL>> \in Seq(W)
    OBVIOUS
  <2> QED BY <1>2, <2>1, ConcatProperties
<1>4. /\ replies' = replies \/ replies' = replies \o Answer(l)
         \/ replies' = (replies \o Answer(l)) \o <<NL>>
      /\ lost' = lost \/ lost' = TRUE
  BY DEF Write
<1> QED BY <1>1, <1>2, <1>3, <1>4 DEF TypeOK

LEMMA TypeStep == TypeInv /\ [Next]_vars => TypeInv'
<1> SUFFICES ASSUME TypeOK, Stopping, LockOutlivesReader, [Next]_vars PROVE TypeInv'
  BY DEF TypeInv
<1> USE PipeAssumption
<1>1. CASE Start
  BY <1>1 DEF Start, TypeInv, TypeOK, Stopping, LockOutlivesReader, session, sender, nav, flaws
<1>2. CASE Enter
  BY <1>2 DEF Enter, TypeInv, TypeOK, Stopping, LockOutlivesReader, stop, session, sender, nav, flaws
<1>3. CASE ConnectOpens
  BY <1>3, EmptySeq DEF ConnectOpens, TypeInv, TypeOK, Stopping, LockOutlivesReader, stop, nav, flaws
<1>4. CASE ConnectFails
  BY <1>4 DEF ConnectFails, TypeInv, TypeOK, Stopping, LockOutlivesReader, stop, session, sender, nav, flaws
<1>5. CASE ConnectWakes
  BY <1>5 DEF ConnectWakes, TypeInv, TypeOK, Stopping, LockOutlivesReader, stop, session, sender, nav, flaws
<1>6. CASE ReadChunkKept
  <2>1. /\ ReadCount \in 0..Len(inbox) /\ len + ReadCount < BufferSize /\ len \in Nat
        /\ \A i \in 1..Len(inbox) : inbox[i] \in Cells
        /\ inbox' \in Seq(Cells)
    <3>1. ReadCount \in 0..Len(inbox) /\ Len(inbox) \in Nat /\ len \in Nat
      BY ReadTakes DEF TypeOK
    <3>2. ~(len + ReadCount >= BufferSize)
      BY <1>6 DEF ReadChunkKept, Full
    <3>3. inbox' \in Seq(Cells)
      BY <1>6, ReadTakes DEF ReadChunkKept
    <3> QED BY <3>1, <3>2, <3>3, ReadTakes
  <2>2. buf' = [i \in 0..(BufferSize - 1) |->
                  IF i \in len..(len + ReadCount - 1) THEN inbox[i - len + 1] ELSE buf[i]]
    BY <1>6 DEF ReadChunkKept, TypeOK
  <2>3. \A i \in len..(len + ReadCount - 1) : inbox[i - len + 1] \in Cells
    BY <2>1
  <2>4. buf' \in [0..(BufferSize - 1) -> Cells \cup {NUL}] /\ buf'[BufferSize - 1] = NUL
    BY <2>1, <2>2, <2>3 DEF TypeOK
  <2>5. len' \in 0..(BufferSize - 1)
    BY <1>6, <2>1 DEF ReadChunkKept
  <2> QED BY <1>6, <2>1, <2>4, <2>5
       DEF ReadChunkKept, TypeInv, TypeOK, Stopping, LockOutlivesReader, stop, session, nav, flaws
<1>7. CASE ReadChunkDropped
  <2>1. inbox' \in Seq(Cells)
    BY <1>7, ReadTakes DEF ReadChunkDropped
  <2> QED BY <1>7, <2>1 DEF ReadChunkDropped, TypeInv, TypeOK, Stopping, LockOutlivesReader, stop, session, nav
<1>8. CASE ReadNothing
  BY <1>8 DEF ReadNothing, TypeInv, TypeOK, Stopping, LockOutlivesReader, stop, session, sender, nav, flaws
<1>9. CASE ReadBroken
  <2>1. /\ connected' = FALSE /\ len' = 0 /\ peer' = "absent" /\ pc = "read" /\ pc' = "outside"
        /\ UNCHANGED <<buf, start, tries, stop, session, inbox, cells, sessions, nav, overflowed>>
    BY <1>9 DEF ReadBroken, Closed
  <2>2. 0 \in 0..(BufferSize - 1)
    OBVIOUS
  <2>3. stale' \in BOOLEAN
    BY <1>9, Zenon DEF ReadBroken, TypeOK
  <2> QED BY <2>1, <2>2, <2>3 DEF TypeInv, TypeOK, Stopping, LockOutlivesReader, stop, session, nav
<1>10. CASE Consume
  <2>1. PICK end \in LineEnds :
          /\ buf' = [buf EXCEPT ![end] = NUL]
          /\ start' = end + 1
          /\ Write(Answer(LineUpTo(end)))
          /\ enqueued' = IF IsNav(LineUpTo(end)) THEN enqueued + 1 ELSE enqueued
    BY <1>10 DEF Consume
  <2>2. end \in 0..(BufferSize - 1) /\ buf[end] = NL
    BY <2>1 DEF LineEnds, IsLineEnd, TypeOK
  <2>3. end + 1 \in 0..BufferSize
    BY <2>2
  <2>4. replies' \in Seq({"list", "ok", "error", NL}) /\ lost' \in BOOLEAN
    BY <2>1, WriteType
  <2>5. buf' \in [0..(BufferSize - 1) -> Cells \cup {NUL}] /\ buf'[BufferSize - 1] = NUL
    BY <2>1, <2>2 DEF TypeOK
  <2>6. enqueued' \in Nat
    BY <2>1 DEF TypeOK
  <2> QED BY <1>10, <2>1, <2>3, <2>4, <2>5, <2>6
       DEF Consume, TypeInv, TypeOK, Stopping, LockOutlivesReader, stop, sender, flaws
<1>11. CASE ScanEnds
  <2>1. CASE pc' = "crashed" /\ UNCHANGED <<buf, len>>
    BY <1>11, <2>1 DEF ScanEnds, TypeInv, TypeOK, Stopping, LockOutlivesReader, stop, session, sender, nav, flaws
  <2>2. CASE /\ Remaining >= 0 /\ len' = Remaining /\ pc' = "outside"
             /\ buf' = [i \in DOMAIN buf |-> IF i < Remaining THEN buf[start + i] ELSE buf[i]]
    <3>1. Remaining \in 0..(BufferSize - 1) /\ start \in Nat /\ start + Remaining = len
      BY <2>2 DEF Remaining, TypeOK
    <3>2. \A i \in 0..(BufferSize - 1) : i < Remaining => start + i \in 0..(BufferSize - 1)
      BY <3>1 DEF TypeOK
    <3>3. buf' \in [0..(BufferSize - 1) -> Cells \cup {NUL}] /\ buf'[BufferSize - 1] = NUL
      BY <2>2, <3>1, <3>2 DEF TypeOK
    <3> QED BY <1>11, <2>2, <3>1, <3>3
         DEF ScanEnds, TypeInv, TypeOK, Stopping, LockOutlivesReader, stop, session, sender, nav, flaws
  <2> QED BY <1>11, <2>1, <2>2 DEF ScanEnds
<1>12. CASE StopBegins \/ StopWaits
  <2>1. /\ UNCHANGED <<reader, lock, session, sender, nav, flaws>>
        /\ running' \in BOOLEAN /\ stopper' \in {"waiting", "joined", "late"}
        /\ ~running' /\ (stopper' = "joined" => pc \in {"off", "done"})
        /\ lock = "live" /\ stopper \notin {"joined", "late"}
    <3>1. CASE StopBegins
      BY <3>1 DEF StopBegins, Stopping, TypeOK
    <3>2. CASE StopWaits
      <4>1. stopper = "waiting" /\ ~running /\ lock = "live"
        BY <3>2 DEF StopWaits, Stopping, TypeOK
      <4> QED BY <3>2, <4>1 DEF StopWaits, Joined, TypeOK
    <3> QED BY <1>12, <3>1, <3>2
  <2>2. pc # "undefined"
    BY <2>1 DEF LockOutlivesReader
  <2> QED BY <2>1, <2>2 DEF TypeInv, TypeOK, Stopping, LockOutlivesReader, reader, session, sender, nav, flaws
<1>13. CASE StopReturns
  <2>1. /\ connected' = FALSE /\ len' = 0 /\ lock' = "deleted" /\ stopper' \in {"joined", "late"}
        /\ peer' \in {"absent", "listening", "open", "hung"} /\ stopper' = stopper
        /\ UNCHANGED <<buf, start, pc, tries, running, session, inbox, cells, sessions, nav, flaws>>
    BY <1>13 DEF StopReturns, Closed, TypeOK
  <2>2. 0 \in 0..(BufferSize - 1)
    OBVIOUS
  <2> QED BY <2>1, <2>2 DEF TypeInv, TypeOK, Stopping, LockOutlivesReader, session, nav, flaws
<1>14. CASE Listen \/ HangUp
  <2>1. /\ peer' \in {"listening", "hung"} /\ sessions' \in 0..MaxSessions
        /\ UNCHANGED <<reader, stop, session, inbox, cells, nav, flaws>>
    BY <1>14 DEF Listen, HangUp, TypeOK
  <2> QED BY <2>1 DEF TypeInv, TypeOK, Stopping, LockOutlivesReader, reader, stop, session, nav, flaws
<1>15. ASSUME NEW cell \in Cells, Send(cell) PROVE TypeInv'
  <2>1. inbox' \in Seq(Cells)
    BY <1>15, AppendProperties DEF Send, TypeOK
  <2>2. due' \in Seq({"list", "ok", "error"})
    BY <1>15, AnswerShape, ConcatProperties DEF Send, TypeOK
  <2>3. line' \in Seq(Letters)
    <3>1. cell = NL \/ cell \in Letters
      BY DEF Cells
    <3>2. line' = <<>> \/ (cell \in Letters /\ line' = Append(line, cell))
      BY <1>15, <3>1 DEF Send
    <3>3. <<>> \in Seq(Letters)
      OBVIOUS
    <3>4. cell \in Letters => Append(line, cell) \in Seq(Letters)
      BY AppendProperties DEF TypeOK
    <3> QED BY <3>2, <3>3, <3>4
  <2>4. asked' \in Nat /\ cells' \in 0..MaxCells
    BY <1>15 DEF Send, TypeOK
  <2> QED BY <1>15, <2>1, <2>2, <2>3, <2>4
       DEF Send, TypeInv, TypeOK, Stopping, LockOutlivesReader, reader, stop, flaws
<1>16. CASE UNCHANGED vars
  BY <1>16 DEF vars, reader, stop, session, sender, nav, flaws, TypeInv, TypeOK, Stopping, LockOutlivesReader
<1> QED BY <1>1, <1>2, <1>3, <1>4, <1>5, <1>6, <1>7, <1>8, <1>9, <1>10, <1>11, <1>12, <1>13, <1>14,
           <1>15, <1>16 DEF Next, ReaderNext
-----------------------------------------------------------------------------
(* Lines of a stream s of n cells.  A line lies between two edges: the     *)
(* start of the stream or a line end, and the next line end.               *)
Breaks(s, n) == {j \in 1..n : s[j] = NL}
Edges(s, n)  == {0} \cup Breaks(s, n)
Whole(s, p, j) == p < j /\ \A i \in (p + 1)..(j - 1) : s[i] # NL
Part(s, p, j)  == [i \in 1..(j - p - 1) |-> s[p + i]]
Asks(l) == IF IsNav(l) THEN 1 ELSE 0

(* d counts, at each edge, the answers owed (w) for the lines before it, a *)
(* the navigation commands (of q asked for); behind the last edge z is ln, *)
(* the unfinished line.                                                    *)
Parsed(s, n, w, q, ln, d, a, z) ==
  /\ d \in [0..n -> Nat] /\ a \in [0..n -> Nat]
  /\ z \in Edges(s, n) /\ Whole(s, z, n + 1) /\ d[z] = Len(w) /\ ln = Part(s, z, n + 1)
  /\ \A p \in Edges(s, n) : d[p] <= Len(w) /\ a[p] <= q
  /\ \A p \in Edges(s, n), j \in Breaks(s, n) : Whole(s, p, j) =>
       /\ d[j] = d[p] + Len(Answer(Part(s, p, j)))
       /\ a[j] = a[p] + Asks(Part(s, p, j))
       /\ Answer(Part(s, p, j)) # <<>> => w[d[p] + 1] = Answer(Part(s, p, j))[1]

Words == {"list", "ok", "error"}

(* Nor does it depend on where the stream begins. *)
Follows(r, s, p, j, x) == \A i \in (p + 1)..(j - 1) : r[i] = s[x - p + i]

LEMMA ShiftedPart ==
  ASSUME NEW s, NEW r, NEW p \in Nat, NEW j \in Nat, NEW x \in Nat, NEW y \in Nat,
         y - x = j - p, Follows(r, s, p, j, x)
  PROVE  Part(r, p, j) = Part(s, x, y) /\ (Whole(r, p, j) <=> Whole(s, x, y))
<1>1. y - x - 1 = j - p - 1 /\ (x < y <=> p < j)
  OBVIOUS
<1>2. ASSUME NEW i \in 1..(j - p - 1) PROVE r[p + i] = s[x + i]
  <2>1. p + i \in (p + 1)..(j - 1) /\ x - p + (p + i) = x + i
    OBVIOUS
  <2>2. r[p + i] = s[x - p + (p + i)]
    BY <2>1 DEF Follows
  <2> QED BY <2>1, <2>2
<1>3. Part(r, p, j) = Part(s, x, y)
  BY <1>1, <1>2 DEF Part
<1>4. \A i \in (x + 1)..(y - 1) : i - x + p \in (p + 1)..(j - 1) /\ x - p + (i - x + p) = i
  OBVIOUS
<1>5. \A i \in (p + 1)..(j - 1) : x - p + i \in (x + 1)..(y - 1)
  OBVIOUS
<1>6. (\A i \in (p + 1)..(j - 1) : r[i] # NL) <=> (\A i \in (x + 1)..(y - 1) : s[i] # NL)
  BY <1>4, <1>5 DEF Follows
<1> QED BY <1>1, <1>3, <1>6 DEF Whole

(* What lies between two edges depends on no other cell. *)
LEMMA PartKept ==
  ASSUME NEW s, NEW r, NEW n \in Nat, \A i \in 1..n : r[i] = s[i],
         NEW p \in 0..n, NEW j \in 1..(n + 1)
  PROVE  Part(r, p, j) = Part(s, p, j) /\ (Whole(r, p, j) <=> Whole(s, p, j))
<1>1. \A i \in 1..(j - p - 1) : r[p + i] = s[p + i]
  OBVIOUS
<1>2. Part(r, p, j) = Part(s, p, j)
  BY <1>1 DEF Part
<1>3. \A i \in (p + 1)..(j - 1) : r[i] = s[i]
  OBVIOUS
<1> QED BY <1>2, <1>3 DEF Whole

(* The cells of a part, as of a sequence. *)
LEMMA PartLength ==
  ASSUME NEW n \in Nat, NEW s, NEW z \in 0..n, NEW ln \in Seq(Letters), ln = Part(s, z, n + 1)
  PROVE  Len(ln) = n - z /\ \A i \in 1..(n - z) : ln[i] = s[z + i]
<1>1. n + 1 - z - 1 = n - z /\ n - z \in Nat
  OBVIOUS
<1>2. ln = [i \in 1..(n - z) |-> s[z + i]]
  BY <1>1 DEF Part
<1>3. DOMAIN ln = 1..(n - z)
  BY <1>2
<1>4. Len(ln) \in Nat /\ DOMAIN ln = 1..Len(ln)
  BY LenProperties
<1>5. Len(ln) = n - z
  BY <1>1, <1>3, <1>4
<1> QED BY <1>2, <1>5

(* r is the stream s with one cell more. *)
Grown(s, n, c, r) ==
  /\ s \in [1..n -> Cells] /\ r \in [1..(n + 1) -> Cells]
  /\ (\A i \in 1..n : r[i] = s[i]) /\ r[n + 1] = c

(* A letter makes the unfinished line longer. *)
LEMMA LetterParsed ==
  ASSUME NEW n \in Nat, NEW s, NEW w \in Seq(Words), NEW q \in Nat, NEW ln \in Seq(Letters),
         NEW d, NEW a, NEW z, Parsed(s, n, w, q, ln, d, a, z),
         NEW c \in Letters, NEW r, Grown(s, n, c, r)
  PROVE  \E e, b : Parsed(r, n + 1, w, q, Append(ln, c), e, b, z) /\ e[0] = d[0] /\ b[0] = a[0]
<1> DEFINE e == [j \in 0..(n + 1) |-> IF j <= n THEN d[j] ELSE 0]
           b == [j \in 0..(n + 1) |-> IF j <= n THEN a[j] ELSE 0]
<1>0. /\ d \in [0..n -> Nat] /\ a \in [0..n -> Nat] /\ z \in 0..n
      /\ z \in Edges(s, n) /\ Whole(s, z, n + 1) /\ d[z] = Len(w) /\ ln = Part(s, z, n + 1)
  BY DEF Parsed, Edges, Breaks
<1>r. s \in [1..n -> Cells] /\ r \in [1..(n + 1) -> Cells] /\ (\A i \in 1..n : r[i] = s[i]) /\ r[n + 1] = c
  BY DEF Grown
<1>1. e \in [0..(n + 1) -> Nat] /\ b \in [0..(n + 1) -> Nat]
  BY <1>0
<1>2. \A j \in 0..n : e[j] = d[j] /\ b[j] = a[j]
  OBVIOUS
<1> HIDE DEF e, b
<1>3. c # NL
  BY DEF Letters, NL
<1>4. Breaks(r, n + 1) = Breaks(s, n)
  BY <1>r, <1>3 DEF Breaks
<1>5. Edges(r, n + 1) = Edges(s, n) /\ Edges(s, n) \subseteq 0..n /\ Breaks(s, n) \subseteq 1..n
  BY <1>4 DEF Edges, Breaks
<1>6. Whole(r, z, n + 2)
  <2>1. z < n + 2 /\ \A i \in (z + 1)..n : i \in (z + 1)..(n + 1 - 1) /\ i \in 1..n
    BY <1>0
  <2>2. \A i \in (z + 1)..n : r[i] # NL
    BY <1>r, <1>0, <2>1 DEF Whole
  <2>3. \A i \in (z + 1)..(n + 2 - 1) : i \in (z + 1)..n \/ i = n + 1
    BY <1>0
  <2> QED BY <1>r, <1>3, <2>1, <2>2, <2>3 DEF Whole
<1>7. Append(ln, c) = Part(r, z, n + 2)
  <2>1. ln \in Seq(Letters) /\ Len(ln) = n - z /\ \A i \in 1..(n - z) : ln[i] = s[z + i]
    <3>1. ln \in Seq(Letters) /\ ln = Part(s, z, n + 1) /\ z \in 0..n
      BY <1>0
    <3> QED BY <3>1, PartLength
  <2>2. /\ Append(ln, c) \in Seq(Letters) /\ Len(Append(ln, c)) = n - z + 1
        /\ Append(ln, c)[n - z + 1] = c /\ \A i \in 1..(n - z) : Append(ln, c)[i] = s[z + i]
    BY <2>1, AppendProperties
  <2>3. DOMAIN Append(ln, c) = 1..(n - z + 1) /\ Append(ln, c) = [i \in 1..(n - z + 1) |-> Append(ln, c)[i]]
    BY <2>2, LenProperties
  <2>4. ASSUME NEW i \in 1..(n - z + 1) PROVE Append(ln, c)[i] = r[z + i]
    <3>1. CASE i = n - z + 1
      <4>1. z + i = n + 1
        BY <1>0, <3>1
      <4> QED BY <1>r, <2>2, <3>1, <4>1
    <3>2. CASE i # n - z + 1
      <4>1. i \in 1..(n - z) /\ z + i \in 1..n
        BY <1>0, <3>2
      <4> QED BY <1>r, <2>2, <4>1
    <3> QED BY <3>1, <3>2
  <2>5. Part(r, z, n + 2) = [i \in 1..(n - z + 1) |-> r[z + i]]
    BY <1>0 DEF Part
  <2> QED BY <2>3, <2>4, <2>5
<1>8. \A p \in Edges(s, n) : e[p] <= Len(w) /\ b[p] <= q
  BY <1>2, <1>5 DEF Parsed
<1>9. ASSUME NEW p \in Edges(s, n), NEW j \in Breaks(s, n), Whole(r, p, j)
      PROVE  /\ e[j] = e[p] + Len(Answer(Part(r, p, j)))
             /\ b[j] = b[p] + Asks(Part(r, p, j))
             /\ Answer(Part(r, p, j)) # <<>> => w[e[p] + 1] = Answer(Part(r, p, j))[1]
  <2>1. p \in 0..n /\ j \in 1..n /\ j \in 1..(n + 1)
    BY <1>5
  <2>2. Part(r, p, j) = Part(s, p, j) /\ Whole(s, p, j)
    BY <1>r, <1>9, <2>1, PartKept
  <2>3. e[p] = d[p] /\ e[j] = d[j] /\ b[p] = a[p] /\ b[j] = a[j]
    BY <1>2, <2>1
  <2> QED BY <2>2, <2>3 DEF Parsed
<1>10. Parsed(r, n + 1, w, q, Append(ln, c), e, b, z)
  <2>1. e[z] = Len(w) /\ (n + 1) + 1 = n + 2
    BY <1>0, <1>2
  <2> QED BY <1>0, <1>1, <1>4, <1>5, <1>6, <1>7, <1>8, <1>9, <2>1 DEF Parsed
<1> QED BY <1>2, <1>10

(* A line end owes the answer of the unfinished line and starts a new one. *)
LEMMA LineParsed ==
  ASSUME NEW n \in Nat, NEW s, NEW w \in Seq(Words), NEW q \in Nat, NEW ln \in Seq(Letters),
         NEW d, NEW a, NEW z, Parsed(s, n, w, q, ln, d, a, z),
         NEW r, Grown(s, n, NL, r)
  PROVE  \E e, b : /\ Parsed(r, n + 1, w \o Answer(ln), q + Asks(ln), <<>>, e, b, n + 1)
                   /\ e[0] = d[0] /\ b[0] = a[0]
<1> DEFINE w2 == w \o Answer(ln)
           e == [j \in 0..(n + 1) |-> IF j <= n THEN d[j] ELSE Len(w2)]
           b == [j \in 0..(n + 1) |-> IF j <= n THEN a[j] ELSE a[z] + Asks(ln)]
<1>0. /\ d \in [0..n -> Nat] /\ a \in [0..n -> Nat] /\ z \in 0..n
      /\ z \in Edges(s, n) /\ Whole(s, z, n + 1) /\ d[z] = Len(w) /\ ln = Part(s, z, n + 1)
      /\ a[z] \in Nat /\ Asks(ln) \in {0, 1} /\ a[z] <= q
  BY DEF Parsed, Edges, Breaks, Asks
<1>r. s \in [1..n -> Cells] /\ r \in [1..(n + 1) -> Cells] /\ (\A i \in 1..n : r[i] = s[i]) /\ r[n + 1] = NL
  BY DEF Grown
<1>1. /\ w2 \in Seq(Words) /\ Len(w) \in Nat /\ Len(Answer(ln)) \in {0, 1}
      /\ Len(w2) = Len(w) + Len(Answer(ln))
      /\ \A i \in 1..Len(w) : w2[i] = w[i]
      /\ Answer(ln) # <<>> => Len(Answer(ln)) = 1 /\ w2[Len(w) + 1] = Answer(ln)[1]
  <2>1. Answer(ln) \in Seq(Words) /\ Len(Answer(ln)) \in {0, 1}
    BY AnswerShape DEF Words
  <2>2. Answer(ln) # <<>> => Len(Answer(ln)) = 1
    BY <2>1, EmptySeq
  <2>3. /\ w2 \in Seq(Words) /\ Len(w2) = Len(w) + Len(Answer(ln))
        /\ \A i \in 1..(Len(w) + Len(Answer(ln))) :
             w2[i] = IF i <= Len(w) THEN w[i] ELSE Answer(ln)[i - Len(w)]
    BY <2>1, ConcatProperties
  <2>4. Len(w) \in Nat
    BY LenProperties
  <2> HIDE DEF w2
  <2>5. \A i \in 1..Len(w) : w2[i] = w[i]
    BY <2>1, <2>3, <2>4
  <2>6. Answer(ln) # <<>> => w2[Len(w) + 1] = Answer(ln)[1]
    <3>1. Len(w) + 1 - Len(w) = 1 /\ ~(Len(w) + 1 <= Len(w))
      BY <2>4
    <3>2. Answer(ln) # <<>> => Len(w) + 1 \in 1..(Len(w) + Len(Answer(ln)))
      BY <2>2, <2>4
    <3> QED BY <2>3, <3>1, <3>2
  <2> QED BY <2>1, <2>2, <2>3, <2>4, <2>5, <2>6
<1>2. e \in [0..(n + 1) -> Nat] /\ b \in [0..(n + 1) -> Nat]
  <2>1. Len(w2) \in Nat /\ a[z] + Asks(ln) \in Nat
    BY <1>0, <1>1
  <2>2. \A j \in 0..(n + 1) : j <= n => j \in 0..n
    OBVIOUS
  <2> HIDE DEF w2
  <2> QED BY <1>0, <2>1, <2>2
<1>3. /\ \A j \in 0..n : e[j] = d[j] /\ b[j] = a[j]
      /\ e[n + 1] = Len(w2) /\ b[n + 1] = a[z] + Asks(ln)
  OBVIOUS
<1> HIDE DEF e, b, w2
<1>4. Breaks(r, n + 1) = Breaks(s, n) \cup {n + 1}
  BY <1>r DEF Breaks
<1>5. /\ Edges(r, n + 1) = Edges(s, n) \cup {n + 1}
      /\ Edges(s, n) \subseteq 0..n /\ Breaks(s, n) \subseteq 1..n
  BY <1>4 DEF Edges, Breaks
<1>6. Whole(r, n + 1, n + 2) /\ <<>> = Part(r, n + 1, n + 2)
  <2>1. n + 2 - (n + 1) - 1 = 0
    OBVIOUS
  <2>2. Part(r, n + 1, n + 2) = [i \in 1..0 |-> r[n + 1 + i]]
    BY <2>1 DEF Part
  <2> QED BY <2>2 DEF Whole
<1>7. \A p \in Edges(r, n + 1) : e[p] <= Len(w2) /\ b[p] <= q + Asks(ln)
  <2>1. ASSUME NEW p \in Edges(s, n) PROVE e[p] <= Len(w2) /\ b[p] <= q + Asks(ln)
    <3>1. d[p] <= Len(w) /\ a[p] <= q /\ p \in 0..n
      BY <1>5 DEF Parsed
    <3>2. e[p] = d[p] /\ b[p] = a[p]
      BY <3>1, <1>3
    <3>3. d[p] \in Nat /\ a[p] \in Nat
      BY <3>1, <1>0
    <3> QED BY <3>1, <3>2, <3>3, <1>0, <1>1
  <2>2. e[n + 1] <= Len(w2) /\ b[n + 1] <= q + Asks(ln)
    BY <1>0, <1>1, <1>3
  <2> QED BY <1>5, <2>1, <2>2
<1>8. ASSUME NEW p \in Edges(r, n + 1), NEW j \in Breaks(r, n + 1), Whole(r, p, j)
      PROVE  /\ e[j] = e[p] + Len(Answer(Part(r, p, j)))
             /\ b[j] = b[p] + Asks(Part(r, p, j))
             /\ Answer(Part(r, p, j)) # <<>> => w2[e[p] + 1] = Answer(Part(r, p, j))[1]
  <2>1. p < j /\ j \in 1..(n + 1) /\ p \in 0..n /\ p \in Edges(s, n)
    BY <1>4, <1>5, <1>8 DEF Whole
  <2>2. Part(r, p, j) = Part(s, p, j) /\ Whole(s, p, j)
    BY <1>r, <1>8, <2>1, PartKept
  <2>3. CASE j \in Breaks(s, n)
    <3>1. j \in 0..n
      BY <1>5, <2>3
    <3>2. e[p] = d[p] /\ e[j] = d[j] /\ b[p] = a[p] /\ b[j] = a[j]
      BY <1>3, <2>1, <3>1
    <3>3. /\ d[j] = d[p] + Len(Answer(Part(s, p, j))) /\ d[j] <= Len(w) /\ d[p] \in Nat
          /\ a[j] = a[p] + Asks(Part(s, p, j))
          /\ Answer(Part(s, p, j)) # <<>> => w[d[p] + 1] = Answer(Part(s, p, j))[1]
      <4>1. j \in Edges(s, n)
        BY <2>3 DEF Edges
      <4> QED BY <1>0, <2>1, <2>2, <2>3, <4>1 DEF Parsed
    <3>4. Answer(Part(s, p, j)) # <<>> => d[p] + 1 \in 1..Len(w)
      <4>1. Answer(Part(s, p, j)) # <<>> => Len(Answer(Part(s, p, j))) = 1
        BY AnswerShape, EmptySeq
      <4> QED BY <1>1, <3>3, <4>1
    <3> QED BY <1>1, <2>2, <3>2, <3>3, <3>4
  <2>4. CASE j = n + 1
    <3>1. z = p
      <4>1. z > p => s[z] = NL
        BY <1>0, <2>1 DEF Edges, Breaks
      <4>2. ~(z > p)
        BY <1>0, <2>1, <2>2, <2>4, <4>1 DEF Whole
      <4>3. p > z => s[p] = NL
        BY <1>0, <2>1 DEF Edges, Breaks
      <4>4. ~(p > z)
        BY <1>0, <2>1, <2>4, <4>3 DEF Whole
      <4> QED BY <1>0, <2>1, <4>2, <4>4
    <3>2. Part(r, p, j) = ln
      BY <1>0, <2>2, <2>4, <3>1
    <3>3. e[p] = Len(w) /\ b[p] = a[z] /\ e[j] = Len(w2) /\ b[j] = a[z] + Asks(ln)
      BY <1>0, <1>3, <2>1, <2>4, <3>1
    <3> QED BY <1>1, <3>2, <3>3
  <2> QED BY <1>4, <2>3, <2>4
<1>9. Parsed(r, n + 1, w2, q + Asks(ln), <<>>, e, b, n + 1)
  <2>1. n + 1 + 1 = n + 2 /\ n + 1 \in Edges(r, n + 1)
    BY <1>5
  <2> QED BY <1>2, <1>3, <1>6, <1>7, <1>8, <2>1 DEF Parsed
<1> QED BY <1>0, <1>3, <1>9 DEF w2

(* r is what is left of the stream s without its first k cells. *)
Behind(s, n, k, r) ==
  r \in [1..(n - k) -> Cells] /\ \A i \in 1..(n - k) : r[i] = s[k + i]

(* Without its first line the stream is parsed as before, the counts moved *)
(* to what is left of it.                                                  *)
LEMMA DropsLine ==
  ASSUME NEW n \in Nat, NEW s \in [1..n -> Cells], NEW w \in Seq(Words), NEW q \in Nat, NEW ln \in Seq(Letters),
         NEW d, NEW a, NEW z, Parsed(s, n, w, q, ln, d, a, z),
         NEW k \in 1..n, s[k] = NL, Whole(s, 0, k),
         NEW r, Behind(s, n, k, r)
  PROVE  \E e, b, y : Parsed(r, n - k, w, q, ln, e, b, y) /\ e[0] = d[k] /\ b[0] = a[k]
<1> DEFINE m == n - k
           e == [j \in 0..m |-> d[k + j]]
           b == [j \in 0..m |-> a[k + j]]
<1>0. /\ d \in [0..n -> Nat] /\ a \in [0..n -> Nat] /\ z \in 0..n /\ k \in 1..n /\ s[k] = NL
      /\ z \in Edges(s, n) /\ Whole(s, z, n + 1) /\ d[z] = Len(w) /\ ln = Part(s, z, n + 1)
  <2>1. /\ d \in [0..n -> Nat] /\ a \in [0..n -> Nat]
        /\ z \in Edges(s, n) /\ Whole(s, z, n + 1) /\ d[z] = Len(w) /\ ln = Part(s, z, n + 1)
    BY DEF Parsed
  <2>2. z \in 0..n /\ k \in 1..n /\ s[k] = NL
    BY <2>1 DEF Edges, Breaks
  <2> QED BY <2>1, <2>2
<1>r. r \in [1..(n - k) -> Cells] /\ \A i \in 1..(n - k) : r[i] = s[k + i]
  BY DEF Behind
<1>1. m \in Nat /\ m + k = n /\ z >= k
  <2>1. z < k => k \in (z + 1)..(n + 1 - 1)
    BY <1>0
  <2>2. \A i \in (z + 1)..(n + 1 - 1) : s[i] # NL
    BY <1>0 DEF Whole
  <2>3. ~(z < k)
    BY <1>0, <2>1, <2>2
  <2> QED BY <1>0, <2>3
<1>2. e \in [0..m -> Nat] /\ b \in [0..m -> Nat]
  <2>1. \A j \in 0..m : k + j \in 0..n
    BY <1>0, <1>1
  <2> QED BY <1>0, <2>1
<1>3. \A j \in 0..m : e[j] = d[k + j] /\ b[j] = a[k + j]
  OBVIOUS
<1> HIDE DEF e, b, m
<1>4. ASSUME NEW p \in Nat, NEW j \in Nat, p <= m, 1 <= j, j <= m + 1
      PROVE  Part(r, p, j) = Part(s, k + p, k + j) /\ (Whole(r, p, j) <=> Whole(s, k + p, k + j))
  <2>1. k \in Nat /\ p \in Nat /\ j \in Nat /\ k + p \in Nat /\ k + j \in Nat
    BY <1>0, <1>1, <1>4
  <2>2. \A i \in (p + 1)..(j - 1) : i \in 1..m
    BY <1>1, <1>4, <2>1
  <2>3. ASSUME NEW i \in (p + 1)..(j - 1) PROVE r[i] = s[(k + p) - p + i]
    <3>1. i \in 1..m
      BY <2>2
    <3>2. i \in 1..(n - k) /\ (k + p) - p + i = k + i
      BY <2>1, <3>1 DEF m
    <3> QED BY <1>r, <3>2
  <2>4. (k + j) - (k + p) = j - p /\ Follows(r, s, p, j, k + p)
    BY <2>1, <2>3 DEF Follows
  <2> QED BY <2>1, <2>4, ShiftedPart
<1>5. ASSUME NEW j \in Breaks(r, m) PROVE j \in 1..m /\ k + j \in Breaks(s, n)
  <2>1. j \in 1..(n - k) /\ r[j] = NL
    BY DEF Breaks, m
  <2>2. k + j \in 1..n /\ r[j] = s[k + j]
    BY <1>0, <1>r, <2>1
  <2> QED BY <2>1, <2>2 DEF Breaks, m
<1>6. \A p \in Edges(r, m) : p \in 0..m /\ k + p \in Edges(s, n)
  <2>1. 0 \in 0..m /\ k + 0 = k /\ k \in Edges(s, n)
    BY <1>0, <1>1 DEF Edges, Breaks
  <2>2. \A j \in 1..m : j \in 0..m
    BY <1>1
  <2> QED BY <1>5, <2>1, <2>2 DEF Edges
<1>7. z - k \in Edges(r, m) /\ z - k \in 0..m /\ k + (z - k) = z
  <2>1. z - k \in 0..m /\ k + (z - k) = z
    BY <1>0, <1>1
  <2>2. z = k \/ (z - k \in 1..m /\ s[k + (z - k)] = NL)
    BY <1>0, <1>1, <2>1 DEF Edges, Breaks
  <2>3. CASE z = k
    BY <1>0, <2>1, <2>3 DEF Edges
  <2>4. CASE z - k \in 1..m /\ s[k + (z - k)] = NL
    BY <1>r, <2>1, <2>4 DEF Edges, Breaks, m
  <2> QED BY <2>1, <2>2, <2>3, <2>4
<1>8. Whole(r, z - k, m + 1) /\ Part(r, z - k, m + 1) = ln
  <2>1. m + 1 \in 1..(m + 1) /\ k + (m + 1) = n + 1
    BY <1>0, <1>1
  <2>2. z - k \in Nat /\ m + 1 \in Nat /\ z - k <= m /\ 1 <= m + 1 /\ m + 1 <= m + 1
    BY <1>1, <1>7
  <2>3. /\ Part(r, z - k, m + 1) = Part(s, k + (z - k), k + (m + 1))
        /\ (Whole(r, z - k, m + 1) <=> Whole(s, k + (z - k), k + (m + 1)))
    BY <1>4, <2>2
  <2> QED BY <1>0, <1>7, <2>1, <2>3
<1>9. \A p \in Edges(r, m) : e[p] <= Len(w) /\ b[p] <= q
  BY <1>3, <1>6 DEF Parsed
<1>10. ASSUME NEW p \in Edges(r, m), NEW j \in Breaks(r, m), Whole(r, p, j)
      PROVE  /\ e[j] = e[p] + Len(Answer(Part(r, p, j)))
             /\ b[j] = b[p] + Asks(Part(r, p, j))
             /\ Answer(Part(r, p, j)) # <<>> => w[e[p] + 1] = Answer(Part(r, p, j))[1]
  <2>1. /\ p \in 0..m /\ j \in 1..m /\ j \in 0..m /\ j \in 1..(m + 1)
        /\ k + p \in Edges(s, n) /\ k + j \in Breaks(s, n)
    BY <1>1, <1>5, <1>6
  <2>2. Part(r, p, j) = Part(s, k + p, k + j) /\ Whole(s, k + p, k + j)
    BY <1>4, <1>10, <2>1
  <2>3. e[p] = d[k + p] /\ e[j] = d[k + j] /\ b[p] = a[k + p] /\ b[j] = a[k + j]
    BY <1>3, <2>1
  <2> QED BY <2>1, <2>2, <2>3 DEF Parsed
<1>11. Parsed(r, m, w, q, ln, e, b, z - k)
  <2>1. e[z - k] = Len(w)
    BY <1>0, <1>3, <1>7
  <2> QED BY <1>2, <1>7, <1>8, <1>9, <1>10, <2>1 DEF Parsed
<1>12. e[0] = d[k] /\ b[0] = a[k]
  <2>1. 0 \in 0..m /\ k + 0 = k
    BY <1>0, <1>1
  <2> QED BY <1>3, <2>1
<1> QED BY <1>11, <1>12 DEF m
-----------------------------------------------------------------------------
(* What the reader still has to look at, and where it is with the answers *)

(* The pending bytes begin at the line being looked at; behind them comes  *)
(* what is still in the pipe.                                              *)
Low    == IF pc = "scan" THEN start ELSE 0
Pend   == len - Low
Total  == Pend + Len(inbox)
Stream == [j \in 1..Total |-> IF j <= Pend THEN buf[Low + j - 1] ELSE inbox[j - Pend]]

(* There is no NUL among the pending bytes, which would hide a line end,   *)
(* and no line end outside of them, which would be found again.            *)
Window ==
  /\ Low <= len
  /\ \A i \in Low..(len - 1) : buf[i] # NUL
  /\ \A i \in 0..(BufferSize - 1) : buf[i] = NL => i \in Low..(len - 1) /\ pc \in {"read", "scan"}

(* The reader has a pipe as long as the controller is at its other end. *)
Plumbing ==
  /\ connected <=> peer \in {"open", "hung"}
  /\ pc \in {"connect", "asleep"} => ~connected
  /\ pc \in {"read", "scan"} => connected
  /\ ~connected => len = 0

(* The first n answers have been written, each behind it a line end. *)
Replied(r, w, n) ==
  /\ Len(r) = 2 * n
  /\ \A k \in 1..n : r[2 * k - 1] = w[k] /\ r[2 * k] = NL

(* What was written and queued is what is owed before the stream begins. *)
Answered ==
  \E d, a, z : /\ Parsed(Stream, Total, due, asked, line, d, a, z)
               /\ a[0] = enqueued
               /\ ~lost => Replied(replies, due, d[0])

Told ==
  /\ pc # "crashed" /\ enqueued <= asked
  /\ ~lost => \E n \in 0..Len(due) : Replied(replies, due, n)
  /\ connected => Answered

PipeInv == TypeInv /\ Plumbing /\ (Clean => Window /\ Told)

LEMMA PlumbingStep == TypeInv /\ Plumbing /\ [Next]_vars => Plumbing'
<1> SUFFICES ASSUME TypeOK, Stopping, Plumbing, [Next]_vars PROVE Plumbing'
  BY DEF TypeInv
<1>1. CASE Start \/ Enter \/ ConnectOpens \/ ConnectFails \/ ConnectWakes
  BY <1>1 DEF Start, Enter, ConnectOpens, ConnectFails, ConnectWakes, Plumbing, Stopping, TypeOK,
              stop, session, sender
<1>2. CASE ReadChunkKept \/ ReadChunkDropped \/ ReadNothing \/ ReadBroken
  BY <1>2 DEF ReadChunkKept, ReadChunkDropped, ReadNothing, ReadBroken, Closed, Plumbing, TypeOK,
              stop, session, sender
<1>3. CASE Consume \/ ScanEnds
  BY <1>3 DEF Consume, ScanEnds, Plumbing, TypeOK, stop, session, sender
<1>4. CASE StopBegins \/ StopWaits \/ StopReturns
  BY <1>4 DEF StopBegins, StopWaits, StopReturns, Closed, Plumbing, TypeOK, reader, session, sender
<1>5. CASE Listen \/ HangUp \/ \E cell \in Cells : Send(cell)
  BY <1>5 DEF Listen, HangUp, Send, Plumbing, TypeOK, reader, stop
<1>6. CASE UNCHANGED vars
  BY <1>6 DEF vars, reader, sender, Plumbing
<1> QED BY <1>1, <1>2, <1>3, <1>4, <1>5, <1>6 DEF Next, ReaderNext

(* The stream is a sequence of cells. *)
StreamCells ==
  /\ \A j \in 1..Pend : Stream[j] = buf[Low + j - 1]
  /\ \A j \in (Pend + 1)..Total : Stream[j] = inbox[j - Pend]

LEMMA StreamType ==
  ASSUME TypeOK, Window
  PROVE  /\ Low \in 0..len /\ len \in 0..(BufferSize - 1) /\ Pend = len - Low /\ Pend \in Nat
         /\ inbox \in Seq(Cells) /\ Len(inbox) \in Nat /\ Total = Pend + Len(inbox) /\ Total \in Nat
         /\ Stream \in [1..Total -> Cells]
         /\ StreamCells
<1>1. /\ Low \in 0..len /\ len \in 0..(BufferSize - 1) /\ Pend = len - Low /\ Pend \in Nat
      /\ inbox \in Seq(Cells) /\ Len(inbox) \in Nat
  BY LenProperties DEF TypeOK, Window, Low, Pend
<1>2. Total = Pend + Len(inbox) /\ Total \in Nat
  BY <1>1 DEF Total
<1>3. ASSUME NEW j \in 1..Pend PROVE buf[Low + j - 1] \in Cells
  <2>1. Low + j - 1 \in Low..(len - 1) /\ Low + j - 1 \in 0..(BufferSize - 1)
    BY <1>1, PipeAssumption
  <2> QED BY <2>1 DEF Window, TypeOK
<1>4. ASSUME NEW j \in (Pend + 1)..Total PROVE inbox[j - Pend] \in Cells
  <2>1. j - Pend \in 1..Len(inbox)
    BY <1>1, <1>2
  <2> QED BY <1>1, <2>1, ElementOfSeq
<1>5. /\ \A j \in 1..Pend : j \in 1..Total /\ j <= Pend
      /\ \A j \in (Pend + 1)..Total : j \in 1..Total /\ ~(j <= Pend)
      /\ \A j \in 1..Total : j \in 1..Pend \/ j \in (Pend + 1)..Total
  BY <1>1, <1>2
<1>6. /\ \A j \in 1..Pend : Stream[j] = buf[Low + j - 1]
      /\ \A j \in (Pend + 1)..Total : Stream[j] = inbox[j - Pend]
  BY <1>5 DEF Stream
<1>7. \A j \in 1..Total : Stream[j] \in Cells
  BY <1>3, <1>4, <1>5, <1>6
<1>8. Stream = [j \in 1..Total |-> Stream[j]]
  BY DEF Stream
<1> QED BY <1>1, <1>2, <1>6, <1>7, <1>8 DEF StreamCells

LEMMA StreamNext == TypeOK' /\ Window' => StreamCells'
<1>1. TypeOK /\ Window => StreamCells
  BY StreamType
<1> QED BY <1>1, PTL

(* Two streams with the same cells are the same. *)
LEMMA StreamSame ==
  ASSUME TypeOK, Window, TypeOK', Window', Total' = Total,
         \A j \in 1..Total : Stream'[j] = Stream[j]
  PROVE  Stream' = Stream
BY StreamType DEF Stream

(* Steps that do not touch the stream, nor what was answered of it. *)
LEMMA AnsweredKept ==
  ASSUME Answered, Stream' = Stream, Total' = Total, UNCHANGED <<due, asked, line, enqueued, replies, lost>>
  PROVE  Answered'
BY DEF Answered, Replied

LEMMA ToldKept ==
  ASSUME Told, pc' # "crashed", UNCHANGED <<due, asked, enqueued, replies, lost>>,
         connected' => Answered'
  PROVE  Told'
BY DEF Told, Replied

LEMMA PipeInit == Init => PipeInv
<1> SUFFICES ASSUME Init PROVE PipeInv
  OBVIOUS
<1>1. TypeInv
  BY TypeInit
<1>2. Plumbing /\ Window
  BY PipeAssumption DEF Init, Plumbing, Window, Low, NL, NUL
<1>3. Told
  <2>1. Len(<<>>) = 0 /\ Len(due) = 0 /\ Len(replies) = 0 /\ 0 \in 0..Len(due)
    BY DEF Init
  <2>2. Replied(replies, due, 0)
    BY <2>1 DEF Replied
  <2> QED BY <2>1, <2>2 DEF Told, Init
<1> QED BY <1>1, <1>2, <1>3 DEF PipeInv

(* Steps of the reader and of stop that leave the buffer, the pipe and the *)
(* answers alone.                                                          *)
LEMMA QuietStep ==
  ASSUME TypeOK, TypeOK', Window, Told, UNCHANGED <<buf, len, start, connected, inbox>>,
         UNCHANGED <<line, due, replies, lost, asked, enqueued>>,
         pc' # "crashed", pc' = pc \/ (pc \notin {"read", "scan"} /\ pc' # "scan")
  PROVE  Window' /\ Told'
<1>1. Low' = Low /\ Pend' = Pend
  <2>1. Low' = Low
    BY DEF Low
  <2> QED BY <2>1 DEF Pend
<1>2. Total' = Total
  BY <1>1 DEF Total
<1>3. Stream' = Stream
  BY <1>1, <1>2 DEF Stream
<1>4. Window'
  BY <1>1 DEF Window
<1>5. connected' => Answered'
  BY <1>2, <1>3, AnsweredKept DEF Told
<1> QED BY <1>4, <1>5, ToldKept

(* A new session has nothing to be answered yet. *)
LEMMA ConnectOpensStep ==
  ASSUME TypeOK, TypeOK', Plumbing, Window, Told, ConnectOpens
  PROVE  Window' /\ Told'
<1>1. /\ pc = "connect" /\ pc' = "read" /\ len' = 0 /\ len = 0 /\ buf' = buf /\ inbox' = <<>>
      /\ line' = <<>> /\ due' = <<>> /\ replies' = <<>> /\ asked' = asked /\ enqueued' = enqueued
  BY DEF ConnectOpens, Plumbing, nav
<1>2. Low' = 0 /\ Pend' = 0 /\ Total' = 0
  <2>1. Low' = 0
    BY <1>1 DEF Low
  <2>2. Pend' = 0
    BY <1>1, <2>1 DEF Pend
  <2> QED BY <1>1, <2>1, <2>2 DEF Total
<1>3. Window'
  BY <1>1, <1>2 DEF Window, TypeOK
<1> DEFINE d == [j \in 0..0 |-> 0]
           a == [j \in 0..0 |-> enqueued]
<1>4. Parsed(Stream', 0, <<>>, asked, <<>>, d, a, 0)
  <2>1. d \in [0..0 -> Nat] /\ a \in [0..0 -> Nat] /\ d[0] = 0 /\ a[0] = enqueued
    BY DEF TypeOK
  <2>2. Breaks(Stream', 0) = {} /\ Edges(Stream', 0) = {0}
    BY DEF Breaks, Edges
  <2>3. Whole(Stream', 0, 1) /\ <<>> = Part(Stream', 0, 1) /\ Len(<<>>) = 0
    BY DEF Whole, Part
  <2>4. enqueued <= asked /\ 0 <= Len(<<>>)
    BY DEF Told
  <2> HIDE DEF d, a
  <2> QED BY <2>1, <2>2, <2>3, <2>4 DEF Parsed
<1>5. Replied(replies', due', 0) /\ Len(due') = 0
  BY <1>1 DEF Replied
<1>6. Answered'
  <2>1. d[0] = 0 /\ a[0] = enqueued'
    BY <1>1
  <2> HIDE DEF d, a
  <2> QED BY <1>1, <1>2, <1>4, <1>5, <2>1 DEF Answered
<1>7. pc' # "crashed" /\ enqueued' <= asked' /\ \E n \in 0..Len(due') : Replied(replies', due', n)
  BY <1>1, <1>5 DEF Told
<1> QED BY <1>3, <1>6, <1>7 DEF Told

(* Reading moves cells from the pipe to the buffer and keeps their order. *)
LEMMA ReadKeptStep ==
  ASSUME TypeOK, TypeOK', Window, Told, ReadChunkKept
  PROVE  Window' /\ Told'
<1> DEFINE R == ReadCount
<1>1. /\ pc = "read" /\ pc' = "read" /\ len' = len + R /\ len + R < BufferSize
      /\ inbox' = SubSeq(inbox, R + 1, Len(inbox)) /\ connected' = connected
      /\ UNCHANGED <<line, due, replies, lost, asked, enqueued>>
  <2>1. ~(len + R >= BufferSize) /\ R \in Nat /\ len \in Nat
    <3>1. R \in Nat
      BY ReadTakes DEF ReadChunkKept
    <3>2. len \in Nat
      BY DEF TypeOK
    <3> QED BY <3>1, <3>2 DEF ReadChunkKept, Full
  <2> QED BY <2>1, PipeAssumption DEF ReadChunkKept, session, nav
<1>2. \A i \in 0..(BufferSize - 1) :
        buf'[i] = IF i \in len..(len + R - 1) THEN inbox[i - len + 1] ELSE buf[i]
  BY DEF ReadChunkKept, TypeOK
<1>3. /\ R \in 0..Len(inbox) /\ Len(inbox) \in Nat /\ Len(inbox') = Len(inbox) - R
      /\ \A i \in 1..(Len(inbox) - R) : inbox'[i] = inbox[i + R]
      /\ \A i \in 1..Len(inbox) : inbox[i] \in Cells
  BY <1>1, ReadTakes
<1>4. /\ Low = 0 /\ Low' = 0 /\ BufferSize \in Nat
      /\ len \in Nat /\ len < BufferSize /\ len' \in Nat /\ len' < BufferSize
  BY <1>1, PipeAssumption DEF Low, TypeOK
<1> HIDE DEF R
<1>5. NUL \notin Cells
  BY DEF NUL, Cells, Letters, NL
<1>6. ASSUME NEW i \in len..(len + R - 1) PROVE i \in 0..(BufferSize - 1) /\ buf'[i] \in Cells
  <2>1. i - len + 1 \in 1..Len(inbox) /\ i \in 0..(BufferSize - 1)
    BY <1>1, <1>3, <1>4
  <2> QED BY <1>2, <1>3, <2>1
<1>7. ASSUME NEW i \in 0..(len - 1) PROVE i \in 0..(BufferSize - 1) /\ buf'[i] = buf[i]
  BY <1>2, <1>4
<1>8. Window'
  <2>1. ASSUME NEW i \in 0..(len' - 1) PROVE buf'[i] # NUL
    <3>1. i \in 0..(len - 1) \/ i \in len..(len + R - 1)
      BY <1>1, <1>3, <1>4
    <3>2. CASE i \in 0..(len - 1)
      BY <1>4, <1>7, <3>2 DEF Window
    <3>3. CASE i \in len..(len + R - 1)
      BY <1>5, <1>6, <3>3
    <3> QED BY <3>1, <3>2, <3>3
  <2>2. ASSUME NEW i \in 0..(BufferSize - 1), buf'[i] = NL PROVE i \in 0..(len' - 1)
    <3>1. CASE i \in len..(len + R - 1)
      <4>1. R \in Nat /\ len' = len + R
        BY <1>1, <1>3
      <4> QED BY <1>4, <3>1, <4>1
    <3>2. CASE i \notin len..(len + R - 1)
      <4>1. buf[i] = NL
        BY <1>2, <2>2, <3>2
      <4>2. i \in 0..(len - 1)
        BY <1>4, <4>1 DEF Window
      <4> QED BY <1>1, <1>3, <1>4, <4>2
    <3> QED BY <3>1, <3>2
  <2>3. 0 <= len'
    BY <1>4
  <2> QED BY <1>1, <1>4, <2>1, <2>2, <2>3 DEF Window
<1>9. Pend = len /\ Pend' = len + R /\ Total = len + Len(inbox) /\ Total' = Total
  <2>1. Pend = len /\ Pend' = len + R
    BY <1>1, <1>4 DEF Pend
  <2> QED BY <1>3, <1>4, <2>1 DEF Total
<1>10. ASSUME NEW j \in 1..Total PROVE Stream'[j] = Stream[j]
  <2>0. /\ \A i \in 1..Pend : Stream[i] = buf[i - 1]
        /\ \A i \in (Pend + 1)..Total : Stream[i] = inbox[i - Pend]
        /\ \A i \in 1..Pend' : Stream'[i] = buf'[i - 1]
        /\ \A i \in (Pend' + 1)..Total' : Stream'[i] = inbox'[i - Pend']
    <3>1. /\ \A i \in 1..Pend : Stream[i] = buf[Low + i - 1]
          /\ \A i \in (Pend + 1)..Total : Stream[i] = inbox[i - Pend]
      BY StreamType DEF StreamCells
    <3>2. /\ \A i \in 1..Pend' : Stream'[i] = buf'[Low' + i - 1]
          /\ \A i \in (Pend' + 1)..Total' : Stream'[i] = inbox'[i - Pend']
      BY <1>8, StreamNext DEF StreamCells
    <3>3. \A i \in Int : Low + i - 1 = i - 1 /\ Low' + i - 1 = i - 1
      BY <1>4
    <3> QED BY <3>1, <3>2, <3>3
  <2>1. CASE j \in 1..len
    <3>1. j - 1 \in 0..(len - 1) /\ j \in 1..Pend /\ j \in 1..Pend'
      BY <1>3, <1>4, <1>9, <2>1
    <3> QED BY <1>7, <2>0, <3>1
  <2>2. CASE j \in (len + 1)..(len + R)
    <3>1. /\ j - 1 \in len..(len + R - 1) /\ j - 1 - len + 1 = j - Pend
          /\ j \in (Pend + 1)..Total /\ j \in 1..Pend' /\ j - 1 \in 0..(BufferSize - 1)
      BY <1>1, <1>3, <1>4, <1>9, <2>2
    <3> QED BY <1>2, <2>0, <3>1
  <2>3. CASE j \in (len + R + 1)..Total
    <3>1. /\ j - Pend' \in 1..(Len(inbox) - R) /\ j - Pend' + R = j - Pend
          /\ j \in (Pend + 1)..Total /\ j \in (Pend' + 1)..Total'
      BY <1>3, <1>4, <1>9, <2>3
    <3> QED BY <1>3, <2>0, <3>1
  <2> QED BY <1>3, <1>4, <1>9, <2>1, <2>2, <2>3
<1>11. Stream' = Stream
  BY <1>8, <1>9, <1>10, StreamSame
<1>12. connected' => Answered'
  BY <1>1, <1>9, <1>11, AnsweredKept DEF Told
<1> QED BY <1>1, <1>8, <1>12, ToldKept

LEMMA ReadNothingStep ==
  ASSUME TypeOK, TypeOK', Window, Told, ReadNothing
  PROVE  Window' /\ Told'
<1>1. /\ pc = "read" /\ pc' = "scan" /\ start' = 0
      /\ UNCHANGED <<buf, len, connected, inbox, line, due, replies, lost, asked, enqueued>>
  BY DEF ReadNothing, session, sender, nav
<1>2. Low = 0 /\ Low' = 0
  BY <1>1 DEF Low
<1>3. Window'
  BY <1>1, <1>2 DEF Window
<1>4. Pend' = Pend /\ Total' = Total /\ Stream' = Stream
  <2>1. Pend' = Pend
    BY <1>1, <1>2 DEF Pend
  <2>2. Total' = Total
    BY <1>1, <2>1 DEF Total
  <2> QED BY <1>1, <1>2, <2>1, <2>2 DEF Stream
<1>5. connected' => Answered'
  BY <1>1, <1>4, AnsweredKept DEF Told
<1> QED BY <1>1, <1>3, <1>5, ToldKept

(* A pipe that is closed over no unread line leaves none in the buffer. *)
LEMMA CloseStep ==
  ASSUME TypeOK, TypeOK', Window, Told, connected' = FALSE, len' = 0,
         pc' \notin {"scan", "crashed"}, \A i \in 0..(BufferSize - 1) : buf[i] # NL,
         UNCHANGED <<buf, due, replies, lost, asked, enqueued>>
  PROVE  Window' /\ Told'
<1>1. Low' = 0
  BY DEF Low
<1>2. Window'
  BY <1>1 DEF Window
<1> QED BY <1>2, ToldKept

(* A line is answered, and what is behind it is what is left to look at. *)
LEMMA ConsumeStep ==
  ASSUME TypeOK, TypeOK', Plumbing, Window, Told, Consume
  PROVE  Window' /\ Told'
<1>1. PICK end \in LineEnds :
        /\ buf' = [buf EXCEPT ![end] = NUL]
        /\ start' = end + 1
        /\ Write(Answer(LineUpTo(end)))
        /\ enqueued' = IF IsNav(LineUpTo(end)) THEN enqueued + 1 ELSE enqueued
  BY DEF Consume
<1>2. /\ pc = "scan" /\ pc' = "scan" /\ connected /\ connected' = connected
      /\ UNCHANGED <<len, inbox, line, due, asked>>
  BY DEF Consume, Plumbing, sender
<1>3. /\ Low = start /\ Low' = end + 1 /\ start \in Nat /\ BufferSize \in Nat
      /\ len \in Nat /\ len < BufferSize
  BY <1>1, <1>2, PipeAssumption DEF Low, TypeOK
<1>4. /\ end \in start..(BufferSize - 1) /\ end \in 0..(BufferSize - 1) /\ buf[end] = NL
      /\ \A i \in start..(end - 1) : buf[i] # NL
  BY <1>1, <1>3 DEF LineEnds, IsLineEnd
<1>5. end \in Nat /\ start <= end /\ end < len
  <2>1. end \in Low..(len - 1)
    BY <1>4 DEF Window
  <2> QED BY <1>3, <1>4, <2>1
<1>6. \A i \in 0..(BufferSize - 1) : buf'[i] = IF i = end THEN NUL ELSE buf[i]
  BY <1>1 DEF TypeOK
<1>7. Window'
  <2>1. ASSUME NEW i \in (end + 1)..(len - 1) PROVE buf'[i] # NUL
    <3>1. i \in 0..(BufferSize - 1) /\ i # end /\ i \in Low..(len - 1)
      BY <1>3, <1>5
    <3> QED BY <1>6, <3>1 DEF Window
  <2>2. ASSUME NEW i \in 0..(BufferSize - 1), buf'[i] = NL PROVE i \in (end + 1)..(len - 1)
    <3>1. i # end /\ buf[i] = NL
      BY <1>6, <2>2 DEF NL, NUL
    <3>2. i \in start..(len - 1)
      BY <1>3, <3>1 DEF Window
    <3>3. ~(i \in start..(end - 1))
      BY <1>4, <3>1
    <3> QED BY <1>3, <1>5, <3>1, <3>2, <3>3
  <2> QED BY <1>2, <1>3, <1>5, <2>1, <2>2 DEF Window
<1> DEFINE k == end - start + 1
           l == LineUpTo(end)
<1>8. PICK d, a, z : /\ Parsed(Stream, Total, due, asked, line, d, a, z)
                     /\ a[0] = enqueued /\ (~lost => Replied(replies, due, d[0]))
  BY <1>2 DEF Told, Answered
<1>9. /\ Pend = len - start /\ Pend \in Nat /\ Total \in Nat /\ Total = Pend + Len(inbox)
      /\ Len(inbox) \in Nat /\ Stream \in [1..Total -> Cells]
  BY <1>3, StreamType
<1>10. Pend' = Pend - k /\ Total' = Total - k /\ k \in 1..Pend /\ k \in 1..Total
  <2>1. Pend' = len - (end + 1)
    BY <1>2, <1>3 DEF Pend
  <2>2. Pend' = Pend - k /\ k \in 1..Pend
    BY <1>3, <1>5, <1>9, <2>1
  <2>3. Total' = Pend' + Len(inbox)
    BY <1>2 DEF Total
  <2> HIDE DEF k
  <2> QED BY <1>9, <2>2, <2>3
<1>11. /\ \A i \in 1..Pend : Stream[i] = buf[start + i - 1]
       /\ \A i \in (Pend + 1)..Total : Stream[i] = inbox[i - Pend]
       /\ \A i \in 1..Pend' : Stream'[i] = buf'[end + 1 + i - 1]
       /\ \A i \in (Pend' + 1)..Total' : Stream'[i] = inbox[i - Pend']
  <2>1. StreamCells /\ StreamCells'
    BY <1>7, StreamType, StreamNext
  <2> QED BY <1>2, <1>3, <2>1 DEF StreamCells
<1>12. Stream[k] = NL /\ Whole(Stream, 0, k) /\ Part(Stream, 0, k) = l
  <2>1. start + k - 1 = end
    BY <1>3, <1>5
  <2>2. ASSUME NEW i \in 1..(k - 1) PROVE Stream[i] # NL /\ Stream[0 + i] = buf[start + i - 1]
    <3>1. i \in 1..Pend /\ start + i - 1 \in start..(end - 1) /\ 0 + i = i
      BY <1>3, <1>5, <1>9
    <3> QED BY <1>4, <1>11, <3>1
  <2>3. Stream[k] = NL
    BY <1>4, <1>10, <1>11, <2>1
  <2>4. 0 < k /\ k - 0 - 1 = end - start /\ 0 + 1 = 1 /\ k - 1 = end - start
    BY <1>3, <1>5
  <2>5. Whole(Stream, 0, k)
    BY <2>2, <2>4 DEF Whole
  <2>6. Part(Stream, 0, k) = l
    BY <2>2, <2>4 DEF Part, LineUpTo
  <2> QED BY <2>3, <2>5, <2>6
<1> HIDE DEF k, l
<1>13. ASSUME NEW i \in 1..(Total - k) PROVE Stream'[i] = Stream[k + i]
  <2>1. CASE i \in 1..(Pend - k)
    <3>1. i \in 1..Pend' /\ k + i \in 1..Pend /\ end + 1 + i - 1 = start + (k + i) - 1
      BY <1>3, <1>5, <1>9, <1>10, <2>1 DEF k
    <3>2. start + (k + i) - 1 \in 0..(BufferSize - 1) /\ start + (k + i) - 1 # end
      BY <1>3, <1>5, <1>9, <1>10, <2>1 DEF k
    <3>3. buf'[end + 1 + i - 1] = buf[start + (k + i) - 1]
      BY <1>6, <3>1, <3>2
    <3> QED BY <1>11, <3>1, <3>3
  <2>2. CASE i \in (Pend - k + 1)..(Total - k)
    <3>1. i \in (Pend' + 1)..Total' /\ k + i \in (Pend + 1)..Total /\ i - Pend' = (k + i) - Pend
      BY <1>9, <1>10, <2>2, SMTT(40)
    <3> QED BY <1>11, <3>1
  <2> QED BY <1>9, <1>10, <2>1, <2>2
<1>14. Stream' \in [1..(Total - k) -> Cells]
  <2>1. \A i \in 1..(Total - k) : k + i \in 1..Total
    BY <1>9, <1>10
  <2>2. \A i \in 1..(Total - k) : Stream'[i] \in Cells
    BY <1>9, <1>13, <2>1
  <2>3. Stream' = [i \in 1..(Total - k) |-> Stream'[i]]
    BY <1>10 DEF Stream
  <2> QED BY <2>2, <2>3
<1>15. PICK e, b, y : /\ Parsed(Stream', Total - k, due, asked, line, e, b, y)
                      /\ e[0] = d[k] /\ b[0] = a[k]
  <2>1. due \in Seq(Words) /\ asked \in Nat /\ line \in Seq(Letters)
    BY DEF TypeOK, Words
  <2>2. k \in 1..Total /\ Total \in Nat /\ Stream \in [1..Total -> Cells]
    BY <1>9, <1>10
  <2>3. \E e, b, y : Parsed(Stream', Total - k, due, asked, line, e, b, y) /\ e[0] = d[k] /\ b[0] = a[k]
    <3>1. Behind(Stream, Total, k, Stream')
      BY <1>13, <1>14 DEF Behind
    <3> QED BY <1>8, <1>12, <2>1, <2>2, <3>1, DropsLine
  <2> QED BY <2>3
<1>16. /\ d[k] = d[0] + Len(Answer(l)) /\ a[k] = a[0] + Asks(l)
       /\ Answer(l) # <<>> => due[d[0] + 1] = Answer(l)[1]
       /\ d[0] \in Nat /\ d[k] \in 0..Len(due) /\ a[k] <= asked
  <2>1. k \in Breaks(Stream, Total) /\ k \in Edges(Stream, Total) /\ 0 \in Edges(Stream, Total)
    BY <1>10, <1>12 DEF Breaks, Edges
  <2>2. /\ d \in [0..Total -> Nat] /\ \A p \in Edges(Stream, Total) : d[p] <= Len(due) /\ a[p] <= asked
        /\ d[k] = d[0] + Len(Answer(Part(Stream, 0, k))) /\ a[k] = a[0] + Asks(Part(Stream, 0, k))
        /\ Answer(Part(Stream, 0, k)) # <<>> => due[d[0] + 1] = Answer(Part(Stream, 0, k))[1]
    BY <1>8, <1>12, <2>1 DEF Parsed
  <2>3. d[0] \in Nat /\ d[k] \in Nat
    <3>1. 0 \in 0..Total /\ k \in 0..Total
      BY <1>9, <1>10
    <3> QED BY <2>2, <3>1
  <2>4. d[k] <= Len(due) /\ a[k] <= asked /\ Len(due) \in Nat
    BY <2>1, <2>2, LenProperties DEF TypeOK
  <2> QED BY <1>12, <2>2, <2>3, <2>4
<1>17. enqueued' = a[k] /\ enqueued' <= asked'
  BY <1>1, <1>2, <1>8, <1>16 DEF Asks, TypeOK, l
<1>18. ~lost' => Replied(replies', due', d[k])
  <2> SUFFICES ASSUME ~lost' PROVE Replied(replies', due', d[k])
    OBVIOUS
  <2> DEFINE m == d[0]
  <2>0. Write(Answer(l))
    BY <1>1 DEF l
  <2>1. ~lost /\ Replied(replies, due, m)
    BY <1>8, <2>0 DEF Write
  <2>2. m \in Nat /\ Len(replies) = 2 * m /\ d[k] = m + Len(Answer(l))
    BY <1>16, <2>1 DEF Replied
  <2> HIDE DEF m
  <2>3. CASE Answer(l) = <<>>
    <3>1. replies' = replies /\ Len(Answer(l)) = 0
      BY <2>0, <2>3 DEF Write
    <3>2. d[k] = m
      BY <2>2, <3>1
    <3> QED BY <1>2, <2>1, <3>1, <3>2 DEF Replied
  <2>4. CASE Answer(l) # <<>>
    <3>1. PICK w \in Words : Answer(l) = <<w>>
      BY <2>4, AnswerShape DEF Words
    <3>2. replies' = (replies \o <<w>>) \o <<NL>>
      BY <2>0, <2>4, <3>1 DEF Write
    <3>3. replies \in Seq(Words \cup {NL}) /\ <<w>> \in Seq(Words \cup {NL}) /\ <<NL>> \in Seq(Words \cup {NL})
      <4>1. replies \in Seq({"list", "ok", "error", NL}) /\ Words \cup {NL} = {"list", "ok", "error", NL}
        BY DEF TypeOK, Words
      <4>2. replies \in Seq(Words \cup {NL})
        BY <4>1, Zenon
      <4> QED BY <4>2
    <3>4. /\ Len(replies') = 2 * m + 2 /\ replies'[2 * m + 1] = w /\ replies'[2 * m + 2] = NL
          /\ \A i \in 1..(2 * m) : replies'[i] = replies[i]
      <4>1. 2 * m \in Nat /\ Len(replies) = 2 * m
        BY <2>2
      <4>2. w \in Words \cup {NL} /\ NL \in Words \cup {NL} /\ replies \in Seq(Words \cup {NL})
        BY <3>3
      <4> QED BY <3>2, <4>1, <4>2, TwoMore
    <3>5. w = due[m + 1] /\ d[k] = m + 1
      BY <1>16, <2>2, <2>4, <3>1 DEF m
    <3>6. ASSUME NEW h \in 1..(m + 1) PROVE replies'[2 * h - 1] = due[h] /\ replies'[2 * h] = NL
      <4>1. CASE h = m + 1
        <5>1. 2 * h - 1 = 2 * m + 1 /\ 2 * h = 2 * m + 2
          BY <2>2, <4>1
        <5> QED BY <3>4, <3>5, <4>1, <5>1
      <4>2. CASE h \in 1..m
        <5>1. 2 * h - 1 \in 1..(2 * m) /\ 2 * h \in 1..(2 * m)
          BY <2>2, <4>2
        <5> QED BY <2>1, <3>4, <4>2, <5>1 DEF Replied
      <4> QED BY <2>2, <4>1, <4>2
    <3>7. Len(replies') = 2 * (m + 1)
      BY <2>2, <3>4
    <3> QED BY <1>2, <3>5, <3>6, <3>7 DEF Replied
  <2> QED BY <2>3, <2>4
<1>19. Answered'
  <2>1. Parsed(Stream', Total', due', asked', line', e, b, y)
    BY <1>2, <1>10, <1>15
  <2>2. b[0] = enqueued' /\ (~lost' => Replied(replies', due', e[0]))
    BY <1>15, <1>17, <1>18
  <2> QED BY <2>1, <2>2 DEF Answered
<1>20. ~lost' => \E n \in 0..Len(due') : Replied(replies', due', n)
  BY <1>2, <1>16, <1>18
<1> QED BY <1>2, <1>7, <1>20, <1>17, <1>19 DEF Told

(* Without a line end left in the buffer, what remains moves to its front. *)
LEMMA ScanEndsStep ==
  ASSUME TypeOK, TypeOK', Plumbing, Window, Told, ScanEnds
  PROVE  Window' /\ Told'
<1>1. /\ pc = "scan" /\ LineEnds = {}
      /\ UNCHANGED <<connected, inbox, line, due, replies, lost, asked, enqueued>>
  BY DEF ScanEnds, session, sender, nav
<1>2. Low = start /\ start \in Nat /\ BufferSize \in Nat /\ len \in Nat /\ len < BufferSize /\ start <= len
  BY <1>1, PipeAssumption DEF Low, TypeOK, Window
<1>3. \A i \in 0..(BufferSize - 1) : buf[i] # NL
  <2> DEFINE S == {i \in 0..(BufferSize - 1) : buf[i] = NL}
  <2> SUFFICES ASSUME S # {} PROVE FALSE
    OBVIOUS
  <2>1. S \subseteq Nat
    BY <1>2
  <2>2. PICK n \in S : \A m \in S : n <= m
    BY <2>1, Least
  <2>3. n \in start..(len - 1) /\ n \in start..(BufferSize - 1) /\ buf[n] = NL
    BY <1>2, <2>2 DEF Window
  <2>4. ASSUME NEW j \in start..(n - 1) PROVE buf[j] \notin {NL, NUL}
    <3>1. j \in 0..(BufferSize - 1) /\ j \in Low..(len - 1) /\ ~(n <= j)
      BY <1>2, <2>3
    <3>2. buf[j] # NL
      BY <2>2, <3>1
    <3>3. buf[j] # NUL
      BY <3>1 DEF Window
    <3> QED BY <3>2, <3>3
  <2>5. n \in LineEnds
    BY <2>3, <2>4 DEF LineEnds, IsLineEnd
  <2> QED BY <1>1, <2>5
<1>4. /\ Remaining = len - start /\ Remaining \in Nat
      /\ pc' = "outside" /\ len' = Remaining
      /\ \A i \in 0..(BufferSize - 1) : buf'[i] = IF i < Remaining THEN buf[start + i] ELSE buf[i]
  <2>1. Remaining = len - start /\ Remaining \in Nat /\ ~(Remaining < 0)
    BY <1>2 DEF Remaining
  <2>2. /\ pc' = "outside" /\ len' = Remaining
        /\ buf' = [i \in DOMAIN buf |-> IF i < Remaining THEN buf[start + i] ELSE buf[i]]
    BY <2>1 DEF ScanEnds
  <2> QED BY <2>1, <2>2 DEF TypeOK
<1> DEFINE R == Remaining
<1> HIDE DEF R
<1>5. ASSUME NEW i \in 0..(R - 1)
      PROVE  /\ i \in 0..(BufferSize - 1) /\ start + i \in start..(len - 1)
             /\ start + i \in 0..(BufferSize - 1) /\ buf'[i] = buf[start + i]
  <2>1. /\ i \in 0..(BufferSize - 1) /\ start + i \in start..(len - 1)
        /\ start + i \in 0..(BufferSize - 1) /\ i < R
    BY <1>2, <1>4 DEF R
  <2> QED BY <1>4, <2>1 DEF R
<1>6. Low' = 0 /\ Pend' = R /\ Pend = R /\ R \in Nat /\ len' = R
  <2>1. Low' = 0 /\ len' = R
    BY <1>4 DEF Low, R
  <2> QED BY <1>2, <1>4, <2>1 DEF Pend, R
<1>7. \A i \in 0..(BufferSize - 1) : buf'[i] # NL
  <2> SUFFICES ASSUME NEW i \in 0..(BufferSize - 1) PROVE buf'[i] # NL
    OBVIOUS
  <2>1. CASE i < R
    <3>1. i \in 0..(R - 1)
      BY <1>6, <2>1
    <3> QED BY <1>3, <1>5, <3>1
  <2>2. CASE ~(i < R)
    BY <1>3, <1>4, <2>2 DEF R
  <2> QED BY <2>1, <2>2
<1>8. Window'
  <2>1. \A i \in 0..(R - 1) : buf'[i] # NUL
    BY <1>2, <1>5 DEF Window
  <2> QED BY <1>6, <1>7, <2>1 DEF Window
<1>9. Total' = Total
  BY <1>1, <1>6 DEF Total
<1>10. ASSUME NEW j \in 1..Total PROVE Stream'[j] = Stream[j]
  <2>1. StreamCells /\ StreamCells' /\ Total \in Nat
    BY <1>8, StreamType, StreamNext
  <2>2. CASE j \in 1..R
    <3>1. j - 1 \in 0..(R - 1) /\ Low + j - 1 = start + (j - 1) /\ Low' + j - 1 = j - 1
      BY <1>2, <1>6, <2>2
    <3> QED BY <1>5, <1>6, <2>1, <2>2, <3>1 DEF StreamCells
  <2>3. CASE j \in (R + 1)..Total
    BY <1>1, <1>6, <1>9, <2>1, <2>3 DEF StreamCells
  <2> QED BY <1>6, <2>1, <2>2, <2>3
<1>11. Stream' = Stream
  BY <1>8, <1>9, <1>10, StreamSame
<1>12. connected' => Answered'
  BY <1>1, <1>9, <1>11, AnsweredKept DEF Told
<1> QED BY <1>1, <1>4, <1>8, <1>12, ToldKept

(* What the controller sends is behind everything that is to be answered.  *)
LEMMA SendStep ==
  ASSUME TypeOK, TypeOK', Plumbing, Window, Told, NEW cell \in Cells, Send(cell)
  PROVE  Window' /\ Told'
<1>1. /\ connected /\ UNCHANGED <<connected, buf, len, start, pc, replies, lost, enqueued>>
      /\ inbox' = Append(inbox, cell)
  BY DEF Send, Plumbing, reader
<1>2. Low' = Low /\ Pend' = Pend
  <2>1. Low' = Low
    BY <1>1 DEF Low
  <2> QED BY <1>1, <2>1 DEF Pend
<1>3. Window'
  BY <1>1, <1>2 DEF Window
<1>4. /\ Pend \in Nat /\ Len(inbox) \in Nat /\ Total = Pend + Len(inbox) /\ Total \in Nat
      /\ Stream \in [1..Total -> Cells] /\ StreamCells /\ StreamCells'
  BY <1>3, StreamType, StreamNext
<1>5. /\ Len(inbox') = Len(inbox) + 1 /\ inbox'[Len(inbox) + 1] = cell
      /\ \A i \in 1..Len(inbox) : inbox'[i] = inbox[i]
  BY <1>1, AppendProperties DEF TypeOK
<1>6. Total' = Total + 1
  <2>1. Total' = Pend' + Len(inbox')
    BY DEF Total
  <2> QED BY <1>2, <1>4, <1>5, <2>1
<1>7. ASSUME NEW j \in 1..Total PROVE Stream'[j] = Stream[j]
  <2>1. CASE j \in 1..Pend
    BY <1>1, <1>2, <1>4, <2>1 DEF StreamCells
  <2>2. CASE j \in (Pend + 1)..Total
    <3>1. j - Pend \in 1..Len(inbox) /\ j \in (Pend' + 1)..Total'
      BY <1>2, <1>4, <1>6, <2>2
    <3> QED BY <1>2, <1>4, <1>5, <2>2, <3>1 DEF StreamCells
  <2> QED BY <1>4, <2>1, <2>2
<1>8. Stream'[Total + 1] = cell
  <2>1. Total + 1 \in (Pend' + 1)..Total' /\ Total + 1 - Pend' = Len(inbox) + 1
    BY <1>2, <1>4, <1>6
  <2> DEFINE t == Total + 1
             h == Len(inbox) + 1
  <2>2. t \in (Pend' + 1)..Total' /\ t - Pend' = h /\ t \in Nat /\ Pend' \in Nat /\ Total' \in Nat
    BY <1>2, <1>4, <1>6, <2>1
  <2> HIDE DEF t, h
  <2>3. Stream'[t] = inbox'[t - Pend']
    BY <1>4, <2>2 DEF StreamCells
  <2>4. Stream'[t] = inbox'[h]
    BY <2>2, <2>3
  <2> QED BY <1>5, <2>4 DEF t, h
<1>9. Grown(Stream, Total, cell, Stream')
  <2>1. Stream' = [j \in 1..(Total + 1) |-> Stream'[j]]
    BY <1>6 DEF Stream
  <2>2. ASSUME NEW j \in 1..(Total + 1) PROVE Stream'[j] \in Cells
    <3>1. j \in 1..Total \/ j = Total + 1
      BY <1>4
    <3> QED BY <1>4, <1>7, <1>8, <3>1
  <2> QED BY <1>4, <1>7, <1>8, <2>1, <2>2 DEF Grown
<1>10. PICK d, a, z : /\ Parsed(Stream, Total, due, asked, line, d, a, z)
                      /\ a[0] = enqueued /\ (~lost => Replied(replies, due, d[0]))
  BY <1>1 DEF Told, Answered
<1>11. due \in Seq(Words) /\ asked \in Nat /\ line \in Seq(Letters) /\ Len(due) \in Nat
  BY LenProperties DEF TypeOK, Words
<1>12. PICK n \in 0..Len(due) : ~lost => Replied(replies, due, n)
  <2>1. CASE lost
    BY <1>11, <2>1
  <2>2. CASE ~lost
    BY <2>2 DEF Told
  <2> QED BY <2>1, <2>2
<1>13. CASE cell = NL
  <2>1. due' = due \o Answer(line) /\ line' = <<>> /\ asked' = asked + Asks(line)
    BY <1>11, <1>13 DEF Send, Asks
  <2>2. PICK e, b : /\ Parsed(Stream', Total + 1, due \o Answer(line), asked + Asks(line), <<>>, e, b, Total + 1)
                    /\ e[0] = d[0] /\ b[0] = a[0]
    <3>1. Grown(Stream, Total, NL, Stream')
      BY <1>9, <1>13
    <3> QED BY <1>4, <1>10, <1>11, <3>1, LineParsed
  <2>3. Len(due') \in Nat /\ Len(due') >= Len(due) /\ \A i \in 1..Len(due) : due'[i] = due[i]
    <3>1. Answer(line) \in Seq(Words) /\ Len(Answer(line)) \in Nat
      BY AnswerShape DEF Words
    <3> QED BY <1>11, <2>1, <3>1, ConcatProperties
  <2>4. \A m \in 0..Len(due) : Replied(replies, due, m) => Replied(replies', due', m)
    BY <1>1, <1>11, <2>3 DEF Replied
  <2>5. d[0] \in 0..Len(due)
    BY <1>4, <1>10, <1>11 DEF Parsed, Edges
  <2>6. Answered'
    <3>1. Parsed(Stream', Total', due', asked', line', e, b, Total + 1)
      BY <1>6, <2>1, <2>2
    <3>2. b[0] = enqueued' /\ (~lost' => Replied(replies', due', e[0]))
      BY <1>1, <1>10, <2>2, <2>4, <2>5
    <3> QED BY <3>1, <3>2 DEF Answered
  <2>7. enqueued' <= asked'
    <3>1. asked + Asks(line) >= asked
      BY <1>11 DEF Asks
    <3> QED BY <1>1, <1>11, <2>1, <3>1 DEF Told, TypeOK, Asks
  <2>8. n \in 0..Len(due') /\ (~lost' => Replied(replies', due', n))
    BY <1>1, <1>11, <1>12, <2>3, <2>4
  <2>9. pc' # "crashed"
    BY <1>1 DEF Told
  <2> QED BY <1>3, <2>6, <2>7, <2>8, <2>9 DEF Told
<1>14. CASE cell # NL
  <2>1. due' = due /\ line' = Append(line, cell) /\ asked' = asked /\ cell \in Letters
    BY <1>14 DEF Send, Cells
  <2>2. PICK e, b : /\ Parsed(Stream', Total + 1, due, asked, Append(line, cell), e, b, z)
                    /\ e[0] = d[0] /\ b[0] = a[0]
    BY <1>4, <1>9, <1>10, <1>11, <2>1, LetterParsed, SMTT(40)
  <2>3. Answered'
    <3>1. Parsed(Stream', Total', due', asked', line', e, b, z)
      BY <1>6, <2>1, <2>2
    <3>2. b[0] = enqueued' /\ (~lost' => Replied(replies', due', e[0]))
      BY <1>1, <1>10, <2>1, <2>2
    <3> QED BY <3>1, <3>2 DEF Answered
  <2>4. enqueued' <= asked' /\ pc' # "crashed" /\ n \in 0..Len(due') /\ (~lost' => Replied(replies', due', n))
    BY <1>1, <1>12, <2>1 DEF Told
  <2> QED BY <1>3, <2>3, <2>4 DEF Told
<1> QED BY <1>13, <1>14

LEMMA PipeStep == PipeInv /\ [Next]_vars => PipeInv'
<1> SUFFICES ASSUME PipeInv, [Next]_vars PROVE PipeInv'
  OBVIOUS
<1>1. TypeInv' /\ Plumbing'
  BY TypeStep, PlumbingStep DEF PipeInv
<1>2. Clean' => Clean
  BY DEF Clean, Next, ReaderNext, vars, flaws, Start, Enter, ConnectOpens, ConnectFails, ConnectWakes,
         ReadChunkKept, ReadChunkDropped, ReadNothing, ReadBroken, Consume, ScanEnds, StopBegins, StopWaits,
         StopReturns, Listen, HangUp, Send
<1>3. SUFFICES ASSUME Clean' PROVE Window' /\ Told'
  BY <1>1 DEF PipeInv
<1>4. TypeOK /\ TypeOK' /\ Stopping /\ Plumbing /\ Window /\ Told
  BY <1>1, <1>2, <1>3 DEF PipeInv, TypeInv
<1>5. pc # "crashed"
  BY <1>4 DEF Told
<1>6. CASE Start
  BY <1>4, <1>6, QuietStep DEF Start, Stopping, session, sender, nav
<1>7. CASE Enter
  BY <1>4, <1>7, QuietStep DEF Enter, session, sender, nav
<1>8. CASE ConnectOpens
  BY <1>4, <1>8, ConnectOpensStep
<1>9. CASE ConnectFails \/ ConnectWakes
  <2>1. /\ pc \in {"connect", "asleep"} /\ pc' \in {"connect", "asleep", "outside", "undefined"}
        /\ UNCHANGED <<buf, len, start, connected, inbox>>
        /\ UNCHANGED <<line, due, replies, lost, asked, enqueued>>
    BY <1>9 DEF ConnectFails, ConnectWakes, session, sender, nav
  <2> QED BY <1>4, <2>1, QuietStep
<1>10. CASE ReadChunkKept
  BY <1>4, <1>10, ReadKeptStep
<1>11. CASE ReadChunkDropped
  BY <1>3, <1>11 DEF ReadChunkDropped, Clean
<1>12. CASE ReadNothing
  BY <1>4, <1>12, ReadNothingStep
<1>13. CASE ReadBroken
  <2>1. \A i \in 0..(len - 1) : buf[i] # NL
    BY <1>3, <1>13 DEF ReadBroken, Clean
  <2>2. pc = "read" /\ Low = 0
    BY <1>13 DEF ReadBroken, Low
  <2>3. \A i \in 0..(BufferSize - 1) : buf[i] # NL
    BY <1>4, <2>1, <2>2 DEF Window
  <2>4. /\ connected' = FALSE /\ len' = 0 /\ pc' = "outside"
        /\ UNCHANGED <<buf, due, replies, lost, asked, enqueued>>
    BY <1>13 DEF ReadBroken, Closed, session, nav
  <2> QED BY <1>4, <2>3, <2>4, CloseStep
<1>14. CASE Consume
  BY <1>4, <1>14, ConsumeStep
<1>15. CASE ScanEnds
  BY <1>4, <1>15, ScanEndsStep
<1>16. CASE StopBegins \/ StopWaits
  <2>1. UNCHANGED <<buf, len, start, connected, inbox, pc, line, due, replies, lost, asked, enqueued>>
    BY <1>16 DEF StopBegins, StopWaits, reader, session, sender, nav
  <2> QED BY <1>4, <1>5, <2>1, QuietStep
<1>17. CASE StopReturns
  <2>1. /\ connected' = FALSE /\ len' = 0 /\ pc' = pc /\ pc \in {"off", "outside", "asleep", "done"}
        /\ UNCHANGED <<buf, due, replies, lost, asked, enqueued>>
    BY <1>17 DEF StopReturns, Closed, session, nav
  <2>2. \A i \in 0..(BufferSize - 1) : buf[i] # NL
    BY <1>4, <2>1 DEF Window
  <2>3. pc' \notin {"scan", "crashed"}
    BY <2>1
  <2> QED BY <1>4, <2>1, <2>2, <2>3, CloseStep
<1>18. CASE Listen \/ HangUp
  <2>1. UNCHANGED <<buf, len, start, connected, inbox, pc, line, due, replies, lost, asked, enqueued>>
    BY <1>18 DEF Listen, HangUp, reader, session, nav
  <2> QED BY <1>4, <1>5, <2>1, QuietStep
<1>19. ASSUME NEW cell \in Cells, Send(cell) PROVE Window' /\ Told'
  BY <1>4, <1>19, SendStep
<1>20. CASE UNCHANGED vars
  <2>1. UNCHANGED <<buf, len, start, connected, inbox, pc, line, due, replies, lost, asked, enqueued>>
    BY <1>20 DEF vars, reader, session, sender, nav
  <2> QED BY <1>4, <1>5, <2>1, QuietStep
<1> QED BY <1>6, <1>7, <1>8, <1>9, <1>10, <1>11, <1>12, <1>13, <1>14, <1>15, <1>16, <1>17, <1>18, <1>19,
           <1>20 DEF Next, ReaderNext

LEMMA PipeSpec == Spec => []PipeInv
<1> QED BY PipeInit, PipeStep, PTL DEF Spec

-----------------------------------------------------------------------------
(* The fields keep their types, and the last cell of the buffer stays NUL, *)
(* for buffers and chunks of any size.                                     *)
THEOREM TypeCorrect == Spec => []TypeOK
<1>1. PipeInv => TypeOK
  BY DEF PipeInv, TypeInv
<1> QED BY <1>1, PipeSpec, PTL

(* Only a stop that gave up waiting leaves the reader without its lock. *)
THEOREM LockTheorem == Spec => []LockOutlivesReader
<1>1. PipeInv => LockOutlivesReader
  BY DEF PipeInv, TypeInv
<1> QED BY <1>1, PipeSpec, PTL

(* As long as no byte was dropped, the replies of a session are the        *)
(* answers to its own lines, in order, however the bytes were cut.         *)
THEOREM RepliesTheorem == Spec => []RepliesInOrder
<1>1. PipeInv => RepliesInOrder
  <2> SUFFICES ASSUME PipeInv, Clean
               PROVE  /\ pc # "crashed" /\ enqueued <= asked
                      /\ ~lost => /\ Len(replies) <= 2 * Len(due)
                                  /\ \A i \in 1..Len(replies) :
                                       replies[i] = IF i % 2 = 0 THEN NL ELSE due[(i + 1) \div 2]
    BY DEF RepliesInOrder
  <2>1. Told /\ Len(due) \in Nat
    BY LenProperties DEF PipeInv, TypeInv, TypeOK
  <2>2. ASSUME ~lost
        PROVE  /\ Len(replies) <= 2 * Len(due)
               /\ \A i \in 1..Len(replies) : replies[i] = IF i % 2 = 0 THEN NL ELSE due[(i + 1) \div 2]
    <3>1. PICK n \in 0..Len(due) : Replied(replies, due, n)
      BY <2>1, <2>2 DEF Told
    <3>2. n \in Nat /\ Len(replies) = 2 * n /\ Len(replies) <= 2 * Len(due)
      BY <2>1, <3>1 DEF Replied
    <3>3. ASSUME NEW i \in 1..Len(replies) PROVE replies[i] = IF i % 2 = 0 THEN NL ELSE due[(i + 1) \div 2]
      <4>1. CASE i % 2 = 0
        <5>1. i \div 2 \in 1..n /\ i = 2 * (i \div 2)
          BY <3>2, <4>1
        <5> QED BY <3>1, <4>1, <5>1 DEF Replied
      <4>2. CASE i % 2 # 0
        <5>1. (i + 1) \div 2 \in 1..n /\ i = 2 * ((i + 1) \div 2) - 1
          BY <3>2, <4>2
        <5> QED BY <3>1, <4>2, <5>1 DEF Replied
      <4> QED BY <4>1, <4>2
    <3> QED BY <3>2, <3>3
  <2> QED BY <2>1, <2>2 DEF Told
<1> QED BY <1>1, PipeSpec, PTL
=============================================================================
