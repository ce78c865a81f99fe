----------------------------- MODULE HandlerPipe -----------------------------
(***************************************************************************)
(* The handler pipe, src/src/diagnostics/handler_pipe.cpp: one reader      *)
(* thread connects to the controller's pipe, reads chunks into a buffer,   *)
(* cuts it into lines, and answers each line.  The buffer is an array of   *)
(* cells: letters of commands, line ends and NUL.  Lines are found with    *)
(* strchr, which knows nothing of the number of bytes pending.             *)
(* The reader holds the lock except while it sleeps; only stop contends    *)
(* for it.                                                                 *)
(***************************************************************************)
EXTENDS Integers, Sequences

CONSTANTS BufferSize,    \* sizeof g_read_pending, 8192
          ReadChunk,     \* kReadChunk, 4096
          Retries,       \* connect attempts in a row, 300
          MaxCells,      \* bound on cells the controller sends
          MaxSessions    \* bound on sessions it accepts

ASSUME PipeAssumption ==
  /\ BufferSize \in Nat \ {0} /\ ReadChunk \in Nat \ {0} /\ Retries \in Nat \ {0}
  /\ MaxCells \in Nat /\ MaxSessions \in Nat

NL  == "\n"
NUL == "nul"
Letters == {"c", "n"}
Cells   == Letters \cup {NL}

VARIABLES
  connected,  \* g_pipe is a handle
  buf, len,   \* g_read_pending, g_read_pending_len
  start,      \* of the line read_more_locked looks at
  pc,         \* reader: off, outside, connect, asleep, read, scan, done,
              \* crashed in memmove, undefined behind a deleted lock
  tries,      \* connect attempts of this call
  running,    \* g_running
  stopper,    \* stop: idle, waiting, joined, late (the wait timed out)
  lock,       \* g_pipe_lock: live, deleted
  peer,       \* the controller: absent, listening, open, hung (up)
  inbox,      \* cells in the pipe, not yet read
  line, due,  \* of this session: cells of the unfinished line, answers owed
  replies,    \* and what was written back
  asked, enqueued,  \* navigation commands sent, and given to NavFlow
  cells, sessions,  \* what the bounds count
  stale,      \* a pipe was closed over lines read and not yet answered
  overflowed, \* the buffer was too small
  lost        \* a reply of this session was not written whole

reader  == <<connected, buf, len, start, pc, tries>>
stop    == <<running, stopper, lock>>
session == <<line, due, replies, lost>>
sender  == <<peer, inbox, cells, sessions>>
nav     == <<asked, enqueued>>
flaws   == <<stale, overflowed>>
vars    == <<reader, stop, session, sender, nav, flaws>>

Init ==
  /\ connected = FALSE
  /\ buf = [i \in 0..(BufferSize - 1) |-> NUL] /\ len = 0 /\ start = 0
  /\ pc = "off" /\ tries = 0
  /\ running = FALSE /\ stopper = "idle" /\ lock = "live"
  /\ peer = "absent" /\ inbox = <<>> /\ cells = 0 /\ sessions = 0
  /\ line = <<>> /\ due = <<>> /\ replies = <<>> /\ lost = FALSE
  /\ asked = 0 /\ enqueued = 0
  /\ stale = FALSE /\ overflowed = FALSE

-----------------------------------------------------------------------------
(* dispatch_line: the reply, if any, and whether a command is queued *)
IsNav(l) == l = <<"n", "n">>                          \* nav_pass_shard_select
Answer(l) ==
  IF l = <<>> THEN <<>>
  ELSE IF l = <<"c">> THEN <<"list">>                 \* commands
  ELSE IF IsNav(l) THEN <<"ok">>
  ELSE <<"error">>

(* start *)
Start ==
  /\ stopper = "idle" /\ ~running
  /\ running' = TRUE
  /\ pc' \in {"outside", "off"}                       \* no thread was created
  /\ UNCHANGED <<connected, buf, len, start, tries, stopper, lock, session, sender,
                 nav, flaws>>

(* reader_thread: the next round, or the end *)
Enter ==
  /\ pc = "outside"
  /\ pc' = IF ~running THEN "done"
           ELSE IF lock = "deleted" THEN "undefined"
           ELSE IF connected THEN "read" ELSE "connect"
  /\ tries' = 0
  /\ UNCHANGED <<connected, buf, len, start, stop, session, sender, nav, flaws>>

(* connect_pipe_locked, one attempt *)
ConnectOpens ==
  /\ pc = "connect" /\ peer = "listening"
  /\ connected' = TRUE /\ pc' = "read"
  /\ peer' = "open" /\ inbox' = <<>>
  /\ line' = <<>> /\ due' = <<>> /\ replies' = <<>> /\ lost' = FALSE
  /\ UNCHANGED <<buf, len, start, tries, stop, cells, sessions, nav, flaws>>

(* busy or not there: the lock is left for the sleep, until the attempts   *)
(* are used up; any other error ends the call.  g_running is not asked.    *)
ConnectFails ==
  /\ pc = "connect" /\ peer # "listening"
  /\ \/ pc' = "asleep" /\ tries' = tries + 1
     \/ pc' = "outside" /\ UNCHANGED tries
  /\ UNCHANGED <<connected, buf, len, start, stop, session, sender, nav, flaws>>

ConnectWakes ==
  /\ pc = "asleep"
  /\ pc' = IF lock = "deleted" THEN "undefined"
           ELSE IF tries < Retries THEN "connect" ELSE "outside"
  /\ UNCHANGED <<connected, buf, len, start, tries, stop, session, sender, nav, flaws>>

-----------------------------------------------------------------------------
(* read_more_locked                                                        *)

ReadCount == IF Len(inbox) < ReadChunk THEN Len(inbox) ELSE ReadChunk

(* Mutant of Full: the last cell, the one that ends every string, is used. *)
FullLate(n) == n > BufferSize

Full(n) == n >= BufferSize

(* ReadFile returns data: kept behind the pending bytes, or dropped        *)
(* together with them.                                                     *)
ReadChunkKept ==
  /\ pc = "read" /\ inbox # <<>> /\ ~Full(len + ReadCount)
  /\ buf' = [i \in DOMAIN buf |->
               IF i \in len..(len + ReadCount - 1) THEN inbox[i - len + 1] ELSE buf[i]]
  /\ len' = len + ReadCount
  /\ inbox' = SubSeq(inbox, ReadCount + 1, Len(inbox))
  /\ UNCHANGED <<connected, start, pc, tries, stop, session, peer, cells, sessions,
                 nav, flaws>>

ReadChunkDropped ==
  /\ pc = "read" /\ inbox # <<>> /\ Full(len + ReadCount)
  /\ len' = 0 /\ start' = 0 /\ pc' = "scan"
  /\ overflowed' = TRUE
  /\ inbox' = SubSeq(inbox, ReadCount + 1, Len(inbox))
  /\ UNCHANGED <<connected, buf, tries, stop, session, peer, cells, sessions, nav, stale>>

(* ERROR_NO_DATA, or nothing read *)
ReadNothing ==
  /\ pc = "read" /\ inbox = <<>> /\ peer = "open"
  /\ start' = 0 /\ pc' = "scan"
  /\ UNCHANGED <<connected, buf, len, tries, stop, session, sender, nav, flaws>>

(* close_pipe_locked *)
Closed == connected' = FALSE /\ len' = 0

(* The controller has hung up and everything it sent has been read: what   *)
(* this call read is not looked at any more.                               *)
ReadBroken ==
  /\ pc = "read" /\ inbox = <<>> /\ peer = "hung"
  /\ Closed
  /\ stale' = (stale \/ \E i \in 0..(len - 1) : buf[i] = NL)
  /\ peer' = "absent" /\ pc' = "outside"
  /\ UNCHANGED <<buf, start, tries, stop, session, inbox, cells, sessions, nav, overflowed>>

(* strchr: the first line end at or behind start, before any NUL *)
IsLineEnd(i) ==
  /\ buf[i] = NL
  /\ \A j \in start..(i - 1) : buf[j] \notin {NL, NUL}
LineEnds == {i \in start..(BufferSize - 1) : IsLineEnd(i)}

(* Mutant of LineUpTo: the line end stays in the line. *)
LineWithEnd(end) == [i \in 1..(end - start + 1) |-> buf[start + i - 1]]

LineUpTo(end) == [i \in 1..(end - start) |-> buf[start + i - 1]]

(* write_response_locked: two writes, into a pipe that does not wait *)
Write(answer) ==
  \/ /\ answer = <<>>
     /\ UNCHANGED <<replies, lost>>
  \/ /\ answer # <<>> /\ peer = "open"
     /\ replies' = replies \o answer \o <<NL>>
     /\ UNCHANGED lost
  \/ /\ answer # <<>>
     /\ lost' = TRUE
     /\ \/ UNCHANGED replies
        \/ peer = "open" /\ replies' = replies \o answer

(* consume_line *)
Consume ==
  /\ pc = "scan"
  /\ \E end \in LineEnds :
       /\ buf' = [buf EXCEPT ![end] = NUL]
       /\ start' = end + 1
       /\ Write(Answer(LineUpTo(end)))
       /\ enqueued' = IF IsNav(LineUpTo(end)) THEN enqueued + 1 ELSE enqueued
  /\ UNCHANGED <<connected, len, pc, tries, stop, line, due, sender, asked, flaws>>

(* Mutant of Remaining: the last pending byte is forgotten. *)
RemainingShort == IF start < len THEN len - start - 1 ELSE len - start

(* The bytes behind the last line, computed in size_t: below zero it is    *)
(* the size of the address space.                                          *)
Remaining == len - start

ScanEnds ==
  /\ pc = "scan" /\ LineEnds = {}
  /\ \/ /\ Remaining < 0                               \* memmove faults
        /\ pc' = "crashed"
        /\ UNCHANGED <<buf, len>>
     \/ /\ Remaining >= 0
        /\ buf' = [i \in DOMAIN buf |-> IF i < Remaining THEN buf[start + i] ELSE buf[i]]
        /\ len' = Remaining
        /\ pc' = "outside"
  /\ UNCHANGED <<connected, start, tries, stop, session, sender, nav, flaws>>

-----------------------------------------------------------------------------
(* stop *)

StopBegins ==
  /\ stopper = "idle"
  /\ running' = FALSE /\ stopper' = "waiting"
  /\ UNCHANGED <<reader, lock, session, sender, nav, flaws>>

(* Mutant of Joined: stop does not wait for the thread. *)
JoinedAlways == TRUE

Joined == pc \in {"off", "done"}

(* The wait for the thread: it ends, or five seconds pass, which only the  *)
(* attempts to connect can take.                                           *)
StopWaits ==
  /\ stopper = "waiting"
  /\ \/ Joined /\ stopper' = "joined"
     \/ pc \in {"connect", "asleep"} /\ stopper' = "late"
  /\ UNCHANGED <<reader, running, lock, session, sender, nav, flaws>>

(* Then, as soon as the reader is not inside the lock: *)
StopReturns ==
  /\ stopper \in {"joined", "late"} /\ lock = "live"
  /\ pc \in {"off", "outside", "asleep", "done"}
  /\ Closed
  /\ peer' = (IF peer \in {"open", "hung"} THEN "absent" ELSE peer)
  /\ lock' = "deleted"
  /\ UNCHANGED <<buf, start, pc, tries, running, stopper, session, inbox, cells, sessions,
                 nav, flaws>>

-----------------------------------------------------------------------------
(* The controller *)

Listen ==
  /\ peer = "absent" /\ ~connected /\ sessions < MaxSessions
  /\ peer' = "listening" /\ sessions' = sessions + 1
  /\ UNCHANGED <<reader, stop, session, inbox, cells, nav, flaws>>

Send(cell) ==
  /\ peer = "open" /\ cells < MaxCells
  /\ inbox' = Append(inbox, cell) /\ cells' = cells + 1
  /\ IF cell = NL
       THEN /\ due' = due \o Answer(line)
            /\ line' = <<>>
            /\ asked' = IF IsNav(line) THEN asked + 1 ELSE asked
       ELSE line' = Append(line, cell) /\ UNCHANGED <<due, asked>>
  /\ UNCHANGED <<reader, stop, replies, lost, peer, sessions, enqueued, flaws>>

HangUp ==
  /\ peer = "open"
  /\ peer' = "hung"
  /\ UNCHANGED <<reader, stop, session, inbox, cells, sessions, nav, flaws>>

ReaderNext == \/ Enter \/ ConnectOpens \/ ConnectFails \/ ConnectWakes
              \/ ReadChunkKept \/ ReadChunkDropped \/ ReadNothing \/ ReadBroken
              \/ Consume \/ ScanEnds

Next == \/ Start \/ ReaderNext
        \/ StopBegins \/ StopWaits \/ StopReturns
        \/ Listen \/ HangUp \/ \E cell \in Cells : Send(cell)

Spec == Init /\ [][Next]_vars

(* The reader thread runs. *)
FairSpec == Spec /\ WF_vars(ReaderNext)

-----------------------------------------------------------------------------
(* The fields keep their types.  The last cell of the buffer stays NUL     *)
(* whatever is read, moved or dropped, so strchr never leaves the buffer.  *)
TypeOK ==
  /\ connected \in BOOLEAN
  /\ buf \in [0..(BufferSize - 1) -> Cells \cup {NUL}]
  /\ buf[BufferSize - 1] = NUL
  /\ len \in 0..(BufferSize - 1) /\ start \in 0..BufferSize
  /\ pc \in {"off", "outside", "connect", "asleep", "read", "scan", "done", "crashed",
             "undefined"}
  /\ tries \in 0..Retries
  /\ running \in BOOLEAN
  /\ stopper \in {"idle", "waiting", "joined", "late"}
  /\ lock \in {"live", "deleted"}
  /\ peer \in {"absent", "listening", "open", "hung"}
  /\ inbox \in Seq(Cells) /\ line \in Seq(Letters)
  /\ due \in Seq({"list", "ok", "error"})
  /\ replies \in Seq({"list", "ok", "error", NL})
  /\ asked \in Nat /\ enqueued \in Nat
  /\ cells \in 0..MaxCells /\ sessions \in 0..MaxSessions
  /\ stale \in BOOLEAN /\ overflowed \in BOOLEAN /\ lost \in BOOLEAN

Clean == ~stale /\ ~overflowed

(* docs/rmi/autonav.md: "the DLL replies with one line per request".  If   *)
(* the buffer never overflowed and no pipe was closed over unread lines,   *)
(* the replies of a session are the answers to its own lines, whole and in *)
(* their order, however the bytes were cut into chunks, the reader does    *)
(* not crash, and the game is given no command nobody sent, and none twice.*)
RepliesInOrder ==
  Clean =>
    /\ pc # "crashed" /\ enqueued <= asked
    /\ ~lost => /\ Len(replies) <= 2 * Len(due)
               /\ \A i \in 1..Len(replies) :
                    replies[i] = IF i % 2 = 0 THEN NL ELSE due[(i + 1) \div 2]

(* The reader runs into the deleted lock only if stop gave up waiting for  *)
(* it; a reader that was merely between two rounds, or had a reply or a    *)
(* connect under way, ends before the lock does.                           *)
LockOutlivesReader == pc = "undefined" => stopper = "late"

(* A request is answered while the session lasts, unless a reply could not *)
(* be written, bytes were dropped, or the reader is told to stop.          *)
RequestsAnswered ==
  (pc # "off" /\ peer = "open" /\ Len(replies) < 2 * Len(due))
    ~> (Len(replies) >= 2 * Len(due) \/ peer # "open" \/ lost \/ ~Clean \/ ~running)

(* The same line of docs/rmi/autonav.md, without the condition: there are  *)
(* never more replies in a session than requests.                          *)
OneReplyPerRequest == Len(SelectSeq(replies, LAMBDA r : r # NL)) <= Len(due)
=============================================================================
