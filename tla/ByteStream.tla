----------------------------- MODULE ByteStream -----------------------------
(***************************************************************************)
(* What a ProudNet buffer promises its users (the connection worker and    *)
(* the socket staging areas): an array of bytes, indexed from 0, to which  *)
(* bytes are appended and which can be resized.  Bytes below the smaller   *)
(* of the old and the new size never change, whatever reallocation happens *)
(* below, and a call that throws changes nothing.                          *)
(***************************************************************************)
EXTENDS Integers

CONSTANTS Byte,    \* the values callers write
          Junk     \* a byte nobody wrote (fresh heap memory)

VARIABLES n,       \* number of bytes held
          content, \* [0..n-1 -> Byte \cup {Junk}]
          call     \* the last call: [op, len, src, ok]

Cell == Byte \cup {Junk}

NoCall == [op |-> "none", len |-> 0, src |-> <<>>, ok |-> TRUE]

SInit == /\ n = 0
         /\ content \in [0..-1 -> Cell]
         /\ call = NoCall

(* append: the old bytes followed by the caller's bytes. *)
SAppend == /\ call'.op = "append"
           /\ call'.ok
           /\ n' = n + call'.len
           /\ content' = [i \in 0..(n + call'.len - 1) |->
                            IF i < n THEN content[i] ELSE call'.src[i - n]]

(* resize: the common prefix survives, new bytes are arbitrary. *)
SResize == /\ call'.op = "resize"
           /\ call'.ok
           /\ n' = call'.len
           /\ content' \in [0..(call'.len - 1) -> Cell]
           /\ \A i \in 0..(call'.len - 1) : i < n => content'[i] = content[i]

(* a negative size, a growth mode out of range or an exhausted heap *)
SThrow == /\ ~call'.ok
          /\ UNCHANGED <<n, content>>

SNext == SAppend \/ SResize \/ SThrow

SSpec == SInit /\ [][SNext]_<<n, content, call>>
=============================================================================
