---------------------------- MODULE StringValues ----------------------------
(***************************************************************************)
(* What String promises, include/game/engine/string.h: strings are values. *)
(* A copy shares nothing a program can see: an operation on one string     *)
(* gives that string a new text, made from its own, an input or another    *)
(* string's, and leaves every other string alone.  After a use the class   *)
(* does not survive (spoilt) nothing is promised.                          *)
(***************************************************************************)
EXTENDS Integers, Sequences

CONSTANTS Strings, Inputs

VARIABLES value, spoilt

Init == value = [s \in Strings |-> <<>>] /\ spoilt = FALSE

Prefixes(x) == {SubSeq(x, 1, n) : n \in 0..Len(x)}

(* x without its first n letters, if they are all the same *)
Trimmed(x) == {SubSeq(x, n + 1, Len(x)) : n \in {k \in 0..Len(x) :
                                                   \A i \in 1..k : x[i] = x[1]}}

Texts == Inputs \cup {value[s] : s \in Strings}
Results(s) == Texts \cup {value[s] \o x : x \in Texts}
                    \cup Prefixes(value[s]) \cup Trimmed(value[s])

Change(s) ==
  \E x \in Results(s) : value' = [value EXCEPT ![s] = x] /\ UNCHANGED spoilt

Next == \/ ~spoilt /\ \E s \in Strings : Change(s)
        \/ spoilt'

Spec == Init /\ [][Next]_<<value, spoilt>>
=============================================================================
