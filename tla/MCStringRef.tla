---------------------------- MODULE MCStringRef ----------------------------
(* Two Strings of two threads, and three letters' room. *)
EXTENDS StringRef, TLC

CONSTANTS t1, t2, s1, s2, l1, l2

MCOwner == s1 :> t1 @@ s2 :> t2
MCInputs == {<<>>, <<l2, l1>>}

(* A state up to the names of the bodies: who has a body, and what it is.  *)
Sharers(y) == Owners(y) \cup {t \in Threads : cow[t] # Idle /\ cow[t].old = y}
Body(y) == IF y = Null THEN <<>> ELSE <<Sharers(y), refs[y], leaked[y], len[y], text[y]>>
View == <<[s \in Strings |-> Body(handle[s])],
          [t \in Threads |-> <<cow[t].at, cow[t].op, Body(cow[t].old)>>],
          nullRefs, flaws>>
=============================================================================
