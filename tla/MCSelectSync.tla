---------------------------- MODULE MCSelectSync ----------------------------
(* Two legs, or a leg and the ENTRY socket of the game, on three handles.  *)
EXTENDS ProudConnect, TLC

CONSTANTS n1, n2

MCNodes == {n1, n2}
GameAndProbe == n1 :> GamePort @@ n2 :> ProbePort
Symmetry == Permutations(Handles)
=============================================================================
