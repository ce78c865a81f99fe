--------------------------- MODULE MCHookManager ---------------------------
(* A hook that calls its original, a hook that replaces it, an import, and *)
(* the two stubs of hooks/str/string.cpp at 0xCF1A90.                      *)
EXTENDS HookManager, TLC

CONSTANTS compressed, strlen, wsasend, concatenate, concatenate_cstr

MCStubs == {compressed, strlen, wsasend, concatenate, concatenate_cstr}
MCAddr == compressed :> 1 @@ strlen :> 2 @@ wsasend :> 3
            @@ concatenate :> 4 @@ concatenate_cstr :> 4
MCOrder == <<wsasend, strlen, concatenate, concatenate_cstr, compressed>>
=============================================================================
