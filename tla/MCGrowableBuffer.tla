-------------------------- MODULE MCGrowableBuffer --------------------------
(* Small instance of GrowableBuffer: the slack constants are scaled down so *)
(* that growth, reuse of spare capacity and shrinking all happen within a   *)
(* few bytes.                                                               *)
EXTENDS GrowableBuffer

MCByte == {"a", "b"}
MCRequests == {-1, 0, 1, 2, 3, 5}
MCMinCapacities == {0, 4}
=============================================================================
