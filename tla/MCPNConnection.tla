--------------------------- MODULE MCPNConnection ---------------------------
(* Small instance of PNConnection.  An outbound string that is empty, one  *)
(* byte longer than a send, and longer than 256 so that the aliased low    *)
(* byte matters; receives that close (0) or fill part or all of the window. *)
EXTENDS PNConnection

MCOutboundLengths == {0, 101, 300}
MCTcpLengths == {100, 257}
MCChunkSizes == {0, 12000, 20768, 32768}
=============================================================================
