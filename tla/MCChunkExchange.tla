-------------------------- MODULE MCChunkExchange ---------------------------
(***************************************************************************)
(* Drones in a row: the last one hears of the first over the second.       *)
(***************************************************************************)
EXTENDS ChunkExchange

MCRow == {{1, 2}, {2, 3}}
MCPair == {{1, 2}}
=============================================================================
