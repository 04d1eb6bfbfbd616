--------------------------- MODULE MCChunkDecoder ---------------------------
(***************************************************************************)
(* Instance of ChunkDecoder for TLC.                                       *)
(***************************************************************************)
EXTENDS ChunkDecoder

=============================================================================
