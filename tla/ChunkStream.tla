---------------------------- MODULE ChunkStream ----------------------------
(***************************************************************************)
(* What the compressor and the decompressor of a chunk stream share        *)
(* (compression.go).                                                       *)
(***************************************************************************)
EXTENDS Integers, Sequences

CONSTANTS
  Byte,      \* the values a byte takes
  ChunkSize  \* ChunkSize, 64 KiB: the most one chunk may hold, decoded

=============================================================================
