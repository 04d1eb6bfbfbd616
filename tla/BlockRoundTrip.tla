--------------------------- MODULE BlockRoundTrip ---------------------------
(***************************************************************************)
(* A payload that ChunkEncoder turned into a block, written by             *)
(* writeBlockData, read back by readBlockBody and decoded by ChunkDecoder. *)
(* The decoder's choices, which ChunkDecoder leaves open, are fixed here   *)
(* by the block: each of its steps is the one that these bytes cause.      *)
(***************************************************************************)
EXTENDS ChunkDecoder, ChunkEncoder

(* lz4.CompressBlockBound keeps a chunk's length far below 1 << 20, and no *)
(* payload is longer than the sizes that the decoder is bounded to.        *)
ASSUME PipelineAssumption ==
  /\ MinCompress \in Nat \ {0}
  /\ Slack \in Nat
  /\ ChunkSize + Slack < PrefixCap
  /\ \A p \in Payloads : Len(p) <= MaxSize

VARIABLE turn  \* which chunk of the block the decoder is at

pvars == <<evars, vars, turn>>

PInit == EInit /\ Init /\ turn = 0

Encode == ENext /\ UNCHANGED <<vars, turn>>

Written == stage = "done"
Current == block.chunks[turn]
Decoding == Written /\ pc # "idle"

(* The body of an LZ4 block is its uncompressed size and the chunk stream; *)
(* the decoder looks at that size and at the first chunk's length.         *)
Open ==
  /\ Written
  /\ block.magic = LZ4
  /\ turn = 0
  /\ Begin(Len(data), 0, block.uncompressed, block.chunks[1].stored)
  /\ turn' = 1
  /\ UNCHANGED evars

(* The size at the head of the body has been taken for what it is.         *)
Aligned == HasPrefix(expected, stored, block.uncompressed, block.chunks[1].stored)

NextHeader ==
  /\ Decoding
  /\ pc = "header"
  /\ IF Aligned /\ turn <= Len(block.chunks) /\ Len(out) < size
       THEN Header(Current.last)
       ELSE Error
  /\ UNCHANGED <<evars, turn>>

(* The library undoes a chunk byte by byte: a literal, or a match within   *)
(* the chunk, since the compressor sees no other.                          *)
NextByte ==
  LET b == Current.payload[Produced + 1]
  IN  /\ Decoding
      /\ pc = "payload"
      /\ Produced < Len(Current.payload)
      /\ IF Produced >= Want
           THEN LZ4Fails
           ELSE \/ Literal(b)
                \/ \E distance \in 1..Window :
                     distance <= Produced /\ Fetch(distance) = b /\ Copy(distance)
      /\ UNCHANGED <<evars, turn>>

ChunkDone ==
  /\ Decoding
  /\ pc = "payload"
  /\ Produced = Len(Current.payload)
  /\ EndChunk
  /\ turn' = turn + 1
  /\ UNCHANGED evars

Close ==
  /\ Decoding
  /\ IF turn > Len(block.chunks) /\ Len(out) = size THEN Finish ELSE FinishFails
  /\ UNCHANGED <<evars, turn>>

Finished == Written /\ (block.magic = COPY \/ (turn > 0 /\ pc = "idle"))

(* The payload is on disk and was read back: the pipeline rests.           *)
Rest ==
  /\ Finished
  /\ UNCHANGED pvars

PNext == Encode \/ Open \/ NextHeader \/ NextByte \/ ChunkDone \/ Close \/ Rest

PSpec == PInit /\ [][PNext]_pvars

-----------------------------------------------------------------------------
(* A block that the encoder hands out is never refused by the decoder, and *)
(* a decode that ends returns the payload: chunk sizes, flags, the size    *)
(* prefix and the dictionary agree on both sides.                          *)
RoundTrip ==
  Written /\ block.magic = LZ4 /\ turn > 0 /\ pc = "idle" => status = "ok" /\ out = data

(* The block table's size is what writeBlockData puts into the file, which *)
(* is what a reader of the next block skips or reads.                      *)
BodyLength ==
  IF block.magic = LZ4 THEN HeaderLength + StreamLength(block.chunks) ELSE Len(block.payload)
SizeIsBodyLength == Written => block.size = BodyLength

=============================================================================
