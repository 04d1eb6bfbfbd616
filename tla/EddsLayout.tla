----------------------------- MODULE EddsLayout -----------------------------
(***************************************************************************)
(* What an EDDS input looks like, as a sequence of units: the container    *)
(* that both writeFromBlocks (write.go) emit, and the older layout that    *)
(* readLegacySingleBlock (read.go) describes.  A unit knows the field and  *)
(* the mip level it was written for, so that a reader that is one unit off *)
(* or takes another level's body gets something else than it should.       *)
(***************************************************************************)
EXTENDS Integers, Sequences, SequencesExt

CONSTANTS
  HeaderLength,  \* the DDS magic and header, 4 + bcn.DDSHeaderSize
  DX10Length,    \* the DX10 header, 20
  MagicLength    \* a block magic, 4

ASSUME LengthsAssumption ==
  HeaderLength \in Nat \ {0} /\ DX10Length \in Nat \ {0} /\ MagicLength \in Nat \ {0}

COPY == "COPY"
LZ4 == "LZ4 "

Parts == {"header", "dx10", COPY, LZ4, "size", "uncompressed", "chunk", "payload"}
UnitType == [part : Parts, mip : Nat, value : Int]
Unit(part, mip, value) == [part |-> part, mip |-> mip, value |-> value]
Run(part, mip, n) == [k \in 1..n |-> Unit(part, mip, k)]

(* The raw bytes of a mip level, and the chunk stream they compress to.    *)
(* How well they compress plays no part: a unit of the stream per unit.    *)
Payload(mip, n) == Run("payload", mip, n)
ChunkStream(mip, n) == Run("chunk", mip, n)

Headers(dx10) ==
  Run("header", 0, HeaderLength) \o (IF dx10 THEN Run("dx10", 0, DX10Length) ELSE << >>)

(* A compressed block: its magic, and the length of its raw bytes.         *)
BlockType == [magic : {COPY, LZ4}, raw : Nat \ {0}]

(* writeBlockData: an LZ4 body starts with the uncompressed size.          *)
Body(mip, b) ==
  IF b.magic = LZ4
    THEN <<Unit("uncompressed", mip, b.raw)>> \o ChunkStream(mip, b.raw)
    ELSE Payload(mip, b.raw)

(* A table entry: the magic, and the size of the body.                     *)
TableEntry(mip, b) == Run(b.magic, mip, MagicLength) \o <<Unit("size", mip, Len(Body(mip, b)))>>

(* blocks[m + 1] is mip level m: the caller's slice runs from the largest  *)
(* level to the smallest, the file from the smallest to the largest, in    *)
(* the table and in the bodies.                                            *)
Container(dx10, blocks) ==
  LET backward == Reverse([k \in 1..Len(blocks) |-> k - 1])
  IN  Headers(dx10)
      \o FlattenSeq([k \in 1..Len(blocks) |-> TableEntry(backward[k], blocks[backward[k] + 1])])
      \o FlattenSeq([k \in 1..Len(blocks) |-> Body(backward[k], blocks[backward[k] + 1])])

(* An older file: the headers and one blob, raw, compressed, or compressed *)
(* behind its uncompressed size.  A chunk stream is longer than a magic:   *)
(* its first header alone has that length.                                 *)
LegacyBlobs(n) ==
  {Payload(0, n)}
  \cup {blob \in {ChunkStream(0, n), <<Unit("uncompressed", 0, n)>> \o ChunkStream(0, n)} :
          Len(blob) > MagicLength}

=============================================================================
