---------------------------- MODULE ChunkEncoder ----------------------------
(***************************************************************************)
(* compressBlockWithOptions and blockCompressor.compressBlock              *)
(* (compression.go): one mip payload becomes an LZ4 block, a run of        *)
(* independently compressed chunks, or falls back to a COPY block.  What   *)
(* the LZ4 library makes of a chunk is its choice: a length within its     *)
(* bound, nothing, or an error.  A call that is refused makes no step.     *)
(***************************************************************************)
EXTENDS ChunkStream, SequencesExt

CONSTANTS
  Payloads,     \* the mip payloads to compress
  Options,      \* the options of the calls: see OptionsType
  MinCompress,  \* payloads shorter than this are stored, 1024
  Slack,        \* how much longer than its input a compressed chunk may be
  HeaderLength, \* the length of a chunk header, and of the size before the stream: 4
  ChunkCap,     \* the largest compressed chunk, 0x7FFFFF
  MaxInt32,     \* the largest block size
  None          \* no block yet

ASSUME PayloadsAssumption == Payloads \subseteq Seq(Byte) /\ None \notin Payloads

(* CompressionOptions, and the Compress bool that stands in for a mode; a  *)
(* ratio is <<numerator, denominator>>, or NaN, which is <<0, 0>>.         *)
OptionsType ==
  [mode : {"Default", "None", "LZ4", "LZ4HC", "Unknown"}, compress : BOOLEAN,
   hcLevel : Int, minRatio : Int \X Nat, chunkSize : Int]

ASSUME OptionsAssumption == Options \subseteq OptionsType

VARIABLES
  stage,   \* "idle", "chunks", "total" or "done"
  data,    \* the payload
  step,    \* opts.chunkSize
  ratio,   \* opts.minRatio
  chunks,  \* the chunk stream so far
  block    \* the block returned, or None

evars == <<stage, data, step, ratio, chunks, block>>

COPY == "COPY"
LZ4 == "LZ4 "
NaN == <<0, 0>>

Chunk(payload, stored, last) == [payload |-> payload, stored |-> stored, last |-> last]

(* How many bytes of the payload the chunks hold: the loop variable i.     *)
Covered(cs) == FoldLeft(LAMBDA n, c : n + Len(c.payload), 0, cs)

StreamLength(cs) == FoldLeft(LAMBDA n, c : n + HeaderLength + c.stored, 0, cs)

(* What normalizeCompressionOptions fills in for zero values.              *)
Mode(o) ==
  IF o.mode # "Default" THEN o.mode ELSE IF o.compress THEN "LZ4" ELSE "None"
MinRatio(o) == IF o.minRatio[1] = 0 /\ o.minRatio # NaN THEN <<20, 17>> ELSE o.minRatio
StepSize(o) == IF o.chunkSize = 0 THEN ChunkSize ELSE o.chunkSize

(* minRatio <= 0, which NaN is not.                                        *)
NotPositive(q) == q # NaN /\ q[1] <= 0

(* compressionHCLevel, and which modes have levels.                        *)
ValidLevel(o) == o.hcLevel \in 0..9 /\ (o.hcLevel # 0 => Mode(o) = "LZ4HC")

(* Mutant: any positive chunk size is accepted.                            *)
AnyChunkSize(o) ==
  Mode(o) # "Unknown" /\ ~NotPositive(MinRatio(o)) /\ StepSize(o) > 0 /\ ValidLevel(o)

(* normalizeCompressionOptions: the options that it does not refuse.       *)
ValidOptions(o) ==
  /\ Mode(o) \in {"None", "LZ4", "LZ4HC"}
  /\ ~NotPositive(MinRatio(o))
  /\ StepSize(o) \in 1..ChunkSize
  /\ ValidLevel(o)

(* raw / stored < MinRatio, on rationals; of NaN it is false.              *)
BelowRatio(raw, stored, q) == raw * q[2] < q[1] * stored

CopyBlock(p) == [magic |-> COPY, size |-> Len(p), payload |-> p]

EInit ==
  /\ stage = "idle"
  /\ data = << >>
  /\ step = 0
  /\ ratio = <<1, 1>>
  /\ chunks = << >>
  /\ block = None

(* A payload too short to compress, or mode CompressionNone.               *)
Store(p, o) ==
  /\ stage = "idle"
  /\ ValidOptions(o)
  /\ Len(p) <= MaxInt32
  /\ Mode(o) = "None" \/ Len(p) < MinCompress
  /\ data' = p
  /\ block' = CopyBlock(p)
  /\ stage' = "done"
  /\ UNCHANGED <<step, ratio, chunks>>

Compress(p, o) ==
  /\ stage = "idle"
  /\ ValidOptions(o)
  /\ Len(p) <= MaxInt32
  /\ Mode(o) # "None" /\ Len(p) >= MinCompress
  /\ data' = p
  /\ step' = StepSize(o)
  /\ ratio' = MinRatio(o)
  /\ stage' = "chunks"
  /\ UNCHANGED <<chunks, block>>

Remaining == Len(data) - Covered(chunks)
ChunkLength == IF step < Remaining THEN step ELSE Remaining
Source == SubSeq(data, Covered(chunks) + 1, Covered(chunks) + ChunkLength)

(* One turn of the loop that keeps its chunk.                              *)
AddChunk(cn) ==
  /\ stage = "chunks"
  /\ cn \in 1..ChunkCap
  /\ ~BelowRatio(ChunkLength, cn, ratio)
  /\ chunks' = Append(chunks, Chunk(Source, cn, ChunkLength = Remaining))
  /\ stage' = IF ChunkLength = Remaining THEN "total" ELSE "chunks"
  /\ UNCHANGED <<data, step, ratio, block>>

(* One chunk that does not compress stores the whole payload.              *)
GiveUp(cn) ==
  /\ stage = "chunks"
  /\ cn = 0 \/ BelowRatio(ChunkLength, cn, ratio)
  /\ block' = CopyBlock(data)
  /\ stage' = "done"
  /\ UNCHANGED <<data, step, ratio, chunks>>

(* ErrLZ4Compress, ErrChunkTooLarge: no block.  Nor is there one when the  *)
(* ratio is NaN and the platform makes a negative capacity of it.          *)
CompressFails ==
  /\ stage = "chunks"
  /\ stage' = "idle"
  /\ chunks' = << >>
  /\ UNCHANGED <<data, step, ratio, block>>

(* Mutant: the uncompressed size in front of the stream is not counted.    *)
StreamOnly(cs) == StreamLength(cs)

StoredSize(cs) == HeaderLength + StreamLength(cs)

(* After the loop: the stored size counts the uncompressed size before the *)
(* stream, and the ratio is judged once more on the whole.                 *)
Total ==
  LET size == StoredSize(chunks)
  IN  /\ stage = "total"
      /\ IF size > MaxInt32
           THEN stage' = "idle" /\ chunks' = << >> /\ UNCHANGED block
           ELSE /\ stage' = "done"
                /\ block' = IF BelowRatio(Len(data), size, ratio)
                              THEN CopyBlock(data)
                              ELSE [magic |-> LZ4, size |-> size,
                                    uncompressed |-> Len(data), chunks |-> chunks]
                /\ UNCHANGED chunks
      /\ UNCHANGED <<data, step, ratio>>

ENext ==
  \/ stage = "idle" /\ \E p \in Payloads, o \in Options : Store(p, o) \/ Compress(p, o)
  \/ \E cn \in 0..(ChunkLength + Slack) : AddChunk(cn) \/ GiveUp(cn)
  \/ CompressFails
  \/ Total

=============================================================================
