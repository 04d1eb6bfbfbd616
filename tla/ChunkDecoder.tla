---------------------------- MODULE ChunkDecoder ----------------------------
(***************************************************************************)
(* blockDecompressor.decompressBlock (compression.go): the loop over the   *)
(* chunks of an LZ4 block, with the rolling dictionary that one Decoder    *)
(* keeps from call to call.                                                *)
(*                                                                         *)
(* The bytes of the block are chosen as they are read: a size prefix or    *)
(* none, a good or a bad chunk header, and a payload that is a run of      *)
(* literals and back-references, one output byte at a time.                *)
(* lz4.UncompressBlockWithDict is a library: it is modelled by what it     *)
(* writes to dst, where a distance beyond the start of dst counts back     *)
(* from the end of the dictionary.                                         *)
(***************************************************************************)
EXTENDS ChunkStream

CONSTANTS
  DictCap,    \* dictCap, 64 KiB
  Window,     \* the longest LZ4 distance, 65535
  MaxSize,    \* bound on the sizes a header or a prefix may state
  PrefixCap   \* a size prefix is believed before a chunk shorter than this, 1 << 20

ASSUME SizesAssumption ==
  /\ DictCap \in Nat \ {0}
  /\ ChunkSize \in Nat \ {0}
  /\ Window \in Nat
  /\ Window <= DictCap
  /\ MaxSize \in Nat
  /\ PrefixCap \in Nat

VARIABLES
  pc,        \* "idle", "header", "payload" or "finish"
  expected,  \* expectedUncompressedSize of the running call
  stored,    \* block.UncompressedSize: 0 in every block that a reader built
  size,      \* targetSize
  out,       \* target[:outIdx]
  start,     \* outIdx when the running chunk began: dst starts here
  back,      \* the distance that the last decoded byte was copied from, or 0
  last,      \* the running chunk has flag 0x80
  dict,      \* dict[0..DictCap-1], kept between calls
  dictSize,  \* how many leading bytes of dict are valid
  status     \* what the last call returned: "ok", or "failed" for any error

vars == <<pc, expected, stored, size, out, start, back, last, dict, dictSize, status>>
call == <<expected, stored, size>>

Slots == 0..(DictCap - 1)

(* A new Decoder: make zeroes the dictionary before its first use.         *)
Init ==
  /\ pc = "idle"
  /\ expected = 0
  /\ stored = 0
  /\ size = 0
  /\ out = << >>
  /\ start = 0
  /\ back = 0
  /\ last = FALSE
  /\ \E b \in Byte : dict = [k \in Slots |-> b]
  /\ dictSize = 0
  /\ status = "failed"

(* Any error ends the call; the dictionary stays as it is.                 *)
Error ==
  /\ pc' = "idle"
  /\ status' = "failed"
  /\ back' = 0
  /\ UNCHANGED <<call, out, start, last, dict, dictSize>>

TargetSize(n, u) == IF u > 0 THEN u ELSE n

(* Mutant: the first word is believed whatever size it states.             *)
AnyPrefix(n, u, peek, c0) == c0 \in 1..(PrefixCap - 1)

(* Data starts with its uncompressed size: the first word is one of the    *)
(* sizes asked for, and a plausible chunk size follows it.                 *)
HasPrefix(n, u, peek, c0) ==
  /\ peek \in {n, TargetSize(n, u)}
  /\ c0 \in 1..(PrefixCap - 1)

(* Mutant: the dictionary of the previous call is still valid.             *)
BeginWithOldDict(n, u, peek, c0) ==
  LET t == IF HasPrefix(n, u, peek, c0) THEN peek ELSE TargetSize(n, u)
  IN  /\ pc = "idle"
      /\ TargetSize(n, u) > 0
      /\ expected' = n
      /\ stored' = u
      /\ size' = t
      /\ out' = << >>
      /\ start' = 0
      /\ back' = 0
      /\ last' = FALSE
      /\ pc' = "header"
      /\ status' = "running"
      /\ UNCHANGED <<dict, dictSize>>

(* A call with an LZ4 block.  peek and c0 are what the first seven bytes   *)
(* say; shorter data reads as c0 = 0, which is no prefix either.  A target *)
(* size of zero is ErrInvalidTargetSize and starts nothing.                *)
Begin(n, u, peek, c0) ==
  LET t == IF HasPrefix(n, u, peek, c0) THEN peek ELSE TargetSize(n, u)
  IN  /\ pc = "idle"
      /\ TargetSize(n, u) > 0
      /\ expected' = n
      /\ stored' = u
      /\ size' = t
      /\ out' = << >>
      /\ start' = 0
      /\ back' = 0
      /\ last' = FALSE
      /\ pc' = "header"
      /\ dictSize' = 0
      /\ status' = "running"
      /\ UNCHANGED dict

(* Fewer than four bytes left, unknown flags, or a chunk size that is zero *)
(* or runs past the data: all of them depend on the data alone.            *)
BadHeader == pc = "header" /\ Error

(* ErrDecodeOverrun: another chunk, though the target is full.             *)
Overrun == pc = "header" /\ Len(out) >= size /\ Error

(* A good header: dst is the next ChunkSize bytes of target, or the rest.  *)
Header(isLast) ==
  /\ pc = "header"
  /\ Len(out) < size
  /\ pc' = "payload"
  /\ start' = Len(out)
  /\ last' = isLast
  /\ UNCHANGED <<call, out, back, dict, dictSize, status>>

Want == IF ChunkSize < size - start THEN ChunkSize ELSE size - start
Produced == Len(out) - start

(* The next byte of the payload is a literal.                              *)
Literal(b) ==
  /\ pc = "payload"
  /\ Produced < Want
  /\ out' = Append(out, b)
  /\ back' = 0
  /\ UNCHANGED <<pc, call, start, last, dict, dictSize, status>>

(* Where the library finds the byte that is distance back.                 *)
Reachable(distance) == distance <= dictSize + Produced

Fetch(distance) ==
  IF distance <= Produced
    THEN out[Len(out) + 1 - distance]
    ELSE dict[dictSize - (distance - Produced)]

(* The next byte of the payload is copied.                                 *)
Copy(distance) ==
  /\ pc = "payload"
  /\ Produced < Want
  /\ Reachable(distance)
  /\ out' = Append(out, Fetch(distance))
  /\ back' = distance
  /\ UNCHANGED <<pc, call, start, last, dict, dictSize, status>>

(* ErrLZ4Decode: a malformed payload, an output longer than dst, or a      *)
(* distance that is not reachable.                                         *)
LZ4Fails == pc = "payload" /\ Error

(* Mutant: a chunk that does not fit is appended without making room.      *)
KeepDecodedUnbounded ==
  /\ dict' = [k \in Slots |-> IF k >= dictSize /\ k < dictSize + Produced
                                THEN out[start + 1 + k - dictSize] ELSE dict[k]]
  /\ dictSize' = dictSize + Produced

(* Mutant: the old bytes are not moved down before the new are stored.     *)
KeepDecodedUnshifted ==
  LET avail == DictCap - dictSize
  IN  \/ /\ Produced <= avail
         /\ dict' = [k \in Slots |-> IF k >= dictSize /\ k < dictSize + Produced
                                       THEN out[start + 1 + k - dictSize] ELSE dict[k]]
         /\ dictSize' = dictSize + Produced
      \/ /\ Produced > avail
         /\ dict' = [k \in Slots |-> IF k >= DictCap - Produced
                                       THEN out[Len(out) + 1 + k - DictCap] ELSE dict[k]]
         /\ dictSize' = DictCap

(* The dictionary takes the decoded chunk: as a whole, behind what it has, *)
(* or after moving what it has down by shift.                              *)
KeepDecoded ==
  LET avail == DictCap - dictSize
      shift == Produced - avail
  IN  \/ /\ Produced >= DictCap
         /\ dict' = [k \in Slots |-> out[Len(out) - DictCap + 1 + k]]
         /\ dictSize' = DictCap
      \/ /\ Produced < DictCap /\ Produced <= avail
         /\ dict' = [k \in Slots |-> IF k >= dictSize /\ k < dictSize + Produced
                                       THEN out[start + 1 + k - dictSize] ELSE dict[k]]
         /\ dictSize' = dictSize + Produced
      \/ /\ Produced < DictCap /\ Produced > avail
         /\ dict' = [k \in Slots |-> IF k >= DictCap - Produced
                                       THEN out[start + 1 + k - (DictCap - Produced)]
                                       ELSE dict[k + shift]]
         /\ dictSize' = DictCap

(* The payload is consumed; flag 0x80 leaves the loop.                     *)
EndChunk ==
  /\ pc = "payload"
  /\ KeepDecoded
  /\ pc' = IF last THEN "finish" ELSE "header"
  /\ UNCHANGED <<call, out, start, back, last, status>>

(* Both sizes are right: the whole target is returned.                     *)
Finish ==
  /\ pc = "finish"
  /\ Len(out) = size
  /\ pc' = "idle"
  /\ status' = "ok"
  /\ back' = 0
  /\ UNCHANGED <<call, out, start, last, dict, dictSize>>

(* ErrDecodedSizeMismatch, or ErrBlockLengthMismatch for bytes that follow *)
(* the last chunk.                                                         *)
FinishFails == pc = "finish" /\ Error

Next ==
  \/ \E n, u, peek \in 0..MaxSize, c0 \in {0, 1, PrefixCap} : Begin(n, u, peek, c0)
  \/ BadHeader
  \/ Overrun
  \/ \E isLast \in BOOLEAN : Header(isLast)
  \/ \E b \in Byte : Literal(b)
  \/ \E distance \in 1..Window : Copy(distance)
  \/ LZ4Fails
  \/ EndChunk
  \/ Finish
  \/ FinishFails

Spec == Init /\ [][Next]_vars

-----------------------------------------------------------------------------
(***************************************************************************)
(* Properties                                                              *)
(***************************************************************************)

TypeOK ==
  /\ pc \in {"idle", "header", "payload", "finish"}
  /\ expected \in 0..MaxSize
  /\ stored \in 0..MaxSize
  /\ size \in 0..MaxSize
  /\ out \in Seq(Byte)
  /\ start \in 0..MaxSize
  /\ back \in 0..Window
  /\ last \in BOOLEAN
  /\ dict \in [Slots -> Byte]
  /\ dictSize \in 0..DictCap
  /\ status \in {"running", "ok", "failed"}

(* Inside a payload a distance is found if it stays in the output of this  *)
(* call, and only then, and it leads to that very byte: chunk boundaries,  *)
(* the shifted dictionary and what an earlier call left in it do not show. *)
ReferencesResolve ==
  pc = "payload" =>
    \A distance \in 1..Window :
      /\ Reachable(distance) <=> distance <= Len(out)
      /\ Reachable(distance) => Fetch(distance) = out[Len(out) + 1 - distance]

(* A block from a reader, which never carries UncompressedSize, decodes to *)
(* the length the DDS header asks for or fails: readLargestMipFromReader   *)
(* relies on it and compares no length.                                    *)
ReaderGetsExpected ==
  status = "ok" /\ stored = 0 => Len(out) = expected

Stream == INSTANCE SlidingWindow WITH Sizes <- 0..MaxSize

(* The chunk loop decodes the stream as if it had no chunks.               *)
ImplementsSlidingWindow == Stream!Spec

=============================================================================
