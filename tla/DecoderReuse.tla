---------------------------- MODULE DecoderReuse ----------------------------
(***************************************************************************)
(* The buffers of a Decoder (read.go, block.go, compression.go), call      *)
(* after call: the block table, the block body, the raw payload and the    *)
(* image are slices that the next call writes over, and what one of them   *)
(* holds beyond the current input is what earlier calls left there, also   *)
(* calls that failed half-way.  A cell knows the input and the place it    *)
(* comes from.  ReadPath has the parsing, ChunkDecoder the chunks and the  *)
(* dictionary.                                                             *)
(***************************************************************************)
EXTENDS Heap

CONSTANTS
  Inputs,  \* what is decoded, see InputType
  None     \* no input

COPY == "COPY"
LZ4 == "LZ4 "
Faults == {"none", "headers", "table", "bodies", "body", "inflate", "image"}

(* An input: how it is read, the sizes of the bodies before the largest    *)
(* level's, that body's or the legacy blob's magic (a COPY blob is a raw   *)
(* payload), stored and decoded size, and what is wrong with it.           *)
InputType ==
  [name : STRING, way : {"seeker", "stream"}, legacy : BOOLEAN, skips : Seq(Nat \ {0}),
   magic : {COPY, LZ4}, stored : Nat \ {0}, size : Nat \ {0}, fault : Faults]

(* A COPY body of another size than the payload's is refused; a compressed *)
(* blob cut to just that size is taken for raw pixels: see ReadPath.  A    *)
(* legacy file has neither a table nor other bodies.                       *)
ASSUME InputsAssumption ==
  \A i \in Inputs :
    /\ i \in InputType
    /\ i.legacy => i.skips = << >> /\ i.fault \notin {"table", "bodies"}
    /\ i.magic = COPY => (i.stored = i.size) = (i.fault # "inflate")
    /\ i.legacy /\ i.fault = "inflate" => i.stored # i.size

ASSUME NoneAssumption == None \notin Inputs

(* A Decoder holds four arrays between calls, and a call makes four more.  *)
ASSUME RoomAssumption == ArrayCount >= 8

VARIABLES
  pc,       \* what the call does next, "idle" between calls
  input,    \* the input of the running call, or None
  decoder,  \* the slices that a Decoder keeps
  local,    \* the slices of the running call
  done,     \* units inflated
  given,    \* the image the caller was given last
  outcome   \* "none", "ok" or "error"

vars == <<mem, pc, input, decoder, local, done, given, outcome>>

Buffers == {"blockTable", "blockData", "raw", "img"}
Locals == {"table", "data", "target", "mipData", "image"}
NoLocals == [l \in Locals |-> Nil]

Init ==
  /\ mem = [a \in Arrays |-> << >>]
  /\ pc = "idle"
  /\ input = None
  /\ decoder = [b \in Buffers |-> Nil]
  /\ local = NoLocals
  /\ done = 0
  /\ given = Nil
  /\ outcome = "none"

-----------------------------------------------------------------------------
(***************************************************************************)
(* What the input holds                                                    *)
(***************************************************************************)

Cell(part, value) == [of |-> input.name, part |-> part, value |-> value]
Garbage == [of |-> "nothing", part |-> "garbage", value |-> 0]

Levels == Len(input.skips) + 1
Total(ns) ==
  LET upTo[n \in 0..Len(ns)] == IF n = 0 THEN 0 ELSE upTo[n - 1] + ns[n]
  IN  upTo[Len(ns)]

(* The entry of table index i - 1 has the body's magic and size.           *)
EntryCell(i) == IF i < Levels THEN Cell(COPY, input.skips[i]) ELSE Cell(input.magic, input.stored)

(* The units behind the table, or of a blob: bodies one after another.     *)
BodyUnit(k) ==
  LET before == Total(input.skips)
  IN  IF k <= before THEN Cell("skipped", k)
      ELSE Cell(IF input.magic = COPY THEN "raw" ELSE "stored", k - before)
Bodies(from, n) == [k \in 1..n |-> BodyUnit(from + k)]

(* Unit k of the payload comes from a stored unit no later than it; made   *)
(* from anything else it is garbage, and so is a pixel.                    *)
Source(k) == 1 + ((k - 1) * input.stored) \div input.size
Inflated(cell, k) == IF cell = Cell("stored", Source(k)) THEN Cell("raw", k) ELSE Garbage
Pixel(cell, k) == IF cell = Cell("raw", k) THEN Cell("pixel", k) ELSE Garbage

-----------------------------------------------------------------------------
(***************************************************************************)
(* The call                                                                *)
(***************************************************************************)

(* What a call leaves behind: its locals are gone, the Decoder's slices    *)
(* and the caller's image stay.                                            *)
Leave(m, kept, image) ==
  LET roots == <<kept.blockTable, kept.blockData, kept.raw, kept.img, image>>
  IN  /\ mem' = Collected(m, roots)
      /\ decoder' = [blockTable |-> Moved(roots)[1], blockData |-> Moved(roots)[2],
                     raw |-> Moved(roots)[3], img |-> Moved(roots)[4]]
      /\ given' = Moved(roots)[5]
      /\ pc' = "idle"
      /\ input' = None
      /\ local' = NoLocals
      /\ done' = 0

Goto(label) ==
  /\ pc' = label
  /\ UNCHANGED <<input, given, outcome>>

(* An error: what was written to the Decoder's arrays stays written.       *)
Fail(m) == Leave(m, decoder, given) /\ outcome' = "error"

Begin(i) ==
  /\ pc = "idle"
  /\ pc' = "headers"
  /\ input' = i
  /\ outcome' = "none"
  /\ UNCHANGED <<mem, decoder, local, done, given>>

(* Options, headers and limits are checked before any buffer is touched.   *)
ReadHeaders ==
  /\ pc = "headers"
  /\ IF input.fault = "headers"
       THEN Fail(mem)
       ELSE /\ Goto(IF input.legacy THEN "blob" ELSE "table")
            /\ UNCHANGED <<mem, decoder, local, done>>

(* Mutant: the entries are appended to those of the last table.            *)
AppendToOldTable(s) == [s EXCEPT !.len = decoder.blockTable.len]

(* ensureBlockHeaderSlots(dst, n)[:0].                                     *)
Emptied(s) == [s EXCEPT !.len = 0]

(* A seeker's table is the Decoder's, a stream's is made for it.           *)
TableBuffer == IF input.way = "seeker" THEN decoder.blockTable ELSE Nil

(* readBlockTableInto: entries are appended one by one, and the slice is   *)
(* returned, and kept, only when all of them could be read.                *)
ReadTable ==
  LET slots == Emptied(EnsureLen(TableBuffer, Levels))
      With(k) == Written(AfterEnsureLen(TableBuffer, Levels), slots, slots.len,
                         [i \in 1..k |-> EntryCell(i)])
      table == [slots EXCEPT !.len = @ + Levels]
  IN  /\ pc = "table"
      /\ IF input.fault = "table"
           THEN \E k \in 0..(Levels - 1) : Fail(With(k))
           ELSE /\ mem' = With(Levels)
                /\ local' = [local EXCEPT !.table = table]
                /\ decoder' = IF input.way = "seeker"
                                THEN [decoder EXCEPT !.blockTable = table] ELSE decoder
                /\ Goto("bodies")
                /\ UNCHANGED done

(* Limits of the table, the skipped bodies and the sizes: the table is     *)
(* already kept.                                                           *)
SkipBodies ==
  /\ pc = "bodies"
  /\ IF input.fault = "bodies"
       THEN Fail(mem)
       ELSE Goto("body") /\ UNCHANGED <<mem, decoder, local, done>>

Table == Content(local.table)
Largest == Table[Levels]
Position == Total([i \in 1..(Levels - 1) |-> Table[i].value])

BodyBuffer(n) == EnsureLen(decoder.blockData, n)

(* readBlockBodyInto: a short read leaves a part of the body in the        *)
(* Decoder's array.                                                        *)
ReadBody ==
  LET n == Largest.value
      With(k) == Written(AfterEnsureLen(decoder.blockData, n), BodyBuffer(n), 0, Bodies(Position, k))
  IN  /\ pc = "body"
      /\ IF input.fault = "body"
           THEN \E k \in 0..(n - 1) : Fail(With(k))
           ELSE /\ mem' = With(n)
                /\ local' = [local EXCEPT !.data = BodyBuffer(n)]
                /\ decoder' = [decoder EXCEPT !.blockData = BodyBuffer(n)]
                /\ Goto(IF Largest.part = COPY THEN "copy" ELSE "target")
                /\ UNCHANGED done

(* readLegacySingleBlockFromReader: a blob is read to an array of its own. *)
ReadBlob ==
  /\ pc = "blob"
  /\ IF input.fault = "body"
       THEN Fail(mem)
       ELSE /\ mem' = Written(AfterMake(input.stored), Made(input.stored), 0, Bodies(0, input.stored))
            /\ local' = [local EXCEPT !.data = Made(input.stored)]
            /\ Goto("target")
            /\ UNCHANGED <<decoder, done>>

(* The raw payload is kept when it is complete.                            *)
Decompressed(s) ==
  /\ local' = [local EXCEPT !.mipData = s]
  /\ decoder' = [decoder EXCEPT !.raw = s]
  /\ done' = 0
  /\ Goto("image")

(* Mutant: the payload goes straight to where the pixels will be.          *)
PixelBuffer == decoder.img

RawBuffer == decoder.raw

(* Mutant: the body itself serves as the payload.                          *)
ShareBody ==
  /\ pc = "copy"
  /\ IF local.data.len # input.size
       THEN Fail(mem)
       ELSE Decompressed(local.data) /\ UNCHANGED mem

(* decompressBlock of a COPY block: the payload is a copy of the body.     *)
CopyBody ==
  LET n == input.size
  IN  /\ pc = "copy"
      /\ IF local.data.len # n
           THEN Fail(mem)
           ELSE /\ Decompressed(EnsureLen(RawBuffer, n))
                /\ mem' = Written(AfterEnsureLen(RawBuffer, n), EnsureLen(RawBuffer, n), 0,
                                  Content(local.data))

(* decompressBlock of an LZ4 block.                                        *)
MakeTarget ==
  /\ pc = "target"
  /\ mem' = AfterEnsureLen(RawBuffer, input.size)
  /\ local' = [local EXCEPT !.target = EnsureLen(RawBuffer, input.size)]
  /\ Goto("inflate")
  /\ UNCHANGED <<decoder, done>>

(* The body does not decompress, or is no compressed one.                  *)
Inflatable == input.fault # "inflate" /\ input.magic = LZ4

InflateUnit ==
  LET k == done + 1
  IN  /\ pc = "inflate"
      /\ done < input.size
      /\ mem' = Written(mem, local.target, done, <<Inflated(Content(local.data)[Source(k)], k)>>)
      /\ done' = k
      /\ Goto("inflate")
      /\ UNCHANGED <<decoder, local>>

InflateEnds ==
  /\ pc = "inflate"
  /\ done = input.size
  /\ Inflatable
  /\ Decompressed(local.target)
  /\ UNCHANGED mem

(* However far it came: an error, or a blob that has the right size as it  *)
(* is.  The Decoder's raw is the slice it was, its array is not.           *)
InflateFails ==
  /\ pc = "inflate"
  /\ ~Inflatable
  /\ IF input.legacy /\ local.data.len = input.size
       THEN /\ local' = [local EXCEPT !.mipData = local.data]
            /\ done' = 0
            /\ Goto("image")
            /\ UNCHANGED <<mem, decoder>>
       ELSE Fail(mem)

(* bcn.DecodeImageInto: the pixels of the last image are written over when *)
(* they suffice, or not.                                                   *)
MakeImage ==
  /\ pc = "image"
  /\ \/ /\ Fits(decoder.img, input.size)
        /\ local' = [local EXCEPT !.image = EnsureLen(decoder.img, input.size)]
        /\ UNCHANGED mem
     \/ /\ local' = [local EXCEPT !.image = Made(input.size)]
        /\ mem' = AfterMake(input.size)
  /\ Goto("draw")
  /\ UNCHANGED <<decoder, done>>

Draw ==
  LET With(k) == Written(mem, local.image, 0, [j \in 1..k |-> Pixel(Content(local.mipData)[j], j)])
  IN  /\ pc = "draw"
      /\ IF input.fault = "image"
           THEN \E k \in 0..input.size : Fail(With(k))
           ELSE /\ mem' = With(input.size)
                /\ Goto("return")
                /\ UNCHANGED <<decoder, local, done>>

(* decodePayload: the image is the Decoder's and the caller's.             *)
Return ==
  /\ pc = "return"
  /\ Leave(mem, [decoder EXCEPT !.img = local.image], local.image)
  /\ outcome' = "ok"

Next ==
  \/ \E i \in Inputs : Begin(i)
  \/ ReadHeaders \/ ReadTable \/ SkipBodies \/ ReadBody \/ ReadBlob
  \/ CopyBody \/ MakeTarget \/ InflateUnit \/ InflateEnds \/ InflateFails
  \/ MakeImage \/ Draw \/ Return

Spec == Init /\ [][Next]_vars

-----------------------------------------------------------------------------
(***************************************************************************)
(* Properties                                                              *)
(***************************************************************************)

Labels ==
  {"idle", "headers", "table", "bodies", "body", "blob", "copy", "target", "inflate", "image",
   "draw", "return"}

(* Types; a slice never reaches beyond its array.                          *)
TypeOK ==
  /\ pc \in Labels
  /\ input \in Inputs \cup {None}
  /\ (input = None) = (pc = "idle")
  /\ decoder \in [Buffers -> Slice]
  /\ local \in [Locals -> Slice]
  /\ given \in Slice
  /\ \A s \in {decoder[b] : b \in Buffers} \cup {local[l] : l \in Locals} \cup {given} : s.len <= Cap(s)
  /\ done \in Nat
  /\ outcome \in {"none", "ok", "error"}

(* read.go:220-223: a call on a used Decoder answers as one on a new       *)
(* Decoder does, whatever earlier calls left in the buffers and however    *)
(* they failed, and the image is the input's, pixel by pixel, until the    *)
(* next call.                                                              *)
Good(i) == i.fault = "none"
Image(i) == [k \in 1..i.size |-> [of |-> i.name, part |-> "pixel", value |-> k]]

Promise == INSTANCE FreshDecoder WITH
  asked <- input,
  answer <- outcome,
  shown <- IF pc = "idle" /\ outcome = "ok" THEN Content(given) ELSE << >>
ImplementsFreshDecoder == Promise!Spec

(* read.go:222, "only valid until the next Decode call": the image in the  *)
(* caller's hands changes in the step of a later call that decodes pixels, *)
(* and in no other.  A call that is refused before leaves it intact.       *)
ImageFrozen ==
  [][Content(given)' # Content(given) => pc \in {"draw", "return"}]_vars

(* The arrays that reading, inflating and drawing write to are different   *)
(* ones, so that none overwrites what another has yet to read.             *)
BuffersApart ==
  /\ \A a, b \in Buffers : a # b => Apart(decoder[a], decoder[b])
  /\ Apart(local.data, local.target)
  /\ Apart(local.mipData, local.image)

=============================================================================
