---------------------------- MODULE EncoderReuse ----------------------------
(***************************************************************************)
(* The slots of an Encoder (write.go, swizzle.go, compression.go), call    *)
(* after call: mip images, swizzled images, payloads and compressed        *)
(* payloads of the levels are written over by the next call, while a COPY  *)
(* block is the payload itself, of the Encoder or of the caller of         *)
(* EncodeFromBlocks.  A cell knows the call and the place it was made for. *)
(* ChunkEncoder has the compression, HeaderAgreement the checks that       *)
(* refuse a call.                                                          *)
(***************************************************************************)
EXTENDS Heap, SequencesExt

CONSTANTS
  Calls,        \* the calls made, see CallType
  CallerSizes,  \* the lengths of the caller's payloads, from the largest level
  MaxLevels,    \* how many levels a call has at most
  MinCompress,  \* payloads shorter than this are stored, 1024
  Overhead,     \* bytes per chunk that the estimated stream has on top, 5
  None          \* no call

COPY == "COPY"
LZ4 == "LZ4 "
Faults == {"none", "options", "encode", "late", "header", "sizes", "compress"}

(* A call: on an image or on the caller's payloads, with the sizes of its  *)
(* levels, what is asked for, how many units the writer takes, and why it  *)
(* is refused, if it is.                                                   *)
CallType ==
  [name : STRING, kind : {"image", "blocks"}, sizes : Seq(Nat \ {0}), swizzle : BOOLEAN,
   compress : BOOLEAN, room : Nat, fault : Faults]

ASSUME CallsAssumption ==
  \A c \in Calls :
    /\ c \in CallType
    /\ Len(c.sizes) \in 1..MaxLevels
    /\ c.kind = "blocks" =>
         IsPrefix(c.sizes, CallerSizes) /\ ~c.swizzle /\ c.fault \notin {"encode", "late"}
    /\ c.kind = "image" => c.fault # "sizes"
    /\ c.fault = "compress" => c.compress /\ \E l \in DOMAIN c.sizes : c.sizes[l] >= MinCompress

ASSUME NoneAssumption == None \notin Calls
ASSUME CallerAssumption == CallerSizes \in Seq(Nat \ {0})
ASSUME CompressAssumption == MinCompress \in Nat \ {0} /\ Overhead \in Nat \ {0}

(* There are as many arrays as the caller, the slots and blocks of an      *)
(* Encoder and a call hold together.                                       *)
ASSUME RoomAssumption == MaxLevels \in Nat /\ ArrayCount >= Len(CallerSizes) + 9 * MaxLevels

VARIABLES
  pc,       \* what the call does next, "idle" between calls
  call,     \* the running call, or None
  level,    \* the level the loop is at, 1 for the largest
  encoder,  \* the slots an Encoder keeps
  blocks,   \* e.blocks
  sent,     \* what the writer of the running call has taken
  outcome   \* "none", "ok" or "error"

vars == <<mem, pc, call, level, encoder, blocks, sent, outcome>>

SlotNames == {"mips", "swizzledMips", "payloads", "blockPayloads"}

(* A slice of slots: what there is up to its capacity, and its length.     *)
NoSlots == [slots |-> << >>, len |-> 0]

(* Mutant: slots are never cut to the number of levels.                    *)
GrowSlots(s, n, empty) ==
  IF Len(s.slots) >= n
    THEN s
    ELSE [slots |-> [k \in 1..n |-> IF k <= s.len THEN s.slots[k] ELSE empty], len |-> n]

(* ensurePayloadSlots, ensureImageSlots, ensureBlockSlots.                 *)
EnsureSlots(s, n, empty) ==
  IF Len(s.slots) >= n
    THEN [s EXCEPT !.len = n]
    ELSE [slots |-> [k \in 1..n |-> IF k <= s.len THEN s.slots[k] ELSE empty], len |-> n]

NoBlock == [magic |-> COPY, data |-> Nil, raw |-> 0]

Cell(name, part, l, k) == [of |-> name, part |-> part, level |-> l, value |-> k]
Run(name, part, l, n) == [k \in 1..n |-> Cell(name, part, l, k)]
Garbage == [of |-> "nothing", part |-> "garbage", level |-> 0, value |-> 0]

Caller == "caller"
CallerSlice(l) == [at |-> l, len |-> CallerSizes[l]]
CallerSlices == [l \in DOMAIN CallerSizes |-> CallerSlice(l)]

Init ==
  /\ mem = [a \in Arrays |->
              IF a \in DOMAIN CallerSizes THEN Run(Caller, "payload", a, CallerSizes[a]) ELSE << >>]
  /\ pc = "idle"
  /\ call = None
  /\ level = 0
  /\ encoder = [s \in SlotNames |-> NoSlots]
  /\ blocks = NoSlots
  /\ sent = << >>
  /\ outcome = "none"

-----------------------------------------------------------------------------
(* The levels a loop runs over are those of the slice it ranges over; at   *)
(* the end of a chain all levels have one size.                            *)
Levels ==
  CASE pc = "start" -> Len(call.sizes)
    [] pc \in {"mips", "slots", "swizzle"} -> encoder.mips.len
    [] pc = "encode" /\ call.swizzle -> encoder.swizzledMips.len
    [] pc = "encode" /\ ~call.swizzle -> encoder.mips.len
    [] OTHER -> IF call.kind = "image" THEN encoder.payloads.len ELSE Len(call.sizes)
SizeAt(l) == IF l \in DOMAIN call.sizes THEN call.sizes[l] ELSE 1
Size == SizeAt(level)
Slot(s) == encoder[s].slots[level]

(* Each loop runs over the levels; its slots are resized before it.        *)
Goto(label) ==
  /\ pc' = label
  /\ level' = 1
  /\ UNCHANGED <<call, blocks, sent, outcome>>

NextLevel(after) ==
  /\ pc' = IF level < Levels THEN pc ELSE after
  /\ level' = IF level < Levels THEN level + 1 ELSE 1

(* A call ends: the caller's payloads, the slots and the blocks are what   *)
(* is still held.                                                          *)
Roots ==
  CallerSlices \o encoder.mips.slots \o encoder.swizzledMips.slots \o encoder.payloads.slots
  \o encoder.blockPayloads.slots \o [k \in DOMAIN blocks.slots |-> blocks.slots[k].data]

AtHome(s) == [s EXCEPT !.at = Home(Roots, s)]

Leave(m, what) ==
  /\ mem' = Collected(m, Roots)
  /\ encoder' = [s \in SlotNames |->
       [encoder[s] EXCEPT !.slots = [k \in DOMAIN encoder[s].slots |-> AtHome(encoder[s].slots[k])]]]
  /\ blocks' = [blocks EXCEPT !.slots =
       [k \in DOMAIN blocks.slots |-> [blocks.slots[k] EXCEPT !.data = AtHome(@)]]]
  /\ pc' = "idle"
  /\ call' = None
  /\ level' = 0
  /\ sent' = << >>
  /\ outcome' = what

Fail(m) == Leave(m, "error")

Begin(c) ==
  /\ pc = "idle"
  /\ pc' = "start"
  /\ call' = c
  /\ outcome' = "none"
  /\ UNCHANGED <<mem, level, encoder, blocks, sent>>

(* normalizeWriteOptions, validateSwizzleProfile, calculateMipMapCount;    *)
(* EncodeFromBlocks validates its compression options here.                *)
Start ==
  /\ pc = "start"
  /\ IF call.fault = "options"
       THEN Fail(mem)
       ELSE /\ Goto(IF call.kind = "image" THEN "mips" ELSE "header")
            /\ encoder' = [encoder EXCEPT !.mips =
                 IF call.kind = "image" THEN EnsureSlots(@, Levels, Nil) ELSE @]
            /\ UNCHANGED mem

(* The fault of the call may be met at a later level.                      *)
Survives(fault) ==
  call.fault # fault
  \/ \E l \in (level + 1)..Levels : fault = "compress" => SizeAt(l) >= MinCompress

(* A level is written to slot s of the Encoder, with cells of its own.     *)
Fill(s, slice, m) ==
  /\ encoder' = [encoder EXCEPT ![s].slots[level] = slice]
  /\ mem' = m

(* bcn.GenerateMipmapsInto reuses the images it is given.                  *)
GenerateMip ==
  LET image == EnsureLen(Slot("mips"), Size)
  IN  /\ pc = "mips"
      /\ Fill("mips", image, Written(AfterEnsureLen(Slot("mips"), Size), image, 0,
                                     Run(call.name, "mip", level, Size)))
      /\ NextLevel("slots")
      /\ UNCHANGED <<call, blocks, sent, outcome>>

(* The slots of what follows: the images are swizzled, or encoded as they  *)
(* are.                                                                    *)
ResizeSlots ==
  /\ pc = "slots"
  /\ LET swizzled == EnsureSlots(encoder.swizzledMips, Levels, Nil)
     IN  IF call.swizzle
           THEN /\ encoder' = [encoder EXCEPT !.swizzledMips = swizzled,
                                             !.payloads = EnsureSlots(@, swizzled.len, Nil)]
                /\ Goto("swizzle")
           ELSE /\ encoder' = [encoder EXCEPT !.payloads = EnsureSlots(@, Levels, Nil)]
                /\ Goto("encode")
  /\ UNCHANGED mem

(* Mutant: an image of other bounds is reused as it is.                    *)
AnyBounds(image) == image # Nil

SameBounds(image) == image # Nil /\ image.len = Size

(* applySwizzleProfileInto: the mip image stays as it is.                  *)
Swizzle ==
  LET dst == IF SameBounds(Slot("swizzledMips")) THEN Slot("swizzledMips") ELSE Made(Size)
      Swizzled(k) == IF Content(Slot("mips"))[k] = Cell(call.name, "mip", level, k)
                       THEN Cell(call.name, "swizzled", level, k) ELSE Garbage
      pixels == [k \in 1..Size |-> Swizzled(k)]
  IN  /\ pc = "swizzle"
      /\ Fill("swizzledMips", dst,
              Written(IF SameBounds(Slot("swizzledMips")) THEN mem ELSE AfterMake(Size), dst, 0, pixels))
      /\ NextLevel("encode")
      /\ UNCHANGED <<call, blocks, sent, outcome>>

Picture == IF call.swizzle THEN Slot("swizzledMips") ELSE Slot("mips")
PictureCell(k) == Cell(call.name, IF call.swizzle THEN "swizzled" ELSE "mip", level, k)

(* bcn.EncodeImageInto: a payload as long as the image calls for, in the   *)
(* slot if it is large enough.  An error keeps the slot, not its contents. *)
Encode ==
  LET n == Picture.len
      payload == EnsureLen(Slot("payloads"), n)
      Encoded(k) == IF Content(Picture)[k] = PictureCell(k)
                      THEN Cell(call.name, "payload", level, k) ELSE Garbage
      With(k) == Written(AfterEnsureLen(Slot("payloads"), n), payload, 0, [j \in 1..k |-> Encoded(j)])
  IN  /\ pc = "encode"
      /\ \/ /\ call.fault = "encode"
            /\ Fail(With(n - 1))
         \/ /\ Survives("encode")
            /\ Fill("payloads", payload, With(n))
            /\ NextLevel("header")
            /\ UNCHANGED <<call, blocks, sent, outcome>>

(* Compression options of an image call are looked at only now; then       *)
(* writeFromBlocks checks the dimensions and the format.                   *)
MakeHeader ==
  /\ pc = "header"
  /\ IF call.fault \in {"late", "header"}
       THEN Fail(mem)
       ELSE /\ pc' = "blocks"
            /\ level' = 1
            /\ blocks' = EnsureSlots(blocks, Levels, NoBlock)
            /\ encoder' = [encoder EXCEPT !.blockPayloads = EnsureSlots(@, Levels, Nil)]
            /\ UNCHANGED <<mem, call, sent, outcome>>

Data == IF call.kind = "image" THEN Slot("payloads") ELSE CallerSlice(level)

-----------------------------------------------------------------------------
(***************************************************************************)
(* The blocks                                                              *)
(***************************************************************************)

(* The loop keeps the block of the level and what compressBlock returned   *)
(* for the slot.                                                           *)
Keep(magic, data, slot, m) ==
  /\ blocks' = [blocks EXCEPT !.slots[level] = [magic |-> magic, data |-> data, raw |-> Size]]
  /\ Fill("blockPayloads", slot, m)
  /\ NextLevel("emit")
  /\ UNCHANGED <<call, sent, outcome>>

(* A payload of another size than the level's refuses the call; the blocks *)
(* of the levels before are already in their slots.                        *)
Mismatch ==
  /\ pc = "blocks"
  /\ call.fault = "sizes" \/ Data.len # Size
  /\ Fail(mem)

Building == pc = "blocks" /\ Data.len = Size /\ Survives("sizes")

(* A COPY block is the payload, not a copy of it.                          *)
StoreBlock ==
  /\ Building
  /\ ~call.compress \/ Size < MinCompress
  /\ Keep(COPY, Data, Slot("blockPayloads"), mem)

(* compressedStreamCapacity, of one chunk at a target ratio of 2.          *)
Capacity(n) == IF n \div 2 + Overhead > n THEN n ELSE n \div 2 + Overhead

(* The stream of s bytes is appended to the emptied slot, or to an array   *)
(* made for it; where that is too small append makes a larger one.         *)
Roomy == Cap(Slot("blockPayloads")) >= Capacity(Size)
Stream(s) ==
  IF Roomy /\ Cap(Slot("blockPayloads")) >= s THEN [Slot("blockPayloads") EXCEPT !.len = s] ELSE Made(s)
AfterStream(s) ==
  LET chunk(k) == IF Content(Data)[1] = Cell(Content(Data)[1].of, "payload", level, 1)
                    THEN Cell(Content(Data)[1].of, "chunk", level, k) ELSE Garbage
      capacity == IF s > Capacity(Size) THEN s ELSE Capacity(Size)
  IN  Written(IF Stream(s).at = Slot("blockPayloads").at THEN mem ELSE AfterMake(capacity),
              Stream(s), 0, [k \in 1..s |-> chunk(k)])

Compressing == Building /\ call.compress /\ Size >= MinCompress

CompressBlock ==
  /\ Compressing
  /\ Survives("compress")
  /\ \E s \in 1..Size : Keep(LZ4, Stream(s), Stream(s), AfterStream(s))

(* Mutant: the block's data is what the slot retains.                      *)
RetainData(s) == Data

(* "If compression later fails the ratio check, dst is retained for reuse."*)
Retained(s) == Stream(s)

GiveUp ==
  /\ Compressing
  /\ Survives("compress")
  /\ \E s \in 0..Size : Keep(COPY, Data, Retained(s), AfterStream(s))

(* An error of the library: the slot keeps its slice, the array may have   *)
(* been written to.                                                        *)
CompressFails ==
  /\ Compressing
  /\ call.fault = "compress"
  /\ \E s \in 0..Size : Fail(AfterStream(s))

-----------------------------------------------------------------------------
(***************************************************************************)
(* The container                                                           *)
(***************************************************************************)

Header(c, n) == [of |-> c.name, part |-> "header", level |-> n, value |-> c.sizes[1]]
Entry(magic, l, n) == [of |-> magic, part |-> "entry", level |-> l, value |-> n]
RawSize(l, n) == [of |-> "size", part |-> "raw", level |-> l, value |-> n]

(* What is written for a block, [magic, cells, raw], of level l.           *)
Body(b, l) == IF b.magic = LZ4 THEN <<RawSize(l, b.raw)>> \o b.cells ELSE b.cells

(* The header, then table and bodies from the smallest level to the        *)
(* largest.                                                                *)
Container(c, bs) ==
  LET n == Len(bs)
  IN  <<Header(c, n)>>
      \o [k \in 1..n |-> LET l == n + 1 - k IN Entry(bs[l].magic, l, Len(Body(bs[l], l)))]
      \o FlattenSeq([k \in 1..n |-> Body(bs[n + 1 - k], n + 1 - k)])

Output ==
  Container(call, [l \in 1..Levels |->
    LET b == blocks.slots[l] IN [magic |-> b.magic, cells |-> Content(b.data), raw |-> b.raw]])

(* Header, table and bodies go to the writer as they are ready, as far as  *)
(* it takes them.                                                          *)
Emit ==
  /\ pc = "emit"
  /\ sent' = SubSeq(Output, 1, IF call.room < Len(Output) THEN call.room ELSE Len(Output))
  /\ pc' = "return"
  /\ UNCHANGED <<mem, call, level, encoder, blocks, outcome>>

Return ==
  /\ pc = "return"
  /\ Leave(mem, IF Len(sent) = Len(Output) THEN "ok" ELSE "error")

Next ==
  \/ \E c \in Calls : Begin(c)
  \/ Start \/ GenerateMip \/ ResizeSlots \/ Swizzle \/ Encode \/ MakeHeader
  \/ Mismatch \/ StoreBlock \/ CompressBlock \/ GiveUp \/ CompressFails
  \/ Emit \/ Return

Spec == Init /\ [][Next]_vars

-----------------------------------------------------------------------------
(***************************************************************************)
(* Properties                                                              *)
(***************************************************************************)

Labels ==
  {"idle", "start", "mips", "slots", "swizzle", "encode", "header", "blocks", "emit", "return"}

Held ==
  (UNION {Range(encoder[s].slots) : s \in SlotNames})
  \cup {blocks.slots[k].data : k \in DOMAIN blocks.slots}

(* Types; a slice never reaches beyond its array, and the last loops have  *)
(* a slot for every level, and no more.                                    *)
TypeOK ==
  /\ pc \in Labels
  /\ call \in Calls \cup {None}
  /\ \A s \in Held : s \in Slice /\ s.len <= Cap(s)
  /\ \A s \in SlotNames : encoder[s].len <= Len(encoder[s].slots)
  /\ blocks.len <= Len(blocks.slots)
  /\ pc \in {"blocks", "emit"} => blocks.len = Levels /\ encoder.blockPayloads.len = Levels
  /\ outcome \in {"none", "ok", "error"}

(* write.go:142-143, and the order of the container: every call of a used  *)
(* Encoder writes the container of its own image or payloads, whatever     *)
(* lengths earlier calls left in the slots and wherever they failed; a     *)
(* call that is refused has written nothing.                               *)
Source(c) == IF c.kind = "image" THEN c.name ELSE Caller
Block(magic, cells, raw) == [magic |-> magic, cells |-> cells, raw |-> raw]
Forms(c, l) ==
  LET n == c.sizes[l]
  IN  {Block(COPY, Run(Source(c), "payload", l, n), n)}
      \cup IF c.compress /\ n >= MinCompress
             THEN {Block(LZ4, Run(Source(c), "chunk", l, s), n) : s \in 1..n} ELSE {}
Containers(c) ==
  LET all == UNION {Forms(c, l) : l \in DOMAIN c.sizes}
  IN  {Container(c, bs) : bs \in {f \in [DOMAIN c.sizes -> all] : \A l \in DOMAIN f : f[l] \in Forms(c, l)}}
Refused(c) == c.fault # "none"
Room(c) == c.room

Promise == INSTANCE ContainerStream WITH asked <- call, answer <- outcome
ImplementsContainerStream == Promise!Spec

(* The caller of EncodeFromBlocks keeps payloads that blocks of this and   *)
(* of earlier calls still refer to: no call writes to them.                *)
CallerPayloadsUntouched ==
  \A l \in DOMAIN CallerSizes : Content(CallerSlice(l)) = Run(Caller, "payload", l, CallerSizes[l])

=============================================================================
