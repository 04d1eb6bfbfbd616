------------------------- MODULE EncoderReuseProofs -------------------------
(***************************************************************************)
(* A used Encoder writes what a new one would, for every sequence of calls *)
(* of any sizes, refused ones among them, and no call writes to the        *)
(* payloads of the caller.                                                 *)
(***************************************************************************)
EXTENDS EncoderReuse, HeapProofs

CallerArrays == 1..Len(CallerSizes)

SlotsType == [slots : Seq(Slice), len : Nat]
BlockType == [magic : {COPY, LZ4}, data : Slice, raw : Nat]

SlotOf(s, k) == encoder[s].slots[k]
Places(s) == 1..Len(encoder[s].slots)
BlockPlaces == 1..Len(blocks.slots)

N == Len(call.sizes)

Types ==
  /\ pc \in Labels
  /\ call \in Calls \cup {None}
  /\ (call = None) = (pc = "idle")
  /\ pc \in {"idle", "start"} => level = 0
  /\ pc \notin {"idle", "start"} => level \in 1..N
  /\ encoder \in [SlotNames -> SlotsType]
  /\ \A s \in SlotNames : encoder[s].len <= Len(encoder[s].slots) /\ Len(encoder[s].slots) <= MaxLevels
  /\ blocks \in [slots : Seq(BlockType), len : Nat]
  /\ blocks.len <= Len(blocks.slots) /\ Len(blocks.slots) <= MaxLevels
  /\ outcome \in {"none", "ok", "error"}
  /\ pc # "idle" => outcome = "none"
  /\ pc # "return" => sent = << >>

(* The slots and the blocks are slices of memory m; the slots have no part *)
(* in the payloads of the caller.                                          *)
MemoryHolds(m) ==
  /\ MemoryOK(m)
  /\ \A s \in SlotNames : \A k \in Places(s) :
       Valid(m, SlotOf(s, k)) /\ SlotOf(s, k).at \notin CallerArrays
  /\ \A k \in BlockPlaces : Valid(m, blocks.slots[k].data)
  /\ \A l \in CallerArrays :
       /\ Valid(m, CallerSlice(l))
       /\ ContentIn(m, CallerSlice(l)) = Run(Caller, "payload", l, CallerSizes[l])

(* No two slots share an array.                                            *)
SlotsApart ==
  \A s, t \in SlotNames : \A j \in Places(s), k \in Places(t) :
    s # t \/ j # k => SlotOf(s, j).at = 0 \/ SlotOf(s, j).at # SlotOf(t, k).at

(* What is held between calls, and what the call has made so far.          *)
HeldBefore == Len(CallerSizes) + 5 * MaxLevels
MadeBefore ==
  CASE pc \in {"idle", "start"} -> HeldBefore
    [] pc = "mips" -> HeldBefore + (level - 1)
    [] pc = "slots" -> HeldBefore + N
    [] pc = "swizzle" -> HeldBefore + N + (level - 1)
    [] pc = "encode" -> HeldBefore + 2 * N + (level - 1)
    [] pc = "header" -> HeldBefore + 3 * N
    [] pc = "blocks" -> HeldBefore + 3 * N + (level - 1)
    [] pc \in {"emit", "return"} -> HeldBefore + 4 * N

(* Slot s of level l has the part that this call made for it.              *)
Holds(s, part, l) ==
  /\ SlotOf(s, l).len = call.sizes[l]
  /\ ContentIn(mem, SlotOf(s, l)) = Run(call.name, part, l, call.sizes[l])

DataOf(l) == IF call.kind = "image" THEN SlotOf("payloads", l) ELSE CallerSlice(l)

BlockStored(l) == blocks.slots[l].magic = COPY /\ blocks.slots[l].data = DataOf(l)
BlockCompressed(l) ==
  /\ blocks.slots[l].magic = LZ4
  /\ blocks.slots[l].data = SlotOf("blockPayloads", l)
  /\ call.compress /\ call.sizes[l] >= MinCompress
  /\ SlotOf("blockPayloads", l).len \in 1..call.sizes[l]
  /\ ContentIn(mem, SlotOf("blockPayloads", l))
       = Run(Source(call), "chunk", l, SlotOf("blockPayloads", l).len)
BlockDone(l) == blocks.slots[l].raw = call.sizes[l] /\ (BlockStored(l) \/ BlockCompressed(l))

HasMips == encoder.mips.len = N /\ \A l \in 1..N : Holds("mips", "mip", l)
HasSwizzled ==
  encoder.swizzledMips.len = N /\ \A l \in 1..N : Holds("swizzledMips", "swizzled", l)
HasPayloads ==
  call.kind = "image" => encoder.payloads.len = N /\ \A l \in 1..N : Holds("payloads", "payload", l)
HasBlocks == blocks.len = N /\ encoder.blockPayloads.len = N

ImageStages == {"mips", "slots", "swizzle", "encode"}

Stages ==
  /\ pc \in ImageStages => call.kind = "image"
  /\ pc = "mips" => encoder.mips.len = N /\ \A l \in 1..(level - 1) : Holds("mips", "mip", l)
  /\ pc \in {"slots", "swizzle"} => HasMips
  /\ pc \in {"slots", "header"} => level = 1
  /\ pc = "swizzle" => /\ call.swizzle
                       /\ encoder.swizzledMips.len = N /\ encoder.payloads.len = N
                       /\ \A l \in 1..(level - 1) : Holds("swizzledMips", "swizzled", l)
  /\ pc = "encode" => /\ IF call.swizzle THEN HasSwizzled ELSE HasMips
                      /\ encoder.payloads.len = N
                      /\ \A l \in 1..(level - 1) : Holds("payloads", "payload", l)
  /\ pc \in {"header", "blocks", "emit", "return"} => HasPayloads
  /\ pc = "blocks" => HasBlocks /\ \A l \in 1..(level - 1) : BlockDone(l)
  /\ pc \in {"emit", "return"} => HasBlocks /\ \A l \in 1..N : BlockDone(l)
  /\ pc = "return" =>
       sent = SubSeq(Output, 1, IF call.room < Len(Output) THEN call.room ELSE Len(Output))

(* The places at which a call can be refused and was not.                  *)
Passed ==
  /\ pc \notin {"idle", "start"} => call.fault # "options"
  /\ pc \in {"header", "blocks", "emit", "return"} => call.fault # "encode"
  /\ pc \in {"blocks", "emit", "return"} => call.fault \notin {"late", "header"}
  /\ pc = "blocks" /\ call.fault = "compress" => \E l \in level..N : call.sizes[l] >= MinCompress
  /\ pc \in {"emit", "return"} => call.fault = "none"

Memory == MemoryHolds(mem) /\ Cardinality(Used(mem)) <= MadeBefore

IInv == Types /\ Memory /\ SlotsApart /\ Stages /\ Passed

-----------------------------------------------------------------------------
(* What the assumptions say of the running call.                           *)
LEMMA CallFacts ==
  ASSUME call \in Calls
  PROVE  /\ call # None
         /\ N \in Nat \ {0} /\ N <= MaxLevels /\ MaxLevels \in Nat
         /\ DOMAIN call.sizes = 1..N /\ \A l \in 1..N : call.sizes[l] \in Nat \ {0}
         /\ call.kind \in {"image", "blocks"} /\ call.room \in Nat /\ call.fault \in Faults
         /\ HeldBefore \in Nat /\ HeldBefore + 4 * N <= ArrayCount
         /\ call.kind = "blocks" => /\ N <= Len(CallerSizes) /\ ~call.swizzle
                                    /\ call.fault \notin {"encode", "late"}
                                    /\ \A l \in 1..N : call.sizes[l] = CallerSizes[l]
         /\ call.kind = "image" => call.fault # "sizes"
         /\ call.fault = "compress" => call.compress /\ \E l \in 1..N : call.sizes[l] >= MinCompress
<1>1. /\ call \in CallType
      /\ Len(call.sizes) \in 1..MaxLevels
      /\ call.kind = "blocks" =>
           IsPrefix(call.sizes, CallerSizes) /\ ~call.swizzle /\ call.fault \notin {"encode", "late"}
      /\ call.kind = "image" => call.fault # "sizes"
      /\ call.fault = "compress" => call.compress /\ \E l \in DOMAIN call.sizes : call.sizes[l] >= MinCompress
  BY CallsAssumption
<1>2. /\ call.sizes \in Seq(Nat \ {0}) /\ call.kind \in {"image", "blocks"} /\ call.room \in Nat
      /\ call.fault \in Faults
  BY <1>1 DEF CallType
<1>3. DOMAIN call.sizes = 1..N /\ \A l \in 1..N : call.sizes[l] \in Nat \ {0}
  BY <1>2 DEF N
<1>4. MaxLevels \in Nat /\ Len(CallerSizes) \in Nat /\ ArrayCount \in Nat
      /\ ArrayCount >= Len(CallerSizes) + 9 * MaxLevels
  BY RoomAssumption, CallerAssumption, ArrayCountAssumption
<1>5. N \in Nat \ {0} /\ N <= MaxLevels
  BY <1>1, <1>4 DEF N
<1>6. HeldBefore \in Nat /\ HeldBefore + 4 * N <= ArrayCount
  BY <1>4, <1>5 DEF HeldBefore
<1>7. ASSUME call.kind = "blocks"
      PROVE  N <= Len(CallerSizes) /\ \A l \in 1..N : call.sizes[l] = CallerSizes[l]
  <2> DEFINE s == call.sizes
             t == CallerSizes
  <2>1. IsPrefix(s, t)
    BY <1>1, <1>7
  <2>2. s \in Seq(Nat \ {0}) /\ t \in Seq(Nat \ {0}) /\ N = Len(s)
    BY <1>2, CallerAssumption DEF N
  <2> HIDE DEF s, t
  <2>3. Len(s) <= Len(t) /\ SubSeq(s, 1, Len(s)) = SubSeq(t, 1, Len(s))
    BY <2>1 DEF IsPrefix
  <2>4. \A l \in 1..Len(s) : SubSeq(s, 1, Len(s))[l] = s[l] /\ SubSeq(t, 1, Len(s))[l] = t[l]
    BY <2>2, <2>3
  <2>5. \A l \in 1..Len(s) : s[l] = t[l]
    BY <2>3, <2>4
  <2> QED
    BY <2>2, <2>3, <2>5 DEF s, t
<1> QED
  BY <1>1, <1>2, <1>3, <1>4, <1>5, <1>6, <1>7, NoneAssumption

(* A run of cells is a list of its length.                                 *)
LEMMA RunIsList ==
  ASSUME NEW name, NEW part, NEW l, NEW n \in Nat
  PROVE  IsList(Run(name, part, l, n)) /\ Len(Run(name, part, l, n)) = n
BY DEF Run, IsList

(* The arrays of the caller are among the first.                           *)
LEMMA CallerFacts ==
  /\ Len(CallerSizes) \in Nat /\ DOMAIN CallerSizes = CallerArrays /\ CallerArrays \subseteq Arrays
  /\ CallerArrays \subseteq Nat \ {0}
  /\ \A l \in CallerArrays : /\ CallerSizes[l] \in Nat \ {0}
                             /\ CallerSlice(l).at = l /\ CallerSlice(l).len = CallerSizes[l]
                             /\ CallerSlice(l) \in Slice
<1>1. Len(CallerSizes) \in Nat /\ DOMAIN CallerSizes = CallerArrays
  BY CallerAssumption DEF CallerArrays
<1>2. CallerArrays \subseteq Arrays /\ CallerArrays \subseteq Nat \ {0}
  <2>1. Len(CallerSizes) <= ArrayCount
    BY <1>1, RoomAssumption, ArrayCountAssumption
  <2> QED
    BY <1>1, <2>1, ArrayCountAssumption DEF CallerArrays, Arrays
<1>3. \A l \in CallerArrays : CallerSizes[l] \in Nat \ {0}
  BY CallerAssumption DEF CallerArrays
<1>4. \A l \in CallerArrays : CallerSlice(l).at = l /\ CallerSlice(l).len = CallerSizes[l]
  BY DEF CallerSlice
<1>5. \A l \in CallerArrays : CallerSlice(l) \in Slice
  BY <1>2, <1>3 DEF CallerSlice, Slice
<1> QED
  BY <1>1, <1>2, <1>3, <1>4, <1>5

(* The four kinds of slots.                                                *)
LEMMA SlotNamesFacts ==
  /\ "mips" \in SlotNames /\ "swizzledMips" \in SlotNames
  /\ "payloads" \in SlotNames /\ "blockPayloads" \in SlotNames
  /\ \A s \in SlotNames : s = "mips" \/ s = "swizzledMips" \/ s = "payloads" \/ s = "blockPayloads"
BY DEF SlotNames

(* The slots of the Encoder, by their places.                              *)
LEMMA SlotFacts ==
  ASSUME Types, NEW s \in SlotNames
  PROVE  /\ encoder[s] \in SlotsType /\ Len(encoder[s].slots) \in Nat /\ encoder[s].len \in Nat
         /\ DOMAIN encoder[s].slots = Places(s) /\ encoder[s].slots \in Seq(Slice)
         /\ \A k \in Places(s) : SlotOf(s, k) \in Slice
<1>1. encoder[s] \in SlotsType
  BY DEF Types
<1>2. encoder[s].slots \in Seq(Slice) /\ encoder[s].len \in Nat
  BY <1>1 DEF SlotsType
<1> QED
  BY <1>1, <1>2 DEF Places, SlotOf

(* The blocks of the Encoder, by their places.                             *)
LEMMA BlockFacts ==
  ASSUME Types
  PROVE  /\ blocks.slots \in Seq(BlockType) /\ blocks.len \in Nat /\ Len(blocks.slots) \in Nat
         /\ DOMAIN blocks.slots = BlockPlaces
         /\ \A k \in BlockPlaces : blocks.slots[k] \in BlockType /\ blocks.slots[k].data \in Slice
<1>1. blocks.slots \in Seq(BlockType) /\ blocks.len \in Nat
  BY DEF Types
<1>2. \A k \in BlockPlaces : blocks.slots[k] \in BlockType
  BY <1>1 DEF BlockPlaces
<1>3. \A b \in BlockType : b.data \in Slice
  BY DEF BlockType
<1> QED
  BY <1>1, <1>2, <1>3 DEF BlockPlaces

-----------------------------------------------------------------------------
(* The memory after a change of one array that is not the caller's: all    *)
(* that is held is still held, and what is elsewhere has not changed.      *)
LEMMA ChangeHolds ==
  ASSUME MemoryHolds(mem), NEW a \in Arrays, a \notin CallerArrays, NEW m, Changed(mem, m, a)
  PROVE  MemoryHolds(m)
<1>1. MemoryOK(mem) /\ MemoryOK(m)
  BY DEF MemoryHolds, Changed
<1>2. /\ \A s : Valid(mem, s) => Valid(m, s)
      /\ \A s : Valid(mem, s) /\ s.at # a => ContentIn(m, s) = ContentIn(mem, s)
  BY <1>1, ChangedFacts
<1>3. \A l \in CallerArrays : CallerSlice(l).at # a
  BY CallerFacts
<1> QED
  BY <1>1, <1>2, <1>3 DEF MemoryHolds

(* An array for a slot: the slot's own or a new one.                       *)
ForSlot(s, k, a) == a \in Arrays /\ (a = SlotOf(s, k).at \/ a \notin Used(mem))

(* No other slot has it, nor has the caller.                               *)
LEMMA OwnArray ==
  ASSUME MemoryHolds(mem), SlotsApart, NEW s \in SlotNames, NEW k \in Places(s), NEW a, ForSlot(s, k, a)
  PROVE  /\ \A t \in SlotNames : \A j \in Places(t) : t # s \/ j # k => SlotOf(t, j).at # a
         /\ a \notin CallerArrays /\ a # 0
<1>1. \A t \in SlotNames : \A j \in Places(t) : SlotOf(t, j).at = 0 \/ SlotOf(t, j).at \in Used(mem)
  BY DEF MemoryHolds, Valid
<1>2. a # 0
  BY ArrayFacts DEF ForSlot
<1>3. a \notin CallerArrays
  <2>1. \A l \in CallerArrays : l \in Used(mem)
    BY CallerFacts DEF MemoryHolds, Valid
  <2> QED
    BY <2>1 DEF ForSlot, MemoryHolds
<1>4. ASSUME NEW t \in SlotNames, NEW j \in Places(t), t # s \/ j # k
      PROVE  SlotOf(t, j).at # a
  <2>1. SlotOf(s, k).at = 0 \/ SlotOf(s, k).at # SlotOf(t, j).at
    BY <1>4 DEF SlotsApart
  <2> QED
    BY <1>1, <1>2, <2>1 DEF ForSlot
<1> QED
  BY <1>2, <1>3, <1>4

(* The slots when one of them has been replaced.                           *)
Replaced(s, k, t) ==
  /\ encoder' \in [SlotNames -> SlotsType]
  /\ \A u \in SlotNames : /\ encoder'[u].len = encoder[u].len
                          /\ Len(encoder'[u].slots) = Len(encoder[u].slots)
  /\ \A u \in SlotNames : \A j \in Places(u) :
       encoder'[u].slots[j] = IF u = s /\ j = k THEN t ELSE SlotOf(u, j)

(* A slot that is filled replaces one, and no other.                       *)
LEMMA ReplacedFacts ==
  ASSUME Types, NEW s \in SlotNames, level \in Places(s), NEW t \in Slice, NEW m, Fill(s, t, m)
  PROVE  Replaced(s, level, t)
<1> DEFINE old == encoder[s]
           new == [old.slots EXCEPT ![level] = t]
<1>1. old \in SlotsType /\ old.slots \in Seq(Slice) /\ old.len \in Nat /\ DOMAIN old.slots = Places(s)
  BY SlotFacts
<1>2. encoder' = [encoder EXCEPT ![s] = [old EXCEPT !.slots = new]]
  BY DEF Fill
<1>3. encoder \in [SlotNames -> SlotsType]
  BY DEF Types
<1>4. new \in Seq(Slice) /\ Len(new) = Len(old.slots)
  BY <1>1
<1>5. \A j \in Places(s) : new[j] = IF j = level THEN t ELSE old.slots[j]
  BY <1>1
<1> HIDE DEF new
<1> DEFINE r == [old EXCEPT !.slots = new]
<1>6. r.slots = new /\ r.len = old.len /\ r \in SlotsType
  <2> HIDE DEF old
  <2> QED
    BY <1>1, <1>4 DEF SlotsType
<1> HIDE DEF r
<1>7. encoder' \in [SlotNames -> SlotsType] /\ encoder'[s] = r
      /\ \A u \in SlotNames : u # s => encoder'[u] = encoder[u]
  <2>1. encoder' = [encoder EXCEPT ![s] = r]
    BY <1>2 DEF r
  <2> QED
    BY <1>3, <1>6, <2>1
<1>8. \A u \in SlotNames : encoder'[u].len = encoder[u].len /\ Len(encoder'[u].slots) = Len(encoder[u].slots)
  BY <1>4, <1>6, <1>7
<1>9. ASSUME NEW u \in SlotNames, NEW j \in Places(u)
      PROVE  encoder'[u].slots[j] = IF u = s /\ j = level THEN t ELSE SlotOf(u, j)
  BY <1>5, <1>6, <1>7 DEF SlotOf
<1> QED
  BY <1>7, <1>8, <1>9 DEF Replaced

(* What a loop body that writes to one slot leaves as it was, and that all *)
(* is still in order.                                                      *)
ElsewhereSame(s, k) ==
  \A u \in SlotNames : \A j \in Places(u) :
    u # s \/ j # k => /\ encoder'[u].slots[j] = SlotOf(u, j)
                      /\ ContentIn(mem', SlotOf(u, j)) = ContentIn(mem, SlotOf(u, j))

BlocksHold(m) == \A k \in 1..Len(blocks'.slots) : Valid(m, blocks'.slots[k].data)

InOrder ==
  /\ MemoryHolds(mem)' /\ SlotsApart'
  /\ Cardinality(Used(mem')) <= Cardinality(Used(mem)) + 1

(* A slot filled in its own array or in a new one keeps all in order.      *)
LEMMA FillFacts ==
  ASSUME Types, MemoryHolds(mem), SlotsApart, NEW s \in SlotNames, level \in Places(s),
         NEW t \in Slice, ForSlot(s, level, t.at), NEW m, Changed(mem, m, t.at), Valid(m, t),
         Fill(s, t, m), BlocksHold(m)
  PROVE  mem' = m /\ InOrder /\ Replaced(s, level, t) /\ ElsewhereSame(s, level)
<1>1. mem' = m
  BY DEF Fill
<1>2. Replaced(s, level, t)
  BY ReplacedFacts
<1> DEFINE k == level
<1>3. /\ \A u \in SlotNames : \A j \in Places(u) : u # s \/ j # k => SlotOf(u, j).at # t.at
      /\ t.at \notin CallerArrays /\ t.at # 0 /\ t.at \in Arrays
  BY OwnArray DEF ForSlot
<1>4. MemoryHolds(m) /\ MemoryOK(mem) /\ MemoryOK(m)
  BY <1>3, ChangeHolds DEF MemoryHolds, Changed
<1>5. /\ Used(m) \subseteq Used(mem) \cup {t.at}
      /\ \A x : Valid(mem, x) /\ x.at # t.at => ContentIn(m, x) = ContentIn(mem, x)
  BY <1>3, <1>4, ChangedFacts
<1>6. ElsewhereSame(s, k)
  BY <1>1, <1>2, <1>3, <1>5 DEF ElsewhereSame, Replaced, MemoryHolds
<1>7. \A u \in SlotNames : Places(u)' = Places(u)
  BY <1>2 DEF Places, Replaced
<1>8. \A u \in SlotNames : \A j \in Places(u) : SlotOf(u, j)' = IF u = s /\ j = k THEN t ELSE SlotOf(u, j)
  BY <1>2 DEF Replaced, SlotOf
<1>9. MemoryHolds(mem)'
  <2>1. \A u \in SlotNames : \A j \in Places(u)' :
          Valid(m, SlotOf(u, j)') /\ SlotOf(u, j)'.at \notin CallerArrays
    BY <1>3, <1>4, <1>7, <1>8 DEF MemoryHolds
  <2>2. \A j \in BlockPlaces' : Valid(m, blocks'.slots[j].data)
    BY DEF BlocksHold, BlockPlaces
  <2>3. \A l \in CallerArrays :
          /\ Valid(m, CallerSlice(l))
          /\ ContentIn(m, CallerSlice(l)) = Run(Caller, "payload", l, CallerSizes[l])
    BY <1>4 DEF MemoryHolds
  <2> QED
    BY <1>1, <1>4, <2>1, <2>2, <2>3 DEF MemoryHolds
<1>10. SlotsApart'
  <2> SUFFICES ASSUME NEW u \in SlotNames, NEW v \in SlotNames, NEW i \in Places(u)', NEW j \in Places(v)',
                      u # v \/ i # j
               PROVE  SlotOf(u, i)'.at = 0 \/ SlotOf(u, i)'.at # SlotOf(v, j)'.at
    BY DEF SlotsApart
  <2>1. i \in Places(u) /\ j \in Places(v)
    BY <1>7
  <2>2. SlotOf(u, i).at = 0 \/ SlotOf(u, i).at # SlotOf(v, j).at
    BY <2>1 DEF SlotsApart
  <2> QED
    BY <1>3, <1>8, <2>1, <2>2
<1>11. Cardinality(Used(mem')) <= Cardinality(Used(mem)) + 1
  <2> DEFINE c == Cardinality(Used(mem))
  <2>1. c \in Nat
    BY UsedFinite
  <2>2. c <= c
    BY <2>1
  <2>3. Cardinality(Used(m)) <= c + 1
    <3> HIDE DEF c
    <3>1. Cardinality(Used(mem)) <= c
      BY <2>2 DEF c
    <3> QED
      BY <1>5, <2>1, <3>1, UsedFacts
  <2> QED
    BY <1>1, <2>3
<1> QED
  BY <1>1, <1>2, <1>6, <1>9, <1>10, <1>11 DEF InOrder

(* Slots that were resized: each is nil or what it was.                    *)
Resized ==
  /\ \A s \in SlotNames : \A k \in Places(s)' :
       SlotOf(s, k)' = Nil \/ (k \in Places(s) /\ SlotOf(s, k)' = SlotOf(s, k))
  /\ \A k \in BlockPlaces' :
       blocks'.slots[k].data = Nil \/ (k \in BlockPlaces /\ blocks'.slots[k].data = blocks.slots[k].data)

(* Resized slots keep all in order: no slice is held that was not before.  *)
LEMMA ResizedFacts ==
  ASSUME MemoryHolds(mem), SlotsApart, UNCHANGED mem, Resized
  PROVE  InOrder
<1>1. Valid(mem, Nil) /\ Nil.at = 0 /\ 0 \notin CallerArrays
  BY ArrayFacts, CallerFacts DEF Valid
<1>2. MemoryHolds(mem)'
  <2>1. \A s \in SlotNames : \A k \in Places(s)' :
          Valid(mem, SlotOf(s, k)') /\ SlotOf(s, k)'.at \notin CallerArrays
    BY <1>1 DEF MemoryHolds, Resized
  <2>2. \A k \in BlockPlaces' : Valid(mem, blocks'.slots[k].data)
    BY <1>1 DEF MemoryHolds, Resized
  <2> QED
    BY <2>1, <2>2 DEF MemoryHolds
<1>3. SlotsApart'
  <2> SUFFICES ASSUME NEW u \in SlotNames, NEW v \in SlotNames, NEW i \in Places(u)', NEW j \in Places(v)',
                      u # v \/ i # j
               PROVE  SlotOf(u, i)'.at = 0 \/ SlotOf(u, i)'.at # SlotOf(v, j)'.at
    BY DEF SlotsApart
  <2>1. SlotOf(u, i)' = Nil \/ (i \in Places(u) /\ SlotOf(u, i)' = SlotOf(u, i))
    BY DEF Resized
  <2>2. SlotOf(v, j)' = Nil \/ (j \in Places(v) /\ SlotOf(v, j)' = SlotOf(v, j))
    BY DEF Resized
  <2>3. i \in Places(u) /\ j \in Places(v) => SlotOf(u, i).at = 0 \/ SlotOf(u, i).at # SlotOf(v, j).at
    BY DEF SlotsApart
  <2> QED
    BY <1>1, <2>1, <2>2, <2>3
<1> QED
  BY <1>2, <1>3, UsedFinite DEF InOrder

(* ensure*Slots: as many as asked for, old ones and empty ones.            *)
Ensured(r, s, n, empty) ==
  /\ r.len = n /\ r.len <= Len(r.slots)
  /\ \A m \in Nat : n <= m /\ Len(s.slots) <= m => Len(r.slots) <= m
  /\ \A k \in 1..Len(r.slots) :
       r.slots[k] = empty \/ (k \in 1..Len(s.slots) /\ r.slots[k] = s.slots[k])

(* So does ensure*Slots, for slots of any kind.                            *)
LEMMA EnsureSlotsFacts ==
  ASSUME NEW S, NEW s, s \in [slots : Seq(S), len : Nat], s.len <= Len(s.slots),
         NEW n \in Nat, NEW empty \in S
  PROVE  LET r == EnsureSlots(s, n, empty)
         IN  r \in [slots : Seq(S), len : Nat] /\ Ensured(r, s, n, empty)
<1> DEFINE r == EnsureSlots(s, n, empty)
<1>0. s.slots \in Seq(S) /\ s.len \in Nat /\ Len(s.slots) \in Nat
  OBVIOUS
<1>1. CASE Len(s.slots) >= n
  <2>1. r = [s EXCEPT !.len = n]
    BY <1>1 DEF EnsureSlots
  <2>2. r.slots = s.slots /\ r.len = n /\ r \in [slots : Seq(S), len : Nat]
    BY <1>0, <2>1
  <2> HIDE DEF r
  <2> QED
    BY <1>0, <1>1, <2>2 DEF r, Ensured
<1>2. CASE ~(Len(s.slots) >= n)
  <2> DEFINE new == [k \in 1..n |-> IF k <= s.len THEN s.slots[k] ELSE empty]
  <2>1. r = [slots |-> new, len |-> n]
    BY <1>2 DEF EnsureSlots
  <2>2. \A k \in 1..n : new[k] = empty \/ (k \in 1..Len(s.slots) /\ new[k] = s.slots[k])
    BY <1>0
  <2>3. new \in Seq(S) /\ Len(new) = n
    <3>1. \A k \in 1..n : (IF k <= s.len THEN s.slots[k] ELSE empty) \in S
      BY <1>0
    <3> QED
      BY <3>1
  <2> HIDE DEF new
  <2>4. r.slots = new /\ r.len = n /\ r \in [slots : Seq(S), len : Nat]
    BY <2>1, <2>3
  <2> HIDE DEF r
  <2> QED
    BY <2>2, <2>3, <2>4 DEF r, Ensured
<1> QED
  BY <1>1, <1>2

-----------------------------------------------------------------------------
(* The end of a call                                                       *)
Elements(s) == {s[k] : k \in 1..Len(s)}

Joined(c, s, t) ==
  /\ Len(c) = Len(s) + Len(t)
  /\ Elements(c) = Elements(s) \cup Elements(t)
  /\ \A k \in 1..Len(s) : c[k] = s[k]

(* One sequence behind another has the elements of both.                   *)
LEMMA ConcatElements ==
  ASSUME NEW S, NEW s \in Seq(S), NEW t \in Seq(S)
  PROVE  s \o t \in Seq(S) /\ Joined(s \o t, s, t)
<1> DEFINE c == s \o t
<1>1. /\ c \in Seq(S) /\ Len(c) = Len(s) + Len(t)
      /\ \A j \in 1..Len(s) : c[j] = s[j]
      /\ \A j \in 1..Len(t) : c[Len(s) + j] = t[j]
  BY ConcatFacts
<1>2. Len(s) \in Nat /\ Len(t) \in Nat
  OBVIOUS
<1> HIDE DEF c
<1>3. \A k \in 1..Len(s) : k \in 1..Len(c)
  BY <1>1, <1>2
<1>4. \A k \in 1..Len(t) : Len(s) + k \in 1..Len(c)
  BY <1>1, <1>2
<1>5. ASSUME NEW k \in 1..Len(c) PROVE c[k] \in Elements(s) \cup Elements(t)
  <2>1. CASE k \in 1..Len(s)
    BY <1>1, <2>1 DEF Elements
  <2>2. CASE k \notin 1..Len(s)
    <3>1. k - Len(s) \in 1..Len(t) /\ k = Len(s) + (k - Len(s))
      BY <1>1, <1>2, <2>2
    <3> QED
      BY <1>1, <3>1 DEF Elements
  <2> QED
    BY <2>1, <2>2
<1>6. Elements(s) \cup Elements(t) \subseteq Elements(c)
  BY <1>1, <1>3, <1>4 DEF Elements
<1>7. Elements(c) = Elements(s) \cup Elements(t)
  BY <1>5, <1>6 DEF Elements
<1> QED
  BY <1>1, <1>7 DEF c, Joined

(* The roots: the payloads of the caller come first, and nothing else is   *)
(* held than the slots and the data of the blocks.                         *)
HeldSlices ==
  {CallerSlice(l) : l \in CallerArrays}
  \cup (UNION {{SlotOf(s, k) : k \in Places(s)} : s \in SlotNames})
  \cup {blocks.slots[k].data : k \in BlockPlaces}

(* All that is held is a root, and there are at most HeldBefore of them.   *)
LEMMA RootsFacts ==
  ASSUME Types
  PROVE  /\ Len(Roots) \in Nat /\ DOMAIN Roots = 1..Len(Roots) /\ Len(Roots) <= HeldBefore
         /\ \A l \in CallerArrays : l \in 1..Len(Roots) /\ Roots[l] = CallerSlice(l)
         /\ Elements(Roots) = HeldSlices
<1> DEFINE a == CallerSlices
           b == encoder.mips.slots
           c == encoder.swizzledMips.slots
           d == encoder.payloads.slots
           e == encoder.blockPayloads.slots
           f == [k \in DOMAIN blocks.slots |-> blocks.slots[k].data]
<1>1. a \in Seq(Slice) /\ Len(a) = Len(CallerSizes) /\ \A l \in CallerArrays : a[l] = CallerSlice(l)
  BY CallerFacts DEF CallerSlices, CallerArrays
<1>2. b \in Seq(Slice) /\ c \in Seq(Slice) /\ d \in Seq(Slice) /\ e \in Seq(Slice)
  BY SlotFacts, SlotNamesFacts
<1>3. f \in Seq(Slice) /\ Len(f) = Len(blocks.slots) /\ \A k \in BlockPlaces : f[k] = blocks.slots[k].data
  BY BlockFacts DEF BlockPlaces
<1>4. Roots = ((((a \o b) \o c) \o d) \o e) \o f
  BY DEF Roots
<1>5. /\ Elements(a) = {CallerSlice(l) : l \in CallerArrays}
      /\ Elements(f) = {blocks.slots[k].data : k \in BlockPlaces}
      /\ Elements(b) = {SlotOf("mips", k) : k \in Places("mips")}
      /\ Elements(c) = {SlotOf("swizzledMips", k) : k \in Places("swizzledMips")}
      /\ Elements(d) = {SlotOf("payloads", k) : k \in Places("payloads")}
      /\ Elements(e) = {SlotOf("blockPayloads", k) : k \in Places("blockPayloads")}
  <2>1. Elements(a) = {CallerSlice(l) : l \in CallerArrays}
    BY <1>1 DEF Elements, CallerArrays
  <2>2. Elements(f) = {blocks.slots[k].data : k \in BlockPlaces}
    BY <1>3 DEF Elements, BlockPlaces
  <2>3. /\ Elements(b) = {SlotOf("mips", k) : k \in Places("mips")}
        /\ Elements(c) = {SlotOf("swizzledMips", k) : k \in Places("swizzledMips")}
        /\ Elements(d) = {SlotOf("payloads", k) : k \in Places("payloads")}
        /\ Elements(e) = {SlotOf("blockPayloads", k) : k \in Places("blockPayloads")}
    BY DEF Elements, SlotOf, Places
  <2> QED
    BY <2>1, <2>2, <2>3
<1>6. /\ Len(b) \in Nat /\ Len(b) <= MaxLevels /\ Len(c) \in Nat /\ Len(c) <= MaxLevels
      /\ Len(d) \in Nat /\ Len(d) <= MaxLevels /\ Len(e) \in Nat /\ Len(e) <= MaxLevels
      /\ Len(f) \in Nat /\ Len(f) <= MaxLevels /\ Len(a) \in Nat /\ MaxLevels \in Nat
  <2>1. Len(f) \in Nat /\ Len(f) <= MaxLevels
    BY <1>3, BlockFacts DEF Types
  <2>2. /\ Len(b) \in Nat /\ Len(b) <= MaxLevels /\ Len(c) \in Nat /\ Len(c) <= MaxLevels
        /\ Len(d) \in Nat /\ Len(d) <= MaxLevels /\ Len(e) \in Nat /\ Len(e) <= MaxLevels
    BY <1>2, SlotNamesFacts DEF Types
  <2> QED
    BY <1>1, <2>1, <2>2, CallerFacts, RoomAssumption
<1> HIDE DEF a, b, c, d, e, f
<1> DEFINE ab == a \o b
           abc == ab \o c
           abcd == abc \o d
           abcde == abcd \o e
<1>7. ab \in Seq(Slice) /\ Joined(ab, a, b)
  BY <1>1, <1>2, ConcatElements
<1> HIDE DEF ab
<1>8. abc \in Seq(Slice) /\ Joined(abc, ab, c)
  BY <1>2, <1>7, ConcatElements
<1> HIDE DEF abc
<1>9. abcd \in Seq(Slice) /\ Joined(abcd, abc, d)
  BY <1>2, <1>8, ConcatElements
<1> HIDE DEF abcd
<1>10. abcde \in Seq(Slice) /\ Joined(abcde, abcd, e)
  BY <1>2, <1>9, ConcatElements
<1> HIDE DEF abcde
<1>11. Roots = abcde \o f
  BY <1>4 DEF ab, abc, abcd, abcde
<1>12. Roots \in Seq(Slice) /\ Joined(Roots, abcde, f)
  BY <1>3, <1>10, <1>11, ConcatElements
<1>13. Len(Roots) = Len(a) + Len(b) + Len(c) + Len(d) + Len(e) + Len(f)
  BY <1>6, <1>7, <1>8, <1>9, <1>10, <1>12 DEF Joined
<1>14. Len(Roots) \in Nat /\ Len(Roots) <= HeldBefore
  BY <1>1, <1>6, <1>13 DEF HeldBefore
<1>15. DOMAIN Roots = 1..Len(Roots)
  BY <1>12
<1>16. \A l \in CallerArrays : l \in 1..Len(Roots) /\ Roots[l] = CallerSlice(l)
  <2> TAKE l \in CallerArrays
  <2>1. l \in 1..Len(a)
    BY <1>1 DEF CallerArrays
  <2>2. /\ l \in 1..Len(ab) /\ l \in 1..Len(abc) /\ l \in 1..Len(abcd) /\ l \in 1..Len(abcde)
        /\ l \in 1..Len(Roots)
    <3>1. l \in 1..Len(ab)
      BY <1>6, <1>7, <2>1 DEF Joined
    <3>2. l \in 1..Len(abc)
      BY <1>6, <1>7, <1>8, <3>1 DEF Joined
    <3>3. l \in 1..Len(abcd)
      BY <1>6, <1>8, <1>9, <3>2 DEF Joined
    <3>4. l \in 1..Len(abcde)
      BY <1>6, <1>9, <1>10, <3>3 DEF Joined
    <3>5. l \in 1..Len(Roots)
      BY <1>6, <1>10, <1>12, <3>4 DEF Joined
    <3> QED
      BY <3>1, <3>2, <3>3, <3>4, <3>5
  <2> QED
    BY <1>1, <1>7, <1>8, <1>9, <1>10, <1>12, <2>1, <2>2 DEF Joined
<1>17. Elements(Roots) = HeldSlices
  <2> DEFINE U == UNION {{SlotOf(s, k) : k \in Places(s)} : s \in SlotNames}
  <2>1. Elements(Roots) = Elements(a) \cup Elements(b) \cup Elements(c) \cup Elements(d)
                            \cup Elements(e) \cup Elements(f)
    BY <1>7, <1>8, <1>9, <1>10, <1>12 DEF Joined
  <2>2. U = Elements(b) \cup Elements(c) \cup Elements(d) \cup Elements(e)
    BY <1>5, SlotNamesFacts
  <2> HIDE DEF U
  <2>3. HeldSlices = Elements(a) \cup U \cup Elements(f)
    BY <1>5 DEF HeldSlices, U
  <2> QED
    BY <2>1, <2>2, <2>3
<1> QED
  BY <1>14, <1>15, <1>16, <1>17

(* What becomes of a slice that is held.                                   *)
CarriedOver(m, w, x) ==
  /\ Valid(w, AtHome(x)) /\ AtHome(x) \in Slice
  /\ AtHome(x).len = x.len
  /\ ContentIn(w, AtHome(x)) = ContentIn(m, x)
  /\ (AtHome(x).at = 0) = (x.at = 0)

(* A collection carries over all that is held, the caller's in place.      *)
LEMMA CarriedFacts ==
  ASSUME Types, NEW m, MemoryHolds(m)
  PROVE  LET w == Collected(m, Roots)
         IN  /\ MemoryOK(w) /\ Cardinality(Used(w)) <= HeldBefore
             /\ \A x \in HeldSlices : CarriedOver(m, w, x)
             /\ \A x, y \in HeldSlices : (AtHome(x).at = AtHome(y).at) = (x.at = y.at)
             /\ \A l \in CallerArrays : AtHome(CallerSlice(l)) = CallerSlice(l)
<1> DEFINE n == Len(Roots)
           w == Collected(m, Roots)
<1>1. /\ n \in Nat /\ DOMAIN Roots = 1..n /\ n <= HeldBefore
      /\ \A l \in CallerArrays : l \in 1..n /\ Roots[l] = CallerSlice(l)
      /\ Elements(Roots) = HeldSlices
  BY RootsFacts
<1>2. \A x \in HeldSlices : Valid(m, x)
  BY DEF HeldSlices, MemoryHolds
<1>3. (\A x \in HeldSlices : \E i \in 1..n : x = Roots[i]) /\ \A i \in 1..n : Roots[i] \in HeldSlices
  BY <1>1 DEF Elements
<1>4. \A i \in 1..n : Valid(m, Roots[i])
  BY <1>2, <1>3
<1>5. HeldBefore \in Nat /\ HeldBefore <= ArrayCount
  BY RoomAssumption, CallerAssumption, ArrayCountAssumption DEF HeldBefore
<1>6. Preserved(m, w, n, Roots)
  <2>1. n <= ArrayCount /\ MemoryOK(m)
    BY <1>1, <1>5, ArrayCountAssumption DEF MemoryHolds
  <2> HIDE DEF n
  <2> QED
    BY <1>1, <1>4, <2>1, CollectedFacts
<1> HIDE DEF w, n
<1>7. MemoryOK(w) /\ \A a \in Used(w) : a \in 1..n
  BY <1>6 DEF Preserved
<1>8. Cardinality(Used(w)) <= HeldBefore
  <2>1. IsFiniteSet(1..n) /\ Cardinality(1..n) = n
    <3>1. CASE n = 0
      <4>1. 1..n = {}
        BY <3>1
      <4> QED
        BY <3>1, <4>1, FS_EmptySet
    <3>2. CASE n # 0
      <4>1. 1 \in Int /\ n \in Int /\ ~(1 > n) /\ (n - 1) + 1 = n
        BY <1>1, <3>2
      <4>2. IsFiniteSet(1..n) /\ Cardinality(1..n) = (n - 1) + 1
        BY <4>1, FS_Interval, Zenon
      <4> QED
        BY <4>1, <4>2
    <3> QED
      BY <3>1, <3>2
  <2>2. Used(w) \in SUBSET (1..n)
    BY <1>7
  <2>3. Cardinality(Used(w)) <= n
    BY <2>1, <2>2, FS_Subset
  <2>4. Cardinality(Used(w)) \in Nat
    BY UsedFinite
  <2> QED
    BY <1>1, <1>5, <2>3, <2>4
<1>9. \A i \in 1..n : AtHome(Roots[i]) = Placed(Roots, i)
  BY DEF AtHome, Placed
<1>10. \A i \in 1..n : CarriedOver(m, w, Roots[i])
  BY <1>6, <1>9 DEF CarriedOver, Preserved, Valid
<1>11. \A x \in HeldSlices : CarriedOver(m, w, x)
  BY <1>3, <1>10
<1>12. \A i, j \in 1..n : (AtHome(Roots[i]).at = AtHome(Roots[j]).at) = (Roots[i].at = Roots[j].at)
  BY <1>6, <1>9 DEF Preserved
<1>13. \A x, y \in HeldSlices : (AtHome(x).at = AtHome(y).at) = (x.at = y.at)
  <2> TAKE x \in HeldSlices, y \in HeldSlices
  <2>1. PICK i \in 1..n : x = Roots[i]
    BY <1>3
  <2>2. PICK j \in 1..n : y = Roots[j]
    BY <1>3
  <2> QED
    BY <1>12, <2>1, <2>2
<1>14. ASSUME NEW l \in CallerArrays PROVE AtHome(CallerSlice(l)) = CallerSlice(l)
  <2> DEFINE h == Home(Roots, Roots[l])
  <2>1. l \in 1..n /\ Roots[l] = CallerSlice(l) /\ Roots[l].at = l /\ l # 0 /\ l \in Nat
    BY <1>1, CallerFacts
  <2>2. h \in 1..n /\ Roots[h].at = l /\ h <= l
    BY <1>1, <2>1, HomeFacts
  <2>3. h \in CallerArrays
    BY <1>1, <2>1, <2>2, CallerFacts DEF CallerArrays
  <2>4. Roots[h].at = h
    BY <1>1, <2>3, CallerFacts
  <2>5. h = l
    BY <2>2, <2>4
  <2> HIDE DEF h
  <2>6. AtHome(CallerSlice(l)) = [CallerSlice(l) EXCEPT !.at = l]
    BY <2>1, <2>5 DEF AtHome, h
  <2> QED
    BY <2>1, <2>6 DEF CallerSlice
<1> QED
  BY <1>7, <1>8, <1>11, <1>13, <1>14 DEF w

(* The end of a call leaves an idle Encoder in order.                      *)
LEMMA LeaveKeeps ==
  ASSUME Types, NEW m, MemoryHolds(m), SlotsApart, NEW what \in {"ok", "error"}, Leave(m, what)
  PROVE  IInv' /\ call' = None /\ sent' = << >> /\ outcome' = what
<1> DEFINE w == Collected(m, Roots)
<1>1. /\ mem' = w
      /\ encoder' = [s \in SlotNames |->
           [encoder[s] EXCEPT !.slots = [k \in DOMAIN encoder[s].slots |-> AtHome(encoder[s].slots[k])]]]
      /\ blocks' = [blocks EXCEPT !.slots =
           [k \in DOMAIN blocks.slots |->
              [blocks.slots[k] EXCEPT !.data = AtHome(blocks.slots[k].data)]]]
      /\ pc' = "idle" /\ call' = None /\ level' = 0 /\ sent' = << >> /\ outcome' = what
  BY DEF Leave
<1>2. /\ MemoryOK(w) /\ Cardinality(Used(w)) <= HeldBefore
      /\ \A x \in HeldSlices : CarriedOver(m, w, x)
      /\ \A x, y \in HeldSlices : (AtHome(x).at = AtHome(y).at) = (x.at = y.at)
      /\ \A l \in CallerArrays : AtHome(CallerSlice(l)) = CallerSlice(l)
  BY CarriedFacts
<1> HIDE DEF w
<1>3. /\ \A s \in SlotNames : \A k \in Places(s) : SlotOf(s, k) \in HeldSlices
      /\ \A k \in BlockPlaces : blocks.slots[k].data \in HeldSlices
      /\ \A l \in CallerArrays : CallerSlice(l) \in HeldSlices
  BY DEF HeldSlices
<1>4. ASSUME NEW s \in SlotNames
      PROVE  /\ encoder'[s] \in SlotsType /\ encoder'[s].len = encoder[s].len
             /\ Len(encoder'[s].slots) = Len(encoder[s].slots)
             /\ \A k \in Places(s) : encoder'[s].slots[k] = AtHome(SlotOf(s, k))
  <2> DEFINE old == encoder[s]
             new == [k \in Places(s) |-> AtHome(SlotOf(s, k))]
  <2>1. old \in SlotsType /\ Len(old.slots) \in Nat /\ DOMAIN old.slots = Places(s) /\ old.len \in Nat
    BY SlotFacts
  <2>2. \A k \in Places(s) : AtHome(SlotOf(s, k)) \in Slice
    BY <1>2, <1>3 DEF CarriedOver
  <2>3. new \in Seq(Slice) /\ Len(new) = Len(old.slots)
    BY <2>1, <2>2 DEF Places
  <2>4. encoder'[s] = [old EXCEPT !.slots = new]
    BY <1>1, <2>1 DEF SlotOf
  <2>5. \A k \in Places(s) : new[k] = AtHome(SlotOf(s, k))
    OBVIOUS
  <2> HIDE DEF new, old
  <2>6. encoder'[s].slots = new /\ encoder'[s].len = old.len /\ encoder'[s] \in SlotsType
    BY <2>1, <2>3, <2>4 DEF SlotsType
  <2> QED
    BY <2>3, <2>5, <2>6 DEF old
<1>5. /\ blocks' \in [slots : Seq(BlockType), len : Nat] /\ blocks'.len = blocks.len
      /\ Len(blocks'.slots) = Len(blocks.slots)
      /\ \A k \in BlockPlaces : blocks'.slots[k].data = AtHome(blocks.slots[k].data)
  <2> DEFINE block(k) == [blocks.slots[k] EXCEPT !.data = AtHome(blocks.slots[k].data)]
             new == [k \in BlockPlaces |-> block(k)]
  <2>1. /\ Len(blocks.slots) \in Nat /\ DOMAIN blocks.slots = BlockPlaces /\ blocks.len \in Nat
        /\ \A k \in BlockPlaces : blocks.slots[k] \in BlockType
    BY BlockFacts
  <2>2. ASSUME NEW k \in BlockPlaces
        PROVE  block(k) \in BlockType /\ block(k).data = AtHome(blocks.slots[k].data)
    <3> DEFINE b == blocks.slots[k]
               d == AtHome(b.data)
    <3>1. d \in Slice
      BY <1>2, <1>3 DEF CarriedOver
    <3>2. b \in BlockType
      BY <2>1
    <3> HIDE DEF b, d
    <3>3. [b EXCEPT !.data = d] \in BlockType /\ [b EXCEPT !.data = d].data = d
      BY <3>1, <3>2 DEF BlockType
    <3> QED
      BY <3>3 DEF b, d
  <2>3. blocks' = [blocks EXCEPT !.slots = new]
    BY <1>1, <2>1
  <2> HIDE DEF block
  <2>4. new \in Seq(BlockType) /\ Len(new) = Len(blocks.slots) /\ \A k \in BlockPlaces : new[k] = block(k)
    BY <2>1, <2>2 DEF BlockPlaces
  <2> HIDE DEF new
  <2>5. blocks \in [slots : Seq(BlockType), len : Nat]
    BY DEF Types
  <2>6. blocks'.slots = new /\ blocks'.len = blocks.len /\ blocks' \in [slots : Seq(BlockType), len : Nat]
    BY <2>3, <2>4, <2>5
  <2> QED
    BY <2>2, <2>4, <2>6
<1>6. Types'
  <2>1. encoder' \in [SlotNames -> SlotsType]
    <3>1. encoder' = [s \in SlotNames |-> encoder'[s]]
      BY <1>1
    <3> QED
      BY <1>4, <3>1
  <2>2. /\ \A s \in SlotNames :
             encoder'[s].len <= Len(encoder'[s].slots) /\ Len(encoder'[s].slots) <= MaxLevels
        /\ blocks'.len <= Len(blocks'.slots) /\ Len(blocks'.slots) <= MaxLevels
    BY <1>4, <1>5 DEF Types
  <2> QED
    BY <1>1, <1>5, <2>1, <2>2 DEF Types, Labels
<1>7. /\ \A s \in SlotNames :
           Places(s)' = Places(s) /\ \A k \in Places(s) : SlotOf(s, k)' = AtHome(SlotOf(s, k))
      /\ BlockPlaces' = BlockPlaces
  BY <1>4, <1>5 DEF Places, BlockPlaces, SlotOf
<1>8. MemoryHolds(mem)'
  <2>1. \A s \in SlotNames : \A k \in Places(s)' :
          Valid(w, SlotOf(s, k)') /\ SlotOf(s, k)'.at \notin CallerArrays
    <3> SUFFICES ASSUME NEW s \in SlotNames, NEW k \in Places(s)
                 PROVE  Valid(w, AtHome(SlotOf(s, k))) /\ AtHome(SlotOf(s, k)).at \notin CallerArrays
      BY <1>7
    <3>1. Valid(w, AtHome(SlotOf(s, k)))
      BY <1>2, <1>3 DEF CarriedOver
    <3>2. SlotOf(s, k).at \notin CallerArrays
      BY DEF MemoryHolds
    <3>3. \A l \in CallerArrays : AtHome(SlotOf(s, k)).at # l
      <4> TAKE l \in CallerArrays
      <4>1. AtHome(CallerSlice(l)).at = l /\ CallerSlice(l).at = l
        BY <1>2, CallerFacts
      <4>2. (AtHome(SlotOf(s, k)).at = AtHome(CallerSlice(l)).at) = (SlotOf(s, k).at = CallerSlice(l).at)
        BY <1>2, <1>3
      <4> QED
        BY <3>2, <4>1, <4>2
    <3> QED
      BY <3>1, <3>3
  <2>2. \A k \in BlockPlaces' : Valid(w, blocks'.slots[k].data)
    BY <1>2, <1>3, <1>5, <1>7 DEF CarriedOver
  <2>3. \A l \in CallerArrays :
          /\ Valid(w, CallerSlice(l))
          /\ ContentIn(w, CallerSlice(l)) = Run(Caller, "payload", l, CallerSizes[l])
    <3> TAKE l \in CallerArrays
    <3>1. CarriedOver(m, w, CallerSlice(l)) /\ AtHome(CallerSlice(l)) = CallerSlice(l)
      BY <1>2, <1>3
    <3> QED
      BY <3>1 DEF CarriedOver, MemoryHolds
  <2> QED
    BY <1>1, <1>2, <2>1, <2>2, <2>3 DEF MemoryHolds
<1>9. SlotsApart'
  <2> SUFFICES ASSUME NEW u \in SlotNames, NEW v \in SlotNames, NEW i \in Places(u), NEW j \in Places(v),
                      u # v \/ i # j
               PROVE  AtHome(SlotOf(u, i)).at = 0 \/ AtHome(SlotOf(u, i)).at # AtHome(SlotOf(v, j)).at
    BY <1>7 DEF SlotsApart
  <2>1. SlotOf(u, i).at = 0 \/ SlotOf(u, i).at # SlotOf(v, j).at
    BY DEF SlotsApart
  <2>2. (AtHome(SlotOf(u, i)).at = AtHome(SlotOf(v, j)).at) = (SlotOf(u, i).at = SlotOf(v, j).at)
    BY <1>2, <1>3
  <2>3. (AtHome(SlotOf(u, i)).at = 0) = (SlotOf(u, i).at = 0)
    BY <1>2, <1>3 DEF CarriedOver
  <2> QED
    BY <2>1, <2>2, <2>3
<1>10. Memory'
  <2>1. MadeBefore' = HeldBefore
    BY <1>1 DEF MadeBefore, HeldBefore
  <2> QED
    BY <1>1, <1>2, <1>8, <2>1 DEF Memory
<1>11. Stages' /\ Passed'
  BY <1>1 DEF Stages, Passed, ImageStages
<1> QED
  BY <1>1, <1>6, <1>9, <1>10, <1>11 DEF IInv

-----------------------------------------------------------------------------
(* Steps of a call: it goes on, or it is refused as its call deserves.     *)
Going == pc # "idle" /\ UNCHANGED <<call, sent, outcome>>

Stopped ==
  /\ pc # "idle" /\ call \in Calls /\ Refused(call)
  /\ call' = None /\ sent' = << >> /\ outcome' = "error"

(* A running call has no outcome yet.                                      *)
LEMMA RunningFacts ==
  ASSUME Types
  PROVE  pc # "idle" => call \in Calls /\ outcome = "none"
BY DEF Types

(* A call that is refused may have written to a slot.                      *)
LEMMA FailKeeps ==
  ASSUME IInv, NEW s \in SlotNames, NEW k \in Places(s), NEW a, ForSlot(s, k, a),
         NEW m, Changed(mem, m, a), Fail(m), pc # "idle", Refused(call)
  PROVE  IInv' /\ Stopped
<1>1. MemoryHolds(mem) /\ SlotsApart /\ Types
  BY DEF IInv, Memory
<1>2. a \in Arrays /\ a \notin CallerArrays
  BY <1>1, OwnArray DEF ForSlot
<1>3. MemoryHolds(m)
  BY <1>1, <1>2, ChangeHolds
<1>4. Leave(m, "error")
  BY DEF Fail
<1>5. IInv' /\ call' = None /\ sent' = << >> /\ outcome' = "error"
  BY <1>1, <1>3, <1>4, LeaveKeeps
<1> QED
  BY <1>1, <1>5, RunningFacts DEF Stopped

(* A call that is refused may have written nothing.                        *)
LEMMA PlainFailKeeps ==
  ASSUME IInv, Fail(mem), pc # "idle", Refused(call)
  PROVE  IInv' /\ Stopped
<1>1. MemoryHolds(mem) /\ SlotsApart /\ Types
  BY DEF IInv, Memory
<1>2. Leave(mem, "error")
  BY DEF Fail
<1>3. IInv' /\ call' = None /\ sent' = << >> /\ outcome' = "error"
  BY <1>1, <1>2, LeaveKeeps
<1> QED
  BY <1>1, <1>3, RunningFacts DEF Stopped

(* There is a free array while a call still has slots to fill.             *)
LEMMA EncoderRoom ==
  ASSUME Memory, call \in Calls, MadeBefore \in Nat, MadeBefore < HeldBefore + 4 * N
  PROVE  HasRoom(mem)
<1>1. Cardinality(Used(mem)) \in Nat
  BY UsedFinite
<1>2. Cardinality(Used(mem)) < ArrayCount
  BY <1>1, CallFacts, ArrayCountAssumption DEF Memory
<1> QED
  BY <1>2, RoomFacts

(* A slice of slots after ensure*Slots.                                    *)
Fitted(r, s, n) ==
  /\ r \in SlotsType /\ r.len = n /\ r.len <= Len(r.slots) /\ Len(r.slots) <= MaxLevels
  /\ \A k \in 1..Len(r.slots) : r.slots[k] = Nil \/ (k \in Places(s) /\ r.slots[k] = SlotOf(s, k))

(* What ensure*Slots makes of the slots of an Encoder.                     *)
LEMMA FittedFacts ==
  ASSUME Types, NEW s \in SlotNames, NEW n \in Nat, n <= MaxLevels
  PROVE  Fitted(EnsureSlots(encoder[s], n, Nil), s, n)
<1> DEFINE old == encoder[s]
           r == EnsureSlots(old, n, Nil)
<1>1. old \in [slots : Seq(Slice), len : Nat] /\ old.len <= Len(old.slots) /\ Len(old.slots) <= MaxLevels
      /\ MaxLevels \in Nat /\ Nil \in Slice
  BY RoomAssumption, ArrayFacts DEF Types, SlotsType
<1> HIDE DEF old
<1>2. r \in [slots : Seq(Slice), len : Nat] /\ Ensured(r, old, n, Nil)
  BY <1>1, EnsureSlotsFacts
<1> HIDE DEF r
<1> QED
  BY <1>1, <1>2 DEF Ensured, Fitted, SlotsType, SlotOf, Places, old, r

TypedSlots ==
  /\ encoder \in [SlotNames -> SlotsType]
  /\ \A s \in SlotNames : encoder[s].len <= Len(encoder[s].slots) /\ Len(encoder[s].slots) <= MaxLevels
TypedBlocks ==
  /\ blocks \in [slots : Seq(BlockType), len : Nat]
  /\ blocks.len <= Len(blocks.slots) /\ Len(blocks.slots) <= MaxLevels

SlotsResized ==
  /\ encoder' = [s \in SlotNames |-> encoder'[s]]
  /\ \A s \in SlotNames : encoder'[s] = encoder[s] \/ \E n \in Nat : Fitted(encoder'[s], s, n)
BlocksResized ==
  /\ TypedBlocks'
  /\ \A k \in BlockPlaces' :
       blocks'.slots[k].data = Nil \/ (k \in BlockPlaces /\ blocks'.slots[k].data = blocks.slots[k].data)

(* Slots and blocks that were resized keep all in order.                   *)
LEMMA ResizeKeeps ==
  ASSUME Types, MemoryHolds(mem), SlotsApart, UNCHANGED mem, SlotsResized,
         UNCHANGED blocks \/ BlocksResized
  PROVE  InOrder /\ TypedSlots' /\ TypedBlocks'
<1>1. \A s \in SlotNames :
        /\ encoder'[s] \in SlotsType
        /\ encoder'[s].len <= Len(encoder'[s].slots) /\ Len(encoder'[s].slots) <= MaxLevels
  BY DEF SlotsResized, Fitted, Types
<1>2. TypedSlots'
  <2>1. encoder' \in [SlotNames -> SlotsType]
    BY <1>1 DEF SlotsResized
  <2> QED
    BY <1>1, <2>1 DEF TypedSlots
<1>3. TypedBlocks'
  BY DEF BlocksResized, Types, TypedBlocks
<1>4. \A s \in SlotNames : \A k \in Places(s)' :
        SlotOf(s, k)' = Nil \/ (k \in Places(s) /\ SlotOf(s, k)' = SlotOf(s, k))
  <2> SUFFICES ASSUME NEW s \in SlotNames, NEW k \in Places(s)'
               PROVE  SlotOf(s, k)' = Nil \/ (k \in Places(s) /\ SlotOf(s, k)' = SlotOf(s, k))
    OBVIOUS
  <2>1. k \in 1..Len(encoder'[s].slots) /\ SlotOf(s, k)' = encoder'[s].slots[k]
    BY DEF Places, SlotOf
  <2>2. CASE encoder'[s] = encoder[s]
    BY <2>1, <2>2 DEF Places, SlotOf
  <2>3. CASE \E n \in Nat : Fitted(encoder'[s], s, n)
    BY <2>1, <2>3 DEF Fitted
  <2> QED
    BY <2>2, <2>3 DEF SlotsResized
<1>5. Resized
  BY <1>4 DEF Resized, BlocksResized, BlockPlaces
<1> QED
  BY <1>2, <1>3, <1>5, ResizedFacts

-----------------------------------------------------------------------------
(* The invariant holds at first, and every action keeps it.                *)
LEMMA InitHolds == Init => IInv
<1> SUFFICES ASSUME Init PROVE IInv
  OBVIOUS
<1>1. /\ mem = [a \in Arrays |->
                  IF a \in CallerArrays THEN Run(Caller, "payload", a, CallerSizes[a]) ELSE << >>]
      /\ pc = "idle" /\ call = None /\ level = 0 /\ outcome = "none" /\ sent = << >>
      /\ encoder = [s \in SlotNames |-> NoSlots] /\ blocks = NoSlots
  BY CallerFacts DEF Init
<1>2. NoSlots.slots = << >> /\ NoSlots.len = 0 /\ Len(<< >>) = 0
  BY DEF NoSlots
<1>3. \A s \in SlotNames : encoder[s].slots = << >> /\ encoder[s].len = 0 /\ Places(s) = {}
  BY <1>1, <1>2 DEF Places
<1>4. blocks.slots = << >> /\ blocks.len = 0 /\ BlockPlaces = {}
  BY <1>1, <1>2 DEF BlockPlaces
<1>5. Types
  <2>1. NoSlots \in SlotsType /\ NoSlots \in [slots : Seq(BlockType), len : Nat]
    BY DEF NoSlots, SlotsType
  <2>2. encoder \in [SlotNames -> SlotsType]
    BY <1>1, <2>1
  <2> QED
    BY <1>1, <1>2, <1>3, <1>4, <2>1, <2>2, RoomAssumption DEF Types, Labels
<1>6. MemoryOK(mem)
  <2>1. \A a \in CallerArrays : IsList(Run(Caller, "payload", a, CallerSizes[a]))
    BY CallerFacts, RunIsList
  <2>2. IsList(<< >>)
    BY DEF IsList
  <2> QED
    BY <1>1, <2>1, <2>2 DEF MemoryOK
<1>7. ASSUME NEW l \in CallerArrays
      PROVE  /\ Valid(mem, CallerSlice(l))
             /\ ContentIn(mem, CallerSlice(l)) = Run(Caller, "payload", l, CallerSizes[l])
  <2> DEFINE r == Run(Caller, "payload", l, CallerSizes[l])
             n == CallerSizes[l]
             x == CallerSlice(l)
  <2>1. n \in Nat \ {0} /\ l \in Arrays /\ l # 0 /\ x.at = l /\ x.len = n /\ x \in Slice
    BY CallerFacts
  <2>2. mem[l] = r
    BY <1>1, <2>1
  <2>3. IsList(r) /\ Len(r) = n
    BY <2>1, RunIsList
  <2> HIDE DEF r, x, n
  <2>4. r # << >>
    BY <1>2, <2>1, <2>3
  <2>5. Valid(mem, x)
    BY <2>1, <2>2, <2>3, <2>4 DEF Valid, Used
  <2>6. ContentIn(mem, x) = [k \in 1..n |-> r[k]]
    BY <1>6, <2>1, <2>2, <2>5, ContentFacts
  <2>7. ContentIn(mem, x) = r
    BY <2>3, <2>6 DEF IsList
  <2> QED
    BY <2>5, <2>7 DEF x, r, n
<1>8. Memory
  <2>1. MemoryHolds(mem)
    BY <1>3, <1>4, <1>6, <1>7 DEF MemoryHolds
  <2>2. Used(mem) \in SUBSET CallerArrays
    BY <1>1 DEF Used
  <2>3. IsFiniteSet(CallerArrays) /\ Cardinality(CallerArrays) = Len(CallerSizes)
    <3>1. CASE Len(CallerSizes) = 0
      <4>1. CallerArrays = {}
        BY <3>1 DEF CallerArrays
      <4> QED
        BY <3>1, <4>1, FS_EmptySet
    <3>2. CASE Len(CallerSizes) # 0
      <4> DEFINE n == Len(CallerSizes)
      <4>1. 1 \in Int /\ n \in Int /\ ~(1 > n) /\ (n - 1) + 1 = n
        BY <3>2, CallerFacts
      <4> HIDE DEF n
      <4>2. IsFiniteSet(1..n) /\ Cardinality(1..n) = (n - 1) + 1
        BY <4>1, FS_Interval, Zenon
      <4> QED
        BY <4>1, <4>2 DEF CallerArrays, n
    <3> QED
      BY <3>1, <3>2
  <2>4. Cardinality(Used(mem)) <= Len(CallerSizes)
    BY <2>2, <2>3, FS_Subset
  <2>5. MadeBefore = Len(CallerSizes) + 5 * MaxLevels
    BY <1>1 DEF MadeBefore, HeldBefore
  <2>6. Cardinality(Used(mem)) \in Nat /\ Len(CallerSizes) \in Nat /\ MaxLevels \in Nat
    BY UsedFinite, CallerFacts, RoomAssumption
  <2> QED
    BY <2>1, <2>4, <2>5, <2>6 DEF Memory
<1>9. SlotsApart
  BY <1>3 DEF SlotsApart
<1>10. Stages /\ Passed
  BY <1>1 DEF Stages, Passed, ImageStages
<1> QED
  BY <1>5, <1>8, <1>9, <1>10 DEF IInv

(* Nothing in the heap or in the slots has changed.                        *)
LEMMA SameHeap ==
  ASSUME UNCHANGED <<mem, encoder, blocks>>
  PROVE  /\ MemoryHolds(mem)' = MemoryHolds(mem) /\ SlotsApart' = SlotsApart
         /\ TypedSlots' = TypedSlots /\ TypedBlocks' = TypedBlocks
BY DEF MemoryHolds, SlotsApart, TypedSlots, TypedBlocks, SlotOf, Places, BlockPlaces

(* A call begins with what earlier calls left.                             *)
LEMMA BeginKeeps ==
  ASSUME IInv, NEW c \in Calls, Begin(c)
  PROVE  IInv'
<1>1. /\ pc = "idle" /\ pc' = "start" /\ call' = c /\ outcome' = "none"
      /\ UNCHANGED <<mem, level, encoder, blocks, sent>>
  BY DEF Begin
<1>2. Types'
  BY <1>1, NoneAssumption DEF IInv, Types, Labels
<1>3. Memory' /\ SlotsApart'
  BY <1>1, SameHeap DEF IInv, Memory, MadeBefore, HeldBefore
<1>4. Stages' /\ Passed'
  BY <1>1 DEF Stages, Passed, ImageStages
<1> QED
  BY <1>2, <1>3, <1>4 DEF IInv

(* A step of a running call within its levels, the slots in order.         *)
LEMMA StepIsTyped ==
  ASSUME Types, pc # "idle", Going, pc' \in Labels \ {"idle", "start"}, level' \in 1..N,
         TypedSlots', TypedBlocks', sent' = << >>
  PROVE  Types'
<1>1. call \in Calls /\ outcome = "none" /\ call # None
  BY CallFacts DEF Types
<1>2. N' = N /\ call' = call /\ outcome' = outcome
  BY DEF Going, N
<1> QED
  BY <1>1, <1>2 DEF Types, TypedSlots, TypedBlocks

(* The options are checked, the slots for the mip images resized.          *)
LEMMA StartKeeps ==
  ASSUME IInv, Start
  PROVE  IInv' /\ (Going \/ Stopped)
<1>1. pc = "start"
  BY DEF Start
<1>2. Types /\ call \in Calls /\ MemoryHolds(mem) /\ SlotsApart
  BY <1>1, RunningFacts DEF IInv, Memory
<1>3. CASE call.fault = "options"
  BY <1>1, <1>3, PlainFailKeeps DEF Start, Refused
<1>4. CASE call.fault # "options"
  <2> DEFINE mips == IF call.kind = "image" THEN EnsureSlots(encoder.mips, Levels, Nil) ELSE encoder.mips
  <2>1. /\ pc' = IF call.kind = "image" THEN "mips" ELSE "header"
        /\ level' = 1 /\ UNCHANGED <<call, blocks, sent, outcome, mem>>
        /\ encoder' = [encoder EXCEPT !.mips = mips]
    BY <1>1, <1>4 DEF Start, Goto
  <2>2. Levels = N /\ N \in Nat \ {0} /\ N <= MaxLevels /\ call.kind \in {"image", "blocks"}
    BY <1>1, <1>2, CallFacts DEF Levels, N
  <2>3. call.kind = "image" => Fitted(mips, "mips", N)
    BY <1>2, <2>2, FittedFacts, SlotNamesFacts
  <2> HIDE DEF mips
  <2>4. /\ encoder' = [s \in SlotNames |-> encoder'[s]]
        /\ encoder'.mips = mips /\ \A s \in SlotNames : s # "mips" => encoder'[s] = encoder[s]
    BY <1>2, <2>1, SlotNamesFacts DEF Types
  <2>5. SlotsResized
    <3>1. encoder'.mips = encoder.mips \/ \E n \in Nat : Fitted(encoder'.mips, "mips", n)
      BY <2>2, <2>3, <2>4 DEF mips
    <3> QED
      BY <2>4, <3>1 DEF SlotsResized
  <2>6. InOrder /\ TypedSlots' /\ TypedBlocks'
    BY <1>2, <2>1, <2>5, ResizeKeeps
  <2>7. Going
    BY <1>1, <2>1 DEF Going
  <2>8. Types'
    <3>1. sent' = << >>
      BY <1>1, <1>2, <2>1 DEF Types
    <3>2. pc' \in Labels \ {"idle", "start"} /\ level' \in 1..N
      BY <2>1, <2>2 DEF Labels
    <3> QED
      BY <1>1, <1>2, <2>6, <2>7, <3>1, <3>2, StepIsTyped
  <2>9. Memory'
    <3>1. MadeBefore = HeldBefore /\ HeldBefore \in Nat
      BY <1>1, <1>2, CallFacts DEF MadeBefore
    <3>2. HeldBefore' = HeldBefore /\ N' = N
      BY <2>1 DEF HeldBefore, N
    <3>3. MadeBefore' = HeldBefore + (1 - 1) \/ MadeBefore' = HeldBefore + 3 * N
      BY <2>1, <3>2 DEF MadeBefore
    <3>4. Cardinality(Used(mem)) \in Nat
      BY UsedFinite
    <3> QED
      BY <2>1, <2>2, <2>6, <3>1, <3>3, <3>4 DEF IInv, Memory, InOrder
  <2>10. Stages'
    <3>1. N' = N
      BY <2>1 DEF N
    <3>2. CASE call.kind = "image"
      <4>1. pc' = "mips" /\ encoder'.mips.len = N /\ 1..(level' - 1) = {}
        BY <2>1, <2>3, <2>4, <3>2 DEF Fitted
      <4> QED
        BY <2>1, <3>1, <3>2, <4>1 DEF Stages, ImageStages
    <3>3. CASE call.kind # "image"
      <4>1. pc' = "header"
        BY <2>1, <3>3
      <4> QED
        BY <2>1, <3>3, <4>1 DEF Stages, ImageStages, HasPayloads
    <3> QED
      BY <3>2, <3>3
  <2>11. Passed'
    BY <1>2, <1>4, <2>1, <2>2, CallFacts DEF Passed
  <2> QED
    BY <2>6, <2>7, <2>8, <2>9, <2>10, <2>11 DEF IInv, InOrder
<1> QED
  BY <1>3, <1>4

(* The slots of what follows the mip images are resized.                   *)
LEMMA ResizeSlotsKeeps ==
  ASSUME IInv, ResizeSlots
  PROVE  IInv' /\ Going
<1> DEFINE swizzled == EnsureSlots(encoder.swizzledMips, Levels, Nil)
           payloads == EnsureSlots(encoder.payloads, Levels, Nil)
<1>1. /\ pc = "slots"
      /\ IF call.swizzle
           THEN /\ encoder' = [encoder EXCEPT !.swizzledMips = swizzled,
                                             !.payloads = EnsureSlots(@, swizzled.len, Nil)]
                /\ Goto("swizzle")
           ELSE /\ encoder' = [encoder EXCEPT !.payloads = EnsureSlots(@, Levels, Nil)]
                /\ Goto("encode")
      /\ UNCHANGED mem
  BY DEF ResizeSlots
<1>2. Types /\ call \in Calls /\ MemoryHolds(mem) /\ SlotsApart /\ HasMips /\ call.kind = "image" /\ level = 1
  BY <1>1, RunningFacts DEF IInv, Memory, Stages, ImageStages
<1>3. Levels = N /\ N \in Nat \ {0} /\ N <= MaxLevels
  BY <1>1, <1>2, CallFacts DEF Levels, HasMips
<1>4. Fitted(swizzled, "swizzledMips", N) /\ Fitted(payloads, "payloads", N)
  BY <1>2, <1>3, FittedFacts, SlotNamesFacts
<1>5. swizzled.len = N
  BY <1>4 DEF Fitted
<1>6. /\ encoder' = IF call.swizzle
                      THEN [encoder EXCEPT !.swizzledMips = swizzled, !.payloads = payloads]
                      ELSE [encoder EXCEPT !.payloads = payloads]
      /\ pc' = IF call.swizzle THEN "swizzle" ELSE "encode"
      /\ level' = 1 /\ UNCHANGED <<call, blocks, sent, outcome, mem>>
  <2> HIDE DEF swizzled
  <2> QED
    BY <1>1, <1>3, <1>5 DEF Goto
<1> HIDE DEF swizzled, payloads
<1>7. /\ encoder' = [s \in SlotNames |-> encoder'[s]]
      /\ encoder'.mips = encoder.mips /\ encoder'.blockPayloads = encoder.blockPayloads
      /\ encoder'.payloads = payloads
      /\ encoder'.swizzledMips = IF call.swizzle THEN swizzled ELSE encoder.swizzledMips
  BY <1>2, <1>6, SlotNamesFacts DEF Types
<1>8. SlotsResized
  <2>1. \A s \in SlotNames : encoder'[s] = encoder[s] \/ Fitted(encoder'[s], s, N)
    BY <1>4, <1>7, SlotNamesFacts
  <2> QED
    BY <1>3, <1>7, <2>1 DEF SlotsResized
<1>9. InOrder /\ TypedSlots' /\ TypedBlocks'
  BY <1>2, <1>6, <1>8, ResizeKeeps
<1>10. Going
  BY <1>1, <1>6 DEF Going
<1>11. Types'
  <2>1. sent' = << >>
    BY <1>1, <1>2, <1>6 DEF Types
  <2>2. pc' \in Labels \ {"idle", "start"} /\ level' \in 1..N
    BY <1>3, <1>6 DEF Labels
  <2> QED
    BY <1>1, <1>2, <1>9, <1>10, <2>1, <2>2, StepIsTyped
<1>12. Memory'
  <2>1. MadeBefore = HeldBefore + N /\ HeldBefore \in Nat
    BY <1>1, <1>2, CallFacts DEF MadeBefore
  <2>2. HeldBefore' = HeldBefore /\ N' = N
    BY <1>6 DEF HeldBefore, N
  <2>3. MadeBefore' = HeldBefore + N + (1 - 1) \/ MadeBefore' = HeldBefore + 2 * N + (1 - 1)
    BY <1>6, <2>2 DEF MadeBefore
  <2>4. Cardinality(Used(mem)) \in Nat
    BY UsedFinite
  <2> QED
    BY <1>3, <1>6, <1>9, <2>1, <2>3, <2>4 DEF IInv, Memory, InOrder
<1>13. Stages'
  <2>1. N' = N /\ 1..(level' - 1) = {}
    BY <1>6 DEF N
  <2>2. HasMips'
    BY <1>2, <1>6, <1>7, <2>1 DEF HasMips, Holds, SlotOf
  <2>3. encoder'.payloads.len = N
    BY <1>4, <1>7 DEF Fitted
  <2>4. CASE call.swizzle
    <3>1. encoder'.swizzledMips.len = N /\ pc' = "swizzle"
      BY <1>5, <1>6, <1>7, <2>4
    <3> QED
      BY <1>2, <1>6, <2>1, <2>2, <2>3, <2>4, <3>1 DEF Stages
  <2>5. CASE ~call.swizzle
    BY <1>2, <1>6, <2>1, <2>2, <2>3, <2>5 DEF Stages
  <2> QED
    BY <2>4, <2>5
<1>14. Passed'
  BY <1>1, <1>6 DEF IInv, Passed
<1> QED
  BY <1>9, <1>10, <1>11, <1>12, <1>13, <1>14 DEF IInv, InOrder

-----------------------------------------------------------------------------
(* The loops over the levels                                               *)
After ==
  CASE pc = "mips" -> "slots"
    [] pc = "swizzle" -> "encode"
    [] pc = "encode" -> "header"
    [] pc = "blocks" -> "emit"

Loops == {"mips", "swizzle", "encode", "blocks"}

(* The next level, or what follows the last one; an array more at most.    *)
LEMMA LoopFacts ==
  ASSUME Types, pc \in Loops, Levels = N, NextLevel(After), UNCHANGED call
  PROVE  /\ MadeBefore \in Nat /\ MadeBefore < HeldBefore + 4 * N /\ MadeBefore' = MadeBefore + 1
         /\ level \in 1..N /\ level' \in 1..N /\ N' = N /\ pc' \in Labels \ {"idle", "start"}
         /\ \/ level < N /\ pc' = pc /\ level' = level + 1
            \/ level = N /\ pc' = After /\ level' = 1
<1>1. /\ call \in Calls /\ level \in 1..N
      /\ N \in Nat \ {0} /\ HeldBefore \in Nat
  BY CallFacts DEF Types, Loops
<1>2. N' = N /\ HeldBefore' = HeldBefore
  BY DEF N, HeldBefore
<1>3. \/ level < N /\ pc' = pc /\ level' = level + 1
      \/ level = N /\ pc' = After /\ level' = 1
  BY <1>1 DEF NextLevel
<1>4. level' \in 1..N
  BY <1>1, <1>3
<1>5. pc = "mips" \/ pc = "swizzle" \/ pc = "encode" \/ pc = "blocks"
  BY DEF Loops
<1>6. ASSUME pc = "mips"
      PROVE  /\ MadeBefore \in Nat /\ MadeBefore < HeldBefore + 4 * N /\ MadeBefore' = MadeBefore + 1
             /\ pc' \in Labels \ {"idle", "start"}
  <2>1. After = "slots" /\ MadeBefore = HeldBefore + (level - 1)
    BY <1>6 DEF After, MadeBefore
  <2>2. MadeBefore' = IF pc' = "mips" THEN HeldBefore + (level' - 1) ELSE HeldBefore + N
    BY <1>2, <1>3, <1>6, <2>1 DEF MadeBefore
  <2>3. pc' \in Labels \ {"idle", "start"} /\ (pc' = "mips") = (level < N)
    BY <1>1, <1>3, <1>6, <2>1 DEF Labels
  <2>4. MadeBefore \in Nat /\ MadeBefore < HeldBefore + 4 * N /\ MadeBefore' = MadeBefore + 1
    BY <1>1, <1>3, <2>1, <2>2, <2>3
  <2> QED
    BY <2>3, <2>4
<1>7. ASSUME pc = "swizzle"
      PROVE  /\ MadeBefore \in Nat /\ MadeBefore < HeldBefore + 4 * N /\ MadeBefore' = MadeBefore + 1
             /\ pc' \in Labels \ {"idle", "start"}
  <2>1. After = "encode" /\ MadeBefore = HeldBefore + N + (level - 1)
    BY <1>7 DEF After, MadeBefore
  <2>2. MadeBefore' = IF pc' = "swizzle" THEN HeldBefore + N + (level' - 1)
                      ELSE HeldBefore + 2 * N + (level' - 1)
    BY <1>2, <1>3, <1>7, <2>1 DEF MadeBefore
  <2>3. pc' \in Labels \ {"idle", "start"} /\ (pc' = "swizzle") = (level < N)
    BY <1>1, <1>3, <1>7, <2>1 DEF Labels
  <2>4. MadeBefore \in Nat /\ MadeBefore < HeldBefore + 4 * N /\ MadeBefore' = MadeBefore + 1
    BY <1>1, <1>3, <2>1, <2>2, <2>3
  <2> QED
    BY <2>3, <2>4
<1>8. ASSUME pc = "encode"
      PROVE  /\ MadeBefore \in Nat /\ MadeBefore < HeldBefore + 4 * N /\ MadeBefore' = MadeBefore + 1
             /\ pc' \in Labels \ {"idle", "start"}
  <2>1. After = "header" /\ MadeBefore = HeldBefore + 2 * N + (level - 1)
    BY <1>8 DEF After, MadeBefore
  <2>2. MadeBefore' = IF pc' = "encode" THEN HeldBefore + 2 * N + (level' - 1) ELSE HeldBefore + 3 * N
    BY <1>2, <1>3, <1>8, <2>1 DEF MadeBefore
  <2>3. pc' \in Labels \ {"idle", "start"} /\ (pc' = "encode") = (level < N)
    BY <1>1, <1>3, <1>8, <2>1 DEF Labels
  <2>4. MadeBefore \in Nat /\ MadeBefore < HeldBefore + 4 * N /\ MadeBefore' = MadeBefore + 1
    BY <1>1, <1>3, <2>1, <2>2, <2>3
  <2> QED
    BY <2>3, <2>4
<1>9. ASSUME pc = "blocks"
      PROVE  /\ MadeBefore \in Nat /\ MadeBefore < HeldBefore + 4 * N /\ MadeBefore' = MadeBefore + 1
             /\ pc' \in Labels \ {"idle", "start"}
  <2>1. After = "emit" /\ MadeBefore = HeldBefore + 3 * N + (level - 1)
    BY <1>9 DEF After, MadeBefore
  <2>2. MadeBefore' = IF pc' = "blocks" THEN HeldBefore + 3 * N + (level' - 1) ELSE HeldBefore + 4 * N
    BY <1>2, <1>3, <1>9, <2>1 DEF MadeBefore
  <2>3. pc' \in Labels \ {"idle", "start"} /\ (pc' = "blocks") = (level < N)
    BY <1>1, <1>3, <1>9, <2>1 DEF Labels
  <2>4. MadeBefore \in Nat /\ MadeBefore < HeldBefore + 4 * N /\ MadeBefore' = MadeBefore + 1
    BY <1>1, <1>3, <2>1, <2>2, <2>3
  <2> QED
    BY <2>3, <2>4
<1>10. /\ MadeBefore \in Nat /\ MadeBefore < HeldBefore + 4 * N /\ MadeBefore' = MadeBefore + 1
       /\ pc' \in Labels \ {"idle", "start"}
  BY <1>5, <1>6, <1>7, <1>8, <1>9
<1> QED
  BY <1>1, <1>2, <1>3, <1>4, <1>10

(* Cells written over a slice from its start.                              *)
LEMMA OverwriteFacts ==
  ASSUME NEW m, MemoryOK(m), NEW t, Valid(m, t), t.at \in Arrays, NEW cells, IsList(cells), Len(cells) = t.len
  PROVE  LET w == Written(m, t, 0, cells)
         IN  Changed(m, w, t.at) /\ Valid(w, t) /\ ContentIn(w, t) = cells
<1> DEFINE w == Written(m, t, 0, cells)
<1>1. Changed(m, w, t.at) /\ StandIn(w[t.at], 0, cells)
  BY WrittenFacts
<1> HIDE DEF w
<1>2. Valid(w, t) /\ MemoryOK(w)
  BY <1>1, ChangedFacts DEF Changed
<1>3. ContentIn(w, t) = [k \in 1..t.len |-> w[t.at][k]] /\ t.len \in Nat
  BY <1>2, ContentFacts, ArrayFacts
<1>4. \A k \in 1..t.len : w[t.at][k] = cells[k]
  <2> TAKE k \in 1..t.len
  <2>1. 0 + k = k
    BY <1>3
  <2> QED
    BY <1>1, <2>1 DEF StandIn
<1>5. cells = [k \in 1..t.len |-> cells[k]]
  BY DEF IsList
<1> QED
  BY <1>1, <1>2, <1>3, <1>4, <1>5 DEF w

(* A new array, with room for the slice.                                   *)
LEMMA MadeHolds ==
  ASSUME MemoryOK(mem), HasRoom(mem), NEW c \in Nat \ {0}, NEW n \in Nat, n <= c
  PROVE  /\ Changed(mem, AfterMake(c), Fresh) /\ Valid(AfterMake(c), Made(n))
         /\ Made(n).at = Fresh /\ Made(n).len = n /\ Made(n) \in Slice
         /\ Fresh \in Arrays /\ Fresh \notin Used(mem)
<1>1. /\ MemoryOK(AfterMake(c)) /\ \A a \in Arrays : a # Fresh => AfterMake(c)[a] = mem[a]
      /\ Len(AfterMake(c)[Fresh]) = c /\ AfterMake(c)[Fresh] # << >>
      /\ Fresh \in Arrays /\ Fresh \notin Used(mem) /\ Fresh # 0
  BY MakeFacts, FreshFacts, ArrayFacts
<1>2. Made(n).at = Fresh /\ Made(n).len = n /\ Made(n) \in Slice
  BY <1>1 DEF Made, Slice
<1> QED
  BY <1>1, <1>2 DEF Changed, Valid, Used

(* The parts that were there, and the one that was filled.                 *)
LEMMA HoldsElsewhere ==
  ASSUME NEW s, NEW k, ElsewhereSame(s, k), UNCHANGED call,
         NEW u \in SlotNames, NEW l \in Places(u), u # s \/ l # k, NEW part, Holds(u, part, l)
  PROVE  Holds(u, part, l)'
BY DEF ElsewhereSame, Holds, SlotOf

(* The levels up to this one have their parts.                             *)
LEMMA HoldsAfter ==
  ASSUME NEW s \in SlotNames, level \in Nat, 1..level \subseteq Places(s), NEW part,
         \A l \in 1..(level - 1) : Holds(s, part, l),
         NEW t, Replaced(s, level, t), ElsewhereSame(s, level), UNCHANGED call,
         t.len = call.sizes[level], ContentIn(mem', t) = Run(call.name, part, level, call.sizes[level])
  PROVE  \A l \in 1..level : Holds(s, part, l)'
<1> TAKE l \in 1..level
<1>1. CASE l = level
  <2>1. encoder'[s].slots[l] = t
    BY <1>1 DEF Replaced
  <2> QED
    BY <1>1, <2>1 DEF Holds, SlotOf
<1>2. CASE l # level
  <2>1. l \in 1..(level - 1) /\ l \in Places(s)
    BY <1>2
  <2> QED
    BY <1>2, <2>1, HoldsElsewhere
<1> QED
  BY <1>1, <1>2

(* What every loop body over the slots of the Encoder keeps.               *)
LEMMA LoopKeeps ==
  ASSUME IInv, pc \in Loops, Levels = N, NextLevel(After), UNCHANGED <<call, sent, outcome>>,
         InOrder, NEW s, NEW t, Replaced(s, level, t), TypedBlocks'
  PROVE  Types' /\ Memory' /\ SlotsApart' /\ Going
<1>1. Types /\ pc # "idle" /\ pc # "return"
  BY DEF IInv, Loops
<1>2. /\ MadeBefore \in Nat /\ MadeBefore' = MadeBefore + 1
      /\ level' \in 1..N /\ pc' \in Labels \ {"idle", "start"}
  BY <1>1, LoopFacts
<1>3. Going
  BY <1>1 DEF Going
<1>4. TypedSlots'
  BY <1>1 DEF TypedSlots, Types, Replaced
<1>5. Types'
  <2>1. sent' = << >>
    BY <1>1 DEF Types
  <2> QED
    BY <1>1, <1>2, <1>3, <1>4, <2>1, StepIsTyped
<1>6. Memory'
  <2>1. Cardinality(Used(mem)) \in Nat /\ Cardinality(Used(mem)) <= MadeBefore
    BY UsedFinite DEF IInv, Memory
  <2>2. Cardinality(Used(mem')) \in Nat
    BY UsedFinite
  <2>3. Cardinality(Used(mem')) <= MadeBefore'
    BY <1>2, <2>1, <2>2 DEF InOrder
  <2> QED
    BY <2>3 DEF Memory, InOrder
<1> QED
  BY <1>3, <1>5, <1>6 DEF InOrder


(* The level a loop is at has a slot.                                      *)
LEMMA PlaceFacts ==
  ASSUME Types, pc \notin {"idle", "start"}, NEW s \in SlotNames, encoder[s].len = N
  PROVE  /\ level \in Nat \ {0} /\ level \in 1..N /\ N \in Nat \ {0} /\ call \in Calls
         /\ 1..N \subseteq Places(s) /\ level \in Places(s) /\ Slot(s) = SlotOf(s, level)
         /\ Size = call.sizes[level] /\ Size \in Nat \ {0}
<1>1. call \in Calls /\ level \in 1..N
  BY DEF Types
<1>2. N \in Nat \ {0} /\ DOMAIN call.sizes = 1..N /\ call.sizes[level] \in Nat \ {0}
  BY <1>1, CallFacts
<1>3. Len(encoder[s].slots) \in Nat /\ N <= Len(encoder[s].slots)
  BY SlotFacts DEF Types
<1>4. 1..N \subseteq Places(s)
  BY <1>2, <1>3 DEF Places
<1> QED
  BY <1>1, <1>2, <1>4 DEF Size, SizeAt, Slot, SlotOf

(* A loop body that gives slot s of the level its part.                    *)
LEMMA LoopFills ==
  ASSUME IInv, pc \in Loops, Levels = N, NextLevel(After), UNCHANGED <<call, blocks, sent, outcome>>,
         NEW s \in SlotNames, encoder[s].len = N, NEW part, \A l \in 1..(level - 1) : Holds(s, part, l),
         NEW t, ForSlot(s, level, t.at), NEW m, Changed(mem, m, t.at), Valid(m, t), Fill(s, t, m),
         t.len = call.sizes[level], ContentIn(m, t) = Run(call.name, part, level, call.sizes[level])
  PROVE  /\ Types' /\ Memory' /\ SlotsApart' /\ Going
         /\ Replaced(s, level, t) /\ ElsewhereSame(s, level)
         /\ \A l \in 1..level : Holds(s, part, l)'
<1>1. Types /\ MemoryHolds(mem) /\ SlotsApart /\ pc \notin {"idle", "start"}
  BY DEF IInv, Memory, Loops
<1>2. level \in Nat /\ level \in 1..N /\ 1..N \subseteq Places(s) /\ level \in Places(s) /\ N \in Nat
  BY <1>1, PlaceFacts
<1>3. t \in Slice
  BY DEF Valid
<1>4. BlocksHold(m)
  <2>1. \A x : Valid(mem, x) => Valid(m, x)
    BY <1>1, ChangedFacts DEF ForSlot, MemoryHolds
  <2> QED
    BY <1>1, <2>1 DEF BlocksHold, MemoryHolds, BlockPlaces
<1>5. mem' = m /\ InOrder /\ Replaced(s, level, t) /\ ElsewhereSame(s, level)
  BY <1>1, <1>2, <1>3, <1>4, FillFacts
<1>6. TypedBlocks'
  BY <1>1 DEF TypedBlocks, Types
<1>7. Types' /\ Memory' /\ SlotsApart' /\ Going
  BY <1>5, <1>6, LoopKeeps
<1>8. 1..level \subseteq Places(s)
  BY <1>2
<1>9. \A l \in 1..level : Holds(s, part, l)'
  BY <1>2, <1>5, <1>8, HoldsAfter
<1> QED
  BY <1>5, <1>7, <1>9

(* A mip image is written, in the image of an earlier call or a new one.   *)
LEMMA GenerateMipKeeps ==
  ASSUME IInv, GenerateMip
  PROVE  IInv' /\ Going
<1> DEFINE image == EnsureLen(Slot("mips"), Size)
           cells == Run(call.name, "mip", level, Size)
           m == Written(AfterEnsureLen(Slot("mips"), Size), image, 0, cells)
<1>1. /\ pc = "mips" /\ Fill("mips", image, m) /\ NextLevel("slots")
      /\ UNCHANGED <<call, blocks, sent, outcome>>
  BY DEF GenerateMip
<1>2. /\ Types /\ Memory /\ MemoryHolds(mem) /\ call.kind = "image"
      /\ encoder.mips.len = N /\ \A l \in 1..(level - 1) : Holds("mips", "mip", l)
  BY <1>1 DEF IInv, Memory, Stages, ImageStages
<1>3. /\ level \in 1..N /\ N \in Nat /\ call \in Calls /\ level \in Places("mips")
      /\ Slot("mips") = SlotOf("mips", level) /\ Size = call.sizes[level] /\ Size \in Nat \ {0}
  BY <1>1, <1>2, PlaceFacts, SlotNamesFacts
<1>4. Levels = N /\ pc \in Loops /\ After = "slots"
  BY <1>1, <1>2 DEF Levels, Loops, After
<1>5. HasRoom(mem) /\ MemoryOK(mem) /\ Valid(mem, Slot("mips"))
  <2>1. MadeBefore \in Nat /\ MadeBefore < HeldBefore + 4 * N
    BY <1>1, <1>2, <1>4, LoopFacts
  <2> QED
    BY <1>2, <1>3, <2>1, EncoderRoom, SlotNamesFacts DEF MemoryHolds
<1>6. /\ Changed(mem, m, image.at) /\ Valid(m, image) /\ image.len = Size /\ image.at \in Arrays
      /\ image.at = Slot("mips").at \/ image.at \notin Used(mem)
      /\ ContentIn(m, image) = cells
  <2>1. IsList(cells) /\ Len(cells) = Size
    BY <1>3, RunIsList
  <2> HIDE DEF cells
  <2> QED
    BY <1>3, <1>5, <2>1, RewriteFacts
<1> HIDE DEF image, m
<1>7. /\ Types' /\ Memory' /\ SlotsApart' /\ Going
      /\ Replaced("mips", level, image) /\ ElsewhereSame("mips", level)
      /\ \A l \in 1..level : Holds("mips", "mip", l)'
  <2>1. ForSlot("mips", level, image.at)
    BY <1>3, <1>6 DEF ForSlot
  <2> QED
    BY <1>1, <1>2, <1>3, <1>4, <1>6, <2>1, LoopFills, SlotNamesFacts
<1>8. /\ N' = N /\ encoder'.mips.len = N
      /\ \/ level < N /\ pc' = "mips" /\ level' = level + 1
         \/ level = N /\ pc' = "slots" /\ level' = 1
  BY <1>1, <1>2, <1>4, <1>7, LoopFacts, SlotNamesFacts DEF Replaced
<1>9. Stages'
  <2>1. CASE level < N
    <3>1. pc' = "mips" /\ level' - 1 = level
      BY <1>3, <1>8, <2>1
    <3> QED
      BY <1>1, <1>2, <1>7, <1>8, <3>1 DEF Stages, ImageStages
  <2>2. CASE level = N
    <3>1. pc' = "slots" /\ level' = 1
      BY <1>3, <1>8, <2>2
    <3> QED
      BY <1>1, <1>2, <1>7, <1>8, <2>2, <3>1 DEF Stages, ImageStages, HasMips
  <2> QED
    BY <1>8, <2>1, <2>2
<1>10. Passed'
  BY <1>1, <1>8 DEF IInv, Passed
<1> QED
  BY <1>7, <1>9, <1>10 DEF IInv


(* The cells of a level that are made from a part that is there.           *)
LEMMA MadeFromPart ==
  ASSUME NEW n \in Nat, NEW l, NEW name, NEW part, NEW made, NEW c, c = Run(name, part, l, n)
  PROVE  [k \in 1..n |-> IF c[k] = Cell(name, part, l, k) THEN Cell(name, made, l, k) ELSE Garbage]
           = Run(name, made, l, n)
BY DEF Run

(* A swizzled image is written, and its mip image stays.                   *)
LEMMA SwizzleKeeps ==
  ASSUME IInv, Swizzle
  PROVE  IInv' /\ Going
<1> DEFINE old == Slot("swizzledMips")
           dst == IF SameBounds(old) THEN old ELSE Made(Size)
           before == IF SameBounds(old) THEN mem ELSE AfterMake(Size)
           c == Content(Slot("mips"))
           pixels == [k \in 1..Size |-> IF c[k] = Cell(call.name, "mip", level, k)
                                          THEN Cell(call.name, "swizzled", level, k) ELSE Garbage]
           cells == Run(call.name, "swizzled", level, Size)
           m == Written(before, dst, 0, cells)
<1>1. /\ pc = "swizzle" /\ Fill("swizzledMips", dst, Written(before, dst, 0, pixels)) /\ NextLevel("encode")
      /\ UNCHANGED <<call, blocks, sent, outcome>>
  BY DEF Swizzle
<1>2. /\ Types /\ Memory /\ MemoryHolds(mem) /\ call.kind = "image" /\ call.swizzle /\ HasMips
      /\ encoder.swizzledMips.len = N /\ encoder.payloads.len = N
      /\ \A l \in 1..(level - 1) : Holds("swizzledMips", "swizzled", l)
  BY <1>1 DEF IInv, Memory, Stages, ImageStages
<1>3. /\ level \in 1..N /\ N \in Nat /\ call \in Calls /\ level \in Places("swizzledMips")
      /\ old = SlotOf("swizzledMips", level) /\ Size = call.sizes[level] /\ Size \in Nat \ {0}
  BY <1>1, <1>2, PlaceFacts, SlotNamesFacts
<1>4. Slot("mips") = SlotOf("mips", level) /\ Holds("mips", "mip", level)
  BY <1>1, <1>2, <1>3, PlaceFacts, SlotNamesFacts DEF HasMips
<1>5. Levels = N /\ pc \in Loops /\ After = "encode"
  BY <1>1, <1>2 DEF Levels, Loops, After, HasMips
<1>6. HasRoom(mem) /\ MemoryOK(mem) /\ Valid(mem, old)
  <2>1. MadeBefore \in Nat /\ MadeBefore < HeldBefore + 4 * N
    BY <1>1, <1>2, <1>5, LoopFacts
  <2> QED
    BY <1>2, <1>3, <2>1, EncoderRoom, SlotNamesFacts DEF MemoryHolds
<1>7. pixels = cells
  <2>1. c = Run(call.name, "mip", level, Size)
    BY <1>3, <1>4 DEF Holds, Content, ContentIn
  <2> HIDE DEF c
  <2> QED
    BY <1>3, <2>1, MadeFromPart
<1>8. Fill("swizzledMips", dst, m)
  BY <1>1, <1>7
<1>9. IsList(cells) /\ Len(cells) = Size
  BY <1>3, RunIsList
<1> HIDE DEF pixels, cells
<1>10. /\ Changed(mem, m, dst.at) /\ Valid(m, dst) /\ dst.len = Size /\ dst.at \in Arrays
       /\ dst.at = old.at \/ dst.at \notin Used(mem)
       /\ ContentIn(m, dst) = cells
  <2>1. CASE SameBounds(old)
    <3>1. dst = old /\ before = mem /\ old.len = Size /\ old # Nil
      BY <2>1 DEF SameBounds
    <3>2. old.at \in Arrays
      BY <1>6, <3>1, ArrayFacts DEF Valid
    <3> HIDE DEF old, dst, before
    <3> QED
      BY <1>6, <1>9, <3>1, <3>2, OverwriteFacts
  <2>2. CASE ~SameBounds(old)
    <3>1. dst = Made(Size) /\ before = AfterMake(Size)
      BY <2>2
    <3> HIDE DEF old, dst, before
    <3>2. Size <= Size /\ Size \in Nat
      BY <1>3
    <3>3. /\ Changed(mem, before, Fresh) /\ Valid(before, dst) /\ dst.at = Fresh /\ dst.len = Size
          /\ Fresh \in Arrays /\ Fresh \notin Used(mem)
      BY <1>3, <1>6, <3>1, <3>2, MadeHolds
    <3>4. MemoryOK(before)
      BY <3>3 DEF Changed
    <3>5. Changed(before, m, dst.at) /\ Valid(m, dst) /\ ContentIn(m, dst) = cells
      BY <1>9, <3>3, <3>4, OverwriteFacts
    <3>6. Changed(mem, m, dst.at)
      BY <1>6, <3>3, <3>5, ChangedTwice
    <3> QED
      BY <3>3, <3>5, <3>6
  <2> QED
    BY <2>1, <2>2
<1> HIDE DEF dst, m
<1>11. /\ Types' /\ Memory' /\ SlotsApart' /\ Going
       /\ Replaced("swizzledMips", level, dst) /\ ElsewhereSame("swizzledMips", level)
       /\ \A l \in 1..level : Holds("swizzledMips", "swizzled", l)'
  <2>1. ForSlot("swizzledMips", level, dst.at)
    BY <1>3, <1>10 DEF ForSlot
  <2>2. ContentIn(m, dst) = Run(call.name, "swizzled", level, call.sizes[level])
    BY <1>3, <1>10 DEF cells
  <2> QED
    BY <1>1, <1>2, <1>3, <1>5, <1>8, <1>10, <2>1, <2>2, LoopFills, SlotNamesFacts
<1>12. /\ N' = N /\ encoder'.swizzledMips.len = N /\ encoder'.payloads.len = N /\ encoder'.mips.len = N
       /\ \/ level < N /\ pc' = "swizzle" /\ level' = level + 1
          \/ level = N /\ pc' = "encode" /\ level' = 1
  BY <1>1, <1>2, <1>5, <1>11, LoopFacts, SlotNamesFacts DEF Replaced, HasMips
<1>13. HasMips'
  <2>1. 1..N \subseteq Places("mips")
    BY <1>1, <1>2, PlaceFacts, SlotNamesFacts DEF HasMips
  <2>2. \A l \in 1..N : Holds("mips", "mip", l)'
    BY <1>1, <1>2, <1>11, <2>1, HoldsElsewhere, SlotNamesFacts DEF HasMips
  <2> QED
    BY <1>12, <2>2 DEF HasMips
<1>14. Stages'
  <2>1. CASE level < N
    <3>1. pc' = "swizzle" /\ level' - 1 = level
      BY <1>3, <1>12, <2>1
    <3> QED
      BY <1>1, <1>2, <1>11, <1>12, <1>13, <3>1 DEF Stages, ImageStages
  <2>2. CASE level = N
    <3>1. pc' = "encode" /\ level' = 1 /\ 1..(level' - 1) = {}
      BY <1>3, <1>12, <2>2
    <3> QED
      BY <1>1, <1>2, <1>11, <1>12, <2>2, <3>1 DEF Stages, ImageStages, HasSwizzled
  <2> QED
    BY <1>12, <2>1, <2>2
<1>15. Passed'
  BY <1>1, <1>12 DEF IInv, Passed
<1> QED
  BY <1>11, <1>14, <1>15 DEF IInv


(* At the last level, a fault has been met or the call has none.           *)
LEMMA SurvivesFacts ==
  ASSUME NEW fault, Survives(fault), Levels = N, level = N, N \in Nat
  PROVE  call.fault # fault
<1>1. (level + 1)..Levels = {}
  OBVIOUS
<1> QED
  BY <1>1 DEF Survives

(* A payload is written, or the call is refused with a part of it.         *)
LEMMA EncodeKeeps ==
  ASSUME IInv, Encode
  PROVE  IInv' /\ (Going \/ Stopped)
<1> DEFINE old == Slot("payloads")
           n == Picture.len
           c == Content(Picture)
           payload == EnsureLen(old, n)
           Encoded(k) == IF c[k] = PictureCell(k) THEN Cell(call.name, "payload", level, k) ELSE Garbage
           With(k) == Written(AfterEnsureLen(old, n), payload, 0, [j \in 1..k |-> Encoded(j)])
           cells == Run(call.name, "payload", level, Size)
           m == Written(AfterEnsureLen(old, n), payload, 0, cells)
<1>1. /\ pc = "encode"
      /\ \/ /\ call.fault = "encode"
            /\ Fail(With(n - 1))
         \/ /\ Survives("encode")
            /\ Fill("payloads", payload, With(n))
            /\ NextLevel("header")
            /\ UNCHANGED <<call, blocks, sent, outcome>>
  BY DEF Encode
<1>2. /\ Types /\ Memory /\ MemoryHolds(mem) /\ SlotsApart /\ call.kind = "image"
      /\ IF call.swizzle THEN HasSwizzled ELSE HasMips
      /\ encoder.payloads.len = N /\ \A l \in 1..(level - 1) : Holds("payloads", "payload", l)
  BY <1>1 DEF IInv, Memory, Stages, ImageStages
<1>3. /\ level \in 1..N /\ N \in Nat /\ call \in Calls /\ level \in Places("payloads")
      /\ old = SlotOf("payloads", level) /\ Size = call.sizes[level] /\ Size \in Nat \ {0}
  BY <1>1, <1>2, PlaceFacts, SlotNamesFacts
<1>4. Levels = N /\ pc \in Loops /\ After = "header"
  BY <1>1, <1>2 DEF Levels, Loops, After, HasMips, HasSwizzled
<1>5. HasRoom(mem) /\ MemoryOK(mem) /\ Valid(mem, old)
  <2>1. level <= N /\ N \in Nat \ {0} /\ HeldBefore \in Nat
    BY <1>3, CallFacts
  <2>2. MadeBefore = HeldBefore + 2 * N + (level - 1)
    BY <1>1 DEF MadeBefore
  <2>3. MadeBefore \in Nat /\ MadeBefore < HeldBefore + 4 * N
    BY <1>3, <2>1, <2>2
  <2> QED
    BY <1>2, <1>3, <2>3, EncoderRoom, SlotNamesFacts DEF MemoryHolds
<1>6. n = Size /\ [j \in 1..n |-> Encoded(j)] = cells
  <2> DEFINE part == IF call.swizzle THEN "swizzled" ELSE "mip"
  <2>1. n = Size /\ c = Run(call.name, part, level, Size)
    <3>1. CASE call.swizzle
      <4>1. Slot("swizzledMips") = SlotOf("swizzledMips", level) /\ Holds("swizzledMips", "swizzled", level)
        BY <1>1, <1>2, <1>3, <3>1, PlaceFacts, SlotNamesFacts DEF HasSwizzled
      <4> QED
        BY <1>3, <3>1, <4>1 DEF Picture, Holds, Content, ContentIn
    <3>2. CASE ~call.swizzle
      <4>1. Slot("mips") = SlotOf("mips", level) /\ Holds("mips", "mip", level)
        BY <1>1, <1>2, <1>3, <3>2, PlaceFacts, SlotNamesFacts DEF HasMips
      <4> QED
        BY <1>3, <3>2, <4>1 DEF Picture, Holds, Content, ContentIn
    <3> QED
      BY <3>1, <3>2
  <2>2. \A k : PictureCell(k) = Cell(call.name, part, level, k)
    BY DEF PictureCell
  <2> HIDE DEF c, n, part
  <2>3. [j \in 1..Size |-> IF c[j] = Cell(call.name, part, level, j)
                             THEN Cell(call.name, "payload", level, j) ELSE Garbage] = cells
    BY <1>3, <2>1, MadeFromPart
  <2> QED
    BY <2>1, <2>2, <2>3
<1>7. IsList(cells) /\ Len(cells) = Size
  BY <1>3, RunIsList
<1> HIDE DEF cells
<1>8. /\ Changed(mem, m, payload.at) /\ Valid(m, payload) /\ payload.len = Size /\ payload.at \in Arrays
      /\ payload.at = old.at \/ payload.at \notin Used(mem)
      /\ ContentIn(m, payload) = cells
  <2> HIDE DEF n, old
  <2> QED
    BY <1>3, <1>5, <1>6, <1>7, RewriteFacts
<1>9. ForSlot("payloads", level, payload.at)
  BY <1>3, <1>8 DEF ForSlot
<1>10. CASE call.fault = "encode" /\ Fail(With(n - 1))
  <2> DEFINE r == [j \in 1..(n - 1) |-> Encoded(j)]
  <2>1. IsList(r)
    <3>1. r = [j \in 1..(n - 1) |-> r[j]] /\ n - 1 \in Nat
      BY <1>3, <1>6
    <3> HIDE DEF r, n
    <3> QED
      BY <3>1, ListFacts
  <2>2. Changed(mem, With(n - 1), payload.at)
    <3> HIDE DEF r, n, old
    <3>1. Changed(mem, Written(AfterEnsureLen(old, n), payload, 0, r), payload.at)
      BY <1>3, <1>5, <1>6, <2>1, RewriteFacts
    <3> QED
      BY <3>1 DEF r
  <2> HIDE DEF r, n, old, payload, With
  <2>3. Refused(call)
    BY <1>10 DEF Refused
  <2> QED
    BY <1>1, <1>3, <1>9, <1>10, <2>2, <2>3, FailKeeps, SlotNamesFacts
<1>11. CASE /\ Survives("encode")
            /\ Fill("payloads", payload, With(n))
            /\ NextLevel("header")
            /\ UNCHANGED <<call, blocks, sent, outcome>>
  <2>1. Fill("payloads", payload, m)
    BY <1>6, <1>11
  <2> HIDE DEF n, old, payload, With, m
  <2>2. /\ Types' /\ Memory' /\ SlotsApart' /\ Going
        /\ Replaced("payloads", level, payload) /\ ElsewhereSame("payloads", level)
        /\ \A l \in 1..level : Holds("payloads", "payload", l)'
    <3>1. ContentIn(m, payload) = Run(call.name, "payload", level, call.sizes[level])
      BY <1>3, <1>8 DEF cells
    <3> QED
      BY <1>1, <1>2, <1>3, <1>4, <1>8, <1>9, <1>11, <2>1, <3>1, LoopFills, SlotNamesFacts
  <2>3. /\ N' = N /\ encoder'.payloads.len = N
        /\ \A s \in SlotNames : encoder'[s].len = encoder[s].len
        /\ \/ level < N /\ pc' = "encode" /\ level' = level + 1
           \/ level = N /\ pc' = "header" /\ level' = 1
    BY <1>1, <1>2, <1>4, <1>11, <2>2, LoopFacts, SlotNamesFacts DEF Replaced
  <2>4. IF call.swizzle THEN HasSwizzled' ELSE HasMips'
    <3>1. CASE call.swizzle
      <4>1. 1..N \subseteq Places("swizzledMips")
        BY <1>1, <1>2, <3>1, PlaceFacts, SlotNamesFacts DEF HasSwizzled
      <4>2. \A l \in 1..N : Holds("swizzledMips", "swizzled", l)'
        BY <1>2, <1>11, <2>2, <3>1, <4>1, HoldsElsewhere, SlotNamesFacts DEF HasSwizzled
      <4> QED
        BY <1>2, <2>3, <3>1, <4>2, SlotNamesFacts DEF HasSwizzled
    <3>2. CASE ~call.swizzle
      <4>1. 1..N \subseteq Places("mips")
        BY <1>1, <1>2, <3>2, PlaceFacts, SlotNamesFacts DEF HasMips
      <4>2. \A l \in 1..N : Holds("mips", "mip", l)'
        BY <1>2, <1>11, <2>2, <3>2, <4>1, HoldsElsewhere, SlotNamesFacts DEF HasMips
      <4> QED
        BY <1>2, <2>3, <3>2, <4>2, SlotNamesFacts DEF HasMips
    <3> QED
      BY <3>1, <3>2
  <2>5. Stages'
    <3>1. CASE level < N
      <4>1. pc' = "encode" /\ level' - 1 = level
        BY <1>3, <2>3, <3>1
      <4> QED
        BY <1>2, <1>11, <2>2, <2>3, <2>4, <4>1 DEF Stages, ImageStages
    <3>2. CASE level = N
      <4>1. pc' = "header" /\ level' = 1
        BY <1>3, <2>3, <3>2
      <4> QED
        BY <1>2, <1>11, <2>2, <2>3, <3>2, <4>1 DEF Stages, ImageStages, HasPayloads
    <3> QED
      BY <2>3, <3>1, <3>2
  <2>6. Passed'
    <3>1. pc' = "header" => call.fault # "encode"
      BY <1>3, <1>4, <1>11, <2>3, SurvivesFacts
    <3> QED
      BY <1>1, <1>11, <2>3, <3>1 DEF IInv, Passed
  <2> QED
    BY <2>2, <2>5, <2>6 DEF IInv
<1> QED
  BY <1>1, <1>10, <1>11


(* The header is made, the slots of the blocks resized.                    *)
LEMMA MakeHeaderKeeps ==
  ASSUME IInv, MakeHeader
  PROVE  IInv' /\ (Going \/ Stopped)
<1> DEFINE slots == EnsureSlots(encoder.blockPayloads, Levels, Nil)
           kept == EnsureSlots(blocks, Levels, NoBlock)
<1>1. /\ pc = "header"
      /\ IF call.fault \in {"late", "header"}
           THEN Fail(mem)
           ELSE /\ pc' = "blocks" /\ level' = 1
                /\ blocks' = kept
                /\ encoder' = [encoder EXCEPT !.blockPayloads = slots]
                /\ UNCHANGED <<mem, call, sent, outcome>>
  BY DEF MakeHeader
<1>2. Types /\ call \in Calls /\ Memory /\ MemoryHolds(mem) /\ SlotsApart /\ HasPayloads
  BY <1>1, RunningFacts DEF IInv, Memory, Stages
<1>3. CASE call.fault \in {"late", "header"}
  <2>1. Refused(call)
    BY <1>3 DEF Refused
  <2> QED
    BY <1>1, <1>3, <2>1, PlainFailKeeps
<1>4. CASE call.fault \notin {"late", "header"}
  <2>1. /\ pc' = "blocks" /\ level' = 1 /\ blocks' = kept
        /\ encoder' = [encoder EXCEPT !.blockPayloads = slots]
        /\ UNCHANGED <<mem, call, sent, outcome>>
    BY <1>1, <1>4
  <2>2. Levels = N /\ N \in Nat \ {0} /\ N <= MaxLevels /\ MaxLevels \in Nat
    BY <1>1, <1>2, CallFacts DEF Levels, HasPayloads, N
  <2>3. Fitted(slots, "blockPayloads", N)
    BY <1>2, <2>2, FittedFacts, SlotNamesFacts
  <2>4. NoBlock \in BlockType /\ NoBlock.data = Nil
    BY ArrayFacts DEF NoBlock, BlockType, COPY, LZ4
  <2>5. kept \in [slots : Seq(BlockType), len : Nat] /\ Ensured(kept, blocks, N, NoBlock)
    <3>1. blocks \in [slots : Seq(BlockType), len : Nat] /\ blocks.len <= Len(blocks.slots)
      BY <1>2 DEF Types
    <3> QED
      BY <2>2, <2>4, <3>1, EnsureSlotsFacts
  <2> HIDE DEF slots, kept
  <2>6. /\ encoder' = [s \in SlotNames |-> encoder'[s]]
        /\ encoder'.blockPayloads = slots
        /\ \A s \in SlotNames : s # "blockPayloads" => encoder'[s] = encoder[s]
    BY <1>2, <2>1, SlotNamesFacts DEF Types
  <2>7. SlotsResized
    <3>1. \A s \in SlotNames : encoder'[s] = encoder[s] \/ Fitted(encoder'[s], s, N)
      BY <2>3, <2>6
    <3> QED
      BY <2>2, <2>6, <3>1 DEF SlotsResized
  <2>8. BlocksResized
    <3>1. blocks'.len <= Len(blocks'.slots) /\ Len(blocks'.slots) <= MaxLevels
      BY <1>2, <2>1, <2>2, <2>5 DEF Ensured, Types
    <3>2. TypedBlocks'
      BY <2>1, <2>5, <3>1 DEF TypedBlocks
    <3>3. \A k \in 1..Len(kept.slots) :
            kept.slots[k].data = Nil \/ (k \in BlockPlaces /\ kept.slots[k].data = blocks.slots[k].data)
      BY <2>4, <2>5 DEF Ensured, BlockPlaces
    <3> QED
      BY <2>1, <3>2, <3>3 DEF BlocksResized, BlockPlaces
  <2>9. InOrder /\ TypedSlots' /\ TypedBlocks'
    BY <1>2, <2>1, <2>7, <2>8, ResizeKeeps
  <2>10. Going
    BY <1>1, <2>1 DEF Going
  <2>11. Types'
    <3>1. sent' = << >>
      BY <1>1, <1>2, <2>1 DEF Types
    <3>2. pc' \in Labels \ {"idle", "start"} /\ level' \in 1..N
      BY <2>1, <2>2 DEF Labels
    <3> QED
      BY <1>1, <1>2, <2>9, <2>10, <3>1, <3>2, StepIsTyped
  <2>12. Memory'
    <3>1. MadeBefore = HeldBefore + 3 * N /\ HeldBefore \in Nat
      BY <1>1, <1>2, CallFacts DEF MadeBefore
    <3>2. HeldBefore' = HeldBefore /\ N' = N
      BY <2>1 DEF HeldBefore, N
    <3>3. MadeBefore' = HeldBefore + 3 * N + (1 - 1)
      BY <2>1, <3>2 DEF MadeBefore
    <3> QED
      BY <1>2, <2>1, <2>2, <2>9, <3>1, <3>3 DEF Memory, InOrder
  <2>13. Stages'
    <3>1. N' = N /\ 1..(level' - 1) = {}
      BY <2>1 DEF N
    <3>2. HasPayloads'
      BY <1>2, <2>1, <2>6, <3>1, SlotNamesFacts DEF HasPayloads, Holds, SlotOf
    <3>3. HasBlocks'
      BY <2>1, <2>3, <2>5, <2>6, <3>1 DEF HasBlocks, Fitted, Ensured
    <3> QED
      BY <2>1, <3>1, <3>2, <3>3 DEF Stages, ImageStages
  <2>14. Passed'
    <3>1. N' = N
      BY <2>1 DEF N
    <3> QED
      BY <1>1, <1>2, <1>4, <2>1, <3>1, CallFacts DEF IInv, Passed
  <2> QED
    BY <2>9, <2>10, <2>11, <2>12, <2>13, <2>14 DEF IInv, InOrder
<1> QED
  BY <1>3, <1>4

-----------------------------------------------------------------------------
(* The blocks                                                              *)

(* What the loop over the blocks finds: the payload of the level, apart    *)
(* from the slot for its compressed form.                                  *)
LEMMA DataFacts ==
  ASSUME IInv, pc = "blocks"
  PROVE  /\ Types /\ MemoryHolds(mem) /\ MemoryOK(mem) /\ SlotsApart /\ HasPayloads /\ HasBlocks
         /\ call \in Calls /\ Levels = N /\ N \in Nat \ {0} /\ level \in 1..N
         /\ 1..N \subseteq Places("blockPayloads") /\ 1..N \subseteq BlockPlaces
         /\ Slot("blockPayloads") = SlotOf("blockPayloads", level)
         /\ Valid(mem, Slot("blockPayloads"))
         /\ Size = call.sizes[level] /\ Size \in Nat \ {0}
         /\ Data = DataOf(level) /\ Valid(mem, Data) /\ Data.len = Size
         /\ ContentIn(mem, Data) = Run(Source(call), "payload", level, Size)
         /\ HasRoom(mem)
<1>1. /\ Types /\ Memory /\ MemoryHolds(mem) /\ MemoryOK(mem) /\ SlotsApart /\ HasPayloads /\ HasBlocks
      /\ call \in Calls
  BY RunningFacts DEF IInv, Memory, MemoryHolds, Stages
<1>2. /\ N \in Nat \ {0} /\ level \in 1..N /\ 1..N \subseteq Places("blockPayloads")
      /\ Slot("blockPayloads") = SlotOf("blockPayloads", level)
      /\ Size = call.sizes[level] /\ Size \in Nat \ {0}
  BY <1>1, PlaceFacts, SlotNamesFacts DEF HasBlocks
<1>3. 1..N \subseteq BlockPlaces
  <2>1. Len(blocks.slots) \in Nat /\ N <= Len(blocks.slots)
    BY <1>1, BlockFacts DEF HasBlocks, Types
  <2> QED
    BY <1>2, <2>1 DEF BlockPlaces
<1>4. Levels = N
  BY <1>1 DEF Levels, HasPayloads, N
<1>5. Valid(mem, Slot("blockPayloads"))
  BY <1>1, <1>2, SlotNamesFacts DEF MemoryHolds
<1>6. /\ Data = DataOf(level) /\ Valid(mem, Data) /\ Data.len = Size
      /\ ContentIn(mem, Data) = Run(Source(call), "payload", level, Size)
  <2>1. CASE call.kind = "image"
    <3>1. 1..N \subseteq Places("payloads") /\ Holds("payloads", "payload", level)
      BY <1>1, <1>2, <2>1, PlaceFacts, SlotNamesFacts DEF HasPayloads
    <3>2. Data = SlotOf("payloads", level) /\ DataOf(level) = SlotOf("payloads", level)
      BY <2>1 DEF Data, DataOf, Slot, SlotOf
    <3>3. Valid(mem, Data)
      BY <1>1, <1>2, <3>1, <3>2, SlotNamesFacts DEF MemoryHolds
    <3> QED
      BY <1>2, <2>1, <3>1, <3>2, <3>3 DEF Holds, Source
  <2>2. CASE call.kind # "image"
    <3>1. call.kind = "blocks" /\ level \in CallerArrays /\ call.sizes[level] = CallerSizes[level]
      BY <1>1, <1>2, <2>2, CallFacts, CallerFacts DEF CallerArrays
    <3>2. /\ Data = CallerSlice(level) /\ DataOf(level) = CallerSlice(level)
          /\ CallerSlice(level).len = CallerSizes[level]
      BY <2>2, <3>1, CallerFacts DEF Data, DataOf
    <3> QED
      BY <1>1, <1>2, <2>2, <3>1, <3>2 DEF MemoryHolds, Source
  <2> QED
    BY <2>1, <2>2
<1>7. HasRoom(mem)
  <2>1. level <= N /\ N \in Nat \ {0} /\ HeldBefore \in Nat
    BY <1>1, <1>2, CallFacts
  <2>2. MadeBefore = HeldBefore + 3 * N + (level - 1)
    BY DEF MadeBefore
  <2>3. MadeBefore \in Nat /\ MadeBefore < HeldBefore + 4 * N
    BY <1>2, <2>1, <2>2
  <2> QED
    BY <1>1, <2>3, EncoderRoom
<1> QED
  BY <1>1, <1>2, <1>3, <1>4, <1>5, <1>6, <1>7

(* A payload has the size of its level but where the call is to be         *)
(* refused for that.                                                       *)
LEMMA MismatchKeeps ==
  ASSUME IInv, Mismatch
  PROVE  IInv' /\ Stopped
<1>1. pc = "blocks" /\ Fail(mem) /\ (call.fault = "sizes" \/ Data.len # Size)
  BY DEF Mismatch
<1>2. Refused(call)
  BY <1>1, DataFacts DEF Refused
<1> QED
  BY <1>1, <1>2, PlainFailKeeps


(* The blocks when that of the level has been replaced.                    *)
BlockReplaced(b) ==
  /\ TypedBlocks' /\ blocks'.len = blocks.len /\ Len(blocks'.slots) = Len(blocks.slots)
  /\ \A k \in BlockPlaces : blocks'.slots[k] = IF k = level THEN b ELSE blocks.slots[k]

(* A block that is kept replaces one, and no other.                        *)
LEMMA BlockReplacedFacts ==
  ASSUME Types, level \in BlockPlaces, NEW b \in BlockType, blocks' = [blocks EXCEPT !.slots[level] = b]
  PROVE  BlockReplaced(b)
<1> DEFINE old == blocks.slots
           new == [old EXCEPT ![level] = b]
<1>1. old \in Seq(BlockType) /\ DOMAIN old = BlockPlaces /\ blocks \in [slots : Seq(BlockType), len : Nat]
  BY BlockFacts DEF Types
<1>2. new \in Seq(BlockType) /\ Len(new) = Len(old)
  BY <1>1
<1>3. \A k \in BlockPlaces : new[k] = IF k = level THEN b ELSE old[k]
  BY <1>1
<1>4. blocks' = [blocks EXCEPT !.slots = new]
  OBVIOUS
<1> HIDE DEF new
<1>5. blocks'.slots = new /\ blocks'.len = blocks.len /\ blocks' \in [slots : Seq(BlockType), len : Nat]
  BY <1>1, <1>2, <1>4
<1>6. TypedBlocks'
  BY <1>2, <1>5 DEF TypedBlocks, Types
<1> QED
  BY <1>2, <1>3, <1>5, <1>6 DEF BlockReplaced

(* A slot that is left as it was.                                          *)
LEMMA SameSlotFacts ==
  ASSUME Types, MemoryHolds(mem), SlotsApart, NEW s \in SlotNames, level \in Places(s),
         Fill(s, SlotOf(s, level), mem), BlocksHold(mem)
  PROVE  mem' = mem /\ InOrder /\ Replaced(s, level, SlotOf(s, level)) /\ ElsewhereSame(s, level)
<1>1. mem' = mem
  BY DEF Fill
<1>2. SlotOf(s, level) \in Slice
  BY SlotFacts
<1>3. Replaced(s, level, SlotOf(s, level))
  BY <1>2, ReplacedFacts
<1>4. \A u \in SlotNames : Places(u)' = Places(u)
  BY <1>3 DEF Places, Replaced
<1>5. \A u \in SlotNames : \A j \in Places(u) : SlotOf(u, j)' = SlotOf(u, j)
  BY <1>3 DEF Replaced, SlotOf
<1>6. ElsewhereSame(s, level)
  BY <1>1, <1>5 DEF ElsewhereSame, SlotOf
<1>7. MemoryHolds(mem)'
  <2>1. \A u \in SlotNames : \A j \in Places(u)' :
          Valid(mem, SlotOf(u, j)') /\ SlotOf(u, j)'.at \notin CallerArrays
    BY <1>4, <1>5 DEF MemoryHolds
  <2>2. \A j \in BlockPlaces' : Valid(mem, blocks'.slots[j].data)
    BY DEF BlocksHold, BlockPlaces
  <2> QED
    BY <1>1, <2>1, <2>2 DEF MemoryHolds
<1>8. SlotsApart'
  BY <1>4, <1>5 DEF SlotsApart
<1> QED
  BY <1>1, <1>3, <1>6, <1>7, <1>8, UsedFinite DEF InOrder

(* The block of the level is one that the call may write.                  *)
GoodBlock(magic, data, slot) ==
  \/ magic = COPY /\ data = DataOf(level)
  \/ /\ magic = LZ4 /\ data = slot
     /\ call.compress /\ Size >= MinCompress
     /\ slot.len \in 1..Size
     /\ ContentIn(mem', slot) = Run(Source(call), "chunk", level, slot.len)

(* The levels up to this one have their blocks.                            *)
LEMMA BlockKept ==
  ASSUME IInv, pc = "blocks", NextLevel("emit"), UNCHANGED <<call, sent, outcome>>,
         NEW magic, NEW data, NEW slot,
         InOrder, Replaced("blockPayloads", level, slot), ElsewhereSame("blockPayloads", level),
         BlockReplaced([magic |-> magic, data |-> data, raw |-> Size]), GoodBlock(magic, data, slot),
         level = N => call.fault = "none",
         level < N /\ call.fault = "compress" => \E l \in (level + 1)..N : call.sizes[l] >= MinCompress
  PROVE  IInv' /\ Going
<1> DEFINE s == "blockPayloads"
           b == [magic |-> magic, data |-> data, raw |-> Size]
<1>1. /\ Types /\ HasPayloads /\ HasBlocks /\ call \in Calls
      /\ Levels = N /\ N \in Nat \ {0} /\ level \in 1..N
      /\ 1..N \subseteq Places(s) /\ 1..N \subseteq BlockPlaces
      /\ Size = call.sizes[level]
  BY DataFacts
<1>2. pc \in Loops /\ After = "emit"
  BY DEF Loops, After
<1>3. Types' /\ Memory' /\ SlotsApart' /\ Going
  BY <1>1, <1>2, LoopKeeps DEF BlockReplaced
<1>4. /\ N' = N
      /\ \/ level < N /\ pc' = "blocks" /\ level' = level + 1
         \/ level = N /\ pc' = "emit" /\ level' = 1
  BY <1>1, <1>2, LoopFacts
<1>5. HasPayloads'
  <2>1. SUFFICES ASSUME call.kind = "image"
                 PROVE  encoder'.payloads.len = N /\ \A l \in 1..N : Holds("payloads", "payload", l)'
    BY <1>4 DEF HasPayloads
  <2>2. encoder.payloads.len = N /\ 1..N \subseteq Places("payloads")
    BY <1>1, <2>1, PlaceFacts, SlotNamesFacts DEF HasPayloads
  <2>3. encoder'.payloads.len = N
    BY <2>2, SlotNamesFacts DEF Replaced
  <2>4. \A l \in 1..N : Holds("payloads", "payload", l)'
    BY <1>1, <2>1, <2>2, HoldsElsewhere, SlotNamesFacts DEF HasPayloads
  <2> QED
    BY <2>3, <2>4
<1>6. HasBlocks'
  BY <1>1, <1>4, SlotNamesFacts DEF HasBlocks, Replaced, BlockReplaced
<1>7. \A l \in 1..N : DataOf(l)' = DataOf(l)
  <2>1. CASE call.kind = "image"
    <3>1. 1..N \subseteq Places("payloads")
      BY <1>1, <2>1, PlaceFacts, SlotNamesFacts DEF HasPayloads
    <3> QED
      BY <2>1, <3>1, SlotNamesFacts DEF DataOf, SlotOf, ElsewhereSame
  <2>2. CASE call.kind # "image"
    BY <2>2 DEF DataOf, CallerSlice
  <2> QED
    BY <2>1, <2>2
<1>8. ASSUME NEW l \in 1..(level - 1), BlockDone(l) PROVE BlockDone(l)'
  <2>1. l \in 1..N /\ l # level
    BY <1>1
  <2>2. blocks'.slots[l] = blocks.slots[l]
    BY <1>1, <2>1 DEF BlockReplaced
  <2>3. /\ encoder'[s].slots[l] = SlotOf(s, l)
        /\ ContentIn(mem', SlotOf(s, l)) = ContentIn(mem, SlotOf(s, l))
    BY <1>1, <2>1, SlotNamesFacts DEF ElsewhereSame
  <2>4. BlockStored(l) => BlockStored(l)'
    BY <1>7, <2>1, <2>2 DEF BlockStored
  <2>5. BlockCompressed(l) => BlockCompressed(l)'
    <3>1. SlotOf(s, l)' = SlotOf(s, l) /\ Source(call)' = Source(call)
      BY <2>3 DEF SlotOf, Source
    <3> QED
      BY <2>2, <2>3, <3>1 DEF BlockCompressed
  <2> QED
    BY <1>8, <2>2, <2>4, <2>5 DEF BlockDone
<1>9. ASSUME NEW l \in 1..N, l = level PROVE BlockDone(l)'
  <2>1. blocks'.slots[l] = b /\ encoder'[s].slots[l] = slot
    BY <1>1, <1>9, SlotNamesFacts DEF BlockReplaced, Replaced
  <2>2. blocks'.slots[l].magic = magic /\ blocks'.slots[l].data = data /\ blocks'.slots[l].raw = Size
    BY <2>1
  <2>3. blocks'.slots[l].raw = call'.sizes[l] /\ SlotOf(s, l)' = slot /\ Source(call)' = Source(call)
    BY <1>1, <1>9, <2>1, <2>2 DEF SlotOf, Source
  <2> HIDE DEF b
  <2>4. CASE magic = COPY /\ data = DataOf(level)
    <3>1. BlockStored(l)'
      BY <1>7, <1>9, <2>2, <2>4 DEF BlockStored
    <3> QED
      BY <2>3, <3>1 DEF BlockDone
  <2>5. CASE ~(magic = COPY /\ data = DataOf(level))
    <3>1. /\ magic = LZ4 /\ data = slot /\ call.compress /\ call.sizes[l] >= MinCompress
          /\ slot.len \in 1..call.sizes[l]
          /\ ContentIn(mem', slot) = Run(Source(call), "chunk", l, slot.len)
      BY <1>1, <1>9, <2>5 DEF GoodBlock
    <3>2. BlockCompressed(l)'
      BY <2>2, <2>3, <3>1 DEF BlockCompressed
    <3> QED
      BY <2>3, <3>2 DEF BlockDone
  <2> QED
    BY <2>4, <2>5
<1>10. \A l \in 1..level : BlockDone(l)'
  <2>1. \A l \in 1..(level - 1) : BlockDone(l)
    BY DEF IInv, Stages
  <2>2. \A l \in 1..level : l = level \/ l \in 1..(level - 1)
    BY <1>1
  <2>3. \A l \in 1..level : l \in 1..N
    BY <1>1
  <2> QED
    BY <1>8, <1>9, <2>1, <2>2, <2>3
<1>11. Stages'
  <2>1. CASE level < N
    <3>1. pc' = "blocks" /\ level' - 1 = level
      BY <1>1, <1>4, <2>1
    <3> QED
      BY <1>4, <1>5, <1>6, <1>10, <3>1 DEF Stages, ImageStages
  <2>2. CASE level = N
    <3>1. pc' = "emit" /\ level' = 1
      BY <1>1, <1>4, <2>2
    <3> QED
      BY <1>4, <1>5, <1>6, <1>10, <2>2, <3>1 DEF Stages, ImageStages
  <2> QED
    BY <1>4, <2>1, <2>2
<1>12. Passed'
  BY <1>1, <1>4 DEF IInv, Passed
<1> QED
  BY <1>3, <1>11, <1>12 DEF IInv


(* The slot is left as it is, or its array is written to or is a new one.  *)
LEMMA KeepFacts ==
  ASSUME IInv, pc = "blocks", NEW magic \in {COPY, LZ4}, NEW data, NEW slot, NEW m,
         Keep(magic, data, slot, m), Valid(m, data),
         \/ slot = SlotOf("blockPayloads", level) /\ m = mem
         \/ ForSlot("blockPayloads", level, slot.at) /\ Changed(mem, m, slot.at) /\ Valid(m, slot)
  PROVE  /\ mem' = m /\ InOrder
         /\ Replaced("blockPayloads", level, slot) /\ ElsewhereSame("blockPayloads", level)
         /\ BlockReplaced([magic |-> magic, data |-> data, raw |-> Size])
         /\ NextLevel("emit") /\ UNCHANGED <<call, sent, outcome>>
<1> DEFINE b == [magic |-> magic, data |-> data, raw |-> Size]
<1>1. /\ blocks' = [blocks EXCEPT !.slots[level] = b]
      /\ Fill("blockPayloads", slot, m) /\ NextLevel("emit") /\ UNCHANGED <<call, sent, outcome>>
  BY DEF Keep
<1>2. /\ Types /\ MemoryHolds(mem) /\ SlotsApart /\ level \in Places("blockPayloads") /\ level \in BlockPlaces
      /\ Size \in Nat
  BY DataFacts
<1>3. b \in BlockType
  BY <1>2 DEF BlockType, Valid
<1>4. b.data = data
  OBVIOUS
<1> HIDE DEF b
<1>5. BlockReplaced(b)
  BY <1>1, <1>2, <1>3, BlockReplacedFacts
<1>6. \A x : Valid(mem, x) => Valid(m, x)
  BY <1>2, ChangedFacts DEF ForSlot, MemoryHolds
<1>7. BlocksHold(m)
  BY <1>2, <1>4, <1>5, <1>6 DEF BlocksHold, BlockReplaced, MemoryHolds, BlockPlaces
<1>8. CASE slot = SlotOf("blockPayloads", level) /\ m = mem
  BY <1>1, <1>2, <1>5, <1>7, <1>8, SameSlotFacts, SlotNamesFacts DEF b
<1>9. CASE ForSlot("blockPayloads", level, slot.at) /\ Changed(mem, m, slot.at) /\ Valid(m, slot)
  <2>1. slot \in Slice
    BY <1>9 DEF Valid
  <2> QED
    BY <1>1, <1>2, <1>5, <1>7, <1>9, <2>1, FillFacts, SlotNamesFacts DEF b
<1> QED
  BY <1>8, <1>9

(* A fault that has not been met at the last level is no fault.            *)
LEMMA FaultFacts ==
  ASSUME IInv, pc = "blocks", Survives("sizes"),
         Survives("compress") \/ ~call.compress \/ Size < MinCompress
  PROVE  /\ level = N => call.fault = "none"
         /\ level < N /\ call.fault = "compress" => \E l \in (level + 1)..N : call.sizes[l] >= MinCompress
<1>1. /\ call \in Calls /\ Levels = N /\ N \in Nat \ {0} /\ level \in 1..N /\ Size = call.sizes[level]
  BY DataFacts
<1>2. /\ call.fault \in Faults
      /\ call.fault = "compress" => call.compress
      /\ DOMAIN call.sizes = 1..N /\ \A l \in 1..N : call.sizes[l] \in Nat
  BY <1>1, CallFacts
<1>3. /\ call.fault \notin {"options", "encode", "late", "header"}
      /\ call.fault = "compress" => \E l \in level..N : call.sizes[l] >= MinCompress
  BY DEF IInv, Passed
<1>4. call.fault = "compress" => \E l \in (level + 1)..N : call.sizes[l] >= MinCompress
  <2> SUFFICES ASSUME call.fault = "compress"
               PROVE  \E l \in (level + 1)..N : call.sizes[l] >= MinCompress
    OBVIOUS
  <2>1. CASE Survives("compress")
    <3>1. \E l \in (level + 1)..N : SizeAt(l) >= MinCompress
      BY <1>1, <2>1 DEF Survives
    <3>2. \A l \in (level + 1)..N : SizeAt(l) = call.sizes[l]
      BY <1>1, <1>2 DEF SizeAt
    <3> QED
      BY <3>1, <3>2
  <2>2. CASE ~call.compress \/ Size < MinCompress
    <3>1. PICK l \in level..N : call.sizes[l] >= MinCompress
      BY <1>3
    <3>2. l # level
      BY <1>1, <1>2, <2>2, <3>1, CompressAssumption
    <3> QED
      BY <1>1, <3>1, <3>2
  <2> QED
    BY <2>1, <2>2
<1>5. level = N => call.fault # "sizes"
  BY <1>1, SurvivesFacts
<1>6. level = N => call.fault # "compress"
  <2>1. level = N => (level + 1)..N = {}
    BY <1>1
  <2> QED
    BY <1>4, <2>1
<1>7. level = N => call.fault = "none"
  BY <1>2, <1>3, <1>5, <1>6 DEF Faults
<1> QED
  BY <1>4, <1>7

(* A COPY block is the payload; its slot stays as it is.                   *)
LEMMA StoreBlockKeeps ==
  ASSUME IInv, StoreBlock
  PROVE  IInv' /\ Going
<1> DEFINE slot == Slot("blockPayloads")
<1>1. /\ pc = "blocks" /\ Survives("sizes") /\ (~call.compress \/ Size < MinCompress)
      /\ Keep(COPY, Data, slot, mem)
  BY DEF StoreBlock, Building
<1>2. slot = SlotOf("blockPayloads", level) /\ Valid(mem, Data) /\ Data = DataOf(level)
  BY <1>1, DataFacts
<1> HIDE DEF slot
<1>3. /\ InOrder /\ Replaced("blockPayloads", level, slot) /\ ElsewhereSame("blockPayloads", level)
      /\ BlockReplaced([magic |-> COPY, data |-> Data, raw |-> Size])
      /\ NextLevel("emit") /\ UNCHANGED <<call, sent, outcome>>
  BY <1>1, <1>2, KeepFacts
<1>4. GoodBlock(COPY, Data, slot)
  BY <1>2 DEF GoodBlock
<1> QED
  BY <1>1, <1>3, <1>4, FaultFacts, BlockKept

(* A stream in the slot or in an array made for it.                        *)
LEMMA StreamFacts ==
  ASSUME IInv, pc = "blocks", NEW s \in 0..Size
  PROVE  /\ ForSlot("blockPayloads", level, Stream(s).at)
         /\ Changed(mem, AfterStream(s), Stream(s).at) /\ Valid(AfterStream(s), Stream(s))
         /\ Stream(s).len = s
         /\ ContentIn(AfterStream(s), Stream(s)) = Run(Source(call), "chunk", level, s)
<1> DEFINE slot == Slot("blockPayloads")
           c == Content(Data)
           t == Stream(s)
           capacity == IF s > Capacity(Size) THEN s ELSE Capacity(Size)
           before == IF t.at = slot.at THEN mem ELSE AfterMake(capacity)
           cells == Run(Source(call), "chunk", level, s)
<1>1. /\ slot = SlotOf("blockPayloads", level) /\ Valid(mem, slot) /\ MemoryOK(mem) /\ HasRoom(mem)
      /\ Size \in Nat \ {0} /\ c = Run(Source(call), "payload", level, Size)
  BY DataFacts DEF Content, ContentIn
<1>2. s \in Nat /\ Capacity(Size) \in Nat \ {0}
  <2>1. Size \div 2 \in Nat /\ Overhead \in Nat \ {0}
    BY <1>1, CompressAssumption
  <2> QED
    BY <1>1, <2>1 DEF Capacity
<1>3. AfterStream(s) = Written(before, t, 0, cells)
  <2>1. c[1] = Cell(Source(call), "payload", level, 1) /\ c[1].of = Source(call)
    BY <1>1 DEF Run, Cell
  <2>2. AfterStream(s) =
          Written(before, t, 0, [k \in 1..s |->
            IF c[1] = Cell(c[1].of, "payload", level, 1) THEN Cell(c[1].of, "chunk", level, k) ELSE Garbage])
    BY DEF AfterStream
  <2> HIDE DEF c, before, t
  <2>3. [k \in 1..s |-> IF c[1] = Cell(c[1].of, "payload", level, 1)
                          THEN Cell(c[1].of, "chunk", level, k) ELSE Garbage] = cells
    BY <2>1 DEF Run
  <2> QED
    BY <2>2, <2>3
<1>4. IsList(cells) /\ Len(cells) = s
  BY <1>2, RunIsList
<1>5. t = IF Roomy /\ Cap(slot) >= s THEN [slot EXCEPT !.len = s] ELSE Made(s)
  BY DEF Stream
<1>6. slot.at # 0 => slot.at \in Used(mem) /\ Cap(slot) = Len(mem[slot.at]) /\ slot.at \in Arrays
  BY <1>1 DEF Valid, Cap, Cells, Used
<1>7. slot.at = 0 => Cap(slot) = 0
  BY DEF Cap, Cells
<1> HIDE DEF c, cells
<1>8. CASE Roomy /\ Cap(slot) >= s
  <2>1. slot.at # 0
    BY <1>2, <1>7, <1>8 DEF Roomy
  <2>2. t.at = slot.at /\ t.len = s /\ t \in Slice /\ t = [slot EXCEPT !.len = s]
    <3>1. slot \in Slice /\ t = [slot EXCEPT !.len = s]
      BY <1>1, <1>5, <1>8 DEF Valid
    <3> HIDE DEF slot, t
    <3> QED
      BY <1>2, <3>1 DEF Slice
  <2>3. before = mem
    BY <2>2
  <2> HIDE DEF slot, t, before
  <2>4. Valid(mem, t) /\ t.at \in Arrays
    BY <1>6, <1>8, <2>1, <2>2 DEF Valid
  <2>5. Changed(mem, AfterStream(s), t.at) /\ Valid(AfterStream(s), t) /\ ContentIn(AfterStream(s), t) = cells
    <3>1. AfterStream(s) = Written(mem, t, 0, cells) /\ Len(cells) = t.len
      BY <1>3, <1>4, <2>2, <2>3
    <3> QED
      BY <1>1, <1>4, <2>4, <3>1, OverwriteFacts
  <2>6. ForSlot("blockPayloads", level, t.at)
    BY <1>1, <2>2, <2>4 DEF ForSlot
  <2> QED
    BY <2>2, <2>5, <2>6 DEF t, cells
<1>9. CASE ~(Roomy /\ Cap(slot) >= s)
  <2>1. capacity \in Nat \ {0} /\ s <= capacity
    BY <1>2
  <2>2. t = Made(s)
    BY <1>5, <1>9
  <2> HIDE DEF capacity, t, slot
  <2>3. /\ Changed(mem, AfterMake(capacity), Fresh) /\ Valid(AfterMake(capacity), t)
        /\ t.at = Fresh /\ t.len = s /\ Fresh \in Arrays /\ Fresh \notin Used(mem)
    BY <1>1, <1>2, <2>1, <2>2, MadeHolds
  <2>4. t.at # slot.at
    BY <1>6, <2>3, ArrayFacts
  <2>5. before = AfterMake(capacity)
    BY <2>4
  <2> HIDE DEF before
  <2>6. MemoryOK(before) /\ Changed(mem, before, t.at) /\ Valid(before, t) /\ t.at \in Arrays
    BY <2>3, <2>5 DEF Changed
  <2>7. /\ Changed(before, AfterStream(s), t.at)
        /\ Valid(AfterStream(s), t) /\ ContentIn(AfterStream(s), t) = cells
    BY <1>3, <1>4, <2>3, <2>6, OverwriteFacts
  <2>8. Changed(mem, AfterStream(s), t.at)
    BY <1>1, <2>6, <2>7, ChangedTwice
  <2>9. ForSlot("blockPayloads", level, t.at)
    BY <2>3 DEF ForSlot
  <2> QED
    BY <2>3, <2>7, <2>8, <2>9 DEF t, cells
<1> QED
  BY <1>8, <1>9

(* An LZ4 block has its stream in the slot of its level.                   *)
LEMMA CompressBlockKeeps ==
  ASSUME IInv, CompressBlock
  PROVE  IInv' /\ Going
<1>1. PICK s \in 1..Size : Keep(LZ4, Stream(s), Stream(s), AfterStream(s))
  BY DEF CompressBlock
<1>2. pc = "blocks" /\ Survives("sizes") /\ Survives("compress") /\ call.compress /\ Size >= MinCompress
  BY DEF CompressBlock, Compressing, Building
<1>3. Size \in Nat \ {0} /\ s \in 0..Size
  BY <1>1, <1>2, DataFacts
<1>4. /\ ForSlot("blockPayloads", level, Stream(s).at)
      /\ Changed(mem, AfterStream(s), Stream(s).at) /\ Valid(AfterStream(s), Stream(s))
      /\ Stream(s).len = s
      /\ ContentIn(AfterStream(s), Stream(s)) = Run(Source(call), "chunk", level, s)
  BY <1>2, <1>3, StreamFacts
<1>5. /\ mem' = AfterStream(s)
      /\ InOrder /\ Replaced("blockPayloads", level, Stream(s)) /\ ElsewhereSame("blockPayloads", level)
      /\ BlockReplaced([magic |-> LZ4, data |-> Stream(s), raw |-> Size])
      /\ NextLevel("emit") /\ UNCHANGED <<call, sent, outcome>>
  BY <1>1, <1>2, <1>4, KeepFacts
<1>6. GoodBlock(LZ4, Stream(s), Stream(s))
  BY <1>1, <1>2, <1>4, <1>5 DEF GoodBlock
<1> QED
  BY <1>2, <1>5, <1>6, FaultFacts, BlockKept

(* A stream that is given up stays in the slot, the block is the payload.  *)
LEMMA GiveUpKeeps ==
  ASSUME IInv, GiveUp
  PROVE  IInv' /\ Going
<1>1. PICK s \in 0..Size : Keep(COPY, Data, Stream(s), AfterStream(s))
  BY DEF GiveUp, Retained
<1>2. pc = "blocks" /\ Survives("sizes") /\ Survives("compress")
  BY DEF GiveUp, Compressing, Building
<1>3. /\ ForSlot("blockPayloads", level, Stream(s).at)
      /\ Changed(mem, AfterStream(s), Stream(s).at) /\ Valid(AfterStream(s), Stream(s))
  BY <1>2, StreamFacts
<1>4. Valid(AfterStream(s), Data) /\ Data = DataOf(level)
  BY <1>2, <1>3, DataFacts, ChangedFacts DEF ForSlot
<1>5. /\ InOrder /\ Replaced("blockPayloads", level, Stream(s)) /\ ElsewhereSame("blockPayloads", level)
      /\ BlockReplaced([magic |-> COPY, data |-> Data, raw |-> Size])
      /\ NextLevel("emit") /\ UNCHANGED <<call, sent, outcome>>
  BY <1>1, <1>2, <1>3, <1>4, KeepFacts
<1>6. GoodBlock(COPY, Data, Stream(s))
  BY <1>4 DEF GoodBlock
<1> QED
  BY <1>2, <1>5, <1>6, FaultFacts, BlockKept

(* A stream that fails has been written to the slot's array or to none.    *)
LEMMA CompressFailsKeeps ==
  ASSUME IInv, CompressFails
  PROVE  IInv' /\ Stopped
<1>1. PICK s \in 0..Size : Fail(AfterStream(s))
  BY DEF CompressFails
<1>2. pc = "blocks" /\ Refused(call)
  BY DEF CompressFails, Compressing, Building, Refused
<1>3. ForSlot("blockPayloads", level, Stream(s).at) /\ Changed(mem, AfterStream(s), Stream(s).at)
  BY <1>2, StreamFacts
<1>4. level \in Places("blockPayloads")
  BY <1>2, DataFacts
<1> QED
  BY <1>1, <1>2, <1>3, <1>4, FailKeeps, SlotNamesFacts


-----------------------------------------------------------------------------
(* The container                                                           *)

(* The writer gets what the slots hold.                                    *)
Taken == SubSeq(Output, 1, IF call.room < Len(Output) THEN call.room ELSE Len(Output))

(* What is sent is taken from the blocks as they are.                      *)
LEMMA EmitKeeps ==
  ASSUME IInv, Emit
  PROVE  IInv' /\ pc = "emit" /\ sent' = Taken /\ UNCHANGED <<call, outcome>>
<1>1. /\ pc = "emit" /\ sent' = Taken /\ pc' = "return"
      /\ UNCHANGED <<mem, call, level, encoder, blocks, outcome>>
  BY DEF Emit, Taken
<1>2. Types /\ Memory /\ SlotsApart /\ HasPayloads /\ HasBlocks /\ \A l \in 1..N : BlockDone(l)
  BY <1>1 DEF IInv, Stages
<1>3. Types'
  BY <1>1, <1>2 DEF Types, Labels, N
<1>4. N' = N /\ HeldBefore' = HeldBefore
  BY <1>1 DEF N, HeldBefore
<1>5. Memory' /\ SlotsApart'
  <2>1. MadeBefore' = MadeBefore
    BY <1>1, <1>4 DEF MadeBefore
  <2> QED
    BY <1>1, <1>2, <2>1, SameHeap DEF Memory
<1>6. Output' = Output
  <2>1. Levels' = Levels
    BY <1>1 DEF Levels
  <2> QED
    BY <1>1, <2>1 DEF Output, Content, Cells
<1>7. HasPayloads' /\ HasBlocks' /\ \A l \in 1..N : BlockDone(l)'
  BY <1>1, <1>2, <1>4
     DEF HasPayloads, HasBlocks, Holds, BlockDone, BlockStored, BlockCompressed, DataOf, SlotOf, Source
<1>8. Stages'
  BY <1>1, <1>4, <1>6, <1>7 DEF Stages, ImageStages, Taken
<1>9. Passed'
  BY <1>1 DEF IInv, Passed
<1> QED
  BY <1>1, <1>3, <1>5, <1>8, <1>9 DEF IInv

(* A call that was not refused ends.                                       *)
LEMMA ReturnKeeps ==
  ASSUME IInv, Return
  PROVE  IInv' /\ call' = None /\ sent' = << >>
<1> DEFINE what == IF Len(sent) = Len(Output) THEN "ok" ELSE "error"
<1>1. Leave(mem, what)
  BY DEF Return
<1>2. what \in {"ok", "error"}
  OBVIOUS
<1> HIDE DEF what
<1>3. Types /\ MemoryHolds(mem) /\ SlotsApart
  BY DEF IInv, Memory
<1> QED
  BY <1>1, <1>2, <1>3, LeaveKeeps

(* Nothing changes.                                                        *)
LEMMA StutterKeeps ==
  ASSUME IInv, UNCHANGED vars
  PROVE  IInv'
<1>1. UNCHANGED <<mem, pc, call, level, encoder, blocks, sent, outcome>>
  BY DEF vars
<1>2. Types' /\ Passed'
  BY <1>1 DEF IInv, Types, Passed, N
<1>3. Memory' /\ SlotsApart'
  <2>1. MadeBefore' = MadeBefore
    BY <1>1 DEF MadeBefore, HeldBefore, N
  <2> QED
    BY <1>1, <2>1, SameHeap DEF IInv, Memory
<1>4. Stages'
  <2>1. N' = N /\ Output' = Output
    <3>1. Levels' = Levels
      BY <1>1 DEF Levels
    <3> QED
      BY <1>1, <3>1 DEF N, Output, Content, Cells
  <2>2. /\ HasMips' = HasMips /\ HasSwizzled' = HasSwizzled /\ HasPayloads' = HasPayloads
        /\ HasBlocks' = HasBlocks
        /\ \A s, part, l : Holds(s, part, l)' = Holds(s, part, l)
        /\ \A l : BlockDone(l)' = BlockDone(l)
    BY <1>1, <2>1
       DEF HasMips, HasSwizzled, HasPayloads, HasBlocks, Holds, BlockDone, BlockStored, BlockCompressed,
           DataOf, SlotOf, Source
  <2> QED
    BY <1>1, <2>1, <2>2 DEF IInv, Stages
<1> QED
  BY <1>2, <1>3, <1>4 DEF IInv

(* Every step keeps the invariant.                                         *)
LEMMA StepKeeps ==
  ASSUME IInv, [Next]_vars
  PROVE  IInv'
<1>1. ASSUME NEW c \in Calls, Begin(c) PROVE IInv'
  BY <1>1, BeginKeeps
<1>2. CASE Start
  BY <1>2, StartKeeps
<1>3. CASE GenerateMip
  BY <1>3, GenerateMipKeeps
<1>4. CASE ResizeSlots
  BY <1>4, ResizeSlotsKeeps
<1>5. CASE Swizzle
  BY <1>5, SwizzleKeeps
<1>6. CASE Encode
  BY <1>6, EncodeKeeps
<1>7. CASE MakeHeader
  BY <1>7, MakeHeaderKeeps
<1>8. CASE Mismatch
  BY <1>8, MismatchKeeps
<1>9. CASE StoreBlock
  BY <1>9, StoreBlockKeeps
<1>10. CASE CompressBlock
  BY <1>10, CompressBlockKeeps
<1>11. CASE GiveUp
  BY <1>11, GiveUpKeeps
<1>12. CASE CompressFails
  BY <1>12, CompressFailsKeeps
<1>13. CASE Emit
  BY <1>13, EmitKeeps
<1>14. CASE Return
  BY <1>14, ReturnKeeps
<1>15. CASE UNCHANGED vars
  BY <1>15, StutterKeeps
<1> QED
  BY <1>1, <1>2, <1>3, <1>4, <1>5, <1>6, <1>7, <1>8, <1>9, <1>10, <1>11, <1>12, <1>13, <1>14, <1>15 DEF Next

(* The inductive invariant holds in every state.                           *)
THEOREM Invariant == Spec => []IInv
<1>1. IInv /\ [Next]_vars => IInv'
  BY StepKeeps
<1> QED
  BY <1>1, InitHolds, PTL DEF Spec

-----------------------------------------------------------------------------
(* TypeOK: no slice reaches beyond its array, and the loops over the       *)
(* blocks have a slot for every level and no more.                         *)
THEOREM Typed == Spec => []TypeOK
<1>1. ASSUME IInv PROVE TypeOK
  <2>1. Types /\ MemoryHolds(mem)
    BY <1>1 DEF IInv, Memory
  <2>2. \A s : Valid(mem, s) => s \in Slice /\ s.len <= Cap(s)
    <3> SUFFICES ASSUME NEW s, Valid(mem, s) PROVE s \in Slice /\ s.len <= Cap(s)
      OBVIOUS
    <3>1. CASE s.at = 0
      <4>1. Cells(mem, s) = << >> /\ s.len = 0 /\ s \in Slice
        BY <3>1, ArrayFacts DEF Cells, Valid
      <4> QED
        BY <4>1 DEF Cap
    <3>2. CASE s.at # 0
      BY <3>2 DEF Cap, Cells, Valid
    <3> QED
      BY <3>1, <3>2
  <2>3. \A s \in Held : Valid(mem, s)
    <3>1. ASSUME NEW t \in SlotNames, NEW s \in Range(encoder[t].slots) PROVE Valid(mem, s)
      <4>1. DOMAIN encoder[t].slots = Places(t)
        BY <2>1, SlotFacts
      <4>2. PICK k \in Places(t) : s = SlotOf(t, k)
        BY <4>1 DEF Range, SlotOf
      <4> QED
        BY <2>1, <4>2 DEF MemoryHolds
    <3>2. \A k \in DOMAIN blocks.slots : Valid(mem, blocks.slots[k].data)
      BY <2>1, BlockFacts DEF MemoryHolds
    <3> QED
      BY <3>1, <3>2 DEF Held
  <2>4. pc \in {"blocks", "emit"} => blocks.len = Levels /\ encoder.blockPayloads.len = Levels
    <3>1. pc \in {"blocks", "emit"} => HasBlocks /\ HasPayloads
      BY <1>1 DEF IInv, Stages
    <3> QED
      BY <2>1, <3>1 DEF Levels, HasBlocks, HasPayloads, N
  <2> QED
    BY <2>1, <2>2, <2>3, <2>4 DEF TypeOK, Types
<1> QED
  BY <1>1, Invariant, PTL

(* CallerPayloadsUntouched: what the caller of EncodeFromBlocks passed is  *)
(* never written to, by this call or by a later one.                       *)
THEOREM CallersPayloadsStay == Spec => []CallerPayloadsUntouched
<1>1. ASSUME IInv PROVE CallerPayloadsUntouched
  BY <1>1, CallerFacts DEF IInv, Memory, MemoryHolds, CallerPayloadsUntouched, Content, ContentIn
<1> QED
  BY <1>1, Invariant, PTL


-----------------------------------------------------------------------------
(* The refinement                                                          *)

(* What a container is made of.                                            *)
Names == {call.name, Caller, COPY, LZ4, "size"}
Parts == {"header", "entry", "raw", "payload", "chunk"}
Unit == [of : Names, part : Parts, level : Nat, value : Nat]

(* The body of a block is made of units.                                   *)
LEMMA BodyFacts ==
  ASSUME call \in Calls, NEW l \in 1..N, NEW b \in Forms(call, l)
  PROVE  Body(b, l) \in Seq(Unit) /\ b.magic \in Names /\ Len(Body(b, l)) \in Nat
<1> DEFINE n == call.sizes[l]
           src == Source(call)
<1>1. n \in Nat /\ l \in Nat
  BY CallFacts
<1>2. src \in Names
  BY DEF Source, Names
<1>3. \/ b = Block(COPY, Run(src, "payload", l, n), n)
      \/ \E s \in 1..n : b = Block(LZ4, Run(src, "chunk", l, s), n)
  BY DEF Forms
<1> HIDE DEF src, n
<1>4. ASSUME NEW part \in Parts, NEW s \in Nat PROVE Run(src, part, l, s) \in Seq(Unit)
  <2>1. \A k \in 1..s : Cell(src, part, l, k) \in Unit
    BY <1>1, <1>2 DEF Cell, Unit
  <2> QED
    BY <1>4, <2>1 DEF Run
<1>5. <<RawSize(l, n)>> \in Seq(Unit)
  <2>1. "size" \in Names /\ "raw" \in Parts
    BY DEF Names, Parts
  <2>2. RawSize(l, n) \in Unit
    BY <1>1, <2>1 DEF RawSize, Unit
  <2> QED
    BY <2>2
<1>6. PICK magic \in {COPY, LZ4}, part \in {"payload", "chunk"}, s \in Nat :
        b = Block(magic, Run(src, part, l, s), n)
  <2>1. CASE b = Block(COPY, Run(src, "payload", l, n), n)
    BY <1>1, <2>1
  <2>2. CASE \E s \in 1..n : b = Block(LZ4, Run(src, "chunk", l, s), n)
    <3>1. PICK s \in 1..n : b = Block(LZ4, Run(src, "chunk", l, s), n)
      BY <2>2
    <3>2. s \in Nat
      BY <1>1
    <3> QED
      BY <3>1, <3>2
  <2> QED
    BY <1>3, <2>1, <2>2
<1>7. b.cells \in Seq(Unit) /\ b.magic = magic /\ b.raw = n
  <2>1. part \in Parts
    BY DEF Parts
  <2> QED
    BY <1>4, <1>6, <2>1 DEF Block
<1>8. Body(b, l) \in Seq(Unit)
  <2>1. Body(b, l) = b.cells \/ Body(b, l) = <<RawSize(l, n)>> \o b.cells
    BY <1>7 DEF Body
  <2> DEFINE front == <<RawSize(l, n)>>
             rest == b.cells
  <2>2. front \in Seq(Unit) /\ rest \in Seq(Unit)
    BY <1>5, <1>7
  <2> HIDE DEF front, rest
  <2>3. front \o rest \in Seq(Unit)
    BY <2>2, ConcatFacts
  <2> QED
    BY <1>7, <2>1, <2>3 DEF front, rest
<1>9. b.magic \in Names
  BY <1>7 DEF Names
<1> QED
  BY <1>8, <1>9

(* A choice of a form for every level.                                     *)
Chosen(bs) == bs = [l \in 1..N |-> bs[l]] /\ \A l \in 1..N : bs[l] \in Forms(call, l)

(* A container names the lengths of the bodies that follow.                *)
Described(w, bs) ==
  /\ w \in Seq(Unit)
  /\ Len(w) >= 1 + N
  /\ \A l \in 1..N : w[1 + (N + 1 - l)].value = Len(Body(bs[l], l))

Bodies(bs) == [k \in 1..N |-> Body(bs[N + 1 - k], N + 1 - k)]

(* So every container is described, and ends with its bodies.              *)
LEMMA ContainerFacts ==
  ASSUME call \in Calls, NEW bs, Chosen(bs)
  PROVE  /\ Described(Container(call, bs), bs)
         /\ Bodies(bs) \in [1..N -> Seq(Unit)]
         /\ Len(Container(call, bs)) = 1 + N + Len(FlattenSeq(Bodies(bs)))
         /\ FlattenSeq(Bodies(bs)) \in Seq(Unit)
<1> DEFINE h == <<Header(call, N)>>
           e(k) == Entry(bs[N + 1 - k].magic, N + 1 - k, Len(Body(bs[N + 1 - k], N + 1 - k)))
           t == [k \in 1..N |-> e(k)]
           f == FlattenSeq(Bodies(bs))
           w == Container(call, bs)
<1>1. N \in Nat \ {0} /\ DOMAIN call.sizes = 1..N /\ call.sizes[1] \in Nat
  BY CallFacts
<1>1a. call.name \in Names /\ "header" \in Parts /\ "entry" \in Parts
  BY DEF Names, Parts
<1>2. Len(bs) = N
  BY <1>1 DEF Chosen
<1>3. \A k \in 1..N : N + 1 - k \in 1..N
  BY <1>1
<1>4. \A k \in 1..N :
        /\ Body(bs[N + 1 - k], N + 1 - k) \in Seq(Unit)
        /\ Len(Body(bs[N + 1 - k], N + 1 - k)) \in Nat
        /\ bs[N + 1 - k].magic \in Names
  BY <1>3, BodyFacts DEF Chosen
<1>5. Bodies(bs) \in [1..N -> Seq(Unit)]
  BY <1>4 DEF Bodies
<1>6. f \in Seq(Unit)
  BY <1>1, <1>5, FlattenLayout
<1>7. h \in Seq(Unit) /\ Len(h) = 1
  <2>1. Header(call, N) \in Unit
    BY <1>1, <1>1a DEF Header, Unit
  <2> QED
    BY <2>1
<1>8. t \in Seq(Unit) /\ Len(t) = N /\ \A k \in 1..N : t[k] = e(k)
  <2>1. ASSUME NEW k \in 1..N PROVE e(k) \in Unit
    <3>1. N + 1 - k \in Nat
      BY <1>1
    <3> QED
      BY <1>1a, <1>4, <3>1 DEF Entry, Unit
  <2> HIDE DEF e
  <2> QED
    BY <1>1, <2>1
<1>9. w = (h \o t) \o f
  BY <1>2 DEF Container, Bodies
<1>10. \A k \in 1..N : e(k).value = Len(Body(bs[N + 1 - k], N + 1 - k))
  BY DEF Entry
<1> HIDE DEF h, t, f, w, e
<1>11. /\ h \o t \in Seq(Unit) /\ Len(h \o t) = 1 + N
       /\ \A k \in 1..N : (h \o t)[1 + k] = t[k]
  <2>1. /\ h \o t \in Seq(Unit) /\ Len(h \o t) = Len(h) + Len(t)
        /\ \A k \in 1..Len(t) : (h \o t)[Len(h) + k] = t[k]
    <3>1. h \in Seq(Unit) /\ t \in Seq(Unit)
      BY <1>7, <1>8
    <3> QED
      BY <3>1, ConcatFacts
  <2> QED
    BY <1>7, <1>8, <2>1
<1>12. /\ w \in Seq(Unit) /\ Len(w) = 1 + N + Len(f)
       /\ \A k \in 1..(1 + N) : w[k] = (h \o t)[k]
  <2> DEFINE g == h \o t
  <2>1. g \in Seq(Unit) /\ Len(g) = 1 + N /\ w = g \o f
    BY <1>9, <1>11
  <2> HIDE DEF g
  <2>2. /\ g \o f \in Seq(Unit) /\ Len(g \o f) = Len(g) + Len(f)
        /\ \A k \in 1..Len(g) : (g \o f)[k] = g[k]
    BY <1>6, <2>1, ConcatFacts
  <2> QED
    BY <2>1, <2>2 DEF g
<1>13. \A k \in 1..N : w[1 + k] = e(k)
  <2>1. \A k \in 1..N : 1 + k \in 1..(1 + N)
    BY <1>1
  <2> QED
    BY <1>8, <1>11, <1>12, <2>1
<1>14. ASSUME NEW l \in 1..N PROVE w[1 + (N + 1 - l)].value = Len(Body(bs[l], l))
  <2> DEFINE k == N + 1 - l
  <2>1. k \in 1..N /\ N + 1 - k = l
    BY <1>1
  <2> HIDE DEF k
  <2>2. w[1 + k].value = Len(Body(bs[l], l))
    BY <1>10, <1>13, <2>1
  <2> QED
    BY <2>2 DEF k
<1>15. Len(w) >= 1 + N
  BY <1>1, <1>6, <1>12
<1> QED
  BY <1>5, <1>6, <1>12, <1>14, <1>15 DEF w, f, Described

(* What the slots hold is a container of the call.                         *)
LEMMA OutputFacts ==
  ASSUME IInv, pc \in {"emit", "return"}
  PROVE  Output \in Containers(call) /\ \E bs : Chosen(bs) /\ Output = Container(call, bs)
<1> DEFINE b(l) == blocks.slots[l]
           block(l) == [magic |-> b(l).magic, cells |-> Content(b(l).data), raw |-> b(l).raw]
           bs == [l \in 1..N |-> block(l)]
           all == UNION {Forms(call, l) : l \in DOMAIN call.sizes}
<1>1. /\ Types /\ MemoryHolds(mem) /\ HasPayloads /\ HasBlocks /\ call \in Calls
      /\ \A l \in 1..N : BlockDone(l)
  BY RunningFacts DEF IInv, Memory, Stages
<1>2. N \in Nat \ {0} /\ DOMAIN call.sizes = 1..N
  BY <1>1, CallFacts
<1>3. Levels = N
  BY <1>1 DEF Levels, HasPayloads, N
<1>4. Output = Container(call, bs)
  BY <1>3 DEF Output
<1>5. ASSUME NEW l \in 1..N PROVE block(l) \in Forms(call, l)
  <2> DEFINE n == call.sizes[l]
  <2>1. BlockDone(l) /\ b(l).raw = n
    BY <1>1 DEF BlockDone
  <2>2. CASE BlockStored(l)
    <3>1. b(l).magic = COPY /\ b(l).data = DataOf(l)
      BY <2>2 DEF BlockStored
    <3>2. ContentIn(mem, DataOf(l)) = Run(Source(call), "payload", l, n)
      <4>1. CASE call.kind = "image"
        BY <1>1, <4>1 DEF HasPayloads, Holds, DataOf, Source
      <4>2. CASE call.kind # "image"
        <5>1. N <= Len(CallerSizes) /\ \A j \in 1..N : call.sizes[j] = CallerSizes[j]
          BY <1>1, <4>2, CallFacts
        <5>2. l \in CallerArrays /\ n = CallerSizes[l]
          BY <1>2, <5>1, CallerFacts DEF CallerArrays
        <5> QED
          BY <1>1, <4>2, <5>2 DEF MemoryHolds, DataOf, Source
      <4> QED
        BY <4>1, <4>2
    <3>3. block(l) = Block(COPY, Run(Source(call), "payload", l, n), n)
      BY <2>1, <3>1, <3>2 DEF Block, Content, ContentIn
    <3> QED
      BY <3>3 DEF Forms
  <2>3. CASE BlockCompressed(l)
    <3> DEFINE s == SlotOf("blockPayloads", l).len
    <3>1. /\ b(l).magic = LZ4 /\ b(l).data = SlotOf("blockPayloads", l)
          /\ call.compress /\ n >= MinCompress /\ s \in 1..n
          /\ ContentIn(mem, b(l).data) = Run(Source(call), "chunk", l, s)
      BY <2>3 DEF BlockCompressed
    <3>2. block(l) = Block(LZ4, Run(Source(call), "chunk", l, s), n)
      BY <2>1, <3>1 DEF Block, Content, ContentIn
    <3> HIDE DEF s
    <3> QED
      BY <3>1, <3>2 DEF Forms
  <2> QED
    BY <2>1, <2>2, <2>3 DEF BlockDone
<1> HIDE DEF block
<1>6. Chosen(bs)
  BY <1>5 DEF Chosen
<1>7. bs \in {f \in [DOMAIN call.sizes -> all] : \A l \in DOMAIN f : f[l] \in Forms(call, l)}
  BY <1>2, <1>5
<1> HIDE DEF bs
<1>8. Output \in Containers(call)
  BY <1>4, <1>7 DEF Containers
<1> QED
  BY <1>4, <1>6, <1>8

(* Bodies of the same lengths, in the same order, are as long together.    *)
AsLong(s, t, n) == \A k \in 1..n : Len(s[k]) = Len(t[k])

(* So are they when they follow one another in a container.                *)
LEMMA SameLength ==
  ASSUME NEW A, NEW n \in Nat, NEW s \in [1..n -> Seq(A)], NEW t \in [1..n -> Seq(A)], AsLong(s, t, n)
  PROVE  Len(FlattenSeq(s)) = Len(FlattenSeq(t))
<1>1. PICK p : LaidOut(s, n, FlattenSeq(s), p)
  BY FlattenLayout
<1>2. PICK q : LaidOut(t, n, FlattenSeq(t), q)
  BY FlattenLayout
<1> DEFINE T == {k \in Nat : k <= n => p[k + 1] = q[k + 1]}
<1>3. 0 \in T
  BY <1>1, <1>2 DEF LaidOut
<1>4. ASSUME NEW k \in Nat, k \in T PROVE k + 1 \in T
  <2>1. SUFFICES ASSUME k + 1 <= n PROVE p[(k + 1) + 1] = q[(k + 1) + 1]
    OBVIOUS
  <2>2. k + 1 \in 1..n /\ p[k + 1] = q[k + 1]
    BY <1>4, <2>1
  <2>3. p[(k + 1) + 1] = p[k + 1] + Len(s[k + 1]) /\ q[(k + 1) + 1] = q[k + 1] + Len(t[k + 1])
    BY <1>1, <1>2, <2>2 DEF LaidOut
  <2> QED
    BY <2>2, <2>3 DEF AsLong
<1>5. Nat \subseteq T
  <2> HIDE DEF T
  <2> QED
    BY <1>3, <1>4, NatSetInduction
<1>6. p[n + 1] = q[n + 1]
  BY <1>5
<1> QED
  BY <1>1, <1>2, <1>6 DEF LaidOut

(* The beginning of a container of a call is no other one.                 *)
LEMMA NoContainerWithin ==
  ASSUME call \in Calls, NEW bs, Chosen(bs), NEW v \in Containers(call), NEW n \in Nat,
         v = SubSeq(Container(call, bs), 1, n), n <= Len(Container(call, bs))
  PROVE  n = Len(Container(call, bs))
<1> DEFINE all == UNION {Forms(call, l) : l \in DOMAIN call.sizes}
           w == Container(call, bs)
<1>1. N \in Nat \ {0} /\ DOMAIN call.sizes = 1..N
  BY CallFacts
<1>2. PICK cs : Chosen(cs) /\ v = Container(call, cs)
  <2>1. PICK f \in [DOMAIN call.sizes -> all] :
          (\A l \in DOMAIN f : f[l] \in Forms(call, l)) /\ v = Container(call, f)
    BY DEF Containers
  <2>2. Chosen(f)
    BY <1>1, <2>1 DEF Chosen
  <2> QED
    BY <2>1, <2>2
<1>3. /\ Described(w, bs) /\ Bodies(bs) \in [1..N -> Seq(Unit)]
      /\ Len(w) = 1 + N + Len(FlattenSeq(Bodies(bs)))
  BY ContainerFacts
<1>4. /\ Described(v, cs) /\ Bodies(cs) \in [1..N -> Seq(Unit)]
      /\ Len(v) = 1 + N + Len(FlattenSeq(Bodies(cs)))
  BY <1>2, ContainerFacts
<1> HIDE DEF w
<1>5. Len(v) = n /\ \A k \in 1..n : v[k] = w[k]
  <2>1. w \in Seq(Unit) /\ n <= Len(w) /\ v = SubSeq(w, 1, n)
    BY <1>3 DEF Described, w
  <2> QED
    BY <2>1
<1>6. ASSUME NEW l \in 1..N PROVE Len(Body(cs[l], l)) = Len(Body(bs[l], l))
  <2>1. 1 + (N + 1 - l) \in 1..n
    BY <1>1, <1>4, <1>5 DEF Described
  <2> QED
    BY <1>3, <1>4, <1>5, <2>1 DEF Described
<1>7. \A k \in 1..N : Len(Bodies(cs)[k]) = Len(Bodies(bs)[k])
  <2>1. \A k \in 1..N : N + 1 - k \in 1..N
    BY <1>1
  <2> QED
    BY <1>6, <2>1 DEF Bodies
<1>8. Len(FlattenSeq(Bodies(cs))) = Len(FlattenSeq(Bodies(bs)))
  <2> DEFINE s == Bodies(cs)
             t == Bodies(bs)
             m == N
  <2>1. /\ m \in Nat /\ s \in [1..m -> Seq(Unit)] /\ t \in [1..m -> Seq(Unit)]
        /\ AsLong(s, t, m)
    BY <1>1, <1>3, <1>4, <1>7 DEF AsLong
  <2> HIDE DEF s, t, m
  <2>2. Len(FlattenSeq(s)) = Len(FlattenSeq(t))
    BY <2>1, SameLength
  <2> QED
    BY <2>2 DEF s, t
<1> QED
  BY <1>3, <1>4, <1>5, <1>8 DEF w


(* The whole container was taken, or all that the writer had room for.     *)
LEMMA TakenFacts ==
  ASSUME IInv, pc \in {"emit", "return"}
  PROVE  /\ IsPrefix(Taken, Output) /\ IsPrefix(<< >>, Taken) /\ Len(Taken) <= call.room
         /\ Len(Taken) = Len(Output) => Taken = Output
         /\ Len(Taken) # Len(Output) => Len(Taken) = call.room /\ Taken \notin Containers(call)
<1> DEFINE w == Output
           n == IF call.room < Len(w) THEN call.room ELSE Len(w)
<1>1. call \in Calls /\ call.room \in Nat
  BY RunningFacts, CallFacts DEF IInv
<1>2. PICK bs : Chosen(bs) /\ w = Container(call, bs)
  BY OutputFacts
<1>3. w \in Seq(Unit) /\ Len(w) \in Nat
  BY <1>1, <1>2, ContainerFacts DEF Described
<1>4. Taken = SubSeq(w, 1, n)
  BY DEF Taken
<1> HIDE DEF w
<1>5. n \in Nat /\ n <= Len(w) /\ n <= call.room
  BY <1>1, <1>3
<1>6. n # Len(w) => n = call.room
  OBVIOUS
<1> HIDE DEF n
<1>7. Len(Taken) = n /\ Taken \in Seq(Unit) /\ SubSeq(Taken, 1, n) = Taken
  BY <1>3, <1>4, <1>5
<1>8. IsPrefix(Taken, w)
  BY <1>4, <1>5, <1>7 DEF IsPrefix
<1>9. IsPrefix(<< >>, Taken)
  <2>1. Len(<< >>) = 0 /\ SubSeq(<< >>, 1, 0) = << >> /\ SubSeq(Taken, 1, 0) = << >>
    BY <1>7
  <2> QED
    BY <1>5, <1>7, <2>1 DEF IsPrefix
<1>10. n = Len(w) => Taken = w
  BY <1>3, <1>4
<1>11. Taken \in Containers(call) => n = Len(w)
  BY <1>1, <1>2, <1>4, <1>5, NoContainerWithin
<1> QED
  BY <1>5, <1>6, <1>7, <1>8, <1>9, <1>10, <1>11 DEF w

(* Every step is one of the abstract specification, or none.               *)
LEMMA StepImplements ==
  ASSUME IInv, [Next]_vars
  PROVE  [Promise!Next]_(Promise!vars)
<1>1. ASSUME NEW c \in Calls, Begin(c) PROVE Promise!Ask(c)
  BY <1>1 DEF Begin, IInv, Types, Promise!Ask
<1>2. ASSUME Going PROVE UNCHANGED Promise!vars
  BY <1>2 DEF Going, Promise!vars
<1>3. ASSUME Stopped PROVE Promise!Answer
  <2>1. call # None
    BY <1>3, NoneAssumption DEF Stopped
  <2> QED
    BY <1>3, <2>1 DEF Stopped, Promise!Answer
<1>4. ASSUME Emit PROVE Promise!Send
  <2>1. pc = "emit" /\ sent' = Taken /\ UNCHANGED <<call, outcome>>
    BY <1>4, EmitKeeps
  <2>2. sent = << >> /\ call # None /\ ~Refused(call)
    BY <2>1, NoneAssumption DEF IInv, Types, Passed, Refused
  <2>3. /\ IsPrefix(sent, sent') /\ Output \in Containers(call)
        /\ IsPrefix(sent', Output) /\ Len(sent') <= Room(call)
    BY <2>1, <2>2, TakenFacts, OutputFacts DEF Room
  <2>4. Promise!IsPrefix(sent, sent') /\ Promise!IsPrefix(sent', Output)
    BY <2>3 DEF IsPrefix, Promise!IsPrefix
  <2> QED
    BY <2>1, <2>2, <2>3, <2>4 DEF Promise!Send
<1>5. ASSUME Return PROVE Promise!Answer
  <2>1. pc = "return" /\ call' = None /\ sent' = << >>
    BY <1>5, ReturnKeeps DEF Return
  <2>2. outcome' = IF Len(sent) = Len(Output) THEN "ok" ELSE "error"
    BY <1>5 DEF Return, Leave
  <2>3. sent = Taken /\ call # None /\ ~Refused(call)
    BY <2>1, NoneAssumption DEF IInv, Types, Passed, Refused, Stages, Taken
  <2>4. CASE Len(sent) = Len(Output)
    <3>1. sent \in Containers(call) /\ outcome' = "ok"
      BY <2>1, <2>2, <2>3, <2>4, TakenFacts, OutputFacts
    <3> QED
      BY <2>1, <2>3, <3>1 DEF Promise!Answer
  <2>5. CASE Len(sent) # Len(Output)
    <3>1. sent \notin Containers(call) /\ Len(sent) = Room(call) /\ outcome' = "error"
      BY <2>1, <2>2, <2>3, <2>5, TakenFacts DEF Room
    <3> QED
      BY <2>1, <2>3, <3>1 DEF Promise!Answer
  <2> QED
    BY <2>4, <2>5
<1>6. CASE UNCHANGED vars
  BY <1>6 DEF vars, Promise!vars
<1>7. CASE Next
  <2>1. (\E c \in Calls : Begin(c)) \/ Going \/ Stopped \/ Emit \/ Return
    BY <1>7, StartKeeps, GenerateMipKeeps, ResizeSlotsKeeps, SwizzleKeeps, EncodeKeeps, MakeHeaderKeeps,
       MismatchKeeps, StoreBlockKeeps, CompressBlockKeeps, GiveUpKeeps, CompressFailsKeeps DEF Next
  <2> QED
    BY <1>1, <1>2, <1>3, <1>4, <1>5, <2>1 DEF Promise!Next
<1> QED
  BY <1>6, <1>7

(* ImplementsContainerStream: a used Encoder writes what it promises,      *)
(* whatever earlier calls left in its slots and wherever they failed.      *)
THEOREM Implements == Spec => ImplementsContainerStream
<1>1. ASSUME Init PROVE Promise!Init
  BY <1>1 DEF Init, Promise!Init
<1>2. IInv /\ [Next]_vars => [Promise!Next]_(Promise!vars)
  BY StepImplements
<1> QED
  BY <1>1, <1>2, Invariant, PTL DEF Spec, ImplementsContainerStream, Promise!Spec

=============================================================================
