------------------------- MODULE DecoderReuseProofs -------------------------
(***************************************************************************)
(* A used Decoder answers as a new one does, for every sequence of inputs, *)
(* failing ones among them, of any sizes.                                  *)
(***************************************************************************)
EXTENDS DecoderReuse, HeapProofs

(* What the slices of a call hold when it gets to use them.                *)
TableCells == [i \in 1..Levels |-> EntryCell(i)]
DataCells == [k \in 1..input.stored |-> Cell(IF input.magic = COPY THEN "raw" ELSE "stored", k)]
RawCells == [k \in 1..input.size |-> Cell("raw", k)]

Away(s, others) == s.at # 0 /\ \A t \in others : s.at # t.at

HasTable ==
  /\ local.table.len = Levels
  /\ Away(local.table, {decoder.blockData, decoder.raw, decoder.img})
  /\ ContentIn(mem, local.table) = TableCells

HasData ==
  /\ local.data.len = input.stored
  /\ Away(local.data, {decoder.raw, decoder.img})
  /\ ContentIn(mem, local.data) = DataCells

HasTarget ==
  /\ local.target.len = input.size
  /\ Away(local.target, {local.data, decoder.blockTable, decoder.blockData, decoder.img})
  /\ done <= input.size
  /\ input.magic = LZ4 => \A k \in 1..done : ContentIn(mem, local.target)[k] = Cell("raw", k)

HasPayload ==
  /\ local.mipData.len = input.size
  /\ Away(local.mipData, {decoder.img})
  /\ ContentIn(mem, local.mipData) = RawCells

HasImage ==
  /\ local.image.len = input.size
  /\ Away(local.image, {decoder.blockTable, decoder.blockData, decoder.raw})

Stages ==
  /\ pc \in {"idle", "headers", "table", "blob"} => local = NoLocals
  /\ pc \notin {"inflate", "image", "draw", "return"} => local.target = Nil
  /\ pc \notin {"draw", "return"} => local.image = Nil
  /\ pc \in {"bodies", "body"} => HasTable
  /\ pc \in {"copy", "target", "inflate"} => HasData
  /\ pc = "inflate" => HasTarget
  /\ pc \in {"image", "draw"} => HasPayload
  /\ pc = "draw" => HasImage /\ Away(local.image, {local.mipData})
  /\ pc = "return" => HasImage /\ ContentIn(mem, local.image) = Image(input)

(* The places at which a call can fail and has not.                        *)
Passed ==
  /\ pc \notin {"idle", "headers"} => input.fault # "headers"
  /\ pc \in {"table", "bodies", "body", "copy"} => ~input.legacy
  /\ pc = "blob" => input.legacy
  /\ pc = "copy" => input.magic = COPY
  /\ pc \in {"target", "inflate"} => input.magic = LZ4 \/ input.legacy
  /\ pc \notin {"idle", "headers", "table", "blob"} => input.fault # "table"
  /\ pc \notin {"idle", "headers", "table", "blob", "bodies"} => input.fault # "bodies"
  /\ pc \in {"copy", "target", "inflate", "image", "draw", "return"} => input.fault # "body"
  /\ pc \in {"image", "draw", "return"} => input.fault # "inflate"
  /\ pc = "return" => input.fault # "image"

(* The Decoder's arrays, and those that the call has made so far.          *)
MadeBefore ==
  CASE pc \in {"idle", "headers", "table", "blob"} -> 4
    [] pc \in {"bodies", "body"} -> 5
    [] pc \in {"copy", "target"} -> 6
    [] pc \in {"inflate", "image"} -> 7
    [] pc \in {"draw", "return"} -> 8

Types ==
  /\ pc \in Labels
  /\ input \in Inputs \cup {None}
  /\ (input = None) = (pc = "idle")
  /\ decoder \in [Buffers -> Slice]
  /\ local \in [Locals -> Slice]
  /\ done \in Nat
  /\ outcome \in {"none", "ok", "error"}
  /\ pc # "idle" => outcome = "none"
  /\ pc # "inflate" => done = 0

Memory ==
  /\ MemoryOK(mem)
  /\ \A b \in Buffers : Valid(mem, decoder[b])
  /\ \A l \in Locals : Valid(mem, local[l])
  /\ given = decoder.img
  /\ Cardinality(Used(mem)) <= MadeBefore

IInv == Types /\ Memory /\ BuffersApart /\ Stages /\ Passed

-----------------------------------------------------------------------------
(* The sum of a sequence is a number.                                      *)
SumsTo(f, ns, n) == f = [k \in 0..n |-> IF k = 0 THEN 0 ELSE f[k - 1] + ns[k]]

(* The sums of its beginnings are the recursive function.                  *)
LEMMA SumExists ==
  ASSUME NEW ns, NEW n \in Nat
  PROVE  \E f : SumsTo(f, ns, n)
<1> DEFINE T == {k \in Nat : \E f : SumsTo(f, ns, k)}
<1>1. 0 \in T
  <2> DEFINE f == [k \in 0..0 |-> 0]
  <2>1. SumsTo(f, ns, 0)
    BY DEF SumsTo
  <2> QED
    BY <2>1
<1>2. ASSUME NEW k \in Nat, k \in T PROVE k + 1 \in T
  <2>1. PICK f : SumsTo(f, ns, k)
    BY <1>2
  <2> DEFINE g == [i \in 0..(k + 1) |-> IF i = 0 THEN 0 ELSE f[i - 1] + ns[i]]
             h == [i \in 0..(k + 1) |-> IF i = 0 THEN 0 ELSE g[i - 1] + ns[i]]
  <2>2. \A i \in 0..k : i \in 0..(k + 1) /\ f[i] = IF i = 0 THEN 0 ELSE f[i - 1] + ns[i]
    BY <2>1 DEF SumsTo
  <2>3. \A i \in 0..k : g[i] = f[i]
    BY <2>2
  <2>4. \A i \in 0..(k + 1) : i # 0 => i - 1 \in 0..k
    OBVIOUS
  <2>5. g = h
    <3>1. \A i \in 0..(k + 1) : i # 0 => g[i - 1] = f[i - 1]
      <4> HIDE DEF g
      <4> QED
        BY <2>3, <2>4
    <3> QED
      BY <3>1
  <2>6. SumsTo(g, ns, k + 1)
    BY <2>5 DEF SumsTo
  <2> QED
    BY <2>6
<1>3. n \in T
  <2> HIDE DEF T
  <2> QED
    BY <1>1, <1>2, NatSetInduction
<1> QED
  BY <1>3

(* Its last value is a number.                                             *)
LEMMA TotalIsNat ==
  ASSUME NEW ns \in Seq(Nat)
  PROVE  Total(ns) \in Nat
<1> DEFINE n == Len(ns)
           f == CHOOSE g : g = [k \in 0..n |-> IF k = 0 THEN 0 ELSE g[k - 1] + ns[k]]
<1>1. n \in Nat
  OBVIOUS
<1>2. \E g : g = [k \in 0..n |-> IF k = 0 THEN 0 ELSE g[k - 1] + ns[k]]
  <2> HIDE DEF n
  <2> QED
    BY <1>1, SumExists DEF SumsTo
<1>3. f = [k \in 0..n |-> IF k = 0 THEN 0 ELSE f[k - 1] + ns[k]]
  BY <1>2
<1>4. Total(ns) = f[n]
  BY DEF Total
<1> HIDE DEF f
<1> DEFINE T == {k \in Nat : k \in 0..n => f[k] \in Nat}
<1>5. 0 \in T
  BY <1>1, <1>3
<1>6. ASSUME NEW k \in Nat, k \in T PROVE k + 1 \in T
  <2> SUFFICES ASSUME k + 1 \in 0..n PROVE f[k + 1] \in Nat
    OBVIOUS
  <2>1. k \in 0..n /\ k + 1 \in 1..n /\ (k + 1) - 1 = k
    BY <1>1
  <2>2. f[k + 1] = f[(k + 1) - 1] + ns[k + 1]
    BY <1>3
  <2>3. f[k] \in Nat /\ ns[k + 1] \in Nat
    BY <1>6, <2>1
  <2> QED
    BY <2>1, <2>2, <2>3
<1>7. n \in T
  <2> HIDE DEF T
  <2> QED
    BY <1>1, <1>5, <1>6, NatSetInduction
<1> QED
  BY <1>1, <1>4, <1>7

(* What the assumptions say of the running input.                          *)
LEMMA InputFacts ==
  ASSUME input \in Inputs
  PROVE  /\ input # None
         /\ input.skips \in Seq(Nat \ {0}) /\ Len(input.skips) \in Nat
         /\ Levels \in Nat \ {0} /\ Levels = Len(input.skips) + 1
         /\ Total(input.skips) \in Nat
         /\ input.stored \in Nat \ {0} /\ input.size \in Nat \ {0}
         /\ input.magic \in {COPY, LZ4} /\ COPY # LZ4
         /\ input.legacy \in BOOLEAN /\ input.fault \in Faults
         /\ input.magic = COPY => (input.stored = input.size) = (input.fault # "inflate")
         /\ input.legacy => /\ input.skips = << >> /\ input.fault \notin {"table", "bodies"}
                            /\ input.fault = "inflate" => input.stored # input.size
<1>1. input \in InputType
  BY InputsAssumption
<1>2. input.skips \in Seq(Nat \ {0})
  BY <1>1 DEF InputType
<1>3. input.skips \in Seq(Nat)
  BY <1>2
<1>4. Total(input.skips) \in Nat
  BY <1>3, TotalIsNat
<1>5. Len(input.skips) \in Nat
  BY <1>2
<1>6. /\ input.stored \in Nat \ {0} /\ input.size \in Nat \ {0}
      /\ input.magic \in {COPY, LZ4} /\ input.legacy \in BOOLEAN /\ input.fault \in Faults
  BY <1>1 DEF InputType
<1>7. Levels = Len(input.skips) + 1 /\ Levels \in Nat \ {0}
  BY <1>5 DEF Levels
<1>8. COPY # LZ4
  BY DEF COPY, LZ4
<1>9. input # None
  BY NoneAssumption
<1>10. /\ input.magic = COPY => (input.stored = input.size) = (input.fault # "inflate")
       /\ input.legacy => /\ input.skips = << >> /\ input.fault \notin {"table", "bodies"}
                          /\ input.fault = "inflate" => input.stored # input.size
  BY InputsAssumption
<1> QED
  BY <1>2, <1>4, <1>5, <1>6, <1>7, <1>8, <1>9, <1>10

(* The place a unit is inflated from.                                      *)
LEMMA SourceFacts ==
  ASSUME input \in Inputs, NEW k \in 1..input.size
  PROVE  Source(k) \in 1..input.stored
<1> DEFINE n == input.size
           s == input.stored
           x == (k - 1) * s
<1>1. n \in Nat \ {0} /\ s \in Nat \ {0} /\ k \in Nat /\ k >= 1 /\ k <= n
  BY InputFacts
<1> HIDE DEF n, s
<1>2. x \in Nat /\ x < n * s
  BY <1>1
<1> HIDE DEF x
<1>3. x \div n \in Nat /\ n * (x \div n) <= x
  BY <1>1, <1>2
<1>4. x \div n < s
  BY <1>1, <1>2, <1>3
<1> QED
  BY <1>1, <1>3, <1>4 DEF Source, n, s, x

-----------------------------------------------------------------------------
(* Steps of a call: it goes on, or it ends with an error that its input    *)
(* deserves.  The caller's image is as it was, unless pixels were drawn.   *)
Going ==
  /\ pc # "idle" /\ pc' # "idle"
  /\ UNCHANGED <<input, outcome>>
  /\ pc # "draw" => ContentIn(mem', given') = ContentIn(mem, given)

Refused ==
  /\ pc # "idle" /\ pc' = "idle"
  /\ input' = None /\ outcome' = "error"
  /\ ~Good(input)
  /\ pc # "draw" => ContentIn(mem', given') = ContentIn(mem, given)

(* The names of the buffers and of the slices of a call.                   *)
LEMMA BufferNames ==
  /\ "blockTable" \in Buffers /\ "blockData" \in Buffers /\ "raw" \in Buffers /\ "img" \in Buffers
  /\ \A b \in Buffers : b = "blockTable" \/ b = "blockData" \/ b = "raw" \/ b = "img"
  /\ "table" \in Locals /\ "data" \in Locals /\ "target" \in Locals
  /\ "mipData" \in Locals /\ "image" \in Locals
  /\ \A l \in Locals : NoLocals[l] = Nil
BY DEF Buffers, Locals, NoLocals

(* A new array is no buffer's, and a buffer's array is no other's.         *)
LEMMA OwnArray ==
  ASSUME Memory, BuffersApart, NEW b \in Buffers, NEW a \in Arrays,
         a = decoder[b].at \/ a \notin Used(mem)
  PROVE  \A c \in Buffers : c # b => decoder[c].at # a
<1>1. \A c \in Buffers : decoder[c].at = 0 \/ decoder[c].at \in Used(mem)
  BY DEF Memory, Valid
<1>2. a # 0 /\ Nil.at = 0
  BY ArrayFacts
<1>3. \A c \in Buffers : c # b => decoder[b].at # decoder[c].at \/ decoder[b] = Nil
  BY DEF BuffersApart, Apart
<1> QED
  BY <1>1, <1>2, <1>3

(* An array that is not in use is that of no buffer and of no local.       *)
LEMMA NewArray ==
  ASSUME Memory, NEW a \in Arrays, a \notin Used(mem)
  PROVE  /\ \A c \in Buffers : decoder[c].at # a
         /\ \A l \in Locals : local[l].at # a
<1>1. /\ \A c \in Buffers : decoder[c].at = 0 \/ decoder[c].at \in Used(mem)
      /\ \A l \in Locals : local[l].at = 0 \/ local[l].at \in Used(mem)
  BY DEF Memory, Valid
<1> QED
  BY <1>1, ArrayFacts

(* There is room while less than eight arrays are in use.                  *)
LEMMA DecoderRoom ==
  ASSUME Memory, MadeBefore \in Nat, MadeBefore < 8
  PROVE  HasRoom(mem)
<1>1. Cardinality(Used(mem)) \in Nat
  BY UsedFinite
<1>2. Cardinality(Used(mem)) < ArrayCount
  BY <1>1, RoomAssumption, ArrayCountAssumption DEF Memory
<1> QED
  BY <1>2, RoomFacts

(* The end of a call.                                                      *)
LEMMA LeaveKeeps ==
  ASSUME NEW m, MemoryOK(m), NEW kept, kept \in [Buffers -> Slice],
         \A b \in Buffers : Valid(m, kept[b]),
         \A a, b \in Buffers : a # b => Apart(kept[a], kept[b]),
         Leave(m, kept, kept.img), outcome' \in {"ok", "error"}
  PROVE  IInv' /\ ContentIn(mem', given') = ContentIn(m, kept.img)
<1> DEFINE roots == <<kept.blockTable, kept.blockData, kept.raw, kept.img, kept.img>>
           w == Collected(m, roots)
<1>1. /\ mem' = w
      /\ decoder' = [blockTable |-> Moved(roots)[1], blockData |-> Moved(roots)[2],
                     raw |-> Moved(roots)[3], img |-> Moved(roots)[4]]
      /\ given' = Moved(roots)[5]
      /\ pc' = "idle" /\ input' = None /\ local' = NoLocals /\ done' = 0
  BY DEF Leave
<1>2. DOMAIN roots = 1..5
  OBVIOUS
<1>3. Moved(roots) = [k \in 1..5 |-> Placed(roots, k)]
  BY <1>2 DEF Moved, Placed
<1>4. \A k \in 1..5 : Valid(m, roots[k])
  <2>1. Valid(m, kept.blockTable) /\ Valid(m, kept.blockData) /\ Valid(m, kept.raw) /\ Valid(m, kept.img)
    BY BufferNames
  <2> QED
    BY <2>1
<1>5. roots[1] = kept.blockTable /\ roots[2] = kept.blockData /\ roots[3] = kept.raw
      /\ roots[4] = kept.img /\ roots[5] = kept.img
  OBVIOUS
<1> HIDE DEF roots
<1>6. Preserved(m, w, 5, roots)
  <2>1. 5 \in Nat /\ 5 <= ArrayCount
    BY RoomAssumption, ArrayCountAssumption
  <2> QED
    BY <1>2, <1>4, <2>1, CollectedFacts
<1> HIDE DEF w
<1>8. Cardinality(Used(w)) <= 4
  <2>1. 5 \notin Used(w)
    <3>1. Home(roots, roots[5]) = Home(roots, roots[4])
      BY <1>5
    <3>2. Home(roots, roots[4]) <= 4
      BY <1>6 DEF Preserved
    <3> QED
      BY <1>6, <3>1, <3>2 DEF Preserved
  <2>2. Used(w) \in SUBSET (1..4)
    BY <1>6, <2>1 DEF Preserved
  <2>3. IsFiniteSet(1..4) /\ Cardinality(1..4) = 4
    <3>1. 1 \in Int /\ 4 \in Int /\ ~(1 > 4) /\ (4 - 1) + 1 = 4
      OBVIOUS
    <3>2. IsFiniteSet(1..4) /\ Cardinality(1..4) = (4 - 1) + 1
      BY <3>1, FS_Interval, Zenon
    <3> QED
      BY <3>1, <3>2
  <2> QED
    BY <2>2, <2>3, FS_Subset
<1>9. /\ decoder'.blockTable = Placed(roots, 1) /\ decoder'.blockData = Placed(roots, 2)
      /\ decoder'.raw = Placed(roots, 3) /\ decoder'.img = Placed(roots, 4)
      /\ given' = Placed(roots, 4)
  <2>1. Placed(roots, 5) = Placed(roots, 4)
    BY <1>5 DEF Placed
  <2> QED
    BY <1>1, <1>3, <2>1
<1>10. \A b \in Buffers : Valid(w, decoder'[b])
  BY <1>6, <1>9, BufferNames DEF Preserved
<1>11. decoder' \in [Buffers -> Slice]
  <2>1. DOMAIN decoder' = Buffers /\ decoder' = [b \in Buffers |-> decoder'[b]]
    BY <1>1 DEF Buffers
  <2> QED
    BY <1>10, <2>1 DEF Valid
<1>12. \A l \in Locals : Valid(w, local'[l])
  BY <1>1, BufferNames, ArrayFacts DEF Valid
<1>13. Types'
  <2>1. local' \in [Locals -> Slice]
    BY <1>1, ArrayFacts DEF NoLocals
  <2> QED
    BY <1>1, <1>11, <2>1 DEF Types, Labels
<1>14. Memory'
  <2>1. MadeBefore' = 4
    BY <1>1 DEF MadeBefore
  <2> QED
    BY <1>1, <1>6, <1>8, <1>9, <1>10, <1>12, <2>1 DEF Memory, Preserved
<1>15. BuffersApart'
  <2>1. \A j, k \in 1..5 : Apart(roots[j], roots[k]) => Apart(Placed(roots, j), Placed(roots, k))
    <3> SUFFICES ASSUME NEW j \in 1..5, NEW k \in 1..5, Apart(roots[j], roots[k])
                 PROVE  Apart(Placed(roots, j), Placed(roots, k))
      OBVIOUS
    <3>1. roots[j] = Nil => Placed(roots, j).at = 0
      BY <1>6, ArrayFacts DEF Preserved
    <3>2. Placed(roots, j).at = 0 => Placed(roots, j) = Nil
      BY <1>6 DEF Valid, Preserved
    <3> QED
      BY <1>6, <3>1, <3>2 DEF Apart, Preserved
  <2>2. \A a, b \in Buffers : a # b => Apart(decoder'[a], decoder'[b])
    <3> DEFINE num(b) == CASE b = "blockTable" -> 1 [] b = "blockData" -> 2 [] b = "raw" -> 3 [] b = "img" -> 4
    <3>1. num("blockTable") = 1 /\ num("blockData") = 2 /\ num("raw") = 3 /\ num("img") = 4
      OBVIOUS
    <3> HIDE DEF num
    <3>2. \A b \in Buffers : num(b) \in 1..5 /\ roots[num(b)] = kept[b] /\ decoder'[b] = Placed(roots, num(b))
      BY <1>5, <1>9, <3>1, BufferNames
    <3> QED
      BY <2>1, <3>2
  <2>3. local'.data = Nil /\ local'.mipData = Nil
    BY <1>1, BufferNames
  <2> QED
    BY <2>2, <2>3 DEF BuffersApart, Apart
<1>16. Stages' /\ Passed'
  BY <1>1, BufferNames DEF Stages, Passed
<1> QED
  BY <1>1, <1>5, <1>6, <1>9, <1>13, <1>14, <1>15, <1>16 DEF IInv, Preserved

(* A call that fails: what it wrote into the Decoder's arrays is of no     *)
(* consequence, as long as it was not the image's.                         *)
LEMMA FailKeeps ==
  ASSUME IInv, NEW a \in Arrays, NEW m, Changed(mem, m, a), pc # "draw" => decoder.img.at # a,
         Fail(m), pc # "idle", ~Good(input)
  PROVE  IInv' /\ Refused
<1>1. MemoryOK(mem) /\ MemoryOK(m) /\ given = decoder.img /\ Valid(mem, given)
  BY BufferNames DEF IInv, Memory, Changed
<1>2. \A b \in Buffers : Valid(m, decoder[b])
  BY <1>1, ChangedFacts DEF IInv, Memory
<1>3. pc # "draw" => ContentIn(m, given) = ContentIn(mem, given)
  BY <1>1, ChangedFacts
<1>4. Leave(m, decoder, decoder.img) /\ outcome' = "error"
  BY <1>1 DEF Fail
<1>5. IInv' /\ ContentIn(mem', given') = ContentIn(m, decoder.img)
  BY <1>1, <1>2, <1>4, LeaveKeeps DEF IInv, Types, BuffersApart
<1>6. pc' = "idle" /\ input' = None
  BY <1>4 DEF Leave
<1> QED
  BY <1>1, <1>3, <1>4, <1>5, <1>6 DEF Refused

(* One that wrote nothing.                                                 *)
LEMMA PlainFailKeeps ==
  ASSUME IInv, Fail(mem), pc # "idle", ~Good(input)
  PROVE  IInv' /\ Refused
<1>1. MemoryOK(mem) /\ given = decoder.img /\ \A b \in Buffers : Valid(mem, decoder[b])
  BY DEF IInv, Memory
<1>2. Leave(mem, decoder, decoder.img) /\ outcome' = "error"
  BY <1>1 DEF Fail
<1>3. IInv' /\ ContentIn(mem', given') = ContentIn(mem, decoder.img)
  BY <1>1, <1>2, LeaveKeeps DEF IInv, Types, BuffersApart
<1>4. pc' = "idle" /\ input' = None
  BY <1>2 DEF Leave
<1> QED
  BY <1>1, <1>2, <1>3, <1>4 DEF Refused

(* The invariant holds at first, and every action keeps it.                *)
LEMMA InitHolds == Init => IInv
<1> SUFFICES ASSUME Init PROVE IInv
  OBVIOUS
<1>1. \A b \in Buffers : decoder[b] = Nil
  BY DEF Init
<1>2. \A l \in Locals : local[l] = Nil
  BY BufferNames DEF Init
<1>3. Types
  <2>1. decoder \in [Buffers -> Slice] /\ local \in [Locals -> Slice]
    BY ArrayFacts DEF Init, NoLocals
  <2> QED
    BY <2>1 DEF Init, Types, Labels
<1>4. Memory
  <2>1. \A s : s = Nil => Valid(mem, s)
    BY ArrayFacts DEF Valid
  <2>2. MemoryOK(mem)
    <3>1. IsList(<< >>)
      BY DEF IsList
    <3> QED
      BY <3>1 DEF Init, MemoryOK
  <2>3. Used(mem) = {}
    BY DEF Init, Used
  <2>4. Cardinality(Used(mem)) = 0
    BY <2>3, FS_EmptySet
  <2>5. MadeBefore = 4
    BY DEF Init, MadeBefore
  <2>6. given = decoder.img
    BY <1>1, BufferNames DEF Init
  <2> QED
    BY <1>1, <1>2, <2>1, <2>2, <2>4, <2>5, <2>6 DEF Memory
<1>5. BuffersApart
  BY <1>1, <1>2, BufferNames DEF BuffersApart, Apart
<1>6. Stages /\ Passed
  BY <1>2, BufferNames DEF Init, Stages, Passed
<1> QED
  BY <1>3, <1>4, <1>5, <1>6 DEF IInv

(* A call starts with what earlier calls left in the buffers.              *)
LEMMA BeginKeeps ==
  ASSUME IInv, NEW i \in Inputs, Begin(i)
  PROVE  IInv' /\ ContentIn(mem', given') = ContentIn(mem, given)
<1>1. /\ pc = "idle" /\ pc' = "headers" /\ input' = i /\ outcome' = "none"
      /\ UNCHANGED <<mem, decoder, local, done, given>>
  BY DEF Begin
<1>2. Types'
  BY <1>1, NoneAssumption DEF IInv, Types, Labels
<1>3. Memory' /\ BuffersApart'
  BY <1>1 DEF IInv, Memory, BuffersApart, Apart, MadeBefore
<1>4. Stages' /\ Passed'
  BY <1>1 DEF IInv, Stages, Passed
<1> QED
  BY <1>1, <1>2, <1>3, <1>4 DEF IInv

(* Headers are read into no buffer.                                        *)
LEMMA ReadHeadersKeeps ==
  ASSUME IInv, ReadHeaders
  PROVE  IInv' /\ (Going \/ Refused)
<1>1. pc = "headers"
  BY DEF ReadHeaders
<1>2. CASE input.fault = "headers"
  <2>1. Fail(mem) /\ ~Good(input)
    BY <1>2 DEF ReadHeaders, Good
  <2> QED
    BY <1>1, <2>1, PlainFailKeeps
<1>3. CASE input.fault # "headers"
  <2>1. /\ pc' = IF input.legacy THEN "blob" ELSE "table"
        /\ UNCHANGED <<input, given, outcome, mem, decoder, local, done>>
    BY <1>3 DEF ReadHeaders, Goto
  <2>2. Types'
    BY <1>1, <2>1 DEF IInv, Types, Labels
  <2>3. Memory' /\ BuffersApart'
    BY <1>1, <2>1 DEF IInv, Memory, BuffersApart, Apart, MadeBefore
  <2>4. Stages' /\ Passed'
    BY <1>1, <1>3, <2>1 DEF IInv, Stages, Passed
  <2> QED
    BY <1>1, <2>1, <2>2, <2>3, <2>4 DEF IInv, Going
<1> QED
  BY <1>2, <1>3

(* What the cells should hold depends on the input alone.                  *)
LEMMA SameInput ==
  ASSUME UNCHANGED input
  PROVE  /\ TableCells' = TableCells /\ DataCells' = DataCells /\ RawCells' = RawCells
         /\ Levels' = Levels /\ Image(input)' = Image(input)
BY DEF TableCells, DataCells, RawCells, Levels, EntryCell, Cell, Image

(* Nor are skipped bodies.                                                 *)
LEMMA SkipBodiesKeeps ==
  ASSUME IInv, SkipBodies
  PROVE  IInv' /\ (Going \/ Refused)
<1>1. pc = "bodies"
  BY DEF SkipBodies
<1>2. CASE input.fault = "bodies"
  <2>1. Fail(mem) /\ ~Good(input)
    BY <1>2 DEF SkipBodies, Good
  <2> QED
    BY <1>1, <2>1, PlainFailKeeps
<1>3. CASE input.fault # "bodies"
  <2>1. /\ pc' = "body" /\ UNCHANGED <<input, given, outcome, mem, decoder, local, done>>
    BY <1>3 DEF SkipBodies, Goto
  <2>2. Types'
    BY <1>1, <2>1 DEF IInv, Types, Labels
  <2>3. Memory' /\ BuffersApart'
    BY <1>1, <2>1 DEF IInv, Memory, BuffersApart, Apart, MadeBefore
  <2>4. Stages'
    BY <1>1, <2>1, SameInput DEF IInv, Stages, HasTable
  <2>5. Passed'
    BY <1>1, <1>3, <2>1 DEF IInv, Passed
  <2> QED
    BY <1>1, <2>1, <2>2, <2>3, <2>4, <2>5 DEF IInv, Going
<1> QED
  BY <1>2, <1>3

(* One array is written to, and it may be a new one.                       *)
LEMMA MemoryGrows ==
  ASSUME Memory, NEW a \in Arrays, Changed(mem, mem', a),
         \A b \in Buffers : decoder'[b] = decoder[b] \/ Valid(mem', decoder'[b]),
         \A l \in Locals : local'[l] = local[l] \/ Valid(mem', local'[l]),
         given' = decoder'.img,
         MadeBefore \in Nat, MadeBefore' \in Nat,
         MadeBefore' >= MadeBefore + 1 \/ (a \in Used(mem) /\ MadeBefore' >= MadeBefore)
  PROVE  Memory'
<1>1. MemoryOK(mem) /\ MemoryOK(mem')
  BY DEF Memory, Changed
<1>2. /\ Used(mem') \subseteq Used(mem) \cup {a}
      /\ \A s : Valid(mem, s) => Valid(mem', s)
  BY <1>1, ChangedFacts
<1>3. /\ \A b \in Buffers : Valid(mem', decoder'[b])
      /\ \A l \in Locals : Valid(mem', local'[l])
  BY <1>2 DEF Memory
<1>4. IsFiniteSet(Used(mem)) /\ Cardinality(Used(mem)) \in Nat
  BY UsedFinite
<1>5. Cardinality(Used(mem)) <= MadeBefore
  BY DEF Memory
<1>6. Cardinality(Used(mem')) <= MadeBefore'
  <2>1. Cardinality(Used(mem')) <= MadeBefore + 1
    BY <1>2, <1>5, UsedFacts
  <2>2. a \in Used(mem) => Used(mem') \in SUBSET Used(mem)
    BY <1>2
  <2>3. IsFiniteSet(Used(mem')) /\ Cardinality(Used(mem')) \in Nat
    BY UsedFinite
  <2>4. a \in Used(mem) => Cardinality(Used(mem')) <= Cardinality(Used(mem))
    BY <1>4, <2>2, FS_Subset
  <2> QED
    BY <1>4, <1>5, <2>1, <2>3, <2>4
<1> QED
  BY <1>1, <1>3, <1>6 DEF Memory

(* One of the Decoder's slices is replaced.                                *)
LEMMA ReplaceBuffer ==
  ASSUME decoder \in [Buffers -> Slice], NEW b \in Buffers, NEW s \in Slice, BuffersApart,
         \A c \in Buffers : c # b => decoder[c].at # s.at
  PROVE  LET d == [decoder EXCEPT ![b] = s]
         IN  /\ d \in [Buffers -> Slice] /\ d[b] = s
             /\ \A c \in Buffers : c # b => d[c] = decoder[c]
             /\ \A x, y \in Buffers : x # y => Apart(d[x], d[y])
<1> DEFINE d == [decoder EXCEPT ![b] = s]
<1>1. d \in [Buffers -> Slice] /\ d[b] = s /\ \A c \in Buffers : c # b => d[c] = decoder[c]
  OBVIOUS
<1> HIDE DEF d
<1>2. ASSUME NEW x \in Buffers, NEW y \in Buffers, x # y PROVE Apart(d[x], d[y])
  <2>1. Apart(decoder[x], decoder[y])
    BY <1>2 DEF BuffersApart
  <2> QED
    BY <1>1, <1>2, <2>1 DEF Apart
<1> QED
  BY <1>1, <1>2 DEF d

(* nil is always a slice.                                                  *)
LEMMA NilValid == Valid(mem, Nil)
BY ArrayFacts DEF Valid

(* The table is the Decoder's or, in a stream, a new one.                  *)
LEMMA ReadTableKeeps ==
  ASSUME IInv, ReadTable
  PROVE  IInv' /\ (Going \/ Refused)
<1> DEFINE buffer == TableBuffer
           t == EnsureLen(buffer, Levels)
           slots == Emptied(t)
           cells(k) == [i \in 1..k |-> EntryCell(i)]
           With(k) == Written(AfterEnsureLen(buffer, Levels), slots, slots.len, cells(k))
           table == [slots EXCEPT !.len = @ + Levels]
<1>1. /\ pc = "table"
      /\ IF input.fault = "table"
           THEN \E k \in 0..(Levels - 1) : Fail(With(k))
           ELSE /\ mem' = With(Levels)
                /\ local' = [local EXCEPT !.table = table]
                /\ decoder' = IF input.way = "seeker"
                                THEN [decoder EXCEPT !.blockTable = table] ELSE decoder
                /\ Goto("bodies")
                /\ UNCHANGED done
  BY DEF ReadTable
<1>2. input \in Inputs
  BY <1>1 DEF IInv, Types
<1>3. Levels \in Nat \ {0}
  BY <1>2, InputFacts
<1>4. MemoryOK(mem) /\ Valid(mem, buffer) /\ HasRoom(mem) /\ MadeBefore = 4 /\ local = NoLocals
  <2>1. MadeBefore = 4
    BY <1>1 DEF MadeBefore
  <2>2. HasRoom(mem)
    BY <2>1, DecoderRoom DEF IInv
  <2>3. Valid(mem, buffer)
    BY NilValid, BufferNames DEF IInv, Memory, TableBuffer
  <2> QED
    BY <1>1, <2>1, <2>2, <2>3 DEF IInv, Memory, Stages
<1> HIDE DEF buffer
<1>5. /\ Valid(AfterEnsureLen(buffer, Levels), t) /\ t.len = Levels /\ t.at \in Arrays
      /\ t.at = buffer.at \/ t.at \notin Used(mem)
  BY <1>3, <1>4, EnsureLenFacts
<1>6. slots.at = t.at /\ slots.len = 0 /\ table = t
  <2>1. t \in Slice
    BY <1>5 DEF Valid
  <2> HIDE DEF t
  <2>2. t = [at |-> t.at, len |-> t.len]
    BY <2>1 DEF Slice
  <2>3. slots = [at |-> t.at, len |-> 0]
    BY <2>2 DEF Emptied
  <2> HIDE DEF slots
  <2>4. table = [at |-> t.at, len |-> 0 + Levels]
    BY <2>3
  <2> QED
    BY <1>3, <1>5, <2>2, <2>3, <2>4
<1> HIDE DEF slots, table
<1>7. \A k \in Nat : IsList(cells(k)) /\ Len(cells(k)) = k
  BY DEF IsList
<1>8. \A k \in Nat : Changed(mem, With(k), t.at)
  <2> TAKE k \in Nat
  <2> DEFINE c == cells(k)
  <2>1. IsList(c)
    BY <1>7
  <2> HIDE DEF c
  <2>2. Changed(mem, Written(AfterEnsureLen(buffer, Levels), slots, 0, c), t.at)
    BY <1>3, <1>4, <1>6, <2>1, RewriteFacts
  <2> QED
    BY <1>6, <2>2 DEF c
<1>9. Valid(With(Levels), t) /\ ContentIn(With(Levels), t) = TableCells
  <2>1. IsList(TableCells) /\ Len(TableCells) = Levels
    BY <1>3 DEF IsList, TableCells
  <2> DEFINE w == Written(AfterEnsureLen(buffer, Levels), slots, 0, TableCells)
  <2>2. Valid(w, t) /\ ContentIn(w, t) = TableCells
    BY <1>3, <1>4, <1>6, <2>1, RewriteFacts
  <2>3. With(Levels) = w
    BY <1>6 DEF TableCells
  <2> QED
    BY <2>2, <2>3
<1> HIDE DEF With, t
<1>10. \A c \in Buffers : c # "blockTable" => decoder[c].at # t.at
  <2>1. t.at = decoder.blockTable.at \/ t.at \notin Used(mem)
    BY <1>5, ArrayFacts DEF TableBuffer, buffer
  <2> QED
    BY <1>5, <2>1, OwnArray, BufferNames DEF IInv
<1>11. decoder.img.at # t.at
  BY <1>10, BufferNames
<1>12. CASE input.fault = "table"
  <2>1. PICK k \in 0..(Levels - 1) : Fail(With(k))
    BY <1>1, <1>12
  <2>2. k \in Nat
    BY <1>3
  <2>3. ~Good(input)
    BY <1>12 DEF Good
  <2> QED
    BY <1>1, <1>5, <1>8, <1>11, <2>1, <2>2, <2>3, FailKeeps
<1>13. CASE input.fault # "table"
  <2>1. /\ mem' = With(Levels)
        /\ local' = [local EXCEPT !.table = t]
        /\ decoder' = IF input.way = "seeker" THEN [decoder EXCEPT !.blockTable = t] ELSE decoder
        /\ pc' = "bodies" /\ UNCHANGED <<input, given, outcome, done>>
    BY <1>1, <1>6, <1>13 DEF Goto
  <2>2. t \in Slice /\ t.at # 0
    BY <1>5, <1>9, ArrayFacts DEF Valid
  <2>3. /\ decoder' \in [Buffers -> Slice]
        /\ \A c \in Buffers : c # "blockTable" => decoder'[c] = decoder[c]
        /\ decoder'.blockTable = decoder.blockTable \/ decoder'.blockTable = t
        /\ \A x, y \in Buffers : x # y => Apart(decoder'[x], decoder'[y])
    <3>1. CASE input.way = "seeker"
      BY <1>10, <2>1, <2>2, <3>1, ReplaceBuffer, BufferNames DEF IInv, Types
    <3>2. CASE input.way # "seeker"
      BY <2>1, <3>2 DEF IInv, Types, BuffersApart
    <3> QED
      BY <3>1, <3>2
  <2>4. /\ local' \in [Locals -> Slice] /\ local'.table = t
        /\ \A l \in Locals : l # "table" => local'[l] = Nil
    BY <1>4, <2>1, <2>2, BufferNames DEF IInv, Types
  <2>5. Types'
    BY <1>1, <2>1, <2>3, <2>4 DEF IInv, Types, Labels
  <2>6. Changed(mem, mem', t.at) /\ Valid(mem', t)
    BY <1>3, <1>8, <1>9, <2>1
  <2>7. Memory'
    <3>1. MadeBefore' = 5
      BY <2>1 DEF MadeBefore
    <3>2. \A b \in Buffers : decoder'[b] = decoder[b] \/ Valid(mem', decoder'[b])
      BY <2>3, <2>6
    <3>3. \A l \in Locals : local'[l] = local[l] \/ Valid(mem', local'[l])
      BY <1>4, <2>4, <2>6, BufferNames
    <3>4. given' = decoder'.img
      BY <2>1, <2>3, BufferNames DEF IInv, Memory
    <3> QED
      BY <1>4, <1>5, <2>6, <3>1, <3>2, <3>3, <3>4, MemoryGrows DEF IInv
  <2>8. BuffersApart'
    BY <2>3, <2>4, BufferNames DEF BuffersApart, Apart
  <2>9. HasTable'
    <3>1. local'.table.len = Levels' /\ ContentIn(mem', local'.table) = TableCells'
      BY <1>5, <1>9, <2>1, <2>4, SameInput
    <3>2. Away(local'.table, {decoder'.blockData, decoder'.raw, decoder'.img})
      BY <1>10, <2>2, <2>3, <2>4, BufferNames DEF Away
    <3> QED
      BY <3>1, <3>2 DEF HasTable
  <2>10. Stages' /\ Passed'
    BY <1>1, <1>13, <2>1, <2>4, <2>9, BufferNames DEF IInv, Stages, Passed
  <2>11. Going
    <3>1. Valid(mem, given) /\ given.at # t.at
      BY <1>11, BufferNames DEF IInv, Memory
    <3>2. ContentIn(mem', given) = ContentIn(mem, given)
      BY <1>4, <1>5, <2>6, <3>1, ChangedFacts
    <3> QED
      BY <1>1, <2>1, <3>2 DEF Going
  <2> QED
    BY <2>5, <2>7, <2>8, <2>10, <2>11 DEF IInv
<1> QED
  BY <1>12, <1>13

(* What the table says of the largest level, and the units behind it.      *)
LEMMA TableSays ==
  ASSUME IInv, HasTable, input \in Inputs
  PROVE  /\ Largest.value = input.stored /\ Largest.part = input.magic
         /\ Position = Total(input.skips)
<1>1. Levels \in Nat \ {0} /\ Levels = Len(input.skips) + 1 /\ input.skips \in Seq(Nat \ {0})
  BY InputFacts
<1>2. Table = TableCells
  BY DEF HasTable, Table, Content, ContentIn
<1>3. \A i \in 1..Levels : Table[i] = EntryCell(i)
  BY <1>2 DEF TableCells
<1>4. Largest = Cell(input.magic, input.stored)
  BY <1>1, <1>3 DEF Largest, EntryCell
<1>5. Largest.value = input.stored /\ Largest.part = input.magic
  BY <1>4 DEF Cell
<1>6. \A i \in 1..(Levels - 1) : Table[i].value = input.skips[i]
  <2> TAKE i \in 1..(Levels - 1)
  <2>1. i \in 1..Levels /\ i < Levels
    BY <1>1
  <2>2. Table[i] = Cell(COPY, input.skips[i])
    BY <1>3, <2>1 DEF EntryCell
  <2> QED
    BY <2>2 DEF Cell
<1>7. [i \in 1..(Levels - 1) |-> Table[i].value] = input.skips
  <2>1. Levels - 1 = Len(input.skips)
    BY <1>1
  <2>2. input.skips = [i \in 1..Len(input.skips) |-> input.skips[i]]
    BY <1>1
  <2>3. [i \in 1..(Levels - 1) |-> Table[i].value] = [i \in 1..(Levels - 1) |-> input.skips[i]]
    BY <1>6
  <2> QED
    BY <2>1, <2>2, <2>3
<1> QED
  BY <1>5, <1>7 DEF Position

(* What is read behind the skipped bodies is the body of the largest.      *)
LEMMA BodyFacts ==
  ASSUME input \in Inputs
  PROVE  /\ \A n \in Nat : IsList(Bodies(Total(input.skips), n)) /\ Len(Bodies(Total(input.skips), n)) = n
         /\ Bodies(Total(input.skips), input.stored) = DataCells
         /\ IsList(DataCells) /\ Len(DataCells) = input.stored
<1> DEFINE b == Total(input.skips)
<1>1. b \in Nat /\ input.stored \in Nat
  BY InputFacts
<1>2. \A n \in Nat : IsList(Bodies(b, n)) /\ Len(Bodies(b, n)) = n
  BY DEF IsList, Bodies
<1>3. \A k \in 1..input.stored :
        BodyUnit(b + k) = Cell(IF input.magic = COPY THEN "raw" ELSE "stored", k)
  <2> TAKE k \in 1..input.stored
  <2> HIDE DEF b
  <2>1. ~(b + k <= b) /\ (b + k) - b = k
    BY <1>1
  <2> QED
    BY <2>1 DEF BodyUnit, b
<1>4. Bodies(b, input.stored) = DataCells
  BY <1>3 DEF Bodies, DataCells
<1> QED
  BY <1>1, <1>2, <1>4

(* The body fills its buffer or leaves a part of itself there.             *)
LEMMA ReadBodyKeeps ==
  ASSUME IInv, ReadBody
  PROVE  IInv' /\ (Going \/ Refused)
<1> DEFINE n == Largest.value
           s == decoder.blockData
           t == EnsureLen(s, n)
           With(k) == Written(AfterEnsureLen(s, n), t, 0, Bodies(Position, k))
<1>1. /\ pc = "body"
      /\ IF input.fault = "body"
           THEN \E k \in 0..(n - 1) : Fail(With(k))
           ELSE /\ mem' = With(n)
                /\ local' = [local EXCEPT !.data = t]
                /\ decoder' = [decoder EXCEPT !.blockData = t]
                /\ Goto(IF Largest.part = COPY THEN "copy" ELSE "target")
                /\ UNCHANGED done
  BY DEF ReadBody, BodyBuffer
<1>2. input \in Inputs /\ HasTable
  BY <1>1 DEF IInv, Types, Stages
<1>3. /\ n = input.stored /\ Largest.part = input.magic /\ Position = Total(input.skips)
      /\ n \in Nat \ {0}
  BY <1>2, TableSays, InputFacts
<1>4. MemoryOK(mem) /\ Valid(mem, s) /\ HasRoom(mem) /\ MadeBefore = 5
  <2>1. MadeBefore = 5
    BY <1>1 DEF MadeBefore
  <2>2. HasRoom(mem)
    BY <2>1, DecoderRoom DEF IInv
  <2> QED
    BY <1>1, <2>1, <2>2, BufferNames DEF IInv, Memory
<1> HIDE DEF n, s
<1>5. /\ t.len = n /\ t.at \in Arrays /\ t \in Slice /\ t.at # 0
      /\ t.at = s.at \/ t.at \notin Used(mem)
  BY <1>3, <1>4, EnsureLenFacts, ArrayFacts DEF Valid
<1>6. \A k \in Nat : Changed(mem, With(k), t.at)
  <2> TAKE k \in Nat
  <2> DEFINE c == Bodies(Position, k)
  <2>1. IsList(c)
    BY <1>2, <1>3, BodyFacts
  <2> HIDE DEF c
  <2> QED
    BY <1>3, <1>4, <2>1, RewriteFacts DEF c
<1>7. Valid(With(n), t) /\ ContentIn(With(n), t) = DataCells
  <2>1. IsList(DataCells) /\ Len(DataCells) = n /\ Bodies(Position, n) = DataCells
    BY <1>2, <1>3, BodyFacts
  <2> DEFINE w == Written(AfterEnsureLen(s, n), t, 0, DataCells)
  <2>2. Valid(w, t) /\ ContentIn(w, t) = DataCells
    BY <1>3, <1>4, <2>1, RewriteFacts
  <2> QED
    BY <2>1, <2>2
<1> HIDE DEF With, t
<1>8. \A c \in Buffers : c # "blockData" => decoder[c].at # t.at
  BY <1>5, OwnArray, BufferNames DEF IInv, s
<1>9. decoder.img.at # t.at
  BY <1>8, BufferNames
<1>10. CASE input.fault = "body"
  <2>1. PICK k \in 0..(n - 1) : Fail(With(k))
    BY <1>1, <1>10
  <2>2. k \in Nat
    BY <1>3
  <2>3. ~Good(input)
    BY <1>10 DEF Good
  <2> QED
    BY <1>1, <1>5, <1>6, <1>9, <2>1, <2>2, <2>3, FailKeeps
<1>11. CASE input.fault # "body"
  <2>1. /\ mem' = With(n)
        /\ local' = [local EXCEPT !.data = t]
        /\ decoder' = [decoder EXCEPT !.blockData = t]
        /\ pc' = IF input.magic = COPY THEN "copy" ELSE "target"
        /\ UNCHANGED <<input, given, outcome, done>>
    BY <1>1, <1>3, <1>11 DEF Goto
  <2>2. /\ decoder' \in [Buffers -> Slice]
        /\ \A c \in Buffers : c # "blockData" => decoder'[c] = decoder[c]
        /\ decoder'.blockData = t
        /\ \A x, y \in Buffers : x # y => Apart(decoder'[x], decoder'[y])
    BY <1>5, <1>8, <2>1, ReplaceBuffer, BufferNames DEF IInv, Types
  <2>3. /\ local' \in [Locals -> Slice] /\ local'.data = t
        /\ \A l \in Locals : l # "data" => local'[l] = local[l]
    BY <1>5, <2>1, BufferNames DEF IInv, Types
  <2>4. Types'
    BY <1>1, <2>1, <2>2, <2>3 DEF IInv, Types, Labels
  <2>5. Changed(mem, mem', t.at) /\ Valid(mem', t)
    BY <1>3, <1>6, <1>7, <2>1
  <2>6. Memory'
    <3>1. MadeBefore' = 6
      BY <2>1 DEF MadeBefore
    <3>2. \A b \in Buffers : decoder'[b] = decoder[b] \/ Valid(mem', decoder'[b])
      BY <2>2, <2>5
    <3>3. \A l \in Locals : local'[l] = local[l] \/ Valid(mem', local'[l])
      BY <2>3, <2>5
    <3>4. given' = decoder'.img
      BY <2>1, <2>2, BufferNames DEF IInv, Memory
    <3> QED
      BY <1>4, <1>5, <2>5, <3>1, <3>2, <3>3, <3>4, MemoryGrows DEF IInv
  <2>7. local'.target = Nil /\ local'.image = Nil
    BY <1>1, <2>3, BufferNames DEF IInv, Stages
  <2>8. BuffersApart'
    <3>1. Apart(local.mipData, local.image)
      BY DEF IInv, BuffersApart
    <3> QED
      BY <1>5, <2>2, <2>3, <2>7, <3>1, BufferNames, ArrayFacts DEF BuffersApart, Apart
  <2>9. HasData'
    <3>1. local'.data.len = input'.stored /\ ContentIn(mem', local'.data) = DataCells'
      BY <1>3, <1>5, <1>7, <2>1, <2>3, SameInput
    <3>2. Away(local'.data, {decoder'.raw, decoder'.img})
      BY <1>5, <1>8, <2>2, <2>3, BufferNames DEF Away
    <3> QED
      BY <3>1, <3>2 DEF HasData
  <2>10. Stages' /\ Passed'
    <3>1. Stages'
      BY <2>1, <2>7, <2>9 DEF Stages
    <3>2. input.magic \in {COPY, LZ4}
      BY <1>2, InputFacts
    <3>3. Passed'
      BY <1>1, <1>11, <2>1, <3>2 DEF IInv, Passed
    <3> QED
      BY <3>1, <3>3
  <2>11. Going
    <3>1. Valid(mem, given) /\ given.at # t.at
      BY <1>9, BufferNames DEF IInv, Memory
    <3>2. ContentIn(mem', given) = ContentIn(mem, given)
      BY <1>4, <1>5, <2>5, <3>1, ChangedFacts
    <3> QED
      BY <1>1, <2>1, <3>2 DEF Going
  <2> QED
    BY <2>4, <2>6, <2>8, <2>10, <2>11 DEF IInv
<1> QED
  BY <1>10, <1>11

(* A legacy input skips no bodies.                                         *)
LEMMA TotalOfNone == Total(<< >>) = 0
<1> DEFINE n == Len(<< >>)
           f == CHOOSE g : g = [k \in 0..n |-> IF k = 0 THEN 0 ELSE g[k - 1] + << >>[k]]
<1>1. n = 0
  OBVIOUS
<1>2. Total(<< >>) = f[n]
  BY DEF Total
<1>3. \E g : SumsTo(g, << >>, n)
  BY <1>1, SumExists
<1>4. SumsTo(f, << >>, n)
  BY <1>3 DEF SumsTo
<1> HIDE DEF f
<1>5. f[0] = 0
  BY <1>1, <1>4 DEF SumsTo
<1> QED
  BY <1>1, <1>2, <1>5

(* A blob is read into an array of its own.                                *)
LEMMA ReadBlobKeeps ==
  ASSUME IInv, ReadBlob
  PROVE  IInv' /\ (Going \/ Refused)
<1> DEFINE n == input.stored
           t == Made(n)
           m == Written(AfterMake(n), t, 0, Bodies(0, n))
<1>1. /\ pc = "blob"
      /\ IF input.fault = "body"
           THEN Fail(mem)
           ELSE /\ mem' = m
                /\ local' = [local EXCEPT !.data = t]
                /\ Goto("target")
                /\ UNCHANGED <<decoder, done>>
  BY DEF ReadBlob
<1>2. input \in Inputs /\ local = NoLocals /\ input.legacy
  BY <1>1 DEF IInv, Types, Stages, Passed
<1>3. n \in Nat \ {0} /\ Total(input.skips) = 0
  BY <1>2, InputFacts, TotalOfNone
<1>4. MemoryOK(mem) /\ Valid(mem, Nil) /\ HasRoom(mem) /\ MadeBefore = 4
  <2>1. MadeBefore = 4
    BY <1>1 DEF MadeBefore
  <2>2. HasRoom(mem)
    BY <2>1, DecoderRoom DEF IInv
  <2> QED
    BY <1>1, <2>1, <2>2, NilValid DEF IInv, Memory
<1>5. /\ Changed(mem, m, t.at) /\ Valid(m, t) /\ t.len = n /\ t.at \in Arrays
      /\ t.at \notin Used(mem) /\ ContentIn(m, t) = DataCells
  <2>1. EnsureLen(Nil, n) = t /\ AfterEnsureLen(Nil, n) = AfterMake(n)
    BY <1>3, MadeFacts
  <2>2. IsList(DataCells) /\ Len(DataCells) = n /\ Bodies(0, n) = DataCells
    BY <1>2, <1>3, BodyFacts
  <2> HIDE DEF t, n
  <2>3. m = Written(AfterEnsureLen(Nil, n), EnsureLen(Nil, n), 0, DataCells)
    BY <2>1, <2>2
  <2> DEFINE u == EnsureLen(Nil, n)
             w == Written(AfterEnsureLen(Nil, n), u, 0, DataCells)
  <2>4. /\ Changed(mem, w, u.at) /\ Valid(w, u) /\ u.len = n /\ u.at \in Arrays
        /\ u.at = Nil.at \/ u.at \notin Used(mem)
        /\ ContentIn(w, u) = DataCells
    BY <1>3, <1>4, <2>2, RewriteFacts
  <2> QED
    BY <2>1, <2>3, <2>4, ArrayFacts
<1> HIDE DEF m, t, n
<1>6. t.at # 0 /\ t \in Slice /\ \A c \in Buffers : decoder[c].at # t.at
  BY <1>5, NewArray, ArrayFacts DEF IInv, Valid
<1>7. CASE input.fault = "body"
  BY <1>1, <1>7, PlainFailKeeps DEF Good
<1>8. CASE input.fault # "body"
  <2>1. /\ mem' = m
        /\ local' = [local EXCEPT !.data = t]
        /\ pc' = "target"
        /\ UNCHANGED <<input, given, outcome, done, decoder>>
    BY <1>1, <1>8 DEF Goto
  <2>2. /\ local' \in [Locals -> Slice] /\ local'.data = t
        /\ \A l \in Locals : l # "data" => local'[l] = Nil
    BY <1>2, <1>6, <2>1, BufferNames DEF IInv, Types
  <2>3. Types'
    BY <1>1, <2>1, <2>2 DEF IInv, Types, Labels
  <2>4. Memory'
    <3>1. MadeBefore' = 6
      BY <2>1 DEF MadeBefore
    <3>2. \A l \in Locals : local'[l] = local[l] \/ Valid(mem', local'[l])
      BY <1>2, <1>5, <2>1, <2>2, BufferNames
    <3>3. given' = decoder'.img
      BY <2>1 DEF IInv, Memory
    <3> QED
      BY <1>4, <1>5, <2>1, <3>1, <3>2, <3>3, MemoryGrows DEF IInv
  <2>5. BuffersApart'
    BY <1>6, <2>1, <2>2, BufferNames, ArrayFacts DEF IInv, BuffersApart, Apart
  <2>6. HasData'
    <3>1. local'.data.len = input'.stored /\ ContentIn(mem', local'.data) = DataCells'
      BY <1>5, <2>1, <2>2, SameInput DEF n
    <3>2. Away(local'.data, {decoder'.raw, decoder'.img})
      BY <1>6, <2>1, <2>2, BufferNames DEF Away
    <3> QED
      BY <3>1, <3>2 DEF HasData
  <2>7. Stages' /\ Passed'
    <3>1. input.fault # "table" /\ input.fault # "bodies"
      BY <1>2, InputFacts
    <3> QED
      BY <1>1, <1>2, <1>8, <2>1, <2>2, <2>6, <3>1, BufferNames DEF IInv, Stages, Passed
  <2>8. Going
    <3>1. Valid(mem, given) /\ given.at # t.at
      BY <1>6, BufferNames DEF IInv, Memory
    <3>2. ContentIn(mem', given) = ContentIn(mem, given)
      BY <1>4, <1>5, <2>1, <3>1, ChangedFacts
    <3> QED
      BY <1>1, <2>1, <3>2 DEF Going
  <2> QED
    BY <2>3, <2>4, <2>5, <2>7, <2>8 DEF IInv
<1> QED
  BY <1>7, <1>8

(* A raw body is copied to a payload that is not its own array.            *)
LEMMA CopyBodyKeeps ==
  ASSUME IInv, CopyBody
  PROVE  IInv' /\ (Going \/ Refused)
<1> DEFINE n == input.size
           s == decoder.raw
           t == EnsureLen(s, n)
           m == Written(AfterEnsureLen(s, n), t, 0, Content(local.data))
<1>1. /\ pc = "copy"
      /\ IF local.data.len # n
           THEN Fail(mem)
           ELSE Decompressed(t) /\ mem' = m
  BY DEF CopyBody, RawBuffer
<1>2. input \in Inputs /\ HasData /\ input.magic = COPY
  BY <1>1 DEF IInv, Types, Stages, Passed
<1>3. n \in Nat \ {0} /\ local.data.len = input.stored
      /\ (input.stored = input.size) = (input.fault # "inflate")
  BY <1>2, InputFacts DEF HasData
<1>4. CASE local.data.len # n
  <2>1. input.fault = "inflate"
    BY <1>3, <1>4
  <2> QED
    BY <1>1, <1>4, <2>1, PlainFailKeeps DEF Good
<1>5. CASE local.data.len = n
  <2>1. MemoryOK(mem) /\ Valid(mem, s) /\ HasRoom(mem) /\ MadeBefore = 6
    <3>1. MadeBefore = 6
      BY <1>1 DEF MadeBefore
    <3>2. HasRoom(mem)
      BY <3>1, DecoderRoom DEF IInv
    <3> QED
      BY <1>1, <3>1, <3>2, BufferNames DEF IInv, Memory
  <2>2. Content(local.data) = RawCells
    <3>1. Content(local.data) = DataCells
      BY <1>2 DEF HasData, Content, ContentIn
    <3>2. DataCells = RawCells
      BY <1>2, <1>3, <1>5 DEF DataCells, RawCells
    <3> QED
      BY <3>1, <3>2
  <2>3. /\ Changed(mem, m, t.at) /\ Valid(m, t) /\ t.len = n /\ t.at \in Arrays
        /\ t.at = s.at \/ t.at \notin Used(mem)
        /\ ContentIn(m, t) = RawCells
    <3>1. IsList(RawCells) /\ Len(RawCells) = n
      BY <1>3 DEF IsList, RawCells
    <3> DEFINE w == Written(AfterEnsureLen(s, n), t, 0, RawCells)
    <3>2. /\ Changed(mem, w, t.at) /\ Valid(w, t) /\ t.len = n /\ t.at \in Arrays
          /\ t.at = s.at \/ t.at \notin Used(mem)
          /\ ContentIn(w, t) = RawCells
      BY <1>3, <2>1, <3>1, RewriteFacts
    <3>3. m = w
      BY <2>2
    <3> QED
      BY <3>2, <3>3
  <2> HIDE DEF m, t, s, n
  <2>4. t.at # 0 /\ t \in Slice
    BY <2>3, ArrayFacts DEF Valid
  <2>5. \A c \in Buffers : c # "raw" => decoder[c].at # t.at
    BY <2>3, OwnArray, BufferNames DEF IInv, s
  <2>6. /\ mem' = m /\ local' = [local EXCEPT !.mipData = t] /\ decoder' = [decoder EXCEPT !.raw = t]
        /\ done' = 0 /\ pc' = "image" /\ UNCHANGED <<input, given, outcome>>
    BY <1>1, <1>5 DEF Decompressed, Goto
  <2>7. /\ decoder' \in [Buffers -> Slice]
        /\ \A c \in Buffers : c # "raw" => decoder'[c] = decoder[c]
        /\ decoder'.raw = t
        /\ \A x, y \in Buffers : x # y => Apart(decoder'[x], decoder'[y])
    BY <2>4, <2>5, <2>6, ReplaceBuffer, BufferNames DEF IInv, Types
  <2>8. /\ local' \in [Locals -> Slice] /\ local'.mipData = t
        /\ \A l \in Locals : l # "mipData" => local'[l] = local[l]
    BY <2>4, <2>6, BufferNames DEF IInv, Types
  <2>9. Types'
    BY <1>1, <2>6, <2>7, <2>8 DEF IInv, Types, Labels
  <2>10. Memory'
    <3>1. MadeBefore' = 7
      BY <2>6 DEF MadeBefore
    <3>2. \A b \in Buffers : decoder'[b] = decoder[b] \/ Valid(mem', decoder'[b])
      BY <2>3, <2>6, <2>7
    <3>3. \A l \in Locals : local'[l] = local[l] \/ Valid(mem', local'[l])
      BY <2>3, <2>6, <2>8
    <3>4. given' = decoder'.img
      BY <2>6, <2>7, BufferNames DEF IInv, Memory
    <3> QED
      BY <2>1, <2>3, <2>6, <3>1, <3>2, <3>3, <3>4, MemoryGrows DEF IInv
  <2>11. local'.image = Nil
    BY <1>1, <2>8, BufferNames DEF IInv, Stages
  <2>12. BuffersApart'
    <3>1. Apart(local'.data, local'.target)
      BY <2>8, BufferNames DEF IInv, BuffersApart
    <3>2. Apart(local'.mipData, local'.image)
      BY <2>4, <2>8, <2>11, ArrayFacts DEF Apart
    <3> QED
      BY <2>7, <3>1, <3>2 DEF BuffersApart, Apart
  <2>13. HasPayload'
    <3>1. local'.mipData.len = input'.size /\ ContentIn(mem', local'.mipData) = RawCells'
      BY <2>3, <2>6, <2>8, SameInput DEF n
    <3>2. Away(local'.mipData, {decoder'.img})
      BY <2>4, <2>5, <2>7, <2>8, BufferNames DEF Away
    <3> QED
      BY <3>1, <3>2 DEF HasPayload
  <2>14. Stages' /\ Passed'
    <3>1. input.fault # "inflate"
      BY <1>3, <1>5 DEF n
    <3> QED
      BY <1>1, <2>6, <2>11, <2>13, <3>1 DEF IInv, Stages, Passed
  <2>15. Going
    <3>1. Valid(mem, given) /\ given.at # t.at
      BY <2>5, BufferNames DEF IInv, Memory
    <3>2. ContentIn(mem', given) = ContentIn(mem, given)
      BY <2>1, <2>3, <2>6, <3>1, ChangedFacts
    <3> QED
      BY <1>1, <2>6, <3>2 DEF Going
  <2> QED
    BY <2>9, <2>10, <2>12, <2>14, <2>15 DEF IInv
<1> QED
  BY <1>4, <1>5

(* The target of the inflation is apart from the body it reads.            *)
LEMMA MakeTargetKeeps ==
  ASSUME IInv, MakeTarget
  PROVE  IInv' /\ (Going \/ Refused)
<1> DEFINE n == input.size
           s == decoder.raw
           t == EnsureLen(s, n)
           m == AfterEnsureLen(s, n)
<1>1. /\ pc = "target" /\ mem' = m /\ local' = [local EXCEPT !.target = t]
      /\ pc' = "inflate" /\ UNCHANGED <<decoder, done, input, given, outcome>>
  BY DEF MakeTarget, RawBuffer, Goto
<1>2. input \in Inputs /\ HasData
  BY <1>1 DEF IInv, Types, Stages
<1>3. n \in Nat \ {0}
  BY <1>2, InputFacts
<1>4. MemoryOK(mem) /\ Valid(mem, s) /\ HasRoom(mem) /\ MadeBefore = 6
  <2>1. MadeBefore = 6
    BY <1>1 DEF MadeBefore
  <2>2. HasRoom(mem)
    BY <2>1, DecoderRoom DEF IInv
  <2> QED
    BY <1>1, <2>1, <2>2, BufferNames DEF IInv, Memory
<1>5. /\ Changed(mem, m, t.at) /\ Valid(m, t) /\ t.len = n /\ t.at \in Arrays
      /\ t.at = s.at \/ t.at \notin Used(mem)
  BY <1>3, <1>4, EnsureLenFacts
<1> HIDE DEF m, t, n, s
<1>6. t.at # 0 /\ t \in Slice
  BY <1>5, ArrayFacts DEF Valid
<1>7. \A c \in Buffers : c # "raw" => decoder[c].at # t.at
  BY <1>5, OwnArray, BufferNames DEF IInv, s
<1>8. local.data.at # t.at /\ local.data.at # 0
  BY <1>2, <1>5, NewArray, BufferNames DEF HasData, Away, IInv, s
<1>9. /\ local' \in [Locals -> Slice] /\ local'.target = t
      /\ \A l \in Locals : l # "target" => local'[l] = local[l]
  BY <1>1, <1>6, BufferNames DEF IInv, Types
<1>10. Types'
  BY <1>1, <1>9 DEF IInv, Types, Labels
<1>11. Memory'
  <2>1. MadeBefore' = 7
    BY <1>1 DEF MadeBefore
  <2>2. \A l \in Locals : local'[l] = local[l] \/ Valid(mem', local'[l])
    BY <1>1, <1>5, <1>9
  <2>3. given' = decoder'.img
    BY <1>1 DEF IInv, Memory
  <2> QED
    BY <1>1, <1>4, <1>5, <2>1, <2>2, <2>3, MemoryGrows DEF IInv
<1>12. BuffersApart'
  <2>1. Apart(local'.data, local'.target)
    BY <1>8, <1>9, BufferNames DEF Apart
  <2>2. Apart(local'.mipData, local'.image)
    BY <1>9, BufferNames DEF IInv, BuffersApart
  <2> QED
    BY <1>1, <2>1, <2>2 DEF IInv, BuffersApart, Apart
<1>13. HasData'
  <2>1. Valid(mem, local.data)
    BY BufferNames DEF IInv, Memory
  <2>2. ContentIn(mem', local.data) = ContentIn(mem, local.data)
    BY <1>1, <1>4, <1>5, <1>8, <2>1, ChangedFacts
  <2> QED
    BY <1>1, <1>2, <1>9, <2>2, SameInput, BufferNames DEF HasData
<1>14. HasTarget'
  <2>1. local'.target.len = input'.size /\ done' = 0
    BY <1>1, <1>5, <1>9 DEF n, IInv, Types
  <2>2. Away(local'.target, {local'.data, decoder'.blockTable, decoder'.blockData, decoder'.img})
    BY <1>1, <1>6, <1>7, <1>8, <1>9, BufferNames DEF Away
  <2>3. done' <= input'.size
    BY <1>1, <1>3, <2>1 DEF n
  <2>4. 1..done' = {}
    BY <2>1
  <2> QED
    BY <2>1, <2>2, <2>3, <2>4 DEF HasTarget
<1>15. local'.image = Nil
  BY <1>1, <1>9, BufferNames DEF IInv, Stages
<1>16. Stages' /\ Passed'
  BY <1>1, <1>13, <1>14, <1>15 DEF IInv, Stages, Passed
<1>17. Going
  <2>1. Valid(mem, given) /\ given.at # t.at
    BY <1>7, BufferNames DEF IInv, Memory
  <2>2. ContentIn(mem', given) = ContentIn(mem, given)
    BY <1>1, <1>4, <1>5, <2>1, ChangedFacts
  <2> QED
    BY <1>1, <2>2 DEF Going
<1> QED
  BY <1>10, <1>11, <1>12, <1>16, <1>17 DEF IInv

(* One unit of the payload more, from the unit of the body that it is for. *)
LEMMA InflateUnitKeeps ==
  ASSUME IInv, InflateUnit
  PROVE  IInv' /\ (Going \/ Refused)
<1> DEFINE k == done + 1
           t == local.target
           cell == Inflated(Content(local.data)[Source(k)], k)
           m == Written(mem, t, done, <<cell>>)
<1>1. /\ pc = "inflate" /\ done < input.size /\ mem' = m /\ done' = k
      /\ pc' = "inflate" /\ UNCHANGED <<decoder, local, input, given, outcome>>
  BY DEF InflateUnit, Goto
<1>2. /\ input \in Inputs /\ HasData /\ HasTarget /\ done \in Nat /\ MemoryOK(mem)
      /\ Valid(mem, t) /\ MadeBefore = 7 /\ MadeBefore' = 7
  BY <1>1, BufferNames DEF IInv, Types, Stages, Memory, MadeBefore
<1>3. input.size \in Nat \ {0} /\ k \in 1..input.size
  BY <1>1, <1>2, InputFacts
<1>4. t.len = input.size /\ t.at # 0 /\ t.at \in Arrays /\ t.at \in Used(mem)
      /\ input.size <= Len(mem[t.at]) /\ Len(mem[t.at]) \in Nat
  <2>1. t.len = input.size /\ t.at # 0
    BY <1>2 DEF HasTarget, Away
  <2>2. t.at \in Used(mem) /\ t.len <= Len(mem[t.at])
    BY <1>2, <2>1 DEF Valid
  <2> QED
    BY <1>2, <2>1, <2>2 DEF Used, MemoryOK, IsList
<1>5. IsList(<<cell>>) /\ Len(<<cell>>) = 1 /\ <<cell>>[1] = cell
  <2> HIDE DEF cell
  <2> QED
    BY DEF IsList
<1> HIDE DEF cell, t
<1>6. /\ Changed(mem, m, t.at) /\ StandIn(m[t.at], done, <<cell>>)
      /\ SameAround(m[t.at], mem[t.at], done, <<cell>>)
  BY <1>2, <1>4, <1>5, WrittenFacts
<1> HIDE DEF m
<1>7. m[t.at][k] = cell
  BY <1>5, <1>6 DEF StandIn
<1>8. /\ Valid(m, t)
      /\ ContentIn(m, t) = [j \in 1..input.size |-> m[t.at][j]]
      /\ ContentIn(mem, t) = [j \in 1..input.size |-> mem[t.at][j]]
  BY <1>2, <1>4, <1>6, ChangedFacts, ContentFacts DEF Changed
<1>9. input.magic = LZ4 => cell = Cell("raw", k)
  <2> SUFFICES ASSUME input.magic = LZ4 PROVE cell = Cell("raw", k)
    OBVIOUS
  <2>1. Content(local.data) = DataCells /\ Source(k) \in 1..input.stored /\ input.magic # COPY
    BY <1>2, <1>3, SourceFacts, InputFacts DEF HasData, Content, ContentIn
  <2>2. Content(local.data)[Source(k)] = Cell("stored", Source(k))
    BY <2>1 DEF DataCells
  <2> QED
    BY <2>2 DEF Inflated, cell
<1>10. HasTarget'
  <2>1. input.magic = LZ4 => \A j \in 1..k : ContentIn(m, t)[j] = Cell("raw", j)
    <3> SUFFICES ASSUME input.magic = LZ4, NEW j \in 1..k PROVE ContentIn(m, t)[j] = Cell("raw", j)
      OBVIOUS
    <3>1. j \in 1..input.size /\ j \in Nat
      BY <1>3
    <3>2. CASE j = k
      BY <1>7, <1>8, <1>9, <3>1, <3>2
    <3>3. CASE j # k
      <4>1. j \in 1..done /\ j <= done
        BY <1>2, <3>3
      <4>2. ContentIn(mem, t)[j] = Cell("raw", j)
        BY <1>2, <4>1 DEF HasTarget, t
      <4>3. j \in 1..Len(mem[t.at])
        BY <1>3, <1>4, <3>1
      <4>4. m[t.at][j] = mem[t.at][j]
        BY <1>6, <4>1, <4>3 DEF SameAround
      <4> QED
        BY <1>8, <3>1, <4>2, <4>4
    <3> QED
      BY <3>2, <3>3
  <2>2. k <= input.size
    BY <1>3
  <2>3. \A j : Cell("raw", j)' = Cell("raw", j)
    BY <1>1 DEF Cell
  <2>4. input.magic = LZ4 => \A j \in 1..k : ContentIn(m, t)[j] = Cell("raw", j)'
    BY <2>1, <2>3
  <2> HIDE DEF k
  <2> QED
    BY <1>1, <1>2, <2>2, <2>4 DEF HasTarget, t
<1>11. HasData'
  <2>1. Valid(mem, local.data) /\ local.data.at # t.at
    BY <1>2, BufferNames DEF IInv, Memory, HasTarget, Away, t
  <2>2. ContentIn(m, local.data) = ContentIn(mem, local.data)
    BY <1>2, <1>4, <1>6, <2>1, ChangedFacts
  <2> QED
    BY <1>1, <1>2, <2>2, SameInput DEF HasData
<1>12. Types'
  BY <1>1, <1>2 DEF IInv, Types, Labels
<1>13. Memory'
  <2>1. given' = decoder'.img
    BY <1>1 DEF IInv, Memory
  <2> QED
    BY <1>1, <1>2, <1>4, <1>6, <2>1, MemoryGrows DEF IInv
<1>14. BuffersApart' /\ Passed'
  BY <1>1 DEF IInv, BuffersApart, Apart, Passed
<1>15. Stages'
  BY <1>1, <1>10, <1>11 DEF IInv, Stages
<1>16. Going
  <2>1. Valid(mem, given) /\ given.at # t.at
    BY <1>2, BufferNames DEF IInv, Memory, HasTarget, Away, t
  <2>2. ContentIn(m, given) = ContentIn(mem, given)
    BY <1>2, <1>4, <1>6, <2>1, ChangedFacts
  <2> QED
    BY <1>1, <2>2 DEF Going
<1> QED
  BY <1>12, <1>13, <1>14, <1>15, <1>16 DEF IInv

(* The payload is complete, in an array that keeps it.                     *)
LEMMA PayloadKeeps ==
  ASSUME IInv, pc = "inflate", pc' = "image", NEW l \in {"data", "target"},
         Away(local[l], {decoder.img}), local[l].len = input.size,
         ContentIn(mem, local[l]) = RawCells, input.fault # "inflate",
         local' = [local EXCEPT !.mipData = local[l]], done' = 0,
         UNCHANGED <<mem, input, given, outcome>>,
         /\ decoder' \in [Buffers -> Slice]
         /\ decoder'.img = decoder.img
         /\ \A b \in Buffers : decoder'[b] = decoder[b] \/ decoder'[b] = local[l]
         /\ \A x, y \in Buffers : x # y => Apart(decoder'[x], decoder'[y])
  PROVE  IInv' /\ Going
<1> DEFINE s == local[l]
<1>1. l \in Locals /\ MemoryOK(mem) /\ Valid(mem, s) /\ s.at # 0 /\ s \in Slice
  BY DEF Locals, IInv, Memory, Away, Valid
<1>2. s.at \in Used(mem) /\ s.at \in Arrays
  BY <1>1 DEF Valid, Used
<1>3. Changed(mem, mem, s.at)
  BY <1>1, <1>2 DEF Changed, MemoryOK, IsList
<1> HIDE DEF s
<1>4. /\ local' \in [Locals -> Slice] /\ local'.mipData = s
      /\ \A x \in Locals : x # "mipData" => local'[x] = local[x]
  BY <1>1, BufferNames DEF IInv, Types, s
<1>5. Types'
  BY <1>4 DEF IInv, Types, Labels
<1>6. Memory'
  <2>1. MadeBefore = 7 /\ MadeBefore' = 7
    BY DEF MadeBefore
  <2>2. \A b \in Buffers : decoder'[b] = decoder[b] \/ Valid(mem', decoder'[b])
    BY <1>1 DEF s
  <2>3. \A x \in Locals : local'[x] = local[x] \/ Valid(mem', local'[x])
    BY <1>1, <1>4
  <2>4. given' = decoder'.img
    BY DEF IInv, Memory
  <2> QED
    BY <1>2, <1>3, <2>1, <2>2, <2>3, <2>4, MemoryGrows DEF IInv
<1>7. local'.image = Nil
  BY <1>4, BufferNames DEF IInv, Stages
<1>8. BuffersApart'
  <2>1. Apart(local'.data, local'.target)
    BY <1>4, BufferNames DEF IInv, BuffersApart
  <2>2. Apart(local'.mipData, local'.image)
    BY <1>1, <1>4, <1>7, ArrayFacts DEF Apart
  <2> QED
    BY <2>1, <2>2 DEF BuffersApart, Apart
<1>9. HasPayload'
  BY <1>4, SameInput DEF HasPayload, Away, s
<1>10. Stages' /\ Passed'
  BY <1>7, <1>9 DEF IInv, Stages, Passed
<1> QED
  BY <1>5, <1>6, <1>8, <1>10 DEF IInv, Going

(* The payload has a unit for each of its body.                            *)
LEMMA InflateEndsKeeps ==
  ASSUME IInv, InflateEnds
  PROVE  IInv' /\ (Going \/ Refused)
<1> DEFINE t == local.target
<1>1. /\ pc = "inflate" /\ done = input.size /\ input.fault # "inflate" /\ input.magic = LZ4
      /\ local' = [local EXCEPT !.mipData = t] /\ decoder' = [decoder EXCEPT !.raw = t]
      /\ done' = 0 /\ pc' = "image" /\ UNCHANGED <<mem, input, given, outcome>>
  BY DEF InflateEnds, Inflatable, Decompressed, Goto
<1>2. input \in Inputs /\ HasTarget /\ Valid(mem, t) /\ MemoryOK(mem)
  BY <1>1, BufferNames DEF IInv, Types, Stages, Memory
<1>3. /\ t.len = input.size /\ t.at # 0 /\ t \in Slice
      /\ \A k \in 1..input.size : ContentIn(mem, t)[k] = Cell("raw", k)
  BY <1>1, <1>2 DEF HasTarget, Away, Valid
<1>4. ContentIn(mem, t) = RawCells
  <2> DEFINE c == ContentIn(mem, t)
  <2>1. IsList(c) /\ Len(c) = input.size
    BY <1>2, <1>3, ContentFacts
  <2>2. \A k \in 1..input.size : c[k] = Cell("raw", k)
    BY <1>3
  <2> HIDE DEF c
  <2>3. c = RawCells
    BY <2>1, <2>2 DEF IsList, RawCells
  <2> QED
    BY <2>3 DEF c
<1>5. \A c \in Buffers : c # "raw" => decoder[c].at # t.at
  BY <1>2, BufferNames DEF HasTarget, Away
<1>6. /\ decoder' \in [Buffers -> Slice]
      /\ \A c \in Buffers : c # "raw" => decoder'[c] = decoder[c]
      /\ decoder'.raw = t
      /\ \A x, y \in Buffers : x # y => Apart(decoder'[x], decoder'[y])
  BY <1>1, <1>3, <1>5, ReplaceBuffer, BufferNames DEF IInv, Types
<1>7. decoder'.img = decoder.img /\ \A b \in Buffers : decoder'[b] = decoder[b] \/ decoder'[b] = t
  BY <1>6, BufferNames
<1>8. Away(t, {decoder.img})
  BY <1>3, <1>5, BufferNames DEF Away
<1> QED
  BY <1>1, <1>3, <1>4, <1>6, <1>7, <1>8, PayloadKeeps

(* A blob that does not inflate is taken for raw data, or the call fails.  *)
LEMMA InflateFailsKeeps ==
  ASSUME IInv, InflateFails
  PROVE  IInv' /\ (Going \/ Refused)
<1> DEFINE s == local.data
<1>1. pc = "inflate" /\ ~Inflatable
  BY DEF InflateFails
<1>2. input \in Inputs /\ HasData /\ (input.magic = LZ4 \/ input.legacy)
  BY <1>1 DEF IInv, Types, Stages, Passed
<1>3. /\ input.magic \in {COPY, LZ4} /\ s.len = input.stored
      /\ input.magic = COPY => (input.stored = input.size) = (input.fault # "inflate")
      /\ input.legacy => (input.fault = "inflate" => input.stored # input.size)
  BY <1>2, InputFacts DEF HasData
<1>4. CASE input.legacy /\ s.len = input.size
  <2>1. input.fault # "inflate" /\ input.magic = COPY /\ input.stored = input.size
    BY <1>1, <1>3, <1>4 DEF Inflatable
  <2>2. /\ local' = [local EXCEPT !.mipData = s] /\ done' = 0 /\ pc' = "image"
        /\ UNCHANGED <<mem, decoder, input, given, outcome>>
    BY <1>4 DEF InflateFails, Goto
  <2>3. ContentIn(mem, s) = RawCells
    BY <1>2, <2>1 DEF HasData, DataCells, RawCells
  <2>4. Away(s, {decoder.img})
    BY <1>2 DEF HasData, Away
  <2>5. /\ decoder' \in [Buffers -> Slice]
        /\ \A x, y \in Buffers : x # y => Apart(decoder'[x], decoder'[y])
    BY <2>2 DEF IInv, Types, BuffersApart
  <2> QED
    BY <1>1, <1>4, <2>1, <2>2, <2>3, <2>4, <2>5, PayloadKeeps
<1>5. CASE ~(input.legacy /\ s.len = input.size)
  <2>1. Fail(mem)
    BY <1>5 DEF InflateFails
  <2>2. input.fault = "inflate"
    BY <1>1, <1>2, <1>3, <1>5 DEF Inflatable
  <2> QED
    BY <1>1, <2>1, <2>2, PlainFailKeeps DEF Good
<1> QED
  BY <1>4, <1>5

(* The image is the Decoder's or a new one, and apart from the payload.    *)
LEMMA MakeImageKeeps ==
  ASSUME IInv, MakeImage
  PROVE  IInv' /\ (Going \/ Refused)
<1> DEFINE n == input.size
<1>1. /\ pc = "image" /\ pc' = "draw" /\ UNCHANGED <<decoder, done, input, given, outcome>>
      /\ \/ /\ Fits(decoder.img, n)
            /\ local' = [local EXCEPT !.image = EnsureLen(decoder.img, n)]
            /\ UNCHANGED mem
         \/ /\ local' = [local EXCEPT !.image = Made(n)]
            /\ mem' = AfterMake(n)
  BY DEF MakeImage, Goto
<1>2. input \in Inputs /\ HasPayload
  BY <1>1 DEF IInv, Types, Stages
<1>3. n \in Nat \ {0}
  BY <1>2, InputFacts
<1>4. MemoryOK(mem) /\ Valid(mem, decoder.img) /\ Valid(mem, Nil) /\ HasRoom(mem) /\ MadeBefore = 7
  <2>1. MadeBefore = 7
    BY <1>1 DEF MadeBefore
  <2>2. HasRoom(mem)
    BY <2>1, DecoderRoom DEF IInv
  <2> QED
    BY <1>1, <2>1, <2>2, NilValid, BufferNames DEF IInv, Memory
<1>5. PICK s \in {decoder.img, Nil} :
        mem' = AfterEnsureLen(s, n) /\ local' = [local EXCEPT !.image = EnsureLen(s, n)]
  <2>1. Fits(decoder.img, n) => AfterEnsureLen(decoder.img, n) = mem
    BY DEF AfterEnsureLen
  <2>2. EnsureLen(Nil, n) = Made(n) /\ AfterEnsureLen(Nil, n) = AfterMake(n)
    BY <1>3, MadeFacts
  <2> QED
    BY <1>1, <2>1, <2>2
<1> DEFINE t == EnsureLen(s, n)
           m == AfterEnsureLen(s, n)
<1>6. Valid(mem, s)
  BY <1>4, <1>5
<1>7. /\ Changed(mem, m, t.at) /\ Valid(m, t) /\ t.len = n /\ t.at \in Arrays
      /\ t.at = s.at \/ t.at \notin Used(mem)
      /\ \A a \in Used(mem) : m[a] = mem[a]
  BY <1>3, <1>4, <1>6, EnsureLenFacts
<1>8. mem' = m /\ local' = [local EXCEPT !.image = t]
  BY <1>5
<1> HIDE DEF m, t, n
<1>9. t.at # 0 /\ t \in Slice /\ (t.at = decoder.img.at \/ t.at \notin Used(mem))
  BY <1>5, <1>7, ArrayFacts DEF Valid
<1>10. \A c \in Buffers : c # "img" => decoder[c].at # t.at
  BY <1>7, <1>9, OwnArray, BufferNames DEF IInv
<1>11. local.mipData.at # t.at
  BY <1>2, <1>7, <1>9, NewArray, BufferNames DEF HasPayload, Away, IInv
<1>12. /\ local' \in [Locals -> Slice] /\ local'.image = t
       /\ \A l \in Locals : l # "image" => local'[l] = local[l]
  BY <1>8, <1>9, BufferNames DEF IInv, Types
<1>13. Types'
  BY <1>1, <1>12 DEF IInv, Types, Labels
<1>14. Memory'
  <2>1. MadeBefore' = 8
    BY <1>1 DEF MadeBefore
  <2>2. \A l \in Locals : local'[l] = local[l] \/ Valid(mem', local'[l])
    BY <1>7, <1>8, <1>12
  <2>3. given' = decoder'.img
    BY <1>1 DEF IInv, Memory
  <2> QED
    BY <1>1, <1>4, <1>7, <1>8, <2>1, <2>2, <2>3, MemoryGrows DEF IInv
<1>15. BuffersApart'
  <2>1. Apart(local'.data, local'.target)
    BY <1>12, BufferNames DEF IInv, BuffersApart
  <2>2. Apart(local'.mipData, local'.image)
    BY <1>11, <1>12, BufferNames DEF Apart
  <2> QED
    BY <1>1, <2>1, <2>2 DEF IInv, BuffersApart, Apart
<1>16. HasPayload'
  <2>1. Valid(mem, local.mipData)
    BY BufferNames DEF IInv, Memory
  <2>2. ContentIn(mem', local.mipData) = ContentIn(mem, local.mipData)
    BY <1>4, <1>7, <1>8, <1>11, <2>1, ChangedFacts
  <2> QED
    BY <1>1, <1>2, <1>12, <2>2, SameInput, BufferNames DEF HasPayload
<1>17. HasImage' /\ Away(local'.image, {local'.mipData})
  <2>1. local'.image.len = input'.size
    BY <1>1, <1>7, <1>12 DEF n
  <2>2. Away(local'.image, {decoder'.blockTable, decoder'.blockData, decoder'.raw})
    BY <1>1, <1>9, <1>10, <1>12, BufferNames DEF Away
  <2>3. Away(local'.image, {local'.mipData})
    BY <1>9, <1>11, <1>12, BufferNames DEF Away
  <2> QED
    BY <2>1, <2>2, <2>3 DEF HasImage
<1>18. Stages' /\ Passed'
  BY <1>1, <1>16, <1>17 DEF IInv, Stages, Passed
<1>19. Going
  <2>1. Valid(mem, given)
    BY BufferNames DEF IInv, Memory
  <2>2. given.at # 0 => given.at \in Used(mem)
    BY <2>1 DEF Valid
  <2>3. Cells(m, given) = Cells(mem, given)
    BY <1>7, <2>2 DEF Cells
  <2> QED
    BY <1>1, <1>8, <2>3 DEF Going, ContentIn
<1> QED
  BY <1>13, <1>14, <1>15, <1>18, <1>19 DEF IInv

(* Every pixel is decoded from the payload of this call.                   *)
LEMMA DrawKeeps ==
  ASSUME IInv, Draw
  PROVE  IInv' /\ (Going \/ Refused)
<1> DEFINE t == local.image
           pixels(k) == [j \in 1..k |-> Pixel(Content(local.mipData)[j], j)]
           With(k) == Written(mem, t, 0, pixels(k))
<1>1. /\ pc = "draw"
      /\ IF input.fault = "image"
           THEN \E k \in 0..input.size : Fail(With(k))
           ELSE mem' = With(input.size) /\ Goto("return") /\ UNCHANGED <<decoder, local, done>>
  BY DEF Draw
<1>2. /\ input \in Inputs /\ HasPayload /\ HasImage /\ Away(t, {local.mipData})
      /\ MemoryOK(mem) /\ Valid(mem, t)
  BY <1>1, BufferNames DEF IInv, Types, Stages, Memory
<1>3. t.at \in Arrays /\ t.at \in Used(mem) /\ t.len = input.size /\ t.at # 0
  BY <1>2 DEF HasImage, Away, Valid, Used
<1>4. input.size \in Nat
  BY <1>2, InputFacts
<1> HIDE DEF t
<1>5. \A k \in Nat : IsList(pixels(k)) /\ Len(pixels(k)) = k
  BY DEF IsList
<1> HIDE DEF pixels
<1>6. \A k \in Nat : Changed(mem, With(k), t.at) /\ StandIn(With(k)[t.at], 0, pixels(k))
  BY <1>2, <1>3, <1>5, WrittenFacts
<1> HIDE DEF With
<1>7. CASE input.fault = "image"
  <2>1. PICK k \in 0..input.size : Fail(With(k))
    BY <1>1, <1>7
  <2>2. k \in Nat
    BY <1>4
  <2> QED
    BY <1>1, <1>3, <1>6, <1>7, <2>1, <2>2, FailKeeps DEF Good
<1>8. CASE input.fault # "image"
  <2>1. mem' = With(input.size) /\ pc' = "return"
        /\ UNCHANGED <<decoder, local, done, input, given, outcome>>
    BY <1>1, <1>8 DEF Goto
  <2>2. Changed(mem, mem', t.at)
    BY <1>4, <1>6, <2>1
  <2>3. Types'
    BY <1>1, <2>1 DEF IInv, Types, Labels
  <2>4. Memory'
    <3>1. MadeBefore = 8 /\ MadeBefore' = 8
      BY <1>1, <2>1 DEF MadeBefore
    <3>2. given' = decoder'.img
      BY <2>1 DEF IInv, Memory
    <3> QED
      BY <1>3, <2>1, <2>2, <3>1, <3>2, MemoryGrows DEF IInv
  <2>5. ContentIn(mem', t) = Image(input)
    <3>1. Valid(mem', t)
      BY <1>2, <1>3, <2>2, ChangedFacts
    <3>2. ContentIn(mem', t) = [j \in 1..input.size |-> mem'[t.at][j]]
      BY <1>3, <2>2, <3>1, ContentFacts DEF Changed
    <3>3. \A j \in 1..input.size : mem'[t.at][j] = pixels(input.size)[j]
      <4> TAKE j \in 1..input.size
      <4>1. 0 + j = j /\ j \in 1..Len(pixels(input.size))
        BY <1>4, <1>5
      <4>2. StandIn(mem'[t.at], 0, pixels(input.size))
        BY <1>4, <1>6, <2>1
      <4> QED
        BY <4>1, <4>2 DEF StandIn
    <3>4. \A j \in 1..input.size : pixels(input.size)[j] = Cell("pixel", j)
      <4>1. Content(local.mipData) = RawCells
        BY <1>2 DEF HasPayload, Content, ContentIn
      <4>2. \A j \in 1..input.size : Content(local.mipData)[j] = Cell("raw", j)
        BY <4>1 DEF RawCells
      <4> QED
        BY <4>2 DEF pixels, Pixel
    <3>5. Image(input) = [j \in 1..input.size |-> Cell("pixel", j)]
      BY DEF Image, Cell
    <3> QED
      BY <3>2, <3>3, <3>4, <3>5
  <2>6. HasImage'
    BY <1>2, <2>1 DEF HasImage, Away
  <2>7. Stages' /\ Passed'
    BY <1>1, <1>8, <2>1, <2>5, <2>6, SameInput DEF IInv, Stages, Passed, t
  <2>8. BuffersApart'
    BY <2>1 DEF IInv, BuffersApart, Apart
  <2>9. Going
    BY <1>1, <2>1 DEF Going
  <2> QED
    BY <2>3, <2>4, <2>7, <2>8, <2>9 DEF IInv
<1> QED
  BY <1>7, <1>8

(* The locals are gone, and the arrays that only they held.                *)
LEMMA ReturnKeeps ==
  ASSUME IInv, Return
  PROVE  /\ IInv'
         /\ pc' = "idle" /\ input' = None /\ outcome' = "ok"
         /\ input \in Inputs /\ Good(input)
         /\ ContentIn(mem', given') = Image(input)
<1> DEFINE t == local.image
           kept == [decoder EXCEPT !.img = t]
<1>1. pc = "return" /\ Leave(mem, kept, t) /\ outcome' = "ok"
  BY DEF Return
<1>2. /\ input \in Inputs /\ HasImage /\ ContentIn(mem, t) = Image(input)
      /\ MemoryOK(mem) /\ Valid(mem, t)
  BY <1>1, BufferNames DEF IInv, Types, Stages, Memory
<1>3. t \in Slice /\ \A c \in Buffers : c # "img" => decoder[c].at # t.at
  BY <1>2, BufferNames DEF HasImage, Away, Valid
<1> HIDE DEF t
<1>4. /\ kept \in [Buffers -> Slice] /\ kept.img = t
      /\ \A c \in Buffers : c # "img" => kept[c] = decoder[c]
      /\ \A x, y \in Buffers : x # y => Apart(kept[x], kept[y])
  BY <1>3, ReplaceBuffer, BufferNames DEF IInv, Types
<1>5. \A b \in Buffers : Valid(mem, kept[b])
  BY <1>2, <1>4 DEF IInv, Memory
<1> HIDE DEF kept
<1>6. IInv' /\ ContentIn(mem', given') = ContentIn(mem, t)
  BY <1>1, <1>2, <1>4, <1>5, LeaveKeeps
<1>7. pc' = "idle" /\ input' = None
  BY <1>1 DEF Leave
<1>8. Good(input)
  <2>1. input.fault \in Faults
    BY <1>2, InputFacts
  <2> QED
    BY <1>1, <2>1 DEF IInv, Passed, Good, Faults
<1> QED
  BY <1>1, <1>2, <1>6, <1>7, <1>8

-----------------------------------------------------------------------------
(* The end of a call that succeeds.                                        *)
Returned ==
  /\ pc = "return" /\ pc' = "idle"
  /\ input \in Inputs /\ input' = None
  /\ outcome' = "ok"
  /\ Good(input)
  /\ ContentIn(mem', given') = Image(input)

(* What a step does, seen from the caller.                                 *)
LEMMA StepKeeps ==
  ASSUME IInv, Next
  PROVE  /\ IInv'
         /\ \/ \E i \in Inputs : Begin(i) /\ ContentIn(mem', given') = ContentIn(mem, given)
            \/ Going \/ Refused \/ Returned
<1>1. CASE \E i \in Inputs : Begin(i)
  BY <1>1, BeginKeeps
<1>2. CASE ReadHeaders
  BY <1>2, ReadHeadersKeeps
<1>3. CASE ReadTable
  BY <1>3, ReadTableKeeps
<1>4. CASE SkipBodies
  BY <1>4, SkipBodiesKeeps
<1>5. CASE ReadBody
  BY <1>5, ReadBodyKeeps
<1>6. CASE ReadBlob
  BY <1>6, ReadBlobKeeps
<1>7. CASE CopyBody
  BY <1>7, CopyBodyKeeps
<1>8. CASE MakeTarget
  BY <1>8, MakeTargetKeeps
<1>9. CASE InflateUnit
  BY <1>9, InflateUnitKeeps
<1>10. CASE InflateEnds
  BY <1>10, InflateEndsKeeps
<1>11. CASE InflateFails
  BY <1>11, InflateFailsKeeps
<1>12. CASE MakeImage
  BY <1>12, MakeImageKeeps
<1>13. CASE Draw
  BY <1>13, DrawKeeps
<1>14. CASE Return
  <2>1. pc = "return"
    BY <1>14 DEF Return
  <2> QED
    BY <1>14, <2>1, ReturnKeeps DEF Returned
<1> QED
  BY <1>1, <1>2, <1>3, <1>4, <1>5, <1>6, <1>7, <1>8, <1>9, <1>10, <1>11, <1>12, <1>13, <1>14
     DEF Next

(* Steps of nobody.                                                        *)
LEMMA StutterKeeps ==
  ASSUME IInv, UNCHANGED vars
  PROVE  IInv' /\ ContentIn(mem', given') = ContentIn(mem, given)
<1>1. UNCHANGED <<mem, pc, input, decoder, local, done, given, outcome>>
  BY DEF vars
<1>2. Types' /\ BuffersApart' /\ Passed'
  BY <1>1 DEF IInv, Types, BuffersApart, Apart, Passed
<1>3. Memory'
  BY <1>1 DEF IInv, Memory, MadeBefore
<1>4. Stages'
  BY <1>1, SameInput DEF IInv, Stages, HasTable, HasData, HasTarget, HasPayload, HasImage, Cell
<1> QED
  BY <1>1, <1>2, <1>3, <1>4 DEF IInv

(* The induction.                                                          *)
LEMMA Invariant == Spec => []IInv
<1>1. Init => IInv
  BY InitHolds
<1>2. IInv /\ [Next]_vars => IInv'
  BY StepKeeps, StutterKeeps
<1> QED
  BY <1>1, <1>2, PTL DEF Spec

(* No slice of a Decoder or of its call ever reaches beyond its array,     *)
(* whatever inputs it was given: TypeOK.                                   *)
THEOREM Typed == Spec => []TypeOK
<1>1. IInv => TypeOK
  <2> SUFFICES ASSUME IInv PROVE TypeOK
    OBVIOUS
  <2>1. \A s : Valid(mem, s) => s.len <= Cap(s)
    <3> SUFFICES ASSUME NEW s, Valid(mem, s) PROVE s.len <= Cap(s)
      OBVIOUS
    <3>1. CASE s.at = 0
      <4>1. Cap(s) = Len(<< >>) /\ s.len = 0
        BY <3>1, ArrayFacts DEF Valid, Cap, Cells
      <4>2. Len(<< >>) = 0
        OBVIOUS
      <4> QED
        BY <4>1, <4>2
    <3>2. CASE s.at # 0
      BY <3>2 DEF Valid, Cap, Cells
    <3> QED
      BY <3>1, <3>2
  <2>2. given \in Slice /\ Valid(mem, given)
    BY BufferNames DEF IInv, Memory, Valid
  <2>3. \A s \in {decoder[b] : b \in Buffers} \cup {local[l] : l \in Locals} \cup {given} : Valid(mem, s)
    BY <2>2 DEF IInv, Memory
  <2> QED
    BY <2>1, <2>2, <2>3 DEF TypeOK, IInv, Types
<1> QED
  BY <1>1, Invariant, PTL

(* The block table, the block body, the payload and the image never share  *)
(* an array, and a step never writes to what it reads: BuffersApart.       *)
THEOREM BuffersStayApart == Spec => []BuffersApart
<1>1. IInv => BuffersApart
  BY DEF IInv
<1> QED
  BY <1>1, Invariant, PTL

(* The image in the caller's hands changes when a later call draws, and    *)
(* in no other step: ImageFrozen.                                          *)
THEOREM ImageStays == Spec => ImageFrozen
<1>1. IInv /\ [Next]_vars => [Content(given)' # Content(given) => pc \in {"draw", "return"}]_vars
  <2> SUFFICES ASSUME IInv, Next, ContentIn(mem', given') # ContentIn(mem, given)
               PROVE  pc \in {"draw", "return"}
    BY DEF Content, ContentIn
  <2> QED
    BY StepKeeps DEF Going, Refused, Returned
<1> QED
  BY <1>1, Invariant, PTL DEF Spec, ImageFrozen

(* A used Decoder answers every call as one made for that call would: it   *)
(* gives the input's image, pixel by pixel, when the input is good, and an *)
(* error when it is not, whatever was decoded before, of whatever sizes    *)
(* and however it failed: ImplementsFreshDecoder.                          *)
THEOREM AnswersAsFresh == Spec => ImplementsFreshDecoder
<1> DEFINE shown == IF pc = "idle" /\ outcome = "ok" THEN Content(given) ELSE << >>
<1>1. Init => Promise!Init
  BY DEF Init, Promise!Init
<1>2. IInv /\ [Next]_vars => [Promise!Next]_(Promise!vars)
  <2> SUFFICES ASSUME IInv, [Next]_vars PROVE Promise!Next \/ UNCHANGED Promise!vars
    OBVIOUS
  <2>1. (pc # "idle" => outcome = "none") /\ (input = None) = (pc = "idle")
        /\ Content(given) = ContentIn(mem, given) /\ Content(given)' = ContentIn(mem', given')
        /\ None \notin Inputs
    BY NoneAssumption DEF IInv, Types, Content, ContentIn
  <2>2. CASE UNCHANGED vars
    BY <2>1, <2>2, StutterKeeps DEF vars, Promise!vars
  <2>3. ASSUME NEW i \in Inputs, Begin(i) PROVE Promise!Next
    <3>1. input = None /\ input' = i /\ outcome' = "none" /\ shown' = << >>
      BY <2>1, <2>3 DEF Begin
    <3> QED
      BY <3>1 DEF Promise!Next, Promise!Ask
  <2>4. CASE Going
    BY <2>1, <2>4 DEF Going, Promise!vars
  <2>5. CASE Refused
    <3>1. input # None /\ input' = None /\ outcome' = "error" /\ ~Good(input) /\ shown' = << >>
      BY <2>1, <2>5 DEF Refused
    <3> QED
      BY <3>1 DEF Promise!Next, Promise!Answer
  <2>6. CASE Returned
    <3>1. input # None /\ input' = None /\ outcome' = "ok" /\ Good(input) /\ shown' = Image(input)
      BY <2>1, <2>6 DEF Returned
    <3> QED
      BY <3>1 DEF Promise!Next, Promise!Answer
  <2> QED
    BY <2>2, <2>3, <2>4, <2>5, <2>6, StepKeeps
<1> QED
  BY <1>1, <1>2, Invariant, PTL DEF Spec, ImplementsFreshDecoder, Promise!Spec

=============================================================================
