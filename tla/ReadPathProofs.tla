--------------------------- MODULE ReadPathProofs ---------------------------
(***************************************************************************)
(* The limits of ReadOptions hold for every input, every header and every  *)
(* table, however they are read; a file that this package or an older one  *)
(* wrote is read, and one that is cut short or damaged is not.             *)
(***************************************************************************)
EXTENDS ReadPath, Induction

(* The steps before the first body: nothing is made, nothing is answered.  *)
Parsing == {"open", "headers", "probe", "table", "legacy", "blob"}

CallRuns ==
  /\ pc # "idle" => call \in Calls
  /\ pc = "idle" => limits = Default

NothingMade ==
  /\ pc \notin {"bodies", "done"} => turn = 0
  /\ pc # "done" => held = 0 /\ mipData = << >> /\ outcome = "none"

(* A call parses within its input, from where its input starts.            *)
WithinInput ==
  /\ pc \in Parsing => pos <= InputEnd
  /\ pc \in {"open", "headers"} => pos = call.base
  /\ pc \in {"probe", "legacy"} => pos = call.base + HeaderSize

TableRead ==
  pc = "bodies" => Len(table) = MipMapCount /\ turn < MipMapCount /\ TableWithinLimit

IInv == TypeOK /\ CallRuns /\ NothingMade /\ WithinInput /\ TableRead /\ LimitsHold

-----------------------------------------------------------------------------
(* What is known of a running call.                                        *)
LEMMA CallFacts ==
  ASSUME call \in Calls
  PROVE  /\ call.kind \in Kinds /\ call.base \in Nat /\ call.eager \in BOOLEAN
         /\ call.opts \in [LimitNames -> Int]
         /\ Header \in HeaderType
         /\ Header.dx10 \in BOOLEAN /\ Header.mips \in Nat
         /\ Header.expected \in Nat /\ Header.image \in Nat
         /\ call.units \in Seq(UnitType)
         /\ Len(call.units) \in Nat
         /\ call.kind = "stream" => call.base = 0
         /\ InputEnd \in Nat /\ call.base <= InputEnd
         /\ HeaderSize \in Nat \ {0} /\ MipMapCount \in Nat \ {0}
<1>1. call \in CallType /\ (call.base > 0 => call.kind = "seeker")
  BY CallsAssumption
<1>2. call.kind \in Kinds /\ call.base \in Nat /\ call.eager \in BOOLEAN
      /\ call.opts \in [LimitNames -> Int] /\ call.header \in HeaderType
      /\ call.units \in Seq(UnitType)
  BY <1>1 DEF CallType
<1>3. call.header.dx10 \in BOOLEAN /\ call.header.mips \in Nat
      /\ call.header.expected \in Nat /\ call.header.image \in Nat
      /\ call.header.caps \in BOOLEAN
  BY <1>2 DEF HeaderType
<1>4. Len(call.units) \in Nat
  BY <1>2
<1> QED
  BY <1>1, <1>2, <1>3, <1>4, LengthsAssumption
     DEF Header, InputEnd, HeaderSize, MipMapCount, MipMaps, Kinds

(* The limits of a call are positive, whatever its options leave open.     *)
LEMMA LimitFacts ==
  ASSUME limits \in [LimitNames -> Nat \ {0}]
  PROVE  /\ limits.mips \in Nat \ {0} /\ limits.block \in Nat \ {0}
         /\ limits.decoded \in Nat \ {0} /\ limits.image \in Nat \ {0}
         /\ limits.input \in Nat \ {0}
BY DEF LimitNames

(* normalizeReadOptions leaves no limit below 1.                           *)
LEMMA NormalizedFacts ==
  ASSUME NEW opts \in [LimitNames -> Int], ValidOptions(opts)
  PROVE  Normalized(opts) \in [LimitNames -> Nat \ {0}]
BY DefaultAssumption DEF ValidOptions, Normalized

(* What a call may read is within its input.                               *)
LEMMA ReachFacts ==
  ASSUME call \in Calls, limits \in [LimitNames -> Nat \ {0}]
  PROVE  /\ Reach \in Nat /\ Reach <= InputEnd
         /\ call.kind = "stream" => Reach <= limits.input
<1>1. InputEnd \in Nat
  BY CallFacts
<1>2. limits.input \in Nat
  BY LimitFacts
<1> QED
  BY <1>1, <1>2 DEF Reach

-----------------------------------------------------------------------------
(* What is decompressed has the size that was asked for, or is nothing.    *)
LEMMA DecompressedFits ==
  ASSUME NEW magic, NEW n \in Nat, NEW us, Len(us) \in Nat
  PROVE  Len(Decompressed(magic, us, n)) \in {0, n}
<1> DEFINE stream == WithoutPrefix(us, n)
<1>1. Len(Payload(stream[1].mip, n)) = n
  BY DEF Payload, Run
<1>2. Len(<< >>) = 0
  OBVIOUS
<1> QED
  BY <1>1, <1>2 DEF Decompressed

-----------------------------------------------------------------------------
(* The invariant holds at first, and every action keeps it.                *)
LEMMA InitIInv == Init => IInv
<1> SUFFICES ASSUME Init PROVE IInv
  OBVIOUS
<1>1. << >> \in Seq([magic : {COPY, LZ4}, size : Nat]) /\ Len(<< >>) = 0
  OBVIOUS
<1>2. Default \in [LimitNames -> Nat \ {0}] /\ Default.block \in Nat \ {0} /\ Default.decoded \in Nat \ {0}
  BY DefaultAssumption DEF LimitNames
<1>3. TypeOK
  BY <1>1, <1>2 DEF Init, TypeOK, Labels
<1> QED
  BY <1>1, <1>2, <1>3
     DEF Init, IInv, CallRuns, NothingMade, WithinInput, TableRead, LimitsHold, Parsing

(* A call has read nothing yet.                                            *)
LEMMA BeginKeeps ==
  ASSUME IInv, pc = "idle", NEW c \in Calls, Begin(c)
  PROVE  IInv'
<1>1. c # None /\ c.opts \in [LimitNames -> Int] /\ c.base \in Nat /\ c.kind \in Kinds
      /\ (c.base > 0 => c.kind = "seeker") /\ Len(c.units) \in Nat
  BY CallsAssumption, NoneAssumption DEF CallType
<1>2. limits' \in [LimitNames -> Nat \ {0}]
  BY <1>1, NormalizedFacts DEF Begin, IInv, TypeOK
<1>3. limits'.block \in Nat \ {0} /\ limits'.decoded \in Nat \ {0} /\ limits'.input \in Nat \ {0}
  BY <1>2 DEF LimitNames
<1>4. /\ call' = c /\ pos' = c.base /\ table' = table /\ turn' = 0 /\ held' = 0 /\ mipData' = << >>
      /\ pc' \in {"open", "done"}
      /\ pc' = "open" => outcome' = "none"
      /\ pc' = "done" => outcome' = "error"
  BY DEF Begin, Goto, Return, IInv, NothingMade
<1>5. TypeOK'
  BY <1>1, <1>2, <1>4 DEF IInv, TypeOK, Labels, NothingMade
<1>6. Len(<< >>) = 0
  OBVIOUS
<1>7. LimitsHold'
  BY <1>1, <1>3, <1>4, <1>6 DEF LimitsHold, Kinds
<1> QED
  BY <1>1, <1>4, <1>5, <1>7
     DEF IInv, CallRuns, NothingMade, WithinInput, TableRead, Parsing, InputEnd

(* Every step but Begin and Finish is a step of the running call: what it  *)
(* leaves alone, and what is known of it.                                  *)
LEMMA RunningFacts ==
  ASSUME IInv, pc # "idle"
  PROVE  /\ call \in Calls /\ call # None
         /\ limits \in [LimitNames -> Nat \ {0}]
         /\ Reach \in Nat /\ Reach <= InputEnd
         /\ call.kind = "stream" => Reach <= limits.input
         /\ pos \in Nat /\ turn \in Nat /\ held \in Nat
         /\ table \in Seq([magic : {COPY, LZ4}, size : Nat])
         /\ held <= limits.block + 1 /\ Len(mipData) <= limits.decoded
         /\ call.kind = "stream" => pos <= limits.input
<1>1. call \in Calls /\ limits \in [LimitNames -> Nat \ {0}]
  BY DEF IInv, TypeOK, CallRuns
<1> QED
  BY <1>1, ReachFacts, NoneAssumption DEF IInv, TypeOK, LimitsHold

(* A file that is opened is within the limit or refused.                   *)
LEMMA OpenKeeps ==
  ASSUME IInv, Open
  PROVE  IInv'
<1>1. pc = "open" /\ pc' \in {"headers", "done"}
      /\ (pc' = "headers" => outcome' = "none") /\ (pc' = "done" => outcome' = "limit")
      /\ UNCHANGED <<call, limits, pos, table, turn, held, mipData>>
  BY DEF Open, Goto, Return, IInv, NothingMade
<1> QED
  BY <1>1 DEF IInv, TypeOK, Labels, CallRuns, NothingMade, WithinInput, TableRead, LimitsHold,
              Parsing, InputEnd

(* Headers end within the input.                                           *)
LEMMA ReadHeadersKeeps ==
  ASSUME IInv, ReadHeaders
  PROVE  IInv'
<1>1. pc = "headers" /\ pos = call.base /\ UNCHANGED <<call, limits, table, turn, held, mipData>>
      /\ pc' \in {"probe", "done"} /\ outcome = "none"
      /\ (pc' = "probe" => outcome' = "none")
      /\ (pc' = "done" => outcome' \in {"error", "config", "limit"})
      /\ (pos' = pos \/ (pos' = pos + HeaderSize /\ Available(HeaderSize)))
      /\ (pc' = "probe" => pos' = pos + HeaderSize)
  BY RunningFacts, CallFacts
     DEF ReadHeaders, Goto, Return, IInv, NothingMade, WithinInput, HeaderType
<1>2. HeaderSize \in Nat \ {0} /\ InputEnd \in Nat
  BY <1>1, RunningFacts, CallFacts
<1>3. /\ pos' \in Nat
      /\ pc' = "probe" => pos' = call.base + HeaderSize /\ pos' <= InputEnd
      /\ call.kind = "stream" => pos' <= limits.input
  <2>1. /\ pos \in Nat /\ (call.kind = "stream" => pos <= limits.input)
        /\ Reach \in Nat /\ Reach <= InputEnd /\ (call.kind = "stream" => Reach <= limits.input)
        /\ limits.input \in Nat
    <3>1. limits.input \in Nat
      BY <1>1, RunningFacts, LimitFacts
    <3> QED
      BY <1>1, <3>1, RunningFacts
  <2>2. CASE pos' = pos /\ pc' # "probe"
    BY <2>1, <2>2
  <2>3. CASE pos' = pos + HeaderSize /\ Available(HeaderSize)
    <3>1. pos' <= Reach
      BY <1>2, <2>3 DEF Available
    <3> QED
      BY <1>1, <1>2, <2>1, <2>3, <3>1
  <2> QED
    BY <1>1, <1>2, <2>1, <2>2, <2>3
<1>4. UNCHANGED <<InputEnd, HeaderSize>>
  BY <1>1 DEF InputEnd, HeaderSize, Header
<1> QED
  BY <1>1, <1>3, <1>4
     DEF IInv, TypeOK, Labels, CallRuns, NothingMade, WithinInput, TableRead, LimitsHold, Parsing

(* The probe looks at a field and moves nothing.                           *)
LEMMA ProbeKeeps ==
  ASSUME IInv, Probe
  PROVE  IInv'
<1>1. pc = "probe" /\ UNCHANGED <<call, limits, pos, table, turn, held, mipData>>
      /\ pc' \in {"table", "legacy", "done"} /\ outcome = "none"
      /\ (pc' # "done" => outcome' = "none")
      /\ (pc' = "done" => outcome' \in {"error", "limit"})
  BY DEF Probe, Goto, Return, IInv, NothingMade, ShortRead
<1>2. UNCHANGED <<InputEnd, HeaderSize>>
  BY <1>1 DEF InputEnd, HeaderSize, Header
<1> QED
  BY <1>1, <1>2
     DEF IInv, TypeOK, Labels, CallRuns, NothingMade, WithinInput, TableRead, LimitsHold, Parsing

(* An entry that is read is typed: its size is that of a unit of the input.*)
LEMMA EntryFacts ==
  ASSUME IInv, pc # "idle", Available(EntryLength), EntryValid
  PROVE  EntrySize \in Nat /\ EntryMagic \in {COPY, LZ4}
         /\ pos + EntryLength \in Nat /\ pos + EntryLength <= Reach
<1>1. pos \in Nat /\ Reach \in Nat /\ Reach <= InputEnd /\ call \in Calls
  BY RunningFacts
<1>2. EntryLength \in Nat \ {0} /\ MagicLength \in Nat
  BY LengthsAssumption DEF EntryLength
<1>3. pos + EntryLength <= InputEnd
  BY <1>1, <1>2, CallFacts DEF Available
<1>4. EntrySize \in Int
  <2>1. CASE pos + MagicLength < call.base
    BY <2>1, <1>1, <1>2 DEF EntrySize, UnitAt, Unit
  <2>2. CASE ~(pos + MagicLength < call.base)
    <3>1. call.base \in Nat /\ Len(call.units) \in Nat
          /\ call.units \in Seq(UnitType)
      BY <1>1, CallFacts
    <3>2. pos + (MagicLength + 1) <= call.base + Len(call.units)
      BY <1>3 DEF InputEnd, EntryLength
    <3>3. pos + MagicLength - call.base + 1 \in 1..Len(call.units)
      <4> DEFINE len == Len(call.units)
                 base == call.base
      <4>1. base \in Nat /\ len \in Nat /\ pos \in Nat /\ MagicLength \in Nat
            /\ base <= pos + MagicLength /\ pos + (MagicLength + 1) <= base + len
        BY <2>2, <1>1, <1>2, <3>1, <3>2
      <4> HIDE DEF len, base
      <4>2. pos + MagicLength - base + 1 \in 1..len
        BY <4>1
      <4> QED
        BY <4>2 DEF len, base
    <3>4. call.units[pos + MagicLength - call.base + 1] \in UnitType
      BY <3>1, <3>3, ElementOfSeq
    <3>5. call.units[pos + MagicLength - call.base + 1].value \in Int
      BY <3>4 DEF UnitType
    <3>6. UnitAt(pos + MagicLength) = call.units[pos + MagicLength - call.base + 1]
      BY <2>2, <1>1, <1>2, <3>1 DEF UnitAt
    <3> QED
      BY <3>5, <3>6 DEF EntrySize
  <2> QED
    BY <2>1, <2>2
<1> QED
  BY <1>1, <1>2, <1>4 DEF EntryValid, EntryMagic, Available

(* One entry more, as long as the header said there are entries.           *)
LEMMA ReadEntryKeeps ==
  ASSUME IInv, ReadEntry
  PROVE  IInv'
<1>1. pc = "table" /\ UNCHANGED <<call, limits, turn, held, mipData>>
      /\ turn = 0 /\ outcome = "none"
  BY DEF ReadEntry, IInv, NothingMade
<1>2. UNCHANGED <<InputEnd, HeaderSize>>
  BY <1>1 DEF InputEnd, HeaderSize, Header
<1>3. CASE Available(EntryLength) /\ EntryValid
  <2> DEFINE e == [magic |-> EntryMagic, size |-> EntrySize]
  <2>1. table' = Append(table, e) /\ pos' = pos + EntryLength /\ UNCHANGED <<pc, outcome>>
    BY <1>3 DEF ReadEntry
  <2>2. e \in [magic : {COPY, LZ4}, size : Nat]
    BY <1>1, <1>3, EntryFacts
  <2>3. pos' \in Nat /\ pos' <= Reach
    BY <1>1, <1>3, <2>1, EntryFacts
  <2>4. pos' <= InputEnd /\ (call.kind = "stream" => pos' <= limits.input)
    <3>1. InputEnd \in Nat /\ limits.input \in Nat
      BY <1>1, RunningFacts, CallFacts, LimitFacts
    <3> QED
      BY <1>1, <2>3, <3>1, RunningFacts
  <2>5. table' \in Seq([magic : {COPY, LZ4}, size : Nat]) /\ Len(table') \in Nat
    <3> HIDE DEF e
    <3> QED
      BY <1>1, <2>1, <2>2, RunningFacts
  <2>6. TypeOK'
    BY <1>1, <2>1, <2>3, <2>5 DEF IInv, TypeOK
  <2>7. LimitsHold'
    BY <1>1, <2>1, <2>4 DEF IInv, LimitsHold
  <2> QED
    BY <1>1, <1>2, <2>1, <2>4, <2>6, <2>7
       DEF IInv, CallRuns, NothingMade, WithinInput, TableRead, Parsing
<1>4. CASE ~(Available(EntryLength) /\ EntryValid)
  <2>1. pc' = "done" /\ outcome' = "error" /\ UNCHANGED <<pos, table>>
    BY <1>4 DEF ReadEntry, Return
  <2> QED
    BY <1>1, <1>2, <2>1
       DEF IInv, TypeOK, Labels, CallRuns, NothingMade, WithinInput, TableRead, LimitsHold, Parsing
<1> QED
  BY <1>3, <1>4

(* A table that passes its checks has sizes within the limits.             *)
LEMMA CheckTableKeeps ==
  ASSUME IInv, CheckTable
  PROVE  IInv'
<1>1. pc = "table" /\ UNCHANGED <<call, limits, pos, table, turn, held, mipData>>
      /\ Len(table) = MipMapCount /\ turn = 0 /\ outcome = "none"
      /\ pc' \in {"bodies", "done"}
      /\ (pc' = "bodies" => outcome' = "none" /\ TableWithinLimit)
      /\ (pc' = "done" => outcome' = "limit")
  BY DEF CheckTable, Goto, Return, IInv, NothingMade
<1>2. UNCHANGED <<InputEnd, HeaderSize, MipMapCount, TableWithinLimit>>
  BY <1>1 DEF InputEnd, HeaderSize, Header, MipMapCount, TableWithinLimit
<1>3. MipMapCount \in Nat \ {0}
  BY <1>1, RunningFacts, CallFacts
<1> QED
  BY <1>1, <1>2, <1>3
     DEF IInv, TypeOK, Labels, CallRuns, NothingMade, WithinInput, TableRead, LimitsHold, Parsing

(* The entry of the body that is next, held against the limit.             *)
LEMMA NextEntry ==
  ASSUME IInv, pc = "bodies"
  PROVE  /\ Entry \in [magic : {COPY, LZ4}, size : Nat]
         /\ Entry.size \in Nat /\ Entry.size <= limits.block
         /\ turn + 1 \in 1..Len(table) /\ MipMapCount \in Nat \ {0}
<1>1. MipMapCount \in Nat \ {0} /\ turn \in Nat
      /\ table \in Seq([magic : {COPY, LZ4}, size : Nat])
  BY RunningFacts, CallFacts
<1>2. Len(table) = MipMapCount /\ turn < MipMapCount
  BY DEF IInv, TableRead
<1>3. turn + 1 \in 1..Len(table)
  BY <1>1, <1>2
<1>4. table[turn + 1] \in [magic : {COPY, LZ4}, size : Nat]
  BY <1>1, <1>3, ElementOfSeq
<1> QED
  BY <1>1, <1>3, <1>4 DEF Entry, IInv, TableRead, TableWithinLimit

(* One body less to skip; a stream has read it, so it is there.            *)
LEMMA SkipBodyKeeps ==
  ASSUME IInv, SkipBody
  PROVE  IInv'
<1>1. pc = "bodies" /\ UNCHANGED <<call, limits, table, held, mipData>> /\ MipLevel # 0
  BY DEF SkipBody
<1>2. UNCHANGED <<InputEnd, HeaderSize, MipMapCount, TableWithinLimit>>
  BY <1>1 DEF InputEnd, HeaderSize, Header, MipMapCount, TableWithinLimit
<1>3. turn + 1 < MipMapCount
  BY <1>1, NextEntry, RunningFacts DEF MipLevel, IInv, TableRead
<1>4. CASE call.kind = "stream" /\ ~Available(Entry.size)
  <2>1. pc' = "done" /\ outcome' \in {"limit", "error"} /\ UNCHANGED <<pos, turn>>
    BY <1>4 DEF SkipBody, Return, ShortRead
  <2> QED
    BY <1>1, <1>2, <2>1
       DEF IInv, TypeOK, Labels, CallRuns, NothingMade, WithinInput, TableRead, LimitsHold, Parsing
<1>5. CASE ~(call.kind = "stream" /\ ~Available(Entry.size))
  <2>1. pos' = pos + Entry.size /\ turn' = turn + 1 /\ UNCHANGED <<pc, outcome>>
    BY <1>5 DEF SkipBody
  <2>2. pos \in Nat /\ Entry.size \in Nat /\ Reach \in Nat /\ limits.input \in Nat
        /\ (call.kind = "stream" => pos <= limits.input /\ Reach <= limits.input)
    BY <1>1, NextEntry, RunningFacts, LimitFacts
  <2>3. pos' \in Nat /\ (call.kind = "stream" => pos' <= limits.input)
    BY <1>5, <2>1, <2>2 DEF Available
  <2> QED
    BY <1>1, <1>2, <1>3, <2>1, <2>3, RunningFacts, NextEntry
       DEF IInv, TypeOK, Labels, CallRuns, NothingMade, WithinInput, TableRead, LimitsHold, Parsing
<1> QED
  BY <1>4, <1>5

(* What a size is refused for.                                             *)
LEMMA SizeErrorFacts ==
  ASSUME call \in Calls, limits \in [LimitNames -> Nat \ {0}]
  PROVE  /\ SizeError \in {"none", "error", "limit"}
         /\ SizeError = "none" => SizesWithinLimits
         /\ SizeError = "limit" => ~SizesWithinLimits
         /\ SizeError = "error" => Header.image = 0 \/ Header.expected = 0
<1>1. /\ Header.image \in Nat /\ Header.expected \in Nat
      /\ limits.image \in Nat \ {0} /\ limits.decoded \in Nat \ {0}
  BY CallFacts, LimitFacts
<1> DEFINE i == Header.image
           e == Header.expected
<1> HIDE DEF i, e
<1>2. CASE i = 0
  BY <1>1, <1>2 DEF SizeError, i
<1>3. CASE i > limits.image
  BY <1>1, <1>3 DEF SizeError, SizesWithinLimits, i
<1>4. CASE i \in 1..limits.image /\ e = 0
  BY <1>1, <1>4 DEF SizeError, SizesWithinLimits, i, e
<1>5. CASE i \in 1..limits.image /\ e > limits.decoded
  BY <1>1, <1>5 DEF SizeError, SizesWithinLimits, i, e
<1>6. CASE i \in 1..limits.image /\ e \in 1..limits.decoded
  BY <1>1, <1>6 DEF SizeError, SizesWithinLimits, i, e
<1>7. i \in Nat /\ e \in Nat
  BY <1>1 DEF i, e
<1> QED
  BY <1>1, <1>2, <1>3, <1>4, <1>5, <1>6, <1>7

(* A body or a blob that fits the limits: what is held of it, what is made *)
(* of it and how far the reader gets.                                      *)
LEMMA ReadLargestKeeps ==
  ASSUME IInv, ReadLargest
  PROVE  IInv'
<1> DEFINE decoded == Decompressed(Entry.magic, Fetched(Entry.size), Header.expected)
<1>1. \/ Return("error") /\ UNCHANGED <<pos, held, mipData>>
      \/ Return("limit") /\ UNCHANGED <<pos, held, mipData>>
      \/ Return("error") /\ held' = Entry.size /\ UNCHANGED <<pos, mipData>>
      \/ /\ SizesWithinLimits /\ Available(Entry.size)
         /\ pos' = pos + Entry.size
         /\ held' = Entry.size
         /\ mipData' = decoded
         /\ Return(IF Len(decoded) = Header.expected THEN "ok" ELSE "error")
  <2>1. /\ SizeError \in {"none", "error", "limit"}
        /\ SizeError = "none" => SizesWithinLimits
    <3>1. pc # "idle"
      BY DEF ReadLargest
    <3> QED
      BY <3>1, RunningFacts, SizeErrorFacts
  <2>2. CASE SizeError # "none"
    BY <2>1, <2>2 DEF ReadLargest
  <2>3. CASE SizeError = "none" /\ ~Available(Entry.size)
    BY <2>3 DEF ReadLargest
  <2>4. CASE SizeError = "none" /\ Available(Entry.size)
    BY <2>1, <2>4 DEF ReadLargest
  <2> QED
    BY <2>2, <2>3, <2>4
<1>2. pc = "bodies" /\ pc' = "done" /\ UNCHANGED <<call, limits, table, turn>>
      /\ held = 0 /\ mipData = << >> /\ outcome' \in {"error", "limit", "ok"}
  BY <1>1 DEF ReadLargest, Return, IInv, NothingMade
<1>3. Entry.size \in Nat /\ Entry.size <= limits.block /\ pos \in Nat /\ Reach \in Nat
      /\ limits.input \in Nat /\ limits.block \in Nat /\ limits.decoded \in Nat
      /\ Header.expected \in Nat /\ Len(<< >>) = 0
      /\ (call.kind = "stream" => pos <= limits.input /\ Reach <= limits.input)
  BY <1>2, NextEntry, RunningFacts, CallFacts, LimitFacts
<1>4. held' \in Nat /\ held' <= limits.block + 1
  BY <1>1, <1>2, <1>3
<1>5. pos' \in Nat /\ (call.kind = "stream" => pos' <= limits.input)
  BY <1>1, <1>2, <1>3 DEF Available
<1>6. Len(mipData') <= limits.decoded
  <2>1. CASE mipData' = mipData
    BY <2>1, <1>2, <1>3
  <2>2. CASE mipData' # mipData
    <3>1. SizesWithinLimits
          /\ mipData' = Decompressed(Entry.magic, Fetched(Entry.size), Header.expected)
      BY <1>1, <2>2
    <3>2. Len(Fetched(Entry.size)) \in Nat
      BY <1>3 DEF Fetched
    <3>3. Len(mipData') \in {0, Header.expected}
      BY <3>1, <3>2, <1>3, DecompressedFits
    <3> QED
      BY <3>1, <3>3, <1>3 DEF SizesWithinLimits
  <2> QED
    BY <2>1, <2>2
<1> QED
  BY <1>2, <1>4, <1>5, <1>6
     DEF IInv, TypeOK, Labels, CallRuns, NothingMade, WithinInput, TableRead, LimitsHold, Parsing

(* A seeker goes to the end of the header, counted from 0.                 *)
LEMMA SeekLegacyKeeps ==
  ASSUME IInv, SeekLegacy
  PROVE  IInv'
<1>1. pc = "legacy" /\ pc' = "blob" /\ UNCHANGED <<call, limits, table, turn, held, mipData, outcome>>
      /\ pos' = (IF call.kind = "stream" THEN pos ELSE HeaderSize)
      /\ pos = call.base + HeaderSize /\ pos <= InputEnd
  BY DEF SeekLegacy, Goto, IInv, WithinInput, Parsing
<1>2. UNCHANGED InputEnd
  BY <1>1 DEF InputEnd
<1>3. HeaderSize \in Nat /\ call.base \in Nat /\ InputEnd \in Nat
  BY <1>1, RunningFacts, CallFacts
<1>4. pos' \in Nat /\ pos' <= InputEnd /\ (call.kind = "stream" => pos' <= limits.input)
  BY <1>1, <1>3, RunningFacts
<1> QED
  BY <1>1, <1>2, <1>4
     DEF IInv, TypeOK, Labels, CallRuns, NothingMade, WithinInput, TableRead, LimitsHold, Parsing

(* A blob is held up to the limit and one unit, and then refused.          *)
LEMMA ReadLegacyKeeps ==
  ASSUME IInv, ReadLegacy
  PROVE  IInv'
<1> DEFINE length == BlobRead(InputEnd - pos)
           blob == Fetched(length)
           inflated == Decompressed(LZ4, blob, Header.expected)
<1>1. pc = "blob" /\ UNCHANGED <<call, limits, table, turn>> /\ held = 0 /\ mipData = << >>
  BY DEF ReadLegacy, IInv, NothingMade
<1>2. pos \in Nat /\ Reach \in Nat /\ InputEnd \in Nat /\ pos <= InputEnd /\ Reach <= InputEnd
      /\ limits.input \in Nat /\ limits.block \in Nat /\ limits.decoded \in Nat
      /\ Header.expected \in Nat /\ Len(<< >>) = 0
      /\ (call.kind = "stream" => pos <= limits.input /\ Reach <= limits.input)
  BY <1>1, RunningFacts, CallFacts, LimitFacts DEF IInv, WithinInput, Parsing
<1>3. length \in Nat /\ length <= limits.block + 1 /\ length <= InputEnd - pos
      /\ (length <= limits.block => length = InputEnd - pos)
  BY <1>2 DEF BlobRead
<1>4. \/ Return("error") /\ UNCHANGED <<pos, held, mipData>>
      \/ Return("limit") /\ UNCHANGED <<pos, held, mipData>>
      \/ /\ Return("limit")
         /\ pos' = IF pos + length <= Reach THEN pos + length ELSE Reach
         /\ held' = pos' - pos
         /\ UNCHANGED mipData
      \/ /\ SizesWithinLimits /\ ~EndUnseen /\ length <= limits.block
         /\ pos' = pos + length
         /\ held' = length
         /\ mipData' = IF inflated = << >> /\ length = Header.expected THEN blob ELSE inflated
         /\ Return(IF mipData' = << >> THEN "error" ELSE "ok")
  <2>1. /\ SizeError \in {"none", "error", "limit"}
        /\ SizeError = "none" => SizesWithinLimits
    BY <1>1, RunningFacts, SizeErrorFacts
  <2>2. CASE SizeError # "none"
    BY <2>1, <2>2 DEF ReadLegacy
  <2>3. CASE SizeError = "none" /\ (EndUnseen \/ length > limits.block)
    <3>1. EndUnseen \/ ~(length <= limits.block)
      BY <1>2, <1>3, <2>3
    <3> QED
      BY <2>3, <3>1 DEF ReadLegacy
  <2>4. CASE SizeError = "none" /\ ~EndUnseen /\ length <= limits.block
    BY <2>1, <2>4 DEF ReadLegacy
  <2> QED
    BY <1>2, <1>3, <2>2, <2>3, <2>4
<1>5. pc' = "done" /\ outcome' \in {"error", "limit", "ok"}
  BY <1>4 DEF Return
<1>6. pos <= Reach
  BY <1>2 DEF Reach
<1> HIDE DEF length
<1>7. CASE UNCHANGED <<pos, held, mipData>>
  BY <1>1, <1>2, <1>5, <1>7
     DEF IInv, TypeOK, Labels, CallRuns, NothingMade, WithinInput, TableRead, LimitsHold, Parsing
<1>8. CASE /\ pos' = IF pos + length <= Reach THEN pos + length ELSE Reach
           /\ held' = pos' - pos
           /\ UNCHANGED mipData
  <2>1. pos' \in Nat /\ held' \in Nat /\ held' <= limits.block + 1
        /\ (call.kind = "stream" => pos' <= limits.input)
    BY <1>2, <1>3, <1>6, <1>8
  <2> QED
    BY <1>1, <1>2, <1>5, <1>8, <2>1
       DEF IInv, TypeOK, Labels, CallRuns, NothingMade, WithinInput, TableRead, LimitsHold, Parsing
<1>9. CASE /\ SizesWithinLimits /\ ~EndUnseen /\ length <= limits.block
           /\ pos' = pos + length
           /\ held' = length
           /\ mipData' = IF inflated = << >> /\ length = Header.expected THEN blob ELSE inflated
  <2>1. pos' = InputEnd /\ held' \in Nat /\ held' <= limits.block + 1
    BY <1>2, <1>3, <1>9
  <2>2. call.kind = "stream" => pos' <= limits.input
    BY <1>2, <1>3, <1>9, <2>1 DEF EndUnseen, BudgetSpent
  <2>3. Len(blob) = length
    BY <1>3 DEF Fetched
  <2>4. Len(mipData') \in {0, Header.expected}
    <3>1. Len(inflated) \in {0, Header.expected}
      BY <1>2, <1>3, <2>3, DecompressedFits
    <3> QED
      BY <1>9, <2>3, <3>1
  <2>5. Len(mipData') <= limits.decoded
    BY <1>2, <1>9, <2>4 DEF SizesWithinLimits
  <2> QED
    BY <1>1, <1>2, <1>5, <2>1, <2>2, <2>5
       DEF IInv, TypeOK, Labels, CallRuns, NothingMade, WithinInput, TableRead, LimitsHold, Parsing
<1> QED
  BY <1>4, <1>7, <1>8, <1>9

(* A call that has returned holds nothing.                                 *)
LEMMA FinishKeeps ==
  ASSUME IInv, Finish
  PROVE  IInv'
<1>1. << >> \in Seq([magic : {COPY, LZ4}, size : Nat]) /\ Len(<< >>) = 0
  OBVIOUS
<1>2. Default \in [LimitNames -> Nat \ {0}] /\ Default.block \in Nat \ {0} /\ Default.decoded \in Nat \ {0}
  BY DefaultAssumption DEF LimitNames
<1> QED
  BY <1>1, <1>2
     DEF Finish, IInv, TypeOK, Labels, CallRuns, NothingMade, WithinInput, TableRead, LimitsHold, Parsing

(* Every step keeps the invariant.                                         *)
LEMMA NextKeeps == IInv /\ [Next]_vars => IInv'
<1> SUFFICES ASSUME IInv, [Next]_vars PROVE IInv'
  OBVIOUS
<1>1. CASE pc = "idle" /\ \E c \in Calls : Begin(c)
  BY <1>1, BeginKeeps
<1>2. CASE UNCHANGED vars
  BY <1>2 DEF vars, IInv, TypeOK, CallRuns, NothingMade, WithinInput, TableRead, LimitsHold,
              InputEnd, HeaderSize, MipMapCount, Header, TableWithinLimit
<1> QED
  BY <1>1, <1>2, OpenKeeps, ReadHeadersKeeps, ProbeKeeps, ReadEntryKeeps, CheckTableKeeps,
     SkipBodyKeeps, ReadLargestKeeps, SeekLegacyKeeps, ReadLegacyKeeps, FinishKeeps
     DEF Next

(* The variables stay in their types: no table index runs past the table,  *)
(* no size of a table entry is negative, every call that ends has answered.*)
THEOREM Typed == Spec => []TypeOK
<1>1. IInv => TypeOK
  BY DEF IInv
<1> QED
  BY <1>1, InitIInv, NextKeeps, PTL DEF Spec

(* No reader holds more of a body or blob, hands more to the image decoder *)
(* or takes more of a stream than the limits admit, whatever the headers   *)
(* and the block table say: readBlockBodyInto, readAllWithLimit,           *)
(* limitedReader.                                                          *)
THEOREM LimitsAreKept == Spec => []LimitsHold
<1>1. IInv => LimitsHold
  BY DEF IInv
<1> QED
  BY <1>1, InitIInv, NextKeeps, PTL DEF Spec

-----------------------------------------------------------------------------
(***************************************************************************)
(* The layout of a container: where its entries and bodies are             *)
(***************************************************************************)

LEMMA RunFacts ==
  ASSUME NEW part \in Parts, NEW mip \in Nat, NEW n \in Nat
  PROVE  /\ Run(part, mip, n) \in Seq(UnitType)
         /\ Len(Run(part, mip, n)) = n
         /\ \A j \in 1..n : Run(part, mip, n)[j] = Unit(part, mip, j)
BY DEF Run, Unit, UnitType

BodyLength(b) == IF b.magic = LZ4 THEN b.raw + 1 ELSE b.raw

(* The body of a level, as long as its table entry says.                   *)
LEMMA BodyFacts ==
  ASSUME NEW mip \in Nat, NEW b \in BlockType
  PROVE  /\ Body(mip, b) \in Seq(UnitType)
         /\ Len(Body(mip, b)) = BodyLength(b)
         /\ BodyLength(b) \in Nat \ {0}
<1>1. b.raw \in Nat \ {0} /\ b.magic \in {COPY, LZ4}
  BY DEF BlockType
<1>2. CASE b.magic = LZ4
  <2>1. Body(mip, b) = <<Unit("uncompressed", mip, b.raw)>> \o Run("chunk", mip, b.raw)
    BY <1>2 DEF Body, ChunkStream
  <2>2. <<Unit("uncompressed", mip, b.raw)>> \in Seq(UnitType)
    BY <1>1 DEF Unit, UnitType, Parts
  <2>3. Run("chunk", mip, b.raw) \in Seq(UnitType) /\ Len(Run("chunk", mip, b.raw)) = b.raw
    <3>1. "chunk" \in Parts
      BY DEF Parts
    <3> QED
      BY <1>1, <3>1, RunFacts
  <2> DEFINE s == <<Unit("uncompressed", mip, b.raw)>>
             t == Run("chunk", mip, b.raw)
  <2>4. Len(s) = 1
    OBVIOUS
  <2> HIDE DEF s, t
  <2>5. s \in Seq(UnitType) /\ t \in Seq(UnitType) /\ Len(t) = b.raw
    BY <2>2, <2>3 DEF s, t
  <2>6. s \o t \in Seq(UnitType) /\ Len(s \o t) = 1 + b.raw
    <3>1. s \o t \in Seq(UnitType) /\ Len(s \o t) = Len(s) + Len(t)
      BY <2>5, ConcatFacts
    <3> QED
      BY <2>4, <2>5, <3>1
  <2>7. Body(mip, b) = s \o t
    BY <2>1 DEF s, t
  <2>8. BodyLength(b) = b.raw + 1 /\ 1 + b.raw = b.raw + 1 /\ b.raw + 1 \in Nat \ {0}
    BY <1>1, <1>2 DEF BodyLength
  <2> QED
    BY <2>6, <2>7, <2>8
<1>3. CASE b.magic # LZ4
  <2>1. Body(mip, b) = Run("payload", mip, b.raw) /\ BodyLength(b) = b.raw
    BY <1>3 DEF Body, Payload, BodyLength
  <2>2. "payload" \in Parts
    BY DEF Parts
  <2>3. Run("payload", mip, b.raw) \in Seq(UnitType) /\ Len(Run("payload", mip, b.raw)) = b.raw
    BY <1>1, <2>2, RunFacts
  <2> QED
    BY <1>1, <2>1, <2>3
<1> QED
  BY <1>2, <1>3

(* A table entry states the magic and the length of its body.              *)
LEMMA TableEntryFacts ==
  ASSUME NEW mip \in Nat, NEW b \in BlockType
  PROVE  /\ TableEntry(mip, b) \in Seq(UnitType)
         /\ Len(TableEntry(mip, b)) = EntryLength
         /\ \A j \in 1..MagicLength : TableEntry(mip, b)[j] = Unit(b.magic, mip, j)
         /\ TableEntry(mip, b)[EntryLength] = Unit("size", mip, BodyLength(b))
<1>1. b.magic \in Parts /\ MagicLength \in Nat
  BY LengthsAssumption DEF BlockType, Parts
<1> DEFINE s == Run(b.magic, mip, MagicLength)
           u == Unit("size", mip, BodyLength(b))
<1>2. s \in Seq(UnitType) /\ Len(s) = MagicLength /\ \A j \in 1..MagicLength : s[j] = Unit(b.magic, mip, j)
  BY <1>1, RunFacts
<1>3. u \in UnitType
  BY BodyFacts DEF Unit, UnitType, Parts
<1>4. TableEntry(mip, b) = s \o <<u>>
  BY BodyFacts DEF TableEntry
<1> HIDE DEF s, u
<1>5. /\ s \o <<u>> \in Seq(UnitType) /\ Len(s \o <<u>>) = MagicLength + 1
      /\ \A j \in 1..MagicLength : (s \o <<u>>)[j] = s[j]
      /\ (s \o <<u>>)[MagicLength + 1] = u
  BY <1>1, <1>2, <1>3
<1> QED
  BY <1>2, <1>4, <1>5 DEF EntryLength, u

(* Block k of the file is the k-th from the end of the caller's.           *)
FileBlock(blocks, k) == blocks[Len(blocks) - k + 1]
FileLevel(blocks, k) == Len(blocks) - k

HeadersLength(dx10) == HeaderLength + (IF dx10 THEN DX10Length ELSE 0)

(* Entry k follows place es[k], body k follows place bs[k].                *)
IsMap(file, dx10, blocks, es, bs) ==
  LET M == Len(blocks)
  IN  /\ es \in [1..(M + 1) -> Nat] /\ bs \in [1..(M + 1) -> Nat]
      /\ es[1] = HeadersLength(dx10) /\ bs[1] = es[M + 1] /\ bs[M + 1] = Len(file)
      /\ \A k \in 1..(M + 1) : es[k] <= es[M + 1] /\ bs[k] <= bs[M + 1]
      /\ \A k \in 1..M :
           /\ es[k + 1] = es[k] + EntryLength
           /\ bs[k + 1] = bs[k] + BodyLength(FileBlock(blocks, k))
           /\ \A j \in 1..EntryLength :
                file[es[k] + j] = TableEntry(FileLevel(blocks, k), FileBlock(blocks, k))[j]
           /\ \A j \in 1..BodyLength(FileBlock(blocks, k)) :
                file[bs[k] + j] = Body(FileLevel(blocks, k), FileBlock(blocks, k))[j]

(* The headers are as long as the reader takes them to be.                 *)
LEMMA HeadersFacts ==
  ASSUME NEW dx10 \in BOOLEAN
  PROVE  /\ Headers(dx10) \in Seq(UnitType)
         /\ Len(Headers(dx10)) = HeadersLength(dx10)
         /\ HeadersLength(dx10) \in Nat \ {0}
<1>1. "header" \in Parts /\ "dx10" \in Parts /\ HeaderLength \in Nat \ {0} /\ DX10Length \in Nat \ {0}
  BY LengthsAssumption DEF Parts
<1> DEFINE s == Run("header", 0, HeaderLength)
           t == Run("dx10", 0, DX10Length)
<1>2. s \in Seq(UnitType) /\ Len(s) = HeaderLength /\ t \in Seq(UnitType) /\ Len(t) = DX10Length
  BY <1>1, RunFacts
<1>3. Headers(dx10) = s \o (IF dx10 THEN t ELSE << >>)
  BY DEF Headers
<1>4. << >> \in Seq(UnitType) /\ Len(<< >>) = 0
  OBVIOUS
<1> HIDE DEF s, t
<1>5. CASE dx10
  <2>1. s \o t \in Seq(UnitType) /\ Len(s \o t) = Len(s) + Len(t)
    BY <1>2, ConcatProperties
  <2> QED
    BY <1>1, <1>2, <1>3, <1>5, <2>1 DEF HeadersLength
<1>6. CASE ~dx10
  <2>1. s \o << >> \in Seq(UnitType) /\ Len(s \o << >>) = Len(s) + Len(<< >>)
    BY <1>2, <1>4, ConcatProperties
  <2> QED
    BY <1>1, <1>2, <1>3, <1>4, <1>6, <2>1 DEF HeadersLength
<1> QED
  BY <1>5, <1>6

(* The block at a place in the file, and its level.                        *)
LEMMA FileBlockFacts ==
  ASSUME NEW blocks \in Seq(BlockType), NEW k \in 1..Len(blocks)
  PROVE  FileBlock(blocks, k) \in BlockType /\ FileLevel(blocks, k) \in Nat
<1>1. Len(blocks) - k + 1 \in 1..Len(blocks)
  OBVIOUS
<1> QED
  BY <1>1, ElementOfSeq DEF FileBlock, FileLevel

(* Writing entries and bodies one after another puts them there.           *)
LEMMA ContainerLayout ==
  ASSUME NEW dx10 \in BOOLEAN, NEW blocks \in Seq(BlockType)
  PROVE  /\ Container(dx10, blocks) \in Seq(UnitType)
         /\ \E es, bs : IsMap(Container(dx10, blocks), dx10, blocks, es, bs)
<1> DEFINE M == Len(blocks)
           hs == Headers(dx10)
           entries == [k \in 1..M |-> TableEntry(FileLevel(blocks, k), FileBlock(blocks, k))]
           bodies == [k \in 1..M |-> Body(FileLevel(blocks, k), FileBlock(blocks, k))]
           fe == FlattenSeq(entries)
           fb == FlattenSeq(bodies)
<1>1. M \in Nat
  OBVIOUS
<1>2. entries \in [1..M -> Seq(UnitType)] /\ bodies \in [1..M -> Seq(UnitType)]
  BY FileBlockFacts, TableEntryFacts, BodyFacts
<1>3. \A k \in 1..M : Len(entries[k]) = EntryLength /\ Len(bodies[k]) = BodyLength(FileBlock(blocks, k))
  BY FileBlockFacts, TableEntryFacts, BodyFacts
<1>4. Container(dx10, blocks) = (hs \o fe) \o fb
  <2> DEFINE backward == Reverse([k \in 1..M |-> k - 1])
  <2>1. \A k \in 1..M : backward[k] = FileLevel(blocks, k) /\ blocks[backward[k] + 1] = FileBlock(blocks, k)
    <3> TAKE k \in 1..M
    <3>1. Len([i \in 1..M |-> i - 1]) = M /\ (M - k) + 1 \in 1..M /\ ((M - k) + 1) - 1 = M - k
      OBVIOUS
    <3>2. backward[k] = M - k
      BY <3>1 DEF Reverse
    <3>3. backward[k] + 1 = M - k + 1
      BY <3>2
    <3> QED
      BY <3>2, <3>3 DEF FileLevel, FileBlock
  <2>2. entries = [k \in 1..M |-> TableEntry(backward[k], blocks[backward[k] + 1])]
    BY <2>1
  <2>3. bodies = [k \in 1..M |-> Body(backward[k], blocks[backward[k] + 1])]
    BY <2>1
  <2> QED
    BY <2>2, <2>3 DEF Container
<1>5. PICK se : fe \in Seq(UnitType) /\ LaidOut(entries, M, fe, se)
  BY <1>1, <1>2, FlattenLayout
<1>6. PICK sb : fb \in Seq(UnitType) /\ LaidOut(bodies, M, fb, sb)
  BY <1>1, <1>2, FlattenLayout
<1>7. \A k \in 1..(M + 1) : se[k] <= se[M + 1] /\ sb[k] <= sb[M + 1]
  BY <1>1, <1>2, <1>5, <1>6, StartsGrow
<1>8. hs \in Seq(UnitType) /\ Len(hs) = HeadersLength(dx10) /\ HeadersLength(dx10) \in Nat
  BY HeadersFacts
<1> DEFINE H == HeadersLength(dx10)
           T == Len(fe)
           es == [k \in 1..(M + 1) |-> H + se[k]]
           bs == [k \in 1..(M + 1) |-> H + T + sb[k]]
           file == (hs \o fe) \o fb
<1>9. /\ se \in [1..(M + 1) -> Nat] /\ se[1] = 0 /\ T = se[M + 1]
      /\ sb \in [1..(M + 1) -> Nat] /\ sb[1] = 0 /\ Len(fb) = sb[M + 1]
      /\ \A k \in 1..M : /\ se[k + 1] = se[k] + EntryLength
                         /\ \A j \in 1..EntryLength : fe[se[k] + j] = entries[k][j]
                         /\ sb[k + 1] = sb[k] + BodyLength(FileBlock(blocks, k))
                         /\ \A j \in 1..BodyLength(FileBlock(blocks, k)) : fb[sb[k] + j] = bodies[k][j]
  <2> HIDE DEF M, entries, bodies, fe, fb
  <2>1. /\ se \in [1..(M + 1) -> Nat] /\ se[1] = 0 /\ T = se[M + 1]
        /\ \A k \in 1..M : /\ se[k + 1] = se[k] + Len(entries[k])
                           /\ \A j \in 1..Len(entries[k]) : fe[se[k] + j] = entries[k][j]
    BY <1>5, Zenon DEF LaidOut
  <2>2. /\ sb \in [1..(M + 1) -> Nat] /\ sb[1] = 0 /\ Len(fb) = sb[M + 1]
        /\ \A k \in 1..M : /\ sb[k + 1] = sb[k] + Len(bodies[k])
                           /\ \A j \in 1..Len(bodies[k]) : fb[sb[k] + j] = bodies[k][j]
    BY <1>6, Zenon DEF LaidOut
  <2> QED
    BY <1>3, <2>1, <2>2
<1> HIDE DEF M, hs, fe, fb, entries, bodies, H
<1>10. H \in Nat /\ T \in Nat /\ Len(hs) = H /\ hs \in Seq(UnitType) /\ fe \in Seq(UnitType)
       /\ fb \in Seq(UnitType)
  BY <1>5, <1>6, <1>8 DEF H
<1>11. /\ file \in Seq(UnitType) /\ Len(file) = H + T + Len(fb)
       /\ \A j \in 1..T : file[H + j] = fe[j]
       /\ \A j \in 1..Len(fb) : file[H + T + j] = fb[j]
  <2> DEFINE s == hs \o fe
  <2>1. /\ s \in Seq(UnitType) /\ Len(s) = Len(hs) + Len(fe)
        /\ \A j \in 1..Len(fe) : s[Len(hs) + j] = fe[j]
    <3>1. hs \in Seq(UnitType) /\ fe \in Seq(UnitType)
      BY <1>10
    <3> QED
      BY <3>1
  <2> HIDE DEF s
  <2>2. /\ s \o fb \in Seq(UnitType) /\ Len(s \o fb) = Len(s) + Len(fb)
        /\ \A j \in 1..Len(s) : (s \o fb)[j] = s[j]
        /\ \A j \in 1..Len(fb) : (s \o fb)[Len(s) + j] = fb[j]
    <3>1. s \in Seq(UnitType) /\ fb \in Seq(UnitType)
      BY <1>10, <2>1
    <3> QED
      BY <3>1
  <2>3. Len(s) = H + T
    BY <1>10, <2>1
  <2>4. \A j \in 1..T : H + j \in 1..(H + T)
    BY <1>10
  <2> HIDE DEF T
  <2>5. \A j \in 1..T : (s \o fb)[H + j] = s[H + j] /\ s[H + j] = fe[j]
    BY <1>10, <2>1, <2>2, <2>3, <2>4 DEF T
  <2>6. file = s \o fb
    BY DEF s
  <2> HIDE DEF file, s
  <2> QED
    BY <2>2, <2>3, <2>5, <2>6
<1> HIDE DEF T, file
<1>12. es \in [1..(M + 1) -> Nat] /\ bs \in [1..(M + 1) -> Nat]
  <2> SUFFICES ASSUME NEW k \in 1..(M + 1) PROVE H + se[k] \in Nat /\ H + T + sb[k] \in Nat
    OBVIOUS
  <2>1. se[k] \in Nat /\ sb[k] \in Nat
    BY <1>9
  <2> QED
    BY <1>10, <2>1
<1>13. es[1] = H /\ bs[1] = es[M + 1] /\ bs[M + 1] = Len(file)
  <2>1. 1 \in 1..(M + 1) /\ M + 1 \in 1..(M + 1)
    BY <1>1
  <2>2. es[1] = H + se[1] /\ es[M + 1] = H + se[M + 1] /\ bs[1] = H + T + sb[1] /\ bs[M + 1] = H + T + sb[M + 1]
    BY <2>1
  <2>3. H + 0 = H /\ (H + T) + 0 = H + T
    BY <1>10
  <2> HIDE DEF es, bs
  <2> QED
    BY <1>9, <1>11, <2>2, <2>3
<1>14. \A k \in 1..(M + 1) : es[k] <= es[M + 1] /\ bs[k] <= bs[M + 1]
  <2> SUFFICES ASSUME NEW k \in 1..(M + 1) PROVE es[k] <= es[M + 1] /\ bs[k] <= bs[M + 1]
    OBVIOUS
  <2>1. M + 1 \in 1..(M + 1)
    BY <1>1
  <2>2. es[k] = H + se[k] /\ es[M + 1] = H + se[M + 1] /\ bs[k] = H + T + sb[k] /\ bs[M + 1] = H + T + sb[M + 1]
    BY <2>1
  <2> HIDE DEF es, bs
  <2>3. se[k] \in Nat /\ sb[k] \in Nat /\ se[M + 1] \in Nat /\ sb[M + 1] \in Nat
        /\ se[k] <= se[M + 1] /\ sb[k] <= sb[M + 1]
    BY <1>7, <1>9, <2>1
  <2>4. \A a, c, d \in Nat : c <= d => a + c <= a + d
    OBVIOUS
  <2>5. H \in Nat /\ H + T \in Nat
    BY <1>10
  <2> QED
    BY <2>2, <2>3, <2>4, <2>5
<1>15. ASSUME NEW k \in 1..M
       PROVE  /\ es[k + 1] = es[k] + EntryLength
              /\ bs[k + 1] = bs[k] + BodyLength(FileBlock(blocks, k))
              /\ \A j \in 1..EntryLength : file[es[k] + j] = entries[k][j]
              /\ \A j \in 1..BodyLength(FileBlock(blocks, k)) : file[bs[k] + j] = bodies[k][j]
  <2>1. k \in 1..(M + 1) /\ k + 1 \in 1..(M + 1) /\ EntryLength \in Nat
        /\ BodyLength(FileBlock(blocks, k)) \in Nat
    BY <1>1, LengthsAssumption, FileBlockFacts, BodyFacts DEF EntryLength, M
  <2>2. es[k] = H + se[k] /\ es[k + 1] = H + se[k + 1] /\ bs[k] = H + T + sb[k] /\ bs[k + 1] = H + T + sb[k + 1]
    BY <2>1
  <2> HIDE DEF es, bs
  <2>3. se[k] \in Nat /\ sb[k] \in Nat /\ se[k + 1] <= T /\ sb[k + 1] <= Len(fb)
    BY <2>1, <1>7, <1>9
  <2>4. se[k + 1] = se[k] + EntryLength /\ sb[k + 1] = sb[k] + BodyLength(FileBlock(blocks, k))
    BY <1>9
  <2>5. H \in Nat /\ T \in Nat /\ Len(fb) \in Nat
    BY <1>10
  <2>6. es[k + 1] = es[k] + EntryLength /\ bs[k + 1] = bs[k] + BodyLength(FileBlock(blocks, k))
    <3>1. \A a, b, n, m \in Nat : a + (b + n) = (a + b) + n /\ (a + m) + (b + n) = ((a + m) + b) + n
      OBVIOUS
    <3>2. H + (se[k] + EntryLength) = (H + se[k]) + EntryLength
      BY <2>1, <2>3, <2>5, <3>1
    <3>3. (H + T) + (sb[k] + BodyLength(FileBlock(blocks, k))) = ((H + T) + sb[k]) + BodyLength(FileBlock(blocks, k))
      BY <2>1, <2>3, <2>5, <3>1
    <3> QED
      BY <2>2, <2>4, <3>2, <3>3
  <2>7. ASSUME NEW j \in 1..EntryLength PROVE file[es[k] + j] = entries[k][j]
    <3>1. se[k] + j \in 1..T
      <4>1. j \in Nat /\ 1 <= j /\ j <= EntryLength
        BY <2>1
      <4>2. \A a, n, t, i \in Nat : 1 <= i /\ i <= n /\ a + n <= t => a + i \in 1..t
        OBVIOUS
      <4>3. se[k] + EntryLength <= T
        BY <2>3, <2>4
      <4> QED
        BY <4>1, <4>2, <4>3, <2>1, <2>3, <2>5
    <3>2. es[k] + j = H + (se[k] + j)
      BY <2>1, <2>2, <2>3, <2>5
    <3> QED
      BY <3>1, <3>2, <1>9, <1>11
  <2>8. ASSUME NEW j \in 1..BodyLength(FileBlock(blocks, k)) PROVE file[bs[k] + j] = bodies[k][j]
    <3>1. sb[k] + j \in 1..Len(fb)
      <4>1. j \in Nat /\ 1 <= j /\ j <= BodyLength(FileBlock(blocks, k))
        BY <2>1
      <4>2. \A a, n, t, i \in Nat : 1 <= i /\ i <= n /\ a + n <= t => a + i \in 1..t
        OBVIOUS
      <4>3. sb[k] + BodyLength(FileBlock(blocks, k)) <= Len(fb)
        BY <2>3, <2>4
      <4> QED
        BY <4>1, <4>2, <4>3, <2>1, <2>3, <2>5
    <3>2. bs[k] + j = H + T + (sb[k] + j)
      <4>1. \A a, c, i \in Nat : (a + c) + i = a + (c + i)
        OBVIOUS
      <4>2. j \in Nat /\ H + T \in Nat
        BY <2>1, <2>5
      <4> QED
        BY <2>2, <2>3, <4>1, <4>2
    <3> QED
      BY <3>1, <3>2, <1>9, <1>11
  <2> QED
    BY <2>6, <2>7, <2>8
<1>16. IsMap(file, dx10, blocks, es, bs)
  <2> HIDE DEF es, bs
  <2> QED
    BY <1>12, <1>13, <1>14, <1>15 DEF IsMap, M, H, entries, bodies
<1> QED
  BY <1>4, <1>11, <1>16 DEF file

-----------------------------------------------------------------------------
(***************************************************************************)
(* What is made of a body and of a blob                                    *)
(***************************************************************************)

LEMMA PrefixedChunks ==
  ASSUME NEW mip \in Nat, NEW n \in Nat
  PROVE  LET blob == <<Unit("uncompressed", mip, n)>> \o ChunkStream(mip, n)
         IN  /\ blob \in Seq(UnitType) /\ Len(blob) = n + 1
             /\ blob[1] = Unit("uncompressed", mip, n)
             /\ \A j \in 1..n : blob[j + 1] = Unit("chunk", mip, j)
<1>1. "chunk" \in Parts /\ "uncompressed" \in Parts
  BY DEF Parts
<1> DEFINE u == Unit("uncompressed", mip, n)
           t == Run("chunk", mip, n)
<1>2. t \in Seq(UnitType) /\ Len(t) = n /\ \A j \in 1..n : t[j] = Unit("chunk", mip, j)
  BY <1>1, RunFacts
<1>3. u \in UnitType
  BY <1>1 DEF Unit, UnitType
<1> HIDE DEF u, t
<1>4. <<u>> \o t \in Seq(UnitType) /\ Len(<<u>> \o t) = n + 1
  BY <1>2, <1>3
<1>5. (<<u>> \o t)[1] = u
  BY <1>2, <1>3
<1>6. \A j \in 1..n : (<<u>> \o t)[j + 1] = t[j]
  BY <1>2, <1>3
<1> QED
  BY <1>2, <1>4, <1>5, <1>6 DEF u, t, ChunkStream

(* A body of the writer, compressed or not, gives back the level's bytes.  *)
LEMMA BodyDecompressed ==
  ASSUME NEW mip \in Nat, NEW b \in BlockType
  PROVE  Decompressed(b.magic, Body(mip, b), b.raw) = Payload(mip, b.raw)
<1> DEFINE n == b.raw
<1>1. n \in Nat \ {0} /\ b.magic \in {COPY, LZ4} /\ COPY # LZ4
  BY DEF BlockType, COPY, LZ4
<1>2. CASE b.magic = COPY
  <2>1. Body(mip, b) = Payload(mip, n) /\ Len(Payload(mip, n)) = n
    BY <1>1, <1>2 DEF Body, Payload, Run
  <2> QED
    BY <1>1, <1>2, <2>1 DEF Decompressed
<1>3. CASE b.magic = LZ4
  <2> DEFINE us == Body(mip, b)
             chunks == ChunkStream(mip, n)
  <2>1. us = <<Unit("uncompressed", mip, n)>> \o chunks
    BY <1>3 DEF Body
  <2>2. /\ us \in Seq(UnitType) /\ Len(us) = n + 1
        /\ us[1] = Unit("uncompressed", mip, n)
        /\ \A j \in 1..n : us[j + 1] = Unit("chunk", mip, j)
    BY <1>1, <2>1, PrefixedChunks
  <2>3. chunks = [j \in 1..n |-> Unit("chunk", mip, j)]
    BY DEF ChunkStream, Run
  <2> HIDE DEF us
  <2>4. Tail(us) = chunks
    <3>1. us \in Seq(UnitType) /\ Len(us) = n + 1 /\ n \in Nat
      BY <1>1, <2>2
    <3>2. Tail(us) = [j \in 1..n |-> us[j + 1]]
      BY <3>1, TailFacts
    <3> QED
      BY <2>2, <2>3, <3>2
  <2>5. WithoutPrefix(us, n) = chunks
    <3>1. us[1].part = "uncompressed" /\ us[1].value = n /\ Len(us) > 1
      BY <1>1, <2>2 DEF Unit
    <3> HIDE DEF chunks
    <3> QED
      BY <2>4, <3>1 DEF WithoutPrefix
  <2>6. chunks # << >> /\ chunks[1].mip = mip /\ chunks = ChunkStream(chunks[1].mip, n)
    BY <1>1, <2>3 DEF Unit, ChunkStream, Run
  <2> HIDE DEF chunks
  <2>7. Inflates(chunks, n)
    BY <2>6 DEF Inflates
  <2> QED
    BY <1>1, <1>3, <2>5, <2>6, <2>7 DEF Decompressed, us
<1> QED
  BY <1>1, <1>2, <1>3

(* A stream that inflates to n bytes is n units of a chunk stream.         *)
LEMMA InflatesFacts ==
  ASSUME NEW us, NEW n \in Nat, Inflates(us, n)
  PROVE  Len(us) = n /\ us # << >> /\ (n > 0 => us[1].part = "chunk")
BY DEF Inflates, ChunkStream, Run, Unit

(* A legacy blob is taken for what it is,...                               *)
Taken(blob, n) ==
  LET inflated == Decompressed(LZ4, blob, n)
  IN  IF inflated = << >> /\ Len(blob) = n THEN blob ELSE inflated

(* A whole legacy blob is taken for what it is.                            *)
LEMMA LegacyTaken ==
  ASSUME NEW n \in Nat \ {0}, NEW blob \in LegacyBlobs(n)
  PROVE  Taken(blob, n) = Payload(0, n)
<1>1. COPY # LZ4
  BY DEF COPY, LZ4
<1>2. CASE blob = Payload(0, n)
  <2>1. Len(blob) = n /\ blob[1].part = "payload"
    BY <1>2 DEF Payload, Run, Unit
  <2>2. WithoutPrefix(blob, n) = blob
    BY <2>1 DEF WithoutPrefix
  <2>3. ~Inflates(blob, n)
    BY <2>1, InflatesFacts
  <2>4. Decompressed(LZ4, blob, n) = << >>
    BY <1>1, <2>2, <2>3 DEF Decompressed
  <2> QED
    BY <1>2, <2>1, <2>4 DEF Taken
<1>3. ASSUME NEW us, WithoutPrefix(us, n) = ChunkStream(0, n)
      PROVE  Taken(us, n) = Payload(0, n)
  <2> DEFINE chunks == ChunkStream(0, n)
  <2>1. chunks # << >> /\ chunks[1].mip = 0 /\ chunks = ChunkStream(chunks[1].mip, n)
    BY DEF ChunkStream, Run, Unit
  <2>2. Payload(0, n) # << >>
    BY DEF Payload, Run
  <2> HIDE DEF chunks
  <2>3. Inflates(chunks, n)
    BY <2>1 DEF Inflates
  <2>4. Decompressed(LZ4, us, n) = Payload(0, n)
    BY <1>1, <1>3, <2>1, <2>3 DEF Decompressed, chunks
  <2> QED
    BY <2>2, <2>4 DEF Taken
<1>4. CASE blob = ChunkStream(0, n)
  <2>1. blob[1].part = "chunk"
    BY <1>4 DEF ChunkStream, Run, Unit
  <2> QED
    BY <1>3, <1>4, <2>1 DEF WithoutPrefix
<1>5. CASE blob = <<Unit("uncompressed", 0, n)>> \o ChunkStream(0, n)
  <2>1. /\ blob \in Seq(UnitType) /\ Len(blob) = n + 1
        /\ blob[1] = Unit("uncompressed", 0, n)
        /\ \A j \in 1..n : blob[j + 1] = Unit("chunk", 0, j)
    BY <1>5, PrefixedChunks
  <2>2. Tail(blob) = ChunkStream(0, n)
    <3>1. Tail(blob) = [j \in 1..n |-> blob[j + 1]]
      BY <2>1, TailFacts
    <3> QED
      BY <2>1, <3>1 DEF ChunkStream, Run
  <2>3. WithoutPrefix(blob, n) = ChunkStream(0, n)
    BY <2>1, <2>2 DEF WithoutPrefix, Unit
  <2> QED
    BY <1>3, <2>3
<1> QED
  BY <1>2, <1>4, <1>5 DEF LegacyBlobs

(* ...and a part of one for nothing, unless it has the length of raw data. *)
LEMMA LegacyCutRefused ==
  ASSUME NEW n \in Nat \ {0}, NEW blob \in LegacyBlobs(n), NEW us, NEW l \in Nat,
         l < Len(blob), us = [j \in 1..l |-> blob[j]], l # n
  PROVE  Taken(us, n) = << >>
<1>1. COPY # LZ4 /\ Len(us) = l /\ us \in Seq({blob[j] : j \in 1..l})
  BY DEF COPY, LZ4
<1>2. ASSUME ~Inflates(WithoutPrefix(us, n), n) PROVE Taken(us, n) = << >>
  <2>1. Decompressed(LZ4, us, n) = << >>
    BY <1>1, <1>2 DEF Decompressed
  <2> QED
    BY <1>1, <2>1 DEF Taken
<1>3. CASE WithoutPrefix(us, n) = us
  BY <1>1, <1>2, <1>3, InflatesFacts
<1>4. CASE WithoutPrefix(us, n) # us
  <2>1. l > 1 /\ us[1].part = "uncompressed" /\ WithoutPrefix(us, n) = Tail(us)
    BY <1>1, <1>4 DEF WithoutPrefix
  <2>2. Len(Tail(us)) = l - 1
    BY <1>1, <2>1
  <2>3. blob[1].part = "uncompressed"
    BY <2>1
  <2>4. blob # Payload(0, n) /\ blob # ChunkStream(0, n)
    BY <2>3 DEF Payload, ChunkStream, Run, Unit
  <2>5. Len(blob) = n + 1
    BY <2>4, PrefixedChunks DEF LegacyBlobs
  <2> QED
    BY <1>2, <2>1, <2>2, <2>5, InflatesFacts
<1> QED
  BY <1>3, <1>4

(* A legacy blob does not begin with the magic of a table entry.           *)
LEMMA LegacyBlobFacts ==
  ASSUME NEW n \in Nat \ {0}, NEW blob \in LegacyBlobs(n)
  PROVE  /\ blob \in Seq(UnitType) /\ Len(blob) \in Nat \ {0}
         /\ blob[1].part \notin {COPY, LZ4}
<1>1. "payload" \in Parts /\ "chunk" \in Parts
  BY DEF Parts
<1>2. ASSUME NEW part \in {"payload", "chunk"}, blob = Run(part, 0, n)
      PROVE  blob \in Seq(UnitType) /\ Len(blob) = n /\ blob[1].part = part
  <2>1. part \in Parts
    BY <1>1, <1>2
  <2>2. blob \in Seq(UnitType) /\ Len(blob) = n /\ \A j \in 1..n : blob[j] = Unit(part, 0, j)
    BY <1>2, <2>1, RunFacts
  <2>3. blob[1] = Unit(part, 0, 1)
    BY <2>2
  <2> QED
    BY <2>2, <2>3 DEF Unit
<1>3. CASE blob = Payload(0, n)
  BY <1>2, <1>3 DEF Payload, COPY, LZ4
<1>4. CASE blob = ChunkStream(0, n)
  BY <1>2, <1>4 DEF ChunkStream, COPY, LZ4
<1>5. CASE blob = <<Unit("uncompressed", 0, n)>> \o ChunkStream(0, n)
  <2>1. blob \in Seq(UnitType) /\ Len(blob) = n + 1 /\ blob[1] = Unit("uncompressed", 0, n)
    BY <1>5, PrefixedChunks
  <2>2. blob[1].part = "uncompressed"
    BY <2>1 DEF Unit
  <2>3. "uncompressed" \notin {COPY, LZ4} /\ n + 1 \in Nat \ {0}
    BY DEF COPY, LZ4
  <2> QED
    BY <2>1, <2>2, <2>3
<1> QED
  BY <1>3, <1>4, <1>5 DEF LegacyBlobs

-----------------------------------------------------------------------------
(***************************************************************************)
(* The input of a call and the file it is, or is the beginning of          *)
(***************************************************************************)

Original(c) == CHOOSE file \in Originals(c) : IsOriginal(c, file)
EntryStart(c) ==
  CHOOSE es : \E bs : IsMap(Original(c), c.header.dx10, c.blocks, es, bs)
BodyStart(c) ==
  CHOOSE bs : IsMap(Original(c), c.header.dx10, c.blocks, EntryStart(c), bs)

(* The file that an input is, or is the beginning of.                      *)
LEMMA OriginalFacts ==
  ASSUME call \in Calls, Known
  PROVE  /\ Original(call) \in Originals(call)
         /\ Len(Original(call)) \in Nat
         /\ Len(call.units) <= Len(Original(call))
         /\ call.whole = (Len(call.units) = Len(Original(call)))
         /\ \A j \in 1..Len(call.units) : call.units[j] = Original(call)[j]
         /\ Header.supported /\ Header.expected \in Nat \ {0} /\ Header.image \in Nat \ {0}
<1>1. call.header.supported /\ call.header.expected > 0 /\ call.header.image > 0
      /\ \E file \in Originals(call) : IsOriginal(call, file)
  BY InputsAssumption DEF Known
<1>2. Original(call) \in Originals(call) /\ IsOriginal(call, Original(call))
  BY <1>1 DEF Original
<1>3. call.header.dx10 \in BOOLEAN /\ call.header.expected \in Nat /\ call.header.image \in Nat
      /\ call.units \in Seq(UnitType) /\ Len(call.units) \in Nat
  BY CallFacts DEF Header
<1>4. Original(call) \in Seq(UnitType)
  <2>1. CASE call.layout = "container"
    <3>1. call.blocks \in Seq(BlockType)
      BY CallsAssumption DEF CallType
    <3> QED
      BY <1>2, <1>3, <2>1, <3>1, ContainerLayout DEF Originals
  <2>2. CASE call.layout # "container"
    <3>1. PICK blob \in LegacyBlobs(call.header.expected) :
            Original(call) = Headers(call.header.dx10) \o blob
      BY <1>2, <2>2 DEF Originals
    <3>2. Headers(call.header.dx10) \in Seq(UnitType) /\ blob \in Seq(UnitType)
      BY <1>1, <1>3, HeadersFacts, LegacyBlobFacts
    <3> QED
      BY <3>1, <3>2
  <2> QED
    BY <2>1, <2>2
<1> DEFINE file == Original(call)
<1> HIDE DEF file
<1>5. file \in Seq(UnitType) /\ Len(call.units) <= Len(file)
      /\ call.units = SubSeq(file, 1, Len(call.units)) /\ call.whole = (Len(call.units) = Len(file))
  BY <1>2, <1>4 DEF IsOriginal, file
<1>6. \A j \in 1..Len(call.units) : SubSeq(file, 1, Len(call.units))[j] = file[j]
  BY <1>3, <1>5
<1>7. \A j \in 1..Len(call.units) : call.units[j] = file[j]
  BY <1>5, <1>6
<1> QED
  BY <1>1, <1>2, <1>3, <1>5, <1>7 DEF file, Header

(* A container: the entry and the body of table index k - 1.               *)
FileEntry(k) ==
  [magic |-> FileBlock(call.blocks, k).magic, size |-> BodyLength(FileBlock(call.blocks, k))]

EntryAt(k) == EntryStart(call)[k]
BodyAt(k) == BodyStart(call)[k]

(* Both are where the file has them, as far as the input goes.             *)
PartFound(k) ==
  LET b == FileBlock(call.blocks, k)
      mip == FileLevel(call.blocks, k)
  IN  /\ b \in BlockType /\ mip \in Nat
      /\ EntryAt(k + 1) = EntryAt(k) + EntryLength
      /\ BodyAt(k + 1) = BodyAt(k) + BodyLength(b)
      /\ \A j \in 1..EntryLength : EntryAt(k) + j <= Len(call.units) =>
           call.units[EntryAt(k) + j] = TableEntry(mip, b)[j]
      /\ \A j \in 1..BodyLength(b) : BodyAt(k) + j <= Len(call.units) =>
           call.units[BodyAt(k) + j] = Body(mip, b)[j]

(* Where the entries and the bodies of a container are.                    *)
LEMMA ContainerCall ==
  ASSUME call \in Calls, call.layout = "container"
  PROVE  /\ call.blocks \in Seq(BlockType) /\ Len(call.blocks) = MipMapCount
         /\ MipMapCount \in Nat \ {0} /\ call.blocks[1].raw = Header.expected
         /\ EntryAt(1) = HeaderSize /\ BodyAt(1) = EntryAt(MipMapCount + 1)
         /\ BodyAt(MipMapCount + 1) = Len(Original(call))
         /\ \A k \in 1..(MipMapCount + 1) :
              /\ EntryAt(k) \in Nat /\ EntryAt(k) <= EntryAt(MipMapCount + 1)
              /\ BodyAt(k) \in Nat /\ BodyAt(k) <= BodyAt(MipMapCount + 1)
         /\ \A k \in 1..MipMapCount : PartFound(k)
<1> DEFINE es == EntryStart(call)
           bs == BodyStart(call)
           file == Original(call)
<1>1. call.blocks \in Seq(BlockType) /\ call.header.dx10 \in BOOLEAN
      /\ Len(call.units) \in Nat /\ MipMapCount \in Nat \ {0} /\ Known
  BY CallFacts, CallsAssumption DEF CallType, Header, Known
<1>2. Len(call.blocks) = MipMapCount /\ call.blocks[1].raw = Header.expected
  BY InputsAssumption DEF MipMapCount, Header
<1>3. file = Container(call.header.dx10, call.blocks)
  BY <1>1, OriginalFacts DEF Originals
<1>4. IsMap(file, call.header.dx10, call.blocks, es, bs)
  <2>1. \E e : \E b : IsMap(file, call.header.dx10, call.blocks, e, b)
    BY <1>1, <1>3, ContainerLayout
  <2>2. \E b : IsMap(file, call.header.dx10, call.blocks, es, b)
    BY <2>1 DEF EntryStart
  <2> QED
    BY <2>2 DEF BodyStart
<1>5. HeaderSize = HeadersLength(call.header.dx10)
  BY DEF HeaderSize, HeadersLength, Header
<1>6. \A k \in 1..MipMapCount : FileBlock(call.blocks, k) \in BlockType /\ FileLevel(call.blocks, k) \in Nat
  BY <1>1, <1>2, FileBlockFacts
<1>7. \A j \in 1..Len(call.units) : call.units[j] = file[j]
  BY <1>1, OriginalFacts
<1> HIDE DEF es, bs, file
<1>8. ASSUME NEW k \in 1..MipMapCount
      PROVE  /\ \A j \in 1..EntryLength : es[k] + j <= Len(call.units) =>
                  call.units[es[k] + j] = file[es[k] + j]
             /\ \A j \in 1..BodyLength(FileBlock(call.blocks, k)) : bs[k] + j <= Len(call.units) =>
                  call.units[bs[k] + j] = file[bs[k] + j]
  <2>1. es[k] \in Nat /\ bs[k] \in Nat
    BY <1>1, <1>2, <1>4 DEF IsMap
  <2>2. EntryLength \in Nat /\ BodyLength(FileBlock(call.blocks, k)) \in Nat
    BY <1>6, BodyFacts, LengthsAssumption DEF EntryLength
  <2>3. ASSUME NEW j \in 1..EntryLength, es[k] + j <= Len(call.units)
        PROVE  call.units[es[k] + j] = file[es[k] + j]
    <3>1. es[k] + j \in 1..Len(call.units)
      BY <1>1, <2>1, <2>2, <2>3
    <3> QED
      BY <1>7, <3>1
  <2>4. ASSUME NEW j \in 1..BodyLength(FileBlock(call.blocks, k)), bs[k] + j <= Len(call.units)
        PROVE  call.units[bs[k] + j] = file[bs[k] + j]
    <3>1. bs[k] + j \in 1..Len(call.units)
      BY <1>1, <2>1, <2>2, <2>4
    <3> QED
      BY <1>7, <3>1
  <2> QED
    BY <2>3, <2>4
<1>9. /\ es \in [1..(MipMapCount + 1) -> Nat] /\ bs \in [1..(MipMapCount + 1) -> Nat]
      /\ es[1] = HeaderSize /\ bs[1] = es[MipMapCount + 1] /\ bs[MipMapCount + 1] = Len(file)
      /\ \A k \in 1..(MipMapCount + 1) : es[k] <= es[MipMapCount + 1] /\ bs[k] <= bs[MipMapCount + 1]
  BY <1>2, <1>4, <1>5 DEF IsMap
<1>10. ASSUME NEW k \in 1..MipMapCount
       PROVE  /\ es[k + 1] = es[k] + EntryLength
              /\ bs[k + 1] = bs[k] + BodyLength(FileBlock(call.blocks, k))
              /\ \A j \in 1..EntryLength :
                   file[es[k] + j] = TableEntry(FileLevel(call.blocks, k), FileBlock(call.blocks, k))[j]
              /\ \A j \in 1..BodyLength(FileBlock(call.blocks, k)) :
                   file[bs[k] + j] = Body(FileLevel(call.blocks, k), FileBlock(call.blocks, k))[j]
  BY <1>2, <1>4 DEF IsMap
<1>11. \A k \in 1..MipMapCount : PartFound(k)
  <2> TAKE k \in 1..MipMapCount
  <2>1. EntryAt(k) = es[k] /\ EntryAt(k + 1) = es[k + 1] /\ BodyAt(k) = bs[k] /\ BodyAt(k + 1) = bs[k + 1]
    BY DEF EntryAt, BodyAt, es, bs
  <2>2. /\ \A j \in 1..EntryLength : es[k] + j <= Len(call.units) =>
             call.units[es[k] + j] = TableEntry(FileLevel(call.blocks, k), FileBlock(call.blocks, k))[j]
        /\ \A j \in 1..BodyLength(FileBlock(call.blocks, k)) : bs[k] + j <= Len(call.units) =>
             call.units[bs[k] + j] = Body(FileLevel(call.blocks, k), FileBlock(call.blocks, k))[j]
    BY <1>8, <1>10
  <2> QED
    BY <1>6, <1>10, <2>1, <2>2 DEF PartFound
<1>12. \A k \in 1..(MipMapCount + 1) :
         /\ EntryAt(k) \in Nat /\ EntryAt(k) <= EntryAt(MipMapCount + 1)
         /\ BodyAt(k) \in Nat /\ BodyAt(k) <= BodyAt(MipMapCount + 1)
  BY <1>9 DEF EntryAt, BodyAt, es, bs
<1> QED
  BY <1>1, <1>2, <1>9, <1>11, <1>12 DEF EntryAt, BodyAt, es, bs, file

(* What a call finds at an offset of its input.                            *)
LEMMA FetchedFacts ==
  ASSUME call \in Calls, NEW off \in Nat, pos = call.base + off, NEW n \in Nat
  PROVE  /\ Fetched(n) = [j \in 1..n |-> call.units[off + j]]
         /\ UnitAt(pos + n) = call.units[off + (n + 1)]
<1>1. call.base \in Nat
  BY CallFacts
<1>2. ASSUME NEW j \in 1..n PROVE UnitAt(pos + j - 1) = call.units[off + j]
  <2>1. ~(pos + j - 1 < call.base) /\ (pos + j - 1) - call.base + 1 = off + j
    BY <1>1
  <2>2. UnitAt(pos + j - 1) = call.units[(pos + j - 1) - call.base + 1]
    BY <1>1, <2>1 DEF UnitAt
  <2> QED
    BY <2>1, <2>2
<1>3. UnitAt(pos + n) = call.units[off + (n + 1)]
  <2>1. ~(pos + n < call.base) /\ (pos + n) - call.base + 1 = off + (n + 1)
    BY <1>1
  <2>2. UnitAt(pos + n) = call.units[(pos + n) - call.base + 1]
    BY <1>1, <2>1 DEF UnitAt
  <2> QED
    BY <2>1, <2>2
<1> QED
  BY <1>2, <1>3 DEF Fetched

-----------------------------------------------------------------------------
(***************************************************************************)
(* Every reader finds its way through a container and a legacy file        *)
(***************************************************************************)

(* The checks behind a call that is still running, and, for an input that  *)
(* is or was a file, the entries read so far and the offset in that file.  *)
Checked ==
  pc \notin {"idle", "done"} =>
    /\ ValidOptions(call.opts)
    /\ call.kind = "config" => pc \in {"open", "headers"}
    /\ pc # "open" => FileWithinLimit
    /\ pc \notin {"open", "headers"} => MipMapCount <= limits.mips /\ call.base + HeaderSize <= InputEnd

NoTableYet == pc \in {"idle", "open", "headers", "probe"} => table = << >>

InContainer ==
  call.layout = "container" =>
    /\ pc \notin {"legacy", "blob"}
    /\ pc \in {"table", "bodies"} => \A k \in 1..Len(table) : table[k] = FileEntry(k)
    /\ pc = "table" => Len(table) <= MipMapCount /\ pos = call.base + EntryAt(Len(table) + 1)
    /\ pc = "bodies" => pos = call.base + BodyAt(turn + 1)

InLegacy ==
  call.layout = "legacy" =>
    /\ pc \notin {"table", "bodies"}
    /\ pc = "blob" => Displaced \/ pos = call.base + HeaderSize

Promised == GoodInputsAreRead /\ NothingElseIsRead /\ LimitErrorsAreTrue

IInvFile ==
  /\ IInv
  /\ Checked
  /\ NoTableYet
  /\ pc # "idle" => InContainer /\ InLegacy
  /\ Promised

(* What the properties say of an answer.                                   *)
Answers(what, data) ==
  /\ call.whole =>
       IF call.kind = "config"
         THEN what = "config"
         ELSE Exceeded \/ EndLost \/ Displaced \/ TooShortToProbe \/ (what = "ok" /\ data = Largest)
  /\ what = "ok" /\ ~Displaced /\ ~PassesForRaw => call.whole /\ ~Exceeded /\ data = Largest
  /\ call.whole /\ what = "limit" => Exceeded \/ EndLost \/ Displaced

(* What a step of a running call leaves alone.                             *)
LEMMA SameCall ==
  ASSUME UNCHANGED <<call, limits>>
  PROVE  UNCHANGED <<Header, InputEnd, Reach, BudgetSpent, HeaderSize, MipMapCount, Known, Largest,
                     BodyTooLong, SizesWithinLimits, Exceeded, EndLost, Displaced,
                     TooShortToProbe, PassesForRaw, FileWithinLimit>>
BY DEF Header, InputEnd, Reach, BudgetSpent, HeaderSize, MipMapCount, Known, Largest, BodyTooLong,
       SizesWithinLimits, Exceeded, EndLost, Displaced, TooShortToProbe, PassesForRaw,
       FileWithinLimit

(* A step that answers keeps the promise if the answer does.               *)
LEMMA StepAnswers ==
  ASSUME IInvFile, IInv', pc # "idle", UNCHANGED <<call, limits>>, pc' = "done",
         Known => Answers(outcome', mipData')
  PROVE  IInvFile'
<1>1. UNCHANGED <<Known, Exceeded, EndLost, Displaced, TooShortToProbe, PassesForRaw, Largest>>
  BY SameCall
<1>2. Promised'
  BY <1>1 DEF Promised, Answers, GoodInputsAreRead, NothingElseIsRead, LimitErrorsAreTrue, Returned
<1> QED
  BY <1>2 DEF IInvFile, Checked, NoTableYet, InContainer, InLegacy

(* A step inside a call has no outcome to answer for.                      *)
LEMMA StepGoesOn ==
  ASSUME IInvFile, IInv', pc # "idle", UNCHANGED <<call, limits>>, pc' \notin {"idle", "done"},
         Checked', NoTableYet', InContainer', InLegacy'
  PROVE  IInvFile'
<1>1. Promised'
  BY DEF Promised, GoodInputsAreRead, NothingElseIsRead, LimitErrorsAreTrue, Returned
<1> QED
  BY <1>1 DEF IInvFile

(* What fails for want of units that the file has is over the budget.      *)
LEMMA BudgetMissed ==
  ASSUME IInv, pc # "idle", NEW n \in Nat, ~Available(n), pos + n <= InputEnd
  PROVE  Exceeded /\ call.kind = "stream" /\ BudgetSpent
<1>1. pos \in Nat /\ InputEnd \in Nat /\ Reach \in Nat /\ call \in Calls /\ limits.input \in Nat
  BY RunningFacts, CallFacts, LimitFacts
<1>2. Reach < InputEnd
  BY <1>1 DEF Available
<1>3. call.kind = "stream" /\ limits.input < InputEnd
  BY <1>1, <1>2 DEF Reach
<1> QED
  BY <1>1, <1>3 DEF Exceeded, BudgetSpent

(* The headers are there, and in a container the first entry.              *)
LEMMA HeadersThere ==
  ASSUME call \in Calls, Known
  PROVE  /\ HeaderSize <= Len(Original(call))
         /\ call.layout = "container" => HeaderSize + EntryLength <= Len(Original(call))
<1>1. HeaderSize \in Nat /\ EntryLength \in Nat
  BY CallFacts, LengthsAssumption DEF EntryLength
<1>2. CASE call.layout = "container"
  <2>1. MipMapCount \in Nat \ {0} /\ 1 \in 1..MipMapCount /\ 1 \in 1..(MipMapCount + 1)
        /\ 2 \in 1..(MipMapCount + 1)
    BY <1>2, ContainerCall
  <2>2. /\ EntryAt(1) = HeaderSize /\ EntryAt(2) = EntryAt(1) + EntryLength
        /\ EntryAt(2) <= EntryAt(MipMapCount + 1) /\ EntryAt(MipMapCount + 1) = BodyAt(1)
        /\ BodyAt(1) <= BodyAt(MipMapCount + 1) /\ BodyAt(MipMapCount + 1) = Len(Original(call))
        /\ EntryAt(2) \in Nat /\ BodyAt(1) \in Nat /\ BodyAt(MipMapCount + 1) \in Nat
    BY <1>2, <2>1, ContainerCall DEF PartFound
  <2> QED
    BY <1>1, <2>2
<1>3. CASE call.layout # "container"
  <2>1. PICK blob \in LegacyBlobs(Header.expected) : Original(call) = Headers(Header.dx10) \o blob
    BY <1>3, OriginalFacts DEF Originals, Header
  <2>2. blob \in Seq(UnitType) /\ Headers(Header.dx10) \in Seq(UnitType)
        /\ Len(Headers(Header.dx10)) = HeaderSize
    BY OriginalFacts, CallFacts, HeadersFacts, LegacyBlobFacts DEF HeadersLength, HeaderSize
  <2> QED
    BY <1>1, <1>3, <2>1, <2>2
<1> QED
  BY <1>2, <1>3

(* What each step finds in a file, from the first to the last.             *)
LEMMA OpenFile ==
  ASSUME IInvFile, Open
  PROVE  IInvFile'
<1>1. IInv /\ IInv' /\ pc = "open" /\ UNCHANGED <<call, limits, pos, table, turn, held, mipData>>
  BY OpenKeeps DEF IInvFile, Open
<1>2. CASE FileWithinLimit
  <2>1. pc' = "headers" /\ FileWithinLimit'
    BY <1>1, <1>2, SameCall DEF Open, Goto
  <2> QED
    BY <1>1, <2>1, StepGoesOn DEF IInvFile, Checked, NoTableYet, InContainer, InLegacy
<1>3. CASE ~FileWithinLimit
  <2>1. pc' = "done" /\ outcome' = "limit"
    BY <1>3 DEF Open, Return
  <2>2. InputEnd \in Nat /\ limits.input \in Nat
    BY <1>1, RunningFacts, CallFacts, LimitFacts
  <2>3. Exceeded /\ call.kind = "path"
    BY <1>3, <2>2 DEF FileWithinLimit, Exceeded
  <2>4. Answers(outcome', mipData')
    BY <2>1, <2>3 DEF Answers
  <2> QED
    BY <1>1, <2>1, <2>4, StepAnswers
<1> QED
  BY <1>2, <1>3

(* Headers that pass are whole.                                            *)
LEMMA ReadHeadersFile ==
  ASSUME IInvFile, ReadHeaders
  PROVE  IInvFile'
<1>1. IInv /\ IInv' /\ pc = "headers" /\ pos = call.base /\ call \in Calls
      /\ UNCHANGED <<call, limits, table, turn, held, mipData>>
  BY ReadHeadersKeeps, RunningFacts DEF IInvFile, ReadHeaders, IInv, WithinInput
<1>2. HeaderSize \in Nat \ {0} /\ InputEnd \in Nat /\ pos \in Nat /\ Reach \in Nat /\ Reach <= InputEnd
      /\ MipMapCount \in Nat /\ limits.mips \in Nat /\ call.base \in Nat /\ Len(call.units) \in Nat
  BY <1>1, RunningFacts, CallFacts, LimitFacts
<1>3. CASE ~Available(HeaderSize)
  <2>1. pc' = "done" /\ outcome' = "error"
    BY <1>3 DEF ReadHeaders, Return
  <2>2. ASSUME Known, call.whole PROVE Exceeded /\ call.kind = "stream"
    <3>1. HeaderSize <= Len(call.units)
      BY <1>1, <2>2, OriginalFacts, HeadersThere
    <3>2. pos + HeaderSize <= InputEnd
      BY <1>1, <1>2, <3>1 DEF InputEnd
    <3> QED
      BY <1>1, <1>2, <1>3, <3>2, BudgetMissed
  <2>3. Known => Answers(outcome', mipData')
    BY <2>1, <2>2 DEF Answers
  <2> QED
    BY <1>1, <2>1, <2>3, StepAnswers
<1>4. CASE Available(HeaderSize) /\ ~Header.supported
  <2>1. pc' = "done" /\ outcome' = "error"
    BY <1>4 DEF ReadHeaders, Return
  <2>2. ~Known
    BY <1>1, <1>4, OriginalFacts
  <2> QED
    BY <1>1, <2>1, <2>2, StepAnswers
<1>5. CASE Available(HeaderSize) /\ Header.supported /\ call.kind = "config"
  <2>1. pc' = "done" /\ outcome' = "config"
    BY <1>5 DEF ReadHeaders, Return
  <2>2. Answers(outcome', mipData')
    BY <1>5, <2>1 DEF Answers
  <2> QED
    BY <1>1, <2>1, <2>2, StepAnswers
<1>6. CASE Available(HeaderSize) /\ Header.supported /\ call.kind # "config" /\ MipMapCount > limits.mips
  <2>1. pc' = "done" /\ outcome' = "limit"
    BY <1>6 DEF ReadHeaders, Return
  <2>2. Exceeded
    BY <1>6 DEF Exceeded
  <2>3. Answers(outcome', mipData')
    BY <1>6, <2>1, <2>2 DEF Answers
  <2> QED
    BY <1>1, <2>1, <2>3, StepAnswers
<1>7. CASE Available(HeaderSize) /\ Header.supported /\ call.kind # "config" /\ ~(MipMapCount > limits.mips)
  <2>1. pc' = "probe"
    BY <1>7 DEF ReadHeaders, Goto
  <2>2. MipMapCount <= limits.mips /\ call.base + HeaderSize <= InputEnd
    BY <1>1, <1>2, <1>7 DEF Available
  <2>3. UNCHANGED <<MipMapCount, HeaderSize, InputEnd, FileWithinLimit>>
    BY <1>1, SameCall
  <2>4. Checked'
    BY <1>1, <1>7, <2>1, <2>2, <2>3 DEF IInvFile, Checked
  <2> QED
    BY <1>1, <2>1, <2>4, StepGoesOn DEF IInvFile, NoTableYet, InContainer, InLegacy
<1> QED
  BY <1>3, <1>4, <1>5, <1>6, <1>7, CallFacts, <1>1 DEF HeaderType

(* The invariant about files: at first, and over each action.              *)
LEMMA InitFile == Init => IInvFile
BY InitIInv
   DEF Init, IInvFile, Checked, NoTableYet, Promised, GoodInputsAreRead, NothingElseIsRead,
       LimitErrorsAreTrue, Returned

(* An input that nothing has been read of.                                 *)
LEMMA BeginFile ==
  ASSUME IInvFile, pc = "idle", NEW c \in Calls, Begin(c)
  PROVE  IInvFile'
<1>1. IInv' /\ call' = c /\ table' = << >>
  BY BeginKeeps DEF IInvFile, Begin, NoTableYet
<1>2. CASE ValidOptions(c.opts)
  <2>1. pc' = "open"
    BY <1>2 DEF Begin, Goto
  <2>2. ValidOptions(call.opts)'
    BY <1>1, <1>2 DEF ValidOptions
  <2> QED
    BY <1>1, <2>1, <2>2
       DEF IInvFile, Checked, NoTableYet, InContainer, InLegacy, Promised, GoodInputsAreRead,
           NothingElseIsRead, LimitErrorsAreTrue, Returned
<1>3. CASE ~ValidOptions(c.opts)
  <2>1. pc' = "done"
    BY <1>3 DEF Begin, Return
  <2>2. ~ValidOptions(call.opts)'
    BY <1>1, <1>3 DEF ValidOptions
  <2> QED
    BY <1>1, <2>1, <2>2
       DEF IInvFile, Checked, NoTableYet, InContainer, InLegacy, Promised, GoodInputsAreRead,
           NothingElseIsRead, LimitErrorsAreTrue, Returned
<1> QED
  BY <1>2, <1>3

(* Between calls nothing is promised.                                      *)
LEMMA FinishFile ==
  ASSUME IInvFile, Finish
  PROVE  IInvFile'
BY FinishKeeps
   DEF Finish, IInvFile, Checked, NoTableYet, Promised, GoodInputsAreRead, NothingElseIsRead,
       LimitErrorsAreTrue, Returned

(* The probe: a container has the magic of an entry behind its headers,... *)
LEMMA ProbeContainer ==
  ASSUME call \in Calls, call.layout = "container", pos = call.base + HeaderSize,
         pos + MagicLength <= InputEnd
  PROVE  IsTableMagic(Fetched(MagicLength))
<1>1. HeaderSize \in Nat /\ MagicLength \in Nat \ {0} /\ EntryLength = MagicLength + 1
      /\ Len(call.units) \in Nat /\ call.base \in Nat
  BY CallFacts, LengthsAssumption DEF EntryLength
<1>2. 1 \in 1..MipMapCount /\ EntryAt(1) = HeaderSize /\ PartFound(1)
  BY ContainerCall
<1> DEFINE b == FileBlock(call.blocks, 1)
           mip == FileLevel(call.blocks, 1)
<1>3. b \in BlockType /\ mip \in Nat
  BY <1>2 DEF PartFound
<1>4. \A j \in 1..MagicLength : Fetched(MagicLength)[j] = Unit(b.magic, mip, j)
  <2> TAKE j \in 1..MagicLength
  <2>1. Fetched(MagicLength) = [i \in 1..MagicLength |-> call.units[HeaderSize + i]]
    BY <1>1, FetchedFacts
  <2>2. j \in 1..EntryLength /\ HeaderSize + j <= Len(call.units)
    BY <1>1 DEF InputEnd
  <2>3. call.units[HeaderSize + j] = TableEntry(mip, b)[j]
    BY <1>2, <2>2 DEF PartFound
  <2> QED
    BY <1>3, <2>1, <2>3, TableEntryFacts
<1> HIDE DEF b, mip
<1>5. \A j \in 1..MagicLength : Fetched(MagicLength)[j].part = b.magic /\ Fetched(MagicLength)[j].value = j
  <2> TAKE j \in 1..MagicLength
  <2>1. Fetched(MagicLength)[j] = [part |-> b.magic, mip |-> mip, value |-> j]
    BY <1>4 DEF Unit
  <2> QED
    BY <2>1
<1> QED
  BY <1>3, <1>5 DEF IsTableMagic, IsMagic, BlockType

(* ...a legacy file does not.                                              *)
LEMMA ProbeLegacy ==
  ASSUME call \in Calls, call.layout = "legacy", pos = call.base + HeaderSize,
         pos + MagicLength <= InputEnd
  PROVE  ~IsTableMagic(Fetched(MagicLength))
<1>1. HeaderSize \in Nat /\ MagicLength \in Nat \ {0} /\ Len(call.units) \in Nat /\ call.base \in Nat
  BY CallFacts, LengthsAssumption
<1>2. PICK blob \in LegacyBlobs(Header.expected) : Original(call) = Headers(Header.dx10) \o blob
  BY OriginalFacts DEF Originals, Header, Known
<1>3. blob \in Seq(UnitType) /\ Headers(Header.dx10) \in Seq(UnitType)
      /\ Len(Headers(Header.dx10)) = HeaderSize
      /\ Len(blob) \in Nat \ {0} /\ blob[1].part \notin {COPY, LZ4}
  BY OriginalFacts, CallFacts, HeadersFacts, LegacyBlobFacts DEF HeadersLength, HeaderSize, Known
<1>4. Fetched(MagicLength)[1] = call.units[HeaderSize + 1]
  <2>1. Fetched(MagicLength) = [j \in 1..MagicLength |-> call.units[HeaderSize + j]]
    BY <1>1, FetchedFacts
  <2>2. 1 \in 1..MagicLength
    BY <1>1
  <2> QED
    BY <2>1, <2>2
<1>5. HeaderSize + 1 \in 1..Len(call.units)
  BY <1>1 DEF InputEnd
<1>6. call.units[HeaderSize + 1] = Original(call)[HeaderSize + 1]
  BY <1>5, OriginalFacts DEF Known
<1>7. Original(call)[HeaderSize + 1] = blob[1]
  BY <1>1, <1>2, <1>3
<1>8. Fetched(MagicLength)[1].part \notin {COPY, LZ4} /\ 1 \in 1..MagicLength
  BY <1>1, <1>3, <1>4, <1>6, <1>7
<1> QED
  BY <1>8 DEF IsTableMagic, IsMagic

(* The probe tells a container from a legacy file.                         *)
LEMMA ProbeFile ==
  ASSUME IInvFile, Probe
  PROVE  IInvFile'
<1>1. IInv /\ IInv' /\ pc = "probe" /\ pos = call.base + HeaderSize /\ call \in Calls
      /\ UNCHANGED <<call, limits, pos, table, turn, held, mipData>>
      /\ call.kind # "config" /\ table = << >> /\ Checked
  BY ProbeKeeps, RunningFacts DEF IInvFile, Probe, IInv, WithinInput, Checked, NoTableYet
<1>2. HeaderSize \in Nat \ {0} /\ InputEnd \in Nat /\ pos \in Nat /\ Reach \in Nat /\ Reach <= InputEnd
      /\ call.base \in Nat /\ Len(call.units) \in Nat
      /\ MagicLength \in Nat \ {0} /\ EntryLength = MagicLength + 1
      /\ call.kind \in Kinds /\ call.layout \in Layouts
  BY <1>1, RunningFacts, CallFacts, LengthsAssumption, CallsAssumption DEF EntryLength, CallType
<1>3. UNCHANGED <<MipMapCount, HeaderSize, InputEnd, FileWithinLimit, Displaced, Known>>
  BY <1>1, SameCall
<1>4. pc' \in {"table", "legacy"} => Checked'
  BY <1>1, <1>3 DEF Checked
<1>5. Available(MagicLength) => pos + MagicLength <= InputEnd
  BY <1>2 DEF Available
<1>6. CASE ~Available(MagicLength)
  <2>1. pc' = "done" /\ outcome' = ShortRead
    BY <1>6 DEF Probe, Return
  <2>2. ASSUME Known, call.whole, ~Exceeded PROVE TooShortToProbe
    <3>1. ~(pos + MagicLength <= InputEnd)
      BY <1>1, <1>2, <1>6, <2>2, BudgetMissed
    <3>2. call.layout # "container"
      <4> SUFFICES ASSUME call.layout = "container" PROVE FALSE
        OBVIOUS
      <4>1. HeaderSize + EntryLength <= Len(call.units)
        BY <1>1, <2>2, OriginalFacts, HeadersThere
      <4>2. pos + MagicLength <= call.base + Len(call.units)
        <5>1. pos = call.base + HeaderSize
          BY <1>1
        <5>2. \A a, h, m, n \in Nat : h + (m + 1) <= n => (a + h) + m <= a + n
          OBVIOUS
        <5> QED
          BY <1>2, <4>1, <5>1, <5>2
      <4> QED
        BY <3>1, <4>2 DEF InputEnd
    <3> QED
      BY <1>1, <1>2, <2>2, <3>1, <3>2 DEF TooShortToProbe, Known, Layouts
  <2>3. ASSUME Known, call.whole, outcome' = "limit" PROVE Exceeded \/ EndLost
    BY <2>1, <2>2, <2>3 DEF ShortRead, TooShortToProbe, EndLost
  <2>4. outcome' # "ok"
    BY <2>1 DEF ShortRead
  <2>5. Known => Answers(outcome', mipData')
    BY <1>1, <2>2, <2>3, <2>4 DEF Answers
  <2> QED
    BY <1>1, <2>1, <2>5, StepAnswers
<1>7. CASE Available(MagicLength) /\ IsTableMagic(Fetched(MagicLength))
  <2>1. pc' = "table"
    BY <1>7 DEF Probe, Goto
  <2>2. call.layout # "legacy"
    BY <1>1, <1>5, <1>7, ProbeLegacy
  <2>3. ASSUME call.layout = "container"
        PROVE  Len(table) <= MipMapCount /\ pos = call.base + EntryAt(Len(table) + 1)
    BY <1>1, <2>3, ContainerCall
  <2>4. InContainer'
    <3>1. UNCHANGED <<EntryAt(Len(table) + 1), call.layout, call.base>>
      BY <1>1 DEF EntryAt
    <3> QED
      BY <1>1, <1>3, <2>1, <2>3, <3>1 DEF InContainer
  <2> QED
    BY <1>1, <1>4, <2>1, <2>2, <2>4, StepGoesOn DEF NoTableYet, InLegacy
<1>8. CASE Available(MagicLength) /\ ~IsTableMagic(Fetched(MagicLength))
  <2>1. pc' = "legacy"
    BY <1>8 DEF Probe, Goto
  <2>2. call.layout # "container"
    BY <1>1, <1>5, <1>8, ProbeContainer
  <2> QED
    BY <1>1, <1>4, <2>1, <2>2, StepGoesOn DEF NoTableYet, InContainer, InLegacy
<1> QED
  BY <1>6, <1>7, <1>8

(* An entry of a container is found as it was written.                     *)
LEMMA EntryFound ==
  ASSUME call \in Calls, call.layout = "container", NEW k \in 1..MipMapCount,
         pos = call.base + EntryAt(k), pos + EntryLength <= InputEnd
  PROVE  /\ EntryValid
         /\ [magic |-> EntryMagic, size |-> EntrySize] = FileEntry(k)
<1>1. HeaderSize \in Nat /\ MagicLength \in Nat \ {0} /\ EntryLength = MagicLength + 1
      /\ Len(call.units) \in Nat /\ call.base \in Nat
  BY CallFacts, LengthsAssumption DEF EntryLength
<1>2. PartFound(k) /\ EntryAt(k) \in Nat
  <2>1. k \in 1..(MipMapCount + 1)
    BY ContainerCall
  <2> QED
    BY <2>1, ContainerCall
<1> DEFINE b == FileBlock(call.blocks, k)
           mip == FileLevel(call.blocks, k)
<1>3. b \in BlockType /\ mip \in Nat
  BY <1>2 DEF PartFound
<1>4. /\ Fetched(MagicLength) = [i \in 1..MagicLength |-> call.units[EntryAt(k) + i]]
      /\ UnitAt(pos + MagicLength) = call.units[EntryAt(k) + EntryLength]
  BY <1>1, <1>2, FetchedFacts
<1>5. ASSUME NEW j \in 1..EntryLength
      PROVE  call.units[EntryAt(k) + j] = TableEntry(mip, b)[j]
  <2>1. EntryAt(k) + j <= Len(call.units)
    <3>1. EntryAt(k) + EntryLength <= Len(call.units)
      BY <1>1, <1>2 DEF InputEnd
    <3>2. j \in Nat /\ j <= EntryLength /\ EntryLength \in Nat
      BY <1>1
    <3> QED
      BY <1>1, <1>2, <3>1, <3>2
  <2> QED
    BY <1>2, <2>1 DEF PartFound
<1> HIDE DEF b, mip
<1>6. ASSUME NEW j \in 1..MagicLength
      PROVE  Fetched(MagicLength)[j].part = b.magic /\ Fetched(MagicLength)[j].value = j
  <2>1. j \in 1..EntryLength
    BY <1>1
  <2>2. Fetched(MagicLength)[j] = Unit(b.magic, mip, j)
    BY <1>3, <1>4, <1>5, <2>1, TableEntryFacts
  <2>3. Fetched(MagicLength)[j] = [part |-> b.magic, mip |-> mip, value |-> j]
    BY <2>2 DEF Unit
  <2> QED
    BY <2>3
<1>7. b.magic \in {COPY, LZ4} /\ COPY # LZ4
  BY <1>3 DEF BlockType, COPY, LZ4
<1>8. IsTableMagic(Fetched(MagicLength))
  BY <1>6, <1>7 DEF IsTableMagic, IsMagic
<1>9. EntryMagic = b.magic
  <2>1. 1 \in 1..MagicLength
    BY <1>1
  <2>2. IsMagic(Fetched(MagicLength), COPY) <=> b.magic = COPY
    BY <1>6, <2>1 DEF IsMagic
  <2> QED
    BY <1>7, <2>2 DEF EntryMagic
<1>10. EntrySize = BodyLength(b)
  <2>1. EntryLength \in 1..EntryLength
    BY <1>1
  <2>2. UnitAt(pos + MagicLength) = Unit("size", mip, BodyLength(b))
    BY <1>3, <1>4, <1>5, <2>1, TableEntryFacts
  <2>3. UnitAt(pos + MagicLength) = [part |-> "size", mip |-> mip, value |-> BodyLength(b)]
    BY <2>2 DEF Unit
  <2> QED
    BY <2>3 DEF EntrySize
<1>11. BodyLength(b) \in Nat
  BY <1>3, BodyFacts
<1> QED
  BY <1>8, <1>9, <1>10, <1>11 DEF EntryValid, FileEntry, b

(* Each entry read is the one that the layout has at this place.           *)
LEMMA ReadEntryFile ==
  ASSUME IInvFile, ReadEntry
  PROVE  IInvFile'
<1>1. IInv /\ IInv' /\ pc = "table" /\ call \in Calls /\ Len(table) < MipMapCount
      /\ UNCHANGED <<call, limits, turn, held, mipData>>
      /\ Checked /\ InContainer /\ InLegacy
  BY ReadEntryKeeps, RunningFacts DEF IInvFile, ReadEntry
<1>2. InputEnd \in Nat /\ pos \in Nat /\ Reach \in Nat /\ Reach <= InputEnd
      /\ call.base \in Nat /\ Len(call.units) \in Nat
      /\ EntryLength \in Nat \ {0} /\ MipMapCount \in Nat \ {0}
      /\ table \in Seq([magic : {COPY, LZ4}, size : Nat]) /\ Len(table) \in Nat
  <2>1. pos \in Nat /\ Reach \in Nat /\ Reach <= InputEnd
        /\ table \in Seq([magic : {COPY, LZ4}, size : Nat])
    BY <1>1, RunningFacts
  <2>2. InputEnd \in Nat /\ call.base \in Nat /\ Len(call.units) \in Nat /\ MipMapCount \in Nat \ {0}
    BY <1>1, CallFacts
  <2>3. EntryLength \in Nat \ {0} /\ Len(table) \in Nat
    BY <2>1, LengthsAssumption DEF EntryLength
  <2> QED
    BY <2>1, <2>2, <2>3
<1>3. UNCHANGED <<MipMapCount, HeaderSize, InputEnd, FileWithinLimit>>
  BY <1>1, SameCall
<1>4. pc' = "table" => Checked'
  BY <1>1, <1>3 DEF Checked
<1> DEFINE k == Len(table) + 1
<1>5. k \in 1..MipMapCount /\ k + 1 \in 1..(MipMapCount + 1) /\ k \in 1..(MipMapCount + 1)
      /\ 1 \in 1..(MipMapCount + 1)
  BY <1>1, <1>2
<1>6. ASSUME call.layout = "container"
      PROVE  /\ pos = call.base + EntryAt(k) /\ EntryAt(k) \in Nat
             /\ EntryAt(k + 1) = EntryAt(k) + EntryLength
             /\ EntryAt(k + 1) <= Len(Original(call))
             /\ PartFound(k)
  <2>1. PartFound(k) /\ EntryAt(k) \in Nat /\ EntryAt(k + 1) \in Nat /\ EntryAt(MipMapCount + 1) \in Nat
        /\ EntryAt(k + 1) <= EntryAt(MipMapCount + 1) /\ EntryAt(MipMapCount + 1) = BodyAt(1)
        /\ BodyAt(1) <= BodyAt(MipMapCount + 1) /\ BodyAt(MipMapCount + 1) = Len(Original(call))
        /\ BodyAt(MipMapCount + 1) \in Nat /\ BodyAt(1) \in Nat
    <3>1. MipMapCount + 1 \in 1..(MipMapCount + 1)
      BY <1>2
    <3> QED
      BY <1>1, <1>5, <1>6, <3>1, ContainerCall
  <2> HIDE DEF k
  <2>2. EntryAt(k + 1) = EntryAt(k) + EntryLength
    BY <2>1 DEF PartFound
  <2>3. pos = call.base + EntryAt(k)
    BY <1>1, <1>6 DEF InContainer, k
  <2>4. EntryAt(k + 1) <= Len(Original(call))
    BY <2>1
  <2> QED
    BY <2>1, <2>2, <2>3, <2>4
<1> HIDE DEF k
<1>7. CASE Available(EntryLength) /\ EntryValid
  <2> DEFINE e == [magic |-> EntryMagic, size |-> EntrySize]
  <2>1. table' = Append(table, e) /\ pos' = pos + EntryLength /\ UNCHANGED <<pc, outcome>>
    BY <1>7 DEF ReadEntry
  <2>2. pos + EntryLength <= InputEnd
    BY <1>2, <1>7 DEF Available
  <2>3. call.layout = "container" => e = FileEntry(k)
    BY <1>1, <1>5, <1>6, <2>2, EntryFound
  <2> HIDE DEF e
  <2>4. /\ Len(table') = k
        /\ \A i \in 1..Len(table) : table'[i] = table[i]
        /\ table'[k] = e
    BY <1>2, <2>1 DEF k
  <2>5. ASSUME call.layout = "container", NEW i \in 1..Len(table')
        PROVE  table'[i] = FileEntry(i)
    <3>1. CASE i = k
      BY <2>3, <2>4, <2>5, <3>1
    <3>2. CASE i # k
      <4>1. i \in 1..Len(table)
        BY <1>2, <2>4, <2>5, <3>2 DEF k
      <4> QED
        BY <1>1, <2>4, <2>5, <4>1 DEF InContainer
    <3> QED
      BY <3>1, <3>2
  <2>6. ASSUME call.layout = "container"
        PROVE  Len(table') <= MipMapCount /\ pos' = call.base + EntryAt(Len(table') + 1)
    <3>1. k <= MipMapCount
      BY <1>5, <1>2
    <3>2. pos = call.base + EntryAt(k) /\ EntryAt(k) \in Nat /\ call.base \in Nat /\ EntryLength \in Nat
      BY <1>2, <1>6, <2>6
    <3>3. pos + EntryLength = call.base + (EntryAt(k) + EntryLength)
      BY <3>2
    <3> QED
      BY <1>6, <2>1, <2>4, <2>6, <3>1, <3>3
  <2>7. InContainer'
    <3>1. \A i : FileEntry(i)' = FileEntry(i)
      BY <1>1 DEF FileEntry, FileBlock
    <3>2. call.layout = "container" => (EntryAt(Len(table) + 1))' = EntryAt(Len(table') + 1)
      BY <1>1 DEF EntryAt
    <3>3. call' = call
      BY <1>1
    <3> QED
      BY <1>1, <1>3, <2>1, <2>5, <2>6, <3>1, <3>2, <3>3 DEF InContainer
  <2>8. InLegacy' /\ NoTableYet'
    BY <1>1, <2>1 DEF InLegacy, NoTableYet
  <2> QED
    BY <1>1, <1>4, <2>1, <2>7, <2>8, StepGoesOn
<1>8. CASE ~(Available(EntryLength) /\ EntryValid)
  <2>1. pc' = "done" /\ outcome' = "error"
    BY <1>8 DEF ReadEntry, Return
  <2>2. ASSUME Known, call.whole PROVE Exceeded
    <3>1. call.layout = "container" /\ call.layout \in Layouts
      BY <1>1, <2>2, CallsAssumption DEF InLegacy, Known, CallType, Layouts
    <3>2. Len(Original(call)) = Len(call.units)
      BY <1>1, <2>2, OriginalFacts
    <3>3. pos + EntryLength <= InputEnd
      BY <1>2, <1>6, <3>1, <3>2 DEF InputEnd
    <3>4. EntryValid
      BY <1>1, <1>5, <1>6, <3>1, <3>3, EntryFound
    <3> QED
      BY <1>1, <1>2, <1>8, <3>3, <3>4, BudgetMissed
  <2>3. Known => Answers(outcome', mipData')
    BY <1>1, <2>1, <2>2 DEF Answers, Checked
  <2> QED
    BY <1>1, <2>1, <2>3, StepAnswers
<1> QED
  BY <1>7, <1>8

(* The bodies of a container are too long when an entry says so.           *)
LEMMA TooLongEntry ==
  ASSUME call \in Calls, call.layout = "container"
  PROVE  BodyTooLong <=> \E k \in 1..MipMapCount : FileEntry(k).size > limits.block
<1>1. call.blocks \in Seq(BlockType) /\ Len(call.blocks) = MipMapCount /\ MipMapCount \in Nat
  BY ContainerCall
<1>2. \A i \in 1..MipMapCount : Len(Body(0, call.blocks[i])) = BodyLength(call.blocks[i])
  BY <1>1, BodyFacts, ElementOfSeq
<1>3. \A k \in 1..MipMapCount : FileEntry(k).size = BodyLength(call.blocks[MipMapCount - k + 1])
  BY <1>1 DEF FileEntry, FileBlock
<1>4. \A i \in 1..MipMapCount : MipMapCount - i + 1 \in 1..MipMapCount
  BY <1>1
<1>5. \A i \in 1..MipMapCount : MipMapCount - (MipMapCount - i + 1) + 1 = i
  BY <1>1
<1>6. \A i \in 1..MipMapCount : FileEntry(MipMapCount - i + 1).size = BodyLength(call.blocks[i])
  BY <1>3, <1>4, <1>5
<1>7. BodyTooLong <=> \E i \in 1..MipMapCount : BodyLength(call.blocks[i]) > limits.block
  BY <1>1, <1>2 DEF BodyTooLong
<1> QED
  BY <1>3, <1>4, <1>6, <1>7

(* The table that is checked is the table that was written.                *)
LEMMA CheckTableFile ==
  ASSUME IInvFile, CheckTable
  PROVE  IInvFile'
<1>1. IInv /\ IInv' /\ pc = "table" /\ call \in Calls /\ Len(table) = MipMapCount
      /\ UNCHANGED <<call, limits, pos, table, turn, held, mipData>> /\ turn = 0
      /\ Checked /\ InContainer /\ InLegacy
  BY CheckTableKeeps, RunningFacts DEF IInvFile, CheckTable, IInv, NothingMade
<1>2. UNCHANGED <<MipMapCount, HeaderSize, InputEnd, FileWithinLimit>>
  BY <1>1, SameCall
<1>3. CASE TableWithinLimit
  <2>1. pc' = "bodies"
    BY <1>3 DEF CheckTable, Goto
  <2>2. InContainer'
    <3>1. call.layout = "container" => pos = call.base + BodyAt(turn + 1)
      BY <1>1, ContainerCall DEF InContainer
    <3>2. \A i : FileEntry(i)' = FileEntry(i)
      BY <1>1 DEF FileEntry, FileBlock
    <3>3. BodyAt(turn + 1)' = BodyAt(turn + 1)
      BY <1>1 DEF BodyAt
    <3> QED
      BY <1>1, <2>1, <3>1, <3>2, <3>3 DEF InContainer
  <2>3. Checked' /\ InLegacy' /\ NoTableYet'
    BY <1>1, <1>2, <2>1 DEF Checked, InLegacy, NoTableYet
  <2> QED
    BY <1>1, <2>1, <2>2, <2>3, StepGoesOn
<1>4. CASE ~TableWithinLimit
  <2>1. pc' = "done" /\ outcome' = "limit"
    BY <1>4 DEF CheckTable, Return
  <2>2. ASSUME Known PROVE Exceeded
    <3>1. call.layout = "container"
      BY <1>1, <2>2, CallsAssumption DEF InLegacy, Known, CallType, Layouts
    <3>2. PICK k \in 1..Len(table) : ~(table[k].size <= limits.block)
      BY <1>4 DEF TableWithinLimit
    <3>3. table[k] = FileEntry(k) /\ k \in 1..MipMapCount
      BY <1>1, <3>1 DEF InContainer
    <3>4. FileEntry(k).size \in Nat /\ limits.block \in Nat
      <4>1. FileBlock(call.blocks, k) \in BlockType
        BY <1>1, <3>1, <3>3, ContainerCall DEF PartFound
      <4> QED
        BY <1>1, <4>1, BodyFacts, RunningFacts, LimitFacts DEF FileEntry
    <3>5. FileEntry(k).size > limits.block
      BY <3>2, <3>3, <3>4
    <3> QED
      BY <1>1, <3>1, <3>3, <3>5, TooLongEntry DEF Exceeded
  <2>3. Known => Answers(outcome', mipData')
    BY <1>1, <2>1, <2>2 DEF Answers, Checked
  <2> QED
    BY <1>1, <2>1, <2>3, StepAnswers
<1> QED
  BY <1>3, <1>4

(* The body that is next, in a container.                                  *)
LEMMA BodyFound ==
  ASSUME IInvFile, pc = "bodies", call.layout = "container"
  PROVE  /\ turn + 1 \in 1..MipMapCount /\ PartFound(turn + 1)
         /\ BodyAt(turn + 1) \in Nat
         /\ Entry = FileEntry(turn + 1) /\ Entry.size \in Nat \ {0}
         /\ pos = call.base + BodyAt(turn + 1)
         /\ pos + Entry.size = call.base + BodyAt(turn + 2)
         /\ BodyAt(turn + 2) \in Nat /\ BodyAt(turn + 2) <= Len(Original(call))
<1>1. IInv /\ InContainer /\ call \in Calls /\ Len(table) = MipMapCount /\ turn < MipMapCount
      /\ turn \in Nat /\ call.base \in Nat /\ MipMapCount \in Nat
  BY RunningFacts, CallFacts DEF IInvFile, IInv, TableRead
<1> DEFINE k == turn + 1
           b == FileBlock(call.blocks, k)
<1>2. k \in 1..MipMapCount /\ k \in 1..(MipMapCount + 1) /\ k + 1 \in 1..(MipMapCount + 1)
      /\ k + 1 = turn + 2
  BY <1>1
<1>3. /\ PartFound(k) /\ BodyAt(k) \in Nat /\ BodyAt(k + 1) \in Nat
      /\ BodyAt(k + 1) <= BodyAt(MipMapCount + 1)
      /\ BodyAt(MipMapCount + 1) = Len(Original(call))
  <2> HIDE DEF k
  <2> QED
    BY <1>1, <1>2, ContainerCall
<1>4. Entry = FileEntry(k) /\ pos = call.base + BodyAt(k)
  BY <1>1, <1>2 DEF InContainer, Entry
<1> HIDE DEF k
<1>5. b \in BlockType /\ BodyAt(k + 1) = BodyAt(k) + BodyLength(b)
  BY <1>3 DEF PartFound
<1>6. Entry.size = BodyLength(b) /\ BodyLength(b) \in Nat \ {0}
  BY <1>4, <1>5, BodyFacts DEF FileEntry
<1> HIDE DEF b
<1>7. pos + Entry.size = call.base + BodyAt(k + 1)
  <2>1. pos \in Nat /\ BodyAt(k) \in Nat /\ BodyLength(b) \in Nat /\ call.base \in Nat
    BY <1>1, <1>3, <1>6, RunningFacts
  <2> QED
    BY <1>4, <1>5, <1>6, <2>1
<1> QED
  BY <1>2, <1>3, <1>4, <1>6, <1>7 DEF k

(* Skipping a body leads to the next.                                      *)
LEMMA SkipBodyFile ==
  ASSUME IInvFile, SkipBody
  PROVE  IInvFile'
<1>1. IInv /\ IInv' /\ pc = "bodies" /\ call \in Calls
      /\ UNCHANGED <<call, limits, table, held, mipData>>
      /\ Checked /\ InContainer /\ InLegacy
  BY SkipBodyKeeps, RunningFacts DEF IInvFile, SkipBody
<1>2. UNCHANGED <<MipMapCount, HeaderSize, InputEnd, FileWithinLimit>>
  BY <1>1, SameCall
<1>3. CASE call.kind = "stream" /\ ~Available(Entry.size)
  <2>1. pc' = "done" /\ outcome' \in {"limit", "error"}
    BY <1>3 DEF SkipBody, Return, ShortRead
  <2>2. ASSUME Known, call.whole PROVE Exceeded
    <3>1. call.layout = "container"
      BY <1>1, <2>2, CallsAssumption DEF InLegacy, Known, CallType, Layouts
    <3>2. Len(Original(call)) = Len(call.units)
      BY <1>1, <2>2, OriginalFacts
    <3>3. pos + Entry.size <= InputEnd /\ Entry.size \in Nat
      <4>1. call.base \in Nat /\ Len(call.units) \in Nat
        BY <1>1, CallFacts
      <4> QED
        BY <1>1, <3>1, <3>2, <4>1, BodyFound DEF InputEnd
    <3> QED
      BY <1>1, <1>3, <3>3, BudgetMissed
  <2>3. Known => Answers(outcome', mipData')
    BY <1>1, <2>1, <2>2 DEF Answers, Checked
  <2> QED
    BY <1>1, <2>1, <2>3, StepAnswers
<1>4. CASE ~(call.kind = "stream" /\ ~Available(Entry.size))
  <2>1. pos' = pos + Entry.size /\ turn' = turn + 1 /\ UNCHANGED <<pc, outcome>>
    BY <1>4 DEF SkipBody
  <2>2. InContainer'
    <3>1. call.layout = "container" => pos' = call.base + BodyAt(turn' + 1)
      <4>1. turn' + 1 = turn + 2
        BY <1>1, <2>1, RunningFacts
      <4> QED
        BY <1>1, <2>1, <4>1, BodyFound
    <3>2. \A i : FileEntry(i)' = FileEntry(i)
      BY <1>1 DEF FileEntry, FileBlock
    <3>3. BodyAt(turn + 1)' = BodyAt(turn' + 1)
      BY <1>1 DEF BodyAt
    <3> QED
      BY <1>1, <2>1, <3>1, <3>2, <3>3 DEF InContainer
  <2>3. Checked' /\ InLegacy' /\ NoTableYet'
    BY <1>1, <1>2, <2>1 DEF Checked, InLegacy, NoTableYet
  <2> QED
    BY <1>1, <2>1, <2>2, <2>3, StepGoesOn
<1> QED
  BY <1>3, <1>4

(* The largest level of a container, when all of it is there.              *)
LEMMA LargestFound ==
  ASSUME IInvFile, pc = "bodies", call.layout = "container", MipLevel = 0,
         Available(Entry.size)
  PROVE  /\ call.whole /\ InputEnd <= Reach
         /\ Decompressed(Entry.magic, Fetched(Entry.size), Header.expected) = Largest
<1>1. IInv /\ call \in Calls /\ call.base \in Nat /\ MipMapCount \in Nat /\ turn \in Nat
      /\ Reach \in Nat /\ Reach <= InputEnd /\ Len(call.units) \in Nat /\ InputEnd \in Nat
      /\ Len(Original(call)) \in Nat /\ Len(call.units) <= Len(Original(call)) /\ Known
  BY RunningFacts, CallFacts, OriginalFacts DEF IInvFile, Known
<1>2. turn + 1 = MipMapCount /\ turn + 2 = MipMapCount + 1
  BY <1>1 DEF MipLevel
<1>3. Len(call.blocks) = MipMapCount /\ call.blocks[1].raw = Header.expected
      /\ BodyAt(turn + 2) = Len(Original(call))
  BY <1>1, <1>2, ContainerCall
<1> DEFINE k == turn + 1
           b == FileBlock(call.blocks, k)
           n == Entry.size
<1>4. b = call.blocks[1] /\ FileLevel(call.blocks, k) = 0
  BY <1>1, <1>2, <1>3 DEF FileBlock, FileLevel
<1>5. /\ PartFound(k) /\ BodyAt(k) \in Nat /\ Entry = FileEntry(k) /\ n \in Nat \ {0}
      /\ pos = call.base + BodyAt(k) /\ pos + n = call.base + Len(Original(call))
  BY <1>3, BodyFound
<1>6. b \in BlockType /\ n = BodyLength(b) /\ Entry.magic = b.magic
  BY <1>5 DEF PartFound, FileEntry
<1>7. pos + n <= Reach
  BY <1>5 DEF Available
<1> HIDE DEF k, n
<1>8. call.whole /\ InputEnd <= Reach
  <2>1. Len(call.units) = Len(Original(call))
    BY <1>1, <1>5, <1>7 DEF InputEnd
  <2> QED
    BY <1>1, <1>5, <1>7, <2>1, OriginalFacts DEF InputEnd
<1>9. Fetched(n) = Body(0, b)
  <2>1. Fetched(n) = [j \in 1..n |-> call.units[BodyAt(k) + j]]
    BY <1>1, <1>5, FetchedFacts
  <2>2. Body(0, b) \in Seq(UnitType) /\ Len(Body(0, b)) = n
    BY <1>6, BodyFacts
  <2>3. ASSUME NEW j \in 1..n PROVE call.units[BodyAt(k) + j] = Body(0, b)[j]
    <3>1. BodyAt(k) + j <= Len(call.units)
      <4>1. BodyAt(k) + n = Len(call.units)
        <5>1. call.base + BodyAt(k) + n = call.base + Len(Original(call))
          BY <1>5
        <5>2. Len(Original(call)) = Len(call.units)
          BY <1>1, <1>8, OriginalFacts
        <5>3. call.base \in Nat /\ Len(call.units) \in Nat
          BY <1>1, CallFacts
        <5>4. \A a, c, e, f \in Nat : a + c + e = a + f => c + e = f
          OBVIOUS
        <5>5. BodyAt(k) \in Nat /\ n \in Nat
          BY <1>5
        <5> QED
          BY <5>1, <5>2, <5>3, <5>4, <5>5
      <4> QED
        BY <1>1, <1>5, <4>1
    <3>2. j \in 1..BodyLength(b)
      BY <1>6
    <3>3. call.units[BodyAt(k) + j] = Body(FileLevel(call.blocks, k), b)[j]
      BY <1>5, <3>1, <3>2 DEF PartFound
    <3> QED
      BY <1>4, <3>3
  <2> HIDE DEF b
  <2>4. Body(0, b) = [j \in 1..n |-> Body(0, b)[j]]
    BY <1>5, <2>2
  <2> QED
    BY <2>1, <2>3, <2>4
<1>10. Decompressed(b.magic, Body(0, b), b.raw) = Payload(0, b.raw)
  BY <1>6, BodyDecompressed
<1>11. b.raw = Header.expected
  BY <1>3, <1>4
<1> QED
  BY <1>6, <1>8, <1>9, <1>10, <1>11 DEF Largest, n

(* The last body is that of the largest level.                             *)
LEMMA ReadLargestFile ==
  ASSUME IInvFile, ReadLargest
  PROVE  IInvFile'
<1> DEFINE decoded == Decompressed(Entry.magic, Fetched(Entry.size), Header.expected)
<1>1. IInv /\ IInv' /\ pc = "bodies" /\ call \in Calls /\ MipLevel = 0
      /\ UNCHANGED <<call, limits, table, turn>> /\ pc' = "done"
      /\ Checked /\ InContainer /\ InLegacy /\ TableRead
      /\ call.kind # "config" /\ FileWithinLimit /\ MipMapCount <= limits.mips
  BY ReadLargestKeeps, RunningFacts DEF IInvFile, ReadLargest, IInv, Checked, Return
<1>2. Known => call.layout = "container"
  BY <1>1, CallsAssumption DEF InLegacy, Known, CallType, Layouts
<1>7. /\ SizeError \in {"none", "error", "limit"}
      /\ SizeError = "none" => SizesWithinLimits
      /\ SizeError = "limit" => ~SizesWithinLimits
      /\ SizeError = "error" => Header.image = 0 \/ Header.expected = 0
  BY <1>1, RunningFacts, SizeErrorFacts
<1>3. CASE SizeError = "error"
  <2>1. ~Known
    BY <1>1, <1>3, <1>7, OriginalFacts
  <2> QED
    BY <1>1, <2>1, StepAnswers
<1>4. CASE SizeError = "limit"
  <2>1. outcome' = "limit" /\ Exceeded
    BY <1>4, <1>7 DEF ReadLargest, Return, Exceeded
  <2>2. Answers(outcome', mipData')
    BY <1>1, <2>1 DEF Answers
  <2> QED
    BY <1>1, <2>2, StepAnswers
<1>5. CASE SizeError = "none" /\ ~Available(Entry.size)
  <2>1. outcome' = "error"
    BY <1>5 DEF ReadLargest, Return
  <2>2. ASSUME Known, call.whole PROVE Exceeded
    <3>1. call.layout = "container" /\ Len(Original(call)) = Len(call.units)
      BY <1>1, <1>2, <2>2, OriginalFacts
    <3>2. pos + Entry.size <= InputEnd /\ Entry.size \in Nat
      <4>1. call.base \in Nat /\ Len(call.units) \in Nat
        BY <1>1, CallFacts
      <4> QED
        BY <1>1, <3>1, <4>1, BodyFound DEF InputEnd
    <3> QED
      BY <1>1, <1>5, <3>2, BudgetMissed
  <2>3. Known => Answers(outcome', mipData')
    BY <1>1, <2>1, <2>2 DEF Answers
  <2> QED
    BY <1>1, <2>3, StepAnswers
<1>6. CASE SizeError = "none" /\ Available(Entry.size)
  <2>1. mipData' = decoded /\ outcome' = IF Len(decoded) = Header.expected THEN "ok" ELSE "error"
    BY <1>6 DEF ReadLargest, Return
  <2>2. ASSUME Known PROVE Answers(outcome', mipData')
    <3>1. call.layout = "container"
      BY <1>2, <2>2
    <3>2. call.whole /\ InputEnd <= Reach /\ decoded = Largest
      BY <1>1, <1>6, <3>1, LargestFound
    <3>3. Len(Largest) = Header.expected
      BY <1>1, CallFacts DEF Largest, Payload, Run
    <3>4. ~BodyTooLong
      <4> SUFFICES ASSUME BodyTooLong PROVE FALSE
        OBVIOUS
      <4>1. PICK k \in 1..MipMapCount : FileEntry(k).size > limits.block
        BY <1>1, <3>1, TooLongEntry
      <4>2. k \in 1..Len(table) /\ table[k] = FileEntry(k)
        BY <1>1, <3>1 DEF TableRead, InContainer
      <4>3. table[k].size <= limits.block /\ table[k].size \in Nat /\ limits.block \in Nat
        <5>1. table \in Seq([magic : {COPY, LZ4}, size : Nat]) /\ limits.block \in Nat
          BY <1>1, RunningFacts, LimitFacts
        <5>2. table[k] \in [magic : {COPY, LZ4}, size : Nat]
          BY <4>2, <5>1, ElementOfSeq
        <5> QED
          BY <1>1, <4>2, <5>1, <5>2 DEF TableRead, TableWithinLimit
      <4> QED
        BY <4>1, <4>2, <4>3
    <3>5. call.kind # "seeker" => InputEnd <= limits.input
      <4>1. call.kind \in {"path", "seeker", "stream"} /\ InputEnd \in Nat /\ limits.input \in Nat
            /\ Reach \in Nat /\ (call.kind = "stream" => Reach <= limits.input)
        BY <1>1, RunningFacts, CallFacts, LimitFacts DEF Kinds
      <4> QED
        BY <1>1, <3>2, <4>1 DEF FileWithinLimit
    <3>6. ~Exceeded
      <4>1. InputEnd \in Nat /\ limits.input \in Nat /\ MipMapCount \in Nat /\ limits.mips \in Nat
        BY <1>1, RunningFacts, CallFacts, LimitFacts
      <4> QED
        BY <1>1, <1>6, <1>7, <3>4, <3>5, <4>1 DEF Exceeded
    <3> QED
      BY <1>1, <2>1, <3>2, <3>3, <3>6 DEF Answers
  <2> QED
    BY <1>1, <2>2, StepAnswers
<1> QED
  BY <1>3, <1>4, <1>5, <1>6, <1>7

(* The payload follows the header where the input begins at 0.             *)
LEMMA SeekLegacyFile ==
  ASSUME IInvFile, SeekLegacy
  PROVE  IInvFile'
<1>1. IInv /\ IInv' /\ pc = "legacy" /\ pc' = "blob" /\ call \in Calls
      /\ UNCHANGED <<call, limits, table>>
      /\ pos = call.base + HeaderSize
      /\ pos' = (IF call.kind = "stream" THEN pos ELSE HeaderSize)
      /\ Checked /\ InContainer /\ InLegacy
  BY SeekLegacyKeeps, RunningFacts DEF IInvFile, SeekLegacy, Goto, IInv, WithinInput
<1>2. UNCHANGED <<MipMapCount, HeaderSize, InputEnd, FileWithinLimit, Displaced>>
  BY <1>1, SameCall
<1>3. InLegacy'
  <2>1. HeaderSize \in Nat /\ call.base \in Nat
    BY <1>1, CallFacts
  <2>2. call.layout = "legacy" => Displaced \/ pos' = call.base + HeaderSize
    BY <1>1, <2>1 DEF Displaced
  <2> QED
    BY <1>1, <1>2, <2>2 DEF InLegacy
<1> QED
  BY <1>1, <1>2, <1>3, StepGoesOn DEF Checked, InContainer, NoTableYet

(* The blob behind the headers of a legacy file, cut where the input ends. *)
LEMMA BlobFound ==
  ASSUME call \in Calls, call.layout = "legacy", pos = call.base + HeaderSize, pos <= InputEnd
  PROVE  LET l == InputEnd - pos
         IN  /\ l \in Nat /\ l = Len(call.units) - HeaderSize
             /\ call.whole => Taken(Fetched(l), Header.expected) = Largest
             /\ ~call.whole => PassesForRaw \/ Taken(Fetched(l), Header.expected) = << >>
<1>1. HeaderSize \in Nat /\ Len(call.units) \in Nat /\ call.base \in Nat
      /\ Header.expected \in Nat \ {0} /\ Known
      /\ Len(Original(call)) \in Nat /\ Len(call.units) <= Len(Original(call))
      /\ call.whole = (Len(call.units) = Len(Original(call)))
  BY CallFacts, OriginalFacts DEF Known
<1>2. PICK blob \in LegacyBlobs(Header.expected) : Original(call) = Headers(Header.dx10) \o blob
  BY <1>1, OriginalFacts DEF Originals, Header
<1>3. blob \in Seq(UnitType) /\ Len(blob) \in Nat /\ Headers(Header.dx10) \in Seq(UnitType)
      /\ Len(Headers(Header.dx10)) = HeaderSize
  BY <1>1, CallFacts, HeadersFacts, LegacyBlobFacts DEF HeadersLength, HeaderSize
<1>4. /\ Len(Original(call)) = HeaderSize + Len(blob)
      /\ \A j \in 1..Len(blob) : Original(call)[HeaderSize + j] = blob[j]
  <2> DEFINE s == Headers(Header.dx10)
  <2>1. Len(s \o blob) = Len(s) + Len(blob) /\ \A j \in 1..Len(blob) : (s \o blob)[Len(s) + j] = blob[j]
    <3>1. s \in Seq(UnitType)
      BY <1>3
    <3> HIDE DEF s
    <3> QED
      BY <1>3, <3>1, ConcatFacts
  <2> QED
    BY <1>2, <1>3, <2>1
<1> DEFINE l == InputEnd - pos
<1>5. l \in Nat /\ l = Len(call.units) - HeaderSize /\ l <= Len(blob)
  BY <1>1, <1>3, <1>4 DEF InputEnd
<1> HIDE DEF l
<1>6. Fetched(l) = [j \in 1..l |-> blob[j]]
  <2>1. Fetched(l) = [j \in 1..l |-> call.units[HeaderSize + j]]
    BY <1>1, <1>5, FetchedFacts
  <2>2. ASSUME NEW j \in 1..l PROVE call.units[HeaderSize + j] = blob[j]
    <3>1. HeaderSize + j \in 1..Len(call.units) /\ j \in 1..Len(blob)
      BY <1>1, <1>3, <1>5
    <3> QED
      BY <1>1, <1>4, <3>1, OriginalFacts
  <2> QED
    BY <2>1, <2>2
<1>7. ASSUME call.whole PROVE Taken(Fetched(l), Header.expected) = Largest
  <2>1. l = Len(blob)
    <3>1. Len(call.units) = HeaderSize + Len(blob)
      BY <1>1, <1>4, <1>7
    <3> QED
      BY <1>1, <1>3, <1>5, <3>1
  <2>2. blob = [j \in 1..Len(blob) |-> blob[j]]
    BY <1>3
  <2>3. Fetched(l) = blob
    BY <1>6, <2>1, <2>2
  <2> QED
    BY <1>1, <2>3, LegacyTaken DEF Largest
<1>8. ASSUME ~call.whole PROVE PassesForRaw \/ Taken(Fetched(l), Header.expected) = << >>
  <2>1. l < Len(blob)
    <3>1. Len(call.units) # HeaderSize + Len(blob)
      BY <1>1, <1>4, <1>8
    <3> QED
      BY <1>1, <1>3, <1>5, <3>1
  <2>2. CASE l = Header.expected
    <3>1. InputEnd = call.base + HeaderSize + Header.expected
      BY <1>1, <1>5, <2>2 DEF InputEnd
    <3> QED
      BY <1>8, <3>1 DEF PassesForRaw
  <2>3. CASE l # Header.expected
    BY <1>1, <1>5, <1>6, <2>1, <2>3, LegacyCutRefused
  <2> QED
    BY <2>2, <2>3
<1> QED
  BY <1>5, <1>7, <1>8 DEF l

(* The payload read is whole, or one of the exceptions.                    *)
LEMMA ReadLegacyFile ==
  ASSUME IInvFile, ReadLegacy
  PROVE  IInvFile'
<1> DEFINE length == BlobRead(InputEnd - pos)
           blob == Fetched(length)
           inflated == Decompressed(LZ4, blob, Header.expected)
<1>1. IInv /\ IInv' /\ pc = "blob" /\ call \in Calls
      /\ UNCHANGED <<call, limits, table, turn>>
      /\ Checked /\ InContainer /\ InLegacy /\ pos <= InputEnd
      /\ call.kind # "config" /\ FileWithinLimit /\ MipMapCount <= limits.mips
  BY ReadLegacyKeeps, RunningFacts
     DEF IInvFile, ReadLegacy, IInv, Checked, WithinInput, Parsing
<1>2. pos \in Nat /\ InputEnd \in Nat /\ Reach \in Nat /\ limits.block \in Nat /\ limits.input \in Nat
      /\ limits.mips \in Nat /\ MipMapCount \in Nat /\ call.kind \in Kinds
      /\ call.base \in Nat /\ HeaderSize \in Nat /\ Len(call.units) \in Nat /\ Header.expected \in Nat
  BY <1>1, RunningFacts, CallFacts, LimitFacts
<1>3. ASSUME Known PROVE call.layout = "legacy" /\ (Displaced \/ pos = call.base + HeaderSize)
  BY <1>1, <1>3, CallsAssumption DEF InContainer, InLegacy, Known, CallType, Layouts
<1>5. length \in Nat /\ (length <= limits.block => length = InputEnd - pos)
      /\ (length > limits.block => InputEnd - pos > limits.block)
  BY <1>1, <1>2 DEF BlobRead
<1>10. /\ SizeError \in {"none", "error", "limit"}
       /\ SizeError = "none" => SizesWithinLimits
       /\ SizeError = "limit" => ~SizesWithinLimits
       /\ SizeError = "error" => Header.image = 0 \/ Header.expected = 0
  BY <1>1, RunningFacts, SizeErrorFacts
<1>6. CASE SizeError = "error"
  <2>1. ~Known
    BY <1>1, <1>6, <1>10, OriginalFacts
  <2>2. Return("error")
    BY <1>6 DEF ReadLegacy
  <2> QED
    BY <1>1, <2>1, <2>2, StepAnswers DEF Return
<1>7. CASE SizeError = "limit"
  <2>1. Return("limit") /\ Exceeded
    BY <1>7, <1>10 DEF ReadLegacy, Exceeded
  <2>2. Answers(outcome', mipData')
    BY <1>1, <2>1 DEF Answers, Return
  <2> QED
    BY <1>1, <2>1, <2>2, StepAnswers DEF Return
<1>8. CASE SizeError = "none" /\ (EndUnseen \/ length > limits.block)
  <2>1. Return("limit")
    <3>1. EndUnseen \/ ~(length <= limits.block)
      BY <1>2, <1>5, <1>8
    <3> QED
      BY <1>8, <3>1 DEF ReadLegacy
  <2>2. ASSUME Known PROVE Exceeded \/ EndLost \/ Displaced
    <3>1. CASE EndUnseen
      BY <1>3, <2>2, <3>1 DEF EndUnseen, EndLost
    <3>2. CASE length > limits.block /\ pos = call.base + HeaderSize
      <4>1. Len(call.units) - HeaderSize > limits.block
        BY <1>2, <1>5, <3>2 DEF InputEnd
      <4> QED
        BY <1>3, <2>2, <4>1 DEF Exceeded, BodyTooLong
    <3> QED
      BY <1>3, <1>8, <2>2, <3>1, <3>2
  <2>3. Known => Answers(outcome', mipData')
    BY <1>1, <2>1, <2>2 DEF Answers, Return
  <2> QED
    BY <1>1, <2>1, <2>3, StepAnswers DEF Return
<1>9. CASE SizeError = "none" /\ ~EndUnseen /\ length <= limits.block
  <2>1. length = InputEnd - pos
    BY <1>5, <1>9
  <2>2. mipData' = Taken(blob, Header.expected) /\ pc' = "done"
        /\ outcome' = IF mipData' = << >> THEN "error" ELSE "ok"
    <3>1. mipData' = (IF inflated = << >> /\ length = Header.expected THEN blob ELSE inflated)
          /\ Return(IF mipData' = << >> THEN "error" ELSE "ok")
      BY <1>9 DEF ReadLegacy
    <3>2. Len(blob) = length
      BY <1>5 DEF Fetched
    <3> QED
      BY <3>1, <3>2 DEF Taken, Return
  <2> HIDE DEF length, inflated
  <2>3. ASSUME Known, pos = call.base + HeaderSize PROVE Answers(outcome', mipData')
    <3>1. call.layout = "legacy"
      BY <1>3, <2>3
    <3>2. /\ call.whole => mipData' = Largest
          /\ ~call.whole => PassesForRaw \/ mipData' = << >>
          /\ length = Len(call.units) - HeaderSize
      BY <1>1, <2>1, <2>2, <2>3, <3>1, BlobFound
    <3>3. Largest # << >>
      <4>1. Header.expected \in Nat \ {0}
        BY <1>1, <2>3, OriginalFacts
      <4> QED
        BY <4>1 DEF Largest, Payload, Run
    <3>4. ~BodyTooLong
      BY <1>2, <1>9, <3>1, <3>2 DEF BodyTooLong
    <3>5. call.kind # "seeker" => InputEnd <= limits.input
      <4>1. CASE call.kind = "path"
        BY <1>1, <4>1 DEF FileWithinLimit
      <4>2. CASE call.kind = "stream"
        <5> SUFFICES ASSUME limits.input < InputEnd PROVE FALSE
          BY <1>2
        <5>1. BudgetSpent /\ Reach = limits.input
          BY <1>2, <4>2 DEF BudgetSpent, Reach
        <5>2. pos + limits.block + 1 <= Reach
          BY <1>2, <1>9, <5>1 DEF EndUnseen
        <5> QED
          BY <1>2, <1>9, <2>1, <5>1, <5>2
      <4> QED
        BY <1>1, <1>2, <4>1, <4>2 DEF Kinds
    <3>6. ~Exceeded
      BY <1>1, <1>2, <1>9, <1>10, <3>4, <3>5 DEF Exceeded
    <3> QED
      BY <1>1, <2>2, <3>2, <3>3, <3>6 DEF Answers
  <2>4. ASSUME Known, Displaced PROVE Answers(outcome', mipData')
    BY <1>1, <2>2, <2>4 DEF Answers
  <2> QED
    BY <1>1, <1>3, <2>2, <2>3, <2>4, StepAnswers
<1> QED
  BY <1>2, <1>5, <1>6, <1>7, <1>8, <1>9, <1>10

(* The induction step for whole files.                                     *)
LEMMA NextFile == IInvFile /\ [Next]_vars => IInvFile'
<1> SUFFICES ASSUME IInvFile, [Next]_vars PROVE IInvFile'
  OBVIOUS
<1>1. CASE pc = "idle" /\ \E c \in Calls : Begin(c)
  BY <1>1, BeginFile
<1>2. CASE UNCHANGED vars
  <2>1. IInv' /\ UNCHANGED <<pc, call, limits, pos, table, turn, outcome, mipData>>
    BY <1>2, NextKeeps DEF IInvFile, vars
  <2>2. UNCHANGED <<Known, Exceeded, EndLost, Displaced, TooShortToProbe, PassesForRaw, Largest,
                    MipMapCount, HeaderSize, InputEnd, FileWithinLimit>>
    BY <2>1, SameCall
  <2>3. Promised'
    BY <2>1, <2>2 DEF IInvFile, Promised, GoodInputsAreRead, NothingElseIsRead,
                      LimitErrorsAreTrue, Returned
  <2>4. Checked' /\ NoTableYet'
    BY <2>1, <2>2 DEF IInvFile, Checked, NoTableYet
  <2>5. pc # "idle" => InContainer' /\ InLegacy'
    <3>1. \A i : FileEntry(i)' = FileEntry(i)
      BY <2>1 DEF FileEntry, FileBlock
    <3>2. UNCHANGED <<EntryAt(Len(table) + 1), BodyAt(turn + 1)>>
      BY <2>1 DEF EntryAt, BodyAt
    <3> QED
      BY <2>1, <2>2, <3>1, <3>2 DEF IInvFile, InContainer, InLegacy
  <2> QED
    BY <2>1, <2>3, <2>4, <2>5 DEF IInvFile
<1> QED
  BY <1>1, <1>2, OpenFile, ReadHeadersFile, ProbeFile, ReadEntryFile, CheckTableFile,
     SkipBodyFile, ReadLargestFile, SeekLegacyFile, ReadLegacyFile, FinishFile
     DEF Next

(* ReadWithOptions, decodeReadSeeker and decodeStream all take a complete  *)
(* input of any number of levels, of any sizes, that fits the limits, and  *)
(* get its largest level out of it.                                        *)
THEOREM GoodFilesAreRead == Spec => []GoodInputsAreRead
<1>1. IInvFile => GoodInputsAreRead
  BY DEF IInvFile, Promised
<1> QED
  BY <1>1, InitFile, NextFile, PTL DEF Spec

(* None of them takes an input that was cut short anywhere or is beyond    *)
(* its limits, or takes a part of a level, or another one, for the level.  *)
THEOREM OnlyGoodFilesAreRead == Spec => []NothingElseIsRead
<1>1. IInvFile => NothingElseIsRead
  BY DEF IInvFile, Promised
<1> QED
  BY <1>1, InitFile, NextFile, PTL DEF Spec

(* ErrReadLimitExceeded of a complete input means that a limit is in the   *)
(* way, or one of the two things that are named.                           *)
THEOREM LimitErrorsHaveReasons == Spec => []LimitErrorsAreTrue
<1>1. IInvFile => LimitErrorsAreTrue
  BY DEF IInvFile, Promised
<1> QED
  BY <1>1, InitFile, NextFile, PTL DEF Spec

=============================================================================
