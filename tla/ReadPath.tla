------------------------------ MODULE ReadPath ------------------------------
(***************************************************************************)
(* The three ways to read an EDDS image (read.go, block.go), one call      *)
(* after another: from a path (ReadWithOptions), from an io.ReadSeeker     *)
(* (decodeReadSeeker) and from a plain io.Reader (decodeStream), and       *)
(* ReadConfig.  They parse the same input with different primitives: a     *)
(* file is measured before it is read, seekers skip without reading and    *)
(* seek back, a stream is read through a budget and peeked.                *)
(*                                                                         *)
(* A call that fails returns an error which is ErrReadLimitExceeded for    *)
(* errors.Is ("limit") or is not ("error"): wrapping it with %v loses it.  *)
(* A call that succeeds ("ok") has a payload of the expected length, which *)
(* decodePayload hands to the image decoder of bcn.                        *)
(***************************************************************************)
EXTENDS EddsLayout

CONSTANTS
  Calls,       \* the calls made: see CallType
  Default,     \* the limits that stand in for options left at zero
  MaxInt32,    \* the largest MaxBlockBytes accepted
  MaxInt,      \* MaxInputBytes stays below it
  None         \* no call

Kinds == {"path", "seeker", "stream", "config"}
Layouts == {"container", "legacy", "other"}
LimitNames == {"mips", "block", "decoded", "image", "input"}

(* What the DDS headers say.  expected and image are the sizes that        *)
(* expectedDataLengthChecked finds for mip level 0, in the format of the   *)
(* file and in RGBA8; 0 is an unknown format or a size out of range.       *)
HeaderType ==
  [dx10 : BOOLEAN, supported : BOOLEAN, caps : BOOLEAN, mips : Nat, expected : Nat, image : Nat]

(* readMipMapCount.                                                        *)
MipMaps(h) == IF h.caps /\ h.mips > 0 THEN h.mips ELSE 1

(* A call: how the input is read, what precedes it in a seeker, whether a  *)
(* stream reports its end together with the last units, and the input,     *)
(* with what made it: layout "other" is neither a container nor a legacy   *)
(* file, blocks is what a container was made of, and whole is FALSE for an *)
(* input that was cut short.                                               *)
CallType ==
  [kind : Kinds, base : Nat, eager : BOOLEAN, opts : [LimitNames -> Int],
   header : HeaderType, units : Seq(UnitType),
   layout : Layouts, blocks : Seq(BlockType), whole : BOOLEAN]

ASSUME CallsAssumption ==
  \A c \in Calls : c \in CallType /\ (c.base > 0 => c.kind = "seeker")
ASSUME NoneAssumption == None \notin Calls

(* The complete files that the input of a call can be, or be the beginning *)
(* of.                                                                     *)
Originals(c) ==
  IF c.layout = "container"
    THEN {Container(c.header.dx10, c.blocks)}
    ELSE {Headers(c.header.dx10) \o blob : blob \in LegacyBlobs(c.header.expected)}

IsOriginal(c, file) ==
  /\ Len(c.units) <= Len(file)
  /\ c.units = SubSeq(file, 1, Len(c.units))
  /\ c.whole = (Len(c.units) = Len(file))

(* The headers go with the file: they have its format, its size and its    *)
(* mip levels.                                                             *)
ASSUME InputsAssumption ==
  \A c \in Calls : c.layout # "other" =>
    /\ c.header.supported /\ c.header.expected > 0 /\ c.header.image > 0
    /\ \E file \in Originals(c) : IsOriginal(c, file)
    /\ c.layout = "container" =>
         Len(c.blocks) = MipMaps(c.header) /\ c.blocks[1].raw = c.header.expected

ASSUME DefaultAssumption == Default \in [LimitNames -> Nat \ {0}]

VARIABLES
  pc,       \* what the call does next, "idle" between calls
  call,     \* the running call, or None
  limits,   \* readLimits
  pos,      \* the reader's offset
  table,    \* the block table read so far
  turn,     \* the table index i of the loop over the bodies
  held,     \* the length of the buffer made for a body or a blob
  outcome,  \* "none", "ok", "config", "limit" or "error"
  mipData   \* what is handed to the image decoder

vars == <<pc, call, limits, pos, table, turn, held, outcome, mipData>>

Init ==
  /\ pc = "idle"
  /\ call = None
  /\ limits = Default
  /\ pos = 0
  /\ table = << >>
  /\ turn = 0
  /\ held = 0
  /\ outcome = "none"
  /\ mipData = << >>

-----------------------------------------------------------------------------
(***************************************************************************)
(* Reading units                                                           *)
(***************************************************************************)

Header == call.header
InputEnd == call.base + Len(call.units)

(* What a call can read up to: limitedReader stops a stream at its budget. *)
Reach ==
  IF call.kind = "stream" /\ limits.input < InputEnd THEN limits.input ELSE InputEnd

Available(n) == n = 0 \/ pos + n <= Reach
UnitAt(k) == IF k < call.base THEN Unit("before", 0, k) ELSE call.units[k - call.base + 1]
Fetched(n) == [k \in 1..n |-> UnitAt(pos + k - 1)]

(* A read that meets the end of the input gets io.EOF, one that meets the  *)
(* end of the budget ErrReadLimitExceeded.  A stream as long as the budget *)
(* has used it up before it could report its end, unless it did so with    *)
(* its last units.                                                         *)
BudgetSpent ==
  /\ call.kind = "stream"
  /\ limits.input < InputEnd \/ (limits.input = InputEnd /\ ~call.eager)
ShortRead == IF BudgetSpent THEN "limit" ELSE "error"

Return(what) ==
  /\ outcome' = what
  /\ pc' = "done"

Goto(label) ==
  /\ pc' = label
  /\ UNCHANGED outcome

-----------------------------------------------------------------------------
(***************************************************************************)
(* The call                                                                *)
(***************************************************************************)

(* normalizeReadLimits.                                                    *)
ValidOptions(opts) ==
  /\ \A f \in LimitNames : opts[f] >= 0
  /\ opts.mips <= Default.mips
  /\ opts.block <= MaxInt32
  /\ opts.input < MaxInt
Normalized(opts) == [f \in LimitNames |-> IF opts[f] > 0 THEN opts[f] ELSE Default[f]]

(* Begin a call; ReadConfig takes no options.                              *)
Begin(c) ==
  /\ call' = c
  /\ pos' = c.base
  /\ IF ValidOptions(c.opts)
       THEN limits' = Normalized(c.opts) /\ Goto("open")
       ELSE UNCHANGED limits /\ Return("error")
  /\ UNCHANGED <<table, turn, held, mipData>>

(* Mutant: a file as large as the limit is too large.                      *)
FileBelowLimit == call.kind = "path" => InputEnd < limits.input

(* validateInputFileSize: only a path is measured before it is read.       *)
FileWithinLimit == call.kind = "path" => InputEnd <= limits.input

Open ==
  /\ pc = "open"
  /\ IF FileWithinLimit THEN Goto("headers") ELSE Return("limit")
  /\ UNCHANGED <<call, limits, pos, table, turn, held, mipData>>

MipMapCount == MipMaps(Header)

HeaderSize == HeaderLength + (IF Header.dx10 THEN DX10Length ELSE 0)

(* readEDDSHeaders, validateTextureType, readMipMapCount.                  *)
ReadHeaders ==
  /\ pc = "headers"
  /\ IF ~Available(HeaderSize)
       THEN Return("error") /\ UNCHANGED pos
       ELSE /\ pos' = pos + HeaderSize
            /\ CASE ~Header.supported -> Return("error")
                 [] Header.supported /\ call.kind = "config" -> Return("config")
                 [] Header.supported /\ call.kind # "config" ->
                      IF MipMapCount > limits.mips THEN Return("limit") ELSE Goto("probe")
  /\ UNCHANGED <<call, limits, table, turn, held, mipData>>

IsMagic(us, magic) == \A k \in 1..MagicLength : us[k].part = magic /\ us[k].value = k
IsTableMagic(us) == IsMagic(us, COPY) \/ IsMagic(us, LZ4)

(* hasBlockTableMagicAtCurrent seeks back and hasBlockTableMagic peeks:    *)
(* the offset does not move.                                               *)
Probe ==
  /\ pc = "probe"
  /\ CASE ~Available(MagicLength) -> Return(ShortRead)
       [] Available(MagicLength) /\ IsTableMagic(Fetched(MagicLength)) -> Goto("table")
       [] Available(MagicLength) /\ ~IsTableMagic(Fetched(MagicLength)) -> Goto("legacy")
  /\ UNCHANGED <<call, limits, pos, table, turn, held, mipData>>

EntryLength == MagicLength + 1
EntryMagic == IF IsMagic(Fetched(MagicLength), COPY) THEN COPY ELSE LZ4
EntrySize == UnitAt(pos + MagicLength).value

(* Mutant: a negative size is not refused.                                 *)
AnySize == IsTableMagic(Fetched(MagicLength))

EntryValid == IsTableMagic(Fetched(MagicLength)) /\ EntrySize >= 0

(* One turn of readBlockTableInto; its errors are wrapped with %v.         *)
ReadEntry ==
  /\ pc = "table"
  /\ Len(table) < MipMapCount
  /\ IF Available(EntryLength) /\ EntryValid
       THEN /\ table' = Append(table, [magic |-> EntryMagic, size |-> EntrySize])
            /\ pos' = pos + EntryLength
            /\ UNCHANGED <<pc, outcome>>
       ELSE Return("error") /\ UNCHANGED <<pos, table>>
  /\ UNCHANGED <<call, limits, turn, held, mipData>>

(* Mutant: the table is not held against the limit.                        *)
NoTableLimit == TRUE

TableWithinLimit == \A i \in 1..Len(table) : table[i].size <= limits.block

(* validateBlockTable.                                                     *)
CheckTable ==
  /\ pc = "table"
  /\ Len(table) = MipMapCount
  /\ IF TableWithinLimit THEN Goto("bodies") ELSE Return("limit")
  /\ UNCHANGED <<call, limits, pos, table, turn, held, mipData>>

Entry == table[turn + 1]

(* Mutant: the bodies run from the largest level to the smallest.          *)
LargestFirst == turn

MipLevel == MipMapCount - turn - 1

(* A smaller level: a seeker moves on, past the end if the table says so,  *)
(* and discardBlockBody reads it away.                                     *)
SkipBody ==
  /\ pc = "bodies"
  /\ MipLevel # 0
  /\ IF call.kind = "stream" /\ ~Available(Entry.size)
       THEN Return(ShortRead) /\ UNCHANGED <<pos, turn>>
       ELSE /\ pos' = pos + Entry.size
            /\ turn' = turn + 1
            /\ UNCHANGED <<pc, outcome>>
  /\ UNCHANGED <<call, limits, table, held, mipData>>

SizesWithinLimits == Header.image <= limits.image /\ Header.expected <= limits.decoded

(* expectedReadDataLength: the size of the image is worked out and held    *)
(* against its limit before that of the payload.                           *)
SizeError ==
  CASE Header.image = 0 -> "error"
    [] Header.image > limits.image -> "limit"
    [] Header.image \in 1..limits.image /\ Header.expected = 0 -> "error"
    [] Header.image \in 1..limits.image /\ Header.expected > limits.decoded -> "limit"
    [] OTHER -> "none"

-----------------------------------------------------------------------------
(***************************************************************************)
(* Decompression, as far as it matters here: ChunkDecoder has the rest     *)
(***************************************************************************)

(* A size in front of the stream is passed over if it is the right one.    *)
WithoutPrefix(us, n) ==
  IF Len(us) > 1 /\ us[1].part = "uncompressed" /\ us[1].value = n THEN Tail(us) ELSE us

Inflates(us, n) == us # << >> /\ us = ChunkStream(us[1].mip, n)

(* What decompressBlock makes of a body, << >> when it refuses it.         *)
Decompressed(magic, us, n) ==
  LET stream == WithoutPrefix(us, n)
  IN  CASE magic = COPY /\ Len(us) = n -> us
        [] magic = LZ4 /\ Inflates(stream, n) -> Payload(stream[1].mip, n)
        [] OTHER -> << >>

-----------------------------------------------------------------------------
(* The largest level comes last.  readBlockBodyInto makes the buffer       *)
(* before it reads; body errors are wrapped with %v.                       *)
ReadLargest ==
  /\ pc = "bodies"
  /\ MipLevel = 0
  /\ CASE SizeError # "none" -> Return(SizeError) /\ UNCHANGED <<pos, held, mipData>>
       [] SizeError = "none" /\ ~Available(Entry.size) ->
            Return("error") /\ held' = Entry.size /\ UNCHANGED <<pos, mipData>>
       [] SizeError = "none" /\ Available(Entry.size) ->
            LET decoded == Decompressed(Entry.magic, Fetched(Entry.size), Header.expected)
            IN  /\ pos' = pos + Entry.size
                /\ held' = Entry.size
                /\ mipData' = decoded
                /\ Return(IF Len(decoded) = Header.expected THEN "ok" ELSE "error")
  /\ UNCHANGED <<call, limits, table, turn>>

(* readLegacySingleBlock seeks to where the payload of a file starts.      *)
SeekLegacy ==
  /\ pc = "legacy"
  /\ pos' = IF call.kind = "stream" THEN pos ELSE HeaderSize
  /\ Goto("blob")
  /\ UNCHANGED <<call, limits, table, turn, held, mipData>>

(* Mutant: a blob as long as the limit is taken for a longer one.          *)
BlobReadToLimit(n) == IF n >= limits.block THEN limits.block + 1 ELSE n

(* readAllWithLimit asks for one unit more than it accepts.                *)
BlobRead(n) == IF n > limits.block THEN limits.block + 1 ELSE n

(* The end of the input is not seen: the budget is spent before.           *)
EndUnseen == BudgetSpent /\ pos + limits.block + 1 > Reach

(* readLegacySingleBlockFromReader: inflate the blob, and if that fails    *)
(* take it for raw data when it has the length of raw data.                *)
ReadLegacy ==
  LET length == BlobRead(InputEnd - pos)
      blob == Fetched(length)
      inflated == Decompressed(LZ4, blob, Header.expected)
  IN  /\ pc = "blob"
      /\ CASE SizeError # "none" -> Return(SizeError) /\ UNCHANGED <<pos, held, mipData>>
           [] SizeError = "none" /\ (EndUnseen \/ length > limits.block) ->
                /\ Return("limit")
                /\ pos' = IF pos + length <= Reach THEN pos + length ELSE Reach
                /\ held' = pos' - pos
                /\ UNCHANGED mipData
           [] SizeError = "none" /\ ~EndUnseen /\ length <= limits.block ->
                /\ pos' = pos + length
                /\ held' = length
                /\ mipData' = IF inflated = << >> /\ length = Header.expected
                                THEN blob ELSE inflated
                /\ Return(IF mipData' = << >> THEN "error" ELSE "ok")
      /\ UNCHANGED <<call, limits, table, turn>>

(* The call returns and its locals are gone.                               *)
Finish ==
  /\ pc = "done"
  /\ pc' = "idle"
  /\ call' = None
  /\ limits' = Default
  /\ pos' = 0
  /\ table' = << >>
  /\ turn' = 0
  /\ held' = 0
  /\ outcome' = "none"
  /\ mipData' = << >>

Next ==
  \/ pc = "idle" /\ \E c \in Calls : Begin(c)
  \/ Open \/ ReadHeaders \/ Probe
  \/ ReadEntry \/ CheckTable \/ SkipBody \/ ReadLargest
  \/ SeekLegacy \/ ReadLegacy
  \/ Finish

Spec == Init /\ [][Next]_vars

-----------------------------------------------------------------------------
(***************************************************************************)
(* Properties                                                              *)
(***************************************************************************)

Labels ==
  {"idle", "open", "headers", "probe", "table", "bodies", "legacy", "blob", "done"}

(* Types; a table entry has a known magic and a size that moves forward.   *)
TypeOK ==
  /\ pc \in Labels
  /\ (pc = "idle") = (call = None)
  /\ limits \in [LimitNames -> Nat \ {0}]
  /\ pos \in Nat
  /\ table \in Seq([magic : {COPY, LZ4}, size : Nat])
  /\ turn \in 0..Len(table)
  /\ held \in Nat
  /\ (pc = "done") = (outcome \in {"ok", "config", "limit", "error"})

(* Whatever the table and the headers say, no buffer outgrows the limits   *)
(* (readAllWithLimit needs one byte more to notice), and no more of a      *)
(* stream than MaxInputBytes is taken.                                     *)
LimitsHold ==
  /\ held <= limits.block + 1
  /\ Len(mipData) <= limits.decoded
  /\ pc # "idle" /\ call.kind = "stream" => pos <= limits.input

Returned == pc = "done" /\ ValidOptions(call.opts)
Known == call.layout # "other"
Largest == Payload(0, Header.expected)

(* A body of a container, or the blob of a legacy file, is too long.       *)
BodyTooLong ==
  IF call.layout = "container"
    THEN \E k \in 1..Len(call.blocks) : Len(Body(0, call.blocks[k])) > limits.block
    ELSE Len(call.units) - HeaderSize > limits.block

(* The input is too large for the options.  MaxInputBytes is held against  *)
(* files and streams; a seeker is not measured.                            *)
Exceeded ==
  \/ MipMapCount > limits.mips
  \/ BodyTooLong
  \/ ~SizesWithinLimits
  \/ call.kind # "seeker" /\ InputEnd > limits.input

(* Legacy inputs that are not read although they could be: the end of a    *)
(* stream is lost to its budget, a seeker does not stand at its start, the *)
(* payload is shorter than a magic.                                        *)
EndLost == call.layout = "legacy" /\ BudgetSpent
Displaced == call.layout = "legacy" /\ call.base > 0
TooShortToProbe == call.layout = "legacy" /\ InputEnd < call.base + HeaderSize + MagicLength

(* A compressed blob cut to the length of the raw data passes for raw.     *)
PassesForRaw ==
  call.layout = "legacy" /\ ~call.whole /\ InputEnd = call.base + HeaderSize + Header.expected

(* All ways to read take a complete input that fits the limits, at the     *)
(* limits too, and get the largest level out of it: no offset, skip, probe *)
(* or measure is off, and none differs from one reader to the next.        *)
GoodInputsAreRead ==
  Returned /\ Known /\ call.whole =>
    IF call.kind = "config"
      THEN outcome = "config"
      ELSE Exceeded \/ EndLost \/ Displaced \/ TooShortToProbe
           \/ (outcome = "ok" /\ mipData = Largest)

(* And they take nothing else: not another level, not a part of one, not   *)
(* an input cut short anywhere, not one beyond the limits.                 *)
NothingElseIsRead ==
  Returned /\ Known /\ outcome = "ok" /\ ~Displaced /\ ~PassesForRaw =>
    call.whole /\ ~Exceeded /\ mipData = Largest

(* ErrReadLimitExceeded is never returned for a complete input that every  *)
(* limit admits, so a caller who raises the limits gets further.           *)
LimitErrorsAreTrue ==
  Returned /\ Known /\ call.whole /\ outcome = "limit" => Exceeded \/ EndLost \/ Displaced

-----------------------------------------------------------------------------
(***************************************************************************)
(* What comments and documents say and the code does not do                *)
(***************************************************************************)

(* errors.go:26, "ErrReadLimitExceeded indicates EDDS input exceeds        *)
(* configured read limits": of a complete input that a stream delivers and *)
(* that would be read with higher limits.                                  *)
LimitErrorMeansExceeded ==
  Returned /\ Known /\ call.kind = "stream" /\ call.whole /\ outcome = "limit" =>
    Exceeded \/ TooShortToProbe

(* read.go:42, "MaxInputBytes limits buffered stream and legacy EDDS       *)
(* input": a legacy input that is read is within it.                       *)
LegacyInputIsLimited ==
  Returned /\ call.layout = "legacy" /\ outcome = "ok" =>
    InputEnd - call.base <= limits.input

(* read.go:257, "decodes an EDDS stream and supports seeking back for      *)
(* legacy input": the payload decoded is the one behind the headers that   *)
(* were read, wherever in the seeker they are.                             *)
LegacySeeksBack ==
  Returned /\ call.kind = "seeker" /\ call.layout = "legacy" /\ call.whole =>
    Exceeded \/ TooShortToProbe \/ mipData = Largest

(* read.go:632-634, "if decompression fails but the size already matches   *)
(* the expected mip size, we accept it as raw uncompressed data": of files *)
(* whose blob is the raw payload.                                          *)
RawLegacyIsAccepted ==
  Returned /\ call.layout = "legacy" /\ call.units = Headers(Header.dx10) \o Largest =>
    Exceeded \/ EndLost \/ Displaced \/ outcome = "ok"

=============================================================================
