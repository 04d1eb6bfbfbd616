# A TLA+ model of edds

`edds` reads and writes Enfusion DDS textures (EDDS): a DDS header, a table with one
entry per mip level, and one body per level, stored raw (`COPY`) or as a stream of LZ4
chunks (`LZ4 `). This directory holds a specification of the parts where it is easy to be
wrong and hard to test: replacing a file, decoding a chunk stream with a rolling
dictionary, reading untrusted input three ways under limits, using one `Encoder` or
`Decoder` for call after call, and computing sizes that do not fit a word. TLC checks the
specifications on small instances; TLAPS proves the theorems for every value of the
constants.

The modules follow the code of the repository; the file and line of every definition are in
`PROJECT.json` (`map`), the findings, hazards, runs and mutants too.

## The system

| component | state | operations | who calls it |
|---|---|---|---|
| atomic file replacement (`atomic_write.go`, `replace_file_*.go`) | directory entry, temporary file, descriptor, `removeTemp` | create, write, close, rename, deferred close and remove | every path-based `Write*` |
| container writers (`write.go`, `block.go`) | header, blocks; an `Encoder` keeps image, payload and block slots | build all blocks, then headers, table, bodies | `Write*` on a file, `Encode*` on an `io.Writer` |
| block compressor (`compression.go`) | chunk stream so far | one chunk per turn; give up and store | both writers, per level |
| chunk stream decoder (`compression.go`) | target, output index, 64 KiB dictionary, kept by a `Decoder` | header, inflate, keep dictionary, final checks | all readers, for one body or a legacy blob |
| read paths (`read.go`, `block.go`) | offset, table, limits; a `Decoder` keeps table, body, payload and image buffers | measure, headers, probe, table, skip, body, legacy fallback | `Read*`, `Decode*` on a seeker or on a stream, `ReadConfig` |
| sizes, mip chain, formats, options, swizzle (`format.go`, `mipmap.go`, `conv.go`, `swizzle.go`) | none | pure functions | writers and readers |
| `bcn`, `lz4` | external | image coding, DDS headers, LZ4 blocks | |

Nothing in the package starts a goroutine or holds a lock (`bcn` may use workers inside one
call). Concurrency comes from outside: several goroutines or processes that write and read
one path. An `Encoder` or `Decoder` belongs to one goroutine and carries state from one
call to the next.

What makes each part correct:

- *File replacement*: the path always leads to a whole file; a call that fails has changed
  nothing; a reader sees one version; temporary files go away unless a process dies or
  `os.Remove` fails; no call touches another's temporary file.
- *Chunk decoder*: chunk boundaries and dictionary shifts do not show; nothing of an earlier
  call does either; success means exactly the expected number of bytes.
- *Compressor*: what it emits is accepted by the decoder and gives the payload back; the size
  it states is the size on disk.
- *Read paths*: the largest level is selected; the three readers agree; truncated input is
  refused; limits hold at their boundary, whatever the input states about itself.
- *Decoder reuse*: a call answers as on a new `Decoder`, whatever earlier calls left in the
  buffers and wherever they failed; the image it returned lasts until the next call.
- *Encoder reuse*: a call writes the container of its own image, or a beginning of it where
  the writer stops, or nothing where it is refused; the caller's payloads stay as they are.
- *Sizes and headers*: no length wraps; a full chain ends in one texel; a reader works out of
  a header what the writer checked; an error names what is wrong.

Hard behaviour, listed line by line as `hazards` in `PROJECT.json`: interleaved writers and
readers, a process that dies between two system calls, failing `Write`, `Close`, `Rename` and
`Remove`, Windows refusing to replace an open file, a full dictionary, an ambiguous size
prefix, limits off by one, skip versus discard, relative versus absolute seeks, buffers that
hold what a failed call left in them, a COPY block that aliases its payload, a ratio that is
no number, sides of 0, a 32-bit int.

## Modules

| module | models | remarks |
|---|---|---|
| `AtomicFile` | what the path API promises | abstract: one register per path |
| `AtomicWrite` | `writeFileAtomic`, `replaceFile`, the writing callback of `writeFromBlocks`, readers of the path | one action per system call |
| `AtomicWriteProofs` | | theorems about `AtomicWrite` |
| `SlidingWindow` | what a chunk stream means | abstract: one LZ77 stream without chunks |
| `ChunkStream` | | the constants that compressor and decoder share: bytes, chunk size |
| `ChunkDecoder` | `blockDecompressor.decompressBlock` | one output byte per step inside a chunk |
| `ChunkEncoder` | `normalizeCompressionOptions`, `compressBlockWithOptions`, `blockCompressor.compressBlock` | the library's output length is nondeterministic |
| `BlockRoundTrip` | a block through both | composes `ChunkEncoder` and `ChunkDecoder` |
| `ChunkStreamProofs` | | theorems about `ChunkDecoder` and `BlockRoundTrip` |
| `EddsLayout` | the layout of containers and of older files | operators only |
| `ReadPath` | `ReadWithOptions`, `decodeReadSeeker`, `decodeStream`, `ReadConfig` and all they call | one action per step of the parse |
| `ReadPathProofs` | | theorems about `ReadPath` |
| `Heap` | arrays, slices, `ensureLen`, what is garbage after a call | extended by `DecoderReuse` and `EncoderReuse` |
| `HeapProofs` | | what `make`, `ensureLen`, a write and a collection do |
| `FreshDecoder`, `ContainerStream` | what a `Decoder` and an `Encoder` promise, call after call | abstract |
| `DecoderReuse` | the buffers of a `Decoder`, one action per function that reads or writes them | implements `FreshDecoder` |
| `DecoderReuseProofs` | | theorems about `DecoderReuse` |
| `EncoderReuse` | the slots of an `Encoder`, one action per loop body and per refusal | implements `ContainerStream` |
| `EncoderReuseProofs` | | theorems about `EncoderReuse` |
| `Sizes` | `expectedDataLengthChecked`, `checkedDataLength`, `mipDimension`, `calculateMipMapCount`, the conversions of `conv.go` | operators, in words of bounded width |
| `Formats` | `makeDDSHeader`'s pixel formats, `detectFormat`, `mapDxgiFormat` | tables |
| `HeaderAgreement` | the checks of `writeFromBlocks` and of the readers, from one header | composes `Sizes` and `Formats` |
| `HeaderAgreementProofs` | | theorems about `HeaderAgreement`, and the arithmetic they need |
| `Induction` | | induction over numbers and sequences, for the proofs |
| `MC*` | | instances for TLC |

### AtomicWrite

A directory maps names to inodes, and an inode holds segments, one per `Write` call of the
callback. A `Writer` is a caller of `Write*`; `pc[w]` is where it stands in
`writeFileAtomic`. `CreateTemp` to `RemoveFails` are its system calls with their failures;
`Crash` may come at any point and runs no deferred function. A failing `Write` may leave a
torn segment, a failing `Close` has lost everything. `ReplaceWhileOpen` is the platform:
with FALSE (`replace_file_windows.go`) a rename over a file that is open is only possible to
fail. A `Reader` keeps the inode it opened. `orphans` is a history variable: names that
nobody is going to remove any more.

The refinement to `AtomicFile` reads the content of the path through its inode, and takes a
call to have published once it no longer owes the removal of its temporary file. A failed
rename, a crash and a `Remove` are stutters or ends there; the rename is the linearisation
point. A crash after the rename is a call that ends without an outcome.

### ChunkDecoder and SlidingWindow

The bytes of the block are chosen as they are read, so the model decodes every possible
block: any prefix, any header, any run of literals and matches. `lz4.UncompressBlockWithDict`
is external and is modelled by what it does: a distance beyond the start of `dst` counts back
from the end of the dictionary. `dict` outlives the call, as in a `Decoder`. A chunk's
three-way update of the dictionary is `KeepDecoded`. `stored` is `Block.UncompressedSize`,
which no reader sets.

`ImplementsSlidingWindow` says all of it disappears: seen from outside, there is one output to
which each item adds a literal or the byte that stands some distance of up to `Window` back.
`back` records that distance in both modules, so a match that found a wrong byte cannot pass
for a literal. `ReferencesResolve` is the same fact inside a chunk, in both directions: a
distance within the output is found, and one beyond it is refused although an earlier call
may have left something there.

### ChunkEncoder and BlockRoundTrip

`AddChunk`, `GiveUp` and `Total` are the loop and what follows it, with the length that the
library returns for a chunk left open. `ValidOptions` is what `normalizeCompressionOptions`
accepts: the mode and the deprecated `Compress` that stands in for it, the level and the modes
that have levels, and a threshold and a chunk size that have a default where they are 0
(`MinRatio`, `StepSize`). The threshold is a rational or NaN, which is compared as Go compares
it: never below, never above. Options that are refused start no call. `BlockRoundTrip` then drives
the decoder with the block that came out, each decoder step being the one that these bytes
cause: a chunk's flag is the encoder's, the size prefix is the one `writeBlockData` puts in
front, a match stays in its chunk because the compressor sees no other.

### ReadPath

An input is a sequence of units which know the field and the mip level they were written for,
so that reading the wrong place shows. `EddsLayout` builds them as the writers do. The three
readers run through the same actions and differ where the code differs: only a path is
measured (`FileWithinLimit`); a stream can be read up to its budget (`Reach`), and reading
past it is a limit error, where past the end it is `io.EOF` (`ShortRead`); a seeker skips
without reading, a stream reads away; a seeker looks for a legacy payload at an absolute
offset. Errors are told apart by whether `errors.Is(err, ErrReadLimitExceeded)` holds.
Decompression is reduced to whether a body is a whole stream; that it then has the expected
length, which `readLargestMipFromReader` relies on, is `ReaderGetsExpected` of `ChunkDecoder`.
"ok" means that a payload of the right length goes to the image decoder; that `bcn` may still
refuse it (`ErrDecodeImage` in `decodePayload`) is left out here and is in `DecoderReuse`.
`SizeError` has the checks of `expectedReadDataLength` in their order: the size of the image and
its limit, then the size of the payload and its limit.

Older files have one blob in place of the table and the bodies (`LegacyBlobs`): a raw payload, or
a chunk stream, which is longer than a block magic since a chunk has a header of four bytes and
data. So of whole files only raw payloads can be too short for the probe (`TooShortToProbe`).

### Heap, DecoderReuse and EncoderReuse

A slice is an array and a length, and its capacity is the array's. `EnsureLen` keeps the array
where it suffices, so a slice made shorter and longer again shows what an earlier call wrote.
A cell knows the call or input, the part and the place it was made for: a payload inflated
from anything but its own body, or a pixel decoded from anything but its own payload, is
`Garbage`, and so the refinements compare contents, not only lengths. Between calls the arrays that nobody
holds are collected and the others get the first numbers, in the order of their holders
(`Collected`, `Moved`); the behaviour does not depend on numbers, and the state space stays
finite.

In `DecoderReuse` an input says how it is read, what its bodies are and what is wrong with it;
`ReadTable`, `ReadBody`, `CopyBody`, `MakeTarget` and `InflateUnit`, and `MakeImage` and `Draw`
are the functions that write to the four buffers. `InflateUnit` reads one unit of the body and
writes one of the payload, so that a target that shared its array with the body would be seen
to destroy it. A failure in each of them leaves a part of
its output behind, and keeps in the `Decoder` just those slices that the code has assigned by
then. `FreshDecoder` knows neither buffers nor earlier calls. A blob in a stream and the table of a stream are
not taken from the `Decoder`, as in the code. `bcn.DecodeImageInto` is external: it may reuse
the image or not.

In `EncoderReuse` each loop of `writeWithOptions` runs over the slots of the slice it ranges
over, which `ensure*Slots` has cut or grown: an uncut slice would show levels of an earlier
call. A COPY block is the payload itself, of the `Encoder` or of the caller; a block that gives
up on compression keeps its stream in the slot for the next call (`Retained`).
`ContainerStream` allows any way of cutting the output into writes, and any choice of which
levels are compressed.

### Sizes, Formats and HeaderAgreement

`Sizes` computes as the code does, modulo the largest word; `ExactLength` in
`HeaderAgreement` computes without a bound. `maxInt` is the platform's largest int, chosen at
the start and never changed. Its constants are in the relation of Go's widths
(`WordsAssumption`): a uint32 is twice an int32 and one, an int is one of them at least, and
twice an int is below a uint64. The recursions of the code (`calculateMipMapCount`, the loop
over the factors) are recursive functions. A behaviour is one call of a writer and one read of
its file with default limits, or one read of a file of another program. `LevelError` and `WriteError` are the writer's checks in
their order, `ReadError` the reader's; both work from `MipDimension` and `DataLength`, one on
the call and one on the header. What `bcn` makes of a picture without texels is not known from
this repository: for an image with a side of 0 the levels may have the length that the writer
expects, or some of them none, and are then refused as `ErrMipmapSizeMismatch`.

## Runs

Every property has a mutant in `PROJECT.json`: a plausible slip in one definition, kept next
to it in the module and marked "Mutant", with which TLC finds the property violated.

| run | instance | shows |
|---|---|---|
| `atomic_posix` | 2 writers, 1 reader, images of 1 and 2 segments, 2 temporary names | `TypeOK`, `TargetWhole`, `TempIsOwn`, `TempsAccounted`, `ClosedWhenMoved`, `OpenFilesFrozen`, refinement to `AtomicFile` |
| `atomic_windows` | 1 writer, 1 reader, no rename over open files, fair | `CallsReturn` and `ReadsReturn`, though the other may come back again and again |
| `chunk_decoder` | 2 byte values, outputs up to 5, dictionary and chunk of 3, window of 2 | `ReferencesResolve`, `ReaderGetsExpected`, refinement to `SlidingWindow` |
| `block_round_trip` | every payload up to 5 bytes; chunk sizes -1 to 4 with thresholds -1, 0, 1/4, 1, 3/2 and NaN; every mode; levels -1 to 10 | `RoundTrip`, `SizeIsBodyLength` |
| `read_paths` | up to 3 levels; inputs whole, cut at every unit, damaged in one unit or header field; each limit from -1 to 19 | `LimitsHold`, `GoodInputsAreRead`, `NothingElseIsRead`, `LimitErrorsAreTrue` |
| `decoder_reuse` | 5 good inputs of 1 and 2 levels and up to 3 units, 10 that fail in every place; any sequence of calls | `BuffersApart`, `ImageFrozen`, refinement to `FreshDecoder` |
| `encoder_reuse` | image calls and block calls of 1 and 2 levels, with and without swizzle and compression, 7 that are refused, writers that take 0, 4 or all units; any sequence of calls | `CallerPayloadsUntouched`, refinement to `ContainerStream` |
| `header_agreement` | sides of 0, around powers of two and the ends of the words, every pixel format and DXGI number, chains of 0 to 9 levels, right and wrong lengths, 64-bit and 32-bit int | `LengthsAreExact`, `FullChainEndsInOneTexel`, `WrittenIsReadable`, `DetectedFormatHasSize`, `ErrorsAreTrue` |
| `stream_at_limit`, `legacy_unlimited`, `legacy_seek`, `legacy_short_raw` | the same | the findings below |

Why the bounds are enough. Two writers and one reader contain every pairwise conflict; a third
writer only repeats one. Two temporary names and the inodes provided let both writers hold a
file while the reader keeps an old one. An image of two segments has a middle in which to die,
and images of different length cannot be confused. A dictionary of three slots, a chunk of
three and outputs of five reach all three branches of the dictionary update, and a window of
two has distances inside a chunk, across its start, and across a shift. Limits are tried at
every value from below the smallest field to above the longest file, so that every boundary is
met from both sides. The scaled-down widths (a magic of two units, a header of two, a size of
one) keep what matters: a probe longer than the shortest payload, and entries that a shift by
one unit misreads.

The Windows run is there for liveness only. What `ReplaceWhileOpen` turns off is one way for a
rename to succeed, so every behaviour of the Windows model is one of the POSIX model: its
safety is checked by the POSIX run, which has two writers, and proved for both platforms. What
is not checked there is whether a call still ends when its rename is refused as often as a
reader comes back.

In the reuse runs, calls of one and two levels and buffers of one to three units make every
buffer too small, just right and too large for the call that follows, whichever call that is.
The arrays suffice: a run in which they did not would stop with an error, for `Fresh` would
have no value.

`HeaderAgreement` scales the words down to 8 bits for a uint32, 16 for a uint64, 16 or 8 for an
int and 8 for an int32, and with them 32 levels to 8 and 1 GiB to 64 bytes. What matters is
kept: an int of 64 bits holds a uint32 and not the product of two, one of 32 bits not even the
uint32; the longest chain has as many levels as the limit admits; and there are
sides (181 and 128) with which a product wraps and ends up, as a number that an int holds,
above its own factor.

Deadlock is checked in every run but `header_agreement`: each model can always begin another
call, and `BlockRoundTrip` rests in `Rest`. `HeaderAgreement` stops in "answered", the end of
the one exchange it is about.

### Fairness

The code waits for nothing but system calls, which are assumed to return: `Fairness` is weak
fairness of the next step of each running call, and of nothing else. New calls, crashes and
the success of a rename are not fair: `CallsReturn` holds because a refused rename is not
retried, `ReadsReturn` because a reader stays with its inode.

### Findings

- `stream_at_limit`: a legacy stream of exactly `MaxInputBytes` is refused with
  `ErrReadLimitExceeded`: `io.ReadAll` asks once more after the last byte, and `limitedReader`
  answers before it has seen the end. A file of that size is accepted, and so is the stream
  under a larger limit.
- `legacy_unlimited`: `MaxInputBytes` is documented for legacy input, but not applied to a
  legacy input in a seeker.
- `legacy_seek`: the legacy payload is sought from the start of the seeker, while all else
  works from the current position. Displaced input is refused, or other bytes are decoded.
- `legacy_short_raw`: a raw legacy payload of one to three bytes fails in the probe for the
  block table.

Three more have no run of their own; the properties name them as exceptions or include them.

- A width or a height of 0 passes the writers' checks, which see 1 (`write.go:441`), and stays
  0 in the header: `ReadConfig` says 0x0 of a file that `Read` takes for one texel.
  `WrittenIsReadable` excepts it.
- A length that exceeds an int is refused as `ErrInvalidFormat` by the writers
  (`write.go:444`), as `ErrSizeOverflow` by the readers. `ErrorsAreTrue` excepts it.
- A `MinRatio` of NaN passes the check that it is positive (`compression.go:102`). No chunk then
  falls back because of it, and the block is still right (`RoundTrip` and `SizeIsBodyLength`
  include it); the capacity estimate at `compression.go:380`, which converts it to an int, is not
  in the model.

`GoodInputsAreRead` and `NothingElseIsRead` name these cases as exceptions (`EndLost`,
`Displaced`, `TooShortToProbe`), and one more that the layout does not let the code avoid: a
compressed blob cut to the length of the raw data passes for raw (`PassesForRaw`).

## Proofs

Every safety property and every refinement below holds for all values of the constants that
satisfy the assumptions in the modules; each assumption is one that the code or its callers
establish, and TLC evaluates it on the instances.

**AtomicWrite.** All its safety properties, for any sets of writers, readers, images, names and
inodes and for both platforms: an image has at least one segment, a torn segment is none of
them, the destination is not a temporary name. `TargetWhole` is not inductive: that a rename
installs a whole file depends on what the temporary file holds and on nobody else writing to
it. `IInv` adds, per writer, what its inode holds at each stage (a prefix of its image while it
writes, all of it from `close` on), that inodes of different names differ, that a temporary
name is owned by one call while `removeTemp` is set, and that readers hold whole files.
`InductiveInvariance` is the induction, one lemma per action; `WritesAreAtomic` then maps each
action to a step of `AtomicFile` or to a stutter.

**ChunkDecoder.** Any dictionary size of at least the window, any chunk size, any bounds. `IInv`
says that the valid part of the dictionary is the end of the output before the current chunk:
as much as there is, or `DictCap` bytes. Hence a distance within the window and the output is
reachable and leads to the right byte (`BackReferencesResolve`), and each `Copy` is a `Copy` of
`SlidingWindow` (`ChunksAreTransparent`). These theorems need `SizesAssumption` only, not the
assumption of the pipeline that their module extends.

**BlockRoundTrip.** Any payloads, chunk sizes, ratios and lengths that the library may return, so
any way of cutting a payload into chunks and of storing or compressing each of them.
`RoundTrip` relates the end of one loop to the end of another, and is far from inductive. `PInv`
says of the encoder that its chunks cut up as much of the payload as they cover (`IsCut`: each
one begins where the last has ended, only the last one has the last flag), and of the decoder
which chunk it is at, and that its output is the payload up to the place to which the chunks
before it and the bytes of this one have come (`AtHeader`, `InPayload`, `AtEnd`). What the chunks
cover is a fold over them (`Covered`), so that first its recursive function is proved to exist
and to agree on a sequence and its beginnings. `BlocksRoundTrip` and `SizesAreBodyLengths` follow
from `PInv`. `PipelineDecodes` shows that the decoder in it takes only steps of `ChunkDecoder`:
the bytes that the block fixes are among those that `ChunkDecoder` leaves open, and its
theorems hold here too. `PipelineAssumption` is what lets `decompressBlock` recognise the size that `writeBlockData` puts in
front: it does so only where the length of the first chunk is below 1 << 20, and a compressed chunk
of 64 KiB has at most 65809 bytes (`lz4.CompressBlockBound`). Besides, an empty payload is stored
(`compressBlock` compresses 1024 bytes and more), and no payload is longer than the decoder admits.

**ReadPath.** The inputs are any set of those that `InputType` describes, the layout any widths
of at least one unit (`LengthsAssumption`), the default limits any positive numbers. `Typed` and `LimitsAreKept` need little more than what a call has read so far.
`GoodFilesAreRead` and `OnlyGoodFilesAreRead` are about whole files: any number of levels, any
sizes, any limits, an input cut anywhere or damaged in one place. They rest on the layout of a
container (`ContainerLayout`: at which unit each entry and each body begins), which is proved
from `FlattenSeq` in `Induction`, and on `IInvFile`, which says of every label what the call has
found there: the parser stands where the layout puts the next field, the table read so far is
the table that was written, and a call still under way has met neither a damaged field nor a
limit. An answer is then one that the input deserves, and a limit error names a limit that is
exceeded (`LimitErrorsHaveReasons`).

**DecoderReuse.** Any inputs, in any order, of any sizes. `AnswersAsFresh` is the refinement to
`FreshDecoder`; `ImageStays` is that the returned image lasts. `BuffersApart` alone is not
inductive: a call works with slices of its own (`table`, `data`, `target`, `mipData`, `image`)
which may be the `Decoder`'s or new ones. `IInv` says which of them must be apart at each label,
what their cells hold (`Stages`), how many arrays are in use at most, so that one is free when
`make` needs it (`Memory`), and which faults a call that came this far does not have
(`Passed`). An action writes to one array (`Changed` in `HeapProofs`), so all that stands in the
others stays. A collection renames arrays and keeps contents and who shares with whom
(`CollectedFacts`). The assumptions: an input with a fault is one that shows it, and there are
at least eight arrays, which is what a `Decoder` and a call hold together.

**EncoderReuse.** Any calls, in any order, on images and on the caller's payloads, of any numbers of
levels and any sizes, refused anywhere, with writers that stop anywhere. `Implements` is the
refinement to `ContainerStream`, `CallersPayloadsStay` that the caller's payloads last. What the
loops write depends on what earlier calls left in the slots, so `IInv` says of every label which
slots hold this call's part of their level (`Stages`: a slot beyond them may hold anything), that
no two slots share an array and none has the caller's (`SlotsApart`, `MemoryHolds`), and which
refusals are behind the call (`Passed`). Blocks are different: a COPY block shares the array of a
payload, and the block of an earlier call may share it with a slot that is about to be written
over. Hence the blocks need only be slices of the memory until this call has made them, and are then
said to be the payload of the level or the stream in its slot (`BlockDone`). A loop body
replaces one slot and writes to one array (`FillFacts`), so that all other parts stay.
`OutputFacts` shows that the blocks form a container of the call. A call answers "error" when
the writer stopped early; for that to be right, no container of the call may be the beginning
of another, which holds because the entries state the lengths of the bodies that follow
(`NoContainerWithin`). The assumptions: calls are what `CallType` says, a block call passes the
caller's payloads and an image call has no wrong sizes (`CallsAssumption`), the caller's
payloads, the threshold for compression and the overhead of a chunk are positive, and there are
as many arrays as the caller, the slots, the blocks and one call hold together
(`RoomAssumption`), for calls of at most `MaxLevels` levels.

**HeaderAgreement.** Any widths of the words within `WordsAssumption`, any platform int, any sides, formats and level
counts. The arithmetic comes first: a product of words checked factor by factor, as the code
does with a division, is the product of the integers or is refused (`Quotient`,
`OneMoreFactor`, `DataLengthIsExact`); so no length wraps (`NoLengthWraps`). The number of levels
is the one at which both sides have become 1, by induction over the halvings
(`MipMapCountIsFull`), and `MipDimension`, which shifts, agrees with halving step by step
(`HalvedShifts`). What `detectFormat` answers for the headers of `makeDDSHeader` is decided by
cases. The invariant is a statement per stage about what the writer has checked; a reader who
works from the header meets the same numbers (`HeaderIsRead`), which gives
`WrittenFilesAreReadable` and `ErrorsSayWhatIsWrong`.

Induction. The library's induction theorems are about operators and cannot be used here.
`Induction` replaces them by two facts about sets, proved from the well-foundedness of the
numbers: a set of numbers that is not empty has a least element, and a set that has 0 and the
successors of its elements has them all. The recursive functions of the model (the mip count,
the shift, sums, checked products, `FlattenSeq`) are each proved to exist, and what they compute is
proved from there. No `RECURSIVE` operator occurs.

Only model-checked: `CallsReturn` and `ReadsReturn`, because liveness and `ENABLED` are beyond the
prover. What they rest on besides fairness is proved (`CallsAreFinite`): a number of steps that
are left of each call and of each read, which is 0 exactly when it is over, which no step of
anybody raises and each step of its own lowers. What remains to TLC is that a call that is under
way always has a step to take, and that fairness has it taken. All other properties of the passing
runs are stated by a theorem.

## Not modelled

- What a power loss does to data that was written but not synced. `Crash` ends a process; the
  file system keeps what it was given.
- What a stream reader's buffer takes from the caller's reader beyond the container.
- The channel permutations of the swizzle profiles, and which library call a compression mode or
  level leads to: no property tells these pixel values and calls apart. Which options are
  accepted, and what they default to, is in `ChunkEncoder`.
- The chunk scratch buffer and the capacity estimates of the compressor. They hold nothing
  from one chunk to the next, and an estimate that is too small costs an allocation.
  `EncoderReuse` has one estimate per call of the compressor, to know whether a slot is kept.
- `bcn` and the inside of `lz4` are not in the repository.
- Bytes. Images, segments, cells and units stand for them, except in the two chunk modules.
- In `HeaderAgreement`, the bodies: the size of a file against `MaxInputBytes` is in
  `ReadPath`.

## Plan

1. Done: file replacement, chunk decoder, compressor, read paths; reuse of `Decoder` and
   `Encoder`; sizes, formats and headers; proofs about all of them.
2. `EndToEnd`: the output of `EncoderReuse`, cut where its writer stopped, read back by
   `ReadPath`. Its parts are there: `OnlyGoodFilesAreRead` for files cut anywhere, and
   `Implements` for what a writer that stops leaves behind.
