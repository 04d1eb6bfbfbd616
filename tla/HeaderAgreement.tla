--------------------------- MODULE HeaderAgreement --------------------------
(***************************************************************************)
(* A file from the writers of write.go to the readers of read.go, as far   *)
(* as dimensions, formats, mip counts and sizes go: what writeFromBlocks   *)
(* checks before it writes, what it puts into the header, and what a       *)
(* reader with its default limits works out from that header.  The same    *)
(* quantities are computed on both sides, from different inputs.           *)
(***************************************************************************)
EXTENDS Sizes, Formats

CONSTANTS
  Writes,       \* the calls of writers, see WriteType
  Foreign,      \* headers that other programs wrote
  DefaultMips,  \* defaultMaxReadMipMaps, 32
  DefaultBytes, \* defaultMaxReadDecodedBytes and defaultMaxReadImageBytes, 1 GiB
  None          \* no call, no header, no answer

AnyFormat == SizedFormats \cup {Unknown}

(* A call on an image, with MaxMipMaps, or on payloads with these lengths. *)
WriteType ==
  [kind : {"image"}, format : AnyFormat, width : Nat, height : Nat, maxMipMaps : Int,
   compress : BOOLEAN]
  \cup [kind : {"blocks"}, format : AnyFormat, width : Int, height : Int,
        lengths : Seq(Nat), compress : BOOLEAN]

HeaderType ==
  [width : 0..MaxUint32, height : 0..MaxUint32, mips : 0..MaxUint32, caps : BOOLEAN,
   flags : SUBSET Flags, fourCC : FourCCNames, bits : Nat, masks : Seq(0..4), dx10 : SUBSET Nat]

(* What a reader works out: what ReadConfig says, the format, the number   *)
(* of levels, the largest one's dimensions and length, and an error.       *)
ReadErrors == {"none", "ErrReadLimitExceeded", "ErrInvalidFormat", "ErrSizeOverflow", "ErrUnknownFormat"}
AnswerType ==
  [config : Int \X Int, format : AnyFormat, mips : Nat, error : ReadErrors, image : Nat \X Nat,
   size : Int]

ASSUME InputsAssumption == Writes \subseteq WriteType /\ Foreign \subseteq HeaderType

ASSUME NoneAssumption == None \notin WriteType /\ None \notin HeaderType /\ None \notin AnswerType

(* A chain has as many levels as a uint32 has bits, and 1 GiB is an int.   *)
ASSUME LimitsAssumption ==
  /\ DefaultMips \in Nat \ {0} /\ Shifted(MaxUint32, DefaultMips) = 0
  /\ DefaultBytes \in Nat /\ DefaultBytes <= MaxInt32

VARIABLES
  pc,      \* "idle", "levels", "write", "file" or "answered"
  call,    \* the call of a writer
  levels,  \* the lengths of the payloads, from the largest level
  header,  \* the header of the file
  error,   \* what the writer returned, "none" for success
  answer   \* what the reader worked out

vars == <<maxInt, pc, call, levels, header, error, answer>>

Init ==
  /\ maxInt \in Platforms
  /\ pc = "idle"
  /\ call = None
  /\ levels = << >>
  /\ header = None
  /\ error = "none"
  /\ answer = None

-----------------------------------------------------------------------------
(***************************************************************************)
(* The writers                                                             *)
(***************************************************************************)

(* normalizeWriteOptions: an image without a format is written as BGRA8.   *)
Normalized(c) == IF c.kind = "image" /\ c.format = Unknown THEN [c EXCEPT !.format = "BGRA8"] ELSE c

(* What is passed fits the platform's int, as does the length of a slice.  *)
IsPossible(c) ==
  /\ c.width <= maxInt /\ c.height <= maxInt
  /\ c.kind = "blocks" => \A l \in DOMAIN c.lengths : c.lengths[l] <= maxInt

Begin(c) ==
  /\ pc = "idle"
  /\ IsPossible(c)
  /\ call' = Normalized(c)
  /\ levels' = IF c.kind = "blocks" THEN c.lengths ELSE << >>
  /\ pc' = IF c.kind = "blocks" THEN "write" ELSE "levels"
  /\ UNCHANGED <<maxInt, header, error, answer>>

Refuse(e) ==
  /\ error' = e
  /\ pc' = "answered"
  /\ UNCHANGED <<maxInt, call, levels, header, answer>>

LevelCount ==
  LET count == MipMapCount(call.width, call.height)
  IN  IF call.maxMipMaps > 0 /\ call.maxMipMaps < count THEN call.maxMipMaps ELSE count

(* What the l-th payload takes, by the format and the dimensions.          *)
Expected(l) == DataLength(call.format, MipDimension(call.width, l - 1), MipDimension(call.height, l - 1))

(* A picture without texels.                                               *)
IsEmpty == 0 \in {call.width, call.height}

(* Encoder.writeWithOptions: as many levels as asked for, each encoded by  *)
(* bcn into as many bytes as its format takes.  Of a picture without       *)
(* texels it may make nothing, on the largest level or on some more.       *)
EncodedLevels(nothing) == [l \in 1..LevelCount |-> IF l <= nothing THEN 0 ELSE Expected(l)]

MakeLevels(nothing) ==
  /\ pc = "levels"
  /\ IsUint32(call.width) /\ IsUint32(call.height)
  /\ nothing <= LevelCount /\ (nothing > 0 => IsEmpty)
  /\ \A l \in 1..LevelCount : Expected(l) > 0
  /\ levels' = EncodedLevels(nothing)
  /\ pc' = "write"
  /\ UNCHANGED <<maxInt, call, header, error, answer>>

(* bcn refuses a level or its format.                                      *)
NoLevels ==
  /\ pc = "levels"
  /\ Refuse(IF IsUint32(call.width) /\ IsUint32(call.height) THEN "ErrCompressMipmap"
                                                              ELSE "ErrSizeOverflow")

MakeHeader ==
  LET pf == MakePixelFormat(call.format)
  IN  [width |-> call.width, height |-> call.height, mips |-> Len(levels), caps |-> Len(levels) > 1,
       flags |-> pf.flags, fourCC |-> pf.fourCC, bits |-> pf.bits, masks |-> pf.masks, dx10 |-> {}]

(* Mutant: a length is compared before it is known to be one.              *)
LevelErrorMismatchFirst(l) ==
  IF levels[l] # Expected(l) THEN "ErrMipmapSizeMismatch"
  ELSE IF IsInt32(levels[l]) THEN "none"
  ELSE IF call.compress THEN "ErrCompressMipmap" ELSE "ErrSizeOverflow"

(* What is checked for a level, in this order; a COPY block and the        *)
(* compressor have their own word for a length that is no int32.           *)
LevelError(l) ==
  IF Expected(l) <= 0 THEN "ErrInvalidFormat"
  ELSE IF levels[l] # Expected(l) THEN "ErrMipmapSizeMismatch"
  ELSE IF IsInt32(levels[l]) THEN "none"
  ELSE IF call.compress THEN "ErrCompressMipmap" ELSE "ErrSizeOverflow"

(* writeFromBlocks: the first check that fails is the error returned.      *)
WriteError ==
  LET bad == {l \in 1..Len(levels) : LevelError(l) # "none"}
  IN  IF levels = << >> THEN "ErrEmptyMipmaps"
      ELSE IF call.format = Unknown THEN "ErrInvalidFormat"
      ELSE IF ~(IsUint32(call.width) /\ IsUint32(call.height) /\ IsUint32(Len(levels))) THEN "ErrSizeOverflow"
      ELSE IF call.format \notin Writable THEN "ErrInvalidFormat"
      ELSE IF bad = {} THEN "none" ELSE LevelError(CHOOSE l \in bad : \A k \in bad : l <= k)

WriteFile ==
  /\ pc = "write"
  /\ WriteError = "none"
  /\ header' = MakeHeader
  /\ pc' = "file"
  /\ UNCHANGED <<maxInt, call, levels, error, answer>>

WriteRefused ==
  /\ pc = "write"
  /\ WriteError # "none"
  /\ Refuse(WriteError)

(* A file of another program.                                              *)
Find(h) ==
  /\ pc = "idle"
  /\ header' = h
  /\ pc' = "file"
  /\ UNCHANGED <<maxInt, call, levels, error, answer>>

-----------------------------------------------------------------------------
(***************************************************************************)
(* The reader                                                              *)
(***************************************************************************)

HeaderMips == IF header.caps /\ header.mips > 0 THEN header.mips ELSE 1

(* The dimensions of the largest level.                                    *)
Width == MipDimension(ToInt(header.width), 0)
Height == MipDimension(ToInt(header.height), 0)

Format == DetectFormat(header, header.dx10)

(* readMipMapCount and expectedReadDataLength, in this order.              *)
ReadError ==
  LET image == LengthError("RGBA8", Width, Height)
      size == LengthError(Format, Width, Height)
  IN  IF HeaderMips > DefaultMips THEN "ErrReadLimitExceeded"
      ELSE IF image # "none" THEN image
      ELSE IF DataLength("RGBA8", Width, Height) > DefaultBytes THEN "ErrReadLimitExceeded"
      ELSE IF size = "ErrInvalidFormat" THEN "ErrUnknownFormat"
      ELSE IF size # "none" THEN size
      ELSE IF DataLength(Format, Width, Height) > DefaultBytes THEN "ErrReadLimitExceeded"
      ELSE "none"

(* ReadConfig, and a reader up to where it reads the largest body.         *)
Answer ==
  [config |-> <<ToInt(header.width), ToInt(header.height)>>,
   format |-> Format, mips |-> HeaderMips, error |-> ReadError,
   image |-> <<Width, Height>>, size |-> DataLength(Format, Width, Height)]

Read ==
  /\ pc = "file"
  /\ answer' = Answer
  /\ pc' = "answered"
  /\ UNCHANGED <<maxInt, call, levels, header, error>>

Next ==
  \/ \E c \in Writes : Begin(c)
  \/ \E h \in Foreign : Find(h)
  \/ \E nothing \in 0..DefaultMips : MakeLevels(nothing)
  \/ NoLevels \/ WriteFile \/ WriteRefused \/ Read

Spec == Init /\ [][Next]_vars

-----------------------------------------------------------------------------
(***************************************************************************)
(* Properties                                                              *)
(***************************************************************************)

(* Types; a header fits its words, and a block size its own.               *)
TypeOK ==
  /\ maxInt \in Platforms
  /\ pc \in {"idle", "levels", "write", "file", "answered"}
  /\ call = None \/ call \in WriteType
  /\ header = None \/ header \in HeaderType
  /\ answer = None \/ answer \in AnswerType
  /\ call # None /\ header # None => \A l \in DOMAIN levels : levels[l] \in 0..MaxInt32
  /\ pc = "answered" => error # "none" \/ answer # None

(* What a payload of this format takes, in numbers that do not wrap.       *)
ExactLength(format, w, h) ==
  LET blocks == (w \div 4 + IF w % 4 = 0 THEN 0 ELSE 1) * (h \div 4 + IF h % 4 = 0 THEN 0 ELSE 1)
  IN  CASE format \in BlockFormats8 -> 8 * blocks
        [] format \in BlockFormats16 -> 16 * blocks
        [] format \in Texels4 -> 4 * w * h
        [] format \in Texels2 -> 2 * w * h
        [] format \in Texels1 -> w * h

(* format.go:144, "without integer overflow": whatever the dimensions, a   *)
(* length is either exact or refused, and refused only when it exceeds an  *)
(* int; no wrapped product passes for a small one.                         *)
Exact(format, w, h) ==
  w > 0 /\ h > 0 /\ format \in SizedFormats =>
    DataLength(format, w, h) = IF ExactLength(format, w, h) <= maxInt THEN ExactLength(format, w, h) ELSE -1
LengthsAreExact ==
  /\ call # None => Exact(call.format, call.width, call.height)
  /\ header # None => Exact(Format, Width, Height) /\ Exact("RGBA8", Width, Height)

(* README.md:68, "writes every level down to 1x1": a full chain ends with  *)
(* its first level of one texel, and its length is one a reader admits     *)
(* with the default limits.                                                *)
FullChainEndsInOneTexel ==
  LET n == Len(levels)
      OneTexel(l) == MipDimension(call.width, l) = 1 /\ MipDimension(call.height, l) = 1
  IN  pc = "file" /\ call # None /\ call.kind = "image" /\ call.maxMipMaps <= 0 =>
        OneTexel(n - 1) /\ (\A l \in 0..(n - 2) : ~OneTexel(l)) /\ n <= DefaultMips

(* What a file holds beyond what the default limits and an int admit.      *)
TooMuch ==
  \/ Len(levels) > DefaultMips
  \/ ExactLength("RGBA8", Width, Height) > DefaultBytes
  \/ levels[1] > DefaultBytes

(* A reader works out of the header what the writer checked its payloads   *)
(* against: the dimensions, the format, the number of levels and the length *)
(* of the largest one.  It refuses a file of this package only when it is  *)
(* too much.  A side of 0 is the exception: it is checked, and read, as 1, *)
(* and stays 0 in the header that ReadConfig goes by.                      *)
WrittenIsReadable ==
  pc = "answered" /\ call # None /\ error = "none" =>
    /\ answer.format = call.format
    /\ answer.mips = Len(levels)
    /\ answer.config = <<call.width, call.height>>
    /\ answer.image = answer.config \/ 0 \in {call.width, call.height}
    /\ answer.size = levels[1]
    /\ answer.error # "none" => TooMuch

(* Every format that headers can name has a size: none is detected only to *)
(* be refused as unknown.                                                  *)
DetectedFormatHasSize ==
  pc = "answered" /\ answer # None /\ answer.error = "ErrUnknownFormat" => answer.format = Unknown

(* The exact length of a level of the call.                                *)
LevelLength(l) == ExactLength(call.format, MipDimension(call.width, l - 1), MipDimension(call.height, l - 1))

(* errors.go: an error names what is wrong, so that no texture is refused  *)
(* that could be written or read.  The exception is ErrInvalidFormat: the  *)
(* writers also return it for a length that exceeds an int (write.go:444). *)
ErrorsAreTrue ==
  /\ error = "ErrInvalidFormat" =>
       call.format \notin Writable \/ \E l \in DOMAIN levels : LevelLength(l) > maxInt
  /\ error = "ErrMipmapSizeMismatch" =>
       /\ call.kind = "image" => IsEmpty
       /\ \E l \in DOMAIN levels : LevelLength(l) \in 0..maxInt \ {levels[l]}
  /\ error = "ErrSizeOverflow" =>
       \/ ~({call.width, call.height, Len(levels)} \subseteq 0..MaxUint32)
       \/ ~call.compress /\ \E l \in DOMAIN levels : levels[l] > MaxInt32
  /\ pc = "answered" /\ answer # None =>
       /\ answer.error = "ErrSizeOverflow" =>
            \E f \in {"RGBA8", Format} \cap SizedFormats : ExactLength(f, Width, Height) > maxInt
       /\ answer.error = "ErrReadLimitExceeded" =>
            \/ header.mips > DefaultMips
            \/ \E f \in {"RGBA8", Format} \cap SizedFormats : ExactLength(f, Width, Height) > DefaultBytes

=============================================================================
