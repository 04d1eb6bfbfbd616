-------------------------------- MODULE Sizes -------------------------------
(***************************************************************************)
(* The arithmetic of sizes (format.go, mipmap.go, conv.go), in words of    *)
(* the width the constants give: a product that leaves its word wraps.     *)
(***************************************************************************)
EXTENDS Integers, Sequences

CONSTANTS
  MaxUint64,  \* the largest uint64
  MaxUint32,  \* the largest uint32
  MaxInt32,   \* the largest int32, what a block size can be
  Platforms   \* what the largest int may be

VARIABLE
  maxInt      \* the largest int of the platform the program was built for

ASSUME WordsAssumption ==
  /\ MaxUint64 \in Nat /\ MaxInt32 \in Nat /\ MaxInt32 >= 3 /\ Platforms \subseteq Nat
  /\ MaxUint32 = 2 * MaxInt32 + 1
  /\ \A m \in Platforms : MaxInt32 <= m /\ 2 * m < MaxUint64

(* Mutant: the conversion is not checked.                                  *)
Unchecked(n) == TRUE

(* u32FromInt, i32FromInt.                                                 *)
IsUint32(n) == n \in 0..MaxUint32
IsInt32(n) == n \in 0..MaxInt32

(* int(x) of a uint32.                                                     *)
ToInt(x) == IF x > maxInt THEN x - 2 * (maxInt + 1) ELSE x

Times(a, b) == (a * b) % (MaxUint64 + 1)

(* Mutant: the product is looked at after it was made.                     *)
FitsAfterwards(product, factor) == factor # 0 /\ Times(product, factor) >= product

StaysInWord(product, factor) == factor # 0 /\ product <= MaxUint64 \div factor

(* checkedDataLength: 0 stands for an overflow, and stays 0.               *)
CheckedDataLength(factors) ==
  LET product[k \in 0..Len(factors)] ==
        IF k = 0 THEN 1
        ELSE IF StaysInWord(product[k - 1], factors[k]) THEN Times(product[k - 1], factors[k]) ELSE 0
  IN  product[Len(factors)]

BlockFormats8 == {"DXT1", "BC4", "BC4S"}
BlockFormats16 == {"DXT3", "DXT5", "BC5", "BC5S", "BC7"}
Texels4 == {"RGBA8", "BGRA8", "BGRX8", "RGB10A2"}
(* Mutant: a format that headers can name is left out.                     *)
UnsignedTexels2 == {"RG8", "RGB565", "RGBA5551", "RGBA4444"}

Texels2 == {"RG8", "RG8S", "RGB565", "RGBA5551", "RGBA4444"}
Texels1 == {"R8", "R8S", "A8"}
SizedFormats == BlockFormats8 \cup BlockFormats16 \cup Texels4 \cup Texels2 \cup Texels1

(* How many blocks of 4 texels cover n, (n+3)/4 on uint64.                 *)
Blocks(n) == ((n + 3) % (MaxUint64 + 1)) \div 4

Factors(format, w, h) ==
  CASE format \in BlockFormats8 -> <<Blocks(w), Blocks(h), 8>>
    [] format \in BlockFormats16 -> <<Blocks(w), Blocks(h), 16>>
    [] format \in Texels4 -> <<w, h, 4>>
    [] format \in Texels2 -> <<w, h, 2>>
    [] format \in Texels1 -> <<w, h>>

(* Mutant: a size is only held against its own word.                       *)
FitsWord(size) == size \in 1..MaxUint64

FitsInt(size) == size \in 1..maxInt

(* expectedDataLengthChecked: a size, or an error.                         *)
LengthError(format, w, h) ==
  CASE w <= 0 \/ h <= 0 -> "ErrSizeOverflow"
    [] w > 0 /\ h > 0 /\ format \notin SizedFormats -> "ErrInvalidFormat"
    [] w > 0 /\ h > 0 /\ format \in SizedFormats ->
         IF FitsInt(CheckedDataLength(Factors(format, w, h))) THEN "none" ELSE "ErrSizeOverflow"

(* expectedDataLength: -1 for any error.                                   *)
DataLength(format, w, h) ==
  IF LengthError(format, w, h) = "none" THEN CheckedDataLength(Factors(format, w, h)) ELSE -1

(* base >> level: shifted by one, that many times.                         *)
Shifted(base, l) ==
  LET shifted[k \in 0..l] == IF k = 0 THEN base ELSE shifted[k - 1] \div 2
  IN  shifted[l]

(* mipDimension: base >> level, and at least 1.                            *)
MipDimension(base, l) == IF Shifted(base, l) < 1 THEN 1 ELSE Shifted(base, l)

(* Mutant: the loop ends with the shorter side.                            *)
ShorterSideMipMapCount(width, height) ==
  LET count[side \in (0..MaxUint32) \X (0..MaxUint32)] ==
        IF side[1] > 1 /\ side[2] > 1 THEN 1 + count[<<side[1] \div 2, side[2] \div 2>>] ELSE 1
  IN  count[<<width, height>>]

Halved(n) == IF n > 1 THEN n \div 2 ELSE n

(* calculateMipMapCount, of two uint32: both sides are halved down to 1.   *)
MipMapCount(width, height) ==
  LET count[side \in (0..MaxUint32) \X (0..MaxUint32)] ==
        IF side[1] > 1 \/ side[2] > 1 THEN 1 + count[<<Halved(side[1]), Halved(side[2])>>] ELSE 1
  IN  count[<<width, height>>]

=============================================================================
