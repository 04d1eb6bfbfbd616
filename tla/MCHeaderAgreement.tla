-------------------------- MODULE MCHeaderAgreement --------------------------
(***************************************************************************)
(* Instances of HeaderAgreement for TLC.  The words keep their order and   *)
(* the property that the product of two of their largest dimensions wraps. *)
(***************************************************************************)
EXTENDS HeaderAgreement, TLC

CONSTANT Sides  \* the widths and heights of calls and headers

CallFormats == {"DXT1", "DXT5", "RGBA8", "BGRA8", "BC7", Unknown}

(* The sides of calls, and those a header holds.                           *)
Dimensions == {-1} \cup Sides
Words == {n \in Sides : n \in 0..MaxUint32}

(* What the levels of such a texture take, the first one off by d.         *)
Chain(f, w, h, n, d) ==
  [l \in 1..n |-> IF f = Unknown THEN 1
                  ELSE ExactLength(f, MipDimension(w, l - 1), MipDimension(h, l - 1)) + IF l = 1 THEN d ELSE 0]

(* How many levels a call has, and whether the first one has a byte more.  *)
Lengths == {<<0, 0>>, <<1, 0>>, <<1, 1>>, <<2, 0>>, <<2, 1>>, <<DefaultMips, 0>>, <<DefaultMips + 1, 0>>}

MCWrites ==
  {[kind |-> "image", format |-> f, width |-> w, height |-> h, maxMipMaps |-> m, compress |-> TRUE] :
     f \in CallFormats, w \in Sides, h \in Sides, m \in {-1, 0, 1, 2, 99}}
  \cup {[kind |-> "blocks", format |-> f, width |-> w, height |-> h,
         lengths |-> Chain(f, w, h, n[1], n[2]), compress |-> c] :
     f \in CallFormats, w \in Dimensions, h \in Dimensions, n \in Lengths, c \in BOOLEAN}
  \cup {[kind |-> "blocks", format |-> f, width |-> w, height |-> h, lengths |-> <<1>>, compress |-> TRUE] :
     f \in CallFormats, w \in Dimensions, h \in Dimensions}

AnyPixels ==
  {PixelFormat({"FourCC"} \cup flags, fourCC, 0, NoMasks) :
     flags \in {{}, {"RGB"}}, fourCC \in FourCCNames \ {"", "DX10"}}
  \cup {PixelFormat(flags, "", bits, masks) :
     flags \in SUBSET (Flags \ {"FourCC"}), bits \in {8, 16, 32},
     masks \in {NoMasks, RGBAMasks, BGRAMasks, <<1, 0, 0, 0>>, <<1, 0, 0, 2>>, <<0, 0, 0, 1>>}}

Dressed(pf, w, h, mips, caps, dx10) ==
  pf @@ [width |-> w, height |-> h, mips |-> mips, caps |-> caps, dx10 |-> dx10]

DX10Pixels == PixelFormat({"FourCC"}, "DX10", 0, NoMasks)

MCForeign ==
  {Dressed(pf, 4, 4, 1, FALSE, {}) : pf \in AnyPixels}
  \cup {Dressed(DX10Pixels, 4, 4, 1, FALSE, {n}) : n \in 0..116}
  \cup {Dressed(MakePixelFormat(f), w, h, 1, FALSE, {}) : f \in {"DXT1", "BC5", "RGBA8"}, w \in Words, h \in Words}
  \cup {Dressed(MakePixelFormat("DXT1"), 1, 1, mips, caps, {}) :
          mips \in {0, 1, DefaultMips, DefaultMips + 1, MaxUint32}, caps \in BOOLEAN}

=============================================================================
