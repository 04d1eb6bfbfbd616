------------------------------- MODULE Formats ------------------------------
(***************************************************************************)
(* How a DDS header names a texture format (format.go): what makeDDSHeader *)
(* puts there and what detectFormat makes of it.  A mask is the number of  *)
(* the byte it covers, 0 for none.                                         *)
(***************************************************************************)
EXTENDS Integers, Sequences

Unknown == "Unknown"

Flags == {"FourCC", "RGB", "AlphaPixels", "Luminance", "Alpha"}
PixelFormat(flags, fourCC, bits, masks) ==
  [flags |-> flags, fourCC |-> fourCC, bits |-> bits, masks |-> masks]

NoMasks == <<0, 0, 0, 0>>
RGBAMasks == <<1, 2, 3, 4>>
BGRAMasks == <<3, 2, 1, 4>>

(* makeDDSHeader: the formats that can be written.                         *)
FourCCOf == [DXT1 |-> "DXT1", DXT3 |-> "DXT3", DXT5 |-> "DXT5", BC4 |-> "ATI1", BC5 |-> "ATI2"]
MasksOf == [RGBA8 |-> RGBAMasks, BGRA8 |-> BGRAMasks]
Writable == DOMAIN FourCCOf \cup DOMAIN MasksOf

(* Mutant: the masks of the other order.                                   *)
SwappedPixelFormat(format) ==
  IF format \in DOMAIN FourCCOf
    THEN PixelFormat({"FourCC"}, FourCCOf[format], 0, NoMasks)
    ELSE PixelFormat({"RGB", "AlphaPixels"}, "", 32, RGBAMasks)

MakePixelFormat(format) ==
  IF format \in DOMAIN FourCCOf
    THEN PixelFormat({"FourCC"}, FourCCOf[format], 0, NoMasks)
    ELSE PixelFormat({"RGB", "AlphaPixels"}, "", 32, MasksOf[format])

-----------------------------------------------------------------------------
(* detectFormat and mapDxgiFormat; what is not named here is Unknown.      *)
FourCCs ==
  [DXT1 |-> {"DXT1"}, DXT3 |-> {"DXT2", "DXT3"}, DXT5 |-> {"DXT4", "DXT5"}, BC4 |-> {"ATI1", "BC4U"},
   BC4S |-> {"BC4S"}, BC5 |-> {"ATI2", "BC5U"}, BC5S |-> {"BC5S"}]

Dxgi ==
  [DXT1 |-> {71, 72}, DXT3 |-> {74, 75}, DXT5 |-> {77, 78}, BC4 |-> {80}, BC4S |-> {81}, BC5 |-> {83},
   BC5S |-> {84}, BC7 |-> {98, 99}, BGRA8 |-> {87, 91}, BGRX8 |-> {88, 93}, RGB10A2 |-> {24},
   RGBA8 |-> {28, 29}, RG8 |-> {49}, RG8S |-> {51}, R8 |-> {61}, R8S |-> {63}, A8 |-> {65},
   RGB565 |-> {85}, RGBA5551 |-> {86}, RGBA4444 |-> {115}]

(* What the four bytes may be: a code named above, DX10, none, or any      *)
(* other.                                                                  *)
FourCCNames == (UNION {FourCCs[f] : f \in DOMAIN FourCCs}) \cup {"", "DX10", "other"}

Named(table, name) ==
  IF \E f \in DOMAIN table : name \in table[f] THEN CHOOSE f \in DOMAIN table : name \in table[f]
  ELSE Unknown

(* The masked formats: the flags that must be there, the bits, the masks.  *)
Masked ==
  {<<"R8", {"RGB"}, 8, <<1, 0, 0, 0>>>>, <<"R8", {"Luminance"}, 8, <<1, 0, 0, 0>>>>,
   <<"RGBA8", {"RGB", "AlphaPixels"}, 32, RGBAMasks>>, <<"BGRA8", {"RGB", "AlphaPixels"}, 32, BGRAMasks>>,
   <<"RG8", {"Luminance", "AlphaPixels"}, 16, <<1, 0, 0, 2>>>>, <<"A8", {"Alpha"}, 8, <<0, 0, 0, 1>>>>}

(* A FourCC goes before masks, and a DX10 header before both.              *)
DetectFormat(pf, dx10) ==
  LET matches == {m \in Masked : m[2] \subseteq pf.flags /\ m[3] = pf.bits /\ m[4] = pf.masks}
  IN  CASE dx10 # {} -> Named(Dxgi, CHOOSE n \in dx10 : TRUE)
        [] dx10 = {} /\ "FourCC" \in pf.flags -> Named(FourCCs, pf.fourCC)
        [] dx10 = {} /\ "FourCC" \notin pf.flags ->
             IF matches = {} THEN Unknown ELSE (CHOOSE m \in matches : TRUE)[1]

=============================================================================
