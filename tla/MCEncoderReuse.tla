--------------------------- MODULE MCEncoderReuse ---------------------------
(***************************************************************************)
(* Instance of EncoderReuse for TLC: image calls and block calls of one    *)
(* and two levels in turn, refused in every place and with writers that    *)
(* take any part of the container.                                         *)
(***************************************************************************)
EXTENDS EncoderReuse

MCCallerSizes == <<2, 1>>

Call(name, kind, sizes, swizzle, compress) ==
  [name |-> name, kind |-> kind, sizes |-> sizes, swizzle |-> swizzle, compress |-> compress,
   room |-> 99, fault |-> "none"]

MCCalls ==
  LET large == Call("large", "image", <<3, 1>>, TRUE, TRUE)
      small == Call("small", "image", <<2>>, TRUE, TRUE)
      own == Call("own", "blocks", <<2, 1>>, FALSE, TRUE)
  IN  {large, small, own, [large EXCEPT !.swizzle = FALSE, !.compress = FALSE],
       [own EXCEPT !.sizes = <<2>>, !.compress = FALSE]}
      \cup {[large EXCEPT !.fault = f] : f \in {"options", "encode", "late", "compress"}}
      \cup {[own EXCEPT !.fault = f] : f \in {"header", "sizes", "compress"}}
      \cup {[large EXCEPT !.room = n] : n \in {0, 4}}

MCBlank == [of |-> "nothing", part |-> "blank", level |-> 0, value |-> 0]

=============================================================================
