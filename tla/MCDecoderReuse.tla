--------------------------- MODULE MCDecoderReuse ---------------------------
(***************************************************************************)
(* Instance of DecoderReuse for TLC: containers and legacy files, large    *)
(* and small in turn, and inputs that fail in every place.                 *)
(***************************************************************************)
EXTENDS DecoderReuse

Container(name, way, skips, magic, stored, size) ==
  [name |-> name, way |-> way, legacy |-> FALSE, skips |-> skips, magic |-> magic,
   stored |-> stored, size |-> size, fault |-> "none"]
Blob(name, way, magic, stored, size) ==
  [Container(name, way, << >>, magic, stored, size) EXCEPT !.legacy = TRUE]
Faulty(i, fault, stored) == [i EXCEPT !.fault = fault, !.stored = stored]

MCInputs ==
  LET large == Container("large", "seeker", <<1>>, LZ4, 2, 3)
      small == Container("small", "seeker", << >>, COPY, 2, 2)
      streamed == Container("streamed", "stream", <<1>>, LZ4, 1, 2)
      blob == Blob("blob", "seeker", LZ4, 2, 3)
      raw == Blob("raw", "stream", COPY, 2, 2)
  IN  {large, small, streamed, blob, raw}
      \cup {Faulty(large, f, large.stored) : f \in {"headers", "table", "body", "inflate", "image"}}
      \cup {Faulty(small, "inflate", 3), Faulty(small, "bodies", 2), Faulty(streamed, "table", 1)}
      \cup {Faulty(blob, "inflate", 2), Faulty(blob, "body", 2)}

MCBlank == [of |-> "nothing", part |-> "blank", value |-> 0]

=============================================================================
