-------------------------- MODULE MCBlockRoundTrip --------------------------
(***************************************************************************)
(* Instance of BlockRoundTrip for TLC: every payload of up to MaxSize      *)
(* bytes.                                                                  *)
(***************************************************************************)
EXTENDS BlockRoundTrip

MCPayloads == UNION {[1..n -> Byte] : n \in 1..MaxSize}

Asked(mode, compress, level, ratio0, size0) ==
  [mode |-> mode, compress |-> compress, hcLevel |-> level, minRatio |-> ratio0, chunkSize |-> size0]

(* Every threshold with every chunk size, and every mode with some levels. *)
MCOptions ==
  {Asked("LZ4", FALSE, 0, q, n) :
     q \in {<<-1, 1>>, <<0, 1>>, <<1, 4>>, <<1, 1>>, <<3, 2>>, NaN}, n \in -1..4}
  \cup {Asked(mode, compress, 0, <<0, 1>>, 0) :
     mode \in {"Default", "None", "LZ4", "LZ4HC", "Unknown"}, compress \in BOOLEAN}
  \cup {Asked(mode, FALSE, level, <<0, 1>>, 0) :
     mode \in {"Default", "LZ4", "LZ4HC"}, level \in {-1, 1, 9, 10}}

=============================================================================
