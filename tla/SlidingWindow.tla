---------------------------- MODULE SlidingWindow ---------------------------
(***************************************************************************)
(* What an EDDS chunk stream means, with no chunks and no dictionary: one  *)
(* growing output, to which each item adds a literal byte or a byte copied *)
(* from up to Window positions back.  Decoding succeeds only with exactly  *)
(* the promised number of bytes.                                           *)
(***************************************************************************)
EXTENDS Naturals, Sequences

CONSTANTS
  Byte,    \* what the output is made of
  Window,  \* the longest distance a back-reference can express
  Sizes    \* the output sizes a caller may ask for

VARIABLES
  out,     \* the bytes decoded so far
  size,    \* how many the caller wants
  back,    \* how far back the last item reached: 0 for a literal and for none
  status   \* of the last decode: "running", "ok" or "failed"

vars == <<out, size, back, status>>

Init == out = << >> /\ size = 0 /\ back = 0 /\ status = "failed"

Start(n) ==
  /\ status # "running"
  /\ size' = n
  /\ out' = << >>
  /\ back' = 0
  /\ status' = "running"

Literal(b) ==
  /\ status = "running"
  /\ Len(out) < size
  /\ out' = Append(out, b)
  /\ back' = 0
  /\ UNCHANGED <<size, status>>

Copy(distance) ==
  /\ status = "running"
  /\ Len(out) < size
  /\ distance <= Len(out)
  /\ out' = Append(out, out[Len(out) + 1 - distance])
  /\ back' = distance
  /\ UNCHANGED <<size, status>>

Succeed ==
  /\ status = "running"
  /\ Len(out) = size
  /\ status' = "ok"
  /\ back' = 0
  /\ UNCHANGED <<out, size>>

Fail ==
  /\ status' = "failed"
  /\ back' = 0
  /\ UNCHANGED <<out, size>>

Next ==
  \/ \E n \in Sizes : Start(n)
  \/ \E b \in Byte : Literal(b)
  \/ \E distance \in 1..Window : Copy(distance)
  \/ Succeed
  \/ Fail

Spec == Init /\ [][Next]_vars

=============================================================================
