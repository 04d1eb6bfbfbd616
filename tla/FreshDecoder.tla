---------------------------- MODULE FreshDecoder ----------------------------
(***************************************************************************)
(* What a Decoder promises (read.go): every call answers as a decoder made *)
(* for that call would, and the image it returned is good until the next   *)
(* call.                                                                   *)
(***************************************************************************)
EXTENDS Integers, Sequences

CONSTANTS
  Inputs,    \* what is decoded
  None,      \* no call is running
  Image(_),  \* the pixels of an input
  Good(_)    \* whether an input can be decoded

VARIABLES
  asked,   \* the input of the running call, or None
  answer,  \* "none", "ok" or "error"
  shown    \* the pixels of the image that is good now, << >> for none

vars == <<asked, answer, shown>>

Init ==
  /\ asked = None
  /\ answer = "none"
  /\ shown = << >>

Ask(i) ==
  /\ asked = None
  /\ asked' = i
  /\ answer' = "none"
  /\ shown' = << >>

Answer ==
  /\ asked # None
  /\ asked' = None
  /\ IF Good(asked)
       THEN answer' = "ok" /\ shown' = Image(asked)
       ELSE answer' = "error" /\ shown' = << >>

Next == Answer \/ \E i \in Inputs : Ask(i)

Spec == Init /\ [][Next]_vars

=============================================================================
