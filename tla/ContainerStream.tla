--------------------------- MODULE ContainerStream --------------------------
(***************************************************************************)
(* What an Encoder promises (write.go): what it has sent is at any time    *)
(* the beginning of a container of this call's image, a call succeeds when *)
(* the whole container was taken, fails when the writer takes no more, and *)
(* a call that is refused has sent nothing.                                *)
(***************************************************************************)
EXTENDS Integers, SequencesExt

CONSTANTS
  Calls,          \* the calls made
  None,           \* no call is running
  Containers(_),  \* the containers a call may write, as sequences of units
  Refused(_),     \* whether a call is refused
  Room(_)         \* how many units the writer of a call takes

VARIABLES
  asked,   \* the running call, or None
  sent,    \* what its writer has taken
  answer   \* "none", "ok" or "error"

vars == <<asked, sent, answer>>

Init ==
  /\ asked = None
  /\ sent = << >>
  /\ answer = "none"

Ask(c) ==
  /\ asked = None
  /\ asked' = c
  /\ answer' = "none"
  /\ UNCHANGED sent

Send ==
  /\ asked # None
  /\ ~Refused(asked)
  /\ IsPrefix(sent, sent')
  /\ \E w \in Containers(asked) : IsPrefix(sent', w)
  /\ Len(sent') <= Room(asked)
  /\ UNCHANGED <<asked, answer>>

Answer ==
  /\ asked # None
  /\ answer' = CASE Refused(asked) -> "error"
                 [] ~Refused(asked) /\ sent \in Containers(asked) -> "ok"
                 [] ~Refused(asked) /\ sent \notin Containers(asked) -> "error"
  /\ ~Refused(asked) /\ answer' = "error" => Len(sent) = Room(asked)
  /\ asked' = None
  /\ sent' = << >>

Next == Send \/ Answer \/ \E c \in Calls : Ask(c)

Spec == Init /\ [][Next]_vars

=============================================================================
