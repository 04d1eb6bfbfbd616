----------------------------- MODULE AtomicFile -----------------------------
(***************************************************************************)
(* What the path-based API promises about one destination path, with no    *)
(* temporary files, descriptors or inodes: a write call replaces the whole *)
(* content in one step or leaves it alone, a call that reports an error    *)
(* has replaced nothing, and a read returns one whole content, the one the *)
(* path had when the read opened it.                                       *)
(***************************************************************************)

CONSTANTS
  Writers,   \* goroutines or processes inside Write*, one call at a time each
  Readers,   \* goroutines or processes inside Read*
  Contents,  \* the complete files an encode can produce
  None       \* no file, no running call, no open read

VARIABLES
  file,       \* content of the destination path, or None
  pending,    \* pending[w]: the content w's running call is to store, or None
  published,  \* published[w]: w's running call has replaced the file
  outcome,    \* outcome[w]: what w's last call returned
  view,       \* view[r]: the content r's running read opened, or None
  seen        \* seen[r]: what r's last read returned, None before it ends

vars == <<file, pending, published, outcome, view, seen>>

Outcomes == {"none", "ok", "error"}

TypeOK ==
  /\ file \in Contents \cup {None}
  /\ pending \in [Writers -> Contents \cup {None}]
  /\ published \in [Writers -> BOOLEAN]
  /\ outcome \in [Writers -> Outcomes]
  /\ view \in [Readers -> Contents \cup {None}]
  /\ seen \in [Readers -> Contents \cup {None}]

Init ==
  /\ file \in Contents \cup {None}
  /\ pending = [w \in Writers |-> None]
  /\ published = [w \in Writers |-> FALSE]
  /\ outcome = [w \in Writers |-> "none"]
  /\ view = [r \in Readers |-> None]
  /\ seen = [r \in Readers |-> None]

(***************************************************************************)
(* Writers                                                                 *)
(***************************************************************************)

Begin(w, c) ==
  /\ pending[w] = None
  /\ pending' = [pending EXCEPT ![w] = c]
  /\ outcome' = [outcome EXCEPT ![w] = "none"]
  /\ UNCHANGED <<file, published, view, seen>>

Reject(w) ==
  /\ pending[w] = None
  /\ outcome' = [outcome EXCEPT ![w] = "error"]
  /\ UNCHANGED <<file, pending, published, view, seen>>

Publish(w) ==
  /\ pending[w] # None
  /\ ~published[w]
  /\ file' = pending[w]
  /\ published' = [published EXCEPT ![w] = TRUE]
  /\ UNCHANGED <<pending, outcome, view, seen>>

(* The call ends: with success exactly when it has published, or, when the *)
(* process dies, with no outcome at all.                                   *)
End(w, o) ==
  /\ pending[w] # None
  /\ o = "ok" => published[w]
  /\ o = "error" => ~published[w]
  /\ pending' = [pending EXCEPT ![w] = None]
  /\ published' = [published EXCEPT ![w] = FALSE]
  /\ outcome' = [outcome EXCEPT ![w] = o]
  /\ UNCHANGED <<file, view, seen>>

(***************************************************************************)
(* Readers                                                                 *)
(***************************************************************************)

Open(r) ==
  /\ view[r] = None
  /\ file # None
  /\ view' = [view EXCEPT ![r] = file]
  /\ seen' = [seen EXCEPT ![r] = None]
  /\ UNCHANGED <<file, pending, published, outcome>>

Miss(r) ==
  /\ view[r] = None
  /\ file = None
  /\ seen' = [seen EXCEPT ![r] = None]
  /\ UNCHANGED <<file, pending, published, outcome, view>>

Finish(r) ==
  /\ view[r] # None
  /\ seen' = [seen EXCEPT ![r] = view[r]]
  /\ view' = [view EXCEPT ![r] = None]
  /\ UNCHANGED <<file, pending, published, outcome>>

Next ==
  \/ \E w \in Writers :
       \/ \E c \in Contents : Begin(w, c)
       \/ Reject(w)
       \/ Publish(w)
       \/ \E o \in Outcomes : End(w, o)
  \/ \E r \in Readers : Open(r) \/ Miss(r) \/ Finish(r)

Spec == Init /\ [][Next]_vars

=============================================================================
