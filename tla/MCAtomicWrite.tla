---------------------------- MODULE MCAtomicWrite ---------------------------
(***************************************************************************)
(* Instances of AtomicWrite for TLC: two images whose files have different *)
(* lengths and block kinds, laid out by EddsLayout.                        *)
(***************************************************************************)
EXTENDS AtomicWrite, TLC

CONSTANTS small, large, torn, w1, w2, r1, r2, n1, n2, i1, i2, i3, i4

(* A file of one and one of two Write calls, no piece in common.         *)
MCLayout == small :> <<"s1">> @@ large :> <<"l1", "l2">>

MCSegments == {"s1", "l1", "l2"}

(* Writers, temporary names and inodes are interchangeable.                *)
Symmetry ==
  Permutations({w1, w2}) \cup Permutations({n1, n2}) \cup Permutations({i1, i2, i3, i4})

=============================================================================
