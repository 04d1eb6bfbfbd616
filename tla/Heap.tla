-------------------------------- MODULE Heap --------------------------------
(***************************************************************************)
(* Go's arrays and slices, as far as the reused buffers of a Decoder or an *)
(* Encoder need them: a slice is an array and a length, its capacity is    *)
(* the length of the array, and every slice here starts where its array    *)
(* does.  A cell keeps what was last written to it, whichever slice it is  *)
(* read through.                                                           *)
(***************************************************************************)
EXTENDS Integers, Sequences

CONSTANTS
  ArrayCount,  \* how many arrays there can be at a time
  Blank        \* what make leaves in a cell

VARIABLE mem  \* the cells of an array; << >> for an array nobody holds

ASSUME ArrayCountAssumption == ArrayCount \in Nat

Arrays == 1..ArrayCount

Slice == [at : Arrays \cup {0}, len : Nat]
Nil == [at |-> 0, len |-> 0]

Cells(m, s) == IF s.at = 0 THEN << >> ELSE m[s.at]
Cap(s) == Len(Cells(mem, s))
Content(s) == SubSeq(Cells(mem, s), 1, s.len)
Apart(s, t) == s.at # t.at \/ s = Nil

Fresh == CHOOSE a \in Arrays : mem[a] = << >> /\ \A b \in Arrays : mem[b] = << >> => a <= b

(* make([]T, n, capacity).                                                 *)
Made(n) == [at |-> Fresh, len |-> n]
AfterMake(capacity) == [mem EXCEPT ![Fresh] = [k \in 1..capacity |-> Blank]]

(* Mutant: a buffer one cell too small is taken for large enough.          *)
AlmostFits(s, n) == s # Nil /\ Cap(s) + 1 >= n

(* ensureLen: the slice and the memory it leaves.                          *)
Fits(s, n) == Cap(s) >= n
EnsureLen(s, n) == IF Fits(s, n) THEN [s EXCEPT !.len = n] ELSE Made(n)
AfterEnsureLen(s, n) == IF Fits(s, n) THEN mem ELSE AfterMake(n)

(* Cells written from the given index on.                                  *)
Written(m, s, from, cells) ==
  [m EXCEPT ![s.at] =
    [k \in 1..(IF Len(@) < from + Len(cells) THEN from + Len(cells) ELSE Len(@)) |->
       IF k \in (from + 1)..(from + Len(cells)) THEN cells[k - from] ELSE @[k]]]

(* Garbage is collected between calls, and what the roots still hold is    *)
(* moved to the first arrays, in their order: states that differ only in   *)
(* where arrays are need not be told apart.                                *)
Home(roots, s) ==
  IF s.at = 0 THEN 0
  ELSE CHOOSE k \in DOMAIN roots : roots[k].at = s.at /\ \A j \in 1..(k - 1) : roots[j].at # s.at
Moved(roots) == [k \in DOMAIN roots |-> [roots[k] EXCEPT !.at = Home(roots, roots[k])]]
Collected(m, roots) ==
  [a \in Arrays |->
     IF a \in DOMAIN roots /\ Home(roots, roots[a]) = a THEN Cells(m, roots[a]) ELSE << >>]

=============================================================================
