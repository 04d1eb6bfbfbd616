----------------------------- MODULE HeapProofs -----------------------------
(***************************************************************************)
(* What make, ensureLen, a write and a collection do to the arrays, for    *)
(* the proofs about the buffers of a Decoder and of an Encoder.            *)
(***************************************************************************)
EXTENDS Heap, Induction, FiniteSetTheorems

IsList(s) == Len(s) \in Nat /\ s = [k \in 1..Len(s) |-> s[k]]

MemoryOK(m) == m = [a \in Arrays |-> m[a]] /\ \A a \in Arrays : IsList(m[a])

(* The arrays that somebody may hold.                                      *)
Used(m) == {a \in Arrays : m[a] # << >>}

(* A slice that a variable may have: it is nil, or within its array.       *)
Valid(m, s) ==
  /\ s \in Slice
  /\ s.at = 0 => s = Nil
  /\ s.at # 0 => s.at \in Used(m) /\ s.len <= Len(m[s.at])

ContentIn(m, s) == SubSeq(Cells(m, s), 1, s.len)

-----------------------------------------------------------------------------
(* A function on 1..n is a list of that length.                            *)
LEMMA ListFacts ==
  ASSUME NEW n \in Nat, NEW s, s = [k \in 1..n |-> s[k]]
  PROVE  IsList(s) /\ Len(s) = n
<1>1. Len([k \in 1..n |-> s[k]]) = n
  OBVIOUS
<1>2. Len(s) = n
  BY <1>1
<1> QED
  BY <1>2 DEF IsList

(* Arrays are numbered from 1, and nil has none.                           *)
LEMMA ArrayFacts ==
  /\ 0 \notin Arrays /\ Arrays \subseteq Nat \ {0}
  /\ Nil \in Slice /\ Nil.at = 0 /\ Nil.len = 0
  /\ \A s \in Slice : s.at \in Arrays \cup {0} /\ s.len \in Nat
BY ArrayCountAssumption DEF Arrays, Nil, Slice

(* A slice is nil or has an array, and its content is read from there.     *)
LEMMA ContentFacts ==
  ASSUME NEW m, MemoryOK(m), NEW s, Valid(m, s)
  PROVE  /\ s.len \in Nat
         /\ s.at # 0 => ContentIn(m, s) = [k \in 1..s.len |-> m[s.at][k]]
         /\ s.at = 0 => s.len = 0 /\ ContentIn(m, s) = << >>
         /\ IsList(ContentIn(m, s)) /\ Len(ContentIn(m, s)) = s.len
<1>1. s.len \in Nat
  BY ArrayFacts DEF Valid
<1>2. CASE s.at = 0
  <2>1. s.len = 0 /\ Cells(m, s) = << >>
    BY <1>2, ArrayFacts DEF Valid, Cells
  <2>2. SubSeq(<< >>, 1, 0) = << >>
    OBVIOUS
  <2>3. ContentIn(m, s) = << >>
    BY <2>1, <2>2 DEF ContentIn
  <2>4. IsList(<< >>) /\ Len(<< >>) = 0
    BY DEF IsList
  <2> QED
    BY <1>1, <1>2, <2>1, <2>3, <2>4
<1>3. CASE s.at # 0
  <2> DEFINE c == m[s.at]
  <2>1. Cells(m, s) = c /\ s.len <= Len(c) /\ IsList(c)
    BY <1>3 DEF Valid, Cells, MemoryOK, Used
  <2> HIDE DEF c
  <2>2. SubSeq(c, 1, s.len) = [k \in 1..s.len |-> c[k]]
    BY <1>1, <2>1 DEF IsList
  <2>3. IsList(SubSeq(c, 1, s.len)) /\ Len(SubSeq(c, 1, s.len)) = s.len
    BY <1>1, <2>2 DEF IsList
  <2> QED
    BY <1>1, <1>3, <2>1, <2>2, <2>3 DEF ContentIn, c
<1> QED
  BY <1>2, <1>3

(* There is a free array while not all are in use.                         *)
HasRoom(m) == \E a \in Arrays : m[a] = << >>

(* Fewer arrays in use than there are leave one free.                      *)
LEMMA RoomFacts ==
  ASSUME NEW m, Cardinality(Used(m)) < ArrayCount
  PROVE  HasRoom(m)
<1>1. ~HasRoom(m) => Used(m) = Arrays
  BY DEF HasRoom, Used
<1>2. Cardinality(Arrays) = ArrayCount
  BY ArrayCountAssumption, FS_Interval DEF Arrays
<1> QED
  BY <1>1, <1>2, ArrayCountAssumption

(* There are finitely many arrays.                                         *)
LEMMA UsedFinite ==
  ASSUME NEW m
  PROVE  IsFiniteSet(Used(m)) /\ Cardinality(Used(m)) \in Nat
<1>1. IsFiniteSet(Arrays)
  BY ArrayCountAssumption, FS_Interval DEF Arrays
<1>2. Used(m) \in SUBSET Arrays
  BY DEF Used
<1> QED
  BY <1>1, <1>2, FS_Subset, FS_CardinalityType

(* One array more is at most one more in use.                              *)
LEMMA UsedFacts ==
  ASSUME NEW m, NEW n, NEW a, NEW c \in Nat,
         Used(n) \subseteq Used(m) \cup {a}, Cardinality(Used(m)) <= c
  PROVE  Cardinality(Used(n)) <= c + 1
<1>1. IsFiniteSet(Arrays)
  BY ArrayCountAssumption, FS_Interval DEF Arrays
<1>2. IsFiniteSet(Used(m))
  <2>1. Used(m) \in SUBSET Arrays
    BY DEF Used
  <2> QED
    BY <1>1, <2>1, FS_Subset
<1> DEFINE U == Used(m)
<1> HIDE DEF U
<1>3. IsFiniteSet(U) /\ Cardinality(U) \in Nat
  BY <1>2, FS_CardinalityType DEF U
<1>3a. /\ IsFiniteSet(U \cup {a})
       /\ Cardinality(U \cup {a}) = IF a \in U THEN Cardinality(U) ELSE Cardinality(U)+1
  BY <1>3, FS_AddElement
<1>4. IsFiniteSet(Used(n)) /\ Cardinality(Used(n)) <= Cardinality(Used(m) \cup {a})
  BY <1>3a, FS_Subset DEF U
<1>5. Cardinality(Used(n)) \in Nat
  BY <1>4, FS_CardinalityType
<1> QED
  BY <1>3, <1>3a, <1>4, <1>5 DEF U

(* make takes an array that nobody holds.                                  *)
LEMMA FreshFacts ==
  ASSUME HasRoom(mem)
  PROVE  Fresh \in Arrays /\ mem[Fresh] = << >> /\ Fresh \notin Used(mem)
<1> DEFINE T == {a \in Arrays : mem[a] = << >>}
<1>1. T \in SUBSET Nat /\ T # {}
  BY ArrayFacts DEF HasRoom
<1>2. \E a \in T : \A b \in T : a <= b
  <2> HIDE DEF T
  <2> QED
    BY <1>1, LeastNat
<1>3. \E a \in Arrays : mem[a] = << >> /\ \A b \in Arrays : mem[b] = << >> => a <= b
  BY <1>2
<1>4. Fresh \in Arrays /\ mem[Fresh] = << >>
  BY <1>3 DEF Fresh
<1> QED
  BY <1>4 DEF Used

(* It has the length asked for, and the others are as they were.           *)
LEMMA MakeFacts ==
  ASSUME MemoryOK(mem), HasRoom(mem), NEW n \in Nat \ {0}
  PROVE  /\ MemoryOK(AfterMake(n))
         /\ \A a \in Arrays : a # Fresh => AfterMake(n)[a] = mem[a]
         /\ Len(AfterMake(n)[Fresh]) = n /\ AfterMake(n)[Fresh] # << >>
<1> DEFINE new == [k \in 1..n |-> Blank]
<1>1. IsList(new) /\ Len(new) = n /\ new # << >>
  BY DEF IsList
<1> HIDE DEF new
<1>2. AfterMake(n) = [mem EXCEPT ![Fresh] = new]
  BY DEF AfterMake, new
<1>3. Fresh \in Arrays /\ mem = [a \in Arrays |-> mem[a]]
  BY FreshFacts DEF MemoryOK
<1>4. AfterMake(n) = [a \in Arrays |-> IF a = Fresh THEN new ELSE mem[a]]
  BY <1>2, <1>3
<1> QED
  BY <1>1, <1>3, <1>4 DEF MemoryOK

(* The array is the only one that changes, and does not get shorter.       *)
Changed(m, w, a) ==
  /\ MemoryOK(w)
  /\ \A b \in Arrays : b # a => w[b] = m[b]
  /\ a \in Used(m) => Len(w[a]) >= Len(m[a])

(* Slices stay slices, and contents elsewhere stay.                        *)
LEMMA ChangedFacts ==
  ASSUME NEW m, MemoryOK(m), NEW w, NEW a \in Arrays, Changed(m, w, a)
  PROVE  /\ Used(w) \subseteq Used(m) \cup {a} /\ Used(m) \subseteq Used(w)
         /\ \A s : Valid(m, s) => Valid(w, s)
         /\ \A s : Valid(m, s) /\ s.at # a => ContentIn(w, s) = ContentIn(m, s)
<1>1. Len(<< >>) = 0
  OBVIOUS
<1>2. a \in Used(m) => Len(m[a]) > 0
  <2>1. a \in Used(m) => IsList(m[a]) /\ m[a] # << >>
    BY DEF Used, MemoryOK
  <2>2. \A s : IsList(s) /\ s # << >> => Len(s) > 0
    BY DEF IsList
  <2> QED
    BY <2>1, <2>2
<1>3. a \in Used(m) => a \in Used(w)
  <2>1. Len(w[a]) \in Nat /\ Len(m[a]) \in Nat
    BY DEF Changed, MemoryOK, IsList
  <2> QED
    BY <1>1, <1>2, <2>1 DEF Changed, Used
<1>4. Used(w) \subseteq Used(m) \cup {a} /\ Used(m) \subseteq Used(w)
  BY <1>3 DEF Changed, Used
<1>5. ASSUME NEW s, Valid(m, s) PROVE Valid(w, s)
  <2>1. CASE s.at = 0
    BY <1>5, <2>1 DEF Valid
  <2>2. CASE s.at # 0
    <3>1. s.at \in Arrays /\ s.len \in Nat
      BY <1>5, <2>2, ArrayFacts DEF Valid
    <3>2. Len(w[s.at]) >= Len(m[s.at]) /\ Len(w[s.at]) \in Nat /\ Len(m[s.at]) \in Nat
      <4>1. Len(w[s.at]) \in Nat /\ Len(m[s.at]) \in Nat
        BY <3>1 DEF Changed, MemoryOK, IsList
      <4>2. s.at = a \/ w[s.at] = m[s.at]
        BY <3>1 DEF Changed
      <4>3. s.at \in Used(m)
        BY <1>5, <2>2 DEF Valid
      <4>4. s.at = a => Len(w[s.at]) >= Len(m[s.at])
        BY <4>3 DEF Changed
      <4> QED
        BY <4>1, <4>2, <4>4
    <3>3. s.len <= Len(m[s.at])
      BY <1>5, <2>2 DEF Valid
    <3>4. s.len <= Len(w[s.at])
      BY <3>1, <3>2, <3>3
    <3> QED
      BY <1>4, <1>5, <2>2, <3>4 DEF Valid
  <2> QED
    BY <2>1, <2>2
<1>6. ASSUME NEW s, Valid(m, s), s.at # a PROVE ContentIn(w, s) = ContentIn(m, s)
  <2>1. Cells(w, s) = Cells(m, s)
    BY <1>6, ArrayFacts DEF Cells, Changed, Valid
  <2> QED
    BY <2>1 DEF ContentIn
<1> QED
  BY <1>4, <1>5, <1>6

(* Two changes of one array are one.                                       *)
LEMMA ChangedTwice ==
  ASSUME NEW m, MemoryOK(m), NEW w, NEW x, NEW a \in Arrays, Changed(m, w, a), Changed(w, x, a)
  PROVE  Changed(m, x, a)
<1>1. Len(m[a]) \in Nat /\ Len(w[a]) \in Nat /\ Len(x[a]) \in Nat
  BY DEF Changed, MemoryOK, IsList
<1>2. a \in Used(m) => a \in Used(w)
  BY ChangedFacts
<1> QED
  BY <1>1, <1>2 DEF Changed

(* A slice of n cells where s was, or in a new array.                      *)
LEMMA EnsureLenFacts ==
  ASSUME MemoryOK(mem), HasRoom(mem), NEW s, Valid(mem, s), NEW n \in Nat \ {0}
  PROVE  LET t == EnsureLen(s, n)
             m == AfterEnsureLen(s, n)
         IN  /\ MemoryOK(m) /\ Valid(m, t)
             /\ t.len = n /\ t.at \in Arrays
             /\ t.at = s.at \/ t.at \notin Used(mem)
             /\ Changed(mem, m, t.at)
             /\ \A a \in Used(mem) : m[a] = mem[a]
<1>1. s.len \in Nat /\ s.at \in Arrays \cup {0}
  BY ArrayFacts DEF Valid
<1>2. CASE Fits(s, n)
  <2>1. s.at # 0
    <3> SUFFICES ASSUME s.at = 0 PROVE FALSE
      OBVIOUS
    <3>1. Cap(s) = Len(<< >>)
      BY DEF Cap, Cells
    <3>2. Len(<< >>) = 0
      OBVIOUS
    <3> QED
      BY <1>2, <3>1, <3>2 DEF Fits
  <2>2. Cap(s) = Len(mem[s.at]) /\ n <= Len(mem[s.at])
    <3>1. Cap(s) = Len(mem[s.at]) /\ Len(mem[s.at]) \in Nat
      BY <1>1, <2>1 DEF Cap, Cells, MemoryOK, IsList
    <3> QED
      BY <1>2, <3>1 DEF Fits
  <2>3. EnsureLen(s, n) = [s EXCEPT !.len = n] /\ AfterEnsureLen(s, n) = mem
    BY <1>2 DEF EnsureLen, AfterEnsureLen
  <2>4. [s EXCEPT !.len = n] = [at |-> s.at, len |-> n]
    BY DEF Valid, Slice
  <2> DEFINE t == [at |-> s.at, len |-> n]
  <2>5. t.at = s.at /\ t.len = n /\ t \in Slice
    BY <1>1 DEF Slice
  <2> HIDE DEF t
  <2>6. Valid(mem, t)
    BY <2>1, <2>2, <2>5 DEF Valid
  <2>7. Changed(mem, mem, t.at)
    BY <1>1, <2>1, <2>5 DEF Changed, MemoryOK, IsList
  <2> QED
    BY <1>1, <2>1, <2>3, <2>4, <2>5, <2>6, <2>7 DEF t
<1>3. CASE ~Fits(s, n)
  <2> DEFINE t == [at |-> Fresh, len |-> n]
             m == AfterMake(n)
  <2>1. EnsureLen(s, n) = t /\ AfterEnsureLen(s, n) = m
    BY <1>3 DEF EnsureLen, AfterEnsureLen, Made
  <2>2. /\ MemoryOK(m) /\ \A a \in Arrays : a # Fresh => m[a] = mem[a]
        /\ Len(m[Fresh]) = n /\ m[Fresh] # << >>
        /\ Fresh \in Arrays /\ Fresh \notin Used(mem) /\ Fresh # 0
    BY MakeFacts, FreshFacts, ArrayFacts
  <2>3. t \in Slice /\ t.at = Fresh /\ t.len = n
    BY <2>2 DEF Slice
  <2> HIDE DEF t, m
  <2>4. Valid(m, t)
    BY <2>2, <2>3 DEF Valid, Used
  <2>5. \A a \in Used(mem) : m[a] = mem[a]
    BY <2>2 DEF Used
  <2>6. Changed(mem, m, t.at)
    BY <2>2, <2>3 DEF Changed
  <2> QED
    BY <2>1, <2>2, <2>3, <2>4, <2>5, <2>6
<1> QED
  BY <1>2, <1>3

(* The cells are in the array, behind the given place.                     *)
StandIn(array, from, cells) ==
  /\ Len(array) >= from + Len(cells)
  /\ \A k \in 1..Len(cells) : array[from + k] = cells[k]

(* Elsewhere, the array is what it was.                                    *)
SameAround(array, before, from, cells) ==
  \A k \in 1..Len(before) : k <= from \/ k > from + Len(cells) => array[k] = before[k]

(* A write: the cells are there, the others are what they were.            *)
LEMMA WrittenFacts ==
  ASSUME NEW m, MemoryOK(m), NEW s, s.at \in Arrays, NEW from \in Nat,
         NEW cells, IsList(cells)
  PROVE  LET w == Written(m, s, from, cells)
         IN  /\ Changed(m, w, s.at)
             /\ StandIn(w[s.at], from, cells)
             /\ SameAround(w[s.at], m[s.at], from, cells)
<1> DEFINE old == m[s.at]
           n == IF Len(old) < from + Len(cells) THEN from + Len(cells) ELSE Len(old)
           new == [k \in 1..n |-> IF k \in (from + 1)..(from + Len(cells)) THEN cells[k - from] ELSE old[k]]
<1>1. Written(m, s, from, cells) = [m EXCEPT ![s.at] = new]
  BY DEF Written
<1>2. Len(old) \in Nat /\ Len(cells) \in Nat
  BY DEF MemoryOK, IsList
<1>3. n \in Nat /\ n >= Len(old) /\ n >= from + Len(cells)
  BY <1>2
<1> HIDE DEF n, old
<1>4. Len(new) = n /\ IsList(new)
  BY <1>3 DEF IsList
<1>5. \A k \in 1..Len(cells) : new[from + k] = cells[k]
  <2> TAKE k \in 1..Len(cells)
  <2>1. from + k \in 1..n /\ from + k \in (from + 1)..(from + Len(cells)) /\ (from + k) - from = k
    BY <1>2, <1>3
  <2> QED
    BY <2>1
<1>6. \A k \in 1..Len(old) : k <= from \/ k > from + Len(cells) => new[k] = old[k]
  BY <1>2, <1>3
<1> HIDE DEF new
<1>7. [m EXCEPT ![s.at] = new] = [a \in Arrays |-> IF a = s.at THEN new ELSE m[a]]
  BY DEF MemoryOK
<1> QED
  BY <1>1, <1>3, <1>4, <1>5, <1>6, <1>7 DEF MemoryOK, Changed, StandIn, SameAround, old

-----------------------------------------------------------------------------
(* A collection moves what the roots hold: contents, lengths and who       *)
(* shares an array with whom stay.                                         *)
LEMMA HomeFacts ==
  ASSUME NEW n \in Nat, NEW roots, DOMAIN roots = 1..n, NEW s, NEW j \in 1..n, roots[j].at = s.at,
         s.at # 0
  PROVE  /\ Home(roots, s) \in 1..n /\ roots[Home(roots, s)].at = s.at
         /\ Home(roots, s) <= j
<1> DEFINE T == {k \in 1..n : roots[k].at = s.at}
<1>1. T \in SUBSET Nat /\ T # {}
  OBVIOUS
<1>2. PICK h \in T : \A k \in T : h <= k
  <2> HIDE DEF T
  <2> QED
    BY <1>1, LeastNat
<1> DEFINE First(k) == roots[k].at = s.at /\ \A i \in 1..(k - 1) : roots[i].at # s.at
<1>3. First(h) /\ h \in DOMAIN roots
  <2>1. \A i \in 1..(h - 1) : i \notin T
    BY <1>2
  <2>2. \A i \in 1..(h - 1) : i \in 1..n
    BY <1>2
  <2> QED
    BY <1>2, <2>1, <2>2
<1>4. Home(roots, s) = CHOOSE k \in DOMAIN roots : First(k)
  BY DEF Home
<1>5. Home(roots, s) \in 1..n /\ First(Home(roots, s))
  BY <1>3, <1>4
<1> HIDE DEF First
<1>6. Home(roots, s) <= j
  <2> SUFFICES ASSUME ~(Home(roots, s) <= j) PROVE FALSE
    OBVIOUS
  <2>1. j \in 1..(Home(roots, s) - 1)
    BY <1>5
  <2> QED
    BY <1>5, <2>1 DEF First
<1> QED
  BY <1>5, <1>6 DEF First

Placed(roots, k) == [roots[k] EXCEPT !.at = Home(roots, roots[k])]

Preserved(m, w, n, roots) ==
  /\ MemoryOK(w)
  /\ \A k \in 1..n : /\ Valid(w, Placed(roots, k))
                     /\ Placed(roots, k).len = roots[k].len
                     /\ ContentIn(w, Placed(roots, k)) = ContentIn(m, roots[k])
                     /\ Placed(roots, k).at = Home(roots, roots[k])
                     /\ Placed(roots, k).at <= k /\ Placed(roots, k).at \in Nat
                     /\ (Placed(roots, k).at = 0) = (roots[k].at = 0)
  /\ \A j, k \in 1..n : (Placed(roots, j).at = Placed(roots, k).at) = (roots[j].at = roots[k].at)
  /\ \A a \in Used(w) : a \in 1..n /\ Home(roots, roots[a]) = a /\ roots[a].at # 0

(* All of it, for every root.                                              *)
LEMMA CollectedFacts ==
  ASSUME NEW m, MemoryOK(m), NEW n \in Nat, n <= ArrayCount, NEW roots, DOMAIN roots = 1..n,
         \A k \in 1..n : Valid(m, roots[k])
  PROVE  Preserved(m, Collected(m, roots), n, roots)
<1> DEFINE w == Collected(m, roots)
           At(s) == [s EXCEPT !.at = Home(roots, s)]
<1>1. \A k \in 1..n : /\ roots[k] \in Slice /\ roots[k].at \in Arrays \cup {0} /\ roots[k].len \in Nat
                      /\ roots[k].at = 0 => roots[k] = Nil
                      /\ roots[k].at # 0 => roots[k].at \in Used(m) /\ roots[k].len <= Len(m[roots[k].at])
  BY ArrayFacts DEF Valid
<1>2. \A k \in 1..n : roots[k].at = 0 => Home(roots, roots[k]) = 0
  BY DEF Home
<1>3. \A k \in 1..n : roots[k].at # 0 =>
        /\ Home(roots, roots[k]) \in 1..n /\ roots[Home(roots, roots[k])].at = roots[k].at
        /\ Home(roots, roots[k]) <= k
  BY HomeFacts
<1>4. \A k \in 1..n : At(roots[k]) = [at |-> Home(roots, roots[k]), len |-> roots[k].len]
  BY <1>1 DEF Slice
<1>5. \A k \in 1..n : At(roots[k]).at = Home(roots, roots[k]) /\ At(roots[k]).len = roots[k].len
  BY <1>4
<1> HIDE DEF At
<1>6. 1..n \subseteq Arrays /\ 0 \notin 1..n
  BY ArrayCountAssumption DEF Arrays
<1>7. \A j, k \in 1..n : roots[j].at = roots[k].at => Home(roots, roots[j]) = Home(roots, roots[k])
  BY DEF Home
<1>8. \A j, k \in 1..n : (Home(roots, roots[j]) = Home(roots, roots[k])) = (roots[j].at = roots[k].at)
  <2> TAKE j, k \in 1..n
  <2>1. CASE roots[j].at = 0 \/ roots[k].at = 0
    BY <1>2, <1>3, <1>6, <2>1
  <2>2. CASE roots[j].at # 0 /\ roots[k].at # 0
    BY <1>3, <1>7, <2>2
  <2> QED
    BY <2>1, <2>2
<1>9. \A a \in Arrays : w[a] = IF a \in 1..n /\ Home(roots, roots[a]) = a THEN Cells(m, roots[a]) ELSE << >>
  BY DEF Collected
<1>10. \A k \in 1..n : roots[k].at # 0 => w[Home(roots, roots[k])] = m[roots[k].at]
  <2> SUFFICES ASSUME NEW k \in 1..n, roots[k].at # 0
               PROVE  w[Home(roots, roots[k])] = m[roots[k].at]
    OBVIOUS
  <2> DEFINE h == Home(roots, roots[k])
  <2>1. h \in 1..n /\ roots[h].at = roots[k].at
    BY <1>3
  <2>2. Home(roots, roots[h]) = h
    BY <1>7, <2>1
  <2> HIDE DEF h
  <2>3. w[h] = Cells(m, roots[h])
    BY <1>6, <1>9, <2>1, <2>2
  <2> QED
    BY <2>1, <2>3 DEF Cells, h
<1>11. MemoryOK(w)
  <2>1. w = [a \in Arrays |-> w[a]]
    BY DEF Collected
  <2>2. IsList(<< >>)
    BY DEF IsList
  <2>3. \A a \in 1..n : IsList(Cells(m, roots[a]))
    BY <1>1, <2>2 DEF Cells, MemoryOK, Used
  <2> HIDE DEF w
  <2> QED
    BY <1>9, <2>1, <2>2, <2>3 DEF MemoryOK
<1>12. \A a \in Used(w) : a \in 1..n /\ Home(roots, roots[a]) = a /\ roots[a].at # 0
  <2> HIDE DEF w
  <2> QED
    BY <1>2, <1>6, <1>9 DEF Used
<1> HIDE DEF w
<1>13. ASSUME NEW k \in 1..n
       PROVE  /\ Valid(w, At(roots[k])) /\ ContentIn(w, At(roots[k])) = ContentIn(m, roots[k])
              /\ At(roots[k]).at <= k /\ At(roots[k]).at \in Nat
              /\ (At(roots[k]).at = 0) = (roots[k].at = 0)
  <2>1. CASE roots[k].at = 0
    <3>1. At(roots[k]).at = 0 /\ At(roots[k]) = roots[k]
      BY <1>1, <1>2, <1>4, <1>5, <2>1 DEF Nil
    <3> QED
      BY <1>1, <2>1, <3>1 DEF Valid, ContentIn, Cells
  <2>2. CASE roots[k].at # 0
    <3> DEFINE h == Home(roots, roots[k])
    <3>1. h \in 1..n /\ h <= k /\ w[h] = m[roots[k].at] /\ h \in Arrays /\ h # 0
      BY <1>3, <1>6, <1>10, <2>2
    <3>2. w[h] # << >> /\ roots[k].len <= Len(w[h])
      BY <1>1, <2>2, <3>1 DEF Used
    <3>3. At(roots[k]) \in Slice /\ At(roots[k]).at = h /\ At(roots[k]).len = roots[k].len
      BY <1>1, <1>4, <1>5, <3>1 DEF Slice
    <3> HIDE DEF h
    <3>4. Valid(w, At(roots[k]))
      BY <3>1, <3>2, <3>3 DEF Valid, Used
    <3>5. Cells(w, At(roots[k])) = Cells(m, roots[k])
      BY <2>2, <3>1, <3>3 DEF Cells
    <3> QED
      BY <2>2, <3>1, <3>3, <3>4, <3>5 DEF ContentIn
  <2> QED
    BY <2>1, <2>2
<1>14. \A j, k \in 1..n : (At(roots[j]).at = At(roots[k]).at) = (roots[j].at = roots[k].at)
  BY <1>5, <1>8
<1>15. \A k \in 1..n : /\ Valid(w, At(roots[k]))
                       /\ At(roots[k]).len = roots[k].len
                       /\ ContentIn(w, At(roots[k])) = ContentIn(m, roots[k])
                       /\ At(roots[k]).at = Home(roots, roots[k])
                       /\ At(roots[k]).at <= k /\ At(roots[k]).at \in Nat
                       /\ (At(roots[k]).at = 0) = (roots[k].at = 0)
  BY <1>5, <1>13
<1>16. \A k \in 1..n : At(roots[k]) = Placed(roots, k)
  BY DEF At, Placed
<1> QED
  BY <1>11, <1>12, <1>14, <1>15, <1>16 DEF w, Preserved

-----------------------------------------------------------------------------
(* Cells written to where s was, if there is room, or to a new array.      *)
LEMMA RewriteFacts ==
  ASSUME MemoryOK(mem), HasRoom(mem), NEW s, Valid(mem, s), NEW n \in Nat \ {0},
         NEW x, x.at = EnsureLen(s, n).at, NEW cells, IsList(cells)
  PROVE  LET t == EnsureLen(s, n)
             w == Written(AfterEnsureLen(s, n), x, 0, cells)
         IN  /\ Changed(mem, w, t.at) /\ Valid(w, t)
             /\ t.len = n /\ t.at \in Arrays
             /\ t.at = s.at \/ t.at \notin Used(mem)
             /\ Len(cells) = n => ContentIn(w, t) = cells
<1> DEFINE t == EnsureLen(s, n)
           m == AfterEnsureLen(s, n)
           w == Written(m, x, 0, cells)
<1>1. /\ MemoryOK(m) /\ Valid(m, t) /\ t.len = n /\ t.at \in Arrays
      /\ t.at = s.at \/ t.at \notin Used(mem)
      /\ Changed(mem, m, t.at)
  BY EnsureLenFacts
<1> HIDE DEF t, m
<1>3. x.at = t.at /\ x.at \in Arrays
  BY <1>1 DEF t
<1>2. /\ Changed(m, w, x.at)
      /\ StandIn(w[x.at], 0, cells)
  BY <1>1, <1>3, WrittenFacts
<1> HIDE DEF w
<1>4. Changed(mem, w, t.at)
  BY <1>1, <1>2, <1>3, ChangedTwice
<1>5. Valid(w, t) /\ MemoryOK(w)
  BY <1>1, <1>2, <1>3, ChangedFacts DEF Changed
<1>6. ASSUME Len(cells) = n PROVE ContentIn(w, t) = cells
  <2>1. t.at # 0
    BY <1>1, ArrayFacts
  <2>2. ContentIn(w, t) = [k \in 1..n |-> w[t.at][k]]
    BY <1>1, <1>5, <2>1, ContentFacts
  <2>3. \A k \in 1..n : w[t.at][k] = cells[k]
    <3> TAKE k \in 1..n
    <3>1. 0 + k = k
      OBVIOUS
    <3> QED
      BY <1>2, <1>3, <1>6, <3>1 DEF StandIn
  <2>4. cells = [k \in 1..n |-> cells[k]]
    BY <1>6 DEF IsList
  <2> QED
    BY <2>2, <2>3, <2>4
<1> QED
  BY <1>1, <1>4, <1>5, <1>6 DEF t, m, w

(* make is ensureLen of nil.                                               *)
LEMMA MadeFacts ==
  ASSUME NEW n \in Nat \ {0}
  PROVE  EnsureLen(Nil, n) = Made(n) /\ AfterEnsureLen(Nil, n) = AfterMake(n)
<1>1. Cap(Nil) = Len(<< >>) /\ Len(<< >>) = 0
  BY ArrayFacts DEF Cap, Cells
<1>2. ~Fits(Nil, n)
  BY <1>1 DEF Fits
<1> QED
  BY <1>2 DEF EnsureLen, AfterEnsureLen

=============================================================================
