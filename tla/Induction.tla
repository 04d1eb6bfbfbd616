----------------------------- MODULE Induction -----------------------------
(***************************************************************************)
(* Induction over the natural numbers by the least counterexample, and     *)
(* what follows for the sequences that FlattenSeq puts one after another.  *)
(***************************************************************************)
EXTENDS Integers, Sequences, SequencesExt, SequenceTheorems, WellFoundedInduction, TLAPS

(* A set of natural numbers that is not empty has a least element: the set *)
(* of counterexamples to a claim, in a proof by induction.                 *)
LEMMA LeastNat ==
  ASSUME NEW T \in SUBSET Nat, T # {}
  PROVE  \E n \in T : \A m \in T : n <= m
<1>1. IsWellFoundedOn(OpToRel(<,Nat),Nat)
  BY NatLessThanWellFounded
<1>2. PICK n \in T : \A m \in T : ~(<<m, n>> \in OpToRel(<,Nat))
  BY <1>1, WFMin
<1>3. \A m \in T : m \in Nat /\ ~(m < n)
  BY <1>2 DEF OpToRel
<1>4. \A m \in T : n <= m
  BY <1>3
<1> QED
  BY <1>2, <1>4

(* Induction: a set with 0 and the successors of its elements has all      *)
(* natural numbers.                                                        *)
LEMMA NatSetInduction ==
  ASSUME NEW T, 0 \in T, \A n \in Nat : n \in T => n + 1 \in T
  PROVE  Nat \subseteq T
<1>1. SUFFICES ASSUME Nat \ T # {} PROVE FALSE
  OBVIOUS
<1>2. PICK m \in Nat \ T : \A k \in Nat \ T : m <= k
  BY <1>1, LeastNat
<1>3. m \in Nat /\ m # 0
  BY <1>2
<1>4. m - 1 \in Nat /\ ~(m <= m - 1)
  BY <1>3
<1>5. m - 1 \in T
  BY <1>2, <1>4
<1>6. (m - 1) + 1 \in T
  BY <1>4, <1>5
<1>7. (m - 1) + 1 = m
  BY <1>3
<1> QED
  BY <1>2, <1>6, <1>7

(* One sequence behind another.                                            *)
LEMMA ConcatFacts ==
  ASSUME NEW S, NEW s \in Seq(S), NEW t \in Seq(S)
  PROVE  /\ s \o t \in Seq(S)
         /\ Len(s \o t) = Len(s) + Len(t)
         /\ \A j \in 1..Len(s) : (s \o t)[j] = s[j]
         /\ \A j \in 1..Len(t) : (s \o t)[Len(s) + j] = t[j]
OBVIOUS

(* The recursive function that FlattenSeq chooses exists.                  *)
FlattensTo(f, seqs, n) ==
  f = [i \in 1..n |-> IF i = 1 THEN seqs[i] ELSE f[i-1] \o seqs[i]]

(* It is built up, one sequence at a time.                                 *)
LEMMA FlattenExists ==
  ASSUME NEW seqs, NEW n \in Nat
  PROVE  \E f : FlattensTo(f, seqs, n)
<1> DEFINE T == {k \in Nat : \E f : FlattensTo(f, seqs, k)}
<1>1. 0 \in T
  <2> DEFINE f == [i \in 1..0 |-> << >>]
  <2>1. 1..0 = {}
    OBVIOUS
  <2>2. FlattensTo(f, seqs, 0)
    BY <2>1 DEF FlattensTo
  <2> QED
    BY <2>2
<1>2. ASSUME NEW k \in Nat, k \in T PROVE k + 1 \in T
  <2>1. PICK f : FlattensTo(f, seqs, k)
    BY <1>2
  <2> DEFINE g == [i \in 1..(k + 1) |-> IF i = 1 THEN seqs[i] ELSE f[i-1] \o seqs[i]]
  <2>2. \A i \in 1..k : g[i] = f[i]
    <3> TAKE i \in 1..k
    <3>1. i \in 1..(k + 1)
      OBVIOUS
    <3>2. g[i] = IF i = 1 THEN seqs[i] ELSE f[i-1] \o seqs[i]
      BY <3>1
    <3>3. f[i] = IF i = 1 THEN seqs[i] ELSE f[i-1] \o seqs[i]
      BY <2>1 DEF FlattensTo
    <3> QED
      BY <3>2, <3>3
  <2>3. \A i \in 1..(k + 1) : i # 1 => g[i-1] = f[i-1]
    <3> TAKE i \in 1..(k + 1)
    <3>1. i # 1 => i - 1 \in 1..k
      OBVIOUS
    <3> HIDE DEF g
    <3> QED
      BY <3>1, <2>2
  <2>4. g = [i \in 1..(k + 1) |-> IF i = 1 THEN seqs[i] ELSE g[i-1] \o seqs[i]]
    <3> DEFINE h == [i \in 1..(k + 1) |-> IF i = 1 THEN seqs[i] ELSE g[i-1] \o seqs[i]]
    <3>1. \A i \in 1..(k + 1) : g[i] = h[i]
      BY <2>3
    <3> QED
      BY <3>1
  <2>5. FlattensTo(g, seqs, k + 1)
    BY <2>4 DEF FlattensTo
  <2> QED
    BY <2>5
<1>3. n \in T
  <2> HIDE DEF T
  <2> QED
    BY <1>1, <1>2, NatSetInduction
<1> QED
  BY <1>3

(* FlattenSeq gives the last value of that function.                       *)
LEMMA FlattenValue ==
  ASSUME NEW seqs, Len(seqs) \in Nat \ {0}
  PROVE  \E f : FlattensTo(f, seqs, Len(seqs)) /\ FlattenSeq(seqs) = f[Len(seqs)]
<1> DEFINE f == CHOOSE g : g = [i \in 1..Len(seqs) |-> IF i = 1 THEN seqs[i] ELSE g[i-1] \o seqs[i]]
<1>1. \E g : g = [i \in 1..Len(seqs) |-> IF i = 1 THEN seqs[i] ELSE g[i-1] \o seqs[i]]
  BY FlattenExists DEF FlattensTo
<1>2. f = [i \in 1..Len(seqs) |-> IF i = 1 THEN seqs[i] ELSE f[i-1] \o seqs[i]]
  BY <1>1
<1>3. FlattenSeq(seqs) = f[Len(seqs)]
  BY DEF FlattenSeq
<1> HIDE DEF f
<1> QED
  BY <1>2, <1>3 DEF FlattensTo

(* The partial results: they are sequences, each is as long as the last    *)
(* one and its part together, it ends in its part, and it begins like the  *)
(* last one.                                                               *)
FlattenStep(A, seqs, f, k) ==
  /\ f[k] \in Seq(A)
  /\ k = 1 => f[k] = seqs[k]
  /\ k > 1 => /\ Len(f[k]) = Len(f[k-1]) + Len(seqs[k])
              /\ \A j \in 1..Len(f[k-1]) : f[k][j] = f[k-1][j]
              /\ \A j \in 1..Len(seqs[k]) : f[k][Len(f[k-1]) + j] = seqs[k][j]

(* Each of its values is the one before with one sequence more.            *)
LEMMA FlattenSteps ==
  ASSUME NEW A, NEW n \in Nat, NEW seqs \in [1..n -> Seq(A)], NEW f, FlattensTo(f, seqs, n)
  PROVE  \A k \in 1..n : FlattenStep(A, seqs, f, k)
<1> DEFINE T == {k \in Nat : k \in 1..n => f[k] \in Seq(A)}
<1>1. \A k \in 1..n : f[k] = IF k = 1 THEN seqs[k] ELSE f[k-1] \o seqs[k]
  BY DEF FlattensTo
<1>2. 0 \in T
  OBVIOUS
<1>3. ASSUME NEW k \in Nat, k \in T PROVE k + 1 \in T
  <2>1. SUFFICES ASSUME k + 1 \in 1..n PROVE f[k + 1] \in Seq(A)
    OBVIOUS
  <2>2. CASE k = 0
    BY <2>1, <2>2, <1>1
  <2>3. CASE k # 0
    <3>1. k \in 1..n /\ (k + 1) - 1 = k /\ k + 1 # 1
      BY <2>1, <2>3
    <3>2. f[k] \in Seq(A) /\ seqs[k + 1] \in Seq(A)
      BY <3>1, <2>1, <1>3
    <3>3. f[k + 1] = f[k] \o seqs[k + 1]
      BY <3>1, <2>1, <1>1
    <3> QED
      BY <3>2, <3>3
  <2> QED
    BY <2>2, <2>3
<1>4. Nat \subseteq T
  <2> HIDE DEF T
  <2> QED
    BY <1>2, <1>3, NatSetInduction
<1>5. \A k \in 1..n : f[k] \in Seq(A)
  BY <1>4
<1>6. ASSUME NEW k \in 1..n, k > 1
      PROVE  /\ Len(f[k]) = Len(f[k-1]) + Len(seqs[k])
             /\ \A j \in 1..Len(f[k-1]) : f[k][j] = f[k-1][j]
             /\ \A j \in 1..Len(seqs[k]) : f[k][Len(f[k-1]) + j] = seqs[k][j]
  <2>1. k - 1 \in 1..n /\ k # 1
    BY <1>6
  <2>2. f[k-1] \in Seq(A) /\ seqs[k] \in Seq(A) /\ f[k] = f[k-1] \o seqs[k]
    BY <2>1, <1>1, <1>5
  <2> DEFINE s == f[k-1]
             t == seqs[k]
  <2>3. s \in Seq(A) /\ t \in Seq(A) /\ f[k] = s \o t
    BY <2>2
  <2> HIDE DEF s, t
  <2>4. /\ Len(s \o t) = Len(s) + Len(t)
        /\ \A j \in 1..Len(s) : (s \o t)[j] = s[j]
        /\ \A j \in 1..Len(t) : (s \o t)[Len(s) + j] = t[j]
    BY <2>3
  <2>5. /\ Len(f[k]) = Len(s) + Len(t)
        /\ \A j \in 1..Len(s) : f[k][j] = s[j]
        /\ \A j \in 1..Len(t) : f[k][Len(s) + j] = t[j]
    BY <2>3, <2>4
  <2> QED
    BY <2>5 DEF s, t
<1> QED
  BY <1>1, <1>5, <1>6 DEF FlattenStep

(* Where the parts of a flattened sequence are: part k is what follows     *)
(* place starts[k], and the parts follow one another.                      *)
LaidOut(seqs, n, flat, starts) ==
  /\ starts \in [1..(n + 1) -> Nat]
  /\ starts[1] = 0
  /\ Len(flat) = starts[n + 1]
  /\ \A k \in 1..n :
       /\ starts[k + 1] = starts[k] + Len(seqs[k])
       /\ \A j \in 1..Len(seqs[k]) : flat[starts[k] + j] = seqs[k][j]

(* So every element of every sequence has its place in the whole.          *)
LEMMA FlattenLayout ==
  ASSUME NEW A, NEW n \in Nat, NEW seqs \in [1..n -> Seq(A)]
  PROVE  FlattenSeq(seqs) \in Seq(A) /\ \E starts : LaidOut(seqs, n, FlattenSeq(seqs), starts)
<1>0. seqs \in Seq(Seq(A)) /\ Len(seqs) = n
  OBVIOUS
<1>1. CASE n = 0
  <2>1. FlattenSeq(seqs) = seqs /\ seqs \in Seq(A)
    BY <1>0, <1>1 DEF FlattenSeq
  <2> DEFINE starts == [k \in 1..(n + 1) |-> 0]
  <2>2. starts \in [1..(n + 1) -> Nat] /\ starts[1] = 0 /\ starts[n + 1] = 0 /\ 1..n = {}
    BY <1>1
  <2> HIDE DEF starts
  <2>3. Len(FlattenSeq(seqs)) = 0
    BY <1>0, <1>1, <2>1
  <2>4. LaidOut(seqs, n, FlattenSeq(seqs), starts)
    BY <2>2, <2>3 DEF LaidOut
  <2> QED
    BY <2>1, <2>4
<1>2. CASE n # 0
  <2>1. PICK f : FlattensTo(f, seqs, n) /\ FlattenSeq(seqs) = f[n]
    BY <1>0, <1>2, FlattenValue
  <2> DEFINE starts == [k \in 1..(n + 1) |-> IF k = 1 THEN 0 ELSE Len(f[k-1])]
             T == {m \in Nat : m \in 1..n =>
                     \A k \in 1..m : \A j \in 1..Len(seqs[k]) : f[m][starts[k] + j] = seqs[k][j]}
  <2>1a. \A k \in 1..n : FlattenStep(A, seqs, f, k)
    BY <2>1, FlattenSteps
  <2>2. \A k \in 1..n :
           /\ f[k] \in Seq(A)
           /\ k = 1 => f[k] = seqs[k]
           /\ k > 1 => /\ Len(f[k]) = Len(f[k-1]) + Len(seqs[k])
                       /\ \A j \in 1..Len(f[k-1]) : f[k][j] = f[k-1][j]
                       /\ \A j \in 1..Len(seqs[k]) : f[k][Len(f[k-1]) + j] = seqs[k][j]
    BY <2>1a DEF FlattenStep
  <2>3. \A k \in 1..n : Len(f[k]) \in Nat /\ Len(seqs[k]) \in Nat
    BY <2>2
  <2>4. starts \in [1..(n + 1) -> Nat]
    <3>1. \A k \in 1..(n + 1) : k # 1 => k - 1 \in 1..n
      OBVIOUS
    <3> QED
      BY <2>3, <3>1
  <2>5. \A k \in 1..n : starts[k + 1] = Len(f[k])
    OBVIOUS
  <2>6. starts[1] = 0
    OBVIOUS
  <2>7. \A k \in 1..n : starts[k + 1] = starts[k] + Len(seqs[k])
    <3> TAKE k \in 1..n
    <3>1. CASE k = 1
      BY <3>1, <2>2, <2>3, <2>5, <2>6
    <3>2. CASE k # 1
      <4>1. k > 1 /\ starts[k] = Len(f[k-1])
        BY <3>2
      <4> QED
        BY <4>1, <2>2, <2>5
    <3> QED
      BY <3>1, <3>2
  <2> HIDE DEF starts
  <2>8. 0 \in T
    OBVIOUS
  <2>9. ASSUME NEW m \in Nat, m \in T PROVE m + 1 \in T
    <3>1. SUFFICES ASSUME m + 1 \in 1..n, NEW k \in 1..(m + 1), NEW j \in 1..Len(seqs[k])
                   PROVE  f[m + 1][starts[k] + j] = seqs[k][j]
      OBVIOUS
    <3>2. CASE m = 0
      BY <3>1, <3>2, <2>2, <2>6
    <3>3. CASE m # 0
      <4>1. m \in 1..n /\ m + 1 > 1 /\ (m + 1) - 1 = m
        BY <3>1, <3>3
      <4>2. /\ \A i \in 1..Len(f[m]) : f[m + 1][i] = f[m][i]
            /\ \A i \in 1..Len(seqs[m + 1]) : f[m + 1][Len(f[m]) + i] = seqs[m + 1][i]
        BY <4>1, <3>1, <2>2
      <4>3. CASE k = m + 1
        <5>1. starts[k] = Len(f[m])
          BY <4>1, <4>3, <2>5
        <5> QED
          BY <5>1, <4>2, <4>3, <3>1
      <4>4. CASE k # m + 1
        <5>1. k \in 1..m
          BY <4>4, <3>1
        <5>2. f[m][starts[k] + j] = seqs[k][j]
          BY <5>1, <4>1, <2>9, <3>1
        <5>3. starts[k] + j \in 1..Len(f[k]) 
          <6>1. k \in 1..n /\ starts[k] \in Nat /\ Len(seqs[k]) \in Nat
            BY <5>1, <4>1, <2>3, <2>4
          <6>2. Len(f[k]) = starts[k] + Len(seqs[k])
            BY <6>1, <2>5, <2>7
          <6> QED
            BY <6>1, <6>2, <3>1
        <5>4. Len(f[k]) <= Len(f[m])
          <6> DEFINE U == {i \in Nat : i \in k..n => Len(f[k]) <= Len(f[i])}
          <6>1. 0 \in U
            BY <5>1
          <6>2. ASSUME NEW i \in Nat, i \in U PROVE i + 1 \in U
            <7>1. SUFFICES ASSUME i + 1 \in k..n PROVE Len(f[k]) <= Len(f[i + 1])
              OBVIOUS
            <7>2. CASE k = i + 1
              BY <7>2, <2>3, <5>1, <4>1
            <7>3. CASE k # i + 1
              <8>1. i \in k..n /\ i \in 1..n /\ i + 1 \in 1..n /\ i + 1 > 1 /\ (i + 1) - 1 = i
                    /\ k \in 1..n
                <9>1. k \in Nat /\ 1 <= k /\ k <= i + 1 /\ i + 1 <= n
                  BY <7>1, <5>1, <4>1
                <9> QED
                  BY <9>1, <7>3
              <8>2. Len(f[i + 1]) = Len(f[i]) + Len(seqs[i + 1])
                BY <8>1, <2>2
              <8>3. Len(f[k]) <= Len(f[i])
                BY <8>1, <6>2
              <8>4. Len(f[i + 1]) \in Nat /\ Len(f[i]) \in Nat /\ Len(f[k]) \in Nat
                    /\ Len(seqs[i + 1]) \in Nat
                BY <8>1, <2>3
              <8>5. \A a, b, c \in Nat : a <= b => a <= b + c
                OBVIOUS
              <8> QED
                BY <8>2, <8>3, <8>4, <8>5
            <7> QED
              BY <7>2, <7>3
          <6>3. Nat \subseteq U
            <7> HIDE DEF U
            <7> QED
              BY <6>1, <6>2, NatSetInduction
          <6> QED
            BY <6>3, <5>1, <4>1
        <5>5. starts[k] + j \in 1..Len(f[m])
          BY <5>1, <5>3, <5>4, <4>1, <2>3
        <5> QED
          BY <5>2, <5>5, <4>2
      <4> QED
        BY <4>3, <4>4
    <3> QED
      BY <3>2, <3>3
  <2>10. n \in T
    <3> HIDE DEF T
    <3> QED
      BY <2>8, <2>9, NatSetInduction
  <2>11. \A k \in 1..n : \A j \in 1..Len(seqs[k]) : f[n][starts[k] + j] = seqs[k][j]
    BY <2>10, <1>2
  <2>12. Len(f[n]) = starts[n + 1] /\ f[n] \in Seq(A)
    BY <1>2, <2>2, <2>5
  <2>13. LaidOut(seqs, n, FlattenSeq(seqs), starts)
    BY <2>1, <2>4, <2>6, <2>7, <2>11, <2>12 DEF LaidOut
  <2> QED
    BY <2>1, <2>12, <2>13
<1> QED
  BY <1>1, <1>2

(* The parts start in their order.                                         *)
LEMMA StartsGrow ==
  ASSUME NEW A, NEW n \in Nat, NEW seqs \in [1..n -> Seq(A)], NEW flat, NEW starts,
         LaidOut(seqs, n, flat, starts)
  PROVE  \A k \in 1..(n + 1) : starts[k] <= starts[n + 1]
<1> DEFINE T == {m \in Nat : m <= n => starts[(n + 1) - m] <= starts[n + 1]}
<1>1. \A k \in 1..(n + 1) : starts[k] \in Nat
  BY DEF LaidOut
<1>2. 0 \in T
  BY <1>1
<1>3. ASSUME NEW m \in Nat, m \in T PROVE m + 1 \in T
  <2>1. SUFFICES ASSUME m + 1 <= n PROVE starts[(n + 1) - (m + 1)] <= starts[n + 1]
    OBVIOUS
  <2> DEFINE k == n - m
  <2>2. k \in 1..n /\ k + 1 = (n + 1) - m /\ k = (n + 1) - (m + 1) /\ k + 1 \in 1..(n + 1)
        /\ k \in 1..(n + 1) /\ n + 1 \in 1..(n + 1)
    BY <2>1
  <2>3. starts[k + 1] <= starts[n + 1]
    BY <1>3, <2>1, <2>2
  <2> HIDE DEF k
  <2>4. starts[k + 1] = starts[k] + Len(seqs[k]) /\ Len(seqs[k]) \in Nat
    BY <2>2 DEF LaidOut
  <2>5. \A a, b, c, d \in Nat : b = a + c /\ b <= d => a <= d
    OBVIOUS
  <2>6. starts[k] <= starts[n + 1]
    BY <1>1, <2>2, <2>3, <2>4, <2>5
  <2> QED
    BY <2>2, <2>6
<1>4. Nat \subseteq T
  <2> HIDE DEF T
  <2> QED
    BY <1>2, <1>3, NatSetInduction
<1>5. TAKE k \in 1..(n + 1)
<1>6. (n + 1) - k \in Nat /\ (n + 1) - k <= n /\ (n + 1) - ((n + 1) - k) = k
  BY <1>5
<1> QED
  BY <1>4, <1>6

(* A sequence without its first element.                                   *)
LEMMA TailFacts ==
  ASSUME NEW S, NEW s \in Seq(S), NEW n \in Nat, Len(s) = n + 1
  PROVE  Tail(s) = [j \in 1..n |-> s[j + 1]]
<1>1. s # << >>
  OBVIOUS
<1>2. /\ Tail(s) \in Seq(S) /\ Len(Tail(s)) = n
      /\ \A j \in 1..n : Tail(s)[j] = s[j + 1]
  BY <1>1, HeadTailProperties
<1> DEFINE t == [j \in 1..n |-> s[j + 1]]
<1>3. \A j \in 1..n : s[j + 1] \in S
  OBVIOUS
<1>4. t \in Seq(S) /\ Len(t) = n /\ \A j \in 1..n : t[j] = s[j + 1]
  BY <1>3
<1> HIDE DEF t
<1>5. Tail(s) = t
  BY <1>2, <1>4, SeqEqual
<1> QED
  BY <1>5 DEF t

=============================================================================
