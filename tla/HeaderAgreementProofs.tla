----------------------- MODULE HeaderAgreementProofs -----------------------
(***************************************************************************)
(* Sizes are exact, chains end in one texel, and a reader works out of a   *)
(* header what the writer checked, for words of every width.               *)
(***************************************************************************)
EXTENDS HeaderAgreement, Induction

(* Facts of arithmetic.                                                    *)
LEMMA MoreThan ==
  ASSUME NEW a \in Nat, NEW b \in Nat, NEW c \in Nat, a <= b
  PROVE  a * c <= b * c
<1>1. CASE c = 0
  BY <1>1
<1>2. CASE c > 0
  BY <1>2
<1> QED
  BY <1>1, <1>2

(* A product is within a bound if a factor is within the quotient.         *)
LEMMA Quotient ==
  ASSUME NEW x \in Nat, NEW b \in Nat \ {0}, NEW m \in Nat
  PROVE  (x <= m \div b) = (x * b <= m)
<1> DEFINE q == m \div b
<1>1. q \in Nat /\ b * q <= m /\ m < b * q + b
  OBVIOUS
<1> HIDE DEF q
<1>2. x <= q => x * b <= m
  <2> SUFFICES ASSUME x <= q PROVE x * b <= m
    OBVIOUS
  <2>1. x * b <= q * b
    BY <1>1, MoreThan
  <2>2. q * b = b * q /\ x * b \in Nat /\ q * b \in Nat
    BY <1>1
  <2> QED
    BY <1>1, <2>1, <2>2
<1>3. ~(x <= q) => ~(x * b <= m)
  <2> SUFFICES ASSUME ~(x <= q) PROVE ~(x * b <= m)
    OBVIOUS
  <2>1. q + 1 \in Nat /\ q + 1 <= x
    BY <1>1
  <2>2. (q + 1) * b <= x * b
    BY <2>1, MoreThan
  <2>3. (q + 1) * b = b * q + b /\ x * b \in Nat /\ (q + 1) * b \in Nat
    BY <1>1
  <2> QED
    BY <1>1, <2>2, <2>3
<1> QED
  BY <1>2, <1>3 DEF q

-----------------------------------------------------------------------------
(* The recursive function of checkedDataLength.                            *)
Products(f, factors, n) ==
  f = [k \in 0..n |->
         IF k = 0 THEN 1
         ELSE IF StaysInWord(f[k - 1], factors[k]) THEN Times(f[k - 1], factors[k]) ELSE 0]

(* The recursive function that checkedDataLength computes exists.          *)
LEMMA ProductsExist ==
  ASSUME NEW factors, NEW n \in Nat
  PROVE  \E f : Products(f, factors, n)
<1> DEFINE T == {k \in Nat : \E f : Products(f, factors, k)}
<1>1. 0 \in T
  <2> DEFINE f == [k \in 0..0 |-> 1]
  <2>1. Products(f, factors, 0)
    BY DEF Products
  <2> QED
    BY <2>1
<1>2. ASSUME NEW k \in Nat, k \in T PROVE k + 1 \in T
  <2>1. PICK f : Products(f, factors, k)
    BY <1>2
  <2> DEFINE After(g, i) == IF i = 0 THEN 1
                            ELSE IF StaysInWord(g[i - 1], factors[i]) THEN Times(g[i - 1], factors[i]) ELSE 0
             g == [i \in 0..(k + 1) |-> After(f, i)]
             h == [i \in 0..(k + 1) |-> After(g, i)]
  <2>2. \A i \in 0..k : i \in 0..(k + 1) /\ f[i] = After(f, i)
    BY <2>1 DEF Products
  <2>3. \A i \in 0..k : g[i] = f[i]
    BY <2>2
  <2>4. \A i \in 0..(k + 1) : i # 0 => i - 1 \in 0..k
    OBVIOUS
  <2>5. g = h
    <3>1. \A i \in 0..(k + 1) : i # 0 => g[i - 1] = f[i - 1]
      <4> HIDE DEF g
      <4> QED
        BY <2>3, <2>4
    <3>2. \A i \in 0..(k + 1) : After(g, i) = After(f, i)
      <4> HIDE DEF g
      <4> QED
        BY <3>1
    <3> HIDE DEF After
    <3> QED
      BY <3>2
  <2>6. Products(g, factors, k + 1)
    BY <2>5 DEF Products
  <2> QED
    BY <2>6
<1>3. n \in T
  <2> HIDE DEF T
  <2> QED
    BY <1>1, <1>2, NatSetInduction
<1> QED
  BY <1>3

(* CheckedDataLength is its last value.                                    *)
LEMMA CheckedValue ==
  ASSUME NEW factors, NEW n \in Nat, Len(factors) = n
  PROVE  \E f : Products(f, factors, n) /\ CheckedDataLength(factors) = f[n]
<1> DEFINE f == CHOOSE g : g = [k \in 0..Len(factors) |->
                  IF k = 0 THEN 1
                  ELSE IF StaysInWord(g[k - 1], factors[k]) THEN Times(g[k - 1], factors[k]) ELSE 0]
<1>1. \E g : Products(g, factors, Len(factors))
  BY ProductsExist
<1>2. Products(f, factors, Len(factors))
  BY <1>1 DEF Products
<1>3. CheckedDataLength(factors) = f[Len(factors)]
  BY DEF CheckedDataLength
<1> HIDE DEF f
<1> QED
  BY <1>2, <1>3

(* One more factor: the product, or 0 when it leaves the word.             *)
Bounded(x) == IF x <= MaxUint64 THEN x ELSE 0

(* One factor more: the product, or 0 where it leaves the word.            *)
LEMMA OneMoreFactor ==
  ASSUME NEW x \in Nat \ {0}, NEW b \in Nat \ {0}
  PROVE  (IF StaysInWord(Bounded(x), b) THEN Times(Bounded(x), b) ELSE 0) = Bounded(x * b)
<1> DEFINE y == Bounded(x)
<1>1. MaxUint64 \in Nat /\ y \in Nat /\ x * b \in Nat /\ b >= 1
  BY WordsAssumption DEF Bounded
<1>2. StaysInWord(y, b) = (y * b <= MaxUint64)
  BY <1>1, Quotient DEF StaysInWord
<1>3. CASE x <= MaxUint64
  <2>1. y = x
    BY <1>3 DEF Bounded
  <2>2. x * b <= MaxUint64 => (x * b) % (MaxUint64 + 1) = x * b
    <3> DEFINE p == x * b
    <3>1. p \in Nat
      BY <1>1
    <3> HIDE DEF p
    <3>2. p <= MaxUint64 => p % (MaxUint64 + 1) = p
      BY <1>1, <3>1
    <3> QED
      BY <3>2 DEF p
  <2> QED
    BY <1>2, <2>1, <2>2 DEF Bounded, Times
<1>4. CASE ~(x <= MaxUint64)
  <2>1. y = 0
    BY <1>4 DEF Bounded
  <2>2. x * b >= x
    <3>1. 1 * x <= b * x
      BY <1>1, MoreThan
    <3>2. 1 * x = x /\ b * x = x * b
      BY <1>1
    <3> QED
      BY <3>1, <3>2
  <2>3. ~(x * b <= MaxUint64)
    BY <1>1, <1>4, <2>2
  <2>4. 0 * b = 0 /\ 0 % (MaxUint64 + 1) = 0
    BY <1>1
  <2> QED
    BY <1>2, <2>1, <2>3, <2>4 DEF Bounded, Times
<1> QED
  BY <1>3, <1>4

(* What the words of a platform have in common.                            *)
LEMMA WordFacts ==
  ASSUME maxInt \in Platforms
  PROVE  /\ MaxUint64 \in Nat /\ MaxInt32 \in Nat /\ MaxUint32 \in Nat /\ maxInt \in Nat
         /\ MaxInt32 >= 3 /\ MaxInt32 <= maxInt /\ 2 * maxInt < MaxUint64
         /\ MaxUint32 = 2 * MaxInt32 + 1 /\ MaxUint32 <= 2 * maxInt + 1
         /\ maxInt + 3 <= MaxUint64 /\ 1 <= MaxUint64 /\ maxInt <= MaxUint64
<1>1. MaxUint64 \in Nat /\ MaxInt32 \in Nat /\ maxInt \in Nat /\ MaxInt32 >= 3 /\ MaxInt32 <= maxInt
      /\ 2 * maxInt < MaxUint64 /\ MaxUint32 = 2 * MaxInt32 + 1
  BY WordsAssumption
<1>2. MaxUint32 \in Nat /\ MaxUint32 <= 2 * maxInt + 1
  BY <1>1
<1>3. maxInt + 3 <= MaxUint64 /\ 1 <= MaxUint64 /\ maxInt <= MaxUint64
  BY <1>1
<1> QED
  BY <1>1, <1>2, <1>3

(* A product of sizes is a size.                                           *)
LEMMA Positive ==
  ASSUME NEW a \in Nat \ {0}, NEW b \in Nat \ {0}
  PROVE  a * b \in Nat \ {0}
<1>1. 1 * a <= b * a
  <2>1. 1 \in Nat /\ 1 <= b /\ a \in Nat /\ b \in Nat
    OBVIOUS
  <2> QED
    BY <2>1, MoreThan
<1>2. 1 * a = a /\ b * a = a * b /\ a * b \in Nat
  OBVIOUS
<1> DEFINE p == a * b
<1>3. p \in Nat /\ a <= p
  BY <1>1, <1>2
<1> HIDE DEF p
<1>4. p \in Nat \ {0}
  BY <1>3
<1> QED
  BY <1>4 DEF p

(* The first factors: their product, or 0 for an overflow.                 *)
LEMMA FirstFactors ==
  ASSUME maxInt \in Platforms, NEW s, NEW n \in Nat, n >= 2, s[1] \in Nat \ {0}, s[2] \in Nat \ {0},
         NEW f, Products(f, s, n)
  PROVE  f[2] = Bounded(s[1] * s[2])
<1>1. Bounded(1) = 1 /\ 1 \in Nat \ {0}
  BY WordFacts DEF Bounded
<1>2. f[0] = 1
  <2>1. 0 \in 0..n
    OBVIOUS
  <2> QED
    BY <2>1 DEF Products
<1>3. f[1] = IF StaysInWord(f[0], s[1]) THEN Times(f[0], s[1]) ELSE 0
  <2>1. 1 \in 0..n /\ 1 # 0 /\ 1 - 1 = 0
    OBVIOUS
  <2> QED
    BY <2>1 DEF Products
<1>4. f[1] = Bounded(s[1])
  <2>1. f[1] = IF StaysInWord(Bounded(1), s[1]) THEN Times(Bounded(1), s[1]) ELSE 0
    BY <1>1, <1>2, <1>3
  <2>2. 1 * s[1] = s[1]
    OBVIOUS
  <2>3. f[1] = Bounded(1 * s[1])
    BY <1>1, <2>1, OneMoreFactor
  <2> QED
    BY <2>2, <2>3
<1>5. f[2] = IF StaysInWord(f[1], s[2]) THEN Times(f[1], s[2]) ELSE 0
  <2>1. 2 \in 0..n /\ 2 # 0 /\ 2 - 1 = 1
    OBVIOUS
  <2> QED
    BY <2>1 DEF Products
<1> QED
  BY <1>4, <1>5, OneMoreFactor

(* The exact product of two or three factors, or 0 for an overflow.        *)
LEMMA CheckedTwo ==
  ASSUME maxInt \in Platforms, NEW a \in Nat \ {0}, NEW b \in Nat \ {0}
  PROVE  CheckedDataLength(<<a, b>>) = Bounded(a * b)
<1> DEFINE s == <<a, b>>
<1>1. Len(s) = 2 /\ s[1] = a /\ s[2] = b
  OBVIOUS
<1> HIDE DEF s
<1>2. PICK f : Products(f, s, 2) /\ CheckedDataLength(s) = f[2]
  BY <1>1, CheckedValue
<1>3. 2 \in Nat /\ 2 >= 2 /\ s[1] \in Nat \ {0} /\ s[2] \in Nat \ {0}
  BY <1>1
<1>4. f[2] = Bounded(s[1] * s[2])
  BY <1>2, <1>3, FirstFactors
<1>5. CheckedDataLength(s) = Bounded(a * b)
  BY <1>1, <1>2, <1>4
<1> QED
  BY <1>5 DEF s

(* Three factors, from two.                                                *)
LEMMA CheckedThree ==
  ASSUME maxInt \in Platforms, NEW a \in Nat \ {0}, NEW b \in Nat \ {0}, NEW c \in Nat \ {0}
  PROVE  CheckedDataLength(<<a, b, c>>) = Bounded((a * b) * c)
<1> DEFINE s == <<a, b, c>>
<1>1. Len(s) = 3 /\ s[1] = a /\ s[2] = b /\ s[3] = c
  OBVIOUS
<1> HIDE DEF s
<1>2. PICK f : Products(f, s, 3) /\ CheckedDataLength(s) = f[3]
  BY <1>1, CheckedValue
<1>3. 3 \in Nat /\ 3 >= 2 /\ s[1] \in Nat \ {0} /\ s[2] \in Nat \ {0}
  BY <1>1
<1>4. f[2] = Bounded(s[1] * s[2])
  BY <1>2, <1>3, FirstFactors
<1>5. f[3] = IF StaysInWord(f[2], s[3]) THEN Times(f[2], s[3]) ELSE 0
  <2>1. 3 \in 0..3 /\ 3 # 0 /\ 3 - 1 = 2
    OBVIOUS
  <2> QED
    BY <1>2, <2>1 DEF Products
<1>6. a * b \in Nat \ {0}
  BY Positive
<1>7. f[3] = IF StaysInWord(Bounded(a * b), c) THEN Times(Bounded(a * b), c) ELSE 0
  BY <1>1, <1>4, <1>5
<1>8. f[3] = Bounded((a * b) * c)
  BY <1>6, <1>7, OneMoreFactor
<1> QED
  BY <1>2, <1>8 DEF s

(* The blocks that cover a side.                                           *)
Covering(n) == n \div 4 + IF n % 4 = 0 THEN 0 ELSE 1

(* The blocks of 4 texels that cover a side, without a wrap.               *)
LEMMA BlocksFacts ==
  ASSUME maxInt \in Platforms, NEW n \in Nat \ {0}, n <= maxInt
  PROVE  Covering(n) \in Nat \ {0} /\ Blocks(n) = Covering(n)
<1>1. MaxUint64 \in Nat /\ n + 3 \in Nat /\ n + 3 <= MaxUint64
  BY WordFacts
<1>2. (n + 3) % (MaxUint64 + 1) = n + 3
  <2> DEFINE m == n + 3
  <2>1. m \in Nat /\ m <= MaxUint64 /\ MaxUint64 \in Nat
    BY <1>1
  <2> HIDE DEF m
  <2>2. m % (MaxUint64 + 1) = m
    BY <2>1
  <2> QED
    BY <2>2 DEF m
<1>3. (n + 3) \div 4 = Covering(n)
  BY DEF Covering
<1>4. (n + 3) \div 4 \in Nat \ {0}
  OBVIOUS
<1> QED
  BY <1>2, <1>3, <1>4 DEF Blocks

(* A format has one size.                                                  *)
LEMMA FormatClasses ==
  ASSUME NEW format
  PROVE  /\ format \in BlockFormats8 => format \notin BlockFormats16 /\ format \notin Texels4
                                        /\ format \notin Texels2 /\ format \notin Texels1
         /\ format \in BlockFormats16 => format \notin Texels4 /\ format \notin Texels2 /\ format \notin Texels1
         /\ format \in Texels4 => format \notin Texels2 /\ format \notin Texels1
         /\ format \in Texels2 => format \notin Texels1
  BY DEF BlockFormats8, BlockFormats16, Texels4, Texels2, Texels1

(* The factors of a format, and their product.                             *)
LEMMA Sized ==
  ASSUME maxInt \in Platforms, NEW format \in SizedFormats,
         NEW w \in Nat \ {0}, w <= maxInt, NEW h \in Nat \ {0}, h <= maxInt
  PROVE  /\ ExactLength(format, w, h) \in Nat \ {0}
         /\ CheckedDataLength(Factors(format, w, h)) = Bounded(ExactLength(format, w, h))
<1> DEFINE exact == ExactLength(format, w, h)
           bw == Covering(w)
           bh == Covering(h)
           p == w * h
           q == bw * bh
<1>1. bw \in Nat \ {0} /\ bh \in Nat \ {0} /\ Blocks(w) = bw /\ Blocks(h) = bh
  BY BlocksFacts
<1>2. p \in Nat \ {0} /\ q \in Nat \ {0}
  BY <1>1, Positive
<1>3. \A x \in Nat \ {0} : x * 8 \in Nat \ {0} /\ x * 16 \in Nat \ {0} /\ x * 4 \in Nat \ {0} /\ x * 2 \in Nat \ {0}
  OBVIOUS
<1>4. \A x \in Nat \ {0} : 8 * x = x * 8 /\ 16 * x = x * 16 /\ 4 * x = x * 4 /\ 2 * x = x * 2
  OBVIOUS
<1>5. 4 * w * h = p * 4 /\ 2 * w * h = p * 2
  OBVIOUS
<1>6. 8 \in Nat \ {0} /\ 16 \in Nat \ {0} /\ 4 \in Nat \ {0} /\ 2 \in Nat \ {0}
  OBVIOUS
<1>7. CASE format \in BlockFormats8
  <2>1. Factors(format, w, h) = <<Blocks(w), Blocks(h), 8>>
    BY <1>7, FormatClasses DEF Factors
  <2>2. exact = 8 * (Covering(w) * Covering(h))
    BY <1>7, FormatClasses DEF ExactLength, Covering
  <2>3. CheckedDataLength(<<bw, bh, 8>>) = Bounded((bw * bh) * 8)
    <3> HIDE DEF bw, bh
    <3> QED
      BY <1>1, <1>6, CheckedThree
  <2>4. exact = 8 * q /\ CheckedDataLength(Factors(format, w, h)) = Bounded(q * 8)
    BY <1>1, <2>1, <2>2, <2>3
  <2> HIDE DEF exact, q
  <2> QED
    BY <1>2, <1>3, <1>4, <2>4 DEF exact
<1>8. CASE format \in BlockFormats16
  <2>1. Factors(format, w, h) = <<Blocks(w), Blocks(h), 16>>
    BY <1>8, FormatClasses DEF Factors
  <2>2. exact = 16 * (Covering(w) * Covering(h))
    BY <1>8, FormatClasses DEF ExactLength, Covering
  <2>3. CheckedDataLength(<<bw, bh, 16>>) = Bounded((bw * bh) * 16)
    <3> HIDE DEF bw, bh
    <3> QED
      BY <1>1, <1>6, CheckedThree
  <2>4. exact = 16 * q /\ CheckedDataLength(Factors(format, w, h)) = Bounded(q * 16)
    BY <1>1, <2>1, <2>2, <2>3
  <2> HIDE DEF exact, q
  <2> QED
    BY <1>2, <1>3, <1>4, <2>4 DEF exact
<1>9. CASE format \in Texels4
  <2>1. Factors(format, w, h) = <<w, h, 4>>
    BY <1>9, FormatClasses DEF Factors
  <2>2. exact = 4 * w * h
    BY <1>9, FormatClasses DEF ExactLength
  <2>3. CheckedDataLength(<<w, h, 4>>) = Bounded((w * h) * 4)
    BY <1>6, CheckedThree
  <2>4. exact = p * 4 /\ CheckedDataLength(Factors(format, w, h)) = Bounded(p * 4)
    BY <1>5, <2>1, <2>2, <2>3
  <2> HIDE DEF exact, p
  <2> QED
    BY <1>2, <1>3, <2>4 DEF exact
<1>10. CASE format \in Texels2
  <2>1. Factors(format, w, h) = <<w, h, 2>>
    BY <1>10, FormatClasses DEF Factors
  <2>2. exact = 2 * w * h
    BY <1>10, FormatClasses DEF ExactLength
  <2>3. CheckedDataLength(<<w, h, 2>>) = Bounded((w * h) * 2)
    BY <1>6, CheckedThree
  <2>4. exact = p * 2 /\ CheckedDataLength(Factors(format, w, h)) = Bounded(p * 2)
    BY <1>5, <2>1, <2>2, <2>3
  <2> HIDE DEF exact, p
  <2> QED
    BY <1>2, <1>3, <2>4 DEF exact
<1>11. CASE format \in Texels1
  <2>1. Factors(format, w, h) = <<w, h>>
    BY <1>11, FormatClasses DEF Factors
  <2>2. exact = w * h
    BY <1>11, FormatClasses DEF ExactLength
  <2>3. CheckedDataLength(<<w, h>>) = Bounded(w * h)
    BY CheckedTwo
  <2>4. exact = p /\ CheckedDataLength(Factors(format, w, h)) = Bounded(p)
    BY <2>1, <2>2, <2>3
  <2> HIDE DEF exact, p
  <2> QED
    BY <1>2, <2>4 DEF exact
<1> QED
  BY <1>7, <1>8, <1>9, <1>10, <1>11 DEF SizedFormats

(* Whatever the word, a length is exact or refused: no product wraps.      *)
LEMMA DataLengthIsExact ==
  ASSUME maxInt \in Platforms, NEW format \in SizedFormats,
         NEW w \in Nat \ {0}, w <= maxInt, NEW h \in Nat \ {0}, h <= maxInt
  PROVE  /\ ExactLength(format, w, h) \in Nat \ {0}
         /\ DataLength(format, w, h) = IF ExactLength(format, w, h) <= maxInt THEN ExactLength(format, w, h) ELSE -1
         /\ LengthError(format, w, h) = IF ExactLength(format, w, h) <= maxInt THEN "none" ELSE "ErrSizeOverflow"
<1> DEFINE exact == ExactLength(format, w, h)
           made == CheckedDataLength(Factors(format, w, h))
<1>1. exact \in Nat \ {0} /\ made = Bounded(exact)
  BY Sized
<1>2. LengthError(format, w, h) = IF FitsInt(made) THEN "none" ELSE "ErrSizeOverflow"
  <2>1. w > 0 /\ h > 0 /\ ~(w <= 0) /\ ~(h <= 0)
    OBVIOUS
  <2> HIDE DEF made
  <2> QED
    BY <2>1 DEF LengthError, made
<1> HIDE DEF exact, made
<1>3. maxInt \in Nat /\ maxInt <= MaxUint64 /\ MaxUint64 \in Nat
  BY WordFacts
<1>4. FitsInt(made) = (exact <= maxInt)
  BY <1>1, <1>3 DEF FitsInt, Bounded
<1>5. exact <= maxInt => made = exact
  BY <1>1, <1>3 DEF Bounded
<1>6. LengthError(format, w, h) = IF exact <= maxInt THEN "none" ELSE "ErrSizeOverflow"
  BY <1>2, <1>4
<1>7. DataLength(format, w, h) = IF exact <= maxInt THEN exact ELSE -1
  BY <1>5, <1>6 DEF DataLength, made
<1> QED
  BY <1>1, <1>6, <1>7 DEF exact

(* A length is an error or the exact length, and an error says which.      *)
LEMMA LengthFacts ==
  ASSUME maxInt \in Platforms, NEW format, NEW w \in Int, w <= maxInt, NEW h \in Int, h <= maxInt
  PROVE  /\ LengthError(format, w, h) \in {"none", "ErrSizeOverflow", "ErrInvalidFormat"}
         /\ LengthError(format, w, h) = "none" =>
              /\ w > 0 /\ h > 0 /\ format \in SizedFormats
              /\ DataLength(format, w, h) = ExactLength(format, w, h)
              /\ DataLength(format, w, h) \in 1..maxInt
         /\ LengthError(format, w, h) # "none" => DataLength(format, w, h) = -1
         /\ LengthError(format, w, h) = "ErrInvalidFormat" => format \notin SizedFormats
         /\ LengthError(format, w, h) = "ErrSizeOverflow" =>
              \/ w <= 0 \/ h <= 0
              \/ format \in SizedFormats /\ ExactLength(format, w, h) > maxInt
<1>1. LengthError(format, w, h) # "none" => DataLength(format, w, h) = -1
  BY DEF DataLength
<1>2. CASE w <= 0 \/ h <= 0
  <2>1. LengthError(format, w, h) = "ErrSizeOverflow"
    <3>1. ~(w > 0 /\ h > 0)
      BY <1>2
    <3> QED
      BY <1>2, <3>1 DEF LengthError
  <2> QED
    BY <1>1, <1>2, <2>1
<1>3. CASE w > 0 /\ h > 0 /\ format \notin SizedFormats
  <2>1. LengthError(format, w, h) = "ErrInvalidFormat"
    <3>1. ~(w <= 0 \/ h <= 0)
      BY <1>3
    <3> QED
      BY <1>3, <3>1 DEF LengthError
  <2> QED
    BY <1>1, <1>3, <2>1
<1>4. CASE w > 0 /\ h > 0 /\ format \in SizedFormats
  <2> DEFINE exact == ExactLength(format, w, h)
  <2>1. w \in Nat \ {0} /\ h \in Nat \ {0} /\ maxInt \in Nat
    BY <1>4, WordFacts
  <2>2. /\ exact \in Nat \ {0}
        /\ DataLength(format, w, h) = IF exact <= maxInt THEN exact ELSE -1
        /\ LengthError(format, w, h) = IF exact <= maxInt THEN "none" ELSE "ErrSizeOverflow"
    BY <1>4, <2>1, DataLengthIsExact
  <2> HIDE DEF exact
  <2>3. CASE exact <= maxInt
    <3>1. exact \in 1..maxInt
      BY <2>1, <2>2, <2>3
    <3>2. LengthError(format, w, h) = "none" /\ DataLength(format, w, h) = exact
      BY <2>2, <2>3
    <3> QED
      BY <1>4, <3>1, <3>2 DEF exact
  <2>4. CASE ~(exact <= maxInt)
    <3>1. exact > maxInt
      BY <2>1, <2>2, <2>4
    <3>2. LengthError(format, w, h) = "ErrSizeOverflow"
      BY <2>2, <2>4
    <3> QED
      BY <1>1, <1>4, <3>1, <3>2 DEF exact
  <2> QED
    BY <2>3, <2>4
<1>5. (w <= 0 \/ h <= 0) \/ (w > 0 /\ h > 0)
  OBVIOUS
<1> QED
  BY <1>2, <1>3, <1>4, <1>5

-----------------------------------------------------------------------------
(* The recursive function of Shifted, which is there and is one.           *)
Shifts(f, base, n) == f = [k \in 0..n |-> IF k = 0 THEN base ELSE f[k - 1] \div 2]

(* The recursive function that shifts exists.                              *)
LEMMA ShiftsExist ==
  ASSUME NEW base, NEW n \in Nat
  PROVE  \E f : Shifts(f, base, n)
<1> DEFINE T == {k \in Nat : \E f : Shifts(f, base, k)}
<1>1. 0 \in T
  <2> DEFINE f == [k \in 0..0 |-> base]
  <2>1. Shifts(f, base, 0)
    BY DEF Shifts
  <2> QED
    BY <2>1
<1>2. ASSUME NEW k \in Nat, k \in T PROVE k + 1 \in T
  <2>1. PICK f : Shifts(f, base, k)
    BY <1>2
  <2> DEFINE After(g, i) == IF i = 0 THEN base ELSE g[i - 1] \div 2
             g == [i \in 0..(k + 1) |-> After(f, i)]
             h == [i \in 0..(k + 1) |-> After(g, i)]
  <2>2. \A i \in 0..k : i \in 0..(k + 1) /\ f[i] = After(f, i)
    BY <2>1 DEF Shifts
  <2>3. \A i \in 0..k : g[i] = f[i]
    BY <2>2
  <2>4. \A i \in 0..(k + 1) : i # 0 => i - 1 \in 0..k
    OBVIOUS
  <2>5. g = h
    <3>1. \A i \in 0..(k + 1) : i # 0 => g[i - 1] = f[i - 1]
      <4> HIDE DEF g
      <4> QED
        BY <2>3, <2>4
    <3>2. \A i \in 0..(k + 1) : After(g, i) = After(f, i)
      <4> HIDE DEF g
      <4> QED
        BY <3>1
    <3> HIDE DEF After
    <3> QED
      BY <3>2
  <2>6. Shifts(g, base, k + 1)
    BY <2>5 DEF Shifts
  <2> QED
    BY <2>6
<1>3. n \in T
  <2> HIDE DEF T
  <2> QED
    BY <1>1, <1>2, NatSetInduction
<1> QED
  BY <1>3

(* Its values do not depend on how far it is computed.                     *)
LEMMA ShiftsAreOne ==
  ASSUME NEW base, NEW n \in Nat, NEW m \in Nat, NEW f, Shifts(f, base, n), NEW g, Shifts(g, base, m),
         NEW k \in Nat, k <= n, k <= m
  PROVE  f[k] = g[k]
<1> DEFINE T == {i \in Nat : i <= n /\ i <= m => f[i] = g[i]}
<1>1. 0 \in T
  <2>1. 0 \in 0..n /\ 0 \in 0..m
    OBVIOUS
  <2> QED
    BY <2>1 DEF Shifts
<1>2. ASSUME NEW i \in Nat, i \in T PROVE i + 1 \in T
  <2> SUFFICES ASSUME i + 1 <= n, i + 1 <= m PROVE f[i + 1] = g[i + 1]
    OBVIOUS
  <2>1. i + 1 \in 0..n /\ i + 1 \in 0..m /\ i + 1 # 0 /\ (i + 1) - 1 = i /\ i <= n /\ i <= m
    OBVIOUS
  <2>2. f[i + 1] = f[i] \div 2 /\ g[i + 1] = g[i] \div 2
    BY <2>1 DEF Shifts
  <2> QED
    BY <1>2, <2>1, <2>2
<1>3. k \in T
  <2> HIDE DEF T
  <2> QED
    BY <1>1, <1>2, NatSetInduction
<1> QED
  BY <1>3

(* A shift by one more halves.                                             *)
LEMMA ShiftedSteps ==
  ASSUME NEW base
  PROVE  Shifted(base, 0) = base /\ \A l \in Nat : Shifted(base, l + 1) = Shifted(base, l) \div 2
<1>1. ASSUME NEW l \in Nat PROVE \E f : Shifts(f, base, l) /\ Shifted(base, l) = f[l]
  <2> DEFINE f == CHOOSE f : f = [k \in 0..l |-> IF k = 0 THEN base ELSE f[k - 1] \div 2]
  <2>1. \E g : Shifts(g, base, l)
    BY ShiftsExist
  <2>2. Shifts(f, base, l)
    BY <2>1 DEF Shifts
  <2>3. Shifted(base, l) = f[l]
    BY DEF Shifted
  <2> HIDE DEF f
  <2> QED
    BY <2>2, <2>3
<1>2. Shifted(base, 0) = base
  <2>1. 0 \in Nat /\ 0 \in 0..0
    OBVIOUS
  <2>2. PICK f : Shifts(f, base, 0) /\ Shifted(base, 0) = f[0]
    BY <1>1, <2>1
  <2> QED
    BY <2>1, <2>2 DEF Shifts
<1>3. ASSUME NEW l \in Nat PROVE Shifted(base, l + 1) = Shifted(base, l) \div 2
  <2>1. l + 1 \in Nat /\ l + 1 \in 0..(l + 1) /\ l + 1 # 0 /\ (l + 1) - 1 = l /\ l <= l /\ l <= l + 1
    OBVIOUS
  <2>2. PICK f : Shifts(f, base, l + 1) /\ Shifted(base, l + 1) = f[l + 1]
    BY <1>1, <2>1
  <2>3. PICK g : Shifts(g, base, l) /\ Shifted(base, l) = g[l]
    BY <1>1
  <2>4. f[l + 1] = f[l] \div 2
    BY <2>1, <2>2 DEF Shifts
  <2>5. f[l] = g[l]
    BY <2>1, <2>2, <2>3, ShiftsAreOne
  <2> QED
    BY <2>2, <2>3, <2>4, <2>5
<1> QED
  BY <1>2, <1>3

(* A shifted side fits where the side does.                                *)
LEMMA ShiftedFits ==
  ASSUME NEW top \in Nat, NEW base \in Int, base <= top, NEW l \in Nat
  PROVE  Shifted(base, l) \in Int /\ Shifted(base, l) <= top
<1> DEFINE T == {k \in Nat : Shifted(base, k) \in Int /\ Shifted(base, k) <= top}
<1>1. 0 \in T
  BY ShiftedSteps
<1>2. ASSUME NEW k \in Nat, k \in T PROVE k + 1 \in T
  <2>1. Shifted(base, k + 1) = Shifted(base, k) \div 2
    BY ShiftedSteps
  <2>2. \A x \in Int : x <= top => x \div 2 \in Int /\ x \div 2 <= top
    OBVIOUS
  <2> QED
    BY <1>2, <2>1, <2>2
<1>3. l \in T
  <2> HIDE DEF T
  <2> QED
    BY <1>1, <1>2, NatSetInduction
<1> QED
  BY <1>3

(* A side of a level is a size.                                            *)
LEMMA MipDimensionFits ==
  ASSUME maxInt \in Platforms, NEW base \in Int, base <= maxInt, NEW l \in Nat
  PROVE  MipDimension(base, l) \in Nat \ {0} /\ MipDimension(base, l) <= maxInt
<1> DEFINE x == Shifted(base, l)
<1>1. maxInt \in Nat /\ 1 <= maxInt
  BY WordFacts
<1>2. x \in Int /\ x <= maxInt
  BY <1>1, ShiftedFits
<1> HIDE DEF x
<1>3. (IF x < 1 THEN 1 ELSE x) \in Nat \ {0} /\ (IF x < 1 THEN 1 ELSE x) <= maxInt
  BY <1>1, <1>2
<1> QED
  BY <1>3 DEF MipDimension, x

-----------------------------------------------------------------------------

(* The recursive function of MipMapCount, on sides up to n.                *)
Counts(f, n) ==
  f = [s \in (0..n) \X (0..n) |->
         IF s[1] > 1 \/ s[2] > 1 THEN 1 + f[<<Halved(s[1]), Halved(s[2])>>] ELSE 1]

(* The recursive function that counts levels exists: by induction over the *)
(* longer side.                                                            *)
LEMMA CountsExist ==
  ASSUME NEW n \in Nat
  PROVE  \E f : Counts(f, n)
<1> DEFINE T == {k \in Nat : \E f : Counts(f, k)}
<1>1. 0 \in T
  <2> DEFINE f == [s \in (0..0) \X (0..0) |-> 1]
  <2>1. \A s \in (0..0) \X (0..0) : ~(s[1] > 1 \/ s[2] > 1)
    OBVIOUS
  <2>2. Counts(f, 0)
    BY <2>1 DEF Counts
  <2> QED
    BY <2>2
<1>2. ASSUME NEW k \in Nat, k \in T PROVE k + 1 \in T
  <2>1. PICK f : Counts(f, k)
    BY <1>2
  <2> DEFINE S == (0..(k + 1)) \X (0..(k + 1))
             Small == (0..k) \X (0..k)
             Half(s) == <<Halved(s[1]), Halved(s[2])>>
             After(g, s) == IF s[1] > 1 \/ s[2] > 1 THEN 1 + g[Half(s)] ELSE 1
             g == [s \in S |-> After(f, s)]
             r == [s \in S |-> After(g, s)]
  <2>2. \A s \in Small : s \in S /\ f[s] = After(f, s)
    <3>1. \A s \in Small : s \in S
      OBVIOUS
    <3> QED
      BY <2>1, <3>1 DEF Counts
  <2>3. \A s \in Small : g[s] = f[s]
    BY <2>2
  <2>4. \A s \in S : s[1] > 1 \/ s[2] > 1 => Half(s) \in Small
    <3>1. \A x \in 0..(k + 1), y \in 0..(k + 1) : x > 1 \/ y > 1 => Halved(x) \in 0..k /\ Halved(y) \in 0..k
      BY DEF Halved
    <3> QED
      BY <3>1
  <2>5. g = r
    <3>1. \A s \in S : s[1] > 1 \/ s[2] > 1 => g[Half(s)] = f[Half(s)]
      <4> HIDE DEF g, S, Small, Half
      <4> QED
        BY <2>3, <2>4
    <3>2. \A s \in S : After(g, s) = After(f, s)
      <4> HIDE DEF g, S, Small, Half
      <4> QED
        BY <3>1
    <3> HIDE DEF After, S, Half
    <3> QED
      BY <3>2
  <2>6. Counts(g, k + 1)
    BY <2>5 DEF Counts
  <2> QED
    BY <2>6
<1>3. n \in T
  <2> HIDE DEF T
  <2> QED
    BY <1>1, <1>2, NatSetInduction
<1> QED
  BY <1>3

(* What is shifted stays in order, and never grows.                        *)
LEMMA ShiftedInOrder ==
  ASSUME NEW a \in Nat, NEW b \in Nat, a <= b, NEW l \in Nat
  PROVE  Shifted(a, l) \in Nat /\ Shifted(b, l) \in Nat /\ Shifted(a, l) <= Shifted(b, l)
<1> DEFINE T == {k \in Nat : Shifted(a, k) \in Nat /\ Shifted(b, k) \in Nat /\ Shifted(a, k) <= Shifted(b, k)}
<1>1. 0 \in T
  BY ShiftedSteps
<1>2. ASSUME NEW k \in Nat, k \in T PROVE k + 1 \in T
  <2>1. Shifted(a, k + 1) = Shifted(a, k) \div 2 /\ Shifted(b, k + 1) = Shifted(b, k) \div 2
    BY ShiftedSteps
  <2>2. \A x \in Nat, y \in Nat : x <= y => x \div 2 \in Nat /\ y \div 2 \in Nat /\ x \div 2 <= y \div 2
    OBVIOUS
  <2> QED
    BY <1>2, <2>1, <2>2
<1>3. l \in T
  <2> HIDE DEF T
  <2> QED
    BY <1>1, <1>2, NatSetInduction
<1> QED
  BY <1>3

(* A shift more makes no side larger.                                      *)
LEMMA ShiftedNeverGrows ==
  ASSUME NEW a \in Nat, NEW k \in Nat, NEW n \in Nat
  PROVE  Shifted(a, k + n) \in Nat /\ Shifted(a, k) \in Nat /\ Shifted(a, k + n) <= Shifted(a, k)
<1> DEFINE T == {i \in Nat : Shifted(a, k + i) \in Nat /\ Shifted(a, k + i) <= Shifted(a, k)}
<1>1. Shifted(a, k) \in Nat
  BY ShiftedInOrder
<1>2. 0 \in T
  BY <1>1
<1>3. ASSUME NEW i \in Nat, i \in T PROVE i + 1 \in T
  <2>1. k + i \in Nat /\ k + (i + 1) = (k + i) + 1
    OBVIOUS
  <2>2. Shifted(a, k + (i + 1)) = Shifted(a, k + i) \div 2
    BY <2>1, ShiftedSteps
  <2>3. \A x \in Nat, y \in Nat : x <= y => x \div 2 \in Nat /\ x \div 2 <= y
    OBVIOUS
  <2> QED
    BY <1>1, <1>3, <2>2, <2>3
<1>4. n \in T
  <2> HIDE DEF T
  <2> QED
    BY <1>2, <1>3, NatSetInduction
<1> QED
  BY <1>1, <1>4

(* A level of half a side is the next level of the side.                   *)
LEMMA HalvedShifts ==
  ASSUME NEW a \in Nat, NEW l \in Nat
  PROVE  Shifted(a \div 2, l) = Shifted(a, l + 1)
<1> DEFINE T == {k \in Nat : Shifted(a \div 2, k) = Shifted(a, k + 1)}
<1>1. 0 \in T
  <2>1. Shifted(a, 0 + 1) = Shifted(a, 0) \div 2
    <3>1. 0 \in Nat
      OBVIOUS
    <3> QED
      BY <3>1, ShiftedSteps
  <2> QED
    BY <2>1, ShiftedSteps
<1>2. ASSUME NEW k \in Nat, k \in T PROVE k + 1 \in T
  <2>1. Shifted(a \div 2, k + 1) = Shifted(a \div 2, k) \div 2 /\ k + 1 \in Nat
    BY ShiftedSteps
  <2>2. Shifted(a, (k + 1) + 1) = Shifted(a, k + 1) \div 2
    BY <2>1, ShiftedSteps
  <2> QED
    BY <1>2, <2>1, <2>2
<1>3. l \in T
  <2> HIDE DEF T
  <2> QED
    BY <1>1, <1>2, NatSetInduction
<1> QED
  BY <1>3

(* A level of the halved side is the next level of the side.               *)
LEMMA HalvedLevel ==
  ASSUME NEW a \in Nat, NEW l \in Nat
  PROVE  MipDimension(Halved(a), l) = MipDimension(a, l + 1)
<1>1. CASE a > 1
  BY <1>1, HalvedShifts DEF Halved, MipDimension
<1>2. CASE ~(a > 1)
  <2>1. a <= 1 /\ l + 1 \in Nat /\ 1 \in Nat /\ a \in Int
    BY <1>2
  <2>2. Shifted(a, l) \in Int /\ Shifted(a, l) <= 1 /\ Shifted(a, l + 1) \in Int /\ Shifted(a, l + 1) <= 1
    BY <2>1, ShiftedFits
  <2> QED
    BY <1>2, <2>2 DEF Halved, MipDimension
<1> QED
  BY <1>1, <1>2

-----------------------------------------------------------------------------
(* A chain of n levels: the last one, and no level before, is one texel.   *)
OneTexel(w, h, l) == MipDimension(w, l) = 1 /\ MipDimension(h, l) = 1
IsFullChain(w, h, n) ==
  n \in Nat \ {0} /\ OneTexel(w, h, n - 1) /\ \A l \in 0..(n - 2) : ~OneTexel(w, h, l)

(* A side of at most 1 is at its end.                                      *)
LEMMA FirstLevel ==
  ASSUME NEW a \in Nat
  PROVE  (MipDimension(a, 0) = 1) = ~(a > 1)
  BY ShiftedSteps DEF MipDimension

(* A chain of that many levels ends in one texel, and no shorter one does. *)
LEMMA CountsAreChains ==
  ASSUME NEW n \in Nat, NEW f, Counts(f, n), NEW w \in 0..n, NEW h \in 0..n
  PROVE  IsFullChain(w, h, f[<<w, h>>])
<1> DEFINE Good(b) == \A x \in 0..n, y \in 0..n : x <= b /\ y <= b => IsFullChain(x, y, f[<<x, y>>])
           T == {b \in Nat : Good(b)}
<1>1. \A x \in 0..n, y \in 0..n :
        f[<<x, y>>] = IF x > 1 \/ y > 1 THEN 1 + f[<<Halved(x), Halved(y)>>] ELSE 1
  <2> SUFFICES ASSUME NEW x \in 0..n, NEW y \in 0..n
               PROVE  f[<<x, y>>] = IF x > 1 \/ y > 1 THEN 1 + f[<<Halved(x), Halved(y)>>] ELSE 1
    OBVIOUS
  <2> DEFINE s == <<x, y>>
  <2>1. s \in (0..n) \X (0..n) /\ s[1] = x /\ s[2] = y
    OBVIOUS
  <2> HIDE DEF s
  <2>2. f[s] = IF s[1] > 1 \/ s[2] > 1 THEN 1 + f[<<Halved(s[1]), Halved(s[2])>>] ELSE 1
    BY <2>1 DEF Counts
  <2> QED
    BY <2>1, <2>2 DEF s
<1>2. \A x \in 0..n, y \in 0..n : ~(x > 1) /\ ~(y > 1) => IsFullChain(x, y, f[<<x, y>>])
  <2> SUFFICES ASSUME NEW x \in 0..n, NEW y \in 0..n, ~(x > 1), ~(y > 1)
               PROVE  IsFullChain(x, y, f[<<x, y>>])
    OBVIOUS
  <2>1. f[<<x, y>>] = 1 /\ x \in Nat /\ y \in Nat
    <3>1. f[<<x, y>>] = IF x > 1 \/ y > 1 THEN 1 + f[<<Halved(x), Halved(y)>>] ELSE 1
      BY <1>1
    <3>2. x \in Nat /\ y \in Nat
      OBVIOUS
    <3> QED
      BY <3>1, <3>2, Zenon
  <2>2. OneTexel(x, y, 0)
    BY <2>1, FirstLevel DEF OneTexel
  <2>3. 1 \in Nat \ {0} /\ 1 - 1 = 0 /\ 0..(1 - 2) = {}
    OBVIOUS
  <2> QED
    BY <2>1, <2>2, <2>3 DEF IsFullChain
<1>3. 0 \in T
  <2>1. \A x \in 0..n, y \in 0..n : x <= 0 /\ y <= 0 => ~(x > 1) /\ ~(y > 1)
    OBVIOUS
  <2> QED
    BY <1>2, <2>1
<1>4. ASSUME NEW b \in Nat, b \in T PROVE b + 1 \in T
  <2> SUFFICES ASSUME NEW x \in 0..n, NEW y \in 0..n, x <= b + 1, y <= b + 1, x > 1 \/ y > 1
               PROVE  IsFullChain(x, y, f[<<x, y>>])
    BY <1>2
  <2> DEFINE m == f[<<Halved(x), Halved(y)>>]
  <2>1. Halved(x) \in 0..n /\ Halved(y) \in 0..n /\ Halved(x) <= b /\ Halved(y) <= b /\ x \in Nat /\ y \in Nat
    BY DEF Halved
  <2>2. IsFullChain(Halved(x), Halved(y), m)
    BY <1>4, <2>1
  <2>3. f[<<x, y>>] = 1 + m
    BY <1>1
  <2> HIDE DEF m
  <2>4. m \in Nat \ {0}
    BY <2>2 DEF IsFullChain
  <2>5. \A l \in Nat : OneTexel(Halved(x), Halved(y), l) = OneTexel(x, y, l + 1)
    BY <2>1, HalvedLevel DEF OneTexel
  <2>6. OneTexel(x, y, m)
    <3>1. m - 1 \in Nat /\ (m - 1) + 1 = m
      BY <2>4
    <3>2. OneTexel(Halved(x), Halved(y), m - 1)
      BY <2>2 DEF IsFullChain
    <3> QED
      BY <2>5, <3>1, <3>2
  <2>7. ASSUME NEW l \in 0..(m - 1) PROVE ~OneTexel(x, y, l)
    <3>1. CASE l = 0
      BY <2>1, <3>1, FirstLevel DEF OneTexel
    <3>2. CASE l # 0
      <4>1. l - 1 \in Nat /\ l - 1 \in 0..(m - 2) /\ (l - 1) + 1 = l
        BY <2>4, <3>2
      <4>2. ~OneTexel(Halved(x), Halved(y), l - 1)
        BY <2>2, <4>1 DEF IsFullChain
      <4> QED
        BY <2>5, <4>1, <4>2
    <3> QED
      BY <3>1, <3>2
  <2>8. 1 + m \in Nat \ {0} /\ (1 + m) - 1 = m /\ (1 + m) - 2 = m - 1
    BY <2>4
  <2> QED
    BY <2>3, <2>6, <2>7, <2>8 DEF IsFullChain
<1>5. n \in T
  <2> HIDE DEF T
  <2> QED
    BY <1>3, <1>4, NatSetInduction
<1>6. w <= n /\ h <= n
  OBVIOUS
<1> QED
  BY <1>5, <1>6

(* calculateMipMapCount counts a full chain, which a reader admits.        *)
LEMMA MipMapCountIsFull ==
  ASSUME maxInt \in Platforms, NEW w \in 0..MaxUint32, NEW h \in 0..MaxUint32
  PROVE  IsFullChain(w, h, MipMapCount(w, h)) /\ MipMapCount(w, h) <= DefaultMips
<1> DEFINE f == CHOOSE f : f = [s \in (0..MaxUint32) \X (0..MaxUint32) |->
                  IF s[1] > 1 \/ s[2] > 1 THEN 1 + f[<<Halved(s[1]), Halved(s[2])>>] ELSE 1]
           n == MipMapCount(w, h)
<1>1. MaxUint32 \in Nat /\ w \in Nat /\ h \in Nat /\ w <= MaxUint32 /\ h <= MaxUint32
  BY WordFacts
<1>2. \E g : Counts(g, MaxUint32)
  BY <1>1, CountsExist
<1>3. Counts(f, MaxUint32)
  BY <1>2 DEF Counts
<1>4. n = f[<<w, h>>]
  BY DEF MipMapCount
<1> HIDE DEF f
<1>5. IsFullChain(w, h, n)
  BY <1>1, <1>3, <1>4, CountsAreChains
<1> HIDE DEF n
<1>6. n \in Nat \ {0} /\ DefaultMips \in Nat \ {0}
  BY <1>5, LimitsAssumption DEF IsFullChain
<1>7. ASSUME ~(n <= DefaultMips) PROVE FALSE
  <2> DEFINE l == n - 2
  <2>1. l \in Nat /\ l \in 0..(n - 2) /\ l + 1 = n - 1 /\ DefaultMips <= l + 1
    BY <1>6, <1>7
  <2> HIDE DEF l
  <2>2. ~OneTexel(w, h, l)
    BY <1>5, <2>1 DEF IsFullChain
  <2>3. PICK a \in Nat : a <= MaxUint32 /\ MipDimension(a, l) # 1
    BY <1>1, <2>2 DEF OneTexel
  <2>4. Shifted(a, l) \in Nat /\ Shifted(a, l) >= 2
    <3>1. Shifted(a, l) \in Nat
      BY <1>1, <2>1, <2>3, ShiftedInOrder
    <3> QED
      BY <2>3, <3>1 DEF MipDimension
  <2>5. Shifted(a, l + 1) \in Nat /\ Shifted(a, l + 1) >= 1
    <3>1. Shifted(a, l + 1) = Shifted(a, l) \div 2
      BY <2>1, ShiftedSteps
    <3>2. \A x \in Nat : x >= 2 => x \div 2 \in Nat /\ x \div 2 >= 1
      OBVIOUS
    <3> QED
      BY <2>4, <3>1, <3>2
  <2>6. Shifted(MaxUint32, l + 1) \in Nat /\ Shifted(a, l + 1) <= Shifted(MaxUint32, l + 1)
    <3>1. l + 1 \in Nat
      BY <2>1
    <3> QED
      BY <1>1, <2>3, <3>1, ShiftedInOrder
  <2>7. Shifted(MaxUint32, l + 1) <= Shifted(MaxUint32, DefaultMips)
    <3> DEFINE k == (l + 1) - DefaultMips
    <3>1. k \in Nat /\ DefaultMips + k = l + 1 /\ DefaultMips \in Nat
      BY <1>6, <2>1
    <3> HIDE DEF k
    <3>2. Shifted(MaxUint32, DefaultMips + k) <= Shifted(MaxUint32, DefaultMips)
      BY <1>1, <3>1, ShiftedNeverGrows
    <3> QED
      BY <3>1, <3>2
  <2>8. Shifted(MaxUint32, DefaultMips) = 0
    BY LimitsAssumption
  <2> QED
    BY <2>5, <2>6, <2>7, <2>8
<1> QED
  BY <1>5, <1>7 DEF n

-----------------------------------------------------------------------------
(* What can be written has a size, and what is detected has one or is      *)
(* unknown.                                                                *)
LEMMA WritableIsSized == Writable \subseteq SizedFormats
  BY DEF Writable, FourCCOf, MasksOf, SizedFormats, BlockFormats8, BlockFormats16, Texels4, Texels2, Texels1

(* The formats that DXGI numbers and FourCCs name.                         *)
LEMMA TablesName ==
  /\ DOMAIN FourCCs \subseteq SizedFormats /\ DOMAIN Dxgi \subseteq SizedFormats
  /\ \A m \in Masked : m[1] \in SizedFormats
<1>1. DOMAIN FourCCs \subseteq SizedFormats
  BY DEF FourCCs, SizedFormats, BlockFormats8, BlockFormats16, Texels4, Texels2, Texels1
<1>2. DOMAIN Dxgi \subseteq SizedFormats
  BY DEF Dxgi, SizedFormats, BlockFormats8, BlockFormats16, Texels4, Texels2, Texels1
<1>3. \A m \in Masked : m[1] \in SizedFormats
  BY DEF Masked, SizedFormats, BlockFormats8, BlockFormats16, Texels4, Texels2, Texels1
<1> QED
  BY <1>1, <1>2, <1>3

(* detectFormat answers with one of these, or knows none.                  *)
LEMMA DetectedFormats ==
  ASSUME NEW pf, NEW dx10
  PROVE  DetectFormat(pf, dx10) \in AnyFormat
<1>1. \A name : Named(FourCCs, name) \in AnyFormat /\ Named(Dxgi, name) \in AnyFormat
  BY TablesName DEF Named, AnyFormat
<1> DEFINE matches == {m \in Masked : m[2] \subseteq pf.flags /\ m[3] = pf.bits /\ m[4] = pf.masks}
<1>2. (IF matches = {} THEN Unknown ELSE (CHOOSE m \in matches : TRUE)[1]) \in AnyFormat
  <2>1. \A m \in matches : m[1] \in SizedFormats
    BY TablesName
  <2> HIDE DEF matches
  <2> QED
    BY <2>1 DEF AnyFormat
<1>3. CASE dx10 # {}
  <2>1. DetectFormat(pf, dx10) = Named(Dxgi, CHOOSE n \in dx10 : TRUE)
    BY <1>3 DEF DetectFormat
  <2> QED
    BY <1>1, <2>1
<1>4. CASE dx10 = {} /\ "FourCC" \in pf.flags
  <2>1. DetectFormat(pf, dx10) = Named(FourCCs, pf.fourCC)
    BY <1>4 DEF DetectFormat
  <2> QED
    BY <1>1, <2>1
<1>5. CASE dx10 = {} /\ "FourCC" \notin pf.flags
  <2>1. DetectFormat(pf, dx10) = IF matches = {} THEN Unknown ELSE (CHOOSE m \in matches : TRUE)[1]
    BY <1>5 DEF DetectFormat
  <2> QED
    BY <1>2, <2>1
<1> QED
  BY <1>3, <1>4, <1>5

(* A header names the format it was made for.                              *)
LEMMA WrittenIsDetected ==
  ASSUME NEW format \in Writable, NEW pf,
         pf.flags = MakePixelFormat(format).flags, pf.fourCC = MakePixelFormat(format).fourCC,
         pf.bits = MakePixelFormat(format).bits, pf.masks = MakePixelFormat(format).masks
  PROVE  DetectFormat(pf, {}) = format
<1>1. CASE format \in DOMAIN FourCCOf
  <2>1. pf.flags = {"FourCC"} /\ pf.fourCC = FourCCOf[format]
    BY <1>1 DEF MakePixelFormat, PixelFormat
  <2>2. DetectFormat(pf, {}) = Named(FourCCs, FourCCOf[format])
    BY <2>1 DEF DetectFormat
  <2>3. format \in {"DXT1", "DXT3", "DXT5", "BC4", "BC5"}
    BY <1>1 DEF FourCCOf
  <2>4. format \in DOMAIN FourCCs /\ FourCCOf[format] \in FourCCs[format]
    BY <2>3 DEF FourCCOf, FourCCs
  <2>5. \A f \in DOMAIN FourCCs : FourCCOf[format] \in FourCCs[f] => f = format
    BY <2>3 DEF FourCCOf, FourCCs
  <2>6. Named(FourCCs, FourCCOf[format]) = format
    BY <2>4, <2>5 DEF Named
  <2> QED
    BY <2>2, <2>6
<1>2. CASE format \notin DOMAIN FourCCOf
  <2>1. pf.flags = {"RGB", "AlphaPixels"} /\ pf.bits = 32 /\ pf.masks = MasksOf[format]
    BY <1>2 DEF MakePixelFormat, PixelFormat
  <2>2. format \in {"RGBA8", "BGRA8"}
    BY <1>2 DEF Writable, MasksOf
  <2> DEFINE matches == {m \in Masked : m[2] \subseteq pf.flags /\ m[3] = pf.bits /\ m[4] = pf.masks}
             mine == <<format, {"RGB", "AlphaPixels"}, 32, MasksOf[format]>>
  <2>3. mine \in matches
    <3>1. mine \in Masked
      BY <2>2 DEF Masked, MasksOf
    <3> QED
      BY <2>1, <3>1
  <2>4. \A m \in matches : m[1] = format
    <3> SUFFICES ASSUME NEW m \in Masked, m[3] = 32, m[4] = MasksOf[format]
                 PROVE  m[1] = format
      BY <2>1
    <3>1. m = <<"RGBA8", {"RGB", "AlphaPixels"}, 32, RGBAMasks>> \/ m = <<"BGRA8", {"RGB", "AlphaPixels"}, 32, BGRAMasks>>
      BY DEF Masked
    <3>2. RGBAMasks # BGRAMasks
      <4>1. RGBAMasks[1] = 1 /\ BGRAMasks[1] = 3
        BY DEF RGBAMasks, BGRAMasks
      <4> QED
        BY <4>1
    <3>3. MasksOf["RGBA8"] = RGBAMasks /\ MasksOf["BGRA8"] = BGRAMasks
      BY DEF MasksOf
    <3>4. CASE format = "RGBA8"
      BY <3>1, <3>2, <3>3, <3>4
    <3>5. CASE format = "BGRA8"
      BY <3>1, <3>2, <3>3, <3>5
    <3> QED
      BY <2>2, <3>4, <3>5
  <2>5. DetectFormat(pf, {}) = IF matches = {} THEN Unknown ELSE (CHOOSE m \in matches : TRUE)[1]
    BY <2>1 DEF DetectFormat
  <2> HIDE DEF matches, mine
  <2> QED
    BY <2>3, <2>4, <2>5
<1> QED
  BY <1>1, <1>2

(* The fields of a made header.                                            *)
LEMMA MadeHeader ==
  ASSUME maxInt \in Platforms, call.format \in Writable, IsUint32(call.width), IsUint32(call.height),
         IsUint32(Len(levels))
  PROVE  MakeHeader \in HeaderType
<1> DEFINE pf == MakePixelFormat(call.format)
           h == MakeHeader
<1>1. pf.flags \in SUBSET Flags /\ pf.fourCC \in FourCCNames /\ pf.bits \in Nat /\ pf.masks \in Seq(0..4)
  <2>1. CASE call.format \in DOMAIN FourCCOf
    <3>1. pf.flags = {"FourCC"} /\ pf.fourCC = FourCCOf[call.format] /\ pf.bits = 0 /\ pf.masks = NoMasks
      BY <2>1 DEF MakePixelFormat, PixelFormat
    <3>2. call.format \in {"DXT1", "DXT3", "DXT5", "BC4", "BC5"}
      BY <2>1 DEF FourCCOf
    <3>3. FourCCOf[call.format] \in FourCCNames
      <4>1. call.format \in DOMAIN FourCCs /\ FourCCOf[call.format] \in FourCCs[call.format]
        BY <3>2 DEF FourCCOf, FourCCs
      <4> QED
        BY <4>1 DEF FourCCNames
    <3>4. NoMasks \in Seq(0..4)
      BY DEF NoMasks
    <3>5. {"FourCC"} \in SUBSET Flags /\ 0 \in Nat
      BY DEF Flags
    <3> HIDE DEF pf
    <3> QED
      BY <3>1, <3>3, <3>4, <3>5
  <2>2. CASE call.format \notin DOMAIN FourCCOf
    <3>1. pf.flags = {"RGB", "AlphaPixels"} /\ pf.fourCC = "" /\ pf.bits = 32 /\ pf.masks = MasksOf[call.format]
      BY <2>2 DEF MakePixelFormat, PixelFormat
    <3>2. call.format \in {"RGBA8", "BGRA8"}
      BY <2>2 DEF Writable, MasksOf
    <3>3. MasksOf[call.format] \in Seq(0..4)
      <4>1. RGBAMasks \in Seq(0..4) /\ BGRAMasks \in Seq(0..4)
        BY DEF RGBAMasks, BGRAMasks
      <4>2. MasksOf[call.format] \in {RGBAMasks, BGRAMasks}
        BY <3>2 DEF MasksOf
      <4> QED
        BY <4>1, <4>2
    <3>4. "" \in FourCCNames
      <4> DEFINE named == UNION {FourCCs[f] : f \in DOMAIN FourCCs}
      <4>1. FourCCNames = named \cup {"", "DX10", "other"}
        BY DEF FourCCNames
      <4> HIDE DEF named
      <4> QED
        BY <4>1
    <3>5. {"RGB", "AlphaPixels"} \in SUBSET Flags /\ 32 \in Nat
      BY DEF Flags
    <3> HIDE DEF pf
    <3> QED
      BY <3>1, <3>3, <3>4, <3>5
  <2> QED
    BY <2>1, <2>2
<1>2. call.width \in 0..MaxUint32 /\ call.height \in 0..MaxUint32 /\ Len(levels) \in 0..MaxUint32
  BY DEF IsUint32
<1>3. (Len(levels) > 1) \in BOOLEAN /\ {} \in SUBSET Nat
  OBVIOUS
<1> HIDE DEF pf
<1> QED
  BY <1>1, <1>2, <1>3 DEF MakeHeader, HeaderType, pf

-----------------------------------------------------------------------------
(* The sides that a reader works with.                                     *)
LEMMA ToIntFits ==
  ASSUME maxInt \in Platforms, NEW x \in 0..MaxUint32
  PROVE  ToInt(x) \in Int /\ ToInt(x) <= maxInt /\ (x <= maxInt => ToInt(x) = x)
<1>1. maxInt \in Nat /\ MaxUint32 \in Nat /\ MaxUint32 <= 2 * maxInt + 1
  BY WordFacts
<1>2. x \in Nat /\ x <= 2 * maxInt + 1
  BY <1>1
<1>3. x - 2 * (maxInt + 1) \in Int /\ x - 2 * (maxInt + 1) <= maxInt
  BY <1>1, <1>2
<1> QED
  BY <1>1, <1>2, <1>3 DEF ToInt

(* The sides a reader works with are positive, and fit an int.             *)
LEMMA SidesFit ==
  ASSUME maxInt \in Platforms, header \in HeaderType
  PROVE  /\ ToInt(header.width) \in Int /\ ToInt(header.height) \in Int
         /\ Width \in Nat \ {0} /\ Width <= maxInt /\ Height \in Nat \ {0} /\ Height <= maxInt
<1>1. header.width \in 0..MaxUint32 /\ header.height \in 0..MaxUint32
  BY DEF HeaderType
<1>2. ToInt(header.width) \in Int /\ ToInt(header.width) <= maxInt
  BY <1>1, ToIntFits
<1>3. ToInt(header.height) \in Int /\ ToInt(header.height) <= maxInt
  BY <1>1, ToIntFits
<1>4. 0 \in Nat
  OBVIOUS
<1>5. Width \in Nat \ {0} /\ Width <= maxInt
  BY <1>2, <1>4, MipDimensionFits DEF Width
<1>6. Height \in Nat \ {0} /\ Height <= maxInt
  BY <1>3, <1>4, MipDimensionFits DEF Height
<1> QED
  BY <1>2, <1>3, <1>5, <1>6

(* A reader's error says what is wrong with the header.                    *)
Exceeds(f, limit) == f \in {"RGBA8", Format} \cap SizedFormats /\ ExactLength(f, Width, Height) > limit

(* What a reader has checked when it finds no error, and why it finds one. *)
LEMMA ReadErrorFacts ==
  ASSUME maxInt \in Platforms, header \in HeaderType
  PROVE  /\ ReadError \in ReadErrors
         /\ ReadError = "ErrSizeOverflow" => \E f : Exceeds(f, maxInt)
         /\ ReadError = "ErrReadLimitExceeded" => HeaderMips > DefaultMips \/ \E f : Exceeds(f, DefaultBytes)
         /\ ReadError = "ErrUnknownFormat" => Format = Unknown
         /\ ReadError # "none" /\ LengthError(Format, Width, Height) = "none" =>
              \/ HeaderMips > DefaultMips
              \/ ExactLength("RGBA8", Width, Height) > DefaultBytes
              \/ DataLength(Format, Width, Height) > DefaultBytes
<1> DEFINE image == LengthError("RGBA8", Width, Height)
           size == LengthError(Format, Width, Height)
           exact == ExactLength("RGBA8", Width, Height)
           mine == ExactLength(Format, Width, Height)
           pixels == DataLength("RGBA8", Width, Height)
           body == DataLength(Format, Width, Height)
<1>1. Width \in Nat \ {0} /\ Width <= maxInt /\ Height \in Nat \ {0} /\ Height <= maxInt
  BY SidesFit
<1>2. "RGBA8" \in SizedFormats
  BY DEF SizedFormats, Texels4
<1>3. Width \in Int /\ Height \in Int /\ ~(Width <= 0) /\ ~(Height <= 0)
  BY <1>1
<1>4. Format \in AnyFormat
  BY DetectedFormats DEF Format
<1>5. exact \in Nat \ {0} /\ (size = "none" => mine \in Nat \ {0})
  <2>1. exact \in Nat \ {0}
    BY <1>1, <1>2, DataLengthIsExact
  <2>2. size = "none" => Format \in SizedFormats
    BY <1>1, <1>3, LengthFacts
  <2>3. Format \in SizedFormats => mine \in Nat \ {0}
    BY <1>1, DataLengthIsExact
  <2> QED
    BY <2>1, <2>2, <2>3
<1>6. /\ image \in {"none", "ErrSizeOverflow"}
      /\ image = "none" => pixels = exact
      /\ image = "ErrSizeOverflow" => exact > maxInt
  <2>1. /\ image \in {"none", "ErrSizeOverflow", "ErrInvalidFormat"}
        /\ image = "none" => pixels = exact
        /\ image = "ErrInvalidFormat" => "RGBA8" \notin SizedFormats
        /\ image = "ErrSizeOverflow" => Width <= 0 \/ Height <= 0 \/ ("RGBA8" \in SizedFormats /\ exact > maxInt)
    BY <1>1, <1>3, LengthFacts
  <2> HIDE DEF image, pixels, exact
  <2> QED
    BY <1>2, <1>3, <2>1
<1>7. /\ size \in {"none", "ErrSizeOverflow", "ErrInvalidFormat"}
      /\ size = "none" => Format \in SizedFormats /\ body = mine
      /\ size = "ErrInvalidFormat" => Format \notin SizedFormats
      /\ size = "ErrSizeOverflow" => Format \in SizedFormats /\ mine > maxInt
  <2>1. /\ size \in {"none", "ErrSizeOverflow", "ErrInvalidFormat"}
        /\ size = "none" => Format \in SizedFormats /\ body = mine
        /\ size = "ErrInvalidFormat" => Format \notin SizedFormats
        /\ size = "ErrSizeOverflow" => Width <= 0 \/ Height <= 0 \/ (Format \in SizedFormats /\ mine > maxInt)
    BY <1>1, <1>3, LengthFacts
  <2> HIDE DEF size, body, mine
  <2> QED
    BY <1>3, <2>1
<1>8. DefaultBytes \in Nat /\ maxInt \in Nat /\ DefaultBytes <= maxInt
  BY LimitsAssumption, WordFacts
<1>9. ReadError = IF HeaderMips > DefaultMips THEN "ErrReadLimitExceeded"
                  ELSE IF image # "none" THEN image
                  ELSE IF pixels > DefaultBytes THEN "ErrReadLimitExceeded"
                  ELSE IF size = "ErrInvalidFormat" THEN "ErrUnknownFormat"
                  ELSE IF size # "none" THEN size
                  ELSE IF body > DefaultBytes THEN "ErrReadLimitExceeded"
                  ELSE "none"
  BY DEF ReadError
<1> DEFINE e == ReadError
           many == HeaderMips > DefaultMips
<1>10. /\ Exceeds("RGBA8", maxInt) = (exact > maxInt)
       /\ Exceeds("RGBA8", DefaultBytes) = (exact > DefaultBytes)
       /\ Format \in SizedFormats => Exceeds(Format, maxInt) = (mine > maxInt)
       /\ Format \in SizedFormats => Exceeds(Format, DefaultBytes) = (mine > DefaultBytes)
  BY <1>2 DEF Exceeds
<1>11. Format \notin SizedFormats => Format = Unknown
  BY <1>4 DEF AnyFormat
<1>12. exact > maxInt => exact > DefaultBytes
  <2> HIDE DEF exact
  <2> QED
    BY <1>5, <1>8
<1> HIDE DEF image, size, exact, mine, pixels, body, many, e
<1>13. e = IF many THEN "ErrReadLimitExceeded"
           ELSE IF image # "none" THEN image
           ELSE IF pixels > DefaultBytes THEN "ErrReadLimitExceeded"
           ELSE IF size = "ErrInvalidFormat" THEN "ErrUnknownFormat"
           ELSE IF size # "none" THEN size
           ELSE IF body > DefaultBytes THEN "ErrReadLimitExceeded"
           ELSE "none"
  BY <1>9 DEF e, many
<1>14. e \in ReadErrors
  BY <1>6, <1>7, <1>13 DEF ReadErrors
<1>15. e = "ErrSizeOverflow" => exact > maxInt \/ (Format \in SizedFormats /\ mine > maxInt)
  BY <1>6, <1>7, <1>13
<1>16. e = "ErrReadLimitExceeded" => many \/ exact > DefaultBytes \/ (Format \in SizedFormats /\ mine > DefaultBytes)
  BY <1>6, <1>7, <1>13
<1>17. e = "ErrUnknownFormat" => Format = Unknown
  BY <1>6, <1>7, <1>11, <1>13
<1>18. e # "none" /\ size = "none" => many \/ exact > DefaultBytes \/ body > DefaultBytes
  BY <1>6, <1>7, <1>12, <1>13
<1>19. /\ e = "ErrSizeOverflow" => \E f : Exceeds(f, maxInt)
       /\ e = "ErrReadLimitExceeded" => many \/ \E f : Exceeds(f, DefaultBytes)
  BY <1>10, <1>15, <1>16
<1> QED
  BY <1>14, <1>17, <1>18, <1>19 DEF e, many, exact, body, size

-----------------------------------------------------------------------------
(* The inductive invariant: at every point of a write and of a read, what  *)
(* was passed, what has been made of it and what was checked.              *)
GoodCall == call \in WriteType /\ IsPossible(call)

GoodLevels ==
  /\ levels \in Seq(Nat)
  /\ \A l \in DOMAIN levels : levels[l] <= maxInt
  /\ call.kind = "blocks" => levels = call.lengths
  /\ call.kind = "image" => /\ IsUint32(call.width) /\ IsUint32(call.height)
                            /\ \E nothing \in Nat : /\ nothing > 0 => IsEmpty
                                                    /\ levels = EncodedLevels(nothing)
                            /\ \A l \in 1..LevelCount : Expected(l) > 0

Written == GoodCall /\ GoodLevels /\ WriteError = "none" /\ header = MakeHeader

(* What ErrorsAreTrue says of the error a writer returns.                  *)
TrueError(e) ==
  /\ e = "ErrInvalidFormat" =>
       call.format \notin Writable \/ \E l \in DOMAIN levels : LevelLength(l) > maxInt
  /\ e = "ErrMipmapSizeMismatch" =>
       /\ call.kind = "image" => IsEmpty
       /\ \E l \in DOMAIN levels : LevelLength(l) \in 0..maxInt \ {levels[l]}
  /\ e = "ErrSizeOverflow" =>
       \/ ~({call.width, call.height, Len(levels)} \subseteq 0..MaxUint32)
       \/ ~call.compress /\ \E l \in DOMAIN levels : levels[l] > MaxInt32

Fresh == header = None /\ error = "none" /\ answer = None
Stored == header \in HeaderType /\ error = "none" /\ (call = None \/ Written)

Stages ==
  \/ pc = "idle" /\ Fresh /\ call = None /\ levels = << >>
  \/ pc = "levels" /\ Fresh /\ GoodCall /\ call.kind = "image" /\ levels = << >>
  \/ pc = "write" /\ Fresh /\ GoodCall /\ GoodLevels
  \/ pc = "file" /\ Stored /\ answer = None
  \/ pc = "answered" /\ Stored /\ answer = Answer
  \/ pc = "answered" /\ header = None /\ answer = None /\ GoodCall /\ error # "none" /\ TrueError(error)

IInv == maxInt \in Platforms /\ Stages

(* What a step that leaves the call alone leaves as it is.                 *)
LEMMA SameCall ==
  ASSUME maxInt' = maxInt, call' = call, levels' = levels
  PROVE  /\ GoodCall' = GoodCall /\ GoodLevels' = GoodLevels
         /\ WriteError' = WriteError /\ MakeHeader' = MakeHeader
<1>1. GoodCall' = GoodCall
  BY DEF GoodCall, IsPossible
<1>2. \A l : Expected(l)' = Expected(l)
  BY DEF Expected, DataLength, LengthError, FitsInt
<1>3. LevelCount' = LevelCount
  BY DEF LevelCount
<1>4. GoodLevels' = GoodLevels
  BY <1>2, <1>3 DEF GoodLevels, EncodedLevels, IsEmpty
<1>6. WriteError' = WriteError
  BY DEF WriteError, LevelError, Expected, DataLength, LengthError, FitsInt
<1>7. MakeHeader' = MakeHeader
  BY DEF MakeHeader
<1> QED
  BY <1>1, <1>4, <1>6, <1>7

(* Errors and header depend on the call alone.                             *)
LEMMA SameErrors ==
  ASSUME maxInt' = maxInt, call' = call, levels' = levels, NEW e
  PROVE  TrueError(e)' = TrueError(e)
  BY DEF TrueError, LevelLength, IsEmpty

(* What a reader answers depends on the header and the platform alone.     *)
LEMMA SameHeader ==
  ASSUME maxInt' = maxInt, header' = header
  PROVE  Answer' = Answer
  BY DEF Answer, Format, HeaderMips, ReadError, Width, Height, ToInt, DataLength, LengthError, FitsInt

-----------------------------------------------------------------------------
(* The levels of a call.                                                   *)
LEMMA CallFacts ==
  ASSUME maxInt \in Platforms, GoodCall
  PROVE  /\ call \in WriteType /\ call.format \in AnyFormat
         /\ call.width \in Int /\ call.width <= maxInt /\ call.height \in Int /\ call.height <= maxInt
         /\ call.kind \in {"image", "blocks"}
         /\ call.kind = "image" => call.maxMipMaps \in Int
<1>1. call \in WriteType /\ call.width <= maxInt /\ call.height <= maxInt
  BY DEF GoodCall, IsPossible
<1> QED
  BY <1>1 DEF WriteType

(* The lengths that a writer expects.                                      *)
LEMMA ExpectedFacts ==
  ASSUME maxInt \in Platforms, GoodCall, NEW l \in Nat \ {0}
  PROVE  /\ Expected(l) \in 1..maxInt \/ Expected(l) = -1
         /\ Expected(l) > 0 => LevelLength(l) = Expected(l)
         /\ ~(Expected(l) > 0) /\ call.format \in Writable => LevelLength(l) > maxInt
<1> DEFINE w == MipDimension(call.width, l - 1)
           h == MipDimension(call.height, l - 1)
           error1 == LengthError(call.format, w, h)
           exact == ExactLength(call.format, w, h)
<1>1. l - 1 \in Nat
  OBVIOUS
<1>2. w \in Nat \ {0} /\ w <= maxInt
  BY <1>1, CallFacts, MipDimensionFits
<1>3. h \in Nat \ {0} /\ h <= maxInt
  BY <1>1, CallFacts, MipDimensionFits
<1>4. Expected(l) = DataLength(call.format, w, h) /\ LevelLength(l) = exact
  BY DEF Expected, LevelLength
<1> HIDE DEF w, h
<1>5. w \in Int /\ h \in Int /\ ~(w <= 0) /\ ~(h <= 0)
  BY <1>2, <1>3
<1>6. /\ error1 \in {"none", "ErrSizeOverflow", "ErrInvalidFormat"}
      /\ error1 = "none" => DataLength(call.format, w, h) = exact /\ DataLength(call.format, w, h) \in 1..maxInt
      /\ error1 # "none" => DataLength(call.format, w, h) = -1
      /\ error1 = "ErrInvalidFormat" => call.format \notin SizedFormats
      /\ error1 = "ErrSizeOverflow" => w <= 0 \/ h <= 0 \/ (call.format \in SizedFormats /\ exact > maxInt)
  BY <1>2, <1>3, <1>5, LengthFacts
<1>7. call.format \in Writable => call.format \in SizedFormats
  BY WritableIsSized
<1> DEFINE x == Expected(l)
<1> HIDE DEF error1, exact, x
<1>8. /\ error1 = "none" => x = exact /\ x \in 1..maxInt
      /\ error1 # "none" => x = -1
  BY <1>4, <1>6 DEF x
<1>9. maxInt \in Nat
  BY WordFacts
<1>10. (x \in 1..maxInt => x > 0) /\ (x = -1 => ~(x > 0))
  BY <1>9
<1> QED
  BY <1>4, <1>5, <1>6, <1>7, <1>8, <1>10 DEF x

(* What was written passed every check.                                    *)
LEMMA WrittenFacts ==
  ASSUME maxInt \in Platforms, GoodCall, GoodLevels, WriteError = "none"
  PROVE  /\ Len(levels) \in Nat \ {0} /\ call.format \in Writable
         /\ IsUint32(call.width) /\ IsUint32(call.height) /\ IsUint32(Len(levels))
         /\ \A l \in DOMAIN levels : /\ Expected(l) > 0 /\ levels[l] = Expected(l)
                                     /\ IsInt32(levels[l])
<1> DEFINE bad == {l \in 1..Len(levels) : LevelError(l) # "none"}
<1>1. /\ levels # << >> /\ call.format \in Writable
      /\ IsUint32(call.width) /\ IsUint32(call.height) /\ IsUint32(Len(levels))
      /\ bad = {} \/ LevelError(CHOOSE l \in bad : \A k \in bad : l <= k) = "none"
  BY DEF WriteError
<1>2. bad = {}
  <2> SUFFICES ASSUME bad # {} PROVE FALSE
    OBVIOUS
  <2>1. \A l \in bad : l \in Nat /\ LevelError(l) # "none"
    OBVIOUS
  <2> HIDE DEF bad
  <2>2. bad \in SUBSET Nat
    BY <2>1
  <2>3. \E l \in bad : \A k \in bad : l <= k
    BY <2>2, LeastNat
  <2> QED
    BY <1>1, <2>1, <2>3
<1>3. levels \in Seq(Nat) /\ DOMAIN levels = 1..Len(levels) /\ Len(levels) \in Nat
  BY DEF GoodLevels
<1>4. Len(levels) # 0
  BY <1>1, <1>3
<1>5. ASSUME NEW l \in DOMAIN levels
      PROVE  Expected(l) > 0 /\ levels[l] = Expected(l) /\ IsInt32(levels[l])
  <2>1. l \in 1..Len(levels) /\ l \in Nat \ {0}
    BY <1>3
  <2>2. LevelError(l) = "none"
    BY <1>2, <2>1
  <2>3. ~(Expected(l) <= 0) /\ levels[l] = Expected(l) /\ IsInt32(levels[l])
    BY <2>2 DEF LevelError
  <2>4. levels[l] \in Nat
    BY <1>3, <2>1
  <2> QED
    BY <2>3, <2>4
<1> QED
  BY <1>1, <1>3, <1>4, <1>5

(* normalizeWriteOptions leaves a call a call.                             *)
LEMMA NormalizedFacts ==
  ASSUME NEW c \in WriteType, IsPossible(c)
  PROVE  /\ Normalized(c) \in WriteType /\ IsPossible(Normalized(c)) /\ Normalized(c).kind = c.kind
         /\ c.kind \in {"image", "blocks"} /\ (c.kind = "blocks" => Normalized(c) = c /\ c.lengths \in Seq(Nat))
<1> DEFINE Images == [kind : {"image"}, format : AnyFormat, width : Nat, height : Nat,
                      maxMipMaps : Int, compress : BOOLEAN]
           Blocks2 == [kind : {"blocks"}, format : AnyFormat, width : Int, height : Int,
                       lengths : Seq(Nat), compress : BOOLEAN]
<1>1. WriteType = Images \cup Blocks2
  BY DEF WriteType
<1>2. CASE c \in Images
  <2>1. "BGRA8" \in AnyFormat
    BY DEF AnyFormat, SizedFormats, Texels4
  <2>2. [c EXCEPT !.format = "BGRA8"] \in Images
    BY <1>2, <2>1
  <2>3. Normalized(c) \in Images
    BY <1>2, <2>2 DEF Normalized
  <2>4. /\ Normalized(c).kind = c.kind /\ c.kind = "image"
        /\ Normalized(c).width = c.width /\ Normalized(c).height = c.height
    BY <1>2 DEF Normalized
  <2>5. IsPossible(Normalized(c))
    BY <2>4 DEF IsPossible
  <2> HIDE DEF Images
  <2> QED
    BY <1>1, <2>3, <2>4, <2>5
<1>3. CASE c \in Blocks2
  <2>1. c.kind = "blocks" /\ c.lengths \in Seq(Nat)
    BY <1>3
  <2>2. Normalized(c) = c
    BY <2>1 DEF Normalized
  <2> QED
    BY <2>1, <2>2
<1> HIDE DEF Images, Blocks2
<1> QED
  BY <1>1, <1>2, <1>3

(* The invariant holds at first, and every action keeps it.                *)
LEMMA InitHolds == Init => IInv
  BY DEF Init, IInv, Stages, Fresh

(* A call has its levels given or still to be made.                        *)
LEMMA BeginKeeps ==
  ASSUME IInv, NEW c \in Writes, Begin(c)
  PROVE  IInv'
<1>1. /\ pc = "idle" /\ IsPossible(c) /\ call' = Normalized(c)
      /\ levels' = (IF c.kind = "blocks" THEN c.lengths ELSE << >>)
      /\ pc' = (IF c.kind = "blocks" THEN "write" ELSE "levels")
      /\ maxInt' = maxInt /\ header' = header /\ error' = error /\ answer' = answer
  BY DEF Begin
<1>2. Fresh
  BY <1>1 DEF IInv, Stages
<1>3. Fresh'
  BY <1>1, <1>2 DEF Fresh
<1>4. c \in WriteType
  BY InputsAssumption
<1>5. /\ Normalized(c) \in WriteType /\ IsPossible(Normalized(c)) /\ Normalized(c).kind = c.kind
      /\ c.kind \in {"image", "blocks"} /\ (c.kind = "blocks" => Normalized(c) = c /\ c.lengths \in Seq(Nat))
  BY <1>1, <1>4, NormalizedFacts
<1>6. GoodCall'
  BY <1>1, <1>5 DEF GoodCall, IsPossible
<1>7. maxInt' \in Platforms
  BY <1>1 DEF IInv
<1>8. CASE c.kind = "blocks"
  <2>1. levels' = c.lengths /\ pc' = "write" /\ call' = c
    BY <1>1, <1>5, <1>8
  <2>2. \A l \in DOMAIN c.lengths : c.lengths[l] <= maxInt
    BY <1>1, <1>8 DEF IsPossible
  <2>3. GoodLevels'
    BY <1>1, <1>5, <1>8, <2>1, <2>2 DEF GoodLevels
  <2> QED
    BY <1>3, <1>6, <1>7, <2>1, <2>3 DEF IInv, Stages
<1>9. CASE c.kind = "image"
  <2>1. levels' = << >> /\ pc' = "levels" /\ call'.kind = "image"
    BY <1>1, <1>5, <1>9
  <2> QED
    BY <1>3, <1>6, <1>7, <2>1 DEF IInv, Stages
<1> QED
  BY <1>5, <1>8, <1>9

(* Every level made has the length that the writer checks, or is nothing.  *)
LEMMA MakeLevelsKeeps ==
  ASSUME IInv, NEW nothing \in 0..DefaultMips, MakeLevels(nothing)
  PROVE  IInv'
<1>1. /\ pc = "levels" /\ IsUint32(call.width) /\ IsUint32(call.height)
      /\ \A l \in 1..LevelCount : Expected(l) > 0
      /\ levels' = EncodedLevels(nothing) /\ (nothing > 0 => IsEmpty) /\ pc' = "write"
      /\ maxInt' = maxInt /\ call' = call /\ header' = header /\ error' = error /\ answer' = answer
  BY DEF MakeLevels
<1>2. Fresh /\ GoodCall /\ call.kind = "image" /\ maxInt \in Platforms
  BY <1>1 DEF IInv, Stages
<1>3. Fresh' /\ GoodCall'
  BY <1>1, <1>2 DEF Fresh, GoodCall, IsPossible
<1>4. LevelCount \in Nat
  <2>1. MipMapCount(call.width, call.height) \in Nat
    <3>1. call.width \in 0..MaxUint32 /\ call.height \in 0..MaxUint32
      BY <1>1 DEF IsUint32
    <3> QED
      BY <1>2, <3>1, MipMapCountIsFull DEF IsFullChain
  <2>2. call.maxMipMaps \in Int
    BY <1>2, CallFacts
  <2> QED
    BY <2>1, <2>2 DEF LevelCount
<1>5. \A l \in 1..LevelCount : Expected(l) \in Nat /\ Expected(l) <= maxInt
  <2> TAKE l \in 1..LevelCount
  <2>1. l \in Nat \ {0} /\ Expected(l) > 0 /\ maxInt \in Nat
    BY <1>1, <1>2, <1>4, WordFacts
  <2>2. Expected(l) \in 1..maxInt \/ Expected(l) = -1
    BY <1>2, <2>1, ExpectedFacts
  <2> QED
    BY <2>1, <2>2
<1>6. levels' \in Seq(Nat) /\ \A l \in DOMAIN levels' : levels'[l] <= maxInt
  <2>1. \A l \in 1..LevelCount : EncodedLevels(nothing)[l] \in Nat /\ EncodedLevels(nothing)[l] <= maxInt
    <3>1. maxInt \in Nat
      BY <1>2, WordFacts
    <3> QED
      BY <1>5, <3>1 DEF EncodedLevels
  <2>2. EncodedLevels(nothing) = [l \in 1..LevelCount |-> EncodedLevels(nothing)[l]]
    BY DEF EncodedLevels
  <2> DEFINE made == EncodedLevels(nothing)
  <2>3. made \in [1..LevelCount -> Nat] /\ DOMAIN made = 1..LevelCount
    BY <2>1, <2>2
  <2> HIDE DEF made
  <2>4. made \in Seq(Nat)
    BY <1>4, <2>3
  <2> QED
    BY <1>1, <2>1, <2>3, <2>4 DEF made
<1>7. LevelCount' = LevelCount /\ \A l : Expected(l)' = Expected(l)
  BY <1>1 DEF LevelCount, Expected, DataLength, LengthError, FitsInt
<1>8. EncodedLevels(nothing)' = EncodedLevels(nothing) /\ IsEmpty' = IsEmpty
  BY <1>1, <1>7 DEF EncodedLevels, IsEmpty
<1>9. GoodLevels'
  <2>1. nothing \in Nat
    BY LimitsAssumption
  <2>2. levels' = EncodedLevels(nothing)' /\ (nothing > 0 => IsEmpty')
    BY <1>1, <1>8
  <2> QED
    BY <1>1, <1>2, <1>6, <1>7, <2>1, <2>2 DEF GoodLevels
<1> QED
  BY <1>1, <1>2, <1>3, <1>9 DEF IInv, Stages

(* An error that a writer returns is true.                                 *)
LEMMA WriteErrorIsTrue ==
  ASSUME maxInt \in Platforms, GoodCall, GoodLevels
  PROVE  TrueError(WriteError)
<1> DEFINE bad == {l \in 1..Len(levels) : LevelError(l) # "none"}
           first == CHOOSE l \in bad : \A k \in bad : l <= k
           e == WriteError
<1>1. levels \in Seq(Nat) /\ DOMAIN levels = 1..Len(levels) /\ Len(levels) \in Nat
  BY DEF GoodLevels
<1>2. ASSUME NEW l \in bad, call.format \in Writable PROVE TrueError(LevelError(l))
  <2>1. l \in DOMAIN levels /\ l \in Nat \ {0} /\ levels[l] \in Nat
    BY <1>1
  <2>2. /\ Expected(l) \in 1..maxInt \/ Expected(l) = -1
        /\ Expected(l) > 0 => LevelLength(l) = Expected(l)
        /\ ~(Expected(l) > 0) => LevelLength(l) > maxInt
    BY <1>2, <2>1, ExpectedFacts
  <2>3. maxInt \in Nat /\ MaxInt32 \in Nat
    BY WordFacts
  <2>4. CASE Expected(l) <= 0
    <3>1. LevelError(l) = "ErrInvalidFormat" /\ ~(Expected(l) > 0)
      BY <2>2, <2>3, <2>4 DEF LevelError
    <3> QED
      BY <2>1, <2>2, <3>1 DEF TrueError
  <2>5. CASE ~(Expected(l) <= 0) /\ levels[l] # Expected(l)
    <3>1. LevelError(l) = "ErrMipmapSizeMismatch" /\ Expected(l) \in 1..maxInt
      BY <2>2, <2>3, <2>5 DEF LevelError
    <3>2. LevelLength(l) = Expected(l) /\ LevelLength(l) \in 0..maxInt \ {levels[l]}
      BY <2>2, <2>3, <2>5, <3>1
    <3>3. call.kind = "image" => IsEmpty
      <4> SUFFICES ASSUME call.kind = "image" PROVE IsEmpty
        OBVIOUS
      <4>1. PICK nothing \in Nat : (nothing > 0 => IsEmpty) /\ levels = EncodedLevels(nothing)
        BY DEF GoodLevels
      <4>2. levels[l] = IF l <= nothing THEN 0 ELSE Expected(l)
        BY <2>1, <4>1 DEF EncodedLevels
      <4>3. nothing > 0
        BY <2>1, <2>5, <4>1, <4>2
      <4> QED
        BY <4>1, <4>3
    <3> QED
      BY <2>1, <3>1, <3>2, <3>3 DEF TrueError
  <2>6. CASE ~(Expected(l) <= 0) /\ levels[l] = Expected(l) /\ ~IsInt32(levels[l])
    <3>1. LevelError(l) = IF call.compress THEN "ErrCompressMipmap" ELSE "ErrSizeOverflow"
      BY <2>6 DEF LevelError
    <3>2. levels[l] > MaxInt32
      BY <2>1, <2>3, <2>6 DEF IsInt32
    <3> QED
      BY <2>1, <3>1, <3>2 DEF TrueError
  <2>7. CASE ~(Expected(l) <= 0) /\ levels[l] = Expected(l) /\ IsInt32(levels[l])
    <3>1. LevelError(l) = "none"
      BY <2>7 DEF LevelError
    <3> QED
      BY <3>1 DEF TrueError
  <2> QED
    BY <2>4, <2>5, <2>6, <2>7
<1>3. CASE levels = << >>
  <2>1. e = "ErrEmptyMipmaps"
    BY <1>3 DEF WriteError
  <2> QED
    BY <2>1 DEF TrueError
<1>4. CASE levels # << >> /\ call.format = Unknown
  <2>1. e = "ErrInvalidFormat"
    BY <1>4 DEF WriteError
  <2>2. call.format \notin Writable
    BY <1>4 DEF Writable, FourCCOf, MasksOf, Unknown
  <2> QED
    BY <2>1, <2>2 DEF TrueError
<1>5. CASE levels # << >> /\ call.format # Unknown
           /\ ~(IsUint32(call.width) /\ IsUint32(call.height) /\ IsUint32(Len(levels)))
  <2>1. e = "ErrSizeOverflow"
    BY <1>5 DEF WriteError
  <2>2. ~({call.width, call.height, Len(levels)} \subseteq 0..MaxUint32)
    BY <1>5 DEF IsUint32
  <2> QED
    BY <2>1, <2>2 DEF TrueError
<1>6. CASE levels # << >> /\ call.format # Unknown
           /\ IsUint32(call.width) /\ IsUint32(call.height) /\ IsUint32(Len(levels)) /\ call.format \notin Writable
  <2>1. e = "ErrInvalidFormat"
    BY <1>6 DEF WriteError
  <2> QED
    BY <1>6, <2>1 DEF TrueError
<1>7. CASE levels # << >> /\ call.format # Unknown
           /\ IsUint32(call.width) /\ IsUint32(call.height) /\ IsUint32(Len(levels)) /\ call.format \in Writable
  <2>1. e = IF bad = {} THEN "none" ELSE LevelError(first)
    BY <1>7 DEF WriteError
  <2>2. CASE bad = {}
    BY <2>1, <2>2 DEF TrueError
  <2>3. CASE bad # {}
    <3>1. bad \in SUBSET Nat
      OBVIOUS
    <3> HIDE DEF bad
    <3>2. first \in bad
      BY <2>3, <3>1, LeastNat
    <3> HIDE DEF first
    <3> QED
      BY <1>2, <1>7, <2>1, <2>3, <3>2
  <2> QED
    BY <2>2, <2>3
<1> QED
  BY <1>3, <1>4, <1>5, <1>6, <1>7

(* Levels that cannot be made are refused for what is wrong.               *)
LEMMA NoLevelsKeeps ==
  ASSUME IInv, NoLevels
  PROVE  IInv'
<1>1. /\ pc = "levels" /\ pc' = "answered"
      /\ error' = (IF IsUint32(call.width) /\ IsUint32(call.height) THEN "ErrCompressMipmap" ELSE "ErrSizeOverflow")
      /\ maxInt' = maxInt /\ call' = call /\ levels' = levels /\ header' = header /\ answer' = answer
  BY DEF NoLevels, Refuse
<1>2. Fresh /\ GoodCall /\ maxInt \in Platforms
  BY <1>1 DEF IInv, Stages
<1>3. header' = None /\ answer' = None /\ GoodCall'
  BY <1>1, <1>2, SameCall DEF Fresh
<1>4. error' # "none"
  BY <1>1
<1>5. TrueError(error')
  <2>1. CASE IsUint32(call.width) /\ IsUint32(call.height)
    BY <1>1, <2>1 DEF TrueError
  <2>2. CASE ~(IsUint32(call.width) /\ IsUint32(call.height))
    BY <1>1, <2>2 DEF TrueError, IsUint32
  <2> QED
    BY <2>1, <2>2
<1>6. TrueError(error)'
  BY <1>1, <1>5 DEF TrueError, LevelLength, IsEmpty
<1> QED
  BY <1>1, <1>2, <1>3, <1>4, <1>6 DEF IInv, Stages

(* The header says what was checked.                                       *)
LEMMA WriteFileKeeps ==
  ASSUME IInv, WriteFile
  PROVE  IInv'
<1>1. /\ pc = "write" /\ pc' = "file" /\ WriteError = "none" /\ header' = MakeHeader
      /\ maxInt' = maxInt /\ call' = call /\ levels' = levels /\ error' = error /\ answer' = answer
  BY DEF WriteFile
<1>2. Fresh /\ GoodCall /\ GoodLevels /\ maxInt \in Platforms
  BY <1>1 DEF IInv, Stages
<1>3. Written'
  <2>1. GoodCall' /\ GoodLevels' /\ WriteError' = "none" /\ header' = MakeHeader'
    BY <1>1, <1>2, SameCall
  <2> QED
    BY <2>1 DEF Written
<1>4. header' \in HeaderType
  BY <1>1, <1>2, WrittenFacts, MadeHeader
<1>5. error' = "none" /\ answer' = None
  BY <1>1, <1>2 DEF Fresh
<1>6. Stored'
  BY <1>3, <1>4, <1>5 DEF Stored, HeaderType, FourCCNames, FourCCs, Flags
<1> QED
  BY <1>1, <1>2, <1>5, <1>6 DEF IInv, Stages

(* A refused call names its reason.                                        *)
LEMMA WriteRefusedKeeps ==
  ASSUME IInv, WriteRefused
  PROVE  IInv'
<1>1. /\ pc = "write" /\ pc' = "answered" /\ WriteError # "none" /\ error' = WriteError
      /\ maxInt' = maxInt /\ call' = call /\ levels' = levels /\ header' = header /\ answer' = answer
  BY DEF WriteRefused, Refuse
<1>2. Fresh /\ GoodCall /\ GoodLevels /\ maxInt \in Platforms
  BY <1>1 DEF IInv, Stages
<1>3. header' = None /\ answer' = None /\ GoodCall'
  BY <1>1, <1>2, SameCall DEF Fresh
<1>4. TrueError(error')
  BY <1>1, <1>2, WriteErrorIsTrue
<1>5. TrueError(error)'
  BY <1>1, <1>4 DEF TrueError, LevelLength, IsEmpty
<1> QED
  BY <1>1, <1>2, <1>3, <1>5 DEF IInv, Stages

(* The header of another program is any header.                            *)
LEMMA FindKeeps ==
  ASSUME IInv, NEW h \in Foreign, Find(h)
  PROVE  IInv'
<1>1. /\ pc = "idle" /\ pc' = "file" /\ header' = h
      /\ maxInt' = maxInt /\ call' = call /\ levels' = levels /\ error' = error /\ answer' = answer
  BY DEF Find
<1>2. Fresh /\ call = None /\ maxInt \in Platforms
  BY <1>1 DEF IInv, Stages
<1>3. h \in HeaderType
  BY InputsAssumption
<1>4. error' = "none" /\ answer' = None /\ call' = None
  BY <1>1, <1>2 DEF Fresh
<1>5. Stored'
  BY <1>1, <1>3, <1>4 DEF Stored, HeaderType, FourCCNames, FourCCs, Flags
<1> QED
  BY <1>1, <1>2, <1>4, <1>5 DEF IInv, Stages

(* What is stored stays as long as nothing is written.                     *)
LEMMA StoredStays ==
  ASSUME Stored, maxInt' = maxInt, call' = call, levels' = levels, header' = header, error' = error
  PROVE  Stored'
<1>1. Written' = Written
  BY SameCall DEF Written
<1> QED
  BY <1>1 DEF Stored, HeaderType, FourCCNames, FourCCs, Flags

(* The reader works from the header alone.                                 *)
LEMMA ReadKeeps ==
  ASSUME IInv, Read
  PROVE  IInv'
<1>1. /\ pc = "file" /\ pc' = "answered" /\ answer' = Answer
      /\ maxInt' = maxInt /\ call' = call /\ levels' = levels /\ header' = header /\ error' = error
  BY DEF Read
<1>2. Stored /\ maxInt \in Platforms
  BY <1>1 DEF IInv, Stages
<1>3. Stored'
  BY <1>1, <1>2, StoredStays
<1>4. answer' = Answer'
  BY <1>1, SameHeader
<1> QED
  BY <1>1, <1>2, <1>3, <1>4 DEF IInv, Stages

(* Steps of nobody.                                                        *)
LEMMA StutterKeeps ==
  ASSUME IInv, UNCHANGED vars
  PROVE  IInv'
<1>1. /\ maxInt' = maxInt /\ pc' = pc /\ call' = call /\ levels' = levels /\ header' = header
      /\ error' = error /\ answer' = answer
  BY DEF vars
<1>2. GoodCall' = GoodCall /\ GoodLevels' = GoodLevels
  BY <1>1, SameCall
<1>3. Stored => Stored'
  BY <1>1, StoredStays
<1>4. Answer' = Answer
  BY <1>1, SameHeader
<1>5. TrueError(error) => TrueError(error)'
  BY <1>1 DEF TrueError, LevelLength, IsEmpty
<1>6. Fresh' = Fresh
  BY <1>1 DEF Fresh
<1>7. Stages'
  BY <1>1, <1>2, <1>3, <1>4, <1>5, <1>6 DEF IInv, Stages
<1> QED
  BY <1>1, <1>7 DEF IInv

(* The induction step: every stage is entered with what it claims.         *)
LEMMA StepKeeps == IInv /\ [Next]_vars => IInv'
<1> SUFFICES ASSUME IInv, [Next]_vars PROVE IInv'
  OBVIOUS
<1>1. ASSUME NEW c \in Writes, Begin(c) PROVE IInv'
  BY <1>1, BeginKeeps
<1>2. ASSUME NEW h \in Foreign, Find(h) PROVE IInv'
  BY <1>2, FindKeeps
<1>3. CASE \E nothing \in 0..DefaultMips : MakeLevels(nothing)
  BY <1>3, MakeLevelsKeeps
<1>4. CASE NoLevels
  BY <1>4, NoLevelsKeeps
<1>5. CASE WriteFile
  BY <1>5, WriteFileKeeps
<1>6. CASE WriteRefused
  BY <1>6, WriteRefusedKeeps
<1>7. CASE Read
  BY <1>7, ReadKeeps
<1>8. CASE UNCHANGED vars
  BY <1>8, StutterKeeps
<1> QED
  BY <1>1, <1>2, <1>3, <1>4, <1>5, <1>6, <1>7, <1>8 DEF Next

(* The induction.                                                          *)
LEMMA Invariant == Spec => []IInv
  BY InitHolds, StepKeeps, PTL DEF Spec

-----------------------------------------------------------------------------
(* What holds of a header that was written.                                *)
LEMMA StoredFacts ==
  ASSUME IInv, header # None
  PROVE  /\ header \in HeaderType /\ error = "none" /\ (call = None \/ Written)
         /\ (pc = "file" /\ answer = None) \/ (pc = "answered" /\ answer = Answer)
  BY DEF IInv, Stages, Fresh, Stored

(* A running call is one that its platform admits.                         *)
LEMMA CallIsGood ==
  ASSUME IInv, call # None
  PROVE  GoodCall
  BY DEF IInv, Stages, Stored, Written

(* A reader finds no error in the header of such a call.                   *)
LEMMA HeaderIsRead ==
  ASSUME maxInt \in Platforms, Written
  PROVE  /\ header.width = call.width /\ header.height = call.height
         /\ call.width \in 0..maxInt /\ call.height \in 0..maxInt
         /\ ToInt(header.width) = call.width /\ ToInt(header.height) = call.height
         /\ Width = MipDimension(call.width, 0) /\ Height = MipDimension(call.height, 0)
         /\ Format = call.format /\ HeaderMips = Len(levels)
<1>1. GoodCall /\ GoodLevels /\ WriteError = "none" /\ header = MakeHeader
  BY DEF Written
<1>2. /\ Len(levels) \in Nat \ {0} /\ call.format \in Writable
      /\ IsUint32(call.width) /\ IsUint32(call.height)
  BY <1>1, WrittenFacts
<1> DEFINE pf == MakePixelFormat(call.format)
<1>3. /\ header.width = call.width /\ header.height = call.height /\ header.mips = Len(levels)
      /\ header.caps = (Len(levels) > 1) /\ header.dx10 = {}
      /\ header.flags = pf.flags /\ header.fourCC = pf.fourCC /\ header.bits = pf.bits /\ header.masks = pf.masks
  BY <1>1 DEF MakeHeader
<1>4. Format = call.format
  BY <1>2, <1>3, WrittenIsDetected DEF Format
<1>5. HeaderMips = Len(levels)
  <2> DEFINE n == Len(levels)
  <2>1. n \in Nat \ {0} /\ header.mips = n /\ header.caps = (n > 1)
    BY <1>2, <1>3
  <2> HIDE DEF n
  <2>2. CASE n > 1
    <3>1. (n > 1) = TRUE
      BY <2>2
    <3>2. header.caps
      BY <2>1, <3>1, Zenon
    <3>3. n > 0
      BY <2>1
    <3> QED
      BY <2>1, <3>2, <3>3 DEF HeaderMips, n
  <2>3. CASE ~(n > 1)
    <3>1. n = 1
      BY <2>1, <2>3
    <3>2. ~header.caps
      BY <2>1, <2>3, Zenon
    <3> QED
      BY <3>1, <3>2 DEF HeaderMips, n
  <2> QED
    BY <2>2, <2>3
<1>6. maxInt \in Nat /\ MaxUint32 \in Nat
  BY WordFacts
<1>7. call.width \in 0..MaxUint32 /\ call.height \in 0..MaxUint32
      /\ call.width <= maxInt /\ call.height <= maxInt
  BY <1>1, <1>2, CallFacts DEF IsUint32
<1>8. call.width \in 0..maxInt /\ call.height \in 0..maxInt
  BY <1>6, <1>7
<1>9. ToInt(header.width) = call.width /\ ToInt(header.height) = call.height
  BY <1>3, <1>7, ToIntFits
<1>10. Width = MipDimension(call.width, 0) /\ Height = MipDimension(call.height, 0)
  BY <1>9 DEF Width, Height
<1> QED
  BY <1>3, <1>4, <1>5, <1>8, <1>9, <1>10

(* An answer is one.                                                       *)
LEMMA AnswerIsTyped ==
  ASSUME maxInt \in Platforms, header \in HeaderType
  PROVE  Answer \in AnswerType
<1>1. /\ ToInt(header.width) \in Int /\ ToInt(header.height) \in Int
      /\ Width \in Nat \ {0} /\ Width <= maxInt /\ Height \in Nat \ {0} /\ Height <= maxInt
  BY SidesFit
<1>2. Format \in AnyFormat
  BY DetectedFormats DEF Format
<1>3. HeaderMips \in Nat
  <2>1. header.mips \in 0..MaxUint32 /\ MaxUint32 \in Nat
    BY WordFacts DEF HeaderType
  <2> QED
    BY <2>1 DEF HeaderMips
<1>4. ReadError \in ReadErrors
  BY ReadErrorFacts
<1>5. DataLength(Format, Width, Height) \in Int
  <2>1. Width \in Int /\ Height \in Int /\ maxInt \in Nat
    BY <1>1, WordFacts
  <2>2. DataLength(Format, Width, Height) = -1 \/ DataLength(Format, Width, Height) \in 1..maxInt
    BY <1>1, <2>1, LengthFacts
  <2>3. -1 \in Int /\ \A x \in 1..maxInt : x \in Int
    BY <2>1
  <2> QED
    BY <2>2, <2>3
<1>6. <<ToInt(header.width), ToInt(header.height)>> \in Int \X Int /\ <<Width, Height>> \in Nat \X Nat
  BY <1>1
<1> QED
  BY <1>2, <1>3, <1>4, <1>5, <1>6 DEF Answer, AnswerType

(* Types: what is passed, stored and worked out, and a written length fits *)
(* the int32 of a block header.                                            *)
THEOREM Typed == Spec => []TypeOK
<1>1. ASSUME IInv PROVE TypeOK
  <2>1. maxInt \in Platforms /\ pc \in {"idle", "levels", "write", "file", "answered"}
    BY <1>1 DEF IInv, Stages
  <2>2. call = None \/ call \in WriteType
    BY <1>1, CallIsGood DEF GoodCall
  <2>3. header = None \/ header \in HeaderType
    BY <1>1, StoredFacts
  <2>4. answer = None \/ answer \in AnswerType
    <3>1. answer # None => header \in HeaderType /\ answer = Answer
      BY <1>1 DEF IInv, Stages, Fresh, Stored
    <3> QED
      BY <2>1, <3>1, AnswerIsTyped
  <2>5. call # None /\ header # None => \A l \in DOMAIN levels : levels[l] \in 0..MaxInt32
    <3> SUFFICES ASSUME call # None, header # None PROVE \A l \in DOMAIN levels : levels[l] \in 0..MaxInt32
      OBVIOUS
    <3>1. Written
      BY <1>1, StoredFacts
    <3>2. \A l \in DOMAIN levels : IsInt32(levels[l])
      BY <2>1, <3>1, WrittenFacts DEF Written
    <3> QED
      BY <3>2 DEF IsInt32
  <2>6. pc = "answered" => error # "none" \/ answer # None
    <3> SUFFICES ASSUME pc = "answered", error = "none" PROVE answer # None
      OBVIOUS
    <3>1. header \in HeaderType /\ answer = Answer
      BY <1>1 DEF IInv, Stages, Stored
    <3>2. answer \in AnswerType
      BY <2>1, <3>1, AnswerIsTyped
    <3> QED
      BY <3>2, NoneAssumption
  <2> QED
    BY <2>1, <2>2, <2>3, <2>4, <2>5, <2>6 DEF TypeOK
<1> QED
  BY <1>1, Invariant, PTL

(* Whatever the words and the dimensions, a length is the exact one or is  *)
(* refused for exceeding an int: no product wraps into a small length.     *)
THEOREM NoLengthWraps == Spec => []LengthsAreExact
<1>1. ASSUME maxInt \in Platforms, NEW format, NEW w \in Int, w <= maxInt, NEW h \in Int, h <= maxInt
      PROVE  Exact(format, w, h)
  <2> SUFFICES ASSUME w > 0, h > 0, format \in SizedFormats
               PROVE  DataLength(format, w, h) =
                        IF ExactLength(format, w, h) <= maxInt THEN ExactLength(format, w, h) ELSE -1
    BY DEF Exact
  <2>1. w \in Nat \ {0} /\ h \in Nat \ {0}
    OBVIOUS
  <2> QED
    BY <1>1, <2>1, DataLengthIsExact
<1>2. ASSUME IInv PROVE LengthsAreExact
  <2>1. maxInt \in Platforms
    BY <1>2 DEF IInv
  <2>2. call # None => Exact(call.format, call.width, call.height)
    <3> SUFFICES ASSUME call # None PROVE Exact(call.format, call.width, call.height)
      OBVIOUS
    <3>1. call.width \in Int /\ call.width <= maxInt /\ call.height \in Int /\ call.height <= maxInt
      BY <1>2, <2>1, CallIsGood, CallFacts
    <3> QED
      BY <1>1, <2>1, <3>1
  <2>3. header # None => Exact(Format, Width, Height) /\ Exact("RGBA8", Width, Height)
    <3> SUFFICES ASSUME header # None PROVE Exact(Format, Width, Height) /\ Exact("RGBA8", Width, Height)
      OBVIOUS
    <3>1. header \in HeaderType
      BY <1>2, StoredFacts
    <3>2. Width \in Int /\ Width <= maxInt /\ Height \in Int /\ Height <= maxInt
      <4>1. Width \in Nat \ {0} /\ Width <= maxInt /\ Height \in Nat \ {0} /\ Height <= maxInt
        BY <2>1, <3>1, SidesFit
      <4> QED
        BY <4>1
    <3> QED
      BY <1>1, <2>1, <3>2
  <2> QED
    BY <2>2, <2>3 DEF LengthsAreExact
<1> QED
  BY <1>2, Invariant, PTL

(* A full chain ends with its first level of one texel, and a reader with  *)
(* the default limits admits as many levels.                               *)
THEOREM ChainsAreFull == Spec => []FullChainEndsInOneTexel
<1>1. ASSUME IInv, pc = "file", call # None, call.kind = "image", call.maxMipMaps <= 0
      PROVE  IsFullChain(call.width, call.height, Len(levels)) /\ Len(levels) <= DefaultMips
  <2>1. maxInt \in Platforms /\ Written
    BY <1>1 DEF IInv, Stages, Stored
  <2>2. call.width \in 0..MaxUint32 /\ call.height \in 0..MaxUint32
    BY <1>1, <2>1 DEF Written, GoodLevels, IsUint32
  <2>3. call.maxMipMaps \in Int
    BY <1>1, <2>1, CallFacts DEF Written
  <2>4. LevelCount = MipMapCount(call.width, call.height)
    <3>1. ~(call.maxMipMaps > 0)
      BY <1>1, <2>3
    <3> QED
      BY <3>1 DEF LevelCount
  <2>5. IsFullChain(call.width, call.height, LevelCount) /\ LevelCount <= DefaultMips
    BY <2>1, <2>2, <2>4, MipMapCountIsFull
  <2>6. Len(levels) = LevelCount
    <3>1. LevelCount \in Nat
      BY <2>5 DEF IsFullChain
    <3>2. PICK nothing \in Nat : levels = EncodedLevels(nothing)
      BY <1>1, <2>1 DEF Written, GoodLevels
    <3> QED
      BY <3>1, <3>2 DEF EncodedLevels
  <2> QED
    BY <2>5, <2>6
<1>2. ASSUME IInv PROVE FullChainEndsInOneTexel
  BY <1>1, <1>2 DEF FullChainEndsInOneTexel, IsFullChain, OneTexel
<1> QED
  BY <1>2, Invariant, PTL

(* A detected format has a size: a reader that calls a format unknown did  *)
(* not detect one.                                                         *)
THEOREM DetectedFormatsAreSized == Spec => []DetectedFormatHasSize
<1>1. ASSUME IInv PROVE DetectedFormatHasSize
  <2> SUFFICES ASSUME pc = "answered", answer # None, answer.error = "ErrUnknownFormat"
               PROVE  answer.format = Unknown
    BY DEF DetectedFormatHasSize
  <2>1. header \in HeaderType /\ answer = Answer /\ maxInt \in Platforms
    BY <1>1 DEF IInv, Stages, Stored
  <2>2. answer.error = ReadError /\ answer.format = Format
    BY <2>1 DEF Answer
  <2> QED
    BY <2>1, <2>2, ReadErrorFacts
<1> QED
  BY <1>1, Invariant, PTL

(* The largest level of a side of at least 1 is the side.                  *)
LEMMA FirstDimension ==
  ASSUME NEW n \in Nat
  PROVE  MipDimension(n, 0) = n \/ n = 0
  BY ShiftedSteps DEF MipDimension

(* A reader works out of a header what the writer checked, and refuses a   *)
(* file of this package only for what exceeds the default limits or an     *)
(* int.                                                                    *)
THEOREM WrittenFilesAreReadable == Spec => []WrittenIsReadable
<1>1. ASSUME IInv PROVE WrittenIsReadable
  <2> SUFFICES ASSUME pc = "answered", call # None, error = "none"
               PROVE  /\ answer.format = call.format /\ answer.mips = Len(levels)
                      /\ answer.config = <<call.width, call.height>>
                      /\ answer.image = answer.config \/ 0 \in {call.width, call.height}
                      /\ answer.size = levels[1]
                      /\ answer.error # "none" => TooMuch
    BY DEF WrittenIsReadable
  <2>1. Written /\ header \in HeaderType /\ answer = Answer /\ maxInt \in Platforms
    BY <1>1 DEF IInv, Stages, Stored
  <2>2. /\ answer.format = Format /\ answer.mips = HeaderMips
        /\ answer.config = <<ToInt(header.width), ToInt(header.height)>>
        /\ answer.image = <<Width, Height>> /\ answer.size = DataLength(Format, Width, Height)
        /\ answer.error = ReadError
    BY <2>1 DEF Answer
  <2>3. /\ call.width \in 0..maxInt /\ call.height \in 0..maxInt
        /\ ToInt(header.width) = call.width /\ ToInt(header.height) = call.height
        /\ Width = MipDimension(call.width, 0) /\ Height = MipDimension(call.height, 0)
        /\ Format = call.format /\ HeaderMips = Len(levels)
    BY <2>1, HeaderIsRead
  <2>4. answer.image = answer.config \/ 0 \in {call.width, call.height}
    <3>1. call.width \in Nat /\ call.height \in Nat
      <4>1. maxInt \in Nat
        BY <2>1, WordFacts
      <4> QED
        BY <2>3, <4>1
    <3>2. (Width = call.width \/ call.width = 0) /\ (Height = call.height \/ call.height = 0)
      BY <2>3, <3>1, FirstDimension
    <3> QED
      BY <2>2, <2>3, <3>2
  <2>5. levels[1] = DataLength(Format, Width, Height) /\ levels[1] > 0
    <3>1. 1 \in DOMAIN levels /\ 1 - 1 = 0
      <4>1. levels \in Seq(Nat) /\ Len(levels) \in Nat \ {0}
        BY <2>1, WrittenFacts DEF Written, GoodLevels
      <4> QED
        BY <4>1
    <3>2. Expected(1) > 0 /\ levels[1] = Expected(1)
      BY <2>1, <3>1, WrittenFacts DEF Written
    <3>3. Expected(1) = DataLength(Format, Width, Height)
      BY <2>3, <3>1 DEF Expected
    <3> QED
      BY <3>2, <3>3
  <2>6. LengthError(Format, Width, Height) = "none"
    <3>1. DataLength(Format, Width, Height) # -1
      BY <2>5
    <3> QED
      BY <3>1 DEF DataLength
  <2>7. ReadError # "none" => TooMuch
    <3> SUFFICES ASSUME ReadError # "none" PROVE TooMuch
      OBVIOUS
    <3>1. \/ HeaderMips > DefaultMips
          \/ ExactLength("RGBA8", Width, Height) > DefaultBytes
          \/ DataLength(Format, Width, Height) > DefaultBytes
      BY <2>1, <2>6, ReadErrorFacts
    <3> QED
      BY <2>3, <2>5, <3>1 DEF TooMuch
  <2> QED
    BY <2>2, <2>3, <2>4, <2>5, <2>7
<1> QED
  BY <1>1, Invariant, PTL

(* An error says what is wrong: no texture is refused that could be        *)
(* written, or read with the default limits.                               *)
THEOREM ErrorsSayWhatIsWrong == Spec => []ErrorsAreTrue
<1>1. ASSUME IInv PROVE ErrorsAreTrue
  <2>1. TrueError(error)
    <3>1. error = "none" \/ TrueError(error)
      BY <1>1 DEF IInv, Stages, Fresh, Stored
    <3>2. error = "none" => TrueError(error)
      BY DEF TrueError
    <3> QED
      BY <3>1, <3>2
  <2>2. ASSUME pc = "answered", answer # None
        PROVE  /\ answer.error = "ErrSizeOverflow" =>
                    \E f \in {"RGBA8", Format} \cap SizedFormats : ExactLength(f, Width, Height) > maxInt
               /\ answer.error = "ErrReadLimitExceeded" =>
                    \/ header.mips > DefaultMips
                    \/ \E f \in {"RGBA8", Format} \cap SizedFormats : ExactLength(f, Width, Height) > DefaultBytes
    <3>1. header \in HeaderType /\ answer = Answer /\ maxInt \in Platforms
      BY <1>1, <2>2 DEF IInv, Stages, Stored
    <3>2. answer.error = ReadError
      BY <3>1 DEF Answer
    <3>3. /\ ReadError = "ErrSizeOverflow" => \E f : Exceeds(f, maxInt)
          /\ ReadError = "ErrReadLimitExceeded" => HeaderMips > DefaultMips \/ \E f : Exceeds(f, DefaultBytes)
      BY <3>1, ReadErrorFacts
    <3>4. HeaderMips > DefaultMips => header.mips > DefaultMips
      <4>1. DefaultMips \in Nat \ {0} /\ header.mips \in Nat
        <5>1. header.mips \in 0..MaxUint32 /\ MaxUint32 \in Nat
          BY <3>1, WordFacts DEF HeaderType
        <5> QED
          BY <5>1, LimitsAssumption
      <4>2. HeaderMips = header.mips \/ HeaderMips = 1
        BY DEF HeaderMips
      <4> QED
        BY <4>1, <4>2
    <3> QED
      BY <3>2, <3>3, <3>4 DEF Exceeds
  <2> QED
    BY <2>1, <2>2 DEF ErrorsAreTrue, TrueError
<1> QED
  BY <1>1, Invariant, PTL

=============================================================================
