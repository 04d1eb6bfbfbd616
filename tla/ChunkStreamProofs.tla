------------------------- MODULE ChunkStreamProofs -------------------------
(***************************************************************************)
(* The chunk loop of decompressBlock is right for every chunk size, every  *)
(* dictionary capacity that covers the LZ4 window, and every block; and a  *)
(* block that compressBlock makes is one that it turns back.               *)
(***************************************************************************)
EXTENDS BlockRoundTrip, Induction

-----------------------------------------------------------------------------
(***************************************************************************)
(* The decoder, whatever the block                                         *)
(***************************************************************************)

(* The dictionary holds the last bytes of the first n bytes of the output, *)
(* as many as there are and as it has room for.                            *)
HoldsLast(n) ==
  /\ dictSize = IF n < DictCap THEN n ELSE DictCap
  /\ \A k \in 0..(dictSize - 1) : dict[k] = out[n - dictSize + 1 + k]

DictIsWindow ==
  /\ pc = "header" => HoldsLast(Len(out))
  /\ pc = "payload" => HoldsLast(start)

(* dst lies within target.                                                 *)
InBounds ==
  /\ pc \in {"header", "payload", "finish"} => Len(out) <= size
  /\ pc = "payload" => start <= Len(out)

(* What the caller may rely on.                                            *)
Outcome ==
  /\ pc = "idle" <=> status # "running"
  /\ stored = 0 => size = expected
  /\ status = "ok" => Len(out) = size

IInv == TypeOK /\ InBounds /\ DictIsWindow /\ Outcome

-----------------------------------------------------------------------------
(* One element more at the end of a sequence, and no other changed.        *)
LEMMA AppendFacts ==
  ASSUME NEW S, NEW s \in Seq(S), NEW e \in S
  PROVE  /\ Append(s, e) \in Seq(S)
         /\ Len(Append(s, e)) = Len(s) + 1
         /\ Len(s) \in Nat
         /\ Append(s, e)[Len(s) + 1] = e
         /\ \A k \in 1..Len(s) : Append(s, e)[k] = s[k]
OBVIOUS

(* A new Decoder is between calls, its dictionary empty.                   *)
LEMMA InitIInv == Init => IInv
<1> SUFFICES ASSUME Init PROVE IInv
  OBVIOUS
<1>1. TypeOK
  <2>1. out \in Seq(Byte) /\ dict \in [Slots -> Byte]
    BY DEF Init
  <2>2. 0 \in 0..MaxSize /\ 0 \in 0..DictCap /\ 0 \in 0..Window
    BY SizesAssumption
  <2> QED
    BY <2>1, <2>2 DEF Init, TypeOK
<1> QED
  BY <1>1 DEF Init, IInv, InBounds, DictIsWindow, Outcome

(* A call starts with an empty output, so with an empty dictionary.        *)
LEMMA BeginKeeps ==
  ASSUME IInv, NEW n \in 0..MaxSize, NEW u \in 0..MaxSize, NEW peek \in 0..MaxSize,
         NEW c0 \in {0, 1, PrefixCap}, Begin(n, u, peek, c0)
  PROVE  IInv'
<1> USE SizesAssumption
<1>1. size' \in 0..MaxSize /\ (u = 0 => size' = n)
  BY DEF Begin, HasPrefix, TargetSize
<1>2. out' = << >> /\ Len(out') = 0 /\ out' \in Seq(Byte)
  BY DEF Begin
<1>3. TypeOK'
  <2>1. 0 \in 0..MaxSize /\ 0 \in 0..DictCap /\ 0 \in 0..Window
    OBVIOUS
  <2> QED
    BY <1>1, <1>2, <2>1 DEF IInv, TypeOK, Begin
<1>4. DictIsWindow'
  <2>1. dictSize' = 0 /\ pc' = "header"
    BY DEF Begin
  <2>2. 0 < DictCap /\ ~ \E k \in 0..(0 - 1) : TRUE
    OBVIOUS
  <2> QED
    BY <1>2, <2>1, <2>2 DEF DictIsWindow, HoldsLast
<1> QED
  BY <1>1, <1>2, <1>3, <1>4 DEF IInv, TypeOK, InBounds, Outcome, Begin

(* A call that fails has nothing to promise.                               *)
LEMMA ErrorKeeps ==
  ASSUME IInv, Error
  PROVE  IInv'
BY SizesAssumption DEF IInv, TypeOK, InBounds, DictIsWindow, Outcome, Error, call

(* A chunk starts where the output has come to.                            *)
LEMMA HeaderKeeps ==
  ASSUME IInv, NEW isLast \in BOOLEAN, Header(isLast)
  PROVE  IInv'
<1> USE SizesAssumption
<1>1. Len(out) \in Nat
  BY DEF IInv, TypeOK
<1>2. TypeOK'
  BY <1>1 DEF IInv, TypeOK, Header, call
<1>3. HoldsLast(Len(out))
  BY DEF IInv, DictIsWindow, Header
<1>4. DictIsWindow'
  BY <1>3 DEF DictIsWindow, HoldsLast, Header
<1> QED
  BY <1>1, <1>2, <1>4 DEF IInv, TypeOK, InBounds, Outcome, Header, call

(* The window of the chunk's start survives a byte appended to the output. *)
LEMMA AppendKeeps ==
  ASSUME IInv, NEW b \in Byte, pc = "payload", Produced < Want, out' = Append(out, b),
         back' \in 0..Window, UNCHANGED <<pc, call, start, last, dict, dictSize, status>>
  PROVE  IInv'
<1> USE SizesAssumption
<1>1. /\ out' \in Seq(Byte) /\ Len(out') = Len(out) + 1 /\ Len(out) \in Nat
      /\ \A k \in 1..Len(out) : out'[k] = out[k]
  BY AppendFacts DEF IInv, TypeOK
<1>2. Len(out) < size
  BY <1>1 DEF IInv, TypeOK, InBounds, Produced, Want
<1>3. TypeOK'
  BY <1>1 DEF IInv, TypeOK, call
<1>4. InBounds'
  BY <1>1, <1>2 DEF IInv, TypeOK, InBounds, call
<1>5. DictIsWindow'
  <2>1. HoldsLast(start) /\ start \in Nat /\ dictSize \in Nat /\ start <= Len(out)
    BY DEF IInv, TypeOK, DictIsWindow, InBounds
  <2>2. \A k \in 0..(dictSize - 1) : start - dictSize + 1 + k \in 1..Len(out)
    BY <1>1, <2>1 DEF HoldsLast
  <2>3. HoldsLast(start)'
    BY <1>1, <2>1, <2>2 DEF HoldsLast
  <2> QED
    BY <2>3 DEF DictIsWindow
<1>6. Outcome'
  BY DEF IInv, Outcome, call
<1> QED
  BY <1>3, <1>4, <1>5, <1>6 DEF IInv

(* Every byte a distance can reach is the byte that many positions back.   *)
LEMMA FetchIsLookback ==
  ASSUME IInv, pc = "payload", NEW distance \in 1..Window, distance <= Len(out)
  PROVE  /\ Reachable(distance)
         /\ Fetch(distance) = out[Len(out) + 1 - distance]
         /\ Fetch(distance) \in Byte
<1> USE SizesAssumption
<1>1. /\ HoldsLast(start) /\ start \in Nat /\ dictSize \in Nat /\ start <= Len(out)
      /\ Len(out) \in Nat /\ distance \in Nat /\ distance <= DictCap /\ distance >= 1
  BY DEF IInv, TypeOK, DictIsWindow, InBounds
<1>2. Reachable(distance)
  BY <1>1 DEF Reachable, Produced, HoldsLast
<1>3. Fetch(distance) = out[Len(out) + 1 - distance]
  <2>1. CASE distance <= Produced
    BY <2>1 DEF Fetch
  <2>2. CASE distance > Produced
    <3> DEFINE k == dictSize - (distance - Produced)
    <3>1. k \in 0..(dictSize - 1) /\ start - dictSize + 1 + k = Len(out) + 1 - distance
      BY <1>1, <1>2, <2>2 DEF Reachable, Produced
    <3>2. dict[k] = out[start - dictSize + 1 + k]
      BY <1>1, <3>1 DEF HoldsLast
    <3> QED
      BY <1>1, <2>2, <3>1, <3>2 DEF Fetch, Produced
  <2> QED
    BY <1>1, <2>1, <2>2 DEF Produced
<1>4. Len(out) + 1 - distance \in 1..Len(out)
  BY <1>1
<1>5. out[Len(out) + 1 - distance] \in Byte
  BY <1>4 DEF IInv, TypeOK
<1> QED
  BY <1>2, <1>3, <1>5

(* No distance reaches past the first byte of this call's output.          *)
LEMMA ReachIsOutput ==
  ASSUME IInv, pc = "payload", NEW distance \in 1..Window
  PROVE  Reachable(distance) <=> distance <= Len(out)
BY SizesAssumption
   DEF IInv, TypeOK, InBounds, DictIsWindow, HoldsLast, Reachable, Produced

(* keepDecoded moves the dictionary on to the end of the output.           *)
LEMMA EndChunkKeeps ==
  ASSUME IInv, EndChunk
  PROVE  IInv'
<1> USE SizesAssumption
<1>1. /\ HoldsLast(start) /\ start \in Nat /\ dictSize \in 0..DictCap /\ start <= Len(out)
      /\ Len(out) \in Nat /\ Produced \in Nat /\ Len(out) = start + Produced
  BY DEF IInv, TypeOK, DictIsWindow, InBounds, EndChunk, Produced
<1>2. \A k \in 1..Len(out) : out[k] \in Byte
  BY DEF IInv, TypeOK
<1>3. /\ dict' \in [Slots -> Byte]
      /\ dictSize' = IF Len(out) < DictCap THEN Len(out) ELSE DictCap
      /\ \A k \in 0..(dictSize' - 1) : dict'[k] = out[Len(out) - dictSize' + 1 + k]
  <2> DEFINE avail == DictCap - dictSize
             shift == Produced - avail
  <2>1. CASE /\ Produced >= DictCap
             /\ dict' = [k \in Slots |-> out[Len(out) - DictCap + 1 + k]]
             /\ dictSize' = DictCap
    <3>1. \A k \in Slots : Len(out) - DictCap + 1 + k \in 1..Len(out)
      BY <1>1, <2>1 DEF Slots
    <3> QED
      BY <1>1, <1>2, <2>1, <3>1 DEF Slots
  <2>2. CASE /\ Produced < DictCap /\ Produced <= avail
             /\ dict' = [k \in Slots |-> IF k >= dictSize /\ k < dictSize + Produced
                                           THEN out[start + 1 + k - dictSize] ELSE dict[k]]
             /\ dictSize' = dictSize + Produced
    <3>1. \A k \in Slots : k >= dictSize /\ k < dictSize + Produced =>
            start + 1 + k - dictSize \in 1..Len(out)
      BY <1>1, <2>2 DEF Slots
    <3>2. dict' \in [Slots -> Byte]
      BY <1>2, <2>2, <3>1 DEF IInv, TypeOK
    <3>3. dictSize' = IF Len(out) < DictCap THEN Len(out) ELSE DictCap
      BY <1>1, <2>2 DEF HoldsLast
    <3>4. ASSUME NEW k \in 0..(dictSize' - 1)
          PROVE  dict'[k] = out[Len(out) - dictSize' + 1 + k]
      <4>1. k \in Slots
        BY <1>1, <2>2, <3>4 DEF Slots
      <4>2. CASE k < dictSize
        <5>1. dict'[k] = dict[k]
          BY <1>1, <2>2, <4>1, <4>2
        <5>2. k \in 0..(dictSize - 1)
          BY <1>1, <4>2
        <5>3. dict[k] = out[start - dictSize + 1 + k]
          BY <1>1, <5>2 DEF HoldsLast
        <5>4. start - dictSize + 1 + k = Len(out) - dictSize' + 1 + k
          BY <1>1, <2>2
        <5> QED
          BY <5>1, <5>3, <5>4
      <4>3. CASE k >= dictSize
        <5>1. dict'[k] = out[start + 1 + k - dictSize]
          BY <1>1, <2>2, <3>4, <4>1, <4>3
        <5>2. start + 1 + k - dictSize = Len(out) - dictSize' + 1 + k
          BY <1>1, <2>2
        <5> QED
          BY <5>1, <5>2
      <4> QED
        BY <1>1, <4>2, <4>3
    <3> QED
      BY <3>2, <3>3, <3>4
  <2>3. CASE /\ Produced < DictCap /\ Produced > avail
             /\ dict' = [k \in Slots |-> IF k >= DictCap - Produced
                                           THEN out[start + 1 + k - (DictCap - Produced)]
                                           ELSE dict[k + shift]]
             /\ dictSize' = DictCap
    <3>1. \A k \in Slots :
            IF k >= DictCap - Produced
              THEN start + 1 + k - (DictCap - Produced) \in 1..Len(out)
              ELSE k + shift \in 0..(dictSize - 1)
      BY <1>1, <2>3 DEF Slots
    <3>2. 0..(dictSize - 1) \subseteq Slots
      BY <1>1 DEF Slots
    <3>3. dict' \in [Slots -> Byte]
      <4>1. \A k \in 0..(dictSize - 1) : dict[k] \in Byte
        BY <3>2 DEF IInv, TypeOK
      <4>2. \A k \in Slots : dict'[k] \in Byte
        BY <1>2, <2>3, <3>1, <4>1
      <4> QED
        BY <2>3, <4>2
    <3>4. Len(out) >= DictCap
      BY <1>1, <2>3 DEF HoldsLast
    <3>5. ASSUME NEW k \in 0..(DictCap - 1)
          PROVE  dict'[k] = out[Len(out) - DictCap + 1 + k]
      <4>1. CASE k >= DictCap - Produced
        <5>1. dict'[k] = out[start + 1 + k - (DictCap - Produced)]
          BY <2>3, <3>5, <4>1 DEF Slots
        <5>2. start + 1 + k - (DictCap - Produced) = Len(out) - DictCap + 1 + k
          BY <1>1
        <5> QED
          BY <5>1, <5>2
      <4>2. CASE k < DictCap - Produced
        <5>1. dict'[k] = dict[k + shift]
          BY <1>1, <2>3, <3>5, <4>2 DEF Slots
        <5>2. dict[k + shift] = out[start - dictSize + 1 + (k + shift)]
          <6>1. k + shift \in 0..(dictSize - 1)
            BY <1>1, <3>1, <3>5, <4>2 DEF Slots
          <6> HIDE DEF shift
          <6> QED
            BY <1>1, <6>1 DEF HoldsLast
        <5>3. start - dictSize + 1 + (k + shift) = Len(out) - DictCap + 1 + k
          BY <1>1
        <5> QED
          BY <5>1, <5>2, <5>3
      <4> QED
        BY <1>1, <4>1, <4>2
    <3> QED
      BY <2>3, <3>3, <3>4, <3>5
  <2> QED
    BY <2>1, <2>2, <2>3 DEF EndChunk, KeepDecoded
<1>4. TypeOK'
  BY <1>1, <1>3 DEF IInv, TypeOK, EndChunk, call
<1>5. InBounds'
  <2>1. Len(out) <= size
    BY DEF IInv, InBounds, EndChunk
  <2> QED
    BY <2>1 DEF InBounds, EndChunk, call
<1>6. DictIsWindow'
  BY <1>3 DEF DictIsWindow, HoldsLast, EndChunk
<1> QED
  BY <1>4, <1>5, <1>6 DEF IInv, Outcome, EndChunk, call

(* The final checks let no output of another length pass.                  *)
LEMMA FinishKeeps ==
  ASSUME IInv, Finish
  PROVE  IInv'
BY SizesAssumption DEF IInv, TypeOK, InBounds, DictIsWindow, Outcome, Finish, call

(* The induction step of the decoder.                                      *)
LEMMA StepKeeps == IInv /\ [Next]_vars => IInv'
<1> SUFFICES ASSUME IInv, [Next]_vars PROVE IInv'
  OBVIOUS
<1>1. CASE UNCHANGED vars
  BY <1>1 DEF IInv, TypeOK, InBounds, DictIsWindow, HoldsLast, Outcome, vars
<1>2. CASE \E n, u, peek \in 0..MaxSize, c0 \in {0, 1, PrefixCap} : Begin(n, u, peek, c0)
  BY <1>2, BeginKeeps
<1>3. CASE BadHeader \/ Overrun \/ LZ4Fails \/ FinishFails
  BY <1>3, ErrorKeeps DEF BadHeader, Overrun, LZ4Fails, FinishFails
<1>4. CASE \E isLast \in BOOLEAN : Header(isLast)
  BY <1>4, HeaderKeeps
<1>5. CASE \E b \in Byte : Literal(b)
  <2>1. 0 \in 0..Window
    BY SizesAssumption
  <2> QED
    BY <1>5, <2>1, AppendKeeps DEF Literal
<1>6. ASSUME NEW distance \in 1..Window, Copy(distance)
      PROVE  IInv'
  <2>1. distance <= Len(out)
    BY <1>6, ReachIsOutput DEF Copy
  <2>2. distance \in 0..Window
    BY SizesAssumption
  <2> QED
    BY <1>6, <2>1, <2>2, FetchIsLookback, AppendKeeps DEF Copy
<1>7. CASE EndChunk \/ Finish
  BY <1>7, EndChunkKeeps, FinishKeeps
<1> QED
  BY <1>1, <1>2, <1>3, <1>4, <1>5, <1>6, <1>7 DEF Next

(* The dictionary is the window of the output at every chunk boundary.     *)
THEOREM InductiveInvariance == Spec => []IInv
BY InitIInv, StepKeeps, PTL DEF Spec

(* Every variable keeps its type: the dictionary never outgrows its array. *)
THEOREM TypeCorrect == Spec => []TypeOK
<1>1. IInv => TypeOK
  BY DEF IInv
<1> QED
  BY <1>1, InductiveInvariance, PTL

(* Every back-reference that LZ4 can express resolves to the output byte   *)
(* it means, whatever the chunk sizes and the earlier calls.               *)
THEOREM BackReferencesResolve == Spec => []ReferencesResolve
<1>1. IInv => ReferencesResolve
  BY ReachIsOutput, FetchIsLookback DEF ReferencesResolve
<1> QED
  BY <1>1, InductiveInvariance, PTL

(* A success has the length that the header asks for.                      *)
THEOREM SuccessHasExpectedLength == Spec => []ReaderGetsExpected
<1>1. IInv => ReaderGetsExpected
  BY DEF IInv, Outcome, ReaderGetsExpected
<1> QED
  BY <1>1, InductiveInvariance, PTL

(* The chunked decoder implements the unchunked one.                       *)
THEOREM ChunksAreTransparent == Spec => ImplementsSlidingWindow
<1> USE SizesAssumption
<1>1. Init => Stream!Init
  BY DEF Init, Stream!Init
<1>2. IInv /\ [Next]_vars => [Stream!Next]_(Stream!vars)
  <2> SUFFICES ASSUME IInv, [Next]_vars
               PROVE  Stream!Next \/ UNCHANGED Stream!vars
    OBVIOUS
  <2>1. CASE UNCHANGED vars \/ EndChunk \/ (\E isLast \in BOOLEAN : Header(isLast))
    BY <2>1 DEF vars, EndChunk, Header, call, Stream!vars
  <2>2. ASSUME NEW n \in 0..MaxSize, NEW u \in 0..MaxSize, NEW peek \in 0..MaxSize,
               NEW c0 \in {0, 1, PrefixCap}, Begin(n, u, peek, c0)
        PROVE  Stream!Next
    <3>1. size' \in 0..MaxSize
      BY <2>2 DEF Begin, TargetSize
    <3>2. Stream!Start(size')
      BY <2>2 DEF IInv, Outcome, Begin, Stream!Start
    <3> QED
      BY <3>1, <3>2 DEF Stream!Next
  <2>3. CASE BadHeader \/ Overrun \/ LZ4Fails \/ FinishFails
    BY <2>3 DEF BadHeader, Overrun, LZ4Fails, FinishFails, Error, call, Stream!Next, Stream!Fail
  <2>4. ASSUME pc = "payload", Produced < Want
        PROVE  status = "running" /\ Len(out) < size
    <3>1. status = "running"
      BY <2>4 DEF IInv, TypeOK, Outcome
    <3>2. Len(out) < size
      BY <2>4 DEF IInv, TypeOK, InBounds, Produced, Want
    <3> QED
      BY <3>1, <3>2
  <2>5. ASSUME NEW b \in Byte, Literal(b)
        PROVE  Stream!Next
    BY <2>4, <2>5 DEF Literal, call, Stream!Literal, Stream!Next
  <2>6. ASSUME NEW distance \in 1..Window, Copy(distance)
        PROVE  Stream!Next
    <3>1. distance <= Len(out)
      BY <2>6, ReachIsOutput DEF Copy
    <3>2. Stream!Copy(distance)
      BY <2>4, <2>6, <3>1, FetchIsLookback DEF Copy, call, Stream!Copy
    <3> QED
      BY <3>2 DEF Stream!Next
  <2>7. CASE Finish
    BY <2>7 DEF IInv, TypeOK, Outcome, Finish, call, Stream!Succeed, Stream!Next
  <2> QED
    BY <2>1, <2>2, <2>3, <2>5, <2>6, <2>7 DEF Next
<1> QED
  BY <1>1, <1>2, InductiveInvariance, PTL DEF Spec, ImplementsSlidingWindow, Stream!Spec


-----------------------------------------------------------------------------
(***************************************************************************)
(* The bytes that a run of chunks covers                                   *)
(***************************************************************************)

(* The recursive function that the fold in Covered chooses.                *)
CoversTo(f, cs, n) ==
  f = [s \in SUBSET (1..n) |->
         IF s = {} THEN 0 ELSE f[s \ {Max(s)}] + Len(cs[Max(s)].payload)]

(* The last chunk is the one that the fold takes first.                    *)
LEMMA MaxIsLast ==
  ASSUME NEW n \in Nat, NEW s \in SUBSET (1..n), n \in s
  PROVE  Max(s) = n
<1>1. \A y \in s : n >= y
  OBVIOUS
<1>2. Max(s) \in s /\ \A y \in s : Max(s) >= y
  BY <1>1 DEF Max
<1>3. Max(s) \in 1..n /\ Max(s) >= n
  BY <1>2
<1> QED
  BY <1>3

(* It exists: one more chunk concerns only the sets that it is in.         *)
LEMMA CoversExists ==
  ASSUME NEW cs, NEW n \in Nat
  PROVE  \E f : CoversTo(f, cs, n)
<1> DEFINE T == {k \in Nat : \E f : CoversTo(f, cs, k)}
<1>1. 0 \in T
  <2> DEFINE f == [s \in SUBSET (1..0) |-> 0]
  <2>1. 1..0 = {}
    OBVIOUS
  <2>2. \A s \in SUBSET (1..0) : s = {}
    BY <2>1
  <2>3. CoversTo(f, cs, 0)
    BY <2>2 DEF CoversTo
  <2> QED
    BY <2>3
<1>2. ASSUME NEW k \in Nat, k \in T PROVE k + 1 \in T
  <2>1. PICK f : CoversTo(f, cs, k)
    BY <1>2
  <2> DEFINE more(s) == f[s \ {k + 1}] + Len(cs[k + 1].payload)
             g == [s \in SUBSET (1..(k + 1)) |-> IF k + 1 \in s THEN more(s) ELSE f[s]]
             value(h, s) == IF s = {} THEN 0 ELSE h[s \ {Max(s)}] + Len(cs[Max(s)].payload)
  <2>2. \A s \in SUBSET (1..(k + 1)) : k + 1 \notin s => s \in SUBSET (1..k)
    <3>1. \A i \in 1..(k + 1) : i # k + 1 => i \in 1..k
      OBVIOUS
    <3> QED
      BY <3>1
  <2>3. ASSUME NEW s \in SUBSET (1..(k + 1)) PROVE g[s] = value(g, s)
    <3>1. CASE k + 1 \in s
      <4>1. Max(s) = k + 1
        BY <3>1, MaxIsLast
      <4>2. g[s \ {k + 1}] = f[s \ {k + 1}] /\ s # {}
        BY <3>1
      <4>3. g[s] = more(s)
        BY <3>1
      <4> QED
        BY <4>1, <4>2, <4>3
    <3>2. CASE k + 1 \notin s
      <4>1. s \in SUBSET (1..k) /\ s \ {Max(s)} \in SUBSET (1..k) /\ k + 1 \notin s \ {Max(s)}
            /\ s \ {Max(s)} \in SUBSET (1..(k + 1))
        BY <2>2, <3>2
      <4>2. g[s] = f[s] /\ g[s \ {Max(s)}] = f[s \ {Max(s)}]
        BY <3>2, <4>1
      <4>3. f[s] = value(f, s)
        BY <2>1, <4>1 DEF CoversTo
      <4> QED
        BY <4>2, <4>3
    <3> QED
      BY <3>1, <3>2
  <2>4. g = [s \in SUBSET (1..(k + 1)) |-> value(g, s)]
    <3> DEFINE h == [s \in SUBSET (1..(k + 1)) |-> value(g, s)]
    <3>1. \A s \in SUBSET (1..(k + 1)) : g[s] = h[s]
      BY <2>3
    <3> QED
      BY <3>1
  <2>5. CoversTo(g, cs, k + 1)
    BY <2>4 DEF CoversTo
  <2> QED
    BY <2>5
<1>3. n \in T
  <2> HIDE DEF T
  <2> QED
    BY <1>1, <1>2, NatSetInduction
<1> QED
  BY <1>3

(* Covered is the value of that function on all chunks.                    *)
LEMMA CoveredValue ==
  ASSUME NEW cs, NEW n \in Nat, DOMAIN cs = 1..n
  PROVE  \E f : CoversTo(f, cs, n) /\ Covered(cs) = f[1..n]
<1> DEFINE f == CHOOSE g : CoversTo(g, cs, n)
<1>1. CoversTo(f, cs, n)
  BY CoversExists
<1>2. Covered(cs) = f[1..n]
  BY DEF Covered, FoldLeft, MapThenFoldSet, CoversTo
<1> HIDE DEF f
<1> QED
  BY <1>1, <1>2

(* On the first k + 1 chunks it has that chunk more than on the first k.   *)
LEMMA CoversNext ==
  ASSUME NEW cs, NEW n \in Nat, NEW f, CoversTo(f, cs, n)
  PROVE  /\ f[1..0] = 0
         /\ \A k \in 0..(n - 1) : f[1..(k + 1)] = f[1..k] + Len(cs[k + 1].payload)
<1>0. 1..0 = {}
  OBVIOUS
<1>1. f[1..0] = 0
  BY <1>0 DEF CoversTo
<1>2. ASSUME NEW k \in 0..(n - 1)
      PROVE  f[1..(k + 1)] = f[1..k] + Len(cs[k + 1].payload)
  <2>1. 1..(k + 1) \in SUBSET (1..n) /\ 1..(k + 1) # {} /\ k + 1 \in 1..(k + 1) /\ k + 1 \in Nat
    OBVIOUS
  <2>2. Max(1..(k + 1)) = k + 1
    BY <2>1, MaxIsLast
  <2>3. (1..(k + 1)) \ {k + 1} = 1..k
    OBVIOUS
  <2> QED
    BY <2>1, <2>2, <2>3 DEF CoversTo
<1> QED
  BY <1>1, <1>2


(* What a chunk may be.                                                    *)
AnyChunk == [payload : Seq(Byte), stored : Nat, last : BOOLEAN]

(* Nothing covers nothing; one chunk more covers its payload more.         *)
LEMMA CoveredFacts ==
  /\ Covered(<< >>) = 0
  /\ \A cs \in Seq(AnyChunk), c \in AnyChunk :
       Covered(Append(cs, c)) = Covered(cs) + Len(c.payload)
<1>1. Covered(<< >>) = 0
  <2>1. DOMAIN << >> = 1..0
    OBVIOUS
  <2>2. PICK f : CoversTo(f, << >>, 0) /\ Covered(<< >>) = f[1..0]
    BY <2>1, CoveredValue
  <2> QED
    BY <2>2, CoversNext
<1>2. ASSUME NEW cs \in Seq(AnyChunk), NEW c \in AnyChunk
      PROVE  Covered(Append(cs, c)) = Covered(cs) + Len(c.payload)
  <2> DEFINE n == Len(cs)
             ds == Append(cs, c)
  <2>1. /\ n \in Nat /\ n + 1 \in Nat /\ DOMAIN cs = 1..n /\ DOMAIN ds = 1..(n + 1)
        /\ ds[n + 1] = c /\ \A i \in 1..n : ds[i] = cs[i]
    OBVIOUS
  <2> HIDE DEF n, ds
  <2>2. PICK f : CoversTo(f, cs, n) /\ Covered(cs) = f[1..n]
    BY <2>1, CoveredValue
  <2>3. PICK g : CoversTo(g, ds, n + 1) /\ Covered(ds) = g[1..(n + 1)]
    BY <2>1, CoveredValue
  <2>4. /\ f[1..0] = 0 /\ g[1..0] = 0
        /\ \A k \in 0..(n - 1) : f[1..(k + 1)] = f[1..k] + Len(cs[k + 1].payload)
        /\ \A k \in 0..n : g[1..(k + 1)] = g[1..k] + Len(ds[k + 1].payload)
    <3>1. /\ f[1..0] = 0
          /\ \A k \in 0..(n - 1) : f[1..(k + 1)] = f[1..k] + Len(cs[k + 1].payload)
      BY <2>1, <2>2, CoversNext
    <3>2. PICK m \in Nat : m = n + 1
      BY <2>1
    <3>3. CoversTo(g, ds, m)
      BY <2>3, <3>2
    <3>4. /\ g[1..0] = 0
          /\ \A k \in 0..(m - 1) : g[1..(k + 1)] = g[1..k] + Len(ds[k + 1].payload)
      BY <3>3, CoversNext
    <3>5. m - 1 = n
      BY <2>1, <3>2
    <3> QED
      BY <3>1, <3>4, <3>5
  <2> DEFINE T == {k \in Nat : k <= n => g[1..k] = f[1..k]}
  <2>5. 0 \in T
    BY <2>4
  <2>6. ASSUME NEW k \in Nat, k \in T PROVE k + 1 \in T
    <3>1. SUFFICES ASSUME k + 1 <= n PROVE g[1..(k + 1)] = f[1..(k + 1)]
      OBVIOUS
    <3>2. k \in 0..(n - 1) /\ k \in 0..n /\ k + 1 \in 1..n /\ k <= n
      BY <2>1, <3>1
    <3> QED
      BY <2>1, <2>4, <2>6, <3>2
  <2>7. Nat \subseteq T
    <3> HIDE DEF T
    <3> QED
      BY <2>5, <2>6, NatSetInduction
  <2>8. g[1..n] = f[1..n]
    BY <2>1, <2>7
  <2>9. n \in 0..n
    BY <2>1
  <2>10. Covered(ds) = Covered(cs) + Len(c.payload)
    BY <2>1, <2>2, <2>3, <2>4, <2>8, <2>9
  <2> QED
    BY <2>10 DEF ds
<1> QED
  BY <1>1, <1>2

(* The bytes in front of the k-th chunk.                                   *)
Before(cs, k) == Covered(SubSeq(cs, 1, k - 1))

(* The first chunks of a longer run are those of the run.                  *)
LEMMA PrefixFacts ==
  ASSUME NEW cs \in Seq(AnyChunk)
  PROVE  /\ SubSeq(cs, 1, 0) = << >>
         /\ SubSeq(cs, 1, Len(cs)) = cs
         /\ \A k \in 1..Len(cs) : /\ SubSeq(cs, 1, k - 1) \in Seq(AnyChunk)
                                  /\ SubSeq(cs, 1, k) = Append(SubSeq(cs, 1, k - 1), cs[k])
         /\ \A c \in AnyChunk, k \in 0..Len(cs) :
              SubSeq(Append(cs, c), 1, k) = SubSeq(cs, 1, k)
<1>1. SubSeq(cs, 1, 0) = << >>
  OBVIOUS
<1>2. SubSeq(cs, 1, Len(cs)) = cs
  OBVIOUS
<1>3. ASSUME NEW k \in 1..Len(cs)
      PROVE  /\ SubSeq(cs, 1, k - 1) \in Seq(AnyChunk)
             /\ SubSeq(cs, 1, k) = Append(SubSeq(cs, 1, k - 1), cs[k])
  OBVIOUS
<1>4. ASSUME NEW c \in AnyChunk, NEW k \in 0..Len(cs)
      PROVE  SubSeq(Append(cs, c), 1, k) = SubSeq(cs, 1, k)
  OBVIOUS
<1> QED
  BY <1>1, <1>2, <1>3, <1>4


(* The chunks follow one another without a gap.                            *)
LEMMA BeforeFacts ==
  ASSUME NEW cs \in Seq(AnyChunk)
  PROVE  /\ Before(cs, 1) = 0
         /\ Before(cs, Len(cs) + 1) = Covered(cs)
         /\ \A k \in 1..Len(cs) : Before(cs, k + 1) = Before(cs, k) + Len(cs[k].payload)
         /\ \A k \in 1..(Len(cs) + 1) : Before(cs, k) \in Nat
         /\ \A c \in AnyChunk, k \in 1..(Len(cs) + 1) : Before(Append(cs, c), k) = Before(cs, k)
<1>1. Len(cs) \in Nat /\ 1 - 1 = 0 /\ (Len(cs) + 1) - 1 = Len(cs)
  OBVIOUS
<1>2. Before(cs, 1) = 0
  BY <1>1, PrefixFacts, CoveredFacts DEF Before
<1>3. Before(cs, Len(cs) + 1) = Covered(cs)
  BY <1>1, PrefixFacts DEF Before
<1>4. ASSUME NEW k \in 1..Len(cs)
      PROVE  Before(cs, k + 1) = Before(cs, k) + Len(cs[k].payload)
  <2>1. (k + 1) - 1 = k /\ cs[k] \in AnyChunk
    OBVIOUS
  <2>2. /\ SubSeq(cs, 1, k - 1) \in Seq(AnyChunk)
        /\ SubSeq(cs, 1, k) = Append(SubSeq(cs, 1, k - 1), cs[k])
    BY PrefixFacts
  <2> QED
    BY <2>1, <2>2, CoveredFacts DEF Before
<1>5. \A k \in 1..Len(cs) : Len(cs[k].payload) \in Nat
  <2> TAKE k \in 1..Len(cs)
  <2>1. cs[k] \in AnyChunk
    OBVIOUS
  <2> QED
    BY <2>1 DEF AnyChunk
<1>6. \A k \in 1..(Len(cs) + 1) : Before(cs, k) \in Nat
  <2> DEFINE T == {k \in Nat : k <= Len(cs) => Before(cs, k + 1) \in Nat}
  <2>1. 0 \in T
    BY <1>2
  <2>2. ASSUME NEW k \in Nat, k \in T PROVE k + 1 \in T
    <3>1. SUFFICES ASSUME k + 1 <= Len(cs) PROVE Before(cs, (k + 1) + 1) \in Nat
      OBVIOUS
    <3>2. k + 1 \in 1..Len(cs) /\ k <= Len(cs)
      BY <1>1, <3>1
    <3>3. Before(cs, k + 1) \in Nat
      BY <2>2, <3>2
    <3> QED
      BY <1>4, <1>5, <3>2, <3>3
  <2>3. Nat \subseteq T
    <3> HIDE DEF T
    <3> QED
      BY <2>1, <2>2, NatSetInduction
  <2>4. TAKE k \in 1..(Len(cs) + 1)
  <2>5. k - 1 \in Nat /\ k - 1 <= Len(cs) /\ (k - 1) + 1 = k
    BY <1>1
  <2> QED
    BY <2>3, <2>5
<1>7. ASSUME NEW c \in AnyChunk, NEW k \in 1..(Len(cs) + 1)
      PROVE  Before(Append(cs, c), k) = Before(cs, k)
  <2>1. k - 1 \in 0..Len(cs)
    BY <1>1
  <2> QED
    BY <2>1, PrefixFacts DEF Before
<1> QED
  BY <1>2, <1>3, <1>4, <1>6, <1>7


-----------------------------------------------------------------------------
(***************************************************************************)
(* What the compressor makes, and what the decoder makes of it             *)
(***************************************************************************)

(* Chunk k is the part of the payload that follows the chunks before it;   *)
(* the last one is the one that reaches the end.                           *)
CutsOut(cs, d, k) ==
  /\ Len(cs[k].payload) \in 1..ChunkSize
  /\ cs[k].stored \in 1..(ChunkSize + Slack)
  /\ Before(cs, k + 1) <= Len(d)
  /\ \A i \in 1..Len(cs[k].payload) : cs[k].payload[i] = d[Before(cs, k) + i]
  /\ cs[k].last <=> Before(cs, k + 1) = Len(d)

IsCut(cs, d) == cs \in Seq(AnyChunk) /\ \A k \in 1..Len(cs) : CutsOut(cs, d, k)

LZ4Block ==
  [magic |-> LZ4, size |-> StoredSize(chunks), uncompressed |-> Len(data), chunks |-> chunks]

(* The chunks cut the payload up, and a finished block is one that does.   *)
EncoderInv ==
  /\ stage \in {"idle", "chunks", "total", "done"}
  /\ data \in Seq(Byte) /\ Len(data) <= MaxSize
  /\ IsCut(chunks, data)
  /\ stage = "idle" => chunks = << >>
  /\ stage = "chunks" => step \in 1..ChunkSize /\ Covered(chunks) < Len(data)
  /\ stage = "total" => Covered(chunks) = Len(data) /\ Len(data) > 0
  /\ stage = "done" =>
       \/ block = CopyBlock(data)
       \/ block = LZ4Block /\ Covered(chunks) = Len(data) /\ Len(data) > 0

OutIsPrefix ==
  /\ out \in Seq(Byte)
  /\ Len(out) <= Len(data)
  /\ \A i \in 1..Len(out) : out[i] = data[i]

(* Where the decoder is in the payload, at each of its control points.     *)
AtHeader == turn <= Len(chunks) /\ Len(out) = Before(chunks, turn)

InPayload ==
  /\ turn <= Len(chunks)
  /\ start = Before(chunks, turn)
  /\ start <= Len(out)
  /\ Len(out) <= Before(chunks, turn + 1)
  /\ last = chunks[turn].last

AtEnd == turn = Len(chunks) + 1 /\ Len(out) = Len(data)

Running ==
  /\ stage = "done"
  /\ block = LZ4Block /\ Covered(chunks) = Len(data) /\ Len(data) > 0
  /\ turn \in 1..(Len(chunks) + 1)
  /\ expected = Len(data) /\ stored = 0 /\ size = Len(data)
  /\ OutIsPrefix
  /\ pc \in {"idle", "header", "payload", "finish"}
  /\ pc = "header" => AtHeader
  /\ pc = "payload" => InPayload
  /\ pc \in {"finish", "idle"} => AtEnd
  /\ pc = "idle" => status = "ok"

(* The decoder is at the chunk that its output has come to, and has not    *)
(* met an error.                                                           *)
PInv == EncoderInv /\ IF turn = 0 THEN pc = "idle" ELSE Running


(* A part of a sequence, by where it begins and how long it is.            *)
LEMMA PieceFacts ==
  ASSUME NEW S, NEW s \in Seq(S), NEW a \in Nat, NEW n \in Nat, a + n <= Len(s)
  PROVE  /\ SubSeq(s, a + 1, a + n) \in Seq(S)
         /\ Len(SubSeq(s, a + 1, a + n)) = n
         /\ \A i \in 1..n : SubSeq(s, a + 1, a + n)[i] = s[a + i]
<1>1. (a + n) - (a + 1) + 1 = n
  OBVIOUS
<1>2. Len(SubSeq(s, a + 1, a + n)) = n
  <2>1. SubSeq(s, a + 1, a + n) = [i \in 1..((a + n) - (a + 1) + 1) |-> s[(a + 1) + i - 1]]
    OBVIOUS
  <2> QED
    BY <2>1, <1>1
<1>3. SubSeq(s, a + 1, a + n) \in Seq(S)
  OBVIOUS
<1>4. \A i \in 1..n : SubSeq(s, a + 1, a + n)[i] = s[a + i]
  OBVIOUS
<1> QED
  BY <1>2, <1>3, <1>4

(* One more piece of the payload keeps the chunks a cut of it.             *)
LEMMA CutMore ==
  ASSUME NEW d \in Seq(Byte), NEW cs, IsCut(cs, d), NEW n \in 1..ChunkSize,
         Covered(cs) + n <= Len(d), NEW st \in 1..(ChunkSize + Slack), NEW isLast \in BOOLEAN,
         isLast <=> Covered(cs) + n = Len(d)
  PROVE  LET c == Chunk(SubSeq(d, Covered(cs) + 1, Covered(cs) + n), st, isLast)
         IN  IsCut(Append(cs, c), d) /\ Covered(Append(cs, c)) = Covered(cs) + n
<1> DEFINE at == Covered(cs)
           p == SubSeq(d, at + 1, at + n)
           c == Chunk(p, st, isLast)
           ds == Append(cs, c)
           m == Len(cs)
<1> USE SizesAssumption
<1>1. cs \in Seq(AnyChunk) /\ m \in Nat /\ Len(d) \in Nat /\ n \in Nat
  BY DEF IsCut
<1>2. at \in Nat /\ at = Before(cs, m + 1)
  BY <1>1, BeforeFacts
<1> HIDE DEF at
<1>3. p \in Seq(Byte) /\ Len(p) = n /\ \A i \in 1..n : p[i] = d[at + i]
  <2>1. at + n <= Len(d) /\ at \in Nat /\ n \in Nat
    BY <1>1, <1>2 DEF at
  <2>2. /\ SubSeq(d, at + 1, at + n) \in Seq(Byte)
        /\ Len(SubSeq(d, at + 1, at + n)) = n
        /\ \A i \in 1..n : SubSeq(d, at + 1, at + n)[i] = d[at + i]
    BY <2>1, PieceFacts
  <2> QED
    BY <2>2
<1> HIDE DEF p
<1>4. c \in AnyChunk /\ c.payload = p /\ c.stored = st /\ c.last = isLast
  BY <1>3 DEF Chunk, AnyChunk
<1> HIDE DEF c, m
<1>5. /\ ds \in Seq(AnyChunk) /\ Len(ds) = m + 1 /\ ds[m + 1] = c
      /\ \A k \in 1..m : ds[k] = cs[k]
  BY <1>1, <1>4 DEF m
<1>6. \A k \in 1..(m + 1) : Before(ds, k) = Before(cs, k)
  BY <1>1, <1>4, BeforeFacts DEF m
<1> HIDE DEF ds
<1>7. Before(ds, m + 2) = at + n /\ Covered(ds) = at + n
  <2>1. m + 1 \in 1..Len(ds) /\ (m + 1) + 1 = m + 2 /\ Len(ds) + 1 = m + 2
    BY <1>1, <1>5
  <2>2. Before(ds, (m + 1) + 1) = Before(ds, m + 1) + Len(ds[m + 1].payload)
    BY <1>5, <2>1, BeforeFacts
  <2>3. Before(ds, Len(ds) + 1) = Covered(ds)
    BY <1>5, BeforeFacts
  <2>4. Before(ds, m + 1) = at
    BY <1>1, <1>2, <1>6
  <2> QED
    BY <1>3, <1>4, <1>5, <2>1, <2>2, <2>3, <2>4
<1>8. ASSUME NEW k \in 1..(m + 1) PROVE CutsOut(ds, d, k)
  <2>1. CASE k = m + 1
    <3>1. Before(ds, k) = at /\ Before(ds, k + 1) = at + n /\ ds[k] = c
      <4>1. k + 1 = m + 2
        BY <1>1, <2>1
      <4> QED
        BY <4>1, <1>2, <1>5, <1>6, <1>7, <2>1
    <3>2. at + n <= Len(d) /\ (isLast <=> at + n = Len(d))
      BY DEF at
    <3> QED
      BY <1>3, <1>4, <3>1, <3>2 DEF CutsOut
  <2>2. CASE k # m + 1
    <3>1. k \in 1..m /\ k + 1 \in 1..(m + 1)
      BY <1>1, <2>2
    <3>2. CutsOut(cs, d, k)
      BY <3>1 DEF IsCut, m
    <3> QED
      BY <3>1, <3>2, <1>5, <1>6 DEF CutsOut
  <2> QED
    BY <2>1, <2>2
<1>9. IsCut(ds, d)
  BY <1>5, <1>8 DEF IsCut
<1> QED
  BY <1>7, <1>9 DEF ds, c, p, at

(* The chunks of a whole payload: none is empty, and the last one is.      *)
LEMMA CutFacts ==
  ASSUME NEW d \in Seq(Byte), NEW cs, IsCut(cs, d), Covered(cs) = Len(d), Len(d) > 0
  PROVE  /\ Len(cs) \in Nat \ {0}
         /\ Before(cs, 1) = 0
         /\ \A k \in 1..Len(cs) :
              /\ Before(cs, k) \in Nat
              /\ Before(cs, k + 1) = Before(cs, k) + Len(cs[k].payload)
              /\ Len(cs[k].payload) \in 1..ChunkSize
              /\ cs[k].stored \in 1..(ChunkSize + Slack)
              /\ cs[k].last \in BOOLEAN
              /\ Before(cs, k + 1) <= Len(d)
              /\ \A i \in 1..Len(cs[k].payload) : cs[k].payload[i] = d[Before(cs, k) + i]
              /\ cs[k].last <=> k = Len(cs)
              /\ k = Len(cs) => Before(cs, k + 1) = Len(d)
<1> USE SizesAssumption
<1>1. cs \in Seq(AnyChunk) /\ Len(cs) \in Nat /\ Len(d) \in Nat
  BY DEF IsCut
<1>2. Before(cs, 1) = 0 /\ Before(cs, Len(cs) + 1) = Len(d)
  BY <1>1, BeforeFacts
<1>3. Len(cs) # 0
  BY <1>1, <1>2
<1>4. ASSUME NEW k \in 1..Len(cs)
      PROVE  /\ Before(cs, k) \in Nat
             /\ Before(cs, k + 1) = Before(cs, k) + Len(cs[k].payload)
             /\ CutsOut(cs, d, k)
  BY <1>1, BeforeFacts DEF IsCut
<1>5. \A k \in 1..Len(cs) : cs[k].last \in BOOLEAN
  <2> TAKE k \in 1..Len(cs)
  <2>1. cs[k] \in AnyChunk
    BY <1>1
  <2> QED
    BY <2>1 DEF AnyChunk
<1>6. ASSUME NEW k \in 1..Len(cs), k # Len(cs) PROVE Before(cs, k + 1) < Len(d)
  <2>1. k + 1 \in 1..Len(cs)
    BY <1>1, <1>6
  <2>2. /\ Before(cs, k + 1) \in Nat
        /\ Before(cs, (k + 1) + 1) = Before(cs, k + 1) + Len(cs[k + 1].payload)
        /\ Before(cs, (k + 1) + 1) <= Len(d)
        /\ Len(cs[k + 1].payload) \in 1..ChunkSize
    BY <2>1, <1>4 DEF CutsOut
  <2> QED
    BY <1>1, <2>2
<1>7. ASSUME NEW k \in 1..Len(cs)
      PROVE  /\ cs[k].last <=> k = Len(cs)
             /\ k = Len(cs) => Before(cs, k + 1) = Len(d)
  <2>1. cs[k].last <=> Before(cs, k + 1) = Len(d)
    BY <1>4 DEF CutsOut
  <2>2. CASE k = Len(cs)
    BY <1>2, <2>1, <2>2
  <2>3. CASE k # Len(cs)
    <3>1. Before(cs, k + 1) # Len(d)
      BY <1>1, <1>6, <2>3
    <3> QED
      BY <2>1, <2>3, <3>1
  <2> QED
    BY <2>2, <2>3
<1> QED
  BY <1>1, <1>2, <1>3, <1>4, <1>5, <1>7 DEF CutsOut

(* The same of one chunk.                                                  *)
LEMMA ChunkFacts ==
  ASSUME NEW d \in Seq(Byte), NEW cs, IsCut(cs, d), Covered(cs) = Len(d), Len(d) > 0,
         NEW k \in 1..Len(cs)
  PROVE  /\ Before(cs, k) \in Nat
         /\ Before(cs, k + 1) = Before(cs, k) + Len(cs[k].payload)
         /\ Len(cs[k].payload) \in 1..ChunkSize
         /\ cs[k].stored \in 1..(ChunkSize + Slack)
         /\ cs[k].last \in BOOLEAN
         /\ Before(cs, k + 1) <= Len(d)
         /\ cs[k].last <=> k = Len(cs)
         /\ k = Len(cs) => Before(cs, k + 1) = Len(d)
BY CutFacts

(* No chunks are a cut that covers nothing.                                *)
LEMMA NothingIsCut ==
  ASSUME NEW d
  PROVE  IsCut(<< >>, d) /\ Covered(<< >>) = 0
<1>1. << >> \in Seq(AnyChunk) /\ Len(<< >>) = 0 /\ 1..0 = {}
  OBVIOUS
<1> QED
  BY <1>1, CoveredFacts DEF IsCut

(* A payload is a sequence of bytes that the decoder's bound covers.       *)
LEMMA PayloadFacts ==
  ASSUME NEW p \in Payloads
  PROVE  p \in Seq(Byte) /\ Len(p) \in Nat /\ Len(p) <= MaxSize
BY PayloadsAssumption, PipelineAssumption

(* A COPY block has no chunks.                                             *)
LEMMA StoreKeeps ==
  ASSUME EncoderInv, NEW p \in Payloads, NEW o \in Options, Store(p, o)
  PROVE  EncoderInv'
<1>1. stage' = "done" /\ data' = p /\ chunks' = << >> /\ block' = CopyBlock(data')
  BY DEF EncoderInv, Store
<1>2. IsCut(chunks, data)'
  BY <1>1, NothingIsCut
<1> QED
  BY <1>1, <1>2, PayloadFacts DEF EncoderInv

(* A compression begins with nothing covered.                              *)
LEMMA CompressKeeps ==
  ASSUME EncoderInv, NEW p \in Payloads, NEW o \in Options, Compress(p, o)
  PROVE  EncoderInv'
<1>1. stage' = "chunks" /\ data' = p /\ chunks' = << >> /\ step' \in 1..ChunkSize
      /\ Len(p) >= MinCompress
  BY DEF EncoderInv, Compress, ValidOptions
<1>2. IsCut(chunks, data)'
  BY <1>1, NothingIsCut
<1>3. Covered(chunks)' < Len(data)'
  BY <1>1, NothingIsCut, PayloadFacts, PipelineAssumption
<1> QED
  BY <1>1, <1>2, <1>3, PayloadFacts DEF EncoderInv

(* What is left, and how much of it the next chunk takes.                  *)
LEMMA NextPiece ==
  ASSUME EncoderInv, stage = "chunks"
  PROVE  /\ Len(data) \in Nat /\ Covered(chunks) \in Nat
         /\ Remaining \in Nat \ {0} /\ Remaining = Len(data) - Covered(chunks)
         /\ ChunkLength \in 1..ChunkSize /\ ChunkLength <= Remaining
<1> USE SizesAssumption
<1>1. Len(data) \in Nat /\ step \in 1..ChunkSize /\ Covered(chunks) < Len(data)
  BY DEF EncoderInv
<1>2. Covered(chunks) \in Nat
  <2>1. chunks \in Seq(AnyChunk) /\ Len(chunks) + 1 \in 1..(Len(chunks) + 1)
    BY DEF EncoderInv, IsCut
  <2> QED
    BY <2>1, BeforeFacts
<1>3. Remaining \in Nat \ {0} /\ Remaining = Len(data) - Covered(chunks)
  BY <1>1, <1>2 DEF Remaining
<1>4. ChunkLength \in 1..ChunkSize /\ ChunkLength <= Remaining
  BY <1>1, <1>3 DEF ChunkLength
<1> QED
  BY <1>1, <1>2, <1>3, <1>4

(* The next chunk begins where the last one ended.                         *)
LEMMA AddChunkKeeps ==
  ASSUME EncoderInv, NEW cn \in 0..(ChunkLength + Slack), AddChunk(cn)
  PROVE  EncoderInv'
<1> DEFINE n == ChunkLength
           at == Covered(chunks)
           isLast == n = Remaining
           c == Chunk(SubSeq(data, at + 1, at + n), cn, isLast)
<1>1. stage = "chunks" /\ cn \in 1..ChunkCap /\ UNCHANGED <<data, step, ratio, block>>
      /\ chunks' = Append(chunks, c) /\ stage' = IF isLast THEN "total" ELSE "chunks"
  BY DEF AddChunk, Source
<1>2. /\ Len(data) \in Nat /\ at \in Nat /\ Remaining \in Nat \ {0}
      /\ Remaining = Len(data) - at /\ n \in 1..ChunkSize /\ n <= Remaining
  BY <1>1, NextPiece
<1> HIDE DEF n, at
<1>3. /\ isLast \in BOOLEAN /\ at + n <= Len(data) /\ at = Covered(chunks)
      /\ isLast <=> at + n = Len(data)
  BY <1>2, SizesAssumption DEF at
<1>4. cn \in 1..(ChunkSize + Slack)
  BY <1>1, <1>2, SizesAssumption, PipelineAssumption DEF n
<1>5. data \in Seq(Byte) /\ IsCut(chunks, data)
  BY DEF EncoderInv
<1> HIDE DEF isLast
<1>6. IsCut(Append(chunks, c), data) /\ Covered(Append(chunks, c)) = at + n
  BY <1>2, <1>3, <1>4, <1>5, CutMore
<1> HIDE DEF c
<1>7. IsCut(chunks, data)' /\ Covered(chunks)' = at + n
  BY <1>1, <1>6
<1>8. stage' = "chunks" => Covered(chunks)' < Len(data)'
  BY <1>1, <1>2, <1>3, <1>7, SizesAssumption
<1>9. stage' = "total" => Covered(chunks)' = Len(data)' /\ Len(data)' > 0
  BY <1>1, <1>2, <1>3, <1>7
<1>10. stage' \in {"total", "chunks"}
  BY <1>1
<1> QED
  BY <1>1, <1>7, <1>8, <1>9, <1>10 DEF EncoderInv

(* A block that gives up is the payload itself.                            *)
LEMMA GiveUpKeeps ==
  ASSUME EncoderInv, NEW cn, GiveUp(cn)
  PROVE  EncoderInv'
<1>1. stage' = "done" /\ block' = CopyBlock(data) /\ UNCHANGED <<data, step, ratio, chunks>>
  BY DEF GiveUp
<1>2. block' = CopyBlock(data)'
  BY <1>1 DEF CopyBlock
<1> QED
  BY <1>1, <1>2 DEF EncoderInv

(* A compression that fails leaves no block.                               *)
LEMMA CompressFailsKeeps ==
  ASSUME EncoderInv, CompressFails
  PROVE  EncoderInv'
BY NothingIsCut DEF EncoderInv, CompressFails

(* The loop ends when the chunks have covered the payload.                 *)
LEMMA TotalKeeps ==
  ASSUME EncoderInv, Total
  PROVE  EncoderInv'
<1>1. stage = "total" /\ UNCHANGED <<data, step, ratio>>
  BY DEF Total
<1>2. CASE stage' = "idle" /\ chunks' = << >>
  BY <1>1, <1>2, NothingIsCut DEF EncoderInv
<1>3. CASE stage' = "done" /\ chunks' = chunks /\ block' = CopyBlock(data)
  BY <1>1, <1>3 DEF EncoderInv, CopyBlock
<1>4. CASE /\ stage' = "done" /\ chunks' = chunks
           /\ block' = [magic |-> LZ4, size |-> StoredSize(chunks),
                        uncompressed |-> Len(data), chunks |-> chunks]
  <2>1. block' = LZ4Block'
    BY <1>1, <1>4 DEF LZ4Block
  <2> QED
    BY <1>1, <1>4, <2>1 DEF EncoderInv
<1> QED
  BY <1>2, <1>3, <1>4 DEF Total

(* The compressor keeps what it has cut, and hands its block out once.     *)
LEMMA EncodeKeeps ==
  ASSUME EncoderInv, ENext
  PROVE  EncoderInv' /\ stage # "done"
<1>1. stage # "done"
  BY DEF ENext, Store, Compress, AddChunk, GiveUp, CompressFails, Total
<1>2. CASE \E p \in Payloads, o \in Options : Store(p, o) \/ Compress(p, o)
  BY <1>1, <1>2, StoreKeeps, CompressKeeps
<1>3. CASE \E cn \in 0..(ChunkLength + Slack) : AddChunk(cn) \/ GiveUp(cn)
  BY <1>1, <1>3, AddChunkKeeps, GiveUpKeeps
<1>4. CASE CompressFails \/ Total
  BY <1>1, <1>4, CompressFailsKeeps, TotalKeeps
<1> QED
  BY <1>1, <1>2, <1>3, <1>4 DEF ENext

(* The block stays what it is while the decoder works.                     *)
LEMMA BlockStays ==
  ASSUME EncoderInv, UNCHANGED evars
  PROVE  /\ EncoderInv'
         /\ chunks' = chunks /\ data' = data /\ stage' = stage /\ block' = block
         /\ LZ4Block' = LZ4Block /\ Covered(chunks)' = Covered(chunks)
BY DEF EncoderInv, evars, LZ4Block, CopyBlock, IsCut, CutsOut

(* Of the two kinds of block the decoder is given one.                     *)
LEMMA BlockFacts ==
  ASSUME EncoderInv, stage = "done", block.magic = LZ4
  PROVE  block = LZ4Block /\ Covered(chunks) = Len(data) /\ Len(data) > 0
<1>1. CopyBlock(data).magic # LZ4
  BY DEF CopyBlock, COPY, LZ4
<1> QED
  BY <1>1 DEF EncoderInv

(* The decoder takes the prefix of the block for one, and stands at chunk 1. *)
LEMMA OpenKeeps ==
  ASSUME PInv, Open
  PROVE  PInv'
<1> USE SizesAssumption, PipelineAssumption
<1>1. EncoderInv /\ stage = "done" /\ turn = 0 /\ turn' = 1 /\ UNCHANGED evars
      /\ Begin(Len(data), 0, block.uncompressed, block.chunks[1].stored)
  BY DEF PInv, Open, Written
<1>2. block = LZ4Block /\ Covered(chunks) = Len(data) /\ Len(data) > 0
  BY <1>1, BlockFacts DEF Open
<1>3. data \in Seq(Byte) /\ IsCut(chunks, data) /\ Len(data) \in Nat
  BY <1>1 DEF EncoderInv
<1>4. Len(chunks) \in Nat \ {0} /\ Before(chunks, 1) = 0
  BY <1>2, <1>3, CutFacts
<1>5. /\ EncoderInv' /\ chunks' = chunks /\ data' = data /\ stage' = stage /\ block' = block
      /\ LZ4Block' = LZ4Block /\ Covered(chunks)' = Covered(chunks)
  BY <1>1, BlockStays
<1>6. /\ expected' = Len(data) /\ stored' = 0 /\ size' = Len(data)
      /\ out' = << >> /\ pc' = "header"
  BY <1>1, <1>2, <1>3 DEF Begin, HasPrefix, TargetSize, LZ4Block
<1>7. OutIsPrefix'
  BY <1>3, <1>5, <1>6 DEF OutIsPrefix
<1>8. AtHeader'
  <2>1. Before(chunks, turn)' = Before(chunks, 1)
    BY <1>1, <1>5
  <2>2. Len(out') = 0 /\ 1 <= Len(chunks)
    BY <1>4, <1>6
  <2> QED
    BY <1>1, <1>4, <1>5, <2>1, <2>2 DEF AtHeader
<1>9. turn' \in 1..(Len(chunks') + 1)
  BY <1>1, <1>4, <1>5
<1>10. Running'
  BY <1>1, <1>2, <1>5, <1>6, <1>7, <1>8, <1>9 DEF Running
<1> QED
  BY <1>1, <1>5, <1>10 DEF PInv

(* What a step of a running decode knows, and what it leaves alone.        *)
LEMMA DecodingFacts ==
  ASSUME PInv, Decoding, pc # "idle", UNCHANGED evars
  PROVE  /\ turn # 0 /\ Running /\ EncoderInv
         /\ data \in Seq(Byte) /\ Len(data) \in Nat /\ IsCut(chunks, data)
         /\ block.chunks = chunks /\ block.uncompressed = Len(data)
         /\ EncoderInv' /\ chunks' = chunks /\ data' = data /\ stage' = stage
         /\ block' = LZ4Block' /\ Covered(chunks)' = Len(data)' /\ Len(data)' > 0
         /\ Len(chunks) \in Nat \ {0} /\ turn \in 1..(Len(chunks) + 1)
<1>1. turn # 0 /\ Running /\ EncoderInv
  BY DEF PInv
<1>2. data \in Seq(Byte) /\ Len(data) \in Nat /\ IsCut(chunks, data)
  BY <1>1 DEF EncoderInv
<1>3. block = LZ4Block /\ Covered(chunks) = Len(data) /\ Len(data) > 0
  BY <1>1 DEF Running
<1>4. block.chunks = chunks /\ block.uncompressed = Len(data)
  BY <1>3 DEF LZ4Block
<1>5. Len(chunks) \in Nat \ {0}
  BY <1>2, <1>3, CutFacts
<1> QED
  BY <1>1, <1>2, <1>3, <1>4, <1>5, BlockStays DEF Running

(* The header of the next chunk is found where the last one ended.         *)
LEMMA NextHeaderKeeps ==
  ASSUME PInv, NextHeader
  PROVE  PInv' /\ turn \in 1..Len(chunks) /\ chunks[turn].last \in BOOLEAN
               /\ Header(chunks[turn].last)
<1> USE SizesAssumption, PipelineAssumption
<1>1. Decoding /\ pc = "header" /\ UNCHANGED evars /\ turn' = turn
  BY DEF NextHeader
<1>2. /\ turn # 0 /\ Running /\ EncoderInv
      /\ data \in Seq(Byte) /\ Len(data) \in Nat /\ IsCut(chunks, data)
      /\ block.chunks = chunks /\ block.uncompressed = Len(data)
      /\ EncoderInv' /\ chunks' = chunks /\ data' = data /\ stage' = stage
      /\ block' = LZ4Block' /\ Covered(chunks)' = Len(data)' /\ Len(data)' > 0
      /\ Len(chunks) \in Nat \ {0} /\ turn \in 1..(Len(chunks) + 1)
  BY <1>1, DecodingFacts
<1>3. /\ expected = Len(data) /\ stored = 0 /\ size = Len(data)
      /\ Covered(chunks) = Len(data) /\ Len(data) > 0
      /\ OutIsPrefix /\ AtHeader
  BY <1>1, <1>2 DEF Running
<1>4. turn \in 1..Len(chunks) /\ 1 \in 1..Len(chunks)
  BY <1>2, <1>3 DEF AtHeader
<1>5. /\ Before(chunks, turn) \in Nat
      /\ Before(chunks, turn + 1) = Before(chunks, turn) + Len(chunks[turn].payload)
      /\ Len(chunks[turn].payload) \in 1..ChunkSize
      /\ Before(chunks, turn + 1) <= Len(data)
      /\ chunks[turn].last \in BOOLEAN
      /\ chunks[1].stored \in 1..(ChunkSize + Slack)
  BY <1>2, <1>3, <1>4, ChunkFacts
<1>6. Aligned
  <2>1. chunks[1].stored \in 1..(PrefixCap - 1)
    BY <1>5
  <2> QED
    BY <1>2, <1>3, <2>1 DEF Aligned, HasPrefix, TargetSize
<1>7. Len(out) = Before(chunks, turn) /\ Len(out) < size /\ turn <= Len(chunks)
  BY <1>3, <1>4, <1>5 DEF AtHeader
<1>8. Header(chunks[turn].last)
  BY <1>2, <1>6, <1>7 DEF NextHeader, Current
<1>9. /\ pc' = "payload" /\ start' = Len(out) /\ last' = chunks[turn].last /\ out' = out
      /\ UNCHANGED call
  BY <1>8 DEF Header
<1>10. InPayload'
  <2>1. Before(chunks, turn)' = Before(chunks, turn)
        /\ Before(chunks, turn + 1)' = Before(chunks, turn + 1)
    BY <1>1, <1>2
  <2>2. Len(out) <= Before(chunks, turn + 1) /\ Len(out) \in Nat
    BY <1>5, <1>7
  <2> QED
    BY <1>1, <1>2, <1>7, <1>9, <2>1, <2>2 DEF InPayload
<1>11. OutIsPrefix'
  BY <1>2, <1>3, <1>9 DEF OutIsPrefix
<1>12. Running'
  BY <1>1, <1>2, <1>3, <1>9, <1>10, <1>11 DEF Running, call
<1> QED
  BY <1>1, <1>2, <1>4, <1>5, <1>8, <1>12 DEF PInv


(* The next byte that the library produces is the payload's, and dst has   *)
(* room for it.                                                            *)
LEMMA ByteFacts ==
  ASSUME PInv, NextByte
  PROVE  /\ data \in Seq(Byte) /\ Len(data) \in Nat /\ Len(out) \in Nat
         /\ turn \in 1..Len(chunks) /\ Current = chunks[turn]
         /\ Before(chunks, turn + 1) = Before(chunks, turn) + Len(Current.payload)
         /\ Before(chunks, turn + 1) <= Len(data)
         /\ Produced < Want /\ ~(Produced >= Want)
         /\ Len(out) < Before(chunks, turn + 1)
         /\ Len(out) + 1 \in 1..Len(data)
         /\ Current.payload[Produced + 1] = data[Len(out) + 1]
<1> USE SizesAssumption
<1>1. Decoding /\ pc = "payload" /\ UNCHANGED evars /\ Produced < Len(Current.payload)
  BY DEF NextByte
<1>2. /\ turn # 0 /\ Running /\ data \in Seq(Byte) /\ Len(data) \in Nat /\ IsCut(chunks, data)
      /\ block.chunks = chunks /\ Len(chunks) \in Nat \ {0} /\ turn \in 1..(Len(chunks) + 1)
  BY <1>1, DecodingFacts
<1>3. /\ size = Len(data) /\ Covered(chunks) = Len(data) /\ Len(data) > 0
      /\ OutIsPrefix /\ InPayload
  BY <1>1, <1>2 DEF Running
<1>4. turn \in 1..Len(chunks) /\ Current = chunks[turn]
  BY <1>2, <1>3 DEF InPayload, Current
<1>5. /\ Before(chunks, turn) \in Nat
      /\ Before(chunks, turn + 1) = Before(chunks, turn) + Len(Current.payload)
      /\ Len(Current.payload) \in 1..ChunkSize
      /\ Before(chunks, turn + 1) <= Len(data)
      /\ \A i \in 1..Len(Current.payload) : Current.payload[i] = data[Before(chunks, turn) + i]
  <2>1. /\ Before(chunks, turn) \in Nat
        /\ Before(chunks, turn + 1) = Before(chunks, turn) + Len(chunks[turn].payload)
        /\ Len(chunks[turn].payload) \in 1..ChunkSize
        /\ Before(chunks, turn + 1) <= Len(data)
    BY <1>2, <1>3, <1>4, CutFacts
  <2>2. \A i \in 1..Len(chunks[turn].payload) :
          chunks[turn].payload[i] = data[Before(chunks, turn) + i]
    BY <1>2, <1>4 DEF IsCut, CutsOut
  <2> QED
    BY <1>4, <2>1, <2>2
<1>6. /\ Len(out) \in Nat /\ start = Before(chunks, turn) /\ start <= Len(out)
      /\ Produced = Len(out) - start
  BY <1>3 DEF InPayload, OutIsPrefix, Produced
<1>7. Produced < Want /\ ~(Produced >= Want)
  <2> DEFINE p == Len(Current.payload)
             b == Before(chunks, turn)
  <2>1. /\ p \in 1..ChunkSize /\ b \in Nat /\ b + p <= Len(data)
        /\ Produced \in Nat /\ Produced < p /\ size = Len(data) /\ start = b
    BY <1>1, <1>3, <1>5, <1>6
  <2> HIDE DEF p, b
  <2>2. size - start \in Nat /\ Produced < size - start /\ Produced < ChunkSize
    BY <1>2, <2>1
  <2> QED
    BY <2>1, <2>2 DEF Want
<1>8. Produced + 1 \in 1..Len(Current.payload) /\ Before(chunks, turn) + (Produced + 1) = Len(out) + 1
  BY <1>1, <1>5, <1>6
<1>9. Len(out) < Before(chunks, turn + 1) /\ Len(out) + 1 \in 1..Len(data)
  <2> DEFINE p == Len(Current.payload)
             b == Before(chunks, turn)
             e == Before(chunks, turn + 1)
             o == Len(out)
  <2>1. /\ p \in Nat /\ b \in Nat /\ e = b + p /\ e <= Len(data) /\ o \in Nat
        /\ Produced + 1 <= p /\ b + (Produced + 1) = o + 1 /\ Produced = o - b
    BY <1>5, <1>6, <1>8
  <2> HIDE DEF p, b, e, o
  <2>2. o < e /\ o + 1 \in 1..Len(data)
    BY <1>2, <2>1
  <2> QED
    BY <2>2 DEF o, e
<1>10. Current.payload[Produced + 1] = data[Len(out) + 1]
  <2>1. Current.payload[Produced + 1] = data[Before(chunks, turn) + (Produced + 1)]
    BY <1>5, <1>8
  <2> QED
    BY <1>8, <2>1
<1> QED
  BY <1>2, <1>4, <1>5, <1>6, <1>7, <1>9, <1>10

(* Each byte of a chunk is the byte of the payload that comes next.        *)
LEMMA NextByteKeeps ==
  ASSUME PInv, NextByte
  PROVE  PInv'
<1> USE SizesAssumption
<1>1. Decoding /\ pc = "payload" /\ UNCHANGED evars /\ turn' = turn
  BY DEF NextByte
<1>2. /\ turn # 0 /\ Running /\ EncoderInv
      /\ EncoderInv' /\ chunks' = chunks /\ data' = data /\ stage' = stage
      /\ block' = LZ4Block' /\ Covered(chunks)' = Len(data)' /\ Len(data)' > 0
  BY <1>1, DecodingFacts
<1>3. /\ data \in Seq(Byte) /\ Len(data) \in Nat /\ Len(out) \in Nat
      /\ turn \in 1..Len(chunks)
      /\ Before(chunks, turn + 1) <= Len(data) /\ ~(Produced >= Want)
      /\ Len(out) < Before(chunks, turn + 1)
      /\ Len(out) + 1 \in 1..Len(data)
      /\ Current.payload[Produced + 1] = data[Len(out) + 1]
  BY ByteFacts
<1>4. /\ out' = Append(out, data[Len(out) + 1])
      /\ UNCHANGED <<pc, call, start, last, status>>
  <2>1. ~(Produced >= Want)
    BY <1>3
  <2>2. CASE Literal(Current.payload[Produced + 1])
    BY <1>3, <2>2 DEF Literal
  <2>3. CASE \E distance \in 1..Window :
               /\ distance <= Produced
               /\ Fetch(distance) = Current.payload[Produced + 1]
               /\ Copy(distance)
    BY <1>3, <2>3 DEF Copy
  <2> QED
    BY <2>1, <2>2, <2>3 DEF NextByte
<1>5. out \in Seq(Byte) /\ (\A i \in 1..Len(out) : out[i] = data[i]) /\ InPayload
  BY <1>1, <1>2 DEF Running, OutIsPrefix
<1>6. data[Len(out) + 1] \in Byte
  BY <1>3
<1>7. /\ out' \in Seq(Byte) /\ Len(out') = Len(out) + 1
      /\ out'[Len(out) + 1] = data[Len(out) + 1]
      /\ \A i \in 1..Len(out) : out'[i] = out[i]
  BY <1>4, <1>5, <1>6, AppendFacts
<1>8. OutIsPrefix'
  <2>1. \A i \in 1..(Len(out) + 1) : i \in 1..Len(out) \/ i = Len(out) + 1
    BY <1>3
  <2>2. \A i \in 1..(Len(out) + 1) : out'[i] = data[i]
    BY <1>5, <1>7, <2>1
  <2> QED
    BY <1>2, <1>3, <1>7, <2>2 DEF OutIsPrefix
<1>9. InPayload'
  <2>1. Before(chunks, turn)' = Before(chunks, turn)
        /\ Before(chunks, turn + 1)' = Before(chunks, turn + 1)
    BY <1>1, <1>2
  <2>2. Before(chunks, turn) \in Nat /\ Before(chunks, turn + 1) \in Nat
    <3>1. chunks \in Seq(AnyChunk) /\ turn \in 1..(Len(chunks) + 1)
          /\ turn + 1 \in 1..(Len(chunks) + 1)
      BY <1>2, <1>3 DEF EncoderInv, IsCut
    <3> QED
      BY <3>1, BeforeFacts
  <2> QED
    BY <1>1, <1>2, <1>3, <1>4, <1>5, <1>7, <2>1, <2>2 DEF InPayload
<1>10. Running'
  BY <1>1, <1>2, <1>4, <1>8, <1>9 DEF Running, call
<1> QED
  BY <1>1, <1>2, <1>10 DEF PInv

(* A chunk ends where the next one begins, or the payload does.            *)
LEMMA ChunkDoneKeeps ==
  ASSUME PInv, ChunkDone
  PROVE  PInv'
<1> USE SizesAssumption
<1>1. Decoding /\ pc = "payload" /\ UNCHANGED evars /\ turn' = turn + 1
      /\ Produced = Len(Current.payload) /\ EndChunk
  BY DEF ChunkDone
<1>2. /\ turn # 0 /\ Running /\ EncoderInv
      /\ data \in Seq(Byte) /\ Len(data) \in Nat /\ IsCut(chunks, data)
      /\ block.chunks = chunks
      /\ EncoderInv' /\ chunks' = chunks /\ data' = data /\ stage' = stage
      /\ block' = LZ4Block' /\ Covered(chunks)' = Len(data)' /\ Len(data)' > 0
      /\ Len(chunks) \in Nat \ {0} /\ turn \in 1..(Len(chunks) + 1)
  BY <1>1, DecodingFacts
<1>3. /\ Covered(chunks) = Len(data) /\ Len(data) > 0 /\ OutIsPrefix /\ InPayload
      /\ Len(out) \in Nat
  BY <1>1, <1>2 DEF Running, OutIsPrefix
<1>4. turn \in 1..Len(chunks) /\ Current = chunks[turn]
  BY <1>2, <1>3 DEF InPayload, Current
<1>5. /\ Before(chunks, turn) \in Nat
      /\ Before(chunks, turn + 1) = Before(chunks, turn) + Len(Current.payload)
      /\ Len(Current.payload) \in Nat
      /\ chunks[turn].last <=> turn = Len(chunks)
      /\ turn = Len(chunks) => Before(chunks, turn + 1) = Len(data)
  <2>1. IsCut(chunks, data) /\ Covered(chunks) = Len(data) /\ Len(data) > 0 /\ data \in Seq(Byte)
    BY <1>2, <1>3
  <2>2. /\ Before(chunks, turn) \in Nat
        /\ Before(chunks, turn + 1) = Before(chunks, turn) + Len(chunks[turn].payload)
        /\ Len(chunks[turn].payload) \in 1..ChunkSize
        /\ chunks[turn].last <=> turn = Len(chunks)
        /\ turn = Len(chunks) => Before(chunks, turn + 1) = Len(data)
    BY <1>4, <2>1, ChunkFacts
  <2>3. Len(chunks[turn].payload) \in Nat
    BY <2>2
  <2> QED
    BY <1>4, <2>2, <2>3
<1>6. Len(out) = Before(chunks, turn + 1)
  BY <1>1, <1>3, <1>5 DEF InPayload, Produced
<1>7. /\ pc' = IF turn = Len(chunks) THEN "finish" ELSE "header"
      /\ UNCHANGED <<call, out, status>>
  BY <1>1, <1>3, <1>5 DEF EndChunk, InPayload
<1>8. pc' = "header" => AtHeader'
  <2>1. ASSUME pc' = "header" PROVE AtHeader'
    <3>1. turn # Len(chunks) /\ turn + 1 <= Len(chunks)
      BY <1>2, <1>4, <1>7, <2>1
    <3>2. Before(chunks, turn)' = Before(chunks, turn + 1)
      BY <1>1, <1>2
    <3> QED
      BY <1>1, <1>2, <1>6, <1>7, <3>1, <3>2 DEF AtHeader
  <2> QED
    BY <2>1
<1>9. pc' = "finish" => AtEnd'
  BY <1>1, <1>2, <1>5, <1>6, <1>7 DEF AtEnd
<1>10. OutIsPrefix'
  BY <1>2, <1>3, <1>7 DEF OutIsPrefix
<1>11. turn' \in 1..(Len(chunks') + 1) /\ turn' # 0 /\ pc' \in {"header", "finish"}
  BY <1>1, <1>2, <1>4, <1>7
<1>12. Running'
  BY <1>2, <1>7, <1>8, <1>9, <1>10, <1>11 DEF Running, call
<1> QED
  BY <1>2, <1>11, <1>12 DEF PInv

(* After the last chunk both sizes are right: the decode succeeds.         *)
LEMMA CloseKeeps ==
  ASSUME PInv, Close
  PROVE  PInv' /\ Finish
<1>1. Decoding /\ UNCHANGED evars /\ turn' = turn /\ pc = "finish"
  BY DEF Close, Finish, FinishFails
<1>2. /\ turn # 0 /\ Running /\ block.chunks = chunks
      /\ EncoderInv' /\ chunks' = chunks /\ data' = data /\ stage' = stage
      /\ block' = LZ4Block' /\ Covered(chunks)' = Len(data)' /\ Len(data)' > 0
      /\ Len(chunks) \in Nat \ {0} /\ turn \in 1..(Len(chunks) + 1)
  BY <1>1, DecodingFacts
<1>3. AtEnd /\ OutIsPrefix /\ size = Len(data)
  BY <1>1, <1>2 DEF Running
<1>4. turn > Len(chunks)
  BY <1>2, <1>3 DEF AtEnd
<1>5. Finish
  BY <1>2, <1>3, <1>4 DEF Close, AtEnd
<1>6. AtEnd' /\ OutIsPrefix'
  BY <1>1, <1>2, <1>3, <1>5 DEF AtEnd, OutIsPrefix, Finish
<1>7. Running'
  BY <1>1, <1>2, <1>5, <1>6 DEF Running, Finish, call
<1> QED
  BY <1>1, <1>2, <1>5, <1>7 DEF PInv


(* There is no payload yet, and nothing to decode.                         *)
LEMMA PInitPInv == PInit => PInv
<1> SUFFICES ASSUME PInit PROVE PInv
  OBVIOUS
<1>1. stage = "idle" /\ data = << >> /\ chunks = << >> /\ pc = "idle" /\ turn = 0
  BY DEF PInit, EInit, Init
<1>2. data \in Seq(Byte) /\ Len(data) = 0 /\ 0 <= MaxSize
  BY <1>1, SizesAssumption
<1>3. EncoderInv
  BY <1>1, <1>2, NothingIsCut DEF EncoderInv
<1> QED
  BY <1>1, <1>3 DEF PInv

(* While the compressor works the decoder waits.                           *)
LEMMA EncodingKeeps ==
  ASSUME PInv, Encode
  PROVE  PInv'
<1>1. EncoderInv' /\ stage # "done" /\ UNCHANGED <<vars, turn>>
  BY EncodeKeeps DEF PInv, Encode
<1>2. turn = 0 /\ pc = "idle"
  BY <1>1 DEF PInv, Running
<1> QED
  BY <1>1, <1>2 DEF PInv, vars

(* What the invariant says depends on the variables alone.                 *)
LEMMA PipelineStutters ==
  ASSUME PInv, UNCHANGED pvars
  PROVE  PInv'
<1>1. /\ EncoderInv' /\ chunks' = chunks /\ data' = data /\ stage' = stage /\ block' = block
      /\ LZ4Block' = LZ4Block /\ Covered(chunks)' = Covered(chunks)
  BY BlockStays DEF PInv, pvars
<1> QED
  BY <1>1 DEF PInv, Running, OutIsPrefix, AtHeader, InPayload, AtEnd, Before, pvars, vars

(* The induction step of the pipeline.                                     *)
LEMMA PStepKeeps == PInv /\ [PNext]_pvars => PInv'
<1> SUFFICES ASSUME PInv, [PNext]_pvars PROVE PInv'
  OBVIOUS
<1>1. CASE UNCHANGED pvars \/ Rest
  BY <1>1, PipelineStutters DEF Rest
<1>2. CASE Encode
  BY <1>2, EncodingKeeps
<1>3. CASE Open \/ NextHeader
  BY <1>3, OpenKeeps, NextHeaderKeeps
<1>4. CASE NextByte \/ ChunkDone \/ Close
  BY <1>4, NextByteKeeps, ChunkDoneKeeps, CloseKeeps
<1> QED
  BY <1>1, <1>2, <1>3, <1>4 DEF PNext

(* The decoder always is at the chunk that its output has come to.         *)
THEOREM PipelineInvariance == PSpec => []PInv
BY PInitPInv, PStepKeeps, PTL DEF PSpec

(* No block that compressBlock hands out is refused by decompressBlock,    *)
(* and what it decodes to is the payload.                                  *)
THEOREM BlocksRoundTrip == PSpec => []RoundTrip
<1>1. PInv => RoundTrip
  <2> SUFFICES ASSUME PInv, turn > 0, pc = "idle"
               PROVE  status = "ok" /\ out = data
    BY DEF RoundTrip
  <2>1. turn # 0
    OBVIOUS
  <2>2. Running
    BY <2>1 DEF PInv
  <2>3. data \in Seq(Byte) /\ out \in Seq(Byte) /\ Len(out) = Len(data)
        /\ \A i \in 1..Len(out) : out[i] = data[i]
    BY <2>2 DEF PInv, EncoderInv, Running, OutIsPrefix, AtEnd
  <2>4. out = data
    BY <2>3, SeqEqual
  <2> QED
    BY <2>2, <2>4 DEF Running
<1> QED
  BY <1>1, PipelineInvariance, PTL

(* The table's size of a block is the length of the body that is written.  *)
THEOREM SizesAreBodyLengths == PSpec => []SizeIsBodyLength
<1>1. PInv => SizeIsBodyLength
  <2> SUFFICES ASSUME PInv, Written PROVE block.size = BodyLength
    BY DEF SizeIsBodyLength
  <2>1. CASE block = CopyBlock(data)
    BY <2>1 DEF BodyLength, CopyBlock, COPY, LZ4
  <2>2. CASE block = LZ4Block
    BY <2>2 DEF BodyLength, LZ4Block, StoredSize
  <2> QED
    BY <2>1, <2>2 DEF PInv, EncoderInv, Written
<1> QED
  BY <1>1, PipelineInvariance, PTL


(* What the pipeline does to the decoder is what the decoder does: its     *)
(* theorems hold of the blocks that compressBlock makes.                   *)
THEOREM PipelineDecodes == PSpec => Spec
<1> USE SizesAssumption, PipelineAssumption
<1>1. PInit => Init
  BY DEF PInit
<1>2. PInv /\ [PNext]_pvars => [Next]_vars
  <2> SUFFICES ASSUME PInv, [PNext]_pvars PROVE Next \/ UNCHANGED vars
    OBVIOUS
  <2>1. CASE Encode \/ Rest \/ UNCHANGED pvars
    BY <2>1 DEF Encode, Rest, pvars
  <2>2. CASE Open
    <3> DEFINE n == Len(data)
               c0 == block.chunks[1].stored
    <3>1. block = LZ4Block /\ IsCut(chunks, data) /\ data \in Seq(Byte) /\ EncoderInv
          /\ Covered(chunks) = Len(data) /\ Len(data) > 0 /\ n \in 0..MaxSize
      BY <2>2, BlockFacts DEF PInv, EncoderInv, Open, Written
    <3>2. block.uncompressed = n /\ c0 = chunks[1].stored
      BY <3>1 DEF LZ4Block
    <3>3. c0 \in 1..(ChunkSize + Slack)
      <4>1. 1 \in 1..Len(chunks)
        BY <3>1, CutFacts
      <4> QED
        BY <3>1, <3>2, <4>1, CutFacts
    <3>4. Begin(n, 0, n, c0)
      BY <2>2, <3>2 DEF Open
    <3> HIDE DEF n, c0
    <3>5. HasPrefix(n, 0, n, c0) = HasPrefix(n, 0, n, 1)
      BY <3>3 DEF HasPrefix
    <3>6. Begin(n, 0, n, 1)
      BY <3>4, <3>5 DEF Begin
    <3>7. 0 \in 0..MaxSize
      OBVIOUS
    <3> QED
      BY <3>1, <3>6, <3>7 DEF Next
  <2>3. CASE NextHeader
    BY <2>3, NextHeaderKeeps DEF Next
  <2>4. CASE NextByte
    <3>1. Current.payload[Produced + 1] \in Byte
      BY <2>4, ByteFacts
    <3> QED
      BY <2>4, <3>1 DEF NextByte, Next
  <2>5. CASE ChunkDone \/ Close
    BY <2>5 DEF ChunkDone, Close, Next
  <2> QED
    BY <2>1, <2>2, <2>3, <2>4, <2>5 DEF PNext
<1> QED
  BY <1>1, <1>2, PipelineInvariance, PTL DEF PSpec, Spec

=============================================================================
