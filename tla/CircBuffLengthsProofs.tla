------------------------ MODULE CircBuffLengthsProofs ------------------------
(***************************************************************************)
(* The sizing of the circular buffer, for every configuration and every    *)
(* frame size: it never divides by zero, it stays within the configured    *)
(* limits, and it refuses a stream only for a cause in the configuration.  *)
(***************************************************************************)
EXTENDS CircBuffLengths, TLAPS

\* Quotient and remainder.
LEMMA DivMod ==
    ASSUME NEW a \in Nat, NEW b \in Nat \ {0}
    PROVE  /\ a \div b \in Nat
           /\ a % b \in 0 .. b - 1
           /\ a = (a \div b) * b + (a % b)
           /\ (a \div b) * b <= a
  BY SMT

\* A common positive factor can be cancelled.
LEMMA Cancel ==
    ASSUME NEW a \in Nat, NEW b \in Nat, NEW c \in Nat \ {0}, a * c <= b * c
    PROVE  a <= b
<1> SUFFICES ASSUME b + 1 <= a PROVE FALSE
  BY SMT
<1>1. (b + 1) * c <= a * c
  BY SMT
<1> QED
  BY <1>1, SMT

\* A proper divisor is at most half of what it divides.
LEMMA ProperDivisor ==
    ASSUME NEW n \in Nat, NEW c \in Nat \ {0}, n % c = 0, c < n
    PROVE  n >= 2 * c
<1> DEFINE m == n \div c
<1>1. m \in Nat /\ n = m * c
  <2>1. m \in Nat /\ n = m * c + (n % c)
    BY DivMod
  <2> QED
    BY <2>1, SMT
<1> HIDE DEF m
<1>2. m # 0 /\ m # 1
  BY <1>1, SMT
<1>3. 2 * c <= m * c
  BY <1>1, <1>2, SMT
<1> QED
  BY <1>1, <1>3, SMT

\* The scaled chunk is no longer than the configured one and, when that is a
\* proper divisor of the configured buffer, at most half the scaled buffer
\* (getCircBuffLengths).
LEMMA ScaledBounds ==
    ASSUME NEW L \in Nat \ {0}, NEW C \in Nat \ {0}, L % C = 0,
           NEW n \in Nat, n <= L, NEW q \in Nat, q * L <= C * n
    PROVE  q <= C /\ q <= n /\ (C < L => 2 * q <= n)
<1> DEFINE m == L \div C
<1>1. m \in Nat /\ L = m * C
  <2>1. m \in Nat /\ L = m * C + (L % C)
    BY DivMod
  <2> QED
    BY <2>1, SMT
<1> HIDE DEF m
<1>2. m >= 1
  BY <1>1, SMT
<1>3. q <= C
  <2>1. C * n <= C * L
    BY SMT
  <2>2. q * L <= C * L
    BY <2>1, SMT
  <2> QED
    BY <2>2, Cancel, SMT
<1>4. q * m <= n
  <2>1. q * L = (q * m) * C
    BY <1>1, SMT
  <2>2. C * n = n * C
    BY SMT
  <2>3. (q * m) * C <= n * C
    BY <2>1, <2>2, SMT
  <2>4. q * m \in Nat
    BY <1>1, SMT
  <2> QED
    BY <2>3, <2>4, Cancel, SMT
<1>5. q <= q * m
  BY <1>1, <1>2, SMT
<1>6. C < L => 2 * q <= q * m
  <2> SUFFICES ASSUME C < L PROVE 2 * q <= q * m
    OBVIOUS
  <2>1. m >= 2
    <3> SUFFICES ASSUME m = 1 PROVE FALSE
      BY <1>1, <1>2, SMT
    <3> QED
      BY <1>1, SMT
  <2> QED
    BY <1>1, <2>1, SMT
<1>7. q * m \in Nat
  BY <1>1, SMT
<1> QED
  BY <1>3, <1>4, <1>5, <1>6, <1>7, SMT

----------------------------------------------------------------------------
\* What is known of the lengths when the buffer had to be made smaller.
Shrunk ==
    /\ 0 < frame /\ maxCircBuffLength > 0
    /\ frame * circBuffLength <= maxCircBuffSize
    /\ circBuffLength <= maxCircBuffLength
    /\ circBuffLength < 2 => 2 * frame > maxCircBuffSize
    /\ writeChunkLength <= maxWriteChunkLength
    /\ circBuffLength >= 2 =>
          /\ writeChunkLength > 0 /\ writeChunkLength <= circBuffLength
          /\ maxWriteChunkLength < maxCircBuffLength =>
                2 * writeChunkLength <= circBuffLength

\* ... and when it did not.
Unchanged ==
    /\ frame * circBuffLength <= maxCircBuffSize
    /\ circBuffLength = maxCircBuffLength
    /\ writeChunkLength = maxWriteChunkLength

\* The inductive invariant of the sizing.
SizingInv ==
    /\ TypeOK
    /\ pc \notin { "startup", "refused" } =>
          maxCircBuffLength % maxWriteChunkLength = 0
    /\ pc = "search" => Shrunk /\ circBuffLength >= 2
    /\ pc \in { "check", "allocated" } =>
          \/ Unchanged
          \/ Shrunk /\ (circBuffLength >= 2 => circBuffLength % writeChunkLength = 0)
    /\ pc = "allocated" => /\ circBuffLength >= 2
                           /\ writeChunkLength < circBuffLength
                           /\ circBuffLength % writeChunkLength = 0
    /\ RefusedForCause

\* Making the buffer smaller establishes what the search needs.
LEMMA ScaleInv == SizingInv /\ Scale => SizingInv'
<1> SUFFICES ASSUME SizingInv, Scale PROVE SizingInv'
  OBVIOUS
<1> DEFINE L == maxCircBuffLength
           C == maxWriteChunkLength
           s == maxCircBuffSize \div frame
<1>t. TypeOK /\ pc = "sizing" /\ L % C = 0 /\ frame * L > maxCircBuffSize
  BY DEF SizingInv, Scale
<1>0. L \in Nat /\ C \in Nat \ {0} /\ frame \in Nat \ {0} /\ L # 0
      /\ maxCircBuffSize \in Nat
  <2>1. L \in Nat /\ C \in Nat \ {0} /\ frame \in Nat /\ maxCircBuffSize \in Nat
    BY <1>t DEF TypeOK
  <2>2. frame # 0 /\ L # 0
    BY <1>t, <2>1, SMT
  <2> QED
    BY <2>1, <2>2
<1>1. /\ s \in Nat /\ s * frame <= maxCircBuffSize
      /\ maxCircBuffSize < s * frame + frame
  <2>1. /\ s \in Nat /\ maxCircBuffSize % frame \in 0 .. frame - 1
        /\ maxCircBuffSize = s * frame + (maxCircBuffSize % frame)
    BY <1>0, DivMod
  <2> HIDE DEF s
  <2>2. s * frame \in Nat
    BY <1>0, <2>1, SMT
  <2> QED
    BY <1>0, <2>1, <2>2, SMT
<1>2. s < L
  <2> HIDE DEF s
  <2> SUFFICES ASSUME L <= s PROVE FALSE
    BY <1>0, <1>1, SMT
  <2>1. frame * L <= s * frame
    BY <1>0, <1>1, SMT
  <2> QED
    BY <1>t, <1>0, <1>1, <2>1, SMT
<1>3. PICK n \in Nat :
          /\ circBuffLength' = n /\ n = Even(s)
          /\ n <= s /\ (n < 2 => n = 0 /\ s < 2)
  <2>1. Even(s) \in Nat /\ Even(s) <= s /\ (Even(s) < 2 => Even(s) = 0 /\ s < 2)
    BY <1>1, SMT DEF Even
  <2> QED
    BY <2>1 DEF Scale
<1>4. frame * n <= maxCircBuffSize /\ n <= L /\ (n < 2 => 2 * frame > maxCircBuffSize)
  <2> HIDE DEF s
  <2>1. n * frame <= s * frame
    BY <1>0, <1>1, <1>3, SMT
  <2>2. s < 2 => s * frame + frame <= 2 * frame
    BY <1>0, <1>1, SMT
  <2> QED
    BY <1>0, <1>1, <1>2, <1>3, <2>1, <2>2, SMT
<1>5. PICK c \in Scaled(n) :
          /\ n = 0 => writeChunkLength' = c /\ pc' = "check"
          /\ n # 0 => writeChunkLength' = AtLeastOne(c) /\ pc' = "search"
  BY <1>3, Zenon DEF Scale
<1>6. c \in Nat /\ c <= C /\ c <= n /\ (C < L => 2 * c <= n)
  <2> DEFINE q == (C * n) \div L
  <2>1. C * n \in Nat
    BY <1>0, SMT
  <2>2. q \in Nat /\ q * L <= C * n
    BY <1>0, <2>1, DivMod
  <2>3. c = q \/ (q > 0 /\ c = q - 1)
    BY <1>5, Zenon DEF Scaled
  <2> HIDE DEF q
  <2>4. q <= C /\ q <= n /\ (C < L => 2 * q <= n)
    BY <1>t, <1>0, <1>4, <2>2, ScaledBounds
  <2> QED
    BY <1>0, <2>2, <2>3, <2>4, SMT
<1>7. PICK w \in Nat :
          /\ writeChunkLength' = w /\ w <= C
          /\ n >= 2 => /\ w > 0 /\ w <= n /\ pc' = "search"
                       /\ C < L => 2 * w <= n
          /\ n < 2 => pc' = "check"
  <2>1. CASE n = 0
    BY <1>5, <1>6, <2>1
  <2>2. CASE n # 0
    BY <1>0, <1>3, <1>5, <1>6, <2>2 DEF AtLeastOne
  <2> QED
    BY <2>1, <2>2
<1>8. UNCHANGED << maxCircBuffLength, maxWriteChunkLength, maxCircBuffSize, frame >>
  BY DEF Scale, config
<1> HIDE DEF s
<1>9. Shrunk'
  <2>1. frame * n \in Nat
    BY <1>0, SMT
  <2> QED
    BY <1>0, <1>3, <1>4, <1>7, <1>8, <2>1 DEF Shrunk
<1>10. TypeOK'
  BY <1>t, <1>3, <1>7, <1>8 DEF TypeOK
<1> QED
  BY <1>t, <1>3, <1>7, <1>8, <1>9, <1>10 DEF SizingInv, RefusedForCause

\* Every step of the sizing preserves the invariant.
LEMMA SizingStep == SizingInv /\ [Next]_vars => SizingInv'
<1> SUFFICES ASSUME SizingInv, [Next]_vars PROVE SizingInv'
  OBVIOUS
<1> USE DEF SizingInv, config, Shrunk, Unchanged
<1>1. CASE Startup
  BY <1>1 DEF Startup, TypeOK, RefusedForCause
<1>2. CASE Fits
  BY <1>2 DEF Fits, TypeOK, RefusedForCause
<1>3. CASE Scale
  BY <1>3, ScaleInv
<1>4. CASE Search
  <2>1. CASE circBuffLength % writeChunkLength # 0
    <3>1. writeChunkLength # 1
      BY <1>4, <2>1, SMT DEF Search, TypeOK
    <3> QED
      BY <1>4, <2>1, <3>1 DEF Search, TypeOK, RefusedForCause
  <2>2. CASE circBuffLength % writeChunkLength = 0
    BY <1>4, <2>2 DEF Search, TypeOK, RefusedForCause
  <2> QED
    BY <2>1, <2>2
<1>5. CASE Check
  BY <1>5 DEF Check, TypeOK, RefusedForCause
<1>6. CASE UNCHANGED vars
  BY <1>6 DEF vars, TypeOK, RefusedForCause
<1> QED
  BY <1>1, <1>2, <1>3, <1>4, <1>5, <1>6 DEF Next

\* The invariant of the sizing holds for every configuration and every stream.
THEOREM SizingInvariance == Spec => []SizingInv
<1>1. Init => SizingInv
  BY SizesAssumption DEF Init, SizingInv, TypeOK, RefusedForCause
<1> QED
  BY <1>1, SizingStep, PTL DEF Spec

\* getCircBuffLengths never divides by zero: neither its search nor the check of
\* allocate_circbufs meets a chunk of no frames.
THEOREM NoZeroDivision == Spec => []DivisorPositive
<1>1. SizingInv => DivisorPositive
  BY DEF SizingInv, Shrunk, Unchanged, DivisorPositive, TypeOK
<1> QED
  BY <1>1, SizingInvariance, PTL

\* The allocated buffer is within the configured limits and holds two chunks.
THEOREM LimitsRespected == Spec => []WithinLimits
<1>1. SizingInv => WithinLimits
  <2> SUFFICES ASSUME SizingInv, pc = "allocated"
               PROVE  WithinLimits
    BY DEF WithinLimits
  <2>1. /\ circBuffLength \in Nat /\ writeChunkLength \in Nat \ {0}
        /\ writeChunkLength < circBuffLength
        /\ circBuffLength % writeChunkLength = 0
    BY DEF SizingInv, Shrunk, Unchanged, TypeOK
  <2>2. circBuffLength >= 2 * writeChunkLength
    BY <2>1, ProperDivisor
  <2> QED
    BY <2>2 DEF SizingInv, Shrunk, Unchanged, WithinLimits, TypeOK
<1> QED
  BY <1>1, SizingInvariance, PTL

\* A stream is refused only for a cause in the configuration.
THEOREM OnlyForCause == Spec => []RefusedForCause
<1>1. SizingInv => RefusedForCause
  BY DEF SizingInv
<1> QED
  BY <1>1, SizingInvariance, PTL

----------------------------------------------------------------------------
\* How many steps are left at most: the search is bounded by the chunk it tries,
\* and that by the configured one.
StepsLeft ==
    IF pc = "startup" THEN maxWriteChunkLength + 4
    ELSE IF pc = "sizing" THEN maxWriteChunkLength + 3
    ELSE IF pc = "search" THEN writeChunkLength + 1
    ELSE IF pc = "check" THEN 1
    ELSE 0

\* The safety half of SizingEnds, for every configuration and every frame size: each
\* step of appStartup, getCircBuffLengths and allocate_circbufs lowers a natural
\* number, so the search for a divisor cannot run for ever.
THEOREM SizingDescends == Spec => [][StepsLeft' \in Nat /\ StepsLeft' < StepsLeft]_vars
<1>1. ASSUME SizingInv, SizingInv', Next
      PROVE  StepsLeft' \in Nat /\ StepsLeft' < StepsLeft
  <2> USE DEF StepsLeft, config
  <2>1. CASE Startup
    BY <1>1, <2>1 DEF Startup, SizingInv, TypeOK
  <2>2. CASE Fits
    BY <1>1, <2>2 DEF Fits, SizingInv, TypeOK
  <2>3. CASE Scale
    <3>1. /\ pc = "sizing" /\ pc' \in { "check", "search" }
          /\ maxWriteChunkLength' = maxWriteChunkLength
      BY <2>3, Zenon DEF Scale
    <3>2. pc' = "search" => writeChunkLength' <= maxWriteChunkLength'
      BY <1>1 DEF SizingInv, Shrunk
    <3>3. writeChunkLength' \in Nat /\ maxWriteChunkLength \in Nat
      BY <1>1 DEF SizingInv, TypeOK
    <3>4. StepsLeft = maxWriteChunkLength + 3
      BY <3>1
    <3>5. CASE pc' = "check"
      <4>1. StepsLeft' = 1
        BY <3>5
      <4>2. 1 < maxWriteChunkLength + 3
        BY <3>3
      <4> QED
        BY <3>4, <4>1, <4>2
    <3>6. CASE pc' = "search"
      <4>1. StepsLeft' = writeChunkLength' + 1
        BY <3>6
      <4>2. PICK w \in Nat : w = writeChunkLength' /\ w <= maxWriteChunkLength
        BY <3>1, <3>2, <3>3, <3>6
      <4>3. w + 1 \in Nat /\ w + 1 < maxWriteChunkLength + 3
        <5>1. w <= maxWriteChunkLength /\ maxWriteChunkLength \in Nat
          BY <3>3, <4>2
        <5> QED
          BY <5>1
      <4> HIDE DEF StepsLeft
      <4> QED
        BY <3>4, <4>1, <4>2, <4>3, Zenon
    <3> QED
      BY <3>1, <3>5, <3>6
  <2>4. CASE Search
    <3>1. pc = "search" /\ writeChunkLength \in Nat \ {0}
      BY <1>1, <2>4 DEF Search, SizingInv, Shrunk, TypeOK
    <3>2. StepsLeft = writeChunkLength + 1
      BY <3>1
    <3>3. CASE pc' = "search"
      <4>1. StepsLeft' = writeChunkLength' + 1 /\ writeChunkLength' = writeChunkLength - 1
        BY <2>4, <3>3 DEF Search
      <4> HIDE DEF StepsLeft
      <4> QED
        BY <3>1, <3>2, <4>1
    <3>4. CASE pc' = "check"
      <4>1. StepsLeft' = 1
        BY <3>4
      <4> QED
        BY <3>1, <3>2, <4>1
    <3> QED
      BY <2>4, <3>3, <3>4 DEF Search
  <2>5. CASE Check
    BY <1>1, <2>5 DEF Check, SizingInv, TypeOK
  <2> QED
    BY <1>1, <2>1, <2>2, <2>3, <2>4, <2>5 DEF Next
<1>2. SizingInv /\ SizingInv' /\ [Next]_vars
        => [StepsLeft' \in Nat /\ StepsLeft' < StepsLeft]_vars
  BY <1>1
<1> QED
  BY <1>2, SizingInvariance, PTL DEF Spec
=============================================================================
