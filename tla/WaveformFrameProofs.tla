------------------------ MODULE WaveformFrameProofs ------------------------
(***************************************************************************)
(* Proofs about WaveformFrame, for every frame, sample type and channel    *)
(* count: the loops read inside the payload, and the ranges they print are *)
(* the least and greatest numbers of each channel.                         *)
(***************************************************************************)
EXTENDS WaveformFrame, TLAPS

\* The frame has whole samples of a known size in at least one channel.
Decodable(f) ==
  f.size >= HeaderSize /\ SampleSizeBytes(f.type) > 0 /\ f.channels > 0

\* Where the loops are: before the bounds they test.
LoopInv ==
  /\ frame \in Frames
  /\ pc \in {"header", "raw", "scaled", "scan", "scan_scaled", "done"}
  /\ t \in Nat /\ ch \in Nat
  /\ pc = "header" => t = 0 /\ ch = 0
  /\ pc \in {"raw", "scaled", "scan", "scan_scaled"} => Decodable(frame) /\ ch < frame.channels
  /\ pc \in {"raw", "scaled"} => t < StepsToPrint(frame)
  /\ pc \in {"scan", "scan_scaled"} => t <= TimeSteps(frame)
-----------------------------------------------------------------------------
\* A quotient times its divisor does not exceed the dividend.
LEMMA QuotientBound ==
  ASSUME NEW n \in Nat, NEW d \in Nat, d > 0
  PROVE  /\ n \div d \in Nat
         /\ (n \div d) * d <= n
  BY SMT

\* One more multiple of a positive number, below a bound.
LEMMA RowBound ==
  ASSUME NEW i \in Nat, NEW m \in Nat, NEW c \in Nat, NEW d \in Nat, i < m, c < d
  PROVE  i * d + c + 1 <= m * d
<1>1. i + 1 <= m
  OBVIOUS
<1>2. (i + 1) * d <= m * d
  BY <1>1, SMT
<1>3. (i + 1) * d = i * d + d
  BY SMT
<1> QED BY <1>2, <1>3, SMT

\* What FramesAssumption says of one frame.
LEMMA FrameType ==
  ASSUME NEW f \in Frames
  PROVE  /\ f.size \in Nat /\ f.channels \in Nat /\ f.voltage \in Nat
         /\ f.type \in Types /\ f.samples \in Seq(Samples) /\ Len(f.samples) \in Nat
         /\ SampleSizeBytes(f.type) \in Nat
         /\ Decodable(f) =>
              Len(f.samples) = (f.size - HeaderSize) \div SampleSizeBytes(f.type)
  BY FramesAssumption, SizesAssumption DEF FrameRecords, SampleSizeBytes, Decodable

\* The time steps of a decodable frame lie within its samples.
LEMMA StepsFit ==
  ASSUME NEW f \in Frames, Decodable(f)
  PROVE  /\ TimeSteps(f) \in Nat
         /\ TimeSteps(f) * f.channels <= Len(f.samples)
         /\ StepsToPrint(f) \in Nat /\ StepsToPrint(f) <= TimeSteps(f)
<1>1. Len(f.samples) \in Nat /\ f.channels \in Nat /\ f.channels > 0
  BY FrameType DEF Decodable
<1>2. TimeSteps(f) \in Nat /\ TimeSteps(f) * f.channels <= Len(f.samples)
  BY <1>1, QuotientBound DEF TimeSteps
<1> QED BY <1>2, SizesAssumption DEF StepsToPrint

\* Sample c of a complete time step is one of the samples.
LEMMA IndexInSamples ==
  ASSUME NEW f \in Frames, Decodable(f), NEW i \in Nat, i < TimeSteps(f),
         NEW c \in Nat, c < f.channels
  PROVE  /\ Index(f, i, c) \in Nat
         /\ Index(f, i, c) + 1 <= Len(f.samples)
         /\ f.samples[Index(f, i, c) + 1] \in Samples
<1> DEFINE m == i * f.channels
           k == TimeSteps(f) * f.channels
<1>1. f.channels \in Nat /\ Len(f.samples) \in Nat /\ f.samples \in Seq(Samples)
  BY FrameType
<1>2. TimeSteps(f) \in Nat /\ k <= Len(f.samples)
  BY StepsFit
<1>3. m \in Nat /\ k \in Nat
  BY <1>1, <1>2, SMT
<1>4. m + c + 1 <= k
  BY <1>1, <1>2, RowBound
<1>5. Index(f, i, c) = m + c
  BY DEF Index
<1> HIDE DEF m, k
<1>6. /\ Index(f, i, c) \in Nat
      /\ Index(f, i, c) + 1 \in 1..Len(f.samples)
  BY <1>1, <1>2, <1>3, <1>4, <1>5, SMT
<1> QED BY <1>1, <1>6
-----------------------------------------------------------------------------
LEMMA LoopInvInit == Init => LoopInv
  BY DEF Init, LoopInv

LEMMA LoopInvStep == LoopInv /\ [Next]_vars => LoopInv'
<1> SUFFICES ASSUME LoopInv, [Next]_vars PROVE LoopInv'
  OBVIOUS
<1>0. frame.channels \in Nat /\ SampleSizeBytes(frame.type) \in Nat
  BY FrameType DEF LoopInv
<1>00. Decodable(frame) => /\ TimeSteps(frame) \in Nat /\ StepsToPrint(frame) \in Nat
                           /\ StepsToPrint(frame) <= TimeSteps(frame)
  BY StepsFit DEF LoopInv
<1>1. CASE Reject
  BY <1>1 DEF Reject, LoopInv
<1>2. CASE Accept
  <2>1. Decodable(frame)
    BY <1>0, <1>2, FrameType, SizesAssumption DEF Accept, Decodable, LoopInv
  <2> QED BY <1>0, <1>00, <1>2, <2>1 DEF Accept, LoopInv
<1>3. CASE PrintRaw
  BY <1>0, <1>00, <1>3 DEF PrintRaw, NextRow, LoopInv
<1>4. CASE PrintScaled
  <2>1. CASE ch + 1 < frame.channels
    BY <1>0, <1>00, <1>4, <2>1 DEF PrintScaled, LoopInv
  <2>2. CASE ~(ch + 1 < frame.channels)
    BY <1>0, <1>00, <1>4, <2>2 DEF PrintScaled, NextRow, LoopInv
  <2> QED BY <2>1, <2>2
<1>5. CASE ScanSample
  BY <1>0, <1>00, <1>5 DEF ScanSample, LoopInv
<1>6. CASE ScanDone
  BY <1>0, <1>00, <1>6 DEF ScanDone, LoopInv
<1>7. CASE UNCHANGED vars
  BY <1>7 DEF vars, outVars, LoopInv
<1> QED BY <1>1, <1>2, <1>3, <1>4, <1>5, <1>6, <1>7 DEF Next, Done

\* LoopInv is inductive.
LEMMA LoopInvariant == Spec => []LoopInv
  BY LoopInvInit, LoopInvStep, PTL DEF Spec

\* A whole number of samples fits the payload.
LEMMA SampleInPayload ==
  ASSUME NEW i \in Nat, NEW n \in Nat, NEW z \in Nat, z > 0, i + 1 <= n \div z
  PROVE  (i + 1) * z <= n
<1>1. n \div z \in Nat /\ (n \div z) * z <= n
  BY QuotientBound
<1>2. (i + 1) * z <= (n \div z) * z
  BY <1>1, SMT
<1>3. (i + 1) * z \in Nat /\ (n \div z) * z \in Nat
  BY <1>1, SMT
<1> QED BY <1>1, <1>2, <1>3, SMT

\* No loop of the decoder reads outside the payload it was given, whatever the
\* frame's length, the sample type and the channel count the response claims.
THEOREM DecoderReadsInBounds == Spec => []ReadsInBounds
<1>1. LoopInv => ReadsInBounds
  <2> SUFFICES ASSUME LoopInv, Reading
               PROVE  HeaderSize + (Index(frame, t, ch) + 1) * SampleSizeBytes(frame.type)
                        <= frame.size
    BY DEF ReadsInBounds
  <2> DEFINE z == SampleSizeBytes(frame.type)
             n == frame.size - HeaderSize
             i == Index(frame, t, ch)
  <2>1. frame \in Frames /\ Decodable(frame) /\ t \in Nat /\ ch \in Nat /\ ch < frame.channels
    BY DEF LoopInv, Reading
  <2>2. t < TimeSteps(frame)
    BY <2>1, StepsFit DEF LoopInv, Reading
  <2>3. i \in Nat /\ i + 1 <= Len(frame.samples)
    BY <2>1, <2>2, IndexInSamples
  <2>4. z \in Nat /\ z > 0 /\ n \in Nat /\ frame.size \in Nat /\ HeaderSize \in Nat
    BY <2>1, FrameType, SizesAssumption DEF Decodable
  <2>5. Len(frame.samples) = n \div z
    BY <2>1, FrameType
  <2> HIDE DEF z, n, i
  <2>6. (i + 1) * z <= n
    BY <2>3, <2>4, <2>5, SampleInPayload
  <2>7. (i + 1) * z \in Nat
    BY <2>3, <2>4, SMT
  <2> QED BY <2>4, <2>6, <2>7, SMT DEF n, i, z
<1> QED BY <1>1, LoopInvariant, PTL
-----------------------------------------------------------------------------
\* The scans: what has been printed, and what min_v and max_v hold meanwhile.
ScanInv ==
  /\ min \in Int /\ max \in Int
  /\ ranges \in Seq(Int \X Int)
  /\ pc \in {"header", "raw", "scaled"} =>
       ranges = <<>> /\ min = MaxOf[frame.type] /\ max = LowestOf[frame.type]
  /\ pc = "scan" => Len(ranges) = ch
  /\ pc \in {"scan", "scan_scaled"} => IsRange(Numbers(frame, ch, t), frame.type, min, max)
  /\ RangesRight

\* Before the first sample the limits are the range of no numbers.
LEMMA NoNumbers ==
  ASSUME NEW f \in Frames, NEW c \in Nat
  PROVE  IsRange(Numbers(f, c, 0), f.type, MaxOf[f.type], LowestOf[f.type])
<1>1. Numbers(f, c, 0) = {}
  BY SMT DEF Numbers
<1> QED BY <1>1 DEF IsRange

\* One more time step adds one sample, unless that is NaN.
LEMMA OneMoreNumber ==
  ASSUME NEW f \in Frames, Decodable(f), NEW n \in Nat, n < TimeSteps(f),
         NEW c \in Nat, c < f.channels
  PROVE  /\ Numbers(f, c, n) \subseteq Int
         /\ f.samples[Index(f, n, c) + 1] \in Samples
         /\ Numbers(f, c, n + 1) = Numbers(f, c, n) \cup ({f.samples[Index(f, n, c) + 1]} \ {NaN})
<1>1. \A i \in 0..n : f.samples[Index(f, i, c) + 1] \in Samples
  <2> TAKE i \in 0..n
  <2>1. i \in Nat /\ i < TimeSteps(f)
    BY StepsFit
  <2> QED BY <2>1, IndexInSamples
<1>2. 0..((n + 1) - 1) = 0..(n - 1) \cup {n}
  BY SMT
<1>3. Numbers(f, c, n) \subseteq Int
  BY <1>1 DEF Numbers, Samples
<1>4. Numbers(f, c, n + 1) = Numbers(f, c, n) \cup ({f.samples[Index(f, n, c) + 1]} \ {NaN})
  BY <1>2, Zenon DEF Numbers
<1> QED BY <1>1, <1>3, <1>4

\* The comparisons of one pass through the scan keep the range right.
LEMMA WidenRange ==
  ASSUME NEW N \in SUBSET Int, NEW ty \in Types, NEW lo \in Int, NEW hi \in Int,
         IsRange(N, ty, lo, hi), NEW x \in Samples
  PROVE  LET lo2 == IF Less(x, lo) THEN x ELSE lo
             hi2 == IF Less(hi, x) THEN x ELSE hi
         IN  lo2 \in Int /\ hi2 \in Int /\ IsRange(N \cup ({x} \ {NaN}), ty, lo2, hi2)
<1>0. NaN \notin Int /\ MaxOf[ty] \in Int /\ LowestOf[ty] \in Int
  BY SizesAssumption
<1>1. CASE x = NaN
  BY <1>0, <1>1 DEF Less, IsRange
<1>2. CASE x \in Int
  <2>1. N \cup ({x} \ {NaN}) = N \cup {x}
    BY <1>0, <1>2
  <2> QED BY <1>0, <1>2, <2>1 DEF Less, IsRange
<1> QED BY <1>1, <1>2 DEF Samples

LEMMA ScanInvInit == Init => ScanInv
<1> SUFFICES ASSUME Init PROVE ScanInv
  OBVIOUS
<1>1. frame.type \in Types
  BY FrameType DEF Init
<1> QED BY <1>1, SizesAssumption DEF Init, ScanInv, RangesRight

LEMMA ScanInvStep == LoopInv /\ ScanInv /\ [Next]_vars => ScanInv'
<1> SUFFICES ASSUME LoopInv, ScanInv, [Next]_vars PROVE ScanInv'
  OBVIOUS
<1>0. /\ frame \in Frames /\ frame.type \in Types /\ frame.channels \in Nat
      /\ t \in Nat /\ ch \in Nat
      /\ MaxOf[frame.type] \in Int /\ LowestOf[frame.type] \in Int
  BY FrameType, SizesAssumption DEF LoopInv
<1>1. CASE Reject
  BY <1>1 DEF Reject, outVars, ScanInv, RangesRight
<1>2. CASE Accept
  <2>1. t = 0 /\ ch = 0 /\ ranges = <<>>
    BY <1>2 DEF Accept, LoopInv, ScanInv
  <2>2. IsRange(Numbers(frame, ch, t), frame.type, min, max)
    BY <1>0, <1>2, <2>1, NoNumbers DEF Accept, ScanInv
  <2> QED BY <1>2, <2>1, <2>2 DEF Accept, outVars, ScanInv, RangesRight
<1>3. CASE PrintRaw \/ PrintScaled
  <2>1. /\ UNCHANGED <<frame, min, max, ranges>>
        /\ pc' \in {"raw", "scaled"} \/ (pc' = "scan" /\ t' = 0 /\ ch' = 0)
        /\ pc \in {"raw", "scaled"}
    BY <1>3 DEF PrintRaw, PrintScaled, NextRow
  <2>2. IsRange(Numbers(frame, 0, 0), frame.type, min, max)
    BY <1>0, <2>1, NoNumbers DEF ScanInv
  <2> QED BY <2>1, <2>2 DEF ScanInv, RangesRight
<1>4. CASE ScanSample
  <2>1. /\ Decodable(frame) /\ ch < frame.channels /\ t < TimeSteps(frame)
        /\ pc \in {"scan", "scan_scaled"}
    BY <1>4 DEF ScanSample, LoopInv
  <2>2. Numbers(frame, ch, t) \in SUBSET Int /\ Sample \in Samples
    BY <1>0, <2>1, OneMoreNumber DEF Sample
  <2>3. Numbers(frame, ch, t + 1) = Numbers(frame, ch, t) \cup ({Sample} \ {NaN})
    BY <1>0, <2>1, OneMoreNumber DEF Sample
  <2>4. min' \in Int /\ max' \in Int /\ IsRange(Numbers(frame, ch, t + 1), frame.type, min', max')
    <3>1. min \in Int /\ max \in Int /\ IsRange(Numbers(frame, ch, t), frame.type, min, max)
      BY <2>1 DEF ScanInv
    <3>2. /\ min' = IF Less(Sample, min) THEN Sample ELSE min
          /\ max' = IF Less(max, Sample) THEN Sample ELSE max
      BY <1>4 DEF ScanSample
    <3>3. /\ min' \in Int /\ max' \in Int
          /\ IsRange(Numbers(frame, ch, t) \cup ({Sample} \ {NaN}), frame.type, min', max')
      BY <1>0, <2>2, <3>1, <3>2, WidenRange
    <3> QED BY <2>3, <3>3
  <2> QED BY <1>4, <2>1, <2>4 DEF ScanSample, outVars, ScanInv, RangesRight
<1>5. CASE ScanDone
  <2>1. /\ pc \in {"scan", "scan_scaled"} /\ t = TimeSteps(frame) /\ t' = 0 /\ UNCHANGED frame
        /\ min' = MaxOf[frame.type] /\ max' = LowestOf[frame.type] /\ ch' \in Nat
        /\ pc' \in {"scan", "scan_scaled", "done"}
    BY <1>0, <1>5 DEF ScanDone
  <2>2. IsRange(Numbers(frame, ch', 0), frame.type, min', max')
    BY <1>0, <2>1, NoNumbers
  <2>3. CASE pc = "scan"
    <3>1. ranges' = Append(ranges, <<min, max>>) /\ Len(ranges) = ch
      BY <1>5, <2>3 DEF ScanDone, ScanInv
    <3>2. IsRange(Numbers(frame, ch, TimeSteps(frame)), frame.type, min, max)
      BY <2>1, <2>3 DEF ScanInv
    <3>3. ranges' \in Seq(Int \X Int) /\ Len(ranges') = ch + 1
      BY <3>1 DEF ScanInv
    <3>4. ASSUME NEW i \in 1..Len(ranges')
          PROVE  IsRange(Numbers(frame, i - 1, TimeSteps(frame)), frame.type,
                         ranges'[i][1], ranges'[i][2])
      <4>1. CASE i = ch + 1
        <5>1. ranges'[i] = <<min, max>> /\ i - 1 = ch
          BY <1>0, <3>1, <4>1 DEF ScanInv
        <5> QED BY <3>2, <5>1
      <4>2. CASE i # ch + 1
        <5>1. i \in 1..Len(ranges) /\ ranges'[i] = ranges[i]
          BY <1>0, <3>1, <3>3, <4>2 DEF ScanInv
        <5> QED BY <5>1 DEF ScanInv, RangesRight
      <4> QED BY <4>1, <4>2
    <3>5. RangesRight'
      BY <2>1, <3>4 DEF RangesRight
    <3>6. pc' = "scan" => ch' = ch + 1
      BY <1>5, <2>3 DEF ScanDone
    <3>7. min' \in Int /\ max' \in Int /\ frame' = frame
      BY <1>0, <2>1
    <3>8. t' = 0 /\ pc' \notin {"header", "raw", "scaled"} /\ (pc' = "scan" => Len(ranges') = ch')
      BY <2>1, <3>3, <3>6
    <3>9. IsRange(Numbers(frame, ch, t), frame.type, min, max)'
      BY <2>2, <3>7, <3>8
    <3> QED BY <3>3, <3>5, <3>7, <3>8, <3>9 DEF ScanInv
  <2>4. CASE pc = "scan_scaled"
    <3>1. ranges' = ranges /\ pc' # "scan"
      BY <1>5, <2>4 DEF ScanDone
    <3>2. RangesRight'
      BY <2>1, <3>1 DEF ScanInv, RangesRight
    <3> QED BY <1>0, <2>1, <2>2, <3>1, <3>2 DEF ScanInv
  <2> QED BY <2>1, <2>3, <2>4
<1>6. CASE UNCHANGED vars
  BY <1>6 DEF vars, outVars, ScanInv, RangesRight
<1> QED BY <1>1, <1>2, <1>3, <1>4, <1>5, <1>6 DEF Next, Done

\* The minimum and maximum printed for a channel are those of its samples: no sample
\* is left out, none of another channel gets in, and NaN does not stick.
THEOREM RangesAreRight == Spec => []RangesRight
<1>1. ScanInv => RangesRight
  BY DEF ScanInv
<1> QED BY <1>1, ScanInvInit, ScanInvStep, LoopInvariant, PTL DEF Spec

\* Counters, limits and control stay in their types: in particular min_v and max_v
\* never become NaN.
THEOREM DecoderTypeCorrect == Spec => []TypeOK
<1>1. LoopInv /\ ScanInv => TypeOK
  BY FramesAssumption DEF LoopInv, ScanInv, TypeOK
<1> QED BY <1>1, ScanInvInit, ScanInvStep, LoopInvariant, PTL DEF Spec
=============================================================================
