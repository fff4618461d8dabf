----------------------- MODULE WaveformPreviewProofs -----------------------
(***************************************************************************)
(* Proofs about WaveformFrame, for every frame, sample type and channel    *)
(* count: what the preview prints is what the payload holds.               *)
(***************************************************************************)
EXTENDS WaveformFrameProofs

\* The samples of the current time step that come before channel n.
StepSoFar(n) ==
  SubSeq(frame.samples, t * frame.channels + 1, t * frame.channels + n)

\* The rows printed are steps of the payload, the one under way is the beginning of one.
PreviewInv ==
  /\ rows \in Seq(Seq(Samples))
  /\ pc = "header" => rows = <<>> /\ row = <<>>
  /\ pc = "raw" => Len(rows) = t /\ row = StepSoFar(ch)
  /\ pc = "scaled" => Len(rows) = t + 1
  /\ PreviewIsPayload
-----------------------------------------------------------------------------
\* A stretch of a sequence and the element after it are the stretch longer by one.
LEMMA StretchGrows ==
  ASSUME NEW S, NEW s \in Seq(S), NEW a \in Nat, NEW n \in Nat, a + n + 1 <= Len(s)
  PROVE  /\ Append(SubSeq(s, a + 1, a + n), s[a + n + 1]) = SubSeq(s, a + 1, a + n + 1)
         /\ SubSeq(s, a + 1, a + n + 1) \in Seq(S)
<1> DEFINE u == Append(SubSeq(s, a + 1, a + n), s[a + n + 1])
           v == SubSeq(s, a + 1, a + n + 1)
<1>1. SubSeq(s, a + 1, a + n) \in Seq(S) /\ Len(SubSeq(s, a + 1, a + n)) = n
  OBVIOUS
<1>2. v \in Seq(S) /\ Len(v) = n + 1
  OBVIOUS
<1>3. s[a + n + 1] \in S
  OBVIOUS
<1>4. u \in Seq(S) /\ Len(u) = n + 1
  BY <1>1, <1>3
<1>5. \A i \in 1..(n + 1) : u[i] = v[i]
  <2> TAKE i \in 1..(n + 1)
  <2>1. v[i] = s[a + i]
    OBVIOUS
  <2>2. CASE i <= n
    <3>1. SubSeq(s, a + 1, a + n)[i] = s[a + i]
      BY <2>2
    <3> QED BY <1>1, <1>3, <2>1, <2>2, <3>1
  <2>3. CASE i = n + 1
    BY <1>1, <1>3, <2>1, <2>3
  <2> QED BY <2>2, <2>3
<1> HIDE DEF u, v
<1>6. u = v
  BY <1>2, <1>4, <1>5
<1> QED BY <1>2, <1>6 DEF u, v

\* In the preview: the next sample lengthens what is shown of the step, up to all of it.
LEMMA NextSample ==
  ASSUME LoopInv, pc \in {"raw", "scaled"}
  PROVE  /\ Append(StepSoFar(ch), Sample) = StepSoFar(ch + 1)
         /\ StepSoFar(ch + 1) \in Seq(Samples)
<1> DEFINE a == t * frame.channels
<1>1. /\ frame \in Frames /\ Decodable(frame) /\ t \in Nat /\ ch \in Nat
      /\ ch < frame.channels /\ t < TimeSteps(frame)
  BY StepsFit DEF LoopInv
<1>2. frame.samples \in Seq(Samples) /\ frame.channels \in Nat
  BY <1>1, FrameType
<1>3. a \in Nat
  BY <1>1, <1>2, SMT
<1>4. Index(frame, t, ch) = a + ch
  BY DEF Index
<1>5. a + ch + 1 <= Len(frame.samples)
  BY <1>1, <1>4, IndexInSamples
<1> HIDE DEF a
<1>6. /\ Append(SubSeq(frame.samples, a + 1, a + ch), frame.samples[a + ch + 1])
           = SubSeq(frame.samples, a + 1, a + ch + 1)
      /\ SubSeq(frame.samples, a + 1, a + ch + 1) \in Seq(Samples)
  BY <1>1, <1>2, <1>3, <1>5, StretchGrows
<1>7. a + (ch + 1) = a + ch + 1
  BY <1>1, <1>3
<1> QED BY <1>4, <1>6, <1>7 DEF a, Sample, StepSoFar

\* A step that has not begun is shown as nothing.
LEMMA NothingYet ==
  ASSUME NEW f \in Frames, NEW i \in Nat
  PROVE  SubSeq(f.samples, i * f.channels + 1, i * f.channels + 0) = <<>>
<1> DEFINE a == i * f.channels
<1>1. a \in Nat
  BY FrameType, SMT
<1>2. f.samples \in Seq(Samples)
  BY FrameType
<1> HIDE DEF a
<1>3. SubSeq(f.samples, a + 1, a + 0) = <<>>
  BY <1>1, <1>2
<1> QED BY <1>3 DEF a

LEMMA PreviewInvInit == Init => PreviewInv
  BY DEF Init, PreviewInv, PreviewIsPayload

\* A complete step joins the rows.
LEMMA RowCompleted ==
  ASSUME LoopInv, PreviewInv, PrintRaw, ~(ch + 1 < frame.channels)
  PROVE  /\ rows' \in Seq(Seq(Samples)) /\ Len(rows') = t + 1
         /\ PreviewIsPayload'
<1> DEFINE C == frame.channels
<1>1. /\ frame \in Frames /\ C \in Nat /\ t \in Nat /\ ch \in Nat /\ ch + 1 = C
      /\ pc = "raw" /\ frame' = frame
  BY FrameType DEF PrintRaw, LoopInv
<1>2. Append(row, Sample) = StepSoFar(C) /\ StepSoFar(C) \in Seq(Samples)
  BY <1>1, NextSample DEF PreviewInv
<1>3. /\ rows \in Seq(Seq(Samples)) /\ Len(rows) = t
      /\ rows' = Append(rows, StepSoFar(C))
  BY <1>1, <1>2 DEF PrintRaw, PreviewInv
<1>4. rows' \in Seq(Seq(Samples)) /\ Len(rows') = t + 1
  BY <1>1, <1>2, <1>3
<1>5. ASSUME NEW i \in 1..Len(rows')
      PROVE  rows'[i] = SubSeq(frame.samples, (i - 1) * C + 1, i * C)
  <2>1. CASE i = t + 1
    <3>1. i - 1 = t /\ i * C = t * C + C
      BY <1>1, <2>1, SMT
    <3>2. rows'[i] = StepSoFar(C)
      BY <1>1, <1>2, <1>3, <2>1
    <3> QED BY <3>1, <3>2 DEF StepSoFar
  <2>2. CASE i # t + 1
    <3>1. i \in 1..Len(rows) /\ rows'[i] = rows[i]
      BY <1>1, <1>2, <1>3, <1>4, <2>2
    <3> QED BY <3>1 DEF PreviewInv, PreviewIsPayload
  <2> QED BY <2>1, <2>2
<1> QED BY <1>1, <1>4, <1>5 DEF PreviewIsPayload

LEMMA PreviewInvStep == LoopInv /\ PreviewInv /\ [Next]_vars => PreviewInv'
<1> SUFFICES ASSUME LoopInv, PreviewInv, [Next]_vars PROVE PreviewInv'
  OBVIOUS
<1>0. /\ frame \in Frames /\ frame.channels \in Nat /\ t \in Nat /\ ch \in Nat
  BY FrameType DEF LoopInv
<1>1. CASE Reject
  BY <1>1 DEF Reject, outVars, PreviewInv, PreviewIsPayload
<1>2. CASE Accept
  <2>1. /\ t' = 0 /\ ch' = 0 /\ frame' = frame /\ rows' = <<>> /\ row' = <<>>
        /\ pc' \in {"scan", "raw"}
    BY <1>2 DEF Accept, outVars, LoopInv, PreviewInv
  <2>2. row' = StepSoFar(ch)'
    BY <1>0, <2>1, NothingYet DEF StepSoFar
  <2> QED BY <2>1, <2>2 DEF PreviewInv, PreviewIsPayload
<1>3. CASE PrintRaw
  <2>1. CASE ch + 1 < frame.channels
    <3>1. /\ ch' = ch + 1 /\ row' = Append(row, Sample) /\ pc = "raw"
          /\ UNCHANGED <<frame, pc, t, rows>>
      BY <1>3, <2>1 DEF PrintRaw
    <3>2. row' = StepSoFar(ch)'
      BY <3>1, NextSample DEF PreviewInv, StepSoFar
    <3> QED BY <3>1, <3>2 DEF PreviewInv, PreviewIsPayload
  <2>2. CASE ~(ch + 1 < frame.channels)
    <3>1. /\ rows' \in Seq(Seq(Samples)) /\ Len(rows') = t + 1
          /\ PreviewIsPayload'
      BY <1>3, <2>2, RowCompleted
    <3>2. /\ ch' = 0 /\ row' = <<>> /\ frame' = frame
          /\ \/ pc' = "scaled" /\ t' = t
             \/ pc' = "raw" /\ t' = t + 1
             \/ pc' = "scan"
      BY <1>3, <2>2 DEF PrintRaw, NextRow
    <3>3. t' \in Nat => row' = StepSoFar(ch)'
      BY <1>0, <3>2, NothingYet DEF StepSoFar
    <3> QED BY <1>0, <3>1, <3>2, <3>3 DEF PreviewInv
  <2> QED BY <2>1, <2>2
<1>4. CASE PrintScaled
  <2>1. /\ pc = "scaled" /\ UNCHANGED <<frame, rows>>
        /\ \/ pc' = "scaled" /\ t' = t
           \/ pc' = "raw" /\ t' = t + 1 /\ ch' = 0 /\ row' = <<>>
           \/ pc' = "scan"
    BY <1>4 DEF PrintScaled, NextRow
  <2>2. pc' = "raw" => row' = StepSoFar(ch)'
    BY <1>0, <2>1, NothingYet DEF StepSoFar
  <2> QED BY <2>1, <2>2 DEF PreviewInv, PreviewIsPayload
<1>5. CASE ScanSample \/ ScanDone
  <2>1. UNCHANGED <<frame, rows>> /\ pc' \in {"scan", "scan_scaled", "done"}
    BY <1>5 DEF ScanSample, ScanDone, outVars
  <2> QED BY <2>1 DEF PreviewInv, PreviewIsPayload
<1>6. CASE UNCHANGED vars
  BY <1>6 DEF vars, outVars, PreviewInv, PreviewIsPayload, StepSoFar
<1> QED BY <1>1, <1>2, <1>3, <1>4, <1>5, <1>6 DEF Next, Done

\* The rows the preview prints are the payload's first time steps, complete, in order
\* and each channel in its place, for every channel count.
THEOREM PreviewShowsThePayload == Spec => []PreviewIsPayload
<1>1. PreviewInv => PreviewIsPayload
  BY DEF PreviewInv
<1> QED BY <1>1, PreviewInvInit, PreviewInvStep, LoopInvariant, PTL DEF Spec
-----------------------------------------------------------------------------
ScaledSamples == Samples \X {"V", "A"}

\* A row of scaled samples shows what the raw row shows.
Twin(scaled, raw) ==
  Len(scaled) = Len(raw) /\ \A c \in 1..Len(raw) : scaled[c][1] = raw[c]

\* The scaled rows keep up with the raw ones, and what is ready of the row under way
\* agrees with the raw row just printed.
RowsInv ==
  /\ srows \in Seq(Seq(ScaledSamples))
  /\ frame.type # "INT16" => srows = <<>>
  /\ frame.type = "INT16" /\ pc # "scaled" => Len(srows) = Len(rows)
  /\ pc = "scaled" =>
       /\ frame.type = "INT16" /\ Len(srows) = t
       /\ row \in Seq(ScaledSamples) /\ Len(row) = ch
       /\ \A c \in 1..ch : row[c][1] = rows[t + 1][c]
  /\ \A i \in 1..Len(srows) : Twin(srows[i], rows[i])

LEMMA RowsInvInit == Init => RowsInv
  BY DEF Init, PreviewInv, RowsInv

\* What a stretch of a sequence holds.
LEMMA InStretch ==
  ASSUME NEW S, NEW s \in Seq(S), NEW a \in Nat, NEW m \in Nat, a + m <= Len(s),
         NEW k \in Nat, k < m
  PROVE  /\ Len(SubSeq(s, a + 1, a + m)) = m
         /\ SubSeq(s, a + 1, a + m)[k + 1] = s[a + k + 1]
  OBVIOUS

\* A row just printed raw holds, in its place, the sample about to be scaled.
LEMMA SampleOfRow ==
  ASSUME LoopInv, PreviewInv, pc = "scaled"
  PROVE  /\ Len(rows[t + 1]) = frame.channels
         /\ rows[t + 1][ch + 1] = Sample
         /\ Sample \in Samples
<1> DEFINE a == t * frame.channels
<1>1. /\ frame \in Frames /\ Decodable(frame) /\ t \in Nat /\ ch \in Nat
      /\ ch < frame.channels /\ t < TimeSteps(frame) /\ TimeSteps(frame) \in Nat
      /\ TimeSteps(frame) * frame.channels <= Len(frame.samples)
  BY StepsFit DEF LoopInv
<1>2. frame.samples \in Seq(Samples) /\ Len(frame.samples) \in Nat /\ frame.channels \in Nat
  BY <1>1, FrameType
<1>3. a \in Nat
  BY <1>1, <1>2, SMT
<1>4. a + frame.channels <= Len(frame.samples)
  <2>0. frame.channels - 1 \in Nat /\ frame.channels - 1 < frame.channels
    BY <1>1, <1>2
  <2>1. t * frame.channels + (frame.channels - 1) + 1 <= TimeSteps(frame) * frame.channels
    BY <1>1, <1>2, <2>0, RowBound
  <2>2. TimeSteps(frame) * frame.channels \in Nat
    BY <1>1, <1>2, SMT
  <2> QED BY <1>1, <1>2, <1>3, <2>1, <2>2
<1>5. rows[t + 1] = SubSeq(frame.samples, a + 1, a + frame.channels)
  <2>1. rows[t + 1] = SubSeq(frame.samples, ((t + 1) - 1) * frame.channels + 1,
                             (t + 1) * frame.channels)
    BY <1>1 DEF PreviewInv, PreviewIsPayload
  <2>2. (t + 1) - 1 = t /\ (t + 1) * frame.channels = a + frame.channels
    BY <1>1, <1>2, SMT
  <2> QED BY <2>1, <2>2
<1>6. Sample = frame.samples[a + ch + 1]
  BY DEF Sample, Index
<1>7. Sample \in Samples
  BY <1>1, IndexInSamples DEF Sample
<1> HIDE DEF a
<1>8. /\ Len(SubSeq(frame.samples, a + 1, a + frame.channels)) = frame.channels
      /\ SubSeq(frame.samples, a + 1, a + frame.channels)[ch + 1] = frame.samples[a + ch + 1]
  BY <1>1, <1>2, <1>3, <1>4, InStretch
<1> QED BY <1>5, <1>6, <1>7, <1>8

\* A scaled row completed is the twin of the raw one.
LEMMA ScaledRowCompleted ==
  ASSUME LoopInv, PreviewInv, RowsInv, PrintScaled, ~(ch + 1 < frame.channels)
  PROVE  /\ srows' \in Seq(Seq(ScaledSamples)) /\ Len(srows') = t + 1
         /\ \A i \in 1..Len(srows') : Twin(srows'[i], rows[i])
<1> DEFINE one == <<Sample, Unit(frame, ch)>>
           whole == Append(row, one)
<1>1. /\ pc = "scaled" /\ t \in Nat /\ ch \in Nat /\ frame.channels \in Nat
      /\ ch + 1 = frame.channels /\ srows' = Append(srows, whole)
  BY FrameType DEF PrintScaled, LoopInv
<1>2. /\ srows \in Seq(Seq(ScaledSamples)) /\ Len(srows) = t
      /\ row \in Seq(ScaledSamples) /\ Len(row) = ch
      /\ \A c \in 1..ch : row[c][1] = rows[t + 1][c]
  BY <1>1 DEF RowsInv
<1>3. /\ Len(rows[t + 1]) = ch + 1 /\ rows[t + 1][ch + 1] = Sample /\ Sample \in Samples
  BY <1>1, SampleOfRow
<1>4. one \in ScaledSamples /\ one[1] = Sample
  BY <1>3 DEF ScaledSamples, Unit
<1> HIDE DEF one
<1>5. whole \in Seq(ScaledSamples) /\ Len(whole) = ch + 1
  BY <1>1, <1>2, <1>4
<1>6. ASSUME NEW c \in 1..(ch + 1) PROVE whole[c][1] = rows[t + 1][c]
  <2>1. CASE c = ch + 1
    BY <1>1, <1>2, <1>3, <1>4, <2>1
  <2>2. CASE c # ch + 1
    <3>1. c \in 1..ch /\ whole[c] = row[c]
      BY <1>1, <1>2, <1>4, <2>2
    <3> QED BY <1>2, <3>1
  <2> QED BY <2>1, <2>2
<1>7. Twin(whole, rows[t + 1])
  BY <1>3, <1>5, <1>6 DEF Twin
<1> HIDE DEF whole
<1>8. srows' \in Seq(Seq(ScaledSamples)) /\ Len(srows') = t + 1
  BY <1>1, <1>2, <1>5
<1>9. ASSUME NEW i \in 1..Len(srows') PROVE Twin(srows'[i], rows[i])
  <2>1. CASE i = t + 1
    BY <1>1, <1>2, <1>5, <1>7, <2>1
  <2>2. CASE i # t + 1
    <3>1. i \in 1..Len(srows) /\ srows'[i] = srows[i]
      BY <1>1, <1>2, <1>5, <1>8, <2>2
    <3> QED BY <3>1 DEF RowsInv
  <2> QED BY <2>1, <2>2
<1> QED BY <1>8, <1>9

LEMMA RowsInvStep == LoopInv /\ PreviewInv /\ RowsInv /\ [Next]_vars => RowsInv'
<1> SUFFICES ASSUME LoopInv, PreviewInv, RowsInv, [Next]_vars PROVE RowsInv'
  OBVIOUS
<1>0. /\ frame.channels \in Nat /\ t \in Nat /\ ch \in Nat /\ rows \in Seq(Seq(Samples))
  BY FrameType DEF LoopInv, PreviewInv
<1>1. CASE Reject \/ Accept
  BY <1>1 DEF Reject, Accept, outVars, RowsInv
<1>2. CASE PrintRaw
  <2>1. CASE ch + 1 < frame.channels
    BY <1>2, <2>1 DEF PrintRaw, RowsInv
  <2>2. CASE ~(ch + 1 < frame.channels)
    <3>1. /\ pc = "raw" /\ ch' = 0 /\ row' = <<>> /\ UNCHANGED <<frame, srows>>
          /\ rows' = Append(rows, Append(row, Sample))
          /\ \/ frame.type = "INT16" /\ pc' = "scaled" /\ t' = t
             \/ frame.type # "INT16" /\ pc' \in {"raw", "scan"}
      BY <1>2, <2>2 DEF PrintRaw, NextRow
    <3>2. Append(row, Sample) \in Seq(Samples)
      BY <3>1, NextSample DEF PreviewInv
    <3>3. Len(rows) = t /\ \A i \in 1..Len(rows) : rows'[i] = rows[i]
      BY <1>0, <3>1, <3>2 DEF PreviewInv
    <3>4. frame.type = "INT16" => Len(srows) = t
      BY <3>1, <3>3 DEF RowsInv
    <3>5. \A i \in 1..Len(srows) : Twin(srows'[i], rows'[i])
      <4>1. CASE frame.type = "INT16"
        BY <1>0, <3>1, <3>3, <3>4, <4>1 DEF RowsInv
      <4>2. CASE frame.type # "INT16"
        BY <4>2 DEF RowsInv
      <4> QED BY <4>1, <4>2
    <3> QED BY <1>0, <3>1, <3>4, <3>5 DEF RowsInv
  <2> QED BY <2>1, <2>2
<1>3. CASE PrintScaled
  <2>0. /\ pc = "scaled" /\ frame.type = "INT16" /\ Len(rows) = t + 1
        /\ UNCHANGED <<frame, rows>>
    BY <1>3 DEF PrintScaled, RowsInv, PreviewInv
  <2>1. CASE ch + 1 < frame.channels
    <3> DEFINE one == <<Sample, Unit(frame, ch)>>
    <3>1. /\ ch' = ch + 1 /\ row' = Append(row, one) /\ UNCHANGED <<pc, t, srows>>
      BY <1>3, <2>1 DEF PrintScaled
    <3>2. one \in ScaledSamples /\ one[1] = rows[t + 1][ch + 1]
      BY <2>0, SampleOfRow DEF ScaledSamples, Unit
    <3> HIDE DEF one
    <3>3. row \in Seq(ScaledSamples) /\ Len(row) = ch
          /\ \A c \in 1..ch : row[c][1] = rows[t + 1][c]
      BY <2>0 DEF RowsInv
    <3>4. row' \in Seq(ScaledSamples) /\ Len(row') = ch + 1
      BY <1>0, <3>1, <3>2, <3>3
    <3>5. ASSUME NEW c \in 1..(ch + 1) PROVE row'[c][1] = rows[t + 1][c]
      <4>1. CASE c = ch + 1
        BY <1>0, <3>1, <3>2, <3>3, <4>1
      <4>2. CASE c # ch + 1
        <5>1. c \in 1..ch /\ row'[c] = row[c]
          BY <1>0, <3>1, <3>2, <3>3, <4>2
        <5> QED BY <3>3, <5>1
      <4> QED BY <4>1, <4>2
    <3> QED BY <2>0, <3>1, <3>4, <3>5 DEF RowsInv
  <2>2. CASE ~(ch + 1 < frame.channels)
    <3>1. /\ srows' \in Seq(Seq(ScaledSamples)) /\ Len(srows') = t + 1
          /\ \A i \in 1..Len(srows') : Twin(srows'[i], rows[i])
      BY <1>3, <2>2, ScaledRowCompleted
    <3>2. pc' \in {"raw", "scan"}
      BY <1>3, <2>2 DEF PrintScaled, NextRow
    <3> QED BY <2>0, <3>1, <3>2 DEF RowsInv
  <2> QED BY <2>1, <2>2
<1>4. CASE ScanSample \/ ScanDone
  BY <1>4 DEF ScanSample, ScanDone, outVars, RowsInv
<1>5. CASE UNCHANGED vars
  BY <1>5 DEF vars, outVars, RowsInv
<1> QED BY <1>1, <1>2, <1>3, <1>4, <1>5 DEF Next, Done
-----------------------------------------------------------------------------
\* lo and hi have not been moved past where a scan of a channel of type ty starts.
WithinLimits(ty, lo, hi) == lo <= MaxOf[ty] /\ LowestOf[ty] <= hi

\* The scaled ranges follow the raw ones, which were all printed before.
TwinRanges ==
  /\ WithinLimits(frame.type, min, max)
  /\ \A i \in 1..Len(ranges) : WithinLimits(frame.type, ranges[i][1], ranges[i][2])
  /\ sranges \in Seq(Int \X Int \X {"V", "A"})
  /\ pc \notin {"scan_scaled", "done"} => sranges = <<>>
  /\ pc = "scan_scaled" => Len(ranges) = frame.channels /\ Len(sranges) = ch
  /\ pc = "done" /\ frame.type = "INT16" => Len(sranges) = Len(ranges)
  /\ \A i \in 1..Len(sranges) :
       sranges[i][1] = ranges[i][1] /\ sranges[i][2] = ranges[i][2]

\* A set of numbers has one range within the limits.
LEMMA OneRange ==
  ASSUME NEW ty \in Types, NEW N \in SUBSET Int,
         NEW lo \in Int, NEW hi \in Int, NEW lo2 \in Int, NEW hi2 \in Int,
         IsRange(N, ty, lo, hi), WithinLimits(ty, lo, hi),
         IsRange(N, ty, lo2, hi2), WithinLimits(ty, lo2, hi2)
  PROVE  lo = lo2 /\ hi = hi2
<1>0. MaxOf[ty] \in Int /\ LowestOf[ty] \in Int
  BY SizesAssumption
<1>1. lo = lo2
  BY <1>0 DEF IsRange, WithinLimits
<1>2. hi = hi2
  BY <1>0 DEF IsRange, WithinLimits
<1> QED BY <1>1, <1>2

\* The numbers of a channel are integers.
LEMMA NumbersType ==
  ASSUME NEW f \in Frames, Decodable(f), NEW c \in Nat, c < f.channels
  PROVE  Numbers(f, c, TimeSteps(f)) \in SUBSET Int
<1>1. \A i \in 0..(TimeSteps(f) - 1) : f.samples[Index(f, i, c) + 1] \in Samples
  <2> TAKE i \in 0..(TimeSteps(f) - 1)
  <2>1. i \in Nat /\ i < TimeSteps(f)
    BY StepsFit
  <2> QED BY <2>1, IndexInSamples
<1> QED BY <1>1 DEF Numbers, Samples

LEMMA TwinRangesInit == Init => TwinRanges
<1> SUFFICES ASSUME Init PROVE TwinRanges
  OBVIOUS
<1>1. /\ frame.type \in Types /\ ranges = <<>> /\ sranges = <<>> /\ pc = "header"
      /\ min = MaxOf[frame.type] /\ max = LowestOf[frame.type]
  BY FrameType DEF Init
<1>2. WithinLimits(frame.type, min, max)
  BY <1>1, SizesAssumption DEF WithinLimits
<1> QED BY <1>1, <1>2 DEF TwinRanges

\* The scaled scan of a channel ends with the range the raw scan printed.
LEMMA SameRangeAgain ==
  ASSUME LoopInv, ScanInv, TwinRanges, pc = "scan_scaled", t = TimeSteps(frame)
  PROVE  ch + 1 \in 1..Len(ranges) /\ min = ranges[ch + 1][1] /\ max = ranges[ch + 1][2]
<1>1. /\ frame \in Frames /\ frame.type \in Types /\ Decodable(frame) /\ ch \in Nat
      /\ ch < frame.channels /\ frame.channels \in Nat
  BY FrameType DEF LoopInv
<1>2. ch + 1 \in 1..Len(ranges) /\ (ch + 1) - 1 = ch
  BY <1>1 DEF TwinRanges
<1>3. ranges[ch + 1][1] \in Int /\ ranges[ch + 1][2] \in Int
  BY <1>2 DEF ScanInv
<1>4. WithinLimits(frame.type, ranges[ch + 1][1], ranges[ch + 1][2])
  BY <1>2 DEF TwinRanges
<1> DEFINE N == Numbers(frame, ch, TimeSteps(frame))
<1>5. IsRange(N, frame.type, ranges[ch + 1][1], ranges[ch + 1][2])
  BY <1>2 DEF ScanInv, RangesRight
<1>6. IsRange(N, frame.type, min, max) /\ min \in Int /\ max \in Int
  BY DEF ScanInv
<1>7. WithinLimits(frame.type, min, max) /\ N \in SUBSET Int
  BY <1>1, NumbersType DEF TwinRanges
<1> HIDE DEF N
<1> QED BY <1>1, <1>2, <1>3, <1>4, <1>5, <1>6, <1>7, OneRange

LEMMA TwinRangesStep == LoopInv /\ ScanInv /\ TwinRanges /\ [Next]_vars => TwinRanges'
<1> SUFFICES ASSUME LoopInv, ScanInv, TwinRanges, [Next]_vars PROVE TwinRanges'
  OBVIOUS
<1>0. /\ frame \in Frames /\ frame.type \in Types /\ frame.channels \in Nat
      /\ t \in Nat /\ ch \in Nat /\ min \in Int /\ max \in Int
      /\ MaxOf[frame.type] \in Int /\ LowestOf[frame.type] \in Int
      /\ LowestOf[frame.type] < MaxOf[frame.type]
  BY FrameType, SizesAssumption DEF LoopInv, ScanInv
<1>1. CASE Reject
  <2>1. /\ pc = "header" /\ pc' = "done" /\ UNCHANGED <<frame, min, max, ranges, sranges>>
    BY <1>1 DEF Reject, outVars
  <2>2. ranges = <<>> /\ sranges = <<>>
    BY <2>1 DEF ScanInv, TwinRanges
  <2> QED BY <2>1, <2>2 DEF TwinRanges
<1>2. CASE Accept \/ PrintRaw \/ PrintScaled
  <2>1. /\ pc \in {"header", "raw", "scaled"} /\ pc' \in {"raw", "scaled", "scan"}
        /\ UNCHANGED <<frame, min, max, ranges, sranges>>
    BY <1>2 DEF Accept, PrintRaw, PrintScaled, NextRow, outVars
  <2> QED BY <2>1 DEF TwinRanges
<1>3. CASE ScanSample
  <2>1. /\ pc \in {"scan", "scan_scaled"} /\ t < TimeSteps(frame)
        /\ UNCHANGED <<frame, pc, ch, ranges, sranges>>
        /\ min' = IF Less(Sample, min) THEN Sample ELSE min
        /\ max' = IF Less(max, Sample) THEN Sample ELSE max
    BY <1>3 DEF ScanSample, outVars
  <2>2. Sample \in Samples
    BY <1>0, <2>1, IndexInSamples DEF Sample, LoopInv
  <2>3. WithinLimits(frame.type, min', max')
    BY <1>0, <2>1, <2>2 DEF TwinRanges, WithinLimits, Less, Samples
  <2> QED BY <2>1, <2>3 DEF TwinRanges
<1>4. CASE ScanDone
  <2>1. /\ pc \in {"scan", "scan_scaled"} /\ t = TimeSteps(frame) /\ UNCHANGED frame
        /\ min' = MaxOf[frame.type] /\ max' = LowestOf[frame.type]
    BY <1>4 DEF ScanDone
  <2>2. WithinLimits(frame.type, min', max')
    BY <1>0, <2>1 DEF WithinLimits
  <2>3. CASE pc = "scan"
    <3>1. /\ ranges' = Append(ranges, <<min, max>>) /\ sranges' = <<>>
          /\ \/ pc' = "scan" /\ ch' = ch + 1
             \/ /\ ~(ch + 1 < frame.channels) /\ ch' = 0
                /\ pc' = IF frame.type = "INT16" THEN "scan_scaled" ELSE "done"
      BY <1>4, <2>3 DEF ScanDone, TwinRanges
    <3>2. ranges \in Seq(Int \X Int) /\ Len(ranges) = ch /\ ch < frame.channels
      BY <2>3 DEF ScanInv, LoopInv
    <3>3. /\ Len(ranges') = ch + 1 /\ ranges'[ch + 1] = <<min, max>>
          /\ \A i \in 1..ch : ranges'[i] = ranges[i]
      BY <1>0, <3>1, <3>2
    <3>4. ASSUME NEW i \in 1..Len(ranges')
          PROVE  WithinLimits(frame.type, ranges'[i][1], ranges'[i][2])
      <4>1. CASE i = ch + 1
        BY <3>3, <4>1 DEF TwinRanges
      <4>2. CASE i # ch + 1
        <5>1. i \in 1..Len(ranges) /\ ranges'[i] = ranges[i]
          BY <1>0, <3>2, <3>3, <4>2
        <5> QED BY <5>1 DEF TwinRanges
      <4> QED BY <4>1, <4>2
    <3>5. pc' = "scan_scaled" => Len(ranges') = frame.channels /\ Len(sranges') = ch'
      BY <1>0, <3>1, <3>2, <3>3
    <3> QED BY <2>1, <2>2, <3>1, <3>4, <3>5 DEF TwinRanges
  <2>4. CASE pc = "scan_scaled"
    <3> DEFINE one == <<min, max, Unit(frame, ch)>>
    <3>1. /\ sranges' = Append(sranges, one) /\ ranges' = ranges
          /\ \/ pc' = "scan_scaled" /\ ch' = ch + 1
             \/ ~(ch + 1 < frame.channels) /\ ch' = 0 /\ pc' = "done"
      BY <1>4, <2>4 DEF ScanDone
    <3>2. one \in Int \X Int \X {"V", "A"} /\ one[1] = min /\ one[2] = max
      BY <1>0 DEF Unit
    <3> HIDE DEF one
    <3>3. /\ sranges \in Seq(Int \X Int \X {"V", "A"}) /\ Len(sranges) = ch
          /\ Len(ranges) = frame.channels /\ ch < frame.channels
      BY <2>4 DEF TwinRanges, LoopInv
    <3>4. sranges' \in Seq(Int \X Int \X {"V", "A"}) /\ Len(sranges') = ch + 1
          /\ sranges'[ch + 1] = one /\ \A i \in 1..ch : sranges'[i] = sranges[i]
      BY <1>0, <3>1, <3>2, <3>3
    <3>5. ASSUME NEW i \in 1..Len(sranges')
          PROVE  sranges'[i][1] = ranges[i][1] /\ sranges'[i][2] = ranges[i][2]
      <4>1. CASE i = ch + 1
        BY <2>1, <2>4, <3>2, <3>4, <4>1, SameRangeAgain
      <4>2. CASE i # ch + 1
        <5>1. i \in 1..(ch + 1) /\ i # ch + 1
          BY <3>4, <4>2
        <5>2. i \in 1..ch
          BY <1>0, <5>1
        <5>3. i \in 1..Len(sranges) /\ sranges'[i] = sranges[i]
          BY <3>3, <3>4, <5>2
        <5> QED BY <5>3 DEF TwinRanges
      <4> QED BY <4>1, <4>2
    <3>6. pc' = "done" => Len(sranges') = Len(ranges)
      BY <1>0, <3>1, <3>3, <3>4
    <3>7. pc' = "scan_scaled" => Len(ranges) = frame.channels /\ Len(sranges') = ch'
      BY <3>1, <3>3, <3>4
    <3> QED BY <2>1, <2>2, <3>1, <3>4, <3>5, <3>6, <3>7 DEF TwinRanges
  <2> QED BY <2>1, <2>3, <2>4
<1>5. CASE UNCHANGED vars
  BY <1>5 DEF vars, outVars, TwinRanges
<1> QED BY <1>1, <1>2, <1>3, <1>4, <1>5 DEF Next, Done

\* The scaled preview and the scaled ranges repeat the raw ones sample for sample and
\* channel for channel: the two pairs of loops over the payload cannot drift apart.
THEOREM ScaledLoopsAgree == Spec => []ScaledAgrees
<1>1. PreviewInv /\ RowsInv /\ TwinRanges => ScaledAgrees
  <2> SUFFICES ASSUME PreviewInv, RowsInv, TwinRanges PROVE ScaledAgrees
    OBVIOUS
  <2>1. Len(rows) \in Nat
    BY DEF PreviewInv
  <2>2. Len(srows) \in {Len(rows) - 1, Len(rows)} \/ frame.type # "INT16"
    BY <2>1 DEF PreviewInv, RowsInv
  <2>3. \A i \in 1..Len(srows) : Len(srows[i]) = Len(rows[i])
          /\ \A c \in 1..Len(rows[i]) : srows[i][c][1] = rows[i][c]
    BY DEF RowsInv, Twin
  <2> QED BY <2>2, <2>3 DEF ScaledAgrees, TwinRanges
<1> QED BY <1>1, PreviewInvInit, PreviewInvStep, RowsInvInit, RowsInvStep,
           TwinRangesInit, TwinRangesStep, ScanInvInit, ScanInvStep, LoopInvariant,
           PTL DEF Spec
=============================================================================
