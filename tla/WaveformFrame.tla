--------------------------- MODULE WaveformFrame ---------------------------
(***************************************************************************)
(* DecodeAndPrintFrame of examples/waveform_subscribe_and_read.cpp: one    *)
(* waveform frame is a header and samples, time step by time step, the     *)
(* channels of a step in order.  The program previews the first steps      *)
(* (int16: raw and scaled), then scans each channel for its least and      *)
(* greatest sample (int16: once raw, once scaled).  Each action is one     *)
(* pass through the body of one loop: one sample of the payload.           *)
(*                                                                         *)
(* A sample is a number or NaN (floating-point types); numbers beyond      *)
(* MaxOf and LowestOf of a type are its infinities.                        *)
(***************************************************************************)
EXTENDS Integers, Sequences, FiniteSets

CONSTANTS
  Frames,      \* the frames: [size: bytes received, type, channels, voltage: the
               \* response's counts, samples: the whole samples after the header]
  HeaderSize,  \* sizeof(GeisaWaveformFrameHeader)
  SampleSizes, \* bytes per sample of each type, 0 when unknown
  MaxSteps,    \* max_time_steps
  MaxOf, LowestOf, \* numeric_limits of each type
  NaN

Types == {"INT16", "INT32", "FLOAT32", "FLOAT64", "UNSPECIFIED"}
Samples == Int \cup {NaN}
FrameRecords ==
  [size: Nat, type: Types, channels: Nat, voltage: Nat, samples: Seq(Samples)]
SampleSizeBytes(t) == SampleSizes[t]

ASSUME SizesAssumption ==
  /\ HeaderSize \in Nat /\ MaxSteps \in Nat /\ NaN \notin Int
  /\ SampleSizes \in [Types -> Nat]
  /\ MaxOf \in [Types -> Int] /\ LowestOf \in [Types -> Int]
  /\ \A t \in Types : LowestOf[t] < MaxOf[t]
ASSUME FramesAssumption ==
  \A f \in Frames :
    /\ f \in FrameRecords
    /\ f.size >= HeaderSize /\ SampleSizeBytes(f.type) > 0
       => Len(f.samples) = (f.size - HeaderSize) \div SampleSizeBytes(f.type)

VARIABLES
  frame,    \* the frame
  pc,       \* the loop the program is in
  t, ch,    \* its counters
  row,      \* the samples of this time step printed so far
  min, max, \* min_v and max_v of this channel
  rows,     \* printed: raw samples of each previewed step
  srows,    \* printed: scaled samples, with their unit, of each previewed step
  ranges,   \* printed: raw_min and raw_max of each channel
  sranges   \* printed: scaled_min and scaled_max, with their unit

outVars == <<rows, srows, ranges, sranges>>
vars == <<frame, pc, t, ch, row, min, max, rows, srows, ranges, sranges>>

\* Mutant of TimeSteps: a last, incomplete time step counts.
TimeStepsUp(f) == (Len(f.samples) + f.channels - 1) \div f.channels

\* Complete time steps in the payload, and how many of them are previewed.
TimeSteps(f) == Len(f.samples) \div f.channels
StepsToPrint(f) == IF TimeSteps(f) < MaxSteps THEN TimeSteps(f) ELSE MaxSteps

\* Mutant of Index: the payload is channel by channel.
IndexByChannel(f, step, c) == c * TimeSteps(f) + step

\* idx: sample c of time step step, from 0.
Index(f, step, c) == step * f.channels + c
Sample == frame.samples[Index(frame, t, ch) + 1]

\* Channel 0 is scaled as a voltage, every other as a current.
Unit(f, c) == IF c = 0 THEN "V" ELSE "A"

\* Mutant of Less: written as "not at least", which NaN satisfies.
LessNegated(a, b) == a = NaN \/ b = NaN \/ a < b

Less(a, b) == a # NaN /\ b # NaN /\ a < b

Init ==
  /\ frame \in Frames
  /\ pc = "header" /\ t = 0 /\ ch = 0 /\ row = <<>>
  /\ min = MaxOf[frame.type] /\ max = LowestOf[frame.type]
  /\ rows = <<>> /\ srows = <<>> /\ ranges = <<>> /\ sranges = <<>>

-----------------------------------------------------------------------------
\* "Frame too small", an unknown sample type, and no channels: nothing to print.
Reject ==
  /\ pc = "header"
  /\ frame.size < HeaderSize \/ SampleSizeBytes(frame.type) = 0 \/ frame.channels = 0
  /\ pc' = "done"
  /\ UNCHANGED <<frame, t, ch, row, min, max, outVars>>

Accept ==
  /\ pc = "header"
  /\ frame.size >= HeaderSize /\ SampleSizeBytes(frame.type) # 0 /\ frame.channels # 0
  /\ pc' = IF StepsToPrint(frame) = 0 THEN "scan" ELSE "raw"
  /\ UNCHANGED <<frame, t, ch, row, min, max, outVars>>

\* The preview of step t is complete: the next one, or the scans.
NextRow ==
  IF t + 1 < StepsToPrint(frame) THEN t' = t + 1 /\ pc' = "raw"
  ELSE t' = 0 /\ pc' = "scan"

\* One raw sample; after the last, int16 prints the step again, scaled.
PrintRaw ==
  /\ pc = "raw"
  /\ IF ch + 1 < frame.channels
     THEN ch' = ch + 1 /\ row' = Append(row, Sample) /\ UNCHANGED <<pc, t, rows>>
     ELSE /\ ch' = 0 /\ row' = <<>>
          /\ rows' = Append(rows, Append(row, Sample))
          /\ IF frame.type = "INT16" THEN pc' = "scaled" /\ UNCHANGED t ELSE NextRow
  /\ UNCHANGED <<frame, min, max, srows, ranges, sranges>>

PrintScaled ==
  LET one == <<Sample, Unit(frame, ch)>> IN
  /\ pc = "scaled"
  /\ IF ch + 1 < frame.channels
     THEN ch' = ch + 1 /\ row' = Append(row, one) /\ UNCHANGED <<pc, t, srows>>
     ELSE ch' = 0 /\ row' = <<>> /\ srows' = Append(srows, Append(row, one)) /\ NextRow
  /\ UNCHANGED <<frame, min, max, rows, ranges, sranges>>

-----------------------------------------------------------------------------
\* Mutant of ScanSample: a sample that lowers min_v is not compared with max_v.
ScanSampleElse ==
  /\ pc \in {"scan", "scan_scaled"} /\ t < TimeSteps(frame)
  /\ min' = IF Less(Sample, min) THEN Sample ELSE min
  /\ max' = IF ~Less(Sample, min) /\ Less(max, Sample) THEN Sample ELSE max
  /\ t' = t + 1
  /\ UNCHANGED <<frame, pc, ch, row, outVars>>

\* One sample of channel ch, of the raw or of the scaled scan.
ScanSample ==
  /\ pc \in {"scan", "scan_scaled"} /\ t < TimeSteps(frame)
  /\ min' = IF Less(Sample, min) THEN Sample ELSE min
  /\ max' = IF Less(max, Sample) THEN Sample ELSE max
  /\ t' = t + 1
  /\ UNCHANGED <<frame, pc, ch, row, outVars>>

\* Mutant of ScanDone: the scaled scan starts from what the raw scan left.
ScanDoneKeepsLimits ==
  /\ pc \in {"scan", "scan_scaled"} /\ t = TimeSteps(frame)
  /\ IF pc = "scan"
     THEN ranges' = Append(ranges, <<min, max>>) /\ UNCHANGED sranges
     ELSE sranges' = Append(sranges, <<min, max, Unit(frame, ch)>>) /\ UNCHANGED ranges
  /\ IF ch + 1 < frame.channels
     THEN /\ ch' = ch + 1 /\ UNCHANGED pc
          /\ min' = MaxOf[frame.type] /\ max' = LowestOf[frame.type]
     ELSE /\ ch' = 0 /\ UNCHANGED <<min, max>>
          /\ pc' = IF pc = "scan" /\ frame.type = "INT16" THEN "scan_scaled" ELSE "done"
  /\ t' = 0
  /\ UNCHANGED <<frame, row, rows, srows>>

\* Channel ch is scanned: print its range, go on with the next, with fresh limits.
ScanDone ==
  /\ pc \in {"scan", "scan_scaled"} /\ t = TimeSteps(frame)
  /\ IF pc = "scan"
     THEN ranges' = Append(ranges, <<min, max>>) /\ UNCHANGED sranges
     ELSE sranges' = Append(sranges, <<min, max, Unit(frame, ch)>>) /\ UNCHANGED ranges
  /\ IF ch + 1 < frame.channels
     THEN ch' = ch + 1 /\ UNCHANGED pc
     ELSE /\ ch' = 0
          /\ pc' = IF pc = "scan" /\ frame.type = "INT16" THEN "scan_scaled" ELSE "done"
  /\ min' = MaxOf[frame.type] /\ max' = LowestOf[frame.type]
  /\ t' = 0
  /\ UNCHANGED <<frame, row, rows, srows>>

Done == pc = "done" /\ UNCHANGED vars
Next == Reject \/ Accept \/ PrintRaw \/ PrintScaled \/ ScanSample \/ ScanDone \/ Done

Spec == Init /\ [][Next]_vars
-----------------------------------------------------------------------------
TypeOK ==
  /\ frame \in FrameRecords
  /\ pc \in {"header", "raw", "scaled", "scan", "scan_scaled", "done"}
  /\ t \in Nat /\ ch \in Nat
  /\ min \in Int /\ max \in Int

\* What the loops are about to read lies in the payload, for every frame size,
\* sample size and channel count: in a time step cut short nothing is read.
Reading ==
  \/ pc \in {"raw", "scaled"}
  \/ pc \in {"scan", "scan_scaled"} /\ t < TimeSteps(frame)
ReadsInBounds ==
  Reading =>
    HeaderSize + (Index(frame, t, ch) + 1) * SampleSizeBytes(frame.type) <= frame.size

\* The preview shows the first time steps as they are in the payload.
PreviewIsPayload ==
  \A i \in 1..Len(rows) :
    rows[i] = SubSeq(frame.samples, (i - 1) * frame.channels + 1, i * frame.channels)

\* The samples of channel c in the first n time steps that are numbers.
Numbers(f, c, n) ==
  {f.samples[Index(f, i, c) + 1] : i \in 0..(n - 1)} \ {NaN}

\* lo is the least and hi the greatest of numbers N of type ty.  When there is none,
\* or none on the near side of an infinity, they keep numeric_limits' own values.
IsRange(N, ty, lo, hi) ==
  /\ \A x \in N : lo <= x /\ x <= hi
  /\ lo \in N \/ (lo = MaxOf[ty] /\ \A x \in N : x > lo)
  /\ hi \in N \/ (hi = LowestOf[ty] /\ \A x \in N : x < hi)

\* raw_min and raw_max of every channel are its least and greatest number over all
\* complete time steps, NaNs left aside.
RangesRight ==
  \A i \in 1..Len(ranges) :
    IsRange(Numbers(frame, i - 1, TimeSteps(frame)), frame.type, ranges[i][1], ranges[i][2])

\* What is printed scaled is what was printed raw: two loops over the same
\* samples agree, step by step and channel by channel.
ScaledAgrees ==
  /\ Len(srows) \in {Len(rows) - 1, Len(rows)} \/ frame.type # "INT16"
  /\ \A i \in 1..Len(srows) : Len(srows[i]) = Len(rows[i])
       /\ \A c \in 1..Len(rows[i]) : srows[i][c][1] = rows[i][c]
  /\ pc = "done" /\ frame.type = "INT16" => Len(sranges) = Len(ranges)
  /\ \A i \in 1..Len(sranges) :
       sranges[i][1] = ranges[i][1] /\ sranges[i][2] = ranges[i][2]

\* "Scaling factor for voltage channels": the channels printed in volts are as
\* many as the response says are voltage channels.
VoltageChannelsInVolts ==
  pc = "done" /\ sranges # <<>> =>
    Cardinality({i \in 1..Len(sranges) : sranges[i][3] = "V"}) = frame.voltage
=============================================================================
