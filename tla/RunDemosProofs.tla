--------------------------- MODULE RunDemosProofs ---------------------------
(***************************************************************************)
(* Proofs about scripts/run-demos.sh: what its success and its complaint   *)
(* about a missing binary mean, whatever a user does meanwhile.            *)
(***************************************************************************)
EXTENDS RunDemos, TLAPS, SequenceTheorems

\* How far the script is, in its own terms.
Progress ==
  /\ present \subseteq Programs
  /\ phase \in {"check", "build", "demos", "end"}
  /\ next \in 1..(Len(Demos) + 1)
  /\ exit \in {"running", "success", "failure"}
  /\ phase # "end" <=> exit = "running"
  /\ phase \in {"check", "build"} => ran = <<>> /\ next = 1
  /\ phase = "demos" => next <= Len(Demos)
  /\ exit = "success" => next = Len(Demos) + 1

\* Until the script fails, what ran is what it has come past and found a source of.
RanSoFar ==
  /\ ran \in Seq(Programs \X BOOLEAN)
  /\ exit # "failure" =>
       /\ \A i \in 1..Len(ran) :
            \E k \in 1..(next - 1) : Demos[k] \in present /\ ran[i] = <<Demos[k], TRUE>>
       /\ \A k \in 1..(next - 1) :
            Demos[k] \in present => \E i \in 1..Len(ran) : ran[i] = <<Demos[k], TRUE>>
       /\ \A i, j \in 1..Len(ran) : i < j => Place(ran[i][1]) < Place(ran[j][1])

SInv == Progress /\ RanSoFar

LEMMA DemosLength == Len(Demos) = 8
  BY DEF Demos

LEMMA PlaceOfDemo ==
  ASSUME NEW n \in 1..Len(Demos)
  PROVE  Place(Demos[n]) = n /\ Demos[n] \in Programs
<1>1. n \in {1, 2, 3, 4, 5, 6, 7, 8}
  BY DemosLength
<1>2. \A i \in 1..Len(Demos) : Demos[i] = Demos[n] => i = n
  BY <1>1, DemosLength DEF Demos
<1> QED BY <1>2 DEF Place, Programs

LEMMA InitSInv == Init => SInv
  BY DemosLength DEF Init, SInv, Progress, RanSoFar

LEMMA AppendFacts ==
  ASSUME NEW S, NEW s \in Seq(S), NEW e \in S
  PROVE  /\ Append(s, e) \in Seq(S) /\ Len(Append(s, e)) = Len(s) + 1
         /\ \A i \in 1..Len(s) : Append(s, e)[i] = s[i]
         /\ Append(s, e)[Len(s) + 1] = e
  BY AppendProperties

\* After the demo at next has run well, or was passed over for want of its source.
LEMMA RanOne ==
  ASSUME SInv, phase = "demos", Demos[next] \in present,
         ran' = Append(ran, <<Demos[next], TRUE>>), After(next), UNCHANGED present
  PROVE  SInv'
<1>0. PICK x : x = <<Demos[next], TRUE>>
  OBVIOUS
<1>1. /\ next \in 1..Len(Demos) /\ Len(Demos) = 8 /\ exit = "running" /\ exit' # "failure"
      /\ next' = next + 1
  BY DemosLength DEF SInv, Progress, After
<1>2. Progress'
  BY <1>1 DEF SInv, Progress, After
<1>3. ran \in Seq(Programs \X BOOLEAN) /\ Len(ran) \in Nat
  BY DEF SInv, RanSoFar
<1>4. Place(Demos[next]) = next /\ x \in Programs \X BOOLEAN
  BY <1>0, <1>1, PlaceOfDemo
<1>5. /\ ran' \in Seq(Programs \X BOOLEAN) /\ Len(ran') = Len(ran) + 1
      /\ \A i \in 1..Len(ran) : ran'[i] = ran[i]
      /\ ran'[Len(ran) + 1] = x
  <2>1. PICK s : s = Append(ran, x)
    OBVIOUS
  <2>2. ran' = s
    BY <1>0, <2>1
  <2>3. /\ s \in Seq(Programs \X BOOLEAN) /\ Len(s) = Len(ran) + 1
        /\ \A i \in 1..Len(ran) : s[i] = ran[i]
        /\ s[Len(ran) + 1] = x
    BY <1>3, <1>4, <2>1, AppendFacts
  <2> QED BY <2>2, <2>3
<1>6. \A i \in 1..Len(ran) :
        \E k \in 1..(next - 1) : Demos[k] \in present /\ ran[i] = <<Demos[k], TRUE>>
  BY <1>1 DEF SInv, RanSoFar
<1>7. \A i \in 1..Len(ran') : i \in 1..Len(ran) \/ i = Len(ran) + 1
  BY <1>3, <1>5
<1>8. \A i \in 1..Len(ran') :
        \E k \in 1..(next' - 1) : Demos[k] \in present /\ ran'[i] = <<Demos[k], TRUE>>
  <2>0. next' - 1 = next /\ next \in 1..next
    BY <1>1
  <2> SUFFICES ASSUME NEW i \in 1..Len(ran')
               PROVE  \E k \in 1..next : Demos[k] \in present /\ ran'[i] = <<Demos[k], TRUE>>
    BY <2>0
  <2>1. CASE i = Len(ran) + 1
    <3>1. ran'[i] = <<Demos[next], TRUE>>
      BY <1>0, <1>5, <2>1
    <3> QED BY <2>0, <3>1
  <2>2. CASE i \in 1..Len(ran)
    <3>1. PICK k \in 1..(next - 1) : Demos[k] \in present /\ ran[i] = <<Demos[k], TRUE>>
      BY <1>6, <2>2
    <3>2. k \in 1..next /\ ran'[i] = ran[i]
      BY <1>1, <1>5, <2>2
    <3> QED BY <3>1, <3>2
  <2> QED BY <1>7, <2>1, <2>2
<1>9. \A k \in 1..(next' - 1) :
        Demos[k] \in present => \E i \in 1..Len(ran') : ran'[i] = <<Demos[k], TRUE>>
  <2> SUFFICES ASSUME NEW k \in 1..(next' - 1), Demos[k] \in present
               PROVE  \E i \in 1..Len(ran') : ran'[i] = <<Demos[k], TRUE>>
    OBVIOUS
  <2>0. k = next \/ k \in 1..(next - 1)
    BY <1>1
  <2>1. CASE k = next
    <3>1. Len(ran) + 1 \in 1..Len(ran')
      BY <1>3, <1>5
    <3>2. ran'[Len(ran) + 1] = <<Demos[k], TRUE>>
      BY <1>0, <1>5, <2>1
    <3> QED BY <3>1, <3>2
  <2>2. CASE k \in 1..(next - 1)
    <3>1. PICK i \in 1..Len(ran) : ran[i] = <<Demos[k], TRUE>>
      BY <1>1, <2>2 DEF SInv, RanSoFar
    <3>2. i \in 1..Len(ran') /\ ran'[i] = ran[i]
      <4>1. ran'[i] = ran[i]
        BY <1>5, <3>1
      <4>2. Len(ran) \in Nat /\ Len(ran') = Len(ran) + 1
        BY <1>3, <1>5
      <4>3. i \in 1..Len(ran)
        BY <3>1
      <4>4. i \in 1..Len(ran')
        BY <4>2, <4>3
      <4> QED BY <4>1, <4>4
    <3> QED BY <3>1, <3>2
  <2> QED BY <2>0, <2>1, <2>2
<1>10. \A i \in 1..Len(ran) : Place(ran[i][1]) < next
  <2> TAKE i \in 1..Len(ran)
  <2>1. PICK k \in 1..(next - 1) : ran[i] = <<Demos[k], TRUE>>
    BY <1>6
  <2>2. ran[i][1] = Demos[k] /\ k \in 1..Len(Demos)
    BY <1>1, <2>1
  <2>3. Place(ran[i][1]) = k
    BY <2>2, PlaceOfDemo
  <2> QED BY <1>1, <2>3
<1>11. \A i, j \in 1..Len(ran') : i < j => Place(ran'[i][1]) < Place(ran'[j][1])
  <2> SUFFICES ASSUME NEW i \in 1..Len(ran'), NEW j \in 1..Len(ran'), i < j
               PROVE  Place(ran'[i][1]) < Place(ran'[j][1])
    OBVIOUS
  <2>1. i \in 1..Len(ran) /\ ran'[i] = ran[i]
    BY <1>3, <1>5
  <2>2. CASE j \in 1..Len(ran)
    <3>1. ran'[j] = ran[j]
      BY <1>5, <2>2
    <3> QED BY <1>1, <2>1, <2>2, <3>1 DEF SInv, RanSoFar
  <2>3. CASE j = Len(ran) + 1
    <3>1. ran'[j][1] = Demos[next]
      BY <1>0, <1>5, <2>3
    <3> QED BY <1>4, <1>10, <2>1, <3>1
  <2> QED BY <1>7, <2>2, <2>3
<1> QED BY <1>2, <1>5, <1>8, <1>9, <1>11 DEF SInv, RanSoFar

LEMMA PassedOver ==
  ASSUME SInv, phase = "demos", Demos[next] \notin present, After(next), UNCHANGED <<ran, present>>
  PROVE  SInv'
<1>1. next \in 1..Len(Demos) /\ Len(Demos) = 8 /\ exit = "running" /\ next' = next + 1
  BY DemosLength DEF SInv, Progress, After
<1>2. Progress'
  BY <1>1 DEF SInv, Progress, After
<1>3. \A k \in 1..(next' - 1) : k \in 1..(next - 1) \/ Demos[k] \notin present
  BY <1>1
<1>4. \A k \in 1..(next - 1) : k \in 1..(next' - 1)
  BY <1>1
<1>5. \A i \in 1..Len(ran) :
        \E k \in 1..(next' - 1) : Demos[k] \in present /\ ran[i] = <<Demos[k], TRUE>>
  BY <1>1, <1>4 DEF SInv, RanSoFar
<1>6. \A k \in 1..(next' - 1) :
        Demos[k] \in present => \E i \in 1..Len(ran) : ran[i] = <<Demos[k], TRUE>>
  BY <1>1, <1>3 DEF SInv, RanSoFar
<1> QED BY <1>1, <1>2, <1>5, <1>6 DEF SInv, RanSoFar

LEMMA RanAsBefore ==
  ASSUME SInv, Progress', UNCHANGED <<present, next, ran>>, exit' = exit \/ exit' = "failure"
  PROVE  SInv'
  BY DEF SInv, RanSoFar

LEMMA StepSInv == SInv /\ [Next]_vars => SInv'
<1> SUFFICES ASSUME SInv, [Next]_vars PROVE SInv'
  OBVIOUS
<1> USE DemosLength
<1>1. CASE CheckDemoBinaries \/ NoBuildNeeded
  BY <1>1, RanAsBefore DEF CheckDemoBinaries, NoBuildNeeded, SInv, Progress
<1>2. CASE MakeExamples
  BY <1>2, RanAsBefore DEF MakeExamples, SInv, Progress
<1>3. CASE SkipDemo
  BY <1>3, PassedOver DEF SkipDemo
<1>4. CASE MissingBinary
  BY <1>4, RanAsBefore DEF MissingBinary, SInv, Progress
<1>5. CASE RunDemo
  <2>1. CASE ran' = Append(ran, <<Demos[next], TRUE>>) /\ After(next)
    BY <1>5, <2>1, RanOne DEF RunDemo
  <2>2. CASE /\ ran' = Append(ran, <<Demos[next], FALSE>>)
             /\ phase' = "end" /\ exit' = "failure" /\ UNCHANGED next
    <3>1. next \in 1..Len(Demos)
      BY <1>5 DEF RunDemo, SInv, Progress
    <3>2. <<Demos[next], FALSE>> \in Programs \X BOOLEAN
      BY <3>1, PlaceOfDemo
    <3>3. ran' \in Seq(Programs \X BOOLEAN)
      BY <2>2, <3>2, AppendProperties DEF SInv, RanSoFar
    <3> QED BY <1>5, <2>2, <3>3 DEF RunDemo, SInv, Progress, RanSoFar
  <2> QED BY <1>5, <2>1, <2>2 DEF RunDemo
<1>6. CASE UserRun \/ MakeClean \/ UNCHANGED vars
  BY <1>6, RanAsBefore DEF UserRun, MakeClean, scriptVars, vars, SInv, Progress
<1> QED BY <1>1, <1>2, <1>3, <1>4, <1>5, <1>6 DEF Next, Script, Ended

LEMMA SInvSuccess == SInv => SuccessRanEveryDemo
<1> SUFFICES ASSUME SInv PROVE SuccessRanEveryDemo
  OBVIOUS
<1>0. ran \in Seq(Programs \X BOOLEAN) /\ DOMAIN ran = 1..Len(ran)
  BY DEF SInv, RanSoFar
<1>1. ASSUME NEW i \in DOMAIN ran, exit # "failure" PROVE ran[i][2]
  <2>1. PICK k \in 1..(next - 1) : ran[i] = <<Demos[k], TRUE>>
    BY <1>0, <1>1 DEF SInv, RanSoFar
  <2> QED BY <2>1
<1>2. ASSUME exit = "success"
      PROVE  {ran[i] : i \in DOMAIN ran} = {<<d, TRUE>> : d \in present}
  <2>1. next - 1 = Len(Demos)
    BY <1>2, DemosLength DEF SInv, Progress
  <2>2. \A i \in DOMAIN ran : \E d \in present : ran[i] = <<d, TRUE>>
    BY <1>0, <1>2 DEF SInv, RanSoFar
  <2>3. \A d \in present : \E k \in 1..Len(Demos) : Demos[k] = d
    BY DEF SInv, Progress, Programs
  <2>4. \A d \in present : \E i \in DOMAIN ran : ran[i] = <<d, TRUE>>
    BY <1>0, <1>2, <2>1, <2>3 DEF SInv, RanSoFar
  <2> QED BY <2>2, <2>4
<1> QED BY <1>0, <1>1, <1>2 DEF SuccessRanEveryDemo, SInv, RanSoFar

\* When the script exits 0 every demo whose source is there has run, once and in order,
\* and has succeeded: "set -e" lets nothing pass, whatever a user runs or cleans
\* meanwhile (scripts/run-demos.sh).
THEOREM SuccessMeansAllRan == Spec => []SuccessRanEveryDemo
  BY InitSInv, StepSInv, SInvSuccess, PTL DEF Spec
-----------------------------------------------------------------------------
\* Why the script believes that the binaries are there.
BinariesExpected ==
  /\ phase = "build" /\ ~needs_build /\ ~cleaned => present \subseteq built
  /\ phase = "demos" /\ ~cleaned => present \subseteq built \/ (made /\ ~nanopb)

LEMMA StepBinariesExpected == SInv /\ BinariesExpected /\ [Next]_vars => BinariesExpected'
<1> SUFFICES ASSUME SInv, BinariesExpected, [Next]_vars PROVE BinariesExpected'
  OBVIOUS
<1> USE DEF BinariesExpected
<1>1. CASE CheckDemoBinaries \/ NoBuildNeeded
  BY <1>1 DEF CheckDemoBinaries, NoBuildNeeded
<1>2. CASE MakeExamples
  <2>1. present \subseteq Programs
    BY DEF SInv, Progress
  <2> QED BY <1>2, <2>1 DEF MakeExamples, MakeTargets
<1>3. CASE SkipDemo \/ MissingBinary
  BY <1>3 DEF SkipDemo, MissingBinary, After
<1>4. CASE RunDemo
  <2>1. phase' \in {"demos", "end"} /\ phase = "demos" /\ UNCHANGED <<present, nanopb, built, made, cleaned>>
    BY <1>4 DEF RunDemo, After
  <2> QED BY <2>1
<1>5. CASE UserRun \/ MakeClean \/ UNCHANGED vars
  BY <1>5 DEF UserRun, MakeClean, scriptVars, vars
<1> QED BY <1>1, <1>2, <1>3, <1>4, <1>5 DEF Next, Script, Ended

LEMMA ComplaintExplained ==
  ASSUME SInv, BinariesExpected, [Next]_vars,
         phase = "demos", exit' = "failure", ran' = ran, ~cleaned
  PROVE  made /\ ~nanopb
<1>0. exit = "running" /\ Len(Demos) = 8 /\ next \in 1..Len(Demos)
  BY DemosLength DEF SInv, Progress
<1>1. CASE MissingBinary
  BY <1>1 DEF MissingBinary, BinariesExpected
<1>2. CASE RunDemo
  <2>1. ASSUME NEW x \in Programs \X BOOLEAN, ran' = Append(ran, x) PROVE FALSE
    <3>1. ran \in Seq(Programs \X BOOLEAN) /\ Len(ran) \in Nat
      BY DEF SInv, RanSoFar
    <3>2. Len(ran') = Len(ran) + 1
      BY <2>1, <3>1, AppendProperties
    <3> QED BY <3>1, <3>2
  <2>2. \A b \in BOOLEAN : <<Demos[next], b>> \in Programs \X BOOLEAN
    BY <1>0, PlaceOfDemo
  <2>3. \E b \in BOOLEAN : ran' = Append(ran, <<Demos[next], b>>)
    BY <1>2 DEF RunDemo
  <2> QED BY <2>1, <2>2, <2>3
<1>3. CASE SkipDemo
  BY <1>0, <1>3 DEF SkipDemo, After
<1>4. CASE CheckDemoBinaries \/ NoBuildNeeded \/ MakeExamples \/ Ended
  BY <1>4 DEF CheckDemoBinaries, NoBuildNeeded, MakeExamples, Ended
<1>5. CASE UserRun \/ MakeClean \/ UNCHANGED vars
  BY <1>0, <1>5 DEF UserRun, MakeClean, scriptVars, vars
<1> QED BY <1>1, <1>2, <1>3, <1>4, <1>5 DEF Next, Script

\* "required demo binary missing after make examples" is said, when nobody cleaned, only
\* after a make examples that had to leave the embedded programs out
\* (scripts/run-demos.sh, NANOPB_DEFAULT_READY of mk/nanopb.mk).
THEOREM ComplaintIsExplained == Spec => MissingBinaryExplained
<1>1. Init => BinariesExpected
  BY DEF Init, BinariesExpected
<1>2. SInv /\ BinariesExpected /\ [Next]_vars =>
        [phase = "demos" /\ exit' = "failure" /\ ran' = ran /\ ~cleaned => made /\ ~nanopb]_vars
  BY ComplaintExplained
<1> QED BY <1>1, <1>2, InitSInv, StepSInv, StepBinariesExpected, PTL DEF Spec, MissingBinaryExplained
-----------------------------------------------------------------------------
Kinds == {
  "ActuatorGet_Req", "ActuatorGet_Rsp", "ActuatorSet_Req", "ActuatorSet_Rsp",
  "AppMessage_Req", "AppMessage_Rsp", "PlatformStatus", "PlatformToAppStatus",
  "AppToPlatformStatus", "PlatformDiscovery_Req", "PlatformDiscovery_Rsp",
  "SensorReadings_Rsp", "InstantaneousQuantities", "BillingQuantities",
  "Waveform_Rsp", "Waveform_Req", "frame"}

\* The lists of writes a plan can have: short, and of messages.
Writing(w) ==
  /\ DOMAIN w = 1..Len(w) /\ Len(w) \in 0..4
  /\ \A i \in 1..Len(w) : w[i].kind \in Kinds

LEMMA SetsWrite ==
  /\ Len(ActuatorSet) = 4 /\ Writing(ActuatorSet)
  /\ Len(AppMessageSet) = 2 /\ Writing(AppMessageSet)
  /\ Len(ConnStatusSet) = 3 /\ Writing(ConnStatusSet)
  /\ Len(SensorSet) = 1 /\ Writing(SensorSet)
  /\ Writing(<<DiscoveryRequest>>) /\ Writing(<<DiscoveryResponse>>)
  /\ \A d : Writing(MeteredSet(d))
  /\ \A f : Writing(WaveformSample(f))
  /\ \A f : Writing(<<At(f, "Waveform_Req")>>)
  /\ Writing(<<>>)
<1> USE DEF Writing, Kinds, At
<1>1. Len(ActuatorSet) = 4 /\ Writing(ActuatorSet)
  BY DEF ActuatorSet
<1>2. Len(AppMessageSet) = 2 /\ Writing(AppMessageSet)
  BY DEF AppMessageSet
<1>3. Len(ConnStatusSet) = 3 /\ Writing(ConnStatusSet)
  BY DEF ConnStatusSet
<1>4. Len(SensorSet) = 1 /\ Writing(SensorSet)
  BY DEF SensorSet
<1>5. Writing(<<DiscoveryRequest>>) /\ Writing(<<DiscoveryResponse>>)
  BY DEF DiscoveryRequest, DiscoveryResponse
<1>6. \A d : Writing(MeteredSet(d))
  BY DEF MeteredSet
<1>7. \A f : Writing(WaveformSample(f))
  BY DEF WaveformSample
<1>8. Writing(<<>>) /\ \A f : Writing(<<At(f, "Waveform_Req")>>)
  OBVIOUS
<1> QED BY <1>1, <1>2, <1>3, <1>4, <1>5, <1>6, <1>7, <1>8

LEMMA NamedWrites ==
  ASSUME NEW set, Writing(set), NEW args
  PROVE  Writing(Named(set, args))
<1>1. PICK w : w = Named(set, args)
  OBVIOUS
<1>2. DOMAIN w = 1..Len(set) /\ Len(set) \in Nat /\ \A i \in 1..Len(set) : w[i].kind = set[i].kind
  BY <1>1 DEF Named, At, Writing
<1>3. Len(w) = Len(set)
  BY <1>2
<1> QED BY <1>1, <1>2, <1>3 DEF Writing

LEMMA WriterWrites ==
  ASSUME NEW set, Writing(set), NEW args, NEW walk, NEW free
  PROVE  Writing(WriterPlan(args, set, walk, free).writes)
  BY SetsWrite, NamedWrites DEF WriterPlan, Plan, Usage

LEMMA ReaderWrites ==
  ASSUME NEW args, NEW walk, NEW modes
  PROVE  ReaderPlan(args, walk, modes).writes = <<>>
  BY DEF ReaderPlan, Plan, Usage

LEMMA ReadersWriteNothing ==
  ASSUME NEW r \in Readers, NEW args
  PROVE  PlanOf(r, args).writes = <<>>
  BY ReaderWrites
     DEF Readers, PlanOf, actuator_read, app_message_read, conn_status_read, discovery_read,
         sensor_read, metered_read, Plan, Usage

LEMMA LineWrites ==
  ASSUME NEW l, l[1] \in Programs \cup Readers
  PROVE  Writing(WritesOf(l))
<1>1. PICK p, args : p = l[1] /\ args = l[2] /\ WritesOf(l) = PlanOf(p, args).writes
  BY DEF WritesOf
<1>2. p \in Programs => \E i \in 1..8 : p = Demos[i]
  BY DemosLength DEF Programs
<1>3. p \in {"actuator_write", "app_message_write", "conn_status_write",
             "discovery_write_request", "discovery_write_response", "sensor_write",
             "metered_write", "waveform_subscribe_and_read"} \cup Readers
  BY <1>1, <1>2 DEF Demos
<1>4. CASE p \in Readers
  BY <1>1, <1>4, ReadersWriteNothing, SetsWrite
<1>5. CASE p \in {"actuator_write", "app_message_write", "conn_status_write",
                  "discovery_write_request", "sensor_write"}
  BY <1>1, <1>5, WriterWrites, SetsWrite
     DEF PlanOf, actuator_write, app_message_write, conn_status_write,
         discovery_write_request, sensor_write
<1>6. CASE p = "discovery_write_response"
  BY <1>1, <1>6, WriterWrites, NamedWrites, SetsWrite DEF PlanOf, discovery_write_response, Plan
<1>7. CASE p = "metered_write"
  BY <1>1, <1>7, SetsWrite DEF PlanOf, metered_write, Plan, Usage
<1>8. CASE p = "waveform_subscribe_and_read"
  BY <1>1, <1>8, SetsWrite DEF PlanOf, waveform_subscribe_and_read, Plan, Usage
<1> QED BY <1>3, <1>4, <1>5, <1>6, <1>7, <1>8

\* What the demos write: under names that are spelled out, and under names put together.
DemoWrites(d) == WritesOf(<<d, Demo>>)
Spelled ==
  {ActuatorSet[i] : i \in 1..4} \cup {AppMessageSet[i] : i \in 1..2}
  \cup {ConnStatusSet[i] : i \in 1..3} \cup {SensorSet[1], DiscoveryRequest, DiscoveryResponse}
  \cup {WaveformSample("/tmp/waveform-rsp.bin")[1]}
Joined ==
  {MeteredSet("/tmp")[1], MeteredSet("/tmp")[2], WaveformSample("/tmp/waveform-rsp.bin")[2]}

LEMMA DemoWritesAre ==
  /\ DemoWrites("actuator_write") = ActuatorSet
  /\ DemoWrites("app_message_write") = AppMessageSet
  /\ DemoWrites("conn_status_write") = ConnStatusSet
  /\ DemoWrites("discovery_write_request") = <<DiscoveryRequest>>
  /\ DemoWrites("discovery_write_response") = <<DiscoveryResponse>>
  /\ DemoWrites("sensor_write") = SensorSet
  /\ DemoWrites("metered_write") = MeteredSet("/tmp")
  /\ DemoWrites("waveform_subscribe_and_read") = WaveformSample("/tmp/waveform-rsp.bin")
<1> USE DEF DemoWrites, WritesOf, PlanOf, Demo, IsDemo, Plan, WriterPlan
<1>0. \A l, d : l = <<d, Demo>> => l[1] = d /\ l[2] = Demo
  OBVIOUS
<1>1. DemoWrites("actuator_write") = ActuatorSet
  BY DEF actuator_write
<1>2. DemoWrites("app_message_write") = AppMessageSet
  BY DEF app_message_write
<1>3. DemoWrites("conn_status_write") = ConnStatusSet
  BY DEF conn_status_write
<1>4. DemoWrites("discovery_write_request") = <<DiscoveryRequest>>
  BY DEF discovery_write_request
<1>5. DemoWrites("discovery_write_response") = <<DiscoveryResponse>>
  BY DEF discovery_write_response
<1>6. DemoWrites("sensor_write") = SensorSet
  BY DEF sensor_write
<1>7. DemoWrites("metered_write") = MeteredSet("/tmp")
  BY DEF metered_write
<1>8. DemoWrites("waveform_subscribe_and_read") = WaveformSample("/tmp/waveform-rsp.bin")
  BY DEF waveform_subscribe_and_read
<1> QED BY <1>1, <1>2, <1>3, <1>4, <1>5, <1>6, <1>7, <1>8

LEMMA ProgramNames ==
  Programs = {"actuator_write", "app_message_write", "conn_status_write",
              "discovery_write_request", "discovery_write_response", "sensor_write",
              "metered_write", "waveform_subscribe_and_read"}
<1>1. Programs = {Demos[i] : i \in {1, 2, 3, 4, 5, 6, 7, 8}}
  BY DemosLength DEF Programs
<1> QED BY <1>1 DEF Demos

LEMMA DemosWriteSlots ==
  ASSUME NEW d \in Programs, NEW i \in 1..Len(DemoWrites(d))
  PROVE  DemoWrites(d)[i] \in Spelled \cup Joined
<1> USE DemoWritesAre, SetsWrite, ProgramNames
<1>1. CASE d \in {"actuator_write", "app_message_write", "conn_status_write", "sensor_write"}
  BY <1>1 DEF Spelled
<1>2. CASE d \in {"discovery_write_request", "discovery_write_response"}
  BY <1>2 DEF Spelled
<1>3. CASE d = "metered_write"
  BY <1>3 DEF Joined, MeteredSet
<1>4. CASE d = "waveform_subscribe_and_read"
  BY <1>4 DEF Spelled, Joined, WaveformSample
<1> QED BY <1>1, <1>2, <1>3, <1>4

\* The readers' walkthroughs decode what some writer's --demo writes.
LEMMA WritersCover ==
  ASSUME NEW s \in Standard
  PROVE  \E d \in Programs : \E i \in 1..Len(DemoWrites(d)) : DemoWrites(d)[i] = s
<1>0. PICK r \in Readers : \E j \in DOMAIN PlanOf(r, Demo).reads : s = PlanOf(r, Demo).reads[j]
  BY DEF Standard
<1>1. PICK j \in DOMAIN PlanOf(r, Demo).reads : s = PlanOf(r, Demo).reads[j]
  BY <1>0
<1> USE DemoWritesAre, SetsWrite, ProgramNames DEF Readers, PlanOf, Demo, IsDemo, Plan, ReaderPlan
<1>2. CASE r = "actuator_read"
  <2>1. PlanOf(r, Demo).reads = DemoWrites("actuator_write")
    BY <1>2 DEF actuator_read, actuator_run_demo_walkthrough
  <2> QED BY <1>1, <2>1 DEF Writing
<1>3. CASE r = "app_message_read"
  <2>1. PlanOf(r, Demo).reads = DemoWrites("app_message_write")
    BY <1>3 DEF app_message_read, app_message_run_demo_walkthrough
  <2> QED BY <1>1, <2>1 DEF Writing
<1>4. CASE r = "conn_status_read"
  <2>1. PlanOf(r, Demo).reads = DemoWrites("conn_status_write")
    BY <1>4 DEF conn_status_read, conn_status_run_demo_walkthrough
  <2> QED BY <1>1, <2>1 DEF Writing
<1>5. CASE r = "discovery_read"
  <2>1. PlanOf(r, Demo).reads = <<DiscoveryRequest, DiscoveryResponse>>
    BY <1>5 DEF discovery_read, discovery_run_demo_walkthrough
  <2>2. s \in {DiscoveryRequest, DiscoveryResponse}
    BY <1>1, <2>1
  <2>3. CASE s = DiscoveryRequest
    <3>1. DemoWrites("discovery_write_request")[1] = s /\ Len(DemoWrites("discovery_write_request")) = 1
      BY <2>3
    <3> QED BY <3>1
  <2>4. CASE s = DiscoveryResponse
    <3>1. DemoWrites("discovery_write_response")[1] = s /\ Len(DemoWrites("discovery_write_response")) = 1
      BY <2>4
    <3> QED BY <3>1
  <2> QED BY <2>2, <2>3, <2>4
<1>6. CASE r = "sensor_read"
  <2>1. PlanOf(r, Demo).reads = DemoWrites("sensor_write")
    BY <1>6 DEF sensor_read, sensor_run_demo_walkthrough
  <2> QED BY <1>1, <2>1 DEF Writing
<1>7. CASE r = "metered_read"
  <2>1. PlanOf(r, Demo).reads = DemoWrites("metered_write")
    BY <1>7 DEF metered_read, metered_run_demo_walkthrough
  <2>2. DOMAIN DemoWrites("metered_write") = 1..Len(DemoWrites("metered_write"))
    BY DEF Writing
  <2>3. j \in 1..Len(DemoWrites("metered_write")) /\ DemoWrites("metered_write")[j] = s
    BY <1>1, <2>1, <2>2
  <2> QED BY <2>3
<1> QED BY <1>1, <1>2, <1>3, <1>4, <1>5, <1>6, <1>7

\* No two families share a file.
LEMMA PathTellsKind ==
  ASSUME NEW s \in Spelled \cup Joined, NEW u \in Spelled \cup Joined, s.path = u.path
  PROVE  s.kind = u.kind
<1>1. \A x, y \in Spelled : x.path = y.path => x.kind = y.kind
  BY DEF Spelled, ActuatorSet, AppMessageSet, ConnStatusSet, SensorSet, DiscoveryRequest,
         DiscoveryResponse, WaveformSample, At
<1>2. \A x \in Spelled : x.path \in SpelledPaths
  <2>1. {ActuatorSet[i].path : i \in 1..4} \subseteq SpelledPaths
    BY SetsWrite DEF SpelledPaths, PathsOf, Writing
  <2>2. {AppMessageSet[i].path : i \in 1..2} \subseteq SpelledPaths
    BY SetsWrite DEF SpelledPaths, PathsOf, Writing
  <2>3. {ConnStatusSet[i].path : i \in 1..3} \subseteq SpelledPaths
    BY SetsWrite DEF SpelledPaths, PathsOf, Writing
  <2>4. SensorSet[1].path \in SpelledPaths
    BY SetsWrite DEF SpelledPaths, PathsOf, Writing
  <2>5. WaveformSample("/tmp/waveform-rsp.bin")[1].path \in SpelledPaths
    BY DEF SpelledPaths, WaveformSample, At
  <2> QED BY <2>1, <2>2, <2>3, <2>4, <2>5 DEF Spelled, SpelledPaths
<1>3. \A x \in Joined : \E i \in 1..3 : x.path = JoinedPaths[i] /\ x = <<MeteredSet("/tmp")[1],
        MeteredSet("/tmp")[2], WaveformSample("/tmp/waveform-rsp.bin")[2]>>[i]
  BY DEF Joined, JoinedPaths, WaveformSample, At
<1>4. \A x, y \in Joined : x.path = y.path => x = y
  BY <1>3, NamesAssumption
<1>5. \A x \in Joined : \A y \in Spelled : x.path # y.path
  BY <1>2, <1>3, NamesAssumption
<1> QED BY <1>1, <1>4, <1>5

LEMMA DemosKeepKinds == \A d \in Programs : KeepsKinds(<<d, Demo>>)
<1>1. \A s \in Standard : s \in Spelled \cup Joined
  BY WritersCover, DemosWriteSlots
<1>2. \A d \in Programs : \A i \in 1..Len(DemoWrites(d)) : \A s \in Standard :
        DemoWrites(d)[i].path = s.path => DemoWrites(d)[i].kind = s.kind
  BY <1>1, DemosWriteSlots, PathTellsKind
<1> QED BY <1>2 DEF KeepsKinds, DemoWrites

LEMMA LastHit ==
  ASSUME NEW n \in 0..4, NEW hits \in SUBSET (1..n), hits # {}
  PROVE  (CHOOSE i \in hits : \A j \in hits : j <= i) \in hits
<1>1. hits \subseteq {1, 2, 3, 4}
  OBVIOUS
<1>2. \E i \in hits : \A j \in hits : j <= i
  <2>1. CASE 4 \in hits
    BY <1>1, <2>1
  <2>2. CASE 4 \notin hits /\ 3 \in hits
    BY <1>1, <2>2
  <2>3. CASE 4 \notin hits /\ 3 \notin hits /\ 2 \in hits
    BY <1>1, <2>3
  <2>4. CASE 4 \notin hits /\ 3 \notin hits /\ 2 \notin hits
    <3>1. \A j \in hits : j = 1
      BY <1>1, <2>4
    <3>2. PICK j \in hits : TRUE
      OBVIOUS
    <3>3. \A k \in hits : k <= j
      BY <3>1, <3>2
    <3> QED BY <3>3
  <2> QED BY <2>1, <2>2, <2>3, <2>4
<1> QED BY <1>2

Line(l) == l \in Lines /\ l[1] \in Programs \cup Readers /\ KeepsKinds(l)

\* All of a plan's writes.
LEMMA AllWrites == ASSUME NEW l, Line(l) PROVE Len(WritesOf(l)) \in 0..Len(WritesOf(l))
<1>1. PICK k : k = Len(WritesOf(l))
  OBVIOUS
<1>2. k \in 0..4
  BY <1>1, LineWrites DEF Line, Writing
<1> QED BY <1>1, <1>2

LEMMA WritesAreFiles ==
  ASSUME NEW l \in Lines, l[1] \in Programs \cup Readers, NEW i \in 1..Len(WritesOf(l))
  PROVE  WritesOf(l)[i].path \in Files
  BY LineWrites DEF Files, Writing

\* The first n messages of a plan: each file holds what it held or a message of the plan.
LEMMA WrittenFiles ==
  ASSUME NEW l, Line(l), NEW n \in 0..Len(WritesOf(l)), NEW f \in Files
  PROVE  LET W == Written(n, PlanOf(l[1], l[2])) w == WritesOf(l) IN
         /\ \/ W[f] = store[f] /\ \A i \in 1..n : w[i].path # f
            \/ \E i \in 1..n : w[i].path = f /\ W[f] = w[i].kind
         /\ W = [g \in Files |-> W[g]]
<1> DEFINE plan == PlanOf(l[1], l[2])
           w == WritesOf(l)
           hits == {i \in 1..n : plan.writes[i].path = f}
           m == CHOOSE i \in hits : \A j \in hits : j <= i
<1>1. plan.writes = w /\ Len(w) \in 0..4
  BY LineWrites DEF Line, WritesOf, Writing
<1>2. Written(n, plan)[f] = IF hits = {} THEN store[f] ELSE plan.writes[m].kind
  BY DEF Written
<1>3. Written(n, plan) = [g \in Files |-> Written(n, plan)[g]]
  BY DEF Written
<1>4. CASE hits = {}
  BY <1>1, <1>2, <1>3, <1>4
<1>5. CASE hits # {}
  <2>0. n \in 0..4
    <3>1. PICK k : k = Len(w)
      OBVIOUS
    <3>2. k \in 0..4 /\ n \in 0..k
      BY <1>1, <3>1
    <3> QED BY <3>2
  <2>1. hits \in SUBSET (1..n)
    OBVIOUS
  <2>2. m \in hits
    BY <1>5, <2>0, <2>1, LastHit
  <2>3. m \in 1..n /\ w[m].path = f /\ Written(n, plan)[f] = w[m].kind
    BY <1>1, <1>2, <1>5, <2>2
  <2> QED BY <1>3, <2>3
<1> QED BY <1>4, <1>5

LEMMA AllWritten ==
  ASSUME NEW l, Line(l), NEW S, S = Written(Len(WritesOf(l)), PlanOf(l[1], l[2])), NEW f \in Files
  PROVE  \/ S[f] = store[f] /\ \A i \in 1..Len(WritesOf(l)) : WritesOf(l)[i].path # f
         \/ \E i \in 1..Len(WritesOf(l)) : WritesOf(l)[i].path = f /\ S[f] = WritesOf(l)[i].kind
<1>1. PICK n \in 0..Len(WritesOf(l)) : n = Len(WritesOf(l))
  BY AllWrites
<1>2. \/ Written(n, PlanOf(l[1], l[2]))[f] = store[f] /\ \A i \in 1..n : WritesOf(l)[i].path # f
      \/ \E i \in 1..n : WritesOf(l)[i].path = f /\ Written(n, PlanOf(l[1], l[2]))[f] = WritesOf(l)[i].kind
  BY WrittenFiles
<1> QED BY <1>1, <1>2

\* What a run leaves, well or failing: no file disappears, and the files the readers
\* decode hold what they held, what is expected of them, or a damaged message.
Leaves(S) ==
  /\ S = [f \in Files |-> S[f]]
  /\ \A f \in Files : store[f] # "absent" => S[f] # "absent"
  /\ \A s \in Standard : S[s.path] \in {store[s.path], "damaged", s.kind}

LEMMA StandardFiles == \A s \in Standard : s.path \in Files
<1> SUFFICES ASSUME NEW s \in Standard PROVE s.path \in Files
  OBVIOUS
<1>1. PICK d \in Programs : \E i \in 1..Len(DemoWrites(d)) : DemoWrites(d)[i] = s
  BY WritersCover
<1>2. PICK l : l = <<d, Demo>>
  OBVIOUS
<1>3. l \in Lines /\ l[1] \in Programs /\ DemoWrites(d) = WritesOf(l)
  BY <1>2 DEF Lines, DemoWrites
<1> QED BY <1>1, <1>3, WritesAreFiles

LEMMA KindsAreWhole == "absent" \notin Kinds /\ "damaged" \notin Kinds
  BY DEF Kinds

LEMMA WrittenLeaves ==
  ASSUME NEW l, Line(l), NEW n \in 0..Len(WritesOf(l))
  PROVE  Leaves(Written(n, PlanOf(l[1], l[2])))
<1> DEFINE W == Written(n, PlanOf(l[1], l[2]))
           w == WritesOf(l)
<1>0. Len(w) \in 0..4 /\ \A i \in 1..Len(w) : w[i].kind \in Kinds
  BY LineWrites DEF Line, Writing
<1>1. \A i \in 1..n : i \in 1..Len(w)
  BY <1>0
<1>2. \A f \in Files : W[f] = store[f] \/ \E i \in 1..Len(w) : w[i].path = f /\ W[f] = w[i].kind
  BY <1>1, WrittenFiles
<1>3. W = [f \in Files |-> W[f]]
  BY DEF Written
<1>4. \A f \in Files : store[f] # "absent" => W[f] # "absent"
  BY <1>0, <1>2, KindsAreWhole
<1>5. \A s \in Standard : W[s.path] \in {store[s.path], "damaged", s.kind}
  BY <1>2, StandardFiles DEF Line, KeepsKinds
<1> QED BY <1>3, <1>4, <1>5 DEF Leaves

LEMMA FailureLeaves ==
  ASSUME NEW l, Line(l), NEW S \in AfterFailure(PlanOf(l[1], l[2]))
  PROVE  Leaves(S)
<1> DEFINE plan == PlanOf(l[1], l[2])
           w == WritesOf(l)
<1>0. plan.writes = w /\ Len(w) \in 0..4
  BY LineWrites DEF Line, WritesOf, Writing
<1>1. CASE \E n \in 0..Len(w) : S = Written(n, plan)
  BY <1>1, WrittenLeaves
<1>2. ASSUME NEW n \in 1..Len(w), S = [Written(n - 1, plan) EXCEPT ![w[n].path] = "damaged"]
      PROVE  Leaves(S)
  <2>1. PICK W : W = Written(n - 1, plan)
    OBVIOUS
  <2>2. Leaves(W)
    BY <1>0, <2>1, WrittenLeaves
  <2>3. S = [W EXCEPT ![w[n].path] = "damaged"]
    BY <1>2, <2>1
  <2> QED BY <2>2, <2>3, StandardFiles DEF Leaves
<1> QED BY <1>0, <1>1, <1>2 DEF AfterFailure
-----------------------------------------------------------------------------
\* The files the readers decode are missing, damaged by a user's failing run, or hold what
\* is expected of them; and what the demos so far have written is there.
StoreInv ==
  /\ store = [f \in Files |-> store[f]]
  /\ \A s \in Standard : store[s.path] \in {"absent", "damaged", s.kind}
  /\ exit # "failure" => \A f \in Files : store[f] = "damaged" => f \in spoiled
  /\ exit # "failure" =>
       \A k \in 1..(next - 1) : Demos[k] \in present =>
         \A i \in 1..Len(DemoWrites(Demos[k])) : store[DemoWrites(Demos[k])[i].path] # "absent"

LEMMA InitStoreInv == Init => StoreInv
<1> SUFFICES ASSUME Init PROVE StoreInv
  OBVIOUS
<1>1. \A f \in Files : store[f] = "absent"
  BY DEF Init
<1> QED BY <1>1, StandardFiles DEF Init, StoreInv

LEMMA DemoLine == ASSUME NEW d \in Programs PROVE Line(<<d, Demo>>) /\ WritesOf(<<d, Demo>>) = DemoWrites(d)
<1>1. PICK l : l = <<d, Demo>>
  OBVIOUS
<1>2. l \in Lines /\ l[1] = d
  BY <1>1 DEF Lines
<1> QED BY <1>1, <1>2, DemosKeepKinds DEF Line, DemoWrites

\* A program without arguments writes what its --demo does, or nothing.
LEMMA DefaultWrites ==
  ASSUME NEW d \in Programs
  PROVE  PlanOf(d, <<>>).writes \in {DemoWrites(d), <<>>}
<1> USE DemoWritesAre DEF PlanOf, Plan, WriterPlan, Usage
<1>1. CASE d \in {"actuator_write", "app_message_write", "conn_status_write", "sensor_write"}
  BY <1>1 DEF actuator_write, app_message_write, conn_status_write, sensor_write
<1>2. CASE d = "discovery_write_request"
  BY <1>2 DEF discovery_write_request
<1>3. CASE d = "discovery_write_response"
  BY <1>3 DEF discovery_write_response
<1>4. CASE d = "metered_write"
  BY <1>4 DEF metered_write
<1>5. CASE d = "waveform_subscribe_and_read"
  BY <1>5 DEF waveform_subscribe_and_read
<1> QED BY <1>1, <1>2, <1>3, <1>4, <1>5, ProgramNames

LEMMA UserLine == ASSUME UsersKeepKinds, NEW l \in UserLines PROVE Line(l)
<1>0. l \in Lines /\ l[1] \in Programs \cup Readers /\ (l[2] \notin {<<>>, Demo} => KeepsKinds(l))
  BY DEF UsersKeepKinds, Lines
<1>1. CASE WritesOf(l) = <<>>
  BY <1>0, <1>1 DEF Line, KeepsKinds
<1>2. CASE l[1] \in Programs /\ WritesOf(l) = DemoWrites(l[1])
  <2>1. KeepsKinds(<<l[1], Demo>>)
    BY <1>2, DemosKeepKinds
  <2> QED BY <1>0, <1>2, <2>1 DEF Line, KeepsKinds, DemoWrites
<1>3. CASE l[1] \in Readers
  BY <1>1, <1>3, ReadersWriteNothing DEF WritesOf
<1>4. CASE l[1] \in Programs /\ l[2] = <<>>
  BY <1>1, <1>2, <1>4, DefaultWrites DEF WritesOf
<1>5. CASE l[1] \in Programs /\ l[2] = Demo
  <2>1. WritesOf(l) = DemoWrites(l[1])
    BY <1>5 DEF WritesOf, DemoWrites
  <2> QED BY <1>2, <1>5, <2>1
<1> QED BY <1>0, <1>3, <1>4, <1>5 DEF Line

\* A run of anybody, as far as it does not concern the script.
LEMMA RunStoreInv ==
  ASSUME SInv, StoreInv, Leaves(store'), UNCHANGED present,
         exit' = "failure" \/
           /\ UNCHANGED <<exit, next>>
           /\ \A f \in Files : store'[f] = "damaged" => f \in spoiled'
  PROVE  StoreInv'
<1>1. \A s \in Standard : store'[s.path] \in {"absent", "damaged", s.kind}
  BY DEF Leaves, StoreInv
<1>2. ASSUME exit' # "failure", NEW k \in 1..(next' - 1), Demos[k] \in present,
             NEW i \in 1..Len(DemoWrites(Demos[k]))
      PROVE  store'[DemoWrites(Demos[k])[i].path] # "absent"
  <2>1. store[DemoWrites(Demos[k])[i].path] # "absent"
    BY <1>2 DEF StoreInv
  <2>2. Demos[k] \in Programs
    BY <1>2 DEF SInv, Progress
  <2>3. DemoWrites(Demos[k])[i].path \in Files
    <3>1. PICK l : l = <<Demos[k], Demo>>
      OBVIOUS
    <3>2. Line(l) /\ WritesOf(l) = DemoWrites(Demos[k])
      BY <2>2, <3>1, DemoLine
    <3> QED BY <1>2, <3>2, WritesAreFiles DEF Line
  <2> QED BY <2>1, <2>3 DEF Leaves
<1> QED BY <1>1, <1>2 DEF Leaves, StoreInv

LEMMA UserStoreInv ==
  ASSUME UsersKeepKinds, SInv, StoreInv, UserRun
  PROVE  StoreInv'
<1>1. PICK l \in UserLines :
        \/ /\ store' = Written(Len(PlanOf(l[1], l[2]).writes), PlanOf(l[1], l[2]))
           /\ UNCHANGED spoiled
        \/ /\ store' \in AfterFailure(PlanOf(l[1], l[2]))
           /\ spoiled' = spoiled \cup {f \in Files : store'[f] = "damaged" /\ store[f] # "damaged"}
  BY DEF UserRun
<1>2. Line(l) /\ PlanOf(l[1], l[2]).writes = WritesOf(l) /\ Len(WritesOf(l)) \in 0..4
  BY UserLine, LineWrites DEF Line, WritesOf, Writing
<1>3. Leaves(store')
  BY <1>1, <1>2, WrittenLeaves, FailureLeaves, AllWrites
<1>4. UNCHANGED <<present, exit, next>> /\ exit # "failure"
  BY DEF UserRun, scriptVars
<1>5. ASSUME NEW f \in Files, store'[f] = "damaged" PROVE f \in spoiled'
  <2>1. CASE store[f] = "damaged"
    BY <1>1, <1>4, <2>1 DEF StoreInv
  <2>2. CASE store[f] # "damaged" /\ store' \in AfterFailure(PlanOf(l[1], l[2]))
             /\ spoiled' = spoiled \cup {g \in Files : store'[g] = "damaged" /\ store[g] # "damaged"}
    BY <1>5, <2>2
  <2>3. CASE store[f] # "damaged"
             /\ store' = Written(Len(WritesOf(l)), PlanOf(l[1], l[2]))
    <3>1. \E i \in 1..Len(WritesOf(l)) : store'[f] = WritesOf(l)[i].kind
      BY <1>2, <1>5, <2>3, AllWritten
    <3> QED BY <1>2, <1>5, <3>1, LineWrites, KindsAreWhole DEF Line, Writing
  <2> QED BY <1>1, <1>2, <2>1, <2>2, <2>3
<1> QED BY <1>3, <1>4, <1>5, RunStoreInv

LEMMA DemoStoreInv ==
  ASSUME SInv, StoreInv, RunDemo
  PROVE  StoreInv'
<1>1. PICK d : d = Demos[next]
  OBVIOUS
<1>2. d \in Programs /\ d \in present /\ next \in 1..Len(Demos) /\ Len(Demos) = 8 /\ exit = "running"
  BY <1>1, DemosLength DEF RunDemo, SInv, Progress
<1>3. PICK l : l = <<d, Demo>>
  OBVIOUS
<1>4. /\ Line(l) /\ WritesOf(l) = DemoWrites(d) /\ Len(WritesOf(l)) \in 0..4
      /\ PlanOf(l[1], l[2]) = PlanOf(d, Demo) /\ PlanOf(d, Demo).writes = WritesOf(l)
  BY <1>2, <1>3, DemoLine, LineWrites DEF Line, WritesOf, Writing
<1>5. CASE store' \in AfterFailure(PlanOf(d, Demo)) /\ exit' = "failure"
  BY <1>4, <1>5, FailureLeaves, RunStoreInv DEF RunDemo
<1>6. CASE store' = Written(Len(WritesOf(l)), PlanOf(l[1], l[2])) /\ After(next)
  <2>1. Leaves(store')
    BY <1>4, <1>6, WrittenLeaves, AllWrites
  <2>2. next' = next + 1 /\ exit' # "failure" /\ UNCHANGED <<present, spoiled>>
    BY <1>2, <1>6 DEF After, RunDemo
  <2>3. ASSUME NEW f \in Files, store'[f] = "damaged" PROVE f \in spoiled'
    <3>1. store'[f] = store[f] \/ \E i \in 1..Len(WritesOf(l)) : store'[f] = WritesOf(l)[i].kind
      BY <1>4, <1>6, <2>3, AllWritten
    <3>2. store[f] = "damaged"
      BY <1>4, <2>3, <3>1, LineWrites, KindsAreWhole DEF Line, Writing
    <3> QED BY <1>2, <2>2, <3>2 DEF StoreInv
  <2>4. ASSUME NEW k \in 1..(next' - 1), Demos[k] \in present,
               NEW i \in 1..Len(DemoWrites(Demos[k]))
        PROVE  store'[DemoWrites(Demos[k])[i].path] # "absent"
    <3>1. Demos[k] \in Programs
      BY <2>4 DEF SInv, Progress
    <3>2. PICK f : f = DemoWrites(Demos[k])[i].path
      OBVIOUS
    <3>3. f \in Files
      <4>1. PICK h : h = <<Demos[k], Demo>>
        OBVIOUS
      <4>2. Line(h) /\ WritesOf(h) = DemoWrites(Demos[k])
        BY <3>1, <4>1, DemoLine
      <4> QED BY <2>4, <3>2, <4>2, WritesAreFiles DEF Line
    <3>4. CASE k = next
      <4>1. WritesOf(l)[i].path = f /\ i \in 1..Len(WritesOf(l))
        BY <1>1, <1>4, <3>2, <3>4
      <4>2. \E j \in 1..Len(WritesOf(l)) : store'[f] = WritesOf(l)[j].kind
        BY <1>4, <1>6, <3>3, <4>1, AllWritten
      <4> QED BY <1>4, <3>2, <4>2, LineWrites, KindsAreWhole DEF Line, Writing
    <3>5. CASE k \in 1..(next - 1)
      <4>1. store[f] # "absent"
        BY <1>2, <2>4, <3>2, <3>5 DEF StoreInv
      <4> QED BY <2>1, <3>2, <3>3, <4>1 DEF Leaves
    <3> QED BY <1>2, <2>2, <3>4, <3>5
  <2>5. \A s \in Standard : store'[s.path] \in {"absent", "damaged", s.kind}
    BY <2>1 DEF Leaves, StoreInv
  <2> QED BY <2>1, <2>2, <2>3, <2>4, <2>5 DEF Leaves, StoreInv
<1> QED BY <1>1, <1>4, <1>5, <1>6 DEF RunDemo

\* Steps that leave the files alone.
LEMMA OtherStoreInv ==
  ASSUME StoreInv, UNCHANGED <<store, spoiled, present>>,
         \/ exit' = "failure"
         \/ exit' = exit /\ next' = next
         \/ After(next) /\ Demos[next] \notin present /\ exit = "running" /\ next \in Nat
  PROVE  StoreInv'
<1>1. CASE exit' = "failure" \/ (exit' = exit /\ next' = next)
  BY <1>1 DEF StoreInv
<1>2. CASE After(next) /\ Demos[next] \notin present /\ exit = "running" /\ next \in Nat
  <2>1. \A k \in 1..(next' - 1) : k \in 1..(next - 1) \/ k = next
    BY <1>2 DEF After
  <2> QED BY <1>2, <2>1 DEF StoreInv
<1> QED BY <1>1, <1>2

LEMMA StepStoreInv ==
  ASSUME UsersKeepKinds
  PROVE  SInv /\ StoreInv /\ [Next]_vars => StoreInv'
<1> SUFFICES ASSUME SInv, StoreInv, [Next]_vars PROVE StoreInv'
  OBVIOUS
<1>1. CASE CheckDemoBinaries \/ NoBuildNeeded \/ MakeExamples \/ MissingBinary \/ MakeClean \/ UNCHANGED vars
  BY <1>1, OtherStoreInv
     DEF CheckDemoBinaries, NoBuildNeeded, MakeExamples, MissingBinary, MakeClean, scriptVars, vars
<1>2. CASE SkipDemo
  <2>1. exit = "running" /\ next \in Nat
    BY <1>2, DemosLength DEF SkipDemo, SInv, Progress
  <2> QED BY <1>2, <2>1, OtherStoreInv DEF SkipDemo
<1> QED BY <1>1, <1>2, UserStoreInv, DemoStoreInv DEF Next, Script, Ended

LEMMA StoreReady == SInv /\ StoreInv => ReadersReady
<1> SUFFICES ASSUME SInv, StoreInv, exit = "success", present = Programs, NEW s \in Standard
             PROVE  s.path \in spoiled \/ store[s.path] = s.kind
  BY DEF ReadersReady
<1>1. PICK d \in Programs : \E i \in 1..Len(DemoWrites(d)) : DemoWrites(d)[i] = s
  BY WritersCover
<1>2. PICK i \in 1..Len(DemoWrites(d)) : DemoWrites(d)[i] = s
  BY <1>1
<1>3. PICK k \in 1..Len(Demos) : Demos[k] = d
  BY DEF Programs
<1>4. k \in 1..(next - 1)
  BY DemosLength DEF SInv, Progress
<1>5. store[s.path] # "absent"
  BY <1>2, <1>3, <1>4 DEF StoreInv
<1>6. s.path \in Files
  BY StandardFiles
<1> QED BY <1>5, <1>6 DEF StoreInv

\* After a script that succeeded, every reader --demo finds its standard files with the
\* messages it expects, unless a user's failing run damaged them: the writers' demos write
\* all that the readers decode, no family writes another's file, and a failing demo fails
\* the script (scripts/run-demos.sh and the programs' walkthroughs).  Users may run any
\* program, if they do not name one of these files for a message that does not belong there.
THEOREM ReadersAreReady ==
  ASSUME UsersKeepKinds
  PROVE  Spec => []ReadersReady
<1>1. SInv /\ StoreInv /\ [Next]_vars => StoreInv'
  BY StepStoreInv
<1> QED BY <1>1, InitSInv, StepSInv, InitStoreInv, StoreReady, PTL DEF Spec
=============================================================================
