--------------------------- MODULE ExamplePrograms ---------------------------
(***************************************************************************)
(* What each example program does with its command line: which messages it *)
(* writes to which files and which files it decodes afterwards.  One       *)
(* operator per program, from the arguments after argv[0] to a plan.  How  *)
(* a plan is carried out, call by call and against other programs, is      *)
(* PayloadExchange.                                                        *)
(***************************************************************************)
EXTENDS Integers, Sequences

CONSTANT LongDirs   \* directory names the 512-byte path buffers cannot extend

NoDirectory == ""

At(f, k) == [path |-> f, kind |-> k]

\* ok is FALSE when main prints its usage and fails.
Plan(w, r) == [ok |-> TRUE, dir |-> NoDirectory, writes |-> w, reads |-> r]
Usage == [ok |-> FALSE, dir |-> NoDirectory, writes |-> <<>>, reads |-> <<>>]

IsDemo(args) == args = <<"--demo">>

\* The messages of a set, under the names the user gave.
Named(set, args) == [i \in 1..Len(set) |-> At(args[i], set[i].kind)]

\* A writer: its standard set by default, the same set and a walkthrough for
\* --demo, or one file name for each of its messages.
WriterPlan(args, set, walk, free) ==
  IF args = <<>> THEN Plan(set, <<>>)
  ELSE IF IsDemo(args) THEN Plan(set, walk)
  ELSE IF Len(args) = free THEN Plan(Named(set, args), <<>>) ELSE Usage

\* A reader: the walkthrough, or one file of the kind its mode names.
ReaderPlan(args, walk, modes) ==
  IF IsDemo(args) THEN Plan(<<>>, walk)
  ELSE IF Len(args) = 2 /\ args[1] \in DOMAIN modes
       THEN Plan(<<>>, <<At(args[2], modes[args[1]])>>) ELSE Usage

-----------------------------------------------------------------------------
ActuatorSet ==
  <<At("/tmp/actuator-get-req.bin", "ActuatorGet_Req"),
    At("/tmp/actuator-get-rsp.bin", "ActuatorGet_Rsp"),
    At("/tmp/actuator-set-req.bin", "ActuatorSet_Req"),
    At("/tmp/actuator-set-rsp.bin", "ActuatorSet_Rsp")>>
actuator_run_demo_walkthrough == ActuatorSet
actuator_write(args) == WriterPlan(args, ActuatorSet, actuator_run_demo_walkthrough, 0)
actuator_read(args) ==
  ReaderPlan(args, actuator_run_demo_walkthrough,
    [m \in {"--get-req", "--get-rsp", "--set-req", "--set-rsp"} |->
       CASE m = "--get-req" -> "ActuatorGet_Req" [] m = "--get-rsp" -> "ActuatorGet_Rsp"
         [] m = "--set-req" -> "ActuatorSet_Req" [] m = "--set-rsp" -> "ActuatorSet_Rsp"])

AppMessageSet ==
  <<At("/tmp/app-message-req.bin", "AppMessage_Req"),
    At("/tmp/app-message-rsp.bin", "AppMessage_Rsp")>>
app_message_run_demo_walkthrough == AppMessageSet
app_message_write(args) == WriterPlan(args, AppMessageSet, app_message_run_demo_walkthrough, 2)
app_message_read(args) ==
  ReaderPlan(args, app_message_run_demo_walkthrough,
    [m \in {"--req", "--rsp"} |-> IF m = "--req" THEN "AppMessage_Req" ELSE "AppMessage_Rsp"])

ConnStatusSet ==
  <<At("/tmp/conn-status-platform-status.bin", "PlatformStatus"),
    At("/tmp/conn-status-platform-to-app-status.bin", "PlatformToAppStatus"),
    At("/tmp/conn-status-app-to-platform-status.bin", "AppToPlatformStatus")>>
conn_status_run_demo_walkthrough == ConnStatusSet
conn_status_write(args) == WriterPlan(args, ConnStatusSet, conn_status_run_demo_walkthrough, 3)
conn_status_read(args) ==
  ReaderPlan(args, conn_status_run_demo_walkthrough,
    [m \in {"--platform", "--to-app", "--from-app"} |->
       CASE m = "--platform" -> "PlatformStatus" [] m = "--to-app" -> "PlatformToAppStatus"
         [] m = "--from-app" -> "AppToPlatformStatus"])

DiscoveryRequest == At("/tmp/discovery-request.bin", "PlatformDiscovery_Req")
\* Mutant of DiscoveryResponse: writer and reader disagree on the file name.
DiscoveryResponseMisnamed == At("/tmp/discovery-request.bin", "PlatformDiscovery_Rsp")
DiscoveryResponse == At("/tmp/discovery-response.bin", "PlatformDiscovery_Rsp")
discovery_run_demo_walkthrough == <<DiscoveryRequest, DiscoveryResponse>>
discovery_write_request(args) ==
  WriterPlan(args, <<DiscoveryRequest>>, <<DiscoveryRequest>>, 1)
\* Two arguments name a file too, after the flag; the flag alone is a file name.
discovery_write_response(args) ==
  IF Len(args) = 2 /\ args[1] = "--write-rsp-sample"
  THEN Plan(Named(<<DiscoveryResponse>>, <<args[2]>>), <<>>)
  ELSE WriterPlan(args, <<DiscoveryResponse>>, <<DiscoveryResponse>>, 1)
discovery_read(args) ==
  ReaderPlan(args, discovery_run_demo_walkthrough,
    [m \in {"--req", "--rsp"} |-> IF m = "--req" THEN DiscoveryRequest.kind ELSE DiscoveryResponse.kind])

SensorSet == <<At("/tmp/sensor-response.bin", "SensorReadings_Rsp")>>
sensor_run_demo_walkthrough == SensorSet
sensor_write(args) == WriterPlan(args, SensorSet, sensor_run_demo_walkthrough, 1)
sensor_read(args) ==
  IF IsDemo(args) THEN Plan(<<>>, sensor_run_demo_walkthrough)
  ELSE IF Len(args) = 1 THEN Plan(<<>>, Named(SensorSet, args)) ELSE Usage

\* snprintf cuts the path at 511 characters: in a long directory both names
\* come out the same.
MeteredPath(d, name) == IF d \in LongDirs THEN d \o "/geisa-metered" ELSE d \o name
MeteredSet(d) ==
  <<At(MeteredPath(d, "/geisa-metered-instantaneous.bin"), "InstantaneousQuantities"),
    At(MeteredPath(d, "/geisa-metered-billing.bin"), "BillingQuantities")>>
metered_run_demo_walkthrough == MeteredSet("/tmp")
\* The one argument names a directory, created if need be.
metered_write(args) ==
  LET outdir == IF Len(args) = 1 /\ ~IsDemo(args) THEN args[1] ELSE "/tmp" IN
  IF Len(args) > 1 THEN Usage
  ELSE [Plan(MeteredSet(outdir), IF IsDemo(args) THEN metered_run_demo_walkthrough ELSE <<>>)
          EXCEPT !.dir = outdir]
metered_read(args) ==
  ReaderPlan(args, metered_run_demo_walkthrough,
    [m \in {"instantaneous", "billing"} |->
       IF m = "instantaneous" THEN "InstantaneousQuantities" ELSE "BillingQuantities"])

\* The sample response names its frame file; reading the response reads both.
WaveformSample(f) == <<At(f, "Waveform_Rsp"), At(f \o ".frame", "frame")>>
\* --demo is looked at whatever follows it; other modes ignore what follows
\* their file name.
waveform_subscribe_and_read(args) ==
  IF args = <<>> THEN Usage
  ELSE IF args[1] = "--demo"
       THEN Plan(WaveformSample("/tmp/waveform-rsp.bin"), WaveformSample("/tmp/waveform-rsp.bin"))
  ELSE IF Len(args) < 2 THEN Usage
  ELSE CASE args[1] = "--write-req" -> Plan(<<At(args[2], "Waveform_Req")>>, <<>>)
         [] args[1] = "--write-rsp-sample" -> Plan(WaveformSample(args[2]), <<>>)
         [] args[1] = "--read-rsp" -> Plan(<<>>, WaveformSample(args[2]))
         [] OTHER -> Usage
=============================================================================
