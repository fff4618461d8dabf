------------------------------ MODULE RunDemos ------------------------------
(***************************************************************************)
(* scripts/run-demos.sh: find out whether a demo binary is missing, build  *)
(* all examples once if so, then run the eight writer --demo programs in a *)
(* fixed order under "set -e".  Meanwhile a user of the same machine may   *)
(* run the example programs and "make clean".  A program run is one step   *)
(* here (PayloadExchange has its calls); it may fail anywhere in its plan. *)
(***************************************************************************)
EXTENDS ExamplePrograms, FiniteSets

CONSTANTS
  UserLines,    \* the command lines a user may run, as <<program, args>>
  Faults,       \* subset of {"make", "demo", "user", "clean"}: what may go wrong
  MaxUserRuns, MaxAbsent, MaxMissing   \* bounds

\* The demos in the order the script runs them.
Demos == <<"actuator_write", "app_message_write", "conn_status_write",
  "discovery_write_request", "discovery_write_response", "sensor_write",
  "metered_write", "waveform_subscribe_and_read">>
Programs == {Demos[i] : i \in 1..Len(Demos)}

\* The order in which make builds them: the C++ program first.
MakeOrder == <<"waveform_subscribe_and_read", "actuator_write", "app_message_write",
  "conn_status_write", "sensor_write", "discovery_write_request",
  "discovery_write_response", "metered_write">>

PlanOf(prog, args) ==
  CASE prog = "actuator_write" -> actuator_write(args)
    [] prog = "app_message_write" -> app_message_write(args)
    [] prog = "conn_status_write" -> conn_status_write(args)
    [] prog = "discovery_write_request" -> discovery_write_request(args)
    [] prog = "discovery_write_response" -> discovery_write_response(args)
    [] prog = "sensor_write" -> sensor_write(args)
    [] prog = "metered_write" -> metered_write(args)
    [] prog = "waveform_subscribe_and_read" -> waveform_subscribe_and_read(args)
    [] prog = "actuator_read" -> actuator_read(args)
    [] prog = "app_message_read" -> app_message_read(args)
    [] prog = "conn_status_read" -> conn_status_read(args)
    [] prog = "discovery_read" -> discovery_read(args)
    [] prog = "sensor_read" -> sensor_read(args)
    [] prog = "metered_read" -> metered_read(args)

Demo == <<"--demo">>
Lines == UserLines \cup {<<p, Demo>> : p \in Programs}
WritesOf(l) == PlanOf(l[1], l[2]).writes
Files == UNION {{WritesOf(l)[i].path : i \in DOMAIN WritesOf(l)} : l \in Lines}

\* The names that are put together differ from each other and from those spelled out.
PathsOf(set) == {set[i].path : i \in DOMAIN set}
SpelledPaths ==
  PathsOf(ActuatorSet) \cup PathsOf(AppMessageSet) \cup PathsOf(ConnStatusSet) \cup PathsOf(SensorSet)
  \cup {DiscoveryRequest.path, DiscoveryResponse.path, "/tmp/waveform-rsp.bin"}
JoinedPaths == <<MeteredSet("/tmp")[1].path, MeteredSet("/tmp")[2].path,
                 "/tmp/waveform-rsp.bin" \o ".frame">>
ASSUME NamesAssumption ==
  \A i \in 1..3 : /\ JoinedPaths[i] \notin SpelledPaths
                  /\ \A j \in 1..3 : JoinedPaths[i] = JoinedPaths[j] => i = j

VARIABLES
  present,    \* the demos whose source is in the checkout
  nanopb,     \* NANOPB_DEFAULT_READY
  built,      \* the demos whose binary is there
  store,      \* store[f]: the kind of message in f, "absent" or "damaged"
  phase,      \* what the script does: "check", "build", "demos" or "end"
  next,       \* the demo the script runs next
  needs_build,
  exit,       \* "running", or how the script ended
  ran,        \* history: the demos that ran, in order, each with its success
  made,       \* history: make examples was called
  cleaned,    \* history: make clean ran since the script started
  spoiled,    \* history: files a failing user run left damaged
  userRuns

scriptVars == <<phase, next, needs_build, exit, ran, made>>
vars == <<present, nanopb, built, store, phase, next, needs_build, exit, ran,
          made, cleaned, spoiled, userRuns>>

Init ==
  /\ present \in SUBSET Programs /\ Cardinality(Programs \ present) <= MaxAbsent
  /\ nanopb \in BOOLEAN
  /\ built \in SUBSET Programs
  /\ built = {} \/ Cardinality(Programs \ built) <= MaxMissing
  /\ store = [f \in Files |-> "absent"]
  /\ phase = "check" /\ next = 1 /\ needs_build = FALSE
  /\ exit = "running"
  /\ ran = <<>>
  /\ made = FALSE /\ cleaned = FALSE
  /\ spoiled = {} /\ userRuns = 0

-----------------------------------------------------------------------------
\* The store after the first n messages of plan are in their files.
Written(n, plan) ==
  [f \in Files |->
     LET hits == {i \in 1..n : plan.writes[i].path = f} IN
     IF hits = {} THEN store[f]
     ELSE plan.writes[CHOOSE i \in hits : \A j \in hits : j <= i].kind]

\* The stores a run that fails may leave: n messages written and the next file
\* untouched or cut short, or all of them and a failure while decoding.
AfterFailure(plan) ==
  {Written(n, plan) : n \in 0..Len(plan.writes)} \cup
  {[Written(n - 1, plan) EXCEPT ![plan.writes[n].path] = "damaged"] :
     n \in 1..Len(plan.writes)}

\* Every file a plan decodes holds what it expects, once it has written.
Decodes(plan) ==
  \A i \in 1..Len(plan.reads) :
    Written(Len(plan.writes), plan)[plan.reads[i].path] = plan.reads[i].kind

\* Mutant of CheckDemoBinaries: only the last check decides.
CheckLastBinary ==
  /\ phase = "check"
  /\ LET last == Demos[Len(Demos)] IN needs_build' = (last \in present /\ last \notin built)
  /\ phase' = "build"
  /\ UNCHANGED <<present, nanopb, built, store, next, exit, ran, made, cleaned, spoiled, userRuns>>

\* check_demo_binary for each demo: a build is needed once a source is there and
\* its binary is not.
CheckDemoBinaries ==
  /\ phase = "check"
  /\ needs_build' = (present \ built # {})
  /\ phase' = "build"
  /\ UNCHANGED <<present, nanopb, built, store, next, exit, ran, made, cleaned, spoiled, userRuns>>

NoBuildNeeded ==
  /\ phase = "build" /\ ~needs_build
  /\ phase' = "demos"
  /\ UNCHANGED <<present, nanopb, built, store, next, needs_build, exit, ran, made, cleaned,
                 spoiled, userRuns>>

\* What make examples builds: the C++ program and, with nanopb ready, the rest.
MakeTargets == IF nanopb THEN Programs ELSE {"waveform_subscribe_and_read"}

\* make examples once: a rule without its source, or a failing recipe, stops it
\* after the targets before; set -e then ends the script.
MakeExamples ==
  /\ phase = "build" /\ needs_build
  /\ made' = TRUE
  /\ \/ /\ MakeTargets \subseteq present
        /\ built' = built \cup MakeTargets
        /\ phase' = "demos"
        /\ UNCHANGED exit
     \/ \E n \in 1..Len(MakeOrder) :
          /\ MakeOrder[n] \in MakeTargets
          /\ MakeOrder[n] \notin present \/ "make" \in Faults
          /\ {MakeOrder[i] : i \in 1..(n - 1)} \cap MakeTargets \subseteq present
          /\ built' = built \cup ({MakeOrder[i] : i \in 1..(n - 1)} \cap MakeTargets)
          /\ phase' = "end" /\ exit' = "failure"
        /\ UNCHANGED next
  /\ UNCHANGED <<present, nanopb, store, next, needs_build, ran, cleaned, spoiled, userRuns>>

\* The last demo's status is the script's.
After(n) ==
  /\ next' = n + 1
  /\ phase' = IF n = Len(Demos) THEN "end" ELSE "demos"
  /\ exit' = IF n = Len(Demos) THEN "success" ELSE exit

SkipDemo ==
  /\ phase = "demos" /\ Demos[next] \notin present
  /\ After(next)
  /\ UNCHANGED <<present, nanopb, built, store, needs_build, ran, made, cleaned, spoiled,
                 userRuns>>

MissingBinary ==
  /\ phase = "demos" /\ Demos[next] \in present \ built
  /\ phase' = "end" /\ exit' = "failure"
  /\ UNCHANGED <<present, nanopb, built, store, next, needs_build, ran, made, cleaned, spoiled,
                 userRuns>>

\* Mutant of RunDemo: without set -e a failing demo does not end the script.
RunDemoGoesOn ==
  /\ phase = "demos" /\ Demos[next] \in present \cap built
  /\ LET plan == PlanOf(Demos[next], Demo) IN
     \/ /\ Decodes(plan)
        /\ store' = Written(Len(plan.writes), plan)
        /\ ran' = Append(ran, <<Demos[next], TRUE>>)
     \/ /\ "demo" \in Faults \/ ~Decodes(plan)
        /\ store' \in AfterFailure(plan)
        /\ ran' = Append(ran, <<Demos[next], FALSE>>)
  /\ After(next)
  /\ UNCHANGED <<present, nanopb, built, needs_build, made, cleaned, spoiled, userRuns>>

\* The program runs with --demo; set -e ends the script when it fails.
RunDemo ==
  /\ phase = "demos" /\ Demos[next] \in present \cap built
  /\ LET plan == PlanOf(Demos[next], Demo) IN
     \/ /\ Decodes(plan)
        /\ store' = Written(Len(plan.writes), plan)
        /\ ran' = Append(ran, <<Demos[next], TRUE>>)
        /\ After(next)
     \/ /\ "demo" \in Faults \/ ~Decodes(plan)
        /\ store' \in AfterFailure(plan)
        /\ ran' = Append(ran, <<Demos[next], FALSE>>)
        /\ phase' = "end" /\ exit' = "failure"
        /\ UNCHANGED next
  /\ UNCHANGED <<present, nanopb, built, needs_build, made, cleaned, spoiled, userRuns>>

\* The user runs an example program.
UserRun ==
  /\ exit = "running" /\ userRuns < MaxUserRuns
  /\ userRuns' = userRuns + 1
  /\ \E l \in UserLines :
       LET plan == PlanOf(l[1], l[2]) IN
       /\ plan.ok
       /\ \/ /\ store' = Written(Len(plan.writes), plan)
             /\ UNCHANGED spoiled
          \/ /\ "user" \in Faults
             /\ store' \in AfterFailure(plan)
             /\ spoiled' = spoiled \cup {f \in Files : store'[f] = "damaged" /\ store[f] # "damaged"}
  /\ UNCHANGED <<present, nanopb, built, scriptVars, cleaned>>

\* The user runs make clean.
MakeClean ==
  /\ "clean" \in Faults /\ exit = "running" /\ ~cleaned
  /\ built' = {} /\ cleaned' = TRUE
  /\ UNCHANGED <<present, nanopb, store, scriptVars, spoiled, userRuns>>

Script ==
  CheckDemoBinaries \/ NoBuildNeeded \/ MakeExamples \/ SkipDemo \/ MissingBinary
  \/ RunDemo
Ended == phase = "end" /\ UNCHANGED vars
Next == Script \/ UserRun \/ MakeClean \/ Ended

Spec == Init /\ [][Next]_vars
-----------------------------------------------------------------------------
Place(d) == CHOOSE i \in 1..Len(Demos) : Demos[i] = d

\* When the script succeeds, the demos that ran are those whose source is there, each
\* once and in the script's order, and all of them succeeded, and a failed one ends it:
\* neither a failed build, a missing binary nor a failing demo is passed over.
SuccessRanEveryDemo ==
  /\ \A i \in DOMAIN ran : ran[i][2] \/ exit = "failure"
  /\ exit = "success" =>
       /\ {ran[i] : i \in DOMAIN ran} = {<<d, TRUE>> : d \in present}
       /\ \A i, j \in DOMAIN ran : i < j => Place(ran[i][1]) < Place(ran[j][1])

\* What the readers' walkthroughs decode: each file with the message expected there.
Readers == {"actuator_read", "app_message_read", "conn_status_read", "discovery_read",
            "sensor_read", "metered_read"}
Standard == UNION {{PlanOf(r, Demo).reads[i] : i \in DOMAIN PlanOf(r, Demo).reads} : r \in Readers}

\* After the script has succeeded, every reader --demo of a family whose writers
\* ran finds its standard files, each with the message it expects, whatever
\* programs a user ran meanwhile, unless one of those failed on such a file:
\* writers and readers agree on files, and no family writes another's.
ReadersReady ==
  exit = "success" /\ present = Programs =>
    \A s \in Standard : s.path \in spoiled \/ store[s.path] = s.kind

\* Files that a user names: no line writes to one the readers' walkthroughs decode
\* anything but the message they expect there.
KeepsKinds(l) ==
  \A i \in 1..Len(WritesOf(l)) : \A s \in Standard :
    WritesOf(l)[i].path = s.path => WritesOf(l)[i].kind = s.kind
UsersKeepKinds ==
  \A l \in UserLines : l[1] \in Programs \cup Readers /\ (l[2] \notin {<<>>, Demo} => KeepsKinds(l))

\* "required demo binary missing after make examples": unless someone cleaned the
\* build meanwhile, make examples did run, and left
\* the embedded C examples out because nanopb is not ready.
MissingBinaryExplained ==
  [][phase = "demos" /\ exit' = "failure" /\ ran' = ran /\ ~cleaned => made /\ ~nanopb]_vars
=============================================================================
