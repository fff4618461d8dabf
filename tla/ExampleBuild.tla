---------------------------- MODULE ExampleBuild ----------------------------
(***************************************************************************)
(* The build of the examples: the rules of mk/nanopb.mk, mk/examples.mk    *)
(* and mk/proto.mk, and GNU make (with -j) carrying them out while files   *)
(* are edited and makes interrupted.                                       *)
(*                                                                         *)
(* A file is <<kind, name>>.  "pb" stands for a module's .pb.c and .pb.h,  *)
(* "cpp" for a proto's .pb.cc and .pb.h, "pbc" for its .pb-c.c and .pb-c.h.*)
(* The content of a source is how often it was edited; that of what a      *)
(* recipe made maps each file it read to the content read.  Instead of     *)
(* time stamps, newer[t] holds t's prerequisites written since t was.      *)
(***************************************************************************)
EXTENDS Integers, Sequences, FiniteSets

CONSTANTS
  Goals,     \* Goals[g]: the targets that "make g" asks for
  Setups,    \* [mode, jobs]: how the generator is called, and make's -j
  Editable,  \* the sources that may be edited
  Faults,    \* subset of {"recipe", "interrupt", "kill", "clean"}
  MaxEdits, MaxMakes   \* bounds

\* The nanopb modules, and which stamps each one's stamp waits for.
NANOPB_MODULES == {"status", "actuator", "app_message", "conn_status", "sensor",
                   "waveform", "discovery", "metered"}

\* Mutant of NANOPB_DEPS: the sensor's entry is missing.
NANOPB_DEPS_NoSensor ==
  [m \in NANOPB_MODULES |->
     CASE m \in {"actuator", "waveform"} -> {"status"}
       [] m = "discovery" -> {"status", "sensor", "waveform"}
       [] OTHER -> {}]

NANOPB_DEPS ==
  [m \in NANOPB_MODULES |->
     CASE m \in {"actuator", "sensor", "waveform"} -> {"status"}
       [] m = "discovery" -> {"status", "sensor", "waveform"}
       [] OTHER -> {}]
NANOPB_OPTIONS(m) == IF m = "waveform" THEN {} ELSE {<<"options", m>>}

\* What the proto files import.
IMPORTS ==
  [m \in NANOPB_MODULES |->
     CASE m \in {"actuator", "sensor", "waveform"} -> {"status"}
       [] m = "discovery" -> {"status", "sensor", "waveform"}
       [] OTHER -> {}]

\* The embedded example families: their programs, helper and nanopb modules.
EMBEDDED ==
  [actuator |-> {"actuator_write_response_example", "actuator_read_example"},
   app_message |-> {"app_message_write_response_example", "app_message_read_example"},
   conn_status |-> {"conn_status_write_example", "conn_status_read_example"},
   sensor |-> {"sensor_write_response_example", "sensor_read_example"},
   discovery |-> {"discovery_write_request_example", "discovery_write_response_example",
                  "discovery_read_example"},
   metered |-> {"metered_quantities_write_example", "metered_quantities_read_example"}]
FAMILY_MODULES ==
  [actuator |-> {"status", "actuator"}, app_message |-> {"app_message"},
   conn_status |-> {"conn_status"}, sensor |-> {"status", "sensor"},
   discovery |-> {"status", "sensor", "waveform", "discovery"}, metered |-> {"metered"}]
FamilyOf(e) == CHOOSE f \in DOMAIN EMBEDDED : e \in EMBEDDED[f]
Cpp == "waveform_subscribe_and_read"
CPP_PROTO_DEPS == {"waveform", "status"}

Protos == NANOPB_MODULES
Targets ==
  {<<"stamp", m>> : m \in NANOPB_MODULES} \cup {<<"bin", Cpp>>}
  \cup {<<"bin", e>> : e \in UNION {EMBEDDED[f] : f \in DOMAIN EMBEDDED}}
  \cup {<<"cpp", p>> : p \in Protos} \cup {<<"pbc", p>> : p \in Protos}

\* Mutant of Prereqs: the binaries do not wait for the stamps of their modules.
PrereqsWithoutStamps == [t \in Targets |->
  CASE t[1] = "stamp" -> {<<"proto", t[2]>>} \cup NANOPB_OPTIONS(t[2])
                         \cup {<<"stamp", d>> : d \in NANOPB_DEPS[t[2]]}
    [] t = <<"bin", Cpp>> -> {<<"src", Cpp>>} \cup {<<"cpp", p>> : p \in CPP_PROTO_DEPS}
    [] t[1] = "bin" /\ t[2] # Cpp ->
         {<<"src", t[2]>>, <<"helper", FamilyOf(t[2])>>, <<"helper", "nanopb">>}
    [] t[1] \in {"cpp", "pbc"} -> {<<"proto", t[2]>>}]

\* The prerequisites each rule names.
Prereqs == [t \in Targets |->
  CASE t[1] = "stamp" -> {<<"proto", t[2]>>} \cup NANOPB_OPTIONS(t[2])
                         \cup {<<"stamp", d>> : d \in NANOPB_DEPS[t[2]]}
    [] t = <<"bin", Cpp>> -> {<<"src", Cpp>>} \cup {<<"cpp", p>> : p \in CPP_PROTO_DEPS}
    [] t[1] = "bin" /\ t[2] # Cpp ->
         {<<"src", t[2]>>, <<"helper", FamilyOf(t[2])>>, <<"helper", "nanopb">>}
         \cup {<<"stamp", m>> : m \in FAMILY_MODULES[FamilyOf(t[2])]}
    [] t[1] \in {"cpp", "pbc"} -> {<<"proto", t[2]>>}]

\* The files each recipe reads, whether its rule names them or not.
Reads == [t \in Targets |->
  CASE t[1] = "stamp" ->
         UNION {{<<"proto", m>>} \cup NANOPB_OPTIONS(m) : m \in {t[2]} \cup IMPORTS[t[2]]}
    [] t = <<"bin", Cpp>> ->
         {<<"src", Cpp>>, <<"helper", "example_utils">>} \cup {<<"cpp", p>> : p \in CPP_PROTO_DEPS}
    [] t[1] = "bin" /\ t[2] # Cpp ->
         {<<"src", t[2]>>, <<"helper", FamilyOf(t[2])>>, <<"helper", "nanopb">>}
         \cup {<<"pb", m>> : m \in FAMILY_MODULES[FamilyOf(t[2])]}
    [] t[1] \in {"cpp", "pbc"} -> {<<"proto", m>> : m \in {t[2]} \cup IMPORTS[t[2]]}]

\* The file a recipe writes its result to: a stamp's is its module's .pb.c and .pb.h.
Output(t) == IF t[1] = "stamp" THEN <<"pb", t[2]>> ELSE t

\* Rules are at most four deep.
Reach(T) ==
  LET deeper(S) == S \cup UNION {Prereqs[x] : x \in S \cap Targets} IN
  deeper(deeper(deeper(deeper(T))))
Wanted == [g \in DOMAIN Goals |-> Reach(Goals[g]) \cap Targets]

Built == UNION {Wanted[g] : g \in DOMAIN Goals}
Outputs == {Output(t) : t \in Built}
Sources == (UNION {Reads[t] \cup Prereqs[t] : t \in Built}) \ (Built \cup Outputs)
ASSUME GoalsAssumption == \A g \in DOMAIN Goals : Goals[g] \subseteq Targets
ASSUME EditableAssumption == Editable \subseteq Sources
ASSUME SetupAssumption ==
  /\ Setups \subseteq [mode: {"module", "plugin"}, jobs: Nat \ {0}]
  /\ MaxEdits \in Nat /\ MaxMakes \in Nat

VARIABLES
  ver,      \* ver[s]: how often source s was edited
  there,    \* there[f]: "absent", "damaged" (cut short) or "whole"
  used,     \* used[t]: what the recipe of t last made its output from
  newer,    \* newer[t]: the prerequisites of t written since t was
  make, goal, setup,   \* make: "idle", "running", or "stopping" after a failure
  st,       \* st[t]: this make's progress with t
  snap,     \* snap[t]: what the running recipe of t has read
  wrapper,  \* protoc-gen-nanopb-wrapper.sh: "absent", "empty" or "whole"
  result,   \* how the last make ended
  edits, makes,
  quiet,    \* history: nothing was edited since this make started
  remade,   \* history: the targets this make ran the recipe of
  raced,    \* history: targets with a prerequisite edited while their recipe ran,
            \* after it was read
  cut,      \* history: targets a killed or failing recipe left damaged
  skipped,  \* history: stamps whose generator last ran an empty wrapper script
  fresh     \* history: targets made, and nothing they depend on edited since

fileVars == <<ver, there, used, newer, wrapper>>
histVars == <<quiet, remade, raced, cut, skipped, fresh>>
vars == <<ver, there, used, newer, make, goal, setup, st, snap, wrapper, result, edits,
          makes, quiet, remade, raced, cut, skipped, fresh>>

Made == Built \cup Outputs
Active == {"wrap", "fill", "read", "put", "retry", "put_again", "touch"}
Putting == {"put", "put_again"}
Running == {t \in Built : st[t] \in Active}

Content(f) ==
  IF f \in Sources THEN ver[f]
  ELSE used[IF f[1] = "pb" THEN <<"stamp", f[2]>> ELSE f]

Init ==
  /\ ver = [f \in Sources |-> 0]
  /\ there = [f \in Made |-> "absent"]
  /\ used = [t \in Built |-> <<>>]
  /\ newer = [t \in Built |-> {}]
  /\ make = "idle" /\ goal = "none" /\ setup \in Setups
  /\ st = [t \in Built |-> "todo"]
  /\ snap = [t \in Built |-> <<>>]
  /\ wrapper = "absent" /\ result = "none"
  /\ edits = 0 /\ makes = 0 /\ quiet = TRUE
  /\ remade = {} /\ raced = {} /\ cut = {} /\ skipped = {} /\ fresh = {}

\* What depends on f, directly or not, by the rules.
Dependents == [f \in Sources |-> {t \in Built : f \in Reach(Prereqs[t])}]
\* Mutant of Written: f is newer than every target, not only those it is named for.
WrittenForAll(f) ==
  [t \in Built |->
     IF t = f THEN {} ELSE IF there[t] # "absent" THEN newer[t] \cup {f} ELSE newer[t]]

\* newer once f is written; f itself, if a target, is as new as can be.
Written(f) ==
  [t \in Built |->
     IF t = f THEN {}
     ELSE IF f \in Prereqs[t] /\ there[t] # "absent" THEN newer[t] \cup {f} ELSE newer[t]]

Step(t, s) == st' = [st EXCEPT ![t] = s]

-----------------------------------------------------------------------------
StartMake ==
  /\ make = "idle" /\ makes < MaxMakes
  /\ make' = "running" /\ goal' \in DOMAIN Goals
  /\ makes' = makes + 1
  /\ quiet' = TRUE /\ result' = "none"
  /\ UNCHANGED <<fileVars, setup, st, snap, edits, remade, raced, cut, skipped, fresh>>

\* make turns to t once all its prerequisites are done with.
Ready(t) ==
  /\ make = "running" /\ t \in Wanted[goal] /\ st[t] = "todo"
  /\ \A p \in Prereqs[t] \cap Built : st[p] = "done"

\* Missing, or older than a prerequisite.
OutOfDate(t) == there[t] = "absent" \/ newer[t] # {}

AlreadyMade(t) ==
  /\ Ready(t) /\ ~OutOfDate(t)
  /\ Step(t, "done")
  /\ UNCHANGED <<fileVars, make, goal, setup, snap, result, edits, makes, histVars>>

FirstStep(t) == IF t[1] = "stamp" /\ setup.mode = "plugin" THEN "wrap" ELSE "read"

StartRecipe(t) ==
  /\ Ready(t) /\ OutOfDate(t) /\ Cardinality(Running) < setup.jobs
  /\ Step(t, FirstStep(t))
  /\ remade' = remade \cup {t} /\ raced' = raced \ {t}
  /\ UNCHANGED <<fileVars, make, goal, setup, snap, result, edits, makes, quiet, cut, skipped, fresh>>

\* The shell truncates the wrapper script before it fills it.
WriteWrapper(t) ==
  /\ \/ st[t] = "wrap" /\ wrapper' = "empty" /\ Step(t, "fill")
     \/ st[t] = "fill" /\ wrapper' = "whole" /\ Step(t, "read")
  /\ UNCHANGED <<ver, there, used, newer, make, goal, setup, snap, result, edits, makes, histVars>>

\* A generator behind the wrapper needs it, and every recipe its inputs.
CanRead(t) ==
  /\ FirstStep(t) = "wrap" => wrapper = "whole"
  /\ \A f \in Reads[t] \ Sources : there[f] = "whole"

\* The generator or compiler reads its inputs.
ReadInputs(t) ==
  /\ st[t] \in {"read", "retry"} /\ CanRead(t)
  /\ snap' = [snap EXCEPT ![t] = [f \in Reads[t] |-> Content(f)]]
  /\ Step(t, IF st[t] = "read" THEN "put" ELSE "put_again")
  /\ UNCHANGED <<fileVars, make, goal, setup, result, edits, makes, histVars>>

\* A shell that opens the wrapper script while another job has it truncated does
\* nothing and exits 0: protoc writes no file.
EmptyWrapper(t) ==
  /\ st[t] = "read" /\ FirstStep(t) = "wrap" /\ wrapper = "empty"
  /\ Step(t, "touch")
  /\ skipped' = skipped \cup {t}
  /\ UNCHANGED <<fileVars, make, goal, setup, snap, result, edits, makes, quiet, remade, raced,
                 cut, fresh>>

\* The recipe's result is in place; a target that is a file of its own is done.
PutOutput(t) ==
  /\ st[t] \in Putting
  /\ there' = [there EXCEPT ![Output(t)] = "whole"]
  /\ used' = [used EXCEPT ![t] = snap[t]]
  /\ snap' = [snap EXCEPT ![t] = <<>>]
  /\ IF t[1] = "stamp" THEN Step(t, "touch") /\ UNCHANGED <<newer, cut>>
     ELSE Step(t, "done") /\ newer' = Written(t) /\ cut' = cut \ {t}
  /\ skipped' = skipped \ {t}
  /\ UNCHANGED <<ver, make, goal, setup, wrapper, result, edits, makes, quiet, remade, raced, fresh>>

\* Mutant of TouchStamp: the rule ends without the touch.
TouchStampForgotten(t) ==
  /\ st[t] = "touch" /\ there[Output(t)] # "absent"
  /\ Step(t, "done")
  /\ UNCHANGED <<fileVars, make, goal, setup, snap, result, edits, makes, histVars>>

\* Every expected output is a file: touch the stamp.
TouchStamp(t) ==
  /\ st[t] = "touch" /\ there[Output(t)] # "absent"
  /\ there' = [there EXCEPT ![t] = "whole"]
  /\ newer' = Written(t)
  /\ Step(t, "done")
  /\ UNCHANGED <<ver, used, make, goal, setup, snap, wrapper, result, edits, makes, histVars>>

\* Mutant of GiveUp: the recipe goes on after a command that failed.
GiveUpIgnored(t) ==
  /\ Step(t, IF t[1] = "stamp" THEN "touch" ELSE "failed")
  /\ make' = IF t[1] = "stamp" THEN make ELSE "stopping"

\* Mutant of GiveUp: the other interpreter is tried as often as it fails.
GiveUpNever(t) ==
  LET again == t[1] = "stamp" /\ setup.mode = "module" IN
  /\ Step(t, IF again THEN "retry" ELSE "failed")
  /\ make' = IF again THEN make ELSE "stopping"

\* The nanopb module is tried once more with the other interpreter; else the
\* recipe fails, and make starts nothing more.
GiveUp(t) ==
  LET again == t[1] = "stamp" /\ setup.mode = "module" /\ st[t] \in {"read", "put"} IN
  /\ Step(t, IF again THEN "retry" ELSE "failed")
  /\ make' = IF again THEN make ELSE "stopping"

\* A linker that fails removes its output, a generator leaves what it wrote.
RecipeFails(t) ==
  /\ \/ /\ \/ st[t] \in {"read", "retry"} /\ ("recipe" \in Faults \/ ~CanRead(t))
           \/ st[t] = "touch" /\ there[Output(t)] = "absent"
        /\ UNCHANGED <<there, newer, cut>>
     \/ /\ st[t] \in Putting /\ "recipe" \in Faults
        /\ there' = [there EXCEPT ![Output(t)] = IF t[1] = "bin" THEN "absent" ELSE "damaged"]
        /\ newer' = CASE t[1] = "stamp" -> newer
                       [] t[1] = "bin" -> [newer EXCEPT ![t] = {}]
                       [] t[1] \in {"cpp", "pbc"} -> Written(t)
        /\ cut' = IF t[1] \in {"cpp", "pbc"} THEN cut \cup {t} ELSE cut
  /\ GiveUp(t)
  /\ snap' = [snap EXCEPT ![t] = <<>>]
  /\ UNCHANGED <<ver, used, goal, setup, wrapper, result, edits, makes, quiet, remade, raced,
                 skipped, fresh>>

Idle ==
  /\ make' = "idle" /\ goal' = "none"
  /\ st' = [t \in Built |-> "todo"]
  /\ remade' = {} /\ quiet' = TRUE

\* make ends: everything asked for is done, or a recipe failed and none runs any more.
EndMake ==
  /\ make # "idle" /\ Running = {}
  /\ \/ /\ make = "running" /\ \A t \in Wanted[goal] : st[t] = "done"
        /\ result' = "success"
        /\ fresh' = IF quiet THEN fresh \cup Wanted[goal] ELSE fresh
     \/ make = "stopping" /\ result' = "failure" /\ UNCHANGED fresh
  /\ Idle
  /\ UNCHANGED <<fileVars, setup, snap, edits, makes, raced, cut, skipped>>

\* Recipes stop where they are.  What one was writing is as it was, or else in the
\* state d: Control-C, and make deletes a target it had begun to write; or a kill,
\* and it stays as it is.
Stop(d) ==
  /\ make # "idle"
  /\ LET putting == {t \in Running : st[t] \in Putting} IN
     \E hit \in SUBSET putting :
       LET after(t) == IF t[1] = "stamp" THEN "damaged" ELSE d
           own == {t \in hit : t[1] # "stamp"} IN
       /\ there' = [f \in Made |->
             IF \E t \in hit : f = Output(t) THEN after(CHOOSE t \in hit : f = Output(t)) ELSE there[f]]
       /\ newer' = [t \in Built |->
             IF t \in own THEN {}
             ELSE IF there[t] = "absent" \/ d = "absent" THEN newer[t]
             ELSE newer[t] \cup (own \cap Prereqs[t])]
       /\ cut' = IF d = "damaged" THEN cut \cup own ELSE cut \ own
  /\ Idle /\ result' = "none"
  /\ snap' = [t \in Built |-> <<>>]
  /\ UNCHANGED <<ver, used, setup, wrapper, edits, makes, raced, skipped, fresh>>
Interrupt == "interrupt" \in Faults /\ Stop("absent")
Kill == "kill" \in Faults /\ Stop("damaged")

-----------------------------------------------------------------------------
\* An editor saves s.
Edit(s) ==
  /\ edits < MaxEdits
  /\ ver' = [ver EXCEPT ![s] = @ + 1]
  /\ newer' = Written(s)
  /\ edits' = edits + 1
  /\ quiet' = (make = "idle")
  /\ raced' = raced \cup {t \in Running : s \in Prereqs[t] /\ st[t] \in Putting \cup {"touch"}}
  /\ fresh' = fresh \ Dependents[s]
  /\ UNCHANGED <<there, used, make, goal, setup, st, snap, wrapper, result, makes, remade, cut, skipped>>

\* make clean removes build/.
Clean ==
  /\ "clean" \in Faults /\ make = "idle"
  /\ there' = [f \in Made |-> "absent"]
  /\ newer' = [t \in Built |-> {}]
  /\ used' = [t \in Built |-> <<>>]
  /\ wrapper' = "absent"
  /\ raced' = {} /\ cut' = {} /\ skipped' = {} /\ fresh' = {}
  /\ UNCHANGED <<ver, make, goal, setup, st, snap, result, edits, makes, quiet, remade>>

MakeStep ==
  \/ \E t \in Built : AlreadyMade(t) \/ StartRecipe(t) \/ WriteWrapper(t) \/ ReadInputs(t)
       \/ EmptyWrapper(t) \/ PutOutput(t) \/ TouchStamp(t) \/ RecipeFails(t)
  \/ EndMake
Environment == (\E s \in Editable : Edit(s)) \/ Interrupt \/ Kill \/ Clean
Ended == make = "idle" /\ makes = MaxMakes /\ UNCHANGED vars
Next == StartMake \/ MakeStep \/ Environment \/ Ended

\* make and its recipes are processes that go on; nobody has to start or edit.
Spec == Init /\ [][Next]_vars /\ WF_vars(MakeStep)
-----------------------------------------------------------------------------
TypeOK ==
  /\ ver \in [Sources -> 0..MaxEdits]
  /\ there \in [Made -> {"absent", "damaged", "whole"}]
  /\ make \in {"idle", "running", "stopping"} /\ goal \in DOMAIN Goals \cup {"none"} /\ setup \in Setups
  /\ st \in [Built -> Active \cup {"todo", "done", "failed"}]
  /\ \A t \in Built : newer[t] \subseteq Prereqs[t]
  /\ remade \subseteq Built /\ raced \subseteq Built /\ cut \subseteq Built
  /\ skipped \subseteq Built /\ fresh \subseteq Built

\* The files a recipe reads that no rule names.
Unnamed(t) ==
  CASE t = <<"bin", Cpp>> -> {<<"helper", "example_utils">>}
    [] t[1] \in {"cpp", "pbc"} -> {<<"proto", m>> : m \in IMPORTS[t[2]]}
    [] OTHER -> {}

\* t's output was made from what the files its recipe reads hold now, those that
\* no rule names left out.
UpToDate(t) ==
  /\ there[Output(t)] = "whole"
  /\ \A f \in Reads[t] \ Unnamed(t) : used[t][f] = Content(f)

\* When make succeeds and nothing was edited meanwhile, everything asked for is up
\* to date, whatever failed, interrupted or edited-during makes came before; except
\* targets one of whose prerequisites was saved while their recipe ran, that a killed
\* or failing recipe left damaged, or whose generator met an empty wrapper, until they
\* are made again.
MakeBringsUpToDate ==
  [][make = "running" /\ make' = "idle" /\ result' = "success" /\ quiet =>
       \A t \in Wanted[goal] \ (raced \cup cut \cup skipped) : UpToDate(t)]_vars

\* A stamp nothing is newer than stands for complete generated files, wherever a
\* generator failed, was interrupted or killed, unless it met an empty wrapper.
StampMeansGenerated ==
  \A t \in Built \ (Running \cup skipped) :
    t[1] = "stamp" /\ ~OutOfDate(t) => there[Output(t)] = "whole"

\* What was made is not made again until something it depends on is edited: make
\* after make does nothing, and an edit costs no more than it has to.
NothingMadeTwice ==
  [][\A t \in Built : t \in remade' \ remade => t \notin fresh]_vars

\* Every generated file a running recipe reads is finished: no other recipe is writing it,
\* and it is complete, whatever failed, was interrupted or killed before; but for what a
\* killed or failing recipe left damaged and a generator with an empty wrapper did not write.
InputsAreWhole ==
  \A t \in Running : \A u \in Built :
    Output(u) \in Reads[t] =>
      /\ u \notin Running \ {t}
      /\ u \notin cut \cup skipped => there[Output(u)] = "whole"

\* Every make ends: no rule waits for itself and no recipe is tried for ever.
MakeEnds == make # "idle" ~> make = "idle"

\* "We always want regeneration even if the output files exist on disk": make c
\* runs protoc-c for every proto.
AlwaysRegenerates ==
  [][goal = "c" /\ make' = "idle" /\ result' = "success"
       => Wanted[goal] \subseteq remade]_vars
=============================================================================
