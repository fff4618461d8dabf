--------------------------- MODULE MCExampleBuild ---------------------------
(* Instances of ExampleBuild for TLC.                                       *)
EXTENDS ExampleBuild, TLC

\* make of discovery-c or sensor-c with a program of the family, or of the C++ program:
\* two chains of stamps that share one, and two files no rule names.
BuildGoals ==
  [discovery |-> {<<"bin", "discovery_read_example">>}
                 \cup {<<"stamp", m>> : m \in FAMILY_MODULES.discovery},
   sensor |-> {<<"bin", "sensor_read_example">>}
              \cup {<<"stamp", m>> : m \in FAMILY_MODULES.sensor},
   cpp |-> {<<"bin", Cpp>>}]
BuildSetups == {[mode |-> "module", jobs |-> 1], [mode |-> "plugin", jobs |-> 2]}
BuildEditable == {<<"proto", "status">>, <<"options", "sensor">>, <<"helper", "nanopb">>}

\* make c, for two protos.
CGoals == [c |-> {<<"pbc", "status">>, <<"pbc", "sensor">>}]
CSetups == {[mode |-> "module", jobs |-> 1]}
=============================================================================
