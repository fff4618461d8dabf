------------------------------ MODULE ShowMessage ------------------------------
(***************************************************************************)
(* One message on its way through the embedded C examples: a writer fills  *)
(* a demo struct and encodes it, or another program sends a message of its *)
(* own; a reader decodes it and prints it as JSON.  The message types and  *)
(* nanopb are in GeisaMessages, the writers' structs in DemoMessages, the  *)
(* readers' output in MessagePrinters; how the bytes get from one to the   *)
(* other is PayloadExchange.                                               *)
(***************************************************************************)
EXTENDS MessagePrinters, DemoMessages, JsonText

CONSTANT Sent(_)  \* the messages of a type that other programs may send

VARIABLES
  pc,       \* "start", "filled", "written", "decoded", "shown" or "failed"
  type,     \* the type of the message
  struct,   \* what the writer filled in, once there is a writer
  file,     \* the message as encoded
  message,  \* the message as decoded
  out       \* the tokens printed
vars == <<pc, type, struct, file, message, out>>

NoStruct == Struct(Empty, {}, Empty)

Init ==
  /\ pc = "start"
  /\ type \in Files
  /\ struct = NoStruct
  /\ file = Empty
  /\ message = Empty
  /\ out = <<>>

\* A writer's main: fill_demo_*.
Fill ==
  /\ pc = "start"
  /\ pc' = "filled"
  /\ struct' = DemoOf(type)
  /\ UNCHANGED <<type, file, message, out>>

\* write_message_file.
Write ==
  /\ pc = "filled"
  /\ pc' = "written"
  /\ file' = pb_encode(type, struct)
  /\ UNCHANGED <<type, struct, message, out>>

\* A program outside the repository, perhaps of a later version.
Send ==
  /\ pc = "start"
  /\ pc' = "written"
  /\ \E m \in Sent(type) : file' = m
  /\ UNCHANGED <<type, struct, message, out>>

\* read_message_file, the first half of *_decode_and_print_*_file.
Decode ==
  /\ pc = "written"
  /\ IF pb_decodes(type, file)
     THEN pc' = "decoded" /\ message' = file
     ELSE pc' = "failed" /\ UNCHANGED message
  /\ UNCHANGED <<type, struct, file, out>>

\* The second half.
Show ==
  /\ pc = "decoded"
  /\ pc' = "shown"
  /\ out' = Printed(type, message)
  /\ UNCHANGED <<type, struct, file, message>>

Next == Fill \/ Write \/ Send \/ Decode \/ Show

Spec == Init /\ [][Next]_vars

-----------------------------------------------------------------------------
(***************************************************************************)
(* What a reader ought to show: every field of the message in its place,   *)
(* by the message types and not by the printers.  Where the readers differ *)
(* from that on purpose or by omission, the tables below say so.           *)
(***************************************************************************)
NotShown(reader) ==
  {<<"Metrology", "nominal_phase_angle_deg">>,
   <<"SensorDescriptor", "sensor_subtype">>, <<"SensorDescriptor", "custom_sensor_type">>,
   <<"SensorDescriptor", "manufacturer">>, <<"SensorDescriptor", "model">>,
   <<"SensorDescriptor", "geolocation">>,
   <<"PerPhase", "active_power_micro_w_del">>, <<"System", "active_power_micro_w_del">>,
   <<"Other", "message_version">>, <<"Other", "timestamp_us">>,
   <<"Instantaneous", "temperature_celsius">>, <<"Instantaneous", "phase_n">>,
   <<"Instantaneous", "harmonic">>,
   <<"Summation_Total", "active_energy_micro_wh_sum">>,
   <<"Summation_Total", "reactive_energy_micro_varh_q1_plus_q4">>,
   <<"Summation_Total", "apparent_energy_micro_vah_sum_arithmetic">>}
  \cup IF reader = "Discovery_Rsp" THEN {<<"Status", "details">>} ELSE {}

\* Fields without presence that are left out when they are zero.
OnlyNonZero ==
  {<<"Status", "message">>, <<"Status", "details">>,
   <<"Waveform_Instance", "voltage_filter_lowpass">>,
   <<"Waveform_Instance", "voltage_filter_highpass">>,
   <<"Waveform_Instance", "current_filter_lowpass">>,
   <<"Waveform_Instance", "current_filter_highpass">>,
   <<"AppMessage_Req", "content_type">>, <<"AppMessage_Req", "payload">>,
   <<"AppMessage_Rsp", "status_text">>}

\* Submessages shown, as zeros, even if they were not sent.
ShownAbsent ==
  {"PlatformStatus", "PlatformToAppStatus", "ActuatorGet_Rsp", "ActuatorSet_Rsp"}

Label(T, f) ==
  CASE <<T, f>> = <<"ActuatorStatus", "on">> -> "state"
    [] <<T, f>> = <<"AppMessage_Req", "payload">> -> "payload_hex"
    [] OTHER -> f

\* The enumerators a reader does not know although its headers declare them.
Unnamed(reader, T, f) ==
  CASE f = "code" /\ reader = "Discovery_Rsp" -> StatusCodes \ {"SUCCESS"}
    [] f = "code" /\ reader = "SensorReadings_Rsp" ->
         StatusCodes \ {"SUCCESS", "DATA_STALE", "DATA_UNAVAILABLE"}
    [] f = "sensor_type" -> SensorTypeCodes \ {"TEMPERATURE", "CUSTOM"}
    [] <<T, f>> = <<"Module", "type">> -> {"CUSTOM"}
    [] OTHER -> {}

Nameless(reader, T, f, v) ==
  /\ <<T, f>> \in DOMAIN Enums
  /\ v \notin {Zero} \cup (Enums[<<T, f>>] \ Unnamed(reader, T, f))

\* The unsigned numbers shown as signed ones.
ShownSigned == {"Summation_Total", "Demand_Total", "System"} \X {"timestamp_us"}

\* A value is shown as itself, an enumerator without a name as the zero one, a phase as
\* unknown, and a device as a coprocessor card.
ShownAs(reader, T, f, v) ==
  IF <<T, f>> \in ShownSigned /\ v = Big THEN "negative"
  ELSE IF ~Nameless(reader, T, f, v) THEN v
  ELSE CASE <<T, f>> = <<"Module", "type">> -> "COPROCESSOR_CARD"
         [] <<T, f>> = <<"PerPhase", "phase">> -> "PHASE_UNKNOWN"
         [] OTHER -> Zero

\* What is shown where nothing was sent, or in another place than it was sent.
Instead(T, m, p) ==
  CASE T = "SensorValue" /\ m = Empty -> {<<Append(p, "unset"), "true">>}
    [] T = "Device" /\ ~Has(m, "top_module") -> {<<Append(p, "top_module"), "null">>}
    [] T = "Instantaneous" /\ Has(Sub(m, "harmonic"), "phase_a_harmonics") ->
         LET harmonics == Sub(m.harmonic, "phase_a_harmonics")
             here == Append(p, "phase_a_harmonics")
             Count(f) == ToString(Len(Items(harmonics, f)))
         IN {<<here, "{">>,
             <<Append(here, "voltage_harmonic_count"), Count("voltage_harmonic_micro_v")>>,
             <<Append(here, "current_harmonic_count"), Count("current_harmonic_micro_a")>>}
    [] OTHER -> {}

ShowsScalar(T, m, f) ==
  CASE <<T, f>> = <<"ActuatorStatus", "position">> -> Has(m, "position_present")
    [] <<T, f>> \in OnlyNonZero \/ f \in Types[T].optional -> Has(m, f)
    [] OTHER -> TRUE

ShowsSub(T, m, f) ==
  IF f = "metadata" THEN Has(Sub(m, f), "measurement_period_s")
  ELSE Has(m, f) \/ T \in ShownAbsent

RECURSIVE Rendered(_, _, _, _)
Rendered(reader, T, m, p) ==
  LET ty == Types[T]
      Seen(fs) == {f \in fs : <<T, f>> \notin NotShown(reader)}
      At(f) == Append(p, Label(T, f))
      Scalar(f) == <<At(f), ShownAs(reader, T, f, Get(m, f))>>
      Part(f) == Rendered(reader, ty.sub[f], Sub(m, f), At(f))
      Array(f) ==
        {<<At(f), "[">>}
          \cup UNION {Rendered(reader, ty.many[f], m[f][i], Append(At(f), ToString(i)))
                        : i \in DOMAIN Items(m, f)}
  IN {<<p, "{">>}
       \cup {Scalar(f) : f \in {g \in Seen(ty.plain \cup ty.optional) :
                                  ShowsScalar(T, m, g)}}
       \cup UNION {Part(f) : f \in {g \in Seen(DOMAIN ty.sub) : ShowsSub(T, m, g)}}
       \cup UNION {Array(f) : f \in Seen(DOMAIN ty.many)}
       \cup Instead(T, m, p)

\* The object around all but the metered quantities, whatever its name.
Envelope(tokens) ==
  IF type \in {"Instantaneous", "Billing"} THEN <<>> ELSE Read(tokens).leaves[2][1]

\* A discovery response without a status, but with something after it.
Headless ==
  /\ type = "Discovery_Rsp"
  /\ ~Has(message, "status")
  /\ message # Empty

\* Among what is shown, a NaN or an infinity, or a string with a control character.
Unwritable ==
  \E leaf \in Rendered(type, type, message, <<>>) : leaf[2] \in {NaN, Control}

-----------------------------------------------------------------------------
(***************************************************************************)
(* Whatever message a reader decodes - fields absent or zero, arrays empty *)
(* or full, enumerators it has never heard of, strings with quotes in them *)
(* - its output is one JSON document with no name twice in an object: the  *)
(* commas, which each printer places by what it knows to come before, fit  *)
(* together.  The exceptions are the discovery response without a status,  *)
(* whose printer begins the object with a comma, and the numbers and       *)
(* characters that the printers pass on although JSON has no form for them.*)
(***************************************************************************)
OutputIsJson == pc = "shown" => (IsDocument(out) <=> ~Headless /\ ~Unwritable)

(***************************************************************************)
(* The document says what the message says: every field where its type     *)
(* puts it, with its value (a double to the digits kept), nothing that was *)
(* not sent and nothing twice, up to the tables above.  In particular no   *)
(* printer takes a value from a sibling, no presence flag guards a field   *)
(* other than its own, and no unsigned number is taken for a signed one    *)
(* but those of ShownSigned.                                               *)
(***************************************************************************)
ShowsTheMessage ==
  pc = "shown" /\ IsDocument(out) =>
    Says(out) = {<< <<>>, "{">>} \cup Rendered(type, type, message, Envelope(out))

\* A demo struct as its writer means it: all that was assigned, flags and counts aside.
RECURSIVE AsAssigned(_, _)
AsAssigned(T, s) ==
  LET ty == Types[T]
      meant == {f \in DOMAIN s.assigned : f \in ty.plain => s.assigned[f] # Zero}
  IN [f \in meant |->
        CASE f \in DOMAIN ty.sub -> AsAssigned(ty.sub[f], s.assigned[f])
          [] f \in DOMAIN ty.many ->
               [i \in DOMAIN s.assigned[f] |-> AsAssigned(ty.many[f], s.assigned[f][i])]
          [] OTHER -> s.assigned[f]]

(***************************************************************************)
(* A demo message arrives whole: what a writer assigned is what a reader   *)
(* decodes.  nanopb drops without a sign a field whose has_ flag was       *)
(* forgotten and the elements an array's count does not reach, and the     *)
(* reader rejects an array longer than its options allow.                  *)
(***************************************************************************)
DemoArrives ==
  struct # NoStruct =>
    /\ pc # "failed"
    /\ pc \in {"decoded", "shown"} => message = AsAssigned(type, struct)
=============================================================================
