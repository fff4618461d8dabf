--------------------------- MODULE MessagePrinters ---------------------------
(***************************************************************************)
(* What the readers of the embedded C examples print of a decoded message: *)
(* the print_* functions of the helpers and the second half of every       *)
(* *_decode_and_print_*_file, as the sequence of JSON tokens they write.   *)
(*                                                                         *)
(* A token is a tuple: a bracket or a comma, <<"name", n>> for a member's  *)
(* name with its colon, <<"value", v>> for a string, number, boolean or    *)
(* null.  A printed name is the C field's with '-' for '_'; the models     *)
(* keep the C spelling, and other names are written as the code does.  How *)
(* many digits of a double are printed does not matter here.  An integer   *)
(* keeps its value where the printf's conversion has its type's sign, as   *)
(* %u, %llu, %d, %ld and %lld have everywhere but in LongLong below.       *)
(***************************************************************************)
EXTENDS GeisaMessages

Key(n) == << <<"name", n>> >>

Value(v) == << <<"value", v>> >>

\* Quotes, backslashes, \n, \r and \t are escaped, any other character is put as it is.
Escaped(s) == IF s = Quotes THEN "escaped quotes" ELSE s

Text(s) == Value(Escaped(s))

Comma == << <<",">> >>

Braces(ts) == << <<"{">> >> \o ts \o << <<"}">> >>

\* A member that is not the first of its object: fputs(",\"n\":", stdout) and ts.
Then(n, ts) == Comma \o Key(n) \o ts

\* The members of the fields fs, each led by a comma: always, and if they are there.
ThenAll(m, fs) ==
  FlattenSeq([i \in DOMAIN fs |-> Then(fs[i], Value(Get(m, fs[i])))])

ThenIf(m, f, ts) == IF Has(m, f) THEN Then(f, ts) ELSE <<>>

ThenPresent(m, fs) ==
  FlattenSeq([i \in DOMAIN fs |-> ThenIf(m, fs[i], Value(Get(m, fs[i])))])

\* The same for strings.
ThenTexts(m, fs) ==
  FlattenSeq([i \in DOMAIN fs |-> Then(fs[i], Text(Get(m, fs[i])))])

ThenPresentTexts(m, fs) ==
  FlattenSeq([i \in DOMAIN fs |-> ThenIf(m, fs[i], Text(Get(m, fs[i])))])

\* The loops over an array, a comma before every element but the first.
CommaBefore(i) == IF i > 1 THEN Comma ELSE <<>>

Each(ms, Show(_)) == [i \in DOMAIN ms |-> Show(ms[i])]

Brackets(elements) ==
  << <<"[">> >> \o FlattenSeq([i \in DOMAIN elements |-> CommaBefore(i) \o elements[i]])
    \o << <<"]">> >>

\* An enumerator's name, or the switch's default.
Named(e, known, default) == IF e \in known THEN e ELSE default

-----------------------------------------------------------------------------
discovery_status_code_name(code) == Named(code, {"SUCCESS"}, Zero)

discovery_device_type_name(type) ==
  Named(type, {Zero, "COMPUTE_CARD", "NETWORK_CARD", "METROLOGY_PROCESSOR"},
        "COPROCESSOR_CARD")

discovery_network_class_name(value) ==
  Named(value, {"OPERATOR", "INTERNET", "LOCAL", "OTHER"}, Zero)

discovery_network_owner_name(value) ==
  Named(value, {"OPERATOR", "CONSUMER", "THIRD_PARTY", "SHARED", "OTHER"}, Zero)

discovery_network_technology_name(value) ==
  Named(value, {"RF_MESH", "CELLULAR", "ETHERNET", "FIBER", "WIFI", "OTHER"}, Zero)

discovery_sensor_type_name(type) == Named(type, {"TEMPERATURE", "CUSTOM"}, Zero)

discovery_waveform_sample_type_name(value) ==
  Named(value, {"INT16", "INT32", "FLOAT32", "FLOAT64"}, Zero)

print_discovery_status_json(status) ==
  Braces(Key("code") \o Value(discovery_status_code_name(Get(status, "code")))
           \o ThenPresentTexts(status, <<"message">>))

print_discovery_module_json(module) ==
  Braces(Key("type") \o Value(discovery_device_type_name(Get(module, "type")))
           \o ThenTexts(module, <<"manufacturer", "model", "serial_number",
                                  "hw_revision", "fw_revision">>))

print_discovery_sensor_descriptor_json(sensor) ==
  Braces(Key("sensor_id") \o Text(Get(sensor, "sensor_id"))
           \o Then("sensor_type",
                   Value(discovery_sensor_type_name(Get(sensor, "sensor_type"))))
           \o ThenPresentTexts(sensor, <<"name", "description">>)
           \o ThenTexts(sensor, <<"unit">>)
           \o ThenAll(sensor, <<"supports_read", "supports_publish">>)
           \o ThenPresent(sensor, <<"min_report_period_ms", "max_report_period_ms">>))

print_discovery_network_json(network) ==
  Braces(Key("interface_id") \o Text(Get(network, "interface_id"))
           \o Then("network_class",
                   Value(discovery_network_class_name(Get(network, "network_class"))))
           \o Then("owner", Value(discovery_network_owner_name(Get(network, "owner"))))
           \o Then("technology",
                   Value(discovery_network_technology_name(Get(network, "technology"))))
           \o ThenAll(network, <<"supports_ipv4", "supports_ipv6">>)
           \o ThenPresentTexts(network, <<"name", "description">>))

print_discovery_waveform_json(stream) ==
  Braces(Key("stream_id") \o Text(Get(stream, "stream_id"))
           \o ThenTexts(stream, <<"name", "description">>)
           \o Then("sample_type",
                   Value(discovery_waveform_sample_type_name(Get(stream, "sample_type"))))
           \o ThenAll(stream,
                <<"voltage_scale", "current_scale", "voltage_channel_count",
                  "current_channel_count", "other_channel_count", "total_channel_count",
                  "cycle_aligned", "zero_crossing_aligned", "sample_rate_hz",
                  "samples_per_cycle", "nominal_frequency_hz",
                  "expected_frame_period_ms">>)
           \o ThenPresent(stream,
                <<"voltage_filter_lowpass", "voltage_filter_highpass",
                  "current_filter_lowpass", "current_filter_highpass">>))

discovery_print_request(message) == Braces(Key("geisa_platform_discovery_req") \o Braces(<<>>))

\* Of the response, the members that are printf's and loops in the function itself.
DiscoveryGeisa(geisa) ==
  Braces(Key("ver_major") \o Value(Get(geisa, "ver_major"))
           \o ThenAll(geisa, <<"ver_minor", "ver_rev", "pillar_adm", "pillar_api",
                               "pillar_lee", "pillar_vee">>))

DiscoveryDevice(device) ==
  Braces(Key("top_module")
           \o (IF Has(device, "top_module")
               THEN print_discovery_module_json(Sub(device, "top_module"))
               ELSE Value("null"))
           \o Then("sub_module", Brackets(Each(Items(device, "sub_module"),
                                               print_discovery_module_json))))

DiscoveryOperator(operator) ==
  Braces(Key("operator_name") \o Text(Get(operator, "operator_name"))
           \o ThenTexts(operator, <<"operator_identifier">>))

DiscoveryMetrology(metrology) ==
  Braces(Key("meter_rating_class") \o Text(Get(metrology, "meter_rating_class"))
           \o ThenTexts(metrology, <<"meter_form">>)
           \o ThenAll(metrology,
                <<"phase_count", "neutral_connected",
                  "nominal_frequency_hz", "nominal_phase_to_phase_voltage_v",
                  "nominal_phase_to_neutral_voltage_v">>))

DiscoveryArray(f, elements) == Braces(Key(f) \o Brackets(elements))

discovery_print_response(message) ==
  LET Member(f, Show(_)) == ThenIf(message, f, Show(Sub(message, f)))
      Sensors(m) == DiscoveryArray("sensors",
        Each(Items(m, "sensors"), print_discovery_sensor_descriptor_json))
      Interfaces(m) == DiscoveryArray("interfaces",
        Each(Items(m, "interfaces"), print_discovery_network_json))
      Streams(m) == DiscoveryArray("streams",
        Each(Items(m, "streams"), print_discovery_waveform_json))
      status == IF Has(message, "status")
                THEN Key("status") \o print_discovery_status_json(Sub(message, "status"))
                ELSE <<>>
  IN Braces(Key("geisa_platform_discovery_rsp")
       \o Braces(status \o Member("geisa", DiscoveryGeisa)
                   \o Member("device", DiscoveryDevice)
                   \o Member("operator", DiscoveryOperator)
                   \o Member("metrology", DiscoveryMetrology)
                   \o Member("sensor", Sensors)
                   \o Member("network", Interfaces)
                   \o Member("waveform", Streams)))

-----------------------------------------------------------------------------
sensor_status_code_name(code) ==
  Named(code, {"SUCCESS", "DATA_STALE", "DATA_UNAVAILABLE"}, Zero)

print_sensor_status_json(status) ==
  Braces(Key("code") \o Value(sensor_status_code_name(Get(status, "code")))
           \o ThenPresentTexts(status, <<"message", "details">>))

\* which_value is the tag of the oneof's one member, or 0.
print_sensor_value_json(value) ==
  LET which == {f \in {"double_value", "int64_value", "bool_value", "string_value"} :
                  Has(value, f)}
  IN Braces(IF which = {} THEN Key("unset") \o Value("true")
            ELSE LET f == CHOOSE f \in which : TRUE
                 IN Key(f) \o (IF f = "string_value" THEN Text(Get(value, f))
                             ELSE Value(Get(value, f))))

\* Mutant of print_sensor_reading_json: the quality is guarded by the unit's flag.
print_sensor_reading_json_WrongFlag(reading) ==
  Braces(Key("sensor_id") \o Text(Get(reading, "sensor_id"))
           \o ThenAll(reading, <<"timestamp_ms">>)
           \o Then("values", Brackets(Each(Items(reading, "values"), print_sensor_value_json)))
           \o (IF Has(reading, "unit") THEN ThenTexts(reading, <<"unit", "quality">>)
               ELSE <<>>)
           \o ThenPresentTexts(reading, <<"status">>))

print_sensor_reading_json(reading) ==
  Braces(Key("sensor_id") \o Text(Get(reading, "sensor_id"))
           \o ThenAll(reading, <<"timestamp_ms">>)
           \o Then("values", Brackets(Each(Items(reading, "values"), print_sensor_value_json)))
           \o ThenPresentTexts(reading, <<"unit", "quality", "status">>))

sensor_print_response(message) ==
  LET status == IF Has(message, "status")
                THEN Key("status") \o print_sensor_status_json(Sub(message, "status"))
                       \o Comma
                ELSE <<>>
  IN Braces(Key("geisa_sensor_readings_rsp")
       \o Braces(status \o Key("readings")
                   \o Brackets(Each(Items(message, "readings"), print_sensor_reading_json))))

-----------------------------------------------------------------------------
conn_status_state_name(state) == Named(state, {"ENABLED_DOWN", "ENABLED_UP"}, Zero)

conn_status_policy_name(policy) == Named(policy, {"METERED", "UNLIMITED"}, Zero)

platform_mode_name(mode) == Named(mode, {"UNPROVISIONED", "MANUFACTURING", "TEST"}, Zero)

app_to_platform_status_type_name(type) ==
  Named(type, {"CLEARED_PII", "SHUTTING_DOWN", "NEED_TERMINATE_RESTART",
               "NEED_TERMINATE_NORESTART"}, Zero)

print_conn_info_json(info) ==
  Braces(Key("state") \o Value(conn_status_state_name(Get(info, "state")))
           \o ThenAll(info, <<"ipv4", "ipv6", "realtime">>))

print_conn_app_msg_json(message) ==
  Braces(Key("yesterday_used") \o Value(Get(message, "yesterday_used"))
           \o ThenAll(message, <<"today_used", "today_limit", "today_remaining",
                                 "next_daily_reset_ms">>))

print_conn_app_info_json(info) ==
  Braces(Key("policy") \o Value(conn_status_policy_name(Get(info, "policy")))
           \o ThenAll(info, <<"yesterday_used_unlimited", "yesterday_used_metered",
                              "today_used_unlimited", "today_used_metered",
                              "today_limit_metered", "today_remaining_metered",
                              "next_daily_reset_ms">>))

\* The submessages are printed whether they were sent or not.
conn_status_print_platform_status(message) ==
  LET Info(f) == Then(f, print_conn_info_json(Sub(message, f)))
  IN Braces(Key("geisa_platform_status")
       \o Braces(Key("timestamp_ms") \o Value(Get(message, "timestamp_ms")) \o Comma
                   \o Key("mode") \o Value(platform_mode_name(Get(message, "mode")))
                   \o Then("conn_msg",
                           Value(conn_status_state_name(Get(message, "conn_msg"))))
                   \o Info("conn_oper") \o Info("conn_inet") \o Info("conn_local")
                   \o ThenAll(message,
                        <<"sys_over_temp", "sys_high_cpu", "sys_low_mem",
                          "sys_power_degraded", "sys_power_loss", "sys_reboot_soon",
                          "sys_shutdown_soon">>)))

conn_status_print_platform_to_app(message) ==
  LET Info(f) == Then(f, print_conn_app_info_json(Sub(message, f)))
  IN Braces(Key("geisa_platform_to_app_status")
       \o Braces(Key("cmd_send_status") \o Value(Get(message, "cmd_send_status"))
                   \o ThenAll(message,
                        <<"cmd_shut_down", "cmd_clear_pii", "timestamp_ms", "cpu_usage",
                          "cpu_limit", "memory_usage", "memory_limit",
                          "persist_storage_usage", "persist_storage_limit",
                          "nonpersist_storage_usage", "nonpersist_storage_limit">>)
                   \o Then("conn_msg", print_conn_app_msg_json(Sub(message, "conn_msg")))
                   \o Info("conn_oper") \o Info("conn_inet") \o Info("conn_local")))

conn_status_print_app_to_platform(message) ==
  Braces(Key("geisa_app_to_platform_status")
    \o Braces(Key("type")
                \o Value(app_to_platform_status_type_name(Get(message, "type")))
                \o ThenAll(message, <<"next_status", "next_status_timeout">>)))

-----------------------------------------------------------------------------
geisa_status_code_name(code) ==
  Named(code, {"SUCCESS", "REQUEST_BAD_REQUEST", "REQUEST_INVALID_ARGUMENT",
               "REQUEST_MALFORMED_PAYLOAD", "REQUEST_DUPLICATE_TARGET",
               "REQUEST_OUT_OF_RANGE", "REQUEST_UNSUPPORTED", "AUTH_UNAUTHORIZED",
               "AUTH_FORBIDDEN", "RESOURCE_NOT_FOUND", "RESOURCE_BUSY",
               "RESOURCE_CONFLICT", "RESOURCE_NO_RESOURCES", "RESOURCE_RATE_LIMITED",
               "EXEC_TIMEOUT", "EXEC_NOT_SUPPORTED", "EXEC_PLATFORM_ERROR",
               "EXEC_INTERNAL_ERROR", "EXEC_PARTIAL_FAILURE", "DATA_UNAVAILABLE",
               "DATA_STALE"}, Zero)

geisa_actuator_name(value) ==
  Named(value, {"SERVICE_SWITCH", "DER_SWITCH", "LC_RELAY_0", "LC_RELAY_1",
                "LC_RELAY_2", "LC_RELAY_3"}, Zero)

geisa_onoff_name(value) == Named(value, {"ON", "OFF"}, Zero)

print_geisa_status_json_c(status) ==
  Braces(Key("code") \o Value(geisa_status_code_name(Get(status, "code")))
           \o ThenPresentTexts(status, <<"message", "details">>))

print_actuator_status_json(status) ==
  Braces(Key("actuator") \o Value(geisa_actuator_name(Get(status, "actuator")))
           \o Then("state", Value(geisa_onoff_name(Get(status, "on"))))
           \o ThenAll(status, <<"position_present">>)
           \o (IF Has(status, "position_present")
               THEN ThenAll(status, <<"position">>) ELSE <<>>))

actuator_print_get_req(message) ==
  Braces(Key("geisa_actuator_get_req")
    \o Braces(Key("actuator") \o Value(geisa_actuator_name(Get(message, "actuator")))))

actuator_print_get_rsp(message) ==
  Braces(Key("geisa_actuator_get_rsp")
    \o Braces(Key("status") \o print_geisa_status_json_c(Sub(message, "status"))
                \o Then("actuator_status",
                        print_actuator_status_json(Sub(message, "actuator_status")))))

actuator_print_set_req(message) ==
  Braces(Key("geisa_actuator_set_req")
    \o Braces(Key("new_settings")
                \o Brackets(Each(Items(message, "new_settings"), print_actuator_status_json))))

actuator_print_set_rsp(message) ==
  Braces(Key("geisa_actuator_set_rsp")
    \o Braces(Key("status") \o print_geisa_status_json_c(Sub(message, "status"))))

-----------------------------------------------------------------------------
geisa_app_message_priority_name(value) ==
  Named(value, {"URGENT", "IMMEDIATE", "BEST_EFFORT", "LATEST"}, Zero)

geisa_app_message_type_name(value) ==
  Named(value, {"CONFIG", "COMMAND", "COMMAND_RESULT", "STATUS", "EVENT", "ALARM",
                "APP_DATA", "TELEMETRY"}, Zero)

geisa_app_message_status_name(value) ==
  Named(value, {"ACCEPTED", "REJECTED", "PERMISSION_DENIED", "QUOTA_EXCEEDED",
                "UNAVAILABLE", "EXPIRED", "OTHER"}, Zero)

app_message_print_req(message) ==
  Braces(Key("geisa_app_message_req")
    \o Braces(Key("request_id") \o Text(Get(message, "request_id"))
         \o Then("priority",
                 Value(geisa_app_message_priority_name(Get(message, "priority"))))
         \o Then("message_type",
                 Value(geisa_app_message_type_name(Get(message, "message_type"))))
         \o ThenAll(message, <<"timestamp_ms", "ttl_seconds">>)
         \o ThenPresentTexts(message, <<"content_type">>)
         \o (IF Has(message, "payload")
             THEN Then("payload_hex", Value(Get(message, "payload"))) ELSE <<>>)))

app_message_print_rsp(message) ==
  Braces(Key("geisa_app_message_rsp")
    \o Braces(Key("request_id") \o Text(Get(message, "request_id"))
         \o Then("status", Value(geisa_app_message_status_name(Get(message, "status"))))
         \o ThenAll(message, <<"timestamp_ms">>)
         \o ThenPresentTexts(message, <<"status_text">>)))

-----------------------------------------------------------------------------
(***************************************************************************)
(* The metered quantities decide on each comma by a flag handed from one   *)
(* field to the next: an object under construction is its tokens and that  *)
(* flag.                                                                   *)
(***************************************************************************)
NewObject == [first_field |-> TRUE, tokens |-> <<>>]

\* Mutant of metered_print_json_field: the flag is not lowered.
metered_print_json_field_FlagKept(object, n, ts) ==
  [object EXCEPT !.tokens = @ \o (IF object.first_field THEN <<>> ELSE Comma)
                              \o Key(n) \o ts]

metered_print_json_field(object, n, ts) ==
  [first_field |-> FALSE,
   tokens |-> object.tokens \o (IF object.first_field THEN <<>> ELSE Comma)
                \o Key(n) \o ts]

\* A number as the integer fields print it: cast to long long, whatever its type, for %lld.
LongLong(v) == IF v = Big THEN "negative" ELSE v

Integers(object, m, fs) ==
  FoldLeft(LAMBDA o, f : metered_print_json_field(o, f, Value(LongLong(Get(m, f)))), object, fs)

Present(m, fs) == SelectSeq(fs, LAMBDA f : Has(m, f))

PresentIntegers(object, m, fs) == Integers(object, m, Present(m, fs))

\* The same for doubles.
PresentNumbers(object, m, fs) ==
  FoldLeft(LAMBDA o, f : metered_print_json_field(o, f, Value(Get(m, f))),
           object, Present(m, fs))

metered_phase_name(phase) ==
  Named(phase, {Zero, "PHASE_B", "PHASE_C", "PHASE_N"}, "PHASE_UNKNOWN")

metered_print_metadata_json(object, metadata) ==
  IF ~Has(metadata, "measurement_period_s") THEN object
  ELSE metered_print_json_field(object, "metadata",
         Braces(Key("measurement_period_s")
                  \o Value(Get(metadata, "measurement_period_s"))))

print_harmonic_preview(harmonics) ==
  LET Count(f) == Value(ToString(Len(Items(harmonics, f))))
  IN Braces(Key("voltage_harmonic_count") \o Count("voltage_harmonic_micro_v")
              \o Then("current_harmonic_count", Count("current_harmonic_micro_a")))

MeteredPhase(phase) ==
  LET version == Integers(NewObject, phase, <<"message_version">>)
      named == metered_print_json_field(version, "phase",
                 Value(metered_phase_name(Get(phase, "phase"))))
      measured == PresentIntegers(named, phase,
        <<"current_micro_a", "voltage_micro_v", "active_power_micro_w_sum",
          "reactive_power_micro_var_sum", "apparent_power_micro_va_sum">>)
  IN Braces(PresentNumbers(measured, phase,
       <<"power_factor", "current_angle_deg", "voltage_angle_deg", "current_thd_percent",
         "voltage_thd_percent", "current_tdd_percent">>).tokens)

MeteredSystem(system) ==
  LET stamped == Integers(NewObject, system, <<"message_version", "timestamp_us">>)
      frequency == PresentNumbers(stamped, system, <<"frequency_hz">>)
      powers == PresentIntegers(frequency, system,
        <<"active_power_micro_w_sum", "reactive_power_micro_var_sum",
          "apparent_power_micro_va_sum_arithmetic">>)
  IN Braces(PresentNumbers(powers, system, <<"power_factor_arithmetic">>).tokens)

MeteredOther(other) ==
  Braces(PresentIntegers(NewObject, other,
    <<"neutral_current_imputed_micro_a", "neutral_current_micro_a">>).tokens)

metered_print_instantaneous(instantaneous) ==
  LET Member(f, Show(_)) == ThenIf(instantaneous, f, Show(Sub(instantaneous, f)))
      harmonic == Sub(instantaneous, "harmonic")
  IN Braces(Key("message_version") \o Value(Get(instantaneous, "message_version"))
       \o ThenAll(instantaneous, <<"timestamp_us">>)
       \o ThenPresent(instantaneous, <<"frequency_hz">>)
       \o Member("phase_a", MeteredPhase)
       \o Member("system", MeteredSystem)
       \o Member("other", MeteredOther)
       \o ThenIf(harmonic, "phase_a_harmonics",
                 print_harmonic_preview(Sub(harmonic, "phase_a_harmonics"))))

MeteredSummation(total) ==
  LET stamped == Integers(NewObject, total, <<"message_version", "timestamp_us">>)
      energy == PresentIntegers(stamped, total, <<"active_energy_micro_wh_del">>)
      factors == PresentNumbers(energy, total,
        <<"power_factor_sum_arithmetic", "power_factor_sum_vectorial">>)
  IN Braces(metered_print_metadata_json(factors, Sub(total, "metadata")).tokens)

MeteredMaxDemand(demand) ==
  Braces(Key("max_demand_time_us") \o Value(Get(demand, "max_demand_time_us"))
           \o ThenPresent(demand, <<"quantity">>))

MeteredDemand(total) ==
  LET Demand(object, f) ==
        IF Has(total, f)
        THEN metered_print_json_field(object, f, MeteredMaxDemand(Sub(total, f)))
        ELSE object
      stamped == Integers(NewObject, total, <<"message_version", "timestamp_us">>)
      demands == FoldLeft(Demand, stamped, <<"active_power_micro_w_del",
                                             "active_power_micro_w_sum">>)
  IN Braces(metered_print_metadata_json(demands, Sub(total, "metadata")).tokens)

metered_print_billing(billing) ==
  LET Member(f, Show(_)) == ThenIf(billing, f, Show(Sub(billing, f)))
  IN Braces(Key("message_version") \o Value(Get(billing, "message_version"))
              \o Member("summation_total", MeteredSummation)
              \o Member("demand_total", MeteredDemand))

-----------------------------------------------------------------------------
\* The reader's function for each type of message file.
Printed(T, m) ==
  CASE T = "Discovery_Req" -> discovery_print_request(m)
    [] T = "Discovery_Rsp" -> discovery_print_response(m)
    [] T = "SensorReadings_Rsp" -> sensor_print_response(m)
    [] T = "PlatformStatus" -> conn_status_print_platform_status(m)
    [] T = "PlatformToAppStatus" -> conn_status_print_platform_to_app(m)
    [] T = "AppToPlatformStatus" -> conn_status_print_app_to_platform(m)
    [] T = "ActuatorGet_Req" -> actuator_print_get_req(m)
    [] T = "ActuatorGet_Rsp" -> actuator_print_get_rsp(m)
    [] T = "ActuatorSet_Req" -> actuator_print_set_req(m)
    [] T = "ActuatorSet_Rsp" -> actuator_print_set_rsp(m)
    [] T = "AppMessage_Req" -> app_message_print_req(m)
    [] T = "AppMessage_Rsp" -> app_message_print_rsp(m)
    [] T = "Instantaneous" -> metered_print_instantaneous(m)
    [] T = "Billing" -> metered_print_billing(m)

Files == {"Discovery_Req", "Discovery_Rsp", "SensorReadings_Rsp", "PlatformStatus",
          "PlatformToAppStatus", "AppToPlatformStatus", "ActuatorGet_Req",
          "ActuatorGet_Rsp", "ActuatorSet_Req", "ActuatorSet_Rsp", "AppMessage_Req",
          "AppMessage_Rsp", "Instantaneous", "Billing"}
=============================================================================
