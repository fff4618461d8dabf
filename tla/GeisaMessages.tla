---------------------------- MODULE GeisaMessages ----------------------------
(***************************************************************************)
(* The messages the embedded C examples exchange, as their .proto files    *)
(* declare them, and what nanopb does with them.                           *)
(*                                                                         *)
(* A message is a function from the fields that were sent to their values: *)
(* a string for a scalar, a message for a submessage, a sequence of        *)
(* messages for a repeated field.  Scalars are compared and never computed *)
(* with, so every zero value (0, false, the empty string, an enumeration's *)
(* first member) is the one string Zero, and an enumerator is its name     *)
(* without the common prefix.  A repeated number is a message of type      *)
(* Number.  Of the metered quantities, whose optional fields run into the  *)
(* hundreds, the types keep those the examples assign or print.            *)
(***************************************************************************)
EXTENDS Naturals, Sequences, TLC, SequencesExt

Zero == "0"

\* A string with a quote (or a backslash, or a line break or tab), one with another
\* control character, the numbers a double can be that JSON has no form for, and the
\* numbers of a uint64 that an int64 cannot hold.
Quotes == "quotes"
Control == "control character"
NaN == "nan"
Big == "2^63 or more"

Empty == [f \in {} |-> Zero]

(***************************************************************************)
(* A message type: the fields without presence, the fields with it (a      *)
(* oneof's are such), the submessages and the repeated fields, the last    *)
(* two with the type of what they hold.                                    *)
(***************************************************************************)
Message(plain, optional, sub, many) ==
  [plain |-> plain, optional |-> optional, sub |-> sub, many |-> many]

Flat(plain) == Message(plain, {}, Empty, Empty)

StatusTypes ==
  "Status" :> Flat({"code", "message", "details"})

PlatformTypes ==
     "Discovery_GEISA" :> Flat({"ver_major", "ver_minor", "ver_rev", "pillar_adm",
                                "pillar_api", "pillar_lee", "pillar_vee"})
  @@ "Module" :> Flat({"type", "manufacturer", "model", "serial_number",
                       "hw_revision", "fw_revision"})
  @@ "Device" :> Message({}, {}, "top_module" :> "Module", "sub_module" :> "Module")
  @@ "Operator" :> Flat({"operator_name", "operator_identifier"})
  @@ "Metrology" :> Flat({"meter_rating_class", "meter_form", "phase_count",
                          "neutral_connected", "nominal_phase_angle_deg",
                          "nominal_frequency_hz", "nominal_phase_to_phase_voltage_v",
                          "nominal_phase_to_neutral_voltage_v"})
  @@ "Sensor" :> Message({}, {}, Empty, "sensors" :> "SensorDescriptor")

DiscoveryTypes ==
     "Network_Instance" :> Message({"interface_id", "network_class", "owner",
                                    "technology", "supports_ipv4", "supports_ipv6"},
                                   {"name", "description"}, Empty, Empty)
  @@ "Network" :> Message({}, {}, Empty, "interfaces" :> "Network_Instance")
  @@ "Waveform_Instance" :>
       Flat({"stream_id", "name", "description", "sample_type", "voltage_scale",
             "current_scale", "voltage_channel_count", "current_channel_count",
             "other_channel_count", "total_channel_count", "cycle_aligned",
             "zero_crossing_aligned", "sample_rate_hz", "samples_per_cycle",
             "nominal_frequency_hz", "expected_frame_period_ms",
             "voltage_filter_lowpass", "voltage_filter_highpass",
             "current_filter_lowpass", "current_filter_highpass"})
  @@ "Waveform" :> Message({}, {}, Empty, "streams" :> "Waveform_Instance")
  @@ "Discovery_Req" :> Flat({})
  @@ "Discovery_Rsp" :>
       Message({}, {}, [status |-> "Status", geisa |-> "Discovery_GEISA",
                        device |-> "Device", operator |-> "Operator",
                        metrology |-> "Metrology", sensor |-> "Sensor",
                        network |-> "Network", waveform |-> "Waveform"], Empty)

SensorTypes ==
     "SensorDescriptor" :>
       Message({"sensor_id", "sensor_type", "unit", "supports_read", "supports_publish"},
               {"sensor_subtype", "custom_sensor_type", "name", "description",
                "manufacturer", "model", "min_report_period_ms",
                "max_report_period_ms"}, "geolocation" :> "Geolocation", Empty)
  @@ "Geolocation" :> Message({"latitude", "longitude"}, {"altitude_m"}, Empty, Empty)
  @@ "SensorValue" :> Message({}, {"double_value", "int64_value", "bool_value",
                                   "string_value"}, Empty, Empty)
  @@ "SensorReading" :> Message({"sensor_id", "timestamp_ms"},
                                {"unit", "quality", "status"}, Empty,
                                "values" :> "SensorValue")
  @@ "SensorReadings_Rsp" :> Message({}, {}, "status" :> "Status",
                                     "readings" :> "SensorReading")

ConnTypes ==
     "ConnInfo" :> Flat({"state", "ipv4", "ipv6", "realtime"})
  @@ "ConnAppMsg" :> Flat({"yesterday_used", "today_used", "today_limit",
                           "today_remaining", "next_daily_reset_ms"})
  @@ "ConnAppInfo" :> Flat({"policy", "yesterday_used_unlimited",
                            "yesterday_used_metered", "today_used_unlimited",
                            "today_used_metered", "today_limit_metered",
                            "today_remaining_metered", "next_daily_reset_ms"})
  @@ "PlatformStatus" :>
       Message({"timestamp_ms", "mode", "conn_msg", "sys_over_temp", "sys_high_cpu",
                "sys_low_mem", "sys_power_degraded", "sys_power_loss",
                "sys_reboot_soon", "sys_shutdown_soon"}, {},
               [conn_oper |-> "ConnInfo", conn_inet |-> "ConnInfo",
                conn_local |-> "ConnInfo"], Empty)
  @@ "PlatformToAppStatus" :>
       Message({"cmd_send_status", "cmd_shut_down", "cmd_clear_pii", "timestamp_ms",
                "cpu_usage", "cpu_limit", "memory_usage", "memory_limit",
                "persist_storage_usage", "persist_storage_limit",
                "nonpersist_storage_usage", "nonpersist_storage_limit"}, {},
               [conn_msg |-> "ConnAppMsg", conn_oper |-> "ConnAppInfo",
                conn_inet |-> "ConnAppInfo", conn_local |-> "ConnAppInfo"], Empty)
  @@ "AppToPlatformStatus" :> Flat({"type", "next_status", "next_status_timeout"})

ActuatorTypes ==
     "ActuatorStatus" :> Flat({"actuator", "on", "position_present", "position"})
  @@ "ActuatorSet_Req" :> Message({}, {}, Empty, "new_settings" :> "ActuatorStatus")
  @@ "ActuatorSet_Rsp" :> Message({}, {}, "status" :> "Status", Empty)
  @@ "ActuatorGet_Req" :> Flat({"actuator"})
  @@ "ActuatorGet_Rsp" :> Message({}, {}, [status |-> "Status",
                                           actuator_status |-> "ActuatorStatus"], Empty)

AppMessageTypes ==
     "AppMessage_Req" :> Flat({"request_id", "priority", "message_type",
                               "timestamp_ms", "ttl_seconds", "content_type", "payload"})
  @@ "AppMessage_Rsp" :> Flat({"request_id", "status", "status_text", "timestamp_ms"})

BillingTypes ==
     "Metadata" :> Message({}, {"measurement_period_s"}, Empty, Empty)
  @@ "MaxDemand" :> Message({"max_demand_time_us"}, {"quantity"}, Empty, Empty)
  @@ "Summation_Total" :>
       Message({"message_version", "timestamp_us"},
               {"active_energy_micro_wh_del", "active_energy_micro_wh_sum",
                "reactive_energy_micro_varh_q1_plus_q4",
                "apparent_energy_micro_vah_sum_arithmetic",
                "power_factor_sum_arithmetic", "power_factor_sum_vectorial"},
               "metadata" :> "Metadata", Empty)
  @@ "Demand_Total" :>
       Message({"message_version", "timestamp_us"}, {},
               [active_power_micro_w_del |-> "MaxDemand",
                active_power_micro_w_sum |-> "MaxDemand", metadata |-> "Metadata"], Empty)
  @@ "Billing" :> Message({"message_version"}, {},
                          [summation_total |-> "Summation_Total",
                           demand_total |-> "Demand_Total"], Empty)

InstantaneousTypes ==
     "Number" :> Flat({"n"})
  @@ "System" :>
       Message({"message_version", "timestamp_us"},
               {"frequency_hz", "active_power_micro_w_sum", "active_power_micro_w_del",
                "reactive_power_micro_var_sum", "apparent_power_micro_va_sum_arithmetic",
                "power_factor_arithmetic"}, Empty, Empty)
  @@ "PerPhase" :>
       Message({"message_version", "phase"},
               {"current_micro_a", "voltage_micro_v", "active_power_micro_w_sum",
                "reactive_power_micro_var_sum", "apparent_power_micro_va_sum",
                "active_power_micro_w_del", "power_factor", "current_angle_deg",
                "voltage_angle_deg", "current_thd_percent", "voltage_thd_percent",
                "current_tdd_percent"}, Empty, Empty)
  @@ "Other" :> Message({"message_version", "timestamp_us"},
                        {"neutral_current_imputed_micro_a", "neutral_current_micro_a"},
                        Empty, Empty)
  @@ "Harmonic" :> Message({}, {}, Empty, [voltage_harmonic_micro_v |-> "Number",
                                           current_harmonic_micro_a |-> "Number"])
  @@ "Harmonics" :>
       Message({"message_version", "timestamp_us"},
               {"phase_a_current_harmonic_2nd_micro_a",
                "phase_a_voltage_harmonic_2nd_micro_v"},
               "phase_a_harmonics" :> "Harmonic", Empty)
  @@ "Instantaneous" :>
       Message({"message_version", "timestamp_us"},
               {"frequency_hz", "temperature_celsius"},
               [phase_a |-> "PerPhase", phase_n |-> "PerPhase", other |-> "Other",
                system |-> "System", harmonic |-> "Harmonics"], Empty)

Types == StatusTypes @@ PlatformTypes @@ DiscoveryTypes @@ SensorTypes @@ ConnTypes @@ ActuatorTypes
           @@ AppMessageTypes @@ BillingTypes @@ InstantaneousTypes

\* The types whose optional fields are one oneof, of which at most one is sent.
Oneofs == {"SensorValue"}

(***************************************************************************)
(* The enumerators other than the zero one, by the fields that hold them.  *)
(***************************************************************************)
StatusCodes ==
  {"SUCCESS", "REQUEST_BAD_REQUEST", "REQUEST_INVALID_ARGUMENT",
   "REQUEST_MALFORMED_PAYLOAD", "REQUEST_DUPLICATE_TARGET", "REQUEST_OUT_OF_RANGE",
   "REQUEST_UNSUPPORTED", "AUTH_UNAUTHORIZED", "AUTH_FORBIDDEN", "RESOURCE_NOT_FOUND",
   "RESOURCE_BUSY", "RESOURCE_CONFLICT", "RESOURCE_NO_RESOURCES",
   "RESOURCE_RATE_LIMITED", "EXEC_TIMEOUT", "EXEC_NOT_SUPPORTED", "EXEC_PLATFORM_ERROR",
   "EXEC_INTERNAL_ERROR", "EXEC_PARTIAL_FAILURE", "DATA_UNAVAILABLE", "DATA_STALE"}

DeviceTypes == {"METROLOGY_PROCESSOR", "COMPUTE_CARD", "NETWORK_CARD",
                "COPROCESSOR_CARD", "CUSTOM"}

DiscoveryEnums ==
     <<"Network_Instance", "network_class">> :> {"OPERATOR", "INTERNET", "LOCAL", "OTHER"}
  @@ <<"Network_Instance", "owner">> :> {"OPERATOR", "CONSUMER", "THIRD_PARTY", "SHARED",
                                         "OTHER"}
  @@ <<"Network_Instance", "technology">> :> {"RF_MESH", "CELLULAR", "ETHERNET", "FIBER",
                                              "WIFI", "OTHER"}

SensorTypeCodes ==
  {"TEMPERATURE", "HUMIDITY", "PRESSURE", "VOLTAGE", "CURRENT", "POWER", "ENERGY",
   "CONTACT_STATE", "TAMPER", "TILT", "VIBRATION", "GEOLOCATION", "MICRO_ARC", "SEISMIC",
   "CUSTOM"}

SampleTypes == {"INT16", "INT32", "FLOAT32", "FLOAT64"}

ConnStates == {"ENABLED_DOWN", "ENABLED_UP"}

ConnEnums ==
     <<"ConnInfo", "state">> :> ConnStates
  @@ <<"PlatformStatus", "conn_msg">> :> ConnStates
  @@ <<"ConnAppInfo", "policy">> :> {"METERED", "UNLIMITED"}
  @@ <<"PlatformStatus", "mode">> :> {"UNPROVISIONED", "MANUFACTURING", "TEST"}
  @@ <<"AppToPlatformStatus", "type">> :> {"CLEARED_PII", "SHUTTING_DOWN",
                                           "NEED_TERMINATE_RESTART",
                                           "NEED_TERMINATE_NORESTART"}

ActuatorEnums ==
     <<"ActuatorStatus", "actuator">> :> {"SERVICE_SWITCH", "DER_SWITCH", "LC_RELAY_0",
                                          "LC_RELAY_1", "LC_RELAY_2", "LC_RELAY_3"}
  @@ <<"ActuatorStatus", "on">> :> {"ON", "OFF"}

AppMessageEnums ==
     <<"AppMessage_Req", "priority">> :> {"URGENT", "IMMEDIATE", "BEST_EFFORT", "LATEST"}
  @@ <<"AppMessage_Req", "message_type">> :> {"CONFIG", "COMMAND", "COMMAND_RESULT",
                                              "STATUS", "EVENT", "ALARM", "APP_DATA",
                                              "TELEMETRY"}
  @@ <<"AppMessage_Rsp", "status">> :> {"ACCEPTED", "REJECTED", "PERMISSION_DENIED",
                                        "QUOTA_EXCEEDED", "UNAVAILABLE", "EXPIRED", "OTHER"}

Phases == {"PHASE_B", "PHASE_C", "PHASE_N"}

Enums ==
     <<"Status", "code">> :> StatusCodes
  @@ <<"Module", "type">> :> DeviceTypes
  @@ <<"SensorDescriptor", "sensor_type">> :> SensorTypeCodes
  @@ <<"Waveform_Instance", "sample_type">> :> SampleTypes
  @@ <<"PerPhase", "phase">> :> Phases
  @@ <<"ActuatorGet_Req", "actuator">> :> ActuatorEnums[<<"ActuatorStatus", "actuator">>]
  @@ DiscoveryEnums @@ ConnEnums @@ ActuatorEnums @@ AppMessageEnums

\* The strings, the numbers that are double or float, and those that are uint64.
Texts ==
  ({"Status"} \X {"message", "details"})
  \cup ({"Module"} \X {"manufacturer", "model", "serial_number", "hw_revision",
                        "fw_revision"})
  \cup ({"Operator"} \X {"operator_name", "operator_identifier"})
  \cup ({"Metrology"} \X {"meter_rating_class", "meter_form"})
  \cup ({"Network_Instance"} \X {"interface_id", "name", "description"})
  \cup ({"Waveform_Instance"} \X {"stream_id", "name", "description"})
  \cup ({"SensorDescriptor"} \X {"sensor_id", "sensor_subtype", "custom_sensor_type",
                                  "name", "description", "manufacturer", "model", "unit"})
  \cup {<<"SensorValue", "string_value">>}
  \cup ({"SensorReading"} \X {"sensor_id", "unit", "quality", "status"})
  \cup ({"AppMessage_Req"} \X {"request_id", "content_type"})
  \cup ({"AppMessage_Rsp"} \X {"request_id", "status_text"})

Doubles ==
  ({"Metrology"} \X {"nominal_phase_angle_deg", "nominal_phase_to_phase_voltage_v",
                     "nominal_phase_to_neutral_voltage_v"})
  \cup ({"Waveform_Instance"} \X {"voltage_scale", "current_scale"})
  \cup ({"Geolocation"} \X {"latitude", "longitude", "altitude_m"})
  \cup {<<"SensorValue", "double_value">>, <<"Metadata", "measurement_period_s">>}
  \cup ({"PlatformToAppStatus"} \X {"cpu_usage", "cpu_limit"})
  \cup ({"Summation_Total"} \X {"power_factor_sum_arithmetic",
                                 "power_factor_sum_vectorial"})
  \cup ({"System"} \X {"frequency_hz", "power_factor_arithmetic"})
  \cup ({"PerPhase"} \X {"power_factor", "current_angle_deg", "voltage_angle_deg",
                          "current_thd_percent", "voltage_thd_percent",
                          "current_tdd_percent"})
  \cup ({"Instantaneous"} \X {"frequency_hz", "temperature_celsius"})

Unsigned64 ==
  ({"SensorDescriptor"} \X {"min_report_period_ms", "max_report_period_ms"})
  \cup ({"SensorReading", "PlatformStatus", "PlatformToAppStatus", "AppMessage_Req",
         "AppMessage_Rsp"} \X {"timestamp_ms"})
  \cup {<<"AppMessage_Req", "ttl_seconds">>, <<"ConnAppMsg", "next_daily_reset_ms">>,
        <<"MaxDemand", "max_demand_time_us">>}
  \cup ({"ConnAppInfo"} \X {"yesterday_used_unlimited", "yesterday_used_metered",
                             "today_used_unlimited", "today_used_metered",
                             "today_limit_metered", "today_remaining_metered",
                             "next_daily_reset_ms"})
  \cup ({"Summation_Total", "Demand_Total", "Instantaneous", "System", "Other",
         "Harmonics"} \X {"timestamp_us"})

\* The max_count of nanopb_options: how many elements a C array holds.
MaxCount ==
  [sub_module |-> 4, sensors |-> 8, interfaces |-> 8, streams |-> 4, values |-> 4,
   readings |-> 8, new_settings |-> 4, voltage_harmonic_micro_v |-> 64,
   current_harmonic_micro_a |-> 64]

-----------------------------------------------------------------------------
(***************************************************************************)
(* What a C program sees of a decoded message: has_f (or, of a field       *)
(* without presence, that it is not zero), f, and the count of an array.   *)
(***************************************************************************)
Has(m, f) == f \in DOMAIN m

Get(m, f) == IF Has(m, f) THEN m[f] ELSE Zero

Sub(m, f) == IF Has(m, f) THEN m[f] ELSE Empty

Items(m, f) == IF Has(m, f) THEN m[f] ELSE <<>>

(***************************************************************************)
(* A C struct before it is encoded: what was assigned to its fields, and   *)
(* the presence flags and element counts, which are fields of their own.   *)
(***************************************************************************)
Struct(assigned, has, count) == [assigned |-> assigned, has |-> has, count |-> count]

(***************************************************************************)
(* pb_encode skips a field without presence that is zero, a field with     *)
(* presence whose has_ flag is down, and the elements from count on; what  *)
(* a flag announces and nobody assigned is zero from init_zero.            *)
(***************************************************************************)
RECURSIVE pb_encode(_, _)
pb_encode(T, s) ==
  LET ty == Types[T]
      Flagged(fs) == {f \in fs : f \in s.has}
      sent == {f \in ty.plain \cap DOMAIN s.assigned : s.assigned[f] # Zero}
                \cup Flagged(ty.optional) \cup Flagged(DOMAIN ty.sub)
                \cup {f \in DOMAIN ty.many \cap DOMAIN s.count : s.count[f] > 0}
      InitZero(f) == f \notin DOMAIN s.assigned
  IN [f \in sent |->
        CASE f \in DOMAIN ty.sub ->
               IF InitZero(f) THEN Empty ELSE pb_encode(ty.sub[f], s.assigned[f])
          [] f \in DOMAIN ty.many ->
               [i \in 1 .. s.count[f] |->
                  IF InitZero(f) \/ i > Len(s.assigned[f]) THEN Empty
                  ELSE pb_encode(ty.many[f], s.assigned[f][i])]
          [] OTHER -> IF InitZero(f) THEN Zero ELSE s.assigned[f]]

(***************************************************************************)
(* Whether pb_decode succeeds: it fails on an array that does not fit its  *)
(* C field, at any depth, and otherwise stores the message it was sent.    *)
(***************************************************************************)
RECURSIVE pb_decodes(_, _)
pb_decodes(T, m) ==
  LET ty == Types[T]
  IN /\ \A f \in DOMAIN ty.sub : Has(m, f) => pb_decodes(ty.sub[f], m[f])
     /\ \A f \in DOMAIN ty.many :
          /\ Len(Items(m, f)) <= MaxCount[f]
          /\ \A i \in DOMAIN Items(m, f) : pb_decodes(ty.many[f], m[f][i])
=============================================================================
