----------------------------- MODULE DemoMessages -----------------------------
(***************************************************************************)
(* The messages the writers of the embedded C examples fill in: the        *)
(* fill_demo_* functions, each the struct it leaves behind.  The values    *)
(* are the literals of the code, zero and false as Zero; the texts are     *)
(* shortened.                                                              *)
(***************************************************************************)
EXTENDS GeisaMessages

\* The assignments to a struct with no presence flags and no arrays.
Plain(assigned) == Struct(assigned, {}, Empty)

fill_demo_discovery_req == Plain(Empty)

fill_demo_module(type, manufacturer, model, serial, hardware, firmware) ==
  Plain([type |-> type, manufacturer |-> manufacturer, model |-> model,
         serial_number |-> serial, hw_revision |-> hardware, fw_revision |-> firmware])

\* Mutant of fill_demo_discovery_sensor: one has_ flag is forgotten.
fill_demo_discovery_sensor_FlagForgotten ==
  Struct([sensor_id |-> "board-temp-1", sensor_type |-> "TEMPERATURE",
          name |-> "Board temperature", description |-> "Temperature sensor",
          unit |-> "Cel", supports_read |-> "true", supports_publish |-> "true",
          min_report_period_ms |-> "1000", max_report_period_ms |-> "60000"],
         {"name", "description", "min_report_period_ms"}, Empty)

fill_demo_discovery_sensor ==
  Struct([sensor_id |-> "board-temp-1", sensor_type |-> "TEMPERATURE",
          name |-> "Board temperature", description |-> "Temperature sensor",
          unit |-> "Cel", supports_read |-> "true", supports_publish |-> "true",
          min_report_period_ms |-> "1000", max_report_period_ms |-> "60000"],
         {"name", "description", "min_report_period_ms", "max_report_period_ms"}, Empty)

fill_demo_network(interface_id, network_class, owner, technology, name) ==
  Struct([interface_id |-> interface_id, network_class |-> network_class,
          owner |-> owner, technology |-> technology, supports_ipv4 |-> "true",
          supports_ipv6 |-> "true", name |-> name], {"name"}, Empty)

DemoStream ==
  Plain([stream_id |-> "waveform-base", name |-> "Baseline waveform",
         description |-> "Cycle-aligned", sample_type |-> "INT16",
         voltage_scale |-> "0.01", current_scale |-> "0.001",
         voltage_channel_count |-> "2", current_channel_count |-> "2",
         other_channel_count |-> Zero, total_channel_count |-> "4",
         cycle_aligned |-> "true", zero_crossing_aligned |-> "true",
         sample_rate_hz |-> "15360", samples_per_cycle |-> "256",
         nominal_frequency_hz |-> "60", expected_frame_period_ms |-> "16",
         voltage_filter_lowpass |-> "5000", current_filter_lowpass |-> "5000"])

fill_demo_discovery_rsp ==
  Struct(
    [status |-> Plain([code |-> "SUCCESS", message |-> "ok"]),
     geisa |-> Plain([ver_major |-> Zero, ver_minor |-> "9", ver_rev |-> Zero,
                      pillar_adm |-> "true", pillar_api |-> "true",
                      pillar_lee |-> "true", pillar_vee |-> Zero]),
     device |-> Struct(
       [top_module |-> fill_demo_module(Zero, "GEISA Example", "Edge Meter 2000",
                                        "EM2000-0001", "1.0", "0.9.0"),
        sub_module |-> <<fill_demo_module("COMPUTE_CARD", "GEISA Example",
                                          "Compute Card A", "CCA-0001", "1.1", "0.9.0")>>],
       {"top_module"}, "sub_module" :> 1),
     operator |-> Plain([operator_name |-> "Example Utility",
                         operator_identifier |-> "utility-001"]),
     metrology |-> Plain([meter_rating_class |-> "CL200", meter_form |-> "2S",
                          phase_count |-> "1", neutral_connected |-> "true",
                          nominal_phase_angle_deg |-> "180",
                          nominal_frequency_hz |-> "60",
                          nominal_phase_to_phase_voltage_v |-> "240",
                          nominal_phase_to_neutral_voltage_v |-> "120"]),
     sensor |-> Struct("sensors" :> <<fill_demo_discovery_sensor>>, {}, "sensors" :> 1),
     network |-> Struct(
       "interfaces" :>
         <<fill_demo_network("operator-rfmesh-0", "OPERATOR", "OPERATOR", "RF_MESH",
                             "Operator RF mesh"),
           fill_demo_network("internet-cellular-0", "INTERNET", "OPERATOR", "CELLULAR",
                             "Cellular internet"),
           fill_demo_network("local-wifi-0", "LOCAL", "CONSUMER", "WIFI", "Local Wi-Fi")>>,
       {}, "interfaces" :> 3),
     waveform |-> Struct("streams" :> <<DemoStream>>, {}, "streams" :> 1)],
    {"status", "geisa", "device", "operator", "metrology", "sensor", "network",
     "waveform"}, Empty)

-----------------------------------------------------------------------------
fill_demo_sensor_value_double(double_value) ==
  Struct("double_value" :> double_value, {"double_value"}, Empty)

fill_demo_sensor_readings_rsp ==
  LET board ==
        Struct([sensor_id |-> "board-temp-1", timestamp_ms |-> "1762862400000",
                values |-> <<fill_demo_sensor_value_double("47.25"),
                             fill_demo_sensor_value_double("47.38")>>,
                unit |-> "Cel", quality |-> "GOOD", status |-> "OK"],
               {"unit", "quality", "status"}, "values" :> 2)
      ambient ==
        Struct([sensor_id |-> "ambient-temp-1", timestamp_ms |-> "1762862400000",
                values |-> <<fill_demo_sensor_value_double("22.70")>>, unit |-> "Cel"],
               {"unit"}, "values" :> 1)
  IN Struct([status |-> Plain([code |-> "SUCCESS", message |-> "ok"]),
             readings |-> <<board, ambient>>], {"status"}, "readings" :> 2)

-----------------------------------------------------------------------------
fill_demo_conn_info(state, ipv4, ipv6, realtime) ==
  Plain([state |-> state, ipv4 |-> ipv4, ipv6 |-> ipv6, realtime |-> realtime])

fill_demo_conn_app_msg ==
  Plain([yesterday_used |-> "158", today_used |-> "42", today_limit |-> "500",
         today_remaining |-> "458", next_daily_reset_ms |-> "1762905600000"])

fill_demo_conn_app_info(policy, yesterday, yesterday_metered, today, today_metered, limit, remaining) ==
  Plain([policy |-> policy, yesterday_used_unlimited |-> yesterday,
         yesterday_used_metered |-> yesterday_metered,
         today_used_unlimited |-> today, today_used_metered |-> today_metered,
         today_limit_metered |-> limit, today_remaining_metered |-> remaining,
         next_daily_reset_ms |-> "1762905600000"])

fill_demo_platform_status ==
  Struct([timestamp_ms |-> "1762862400000", mode |-> Zero, conn_msg |-> "ENABLED_UP",
          conn_oper |-> fill_demo_conn_info("ENABLED_UP", "true", "true", "true"),
          conn_inet |-> fill_demo_conn_info("ENABLED_DOWN", "true", "true", Zero),
          conn_local |-> fill_demo_conn_info("ENABLED_UP", "true", Zero, "true")],
         {"conn_oper", "conn_inet", "conn_local"}, Empty)

fill_demo_platform_to_app_status ==
  Struct([cmd_send_status |-> "true", cmd_shut_down |-> Zero, cmd_clear_pii |-> Zero,
          timestamp_ms |-> "1762862405000", cpu_usage |-> "34.5", cpu_limit |-> "80",
          memory_usage |-> "8388608", memory_limit |-> "33554432",
          persist_storage_usage |-> "4194304", persist_storage_limit |-> "67108864",
          nonpersist_storage_usage |-> "1048576", nonpersist_storage_limit |-> "8388608",
          conn_msg |-> fill_demo_conn_app_msg,
          conn_oper |-> fill_demo_conn_app_info("METERED", "1024", "8192", "512", "4096",
                                                "65536", "61440"),
          conn_inet |-> fill_demo_conn_app_info("UNLIMITED", "20480", Zero, "10240", Zero,
                                                Zero, Zero),
          conn_local |-> fill_demo_conn_app_info("UNLIMITED", "4096", Zero, "2048", Zero,
                                                 Zero, Zero)],
         {"conn_msg", "conn_oper", "conn_inet", "conn_local"}, Empty)

fill_demo_app_to_platform_status ==
  Plain([type |-> Zero, next_status |-> "60", next_status_timeout |-> "150"])

-----------------------------------------------------------------------------
fill_demo_actuator_get_req == Plain("actuator" :> "SERVICE_SWITCH")

fill_demo_actuator_get_rsp ==
  Struct([status |-> Plain([code |-> "SUCCESS", message |-> "ok"]),
          actuator_status |-> Plain([actuator |-> "SERVICE_SWITCH", on |-> "ON",
                                     position_present |-> Zero])],
         {"status", "actuator_status"}, Empty)

fill_demo_actuator_set_req ==
  Struct("new_settings" :> <<Plain([actuator |-> "LC_RELAY_0", on |-> "OFF",
                                    position_present |-> Zero])>>,
         {}, "new_settings" :> 1)

fill_demo_actuator_set_rsp ==
  Struct("status" :> Plain([code |-> "SUCCESS", message |-> "accepted"]), {"status"}, Empty)

-----------------------------------------------------------------------------
\* The payload's size is a field of its own; with the size 0 the bytes are not sent.
fill_demo_app_message_req ==
  Plain([request_id |-> "req-0001", priority |-> "IMMEDIATE", message_type |-> "APP_DATA",
         timestamp_ms |-> "1762862400000", ttl_seconds |-> "300",
         content_type |-> "application/json", payload |-> "meter-snapshot"])

fill_demo_app_message_rsp ==
  Plain([request_id |-> "req-0001", status |-> "ACCEPTED",
         status_text |-> "accepted for processing", timestamp_ms |-> "1762862400100"])

-----------------------------------------------------------------------------
(***************************************************************************)
(* The metered quantities set a flag beside every optional field.          *)
(***************************************************************************)
fill_demo_instantaneous ==
  LET Numbers(ns) == [i \in DOMAIN ns |-> Plain("n" :> ns[i])]
      timestamp_us == "1736035200123456"
      phase_a ==
        Struct([message_version |-> "1", phase |-> Zero, current_micro_a |-> "8246588",
                voltage_micro_v |-> "120150000", active_power_micro_w_sum |-> "983000000",
                reactive_power_micro_var_sum |-> "124300000",
                apparent_power_micro_va_sum |-> "990828000",
                active_power_micro_w_del |-> "983000000", power_factor |-> "0.9921",
                current_angle_deg |-> "-7.2", voltage_angle_deg |-> Zero,
                current_thd_percent |-> "2.4", voltage_thd_percent |-> "1.6",
                current_tdd_percent |-> "2.8"],
               {"current_micro_a", "voltage_micro_v", "active_power_micro_w_sum",
                "reactive_power_micro_var_sum", "apparent_power_micro_va_sum",
                "active_power_micro_w_del", "power_factor", "current_angle_deg",
                "voltage_angle_deg", "current_thd_percent", "voltage_thd_percent",
                "current_tdd_percent"}, Empty)
      phase_n ==
        Struct([message_version |-> "1", phase |-> "PHASE_N", current_micro_a |-> "61500"],
               {"current_micro_a"}, Empty)
      system ==
        Struct([message_version |-> "1", timestamp_us |-> timestamp_us,
                frequency_hz |-> "60", active_power_micro_w_sum |-> "2050000000",
                active_power_micro_w_del |-> "2050000000",
                reactive_power_micro_var_sum |-> "259200000",
                apparent_power_micro_va_sum_arithmetic |-> "2066324000",
                power_factor_arithmetic |-> "0.9921"],
               {"frequency_hz", "active_power_micro_w_sum", "active_power_micro_w_del",
                "reactive_power_micro_var_sum", "apparent_power_micro_va_sum_arithmetic",
                "power_factor_arithmetic"}, Empty)
      other ==
        Struct([message_version |-> "1", timestamp_us |-> timestamp_us,
                neutral_current_imputed_micro_a |-> "62000",
                neutral_current_micro_a |-> "61500"],
               {"neutral_current_imputed_micro_a", "neutral_current_micro_a"}, Empty)
      harmonics ==
        Struct([voltage_harmonic_micro_v |-> Numbers(<<"205000", "115000", "86000">>),
                current_harmonic_micro_a |-> Numbers(<<"12100", "8700", "6500">>)], {},
               [voltage_harmonic_micro_v |-> 3, current_harmonic_micro_a |-> 3])
      harmonic ==
        Struct([message_version |-> "1", timestamp_us |-> timestamp_us,
                phase_a_current_harmonic_2nd_micro_a |-> "12100",
                phase_a_voltage_harmonic_2nd_micro_v |-> "205000",
                phase_a_harmonics |-> harmonics],
               {"phase_a_current_harmonic_2nd_micro_a",
                "phase_a_voltage_harmonic_2nd_micro_v", "phase_a_harmonics"}, Empty)
  IN Struct([timestamp_us |-> timestamp_us, message_version |-> "1",
             frequency_hz |-> "60", temperature_celsius |-> "34.5", phase_a |-> phase_a,
             phase_n |-> phase_n, system |-> system, other |-> other,
             harmonic |-> harmonic],
            {"frequency_hz", "temperature_celsius", "phase_a", "phase_n", "system",
             "other", "harmonic"}, Empty)

fill_demo_billing ==
  LET metadata == Struct("measurement_period_s" :> "900", {"measurement_period_s"}, Empty)
      demand == Struct([max_demand_time_us |-> "1736031600000000",
                        quantity |-> "5800000000"], {"quantity"}, Empty)
      summation ==
        Struct([message_version |-> "1", timestamp_us |-> "1736035200123456",
                active_energy_micro_wh_del |-> "1000000000000",
                active_energy_micro_wh_sum |-> "1000000000000",
                reactive_energy_micro_varh_q1_plus_q4 |-> "162000000000",
                apparent_energy_micro_vah_sum_arithmetic |-> "1013000000000",
                power_factor_sum_arithmetic |-> "0.9870",
                power_factor_sum_vectorial |-> "0.9852", metadata |-> metadata],
               {"active_energy_micro_wh_del", "active_energy_micro_wh_sum",
                "reactive_energy_micro_varh_q1_plus_q4",
                "apparent_energy_micro_vah_sum_arithmetic",
                "power_factor_sum_arithmetic", "power_factor_sum_vectorial",
                "metadata"}, Empty)
      total ==
        Struct([message_version |-> "1", timestamp_us |-> "1736035200123456",
                active_power_micro_w_del |-> demand, active_power_micro_w_sum |-> demand,
                metadata |-> metadata],
               {"active_power_micro_w_del", "active_power_micro_w_sum", "metadata"}, Empty)
  IN Struct([message_version |-> "1", summation_total |-> summation,
             demand_total |-> total], {"summation_total", "demand_total"}, Empty)

-----------------------------------------------------------------------------
\* What the writers write, by the type of the message.
DemoOf(T) ==
  CASE T = "Discovery_Req" -> fill_demo_discovery_req
    [] T = "Discovery_Rsp" -> fill_demo_discovery_rsp
    [] T = "SensorReadings_Rsp" -> fill_demo_sensor_readings_rsp
    [] T = "PlatformStatus" -> fill_demo_platform_status
    [] T = "PlatformToAppStatus" -> fill_demo_platform_to_app_status
    [] T = "AppToPlatformStatus" -> fill_demo_app_to_platform_status
    [] T = "ActuatorGet_Req" -> fill_demo_actuator_get_req
    [] T = "ActuatorGet_Rsp" -> fill_demo_actuator_get_rsp
    [] T = "ActuatorSet_Req" -> fill_demo_actuator_set_req
    [] T = "ActuatorSet_Rsp" -> fill_demo_actuator_set_rsp
    [] T = "AppMessage_Req" -> fill_demo_app_message_req
    [] T = "AppMessage_Rsp" -> fill_demo_app_message_rsp
    [] T = "Instantaneous" -> fill_demo_instantaneous
    [] T = "Billing" -> fill_demo_billing
=============================================================================
