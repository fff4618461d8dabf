----------------------------- MODULE MCRunDemos -----------------------------
(* Instances of RunDemos for TLC: the command lines a user tries meanwhile, *)
(* with the standard files, other files, flags mistaken for names and the   *)
(* directory too long for the metered writer.                               *)
EXTENDS RunDemos

MCLongDirs == {"/very/long"}
MCUserLines == {
  <<"actuator_write", <<>>>>,
  <<"app_message_write", <<>>>>, <<"app_message_write", <<"a", "b">>>>,
  <<"discovery_write_request", <<"a">>>>,
  <<"discovery_write_response", <<>>>>,
  <<"discovery_write_response", <<"--write-rsp-sample">>>>,
  <<"discovery_write_response", <<"--write-rsp-sample", "a">>>>,
  <<"sensor_write", <<>>>>,
  <<"metered_write", <<>>>>, <<"metered_write", <<"out">>>>,
  <<"metered_write", <<"/very/long">>>>,
  <<"waveform_subscribe_and_read", <<"--write-rsp-sample", "a">>>>,
  <<"waveform_subscribe_and_read", <<"--write-req">>>>}

\* What the proof of ReadersReady asks of the users.
ASSUME UsersKeepKinds
=============================================================================
