\* One demo message or one message of another program, of each of the fourteen types.
SPECIFICATION Spec
CONSTANTS
  Sent <- MCSent
INVARIANTS
  OutputIsJson
  ShowsTheMessage
  DemoArrives
\* The programs end.
CHECK_DEADLOCK FALSE
