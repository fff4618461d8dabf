SPECIFICATION Spec
CONSTANTS
  dm = dm
  wr = wr
  rd = rd
  Procs = {dm, wr, rd}
  Mode <- MCMode
  Faults <- MCFaults
  Platform = "platform"
  Rsp = "rsp"
  Frame = "rsp.frame"
  Socket = "socket"
  SocketTooLong = FALSE
  Initially <- MCInitially
  FrameLen = 2
  SentLens = {3}
  Capacity = 2
  Nothing = Nothing
  MaxMoves = 1
INVARIANTS
  TypeOK
  SocketClosed
PROPERTIES
  PrintsStoredFrame
  DemoDecodesItsFrame
  FailureExplained
  OnlyRecvWaits
