SPECIFICATION Spec
CONSTANTS
  new = new
  old = old
  rd = rd
  f1 = f1
  f2 = f2
  k1 = k1
  k2 = k2
  tmp = tmp
  Nothing = Nothing
  Torn = Torn
  Idle = Idle
  NoDir = NoDir
  NoGen = NoGen
  Procs = {new, old}
  Paths = {f1, f2}
  Kinds = {k1, k2}
  Dirs = {tmp}
  Writes <- SetWrites
  Reads <- SetReads
  OutDir <- SetOutDir
  DirOf <- MCDirOf
  Size <- MCSize
  Block = 2
  Before <- NothingBefore
  Faults = {"mkdir", "open", "encode", "seek", "read", "kill"}
INVARIANTS
  WroteMeansStored
  CrashLeavesPrefixOfSet
  DemoPrintsItsOwn
PROPERTIES
  StoreSpec
  Terminates
