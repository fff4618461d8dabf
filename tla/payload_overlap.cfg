SPECIFICATION Spec
CONSTANTS
  new = new
  old = old
  rd = rd
  f1 = f1
  f2 = f2
  k1 = k1
  k2 = k2
  tmp = tmp
  Nothing = Nothing
  Torn = Torn
  Idle = Idle
  NoDir = NoDir
  NoGen = NoGen
  Procs = {new, old, rd}
  Paths = {f1, f2}
  Kinds = {k1, k2}
  Dirs = {tmp}
  Writes <- OverlapWrites
  Reads <- OverlapReads
  OutDir <- NoOutDir
  DirOf <- MCDirOf
  Size <- MCSize
  Block = 2
  Before <- OverlapBefore
  Faults = {"open", "encode", "write", "seek", "read", "kill"}
INVARIANTS
  TypeOK
  UnmixedIsPrefix
  DescriptorsReturned
PROPERTIES
  ReadsOneGeneration
  PrintsWhatIsStored
