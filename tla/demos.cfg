SPECIFICATION Spec
CONSTANTS
  LongDirs <- MCLongDirs
  UserLines <- MCUserLines
  Faults = {"make", "demo", "user", "clean"}
  MaxUserRuns = 1
  MaxAbsent = 1
  MaxMissing = 1
INVARIANTS
  SuccessRanEveryDemo
  ReadersReady
PROPERTIES
  MissingBinaryExplained
