SPECIFICATION Spec
CONSTANTS
  Schemas <- MCSchemas
  Examples <- MCExamples
  Tracked <- MCTracked
  SCHEMA_BY_PREFIX <- MCTable
  NoSchema = NoSchema
  Mapped <- MCMapped
  Texts <- MCTexts
  Broken = Broken
  Absent = Absent
  Refs <- MCRefs
  Judge <- MCJudge
  Initially <- MCInitially
  Saves <- MCSaves
  Faults = {}
INVARIANTS
  OnlySyntaxMatters
