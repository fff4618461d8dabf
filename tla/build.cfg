SPECIFICATION Spec
CONSTANTS
  Goals <- BuildGoals
  Setups <- BuildSetups
  Editable <- BuildEditable
  Faults = {"recipe", "interrupt", "kill", "clean"}
  MaxEdits = 1
  MaxMakes = 2
INVARIANTS
  TypeOK
  StampMeansGenerated
  InputsAreWhole
PROPERTIES
  MakeBringsUpToDate
  NothingMadeTwice
  MakeEnds
