SPECIFICATION Spec
CONSTANTS
  Goals <- CGoals
  Setups <- CSetups
  Editable = {}
  Faults = {}
  MaxEdits = 0
  MaxMakes = 2
PROPERTIES
  AlwaysRegenerates
