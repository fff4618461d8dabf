SPECIFICATION Spec
CONSTANTS
  Frames <- ScaleFrames
  HeaderSize = 2
  SampleSizes <- MCSizes
  MaxSteps = 2
  MaxOf <- MCMaxOf
  LowestOf <- MCLowestOf
  NaN = NaN
INVARIANTS
  VoltageChannelsInVolts
