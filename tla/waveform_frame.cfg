SPECIFICATION Spec
CONSTANTS
  Frames <- MCFrames
  HeaderSize = 2
  SampleSizes <- MCSizes
  MaxSteps = 2
  MaxOf <- MCMaxOf
  LowestOf <- MCLowestOf
  NaN = NaN
INVARIANTS
  TypeOK
  ReadsInBounds
  PreviewIsPayload
  RangesRight
  ScaledAgrees
