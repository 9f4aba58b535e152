SPECIFICATION FairSpec
CONSTANTS
  SeqLen = 5
  Workers = 2
  Multiple = 2
  Linear = 1
  Quadratic = 1
  NoImages = "none"
  MaxSamples = 4
  Inputs <- MCInputs
CHECK_DEADLOCK FALSE
INVARIANTS
  PackTypeOK
  Accounted
  EverySampleOnce
  SameShape
  LoadsClose
PROPERTIES
  PackingEnds
