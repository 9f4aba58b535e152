SPECIFICATION PipelineSpec
CONSTANTS
  g1 = g1
  g2 = g2
  g3 = g3
  g4 = g4
  g5 = g5
  g6 = g6
  live = live
  frozen = frozen
  ev = ev
  None = None
  Gid = {g1, g2, g3}
  TrainEnv = {live}
  FrozenEnv = {}
  EvalEnv = {ev}
  GroupSize <- MCGroupSize
  EvalEpochs <- MCEvalEpochs
  MaxInflight = 1
  OutQSize = 1
  MaxOffPolicySteps = 0
  RateLimited = FALSE
  MaxSteps = 3
  TargetLag = 1
  InMemory = TRUE
  CkptInterval = 0
SYMMETRY Symmetry
PROPERTY
  AheadOfWeights
