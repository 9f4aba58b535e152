SPECIFICATION OrderedFairSpec
CONSTANTS
  g1 = g1
  g2 = g2
  g3 = g3
  g4 = g4
  g5 = g5
  g6 = g6
  live = live
  frozen = frozen
  ev = ev
  None = None
  Gid = {g1, g2, g3, g4, g5, g6}
  TrainEnv = {live}
  FrozenEnv = {}
  EvalEnv = {}
  GroupSize <- MCGroupSize
  EvalEpochs = {}
  MaxInflight = 1
  OutQSize = 1
  MaxOffPolicySteps = 5
  RateLimited = FALSE
  MaxSteps = 5
  TargetLag = 1
  InMemory = TRUE
  CkptInterval = 0
INVARIANTS
  PipelineTypeOK
  NeverStranded
PROPERTIES
  HoldReleased
  GateReopens
