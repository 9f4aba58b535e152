SPECIFICATION Spec
CONSTANTS
  g1 = g1
  g2 = g2
  g3 = g3
  live = live
  frozen = frozen
  ev = ev
  None = None
  Gid = {g1, g2, g3}
  TrainEnv = {live, frozen}
  FrozenEnv = {frozen}
  EvalEnv = {ev}
  GroupSize <- MCGroupSize
  EvalEpochs <- MCEvalEpochs
  MaxInflight = 2
  OutQSize = 2
  MaxOffPolicySteps = 0
  RateLimited = FALSE
  MaxSteps = 2
  TargetLag = 1
  InMemory = FALSE
SYMMETRY Symmetry
INVARIANT
  StaleDiscarded
