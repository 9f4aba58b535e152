SPECIFICATION FairSpec
CONSTANTS
  g1 = g1
  g2 = g2
  g3 = g3
  live = live
  frozen = frozen
  ev = ev
  None = None
  Gid = {g1, g2}
  TrainEnv = {live}
  FrozenEnv = {}
  EvalEnv = {ev}
  GroupSize <- MCGroupSize
  EvalEpochs <- MCEvalEpochs
  MaxInflight = 2
  OutQSize = 2
  MaxOffPolicySteps = 0
  RateLimited = TRUE
  MaxSteps = 2
  TargetLag = 1
  InMemory = FALSE
INVARIANTS
  EpisodesConserved
  PermitsMatch
  StaleSwept
PROPERTIES
  LedgerSafety
  LedgerLiveness
