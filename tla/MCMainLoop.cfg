SPECIFICATION MainSpec
CONSTANTS
  tr = tr
  ts = ts
  ea = ea
  eb = eb
  None = None
  Gid = {1, 2, 3, 4, 5, 6, 7}
  TrainEnv = {tr, ts}
  EvalEnvs <- MCEvalEnvs
  GroupSize <- MCGroupSize
  TrainGroups <- MCTrainGroups
  Examples <- MCExamples
  Interval <- MCInterval
  Configs <- MCConfigs
  Shape <- MCShape
  Traces = {2}
  MaxEmpty = 2
  MaxOpen = 2
CHECK_DEADLOCK FALSE
INVARIANTS
  MainTypeOK
  QueueIsFIFO
  TokensMatch
  BacklogNeedsBigGroup
  EpochWhole
  ObservedOnce
  PreStatsMatchWindow
  TriggeredOnce
  EpochsNeverStranded
  DrainedMeansEvaluated
PROPERTIES
  EpochSafety
