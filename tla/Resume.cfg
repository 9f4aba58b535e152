SPECIFICATION Spec
CONSTANTS
  MaxSteps = 3
  Interval = 1
  KeepLast = 2
  Ranks = 2
  MaxInflight = 1
  MaxAttempts = 3
  Latest = Latest
  None = None
CHECK_DEADLOCK FALSE
INVARIANTS
  ResumeTypeOK
  RanksAgree
  SameHistory
PROPERTIES
  KeepsResumable
