CONSTANTS
  Size = 3
  RecursionLimit = 6
  MaxAttempts = 2
SPECIFICATION MCSpec
INVARIANTS
  TypeOK
  PlanDeps
  PlanClash
  StepClash
  KeepsDeps
  RemovedFirst
  AsPlanned
  NothingLost
PROPERTY Progresses
CHECK_DEADLOCK FALSE
