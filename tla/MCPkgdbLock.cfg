SPECIFICATION Spec
CONSTANTS
  Procs = {p1, p2}
  Commands = {"userQuery", "query", "modify", "jobs", "check"}
  ReadLock = TRUE
  MaxRetries = 1
  MaxCrashes = 1
INVARIANTS TypeOK ExclusionUnlessBreach ReadersCounted AllReleased
CHECK_DEADLOCK FALSE
PROPERTIES Recovers
CONSTRAINT Bounds
