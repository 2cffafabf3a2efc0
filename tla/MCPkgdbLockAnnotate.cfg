SPECIFICATION Spec
CONSTANTS
  Procs = {p1, p2}
  Commands = {"modify", "annotateShow"}
  ReadLock = FALSE
  MaxRetries = 1
  MaxCrashes = 0
INVARIANT ReleasesOwnLock
