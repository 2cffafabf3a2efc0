SPECIFICATION Spec
CONSTANTS
  p = p
  q = q
  x = x
  y = y
  Mirrors = {1, 2}
  Origin = 1
  MaxPub = 2
  MaxStorms = 1
  None = None
  HasMeta = TRUE
  UpdateFaults = {"meta", "site", "db", "interrupt", "kill"}
  Pkgs = {p, q}
  Builds = {x, y}
  BuildOf <- MCBuildOf
  Size <- MCSize
  NoFile = NoFile
  Lists <- MCLists
  Requests <- MCRequests
  MaxRetry = 3
  FetchFaults = {"connect", "unavailable", "transfer", "stop"}
INVARIANTS
  TypeOK
  UpToDateIsTrue
  CacheSound
  UsedAsListed
  MirrorsTried
PROPERTIES
  Restored
  NeverBack
  Converges
CHECK_DEADLOCK FALSE
