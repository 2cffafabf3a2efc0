SPECIFICATION Spec
CONSTANTS
  p = p
  q = q
  x = x
  y = y
  Mirrors = {1, 2, 3}
  Origin = 1
  MaxPub = 1
  MaxStorms = 1
  None = None
  HasMeta = TRUE
  UpdateFaults = {}
  Pkgs = {p, q}
  Builds = {x, y}
  BuildOf <- MCBuildOf
  Size <- MCSize
  NoFile = NoFile
  Lists <- MCHttpLists
  Requests <- MCRequests
  MaxRetry = 3
  FetchFaults = {"connect"}
INVARIANT ListedMirrorsTried
CHECK_DEADLOCK FALSE
