SPECIFICATION FairSpec
CONSTANTS
  a = a
  b = b
  c = c
  v1 = v1
  v2 = v2
  f = f
  g = g
  h = h
  d = d
  None = None
  Names = {a, b, c}
  Versions = {v1, v2}
  Files = {f, g, h}
  Dirs = {d}
  FilesOf <- MCFilesOf
  DirsOf <- MCDirsOf
  DirOf <- MCDirOf
  Available <- MCAvailable
  ChainOrder <- MCChainOrder
  Databases0 <- MCDatabases0
  Caches0 <- MCCaches0
  Forced = FALSE
  Failures = {"solve", "load", "fetch", "execute"}
INVARIANTS TypeOK FetchedBeforeUse ReadableClashesFound
PROPERTIES OnlyAgreedChanges Ends
CHECK_DEADLOCK FALSE
