SPECIFICATION Spec
CONSTANTS
  a = a
  b = b
  v1 = v1
  v2 = v2
  f = f
  g = g
  h = h
  d = d
  e = e
  None = None
  Names = {a, b}
  Versions = {v1, v2}
  Files = {f, g, h}
  Dirs = {d, e}
  FilesOf <- MCFilesOf
  DirsOf <- MCDirsOf
  DirOf <- MCDirOf
  Available <- MCAvailable
  RootIsSlash = TRUE
  Sessions = {"add", "jobs"}
  Faults = {"script", "devscript", "extract", "rename", "commit", "unregister", "interrupt", "kill"}
  MaxFaults = 1
INVARIANTS TypeOK DbConsistent DiskMatchesDb DirsKept
PROPERTIES OwnersKept AtomicDb
