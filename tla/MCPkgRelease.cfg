CONSTANTS
  Archives = {1, 2, 3}
  MaxWorkers = 2
  MaxCreations = 2
  MaxFaults = 2
  Capacity = 1
  Releases = {1, 2, 3}
  VersionOf <- MCVersionOf
  Vanilla <- MCVanilla
  OwnLines = {"x"}
  MaxEdits = 2
  MaxDeaths = 2
  MaxDeletes = 1
  Package = 2
  Stocks <- MCStocks
  Probes <- MCProbes
SPECIFICATION Spec
INVARIANTS
  TypeOK
  CatalogueTrue
  ConfigKept
  MergeFaithful
  VersionOrder
PROPERTY PublishEnds
CHECK_DEADLOCK FALSE
