SPECIFICATION DataSideSpec
CONSTANTS
  Studied = {"collector", "batch", "download", "normalize", "restrictions",
             "benchmark", "publication", "gate"}
  Commanders = {"c1", "c2"}
  Captures = {"x"}
  Missed = {"y"}
  Seals = {"s1", "bad"}
  ValidSeals = {"s1"}
  EligibleSeals = {"s1", "bad"}
  Results = {"r1", "r2"}
  MaxCuts = 1
  Runners = {"b1", "b2", "b3"}
  Episodes = 2
  Downloaders = {"p", "q"}
  BlocksOf <- MCBlocksOf
  Span = 2
  MaxFiles = 2
  MaxStops = 1
  Arguments = {"A", "B"}
  Parts = 2
  MaxRuns = 2
  Rows <- MCRows
  Listings <- MCListings
  MaxRows = 3
  BucketOf <- MCBucketOf
  OfferLimit = 1
  PriceCap = 5
  Targets <- MCTargets
  Releases <- MCReleases
  Sizes = {2, 5}
  HashRank <- MCHashRank
  MaxBuilds = 2
  MaxDeaths = 1
  Versions <- MCVersions
  Bytes <- MCBytes
  RowCount <- MCRowCount
  Absent = Absent
  MaxNormal = 2
  MaxChanges = 2
  MaxKills = 1
  Predicted = {"agreement", "price"}
  RegressionOf = {"price"}
  Supported = {"agreement"}
  Models = {1, 2, 3}
  BaselinesOf <- MCBaselinesOf
  Normalized <- MCNormalized
  Protocols <- MCProtocols
  MinGain = 5
  MaxRatio = 98
  MinCoverage = 80
  MaxGates = 2
  MaxSwaps = 1
INVARIANTS
  CollectionSound
  CompletedOnWholeDataset
  PresentIsACopy
  ManifestOfCleanRun
  RestrictionsAgree
  BenchmarkSound
  CompleteEvidence
  GateSound
CHECK_DEADLOCK FALSE
