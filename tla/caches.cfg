\* Two documents, one of them with two versions, a scan, its warm and a writer;
\* two retrievals of a URL whose origin serves two responses, one without validators;
\* a disk that changes three times under two calls of a client, over a root or two with a link.
SPECIFICATION MCSpec
CONSTANTS
  d1 = d1
  d2 = d2
  small = small
  dense = dense
  large = large
  None = None
  Docs = {d1, d2}
  Opened = {d1}
  VersionsOf <- TwoDocuments
  Writers = {w1}
  N = 2
  Chars <- CharsOf
  Bytes <- BytesOf
  Estimate <- EstimateOf
  Cap = 16
  Parallel = {dense, large}
  StoreIds = {1, 2, 3}
  Absent = Absent
  Partial = Partial
  Mixed = Mixed
  Requests = {r1, r2}
  Responses = {v1, v2}
  Validated = {v1}
  Disks <- MCDisks
  RootSets <- MCRootSets
  Asks <- MCAsks
  FilePaths <- MCFilePaths
  DirPaths <- MCDirPaths
  Outside <- MCOutside
  Unsupported = {7}
  MaxResults = 2
  MaxEntries = 2
  MaxChanges = 3
  MaxCalls = 2
INVARIANTS CacheAccounted UntaintedScansExact WarmsYield QuietAnswersCurrent FirstStoreSafe ListingsExact
