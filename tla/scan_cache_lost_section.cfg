\* Two documents, one of them with two versions, a scan, its warm and a writer.
SPECIFICATION ScanSpec
CONSTANTS
  d1 = d1
  d2 = d2
  small = small
  dense = dense
  large = large
  None = None
  Docs = {d1, d2}
  Opened = {d1}
  VersionsOf <- TwoDocuments
  Writers = {w1}
  N = 2
  Chars <- CharsOf
  Bytes <- BytesOf
  Estimate <- EstimateOf
  Cap = 16
  Parallel = {dense, large}
  StoreIds = {1, 2, 3}
INVARIANTS NoPlannedSectionLost
