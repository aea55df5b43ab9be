\* Two servers on one state directory, with different configurations.
SPECIFICATION Spec
CONSTANTS
  b1 = b1
  b2 = b2
  m1 = m1
  m2 = m2
  v1 = v1
  v2 = v2
  None = None
  Failed = Failed
  Servers = {s1, s2}
  Requests = {r1, r2}
  Builds = {b1, b2}
  OcrBuilds = {b2}
  MediaTypes = {m1, m2}
  Versions = {v1, v2}
  ParsedAs <- ParsedPerMediaType
  StoreVersionOf <- SameStoreVersion
INVARIANTS CompleteResult
