\* One server at a time, upgraded across restarts; one client and two opens.
SPECIFICATION HandleSpec
CONSTANTS
  b1 = b1
  b2 = b2
  m1 = m1
  m2 = m2
  v1 = v1
  v2 = v2
  None = None
  Failed = Failed
  Servers = {s1}
  Requests = {r1, r2}
  Clients = {c1}
  Textless = Textless
  Builds = {b1, b2}
  OcrBuilds = {b2}
  MediaTypes = {m1}
  Versions = {v1, v2}
  SectionCount <- Sections
  ParsedAs <- ParsedPerBuild
  StoreVersionOf <- SameStoreVersion
SYMMETRY Symmetry
PROPERTIES HandleReadsItsVersion
