\* One server of one build; two opens of the same bytes as different media types
\* store different segmentations, one after the other or overlapping.
SPECIFICATION HandleSpec
CONSTANTS
  b1 = b1
  b2 = b2
  m1 = m1
  m2 = m2
  v1 = v1
  v2 = v2
  None = None
  Failed = Failed
  Servers = {s1}
  Requests = {r1, r2}
  Clients = {c1}
  Textless = Textless
  Builds = {b1}
  OcrBuilds = {}
  MediaTypes = {m1, m2}
  Versions = {v1, v2}
  SectionCount <- Sections
  ParsedAs <- ParsedPerMediaType
  StoreVersionOf <- SameStoreVersion
VIEW StepState
PROPERTIES SteadyCallsAreExact
