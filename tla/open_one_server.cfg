\* One server at a time on a state directory, upgraded across restarts.
SPECIFICATION OneServerSpec
CONSTANTS
  b1 = b1
  b2 = b2
  m1 = m1
  m2 = m2
  v1 = v1
  v2 = v2
  None = None
  Failed = Failed
  Servers = {s1, s2}
  Requests = {r1, r2}
  Builds = {b1, b2}
  OcrBuilds = {b2}
  MediaTypes = {m1}
  Versions = {v1, v2}
  ParsedAs <- ParsedPerBuild
  StoreVersionOf <- NewStoreVersion
INVARIANTS TypeOK CompleteResult
PROPERTIES EveryOpenAnswered ImplementsPublishedDocument UndisturbedIngestCompletes TextLeftOutOnlyIfStored
