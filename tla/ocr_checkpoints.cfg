\* Two pages, of which a call recognises one; two drains at once; two faults.
SPECIFICATION FairSpec
CONSTANTS
  None = None
  PageCount = 2
  PerCall = 1
  Drains = {d1, d2}
  MaxFaults = 2
INVARIANTS NoPageRedone
PROPERTIES EventuallyParsed
\* A document that was parsed is not parsed again.
CHECK_DEADLOCK FALSE
