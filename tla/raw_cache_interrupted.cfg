\* One retrieval at a time: only interruptions, no overlap.
SPECIFICATION RawSpec
CONSTANTS
  Absent = Absent
  Partial = Partial
  Mixed = Mixed
  Requests = {r1}
  Responses = {v1, v2}
  Validated = {v1}
INVARIANTS AnswersWhole
