\* Three callers of one document and room for two flights, one of them admitted.
SPECIFICATION FairOcrSpec
CONSTANTS
  None = None
  Callers = {c1, c2, c3}
  Keys = {k1}
  Capacity = 2
  Tasks = {1, 2}
INVARIANTS FlightsOwned OneWorker ParsedOnce
PROPERTIES EveryCallerAnswered
