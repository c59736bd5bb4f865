SPECIFICATION FairSpec
CONSTANTS
  Callers = {c1, c2}
  Tokens = {t1}
  NoToken = NoToken
  Inputs = {a, b}
  Reflections = {}
  BusyIsConflict = TRUE
  MaxStaged = 1
  Methods <- RetryMethods
  Seed = Seed
  Birth = Birth
  Records <- MCRecords
  InitialStores <- MCLiving
INVARIANTS AtMostOnce AnswerIsDurable ConflictIsFinal
PROPERTIES EveryCallEnds
CHECK_DEADLOCK FALSE
