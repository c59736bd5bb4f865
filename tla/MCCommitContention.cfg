SPECIFICATION Spec
CONSTANTS
  Callers = {c1, c2}
  Tokens = {}
  NoToken = NoToken
  Inputs = {a}
  Reflections = {r1}
  BusyIsConflict = FALSE
  MaxStaged = 2
  Methods <- WritingMethods
  Seed = Seed
  Birth = Birth
  Records <- MCRecords
  InitialStores <- MCStores
SYMMETRY Symmetric
INVARIANTS TypeOK ReadingsCurrent ConflictMeansProgress
PROPERTIES SerialHistory
CHECK_DEADLOCK FALSE
