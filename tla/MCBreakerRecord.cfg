SPECIFICATION Spec
CONSTANTS
  Turns = {t1, t2, t3}
  NoTurn = NoTurn
  SelfKeyed = {t1, t2, t3}
  BodyTurns = {}
  Attempts = {a1, a2, a3, a4}
  Policies <- MCTwoWindows
  DefaultPolicy <- WholePair
  Kept = 2
  SnapshotLimit = 1
  Tries = 2
  MaxResets = 1
  MaxEdits = 1
SYMMETRY Symmetric
ACTION_CONSTRAINT EditsComeFirst
INVARIANTS OneOutcomePerTurn
PROPERTIES OutcomesStand DecidedOnTheRecord AnswersFollowRecord
CHECK_DEADLOCK FALSE
