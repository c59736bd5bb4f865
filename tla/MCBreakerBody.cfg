SPECIFICATION Spec
CONSTANTS
  Turns = {t1, t2}
  NoTurn = NoTurn
  SelfKeyed = {}
  BodyTurns = {t1}
  Attempts = {a1}
  Policies <- MCTwoPolicies
  DefaultPolicy <- WholeRecord
  Kept = 3
  SnapshotLimit = 2
  Tries = 2
  MaxResets = 0
  MaxEdits = 2
INVARIANTS TurnKeepsPolicy
CHECK_DEADLOCK FALSE
