SPECIFICATION Spec
CONSTANTS
  Turns = {t1, t2, t3, t4}
  NoTurn = NoTurn
  SelfKeyed = {t4}
  BodyTurns = {}
  Attempts = {a1}
  Policies <- MCTwoPolicies
  DefaultPolicy <- WholeRecord
  Kept = 3
  SnapshotLimit = 2
  Tries = 2
  MaxResets = 0
  MaxEdits = 1
INVARIANTS CapturesHold EditsApplyLater
CHECK_DEADLOCK FALSE
