SPECIFICATION Spec
CONSTANTS
  Turns = {t1, t2, t3}
  NoTurn = NoTurn
  SelfKeyed = {t1, t2, t3}
  BodyTurns = {}
  Attempts = {a1, a2, a3, a4}
  Policies <- MCShort
  DefaultPolicy <- ShortWindow
  Kept = 2
  SnapshotLimit = 1
  Tries = 2
  MaxResets = 0
  MaxEdits = 0
SYMMETRY Symmetric
PROPERTIES HeldStaysHeld
CHECK_DEADLOCK FALSE
