SPECIFICATION FairSpec
CONSTANTS
  Callers = {c1, c2}
  Keys = {k1}
  NoKey = NoKey
  Pairs = {p1, p2}
  Nobody = Nobody
  MinCount = 1
  Required = 3
  MaxEvents = 1
  MaxCount = 3
INVARIANTS CommittedOnce BlockingIsTemporary
PROPERTIES CompletionsStopShort IdentityIsGoverned DeliveryIsReady EveryCallEnds
CHECK_DEADLOCK FALSE
