SPECIFICATION DeliveriesSpec
CONSTANTS
  h1 = h1  h2 = h2  a1 = a1  k1 = k1  k2 = k2  g1 = g1  g2 = g2  e1 = e1  e2 = e2  q1 = q1  q2 = q2
  Messages = {m1}
  Subs = {s1}
  Workers = {w1, w2}
  Nobody = Nobody
  Batch = 1  MaxAttempts = 2  MaxFaults = 1
  Jobs = {h1, h2, a1}
  KindOf <- PeopleAndSound
  BatchSize = 2  MaxCrashes = 1  MaxLosses = 1
  Windows = {w1, w2}
  Intents = {i1, i2}
  NoWindow = NoWindow
  Nothing = Nothing
  Capacity = 2  MaxMishaps = 1
  Endpoints = {e1, e2}
  NoEndpoint = NoEndpoint
  Names = {k1, k2}
  Models = {g1, g2}
  NoModel = NoModel
  Catalogs <- SavedCatalogs
  Pools <- SavedPools
  Callers = {q1, q2}
  TaskOf <- ReviewAndChat
  Daily = TRUE
  DayLength = 1
  Hints = {1}
  ShortHint = 1  DeniedDelay = 1  DownDelay = 1  SearchLimit = 1  SaveTries = 2
  MaxClock = 2  MaxEdits = 1
INVARIANTS EventsAreKept PromptsAreTrue SpeechIsFaithful CallsAreBounded
PROPERTIES LateComersYield EverythingEnds
CHECK_DEADLOCK FALSE
