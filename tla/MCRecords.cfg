SPECIFICATION RecordsSpec
CONSTANTS
  a = a  b = b  c = c  plain = plain  here = here  there = there  s1 = s1  s2 = s2  s3 = s3
  NoAppraisal = NoAppraisal  NoFinding = NoFinding  None = None
  Values = {a, b}
  Scopes = {plain, here, there}
  Unscoped = plain
  Proposals <- RivalProposals
  Observations <- RivalObservations
  MaxMemories = 3  MaxEvidence = 2  MaxRevision = 3  MaxEvents = 2
  p1 = p1  p2 = p2  n1 = n1  n2 = n2
  here1 = here1  here2 = here2  sight1 = sight1  sight2 = sight2  sight3 = sight3
  Editors = {w1, w2}
  Participants = {p1, p2}
  Inputs <- TurnsAndEvents
  MaxStates = 2
  Sleepers = {w1, w2}
  Links = {n1, n2}
  Rank <- ByName
  Contents = {e1, e2}
  Minimum = 2  Strongest = 1  MaxStored = 3  MaxPasses = 3
  Places = {here1, here2}
  Sights = {sight1, sight2, sight3}
  SeenAt <- Captured
  Persons = {p1}
  Strangers = {x1}
  Registrars = {w1, w2}
  NoPerson = NoPerson
  Observers = {w1, w2}
  Evidence = {e1, e2}
  NoEvidence = NoEvidence
  MaxLooks = 2  MaxUpsets = 1
  Items = {i1, i2}
  Promoted = {i1}
  Options = {e1, e2}
  Default = v0
  Nothing = Nothing
  Admins = {w1, w2}
  Unsaved = Unsaved
  Shut = Shut
  MaxSaves = 2  MaxRevisions = 3
  Turns = {1, 2, 3, 4}
  KindOfTurn <- TwoTalkOneLooks
  Eligible = 1  Required = 2  MaxFlips = 1  MaxExperience = 2
  SignUps = {w1, w2}
  Usernames = {f1}
  Clients = {g1}
  Calls = {1, 2}  Operator = Operator  Unowned = Unowned
  MaxIssued = 4  MaxAccidents = 2
SYMMETRY Symmetric
INVARIANTS
  BeliefsAreGoverned LedgerHolds ConsolidationsHold EncountersHold PerceptionHolds SettingsHold
  TurnsAreReasoned GrantsStand
PROPERTIES NothingIsRewritten
CHECK_DEADLOCK FALSE
