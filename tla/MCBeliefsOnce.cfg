SPECIFICATION BeliefsSpec
CONSTANTS
  a = a  b = b  c = c  plain = plain  here = here  there = there  s1 = s1  s2 = s2  s3 = s3
  NoAppraisal = NoAppraisal  NoFinding = NoFinding  None = None
  Values = {a, b, c}
  Scopes = {plain, here, there}
  Unscoped = plain
  Proposals <- ChainProposals
  Observations <- ChainObservations
  MaxMemories = 3  MaxEvidence = 1  MaxRevision = 2  MaxEvents = 3
INVARIANTS AuthorisedOnce
CHECK_DEADLOCK FALSE
