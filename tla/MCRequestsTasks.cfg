SPECIFICATION Spec
CONSTANTS
  h1 = h1
  h2 = h2
  e1 = e1
  e2 = e2
  a1 = a1
  a2 = a2
  Requests = {r1}
  Kinds = {"spoken", "passive"}
  Hosts = {}
  HostName <- NoHosts
  Tasks = {e1, e2}
  Replies <- OwnReplies
  Calls = {c1, c2}
  Subscribed = TRUE
  SlowTasks = TRUE
  None = None
SYMMETRY TasksSymmetric
PROPERTIES ClaimsAreExclusive AnswersStand
CHECK_DEADLOCK FALSE
