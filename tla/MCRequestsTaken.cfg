SPECIFICATION Spec
CONSTANTS
  h1 = h1
  h2 = h2
  e1 = e1
  e2 = e2
  a1 = a1
  a2 = a2
  Requests = {r1}
  Kinds = {"typed"}
  Hosts = {h1, h2}
  HostName <- TwoHosts
  Tasks = {}
  Replies <- OwnReplies
  Calls = {c1}
  Subscribed = TRUE
  SlowTasks = FALSE
  None = None
PROPERTIES OldTokensStop
CHECK_DEADLOCK FALSE
