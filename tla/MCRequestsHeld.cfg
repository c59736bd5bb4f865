SPECIFICATION Spec
CONSTANTS
  h1 = h1
  h2 = h2
  e1 = e1
  e2 = e2
  a1 = a1
  a2 = a2
  Requests = {r1}
  Kinds = {"typed"}
  Hosts = {}
  HostName <- NoHosts
  Tasks = {e1}
  Replies <- OwnReplies
  Calls = {c1}
  Subscribed = TRUE
  SlowTasks = FALSE
  None = None
PROPERTIES TasksHoldToo
CHECK_DEADLOCK FALSE
