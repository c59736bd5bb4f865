SPECIFICATION FairSpec
CONSTANTS
  h1 = h1
  h2 = h2
  e1 = e1
  e2 = e2
  a1 = a1
  a2 = a2
  Requests = {r1}
  Kinds = {"typed", "spoken", "passive"}
  Hosts = {h1, h2}
  HostName <- TwoHosts
  Tasks = {e1}
  Replies <- OwnReplies
  Calls = {c1}
  Subscribed = TRUE
  SlowTasks = TRUE
  None = None
PROPERTIES HeldUntilPermitted LiveHostKept BoundedCallersEnd
CHECK_DEADLOCK FALSE
