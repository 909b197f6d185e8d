SPECIFICATION Spec
CONSTANTS
  c1 = c1
  c2 = c2
  a = a
  b = b
  u1 = u1
  u2 = u2
  u3 = u3
  Clients = {c1, c2}
  Order <- ServersInOrder
  Urls = {u1, u2, u3}
  Original <- AtFirst
  Later <- AddedLater
  Settings = {c2}
  NPorts = 2
  Pids = {1, 2, 3}
  MaxInstalls = 3
  MaxEvents = 4
INVARIANTS UpstreamKept OwnProxy
PROPERTIES InstallProtects
CHECK_DEADLOCK FALSE
