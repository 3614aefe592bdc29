SPECIFICATION MCSpec
CONSTANTS
  c1 = c1  c2 = c2
  f1 = f1  f2 = f2
  Clients = {c1, c2}
  Configs = {f1, f2}
  None = None
  MaxFaults = 1
INVARIANTS TypeOK OneDaemon NamedIsReachable CalmCallsSucceed
PROPERTIES CallsReturn OthersEnd
CHECK_DEADLOCK FALSE
