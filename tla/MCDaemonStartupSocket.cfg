SPECIFICATION Spec
CONSTANTS
  c1 = c1  c2 = c2
  f1 = f1  f2 = f2
  Clients = {c1, c2}
  Configs = {f1, f2}
  None = None
  MaxFaults = 0
PROPERTIES OwnerKeepsSocket
CHECK_DEADLOCK FALSE
