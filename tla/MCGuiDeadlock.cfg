SPECIFICATION Spec
CONSTANTS
  Clients = {c1, c2}
  MaxStarts = 2
  MaxClients = 1
CHECK_DEADLOCK FALSE
INVARIANT BackgroundKeepsRunning
