SPECIFICATION FairDaemon
CONSTANTS
  Clients = {c1, c2}
  Limits = {0, 1}
  UintMod = 4
  Stopper = Stopper
  NoOne = NoOne
  MaxSignals = 2
CHECK_DEADLOCK FALSE
INVARIANT StopArmsTheWait
PROPERTY ShutdownCompletes
