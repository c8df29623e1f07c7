SPECIFICATION FairSpec
CONSTANTS
  Clients = {c1, c2}
  MaxStarts = 2
  MaxClients = 1
CHECK_DEADLOCK FALSE
INVARIANTS TypeOK RunningIsServed OnlyFailuresLoseServers HangFindsNothingRunning OverLimitOnlyAcrossServers
PROPERTIES ExitEnds FailureIsShown
