SPECIFICATION FairSpec
CONSTANTS
  Clients = {c1, c2, c3}
  Limits = {0, 1, 2}
  UintMod = 4
  Stopper = Stopper
  NoOne = NoOne
CHECK_DEADLOCK FALSE
INVARIANTS TypeOK CountsSessions EventNeverBlocks PanicCutsNoSession
PROPERTIES AdmissionByLimit KeepsPromise CallbacksReturn DrainIsAnnounced
