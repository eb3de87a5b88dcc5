SPECIFICATION Spec
CONSTANTS
  MaxCreated = 3
  MaxRequests = 1
  MaxFrames = 3
  MaxTimeouts = 2
  MaxGone = 2
  MaxAdded = 3
  MaxLoaded = 2
  MaxData = 2
  MaxDay = 2
  MaxAccepted = 3
  MaxWrites = 3
  MaxPages = 2
  MaxServed = 2
INVARIANTS
  ServersSound
  SessionSound
  SharedIsSound
PROPERTIES
  RoutesToBest
  AllServed
CHECK_DEADLOCK FALSE
