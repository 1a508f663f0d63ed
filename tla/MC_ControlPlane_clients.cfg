SPECIFICATION Spec
CONSTANTS
  Clients <- TwoClients
  Viewers = {}
  MaxLaunches = 2
  MaxCrashes = 0
INVARIANTS
  HandleHeld
