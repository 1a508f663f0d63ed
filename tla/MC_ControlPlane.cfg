SPECIFICATION Spec
CONSTANTS
  Clients <- OneClient
  Viewers <- OneViewer
  MaxLaunches = 3
  MaxCrashes = 2
INVARIANTS
  TypeOK
  HandleHeld
  DecidedOnce
  CallsAreGranted
  NotSilentlyRunning
PROPERTIES
  DecisionStands
  StreamFollows
