SPECIFICATION Spec
CONSTANTS
  Clients <- OneClient
  Viewers <- OneViewer
  MaxLaunches = 2
  MaxCrashes = 0
PROPERTIES
  ClosedOnTheLast
