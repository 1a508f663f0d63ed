SPECIFICATION Spec
CONSTANTS
  Clients <- OneClient
  Viewers <- OneViewer
  MaxLaunches = 1
  MaxCrashes = 0
PROPERTIES
  StreamCloses
