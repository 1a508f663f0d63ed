SPECIFICATION Spec
CONSTANTS
  g1 = g1
  g2 = g2
  Server = Server
  Unknown = Unknown
  Idle = Idle
  Writers <- Goroutines
  MaxLines = 5
  MaxDecisions = 2
  MaxFaults = 0
INVARIANTS
  ChainIntact
CHECK_DEADLOCK FALSE
