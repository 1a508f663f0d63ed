SPECIFICATION Spec
CONSTANTS
  g1 = g1
  g2 = g2
  Server = Server
  Unknown = Unknown
  Idle = Idle
  Writers <- Goroutines
  MaxLines = 5
  MaxDecisions = 1
  MaxFaults = 2
INVARIANTS
  TypeOK
  ChainIntact
  AckedKept
  ChangeDetected
CHECK_DEADLOCK FALSE
