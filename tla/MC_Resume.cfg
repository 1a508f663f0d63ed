SPECIFICATION Spec
CONSTANTS
  Workflows <- Submissions
  Docs <- AllDocs
  TooLarge <- Refused
  NoDoc <- Nothing
  Slots = 2
INVARIANTS
  TypeOK
  OfOnePiece
  AuditAgrees
  NoneLeftRunning
  OnlyFallbacksStrand
  OneBranch
  RecordSuffices
PROPERTIES
  FinishedNotRepeated
