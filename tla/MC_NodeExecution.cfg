SPECIFICATION Spec
CONSTANTS
  p = p
  q = q
  x = x
  None = None
  Calls <- Pair
  Outputs <- Produced
  Retries = 1
  ContractRetries = 1
INVARIANTS
  TypeOK
  BudgetsApart
  FeedbackIsPassedOn
  OneCallAfterCancel
  RecordAgrees
  FinishedIsStored
PROPERTIES
  EveryCallReturns
