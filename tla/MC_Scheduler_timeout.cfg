SPECIFICATION Spec
CONSTANTS
  a = a
  b = b
  c = c
  d = d
  NoNode = NoNode
  w1 = w1
  w2 = w2
  Nodes <- N
  Workflows <- AllWorkflows
  Workers <- Pool
  Usage <- Spends
PROPERTIES
  FailurePolicyApplied
