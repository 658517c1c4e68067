SPECIFICATION Spec
CONSTANTS
  Binding <- TwoBindings
  Api = {api}
  Worker = {w1, w2}
  Action = {key}
  Proposal = {q1}
  KeyOf <- MCKeyOf
  NotFound = 404
  Production = TRUE
  None = None
INVARIANTS
  FailureMeansNoCommit
SYMMETRY Symmetry
