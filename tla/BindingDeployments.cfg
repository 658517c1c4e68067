SPECIFICATION Spec
CONSTANTS
  Binding <- MCBinding
  Api = {api}
  Worker = {w1}
  Action = {key}
  Proposal = {q1, q2}
  KeyOf <- MCKeyOf
  NotFound = 404
  Production = TRUE
  None = None
INVARIANTS
  StampedAsShown
  OneProvider
  SuccessIsDone
  FailedIsNotDone
PROPERTIES
  ImplementsLifecycle
SYMMETRY Symmetry
