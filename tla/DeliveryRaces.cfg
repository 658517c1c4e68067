SPECIFICATION Spec
CONSTANTS
  Action = {a1}
  Requester = {q1}
  Worker = {w1, w2}
  Reconciler = {r1}
  MaxAttempts = 2
  ClaimLimit = 1
  ListLimit = 1
  MaxFaults = 1
  NoAction = NoAction
SYMMETRY Symmetry
INVARIANTS
  AtMostOneDispatch
  NoLostAction
  TruthfulStatus
PROPERTIES
  ImplementsLifecycle
