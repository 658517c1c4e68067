SPECIFICATION FairSpec
CONSTANTS
  Action = {a1}
  Requester = {q1}
  Worker = {w1}
  Reconciler = {r1}
  MaxAttempts = 2
  ClaimLimit = 1
  ListLimit = 1
  MaxFaults = 2
  NoAction = NoAction
PROPERTIES
  AuthorizedIsHandled
  EffectIsReported
  DispatchedIsLeft
