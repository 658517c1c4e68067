SPECIFICATION Spec
CONSTANTS
  Proposal = {p1, p2}
  Order = {o1}
  OrderOf <- SameOrder
  Value = {v1, v2}
  Reason = {r1}
  Host = {h1, h2}
  MaxVersion = 1
  Nothing = Nothing
SYMMETRY Symmetry
INVARIANTS
  ActsAreRequested
  EvidenceIsForShown
  ConfirmedHasAction
PROPERTIES
  SettledIsFinal
CHECK_DEADLOCK FALSE
