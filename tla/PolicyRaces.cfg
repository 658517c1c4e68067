SPECIFICATION PolicySpec
CONSTANTS
  Package = {p1, p2, p3}
  ScopeOf <- OneScope
  Bootstrap = {p1}
  Person = {x, y}
  Admin = {m1, m2, m3}
  Action = {a1}
  Nobody = Nobody
SYMMETRY Symmetry
INVARIANTS
  OneActive
  SeparateApproval
  AuthorizedStaysVerifiable
CHECK_DEADLOCK FALSE
