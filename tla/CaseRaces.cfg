SPECIFICATION Spec
CONSTANTS
  x1 = x1
  x2 = x2
  x3 = x3
  alice = alice
  bob = bob
  Submitter = {s1, s2}
  Resource = {x1, x2, x3}
  CustomerOf <- TwoCustomers
  NumFacts = 2
  Content = {c1, c2}
  MaxCase = 6
  NoValue = NoValue
SYMMETRY Symmetry
INVARIANTS
  CaseIsolation
PROPERTIES
  AuthorizedMatchesFacts
  VersionCountsWrites
