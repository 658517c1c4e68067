SPECIFICATION FairSpec
CONSTANTS
  Customer = {"c1"}
  OrderRow <- Orders
  DisputeRow <- Disputes
  Filter <- Filters
  Days = {60, 61}
  Method = {"debit_card"}
  Role = {"readonly", "fraud_analyst"}
  Unlimited = Unlimited
  None = None
  Text <- Texts
  Step = {"assess_provisional_credit", "file_dispute"}
  Amount = {0, 40, 81}
  Credit = {30}
  MaxIterations = 2
  MaxTools = 1
INVARIANTS
  OwnFacts
  SentRespectsFacts
  FallbackIsNeeded
PROPERTIES
  AnswerIsSent
CHECK_DEADLOCK FALSE
