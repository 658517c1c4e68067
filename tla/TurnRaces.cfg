SPECIFICATION TurnSpec
CONSTANTS
  m1 = m1
  m3 = m3
  w = w
  Message = {m1, m3, w}
  SeqOf <- MCSeqOf
  ConversationOf <- MCConversationOf
  Handler = {h1, h2}
  NoSequence = NoSequence
  Nothing = Nothing
  Actor = {"alice", "bob", "rep"}
  RolesOf <- MCRolesOf
  Customer = {"alice"}
  Action = {"issue_refund"}
  Enforced = TRUE
  MaxDirect = 1
  Resource <- Resources
  NoResource = NoResource
INVARIANTS
  ProposalsAreEntitled
  ProposedWasAsked
PROPERTIES
  ImplementsInbox
SYMMETRY Symmetry
CHECK_DEADLOCK FALSE
