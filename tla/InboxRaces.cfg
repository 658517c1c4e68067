SPECIFICATION FairSpec
CONSTANTS
  m1 = m1
  m2 = m2
  m3 = m3
  m3b = m3b
  n1 = n1
  u = u
  Message = {m1, m2, m3, m3b, n1, u}
  SeqOf <- MCSeqOf
  ConversationOf <- MCConversationOf
  Handler = {h1, h2}
  NoSequence = NoSequence
  Nothing = Nothing
INVARIANTS
  AtMostOneTurn
  AcceptedInOrder
PROPERTIES
  QuarantineEnds
