SPECIFICATION HandoffSpec
CONSTANTS
  Agent = {a1, a2}
  Handler = {h1, h2}
  Creator = creator
  NoAgent = NoAgent
SYMMETRY Symmetry
INVARIANTS
  OneHolder
  QueuedIsAcknowledged
PROPERTIES
  MovesAreAllowed
CHECK_DEADLOCK FALSE
