SPECIFICATION Spec
CONSTANTS
  Entry <- ExecutorEntry
  Forged <- Started
  V2Entry <- Started
  NoHash = NoHash
  MaxTrail = 3
  MaxV2 = 1
  StepId = {"lookup", "refund", "deny"}
  ProcedureFile = {"refund", "dangling", "toolless"}
  Parsed <- Contents3
  Executor = {e1, e2}
  Caller = {c1, c2}
  MaxCalls = 3
  None = None
SYMMETRY Symmetry
INVARIANTS
  ChainTellsTampering
  EntersKnownStep
  SessionFollows
  AuditExplains
CHECK_DEADLOCK FALSE
