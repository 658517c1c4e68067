--------------------------- MODULE MCActionBridge ---------------------------
(* Small instances of ActionBridge for TLC. *)
EXTENDS ActionBridge, TLC

\* All proposals are about the one order: they share an idempotency key.
SameOrder == [p \in Proposal |-> CHOOSE o \in Order : TRUE]

Symmetry == Permutations(Proposal) \cup Permutations(Host) \cup Permutations(Reason)
            \cup Permutations(Value)

=============================================================================
