------------------------------ MODULE MCHandoff ------------------------------
(* Small instances of Handoff for TLC. *)
EXTENDS Handoff, TLC

Symmetry == Permutations(Agent) \cup Permutations(Handler)

==============================================================================
