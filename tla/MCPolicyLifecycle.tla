-------------------------- MODULE MCPolicyLifecycle --------------------------
(* Small instances of PolicyLifecycle for TLC. *)
EXTENDS PolicyLifecycle, TLC

\* All packages are for one procedure and jurisdiction.
OneScope == [p \in Package |-> "scope"]

Symmetry == Permutations(Admin) \cup Permutations(Person) \cup Permutations(Package \ Bootstrap)

==============================================================================
