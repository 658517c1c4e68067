------------------------ MODULE MCCaseAuthorization ------------------------
(* Small instances of CaseAuthorization for TLC. *)
EXTENDS CaseAuthorization, TLC

CONSTANTS x1, x2, x3, alice, bob

\* Two resources of one customer, whose requests overwrite each other's facts, and
\* one of another customer, who may create the case first.
TwoCustomers == x1 :> alice @@ x2 :> alice @@ x3 :> bob

Symmetry == Permutations(Submitter) \cup Permutations(Content) \cup Permutations({x1, x2})

=============================================================================
