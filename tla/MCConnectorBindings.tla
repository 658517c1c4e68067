------------------------ MODULE MCConnectorBindings ------------------------
(* Small instances of ConnectorBindings for TLC. *)
EXTENDS ConnectorBindings, TLC

Rest(version, contract, enabled) ==
  [id |-> "commerce", version |-> version, contract |-> contract, enabled |-> enabled,
   transport |-> "rest", secure |-> TRUE, async |-> TRUE, reconcile |-> TRUE, drift |-> FALSE]

\* A binding, enabled or kept for its actions; the same identity under another
\* contract; a successor that cannot be asked; and three that no process starts with.
MCBinding ==
  {Rest(1, 1, TRUE), Rest(1, 1, FALSE), Rest(1, 2, FALSE),
   [Rest(2, 1, TRUE) EXCEPT !.async = FALSE, !.reconcile = FALSE],
   [Rest(3, 1, FALSE) EXCEPT !.drift = TRUE],
   [Rest(4, 1, FALSE) EXCEPT !.transport = "websocket"],
   [Rest(5, 1, TRUE) EXCEPT !.secure = FALSE]}

\* The two that differ in what their provider can be asked.
TwoBindings == {b \in MCBinding : b.enabled /\ b.secure}

MCKeyOf == [q \in Proposal |-> CHOOSE a \in Action : TRUE]

Symmetry == Permutations(Worker) \cup Permutations(Proposal)

=============================================================================
