--------------------------- MODULE MCActionDelivery ---------------------------
(* Small instances of ActionDelivery for TLC. *)
EXTENDS ActionDelivery, TLC

\* Actions, request handlers, workers and reconcilers are interchangeable within
\* their kind: no step tells two of a kind apart but by what they hold.
Symmetry ==
  Permutations(Action) \cup Permutations(Requester)
    \cup Permutations(Worker) \cup Permutations(Reconciler)

===============================================================================
