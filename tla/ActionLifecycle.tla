--------------------------- MODULE ActionLifecycle ---------------------------
(***************************************************************************)
(* What the durable action core promises its callers, with no mention of   *)
(* requests, workers, leases or retries: an action is authorized, starts   *)
(* once, may take effect at the provider once, and its recorded status     *)
(* never contradicts the provider.  The transitions are those of           *)
(* CaseKernel.record_outcome (core/kernel.py) together with the claim of   *)
(* SQLiteCoreStore.claim_action.                                           *)
(***************************************************************************)
CONSTANT Action

VARIABLES
  status,   \* status[a]: the status column of action_attempts, "none" = no row
  effect    \* effect[a]: the provider has committed the business effect

vars == <<status, effect>>

\* ActionStatus; a row is inserted as "authorized", so "requested" is only an event.
Status == {"none", "authorized", "dispatched", "succeeded", "failed", "unknown", "reconciled"}

Init ==
  /\ status = [a \in Action |-> "none"]
  /\ effect = [a \in Action |-> FALSE]

Authorize(a) ==
  /\ status[a] = "none"
  /\ status' = [status EXCEPT ![a] = "authorized"]
  /\ UNCHANGED effect

Claim(a) ==
  /\ status[a] = "authorized"
  /\ status' = [status EXCEPT ![a] = "dispatched"]
  /\ UNCHANGED effect

\* The provider takes effect only for an action that is started and not settled.
Commit(a) ==
  /\ status[a] \in {"dispatched", "unknown"}
  /\ ~ effect[a]
  /\ effect' = [effect EXCEPT ![a] = TRUE]
  /\ UNCHANGED status

\* "succeeded" and "reconciled" report an effect, "failed" the absence of one.
Report(a, s) ==
  /\ \/ status[a] = "dispatched" /\ s \in {"succeeded", "failed", "unknown"}
     \/ status[a] = "unknown" /\ s \in {"unknown", "failed", "reconciled"}
  /\ s \in {"succeeded", "reconciled"} => effect[a]
  /\ s = "failed" => ~ effect[a]
  /\ status' = [status EXCEPT ![a] = s]
  /\ UNCHANGED effect

Next ==
  \E a \in Action :
    \/ Authorize(a)
    \/ Claim(a)
    \/ Commit(a)
    \/ \E s \in Status : Report(a, s)

Spec == Init /\ [][Next]_vars

\* A terminal status is the last word: record_outcome and claim_action never rewrite it,
\* the provider does not act after it, and no effect is ever taken back.
OutcomeIsFinal ==
  [][\A a \in Action :
       /\ status[a] \in {"succeeded", "failed", "reconciled"} =>
            status'[a] = status[a] /\ effect'[a] = effect[a]
       /\ effect[a] => effect'[a]]_vars

==============================================================================
