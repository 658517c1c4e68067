---------------------------- MODULE ActionDelivery ----------------------------
(***************************************************************************)
(* Delivery of authorized actions: the request path, the outbox workers,   *)
(* the reconciliation workers and the sandbox provider, interleaving over  *)
(* the core SQLite store.                                                  *)
(*                                                                         *)
(*   core/gateway.py         ActionGateway.dispatch, reconcile             *)
(*   core/workers.py         ActionDeliveryWorker, ReconciliationWorker    *)
(*   core/kernel.py          claim_action, transition_action, the outbox,  *)
(*                           CaseKernel.record_outcome                     *)
(*   integrations/sandbox.py SQLiteSandboxActionConnector                  *)
(*                                                                         *)
(* Every store method is one SQLite transaction and one step here.  A      *)
(* process awaits between store methods, so what it holds from an earlier  *)
(* method (a row snapshot, an outcome) may be stale at the next.           *)
(***************************************************************************)
EXTENDS Integers, FiniteSets

CONSTANTS
  Action,       \* one action per idempotency key (action_attempts.idempotency_key is UNIQUE)
  Requester,    \* request handlers running ConsequentialActionService.submit
  Worker,       \* ActionDeliveryWorker instances
  Reconciler,   \* ReconciliationWorker instances
  MaxAttempts,  \* ActionDeliveryWorker.max_attempts
  ClaimLimit,   \* limit of ActionDeliveryWorker.run_once
  ListLimit,    \* limit of ReconciliationWorker.run_once
  MaxFaults,    \* bound on faults and failed provider lookups in one behaviour
  NoAction      \* "this process works on no action"

Dispatcher == Requester \cup Worker
Process == Dispatcher \cup Reconciler

ASSUME DeliveryAssumption ==
  /\ IsFiniteSet(Action)
  /\ MaxAttempts \in Nat \ {0}
  /\ ClaimLimit \in Nat \ {0}
  /\ ListLimit \in Nat \ {0}
  /\ MaxFaults \in Nat
  /\ NoAction \notin Action
  /\ Requester \cap Worker = {}
  /\ Dispatcher \cap Reconciler = {}

VARIABLES
  \* the core store
  status,    \* action_attempts.status, "none" = no row
  older,     \* the actions with an earlier created_at, in action_attempts and core_outbox
  stale,     \* updated_at is at least dispatch_stale_seconds old
  outbox,    \* core_outbox.status of the action's row, "none" = no row
  attempts,  \* core_outbox.attempts
  ready,     \* the row's available_at (or, when leased, its lease_until) has passed
  \* the provider
  effect,    \* sandbox_action_effects holds the action's key
  calls,     \* history: how often connector.dispatch was entered for the action
  \* the processes
  pc,        \* where the process awaits
  cur,       \* the action it works on
  seen,      \* the status it last read for cur
  out,       \* the outcome it is about to record
  leased,    \* leased[w][a]: record.attempts of a row in w's batch, 0 = not in it
  listed,    \* listed[r][a]: the status r listed a with, "none" = not in its batch
  faults

storeVars == <<status, older, stale, outbox, attempts, ready>>
providerVars == <<effect, calls>>
vars == <<status, older, stale, outbox, attempts, ready, effect, calls,
          pc, cur, seen, out, leased, listed, faults>>

Status == {"none", "authorized", "dispatched", "succeeded", "failed", "unknown", "reconciled"}
OutboxStatus == {"none", "pending", "leased", "delivered", "failed", "quarantined"}
Location == {"idle", "batch", "dispatch", "calling", "committing", "outcome", "record",
             "settle", "raised", "listed", "mark", "markcas", "query"}

\* The scenarios of SandboxScenario, read when the connector is entered.
Scenario == {"success", "rejected", "timeout_before_commit", "timeout_after_commit"}

\* The transitions record_outcome allows.
Allowed ==
  ({"dispatched"} \X {"succeeded", "failed", "unknown"})
    \cup ({"unknown"} \X {"unknown", "failed", "reconciled"})

\* ORDER BY created_at LIMIT n
Earliest(S, n) == {a \in S : Cardinality(S \cap older[a]) < n}

-------------------------------------------------------------------------------
Init ==
  /\ status = [a \in Action |-> "none"]
  /\ older = [a \in Action |-> {}]
  /\ stale = [a \in Action |-> FALSE]
  /\ outbox = [a \in Action |-> "none"]
  /\ attempts = [a \in Action |-> 0]
  /\ ready = [a \in Action |-> FALSE]
  /\ effect = [a \in Action |-> FALSE]
  /\ calls = [a \in Action |-> 0]
  /\ pc = [p \in Process |-> "idle"]
  /\ cur = [p \in Process |-> NoAction]
  /\ seen = [p \in Process |-> "none"]
  /\ out = [p \in Process |-> "none"]
  /\ leased = [w \in Worker |-> [a \in Action |-> 0]]
  /\ listed = [r \in Reconciler |-> [a \in Action |-> "none"]]
  /\ faults = 0

\* p goes on to location l; nothing it read or was answered matters any more.
Goto(p, l) ==
  /\ pc' = [pc EXCEPT ![p] = l]
  /\ seen' = [seen EXCEPT ![p] = "none"]
  /\ out' = [out EXCEPT ![p] = "none"]
  /\ cur' = IF l \in {"idle", "batch"} THEN [cur EXCEPT ![p] = NoAction] ELSE cur

\* p takes up action a, having read status s for it.
Take(p, a, s, l) ==
  /\ pc' = [pc EXCEPT ![p] = l]
  /\ cur' = [cur EXCEPT ![p] = a]
  /\ seen' = [seen EXCEPT ![p] = s]
  /\ UNCHANGED out

\* p holds the outcome s for its action and goes on to l.
Holds(p, s, l) ==
  /\ pc' = [pc EXCEPT ![p] = l]
  /\ out' = [out EXCEPT ![p] = s]
  /\ UNCHANGED <<cur, seen>>

\* UPDATE action_attempts SET status=s, updated_at=now
SetStatus(a, s) ==
  /\ status' = [status EXCEPT ![a] = s]
  /\ stale' = [stale EXCEPT ![a] = FALSE]

-------------------------------------------------------------------------------
(* The request path. *)

\* insert_action: the action and its outbox row appear in one transaction, then
\* the handler dispatches the record it got back.
Authorize(r, a) ==
  /\ pc[r] = "idle"
  /\ status[a] = "none"
  /\ SetStatus(a, "authorized")
  /\ older' = [older EXCEPT ![a] = {b \in Action : status[b] # "none"}]
  /\ outbox' = [outbox EXCEPT ![a] = "pending"]
  /\ ready' = [ready EXCEPT ![a] = TRUE]
  /\ Take(r, a, "authorized", "dispatch")
  /\ UNCHANGED <<attempts, effect, calls, leased, listed, faults>>

\* submit with a known idempotency key: the stored record, whatever its status,
\* goes to the gateway.
Resubmit(r, a) ==
  /\ pc[r] = "idle"
  /\ status[a] # "none"
  /\ Take(r, a, status[a], "dispatch")
  /\ UNCHANGED <<storeVars, providerVars, leased, listed, faults>>

-------------------------------------------------------------------------------
(* The outbox worker. *)

\* Slip: expired leases are not taken over.
Due_NotLeased == {a \in Action : outbox[a] \in {"pending", "failed"} /\ ready[a]}

\* Rows claim_outbox may lease: due and pending or failed, or leased and expired.
Due == {a \in Action : outbox[a] \in {"pending", "failed", "leased"} /\ ready[a]}

\* attempts counts on past max_attempts when leases keep expiring; only
\* attempts >= max_attempts is ever asked, so the model stops counting there.
NextAttempt(n) == IF n < MaxAttempts THEN n + 1 ELSE n

ClaimOutbox(w) ==
  /\ pc[w] = "idle"
  /\ Due # {}
  /\ LET rows == Earliest(Due, ClaimLimit) IN
       /\ outbox' = [a \in Action |-> IF a \in rows THEN "leased" ELSE outbox[a]]
       /\ ready' = [a \in Action |-> ready[a] /\ a \notin rows]
       /\ attempts' = [a \in Action |->
                         IF a \in rows THEN NextAttempt(attempts[a]) ELSE attempts[a]]
       /\ leased' = [leased EXCEPT ![w] =
                       [a \in Action |-> IF a \in rows THEN attempts'[a] ELSE 0]]
  /\ Goto(w, "batch")
  /\ UNCHANGED <<status, older, stale, effect, calls, listed, faults>>

\* get_action for the next record of the batch.
TakeRecord(w, a) ==
  /\ pc[w] = "batch"
  /\ leased[w][a] > 0
  /\ Take(w, a, status[a], "dispatch")
  /\ UNCHANGED <<storeVars, providerVars, leased, listed, faults>>

BatchDone(w) ==
  /\ pc[w] = "batch"
  /\ \A a \in Action : leased[w][a] = 0
  /\ Goto(w, "idle")
  /\ UNCHANGED <<storeVars, providerVars, leased, listed, faults>>

\* _update_outbox: not conditional on the lease, its owner or the row's status.
UpdateOutbox(a, s) ==
  /\ outbox' = [outbox EXCEPT ![a] = s]
  /\ ready' = [ready EXCEPT ![a] = FALSE]

\* complete_outbox after dispatch returned.
CompleteOutbox(w) ==
  /\ pc[w] = "settle"
  /\ UpdateOutbox(cur[w], "delivered")
  /\ leased' = [leased EXCEPT ![w][cur[w]] = 0]
  /\ Goto(w, "batch")
  /\ UNCHANGED <<status, older, stale, attempts, effect, calls, listed, faults>>

\* complete_outbox itself raises (the store is locked or gone).
CompleteRaises(w) ==
  /\ pc[w] = "settle"
  /\ Goto(w, "raised")
  /\ UNCHANGED <<storeVars, providerVars, leased, listed, faults>>

\* The except branch: retry with backoff, or quarantine at the attempt limit.
FailOutbox(w) ==
  /\ pc[w] = "raised"
  /\ UpdateOutbox(cur[w], IF leased[w][cur[w]] >= MaxAttempts THEN "quarantined" ELSE "failed")
  /\ leased' = [leased EXCEPT ![w][cur[w]] = 0]
  /\ Goto(w, "batch")
  /\ UNCHANGED <<status, older, stale, attempts, effect, calls, listed, faults>>

\* A request handler returns the record, or the exception, to its caller.
Respond(r) ==
  /\ pc[r] \in {"settle", "raised"}
  /\ Goto(r, "idle")
  /\ UNCHANGED <<storeVars, providerVars, leased, listed, faults>>

-------------------------------------------------------------------------------
(* ActionGateway.dispatch, run by request handlers and workers alike. *)

\* The record that was read is no longer authorized: dispatch returns it.
DispatchSkip(p) ==
  /\ pc[p] = "dispatch"
  /\ seen[p] # "authorized"
  /\ Goto(p, "settle")
  /\ UNCHANGED <<storeVars, providerVars, leased, listed, faults>>

\* Slip: the refusal is swallowed, so the worker completes the row.
DispatchRejected_Swallowed(p) ==
  /\ pc[p] = "dispatch"
  /\ seen[p] = "authorized"
  /\ Goto(p, "settle")
  /\ UNCHANGED <<storeVars, providerVars, leased, listed, faults>>

\* The policy snapshot does not verify, the action is not allowed, or its pinned
\* connector binding is unavailable.
DispatchRejected(p) ==
  /\ pc[p] = "dispatch"
  /\ seen[p] = "authorized"
  /\ Goto(p, "raised")
  /\ UNCHANGED <<storeVars, providerVars, leased, listed, faults>>

\* Slip: the UPDATE of the claim has no AND status='authorized'.
ClaimAction_NoCompare(p) ==
  /\ pc[p] = "dispatch"
  /\ seen[p] = "authorized"
  /\ SetStatus(cur[p], "dispatched")
  /\ Goto(p, "calling")
  /\ UNCHANGED <<older, outbox, attempts, ready, providerVars, leased, listed, faults>>

\* claim_action: compare-and-set from authorized to dispatched.
ClaimAction(p) ==
  /\ pc[p] = "dispatch"
  /\ seen[p] = "authorized"
  /\ IF status[cur[p]] = "authorized"
       THEN SetStatus(cur[p], "dispatched") /\ Goto(p, "calling")
       ELSE UNCHANGED <<status, stale>> /\ Goto(p, "settle")
  /\ UNCHANGED <<older, outbox, attempts, ready, providerVars, leased, listed, faults>>

\* SQLiteSandboxActionConnector.dispatch up to its commit.  An effect already
\* stored for the key is reported without a second one.
ConnectorDispatch(p, scenario) ==
  /\ pc[p] = "calling"
  /\ calls' = [calls EXCEPT ![cur[p]] = @ + 1]
  /\ CASE effect[cur[p]] -> Holds(p, "succeeded", "outcome")
       [] ~ effect[cur[p]] /\ scenario = "rejected" -> Holds(p, "failed", "outcome")
       [] ~ effect[cur[p]] /\ scenario = "timeout_before_commit" -> Holds(p, "unknown", "outcome")
       [] OTHER -> Goto(p, "committing")
  /\ UNCHANGED <<storeVars, effect, leased, listed, faults>>

\* Slip: an exception after the commit is reported as a failure.
ConnectorCommit_Failed(p) ==
  /\ pc[p] = "committing"
  /\ effect' = [effect EXCEPT ![cur[p]] = TRUE]
  /\ \E s \in {"succeeded", "failed"} : Holds(p, s, "outcome")
  /\ UNCHANGED <<storeVars, calls, leased, listed, faults>>

\* _commit inserts the effect; the answer arrives, or is lost and dispatch maps
\* the exception (or the timeout_after_commit scenario) to unknown.
ConnectorCommit(p) ==
  /\ pc[p] = "committing"
  /\ effect' = [effect EXCEPT ![cur[p]] = TRUE]
  /\ \E s \in {"succeeded", "unknown"} : Holds(p, s, "outcome")
  /\ UNCHANGED <<storeVars, calls, leased, listed, faults>>

\* The connector raises before its commit: also unknown.
ConnectorRaises(p) ==
  /\ pc[p] = "committing"
  /\ Holds(p, "unknown", "outcome")
  /\ UNCHANGED <<storeVars, providerVars, leased, listed, faults>>

-------------------------------------------------------------------------------
(* CaseKernel.record_outcome, in two steps with an await between them. *)

\* get_action and the check against the allowed transitions.
ReadCurrent(p, from, ok, refused) ==
  /\ pc[p] = from
  /\ IF <<status[cur[p]], out[p]>> \in Allowed
       THEN /\ pc' = [pc EXCEPT ![p] = ok]
            /\ seen' = [seen EXCEPT ![p] = status[cur[p]]]
            /\ UNCHANGED <<cur, out>>
       ELSE Goto(p, refused)
  /\ UNCHANGED <<storeVars, providerVars, leased, listed, faults>>

\* Slip: update_action, which compares nothing, in place of transition_action.
TransitionAction_NoCompare(p, from, ok, conflict) ==
  /\ pc[p] = from
  /\ SetStatus(cur[p], out[p])
  /\ Goto(p, ok)
  /\ UNCHANGED <<older, outbox, attempts, ready, providerVars, leased, listed, faults>>

\* transition_action: compare-and-set from the status that was read.
TransitionAction(p, from, ok, conflict) ==
  /\ pc[p] = from
  /\ IF status[cur[p]] = seen[p]
       THEN SetStatus(cur[p], out[p]) /\ Goto(p, ok)
       ELSE UNCHANGED <<status, stale>> /\ Goto(p, conflict)
  /\ UNCHANGED <<older, outbox, attempts, ready, providerVars, leased, listed, faults>>

\* After dispatch: ValueError and ActionConflict propagate to the caller.
RecordRead(p) == ReadCurrent(p, "outcome", "record", "raised")
RecordOutcome(p) == TransitionAction(p, "record", "settle", "raised")

-------------------------------------------------------------------------------
(* The reconciliation worker. *)

WithStatus(s) == {a \in Action : status[a] = s}

\* list_actions(UNKNOWN, limit), of which the due ones are kept.
ListUnknown(r) ==
  /\ pc[r] = "idle"
  /\ LET due == {a \in Earliest(WithStatus("unknown"), ListLimit) : stale[a]} IN
       listed' = [listed EXCEPT ![r] = [a \in Action |-> IF a \in due THEN "unknown" ELSE "none"]]
  /\ Goto(r, "listed")
  /\ UNCHANGED <<storeVars, providerVars, leased, faults>>

\* Slip: only unknown rows are reconciled.
ListDispatched_Never(r) ==
  /\ pc[r] = "listed"
  /\ Goto(r, "batch")
  /\ UNCHANGED <<storeVars, providerVars, leased, listed, faults>>

\* list_actions(DISPATCHED, limit), and (due_unknown + stale_dispatched)[:limit].
ListDispatched(r) ==
  /\ pc[r] = "listed"
  /\ LET dueUnknown == {a \in Action : listed[r][a] = "unknown"}
         late == {a \in Earliest(WithStatus("dispatched"), ListLimit) : stale[a]}
         room == ListLimit - Cardinality(dueUnknown)
         batch == Earliest(late, room)
     IN listed' = [listed EXCEPT ![r] =
                     [a \in Action |-> IF a \in batch THEN "dispatched" ELSE listed[r][a]]]
  /\ Goto(r, "batch")
  /\ UNCHANGED <<storeVars, providerVars, leased, faults>>

\* The batch is processed in list order: unknown before dispatched, oldest first.
Precedes(r, a, b) ==
  IF listed[r][a] = listed[r][b]
    THEN b \notin older[a]
    ELSE listed[r][a] = "unknown"

\* reconcile: a listed dispatched action is first moved to unknown.
TakeListed(r, a) ==
  /\ pc[r] = "batch"
  /\ listed[r][a] # "none"
  /\ \A b \in Action : listed[r][b] # "none" => Precedes(r, a, b)
  /\ pc' = [pc EXCEPT ![r] = IF listed[r][a] = "dispatched" THEN "mark" ELSE "query"]
  /\ cur' = [cur EXCEPT ![r] = a]
  /\ seen' = [seen EXCEPT ![r] = listed[r][a]]
  /\ out' = [out EXCEPT ![r] = IF listed[r][a] = "dispatched" THEN "unknown" ELSE "none"]
  /\ listed' = [listed EXCEPT ![r][a] = "none"]
  /\ UNCHANGED <<storeVars, providerVars, leased, faults>>

ListDone(r) ==
  /\ pc[r] = "batch"
  /\ \A a \in Action : listed[r][a] = "none"
  /\ Goto(r, "idle")
  /\ UNCHANGED <<storeVars, providerVars, leased, listed, faults>>

MarkRead(r) == ReadCurrent(r, "mark", "markcas", "batch")
MarkUnknown(r) == TransitionAction(r, "markcas", "query", "batch")

\* Slip: the query never finds the effect.
ConnectorReconcile_Blind(r) ==
  /\ pc[r] = "query"
  /\ Holds(r, "unknown", "outcome")
  /\ UNCHANGED <<storeVars, providerVars, leased, listed, faults>>

\* connector.reconcile only looks the effect up.
ConnectorReconcile(r) ==
  /\ pc[r] = "query"
  /\ Holds(r, IF effect[cur[r]] THEN "reconciled" ELSE "unknown", "outcome")
  /\ UNCHANGED <<storeVars, providerVars, leased, listed, faults>>

\* The pinned binding cannot be resolved, or the query raises: run_once counts the
\* exception and goes on with the batch.
ReconcileRaises(r) ==
  /\ pc[r] = "query"
  /\ faults < MaxFaults
  /\ faults' = faults + 1
  /\ Goto(r, "batch")
  /\ UNCHANGED <<storeVars, providerVars, leased, listed>>

\* So does a refused or conflicting record_outcome.
ReconcileRead(r) == ReadCurrent(r, "outcome", "record", "batch")
ReconcileOutcome(r) == TransitionAction(r, "record", "batch", "batch")

-------------------------------------------------------------------------------
(* The environment. *)

\* A lease runs out or a retry delay passes.
TimePasses(a) ==
  /\ outbox[a] \in {"leased", "failed"}
  /\ ~ ready[a]
  /\ ready' = [ready EXCEPT ![a] = TRUE]
  /\ UNCHANGED <<status, older, stale, outbox, attempts, providerVars,
                 pc, cur, seen, out, leased, listed, faults>>

\* dispatch_stale_seconds pass without a write to the row.
BecomesStale(a) ==
  /\ status[a] \in {"dispatched", "unknown"}
  /\ ~ stale[a]
  /\ stale' = [stale EXCEPT ![a] = TRUE]
  /\ UNCHANGED <<status, older, outbox, attempts, ready, providerVars,
                 pc, cur, seen, out, leased, listed, faults>>

\* A process dies and restarts: what it held is gone, the stores stay.
Crash(p) ==
  /\ faults < MaxFaults
  /\ pc[p] # "idle"
  /\ faults' = faults + 1
  /\ Goto(p, "idle")
  /\ leased' = [w \in Worker |-> IF w = p THEN [a \in Action |-> 0] ELSE leased[w]]
  /\ listed' = [r \in Reconciler |-> IF r = p THEN [a \in Action |-> "none"] ELSE listed[r]]
  /\ UNCHANGED <<storeVars, providerVars>>

-------------------------------------------------------------------------------
RequestStep(r) ==
  \/ \E a \in Action : Authorize(r, a) \/ Resubmit(r, a)
  \/ Respond(r)

WorkerStep(w) ==
  \/ ClaimOutbox(w)
  \/ \E a \in Action : TakeRecord(w, a)
  \/ BatchDone(w)
  \/ CompleteOutbox(w)
  \/ FailOutbox(w)

DispatchStep(p) ==
  \/ DispatchSkip(p)
  \/ ClaimAction(p)
  \/ \E scenario \in Scenario : ConnectorDispatch(p, scenario)
  \/ ConnectorCommit(p)
  \/ RecordRead(p)
  \/ RecordOutcome(p)

DispatchFault(p) == DispatchRejected(p) \/ ConnectorRaises(p)

ReconcileStep(r) ==
  \/ ListUnknown(r)
  \/ ListDispatched(r)
  \/ \E a \in Action : TakeListed(r, a)
  \/ ListDone(r)
  \/ MarkRead(r)
  \/ MarkUnknown(r)
  \/ ConnectorReconcile(r)
  \/ ReconcileRead(r)
  \/ ReconcileOutcome(r)

Clock(a) == TimePasses(a) \/ BecomesStale(a)

Next ==
  \/ \E r \in Requester : RequestStep(r)
  \/ \E w \in Worker : WorkerStep(w) \/ CompleteRaises(w)
  \/ \E p \in Dispatcher : DispatchStep(p) \/ DispatchFault(p)
  \/ \E r \in Reconciler : ReconcileStep(r) \/ ReconcileRaises(r)
  \/ \E a \in Action : Clock(a)
  \/ \E p \in Process : Crash(p)

Spec == Init /\ [][Next]_vars

\* worker.py polls for ever, so a worker that can take a step takes one; clocks
\* advance.  Nothing is assumed of request handlers.
Fairness ==
  /\ \A w \in Worker : WF_vars(WorkerStep(w) \/ DispatchStep(w) \/ DispatchFault(w))
  /\ \A r \in Reconciler : WF_vars(ReconcileStep(r))
  /\ \A a \in Action : WF_vars(TimePasses(a)) /\ WF_vars(BecomesStale(a))

FairSpec == Spec /\ Fairness

-------------------------------------------------------------------------------
(* Properties. *)

\* Every variable has the type the schema and the code give it.
TypeOK ==
  /\ status \in [Action -> Status]
  /\ older \in [Action -> SUBSET Action]
  /\ stale \in [Action -> BOOLEAN]
  /\ outbox \in [Action -> OutboxStatus]
  /\ attempts \in [Action -> 0 .. MaxAttempts]
  /\ ready \in [Action -> BOOLEAN]
  /\ effect \in [Action -> BOOLEAN]
  /\ calls \in [Action -> Nat]
  /\ pc \in [Process -> Location]
  /\ cur \in [Process -> Action \cup {NoAction}]
  /\ seen \in [Process -> Status]
  /\ out \in [Process -> Status]
  /\ leased \in [Worker -> [Action -> 0 .. MaxAttempts]]
  /\ listed \in [Reconciler -> [Action -> {"none", "unknown", "dispatched"}]]
  /\ faults \in 0 .. MaxFaults

\* However request handlers, duplicate submissions, workers with expired leases
\* and reconcilers interleave, connector.dispatch (gateway.py) is entered at most
\* once for an action.
AtMostOneDispatch == \A a \in Action : calls[a] <= 1

\* An action still waiting to be dispatched has never lost its outbox row to a
\* delivered mark, although _update_outbox (kernel.py) checks neither the lease
\* nor its owner.
NoLostAction == \A a \in Action : status[a] = "authorized" => outbox[a] # "delivered"

\* The recorded status never contradicts the provider: succeeded and reconciled
\* have an effect, failed has none and can get none any more, and no effect
\* precedes the claim.
TruthfulStatus ==
  \A a \in Action :
    /\ status[a] \in {"succeeded", "reconciled"} => effect[a]
    /\ status[a] \in {"none", "authorized", "failed"} => ~ effect[a]
    /\ status[a] = "failed" =>
         ~ \E p \in Dispatcher : cur[p] = a /\ pc[p] \in {"calling", "committing"}

-------------------------------------------------------------------------------
(* Why they hold: the inductive invariant. *)

\* Where a dispatcher is between its claim and the end of record_outcome.
Owning == {"calling", "committing", "outcome", "record"}

\* The rows a process holds on to exist; rows out of reach are untouched.
KnownRows ==
  /\ \A p \in Process : pc[p] \notin {"idle", "batch", "listed"} =>
       cur[p] \in Action /\ status[cur[p]] # "none"
  /\ \A a \in Action : status[a] = "none" =>
       /\ outbox[a] = "none"
       /\ \A w \in Worker : leased[w][a] = 0
       /\ \A r \in Reconciler : listed[r][a] = "none"

\* Only the claim of claim_action leads into the connector, and only one process
\* ever wins it.
OneOwner ==
  /\ \A p, q \in Dispatcher :
       pc[p] \in Owning /\ pc[q] \in Owning /\ cur[p] = cur[q] => p = q
  /\ \A p \in Dispatcher : pc[p] \in Owning \cup {"settle"} => status[cur[p]] # "authorized"
  /\ \A p \in Dispatcher :
       pc[p] = "dispatch" /\ seen[p] # "authorized" => status[cur[p]] # "authorized"

\* Until the connector commits, the action is open and without an effect.
NotYetCommitted ==
  /\ \A a \in Action : status[a] \in {"none", "authorized"} => calls[a] = 0
  /\ \A p \in Dispatcher : pc[p] = "calling" => calls[cur[p]] = 0
  /\ \A p \in Dispatcher : pc[p] \in {"calling", "committing"} =>
       ~ effect[cur[p]] /\ status[cur[p]] \in {"dispatched", "unknown"}

\* The outcome a process is about to record agrees with the provider, and was
\* an allowed transition from what it read.
TruthfulOutcome ==
  /\ \A p \in Dispatcher : pc[p] \in {"outcome", "record"} =>
       /\ out[p] \in {"succeeded", "failed", "unknown"}
       /\ out[p] = "succeeded" => effect[cur[p]]
       /\ out[p] = "failed" => ~ effect[cur[p]]
  /\ \A r \in Reconciler : pc[r] \in {"mark", "markcas", "outcome", "record"} =>
       /\ out[r] \in {"unknown", "reconciled"}
       /\ out[r] = "reconciled" => effect[cur[r]]
  /\ \A p \in Process : pc[p] \in {"record", "markcas"} => <<seen[p], out[p]>> \in Allowed

\* The conjunction is inductive: it holds initially and every step keeps it.
DeliveryInv ==
  /\ TypeOK
  /\ KnownRows
  /\ OneOwner
  /\ NotYetCommitted
  /\ TruthfulOutcome
  /\ AtMostOneDispatch
  /\ NoLostAction
  /\ TruthfulStatus

-------------------------------------------------------------------------------
(* Refinement and liveness. *)

\* Actions, seen from outside, follow the lifecycle: the delivery machinery
\* implements ActionLifecycle.
Lifecycle == INSTANCE ActionLifecycle WITH Action <- Action, status <- status, effect <- effect
ImplementsLifecycle == Lifecycle!Spec

\* A row reaches quarantine only after max_attempts claims, and a row that
\* failed earlier is always due again: run_once (workers.py) never drops an
\* authorized action silently.
AuthorizedIsHandled ==
  \A a \in Action :
    (status[a] = "authorized") ~> (status[a] # "authorized" \/ outbox[a] = "quarantined")

\* An effect whose answer was lost (the handler crashed, the provider timed out)
\* is found by the query-only reconciliation and the action is settled.
EffectIsReported ==
  \A a \in Action : effect[a] ~> (status[a] \in {"succeeded", "reconciled"})

\* A claimed action does not stay dispatched for ever: its dispatcher records an
\* outcome or, once the row is stale, a reconciler marks it unknown.
DispatchedIsLeft ==
  \A a \in Action : (status[a] = "dispatched") ~> (status[a] # "dispatched")

===============================================================================
