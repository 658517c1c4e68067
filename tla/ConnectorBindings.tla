-------------------------- MODULE ConnectorBindings --------------------------
(***************************************************************************)
(* The registry that binds actions to providers, across deployments: every *)
(* process loads a configuration when it starts and keeps it, so that a    *)
(* proposal, its confirmation, the delivery of the action and its          *)
(* reconciliation can each run under another configuration.                *)
(*                                                                         *)
(*   integrations/registry.py  ActionRegistryConfig, RestActionConnector,  *)
(*                             ActionConnectorRegistry                     *)
(*   core/gateway.py           authorize, dispatch, reconcile              *)
(*   actions/bridge.py         propose, _verify_connector_binding          *)
(*                                                                         *)
(* Actions of different names never share a binding, so the module models  *)
(* one name.  The provider behind a binding is external: it answers with a *)
(* status code, and may act on a request long after the connector timed    *)
(* out.  Races on the status of an action are those of ActionDelivery; a   *)
(* read and its compare-and-set are one step here.  Every process loads a  *)
(* registry: without ACTION_REGISTRY_PATH the gateway has a plain table of *)
(* connectors, and no bindings.                                            *)
(***************************************************************************)
EXTENDS Integers

CONSTANTS
  Binding,     \* what a file may configure: records of BindingRecord
  Api,         \* API processes
  Worker,      \* worker processes
  Action,      \* idempotency keys
  Proposal,
  KeyOf,       \* the idempotency key of each proposal
  NotFound,    \* a provider's answer about a key it has not seen
  Production,  \* whether the processes run in the production environment
  None

\* BindingBase and RestActionBinding.  secure: https or wss; async: some status
\* is mapped to accepted; drift: the OpenAPI document is not the pinned one, or
\* lacks an operation.
BindingRecord ==
  [id : STRING, version : Nat, contract : Nat, enabled : BOOLEAN,
   transport : {"rest", "websocket"}, secure : BOOLEAN, async : BOOLEAN,
   reconcile : BOOLEAN, drift : BOOLEAN]

Process == Api \cup Worker
Code == {200, 202, 401, 404, 409, 500}

\* What an action is pinned to.
Pin(b) == <<b.id, b.version, b.contract>>
Pins == {Pin(b) : b \in Binding}

ASSUME BindingAssumption ==
  /\ Binding \subseteq BindingRecord
  /\ KeyOf \in [Proposal -> Action]
  /\ Api \cap Worker = {}
  /\ NotFound \in Code \ {200}
  /\ None \notin Pins

VARIABLES
  up,         \* the processes that are running
  config,     \* the bindings each of them loaded
  shown,      \* action_proposals: the binding a proposal was prepared with
  agreed,     \* history: the proposals whose confirmation found their binding active
  direct,     \* history: the actions a typed API request inserted, without a proposal
  presumed,   \* history: the actions a query took for failed that were not rejected
  status,     \* action_attempts.status
  pin,        \* the binding in the stored command
  provider,   \* what the provider behind each binding did with the key
  net,        \* requests under way
  pc,
  job,        \* the action and the binding a process works with
  answer      \* the outcome its connector returned

vars == <<up, config, shown, agreed, direct, presumed, status, pin, provider, net, pc, job,
          answer>>
historyVars == <<agreed, direct, presumed>>
actionVars == <<status, pin>>
outsideVars == <<provider, net>>

NoJob == [action |-> None, binding |-> None]

Init ==
  /\ up = {}
  /\ config = [p \in Process |-> {}]
  /\ shown = [q \in Proposal |-> None]
  /\ agreed = {}
  /\ direct = {}
  /\ presumed = {}
  /\ status = [a \in Action |-> "none"]
  /\ pin = [a \in Action |-> None]
  /\ provider = [a \in Action |-> [x \in Pins |-> "new"]]
  /\ net = {}
  /\ pc = [p \in Process |-> "idle"]
  /\ job = [p \in Process |-> NoJob]
  /\ answer = [p \in Process |-> None]

-------------------------------------------------------------------------------
(* Loading a configuration, and resolving a binding in it. *)

\* ActionRegistryConfig.unique_active_actions
Unique(c) ==
  /\ \A b, d \in c : b.enabled /\ d.enabled => b = d
  /\ \A b, d \in c : b.id = d.id /\ b.version = d.version => b = d

\* validate_rest_contract: what a provider may merely accept must be reconcilable.
RestContract(b) == b.async => b.reconcile

\* _validate_openapi: the document has the pinned digest and the operations used.
Pinned(b) == ~ b.drift

\* _build: there is no connector for WebSocket bindings.
Buildable(b) ==
  /\ Production => b.secure
  /\ b.transport = "rest"
  /\ RestContract(b) /\ Pinned(b)

Valid(c) == Unique(c) /\ \A b \in c : Buildable(b)

Active(p) == {b \in config[p] : b.enabled}

\* Slip: the pinned binding is ignored.
Resolve_Active(p, x) == Active(p)

\* resolve with a pinned binding: a missing id and version, or another contract under
\* them, raises.
Resolve(p, x) == {b \in config[p] : Pin(b) = x}

Free(p) == p \in up /\ pc[p] = "idle"

Goto(p, l, j) == pc' = [pc EXCEPT ![p] = l] /\ job' = [job EXCEPT ![p] = j]

\* A process starts; a configuration that does not validate keeps it down.
Start(p) ==
  /\ p \notin up
  /\ up' = up \cup {p}
  /\ \E c \in SUBSET Binding : Valid(c) /\ config' = [config EXCEPT ![p] = c]
  /\ UNCHANGED <<shown, historyVars, actionVars, outsideVars, pc, job, answer>>

\* It stops, for a deployment or by a crash, at any point.
Stop(p) ==
  /\ p \in up
  /\ up' = up \ {p}
  /\ config' = [config EXCEPT ![p] = {}]
  /\ Goto(p, "idle", NoJob)
  /\ answer' = [answer EXCEPT ![p] = None]
  /\ UNCHANGED <<shown, historyVars, actionVars, outsideVars>>

-------------------------------------------------------------------------------
(* The path of an action. *)

\* propose stores the active binding.
Propose(p, q) ==
  /\ p \in Api /\ Free(p)
  /\ shown[q] = None
  /\ \E b \in Active(p) : shown' = [shown EXCEPT ![q] = Pin(b)]
  /\ UNCHANGED <<up, config, historyVars, actionVars, outsideVars, pc, job, answer>>

\* Slip: the binding is not compared.
Confirm_AnyBinding(p, q) ==
  /\ p \in Api /\ Free(p)
  /\ shown[q] # None
  /\ Active(p) # {}
  /\ agreed' = IF \E b \in Active(p) : Pin(b) = shown[q] THEN agreed \cup {q} ELSE agreed
  /\ Goto(p, "authorize", [NoJob EXCEPT !.action = KeyOf[q]])
  /\ UNCHANGED <<up, config, shown, direct, presumed, actionVars, outsideVars, answer>>

\* confirm goes on while the binding of the proposal is still the active one.
Confirm(p, q) ==
  /\ p \in Api /\ Free(p)
  /\ \E b \in Active(p) : Pin(b) = shown[q]
  /\ agreed' = agreed \cup {q}
  /\ Goto(p, "authorize", [NoJob EXCEPT !.action = KeyOf[q]])
  /\ UNCHANGED <<up, config, shown, direct, presumed, actionVars, outsideVars, answer>>

\* The typed APIs submit an action under a key with no proposal.
SubmitDirect(p, a) ==
  /\ p \in Api /\ Free(p)
  /\ Goto(p, "submit", [NoJob EXCEPT !.action = a])
  /\ UNCHANGED <<up, config, shown, historyVars, actionVars, outsideVars, answer>>

\* submit and authorize: an action stored under the key is used as it is, a new one
\* is stamped with the active binding.
Authorize(p) ==
  /\ pc[p] \in {"authorize", "submit"}
  /\ LET a == job[p].action
     IN  IF status[a] # "none"
         THEN UNCHANGED <<actionVars, direct>>
         ELSE /\ status' = [status EXCEPT ![a] = "authorized"]
              /\ \E b \in Active(p) : pin' = [pin EXCEPT ![a] = Pin(b)]
              /\ direct' = IF pc[p] = "submit" THEN direct \cup {a} ELSE direct
  /\ Goto(p, "dispatch", job[p])
  /\ UNCHANGED <<up, config, shown, agreed, presumed, outsideVars, answer>>

\* The key has another command, no binding is active, or submit refuses otherwise.
SubmitRaises(p) ==
  /\ pc[p] \in {"authorize", "submit"}
  /\ Goto(p, "idle", NoJob)
  /\ UNCHANGED <<up, config, shown, historyVars, actionVars, outsideVars, answer>>

\* dispatch resolves the pinned binding and claims the action.
Claim(p, a) ==
  /\ status[a] = "authorized"
  /\ \E b \in Resolve(p, pin[a]) : Goto(p, "execute", [action |-> a, binding |-> b])
  /\ status' = [status EXCEPT ![a] = "dispatched"]
  /\ UNCHANGED <<up, config, shown, historyVars, pin, outsideVars, answer>>

DirectDispatch(p) == pc[p] = "dispatch" /\ Claim(p, job[p].action)

\* The action is not authorized any more, or its binding is not configured here.
DirectReturns(p) ==
  /\ pc[p] = "dispatch"
  /\ status[job[p].action] # "authorized" \/ Resolve(p, pin[job[p].action]) = {}
  /\ Goto(p, "idle", NoJob)
  /\ UNCHANGED <<up, config, shown, historyVars, actionVars, outsideVars, answer>>

\* A worker delivers from the outbox; while the binding is missing the row is retried.
WorkerDispatch(p, a) == p \in Worker /\ Free(p) /\ Claim(p, a)

\* reconcile: a dispatch nobody finished becomes unknown; then the provider of the
\* pinned binding is asked, if it is configured here and can be asked.
Reconcile(p, a) ==
  /\ p \in Worker /\ Free(p)
  /\ status[a] \in {"dispatched", "unknown"}
  /\ status' = [status EXCEPT ![a] = "unknown"]
  /\ LET askable == {b \in Resolve(p, pin[a]) : b.reconcile}
     IN  \/ \E b \in askable : Goto(p, "query", [action |-> a, binding |-> b])
         \/ askable = {} /\ UNCHANGED <<pc, job>>
  /\ UNCHANGED <<up, config, shown, historyVars, pin, outsideVars, answer>>

-------------------------------------------------------------------------------
(* RestActionConnector. *)

Request(p) == [from |-> p, op |-> pc[p], action |-> job[p].action, pin |-> Pin(job[p].binding)]

\* _execute sends the request, with the idempotency key in its header.
Send(p) ==
  /\ pc[p] \in {"execute", "query"}
  /\ net' = net \cup {Request(p)}
  /\ Goto(p, IF pc[p] = "execute" THEN "executing" ELSE "querying", job[p])
  /\ UNCHANGED <<up, config, shown, historyVars, actionVars, provider, answer>>

Returns(p, outcome) ==
  /\ answer' = [answer EXCEPT ![p] = outcome]
  /\ Goto(p, IF pc[p] \in {"execute", "executing"} THEN "record" ELSE "settle", job[p])

\* _request finds no secret or no mapping source: dispatch takes it for unknown,
\* and the reconciliation worker goes on to the next action.
RequestRaises(p) ==
  /\ \/ pc[p] = "execute" /\ Returns(p, "unknown")
     \/ pc[p] = "query" /\ Goto(p, "idle", NoJob) /\ UNCHANGED answer
  /\ UNCHANGED <<up, config, shown, historyVars, actionVars, outsideVars>>

\* Slip: a timeout counts as a failure.
TimesOut_Failed(p) ==
  /\ pc[p] \in {"executing", "querying"}
  /\ Returns(p, "failed")
  /\ UNCHANGED <<up, config, shown, historyVars, actionVars, outsideVars>>

\* The request or its answer is late or lost.
TimesOut(p) ==
  /\ pc[p] \in {"executing", "querying"}
  /\ Returns(p, "unknown")
  /\ UNCHANGED <<up, config, shown, historyVars, actionVars, outsideVars>>

\* Slip: every 2xx status means success.
Outcome_AnySuccess(code) ==
  IF code \in {200, 202} THEN "succeeded"
  ELSE IF code \in {401, 404, 409} THEN "failed" ELSE "unknown"

\* The default HttpStatusMapping.
Outcome(code) ==
  IF code = 200 THEN "succeeded" ELSE IF code \in {401, 404, 409} THEN "failed" ELSE "unknown"

\* What a provider may make of a request in state s: its next state and the answer.  It
\* may also turn a query away without looking.
Handled(op, s) ==
  IF op = "execute" /\ s = "new"
  THEN {<<"done", 200>>, <<"pending", 202>>, <<"rejected", 409>>, <<"new", 500>>, <<"done", 500>>}
  ELSE {h \in {<<"done", 200>>, <<"pending", 202>>, <<"rejected", 409>>, <<"new", NotFound>>} :
          h[1] = s}
       \cup {h \in {<<s, 401>>} : op = "query"}

Waiting(op) == IF op = "execute" THEN "executing" ELSE "querying"

\* A request reaches its provider; the answer is for whoever still waits for it.
Arrives(r) ==
  /\ \E h \in Handled(r.op, provider[r.action][r.pin]) :
       /\ provider' = [provider EXCEPT ![r.action][r.pin] = h[1]]
       /\ IF pc[r.from] = Waiting(r.op) /\ job[r.from].action = r.action
          THEN /\ Returns(r.from, Outcome(h[2]))
               /\ presumed' = IF r.op = "query" /\ Outcome(h[2]) = "failed" /\ h[1] # "rejected"
                              THEN presumed \cup {r.action} ELSE presumed
          ELSE UNCHANGED <<pc, job, answer, presumed>>
  /\ net' = net \ {r}
  /\ UNCHANGED <<up, config, shown, agreed, direct, actionVars>>

Lost(r) ==
  /\ net' = net \ {r}
  /\ UNCHANGED <<up, config, shown, historyVars, actionVars, provider, pc, job, answer>>

\* The provider finishes what it accepted.
ProviderSettles(a, x) ==
  /\ provider[a][x] = "pending"
  /\ \E s \in {"done", "rejected"} : provider' = [provider EXCEPT ![a][x] = s]
  /\ UNCHANGED <<up, config, shown, historyVars, actionVars, net, pc, job, answer>>

\* record_outcome, and reconcile's translation of a success.
Allowed ==
  ({"dispatched"} \X {"succeeded", "failed", "unknown"})
    \cup ({"unknown"} \X {"unknown", "failed", "reconciled"})

\* Slip: the outcome is written whatever the status is by now.
Record_NoCompare(p) ==
  /\ pc[p] \in {"record", "settle"}
  /\ LET a == job[p].action
         s == IF pc[p] = "settle" /\ answer[p] = "succeeded" THEN "reconciled" ELSE answer[p]
     IN  status' = [status EXCEPT ![a] = s]
  /\ Goto(p, "idle", NoJob)
  /\ answer' = [answer EXCEPT ![p] = None]
  /\ UNCHANGED <<up, config, shown, historyVars, pin, outsideVars>>

Record(p) ==
  /\ pc[p] \in {"record", "settle"}
  /\ LET a == job[p].action
         s == IF pc[p] = "settle" /\ answer[p] = "succeeded" THEN "reconciled" ELSE answer[p]
     IN  status' = [status EXCEPT ![a] = IF <<@, s>> \in Allowed THEN s ELSE @]
  /\ Goto(p, "idle", NoJob)
  /\ answer' = [answer EXCEPT ![p] = None]
  /\ UNCHANGED <<up, config, shown, historyVars, pin, outsideVars>>

-------------------------------------------------------------------------------
ProcessStep(p) ==
  \/ Start(p) \/ Stop(p)
  \/ \E q \in Proposal : Propose(p, q) \/ Confirm(p, q)
  \/ Authorize(p) \/ SubmitRaises(p) \/ DirectDispatch(p) \/ DirectReturns(p)
  \/ \E a \in Action : SubmitDirect(p, a) \/ WorkerDispatch(p, a) \/ Reconcile(p, a)
  \/ Send(p) \/ RequestRaises(p) \/ TimesOut(p) \/ Record(p)

Next ==
  \/ \E p \in Process : ProcessStep(p)
  \/ \E r \in net : Arrives(r) \/ Lost(r)
  \/ \E a \in Action, x \in Pins : ProviderSettles(a, x)

Spec == Init /\ [][Next]_vars

-------------------------------------------------------------------------------
(* Properties. *)

\* Every variable has the type the schema and the code give it; a process that is
\* not running has no work, and a running one has at most one binding to use.
TypeOK ==
  /\ up \subseteq Process
  /\ config \in [Process -> SUBSET Binding]
  /\ \A p \in Process : /\ \A b, d \in Active(p) : b = d
                        /\ p \notin up => pc[p] = "idle"
  /\ shown \in [Proposal -> Pins \cup {None}]
  /\ agreed \subseteq Proposal
  /\ direct \subseteq Action
  /\ presumed \subseteq Action
  /\ status \in [Action -> {"none", "authorized", "dispatched", "succeeded", "failed",
                            "unknown", "reconciled"}]
  /\ pin \in [Action -> Pins \cup {None}]
  /\ provider \in [Action -> [Pins -> {"new", "pending", "done", "rejected"}]]
  /\ net \subseteq [from : Process, op : {"execute", "query"}, action : Action, pin : Pins]
  /\ pc \in [Process -> {"idle", "authorize", "submit", "dispatch", "execute", "query",
                         "executing", "querying", "record", "settle"}]
  /\ job \in [Process -> [action : Action \cup {None}, binding : Binding \cup {None}]]
  /\ answer \in [Process -> {"succeeded", "failed", "unknown", None}]

\* An action that comes from a proposal is stamped with a binding that a confirmed
\* proposal for its key showed, although authorize selects the active binding anew:
\* deployments between the proposal, its confirmation and the authorization never redirect
\* it.  Only an action that a typed API request inserted was shown to nobody.
StampedAsShown ==
  \A a \in Action : pin[a] # None =>
    a \in direct \/ \E q \in agreed : KeyOf[q] = a /\ shown[q] = pin[a]

\* "Binding IDs, binding versions, and contract versions are stamped by the server
\* during authorization and used for later dispatch/reconciliation"
\* (docs/action-bridge.md:119): whatever the processes load later, no other provider
\* is sent the action or asked about it.
OneProvider ==
  \A a \in Action :
    /\ \A x \in Pins : provider[a][x] # "new" => x = pin[a]
    /\ \A r \in net : r.action = a => r.pin = pin[a]

\* "Only authoritative succeeded or reconciled action status permits a success claim"
\* (docs/action-bridge.md:91): the provider has then done it, also when answers come
\* late, a request was accepted only, or another worker reconciled in the meantime.
SuccessIsDone ==
  \A a \in Action : status[a] \in {"succeeded", "reconciled"} => provider[a][pin[a]] = "done"

\* Timeouts, lost, late and repeated answers and server errors are not taken for
\* failures: an action recorded as failed was rejected by its provider, which never acts
\* on it, unless a status query was answered with a code that the status map of
\* registry.py counts as a failure although it decides nothing.
FailedIsNotDone ==
  \A a \in Action : status[a] = "failed" /\ a \notin presumed =>
    /\ provider[a][pin[a]] \notin {"done", "pending"}
    /\ \A r \in net : r.op = "execute" => r.action # a

\* An action takes effect where the provider it is pinned to has done it.
Effect == [a \in Action |-> pin[a] # None /\ provider[a][pin[a]] = "done"]

\* What is known of an action: one that was only presumed to have failed may still act.
Known == [a \in Action |->
            IF status[a] = "failed" /\ a \in presumed THEN "unknown" ELSE status[a]]

\* Across deployments, actions follow the same lifecycle as within one: the registry,
\* its connectors and the providers implement it, where a failure that no provider
\* reported counts as unknown.
Lifecycle == INSTANCE ActionLifecycle WITH Action <- Action, status <- Known, effect <- Effect
ImplementsLifecycle == Lifecycle!Spec

\* "never map a transport timeout to business failure unless the provider proves no
\* commit occurred" (docs/integration-guide.md:45-46): what is recorded as failed is not
\* done by the provider, now or later.
FailureMeansNoCommit ==
  \A a \in Action : status[a] = "failed" => provider[a][pin[a]] # "done"

===============================================================================
