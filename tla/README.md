# A TLA+ model of the workflow engine

The engine lets a language-model agent *propose* consequential actions (refunds,
disputes, account flags) and keeps everything that decides whether they happen in
ordinary code around a SQLite store: proposals a host confirms, cases with verified
facts, actions with an outbox, policies, an inbox for channel messages and handoffs to
human agents. This directory models that code. What makes it hard to get right is not
any single statement but the gaps between them: almost every operation is a read, some
Python and a write in another transaction, and several requests, workers and providers
run in those gaps.

## The system

| part | state | operations | interacts with |
|---|---|---|---|
| Action delivery (`core/gateway.py`, `core/workers.py`, `core/kernel.py`) | `action_attempts`, `core_outbox`, the provider's effects | authorize, lease, claim, dispatch, record, complete or fail, reconcile | everything below ends here |
| Case authorization (`core/action_service.py`, `core/kernel.py`) | `workflow_cases` with a version, `case_facts`, actions | submit: create the case, append facts, check them, insert the action | loads resources, feeds delivery |
| Action bridge (`actions/bridge.py`) | `action_proposals` | propose, confirm, cancel, status, expiry, recovery | submits to case authorization |
| Policy governance (`core/policy.py`, `core/policy_store.py`) | `policy_packages` | draft, approve, activate, retire | checked at authorization and dispatch |
| Conversation inbox (`core/kernel.py`, `conversation/`) | `conversation_inbox_v3`, `conversation_sequences` | accept, quarantine, resend, turn | turns create proposals |
| Handoff (`conversation/runtime.py`, `main.py`) | `handoffs`, the platform's tickets | create, enqueue, callbacks | agent platform |
| Turns (`main.py`, `tools/action_proposals.py`, `auth/`) | ADK sessions with queued intents, proposals | load or create a session, run the agent, queue, drain, confirm, cancel | inbox before it, bridge after it |
| Guardrails (`agents/guardrails.py`, `reasoning.py`, `compliance.py`) and read tools | session facts, the candidate answer | look up, verify, rewrite, fall back | runs inside a turn |
| Connector registry (`integrations/registry.py`) | the bindings each process loaded, the pin of an action | start, resolve, send, time out, record | delivery across deployments |
| Procedure executor (`procedures/`) | one executor per session, session keys | load, start, enter, transition, complete, escalate | writes the audit trail |
| Audit trail (`audit/logger.py`, `database/`) | `audit_trail` | append, backfill, verify | written by everything |

Hard behaviours: stale reads at every await; lease expiry under a live worker; a provider
that commits and then times out; crashes between any two transactions; messages repeated
and reordered; a time-to-live that passes in the middle of a confirmation; batches with a
limit; a deployment that changes the configuration under actions already on their way; a
session copy that is stale when it is used. `PROJECT.json` lists each of them at its line.

## Modules

Each module names the source files it models; the line of every definition is in
`PROJECT.json`. Every await between two transactions is a program location (`pc`), so a
step of a model is one SQLite transaction or one provider call. A definition whose name
has a suffix (`Known_Never`) and a comment "Slip:" is a plausible mistake in the
definition that follows it; it is not part of the specification and only shows that a
property would notice.

- **ActionLifecycle** is what a caller may rely on: an action is authorized, claimed,
  committed at most once and reported truthfully.
- **ActionDelivery** is the machinery: request handlers dispatch what they authorized,
  workers lease outbox rows in batches and dispatch or settle them, reconcilers list
  unknown and stale rows and query the provider. `pc`, `cur`, `seen` and `out` are what
  a coroutine holds across an await. Time is two flags per row, `ready` (available or
  lease expired) and `stale` (older than `dispatch_stale_seconds`). The provider is the
  sandbox connector with its four scenarios; it may also raise. It implements
  ActionLifecycle. A process whose store call raises unexpectedly behaves as in `Crash`.
  The compare-and-set and re-read inside `record_outcome` when a reconciler marks a row
  unknown are one step: the re-read is of the row just written.
- **CaseAuthorization** has one case that requests of one or two customers use; a fact is
  the resource and content it was derived from. Contents may change and change back.
- **ActionBridge** has proposals for refunds of orders; an order has a version and a
  value, so a value may return under another version. The action of an order stands for
  the rows of the idempotency key `_idempotency_key` computes. Service clients submit under
  the same key without a proposal, through `/core/refunds` (`RefundCommand`) and
  `/core/actions` (`ActionCommand`); whether a submission meets an equal or another payload
  under its key is decided in `SubmitLookup`.
- **PolicyLifecycle** has requests that read a package and write it back whole. The
  activation signature is the pair of author and approver: the HMAC of a package is
  determined by them and by content that never changes after drafting. The in-process
  registry is not consulted when a resolver is configured, as `main.py` does.
- **ConversationInbox** has one provider and several conversations; acceptance is one
  transaction, the turn a later step that may be lost.
- **ConversationTurn** extends the inbox with what a turn does between acceptance and its
  answer: the endpoint and role it came in by, the stored session, the agent's own copy of
  it, the intents the tools queue, and the proposals the turn drains from the copy it
  loaded first. Consent is an input of the one request that asks for it
  (`/conversations/turns`): the chat and WebSocket endpoints and the IVR intake ask for none,
  and a refusal leaves no trace. It implements ConversationInbox. **AccessCatalog** holds
  the tables and checks it uses: permissions of roles, who may serve whom, the policy of an
  action, the resource an action needs and the refund decision.
- **SessionFacts** has the read tools and the session keys they leave; **ResponseRails**
  extends it with steering. A text is the set of things the patterns find in it, so the
  rails are the guards and formulas of the code over that set and the session's facts.
  `main.py` passes no rewriting function; `canRewrite` covers both cases. The pattern for
  amounts also matches commas alone, which `float` does not parse (`bare`): a check that
  reads the amounts then raises, and the turn ends without an answer (`Fail`).
  `lookup_order` does not compare owners in a session without a customer (crm_tools.py:39);
  every endpoint that runs a turn requires one, so the model has no such session.
- **ConnectorBindings** has processes that load a configuration when they start, one
  action name, and a network that delays and loses requests and answers. A provider may
  accept a request and finish later. An action comes from a confirmed proposal or from a
  typed API (`SubmitDirect`), which shows nobody a binding and is stamped with the active
  one. `presumed` remembers the actions whose failure is taken from an answer that decides
  nothing. It implements ActionLifecycle, the same abstract
  specification as ActionDelivery: there races on a row within one configuration, here one
  row across configurations.
- **AuditTrail** is the hash chain; a hash is the sequence of contents it covers, that is,
  collision free. `Edit` and `DeleteMiddle` are changes from outside the engine, there to
  say what `verify_chain` detects. **ProcedureExecutor** extends it: the executor's calls
  give way at exit hooks and at the audit write, so calls on one executor interleave. The
  application creates no executor itself (main.py:270 and 2093-2119 only read the registry
  of procedures): the model is of the class, for a host that shares an executor.
- **Handoff** has one handoff; callbacks are any status and any agent at any time after
  the ticket exists, which covers delay, repetition and reordering.
- **MC...** modules give the constants values and define symmetry; **...Proofs** modules
  hold the theorems. CaseKernelProofs is about CaseAuthorization and Handoff,
  ActionGovernanceProofs about ActionBridge and PolicyLifecycle,
  ConversationProofs about ConversationInbox and ConversationTurn, ProcedureExecutorProofs
  about AuditTrail and ProcedureExecutor, ResponseRailsProofs about SessionFacts and
  ResponseRails; ConnectorBindingsSteps holds the first half of ConnectorBindingsProofs, and
  ActionDeliveryProofs is about ActionDelivery.

## Runs

Passing runs:

| run | instance | shows |
|---|---|---|
| DeliveryRaces | 1 action, 1 handler, 2 workers, 1 reconciler, 2 attempts, 1 fault | one dispatch at most, truthful status, no lost row, refinement |
| DeliveryLiveness | 1 action, 1 of each process, 2 attempts, 2 faults | authorized actions are dispatched or quarantined, claimed ones are left, effects are reported |
| CaseRaces | 2 requests, 3 resources of 2 customers, 2 contents, 2 facts per action | actions match the facts; customers stay apart; the version counts writes |
| BridgeRaces | 2 proposals on 1 order, 2 hosts or service clients, 2 values, 1 reason, 1 change | every action was requested with its values, evidence stands for the payload shown, confirmed means an action exists, decisions are final |
| PolicyRaces | 3 packages of a scope (1 installed at start-up), 3 requests, 2 people, 1 action | one active package, no mixed rows, approver differs from author, authorized actions stay verifiable unless an update is lost |
| InboxRaces | 6 messages of 2 conversations, one without and two with the same number, 2 requests, fair resending | one turn at most, acceptance in order and without gaps, quarantine ends |
| HandoffRaces | 2 agents, 2 callbacks in flight, the creating request | one holder, queued means a ticket, only allowed moves |
| TurnRaces | 3 messages of a conversation, one after a gap and one without a number, 2 handlers, 3 actors, one with two roles, an order of the customer and one of another | proposals are entitled and asked for, the inbox is implemented |
| RailsSteering | 1 customer of 2, 3 orders at and past the age limit, 2 disputes, 1 tool call per turn, 2 rewrites | tools leave only the customer's facts, answers respect them, the fallback has a reason, every turn ends with an answer unless an amount does not parse |
| BindingDeployments | 1 action, 2 proposals for it, 1 API process, 1 worker, 7 bindings, some of them invalid | stamped as shown, one provider, truthful success and failure, refinement |
| ExecutorRaces | 3 files (2 invalid in different ways), 2 executors, 2 callers, 3 calls, 3 audit records | only known steps are entered, session and audit trail agree with the executor, tampering is detected |

The instances are small but hold the races the code can have on one row: two processes
that compete for it, and two rows where an idempotency key, a case or a scope couples
them. A batch of one already separates the lease of a row from its processing; batches of
any size are covered by the proofs. `MaxFaults` bounds faults in liveness runs (an endless series of
faults excuses everything), `MaxAttempts` and the limits are parameters of the code,
`MaxVersion` and `MaxCase` bound how often an order or a case changes, `MaxCalls` and
`MaxTrail` the life of an executor and of its trail, `MaxTools` the tools of one turn
(facts stay in the session, so later turns see what several left), and `MaxDirect` the
proposals made outside turns. Configurations in BindingDeployments need no bound: a
process restarts as often as it likes with any valid subset of the bindings.
Its two processes are enough for the answers to a dispatch and to a query to be recorded in
either order; more workers are covered by the proofs.
Type invariants and inductive invariants are not among the properties of the runs: they
are theorems (see Proofs), and each was first checked with TLC on the instance of its run.
So were the action properties `OutcomeIsFinal` and `SignatureIsFinal`, which are stated as
theorems only.
Deadlock is not checked where the system may really be done: all proposals settled, all
packages retired, a handoff back with the bot.

One run ends in a violation of a sentence of the documentation: **BindingPresumed**
(docs/integration-guide.md:45-46, "never map a transport timeout to business failure unless
the provider proves no commit occurred"). A request is late and reconciliation asks for its
status before it has arrived: the answer is 404, which the default status map counts as a
failure (integrations/registry.py:64, docs/action-bridge.md:178), and the action is recorded
as failed although the provider commits it. The properties
of BindingDeployments and the refinement are stated around it: a failure that was presumed
in this way (`presumed`) counts as unknown.

## Known divergences

Other places where code and documents disagree. The models follow the code, and the
properties state what holds in spite of them.

- A confirmation that is overtaken by the time-to-live or a cancel, or dies after its
  submit (actions/bridge.py:198-213), leaves an expired or cancelled proposal with an action
  that is executed; docs/ui.md:83-84 says "Cancel creates no effect" and that expired
  proposals "produce an error instead of execution". `ActsAreRequested` still holds: a host
  had asked for it.
- `_recover_confirmed` (actions/bridge.py:377) links whatever action has the order's
  idempotency key without comparing parameters, so cancelling a proposal can confirm it
  with the action of another proposal or of a service client; docs/action-bridge.md:63 says
  "Pending --> Confirmed: host confirms and typed action is submitted". Such a proposal
  has no confirmation evidence, and `EvidenceIsForShown` is about those that have it.
- `transition` validates its target, awaits the exit hooks and the audit write, and then
  enters the target without looking again (procedures/executor.py:264-327): a call that
  overlaps another can enter a step that is no target of the current one, or a step of a
  completed procedure, where executor.py:83-84 says the executor "validates all
  transitions". `EntersKnownStep` and `SessionFollows` hold for such calls too.
- The comment at main.py:1009-1010 says a failed proposal cannot be replayed on the next
  turn, but line 1011 clears the list of a detached copy and nothing stores it: intents are
  drained again in every later turn of the session (`Drain` in ConversationTurn).
- The IVR intake (main.py:1170) accepts a message and starts no turn; the same message sent
  to the turn endpoint afterwards is a duplicate.
- The reconciler lists the oldest unknown rows (core/workers.py:92); when as many as the
  limit stay unknown, a younger row is never queried, against docs/core-engine.md:69-71.
- `save` (core/policy_store.py:74) overwrites a package whatever its state: a slow approval
  can take an active or retired one back, against the lifecycle of docs/governance.md:5.
  So can an activation that read a package before another request activated and retired it
  (`ReplaceActive`): the package is active again, with the signature it had.
- The first sequence number of a conversation is accepted whatever it is
  (core/kernel.py:800) and the numbers before it are then answered as duplicates, where
  docs/channels.md:22 says "Out-of-order messages are quarantined."
- The rails read the order's total, age and status from session keys that no tool writes
  (agents/reasoning.py, agents/compliance.py:126-133); unless a host fills them in, the
  checks they belong to do not apply (`host` in ResponseRails).

## Fairness

Workers and reconcilers are weakly fair because `worker.py` polls for ever and catches
what an iteration raises; clocks advance. Nothing is assumed of request handlers, which
may die anywhere. InboxRaces assumes a provider that sends each message again until it
is answered as accepted or duplicate, as docs/channels.md:22-23 asks of providers, and
turns that end, in whatever way. RailsSteering assumes that `steer_response`, once entered,
goes on (`FairSpec`): it is one coroutine, and a rewrite that hangs is outside the model.
The theorems are about the specifications without fairness, and so about those with it;
the other modules state safety only and assume none.

## Proofs

Every safety property of a passing run is also a theorem. The theorems hold for every
number of actions, processes, proposals, customers and hosts, every batch limit and every
number of faults, calls, records and rewrites, for every set of procedures and texts, and
for the concrete role and policy tables of `AccessCatalog`. They use the named assumption
of the module they are about, which TLC evaluates in the runs:

- distinguished values ("no action", "nothing") lie outside the sets they are told apart
  from, kinds of processes are disjoint, and bounds are numbers (all modules);
- the set of actions is finite (`DeliveryAssumption`);
- v2 and forged records have the shape of records, and no hash is the missing one
  (`TrailAssumption`); a procedure that passes validation has a first step among its
  steps, and there is one (`ExecutorAssumption`);
- actions are those of the catalogue (`TurnAssumption`);
- totals, ages and disputed amounts are integers and amounts in texts are not negative, as
  the pattern that finds them has no sign (`RailsAssumption`).

A property alone is seldom inductive. Each module strengthens it by what a process in the
middle of an operation still knows of the state it read:

- **ActionDeliveryProofs**: `DeliveryInv`. At-most-one dispatch alone is not inductive:
  a state with two processes inside the connector for one action satisfies it and leads to
  one that does not. The strengthening says what a process past a check still knows:
  only one process is between claim and record of an action (`OneOwner`), nothing was
  called or committed before (`NotYetCommitted`), and the outcome about to be written
  agrees with the provider (`TruthfulOutcome`). It gives `DispatchedOnce`, `NothingLost`,
  `StatusIsTruthful` and, with it as a hypothesis, the step simulation of
  `DeliveryRefinesLifecycle`. Through it the action property of the abstract module holds
  of the delivery (`DeliveredIsFinal`): a terminal status and the effect behind it stay
  (`OutcomeIsFinal`). Most actions change no status, effect or call count; they
  share `MoveKeepsInv`, which reduces them to what the moving process may hold (`MayHold`)
  and which rows must stay (`RowsKept`). The claim, the connector's call and commit, and
  the compare-and-set of `transition_action` are proved conjunct by conjunct.
- **CaseKernelProofs**: `CaseInv` adds that a request works only in a case of its
  own customer, and that the facts it has checked are still there or the version it will
  compare has been left behind. It gives `CasesAreIsolated` and `ActionsMatchFacts`.
  `VersionsCountWrites` needs one more fact, that a case without a row has version 0
  (`NewCaseHasNoVersion`), or creating the row could take the version back. For the
  handoff the invariant adds that a request past its table lookup wants a status
  the table allows for the one it read, and asks for queued only with a ticket. It gives
  `HeldByOne`, `QueuedHasTicket` and `OnlyAllowedMoves`.
- **ActionGovernanceProofs**: for the bridge, `BridgeInv` adds that a request past the confirmation checks
  holds a proposal a host asked to confirm, and that one about to confirm or recover has
  an action. A submission that has found or inserted its action, and a proposal with
  evidence, agree with the action under their key, which never changes once inserted. It gives
  `RequestedActsOnly`, `ShownIsExecuted`, `ConfirmedIsLinked` and `OneDecision`.
  For the policies the invariant adds what a request that read earlier may still
  write: everything about to be stored is signed like a stored row (`RowsAreSigned`), a save
  never stores an active package (`Intentions`), and as long as no save moved a package
  other than one step forward, author and approver are those every such request read
  (`ReadsAgree`). It gives `ActiveIsUnique`, `ApprovalIsSeparate` and
  `StampStaysVerifiable`. Every write forwards the row (`Forwarded`), which gives the action
  property `SignatureStays`: a package that has been active keeps its persons and signature.
- **ConversationProofs**: for the inbox, that a running turn's message is accepted and is
  nobody else's, and that the last sequence is that of the last sequenced message in the
  log: `TurnHappensOnce`, `NoGaps`. `TurnRefinesInbox` is a step simulation without an
  invariant, since the inbox's variables are shared; it carries both theorems over to the
  composition (`TurnsKeepOrder`). `ProposalsWereAsked` rests on an
  invariant about every place an intent can be in (stored session, copy to drain, copy of
  the agent); the type correctness it needs comes from the inbox through the refinement.
  `OnlyEntitledProposals` follows from `AccessInv`, which says of
  every turn under way that its role may serve its customer (`Admitted`) and of every
  proposal who made it, under which policy and for whose resource (`Entitled`). The
  argument is the one the code relies on: sessions keep the role they were created with,
  so what a tool allows is not enough, and every proposal and confirmation asks again with
  the role of the request. `RoleTables` and `PolicyLists` compute what the tables say.
- **ConnectorBindingsSteps** (the invariant, and the steps of processes) and
  **ConnectorBindingsProofs** (providers, outcomes, the theorems): `BindingInv` says that a
  process between resolving and recording uses the pin of its action (`CallsArePinned`),
  that one request to execute exists per action and none before it is claimed
  (`OneExecution`), and that an answer on its way to the row agrees with the provider
  (`SuccessesAreReal`, `FailuresAreReal`). It gives `StampIsShown`, `PinIsUsed`,
  `SuccessIsReal` and, for whatever code an unseen key is answered with, `FailureIsReal`,
  `BindingRefinesLifecycle` and, through it, `BoundIsFinal`: the last three take a failure
  for what it is only where the provider reported it.
- **ProcedureExecutorProofs**: `TrailInv` says that the newest hash covers everything that
  was recorded, and that each hash covers the records before it as long as none was
  deleted. So a table that verifies is the ledger (`TrailTellsTampering`), without
  induction over the trail: a hash is the sequence of contents it covers, so the last one
  speaks for the whole table. `ExecutorInv` adds what a call that gave way holds: its target is a step of
  a validated procedure (`StepsAreKnown`, `CallsAreShaped`), the session agrees with the
  executor up to the writes the call still owes (`SessionAgrees`), and unless calls raced
  there is one call in flight (`OneCall`) and its record is the newest or is about to be
  (`RecordsExplain`). It gives `KnownStepsOnly`, `SessionShowsExecutor`,
  `NewestRecordExplains` and, for the composition, `ExecutorTrailTells`.
- **ResponseRailsProofs**: `RailsInv` ties a text to the verdict on it: a candidate that
  waits for a rewrite was refused, and what was sent is a candidate that passed or the
  fallback for one that did not (`CandidateInv`). The verdict stays true because host keys
  and loaded facts do not change before the turn ends. `ReasoningFindsErrors` and
  `ComplianceFindsErrors` compare the checks of the code with what they promise
  (`Respects`, `RespectsCompliance`), for every text and every set of facts. Together they
  give `SentTextRespects` and `FallbackIsLastResort`; `FactsAreOwn` follows from `ToolFacts`.

Most leaves name Zenon: they are first-order steps, and the prover's SMT translation slows
down with every obligation it has handled in a module. Leaves about arithmetic, sequences,
records and string-valued sets are left to the default.

Only model-checked: the liveness properties (`AuthorizedIsHandled`, `EffectIsReported`,
`DispatchedIsLeft`, `QuarantineEnds`, `AnswerIsSent`), since the prover has neither fairness
nor ENABLED, and the counterexample of BindingPresumed.

## Not modelled

Listed in `PROJECT.json` with reasons. In short: language-model calls, prompts, layout,
configuration and stateless request checks have no state to model. Left out of modelled
parts: key rotation, the actions of the bridge other than refunds (their keys determine
the payload), the number of provider queries, Python and SQLite bindings, plain connector
tables (which ignore pins, docs/action-bridge.md:119-120), permission overrides in tokens,
delivery receipts and outbound channel messages, speech adapters, the tools of an older interface that change records
directly and that no agent is given, `get_customer_profile`, the decisions of
`core/domains.py` other than refunds, and the rate limiter, whose only state is a list of
times per client in one process.
