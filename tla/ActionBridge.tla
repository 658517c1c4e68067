----------------------------- MODULE ActionBridge -----------------------------
(***************************************************************************)
(* The two-step bridge from a conversation to the action core: a host      *)
(* stores a proposal, and later confirms, cancels or asks for it.  Beside  *)
(* it are the typed APIs of service clients, which submit an action under  *)
(* the same key with no proposal at all.                                   *)
(*                                                                         *)
(*   actions/bridge.py       ActionBridge                                  *)
(*   main.py                 create_refund_command,                        *)
(*                           submit_consequential_action                   *)
(*   core/service.py         CoreEngine.process_refund                     *)
(*   core/kernel.py          create_action_proposal,                       *)
(*                           transition_action_proposal                    *)
(*   core/action_service.py  submit, as far as the bridge depends on it    *)
(*                                                                         *)
(* Host requests run concurrently, and every read and write of a store is  *)
(* a step of its own.  The core behind submit is reduced to the insertion  *)
(* of the action (CaseAuthorization), which a request or a worker then     *)
(* delivers (ActionDelivery).  The action is a refund: its idempotency key *)
(* is its order's, and does not determine the payload as the keys of the   *)
(* other actions do.                                                       *)
(***************************************************************************)
EXTENDS Integers

CONSTANTS
  Proposal,      \* proposal ids
  Order,         \* orders; the idempotency key of a refund is its order's
  OrderOf,       \* the order each proposal is about
  Value,         \* the authoritative values of an order (amount, payment method)
  Reason,        \* the free argument of a refund
  Host,          \* request handlers
  MaxVersion,    \* bound on the version of an order
  Nothing        \* no payload, no action, no proposal

\* What a proposal stores and an action executes.
Payload == Value \X Reason

\* What a service client submits, and whether submit compares it with the resource
\* adapter: /core/refunds brings along the order it read elsewhere.
Command == [order : Order, payload : Payload, compared : BOOLEAN]

Settled == {"confirmed", "cancelled", "expired"}

ASSUME BridgeAssumption ==
  /\ OrderOf \in [Proposal -> Order]
  /\ MaxVersion \in Nat
  /\ Nothing \notin Payload
  /\ Nothing \notin Proposal
  /\ Nothing \notin Command
  /\ Proposal \cap Command = {}

VARIABLES
  version,    \* the version of each order in the resource adapter
  value,      \* its authoritative values
  status,     \* action_proposals.status, "none" = no row
  payload,    \* action_proposals.payload_json
  based,      \* action_proposals.resource_version
  linked,     \* action_proposals.action_id is set
  evidence,   \* action_proposals.confirmation_evidence_ref is set
  late,       \* expires_at has passed
  action,     \* the payload of the action stored under the order's key
  by,         \* history: the confirmed proposal or the command that inserted it
  asked,      \* history: a confirmation of the proposal passed all its checks
  pc,
  cur         \* the proposal or the command a request works on

orderVars == <<version, value>>
proposalVars == <<status, payload, based, linked, evidence, late>>
actionVars == <<action, by, asked>>
hostVars == <<pc, cur>>
storeVars == <<orderVars, proposalVars, actionVars>>
vars == <<storeVars, hostVars>>

Location == {"idle", "verify", "lookup", "load", "insert", "dispatch", "confirm",
             "cancelLookup", "cancel", "recover", "expire"}

Init ==
  /\ version = [o \in Order |-> 0]
  /\ value \in [Order -> Value]
  /\ status = [p \in Proposal |-> "none"]
  /\ payload = [p \in Proposal |-> Nothing]
  /\ based = [p \in Proposal |-> 0]
  /\ linked = [p \in Proposal |-> FALSE]
  /\ evidence = [p \in Proposal |-> FALSE]
  /\ late = [p \in Proposal |-> FALSE]
  /\ action = [o \in Order |-> Nothing]
  /\ by = [o \in Order |-> Nothing]
  /\ asked = [p \in Proposal |-> FALSE]
  /\ pc = [h \in Host |-> "idle"]
  /\ cur = [h \in Host |-> Nothing]

Goto(h, l) ==
  /\ pc' = [pc EXCEPT ![h] = l]
  /\ cur' = IF l = "idle" THEN [cur EXCEPT ![h] = Nothing] ELSE cur

\* The order and the payload of the proposal or the command h works on.
OrderFor(h) == IF cur[h] \in Proposal THEN OrderOf[cur[h]] ELSE cur[h].order
PayloadFor(h) == IF cur[h] \in Proposal THEN payload[cur[h]] ELSE cur[h].payload

\* Each method starts with _get_owned: it reads the row, and goes on by what it read.
Start(h, p, l) ==
  /\ pc[h] = "idle"
  /\ pc' = [pc EXCEPT ![h] = l]
  /\ cur' = [cur EXCEPT ![h] = p]
  /\ UNCHANGED storeVars

\* Slip: the UPDATE has no AND status=expected.
Transition_NoCompare(h, s, link, proof) ==
  /\ status' = [status EXCEPT ![cur[h]] = s]
  /\ linked' = [linked EXCEPT ![cur[h]] = @ \/ link]
  /\ evidence' = [evidence EXCEPT ![cur[h]] = @ \/ proof]
  /\ Goto(h, "idle")
  /\ UNCHANGED <<orderVars, payload, based, late, actionVars>>

\* transition_action_proposal from PENDING to s: a compare-and-set on the status, with
\* the action id and the evidence where the caller has them.
Transition(h, s, link, proof) ==
  /\ IF status[cur[h]] = "pending"
       THEN /\ status' = [status EXCEPT ![cur[h]] = s]
            /\ linked' = [linked EXCEPT ![cur[h]] = @ \/ link]
            /\ evidence' = [evidence EXCEPT ![cur[h]] = @ \/ proof]
       ELSE UNCHANGED <<status, linked, evidence>>
  /\ Goto(h, "idle")
  /\ UNCHANGED <<orderVars, payload, based, late, actionVars>>

-------------------------------------------------------------------------------
\* propose: authoritative values are read from the order and stored.
Propose(p, reason) ==
  /\ status[p] = "none"
  /\ status' = [status EXCEPT ![p] = "pending"]
  /\ payload' = [payload EXCEPT ![p] = <<value[OrderOf[p]], reason>>]
  /\ based' = [based EXCEPT ![p] = version[OrderOf[p]]]
  /\ UNCHANGED <<orderVars, linked, evidence, late, actionVars, hostVars>>

\* confirm: only a pending proposal goes on; a late one is expired.
Confirm(h, p) ==
  /\ status[p] = "pending"
  /\ Start(h, p, IF late[p] THEN "expire" ELSE "verify")

\* _verify_resource_version, _verify_connector_binding, consent and approval.
VerifyVersion(h) ==
  /\ pc[h] = "verify"
  /\ IF version[OrderFor(h)] = based[cur[h]]
       THEN Goto(h, "lookup") /\ asked' = [asked EXCEPT ![cur[h]] = TRUE]
       ELSE Goto(h, "idle") /\ UNCHANGED asked
  /\ UNCHANGED <<orderVars, proposalVars, action, by>>

ConfirmRefused(h) ==
  /\ pc[h] = "verify"
  /\ Goto(h, "idle")
  /\ UNCHANGED storeVars

\* POST /core/refunds and /core/actions: a service client's command goes to submit.  An
\* action of another kind that a client puts under the key is, to the bridge, a payload
\* no proposal has.
RefundCommand(h, o, load) ==
  /\ pc[h] = "idle"
  /\ pc' = [pc EXCEPT ![h] = "lookup"]
  /\ cur' = [cur EXCEPT ![h] = [order |-> o, payload |-> load, compared |-> FALSE]]
  /\ UNCHANGED storeVars

ActionCommand(h, o, load) ==
  /\ pc[h] = "idle"
  /\ pc' = [pc EXCEPT ![h] = "lookup"]
  /\ cur' = [cur EXCEPT ![h] = [order |-> o, payload |-> load, compared |-> TRUE]]
  /\ UNCHANGED storeVars

\* Slip: an action under the key is returned whatever its parameters.
SubmitLookup_AnyParameters(h) ==
  /\ pc[h] = "lookup"
  /\ Goto(h, IF action[OrderFor(h)] = Nothing THEN "load" ELSE "dispatch")
  /\ UNCHANGED storeVars

\* submit, the known key: the stored action must have the same parameters.
SubmitLookup(h) ==
  /\ pc[h] = "lookup"
  /\ \/ action[OrderFor(h)] = Nothing /\ Goto(h, "load")
     \/ action[OrderFor(h)] = PayloadFor(h) /\ Goto(h, "dispatch")
     \/ action[OrderFor(h)] \notin {Nothing, PayloadFor(h)} /\ Goto(h, "idle")
  /\ UNCHANGED storeVars

\* submit, a new key: the authoritative parameters are compared once more, for a refund
\* command with the order it brought along.
SubmitLoad(h) ==
  /\ pc[h] = "load"
  /\ \/ value[OrderFor(h)] = PayloadFor(h)[1] /\ Goto(h, "insert")
     \/ cur[h] \in Command /\ ~ cur[h].compared /\ Goto(h, "insert")
     \/ /\ value[OrderFor(h)] # PayloadFor(h)[1]
        /\ cur[h] \in Command => cur[h].compared
        /\ Goto(h, "idle")
  /\ UNCHANGED storeVars

\* Slip: the action takes the order's values of now instead of the proposed ones.
SubmitInsert_CurrentValue(h) ==
  /\ pc[h] = "insert"
  /\ action[OrderFor(h)] = Nothing
  /\ action' = [action EXCEPT ![OrderFor(h)] = <<value[OrderFor(h)], PayloadFor(h)[2]>>]
  /\ by' = [by EXCEPT ![OrderFor(h)] = cur[h]]
  /\ Goto(h, "dispatch")
  /\ UNCHANGED <<orderVars, proposalVars, asked>>

\* authorize_action inserts the action, or returns the equal one inserted meanwhile.
SubmitInsert(h) ==
  /\ pc[h] = "insert"
  /\ action[OrderFor(h)] = Nothing
  /\ action' = [action EXCEPT ![OrderFor(h)] = PayloadFor(h)]
  /\ by' = [by EXCEPT ![OrderFor(h)] = cur[h]]
  /\ Goto(h, "dispatch")
  /\ UNCHANGED <<orderVars, proposalVars, asked>>

SubmitDuplicate(h) ==
  /\ pc[h] = "insert"
  /\ action[OrderFor(h)] = PayloadFor(h)
  /\ Goto(h, "dispatch")
  /\ UNCHANGED storeVars

\* Slip: confirm swallows the exception of submit.
SubmitRaises_Swallowed(h) ==
  /\ pc[h] \in {"lookup", "load", "insert", "dispatch"}
  /\ Goto(h, IF cur[h] \in Proposal THEN "confirm" ELSE "idle")
  /\ UNCHANGED storeVars

\* submit raises: the key belongs to another command, case or policy, the case has
\* moved on, the policy is not active, the connector cannot be resolved.
SubmitRaises(h) ==
  /\ pc[h] \in {"lookup", "load", "insert", "dispatch"}
  /\ Goto(h, "idle")
  /\ UNCHANGED storeVars

\* gateway.dispatch returns the record, whatever its status; a command is answered.
DispatchReturns(h) ==
  /\ pc[h] = "dispatch"
  /\ Goto(h, IF cur[h] \in Proposal THEN "confirm" ELSE "idle")
  /\ UNCHANGED storeVars

\* The compare-and-set of confirm comes after submit; a lost one returns the current
\* row or raises.
ConfirmTransition(h) == pc[h] = "confirm" /\ Transition(h, "confirmed", TRUE, TRUE)

\* cancel: only a pending proposal goes on.
Cancel(h, p) == status[p] = "pending" /\ Start(h, p, "cancelLookup")

\* get_action_by_key: an action under the proposal's key is taken for the result of
\* its confirmation.
CancelLookup(h) ==
  /\ pc[h] = "cancelLookup"
  /\ Goto(h, IF action[OrderFor(h)] = Nothing THEN "cancel" ELSE "recover")
  /\ UNCHANGED storeVars

CancelTransition(h) == pc[h] = "cancel" /\ Transition(h, "cancelled", FALSE, FALSE)
RecoverConfirmed(h) == pc[h] = "recover" /\ Transition(h, "confirmed", TRUE, FALSE)

\* status: a pending proposal that is late is expired.
AskStatus(h, p) == status[p] = "pending" /\ late[p] /\ Start(h, p, "expire")
Expire(h) == pc[h] = "expire" /\ Transition(h, "expired", FALSE, FALSE)

-------------------------------------------------------------------------------
(* The surroundings. *)

\* The TTL of a proposal runs out.
TimeToLivePasses(p) ==
  /\ status[p] = "pending"
  /\ ~ late[p]
  /\ late' = [late EXCEPT ![p] = TRUE]
  /\ UNCHANGED <<orderVars, status, payload, based, linked, evidence, actionVars, hostVars>>

\* The order changes in the system of record.
PutResource(o, v) ==
  /\ version[o] < MaxVersion
  /\ version' = [version EXCEPT ![o] = @ + 1]
  /\ value' = [value EXCEPT ![o] = v]
  /\ UNCHANGED <<proposalVars, actionVars, hostVars>>

\* A request dies between two steps.
Crash(h) ==
  /\ pc[h] # "idle"
  /\ Goto(h, "idle")
  /\ UNCHANGED storeVars

HostStep(h) ==
  \/ \E p \in Proposal : Confirm(h, p) \/ Cancel(h, p) \/ AskStatus(h, p)
  \/ \E o \in Order, load \in Payload : RefundCommand(h, o, load) \/ ActionCommand(h, o, load)
  \/ VerifyVersion(h)
  \/ ConfirmRefused(h)
  \/ SubmitLookup(h)
  \/ SubmitLoad(h)
  \/ SubmitInsert(h)
  \/ SubmitDuplicate(h)
  \/ SubmitRaises(h)
  \/ DispatchReturns(h)
  \/ ConfirmTransition(h)
  \/ CancelLookup(h)
  \/ CancelTransition(h)
  \/ RecoverConfirmed(h)
  \/ Expire(h)
  \/ Crash(h)

Next ==
  \/ \E p \in Proposal : TimeToLivePasses(p) \/ \E r \in Reason : Propose(p, r)
  \/ \E o \in Order, v \in Value : PutResource(o, v)
  \/ \E h \in Host : HostStep(h)

Spec == Init /\ [][Next]_vars

-------------------------------------------------------------------------------
(* Properties. *)

\* Every variable has the type the schema and the code give it.
TypeOK ==
  /\ version \in [Order -> 0 .. MaxVersion]
  /\ value \in [Order -> Value]
  /\ status \in [Proposal -> Settled \cup {"none", "pending"}]
  /\ payload \in [Proposal -> Payload \cup {Nothing}]
  /\ based \in [Proposal -> 0 .. MaxVersion]
  /\ linked \in [Proposal -> BOOLEAN]
  /\ evidence \in [Proposal -> BOOLEAN]
  /\ late \in [Proposal -> BOOLEAN]
  /\ action \in [Order -> Payload \cup {Nothing}]
  /\ by \in [Order -> Proposal \cup Command \cup {Nothing}]
  /\ asked \in [Proposal -> BOOLEAN]
  /\ pc \in [Host -> Location]
  /\ cur \in [Host -> Proposal \cup Command \cup {Nothing}]

\* Whatever is executed was asked for with exactly these values: by a proposal that a
\* host confirmed and that passed the checks of bridge.py, or by a command of a service
\* client.  Crashes, replays and races of confirm, cancel and status never produce an
\* action of another origin or content.
ActsAreRequested ==
  \A o \in Order : action[o] # Nothing =>
    \/ /\ by[o] \in Proposal
       /\ OrderOf[by[o]] = o
       /\ action[o] = payload[by[o]]
       /\ asked[by[o]]
    \/ /\ by[o] \in Command
       /\ by[o].order = o
       /\ action[o] = by[o].payload

\* Confirmation evidence stands for what was shown: a proposal that stores it is
\* confirmed, a host asked for it, and the action under its key has its payload, although
\* other proposals and service clients submit other payloads under that key meanwhile.
EvidenceIsForShown ==
  \A p \in Proposal : evidence[p] =>
    status[p] = "confirmed" /\ asked[p] /\ action[OrderOf[p]] = payload[p]

\* A confirmed proposal has an action id, and the action exists: neither confirm
\* nor the recovery in cancel (bridge.py) can confirm into the void.
ConfirmedHasAction ==
  \A p \in Proposal : status[p] = "confirmed" =>
    linked[p] /\ action[OrderOf[p]] # Nothing

\* A proposal that is confirmed, cancelled or expired stays so: of all the requests
\* racing on it one compare-and-set wins.
SettledIsFinal ==
  [][\A p \in Proposal : status[p] \in Settled => status'[p] = status[p]]_vars

\* Why the above hold: what a request that is past a check still knows.  Payloads
\* are written once, before anything refers to the proposal.
BridgeInv ==
  /\ TypeOK
  /\ ActsAreRequested
  /\ ConfirmedHasAction
  /\ EvidenceIsForShown
  /\ \A p \in Proposal : status[p] = "none" => payload[p] = Nothing /\ ~ asked[p]
  /\ \A p \in Proposal : status[p] # "none" => payload[p] \in Payload
  /\ \A h \in Host : pc[h] # "idle" => cur[h] # Nothing
  /\ \A h \in Host : cur[h] \in Proposal => status[cur[h]] # "none"
  /\ \A h \in Host : cur[h] \in Command =>
       pc[h] \in {"idle", "lookup", "load", "insert", "dispatch"}
  /\ \A h \in Host : cur[h] \in Proposal
         /\ pc[h] \in {"lookup", "load", "insert", "dispatch", "confirm"} => asked[cur[h]]
  /\ \A h \in Host : pc[h] \in {"dispatch", "confirm"} => action[OrderFor(h)] = PayloadFor(h)
  /\ \A h \in Host : pc[h] = "recover" => action[OrderFor(h)] # Nothing

===============================================================================
