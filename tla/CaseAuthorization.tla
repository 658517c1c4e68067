-------------------------- MODULE CaseAuthorization --------------------------
(***************************************************************************)
(* Submitting a consequential action against a versioned case.             *)
(*                                                                         *)
(*   core/action_service.py  ConsequentialActionService.submit             *)
(*   core/gateway.py         ActionGateway.authorize                       *)
(*   core/kernel.py          CaseKernel, create_case, append_fact,         *)
(*                           get_fact, insert_action                       *)
(*                                                                         *)
(* Several requests work on one case at a time.  A request loads the       *)
(* authoritative resource, writes one verified fact per authoritative      *)
(* parameter, checks the facts and inserts the action; every store call is *)
(* a transaction of its own and a step here.  The only guard against the   *)
(* others is the case version.                                             *)
(*                                                                         *)
(* The parameters of an action, and its facts, are named by the resource   *)
(* they describe and its content.                                          *)
(***************************************************************************)
EXTENDS Integers

CONSTANTS
  Submitter,       \* request handlers
  Resource,        \* authoritative resources; the idempotency key is the resource's
  CustomerOf,      \* the customer binding of each resource
  NumFacts,        \* number of authoritative parameters of the action
  Content,         \* what the parameters of a resource can be
  MaxCase,         \* bound on the case version
  NoValue          \* no resource, no fact, no action, no case

Customer == {CustomerOf[x] : x \in Resource}
Value == Resource \X Content
Fact == 1 .. NumFacts

ASSUME CaseAssumption ==
  /\ NumFacts \in Nat \ {0}
  /\ MaxCase \in Nat
  /\ NoValue \notin Value
  /\ NoValue \notin Customer

VARIABLES
  resource,   \* the current content of each resource
  owner,      \* workflow_cases.customer_id, NoValue = no row
  version,    \* workflow_cases.version
  facts,      \* workflow_facts: the value of each fact
  action,     \* action_attempts by key: the authorized parameters, or NoValue
  pc,
  want,       \* the parameters of the request
  held,       \* the case version the request holds
  next        \* the fact the request writes or checks next

storeVars == <<resource, owner, version, facts, action>>
localVars == <<pc, want, held, next>>
vars == <<resource, owner, version, facts, action, pc, want, held, next>>

Location == {"idle", "lookup", "load", "case", "create", "fact", "reread",
             "authorize", "check", "insert"}

Init ==
  /\ resource \in [Resource -> Content]
  /\ owner = NoValue
  /\ version = 0
  /\ facts = [f \in Fact |-> NoValue]
  /\ action = [x \in Resource |-> NoValue]
  /\ pc = [s \in Submitter |-> "idle"]
  /\ want = [s \in Submitter |-> NoValue]
  /\ held = [s \in Submitter |-> 0]
  /\ next = [s \in Submitter |-> 1]

\* The resource and the customer the request is about.
About(s) == want[s][1]
CustomerFor(s) == CustomerOf[About(s)]

Goto(s, l) ==
  /\ pc' = [pc EXCEPT ![s] = l]
  /\ UNCHANGED <<want, held, next>>

\* The request ends: it returns a record or raises.
Finish(s) ==
  /\ pc' = [pc EXCEPT ![s] = "idle"]
  /\ want' = [want EXCEPT ![s] = NoValue]
  /\ held' = [held EXCEPT ![s] = 0]
  /\ next' = [next EXCEPT ![s] = 1]

\* The request goes on to l holding case version v and fact number f.
Proceed(s, l, v, f) ==
  /\ pc' = [pc EXCEPT ![s] = l]
  /\ held' = [held EXCEPT ![s] = v]
  /\ next' = [next EXCEPT ![s] = f]
  /\ UNCHANGED want

-------------------------------------------------------------------------------
\* A request with the parameters its caller believes the resource to have.
Submit(s, v) ==
  /\ pc[s] = "idle"
  /\ pc' = [pc EXCEPT ![s] = "lookup"]
  /\ want' = [want EXCEPT ![s] = v]
  /\ UNCHANGED <<held, next, storeVars>>

\* get_action_by_key: a known key returns its record, or raises when it is bound
\* to other parameters.
LookupKey(s) ==
  /\ pc[s] = "lookup"
  /\ IF action[About(s)] = NoValue THEN Goto(s, "load") ELSE Finish(s)
  /\ UNCHANGED storeVars

\* get_resource: every authoritative parameter must equal the loaded one.
LoadResource(s) ==
  /\ pc[s] = "load"
  /\ IF want[s] = <<About(s), resource[About(s)]>> THEN Goto(s, "case") ELSE Finish(s)
  /\ UNCHANGED storeVars

\* get_case: a case of another customer is refused.
GetCase(s) ==
  /\ pc[s] = "case"
  /\ CASE owner = NoValue -> Goto(s, "create")
       [] owner = CustomerFor(s) -> Proceed(s, "fact", version, 1)
       [] OTHER -> Finish(s)
  /\ UNCHANGED storeVars

\* Slip: INSERT OR IGNORE, and the request goes on in whatever case is there.
CreateCase_Ignore(s) ==
  /\ pc[s] = "create"
  /\ owner' = IF owner = NoValue THEN CustomerFor(s) ELSE owner
  /\ Proceed(s, "fact", version, 1)
  /\ UNCHANGED <<resource, version, facts, action>>

\* INSERT of the case row; the primary key makes a second one fail.
CreateCase(s) ==
  /\ pc[s] = "create"
  /\ IF owner = NoValue
       THEN /\ owner' = CustomerFor(s)
            /\ version' = 0
            /\ Proceed(s, "fact", 0, 1)
       ELSE Finish(s) /\ UNCHANGED <<owner, version>>
  /\ UNCHANGED <<resource, facts, action>>

\* append_fact: compare-and-set on the version, then an upsert of the fact.
AppendFact(s) ==
  /\ pc[s] = "fact"
  /\ version < MaxCase
  /\ IF version = held[s]
       THEN /\ version' = version + 1
            /\ facts' = [facts EXCEPT ![next[s]] = want[s]]
            /\ Goto(s, "reread")
       ELSE Finish(s) /\ UNCHANGED <<version, facts>>
  /\ UNCHANGED <<resource, owner, action>>

\* append_fact returns get_case after its commit, on a new connection: the version
\* it reports may already include another request's write.
RereadCase(s) ==
  /\ pc[s] = "reread"
  /\ IF next[s] < NumFacts
       THEN Proceed(s, "fact", version, next[s] + 1)
       ELSE Proceed(s, "authorize", version, 1)
  /\ UNCHANGED storeVars

\* ActionGateway.authorize refuses the binding, the policy or the action.
AuthorizeRefused(s) ==
  /\ pc[s] = "authorize"
  /\ Finish(s)
  /\ UNCHANGED storeVars

\* authorize_action looks the key up again: a record bound to the same command is
\* returned, to another one raises.
AuthorizeLookup(s) ==
  /\ pc[s] = "authorize"
  /\ IF action[About(s)] = NoValue THEN Proceed(s, "check", held[s], 1) ELSE Finish(s)
  /\ UNCHANGED storeVars

\* get_fact, one call per parameter reference; every fact is verified, so what can
\* be wrong is its value.
CheckFact(s) ==
  /\ pc[s] = "check"
  /\ IF facts[next[s]] # want[s]
       THEN Finish(s)
       ELSE IF next[s] < NumFacts
              THEN Proceed(s, "check", held[s], next[s] + 1)
              ELSE Goto(s, "insert")
  /\ UNCHANGED storeVars

\* Slip: the insert does not compare the version.
InsertAction_NoCompare(s) ==
  /\ pc[s] = "insert"
  /\ version < MaxCase
  /\ IF action[About(s)] = NoValue
       THEN /\ version' = version + 1
            /\ action' = [action EXCEPT ![About(s)] = want[s]]
       ELSE UNCHANGED <<version, action>>
  /\ Finish(s)
  /\ UNCHANGED <<resource, owner, facts>>

\* Slip: the insert compares the version and does not move it.
InsertAction_NoVersion(s) ==
  /\ pc[s] = "insert"
  /\ action' = [action EXCEPT ![About(s)] =
                  IF version = held[s] /\ @ = NoValue THEN want[s] ELSE @]
  /\ Finish(s)
  /\ UNCHANGED <<resource, owner, version, facts>>

\* insert_action: compare-and-set on the version, then the row with its UNIQUE key.
InsertAction(s) ==
  /\ pc[s] = "insert"
  /\ version < MaxCase
  /\ IF version = held[s] /\ action[About(s)] = NoValue
       THEN /\ version' = version + 1
            /\ action' = [action EXCEPT ![About(s)] = want[s]]
       ELSE UNCHANGED <<version, action>>
  /\ Finish(s)
  /\ UNCHANGED <<resource, owner, facts>>

\* The handler dies between two store calls.
Crash(s) ==
  /\ pc[s] # "idle"
  /\ Finish(s)
  /\ UNCHANGED storeVars

\* The system of record changes a resource.
PutResource(x, c) ==
  /\ resource' = [resource EXCEPT ![x] = c]
  /\ UNCHANGED <<owner, version, facts, action, localVars>>

SubmitStep(s) ==
  \/ \E v \in Value : Submit(s, v)
  \/ LookupKey(s)
  \/ LoadResource(s)
  \/ GetCase(s)
  \/ CreateCase(s)
  \/ AppendFact(s)
  \/ RereadCase(s)
  \/ AuthorizeRefused(s)
  \/ AuthorizeLookup(s)
  \/ CheckFact(s)
  \/ InsertAction(s)
  \/ Crash(s)

Next ==
  \/ \E s \in Submitter : SubmitStep(s)
  \/ \E x \in Resource, c \in Content : PutResource(x, c)

Spec == Init /\ [][Next]_vars

-------------------------------------------------------------------------------
(* Properties. *)

\* Every variable has the type the schema and the code give it.
TypeOK ==
  /\ resource \in [Resource -> Content]
  /\ owner \in Customer \cup {NoValue}
  /\ version \in Nat
  /\ facts \in [Fact -> Value \cup {NoValue}]
  /\ action \in [Resource -> Value \cup {NoValue}]
  /\ pc \in [Submitter -> Location]
  /\ want \in [Submitter -> Value \cup {NoValue}]
  /\ held \in [Submitter -> Nat]
  /\ next \in [Submitter -> Fact]

\* An action is inserted only while all of its parameters are the verified facts of
\* its case.  The facts were checked one by one, before the insert and in other
\* transactions, and append_fact (kernel.py) hands out a version that may hide
\* another request's write; the version compare-and-set of insert_action must
\* still cover all of it.
AuthorizedMatchesFacts ==
  [][\A x \in Resource : action'[x] # action[x] =>
       action[x] = NoValue /\ \A f \in Fact : facts[f] = action'[x]]_vars

\* Two customers racing to create the case cannot both use it: an action in the case
\* belongs to the customer the case row names, and so does every fact.
CaseIsolation ==
  /\ \A x \in Resource : action[x] # NoValue => owner = CustomerOf[x]
  /\ \A f \in Fact : facts[f] # NoValue => owner = CustomerOf[facts[f][1]]

\* The case version counts the writes: a step that changes a fact or an action moves
\* the version by exactly one, and no step moves it back.
VersionCountsWrites ==
  [][/\ version' \in {version, version + 1}
     /\ (facts' # facts \/ action' # action) => version' = version + 1]_vars

-------------------------------------------------------------------------------
(* Why they hold. *)

\* A request past the case lookup works in a case of its own customer, with
\* parameters of its own.
WorksInOwnCase ==
  \A s \in Submitter :
    /\ pc[s] # "idle" => want[s] \in Value
    /\ pc[s] \in {"fact", "reread", "authorize", "check", "insert"} =>
         owner = CustomerFor(s) /\ held[s] <= version

\* As long as the version is the one a request holds, what it has checked so far is
\* still so.
CheckedFactsHold ==
  \A s \in Submitter : version = held[s] =>
    /\ pc[s] = "check" => \A f \in 1 .. (next[s] - 1) : facts[f] = want[s]
    /\ pc[s] = "insert" => \A f \in Fact : facts[f] = want[s]

\* The inductive invariant.
CaseInv == TypeOK /\ CaseIsolation /\ WorksInOwnCase /\ CheckedFactsHold

===============================================================================
