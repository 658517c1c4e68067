--------------------------- MODULE CaseKernelProofs ---------------------------
(***************************************************************************)
(* Proofs about what the case kernel stores, for any number of requests,   *)
(* resources, customers, authoritative parameters, agents and callbacks:   *)
(* authorization of actions against a case (CaseAuthorization) and the     *)
(* handoff of a conversation (Handoff).                                    *)
(*                                                                         *)
(* The heart of the first is CheckedFactsHold: every write to a fact moves *)
(* the case version past what any other request holds, so a request that   *)
(* still holds the current version has checked the current facts.  In the  *)
(* second, a request that is about to update the row holds a move of the   *)
(* table, from the status it read; the compare-and-set makes that the      *)
(* status the move is made from.                                           *)
(***************************************************************************)
EXTENDS CaseAuthorization, Handoff, TLAPS

USE CaseAssumption DEF Location, Fact

\* The empty store satisfies the invariant.
LEMMA InitCaseInv == Init => CaseInv
BY DEF Init, CaseInv, TypeOK, CaseIsolation, WorksInOwnCase, CheckedFactsHold

-------------------------------------------------------------------------------
(* Steps that leave the store alone. *)

\* A request that ends keeps the invariant, whatever made it end.
LEMMA FinishInv ==
  ASSUME CaseInv, NEW s \in Submitter, Finish(s), UNCHANGED storeVars
  PROVE  CaseInv'
BY DEF Finish, storeVars, CaseInv, TypeOK, CaseIsolation, WorksInOwnCase, CheckedFactsHold,
       CustomerFor, About

\* A request that goes on with version v and fact f keeps the invariant if it works in
\* its customer's case, v is not ahead of the case, and what it claims to have
\* checked under v is so.
LEMMA ProceedInv ==
  ASSUME CaseInv, NEW s \in Submitter, NEW l \in Location \ {"idle"}, NEW v \in Nat,
         NEW f \in Fact, Proceed(s, l, v, f), UNCHANGED storeVars,
         want[s] \in Value,
         l \in {"fact", "reread", "authorize", "check", "insert"} =>
           owner = CustomerFor(s) /\ v <= version,
         l = "check" /\ version = v => \A g \in 1 .. (f - 1) : facts[g] = want[s],
         l = "insert" /\ version = v => \A g \in Fact : facts[g] = want[s]
  PROVE  CaseInv'
<1> USE DEF CaseInv, storeVars
<1>1. /\ pc' = [pc EXCEPT ![s] = l]
      /\ held' = [held EXCEPT ![s] = v]
      /\ next' = [next EXCEPT ![s] = f]
      /\ want' = want
  BY Zenon DEF Proceed
<1>2. TypeOK'
  BY Zenon, <1>1 DEF TypeOK
<1>3. CaseIsolation'
  BY Zenon DEF CaseIsolation
<1>4. WorksInOwnCase'
  BY Zenon, <1>1 DEF TypeOK, WorksInOwnCase, CustomerFor, About
<1>5. CheckedFactsHold'
  BY <1>1 DEF TypeOK, CheckedFactsHold
<1>6. QED
  BY Zenon, <1>2, <1>3, <1>4, <1>5

\* Going on without a new version or fact is a special case.
LEMMA GotoIsProceed ==
  ASSUME TypeOK, NEW s \in Submitter, NEW l \in Location, Goto(s, l)
  PROVE  Proceed(s, l, held[s], next[s]) /\ held[s] \in Nat /\ next[s] \in Fact
BY Zenon DEF Goto, Proceed, TypeOK

\* Every step of a request that only reads the store keeps the invariant.
LEMMA ReadStepsInv ==
  ASSUME CaseInv, NEW s \in Submitter,
         \/ \E v \in Value : Submit(s, v)
         \/ LookupKey(s)
         \/ LoadResource(s)
         \/ GetCase(s)
         \/ RereadCase(s)
         \/ AuthorizeRefused(s)
         \/ AuthorizeLookup(s)
         \/ CheckFact(s)
         \/ Crash(s)
  PROVE  CaseInv'
<1>1. TypeOK /\ version \in Nat /\ held[s] \in Nat /\ next[s] \in Fact
  BY Zenon DEF CaseInv, TypeOK
<1>2. ASSUME NEW v \in Value, Submit(s, v)
      PROVE  CaseInv'
  BY <1>2 DEF Submit, storeVars, CaseInv, TypeOK, CaseIsolation, WorksInOwnCase,
       CheckedFactsHold, CustomerFor, About
<1>3. CASE LookupKey(s)
  BY <1>1, <1>3, FinishInv, GotoIsProceed, ProceedInv DEF LookupKey, CaseInv, WorksInOwnCase
<1>4. CASE LoadResource(s)
  BY <1>1, <1>4, FinishInv, GotoIsProceed, ProceedInv DEF LoadResource, CaseInv, WorksInOwnCase
<1>5. CASE GetCase(s)
  <2>1. want[s] \in Value
    BY Zenon, <1>5 DEF GetCase, CaseInv, WorksInOwnCase
  <2>2. CASE owner = NoValue
    BY <1>1, <1>5, <2>1, <2>2, GotoIsProceed, ProceedInv DEF GetCase
  <2>3. CASE owner # NoValue /\ owner = CustomerFor(s)
    <3>1. Proceed(s, "fact", version, 1) /\ UNCHANGED storeVars
      BY Zenon, <1>5, <2>3 DEF GetCase
    <3>2. QED
      BY <1>1, <2>1, <2>3, <3>1, ProceedInv
  <2>4. CASE owner # NoValue /\ owner # CustomerFor(s)
    BY Zenon, <1>5, <2>4, FinishInv DEF GetCase
  <2>5. QED
    BY Zenon, <2>2, <2>3, <2>4
<1>6. CASE RereadCase(s)
  <2>1. want[s] \in Value /\ owner = CustomerFor(s)
    BY Zenon, <1>6 DEF RereadCase, CaseInv, WorksInOwnCase
  <2>2. CASE next[s] < NumFacts
    <3>1. Proceed(s, "fact", version, next[s] + 1) /\ UNCHANGED storeVars
      BY Zenon, <1>6, <2>2 DEF RereadCase
    <3>2. next[s] + 1 \in Fact
      BY <1>1, <2>2
    <3>3. QED
      BY <1>1, <2>1, <3>1, <3>2, ProceedInv
  <2>3. CASE ~ (next[s] < NumFacts)
    <3>1. Proceed(s, "authorize", version, 1) /\ UNCHANGED storeVars
      BY Zenon, <1>6, <2>3 DEF RereadCase
    <3>2. QED
      BY <1>1, <2>1, <3>1, ProceedInv
  <2>4. QED
    BY Zenon, <2>2, <2>3
<1>7. CASE AuthorizeRefused(s) \/ Crash(s)
  BY Zenon, <1>7, FinishInv DEF AuthorizeRefused, Crash
<1>8. CASE AuthorizeLookup(s)
  <2>1. want[s] \in Value /\ owner = CustomerFor(s) /\ held[s] <= version
    BY Zenon, <1>8 DEF AuthorizeLookup, CaseInv, WorksInOwnCase
  <2>2. CASE action[About(s)] = NoValue
    <3>1. Proceed(s, "check", held[s], 1) /\ UNCHANGED storeVars
      BY Zenon, <1>8, <2>2 DEF AuthorizeLookup
    <3>2. QED
      BY <1>1, <2>1, <3>1, ProceedInv
  <2>3. CASE action[About(s)] # NoValue
    BY Zenon, <1>8, <2>3, FinishInv DEF AuthorizeLookup
  <2>4. QED
    BY Zenon, <2>2, <2>3
<1>9. CASE CheckFact(s)
  <2>1. /\ want[s] \in Value
        /\ owner = CustomerFor(s)
        /\ held[s] <= version
        /\ version = held[s] => \A g \in 1 .. (next[s] - 1) : facts[g] = want[s]
    BY Zenon, <1>9 DEF CheckFact, CaseInv, WorksInOwnCase, CheckedFactsHold
  <2>2. CASE facts[next[s]] # want[s]
    BY Zenon, <1>9, <2>2, FinishInv DEF CheckFact
  <2>3. CASE facts[next[s]] = want[s] /\ next[s] < NumFacts
    <3>1. Proceed(s, "check", held[s], next[s] + 1) /\ UNCHANGED storeVars
      BY Zenon, <1>9, <2>3 DEF CheckFact
    <3>2. next[s] + 1 \in Fact
      BY <1>1, <2>3
    <3>3. version = held[s] => \A g \in 1 .. ((next[s] + 1) - 1) : facts[g] = want[s]
      BY <1>1, <2>1, <2>3
    <3>4. QED
      BY Zenon, <1>1, <2>1, <3>1, <3>2, <3>3, ProceedInv
  <2>4. CASE facts[next[s]] = want[s] /\ ~ (next[s] < NumFacts)
    <3>1. Proceed(s, "insert", held[s], next[s]) /\ UNCHANGED storeVars
      BY Zenon, <1>1, <1>9, <2>4, GotoIsProceed DEF CheckFact
    <3>2. version = held[s] => \A g \in Fact : facts[g] = want[s]
      BY <1>1, <2>1, <2>4
    <3>3. QED
      BY Zenon, <1>1, <2>1, <3>1, <3>2, ProceedInv
  <2>5. QED
    BY Zenon, <2>2, <2>3, <2>4
<1>10. QED
  BY Zenon, <1>2, <1>3, <1>4, <1>5, <1>6, <1>7, <1>8, <1>9

-------------------------------------------------------------------------------
(* Steps that write the store. *)

\* Creating the case: no request works in a case that does not exist.
LEMMA CreateCaseInv ==
  ASSUME CaseInv, NEW s \in Submitter, CreateCase(s)
  PROVE  CaseInv'
<1>1. CASE owner # NoValue
  BY Zenon, <1>1, FinishInv DEF CreateCase, storeVars
<1>2. CASE owner = NoValue
  <2> USE DEF CaseInv
  <2>1. /\ owner' = CustomerFor(s)
        /\ version' = 0
        /\ pc' = [pc EXCEPT ![s] = "fact"]
        /\ held' = [held EXCEPT ![s] = 0]
        /\ next' = [next EXCEPT ![s] = 1]
        /\ UNCHANGED <<want, resource, facts, action>>
    BY Zenon, <1>2 DEF CreateCase, Proceed
  <2>2. want[s] \in Value
    BY Zenon DEF CreateCase, WorksInOwnCase
  <2>3. CustomerFor(s) \in Customer
    BY Zenon, <2>2 DEF CustomerFor, About, Customer, Value
  <2>4. \A t \in Submitter : pc[t] \notin {"fact", "reread", "authorize", "check", "insert"}
    <3>1. SUFFICES ASSUME NEW t \in Submitter,
                          pc[t] \in {"fact", "reread", "authorize", "check", "insert"}
                   PROVE  FALSE
      BY Zenon
    <3>2. want[t] \in Value /\ owner = CustomerFor(t)
      BY Zenon, <3>1 DEF WorksInOwnCase
    <3>3. QED
      BY Zenon, <1>2, <3>2 DEF CustomerFor, About, Customer, Value
  <2>5. TypeOK'
    BY <2>1, <2>3 DEF TypeOK
  <2>6. CaseIsolation'
    <3>1. /\ \A x \in Resource : action[x] = NoValue
          /\ \A f \in Fact : facts[f] = NoValue
      BY ZenonT(30), <1>2 DEF CaseIsolation, TypeOK, Customer, Value
    <3>2. QED
      BY Zenon, <2>1, <3>1 DEF CaseIsolation
  <2>7. WorksInOwnCase'
    BY <2>1, <2>2, <2>4 DEF TypeOK, WorksInOwnCase, CustomerFor, About
  <2>8. CheckedFactsHold'
    BY Zenon, <2>1, <2>4 DEF TypeOK, CheckedFactsHold
  <2>9. QED
    BY Zenon, <2>5, <2>6, <2>7, <2>8
<1>3. QED
  BY Zenon, <1>1, <1>2

\* append_fact moves the version past what every request holds, so no request can
\* rely on the overwritten fact any more.
LEMMA AppendFactInv ==
  ASSUME CaseInv, NEW s \in Submitter, AppendFact(s)
  PROVE  CaseInv'
<1>1. CASE version # held[s]
  BY Zenon, <1>1, FinishInv DEF AppendFact, storeVars
<1>2. CASE version = held[s]
  <2> USE DEF CaseInv
  <2>1. /\ version' = version + 1
        /\ facts' = [facts EXCEPT ![next[s]] = want[s]]
        /\ pc' = [pc EXCEPT ![s] = "reread"]
        /\ UNCHANGED <<want, held, next, resource, owner, action>>
    BY Zenon, <1>2 DEF AppendFact, Goto
  <2>2. want[s] \in Value /\ owner = CustomerOf[want[s][1]] /\ pc[s] = "fact"
    BY Zenon DEF AppendFact, WorksInOwnCase, CustomerFor, About
  <2>3. TypeOK'
    BY <2>1, <2>2 DEF TypeOK
  <2>4. CaseIsolation'
    BY Zenon, <2>1, <2>2 DEF TypeOK, CaseIsolation
  <2>5. WorksInOwnCase'
    BY <2>1, <2>2 DEF TypeOK, WorksInOwnCase, CustomerFor, About
  <2>6. CheckedFactsHold'
    BY <2>1 DEF TypeOK, WorksInOwnCase, CheckedFactsHold
  <2>7. QED
    BY Zenon, <2>3, <2>4, <2>5, <2>6
<1>3. QED
  BY Zenon, <1>1, <1>2

\* insert_action moves the version too.
LEMMA InsertActionInv ==
  ASSUME CaseInv, NEW s \in Submitter, InsertAction(s)
  PROVE  CaseInv'
<1>1. CASE ~ (version = held[s] /\ action[About(s)] = NoValue)
  BY Zenon, <1>1, FinishInv DEF InsertAction, storeVars
<1>2. CASE version = held[s] /\ action[About(s)] = NoValue
  <2> USE DEF CaseInv
  <2>1. /\ version' = version + 1
        /\ action' = [action EXCEPT ![want[s][1]] = want[s]]
        /\ pc' = [pc EXCEPT ![s] = "idle"]
        /\ want' = [want EXCEPT ![s] = NoValue]
        /\ held' = [held EXCEPT ![s] = 0]
        /\ next' = [next EXCEPT ![s] = 1]
        /\ UNCHANGED <<resource, owner, facts>>
    BY Zenon, <1>2 DEF InsertAction, Finish, About
  <2>2. want[s] \in Value /\ owner = CustomerOf[want[s][1]]
    BY Zenon DEF InsertAction, WorksInOwnCase, CustomerFor, About
  <2>3. TypeOK'
    <3>1. action' \in [Resource -> Value \cup {NoValue}]
      BY Zenon, <2>1, <2>2 DEF TypeOK
    <3>2. pc' \in [Submitter -> Location] /\ want' \in [Submitter -> Value \cup {NoValue}]
      BY Zenon, <2>1 DEF TypeOK
    <3>3. held' \in [Submitter -> Nat] /\ next' \in [Submitter -> Fact]
      BY <2>1 DEF TypeOK
    <3>4. QED
      BY <2>1, <3>1, <3>2, <3>3 DEF TypeOK
  <2>4. CaseIsolation'
    BY Zenon, <2>1, <2>2 DEF TypeOK, CaseIsolation, Value
  <2>5. WorksInOwnCase'
    BY <2>1 DEF TypeOK, WorksInOwnCase, CustomerFor, About
  <2>6. CheckedFactsHold'
    BY <2>1 DEF TypeOK, WorksInOwnCase, CheckedFactsHold
  <2>7. QED
    BY Zenon, <2>3, <2>4, <2>5, <2>6
<1>3. QED
  BY Zenon, <1>1, <1>2

\* The system of record is not part of the case.
LEMMA PutResourceInv ==
  ASSUME CaseInv, NEW x \in Resource, NEW c \in Content, PutResource(x, c)
  PROVE  CaseInv'
BY Zenon DEF PutResource, localVars, CaseInv, TypeOK, CaseIsolation, WorksInOwnCase,
       CheckedFactsHold, CustomerFor, About

-------------------------------------------------------------------------------
(* The theorems. *)

\* Every step keeps the invariant.
LEMMA NextCaseInv == CaseInv /\ [Next]_vars => CaseInv'
<1> SUFFICES ASSUME CaseInv, [Next]_vars
             PROVE  CaseInv'
  OBVIOUS
<1>1. CASE UNCHANGED vars
  BY Zenon, <1>1 DEF vars, CaseInv, TypeOK, CaseIsolation, WorksInOwnCase, CheckedFactsHold,
       CustomerFor, About
<1>2. ASSUME NEW s \in Submitter, SubmitStep(s)
      PROVE  CaseInv'
  BY Zenon, <1>2, ReadStepsInv, CreateCaseInv, AppendFactInv, InsertActionInv DEF SubmitStep
<1>3. ASSUME NEW x \in Resource, NEW c \in Content, PutResource(x, c)
      PROVE  CaseInv'
  BY Zenon, <1>3, PutResourceInv
<1>4. QED
  BY Zenon, <1>1, <1>2, <1>3 DEF Next

\* The invariant holds in every reachable state.
THEOREM CaseIsSafe == Spec => []CaseInv
<1>1. QED
  BY InitCaseInv, NextCaseInv, PTL DEF Spec

\* Type correctness of the case, its facts and the submissions under way.
THEOREM CaseTypes == Spec => []TypeOK
<1>1. CaseInv => TypeOK
  BY Zenon DEF CaseInv
<1>2. QED
  BY <1>1, CaseIsSafe, PTL

\* Facts and actions of a case belong to the one customer its row names, however
\* many requests race to create it.
THEOREM CasesAreIsolated == Spec => []CaseIsolation
<1>1. CaseInv => CaseIsolation
  BY Zenon DEF CaseInv
<1>2. QED
  BY <1>1, CaseIsSafe, PTL

\* One step inserts an action only under the facts it was authorized with.
LEMMA InsertChecksFacts ==
  ASSUME CaseInv, [Next]_vars, NEW x \in Resource, action'[x] # action[x]
  PROVE  action[x] = NoValue /\ \A f \in Fact : facts[f] = action'[x]
<1>1. PICK s \in Submitter : InsertAction(s) /\ action' # action
  <2>1. ASSUME NEW s \in Submitter, SubmitStep(s), ~ InsertAction(s)
        PROVE  action' = action
    BY Zenon, <2>1 DEF SubmitStep, Submit, LookupKey, LoadResource, GetCase, CreateCase, AppendFact,
         RereadCase, AuthorizeRefused, AuthorizeLookup, CheckFact, Crash, storeVars
  <2>2. QED
    BY Zenon, <2>1 DEF Next, vars, PutResource
<1>2. /\ version = held[s]
      /\ action[About(s)] = NoValue
      /\ action' = [action EXCEPT ![About(s)] = want[s]]
      /\ pc[s] = "insert"
  BY Zenon, <1>1 DEF InsertAction
<1>3. \A f \in Fact : facts[f] = want[s]
  BY Zenon, <1>2 DEF CaseInv, CheckedFactsHold
<1>4. QED
  BY Zenon, <1>2, <1>3 DEF CaseInv, TypeOK

\* For any number of concurrent requests and parameters, an authorized action's
\* parameters are the verified facts of its case at the moment of the insert.
THEOREM ActionsMatchFacts == Spec => AuthorizedMatchesFacts
<1>1. CaseInv /\ [Next]_vars =>
        [\A x \in Resource : action'[x] # action[x] =>
           action[x] = NoValue /\ \A f \in Fact : facts[f] = action'[x]]_vars
  BY Zenon, InsertChecksFacts
<1>2. QED
  BY <1>1, CaseIsSafe, PTL DEF Spec, AuthorizedMatchesFacts

\* A case that does not exist has no version: who writes to the case found its row.
NewCaseHasNoVersion == owner = NoValue => version = 0

\* One step of a request or of the system of record, on owner, version and what they guard.
LEMMA VersionSteps ==
  ASSUME CaseInv, NewCaseHasNoVersion, [Next]_vars
  PROVE  /\ NewCaseHasNoVersion'
         /\ version' \in {version, version + 1}
         /\ (facts' # facts \/ action' # action) => version' = version + 1
<1>1. CASE UNCHANGED <<owner, version, facts, action>>
  BY Zenon, <1>1 DEF NewCaseHasNoVersion
<1>2. ASSUME NEW s \in Submitter, CreateCase(s)
      PROVE  /\ owner = NoValue => owner' \in Customer /\ version' = 0
             /\ owner # NoValue => UNCHANGED <<owner, version>>
             /\ UNCHANGED <<facts, action>>
  <2>1. pc[s] # "idle" /\ CustomerFor(s) \in Customer
    BY Zenon, <1>2 DEF CreateCase, CaseInv, WorksInOwnCase, CustomerFor, About, Value, Customer
  <2>2. QED
    BY Zenon, <1>2, <2>1 DEF CreateCase
<1>3. ASSUME NEW s \in Submitter, AppendFact(s) \/ InsertAction(s)
      PROVE  /\ owner # NoValue /\ owner' = owner
             /\ \/ version' = version + 1
                \/ version' = version /\ facts' = facts /\ action' = action
  <2>1. pc[s] \in {"fact", "insert"} /\ owner = CustomerFor(s) /\ want[s] \in Value
    BY Zenon, <1>3 DEF AppendFact, InsertAction, CaseInv, WorksInOwnCase
  <2>2. owner \in Customer
    BY Zenon, <2>1 DEF CustomerFor, About, Value, Customer
  <2>3. QED
    BY Zenon, <1>3, <2>2 DEF AppendFact, InsertAction
<1>4. ASSUME NEW s \in Submitter, SubmitStep(s),
             ~ CreateCase(s), ~ AppendFact(s), ~ InsertAction(s)
      PROVE  UNCHANGED <<owner, version, facts, action>>
  BY Zenon, <1>4 DEF SubmitStep, Submit, LookupKey, LoadResource, GetCase, RereadCase, AuthorizeRefused,
     AuthorizeLookup, CheckFact, Crash, storeVars
<1>5. \/ UNCHANGED <<owner, version, facts, action>>
      \/ \E s \in Submitter : CreateCase(s) \/ AppendFact(s) \/ InsertAction(s)
  BY Zenon, <1>4 DEF Next, vars, storeVars, PutResource
<1>6. version \in Nat
  BY Zenon DEF CaseInv, TypeOK
<1>7. QED
  BY Zenon, <1>1, <1>2, <1>3, <1>5, <1>6 DEF NewCaseHasNoVersion

\* The version a request compares at its insert counts every write to the case: no fact
\* or action changes without moving it, and creating the case does not reset it.
THEOREM VersionsCountWrites == Spec => VersionCountsWrites
<1>1. Init => NewCaseHasNoVersion
  BY Zenon DEF Init, NewCaseHasNoVersion
<1>2. CaseInv /\ NewCaseHasNoVersion /\ [Next]_vars => NewCaseHasNoVersion'
  BY Zenon, VersionSteps
<1>3. CaseInv /\ NewCaseHasNoVersion /\ [Next]_vars =>
        [/\ version' \in {version, version + 1}
         /\ (facts' # facts \/ action' # action) => version' = version + 1]_vars
  BY Zenon, VersionSteps
<1>4. QED
  BY <1>1, <1>2, <1>3, CaseIsSafe, PTL DEF Spec, VersionCountsWrites

-------------------------------------------------------------------------------
(* Handoffs. *)

\* A move that waits for its compare-and-set is one of the table.
MovesAreRead == \A r \in Request : at[r] = "update" => wanted[r] \in Allowed(seen[r])

\* The platform has its ticket before the creating request or a callback asks for "queued".
TicketComesFirst ==
  /\ at[Creator] = "queue" => ticket
  /\ \A r \in Request : at[r] = "update" /\ wanted[r] = "queued" => ticket
  /\ status = "queued" => ticket

\* While the handoff is held there is one holder, and otherwise none.
HandoffInv == HandoffTypeOK /\ MovesAreRead /\ TicketComesFirst /\ OneHolder

USE DEF Request, Position, rowVars, wishVars

\* Before the row exists nobody holds anything.
LEMMA InitHandoffInv == HandoffInit => HandoffInv
BY Zenon DEF HandoffInit, HandoffInv, HandoffTypeOK, MovesAreRead, TicketComesFirst, OneHolder,
             Status

\* Reading the row and finding the move allowed keeps the invariant, provided that
\* "queued" is asked for with a ticket only.
LEMMA ReadAllowedInv ==
  ASSUME HandoffInv, NEW r \in Request, NEW s \in Status, NEW x \in Agent \cup {NoAgent},
         ReadAllowed(r, s, x), at[r] # "create", s = "queued" => ticket
  PROVE  HandoffInv'
<1> USE DEF HandoffInv
<1>1. /\ seen' = [seen EXCEPT ![r] = status]
      /\ wanted' = [wanted EXCEPT ![r] = s]
      /\ who' = [who EXCEPT ![r] = x]
      /\ at' = [at EXCEPT ![r] = "update"]
      /\ UNCHANGED <<status, agent, holders, ticket>>
      /\ s \in Allowed(status)
  BY Zenon DEF ReadAllowed, MoveTo
<1>2. HandoffTypeOK'
  BY Zenon, <1>1 DEF HandoffTypeOK
<1>3. MovesAreRead'
  BY Zenon, <1>1 DEF HandoffTypeOK, MovesAreRead
<1>4. TicketComesFirst'
  BY Zenon, <1>1 DEF HandoffTypeOK, TicketComesFirst
<1>5. OneHolder'
  BY Zenon, <1>1 DEF OneHolder
<1>6. QED
  BY Zenon, <1>2, <1>3, <1>4, <1>5

\* A request that goes elsewhere, and changes at most the ticket, keeps the invariant.
LEMMA HandlerGoesInv ==
  ASSUME HandoffInv, NEW r \in Request, NEW l \in Position \ {"create", "update"}, MoveTo(r, l),
         at[r] # "create", UNCHANGED <<rowVars, wishVars>>, ticket' \in BOOLEAN, ticket => ticket',
         l = "queue" => ticket'
  PROVE  HandoffInv'
<1> USE DEF HandoffInv
<1>1. HandoffTypeOK'
  BY Zenon DEF HandoffTypeOK, MoveTo
<1>2. MovesAreRead'
  BY Zenon DEF HandoffTypeOK, MovesAreRead, MoveTo
<1>3. TicketComesFirst'
  BY Zenon DEF HandoffTypeOK, TicketComesFirst, MoveTo
<1>4. OneHolder'
  BY Zenon DEF OneHolder
<1>5. QED
  BY Zenon, <1>1, <1>2, <1>3, <1>4

\* The compare-and-set of kernel.py keeps the invariant: a handoff that is accepted
\* was held by nobody, and one that is connected was accepted.
LEMMA TransitionHandoffInv ==
  ASSUME HandoffInv, NEW r \in Request, TransitionHandoff(r)
  PROVE  HandoffInv'
<1> USE DEF HandoffInv
<1>1. /\ at[r] = "update"
      /\ at' = [at EXCEPT ![r] = "idle"]
      /\ UNCHANGED <<ticket, seen, wanted, who>>
  BY Zenon DEF TransitionHandoff, MoveTo
<1>2. CASE status # seen[r] /\ UNCHANGED rowVars
  <2>1. MoveTo(r, "idle")
    BY Zenon, <1>1 DEF MoveTo
  <2>2. ticket' \in BOOLEAN /\ (ticket => ticket')
    BY Zenon, <1>1 DEF HandoffTypeOK
  <2>3. QED
    BY Zenon, <1>1, <1>2, <2>1, <2>2, HandlerGoesInv
<1>3. CASE /\ status = seen[r]
           /\ status' = wanted[r]
           /\ agent' = who[r]
           /\ holders' = HoldersAfter(wanted[r], who[r])
  <2>1. wanted[r] \in Allowed(status)
    BY Zenon, <1>1, <1>3 DEF MovesAreRead
  <2>2. wanted[r] \in Status /\ status # "none"
    BY Zenon, <2>1 DEF Allowed
  <2>3. HandoffTypeOK'
    BY <1>1, <1>3, <2>2 DEF HandoffTypeOK, HoldersAfter, Status
  <2>4. MovesAreRead'
    BY Zenon, <1>1, <1>3 DEF HandoffTypeOK, MovesAreRead
  <2>5. TicketComesFirst'
    BY Zenon, <1>1, <1>3 DEF HandoffTypeOK, TicketComesFirst
  <2>6. OneHolder'
    <3>1. wanted[r] = "accepted" => status \notin {"accepted", "connected"}
      BY Zenon, <2>1 DEF Allowed
    <3>2. wanted[r] = "connected" => status = "accepted"
      BY Zenon, <2>1 DEF Allowed
    <3>3. CASE wanted[r] = "accepted"
      BY Zenon, <1>3, <3>1, <3>3 DEF OneHolder, HoldersAfter
    <3>4. CASE wanted[r] = "connected"
      BY Zenon, <1>3, <3>2, <3>4 DEF OneHolder, HoldersAfter
    <3>5. CASE wanted[r] \notin {"accepted", "connected"}
      BY Zenon, <1>3, <3>5 DEF OneHolder, HoldersAfter
    <3>6. QED
      BY Zenon, <3>3, <3>4, <3>5
  <2>7. QED
    BY Zenon, <2>3, <2>4, <2>5, <2>6
<1>4. QED
  BY Zenon, <1>2, <1>3 DEF TransitionHandoff

\* Every step of the creating request and of the callbacks keeps the invariant.
LEMMA NextHandoffInv == HandoffInv /\ [HandoffNext]_handoffVars => HandoffInv'
<1> SUFFICES ASSUME HandoffInv, [HandoffNext]_handoffVars PROVE HandoffInv'
  OBVIOUS
<1>1. CASE CreateHandoff
  BY Zenon, <1>1 DEF CreateHandoff, MoveTo, HandoffInv, HandoffTypeOK, MovesAreRead, TicketComesFirst,
              OneHolder, Status
<1>2. CASE Enqueue
  BY Zenon, <1>2, HandlerGoesInv DEF Enqueue, HandoffInv, HandoffTypeOK
<1>3. CASE MarkQueued
  <2>1. at[Creator] = "queue" /\ ticket
    BY Zenon, <1>3 DEF MarkQueued, HandoffInv, TicketComesFirst
  <2>2. CASE ReadAllowed(Creator, "queued", NoAgent)
    BY Zenon, <2>1, <2>2, ReadAllowedInv DEF Status
  <2>3. CASE MoveTo(Creator, "idle") /\ UNCHANGED <<rowVars, ticket, wishVars>>
    BY Zenon, <2>1, <2>3, HandlerGoesInv DEF HandoffInv, HandoffTypeOK
  <2>4. QED
    BY Zenon, <1>3, <2>2, <2>3 DEF MarkQueued
<1>4. ASSUME NEW r \in Handler, NEW s \in Status, NEW x \in Agent \cup {NoAgent}, Callback(r, s, x)
      PROVE  HandoffInv'
  BY Zenon, <1>4, ReadAllowedInv DEF Callback
<1>5. ASSUME NEW r \in Handler, NEW x \in Agent, AcceptHandoff(r, x)
      PROVE  HandoffInv'
  BY Zenon, <1>5, ReadAllowedInv DEF AcceptHandoff, Status
<1>6. ASSUME NEW r \in Request, TransitionHandoff(r)
      PROVE  HandoffInv'
  BY Zenon, <1>6, TransitionHandoffInv
<1>7. ASSUME NEW r \in Request, RequestDies(r)
      PROVE  HandoffInv'
  BY Zenon, <1>7, HandlerGoesInv DEF RequestDies, HandoffInv, HandoffTypeOK
<1>8. CASE UNCHANGED handoffVars
  BY Zenon, <1>8 DEF handoffVars, HandoffInv, HandoffTypeOK, MovesAreRead, TicketComesFirst, OneHolder
<1>9. QED
  BY Zenon, <1>1, <1>2, <1>3, <1>4, <1>5, <1>6, <1>7, <1>8 DEF HandoffNext

\* The invariant holds throughout, for any number of agents and callbacks.
THEOREM HandoffIsSafe == HandoffSpec => []HandoffInv
<1>1. QED
  BY InitHandoffInv, NextHandoffInv, PTL DEF HandoffSpec

\* The row, the ticket and the requests have the types the code gives them.
THEOREM HandoffTypes == HandoffSpec => []HandoffTypeOK
<1>1. HandoffInv => HandoffTypeOK
  BY Zenon DEF HandoffInv
<1>2. QED
  BY HandoffIsSafe, <1>1, PTL

\* Two agents never both hold a handoff, and an accepted or connected one is held.
THEOREM HeldByOne == HandoffSpec => []OneHolder
<1>1. HandoffInv => OneHolder
  BY Zenon DEF HandoffInv
<1>2. QED
  BY HandoffIsSafe, <1>1, PTL

\* A queued handoff has a ticket at the agent platform.
THEOREM QueuedHasTicket == HandoffSpec => []QueuedIsAcknowledged
<1>1. HandoffInv => QueuedIsAcknowledged
  BY Zenon DEF HandoffInv, TicketComesFirst, QueuedIsAcknowledged
<1>2. QED
  BY HandoffIsSafe, <1>1, PTL

\* The row moves along the table of transition_handoff only.
THEOREM OnlyAllowedMoves == HandoffSpec => MovesAreAllowed
<1>1. HandoffInv /\ [HandoffNext]_handoffVars =>
        [status # "none" /\ status' # status => status' \in Allowed(status)]_handoffVars
  <2> SUFFICES ASSUME HandoffInv, HandoffNext, status # "none", status' # status
               PROVE  status' \in Allowed(status)
    BY Zenon DEF handoffVars
  <2>1. PICK r \in Request : TransitionHandoff(r)
    BY Zenon DEF HandoffNext, CreateHandoff, Enqueue, MarkQueued, Callback, AcceptHandoff,
           ReadAllowed, RequestDies, HandoffInv, HandoffTypeOK
  <2>2. at[r] = "update" /\ status = seen[r] /\ status' = wanted[r]
    BY Zenon, <2>1 DEF TransitionHandoff
  <2>3. QED
    BY Zenon, <2>2 DEF HandoffInv, MovesAreRead
<1>2. QED
  BY HandoffIsSafe, <1>1, PTL DEF HandoffSpec, MovesAreAllowed

===============================================================================
