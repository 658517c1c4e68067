--------------------------- MODULE PolicyLifecycle ---------------------------
(***************************************************************************)
(* Governance of policy packages: drafting, approval, activation and       *)
(* retirement by concurrent administrative requests, and the actions       *)
(* authorized under an active package.                                     *)
(*                                                                         *)
(*   core/policy_store.py  PolicyService, SQLitePolicyRepository           *)
(*   core/policy.py        PolicySigner                                    *)
(*   main.py               the bootstrap packages                          *)
(*                                                                         *)
(* A request reads the package, computes its next form and writes it back  *)
(* in another transaction; the write compares nothing with what was read.  *)
(* The signatures are HMACs of the canonical package: two packages have    *)
(* the same activation signature iff they agree on author and approver     *)
(* (the rules go with the author).  Rows are written by the signer only,   *)
(* so signatures verify.  The in-process registry is a cache the gateway   *)
(* does not consult when it has a resolver, and is left out.               *)
(***************************************************************************)
EXTENDS Integers

CONSTANTS
  Package,     \* package ids
  ScopeOf,     \* the procedure and jurisdiction of each package
  Bootstrap,   \* the packages main.py installs as active, one per scope
  Person,      \* authenticated authors and approvers
  Admin,       \* administrative requests
  Action,      \* actions authorized under a policy
  Nobody       \* no author, no approver, no signature, no package

Signature == Person \X Person
Life == {"none", "draft", "approved", "active", "retired"}
Row == [life : Life,
        author : Person \cup {Nobody},
        approver : Person \cup {Nobody},
        activation : Signature \cup {Nobody}]

ASSUME PolicyAssumption ==
  /\ Bootstrap \subseteq Package
  /\ \A p, q \in Bootstrap : ScopeOf[p] = ScopeOf[q] => p = q
  /\ Nobody \notin Person /\ Nobody \notin Signature /\ Nobody \notin Package
  /\ \E x, y \in Person : x # y

VARIABLES
  row,      \* policy_packages
  stamp,    \* the package and activation signature an authorized action carries
  phase,    \* where each request is
  subject,  \* the package a request works on
  next,     \* the row it is going to write
  prior,    \* activate: the rows it retires, as they will be written
  lost      \* history: the packages a save moved other than one step forward

policyVars == <<row, stamp, phase, subject, next, prior, lost>>
requestVars == <<phase, subject, next, prior>>

NoRow == [life |-> "none", author |-> Nobody, approver |-> Nobody, activation |-> Nobody]
Phase == {"idle", "save", "list", "replace"}

\* PolicySigner
Draft(author) == [NoRow EXCEPT !.life = "draft", !.author = author]
Approved(r, approver) == [r EXCEPT !.life = "approved", !.approver = approver]

Activated(r) == [r EXCEPT !.life = "active", !.activation = <<r.author, r.approver>>]
Retired(r) == [r EXCEPT !.life = "retired"]

ActiveIn(table, scope) == {p \in Package : table[p].life = "active" /\ ScopeOf[p] = scope}

\* The bootstrap packages have the configured author and approver.
PolicyInit ==
  /\ \E x, y \in Person :
       /\ x # y
       /\ row = [p \in Package |->
                   IF p \in Bootstrap THEN Activated(Approved(Draft(x), y)) ELSE NoRow]
  /\ stamp = [a \in Action |-> Nobody]
  /\ phase = [m \in Admin |-> "idle"]
  /\ subject = [m \in Admin |-> Nobody]
  /\ next = [m \in Admin |-> NoRow]
  /\ prior = [m \in Admin |-> [p \in Package |-> NoRow]]
  /\ lost = {}

\* A request read the row of p and is going to write r.
Read(m, p, r, l) ==
  /\ phase[m] = "idle"
  /\ phase' = [phase EXCEPT ![m] = l]
  /\ subject' = [subject EXCEPT ![m] = p]
  /\ next' = [next EXCEPT ![m] = r]
  /\ UNCHANGED <<row, stamp, prior, lost>>

Finish(m) ==
  /\ phase' = [phase EXCEPT ![m] = "idle"]
  /\ subject' = [subject EXCEPT ![m] = Nobody]
  /\ next' = [next EXCEPT ![m] = NoRow]
  /\ prior' = [prior EXCEPT ![m] = [p \in Package |-> NoRow]]

-------------------------------------------------------------------------------
CreateDraft(m, p, author) == row[p].life = "none" /\ Read(m, p, Draft(author), "save")

\* Slip: authors may approve their own packages.
Approve_Anyone(m, p, approver) ==
  /\ row[p].life = "draft"
  /\ Read(m, p, Approved(row[p], approver), "save")

Approve(m, p, approver) ==
  /\ row[p].life = "draft"
  /\ approver # row[p].author
  /\ Read(m, p, Approved(row[p], approver), "save")

Retire(m, p) == row[p].life = "active" /\ Read(m, p, Retired(row[p]), "save")

Activate(m, p) == row[p].life = "approved" /\ Read(m, p, Activated(row[p]), "list")

\* Slip: prior packages are retired without their activation signature.
ListActive_DropsActivation(m) ==
  /\ phase[m] = "list"
  /\ LET others == ActiveIn(row, ScopeOf[subject[m]]) \ {subject[m]} IN
       prior' = [prior EXCEPT ![m] =
                   [p \in Package |->
                      IF p \in others THEN [Retired(row[p]) EXCEPT !.activation = Nobody]
                                      ELSE NoRow]]
  /\ phase' = [phase EXCEPT ![m] = "replace"]
  /\ UNCHANGED <<row, stamp, subject, next, lost>>

\* activate lists the active packages of the scope and prepares their retired form.
ListActive(m) ==
  /\ phase[m] = "list"
  /\ LET others == ActiveIn(row, ScopeOf[subject[m]]) \ {subject[m]} IN
       prior' = [prior EXCEPT ![m] =
                   [p \in Package |-> IF p \in others THEN Retired(row[p]) ELSE NoRow]]
  /\ phase' = [phase EXCEPT ![m] = "replace"]
  /\ UNCHANGED <<row, stamp, subject, next, lost>>

\* The lifecycle steps; what a request read is one step behind what it writes.
Forward == {<<"none", "draft">>, <<"draft", "approved">>, <<"approved", "active">>,
            <<"active", "retired">>}

\* save: an upsert of the whole row, whatever it is by now.
Save(m) ==
  /\ phase[m] = "save"
  /\ row' = [row EXCEPT ![subject[m]] = next[m]]
  /\ lost' = IF <<row[subject[m]].life, next[m].life>> \in Forward
               THEN lost ELSE lost \cup {subject[m]}
  /\ Finish(m)
  /\ UNCHANGED stamp

\* Slip: no unique index on the active package of a scope.
ReplaceActive_NoIndex(m) ==
  /\ phase[m] = "replace"
  /\ row' = [p \in Package |->
               IF p = subject[m] THEN next[m] ELSE IF prior[m][p] # NoRow THEN prior[m][p] ELSE row[p]]
  /\ Finish(m)
  /\ UNCHANGED <<stamp, lost>>

\* replace_active, one transaction: it fails as a whole when the unique index
\* finds a second active package in the scope.
ReplaceActive(m) ==
  /\ phase[m] = "replace"
  /\ LET table == [p \in Package |->
                     IF p = subject[m] THEN next[m]
                     ELSE IF prior[m][p] # NoRow THEN prior[m][p] ELSE row[p]]
     IN row' = IF ActiveIn(table, ScopeOf[subject[m]]) = {subject[m]} THEN table ELSE row
  /\ Finish(m)
  /\ UNCHANGED <<stamp, lost>>

RequestLost(m) ==
  /\ phase[m] # "idle"
  /\ Finish(m)
  /\ UNCHANGED <<row, stamp, lost>>

\* ActionGateway.authorize reads the active package and stamps the command.
Authorize(a, p) ==
  /\ stamp[a] = Nobody
  /\ row[p].life = "active"
  /\ stamp' = [stamp EXCEPT ![a] = <<p, row[p].activation>>]
  /\ UNCHANGED <<row, requestVars, lost>>

AdminStep(m) ==
  \/ \E p \in Package, x \in Person : CreateDraft(m, p, x) \/ Approve(m, p, x)
  \/ \E p \in Package : Retire(m, p) \/ Activate(m, p)
  \/ ListActive(m)
  \/ Save(m)
  \/ ReplaceActive(m)
  \/ RequestLost(m)

PolicyNext == (\E m \in Admin : AdminStep(m)) \/ (\E a \in Action, p \in Package : Authorize(a, p))

PolicySpec == PolicyInit /\ [][PolicyNext]_policyVars

-------------------------------------------------------------------------------
(* Properties. *)

\* Every variable has the type the schema and the code give it.
PolicyTypeOK ==
  /\ row \in [Package -> Row]
  /\ stamp \in [Action -> (Package \X Signature) \cup {Nobody}]
  /\ phase \in [Admin -> Phase]
  /\ subject \in [Admin -> Package \cup {Nobody}]
  /\ next \in [Admin -> Row]
  /\ prior \in [Admin -> [Package -> Row]]
  /\ lost \subseteq Package

\* Activations and retirements racing on a procedure and jurisdiction leave at most
\* one package active: replace_active works on a list read earlier.
OneActive == \A p \in Package : \A q, r \in ActiveIn(row, ScopeOf[p]) : q = r

\* Whatever writes overwrite each other, a package past drafting has an approver who
\* is not its author, and carries the signature of exactly that pair once it has
\* been active: no mixture of two requests' writes is ever stored.
SeparateApproval ==
  \A p \in Package :
    /\ row[p].life \in {"approved", "active", "retired"} =>
         row[p].approver \in Person \ {row[p].author}
    /\ row[p].life \in {"active", "retired"} =>
         row[p].activation = <<row[p].author, row[p].approver>>

\* require_authorization_snapshot accepts the stamp of every authorized action, whatever
\* activations and retirements race: only a save that moves the package other
\* than one step forward can strand an action in the outbox.
AuthorizedStaysVerifiable ==
  \A a \in Action : stamp[a] # Nobody /\ stamp[a][1] \notin lost =>
    /\ row[stamp[a][1]].life \in {"active", "retired"}
    /\ row[stamp[a][1]].activation = stamp[a][2]

\* A package that has been active is active or retired from then on and keeps its
\* author, approver and signature, though a request that read it earlier may still make
\* it active again; only a save that overtook another write can break this.
SignatureIsFinal ==
  [][\A p \in Package \ lost' : row[p].life \in {"active", "retired"} =>
       /\ row'[p].life \in {"active", "retired"}
       /\ row'[p].author = row[p].author /\ row'[p].approver = row[p].approver
       /\ row'[p].activation = row[p].activation]_policyVars

===============================================================================
