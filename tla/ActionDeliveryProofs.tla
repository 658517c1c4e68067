------------------------- MODULE ActionDeliveryProofs -------------------------
(***************************************************************************)
(* Proofs about ActionDelivery, for every number of actions, request       *)
(* handlers, workers and reconcilers and every value of the limits.        *)
(*                                                                         *)
(* DeliveryInv is inductive.  One lemma per action shows that it is kept;  *)
(* the actions that only move a process, and the compare-and-set of        *)
(* transition_action, rest on shared lemmas.                               *)
(***************************************************************************)
EXTENDS ActionDelivery, TLAPS

USE DeliveryAssumption DEF Owning, Process, Dispatcher

-------------------------------------------------------------------------------
(* Shared lemmas. *)

\* The rest of the invariant only depends on the variables named here.
LEMMA FrameKeepsInv ==
  ASSUME DeliveryInv, TypeOK',
         UNCHANGED <<status, outbox, effect, calls, pc, cur, seen, out, leased, listed>>
  PROVE  DeliveryInv'
<1> USE DEF DeliveryInv
<1>1. KnownRows'
  BY Zenon DEF KnownRows
<1>2. OneOwner'
  BY Zenon DEF OneOwner
<1>3. NotYetCommitted'
  BY Zenon DEF NotYetCommitted
<1>4. TruthfulOutcome'
  BY Zenon DEF TruthfulOutcome
<1>5. AtMostOneDispatch' /\ NoLostAction' /\ TruthfulStatus'
  BY Zenon DEF AtMostOneDispatch, NoLostAction, TruthfulStatus
<1>6. QED
  BY Zenon, <1>1, <1>2, <1>3, <1>4, <1>5

\* p is the only process that moves, and no status, effect or call changes.
OnlyMoves(p) ==
  /\ UNCHANGED <<status, effect, calls>>
  /\ \A q \in Process \ {p} :
       pc'[q] = pc[q] /\ cur'[q] = cur[q] /\ seen'[q] = seen[q] /\ out'[q] = out[q]

\* What the invariant asks of a dispatcher's new local state: it does not enter
\* the connector, and keeps an action only if it already owned it.
DispatcherMayHold(p) ==
  /\ pc'[p] \notin {"calling", "committing"}
  /\ pc'[p] \in Owning => pc[p] \in Owning /\ cur'[p] = cur[p]
  /\ pc'[p] = "settle" => status[cur'[p]] # "authorized"
  /\ pc'[p] = "dispatch" /\ seen'[p] # "authorized" => status[cur'[p]] # "authorized"
  /\ pc'[p] \in {"outcome", "record"} =>
       /\ out'[p] \in {"succeeded", "failed", "unknown"}
       /\ out'[p] = "succeeded" => effect[cur'[p]]
       /\ out'[p] = "failed" => ~ effect[cur'[p]]

\* What it asks of a reconciler's: an outcome that agrees with the provider.
ReconcilerMayHold(p) ==
  pc'[p] \in {"mark", "markcas", "outcome", "record"} =>
    /\ out'[p] \in {"unknown", "reconciled"}
    /\ out'[p] = "reconciled" => effect[cur'[p]]

\* What it asks of both.
MayHold(p) ==
  /\ pc'[p] \notin {"idle", "batch", "listed"} =>
       cur'[p] \in Action /\ status[cur'[p]] # "none"
  /\ pc'[p] \in {"record", "markcas"} => <<seen'[p], out'[p]>> \in Allowed
  /\ p \in Dispatcher => DispatcherMayHold(p)
  /\ p \in Reconciler => ReconcilerMayHold(p)

\* Rows that were never inserted stay out of the outbox and of every batch, and no
\* authorized action is marked delivered.
RowsKept ==
  \A a \in Action :
    /\ status[a] = "none" =>
         /\ outbox'[a] = "none"
         /\ \A w \in Worker : leased'[w][a] = 0
         /\ \A r \in Reconciler : listed'[r][a] = "none"
    /\ status[a] = "authorized" => outbox'[a] # "delivered"

\* Tables the step leaves alone are kept.
LEMMA SameRowsKept ==
  ASSUME DeliveryInv, UNCHANGED <<outbox, leased, listed>>
  PROVE  RowsKept
BY Zenon DEF DeliveryInv, KnownRows, NoLostAction, RowsKept

\* A step of one process that changes no status, effect or call count keeps the
\* invariant if its new local state is one the invariant allows.
LEMMA MoveKeepsInv ==
  ASSUME DeliveryInv, TypeOK', NEW p \in Process, OnlyMoves(p), MayHold(p), RowsKept
  PROVE  DeliveryInv'
<1> USE DEF DeliveryInv
<1>1. UNCHANGED <<status, effect, calls>>
  BY Zenon DEF OnlyMoves
<1>2. \A q \in Process :
        q # p => pc'[q] = pc[q] /\ cur'[q] = cur[q] /\ seen'[q] = seen[q] /\ out'[q] = out[q]
  BY Zenon DEF OnlyMoves
<1>3. KnownRows'
  <2>1. \A q \in Process : pc'[q] \notin {"idle", "batch", "listed"} =>
          cur'[q] \in Action /\ status'[cur'[q]] # "none"
    BY <1>1, <1>2 DEF MayHold, KnownRows
  <2>2. QED
    BY Zenon, <1>1, <2>1 DEF RowsKept, KnownRows
<1>4. OneOwner'
  <2>1. ASSUME NEW q \in Dispatcher, pc'[q] \in Owning
        PROVE  pc[q] \in Owning /\ cur'[q] = cur[q]
    BY Zenon, <1>2, <2>1 DEF MayHold, DispatcherMayHold
  <2>2. ASSUME NEW q \in Dispatcher, NEW r \in Dispatcher,
               pc'[q] \in Owning, pc'[r] \in Owning, cur'[q] = cur'[r]
        PROVE  q = r
    BY Zenon, <2>1, <2>2 DEF OneOwner
  <2>3. ASSUME NEW q \in Dispatcher, pc'[q] \in Owning \cup {"settle"}
        PROVE  status'[cur'[q]] # "authorized"
    BY <1>1, <1>2, <2>1, <2>3 DEF MayHold, DispatcherMayHold, OneOwner
  <2>4. ASSUME NEW q \in Dispatcher, pc'[q] = "dispatch", seen'[q] # "authorized"
        PROVE  status'[cur'[q]] # "authorized"
    BY <1>1, <1>2, <2>4 DEF MayHold, DispatcherMayHold, OneOwner
  <2>5. QED
    BY Zenon, <2>2, <2>3, <2>4 DEF OneOwner
<1>5. \A q \in Dispatcher : pc'[q] \in {"calling", "committing"} =>
        pc'[q] = pc[q] /\ cur'[q] = cur[q]
  BY Zenon, <1>2 DEF MayHold, DispatcherMayHold
<1>6. NotYetCommitted'
  BY Zenon, <1>1, <1>5 DEF NotYetCommitted
<1>7. TruthfulOutcome'
  <2>1. ASSUME NEW q \in Dispatcher, pc'[q] \in {"outcome", "record"}
        PROVE  /\ out'[q] \in {"succeeded", "failed", "unknown"}
               /\ out'[q] = "succeeded" => effect'[cur'[q]]
               /\ out'[q] = "failed" => ~ effect'[cur'[q]]
    BY <1>1, <1>2, <2>1 DEF MayHold, DispatcherMayHold, TruthfulOutcome
  <2>2. ASSUME NEW r \in Reconciler, pc'[r] \in {"mark", "markcas", "outcome", "record"}
        PROVE  /\ out'[r] \in {"unknown", "reconciled"}
               /\ out'[r] = "reconciled" => effect'[cur'[r]]
    BY Zenon, <1>1, <1>2, <2>2 DEF MayHold, ReconcilerMayHold, TruthfulOutcome
  <2>3. ASSUME NEW q \in Process, pc'[q] \in {"record", "markcas"}
        PROVE  <<seen'[q], out'[q]>> \in Allowed
    BY Zenon, <1>2, <2>3 DEF MayHold, TruthfulOutcome
  <2>4. QED
    BY Zenon, <2>1, <2>2, <2>3 DEF TruthfulOutcome, Allowed
<1>8. AtMostOneDispatch' /\ NoLostAction'
  BY Zenon, <1>1 DEF AtMostOneDispatch, NoLostAction, RowsKept
<1>9. TruthfulStatus'
  BY <1>1, <1>5 DEF TruthfulStatus
<1>10. QED
  BY Zenon, <1>3, <1>4, <1>6, <1>7, <1>8, <1>9

\* A process that only moves on, forgetting what it read, keeps the invariant, if
\* it stays with an action only to finish its work on one that has left
\* "authorized" or to report an exception.
LEMMA GotoKeepsInv ==
  ASSUME DeliveryInv, NEW p \in Process,
         NEW l \in {"idle", "batch", "listed", "settle", "raised", "query"}, Goto(p, l),
         l \in {"settle", "raised", "query"} =>
           cur[p] \in Action /\ status[cur[p]] # "none",
         l = "settle" => status[cur[p]] # "authorized",
         UNCHANGED <<storeVars, providerVars, leased, listed, faults>>
  PROVE  DeliveryInv'
<1> USE DEF storeVars, providerVars
<1>1. /\ pc' = [pc EXCEPT ![p] = l]
      /\ seen' = [seen EXCEPT ![p] = "none"]
      /\ out' = [out EXCEPT ![p] = "none"]
      /\ cur' = IF l \in {"idle", "batch"} THEN [cur EXCEPT ![p] = NoAction] ELSE cur
  BY Zenon DEF Goto
<1>2. TypeOK'
  BY Zenon, <1>1 DEF Status, Location, DeliveryInv, TypeOK
<1>3. OnlyMoves(p)
  BY Zenon, <1>1 DEF DeliveryInv, TypeOK, OnlyMoves
<1>4. pc'[p] = l /\ (l \in {"settle", "raised", "query"} => cur'[p] = cur[p])
  BY Zenon, <1>1 DEF DeliveryInv, TypeOK
<1>5. MayHold(p)
  BY Zenon, <1>4 DEF MayHold, DispatcherMayHold, ReconcilerMayHold
<1>6. QED
  BY Zenon, <1>2, <1>3, <1>5, SameRowsKept, MoveKeepsInv

\* The first half of record_outcome: the status read and the held outcome form an
\* allowed transition.
LEMMA ReadKeepsInv ==
  ASSUME DeliveryInv, NEW p \in Process, NEW l \in {"record", "markcas"},
         \/ p \in Dispatcher /\ pc[p] = "outcome" /\ l = "record"
         \/ p \in Reconciler /\ pc[p] \in {"outcome", "mark"},
         <<status[cur[p]], out[p]>> \in Allowed,
         pc' = [pc EXCEPT ![p] = l],
         seen' = [seen EXCEPT ![p] = status[cur[p]]],
         UNCHANGED <<cur, out, storeVars, providerVars, leased, listed, faults>>
  PROVE  DeliveryInv'
<1> USE DEF storeVars, providerVars
<1>1. cur[p] \in Action /\ status[cur[p]] \in Status /\ status[cur[p]] # "none"
  <2>1. cur[p] \in Action /\ status[cur[p]] # "none"
    BY Zenon DEF DeliveryInv, KnownRows
  <2>2. QED
    BY Zenon, <2>1 DEF DeliveryInv, TypeOK
<1>2. TypeOK'
  BY Zenon, <1>1 DEF Location, DeliveryInv, TypeOK
<1>3. OnlyMoves(p)
  BY Zenon DEF DeliveryInv, TypeOK, OnlyMoves
<1>4. pc'[p] = l /\ seen'[p] = status[cur[p]] /\ out'[p] = out[p] /\ cur'[p] = cur[p]
  BY Zenon DEF DeliveryInv, TypeOK
<1>5. p \in Dispatcher => DispatcherMayHold(p)
  BY Zenon, <1>4 DEF DeliveryInv, TruthfulOutcome, DispatcherMayHold
<1>6. p \in Reconciler => ReconcilerMayHold(p)
  BY Zenon, <1>4 DEF DeliveryInv, TruthfulOutcome, ReconcilerMayHold
<1>7. MayHold(p)
  BY Zenon, <1>1, <1>4, <1>5, <1>6 DEF MayHold
<1>8. QED
  BY Zenon, <1>2, <1>3, <1>7, SameRowsKept, MoveKeepsInv

\* A won compare-and-set of transition_action: an allowed transition whose outcome
\* agrees with the provider keeps the invariant, provided no connector call is
\* still open when the action is settled as failed.
LEMMA WriteKeepsInv ==
  ASSUME DeliveryInv, NEW p \in Process, NEW l \in {"settle", "batch", "query"},
         pc[p] \in {"record", "markcas"},
         status[cur[p]] = seen[p],
         <<seen[p], out[p]>> \in Allowed,
         out[p] \in {"succeeded", "reconciled"} => effect[cur[p]],
         out[p] = "failed" => p \in Dispatcher /\ pc[p] = "record" /\ ~ effect[cur[p]],
         SetStatus(cur[p], out[p]), Goto(p, l),
         UNCHANGED <<older, outbox, attempts, ready, providerVars, leased, listed, faults>>
  PROVE  DeliveryInv'
<1> DEFINE a == cur[p]
<1> USE DEF DeliveryInv, providerVars
<1>1. /\ pc' = [pc EXCEPT ![p] = l]
      /\ seen' = [seen EXCEPT ![p] = "none"]
      /\ out' = [out EXCEPT ![p] = "none"]
      /\ cur' = IF l \in {"idle", "batch"} THEN [cur EXCEPT ![p] = NoAction] ELSE cur
      /\ status' = [status EXCEPT ![a] = out[p]]
      /\ stale' = [stale EXCEPT ![a] = FALSE]
  BY Zenon DEF Goto, SetStatus
<1>2. /\ a \in Action
      /\ out[p] \in {"succeeded", "failed", "unknown", "reconciled"}
      /\ status[a] \in {"dispatched", "unknown"}
  BY Zenon DEF KnownRows, Allowed
<1> HIDE DEF a
<1>3. TypeOK'
  BY Zenon, <1>1, <1>2 DEF Status, Location, TypeOK
<1>4. /\ pc'[p] = l
      /\ \A q \in Process : q # p => /\ pc'[q] = pc[q] /\ cur'[q] = cur[q]
                                     /\ seen'[q] = seen[q] /\ out'[q] = out[q]
  BY Zenon, <1>1 DEF TypeOK
<1>5. l # "batch" => cur'[p] = a
  BY Zenon, <1>1 DEF a
<1>6. status'[a] = out[p] /\ \A b \in Action : b # a => status'[b] = status[b]
  BY Zenon, <1>1, <1>2 DEF TypeOK
<1>7. KnownRows'
  BY <1>2, <1>4, <1>5, <1>6 DEF KnownRows
<1>8. OneOwner'
  <2>1. ASSUME NEW q \in Dispatcher, NEW r \in Dispatcher,
               pc'[q] \in Owning, pc'[r] \in Owning, cur'[q] = cur'[r]
        PROVE  q = r
    <3>1. q # p /\ r # p
      BY Zenon, <1>4, <2>1
    <3>2. pc[q] \in Owning /\ pc[r] \in Owning /\ cur[q] = cur[r]
      BY Zenon, <1>4, <2>1, <3>1
    <3>3. QED
      BY Zenon, <3>2 DEF OneOwner
  <2>2. ASSUME NEW q \in Dispatcher, pc'[q] \in Owning \cup {"settle", "dispatch"}
        PROVE  cur'[q] \in Action /\ (cur'[q] = a => status'[cur'[q]] # "authorized")
    BY <1>2, <1>4, <1>5, <1>6, <2>2 DEF KnownRows
  <2>3. ASSUME NEW q \in Dispatcher, pc'[q] \in Owning \cup {"settle"}
        PROVE  status'[cur'[q]] # "authorized"
    BY <1>4, <1>5, <1>6, <2>2, <2>3 DEF OneOwner
  <2>4. ASSUME NEW q \in Dispatcher, pc'[q] = "dispatch", seen'[q] # "authorized"
        PROVE  status'[cur'[q]] # "authorized"
    <3>1. q # p
      BY Zenon, <1>4, <2>4
    <3>2. pc[q] = "dispatch" /\ seen[q] # "authorized" /\ cur'[q] = cur[q]
      BY Zenon, <1>4, <2>4, <3>1
    <3>3. status[cur[q]] # "authorized"
      BY Zenon, <3>2 DEF OneOwner
    <3>4. cur'[q] \in Action /\ (cur'[q] = a => status'[cur'[q]] # "authorized")
      BY Zenon, <2>2, <2>4
    <3>5. QED
      BY Zenon, <1>6, <3>2, <3>3, <3>4
  <2>5. QED
    BY Zenon, <2>1, <2>3, <2>4 DEF OneOwner
<1>9. \A q \in Dispatcher : pc[q] \in {"calling", "committing"} /\ cur[q] = a => out[p] = "unknown"
  BY Zenon, <1>2 DEF OneOwner, NotYetCommitted, Allowed, a
<1>10. NotYetCommitted'
  <2>1. \A b \in Action : status'[b] \in {"none", "authorized"} => calls'[b] = 0
    BY Zenon, <1>2, <1>6 DEF NotYetCommitted
  <2>2. \A q \in Dispatcher : pc'[q] = "calling" => calls'[cur'[q]] = 0
    BY <1>4 DEF NotYetCommitted
  <2>3. ASSUME NEW q \in Dispatcher, pc'[q] \in {"calling", "committing"}
        PROVE  ~ effect'[cur'[q]] /\ status'[cur'[q]] \in {"dispatched", "unknown"}
    <3>1. pc'[q] = pc[q] /\ cur'[q] = cur[q] /\ cur[q] \in Action
      BY Zenon, <1>4, <2>3 DEF KnownRows
    <3>2. QED
      BY Zenon, <1>6, <1>9, <2>3, <3>1 DEF NotYetCommitted
  <2>4. QED
    BY Zenon, <2>1, <2>2, <2>3 DEF NotYetCommitted
<1>11. TruthfulOutcome'
  BY <1>4 DEF TruthfulOutcome, Allowed
<1>12. AtMostOneDispatch' /\ NoLostAction'
  BY Zenon, <1>2, <1>6 DEF AtMostOneDispatch, NoLostAction
<1>13. TruthfulStatus'
  <2>1. ASSUME NEW b \in Action
        PROVE  /\ status'[b] \in {"succeeded", "reconciled"} => effect'[b]
               /\ status'[b] \in {"none", "authorized", "failed"} => ~ effect'[b]
    BY Zenon, <1>2, <1>6 DEF TruthfulStatus, a
  <2>2. ASSUME NEW b \in Action, status'[b] = "failed",
               NEW q \in Dispatcher, cur'[q] = b, pc'[q] \in {"calling", "committing"}
        PROVE  FALSE
    <3>1. pc'[q] = pc[q] /\ cur[q] = b
      BY Zenon, <1>4, <2>2
    <3>2. QED
      BY Zenon, <1>6, <1>9, <2>2, <3>1 DEF TruthfulStatus
  <2>3. QED
    BY Zenon, <2>1, <2>2 DEF TruthfulStatus
<1>14. QED
  BY Zenon, <1>3, <1>7, <1>8, <1>10, <1>11, <1>12, <1>13

-------------------------------------------------------------------------------
(* Request handlers and workers. *)

\* insert_action touches no row that existed before, and no process can hold the
\* new one yet.
LEMMA AuthorizeInv ==
  ASSUME DeliveryInv, NEW p \in Requester, NEW a \in Action, Authorize(p, a)
  PROVE  DeliveryInv'
<1> USE DEF DeliveryInv, providerVars
<1>1. /\ status[a] = "none"
      /\ pc' = [pc EXCEPT ![p] = "dispatch"]
      /\ cur' = [cur EXCEPT ![p] = a]
      /\ seen' = [seen EXCEPT ![p] = "authorized"]
      /\ status' = [status EXCEPT ![a] = "authorized"]
      /\ stale' = [stale EXCEPT ![a] = FALSE]
      /\ outbox' = [outbox EXCEPT ![a] = "pending"]
      /\ ready' = [ready EXCEPT ![a] = TRUE]
      /\ UNCHANGED <<out, attempts, effect, calls, leased, listed, faults>>
  BY Zenon DEF Authorize, Take, SetStatus
<1>2. older' \in [Action -> SUBSET Action]
  BY Zenon DEF Authorize, TypeOK
<1>3. TypeOK'
  <2>1. pc' \in [Process -> Location] /\ seen' \in [Process -> Status]
    BY Zenon, <1>1 DEF Status, Location, TypeOK
  <2>2. cur' \in [Process -> Action \cup {NoAction}]
    BY Zenon, <1>1 DEF TypeOK
  <2>3. status' \in [Action -> Status] /\ outbox' \in [Action -> OutboxStatus]
    BY Zenon, <1>1 DEF Status, OutboxStatus, TypeOK
  <2>4. stale' \in [Action -> BOOLEAN] /\ ready' \in [Action -> BOOLEAN]
    BY Zenon, <1>1 DEF TypeOK
  <2>5. QED
    BY Zenon, <1>1, <1>2, <2>1, <2>2, <2>3, <2>4 DEF TypeOK
<1>4. KnownRows'
  BY Zenon, <1>1 DEF TypeOK, KnownRows
<1>5. OneOwner'
  <2>1. \A q \in Dispatcher : pc[q] \in Owning \cup {"dispatch", "settle"} => cur[q] # a
    BY Zenon, <1>1 DEF KnownRows
  <2>2. QED
    BY <1>1, <2>1 DEF TypeOK, OneOwner
<1>6. NotYetCommitted'
  BY <1>1 DEF TypeOK, NotYetCommitted, KnownRows
<1>7. TruthfulOutcome'
  BY Zenon, <1>1 DEF TypeOK, TruthfulOutcome
<1>8. AtMostOneDispatch' /\ NoLostAction'
  BY Zenon, <1>1 DEF TypeOK, AtMostOneDispatch, NoLostAction
<1>9. TruthfulStatus'
  BY <1>1 DEF TypeOK, TruthfulStatus, KnownRows
<1>10. QED
  BY Zenon, <1>3, <1>4, <1>5, <1>6, <1>7, <1>8, <1>9

\* A duplicate submission only reads the row.
LEMMA ResubmitInv ==
  ASSUME DeliveryInv, NEW p \in Requester, NEW a \in Action, Resubmit(p, a)
  PROVE  DeliveryInv'
<1>1. /\ status[a] # "none"
      /\ pc' = [pc EXCEPT ![p] = "dispatch"]
      /\ cur' = [cur EXCEPT ![p] = a]
      /\ seen' = [seen EXCEPT ![p] = status[a]]
      /\ UNCHANGED <<status, older, stale, outbox, attempts, ready, effect, calls, out, leased, listed, faults>>
  BY Zenon DEF Resubmit, Take, storeVars, providerVars
<1>2. TypeOK'
  BY Zenon, <1>1 DEF Location, DeliveryInv, TypeOK
<1>3. OnlyMoves(p)
  BY Zenon, <1>1 DEF DeliveryInv, TypeOK, OnlyMoves
<1>4. pc'[p] = "dispatch" /\ cur'[p] = a /\ seen'[p] = status[a]
  BY Zenon, <1>1 DEF DeliveryInv, TypeOK
<1>5. MayHold(p)
  BY Zenon, <1>1, <1>4 DEF MayHold, DispatcherMayHold, ReconcilerMayHold
<1>6. RowsKept
  BY Zenon, <1>1, SameRowsKept
<1>7. QED
  BY Zenon, <1>2, <1>3, <1>5, <1>6, MoveKeepsInv

\* A handler that answers lets go of its action.
LEMMA RespondInv ==
  ASSUME DeliveryInv, NEW p \in Requester, Respond(p)
  PROVE  DeliveryInv'
<1>1. Goto(p, "idle") /\ UNCHANGED <<storeVars, providerVars, leased, listed, faults>>
  BY Zenon DEF Respond
<1>2. QED
  BY Zenon, <1>1, GotoKeepsInv

\* Leasing changes outbox rows only, and only rows of existing actions.
LEMMA ClaimOutboxInv ==
  ASSUME DeliveryInv, NEW p \in Worker, ClaimOutbox(p)
  PROVE  DeliveryInv'
<1> DEFINE rows == Earliest(Due, ClaimLimit)
<1> USE DEF DeliveryInv
<1>1. /\ rows \subseteq {a \in Action : outbox[a] \in {"pending", "failed", "leased"}}
      /\ outbox' = [a \in Action |-> IF a \in rows THEN "leased" ELSE outbox[a]]
      /\ ready' = [a \in Action |-> ready[a] /\ a \notin rows]
      /\ attempts' = [a \in Action |->
                        IF a \in rows THEN NextAttempt(attempts[a]) ELSE attempts[a]]
      /\ leased' = [leased EXCEPT ![p] =
                      [a \in Action |-> IF a \in rows THEN attempts'[a] ELSE 0]]
  BY Zenon DEF ClaimOutbox, Earliest, Due
<1>2. /\ pc' = [pc EXCEPT ![p] = "batch"]
      /\ cur' = [cur EXCEPT ![p] = NoAction]
      /\ seen' = [seen EXCEPT ![p] = "none"]
      /\ out' = [out EXCEPT ![p] = "none"]
      /\ UNCHANGED <<status, older, stale, effect, calls, listed, faults>>
  BY Zenon DEF ClaimOutbox, Goto
<1> HIDE DEF rows
<1>3. TypeOK'
  BY <1>1, <1>2 DEF Status, OutboxStatus, Location, TypeOK, NextAttempt
<1>4. RowsKept
  <2>1. ASSUME NEW a \in Action, status[a] = "none"
        PROVE  /\ outbox'[a] = "none"
               /\ \A w \in Worker : leased'[w][a] = 0
               /\ \A r \in Reconciler : listed'[r][a] = "none"
    <3>1. outbox[a] = "none" /\ a \notin rows
      BY Zenon, <1>1, <2>1 DEF KnownRows
    <3>2. outbox'[a] = "none"
      BY Zenon, <1>1, <3>1
    <3>3. \A w \in Worker : leased'[w][a] = 0
      BY <1>1, <2>1, <3>1 DEF TypeOK, KnownRows
    <3>4. QED
      BY Zenon, <1>2, <2>1, <3>2, <3>3 DEF KnownRows
  <2>2. ASSUME NEW a \in Action, status[a] = "authorized"
        PROVE  outbox'[a] # "delivered"
    BY Zenon, <1>1, <2>2 DEF NoLostAction
  <2>3. QED
    BY Zenon, <2>1, <2>2 DEF RowsKept
<1>5. OnlyMoves(p)
  BY Zenon, <1>2 DEF TypeOK, OnlyMoves
<1>6. pc'[p] = "batch"
  BY Zenon, <1>2 DEF TypeOK
<1>7. MayHold(p)
  BY Zenon, <1>6 DEF MayHold, DispatcherMayHold, ReconcilerMayHold
<1>8. QED
  BY Zenon, <1>3, <1>4, <1>5, <1>7, MoveKeepsInv

\* A worker reads the action of a leased row.
LEMMA TakeRecordInv ==
  ASSUME DeliveryInv, NEW p \in Worker, NEW a \in Action, TakeRecord(p, a)
  PROVE  DeliveryInv'
<1>1. /\ status[a] # "none"
      /\ pc' = [pc EXCEPT ![p] = "dispatch"]
      /\ cur' = [cur EXCEPT ![p] = a]
      /\ seen' = [seen EXCEPT ![p] = status[a]]
      /\ UNCHANGED <<status, older, stale, outbox, attempts, ready, effect, calls, out, leased, listed, faults>>
  BY DEF TakeRecord, Take, storeVars, providerVars, DeliveryInv, KnownRows
<1>2. TypeOK'
  BY Zenon, <1>1 DEF Location, DeliveryInv, TypeOK
<1>3. OnlyMoves(p)
  BY Zenon, <1>1 DEF DeliveryInv, TypeOK, OnlyMoves
<1>4. pc'[p] = "dispatch" /\ cur'[p] = a /\ seen'[p] = status[a]
  BY Zenon, <1>1 DEF DeliveryInv, TypeOK
<1>5. MayHold(p)
  BY Zenon, <1>1, <1>4 DEF MayHold, DispatcherMayHold, ReconcilerMayHold
<1>6. RowsKept
  BY Zenon, <1>1, SameRowsKept
<1>7. QED
  BY Zenon, <1>2, <1>3, <1>5, <1>6, MoveKeepsInv

\* A worker whose batch is empty polls again.
LEMMA BatchDoneInv ==
  ASSUME DeliveryInv, NEW p \in Worker, BatchDone(p)
  PROVE  DeliveryInv'
<1>1. Goto(p, "idle") /\ UNCHANGED <<storeVars, providerVars, leased, listed, faults>>
  BY Zenon DEF BatchDone
<1>2. QED
  BY Zenon, <1>1, GotoKeepsInv

\* complete_outbox marks delivered only after dispatch returned, when the action has
\* left "authorized".
LEMMA CompleteOutboxInv ==
  ASSUME DeliveryInv, NEW p \in Worker, CompleteOutbox(p)
  PROVE  DeliveryInv'
<1> DEFINE a == cur[p]
<1> USE DEF DeliveryInv, providerVars
<1>1. PICK s \in {"delivered", "failed", "quarantined"} :
        outbox' = [outbox EXCEPT ![a] = s] /\ (s = "delivered" => pc[p] = "settle")
  BY Zenon DEF CompleteOutbox, UpdateOutbox
<1>2. /\ pc[p] \in {"settle", "raised"}
      /\ pc' = [pc EXCEPT ![p] = "batch"]
      /\ seen' = [seen EXCEPT ![p] = "none"]
      /\ out' = [out EXCEPT ![p] = "none"]
      /\ cur' = [cur EXCEPT ![p] = NoAction]
      /\ ready' = [ready EXCEPT ![a] = FALSE]
      /\ leased' = [leased EXCEPT ![p] = [leased[p] EXCEPT ![a] = 0]]
      /\ UNCHANGED <<status, older, stale, attempts, effect, calls, listed, faults>>
  BY Zenon DEF CompleteOutbox, UpdateOutbox, Goto
<1>3. a \in Action /\ status[a] # "none"
  BY Zenon, <1>2 DEF KnownRows
<1> HIDE DEF a
<1>4. TypeOK'
  BY <1>1, <1>2, <1>3 DEF Status, OutboxStatus, Location, TypeOK
<1>5. RowsKept
  <2>1. ASSUME NEW b \in Action, status[b] = "none"
        PROVE  /\ outbox'[b] = "none"
               /\ \A w \in Worker : leased'[w][b] = 0
               /\ \A r \in Reconciler : listed'[r][b] = "none"
    BY Zenon, <1>1, <1>2, <1>3, <2>1 DEF TypeOK, KnownRows
  <2>2. ASSUME NEW b \in Action, status[b] = "authorized"
        PROVE  outbox'[b] # "delivered"
    BY Zenon, <1>1, <1>2, <1>3, <2>2 DEF TypeOK, NoLostAction, OneOwner, a
  <2>3. QED
    BY Zenon, <2>1, <2>2 DEF RowsKept
<1>6. OnlyMoves(p)
  BY Zenon, <1>2 DEF TypeOK, OnlyMoves
<1>7. pc'[p] = "batch"
  BY Zenon, <1>2 DEF TypeOK
<1>8. MayHold(p)
  BY Zenon, <1>7 DEF MayHold, DispatcherMayHold, ReconcilerMayHold
<1>9. QED
  BY Zenon, <1>4, <1>5, <1>6, <1>8, MoveKeepsInv

\* The except branch never marks a row delivered.
LEMMA FailOutboxInv ==
  ASSUME DeliveryInv, NEW p \in Worker, FailOutbox(p)
  PROVE  DeliveryInv'
<1> DEFINE a == cur[p]
<1> USE DEF DeliveryInv, providerVars
<1>1. PICK s \in {"delivered", "failed", "quarantined"} :
        outbox' = [outbox EXCEPT ![a] = s] /\ (s = "delivered" => pc[p] = "settle")
  BY Zenon DEF FailOutbox, UpdateOutbox
<1>2. /\ pc[p] \in {"settle", "raised"}
      /\ pc' = [pc EXCEPT ![p] = "batch"]
      /\ seen' = [seen EXCEPT ![p] = "none"]
      /\ out' = [out EXCEPT ![p] = "none"]
      /\ cur' = [cur EXCEPT ![p] = NoAction]
      /\ ready' = [ready EXCEPT ![a] = FALSE]
      /\ leased' = [leased EXCEPT ![p] = [leased[p] EXCEPT ![a] = 0]]
      /\ UNCHANGED <<status, older, stale, attempts, effect, calls, listed, faults>>
  BY Zenon DEF FailOutbox, UpdateOutbox, Goto
<1>3. a \in Action /\ status[a] # "none"
  BY Zenon, <1>2 DEF KnownRows
<1> HIDE DEF a
<1>4. TypeOK'
  BY <1>1, <1>2, <1>3 DEF Status, OutboxStatus, Location, TypeOK
<1>5. RowsKept
  <2>1. ASSUME NEW b \in Action, status[b] = "none"
        PROVE  /\ outbox'[b] = "none"
               /\ \A w \in Worker : leased'[w][b] = 0
               /\ \A r \in Reconciler : listed'[r][b] = "none"
    BY Zenon, <1>1, <1>2, <1>3, <2>1 DEF TypeOK, KnownRows
  <2>2. ASSUME NEW b \in Action, status[b] = "authorized"
        PROVE  outbox'[b] # "delivered"
    BY Zenon, <1>1, <1>2, <1>3, <2>2 DEF TypeOK, NoLostAction, OneOwner, a
  <2>3. QED
    BY Zenon, <2>1, <2>2 DEF RowsKept
<1>6. OnlyMoves(p)
  BY Zenon, <1>2 DEF TypeOK, OnlyMoves
<1>7. pc'[p] = "batch"
  BY Zenon, <1>2 DEF TypeOK
<1>8. MayHold(p)
  BY Zenon, <1>7 DEF MayHold, DispatcherMayHold, ReconcilerMayHold
<1>9. QED
  BY Zenon, <1>4, <1>5, <1>6, <1>8, MoveKeepsInv

\* An exception of complete_outbox leads to the except branch.
LEMMA CompleteRaisesInv ==
  ASSUME DeliveryInv, NEW p \in Worker, CompleteRaises(p)
  PROVE  DeliveryInv'
<1>1. Goto(p, "raised") /\ UNCHANGED <<storeVars, providerVars, leased, listed, faults>>
  BY Zenon DEF CompleteRaises
<1>2. cur[p] \in Action /\ status[cur[p]] # "none"
  BY Zenon DEF CompleteRaises, DeliveryInv, KnownRows
<1>3. QED
  BY Zenon, <1>1, <1>2, GotoKeepsInv

-------------------------------------------------------------------------------
(* ActionGateway.dispatch. *)

\* A record that was read as no longer authorized is not authorized now either.
LEMMA DispatchSkipInv ==
  ASSUME DeliveryInv, NEW p \in Dispatcher, DispatchSkip(p)
  PROVE  DeliveryInv'
<1>1. Goto(p, "settle") /\ UNCHANGED <<storeVars, providerVars, leased, listed, faults>>
  BY Zenon DEF DispatchSkip
<1>2. cur[p] \in Action /\ status[cur[p]] # "none" /\ status[cur[p]] # "authorized"
  BY Zenon DEF DispatchSkip, DeliveryInv, KnownRows, OneOwner
<1>3. QED
  BY Zenon, <1>1, <1>2, GotoKeepsInv

\* A refused dispatch changes nothing.
LEMMA DispatchRejectedInv ==
  ASSUME DeliveryInv, NEW p \in Dispatcher, DispatchRejected(p)
  PROVE  DeliveryInv'
<1>1. Goto(p, "raised") /\ UNCHANGED <<storeVars, providerVars, leased, listed, faults>>
  BY Zenon DEF DispatchRejected
<1>2. cur[p] \in Action /\ status[cur[p]] # "none"
  BY Zenon DEF DispatchRejected, DeliveryInv, KnownRows
<1>3. QED
  BY Zenon, <1>1, <1>2, GotoKeepsInv

\* claim_action: the winner is the only process past the claim, because every
\* earlier winner would have moved the status away from "authorized".
LEMMA ClaimActionInv ==
  ASSUME DeliveryInv, NEW p \in Dispatcher, ClaimAction(p)
  PROVE  DeliveryInv'
<1> USE DEF DeliveryInv, storeVars, providerVars
<1>1. CASE status[cur[p]] # "authorized"
  <2>1. /\ Goto(p, "settle")
        /\ UNCHANGED <<storeVars, providerVars, leased, listed, faults>>
    BY Zenon, <1>1 DEF ClaimAction
  <2>2. cur[p] \in Action /\ status[cur[p]] # "none"
    BY Zenon DEF ClaimAction, KnownRows
  <2>3. QED
    BY Zenon, <1>1, <2>1, <2>2, GotoKeepsInv
<1>2. CASE status[cur[p]] = "authorized"
  <2> DEFINE a == cur[p]
  <2>1. /\ pc' = [pc EXCEPT ![p] = "calling"]
        /\ seen' = [seen EXCEPT ![p] = "none"]
        /\ out' = [out EXCEPT ![p] = "none"]
        /\ status' = [status EXCEPT ![a] = "dispatched"]
        /\ stale' = [stale EXCEPT ![a] = FALSE]
        /\ UNCHANGED <<cur, older, outbox, attempts, ready, effect, calls, leased, listed, faults>>
    BY Zenon, <1>2 DEF ClaimAction, SetStatus, Goto
  <2>2. a \in Action /\ status[a] = "authorized" /\ pc[p] = "dispatch"
    BY Zenon, <1>2 DEF ClaimAction, KnownRows
  <2>3. a = cur[p]
    OBVIOUS
  <2> HIDE DEF a
  <2>4. TypeOK'
    BY Zenon, <2>1, <2>2 DEF Status, Location, TypeOK
  <2>5. /\ pc'[p] = "calling" /\ UNCHANGED <<cur, effect, calls>>
        /\ \A q \in Process : q # p => pc'[q] = pc[q] /\ seen'[q] = seen[q] /\ out'[q] = out[q]
    BY Zenon, <2>1 DEF TypeOK
  <2>6. /\ status'[a] = "dispatched"
        /\ \A b \in Action : b # a => status'[b] = status[b]
    BY Zenon, <2>1, <2>2 DEF TypeOK
  <2>7. KnownRows'
    BY <2>1, <2>2, <2>3, <2>5, <2>6 DEF KnownRows
  <2>8. \A q \in Dispatcher : pc[q] \in Owning => cur[q] # a /\ cur[q] \in Action
    BY Zenon, <2>2 DEF OneOwner, KnownRows
  <2>9. OneOwner'
    <3>1. ASSUME NEW q \in Dispatcher, pc'[q] \in Owning \cup {"settle", "dispatch"}
          PROVE  cur'[q] \in Action /\ (status'[cur'[q]] = "authorized" => cur[q] # a /\ q # p)
      BY Zenon, <2>2, <2>3, <2>5, <2>6, <3>1 DEF KnownRows
    <3>2. ASSUME NEW q \in Dispatcher, NEW r \in Dispatcher,
                 pc'[q] \in Owning, pc'[r] \in Owning, cur'[q] = cur'[r]
          PROVE  q = r
      BY Zenon, <2>3, <2>5, <2>8, <3>2 DEF OneOwner
    <3>3. ASSUME NEW q \in Dispatcher, pc'[q] \in Owning \cup {"settle"}
          PROVE  status'[cur'[q]] # "authorized"
      BY <2>5, <2>6, <3>1, <3>3 DEF OneOwner
    <3>4. ASSUME NEW q \in Dispatcher, pc'[q] = "dispatch", seen'[q] # "authorized"
          PROVE  status'[cur'[q]] # "authorized"
      BY <2>5, <2>6, <3>1, <3>4 DEF OneOwner
    <3>5. QED
      BY Zenon, <3>2, <3>3, <3>4 DEF OneOwner
  <2>10. calls[a] = 0 /\ ~ effect[a]
    BY Zenon, <2>2 DEF NotYetCommitted, TruthfulStatus
  <2>11. NotYetCommitted'
    <3>1. \A b \in Action : status'[b] \in {"none", "authorized"} => calls'[b] = 0
      BY Zenon, <2>5, <2>6 DEF NotYetCommitted
    <3>2. \A q \in Dispatcher : pc'[q] = "calling" => calls'[cur'[q]] = 0
      BY <2>3, <2>5, <2>10 DEF NotYetCommitted
    <3>3. ASSUME NEW q \in Dispatcher, pc'[q] \in {"calling", "committing"}
          PROVE  ~ effect'[cur'[q]] /\ status'[cur'[q]] \in {"dispatched", "unknown"}
      BY Zenon, <2>3, <2>5, <2>6, <2>8, <2>10, <3>3 DEF NotYetCommitted
    <3>4. QED
      BY Zenon, <3>1, <3>2, <3>3 DEF NotYetCommitted
  <2>12. TruthfulOutcome'
    BY Zenon, <2>5 DEF TruthfulOutcome, Allowed
  <2>13. AtMostOneDispatch' /\ NoLostAction'
    BY Zenon, <2>1, <2>5, <2>6 DEF AtMostOneDispatch, NoLostAction
  <2>14. TruthfulStatus'
    BY <2>2, <2>3, <2>5, <2>6 DEF TruthfulStatus
  <2>15. QED
    BY Zenon, <2>4, <2>7, <2>9, <2>11, <2>12, <2>13, <2>14
<1>3. QED
  BY Zenon, <1>1, <1>2

\* Entering the connector uses up the only call: its owner is the only one.
LEMMA ConnectorDispatchInv ==
  ASSUME DeliveryInv, NEW p \in Dispatcher, NEW scenario \in Scenario,
         ConnectorDispatch(p, scenario)
  PROVE  DeliveryInv'
<1> DEFINE a == cur[p]
<1> USE DEF DeliveryInv, storeVars, providerVars
<1>1. /\ a \in Action
      /\ pc[p] = "calling"
      /\ ~ effect[a]
      /\ calls[a] = 0
      /\ status[a] \in {"dispatched", "unknown"}
  BY Zenon DEF ConnectorDispatch, KnownRows, NotYetCommitted
<1>2. /\ calls' = [calls EXCEPT ![a] = 1]
      /\ UNCHANGED <<cur, status, older, stale, outbox, attempts, ready, effect, leased, listed, faults>>
  BY <1>1 DEF ConnectorDispatch, Holds, Goto, TypeOK
<1>3. PICK l \in {"outcome", "committing"}, s \in {"failed", "unknown", "none"},
           z \in {"none", seen[p]} :
        /\ pc' = [pc EXCEPT ![p] = l]
        /\ out' = [out EXCEPT ![p] = s]
        /\ seen' = [seen EXCEPT ![p] = z]
        /\ l = "outcome" => s # "none"
  <2>1. \/ Holds(p, "failed", "outcome")
        \/ Holds(p, "unknown", "outcome")
        \/ Goto(p, "committing")
    BY Zenon, <1>1 DEF ConnectorDispatch
  <2>2. seen = [seen EXCEPT ![p] = seen[p]]
    BY Zenon DEF TypeOK
  <2>3. QED
    BY Zenon, <2>1, <2>2 DEF Holds, Goto
<1>4. a = cur[p]
  OBVIOUS
<1> HIDE DEF a
<1>5. TypeOK'
  <2>1. pc' \in [Process -> Location]
    BY Zenon, <1>3 DEF Location, TypeOK
  <2>2. out' \in [Process -> Status]
    BY Zenon, <1>3 DEF Status, TypeOK
  <2>3. z \in Status /\ seen \in [Process -> Status]
    <3>1. "none" \in Status
      BY Zenon DEF Status
    <3>2. seen \in [Process -> Status]
      BY Zenon DEF TypeOK
    <3>3. QED
      BY Zenon, <3>1, <3>2
  <2>4. seen' \in [Process -> Status]
    BY Zenon, <1>3, <2>3
  <2>5. calls' \in [Action -> Nat]
    BY Zenon, <1>2 DEF TypeOK
  <2>6. QED
    BY Zenon, <1>2, <2>1, <2>2, <2>4, <2>5 DEF TypeOK
<1>6. /\ pc'[p] = l /\ out'[p] = s
      /\ \A q \in Process : q # p => pc'[q] = pc[q] /\ seen'[q] = seen[q] /\ out'[q] = out[q]
  BY Zenon, <1>3 DEF TypeOK
<1>7. calls'[a] = 1 /\ \A b \in Action : b # a => calls'[b] = calls[b]
  BY Zenon, <1>1, <1>2 DEF TypeOK
<1>8. \A q \in Dispatcher : q # p /\ pc[q] \in Owning => cur[q] # a /\ cur[q] \in Action
  BY Zenon, <1>1, <1>4 DEF OneOwner, KnownRows
<1>9. KnownRows'
  <2>1. \A q \in Process : pc'[q] \in {"idle", "batch", "listed"} \/ pc[q] \notin {"idle", "batch", "listed"}
    BY Zenon, <1>1, <1>6
  <2>2. QED
    BY Zenon, <1>2, <2>1 DEF KnownRows
<1>10. OneOwner'
  <2>1. \A q \in Dispatcher :
          /\ pc'[q] \in Owning => pc[q] \in Owning
          /\ pc'[q] \in {"settle", "dispatch"} => pc'[q] = pc[q] /\ seen'[q] = seen[q]
    BY Zenon, <1>1, <1>6
  <2>2. QED
    BY Zenon, <1>2, <2>1 DEF OneOwner
<1>11. NotYetCommitted'
  <2>1. \A b \in Action : status'[b] \in {"none", "authorized"} => calls'[b] = 0
    BY Zenon, <1>1, <1>2, <1>7 DEF NotYetCommitted
  <2>2. ASSUME NEW q \in Dispatcher, pc'[q] = "calling"
        PROVE  calls'[cur'[q]] = 0
    <3>1. q # p /\ pc[q] = "calling"
      BY Zenon, <1>6, <2>2
    <3>2. cur'[q] = cur[q] /\ cur[q] # a /\ cur[q] \in Action
      BY Zenon, <1>2, <1>8, <3>1
    <3>3. QED
      BY Zenon, <1>7, <3>1, <3>2 DEF NotYetCommitted
  <2>3. \A q \in Dispatcher : pc'[q] \in {"calling", "committing"} =>
          ~ effect'[cur'[q]] /\ status'[cur'[q]] \in {"dispatched", "unknown"}
    BY Zenon, <1>1, <1>2, <1>4, <1>6 DEF NotYetCommitted
  <2>4. QED
    BY Zenon, <2>1, <2>2, <2>3 DEF NotYetCommitted
<1>12. TruthfulOutcome'
  <2>1. ASSUME NEW q \in Dispatcher, pc'[q] \in {"outcome", "record"}
        PROVE  /\ out'[q] \in {"succeeded", "failed", "unknown"}
               /\ out'[q] = "succeeded" => effect'[cur'[q]]
               /\ out'[q] = "failed" => ~ effect'[cur'[q]]
    BY Zenon, <1>1, <1>2, <1>3, <1>4, <1>6, <2>1 DEF TruthfulOutcome
  <2>2. ASSUME NEW r \in Reconciler, pc'[r] \in {"mark", "markcas", "outcome", "record"}
        PROVE  /\ out'[r] \in {"unknown", "reconciled"}
               /\ out'[r] = "reconciled" => effect'[cur'[r]]
    BY Zenon, <1>2, <1>6, <2>2 DEF TruthfulOutcome
  <2>3. ASSUME NEW q \in Process, pc'[q] \in {"record", "markcas"}
        PROVE  <<seen'[q], out'[q]>> \in Allowed
    BY Zenon, <1>3, <1>6, <2>3 DEF TruthfulOutcome
  <2>4. QED
    BY Zenon, <2>1, <2>2, <2>3 DEF TruthfulOutcome, Allowed
<1>13. AtMostOneDispatch' /\ NoLostAction'
  BY <1>2, <1>7 DEF AtMostOneDispatch, NoLostAction
<1>14. TruthfulStatus'
  BY <1>1, <1>2, <1>4, <1>6 DEF TruthfulStatus
<1>15. QED
  BY Zenon, <1>5, <1>9, <1>10, <1>11, <1>12, <1>13, <1>14

\* The provider commits while the action is open, and the owner knows it.
LEMMA ConnectorCommitInv ==
  ASSUME DeliveryInv, NEW p \in Dispatcher, ConnectorCommit(p)
  PROVE  DeliveryInv'
<1> USE DEF DeliveryInv
<1>1. PICK o \in {"succeeded", "unknown"} : out' = [out EXCEPT ![p] = o]
  BY Zenon DEF ConnectorCommit, Holds
<1>2. /\ pc[p] = "committing"
      /\ pc' = [pc EXCEPT ![p] = "outcome"]
      /\ effect' = [effect EXCEPT ![cur[p]] = TRUE]
      /\ UNCHANGED <<status, older, stale, outbox, attempts, ready, calls, cur, seen,
                     leased, listed, faults>>
  BY Zenon DEF ConnectorCommit, Holds, storeVars
<1>3. TypeOK'
  <2>1. pc' \in [Process -> Location] /\ effect' \in [Action -> BOOLEAN]
    BY Zenon, <1>2 DEF Location, TypeOK
  <2>2. out' \in [Process -> Status]
    BY Zenon, <1>1 DEF Status, TypeOK
  <2>3. QED
    BY Zenon, <1>2, <2>1, <2>2 DEF TypeOK
<1>4. /\ pc'[p] = "outcome" /\ out'[p] = o
      /\ \A q \in Process : q # p => pc'[q] = pc[q] /\ out'[q] = out[q]
  BY Zenon, <1>1, <1>2 DEF TypeOK
<1>5. cur[p] \in Action /\ status[cur[p]] \in {"dispatched", "unknown"}
  BY Zenon, <1>2 DEF KnownRows, NotYetCommitted
<1>6. /\ effect'[cur[p]] = TRUE
      /\ \A b \in Action : b # cur[p] => effect'[b] = effect[b]
  BY Zenon, <1>2, <1>5 DEF TypeOK
<1>7. \A q \in Dispatcher : q # p /\ pc[q] \in Owning => cur[q] # cur[p] /\ cur[q] \in Action
  BY Zenon, <1>2 DEF OneOwner, KnownRows
<1>8. KnownRows'
  BY Zenon, <1>2, <1>4, <1>5 DEF KnownRows
<1>9. OneOwner'
  <2>1. \A q \in Dispatcher :
          /\ pc'[q] \in Owning => pc[q] \in Owning
          /\ pc'[q] \in {"settle", "dispatch"} => pc'[q] = pc[q]
    BY Zenon, <1>2, <1>4
  <2>2. QED
    BY Zenon, <1>2, <2>1 DEF OneOwner
<1>10. NotYetCommitted'
  BY <1>2, <1>4, <1>6, <1>7 DEF NotYetCommitted
<1>11. TruthfulOutcome'
  <2>1. ASSUME NEW q \in Dispatcher, pc'[q] \in {"outcome", "record"}
        PROVE  /\ out'[q] \in {"succeeded", "failed", "unknown"}
               /\ out'[q] = "succeeded" => effect'[cur'[q]]
               /\ out'[q] = "failed" => ~ effect'[cur'[q]]
    <3>1. CASE q = p
      BY Zenon, <1>1, <1>2, <1>4, <1>6, <3>1
    <3>2. CASE q # p
      <4>1. pc'[q] = pc[q] /\ out'[q] = out[q] /\ cur'[q] = cur[q]
        BY Zenon, <1>2, <1>4, <3>2
      <4>2. effect'[cur[q]] = effect[cur[q]]
        BY Zenon, <1>6, <1>7, <2>1, <3>2, <4>1
      <4>3. QED
        BY Zenon, <2>1, <4>1, <4>2 DEF TruthfulOutcome
    <3>3. QED
      BY Zenon, <3>1, <3>2
  <2>2. ASSUME NEW r \in Reconciler, pc'[r] \in {"mark", "markcas", "outcome", "record"}
        PROVE  /\ out'[r] \in {"unknown", "reconciled"}
               /\ out'[r] = "reconciled" => effect'[cur'[r]]
    <3>1. pc'[r] = pc[r] /\ out'[r] = out[r] /\ cur'[r] = cur[r]
      BY Zenon, <1>2, <1>4
    <3>2. cur[r] \in Action
      BY Zenon, <2>2, <3>1 DEF KnownRows
    <3>3. effect[cur[r]] => effect'[cur[r]]
      BY Zenon, <1>6, <3>2
    <3>4. QED
      BY Zenon, <2>2, <3>1, <3>3 DEF TruthfulOutcome
  <2>3. ASSUME NEW q \in Process, pc'[q] \in {"record", "markcas"}
        PROVE  <<seen'[q], out'[q]>> \in Allowed
    <3>1. pc'[q] = pc[q] /\ out'[q] = out[q] /\ seen'[q] = seen[q]
      BY Zenon, <1>2, <1>4, <2>3
    <3>2. QED
      BY Zenon, <2>3, <3>1 DEF TruthfulOutcome
  <2>4. QED
    BY Zenon, <2>1, <2>2, <2>3 DEF TruthfulOutcome, Allowed
<1>12. AtMostOneDispatch' /\ NoLostAction'
  BY Zenon, <1>2 DEF AtMostOneDispatch, NoLostAction
<1>13. TruthfulStatus'
  BY <1>2, <1>4, <1>5, <1>6 DEF TruthfulStatus
<1>14. QED
  BY Zenon, <1>3, <1>8, <1>9, <1>10, <1>11, <1>12, <1>13

\* An exception of the connector is held as "unknown".
LEMMA ConnectorRaisesInv ==
  ASSUME DeliveryInv, NEW p \in Dispatcher, ConnectorRaises(p)
  PROVE  DeliveryInv'
<1>1. /\ pc[p] = "committing"
      /\ pc' = [pc EXCEPT ![p] = "outcome"]
      /\ out' = [out EXCEPT ![p] = "unknown"]
      /\ UNCHANGED <<status, older, stale, outbox, attempts, ready, effect, calls, cur, seen, leased, listed, faults>>
  BY Zenon DEF ConnectorRaises, Holds, storeVars, providerVars
<1>2. TypeOK'
  BY Zenon, <1>1 DEF Status, Location, DeliveryInv, TypeOK
<1>3. OnlyMoves(p)
  BY Zenon, <1>1 DEF DeliveryInv, TypeOK, OnlyMoves
<1>4. pc'[p] = "outcome" /\ out'[p] = "unknown" /\ cur'[p] = cur[p]
  BY Zenon, <1>1 DEF DeliveryInv, TypeOK
<1>5. MayHold(p)
  BY Zenon, <1>1, <1>4 DEF DeliveryInv, KnownRows, MayHold, DispatcherMayHold, ReconcilerMayHold
<1>6. RowsKept
  BY Zenon, <1>1, SameRowsKept
<1>7. QED
  BY Zenon, <1>2, <1>3, <1>5, <1>6, MoveKeepsInv

\* record_outcome after dispatch: the read, or the ValueError.
LEMMA RecordReadInv ==
  ASSUME DeliveryInv, NEW p \in Dispatcher, RecordRead(p)
  PROVE  DeliveryInv'
<1>1. CASE <<status[cur[p]], out[p]>> \in Allowed
  BY Zenon, <1>1, ReadKeepsInv DEF RecordRead, ReadCurrent
<1>2. CASE <<status[cur[p]], out[p]>> \notin Allowed
  <2>1. Goto(p, "raised") /\ pc[p] = "outcome"
        /\ UNCHANGED <<storeVars, providerVars, leased, listed, faults>>
    BY Zenon, <1>2 DEF RecordRead, ReadCurrent
  <2>2. QED
    BY Zenon, <2>1, GotoKeepsInv DEF DeliveryInv, KnownRows
<1>3. QED
  BY Zenon, <1>1, <1>2

\* record_outcome after dispatch: the compare-and-set, won or lost.
LEMMA RecordOutcomeInv ==
  ASSUME DeliveryInv, NEW p \in Dispatcher, RecordOutcome(p)
  PROVE  DeliveryInv'
<1>1. pc[p] = "record" /\ <<seen[p], out[p]>> \in Allowed
  BY Zenon DEF RecordOutcome, TransitionAction, DeliveryInv, TruthfulOutcome
<1>2. CASE status[cur[p]] = seen[p]
  <2>1. /\ out[p] \in {"succeeded", "reconciled"} => effect[cur[p]]
        /\ out[p] = "failed" => p \in Dispatcher /\ pc[p] = "record" /\ ~ effect[cur[p]]
    BY Zenon, <1>1 DEF DeliveryInv, TruthfulOutcome
  <2>2. SetStatus(cur[p], out[p]) /\ Goto(p, "settle")
        /\ UNCHANGED <<older, outbox, attempts, ready, providerVars, leased, listed, faults>>
    BY Zenon, <1>2 DEF RecordOutcome, TransitionAction
  <2>3. QED
    BY Zenon, <1>1, <1>2, <2>1, <2>2, WriteKeepsInv
<1>3. CASE status[cur[p]] # seen[p]
  <2>1. Goto(p, "raised")
        /\ UNCHANGED <<storeVars, providerVars, leased, listed, faults>>
    BY Zenon, <1>3 DEF RecordOutcome, TransitionAction, storeVars
  <2>2. QED
    BY Zenon, <1>1, <2>1, GotoKeepsInv DEF DeliveryInv, KnownRows
<1>4. QED
  BY Zenon, <1>2, <1>3

-------------------------------------------------------------------------------
(* ActionGateway.reconcile. *)

\* Listing reads existing rows.
LEMMA ListUnknownInv ==
  ASSUME DeliveryInv, NEW p \in Reconciler, ListUnknown(p)
  PROVE  DeliveryInv'
<1> USE DEF DeliveryInv, storeVars, providerVars
<1>1. PICK rows \in SUBSET WithStatus("unknown") :
        listed' = [listed EXCEPT ![p] = [a \in Action |-> IF a \in rows THEN "unknown" ELSE "none"]]
  BY Zenon DEF ListUnknown, Earliest
<1>2. /\ pc' = [pc EXCEPT ![p] = "listed"]
      /\ seen' = [seen EXCEPT ![p] = "none"]
      /\ out' = [out EXCEPT ![p] = "none"]
      /\ cur' = [cur EXCEPT ![p] = NoAction] \/ cur' = cur
      /\ UNCHANGED <<status, older, stale, outbox, attempts, ready, effect, calls, leased, faults>>
  BY Zenon DEF ListUnknown, Goto
<1>3. TypeOK'
  BY Zenon, <1>1, <1>2 DEF Status, Location, TypeOK
<1>4. RowsKept
  BY Zenon, <1>1, <1>2 DEF TypeOK, KnownRows, NoLostAction, WithStatus, RowsKept
<1>5. OnlyMoves(p)
  BY Zenon, <1>2 DEF TypeOK, OnlyMoves
<1>6. pc'[p] = "listed"
  BY Zenon, <1>2 DEF TypeOK
<1>7. MayHold(p)
  BY Zenon, <1>6 DEF MayHold, DispatcherMayHold, ReconcilerMayHold
<1>8. QED
  BY Zenon, <1>3, <1>4, <1>5, <1>7, MoveKeepsInv

\* So does the second list.
LEMMA ListDispatchedInv ==
  ASSUME DeliveryInv, NEW p \in Reconciler, ListDispatched(p)
  PROVE  DeliveryInv'
<1> USE DEF DeliveryInv, storeVars, providerVars
<1>1. PICK rows \in SUBSET WithStatus("dispatched") :
        listed' = [listed EXCEPT ![p] = [a \in Action |-> IF a \in rows THEN "dispatched" ELSE listed[p][a]]]
  BY Zenon DEF ListDispatched, Earliest
<1>2. /\ pc' = [pc EXCEPT ![p] = "batch"]
      /\ seen' = [seen EXCEPT ![p] = "none"]
      /\ out' = [out EXCEPT ![p] = "none"]
      /\ cur' = [cur EXCEPT ![p] = NoAction] \/ cur' = cur
      /\ UNCHANGED <<status, older, stale, outbox, attempts, ready, effect, calls, leased, faults>>
  BY Zenon DEF ListDispatched, Goto
<1>3. TypeOK'
  BY <1>1, <1>2 DEF Status, Location, TypeOK
<1>4. RowsKept
  BY Zenon, <1>1, <1>2 DEF TypeOK, KnownRows, NoLostAction, WithStatus, RowsKept
<1>5. OnlyMoves(p)
  BY Zenon, <1>2 DEF TypeOK, OnlyMoves
<1>6. pc'[p] = "batch"
  BY Zenon, <1>2 DEF TypeOK
<1>7. MayHold(p)
  BY Zenon, <1>6 DEF MayHold, DispatcherMayHold, ReconcilerMayHold
<1>8. QED
  BY Zenon, <1>3, <1>4, <1>5, <1>7, MoveKeepsInv

\* A reconciler holds "unknown" for a dispatched row, or goes to the provider.
LEMMA TakeListedInv ==
  ASSUME DeliveryInv, NEW p \in Reconciler, NEW a \in Action, TakeListed(p, a)
  PROVE  DeliveryInv'
<1> USE DEF DeliveryInv
<1>1. PICK l \in {"mark", "query"}, o \in {"unknown", "none"} :
        /\ pc' = [pc EXCEPT ![p] = l]
        /\ out' = [out EXCEPT ![p] = o]
        /\ l = "mark" => o = "unknown"
  BY Zenon DEF TakeListed
<1>2. /\ pc[p] = "batch"
      /\ status[a] # "none"
      /\ cur' = [cur EXCEPT ![p] = a]
      /\ seen' = [seen EXCEPT ![p] = listed[p][a]]
      /\ listed' = [listed EXCEPT ![p][a] = "none"]
      /\ UNCHANGED <<status, older, stale, outbox, attempts, ready, effect, calls, leased, faults>>
  BY Zenon DEF TakeListed, storeVars, providerVars, KnownRows
<1>3. TypeOK'
  <2>1. pc' \in [Process -> Location]
    BY Zenon, <1>1 DEF Location, TypeOK
  <2>2. out' \in [Process -> Status]
    BY Zenon, <1>1 DEF Status, TypeOK
  <2>3. listed' \in [Reconciler -> [Action -> {"none", "unknown", "dispatched"}]]
    BY Zenon, <1>2 DEF TypeOK
  <2>4. cur' \in [Process -> Action \cup {NoAction}]
    BY Zenon, <1>2 DEF TypeOK
  <2>5. listed[p][a] \in Status /\ seen \in [Process -> Status]
    BY DEF Status, TypeOK
  <2>6. seen' \in [Process -> Status]
    BY Zenon, <1>2, <2>5
  <2>7. QED
    BY Zenon, <1>2, <2>1, <2>2, <2>3, <2>4, <2>6 DEF TypeOK
<1>4. RowsKept
  BY Zenon, <1>2 DEF TypeOK, KnownRows, NoLostAction, RowsKept
<1>5. OnlyMoves(p)
  BY Zenon, <1>1, <1>2 DEF TypeOK, OnlyMoves
<1>6. pc'[p] = l /\ out'[p] = o /\ cur'[p] = a
  BY Zenon, <1>1, <1>2 DEF TypeOK
<1>7. MayHold(p)
  BY Zenon, <1>1, <1>2, <1>6 DEF MayHold, DispatcherMayHold, ReconcilerMayHold
<1>8. QED
  BY Zenon, <1>3, <1>4, <1>5, <1>7, MoveKeepsInv

\* A reconciler whose batch is empty polls again.
LEMMA ListDoneInv ==
  ASSUME DeliveryInv, NEW p \in Reconciler, ListDone(p)
  PROVE  DeliveryInv'
<1>1. Goto(p, "idle") /\ UNCHANGED <<storeVars, providerVars, leased, listed, faults>>
  BY Zenon DEF ListDone
<1>2. QED
  BY Zenon, <1>1, GotoKeepsInv

\* Marking a stale dispatched action: the read, or the ValueError.
LEMMA MarkReadInv ==
  ASSUME DeliveryInv, NEW p \in Reconciler, MarkRead(p)
  PROVE  DeliveryInv'
<1>1. CASE <<status[cur[p]], out[p]>> \in Allowed
  BY Zenon, <1>1, ReadKeepsInv DEF MarkRead, ReadCurrent
<1>2. CASE <<status[cur[p]], out[p]>> \notin Allowed
  <2>1. Goto(p, "batch") /\ pc[p] = "mark"
        /\ UNCHANGED <<storeVars, providerVars, leased, listed, faults>>
    BY Zenon, <1>2 DEF MarkRead, ReadCurrent
  <2>2. QED
    BY Zenon, <2>1, GotoKeepsInv DEF DeliveryInv, KnownRows
<1>3. QED
  BY Zenon, <1>1, <1>2

\* Marking a stale dispatched action: the compare-and-set, won or lost.
LEMMA MarkUnknownInv ==
  ASSUME DeliveryInv, NEW p \in Reconciler, MarkUnknown(p)
  PROVE  DeliveryInv'
<1>1. pc[p] = "markcas" /\ <<seen[p], out[p]>> \in Allowed
  BY Zenon DEF MarkUnknown, TransitionAction, DeliveryInv, TruthfulOutcome
<1>2. CASE status[cur[p]] = seen[p]
  <2>1. /\ out[p] \in {"succeeded", "reconciled"} => effect[cur[p]]
        /\ out[p] = "failed" => p \in Dispatcher /\ pc[p] = "record" /\ ~ effect[cur[p]]
    BY Zenon, <1>1 DEF DeliveryInv, TruthfulOutcome
  <2>2. SetStatus(cur[p], out[p]) /\ Goto(p, "query")
        /\ UNCHANGED <<older, outbox, attempts, ready, providerVars, leased, listed, faults>>
    BY Zenon, <1>2 DEF MarkUnknown, TransitionAction
  <2>3. QED
    BY Zenon, <1>1, <1>2, <2>1, <2>2, WriteKeepsInv
<1>3. CASE status[cur[p]] # seen[p]
  <2>1. Goto(p, "batch")
        /\ UNCHANGED <<storeVars, providerVars, leased, listed, faults>>
    BY Zenon, <1>3 DEF MarkUnknown, TransitionAction, storeVars
  <2>2. QED
    BY Zenon, <1>1, <2>1, GotoKeepsInv DEF DeliveryInv, KnownRows
<1>4. QED
  BY Zenon, <1>2, <1>3

\* The query reports "reconciled" only for an effect that is there.
LEMMA ConnectorReconcileInv ==
  ASSUME DeliveryInv, NEW p \in Reconciler, ConnectorReconcile(p)
  PROVE  DeliveryInv'
<1>1. /\ pc[p] = "query"
      /\ pc' = [pc EXCEPT ![p] = "outcome"]
      /\ out' = [out EXCEPT ![p] = IF effect[cur[p]] THEN "reconciled" ELSE "unknown"]
      /\ UNCHANGED <<status, older, stale, outbox, attempts, ready, effect, calls, cur, seen, leased, listed, faults>>
  BY Zenon DEF ConnectorReconcile, Holds, storeVars, providerVars
<1>2. TypeOK'
  BY Zenon, <1>1 DEF Status, Location, DeliveryInv, TypeOK
<1>3. OnlyMoves(p)
  BY Zenon, <1>1 DEF DeliveryInv, TypeOK, OnlyMoves
<1>4. /\ pc'[p] = "outcome" /\ cur'[p] = cur[p]
      /\ out'[p] = IF effect[cur[p]] THEN "reconciled" ELSE "unknown"
  BY Zenon, <1>1 DEF DeliveryInv, TypeOK
<1>5. cur[p] \in Action /\ status[cur[p]] # "none" /\ p \notin Dispatcher
  BY Zenon, <1>1 DEF DeliveryInv, KnownRows
<1>6. ReconcilerMayHold(p)
  <2>1. CASE effect[cur[p]]
    BY Zenon, <1>4, <2>1 DEF ReconcilerMayHold
  <2>2. CASE ~ effect[cur[p]]
    BY Zenon, <1>4, <2>2 DEF ReconcilerMayHold
  <2>3. QED
    BY Zenon, <2>1, <2>2
<1>7. MayHold(p)
  BY Zenon, <1>4, <1>5, <1>6 DEF MayHold
<1>8. RowsKept
  BY Zenon, <1>1, SameRowsKept
<1>9. QED
  BY Zenon, <1>2, <1>3, <1>7, <1>8, MoveKeepsInv

\* A failed lookup changes nothing but the fault count.
LEMMA ReconcileRaisesInv ==
  ASSUME DeliveryInv, NEW p \in Reconciler, ReconcileRaises(p)
  PROVE  DeliveryInv'
<1>1. /\ faults < MaxFaults /\ faults' = faults + 1
      /\ pc' = [pc EXCEPT ![p] = "batch"]
      /\ cur' = [cur EXCEPT ![p] = NoAction]
      /\ seen' = [seen EXCEPT ![p] = "none"]
      /\ out' = [out EXCEPT ![p] = "none"]
      /\ UNCHANGED <<status, older, stale, outbox, attempts, ready, effect, calls, leased, listed>>
  BY Zenon DEF ReconcileRaises, Goto, storeVars, providerVars
<1>2. TypeOK'
  BY <1>1 DEF Status, Location, DeliveryInv, TypeOK
<1>3. OnlyMoves(p) /\ pc'[p] = "batch"
  BY Zenon, <1>1 DEF DeliveryInv, TypeOK, OnlyMoves
<1>4. MayHold(p)
  BY Zenon, <1>3 DEF MayHold, DispatcherMayHold, ReconcilerMayHold
<1>5. RowsKept
  BY Zenon, <1>1, SameRowsKept
<1>6. QED
  BY Zenon, <1>2, <1>3, <1>4, <1>5, MoveKeepsInv

\* record_outcome after a query: the read, or the ValueError.
LEMMA ReconcileReadInv ==
  ASSUME DeliveryInv, NEW p \in Reconciler, ReconcileRead(p)
  PROVE  DeliveryInv'
<1>1. CASE <<status[cur[p]], out[p]>> \in Allowed
  BY Zenon, <1>1, ReadKeepsInv DEF ReconcileRead, ReadCurrent
<1>2. CASE <<status[cur[p]], out[p]>> \notin Allowed
  <2>1. Goto(p, "batch") /\ pc[p] = "outcome"
        /\ UNCHANGED <<storeVars, providerVars, leased, listed, faults>>
    BY Zenon, <1>2 DEF ReconcileRead, ReadCurrent
  <2>2. QED
    BY Zenon, <2>1, GotoKeepsInv DEF DeliveryInv, KnownRows
<1>3. QED
  BY Zenon, <1>1, <1>2

\* record_outcome after a query: the compare-and-set, won or lost.
LEMMA ReconcileOutcomeInv ==
  ASSUME DeliveryInv, NEW p \in Reconciler, ReconcileOutcome(p)
  PROVE  DeliveryInv'
<1>1. pc[p] = "record" /\ <<seen[p], out[p]>> \in Allowed
  BY Zenon DEF ReconcileOutcome, TransitionAction, DeliveryInv, TruthfulOutcome
<1>2. CASE status[cur[p]] = seen[p]
  <2>1. /\ out[p] \in {"succeeded", "reconciled"} => effect[cur[p]]
        /\ out[p] = "failed" => p \in Dispatcher /\ pc[p] = "record" /\ ~ effect[cur[p]]
    BY Zenon, <1>1 DEF DeliveryInv, TruthfulOutcome
  <2>2. SetStatus(cur[p], out[p]) /\ Goto(p, "batch")
        /\ UNCHANGED <<older, outbox, attempts, ready, providerVars, leased, listed, faults>>
    BY Zenon, <1>2 DEF ReconcileOutcome, TransitionAction
  <2>3. QED
    BY Zenon, <1>1, <1>2, <2>1, <2>2, WriteKeepsInv
<1>3. CASE status[cur[p]] # seen[p]
  <2>1. Goto(p, "batch")
        /\ UNCHANGED <<storeVars, providerVars, leased, listed, faults>>
    BY Zenon, <1>3 DEF ReconcileOutcome, TransitionAction, storeVars
  <2>2. QED
    BY Zenon, <1>1, <2>1, GotoKeepsInv DEF DeliveryInv, KnownRows
<1>4. QED
  BY Zenon, <1>2, <1>3

-------------------------------------------------------------------------------
(* The environment. *)

\* A lease or a retry delay that passes changes the row's readiness only.
LEMMA TimePassesInv ==
  ASSUME DeliveryInv, NEW a \in Action, TimePasses(a)
  PROVE  DeliveryInv'
<1> USE DEF DeliveryInv
<1>1. /\ ready' = [ready EXCEPT ![a] = TRUE]
      /\ UNCHANGED <<status, older, stale, outbox, attempts, effect, calls,
                     pc, cur, seen, out, leased, listed, faults>>
  BY Zenon DEF TimePasses, providerVars
<1>2. TypeOK'
  BY Zenon, <1>1 DEF TypeOK
<1>3. QED
  BY Zenon, <1>1, <1>2, FrameKeepsInv

\* So does the staleness delay for the action row.
LEMMA BecomesStaleInv ==
  ASSUME DeliveryInv, NEW a \in Action, BecomesStale(a)
  PROVE  DeliveryInv'
<1> USE DEF DeliveryInv
<1>1. /\ stale' = [stale EXCEPT ![a] = TRUE]
      /\ UNCHANGED <<status, older, ready, outbox, attempts, effect, calls,
                     pc, cur, seen, out, leased, listed, faults>>
  BY Zenon DEF BecomesStale, providerVars
<1>2. TypeOK'
  BY Zenon, <1>1 DEF TypeOK
<1>3. QED
  BY Zenon, <1>1, <1>2, FrameKeepsInv

\* A crash drops local state only.
LEMMA CrashInv ==
  ASSUME DeliveryInv, NEW p \in Process, Crash(p)
  PROVE  DeliveryInv'
<1> USE DEF DeliveryInv
<1>1. /\ faults < MaxFaults /\ faults' = faults + 1
      /\ pc' = [pc EXCEPT ![p] = "idle"]
      /\ cur' = [cur EXCEPT ![p] = NoAction]
      /\ seen' = [seen EXCEPT ![p] = "none"]
      /\ out' = [out EXCEPT ![p] = "none"]
      /\ leased' = [w \in Worker |-> IF w = p THEN [a \in Action |-> 0] ELSE leased[w]]
      /\ listed' = [r \in Reconciler |-> IF r = p THEN [a \in Action |-> "none"] ELSE listed[r]]
      /\ UNCHANGED <<status, older, stale, outbox, attempts, ready, effect, calls>>
  BY Zenon DEF Crash, Goto, storeVars, providerVars
<1>2. TypeOK'
  BY <1>1 DEF Status, Location, TypeOK
<1>3. RowsKept
  BY Zenon, <1>1 DEF TypeOK, KnownRows, NoLostAction, RowsKept
<1>4. OnlyMoves(p) /\ pc'[p] = "idle"
  BY Zenon, <1>1 DEF TypeOK, OnlyMoves
<1>5. MayHold(p)
  BY Zenon, <1>4 DEF MayHold, DispatcherMayHold, ReconcilerMayHold
<1>6. QED
  BY Zenon, <1>2, <1>3, <1>4, <1>5, MoveKeepsInv

-------------------------------------------------------------------------------
(* The theorems. *)

\* The empty stores satisfy the invariant.
LEMMA InitInv == Init => DeliveryInv
<1> SUFFICES ASSUME Init PROVE DeliveryInv
  OBVIOUS
<1>1. TypeOK
  BY DEF Status, OutboxStatus, Location, Init, TypeOK
<1>2. \A p \in Process : pc[p] = "idle"
  BY Zenon DEF Init
<1>3. \A a \in Action : status[a] = "none" /\ outbox[a] = "none" /\ calls[a] = 0 /\ ~ effect[a]
  BY Zenon DEF Init
<1>4. KnownRows
  BY Zenon, <1>2 DEF Init, KnownRows
<1>5. OneOwner /\ NotYetCommitted
  BY Zenon, <1>2, <1>3 DEF OneOwner, NotYetCommitted
<1>6. TruthfulOutcome
  BY Zenon, <1>2 DEF TruthfulOutcome
<1>7. AtMostOneDispatch /\ NoLostAction /\ TruthfulStatus
  BY <1>2, <1>3 DEF AtMostOneDispatch, NoLostAction, TruthfulStatus
<1>8. QED
  BY Zenon, <1>1, <1>4, <1>5, <1>6, <1>7 DEF DeliveryInv

\* Every step of any process keeps the invariant.
LEMMA NextInv == DeliveryInv /\ [Next]_vars => DeliveryInv'
<1> SUFFICES ASSUME DeliveryInv, [Next]_vars
             PROVE  DeliveryInv'
  OBVIOUS
<1>1. CASE UNCHANGED vars
  <2>1. TypeOK'
    BY Zenon, <1>1 DEF vars, DeliveryInv, TypeOK
  <2>2. QED
    BY Zenon, <1>1, <2>1, FrameKeepsInv DEF vars
<1>2. ASSUME NEW r \in Requester, RequestStep(r)
      PROVE  DeliveryInv'
  BY Zenon, <1>2, AuthorizeInv, ResubmitInv, RespondInv DEF RequestStep
<1>3. ASSUME NEW w \in Worker, WorkerStep(w) \/ CompleteRaises(w)
      PROVE  DeliveryInv'
  BY Zenon, <1>3, ClaimOutboxInv, TakeRecordInv, BatchDoneInv, CompleteOutboxInv, FailOutboxInv,
     CompleteRaisesInv DEF WorkerStep
<1>4. ASSUME NEW p \in Dispatcher, DispatchStep(p) \/ DispatchFault(p)
      PROVE  DeliveryInv'
  BY Zenon, <1>4, DispatchSkipInv, DispatchRejectedInv, ClaimActionInv, ConnectorDispatchInv,
     ConnectorCommitInv, ConnectorRaisesInv, RecordReadInv, RecordOutcomeInv
     DEF DispatchStep, DispatchFault
<1>5. ASSUME NEW r \in Reconciler, ReconcileStep(r) \/ ReconcileRaises(r)
      PROVE  DeliveryInv'
  BY Zenon, <1>5, ListUnknownInv, ListDispatchedInv, TakeListedInv, ListDoneInv, MarkReadInv,
     MarkUnknownInv, ConnectorReconcileInv, ReconcileRaisesInv, ReconcileReadInv,
     ReconcileOutcomeInv
     DEF ReconcileStep
<1>6. ASSUME NEW a \in Action, Clock(a)
      PROVE  DeliveryInv'
  BY Zenon, <1>6, TimePassesInv, BecomesStaleInv DEF Clock
<1>7. ASSUME NEW p \in Process, Crash(p)
      PROVE  DeliveryInv'
  BY Zenon, <1>7, CrashInv
<1>8. QED
  BY Zenon, <1>1, <1>2, <1>3, <1>4, <1>5, <1>6, <1>7 DEF Next

\* DeliveryInv holds in every reachable state, and with it its parts: types, at
\* most one connector.dispatch per action, no authorized action behind a
\* delivered outbox row, no status that contradicts the provider.
THEOREM DeliveryIsSafe == Spec => []DeliveryInv
<1>1. QED
  BY InitInv, NextInv, PTL DEF Spec

\* Type correctness of the delivery machinery.
THEOREM DeliveryTypes == Spec => []TypeOK
<1>1. DeliveryInv => TypeOK
  BY Zenon DEF DeliveryInv
<1>2. QED
  BY <1>1, DeliveryIsSafe, PTL

\* connector.dispatch is entered at most once per action, whatever the number of
\* handlers, workers, expired leases, duplicate submissions and crashes.
THEOREM DispatchedOnce == Spec => []AtMostOneDispatch
<1>1. DeliveryInv => AtMostOneDispatch
  BY Zenon DEF DeliveryInv
<1>2. QED
  BY <1>1, DeliveryIsSafe, PTL

\* No authorized action is hidden behind a delivered outbox row, although
\* _update_outbox checks no lease.
THEOREM NothingLost == Spec => []NoLostAction
<1>1. DeliveryInv => NoLostAction
  BY Zenon DEF DeliveryInv
<1>2. QED
  BY <1>1, DeliveryIsSafe, PTL

\* The recorded status never contradicts the provider.
THEOREM StatusIsTruthful == Spec => []TruthfulStatus
<1>1. DeliveryInv => TruthfulStatus
  BY Zenon DEF DeliveryInv
<1>2. QED
  BY <1>1, DeliveryIsSafe, PTL
-------------------------------------------------------------------------------
(* The delivery machinery implements ActionLifecycle. *)

\* A won compare-and-set that agrees with the provider is a Report step.
LEMMA WriteIsReport ==
  ASSUME DeliveryInv, NEW p \in Process, pc[p] \in {"record", "markcas"},
         \/ SetStatus(cur[p], out[p]) /\ status[cur[p]] = seen[p]
         \/ UNCHANGED <<status, stale>>,
         UNCHANGED effect,
         p \in Dispatcher \/ p \in Reconciler,
         p \in Dispatcher => pc[p] = "record"
  PROVE  [Lifecycle!Next]_(Lifecycle!vars)
<1>1. CASE UNCHANGED <<status, stale>>
  BY Zenon, <1>1 DEF Lifecycle!vars
<1>2. CASE SetStatus(cur[p], out[p]) /\ status[cur[p]] = seen[p]
  <2>1. /\ cur[p] \in Action
        /\ out[p] \in Status
        /\ <<status[cur[p]], out[p]>> \in Allowed
        /\ out[p] \in {"succeeded", "reconciled"} => effect[cur[p]]
        /\ out[p] = "failed" => ~ effect[cur[p]]
    <3>1. cur[p] \in Action /\ out[p] \in Status
      BY Zenon DEF DeliveryInv, TypeOK, KnownRows
    <3>2. <<seen[p], out[p]>> \in Allowed
      BY Zenon DEF DeliveryInv, TruthfulOutcome
    <3>3. /\ out[p] \in {"succeeded", "reconciled"} => effect[cur[p]]
          /\ out[p] = "failed" => ~ effect[cur[p]]
      BY Zenon DEF DeliveryInv, TruthfulOutcome
    <3>4. QED
      BY Zenon, <1>2, <3>1, <3>2, <3>3
  <2>2. Lifecycle!Report(cur[p], out[p])
    BY Zenon, <1>2, <2>1 DEF SetStatus, Allowed, Lifecycle!Report
  <2>3. QED
    BY Zenon, <2>1, <2>2 DEF Status, Lifecycle!Next, Lifecycle!Status
<1>3. QED
  BY Zenon, <1>1, <1>2

\* Every step is a lifecycle step or leaves status and effect alone.
LEMMA StepRefines ==
  ASSUME DeliveryInv, [Next]_vars
  PROVE  [Lifecycle!Next]_(Lifecycle!vars)
<1> USE DEF Lifecycle!vars, storeVars, providerVars
<1>1. CASE UNCHANGED vars
  BY Zenon, <1>1 DEF vars
<1>2. ASSUME NEW r \in Requester, RequestStep(r)
      PROVE  [Lifecycle!Next]_(Lifecycle!vars)
  <2>1. ASSUME NEW a \in Action, Authorize(r, a)
        PROVE  Lifecycle!Authorize(a)
    BY Zenon, <2>1 DEF Authorize, SetStatus, Lifecycle!Authorize
  <2>2. QED
    BY Zenon, <1>2, <2>1 DEF RequestStep, Resubmit, Respond, Lifecycle!Next
<1>3. ASSUME NEW w \in Worker, WorkerStep(w) \/ CompleteRaises(w)
      PROVE  UNCHANGED <<status, effect>>
  BY Zenon, <1>3 DEF WorkerStep, ClaimOutbox, TakeRecord, BatchDone, CompleteOutbox, FailOutbox,
     CompleteRaises
<1>4. ASSUME NEW p \in Dispatcher, DispatchStep(p) \/ DispatchFault(p)
      PROVE  [Lifecycle!Next]_(Lifecycle!vars)
  <2>1. CASE ClaimAction(p)
    <3>1. CASE status[cur[p]] = "authorized"
      <4>1. cur[p] \in Action
        BY Zenon, <2>1 DEF ClaimAction, DeliveryInv, KnownRows
      <4>2. Lifecycle!Claim(cur[p])
        BY Zenon, <2>1, <3>1 DEF ClaimAction, SetStatus, Lifecycle!Claim
      <4>3. QED
        BY Zenon, <4>1, <4>2 DEF Lifecycle!Next
    <3>2. CASE status[cur[p]] # "authorized"
      BY Zenon, <2>1, <3>2 DEF ClaimAction
    <3>3. QED
      BY Zenon, <3>1, <3>2
  <2>2. CASE ConnectorCommit(p)
    <3>1. cur[p] \in Action
      BY Zenon, <2>2 DEF ConnectorCommit, DeliveryInv, KnownRows
    <3>2. Lifecycle!Commit(cur[p])
      BY Zenon, <2>2 DEF ConnectorCommit, DeliveryInv, NotYetCommitted, Lifecycle!Commit
    <3>3. QED
      BY Zenon, <3>1, <3>2 DEF Lifecycle!Next
  <2>3. CASE RecordOutcome(p)
    BY Zenon, <2>3, WriteIsReport DEF RecordOutcome, TransitionAction
  <2>4. CASE \/ DispatchSkip(p) \/ DispatchRejected(p) \/ ConnectorRaises(p) \/ RecordRead(p)
             \/ \E scenario \in Scenario : ConnectorDispatch(p, scenario)
    BY Zenon, <2>4 DEF DispatchSkip, DispatchRejected, ConnectorRaises, RecordRead, ReadCurrent,
       ConnectorDispatch
  <2>5. QED
    BY Zenon, <1>4, <2>1, <2>2, <2>3, <2>4 DEF DispatchStep, DispatchFault
<1>5. ASSUME NEW r \in Reconciler, ReconcileStep(r) \/ ReconcileRaises(r)
      PROVE  [Lifecycle!Next]_(Lifecycle!vars)
  <2>1. CASE MarkUnknown(r)
    BY Zenon, <2>1, WriteIsReport DEF MarkUnknown, TransitionAction
  <2>2. CASE ReconcileOutcome(r)
    BY Zenon, <2>2, WriteIsReport DEF ReconcileOutcome, TransitionAction
  <2>3. CASE \/ ListUnknown(r) \/ ListDispatched(r) \/ ListDone(r) \/ MarkRead(r)
             \/ ConnectorReconcile(r) \/ ReconcileRead(r) \/ ReconcileRaises(r)
             \/ \E a \in Action : TakeListed(r, a)
    BY Zenon, <2>3 DEF ListUnknown, ListDispatched, ListDone, MarkRead, ReadCurrent,
       ConnectorReconcile, ReconcileRead, ReconcileRaises, TakeListed
  <2>4. QED
    BY Zenon, <1>5, <2>1, <2>2, <2>3 DEF ReconcileStep
<1>6. ASSUME NEW a \in Action, Clock(a)
      PROVE  UNCHANGED <<status, effect>>
  BY Zenon, <1>6 DEF Clock, TimePasses, BecomesStale
<1>7. ASSUME NEW p \in Process, Crash(p)
      PROVE  UNCHANGED <<status, effect>>
  BY Zenon, <1>7 DEF Crash
<1>8. QED
  BY Zenon, <1>1, <1>2, <1>3, <1>4, <1>5, <1>6, <1>7 DEF Next

\* Requests, workers, leases, retries, crashes and reconciliation together
\* implement the action lifecycle: one start, at most one effect while the action
\* is open, truthful and final terminal statuses.
THEOREM DeliveryRefinesLifecycle == Spec => ImplementsLifecycle
<1>1. Init => Lifecycle!Init
  BY Zenon DEF Init, Lifecycle!Init
<1>2. DeliveryInv /\ [Next]_vars => [Lifecycle!Next]_(Lifecycle!vars)
  BY Zenon, StepRefines
<1>3. QED
  BY <1>1, <1>2, DeliveryIsSafe, PTL DEF Spec, ImplementsLifecycle, Lifecycle!Spec

\* What record_outcome and the transitions of the store promise their readers: whoever
\* races, retries or crashes, a terminal status stays, and so does what the provider did.
THEOREM DeliveredIsFinal == Spec => Lifecycle!OutcomeIsFinal
<1> DEFINE Final == \A a \in Action :
                    /\ status[a] \in {"succeeded", "failed", "reconciled"} =>
                         status'[a] = status[a] /\ effect'[a] = effect[a]
                    /\ effect[a] => effect'[a]
<1>1. DeliveryInv /\ [Next]_vars => Final \/ UNCHANGED <<status, effect>>
  <2> SUFFICES ASSUME DeliveryInv, Lifecycle!Next PROVE Final
    BY Zenon, StepRefines DEF Lifecycle!vars
  <2>1. DOMAIN status = Action /\ DOMAIN effect = Action
    BY DEF DeliveryInv, TypeOK
  <2>2. PICK b \in Action, s \in Lifecycle!Status :
          Lifecycle!Authorize(b) \/ Lifecycle!Claim(b) \/ Lifecycle!Commit(b) \/ Lifecycle!Report(b, s)
    <3>1. "none" \in Lifecycle!Status
      BY Zenon DEF Lifecycle!Status
    <3>2. QED
      BY Zenon, <3>1 DEF Lifecycle!Next
  <2>3. CASE Lifecycle!Commit(b)
    BY Zenon, <2>1, <2>3 DEF Lifecycle!Commit
  <2>4. CASE Lifecycle!Authorize(b) \/ Lifecycle!Claim(b) \/ Lifecycle!Report(b, s)
    <3>1. /\ status[b] \in {"none", "authorized", "dispatched", "unknown"}
          /\ effect' = effect /\ \A c \in Action \ {b} : status'[c] = status[c]
      BY <2>1, <2>4 DEF Lifecycle!Authorize, Lifecycle!Claim, Lifecycle!Report
    <3>2. QED
      BY <3>1
  <2>5. QED
    BY Zenon, <2>2, <2>3, <2>4
<1>2. QED
  BY <1>1, DeliveryIsSafe, PTL DEF Spec, Lifecycle!OutcomeIsFinal, Lifecycle!vars

===============================================================================
