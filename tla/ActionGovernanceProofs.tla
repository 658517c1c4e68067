------------------------ MODULE ActionGovernanceProofs ------------------------
(***************************************************************************)
(* Proofs about what stands between a proposed action and its execution:   *)
(* the confirmation of a proposal or the command of a service client       *)
(* (ActionBridge), for any number of proposals, orders, hosts, values and  *)
(* versions, and the policy it is authorized under (PolicyLifecycle), for  *)
(* any number of packages, scopes, people, requests and actions.           *)
(*                                                                         *)
(* BridgeInv is inductive: a request that is past a check keeps what the   *)
(* check established, because payloads are written once and actions are    *)
(* never removed.  A request about a policy writes what it computed from a *)
(* row it read earlier.  As long as no save has moved a package other than *)
(* one step forward, its author and approver are what every such request   *)
(* read, once it is approved.                                              *)
(***************************************************************************)
EXTENDS ActionBridge, PolicyLifecycle, TLAPS

-------------------------------------------------------------------------------
(* Proposals. *)

USE BridgeAssumption DEF Settled, Location

\* The stores start empty and no request is running.
LEMMA InitBridge == Init => BridgeInv
  BY DEF Init, BridgeInv, TypeOK, ActsAreRequested, ConfirmedHasAction, EvidenceIsForShown

\* What the stores alone say is kept by a step that does not write them.
StoreInv ==
  /\ ActsAreRequested
  /\ ConfirmedHasAction
  /\ EvidenceIsForShown
  /\ \A p \in Proposal : status[p] = "none" => payload[p] = Nothing /\ ~ asked[p]
  /\ \A p \in Proposal : status[p] # "none" => payload[p] \in Payload

\* What one request may hold, at its location.
MayHold(h) ==
  /\ pc[h] # "idle" => cur[h] # Nothing
  /\ cur[h] \in Proposal => status[cur[h]] # "none"
  /\ cur[h] \in Command => pc[h] \in {"idle", "lookup", "load", "insert", "dispatch"}
  /\ cur[h] \in Proposal /\ pc[h] \in {"lookup", "load", "insert", "dispatch", "confirm"} =>
       asked[cur[h]]
  /\ pc[h] \in {"dispatch", "confirm"} => action[OrderFor(h)] = PayloadFor(h)
  /\ pc[h] = "recover" => action[OrderFor(h)] # Nothing

\* The invariant is what the stores say and what each request holds.
LEMMA BridgeInvParts == BridgeInv <=> TypeOK /\ StoreInv /\ \A h \in Host : MayHold(h)
  BY Zenon DEF BridgeInv, StoreInv, MayHold

\* A request works on a proposal or on a command, which have an order and a payload.
LEMMA RequestTypes ==
  ASSUME TypeOK, NEW h \in Host, MayHold(h), StoreInv, pc[h] # "idle"
  PROVE  cur[h] \in Proposal \cup Command /\ OrderFor(h) \in Order /\ PayloadFor(h) \in Payload
<1>1. cur[h] \in Proposal \cup Command
  BY Zenon DEF TypeOK, MayHold
<1>2. CASE cur[h] \in Proposal
  BY Zenon, <1>2 DEF OrderFor, PayloadFor, MayHold, StoreInv
<1>3. CASE cur[h] \notin Proposal
  BY <1>1, <1>3 DEF OrderFor, PayloadFor, Command
<1>4. QED
  BY Zenon, <1>1, <1>2, <1>3

\* A step of one request that writes no store keeps the invariant if what its next
\* location relies on is known.
LEMMA MoveKeeps ==
  ASSUME BridgeInv, NEW h \in Host, NEW l \in Location, UNCHANGED storeVars,
         pc' = [pc EXCEPT ![h] = l],
         cur' \in [Host -> Proposal \cup Command \cup {Nothing}],
         \A k \in Host \ {h} : cur'[k] = cur[k],
         MayHold(h)'
  PROVE  BridgeInv'
<1>1. TypeOK /\ StoreInv /\ \A k \in Host : MayHold(k)
  BY Zenon, BridgeInvParts
<1>2. TypeOK'
  BY Zenon, <1>1 DEF TypeOK, storeVars, orderVars, proposalVars, actionVars
<1>3. StoreInv'
  BY Zenon, <1>1 DEF StoreInv, ActsAreRequested, ConfirmedHasAction, EvidenceIsForShown,
     storeVars, orderVars, proposalVars, actionVars
<1>4. ASSUME NEW k \in Host \ {h} PROVE MayHold(k)'
  <2>1. pc'[k] = pc[k] /\ cur'[k] = cur[k]
    BY Zenon, <1>1, <1>4 DEF TypeOK
  <2>2. MayHold(k)
    BY Zenon, <1>1
  <2>3. QED
    BY Zenon, <2>1, <2>2 DEF MayHold, OrderFor, PayloadFor, storeVars, proposalVars, actionVars
<1>5. (\A k \in Host : MayHold(k))'
  BY Zenon, <1>4
<1>6. QED
  BY Zenon, <1>2, <1>3, <1>5 DEF BridgeInv, StoreInv, MayHold

\* Goto, with what the location relies on.
LEMMA GotoKeeps ==
  ASSUME BridgeInv, NEW h \in Host, NEW l \in Location, pc[h] # "idle",
         Goto(h, l), UNCHANGED storeVars,
         cur[h] \in Command => l \in {"idle", "lookup", "load", "insert", "dispatch"},
         cur[h] \in Proposal /\ l \in {"lookup", "load", "insert", "dispatch", "confirm"} =>
           asked[cur[h]],
         l \in {"dispatch", "confirm"} => action[OrderFor(h)] = PayloadFor(h),
         l = "recover" => action[OrderFor(h)] # Nothing
  PROVE  BridgeInv'
<1>1. /\ pc' = [pc EXCEPT ![h] = l] /\ pc \in [Host -> Location]
      /\ cur \in [Host -> Proposal \cup Command \cup {Nothing}] /\ cur[h] # Nothing
      /\ cur[h] \in Proposal => status[cur[h]] # "none"
  BY Zenon DEF Goto, BridgeInv, TypeOK
<1>2. /\ cur' \in [Host -> Proposal \cup Command \cup {Nothing}]
      /\ \A k \in Host \ {h} : cur'[k] = cur[k]
      /\ l # "idle" => cur'[h] = cur[h]
      /\ l = "idle" => cur'[h] = Nothing
  BY Zenon, <1>1 DEF Goto
<1>3. pc'[h] = l
  BY Zenon, <1>1
<1>4. MayHold(h)'
  <2>1. CASE l = "idle"
    BY <1>2, <1>3, <2>1 DEF MayHold
  <2>2. CASE l # "idle"
    BY Zenon, <1>1, <1>2, <1>3, <2>2 DEF MayHold, OrderFor, PayloadFor, storeVars,
       proposalVars, actionVars
  <2>3. QED
    BY Zenon, <2>1, <2>2
<1>5. QED
  BY Zenon, <1>1, <1>2, <1>4, MoveKeeps

\* A method that starts reads its row and moves to a location that relies on nothing.
LEMMA StartKeeps ==
  ASSUME BridgeInv, NEW h \in Host, NEW p \in Proposal, status[p] = "pending",
         NEW l \in {"verify", "cancelLookup", "expire"}, Start(h, p, l)
  PROVE  BridgeInv'
<1>1. /\ pc' = [pc EXCEPT ![h] = l] /\ pc \in [Host -> Location]
      /\ cur' = [cur EXCEPT ![h] = p] /\ cur \in [Host -> Proposal \cup Command \cup {Nothing}]
      /\ UNCHANGED storeVars
  BY Zenon DEF Start, BridgeInv, TypeOK
<1>2. /\ cur' \in [Host -> Proposal \cup Command \cup {Nothing}]
      /\ \A k \in Host \ {h} : cur'[k] = cur[k]
      /\ pc'[h] = l /\ cur'[h] = p /\ status'[p] = "pending"
  BY Zenon, <1>1 DEF storeVars, proposalVars
<1>3. MayHold(h)'
  BY <1>2 DEF MayHold
<1>4. l \in Location
  OBVIOUS
<1>5. QED
  BY Zenon, <1>1, <1>2, <1>3, <1>4, MoveKeeps

\* A command of a service client starts at submit's lookup, which relies on nothing.
LEMMA CommandKeeps ==
  ASSUME BridgeInv, NEW h \in Host, NEW o \in Order, NEW load \in Payload,
         RefundCommand(h, o, load) \/ ActionCommand(h, o, load)
  PROVE  BridgeInv'
<1>1. PICK c \in Command : /\ pc' = [pc EXCEPT ![h] = "lookup"]
                           /\ cur' = [cur EXCEPT ![h] = c]
                           /\ UNCHANGED storeVars
  <2>1. /\ [order |-> o, payload |-> load, compared |-> FALSE] \in Command
        /\ [order |-> o, payload |-> load, compared |-> TRUE] \in Command
    BY DEF Command
  <2>2. QED
    BY Zenon, <2>1 DEF RefundCommand, ActionCommand
<1>2. pc \in [Host -> Location] /\ cur \in [Host -> Proposal \cup Command \cup {Nothing}]
  BY Zenon DEF BridgeInv, TypeOK
<1>3. /\ cur' \in [Host -> Proposal \cup Command \cup {Nothing}]
      /\ \A k \in Host \ {h} : cur'[k] = cur[k]
      /\ pc'[h] = "lookup" /\ cur'[h] = c
  BY Zenon, <1>1, <1>2
<1>4. c \notin Proposal /\ c # Nothing
  BY Zenon
<1>5. MayHold(h)'
  BY <1>3, <1>4 DEF MayHold
<1>6. QED
  BY Zenon, <1>1, <1>3, <1>5, MoveKeeps

\* A step that writes the stores keeps the invariant when the stores stay consistent and
\* no request loses what it relies on.
LEMMA WriteKeeps ==
  ASSUME TypeOK', StoreInv', \A k \in Host : MayHold(k)'
  PROVE  BridgeInv'
  BY Zenon DEF BridgeInv, StoreInv, MayHold

\* The compare-and-set of transition_action_proposal keeps the invariant; to confirm, it
\* must link an existing action, and with evidence the action of this payload.
LEMMA TransitionKeeps ==
  ASSUME BridgeInv, NEW h \in Host, cur[h] \in Proposal, pc[h] # "idle", NEW s \in Settled,
         NEW link \in BOOLEAN, NEW proof \in BOOLEAN, Transition(h, s, link, proof),
         s = "confirmed" => link /\ action[OrderOf[cur[h]]] # Nothing,
         proof => /\ s = "confirmed" /\ asked[cur[h]]
                  /\ action[OrderOf[cur[h]]] = payload[cur[h]]
  PROVE  BridgeInv'
<1>1. CASE status[cur[h]] # "pending"
  <2>1. UNCHANGED storeVars /\ Goto(h, "idle")
    BY Zenon, <1>1 DEF Transition, storeVars, orderVars, proposalVars, actionVars
  <2>2. QED
    BY <2>1, GotoKeeps
<1>2. CASE status[cur[h]] = "pending"
  <2>0. TypeOK /\ StoreInv /\ \A k \in Host : MayHold(k)
    BY Zenon, BridgeInvParts
  <2>1. /\ pc \in [Host -> Location] /\ cur \in [Host -> Proposal \cup Command \cup {Nothing}]
        /\ status \in [Proposal -> Settled \cup {"none", "pending"}]
        /\ linked \in [Proposal -> BOOLEAN] /\ evidence \in [Proposal -> BOOLEAN]
    BY Zenon, <2>0 DEF TypeOK
  <2>2. /\ status' = [status EXCEPT ![cur[h]] = s]
        /\ linked' = [linked EXCEPT ![cur[h]] = linked[cur[h]] \/ link]
        /\ evidence' = [evidence EXCEPT ![cur[h]] = evidence[cur[h]] \/ proof]
        /\ UNCHANGED <<version, value, payload, based, late, action, by, asked>>
    BY Zenon, <1>2 DEF Transition, orderVars, actionVars
  <2>3. /\ pc' = [pc EXCEPT ![h] = "idle"]
        /\ cur' = [cur EXCEPT ![h] = Nothing]
    BY Zenon DEF Transition, Goto
  <2>4. TypeOK'
    BY Zenon, <2>0, <2>1, <2>2, <2>3 DEF TypeOK
  <2>5. ActsAreRequested'
    BY Zenon, <2>0, <2>2 DEF StoreInv, ActsAreRequested
  <2>6. ConfirmedHasAction'
    BY Zenon, <2>0, <2>1, <2>2 DEF StoreInv, ConfirmedHasAction
  <2>7. EvidenceIsForShown'
    <3>1. ~ evidence[cur[h]]
      BY <1>2, <2>0 DEF StoreInv, EvidenceIsForShown
    <3>2. ASSUME NEW p \in Proposal, evidence'[p]
          PROVE  status'[p] = "confirmed" /\ asked[p] /\ action[OrderOf[p]] = payload[p]
      <4>1. CASE p = cur[h]
        BY Zenon, <2>1, <2>2, <3>1, <3>2, <4>1
      <4>2. CASE p # cur[h]
        BY Zenon, <2>0, <2>1, <2>2, <3>2, <4>2 DEF StoreInv, EvidenceIsForShown
      <4>3. QED
        BY Zenon, <4>1, <4>2
    <3>3. QED
      BY Zenon, <2>2, <3>2 DEF EvidenceIsForShown
  <2>8. \A p \in Proposal : status'[p] = "none" <=> status[p] = "none"
    BY <1>2, <2>1, <2>2
  <2>9. StoreInv'
    BY Zenon, <2>0, <2>2, <2>5, <2>6, <2>7, <2>8 DEF StoreInv
  <2>10. ASSUME NEW k \in Host PROVE MayHold(k)'
    <3>1. CASE k = h
      BY <2>1, <2>3, <3>1 DEF MayHold
    <3>2. CASE k # h
      <4>1. pc'[k] = pc[k] /\ cur'[k] = cur[k] /\ MayHold(k)
        BY Zenon, <2>0, <2>1, <2>3, <3>2
      <4>2. QED
        BY Zenon, <2>2, <2>8, <4>1 DEF MayHold, OrderFor, PayloadFor
    <3>3. QED
      BY Zenon, <3>1, <3>2
  <2>11. QED
    BY Zenon, <2>4, <2>9, <2>10, WriteKeeps
<1>3. QED
  BY Zenon, <1>1, <1>2

\* propose writes a row that did not exist: no action and no request refers to it.
LEMMA ProposeKeeps ==
  ASSUME BridgeInv, NEW p \in Proposal, NEW r \in Reason, Propose(p, r)
  PROVE  BridgeInv'
<1>0. TypeOK /\ StoreInv /\ \A k \in Host : MayHold(k)
  BY Zenon, BridgeInvParts
<1>1. /\ status[p] = "none" /\ payload[p] = Nothing /\ ~ asked[p]
      /\ status \in [Proposal -> Settled \cup {"none", "pending"}]
      /\ payload \in [Proposal -> Payload \cup {Nothing}]
      /\ <<value[OrderOf[p]], r>> \in Payload
  BY <1>0 DEF Propose, StoreInv, TypeOK, Payload
<1>2. /\ status' = [status EXCEPT ![p] = "pending"]
      /\ payload' = [payload EXCEPT ![p] = <<value[OrderOf[p]], r>>]
      /\ based' = [based EXCEPT ![p] = version[OrderOf[p]]]
      /\ UNCHANGED <<version, value, linked, evidence, late, action, by, asked, pc, cur>>
  BY Zenon DEF Propose, orderVars, actionVars, hostVars
<1>3. TypeOK'
  BY <1>0, <1>1, <1>2 DEF TypeOK
<1>4. \A q \in Proposal \ {p} : status'[q] = status[q] /\ payload'[q] = payload[q]
  BY Zenon, <1>1, <1>2
<1>5. status'[p] = "pending" /\ payload'[p] \in Payload /\ ~ evidence[p]
  BY <1>0, <1>1, <1>2 DEF StoreInv, EvidenceIsForShown
<1>6. ActsAreRequested'
  BY Zenon, <1>0, <1>1, <1>2, <1>4 DEF StoreInv, ActsAreRequested
<1>7. ConfirmedHasAction' /\ EvidenceIsForShown'
  BY <1>0, <1>2, <1>4, <1>5 DEF StoreInv, ConfirmedHasAction, EvidenceIsForShown
<1>8. StoreInv'
  BY <1>0, <1>2, <1>4, <1>5, <1>6, <1>7 DEF StoreInv
<1>9. ASSUME NEW k \in Host PROVE MayHold(k)'
  <2>1. MayHold(k) /\ cur[k] # p
    BY Zenon, <1>0, <1>1 DEF MayHold
  <2>2. OrderFor(k)' = OrderFor(k) /\ PayloadFor(k)' = PayloadFor(k)
    BY Zenon, <1>2, <1>4, <2>1 DEF OrderFor, PayloadFor
  <2>3. cur[k] \in Proposal => status'[cur[k]] = status[cur[k]]
    BY Zenon, <1>4, <2>1
  <2>4. QED
    BY Zenon, <1>2, <2>1, <2>2, <2>3 DEF MayHold
<1>10. QED
  BY Zenon, <1>3, <1>8, <1>9, WriteKeeps

\* The checks of confirm record that the host asked for exactly this proposal.
LEMMA VerifyKeeps ==
  ASSUME BridgeInv, NEW h \in Host, VerifyVersion(h)
  PROVE  BridgeInv'
<1>1. CASE version[OrderFor(h)] # based[cur[h]]
  <2>1. Goto(h, "idle") /\ UNCHANGED storeVars /\ pc[h] # "idle"
    BY Zenon, <1>1 DEF VerifyVersion, storeVars, actionVars, orderVars, proposalVars
  <2>2. QED
    BY <2>1, GotoKeeps
<1>2. CASE version[OrderFor(h)] = based[cur[h]]
  <2>0. TypeOK /\ StoreInv /\ \A k \in Host : MayHold(k)
    BY Zenon, BridgeInvParts
  <2>1. /\ cur[h] \in Proposal /\ status[cur[h]] # "none"
        /\ pc \in [Host -> Location] /\ asked \in [Proposal -> BOOLEAN]
    <3>1. pc[h] = "verify" /\ MayHold(h) /\ TypeOK
      BY Zenon, <2>0 DEF VerifyVersion
    <3>2. cur[h] \in Proposal \cup Command /\ cur[h] \notin Command
      BY <3>1 DEF MayHold, TypeOK
    <3>3. QED
      BY Zenon, <3>1, <3>2 DEF MayHold, TypeOK
  <2>2. /\ pc' = [pc EXCEPT ![h] = "lookup"]
        /\ asked' = [asked EXCEPT ![cur[h]] = TRUE]
        /\ UNCHANGED <<version, value, status, payload, based, linked, evidence, late, action,
                       by, cur>>
    BY Zenon, <1>2 DEF VerifyVersion, Goto, orderVars, proposalVars
  <2>3. TypeOK'
    BY Zenon, <2>0, <2>1, <2>2 DEF TypeOK
  <2>4. /\ \A p \in Proposal : asked[p] => asked'[p]
        /\ \A p \in Proposal : status[p] = "none" => asked'[p] = asked[p]
        /\ asked'[cur[h]]
    BY Zenon, <2>1, <2>2
  <2>5. StoreInv'
    BY Zenon, <2>0, <2>2, <2>4 DEF StoreInv, ActsAreRequested, ConfirmedHasAction,
       EvidenceIsForShown
  <2>6. ASSUME NEW k \in Host PROVE MayHold(k)'
    <3>1. MayHold(k) /\ (k # h => pc'[k] = pc[k]) /\ (k = h => pc'[k] = "lookup")
      BY Zenon, <2>0, <2>1, <2>2
    <3>2. CASE k = h
      BY <2>1, <2>2, <2>4, <3>1, <3>2 DEF MayHold
    <3>3. CASE k # h
      BY Zenon, <2>2, <2>4, <3>1, <3>3 DEF MayHold, OrderFor, PayloadFor
    <3>4. QED
      BY Zenon, <3>2, <3>3
  <2>7. QED
    BY Zenon, <2>3, <2>5, <2>6, WriteKeeps
<1>3. QED
  BY Zenon, <1>1, <1>2

\* The insertion stores the payload that was asked for, where there was none.
LEMMA InsertKeeps ==
  ASSUME BridgeInv, NEW h \in Host, SubmitInsert(h)
  PROVE  BridgeInv'
<1>0. TypeOK /\ StoreInv /\ (\A k \in Host : MayHold(k)) /\ MayHold(h)
  BY Zenon, BridgeInvParts
<1>1. /\ pc[h] = "insert" /\ cur[h] \in Proposal \cup Command
      /\ PayloadFor(h) \in Payload /\ OrderFor(h) \in Order
      /\ action[OrderFor(h)] = Nothing
      /\ pc \in [Host -> Location] /\ action \in [Order -> Payload \cup {Nothing}]
      /\ by \in [Order -> Proposal \cup Command \cup {Nothing}]
  BY <1>0, RequestTypes DEF TypeOK, SubmitInsert
<1>2. /\ pc' = [pc EXCEPT ![h] = "dispatch"]
      /\ action' = [action EXCEPT ![OrderFor(h)] = PayloadFor(h)]
      /\ by' = [by EXCEPT ![OrderFor(h)] = cur[h]]
      /\ UNCHANGED <<version, value, status, payload, based, linked, evidence, late, asked, cur>>
  BY Zenon DEF SubmitInsert, Goto, orderVars, proposalVars
<1>3. TypeOK'
  BY Zenon, <1>0, <1>1, <1>2 DEF TypeOK
<1>4. \A o \in Order : action[o] # Nothing => action'[o] = action[o] /\ by'[o] = by[o]
  BY Zenon, <1>1, <1>2
<1>5. \A o \in Order : action'[o] # action[o] => o = OrderFor(h)
  BY Zenon, <1>1, <1>2
<1>6. /\ action'[OrderFor(h)] = PayloadFor(h) /\ by'[OrderFor(h)] = cur[h]
      /\ PayloadFor(h) # Nothing
  BY Zenon, <1>1, <1>2
<1>7. ActsAreRequested'
  <2>1. ASSUME NEW o \in Order, action'[o] # Nothing, o # OrderFor(h)
        PROVE  action[o] # Nothing /\ action'[o] = action[o] /\ by'[o] = by[o]
    BY Zenon, <1>4, <1>5, <2>1
  <2>2. cur[h] \in Proposal => asked[cur[h]]
    BY <1>0, <1>1 DEF MayHold
  <2>3. \/ /\ cur[h] \in Proposal /\ OrderOf[cur[h]] = OrderFor(h)
           /\ PayloadFor(h) = payload[cur[h]] /\ asked[cur[h]]
        \/ /\ cur[h] \in Command /\ cur[h].order = OrderFor(h)
           /\ PayloadFor(h) = cur[h].payload
    BY Zenon, <1>1, <2>2 DEF OrderFor, PayloadFor
  <2>4. ASSUME NEW o \in Order, action'[o] # Nothing
        PROVE  \/ /\ by'[o] \in Proposal /\ OrderOf[by'[o]] = o
                  /\ action'[o] = payload[by'[o]] /\ asked[by'[o]]
               \/ by'[o] \in Command /\ by'[o].order = o /\ action'[o] = by'[o].payload
    <3>1. CASE o = OrderFor(h)
      BY Zenon, <1>6, <2>3, <3>1
    <3>2. CASE o # OrderFor(h)
      BY Zenon, <1>0, <2>1, <2>4, <3>2 DEF StoreInv, ActsAreRequested
    <3>3. QED
      BY Zenon, <3>1, <3>2
  <2>5. QED
    BY Zenon, <1>2, <2>4 DEF ActsAreRequested
<1>8. ConfirmedHasAction'
  BY Zenon, <1>0, <1>2, <1>4 DEF StoreInv, ConfirmedHasAction
<1>9. EvidenceIsForShown'
  <2>1. ASSUME NEW p \in Proposal, evidence[p]
        PROVE  /\ status[p] = "confirmed" /\ asked[p] /\ action'[OrderOf[p]] = payload[p]
    BY Zenon, <1>0, <1>4, <2>1 DEF StoreInv, EvidenceIsForShown, ConfirmedHasAction
  <2>2. QED
    BY Zenon, <1>2, <2>1 DEF EvidenceIsForShown
<1>10. StoreInv'
  BY Zenon, <1>0, <1>2, <1>7, <1>8, <1>9 DEF StoreInv
<1>11. ASSUME NEW k \in Host PROVE MayHold(k)'
  <2>1. /\ MayHold(k) /\ (k # h => pc'[k] = pc[k]) /\ (k = h => pc'[k] = "dispatch")
        /\ cur'[k] = cur[k] /\ OrderFor(k)' = OrderFor(k) /\ PayloadFor(k)' = PayloadFor(k)
    BY Zenon, <1>0, <1>1, <1>2 DEF OrderFor, PayloadFor
  <2>2. CASE k = h
    BY <1>1, <1>2, <1>6, <2>1, <2>2 DEF MayHold
  <2>3. CASE k # h
    <3>1. pc[k] # "idle" => OrderFor(k) \in Order /\ PayloadFor(k) \in Payload
      BY Zenon, <1>0, RequestTypes
    <3>2. /\ pc[k] \in {"dispatch", "confirm"} => action'[OrderFor(k)] = PayloadFor(k)
          /\ pc[k] = "recover" => action'[OrderFor(k)] # Nothing
      BY <1>4, <2>1, <3>1 DEF MayHold
    <3>3. QED
      BY Zenon, <1>2, <2>1, <2>3, <3>2 DEF MayHold
  <2>4. QED
    BY Zenon, <2>2, <2>3
<1>12. QED
  BY Zenon, <1>3, <1>10, <1>11, WriteKeeps

\* The passing of time and a change of the order touch nothing a request relies on.
LEMMA SurroundingsKeep ==
  ASSUME BridgeInv,
         \/ \E p \in Proposal : TimeToLivePasses(p)
         \/ \E o \in Order, v \in Value : PutResource(o, v)
  PROVE  BridgeInv'
<1>1. /\ late' \in [Proposal -> BOOLEAN]
      /\ version' \in [Order -> 0 .. MaxVersion] /\ value' \in [Order -> Value]
  <2>1. /\ late \in [Proposal -> BOOLEAN]
        /\ version \in [Order -> 0 .. MaxVersion] /\ value \in [Order -> Value]
    BY Zenon DEF BridgeInv, TypeOK
  <2>2. ASSUME NEW p \in Proposal, TimeToLivePasses(p)
        PROVE  late' \in [Proposal -> BOOLEAN] /\ UNCHANGED <<version, value>>
    BY Zenon, <2>1, <2>2 DEF TimeToLivePasses, orderVars, actionVars
  <2>3. ASSUME NEW o \in Order, NEW v \in Value, PutResource(o, v)
        PROVE  /\ version' \in [Order -> 0 .. MaxVersion] /\ value' \in [Order -> Value]
               /\ UNCHANGED late
    BY <2>1, <2>3 DEF PutResource, proposalVars
  <2>4. QED
    BY Zenon, <2>1, <2>2, <2>3
<1>2. UNCHANGED <<status, payload, based, linked, evidence, action, by, asked, pc, cur>>
  BY Zenon DEF TimeToLivePasses, PutResource, proposalVars, actionVars, hostVars
<1>3. TypeOK /\ StoreInv /\ \A k \in Host : MayHold(k)
  BY Zenon, BridgeInvParts
<1>4. TypeOK'
  BY Zenon, <1>1, <1>2, <1>3 DEF TypeOK
<1>5. StoreInv'
  BY Zenon, <1>2, <1>3 DEF StoreInv, ActsAreRequested, ConfirmedHasAction, EvidenceIsForShown
<1>6. \A k \in Host : MayHold(k)'
  BY Zenon, <1>2, <1>3 DEF MayHold, OrderFor, PayloadFor
<1>7. QED
  BY Zenon, <1>4, <1>5, <1>6, WriteKeeps

\* A request inside submit works on a command, or on a proposal its host asked to confirm.
LEMMA InSubmit ==
  ASSUME BridgeInv, NEW h \in Host, pc[h] \in {"lookup", "load", "insert", "dispatch"}
  PROVE  /\ pc[h] # "idle" /\ PayloadFor(h) \in Payload
         /\ cur[h] \in Proposal => asked[cur[h]]
         /\ cur[h] \notin Proposal => cur[h] \in Command
         /\ Nothing \notin Payload
         /\ cur[h] \in Command => cur[h] \notin Proposal
<1>1. TypeOK /\ StoreInv /\ MayHold(h) /\ pc[h] # "idle"
  BY BridgeInvParts
<1>2. PayloadFor(h) \in Payload /\ cur[h] \in Proposal \cup Command
  BY Zenon, <1>1, RequestTypes
<1>3. QED
  BY Zenon, <1>1, <1>2 DEF MayHold

\* A step inside submit that writes no store keeps the invariant.
LEMMA SubmitKeeps ==
  ASSUME BridgeInv, NEW h \in Host, pc[h] \in {"lookup", "load", "insert", "dispatch"},
         UNCHANGED storeVars,
         \/ Goto(h, "idle") \/ Goto(h, "load") \/ Goto(h, "insert")
         \/ Goto(h, "dispatch") /\ action[OrderFor(h)] = PayloadFor(h)
         \/ Goto(h, "confirm") /\ cur[h] \in Proposal /\ action[OrderFor(h)] = PayloadFor(h)
  PROVE  BridgeInv'
<1>1. /\ pc[h] # "idle"
      /\ cur[h] \in Proposal => asked[cur[h]]
      /\ cur[h] \in Command => cur[h] \notin Proposal
  BY Zenon, InSubmit
<1>2. CASE Goto(h, "idle")
  BY <1>1, <1>2, GotoKeeps
<1>3. CASE Goto(h, "load")
  BY <1>1, <1>3, GotoKeeps
<1>4. CASE Goto(h, "insert")
  BY <1>1, <1>4, GotoKeeps
<1>5. CASE Goto(h, "dispatch") /\ action[OrderFor(h)] = PayloadFor(h)
  BY <1>1, <1>5, GotoKeeps
<1>6. CASE Goto(h, "confirm") /\ cur[h] \in Proposal /\ action[OrderFor(h)] = PayloadFor(h)
  BY <1>1, <1>6, GotoKeeps
<1>7. QED
  BY Zenon, <1>2, <1>3, <1>4, <1>5, <1>6

\* The compare-and-sets are those of requests that work on a proposal.
LEMMA DecisionKeeps ==
  ASSUME BridgeInv, NEW h \in Host,
         ConfirmTransition(h) \/ RecoverConfirmed(h) \/ CancelTransition(h) \/ Expire(h)
  PROVE  BridgeInv'
<1>1. TypeOK /\ StoreInv /\ MayHold(h)
  BY Zenon, BridgeInvParts
<1>2. pc[h] \in {"confirm", "recover", "cancel", "expire"}
  BY Zenon DEF ConfirmTransition, RecoverConfirmed, CancelTransition, Expire
<1>3. cur[h] \in Proposal /\ pc[h] # "idle" /\ {"confirmed", "cancelled", "expired"} = Settled
  BY <1>1, <1>2 DEF TypeOK, MayHold
<1>4. /\ OrderFor(h) = OrderOf[cur[h]] /\ PayloadFor(h) = payload[cur[h]]
      /\ payload[cur[h]] \in Payload
  BY Zenon, <1>1, <1>3 DEF OrderFor, PayloadFor, MayHold, StoreInv
<1>5. CASE ConfirmTransition(h)
  <2>1. /\ Transition(h, "confirmed", TRUE, TRUE) /\ asked[cur[h]]
        /\ action[OrderOf[cur[h]]] = payload[cur[h]]
    BY Zenon, <1>1, <1>3, <1>4, <1>5 DEF ConfirmTransition, MayHold
  <2>2. action[OrderOf[cur[h]]] # Nothing
    BY Zenon, <1>4, <2>1
  <2>3. QED
    BY Zenon, <1>3, <2>1, <2>2, TransitionKeeps
<1>6. CASE RecoverConfirmed(h)
  <2>1. Transition(h, "confirmed", TRUE, FALSE) /\ action[OrderOf[cur[h]]] # Nothing
    BY Zenon, <1>1, <1>4, <1>6 DEF RecoverConfirmed, MayHold
  <2>2. QED
    BY Zenon, <1>3, <2>1, TransitionKeeps
<1>7. CASE CancelTransition(h)
  <2>1. Transition(h, "cancelled", FALSE, FALSE)
    BY Zenon, <1>7 DEF CancelTransition
  <2>2. QED
    BY Zenon, <1>3, <2>1, TransitionKeeps
<1>8. CASE Expire(h)
  <2>1. Transition(h, "expired", FALSE, FALSE)
    BY Zenon, <1>8 DEF Expire
  <2>2. QED
    BY Zenon, <1>3, <2>1, TransitionKeeps
<1>9. QED
  BY Zenon, <1>5, <1>6, <1>7, <1>8

\* Every step keeps the invariant.
LEMMA NextBridge == BridgeInv /\ [Next]_vars => BridgeInv'
<1> SUFFICES ASSUME BridgeInv, [Next]_vars PROVE BridgeInv'
  OBVIOUS
<1>1. CASE UNCHANGED vars
  <2>1. TypeOK /\ StoreInv /\ \A k \in Host : MayHold(k)
    BY Zenon, BridgeInvParts
  <2>2. TypeOK' /\ StoreInv'
    BY Zenon, <1>1, <2>1 DEF TypeOK, StoreInv, ActsAreRequested, ConfirmedHasAction,
       EvidenceIsForShown, vars, storeVars, orderVars, proposalVars, actionVars, hostVars
  <2>3. \A k \in Host : MayHold(k)'
    BY Zenon, <1>1, <2>1 DEF MayHold, OrderFor, PayloadFor, vars, storeVars, proposalVars,
       actionVars, hostVars
  <2>4. QED
    BY Zenon, <2>2, <2>3, WriteKeeps
<1>2. ASSUME NEW h \in Host, NEW p \in Proposal,
             Confirm(h, p) \/ Cancel(h, p) \/ AskStatus(h, p)
      PROVE  BridgeInv'
  BY Zenon, <1>2, StartKeeps DEF Confirm, Cancel, AskStatus
<1>3. ASSUME NEW h \in Host, SubmitLookup(h) PROVE BridgeInv'
  BY Zenon, <1>3, SubmitKeeps DEF SubmitLookup
<1>4. ASSUME NEW h \in Host, SubmitLoad(h) PROVE BridgeInv'
  BY Zenon, <1>4, SubmitKeeps DEF SubmitLoad
<1>5. ASSUME NEW h \in Host, SubmitDuplicate(h) PROVE BridgeInv'
  BY Zenon, <1>5, SubmitKeeps DEF SubmitDuplicate
<1>6. ASSUME NEW h \in Host, ConfirmRefused(h) \/ SubmitRaises(h) \/ Crash(h)
      PROVE  BridgeInv'
  <2>1. pc[h] # "idle" /\ Goto(h, "idle") /\ UNCHANGED storeVars
    BY Zenon, <1>6 DEF ConfirmRefused, SubmitRaises, Crash
  <2>2. QED
    BY <2>1, GotoKeeps
<1>7. ASSUME NEW h \in Host, DispatchReturns(h) PROVE BridgeInv'
  <2>1. pc[h] = "dispatch" /\ UNCHANGED storeVars /\ action[OrderFor(h)] = PayloadFor(h)
    BY Zenon, <1>7 DEF DispatchReturns, BridgeInv
  <2>2. Goto(h, "idle") \/ (Goto(h, "confirm") /\ cur[h] \in Proposal)
    BY Zenon, <1>7 DEF DispatchReturns
  <2>3. QED
    BY Zenon, <2>1, <2>2, SubmitKeeps
<1>8. ASSUME NEW h \in Host, CancelLookup(h) PROVE BridgeInv'
  <2>1. /\ pc[h] = "cancelLookup" /\ UNCHANGED storeVars
        /\ Goto(h, "cancel") \/ (Goto(h, "recover") /\ action[OrderFor(h)] # Nothing)
    BY Zenon, <1>8 DEF CancelLookup
  <2>2. cur[h] \notin Command
    BY <2>1 DEF BridgeInv
  <2>3. CASE Goto(h, "cancel")
    BY <2>1, <2>2, <2>3, GotoKeeps
  <2>4. CASE Goto(h, "recover") /\ action[OrderFor(h)] # Nothing
    BY <2>1, <2>2, <2>4, GotoKeeps
  <2>5. QED
    BY Zenon, <2>1, <2>3, <2>4
<1>9. QED
  BY Zenon, <1>1, <1>2, <1>3, <1>4, <1>5, <1>6, <1>7, <1>8, CommandKeeps, ProposeKeeps,
     VerifyKeeps, InsertKeeps, DecisionKeeps, SurroundingsKeep DEF Next, HostStep

\* The inductive invariant of the bridge holds in every reachable state.
THEOREM BridgeIsSafe == Spec => []BridgeInv
  BY InitBridge, NextBridge, PTL DEF Spec

\* Type correctness of proposals, their links and the actions they became.
THEOREM BridgeTypes == Spec => []TypeOK
<1>1. BridgeInv => TypeOK
  BY Zenon DEF BridgeInv
<1>2. QED
  BY <1>1, BridgeIsSafe, PTL

\* Nothing is executed that nobody asked for, or with other values: what submit inserts
\* is the payload of a proposal whose confirmation passed the checks of bridge.py, or of
\* a command of a service client.
THEOREM RequestedActsOnly == Spec => []ActsAreRequested
<1>1. BridgeInv => ActsAreRequested
  BY Zenon DEF BridgeInv
<1>2. QED
  BY <1>1, BridgeIsSafe, PTL

\* A proposal with confirmation evidence has the action it showed, whatever else was
\* submitted under its key: submit compares parameters, and an action is never replaced.
THEOREM ShownIsExecuted == Spec => []EvidenceIsForShown
<1>1. BridgeInv => EvidenceIsForShown
  BY Zenon DEF BridgeInv
<1>2. QED
  BY <1>1, BridgeIsSafe, PTL

\* A confirmed proposal always has its action, even when cancel recovers it.
THEOREM ConfirmedIsLinked == Spec => []ConfirmedHasAction
<1>1. BridgeInv => ConfirmedHasAction
  BY Zenon DEF BridgeInv
<1>2. QED
  BY <1>1, BridgeIsSafe, PTL

\* Of the racing confirm, cancel and expiry of a proposal one wins, for good.
THEOREM OneDecision == Spec => SettledIsFinal
<1>1. BridgeInv /\ [Next]_vars =>
        [\A p \in Proposal : status[p] \in Settled => status'[p] = status[p]]_vars
  <2> SUFFICES ASSUME BridgeInv, Next, NEW p \in Proposal, status[p] \in Settled
               PROVE  status'[p] = status[p]
    OBVIOUS
  <2>1. ASSUME NEW h \in Host, NEW s, NEW link, NEW proof, Transition(h, s, link, proof)
        PROVE  status'[p] = status[p]
    BY <2>1 DEF Transition, BridgeInv, TypeOK
  <2>2. ASSUME NEW q \in Proposal, NEW r \in Reason, Propose(q, r)
        PROVE  status'[p] = status[p]
    BY Zenon, <2>2 DEF Propose, BridgeInv, TypeOK
  <2>3. CASE UNCHANGED status
    BY Zenon, <2>3
  <2>4. ASSUME NEW h \in Host, HostStep(h) PROVE status'[p] = status[p]
    <3>1. CASE UNCHANGED status
      BY Zenon, <3>1
    <3>2. CASE \E s, link, proof : Transition(h, s, link, proof)
      BY Zenon, <3>2, <2>1
    <3>3. QED
      BY Zenon, <2>4, <3>1, <3>2 DEF HostStep, Confirm, Cancel, AskStatus, Start, RefundCommand,
         ActionCommand, VerifyVersion,
         ConfirmRefused, SubmitLookup, SubmitLoad, SubmitInsert, SubmitDuplicate,
         SubmitRaises, DispatchReturns, ConfirmTransition, CancelLookup,
         CancelTransition, RecoverConfirmed, Expire, Crash, storeVars, proposalVars
  <2>5. ASSUME \/ \E q \in Proposal : TimeToLivePasses(q)
               \/ \E o \in Order, v \in Value : PutResource(o, v)
        PROVE  status'[p] = status[p]
    BY Zenon, <2>5 DEF TimeToLivePasses, PutResource, proposalVars
  <2>6. QED
    BY Zenon, <2>2, <2>4, <2>5 DEF Next
<1>2. QED
  BY <1>1, BridgeIsSafe, PTL DEF Spec, SettledIsFinal

HIDE BridgeAssumption DEF Settled, Location

-------------------------------------------------------------------------------
(* Policies. *)

Ever == {"active", "retired"}

\* What the signer makes of a row: a separate approver once it is approved, and
\* the signature of author and approver once it has been active.
Signed(r) ==
  /\ r.life # "none" => r.author \in Person
  /\ r.life \in Ever \cup {"approved"} => r.approver \in Person \ {r.author}
  /\ r.life \in Ever => r.activation = <<r.author, r.approver>>

SameSigners(r, s) == r.author = s.author /\ r.approver = s.approver

\* Everything stored, and everything about to be stored, is signed.
RowsAreSigned ==
  /\ \A p \in Package : Signed(row[p])
  /\ \A m \in Admin : Signed(next[m])
  /\ \A m \in Admin, p \in Package : Signed(prior[m][p])

\* A save never stores an active package; an activation stores one, and retires others.
Intentions ==
  /\ \A m \in Admin : phase[m] # "idle" => subject[m] \in Package
  /\ \A m \in Admin : phase[m] = "save" => next[m].life \in {"draft", "approved", "retired"}
  /\ \A m \in Admin : phase[m] \in {"list", "replace"} => next[m].life = "active"
  /\ \A m \in Admin, p \in Package : prior[m][p].life \in {"none", "retired"}
  /\ \A m \in Admin, p \in Package : prior[m][p].life = "none" => prior[m][p] = NoRow

\* A scope has one active package at most.
UniqueActive ==
  \A p, q \in Package :
    row[p].life = "active" /\ row[q].life = "active" /\ ScopeOf[p] = ScopeOf[q] => p = q

\* What requests are about to write agrees with the rows that only went forward.
ReadsAgree ==
  /\ \A m \in Admin : phase[m] \in {"list", "replace"} /\ subject[m] \notin lost =>
       row[subject[m]].life \in Ever \cup {"approved"} /\ SameSigners(next[m], row[subject[m]])
  /\ \A m \in Admin : phase[m] = "save" /\ next[m].life = "retired" /\ subject[m] \notin lost =>
       row[subject[m]].life \in Ever /\ SameSigners(next[m], row[subject[m]])
  /\ \A m \in Admin, p \in Package : prior[m][p].life = "retired" /\ p \notin lost =>
       row[p].life \in Ever /\ SameSigners(prior[m][p], row[p])

\* Every authorized action carries the signature its package has.
StampsAgree ==
  \A a \in Action : stamp[a] # Nobody /\ stamp[a][1] \notin lost =>
    row[stamp[a][1]].life \in Ever /\ row[stamp[a][1]].activation = stamp[a][2]

PolicyInv ==
  PolicyTypeOK /\ RowsAreSigned /\ Intentions /\ UniqueActive /\ ReadsAgree /\ StampsAgree

USE PolicyAssumption DEF Ever, Phase, Life, Signature, NoRow

\* The signer's rows are rows, and signed.
LEMMA SignerRows ==
  ASSUME NEW r \in Row, Signed(r), NEW x \in Person
  PROVE  /\ Draft(x) \in Row /\ Signed(Draft(x)) /\ Draft(x).life = "draft" /\ Draft(x).author = x
         /\ r.life = "draft" /\ x # r.author =>
              Approved(r, x) \in Row /\ Signed(Approved(r, x)) /\ Approved(r, x).life = "approved"
         /\ r.life = "approved" =>
              /\ Activated(r) \in Row /\ Signed(Activated(r)) /\ Activated(r).life = "active"
              /\ SameSigners(Activated(r), r)
         /\ r.life = "active" =>
              /\ Retired(r) \in Row /\ Signed(Retired(r)) /\ Retired(r).life = "retired"
              /\ SameSigners(Retired(r), r)
BY Zenon DEF Row, Signed, Draft, Approved, Activated, Retired, SameSigners

\* The bootstrap packages are signed, and one per scope.
LEMMA InitPolicyInv == PolicyInit => PolicyInv
<1> SUFFICES ASSUME PolicyInit PROVE PolicyInv
  OBVIOUS
<1> PICK x, y \in Person :
      /\ x # y
      /\ row = [p \in Package |->
                  IF p \in Bootstrap THEN Activated(Approved(Draft(x), y)) ELSE NoRow]
  BY Zenon DEF PolicyInit
<1> DEFINE installed == Activated(Approved(Draft(x), y))
<1>1. row = [p \in Package |-> IF p \in Bootstrap THEN installed ELSE NoRow]
  OBVIOUS
<1>2. /\ NoRow \in Row /\ Signed(NoRow) /\ NoRow.life = "none"
      /\ installed \in Row /\ Signed(installed) /\ installed.life = "active"
  <2>1. NoRow \in Row /\ Signed(NoRow) /\ NoRow.life = "none"
    BY Zenon DEF Row, Signed
  <2>2. Draft(x) \in Row /\ Signed(Draft(x)) /\ Draft(x).life = "draft" /\ Draft(x).author = x
    BY Zenon, <2>1, SignerRows
  <2>3. /\ Approved(Draft(x), y) \in Row /\ Signed(Approved(Draft(x), y))
        /\ Approved(Draft(x), y).life = "approved"
    BY <2>2, SignerRows
  <2>4. QED
    BY Zenon, <2>1, <2>3, SignerRows
<1> HIDE DEF installed
<1>3. /\ stamp = [a \in Action |-> Nobody]
      /\ phase = [m \in Admin |-> "idle"]
      /\ subject = [m \in Admin |-> Nobody]
      /\ next = [m \in Admin |-> NoRow]
      /\ prior = [m \in Admin |-> [p \in Package |-> NoRow]]
      /\ lost = {}
  BY Zenon DEF PolicyInit
<1>4. PolicyTypeOK
  BY <1>1, <1>2, <1>3 DEF PolicyTypeOK
<1>5. RowsAreSigned
  BY Zenon, <1>1, <1>2, <1>3 DEF RowsAreSigned
<1>6. Intentions
  BY Zenon, <1>3 DEF Intentions
<1>7. UniqueActive
  BY <1>1 DEF UniqueActive
<1>8. ReadsAgree /\ StampsAgree
  BY Zenon, <1>3 DEF ReadsAgree, StampsAgree
<1>9. QED
  BY Zenon, <1>4, <1>5, <1>6, <1>7, <1>8 DEF PolicyInv

-------------------------------------------------------------------------------
(* Requests that read. *)

\* A request that read a package and computed a signed row from it keeps the invariant.
LEMMA ReadInv ==
  ASSUME PolicyInv, NEW m \in Admin, NEW p \in Package, NEW r \in Row, NEW l \in {"save", "list"},
         Read(m, p, r, l), Signed(r),
         l = "save" => r.life \in {"draft", "approved", "retired"},
         l = "list" => r.life = "active" /\ row[p].life = "approved" /\ SameSigners(r, row[p]),
         r.life = "retired" => row[p].life \in Ever /\ SameSigners(r, row[p])
  PROVE  PolicyInv'
<1> USE DEF PolicyInv
<1>1. /\ phase' = [phase EXCEPT ![m] = l]
      /\ subject' = [subject EXCEPT ![m] = p]
      /\ next' = [next EXCEPT ![m] = r]
      /\ UNCHANGED <<row, stamp, prior, lost>>
  BY Zenon DEF Read
<1>2. PolicyTypeOK'
  BY Zenon, <1>1 DEF PolicyTypeOK
<1>3. /\ phase'[m] = l /\ subject'[m] = p /\ next'[m] = r
      /\ \A k \in Admin \ {m} : phase'[k] = phase[k] /\ subject'[k] = subject[k] /\ next'[k] = next[k]
  BY Zenon, <1>1 DEF PolicyTypeOK
<1>4. RowsAreSigned'
  BY <1>1, <1>3 DEF RowsAreSigned
<1>5. Intentions'
  BY <1>1, <1>3 DEF Intentions
<1>6. UniqueActive' /\ StampsAgree'
  BY Zenon, <1>1 DEF UniqueActive, StampsAgree
<1>7. ReadsAgree'
  BY <1>1, <1>3 DEF ReadsAgree
<1>8. QED
  BY Zenon, <1>2, <1>4, <1>5, <1>6, <1>7

\* activate lists the active packages: their retired forms agree with the rows.
LEMMA ListActiveInv ==
  ASSUME PolicyInv, NEW m \in Admin, ListActive(m)
  PROVE  PolicyInv'
<1> USE DEF PolicyInv
<1> DEFINE others == ActiveIn(row, ScopeOf[subject[m]]) \ {subject[m]}
<1> DEFINE plan == [p \in Package |-> IF p \in others THEN Retired(row[p]) ELSE NoRow]
<1>1. /\ phase[m] = "list"
      /\ prior' = [prior EXCEPT ![m] = plan]
      /\ phase' = [phase EXCEPT ![m] = "replace"]
      /\ UNCHANGED <<row, stamp, subject, next, lost>>
  BY Zenon DEF ListActive
<1>2. \A p \in Package : row[p] \in Row /\ Signed(row[p])
  BY Zenon DEF PolicyTypeOK, RowsAreSigned
<1>3. \A p \in others : row[p].life = "active" /\ p \in Package
  BY Zenon DEF ActiveIn
<1>4. PICK x \in Person : TRUE
  OBVIOUS
<1>5. \A p \in others : /\ Retired(row[p]) \in Row /\ Signed(Retired(row[p]))
                        /\ Retired(row[p]).life = "retired" /\ SameSigners(Retired(row[p]), row[p])
  BY <1>2, <1>3, <1>4, SignerRows
<1>6. NoRow \in Row /\ Signed(NoRow) /\ NoRow.life = "none"
  BY Zenon DEF Row, Signed
<1>7. /\ plan \in [Package -> Row]
      /\ \A p \in Package : Signed(plan[p]) /\ plan[p].life \in {"none", "retired"}
      /\ \A p \in Package : plan[p].life = "none" => plan[p] = NoRow
      /\ \A p \in Package : plan[p].life = "retired" =>
           row[p].life = "active" /\ SameSigners(plan[p], row[p])
  BY Zenon, <1>3, <1>5, <1>6
<1> HIDE DEF plan, others
<1>8. PolicyTypeOK'
  BY Zenon, <1>1, <1>7 DEF PolicyTypeOK
<1>9. /\ prior'[m] = plan
      /\ \A k \in Admin \ {m} : prior'[k] = prior[k] /\ phase'[k] = phase[k]
      /\ phase'[m] = "replace"
  BY Zenon, <1>1 DEF PolicyTypeOK
<1>10. RowsAreSigned'
  BY <1>1, <1>7, <1>9 DEF RowsAreSigned
<1>11. Intentions'
  BY <1>1, <1>7, <1>9 DEF Intentions
<1>12. UniqueActive' /\ StampsAgree'
  BY Zenon, <1>1 DEF UniqueActive, StampsAgree
<1>13. ReadsAgree'
  BY <1>1, <1>7, <1>9 DEF ReadsAgree
<1>14. QED
  BY Zenon, <1>8, <1>10, <1>11, <1>12, <1>13

-------------------------------------------------------------------------------
(* Requests that write, and end. *)

\* Where the row of p goes in a step: nowhere, forward from before its approval, or
\* to another row of the same author and approver.
Forwarded(p) ==
  \/ row'[p] = row[p]
  \/ row[p].life \in {"none", "draft"}
  \/ row'[p].life \in Ever /\ SameSigners(row'[p], row[p])

\* A request that writes signed rows and ends keeps the invariant, if no scope gets a
\* second active package and every package outside lost is forwarded.
LEMMA WriteInv ==
  ASSUME PolicyInv, NEW m \in Admin, Finish(m), UNCHANGED stamp,
         row' \in [Package -> Row], lost \subseteq lost', lost' \subseteq Package,
         \A p \in Package : Signed(row'[p]),
         UniqueActive',
         \A p \in Package \ lost' : Forwarded(p)
  PROVE  PolicyInv'
<1> USE DEF PolicyInv
<1>1. /\ phase' = [phase EXCEPT ![m] = "idle"]
      /\ subject' = [subject EXCEPT ![m] = Nobody]
      /\ next' = [next EXCEPT ![m] = NoRow]
      /\ prior' = [prior EXCEPT ![m] = [p \in Package |-> NoRow]]
  BY Zenon DEF Finish
<1>2. NoRow \in Row /\ Signed(NoRow) /\ NoRow.life = "none"
  BY Zenon DEF Row, Signed
<1> HIDE DEF NoRow
<1>3. PolicyTypeOK'
  BY Zenon, <1>1, <1>2 DEF PolicyTypeOK
<1>4. /\ phase'[m] = "idle" /\ next'[m] = NoRow
      /\ \A p \in Package : prior'[m][p] = NoRow
      /\ \A k \in Admin \ {m} :
           phase'[k] = phase[k] /\ subject'[k] = subject[k] /\ next'[k] = next[k] /\ prior'[k] = prior[k]
  BY <1>1 DEF PolicyTypeOK
<1>5. RowsAreSigned'
  BY <1>2, <1>4 DEF RowsAreSigned
<1>6. Intentions'
  BY <1>2, <1>4 DEF Intentions
<1>7. \A p \in Package \ lost' : row[p].life \in Ever \cup {"approved"} =>
        /\ row'[p].life \in Ever \cup {row[p].life}
        /\ SameSigners(row'[p], row[p])
  BY Zenon DEF Forwarded, SameSigners
<1>8. ReadsAgree'
  <2>1. ASSUME NEW k \in Admin, phase'[k] \in {"list", "replace"}, subject'[k] \notin lost'
        PROVE  row'[subject'[k]].life \in Ever \cup {"approved"} /\ SameSigners(next'[k], row'[subject'[k]])
    <3>1. k # m /\ subject'[k] = subject[k] /\ next'[k] = next[k] /\ phase[k] \in {"list", "replace"}
      BY Zenon, <1>4, <2>1
    <3>2. subject[k] \in Package \ lost'
      BY Zenon, <2>1, <3>1 DEF Intentions
    <3>3. row[subject[k]].life \in Ever \cup {"approved"} /\ SameSigners(next[k], row[subject[k]])
      BY Zenon, <3>1, <3>2 DEF ReadsAgree
    <3>4. QED
      BY <1>7, <3>1, <3>2, <3>3 DEF SameSigners
  <2>2. ASSUME NEW k \in Admin, phase'[k] = "save", next'[k].life = "retired", subject'[k] \notin lost'
        PROVE  row'[subject'[k]].life \in Ever /\ SameSigners(next'[k], row'[subject'[k]])
    <3>1. k # m /\ subject'[k] = subject[k] /\ next'[k] = next[k] /\ phase[k] = "save"
      BY Zenon, <1>4, <2>2
    <3>2. subject[k] \in Package \ lost'
      BY Zenon, <2>2, <3>1 DEF Intentions
    <3>3. row[subject[k]].life \in Ever /\ SameSigners(next[k], row[subject[k]])
      BY Zenon, <2>2, <3>1, <3>2 DEF ReadsAgree
    <3>4. QED
      BY <1>7, <3>1, <3>2, <3>3 DEF SameSigners
  <2>3. ASSUME NEW k \in Admin, NEW p \in Package, prior'[k][p].life = "retired", p \notin lost'
        PROVE  row'[p].life \in Ever /\ SameSigners(prior'[k][p], row'[p])
    <3>1. k # m /\ prior'[k][p] = prior[k][p]
      BY <1>2, <1>4, <2>3
    <3>2. row[p].life \in Ever /\ SameSigners(prior[k][p], row[p])
      BY Zenon, <2>3, <3>1 DEF ReadsAgree
    <3>3. QED
      BY Zenon, <1>7, <2>3, <3>1, <3>2 DEF SameSigners
  <2>4. QED
    BY Zenon, <2>1, <2>2, <2>3 DEF ReadsAgree
<1>9. StampsAgree'
  <2> SUFFICES ASSUME NEW a \in Action, stamp[a] # Nobody, stamp[a][1] \notin lost'
               PROVE  /\ row'[stamp[a][1]].life \in Ever
                      /\ row'[stamp[a][1]].activation = stamp[a][2]
    BY Zenon DEF StampsAgree
  <2>1. stamp[a][1] \in Package \ lost'
    BY Zenon DEF PolicyTypeOK
  <2>2. row[stamp[a][1]].life \in Ever /\ row[stamp[a][1]].activation = stamp[a][2]
    BY Zenon DEF StampsAgree
  <2>3. Signed(row[stamp[a][1]]) /\ Signed(row'[stamp[a][1]])
    BY Zenon, <2>1 DEF RowsAreSigned
  <2>4. QED
    BY Zenon, <1>7, <2>1, <2>2, <2>3 DEF Signed, SameSigners
<1>10. QED
  BY Zenon, <1>3, <1>5, <1>6, <1>8, <1>9

\* save forwards every package it does not put into lost.
LEMMA SaveForwards ==
  ASSUME PolicyInv, NEW m \in Admin, Save(m)
  PROVE  \A p \in Package \ lost' : Forwarded(p)
<1> USE DEF PolicyInv
<1>1. /\ phase[m] = "save" /\ subject[m] \in Package
      /\ next[m].life \in {"draft", "approved", "retired"}
  BY Zenon DEF Save, Intentions
<1>2. /\ row' = [row EXCEPT ![subject[m]] = next[m]]
      /\ lost' = IF <<row[subject[m]].life, next[m].life>> \in Forward
                 THEN lost ELSE lost \cup {subject[m]}
  BY Zenon DEF Save
<1>3. row'[subject[m]] = next[m] /\ \A p \in Package \ {subject[m]} : row'[p] = row[p]
  BY Zenon, <1>1, <1>2 DEF PolicyTypeOK
<1>4. lost \subseteq lost'
  BY Zenon, <1>2
<1>5. SUFFICES ASSUME NEW p \in Package \ lost', p = subject[m] PROVE Forwarded(p)
  BY Zenon, <1>3 DEF Forwarded
<1>6. <<row[p].life, next[m].life>> \in Forward
  BY Zenon, <1>2, <1>5
<1>7. row[p].life \in {"none", "draft"} \/ next[m].life = "retired"
  BY Zenon, <1>1, <1>6 DEF Forward
<1>8. CASE next[m].life = "retired"
  <2>1. SameSigners(next[m], row[p])
    BY Zenon, <1>1, <1>4, <1>5, <1>8 DEF ReadsAgree
  <2>2. QED
    BY Zenon, <1>3, <1>5, <1>8, <2>1 DEF Forwarded
<1>9. QED
  BY Zenon, <1>7, <1>8 DEF Forwarded

\* save keeps the invariant: it stores no active package, and one that it moves other
\* than one step forward is in lost.
LEMMA SaveInv ==
  ASSUME PolicyInv, NEW m \in Admin, Save(m)
  PROVE  PolicyInv'
<1> USE DEF PolicyInv
<1>1. /\ phase[m] = "save" /\ subject[m] \in Package /\ next[m] \in Row /\ Signed(next[m])
      /\ next[m].life \in {"draft", "approved", "retired"}
  BY Zenon DEF Save, Intentions, PolicyTypeOK, RowsAreSigned
<1>2. /\ row' = [row EXCEPT ![subject[m]] = next[m]]
      /\ lost' = IF <<row[subject[m]].life, next[m].life>> \in Forward
                 THEN lost ELSE lost \cup {subject[m]}
      /\ Finish(m) /\ UNCHANGED stamp
  BY Zenon DEF Save
<1>3. /\ row' \in [Package -> Row]
      /\ row'[subject[m]] = next[m]
      /\ \A p \in Package \ {subject[m]} : row'[p] = row[p]
  BY Zenon, <1>1, <1>2 DEF PolicyTypeOK
<1>4. lost \subseteq lost' /\ lost' \subseteq Package
  BY Zenon, <1>1, <1>2 DEF PolicyTypeOK
<1>5. \A p \in Package : Signed(row'[p])
  BY Zenon, <1>1, <1>3 DEF RowsAreSigned
<1>6. UniqueActive'
  BY <1>1, <1>3 DEF UniqueActive
<1>7. \A p \in Package \ lost' : Forwarded(p)
  BY Zenon, SaveForwards
<1>8. QED
  BY Zenon, <1>2, <1>3, <1>4, <1>5, <1>6, <1>7, WriteInv

\* replace_active forwards every package that no save has moved back.
LEMMA ReplaceForwards ==
  ASSUME PolicyInv, NEW m \in Admin, ReplaceActive(m)
  PROVE  \A p \in Package \ lost' : Forwarded(p)
<1> USE DEF PolicyInv
<1>1. /\ phase[m] = "replace" /\ lost' = lost
      /\ \/ row' = row
         \/ row' = [p \in Package |->
                      IF p = subject[m] THEN next[m]
                      ELSE IF prior[m][p] # NoRow THEN prior[m][p] ELSE row[p]]
  BY Zenon DEF ReplaceActive
<1>2. next[m].life = "active"
  BY Zenon, <1>1 DEF Intentions
<1> SUFFICES ASSUME NEW p \in Package, p \notin lost PROVE Forwarded(p)
  BY Zenon, <1>1
<1>3. \/ p = subject[m] /\ row'[p] = next[m]
      \/ row'[p] = prior[m][p] /\ prior[m][p].life = "retired"
      \/ row'[p] = row[p]
  BY <1>1 DEF Intentions
<1>4. CASE p = subject[m] /\ row'[p] = next[m]
  BY Zenon, <1>1, <1>2, <1>4 DEF ReadsAgree, Forwarded
<1>5. CASE row'[p] = prior[m][p] /\ prior[m][p].life = "retired"
  BY Zenon, <1>5 DEF ReadsAgree, Forwarded
<1>6. QED
  BY Zenon, <1>3, <1>4, <1>5 DEF Forwarded

\* replace_active keeps the invariant: the index admits one active package in the scope,
\* and in other scopes packages are retired only.
LEMMA ReplaceActiveInv ==
  ASSUME PolicyInv, NEW m \in Admin, ReplaceActive(m)
  PROVE  PolicyInv'
<1> USE DEF PolicyInv
<1> DEFINE table == [p \in Package |->
                       IF p = subject[m] THEN next[m]
                       ELSE IF prior[m][p] # NoRow THEN prior[m][p] ELSE row[p]]
<1>1. /\ phase[m] = "replace"
      /\ row' = IF ActiveIn(table, ScopeOf[subject[m]]) = {subject[m]} THEN table ELSE row
      /\ Finish(m) /\ UNCHANGED <<stamp, lost>>
  BY Zenon DEF ReplaceActive
<1>2. subject[m] \in Package /\ next[m] \in Row /\ Signed(next[m]) /\ next[m].life = "active"
  BY Zenon, <1>1 DEF Intentions, PolicyTypeOK, RowsAreSigned
<1>3. lost \subseteq lost' /\ lost' \subseteq Package /\ stamp' = stamp
  BY Zenon, <1>1 DEF PolicyTypeOK
<1>4. CASE row' = row
  <2>1. row' \in [Package -> Row] /\ \A p \in Package : Signed(row'[p]) /\ Forwarded(p)
    BY Zenon, <1>4 DEF PolicyTypeOK, RowsAreSigned, Forwarded
  <2>2. UniqueActive'
    BY Zenon, <1>4 DEF UniqueActive
  <2>3. QED
    BY Zenon, <1>1, <1>3, <2>1, <2>2, WriteInv
<1>5. CASE row' = table /\ ActiveIn(table, ScopeOf[subject[m]]) = {subject[m]}
  <2>1. \A p \in Package : \/ p = subject[m] /\ table[p] = next[m]
                           \/ p # subject[m] /\ table[p] = prior[m][p] /\ prior[m][p].life = "retired"
                           \/ p # subject[m] /\ table[p] = row[p]
    BY DEF Intentions
  <2>2. table \in [Package -> Row]
    BY <1>2 DEF PolicyTypeOK
  <2> HIDE DEF table
  <2>3. \A p \in Package : Signed(table[p])
    BY Zenon, <1>2, <2>1 DEF RowsAreSigned
  <2>4. \A p \in Package \ lost' : Forwarded(p)
    BY Zenon, ReplaceForwards
  <2>5. UniqueActive'
    <3> SUFFICES ASSUME NEW p \in Package, NEW q \in Package, table[p].life = "active",
                        table[q].life = "active", ScopeOf[p] = ScopeOf[q]
                 PROVE  p = q
      BY Zenon, <1>5 DEF UniqueActive
    <3>1. CASE ScopeOf[p] = ScopeOf[subject[m]]
      BY Zenon, <1>5, <3>1 DEF ActiveIn
    <3>2. CASE ScopeOf[p] # ScopeOf[subject[m]]
      BY <2>1, <3>2 DEF UniqueActive
    <3>3. QED
      BY Zenon, <3>1, <3>2
  <2>6. QED
    BY Zenon, <1>1, <1>3, <1>5, <2>2, <2>3, <2>4, <2>5, WriteInv
<1>6. QED
  BY Zenon, <1>1, <1>4, <1>5

-------------------------------------------------------------------------------
(* The theorems. *)

\* Every step of the administrative requests and of the gateway keeps the invariant.
LEMMA NextPolicyInv == PolicyInv /\ [PolicyNext]_policyVars => PolicyInv'
<1> SUFFICES ASSUME PolicyInv, [PolicyNext]_policyVars PROVE PolicyInv'
  OBVIOUS
<1>1. \A p \in Package : row[p] \in Row /\ Signed(row[p])
  BY Zenon DEF PolicyInv, PolicyTypeOK, RowsAreSigned
<1>2. ASSUME NEW m \in Admin, NEW p \in Package, NEW x \in Person, CreateDraft(m, p, x)
      PROVE  PolicyInv'
  BY <1>1, <1>2, SignerRows, ReadInv DEF CreateDraft
<1>3. ASSUME NEW m \in Admin, NEW p \in Package, NEW x \in Person, Approve(m, p, x)
      PROVE  PolicyInv'
  BY Zenon, <1>1, <1>3, SignerRows, ReadInv DEF Approve
<1>4. ASSUME NEW m \in Admin, NEW p \in Package, Retire(m, p)
      PROVE  PolicyInv'
  <2>1. PICK x \in Person : TRUE
    OBVIOUS
  <2>2. QED
    BY Zenon, <1>1, <1>4, <2>1, SignerRows, ReadInv DEF Retire
<1>5. ASSUME NEW m \in Admin, NEW p \in Package, Activate(m, p)
      PROVE  PolicyInv'
  <2>1. PICK x \in Person : TRUE
    OBVIOUS
  <2>2. QED
    BY Zenon, <1>1, <1>5, <2>1, SignerRows, ReadInv DEF Activate
<1>6. ASSUME NEW m \in Admin, RequestLost(m)
      PROVE  PolicyInv'
  <2>1. Finish(m) /\ UNCHANGED <<row, stamp, lost>>
    BY Zenon, <1>6 DEF RequestLost
  <2>2. /\ row' \in [Package -> Row] /\ lost' \subseteq Package
        /\ \A p \in Package : Signed(row'[p]) /\ Forwarded(p)
    BY Zenon, <2>1 DEF PolicyInv, PolicyTypeOK, RowsAreSigned, Forwarded
  <2>3. UniqueActive'
    BY Zenon, <2>1 DEF PolicyInv, UniqueActive
  <2>4. QED
    BY Zenon, <2>1, <2>2, <2>3, WriteInv
<1>7. ASSUME NEW a \in Action, NEW p \in Package, Authorize(a, p)
      PROVE  PolicyInv'
  <2>1. /\ row[p].life = "active"
        /\ stamp' = [stamp EXCEPT ![a] = <<p, row[p].activation>>]
        /\ UNCHANGED <<row, phase, subject, next, prior, lost>>
    BY Zenon, <1>7 DEF Authorize, requestVars
  <2>2. row[p].activation \in Signature
    <3>1. /\ row[p].author \in Person /\ row[p].approver \in Person
          /\ row[p].activation = <<row[p].author, row[p].approver>>
      BY Zenon, <1>1, <2>1 DEF Signed
    <3>2. QED
      BY <3>1
  <2>3. PolicyTypeOK'
    BY <2>1, <2>2 DEF PolicyInv, PolicyTypeOK
  <2>4. StampsAgree'
    <3>1. /\ stamp'[a][1] = p /\ stamp'[a][2] = row[p].activation
          /\ \A b \in Action \ {a} : stamp'[b] = stamp[b]
      BY Zenon, <2>1 DEF PolicyInv, PolicyTypeOK
    <3>2. QED
      BY <2>1, <3>1 DEF PolicyInv, StampsAgree
  <2>5. RowsAreSigned' /\ Intentions'
    BY Zenon, <2>1 DEF PolicyInv, RowsAreSigned, Intentions
  <2>6. UniqueActive' /\ ReadsAgree'
    BY Zenon, <2>1 DEF PolicyInv, UniqueActive, ReadsAgree
  <2>7. QED
    BY Zenon, <2>3, <2>4, <2>5, <2>6 DEF PolicyInv
<1>8. CASE UNCHANGED policyVars
  <2>1. PolicyTypeOK' /\ RowsAreSigned' /\ Intentions'
    BY Zenon, <1>8 DEF policyVars, PolicyInv, PolicyTypeOK, RowsAreSigned, Intentions
  <2>2. UniqueActive' /\ ReadsAgree' /\ StampsAgree'
    BY <1>8 DEF policyVars, PolicyInv, UniqueActive, ReadsAgree, StampsAgree
  <2>3. QED
    BY Zenon, <2>1, <2>2 DEF PolicyInv
<1>9. QED
  BY Zenon, <1>2, <1>3, <1>4, <1>5, <1>6, <1>7, <1>8, ListActiveInv, SaveInv, ReplaceActiveInv
     DEF PolicyNext, AdminStep

\* The invariant holds throughout, whatever requests race.
THEOREM PolicyIsSafe == PolicySpec => []PolicyInv
<1>1. QED
  BY InitPolicyInv, NextPolicyInv, PTL DEF PolicySpec

\* The rows and the requests have the types the schema and the code give them.
THEOREM PolicyTypes == PolicySpec => []PolicyTypeOK
<1>1. PolicyInv => PolicyTypeOK
  BY Zenon DEF PolicyInv
<1>2. QED
  BY PolicyIsSafe, <1>1, PTL

\* A procedure and jurisdiction never have two active packages.
THEOREM ActiveIsUnique == PolicySpec => []OneActive
<1>1. PolicyInv => OneActive
  BY Zenon DEF PolicyInv, UniqueActive, ActiveIn, OneActive
<1>2. QED
  BY PolicyIsSafe, <1>1, PTL

\* A package past drafting was approved by somebody other than its author, and one
\* that has been active carries the signature of the two.
THEOREM ApprovalIsSeparate == PolicySpec => []SeparateApproval
<1>1. PolicyInv => SeparateApproval
  BY Zenon DEF PolicyInv, RowsAreSigned, Signed, SeparateApproval
<1>2. QED
  BY PolicyIsSafe, <1>1, PTL

\* The stamp of an authorized action stays verifiable, unless a save moved its
\* package other than one step forward.
THEOREM StampStaysVerifiable == PolicySpec => []AuthorizedStaysVerifiable
<1>1. PolicyInv => AuthorizedStaysVerifiable
  BY Zenon DEF PolicyInv, StampsAgree, AuthorizedStaysVerifiable
<1>2. QED
  BY PolicyIsSafe, <1>1, PTL

\* A package that has been active keeps its two persons and their signature for good,
\* whatever requests race, unless a save overtook another write of it.
THEOREM SignatureStays == PolicySpec => SignatureIsFinal
<1> DEFINE Kept == \A p \in Package \ lost' : row[p].life \in {"active", "retired"} =>
                    /\ row'[p].life \in {"active", "retired"}
                    /\ row'[p].author = row[p].author /\ row'[p].approver = row[p].approver
                    /\ row'[p].activation = row[p].activation
<1>1. PolicyInv /\ PolicyInv' /\ [PolicyNext]_policyVars => Kept \/ UNCHANGED policyVars
  <2> SUFFICES ASSUME PolicyInv, PolicyInv', PolicyNext PROVE Kept
    OBVIOUS
  <2>1. \A p \in Package \ lost' : Forwarded(p)
    <3>1. row' = row \/ \E m \in Admin : Save(m) \/ ReplaceActive(m)
      BY Zenon DEF PolicyNext, AdminStep, CreateDraft, Approve, Retire, Activate, Read,
                   ListActive, RequestLost, Authorize
    <3>2. QED
      BY Zenon, <3>1, SaveForwards, ReplaceForwards DEF Forwarded
  <2>2. \A p \in Package : Signed(row[p]) /\ Signed(row'[p])
    BY Zenon DEF PolicyInv, RowsAreSigned
  <2>3. SUFFICES ASSUME NEW p \in Package \ lost', row[p].life \in {"active", "retired"},
                        row'[p].life \in Ever, SameSigners(row'[p], row[p])
                 PROVE  row'[p].activation = row[p].activation
    BY Zenon, <2>1 DEF Forwarded, SameSigners
  <2>4. QED
    BY Zenon, <2>2, <2>3 DEF Signed, SameSigners
<1>2. QED
  BY <1>1, PolicyIsSafe, PTL DEF PolicySpec, SignatureIsFinal

===============================================================================
