----------------------- MODULE ConnectorBindingsProofs -----------------------
(***************************************************************************)
(* Proofs about ConnectorBindings, for any configurations, processes,      *)
(* proposals and actions, and any number of restarts: the steps of         *)
(* providers and the recording of outcomes keep the invariant of           *)
(* ConnectorBindingsSteps, the properties follow from it, and so does the  *)
(* refinement of ActionLifecycle.                                          *)
(***************************************************************************)
EXTENDS ConnectorBindingsSteps

USE BindingAssumption DEF Calling, Open, historyVars, actionVars, outsideVars

-------------------------------------------------------------------------------
(* What providers do. *)

\* The provider an action is pinned to brings it, unless it had finished it, to s.
ProviderStep(a, s) ==
  /\ pin[a] \in Pins /\ status[a] \notin Open
  /\ provider'[a][pin[a]] = s
  /\ \A c \in Action, x \in Pins : c # a \/ x # pin[a] => provider'[c][x] = provider[c][x]
  /\ provider[a][pin[a]] # s => provider[a][pin[a]] \in {"new", "pending"}
  /\ UNCHANGED <<status, pin>>

\* Nobody is about to execute an action that is no longer new to the provider.
NobodyExecutes(a, s) ==
  provider[a][pin[a]] = "new" /\ s # "new" =>
    /\ \A k \in Process : pc[k] = "execute" => job[k].action # a
    /\ \A r \in net' : r.op = "execute" => r.action # a

\* A step of the provider that is pinned, on an action it has not finished, at an
\* action nobody is about to execute if it was new to the provider.
LEMMA ProviderInv ==
  ASSUME BindingInv, NEW a \in Action, NEW s \in {"new", "pending", "done", "rejected"},
         ProviderStep(a, s), NobodyExecutes(a, s), net' \subseteq net
  PROVE  /\ \A c \in Action, x \in Pins : provider'[c][x] # "new" =>
              x = pin'[c] /\ status'[c] \notin Open
         /\ \A k \in Process : pc[k] = "execute" =>
              /\ provider'[job[k].action][pin'[job[k].action]] = "new"
              /\ \A r \in net' : r.op = "execute" => r.action # job[k].action
         /\ \A r \in net' : r.op = "execute" => provider'[r.action][r.pin] = "new"
         /\ \A c \in Action : pin[c] \in Pins /\ provider[c][pin[c]] \in {"done", "rejected"} =>
              provider'[c][pin[c]] = provider[c][pin[c]]
<1> USE DEF BindingInv, ProviderStep
<1>4. \A c \in Action, x \in Pins : provider'[c][x] # "new" => x = pin'[c] /\ status'[c] \notin Open
  BY DEF CallsArePinned
<1>5. \A c \in Action : pin[c] \in Pins /\ provider[c][pin[c]] \in {"done", "rejected"} =>
        provider'[c][pin[c]] = provider[c][pin[c]]
  OBVIOUS
<1>6. \A c \in Action : pin[c] \in Pins /\ provider[c][pin[c]] = "new"
                          /\ (c = a => s = "new") => provider'[c][pin[c]] = "new"
  OBVIOUS
<1>7. \A k \in Process : pc[k] = "execute" =>
        /\ provider'[job[k].action][pin'[job[k].action]] = "new"
        /\ \A r \in net' : r.op = "execute" => r.action # job[k].action
  <2> SUFFICES ASSUME NEW k \in Process, pc[k] = "execute"
               PROVE  /\ provider'[job[k].action][pin[job[k].action]] = "new"
                      /\ \A r \in net' : r.op = "execute" => r.action # job[k].action
    OBVIOUS
  <2>1. /\ job[k].action \in Action /\ pin[job[k].action] \in Pins
        /\ provider[job[k].action][pin[job[k].action]] = "new"
        /\ \A r \in net' : r.op = "execute" => r.action # job[k].action
    BY PinIsPin DEF CallsArePinned, OneExecution
  <2>2. job[k].action = a => s = "new"
    BY Zenon, <2>1 DEF NobodyExecutes
  <2>3. QED
    BY Zenon, <1>6, <2>1, <2>2
<1>8. ASSUME NEW r \in net', r.op = "execute"
      PROVE  provider'[r.action][r.pin] = "new"
  <2>1. r.action \in Action /\ r.pin \in Pins
    BY DEF TypeOK
  <2>2. r.pin = pin[r.action] /\ provider[r.action][r.pin] = "new"
    BY <1>8 DEF CallsArePinned, OneExecution
  <2>3. r.action = a => s = "new"
    BY <1>8, <2>2 DEF NobodyExecutes
  <2>4. QED
    BY <1>6, <2>1, <2>2, <2>3
<1>9. QED
  BY Zenon, <1>4, <1>5, <1>7, <1>8

\* A provider never goes back, and its answers say what it did.
LEMMA HandledIs ==
  ASSUME NEW op, NEW s \in {"new", "pending", "done", "rejected"}, NEW h \in Handled(op, s)
  PROVE  /\ h[1] \in {"new", "pending", "done", "rejected"}
         /\ s # "new" \/ op # "execute" => h[1] = s
         /\ Outcome(h[2]) \in {"succeeded", "failed", "unknown"}
         /\ Outcome(h[2]) = "succeeded" => h[1] = "done"
         /\ op = "execute" /\ Outcome(h[2]) = "failed" => h[1] = "rejected"
<1>1. \/ h \in {<<"done", 200>>, <<"pending", 202>>, <<"rejected", 409>>, <<"new", 500>>,
                <<"done", 500>>}
      \/ h = <<"new", NotFound>> /\ s = "new" /\ op # "execute"
      \/ h = <<s, 401>> /\ op = "query"
  BY DEF Handled
<1>2. s # "new" \/ op # "execute" => h[1] = s
  BY DEF Handled
<1>3. NotFound # 200 /\ NotFound \in Code
  OBVIOUS
<1>4. Outcome(h[2]) = "succeeded" => h[1] = "done"
  BY <1>1, <1>3 DEF Outcome, Code
<1>5. op = "execute" /\ Outcome(h[2]) = "failed" => h[1] = "rejected"
  BY <1>1, <1>3 DEF Outcome, Code
<1>6. h[1] \in {"new", "pending", "done", "rejected"}
  BY <1>1
<1>7. Outcome(h[2]) \in {"succeeded", "failed", "unknown"}
  BY DEF Outcome
<1>8. QED
  BY Zenon, <1>2, <1>4, <1>5, <1>6, <1>7

\* Finishing an accepted action contradicts nothing: it was neither done nor rejected.
LEMMA ProviderSettlesInv ==
  ASSUME BindingInv, NEW a \in Action, NEW x \in Pins, ProviderSettles(a, x)
  PROVE  BindingInv'
<1> USE DEF BindingInv
<1>1. PICK s \in {"done", "rejected"} : provider' = [provider EXCEPT ![a][x] = s]
  BY Zenon DEF ProviderSettles
<1>2. /\ provider[a][x] = "pending"
      /\ UNCHANGED <<up, config, shown, agreed, direct, presumed, status, pin, net, pc, job,
                     answer>>
  BY Zenon DEF ProviderSettles
<1>3. x = pin[a] /\ status[a] \notin Open
  BY Zenon, <1>2 DEF CallsArePinned
<1>13. /\ provider' \in [Action -> [Pins -> {"new", "pending", "done", "rejected"}]]
       /\ provider'[a][pin[a]] = s
       /\ \A c \in Action, y \in Pins : c # a \/ y # pin[a] => provider'[c][y] = provider[c][y]
  BY <1>1, <1>3 DEF TypeOK
<1>4. /\ \A c \in Action, y \in Pins : provider'[c][y] # "new" =>
           y = pin'[c] /\ status'[c] \notin Open
      /\ \A k \in Process : pc[k] = "execute" =>
           /\ provider'[job[k].action][pin'[job[k].action]] = "new"
           /\ \A r \in net' : r.op = "execute" => r.action # job[k].action
      /\ \A r \in net' : r.op = "execute" => provider'[r.action][r.pin] = "new"
      /\ \A c \in Action : pin[c] \in Pins /\ provider[c][pin[c]] \in {"done", "rejected"} =>
           provider'[c][pin[c]] = provider[c][pin[c]]
  <2>1. ProviderStep(a, s)
    BY <1>2, <1>3, <1>13 DEF ProviderStep
  <2>2. NobodyExecutes(a, s) /\ net' \subseteq net
    BY Zenon, <1>2, <1>3 DEF NobodyExecutes
  <2>3. s \in {"new", "pending", "done", "rejected"}
    OBVIOUS
  <2>4. QED
    BY Zenon, <2>1, <2>2, <2>3, ProviderInv
<1>5. TypeOK'
  BY <1>2, <1>13 DEF TypeOK, Active
<1>6. Confirming'
  BY Zenon, <1>2, ConfirmingKept
<1>7. CallsArePinned'
  BY <1>2, <1>4 DEF CallsArePinned
<1>8. OneExecution'
  BY <1>2, <1>4 DEF OneExecution
<1>9. \A k \in Process : pc[k] \in {"record", "settle"} =>
        job[k].action \in Action /\ pin[job[k].action] \in Pins
  BY PinIsPin DEF CallsArePinned
<1>10. \A c \in Action : status[c] # "none" => pin[c] \in Pins
  BY DEF TypeOK, Confirming
<1>11. SuccessesAreReal' /\ FailuresAreReal'
  BY <1>2, <1>4, <1>9, <1>10 DEF SuccessesAreReal, FailuresAreReal, SuccessIsDone
<1>12. QED
  BY Zenon, <1>5, <1>6, <1>7, <1>8, <1>11

\* A request is handled by the provider its action is pinned to; an execution finds the
\* action new there, and nobody is about to execute it again.
LEMMA ArrivesInv ==
  ASSUME BindingInv, NEW r \in net, Arrives(r)
  PROVE  BindingInv'
<1> USE DEF BindingInv
<1> DEFINE a == r.action
           p == r.from
<1>1. PICK h \in Handled(r.op, provider[r.action][r.pin]) :
        /\ provider' = [provider EXCEPT ![r.action][r.pin] = h[1]]
        /\ IF pc[r.from] = Waiting(r.op) /\ job[r.from].action = r.action
           THEN /\ Returns(r.from, Outcome(h[2]))
                /\ presumed' = IF r.op = "query" /\ Outcome(h[2]) = "failed" /\ h[1] # "rejected"
                               THEN presumed \cup {r.action} ELSE presumed
           ELSE UNCHANGED <<pc, job, answer, presumed>>
  BY Zenon DEF Arrives
<1>2. net' = net \ {r} /\ UNCHANGED <<up, config, shown, agreed, direct, status, pin>>
  BY Zenon DEF Arrives
<1>3. /\ a \in Action /\ p \in Process /\ r.pin = pin[a] /\ pin[a] \in Pins
      /\ status[a] \notin Open /\ r.op \in {"execute", "query"}
  BY DEF TypeOK, CallsArePinned
<1>4. provider[a][pin[a]] \in {"new", "pending", "done", "rejected"}
  BY <1>3 DEF TypeOK
<1>5. /\ h[1] \in {"new", "pending", "done", "rejected"}
      /\ provider[a][pin[a]] # "new" \/ r.op # "execute" => h[1] = provider[a][pin[a]]
      /\ Outcome(h[2]) \in {"succeeded", "failed", "unknown"}
      /\ Outcome(h[2]) = "succeeded" => h[1] = "done"
      /\ r.op = "execute" /\ Outcome(h[2]) = "failed" => h[1] = "rejected"
  BY <1>1, <1>3, <1>4, HandledIs
<1>0. PICK s \in {"new", "pending", "done", "rejected"} : s = h[1]
  BY Zenon, <1>5
<1> HIDE DEF a, p
<1>6. r.op = "execute" =>
        /\ \A k \in Process : pc[k] = "execute" => job[k].action # a
        /\ \A e \in net' : e.op = "execute" => e.action # a
  BY <1>2 DEF OneExecution, a
<1>7. /\ provider' \in [Action -> [Pins -> {"new", "pending", "done", "rejected"}]]
      /\ provider'[a][pin[a]] = s
      /\ \A c \in Action, x \in Pins : c # a \/ x # pin[a] => provider'[c][x] = provider[c][x]
  <2>1. provider' = [provider EXCEPT ![a][pin[a]] = s]
    BY Zenon, <1>1, <1>3, <1>0 DEF a
  <2>2. QED
    BY <1>3, <2>1 DEF TypeOK
<1>8. /\ \A c \in Action, y \in Pins : provider'[c][y] # "new" =>
           y = pin'[c] /\ status'[c] \notin Open
      /\ \A k \in Process : pc[k] = "execute" =>
           /\ provider'[job[k].action][pin'[job[k].action]] = "new"
           /\ \A e \in net' : e.op = "execute" => e.action # job[k].action
      /\ \A e \in net' : e.op = "execute" => provider'[e.action][e.pin] = "new"
      /\ \A c \in Action : pin[c] \in Pins /\ provider[c][pin[c]] \in {"done", "rejected"} =>
           provider'[c][pin[c]] = provider[c][pin[c]]
  <2>3. provider[a][pin[a]] # s => provider[a][pin[a]] \in {"new", "pending"}
    BY Zenon, <1>4, <1>5, <1>0
  <2>4. NobodyExecutes(a, s)
    BY Zenon, <1>5, <1>6, <1>0 DEF NobodyExecutes
  <2>5. net' \subseteq net /\ UNCHANGED <<status, pin>>
    BY Zenon, <1>2
  <2>6. ProviderStep(a, s)
    BY Zenon, <1>3, <1>7, <2>3, <2>5 DEF ProviderStep
  <2>7. QED
    BY Zenon, <1>3, <2>4, <2>5, <2>6, ProviderInv
<1>9. /\ pc' \in [Process -> Location] /\ job' = job
      /\ answer' \in [Process -> {"succeeded", "failed", "unknown", None}]
      /\ \A k \in Process \ {p} : pc'[k] = pc[k] /\ answer'[k] = answer[k]
      /\ \/ pc'[p] = pc[p] /\ answer'[p] = answer[p]
         \/ /\ pc[p] \in {"executing", "querying"} /\ pc'[p] \in {"record", "settle"}
            /\ job[p].action = a /\ answer'[p] = Outcome(h[2])
            /\ Outcome(h[2]) = "failed" /\ a \notin presumed' => h[1] = "rejected"
      /\ presumed \subseteq presumed' /\ presumed' \subseteq Action
  <2>1. CASE UNCHANGED <<pc, job, answer, presumed>>
    BY Zenon, <2>1 DEF Location, TypeOK
  <2>2. CASE /\ pc[p] = Waiting(r.op) /\ job[p].action = a /\ Returns(p, Outcome(h[2]))
             /\ presumed' = IF r.op = "query" /\ Outcome(h[2]) = "failed" /\ h[1] # "rejected"
                            THEN presumed \cup {a} ELSE presumed
    <3> DEFINE l == IF pc[p] \in {"execute", "executing"} THEN "record" ELSE "settle"
               o == Outcome(h[2])
    <3>1. l \in {"record", "settle"} /\ pc[p] \in {"executing", "querying"}
      BY Zenon, <2>2 DEF Waiting
    <3>2. /\ pc' = [pc EXCEPT ![p] = l] /\ job' = [job EXCEPT ![p] = job[p]]
          /\ answer' = [answer EXCEPT ![p] = o]
      BY Zenon, <2>2 DEF Returns, Goto
    <3>3. o \in {"succeeded", "failed", "unknown"}
      BY Zenon, <1>5
    <3>4. o = "failed" /\ a \notin presumed' => h[1] = "rejected"
      BY <1>3, <1>5, <2>2
    <3>5. presumed \subseteq presumed' /\ presumed' \subseteq Action
      BY <1>3, <2>2 DEF TypeOK
    <3> HIDE DEF l, o
    <3>6. /\ pc' \in [Process -> Location] /\ job' = job
          /\ answer' \in [Process -> {"succeeded", "failed", "unknown", None}]
          /\ \A k \in Process \ {p} : pc'[k] = pc[k] /\ answer'[k] = answer[k]
          /\ pc'[p] = l /\ answer'[p] = o
      BY <1>3, <3>1, <3>2, <3>3 DEF Location, TypeOK
    <3>7. QED
      BY Zenon, <2>2, <3>1, <3>4, <3>5, <3>6 DEF o
  <2>3. QED
    BY Zenon, <1>1, <2>1, <2>2 DEF a, p
<1>10. TypeOK'
  <2>1. \A k \in Process : k \notin up => pc'[k] = "idle"
    BY <1>9 DEF TypeOK
  <2>2. \A k \in Process : Active(k)' = Active(k)
    BY Zenon, <1>2 DEF Active
  <2>3. \A k \in Process : \A b, d \in Active(k)' : b = d
    BY <2>2 DEF TypeOK
  <2>4. /\ up' \subseteq Process /\ config' \in [Process -> SUBSET Binding]
        /\ shown' \in [Proposal -> Pins \cup {None}]
        /\ agreed' \subseteq Proposal /\ direct' \subseteq Action /\ up' = up
        /\ status' \in [Action -> {"none", "authorized", "dispatched", "succeeded", "failed",
                                   "unknown", "reconciled"}]
        /\ pin' \in [Action -> Pins \cup {None}]
        /\ net' \subseteq [from : Process, op : {"execute", "query"}, action : Action, pin : Pins]
    BY <1>2 DEF TypeOK
  <2>5. job' \in [Process -> [action : Action \cup {None}, binding : Binding \cup {None}]]
    BY Zenon, <1>9 DEF TypeOK
  <2>6. QED
    BY Zenon, <1>7, <1>9, <2>1, <2>3, <2>4, <2>5 DEF TypeOK, Location
<1>11. Confirming'
  <2>1. \A k \in Process : pc'[k] \in {"authorize", "submit", "dispatch"} => pc'[k] = pc[k] /\ job'[k] = job[k]
    BY <1>9
  <2>2. QED
    BY Zenon, <1>2, <2>1, ConfirmingKept
<1>12. CallsArePinned'
  <2>1. \A k \in Process : pc'[k] \in Calling => pc[k] \in Calling
    BY <1>9
  <2>2. QED
    BY <1>2, <1>8, <1>9, <2>1 DEF CallsArePinned
<1>13. OneExecution'
  <2>1. \A k \in Process : pc'[k] = "execute" => pc[k] = "execute"
    BY <1>9
  <2>2. QED
    BY <1>2, <1>8, <1>9, <2>1 DEF OneExecution
<1>14. \A k \in Process : pc[k] \in {"record", "settle"} =>
         job[k].action \in Action /\ pin[job[k].action] \in Pins
  BY PinIsPin DEF CallsArePinned
<1>15. \A c \in Action : status[c] # "none" => pin[c] \in Pins
  BY DEF TypeOK, Confirming
<1>16. SuccessesAreReal'
  <2>1. ASSUME NEW k \in Process, pc'[k] \in {"record", "settle"}, answer'[k] = "succeeded"
        PROVE  provider'[job'[k].action][pin'[job'[k].action]] = "done"
    <3>1. CASE pc'[k] = pc[k] /\ answer'[k] = answer[k]
      <4> DEFINE b == job[k].action
      <4>1. job'[k].action = b
        BY Zenon, <1>9
      <4>2. b \in Action /\ pin[b] \in Pins /\ pin'[b] = pin[b]
        BY Zenon, <1>2, <1>14, <2>1, <3>1
      <4>3. provider[b][pin[b]] = "done"
        BY <2>1, <3>1 DEF SuccessesAreReal
      <4> HIDE DEF b
      <4>4. QED
        BY <1>8, <4>1, <4>2, <4>3
    <3>2. CASE k = p /\ job[p].action = a /\ answer'[p] = Outcome(h[2])
      BY Zenon, <1>0, <1>2, <1>5, <1>7, <1>9, <2>1, <3>2
    <3>3. QED
      BY <1>9, <3>1, <3>2
  <2>2. SuccessIsDone'
    BY <1>2, <1>8, <1>15 DEF SuccessesAreReal, SuccessIsDone
  <2>3. \A k \in Process : pc'[k] \in {"record", "settle"} => answer'[k] # "reconciled"
    BY <1>5, <1>9 DEF SuccessesAreReal
  <2>4. QED
    BY Zenon, <2>1, <2>2, <2>3 DEF SuccessesAreReal
<1>17. FailuresAreReal'
  <2>1. ASSUME NEW k \in Process, pc'[k] \in {"record", "settle"}, answer'[k] = "failed",
               job'[k].action \notin presumed'
        PROVE  provider'[job'[k].action][pin'[job'[k].action]] = "rejected"
    <3>1. CASE pc'[k] = pc[k] /\ answer'[k] = answer[k]
      <4> DEFINE b == job[k].action
      <4>1. job'[k].action = b
        BY Zenon, <1>9
      <4>2. b \in Action /\ pin[b] \in Pins /\ pin'[b] = pin[b]
        BY <1>2, <1>14, <2>1, <3>1
      <4>3. b \notin presumed
        BY <1>9, <2>1, <4>1
      <4>4. provider[b][pin[b]] = "rejected"
        BY <2>1, <3>1, <4>3 DEF FailuresAreReal
      <4> HIDE DEF b
      <4>5. QED
        BY <1>8, <4>1, <4>2, <4>4
    <3>2. CASE /\ k = p /\ job[p].action = a /\ answer'[p] = Outcome(h[2])
               /\ Outcome(h[2]) = "failed" /\ a \notin presumed' => h[1] = "rejected"
      BY Zenon, <1>0, <1>2, <1>7, <1>9, <2>1, <3>2
    <3>3. QED
      BY <1>9, <3>1, <3>2
  <2>2. \A c \in Action : status'[c] = "failed" /\ c \notin presumed' =>
          provider'[c][pin'[c]] = "rejected"
    <3>1. \A c \in Action : status[c] = "failed" /\ c \notin presumed' =>
            pin[c] \in Pins /\ provider[c][pin[c]] = "rejected"
      BY <1>9, <1>15 DEF FailuresAreReal
    <3>2. QED
      BY <1>2, <1>8, <3>1
  <2>3. QED
    BY Zenon, <2>1, <2>2 DEF FailuresAreReal
<1>18. QED
  BY Zenon, <1>10, <1>11, <1>12, <1>13, <1>16, <1>17

-------------------------------------------------------------------------------
(* The outcome is recorded, and the invariant as a whole. *)

\* What is recorded is what the provider did, or unknown.
LEMMA RecordInv ==
  ASSUME BindingInv, NEW p \in Process, Record(p)
  PROVE  BindingInv'
<1> USE DEF BindingInv
<1> DEFINE a == job[p].action
           s == IF pc[p] = "settle" /\ answer[p] = "succeeded" THEN "reconciled" ELSE answer[p]
           t == IF <<status[a], s>> \in Allowed THEN s ELSE status[a]
<1>1. /\ pc[p] \in {"record", "settle"}
      /\ status' = [status EXCEPT ![a] = IF <<@, s>> \in Allowed THEN s ELSE @]
      /\ pc' = [pc EXCEPT ![p] = "idle"] /\ job' = [job EXCEPT ![p] = NoJob]
      /\ answer' = [answer EXCEPT ![p] = None]
      /\ UNCHANGED <<up, config, shown, agreed, direct, presumed, pin, provider, net>>
  BY Zenon DEF Record, Goto
<1>2. /\ a \in Action /\ status[a] \notin Open
      /\ pin[a] \in Pins
  BY <1>1, PinIsPin DEF CallsArePinned
<1>3. status' = [status EXCEPT ![a] = t]
  BY Zenon, <1>1
<1>4. \/ t = status[a]
      \/ t = "unknown"
      \/ t = "failed" /\ answer[p] = "failed"
      \/ t \in {"succeeded", "reconciled"} /\ answer[p] = "succeeded"
  <2>1. CASE <<status[a], s>> \notin Allowed
    BY Zenon, <2>1
  <2>2. CASE <<status[a], s>> \in Allowed
    <3>1. s \in {"succeeded", "failed", "unknown", "reconciled"} /\ t = s
      BY Zenon, <2>2 DEF Allowed
    <3>2. s = "reconciled" => answer[p] \in {"succeeded", "reconciled"}
      OBVIOUS
    <3>3. s = "succeeded" \/ s = "failed" => answer[p] = s
      OBVIOUS
    <3>4. s = "reconciled" => answer[p] = "succeeded"
      BY Zenon, <1>1, <3>2 DEF SuccessesAreReal
    <3>5. QED
      BY Zenon, <3>1, <3>3, <3>4
  <2>3. QED
    BY Zenon, <2>1, <2>2
<1> HIDE DEF a, s, t
<1>5. NoJob \in [action : Action \cup {None}, binding : Binding \cup {None}]
  BY Zenon DEF NoJob
<1>6. /\ pc' \in [Process -> Location] /\ pc'[p] = "idle"
      /\ job' \in [Process -> [action : Action \cup {None}, binding : Binding \cup {None}]]
      /\ answer' \in [Process -> {"succeeded", "failed", "unknown", None}]
      /\ \A k \in Process \ {p} : pc'[k] = pc[k] /\ job'[k] = job[k] /\ answer'[k] = answer[k]
  BY <1>1, <1>5 DEF Location, TypeOK
<1>7. /\ status' \in [Action -> {"none", "authorized", "dispatched", "succeeded", "failed",
                                 "unknown", "reconciled"}]
      /\ status'[a] = t /\ \A c \in Action \ {a} : status'[c] = status[c]
  BY <1>2, <1>3, <1>4 DEF TypeOK
<1>8. \A c \in Action : /\ status'[c] \in Open <=> status[c] \in Open
                        /\ status'[c] = "none" <=> status[c] = "none"
  BY <1>2, <1>4, <1>7
<1>9. \A k \in Process : pc'[k] # "idle" =>
        k # p /\ pc'[k] = pc[k] /\ job'[k] = job[k] /\ answer'[k] = answer[k]
  BY Zenon, <1>6
<1>10. TypeOK'
  BY <1>1, <1>6, <1>7 DEF TypeOK, Active
<1>11. Confirming'
  <2>1. \A k \in Process : pc'[k] \in {"authorize", "submit", "dispatch"} => pc'[k] = pc[k] /\ job'[k] = job[k]
    BY Zenon, <1>6
  <2>2. QED
    BY Zenon, <1>1, <1>8, <2>1, ConfirmingKept
<1>12. CallsArePinned'
  <2>1. \A k \in Process : pc'[k] \in Calling =>
          /\ job'[k].action \in Action /\ job'[k].binding \in Binding
          /\ Pin(job'[k].binding) = pin'[job'[k].action]
          /\ status'[job'[k].action] \notin Open
    BY <1>1, <1>8, <1>9 DEF CallsArePinned
  <2>2. \A r \in net' : r.pin = pin'[r.action] /\ status'[r.action] \notin Open
    <3>1. UNCHANGED <<pin, net>>
      BY Zenon, <1>1
    <3>2. QED
      BY <1>8, <3>1 DEF TypeOK, CallsArePinned
  <2>3. QED
    BY <1>1, <1>8, <2>1, <2>2 DEF CallsArePinned
<1>13. OneExecution'
  <2>1. \A k \in Process : pc'[k] = "execute" =>
          pc[k] = "execute" /\ job'[k] = job[k] /\ pin'[job[k].action] = pin[job[k].action]
    BY <1>1, <1>9
  <2>2. net' \subseteq net /\ provider' = provider
    BY Zenon, <1>1
  <2>3. QED
    BY Zenon, <2>1, <2>2, OneExecutionKept
<1>14. SuccessesAreReal'
  <2>1. t \in {"succeeded", "reconciled"} => provider[a][pin[a]] = "done"
    BY <1>1, <1>2, <1>4 DEF SuccessesAreReal, SuccessIsDone, a
  <2>2. SuccessIsDone'
    BY Zenon, <1>1, <1>7, <2>1 DEF SuccessesAreReal, SuccessIsDone
  <2>3. QED
    BY <1>1, <1>9, <2>2 DEF SuccessesAreReal
<1>15. FailuresAreReal'
  <2>1. t = "failed" /\ a \notin presumed => provider[a][pin[a]] = "rejected"
    BY Zenon, <1>1, <1>2, <1>4 DEF FailuresAreReal, a
  <2>2. \A c \in Action : status'[c] = "failed" /\ c \notin presumed' =>
          provider'[c][pin'[c]] = "rejected"
    BY <1>1, <1>7, <2>1 DEF FailuresAreReal
  <2>3. QED
    BY <1>1, <1>9, <2>2 DEF FailuresAreReal
<1>16. QED
  BY Zenon, <1>10, <1>11, <1>12, <1>13, <1>14, <1>15

\* A process that gives up a confirmation or a query, or whose connector has no answer,
\* records nothing.
LEMMA NoAnswerInv ==
  ASSUME BindingInv, NEW p \in Process,
         SubmitRaises(p) \/ DirectReturns(p) \/ RequestRaises(p) \/ TimesOut(p)
  PROVE  BindingInv'
<1> DEFINE l == IF pc[p] \in {"execute", "executing"} THEN "record" ELSE "settle"
<1>1. NoJob \in [action : Action \cup {None}, binding : Binding \cup {None}]
  BY Zenon DEF NoJob
<1>2. /\ job[p] \in [action : Action \cup {None}, binding : Binding \cup {None}]
      /\ answer[p] \in {"succeeded", "failed", "unknown", None}
      /\ answer = [answer EXCEPT ![p] = answer[p]]
  BY DEF BindingInv, TypeOK
<1>3. CASE /\ pc[p] \in {"authorize", "submit", "dispatch", "query"}
           /\ Goto(p, "idle", NoJob) /\ answer' = answer
           /\ UNCHANGED <<up, config, shown, agreed, direct, presumed, status, pin, provider, net>>
  <2>1. answer' = [answer EXCEPT ![p] = answer[p]]
    BY Zenon, <1>2, <1>3
  <2>2. QED
    BY <1>1, <1>2, <1>3, <2>1, WithinInv, ZenonT(40) DEF Location
<1>4. CASE /\ pc[p] \in {"execute", "executing", "querying"} /\ Goto(p, l, job[p])
           /\ answer' = [answer EXCEPT ![p] = "unknown"]
           /\ UNCHANGED <<up, config, shown, agreed, direct, presumed, status, pin, provider, net>>
  <2>1. l \in {"record", "settle"}
    OBVIOUS
  <2> HIDE DEF l
  <2>2. QED
    BY <1>2, <1>4, <2>1, WithinInv, Zenon DEF Location
<1>5. SubmitRaises(p) \/ DirectReturns(p) \/ RequestRaises(p) \/ TimesOut(p) =>
        \/ /\ pc[p] \in {"authorize", "submit", "dispatch", "query"}
           /\ Goto(p, "idle", NoJob) /\ answer' = answer
           /\ UNCHANGED <<up, config, shown, agreed, direct, presumed, status, pin, provider, net>>
        \/ /\ pc[p] \in {"execute", "executing", "querying"} /\ Goto(p, l, job[p])
           /\ answer' = [answer EXCEPT ![p] = "unknown"]
           /\ UNCHANGED <<up, config, shown, agreed, direct, presumed, status, pin, provider, net>>
  BY Zenon DEF SubmitRaises, DirectReturns, RequestRaises, TimesOut, Returns
<1>6. QED
  BY Zenon, <1>3, <1>4, <1>5

\* Every step keeps the invariant.
LEMMA NextBindingInv == BindingInv /\ [Next]_vars => BindingInv'
<1> SUFFICES ASSUME BindingInv, [Next]_vars PROVE BindingInv'
  OBVIOUS
<1>1. CASE UNCHANGED vars
  <2>1. UNCHANGED <<up, config, shown, agreed, direct, presumed, status, pin, provider, net, pc,
                    job, answer>>
    BY Zenon, <1>1 DEF vars
  <2>2. TypeOK'
    BY <2>1 DEF BindingInv, TypeOK, Active
  <2>3. Confirming'
    BY <2>1 DEF BindingInv, Confirming, StampedAsShown, Active
  <2>4. CallsArePinned' /\ OneExecution'
    BY <2>1 DEF BindingInv, CallsArePinned, OneExecution
  <2>5. SuccessesAreReal' /\ FailuresAreReal'
    BY <2>1 DEF BindingInv, SuccessesAreReal, FailuresAreReal, SuccessIsDone
  <2>6. QED
    BY Zenon, <2>2, <2>3, <2>4, <2>5 DEF BindingInv
<1>2. ASSUME NEW p \in Process, ProcessStep(p) PROVE BindingInv'
  <2>1. ASSUME NEW q \in Proposal, Propose(p, q) \/ Confirm(p, q) PROVE BindingInv'
    BY Zenon, <2>1, ProposeInv, ConfirmInv
  <2>2. ASSUME DirectDispatch(p) PROVE BindingInv'
    <3>1. job[p].action \in Action /\ p \in up
      BY Zenon, <2>2 DEF DirectDispatch, BindingInv, Confirming, TypeOK
    <3>2. QED
      BY Zenon, <2>2, <3>1, ClaimInv DEF DirectDispatch
  <2>3. ASSUME NEW a \in Action, SubmitDirect(p, a) \/ WorkerDispatch(p, a) \/ Reconcile(p, a)
        PROVE  BindingInv'
    BY Zenon, <2>3, SubmitDirectInv, ClaimInv, ReconcileInv DEF WorkerDispatch, Free
  <2>4. CASE Start(p) \/ Stop(p) \/ Authorize(p) \/ Send(p) \/ Record(p)
    BY Zenon, <2>4, StartInv, StopInv, AuthorizeInv, SendInv, RecordInv
  <2>5. CASE SubmitRaises(p) \/ DirectReturns(p) \/ RequestRaises(p) \/ TimesOut(p)
    BY Zenon, <2>5, NoAnswerInv
  <2>6. QED
    BY Zenon, <1>2, <2>1, <2>2, <2>3, <2>4, <2>5 DEF ProcessStep
<1>3. ASSUME NEW r \in net, Arrives(r) \/ Lost(r) PROVE BindingInv'
  BY Zenon, <1>3, ArrivesInv, LostInv
<1>4. ASSUME NEW a \in Action, NEW x \in Pins, ProviderSettles(a, x) PROVE BindingInv'
  BY Zenon, <1>4, ProviderSettlesInv
<1>5. QED
  BY Zenon, <1>1, <1>2, <1>3, <1>4 DEF Next

\* In every reachable state the invariant holds.
THEOREM BindingIsSafe == Spec => []BindingInv
<1>1. Init => BindingInv
  BY Zenon, InitBindingInv
<1>2. BindingInv /\ [Next]_vars => BindingInv'
  BY Zenon, NextBindingInv
<1>3. QED
  BY <1>1, <1>2, PTL DEF Spec

\* Stored bindings, requests and answers have their types, and a process has at most
\* one active binding.
THEOREM BindingTypes == Spec => []TypeOK
BY BindingIsSafe, PTL DEF BindingInv

\* authorize stamps what a confirmed proposal showed, whatever was deployed between,
\* unless a typed API request inserts the action.
THEOREM StampIsShown == Spec => []StampedAsShown
<1>1. BindingInv => StampedAsShown
  BY Zenon DEF BindingInv, Confirming
<1>2. QED
  BY <1>1, BindingIsSafe, PTL

\* Dispatch and reconciliation reach the stamped provider only.
THEOREM PinIsUsed == Spec => []OneProvider
<1>1. BindingInv => OneProvider
  BY DEF BindingInv, CallsArePinned, OneProvider
<1>2. QED
  BY <1>1, BindingIsSafe, PTL

\* A recorded success is one, for every provider.
THEOREM SuccessIsReal == Spec => []SuccessIsDone
<1>1. BindingInv => SuccessIsDone
  BY Zenon DEF BindingInv, SuccessesAreReal
<1>2. QED
  BY <1>1, BindingIsSafe, PTL

\* A recorded failure is one, for every provider, unless the answer to a query presumed it.
THEOREM FailureIsReal == Spec => []FailedIsNotDone
<1>1. BindingInv => FailedIsNotDone
  BY DEF BindingInv, FailuresAreReal, FailedIsNotDone, OneExecution, CallsArePinned
<1>2. QED
  BY <1>1, BindingIsSafe, PTL

-------------------------------------------------------------------------------
(* The registry implements ActionLifecycle. *)

\* While nobody stamps an action and providers stand still, no effect appears.
LEMMA EffectKept == UNCHANGED <<pin, provider>> => Effect' = Effect
BY DEF Effect

\* What is known of an action that is not recorded as failed is its status.
LEMMA KnownIs == \A c \in Action : status[c] # "failed" => Known[c] = status[c]
BY Zenon DEF Known

\* What is known does not change unless a status is written or a failure presumed.
LEMMA KnownKept == UNCHANGED <<status, presumed>> => Known' = Known
BY Zenon DEF Known

\* What is known after a status is written.
LEMMA KnownStep ==
  ASSUME BindingInv, NEW a \in Action, NEW s, NEW t, presumed' = presumed,
         status' = [status EXCEPT ![a] = s],
         s # "failed" \/ a \notin presumed => t = s,
         s = "failed" /\ a \in presumed => t = "unknown"
  PROVE  Known' = [Known EXCEPT ![a] = t]
<1>1. status'[a] = s /\ \A c \in Action \ {a} : status'[c] = status[c]
  BY DEF BindingInv, TypeOK
<1>2. Known'[a] = t
  BY Zenon, <1>1 DEF Known
<1>3. \A c \in Action \ {a} : Known'[c] = Known[c]
  BY Zenon, <1>1 DEF Known
<1>4. /\ Known = [c \in Action |-> Known[c]]
      /\ Known' = [c \in Action |-> Known'[c]]
  BY DEF Known
<1> DEFINE k == Known
           l == Known'
<1>5. /\ k = [c \in Action |-> k[c]] /\ l = [c \in Action |-> l[c]]
      /\ l[a] = t /\ \A c \in Action \ {a} : l[c] = k[c]
  BY Zenon, <1>2, <1>3, <1>4
<1> HIDE DEF k, l
<1>6. l = [k EXCEPT ![a] = t]
  BY <1>5
<1>7. QED
  BY Zenon, <1>6 DEF k, l

\* A step of the pinned provider is a commit of the lifecycle, or nothing to it.
LEMMA ProviderRefines ==
  ASSUME BindingInv, NEW a \in Action, NEW s \in {"new", "pending", "done", "rejected"},
         ProviderStep(a, s), Known' = Known
  PROVE  Lifecycle!Next \/ UNCHANGED Lifecycle!vars
<1> USE DEF BindingInv, ProviderStep
<1>1. \A c \in Action \ {a} : pin[c] # None => provider'[c][pin[c]] = provider[c][pin[c]]
  <2>1. \A c \in Action : pin[c] # None => pin[c] \in Pins
    BY DEF TypeOK
  <2>2. QED
    BY <2>1
<1>2. CASE s = "done" /\ provider[a][pin[a]] # "done"
  <2>1. Known[a] \in {"dispatched", "unknown"}
    <3>1. \/ status[a] \in {"dispatched", "unknown"}
          \/ status[a] = "failed" /\ a \in presumed
      BY <1>2 DEF TypeOK, SuccessesAreReal, SuccessIsDone, FailuresAreReal
    <3>2. QED
      BY Zenon, <3>1 DEF Known
  <2>2. Effect[a] = FALSE
    BY <1>2, Zenon DEF Effect
  <2>3. Effect' = [Effect EXCEPT ![a] = TRUE]
    <3>1. pin' = pin /\ pin[a] # None /\ provider'[a][pin[a]] = "done"
      BY <1>2
    <3>2. \A c \in Action \ {a} : (pin'[c] # None /\ provider'[c][pin'[c]] = "done")
                                    = (pin[c] # None /\ provider[c][pin[c]] = "done")
      BY <1>1, <3>1
    <3>3. Effect \in [Action -> BOOLEAN] /\ Effect' \in [Action -> BOOLEAN]
      BY DEF Effect
    <3>4. Effect'[a] = TRUE
      BY Zenon, <3>1 DEF Effect
    <3>5. \A c \in Action \ {a} : Effect'[c] = Effect[c]
      BY Zenon, <3>2 DEF Effect
    <3>6. QED
      BY <3>3, <3>4, <3>5
  <2>4. Lifecycle!Commit(a)
    BY Zenon, <2>1, <2>2, <2>3 DEF Lifecycle!Commit
  <2>5. QED
    BY Zenon, <2>4 DEF Lifecycle!Next
<1>3. CASE s # "done" \/ provider[a][pin[a]] = "done"
  <2>1. \A c \in Action : (pin'[c] # None /\ provider'[c][pin'[c]] = "done")
                            = (pin[c] # None /\ provider[c][pin[c]] = "done")
    BY <1>1, <1>3
  <2>2. Effect' = Effect
    BY Zenon, <2>1 DEF Effect
  <2>3. QED
    BY Zenon, <2>2 DEF Lifecycle!vars
<1>4. QED
  BY Zenon, <1>2, <1>3

\* So is the arrival of a request.
LEMMA ArrivesRefines ==
  ASSUME BindingInv, NEW r \in net, Arrives(r)
  PROVE  Lifecycle!Next \/ UNCHANGED Lifecycle!vars
<1> USE DEF BindingInv
<1>1. PICK h \in Handled(r.op, provider[r.action][r.pin]) :
        /\ provider' = [provider EXCEPT ![r.action][r.pin] = h[1]]
        /\ \/ presumed' = presumed
           \/ /\ presumed' = presumed \cup {r.action}
              /\ r.op = "query" /\ h[1] # "rejected"
  BY Zenon DEF Arrives
<1>2. /\ r.action \in Action /\ r.pin = pin[r.action] /\ pin[r.action] \in Pins
      /\ status[r.action] \notin Open /\ UNCHANGED <<status, pin>>
  BY DEF Arrives, TypeOK, CallsArePinned
<1>3. PICK a \in Action : a = r.action
  BY <1>2
<1>4. provider[a][pin[a]] \in {"new", "pending", "done", "rejected"}
  BY <1>2, <1>3 DEF TypeOK
<1>5. /\ h[1] \in {"new", "pending", "done", "rejected"}
      /\ provider[a][pin[a]] # "new" \/ r.op # "execute" => h[1] = provider[a][pin[a]]
  BY <1>1, <1>2, <1>3, <1>4, HandledIs
<1>6. PICK s \in {"new", "pending", "done", "rejected"} : s = h[1]
  BY Zenon, <1>5
<1>7. provider' = [provider EXCEPT ![a][pin[a]] = s]
  BY Zenon, <1>1, <1>2, <1>3, <1>6
<1>8. /\ provider'[a][pin[a]] = s
      /\ \A c \in Action, x \in Pins : c # a \/ x # pin[a] => provider'[c][x] = provider[c][x]
  BY <1>2, <1>3, <1>7 DEF TypeOK
<1>9. provider[a][pin[a]] # s => provider[a][pin[a]] \in {"new", "pending"}
  BY Zenon, <1>4, <1>5, <1>6
<1>10. ProviderStep(a, s)
  BY Zenon, <1>2, <1>3, <1>8, <1>9 DEF ProviderStep
<1>11. Known' = Known
  <2>1. CASE presumed' = presumed
    BY Zenon, <1>2, <2>1, KnownKept
  <2>2. CASE /\ presumed' = presumed \cup {a}
             /\ r.op = "query" /\ h[1] # "rejected"
    <3>1. ~ (status[a] = "failed" /\ a \notin presumed)
      BY <1>5, <2>2 DEF FailuresAreReal
    <3>2. \A c \in Action : (status'[c] = "failed" /\ c \in presumed')
                              = (status[c] = "failed" /\ c \in presumed)
      BY <1>2, <2>2, <3>1
    <3>3. QED
      BY Zenon, <1>2, <3>2 DEF Known
  <2>3. QED
    BY Zenon, <1>1, <1>3, <2>1, <2>2
<1>12. QED
  BY Zenon, <1>10, <1>11, ProviderRefines

\* And the end of an accepted action.
LEMMA SettlesRefines ==
  ASSUME BindingInv, NEW a \in Action, NEW x \in Pins, ProviderSettles(a, x)
  PROVE  Lifecycle!Next \/ UNCHANGED Lifecycle!vars
<1> USE DEF BindingInv
<1>1. PICK s \in {"done", "rejected"} : provider' = [provider EXCEPT ![a][x] = s]
  BY Zenon DEF ProviderSettles
<1>2. provider[a][x] = "pending" /\ UNCHANGED <<status, pin, presumed>>
  BY Zenon DEF ProviderSettles
<1>3. x = pin[a] /\ status[a] \notin Open
  BY Zenon, <1>2 DEF CallsArePinned
<1>4. /\ provider'[a][pin[a]] = s
      /\ \A c \in Action, y \in Pins : c # a \/ y # pin[a] => provider'[c][y] = provider[c][y]
  BY <1>1, <1>3 DEF TypeOK
<1>5. ProviderStep(a, s) /\ s \in {"new", "pending", "done", "rejected"}
  BY <1>2, <1>3, <1>4 DEF ProviderStep
<1>6. QED
  BY Zenon, <1>2, <1>5, KnownKept, ProviderRefines

\* A new stamp makes no effect: no provider has seen an action nobody has called for.
LEMMA AuthorizeRefines ==
  ASSUME BindingInv, NEW p \in Process, Authorize(p)
  PROVE  Lifecycle!Next \/ UNCHANGED Lifecycle!vars
<1> USE DEF BindingInv
<1>1. PICK a \in Action : a = job[p].action
  BY Zenon DEF Authorize, Confirming
<1>2. UNCHANGED <<provider, presumed>>
  BY Zenon DEF Authorize
<1>3. CASE status[a] # "none"
  <2>1. UNCHANGED <<status, pin>>
    BY Zenon, <1>1, <1>3 DEF Authorize
  <2>2. QED
    BY Zenon, <1>2, <2>1, EffectKept, KnownKept DEF Lifecycle!vars
<1>4. CASE status[a] = "none"
  <2>1. PICK b \in Active(p) : pin' = [pin EXCEPT ![a] = Pin(b)]
    BY Zenon, <1>1, <1>4 DEF Authorize
  <2>2. status' = [status EXCEPT ![a] = "authorized"]
    BY Zenon, <1>1, <1>4 DEF Authorize
  <2>3. Pin(b) \in Pins
    BY PinIsPin DEF TypeOK, Active
  <2>4. pin[a] = None /\ provider[a][Pin(b)] = "new"
    BY <1>4, <2>3 DEF Confirming, CallsArePinned
  <2>5. pin'[a] = Pin(b) /\ \A c \in Action \ {a} : pin'[c] = pin[c]
    BY <2>1 DEF TypeOK
  <2>6. \A c \in Action : (pin'[c] # None /\ provider'[c][pin'[c]] = "done")
                            = (pin[c] # None /\ provider[c][pin[c]] = "done")
    BY <1>2, <2>4, <2>5
  <2>7. Effect' = Effect
    BY Zenon, <2>6 DEF Effect
  <2>8. Known[a] = "none" /\ Known' = [Known EXCEPT ![a] = "authorized"]
    <3>1. Known[a] = "none"
      BY Zenon, <1>4, KnownIs
    <3>2. presumed' = presumed
      BY Zenon, <1>2
    <3>3. QED
      BY Zenon, <2>2, <3>1, <3>2, KnownStep
  <2>9. Lifecycle!Authorize(a)
    BY Zenon, <2>7, <2>8 DEF Lifecycle!Authorize
  <2>10. QED
    BY Zenon, <2>9 DEF Lifecycle!Next
<1>5. QED
  BY Zenon, <1>3, <1>4

\* Claims and reports are those of the lifecycle.
LEMMA ReportRefines ==
  ASSUME BindingInv, NEW p \in Process, Record(p)
  PROVE  Lifecycle!Next \/ UNCHANGED Lifecycle!vars
<1> USE DEF BindingInv
<1> DEFINE s == IF pc[p] = "settle" /\ answer[p] = "succeeded" THEN "reconciled" ELSE answer[p]
<1>1. pc[p] \in {"record", "settle"} /\ UNCHANGED <<pin, provider, presumed>>
  BY Zenon DEF Record
<1>2. PICK a \in Action : a = job[p].action
  BY <1>1 DEF CallsArePinned
<1>3. status' = [status EXCEPT ![a] = IF <<@, s>> \in Allowed THEN s ELSE @]
  BY Zenon, <1>2 DEF Record
<1>4. Effect' = Effect
  BY Zenon, <1>1, EffectKept
<1>5. CASE <<status[a], s>> \notin Allowed
  <2>1. status' = status
    BY <1>3, <1>5 DEF TypeOK
  <2>2. QED
    BY Zenon, <1>1, <1>4, <2>1, KnownKept DEF Lifecycle!vars
<1>6. CASE <<status[a], s>> \in Allowed
  <2>1. /\ \/ status[a] = "dispatched" /\ s \in {"succeeded", "failed", "unknown"}
           \/ status[a] = "unknown" /\ s \in {"unknown", "failed", "reconciled"}
        /\ s \in Lifecycle!Status
    BY Zenon, <1>6 DEF Allowed, Lifecycle!Status
  <2>2. status' = [status EXCEPT ![a] = s]
    BY Zenon, <1>3, <1>6
  <2>3. s \in {"succeeded", "reconciled"} => answer[p] = "succeeded"
    BY Zenon, <1>1 DEF SuccessesAreReal
  <2>4. s = "failed" => answer[p] = "failed"
    OBVIOUS
  <2> HIDE DEF s
  <2>5. pin[a] # None
    BY Zenon, <2>1 DEF Confirming
  <2>6. s \in {"succeeded", "reconciled"} => Effect[a]
    <3>1. s \in {"succeeded", "reconciled"} => provider[a][pin[a]] = "done"
      BY Zenon, <1>1, <1>2, <2>3 DEF SuccessesAreReal
    <3>2. QED
      BY <2>5, <3>1, Zenon DEF Effect
  <2>7. s = "failed" /\ a \notin presumed => ~ Effect[a]
    <3>1. s = "failed" /\ a \notin presumed => provider[a][pin[a]] = "rejected"
      BY Zenon, <1>1, <1>2, <2>4 DEF FailuresAreReal
    <3>2. QED
      BY <3>1, Zenon DEF Effect
  <2>8. PICK t : t = IF s = "failed" /\ a \in presumed THEN "unknown" ELSE s
    OBVIOUS
  <2>9. Known[a] = status[a] /\ Known' = [Known EXCEPT ![a] = t]
    <3>1. Known[a] = status[a]
      BY Zenon, <2>1, KnownIs
    <3>2. presumed' = presumed
      BY Zenon, <1>1
    <3>3. /\ s # "failed" \/ a \notin presumed => t = s
          /\ s = "failed" /\ a \in presumed => t = "unknown"
      BY Zenon, <2>8
    <3>4. Known' = [Known EXCEPT ![a] = t]
      BY Zenon, <2>2, <3>2, <3>3, KnownStep
    <3>5. QED
      BY Zenon, <3>1, <3>4
  <2>10. /\ \/ Known[a] = "dispatched" /\ t \in {"succeeded", "failed", "unknown"}
            \/ Known[a] = "unknown" /\ t \in {"unknown", "failed", "reconciled"}
         /\ t \in Lifecycle!Status
         /\ t \in {"succeeded", "reconciled"} => Effect[a]
         /\ t = "failed" => ~ Effect[a]
    <3>1. CASE t = s /\ (s = "failed" => a \notin presumed)
      BY Zenon, <2>1, <2>6, <2>7, <2>9, <3>1
    <3>2. CASE t = "unknown"
      BY Zenon, <2>1, <2>9, <3>2 DEF Lifecycle!Status
    <3>3. QED
      BY Zenon, <2>8, <3>1, <3>2
  <2>11. Lifecycle!Report(a, t)
    BY Zenon, <1>4, <2>9, <2>10 DEF Lifecycle!Report
  <2>12. QED
    BY Zenon, <2>10, <2>11 DEF Lifecycle!Next
<1>7. QED
  BY Zenon, <1>5, <1>6

\* Every step is one of the lifecycle or leaves it alone.
LEMMA BindingStepRefines ==
  ASSUME BindingInv, [Next]_vars
  PROVE  [Lifecycle!Next]_(Lifecycle!vars)
<1>1. ASSUME UNCHANGED <<presumed, status, pin, provider>> PROVE UNCHANGED Lifecycle!vars
  BY Zenon, <1>1, EffectKept, KnownKept DEF Lifecycle!vars
<1>2. ASSUME NEW p \in Process, NEW a \in Action, Claim(p, a)
      PROVE  [Lifecycle!Next]_(Lifecycle!vars)
  <2>1. Effect' = Effect
    BY Zenon, <1>2, EffectKept DEF Claim
  <2>2. Known[a] = "authorized" /\ Known' = [Known EXCEPT ![a] = "dispatched"]
    <3>1. /\ status[a] = "authorized" /\ presumed' = presumed
          /\ status' = [status EXCEPT ![a] = "dispatched"]
      BY Zenon, <1>2 DEF Claim
    <3>2. Known[a] = "authorized"
      BY Zenon, <3>1, KnownIs
    <3>3. QED
      BY Zenon, <3>1, <3>2, KnownStep
  <2>3. Lifecycle!Claim(a)
    BY Zenon, <2>1, <2>2 DEF Lifecycle!Claim
  <2>4. QED
    BY Zenon, <2>3 DEF Lifecycle!Next
<1>3. ASSUME NEW p \in Process, NEW a \in Action, Reconcile(p, a)
      PROVE  [Lifecycle!Next]_(Lifecycle!vars)
  <2>1. Effect' = Effect
    BY Zenon, <1>3, EffectKept DEF Reconcile
  <2>2. Known[a] \in {"dispatched", "unknown"} /\ Known' = [Known EXCEPT ![a] = "unknown"]
    BY Zenon, <1>3, KnownIs, KnownStep DEF Reconcile
  <2>3. Lifecycle!Report(a, "unknown")
    BY Zenon, <2>1, <2>2 DEF Lifecycle!Report
  <2>4. "unknown" \in Lifecycle!Status
    BY Zenon DEF Lifecycle!Status
  <2>5. QED
    BY Zenon, <2>3, <2>4 DEF Lifecycle!Next
<1>4. ASSUME NEW p \in Process, ProcessStep(p) PROVE [Lifecycle!Next]_(Lifecycle!vars)
  <2>1. ASSUME DirectDispatch(p) PROVE job[p].action \in Action
    BY Zenon, <2>1 DEF DirectDispatch, BindingInv, Confirming
  <2>2. CASE \/ Start(p) \/ Stop(p) \/ SubmitRaises(p) \/ DirectReturns(p) \/ Send(p)
             \/ RequestRaises(p) \/ TimesOut(p)
    BY Zenon, <1>1, <2>2
       DEF Start, Stop, SubmitRaises, DirectReturns, Send, RequestRaises, TimesOut
  <2>3. ASSUME NEW q \in Proposal, Propose(p, q) \/ Confirm(p, q)
        PROVE  [Lifecycle!Next]_(Lifecycle!vars)
    BY Zenon, <1>1, <2>3 DEF Propose, Confirm
  <2>4. CASE Authorize(p) \/ Record(p)
    BY Zenon, <2>4, AuthorizeRefines, ReportRefines
  <2>5. CASE DirectDispatch(p)
    BY Zenon, <1>2, <2>1, <2>5 DEF DirectDispatch
  <2>6. ASSUME NEW a \in Action, SubmitDirect(p, a) \/ WorkerDispatch(p, a) \/ Reconcile(p, a)
        PROVE  [Lifecycle!Next]_(Lifecycle!vars)
    BY Zenon, <1>1, <1>2, <1>3, <2>6 DEF SubmitDirect, WorkerDispatch
  <2>7. QED
    BY Zenon, <1>4, <2>2, <2>3, <2>4, <2>5, <2>6 DEF ProcessStep
<1>5. ASSUME NEW r \in net, Arrives(r) \/ Lost(r) PROVE [Lifecycle!Next]_(Lifecycle!vars)
  BY Zenon, <1>1, <1>5, ArrivesRefines DEF Lost
<1>6. ASSUME NEW a \in Action, NEW x \in Pins, ProviderSettles(a, x)
      PROVE  [Lifecycle!Next]_(Lifecycle!vars)
  BY Zenon, <1>6, SettlesRefines
<1>7. CASE UNCHANGED vars
  BY Zenon, <1>1, <1>7 DEF vars
<1>8. QED
  BY Zenon, <1>4, <1>5, <1>6, <1>7 DEF Next

\* Whatever is deployed and whatever a provider answers, the registry, its connectors and
\* the provider implement the lifecycle that the durable action core promises, where a
\* presumed failure counts as unknown.
THEOREM BindingRefinesLifecycle == Spec => ImplementsLifecycle
<1>1. Init => Lifecycle!Init
  <2> SUFFICES ASSUME Init PROVE Lifecycle!Init
    OBVIOUS
  <2>1. \A a \in Action : pin[a] = None
    BY Zenon DEF Init
  <2>2. Effect = [a \in Action |-> FALSE]
    BY <2>1, Zenon DEF Effect
  <2>3. Known = [a \in Action |-> "none"]
    <3>1. \A a \in Action : status[a] = "none"
      BY Zenon DEF Init
    <3>2. QED
      BY Zenon, <3>1 DEF Known
  <2>4. QED
    BY Zenon, <2>2, <2>3 DEF Lifecycle!Init
<1>2. BindingInv /\ [Next]_vars => [Lifecycle!Next]_(Lifecycle!vars)
  BY Zenon, BindingStepRefines
<1>3. QED
  BY <1>1, <1>2, BindingIsSafe, PTL DEF Spec, ImplementsLifecycle, Lifecycle!Spec

\* Across deployments too, a terminal status and the effect it reports are the last word,
\* unless the status is a presumed failure.
THEOREM BoundIsFinal == Spec => Lifecycle!OutcomeIsFinal
<1> DEFINE Final == \A a \in Action :
                    /\ Known[a] \in {"succeeded", "failed", "reconciled"} =>
                         Known'[a] = Known[a] /\ Effect'[a] = Effect[a]
                    /\ Effect[a] => Effect'[a]
<1>1. BindingInv /\ [Next]_vars => Final \/ UNCHANGED <<Known, Effect>>
  <2> SUFFICES ASSUME BindingInv, Lifecycle!Next PROVE Final
    BY Zenon, BindingStepRefines DEF Lifecycle!vars
  <2>1. DOMAIN Known = Action /\ DOMAIN Effect = Action
    BY DEF Known, Effect
  <2>2. PICK b \in Action, s \in Lifecycle!Status :
          Lifecycle!Authorize(b) \/ Lifecycle!Claim(b) \/ Lifecycle!Commit(b) \/ Lifecycle!Report(b, s)
    <3>1. "none" \in Lifecycle!Status
      BY Zenon DEF Lifecycle!Status
    <3>2. QED
      BY Zenon, <3>1 DEF Lifecycle!Next
  <2>3. CASE Lifecycle!Commit(b)
    BY Zenon, <2>1, <2>3 DEF Lifecycle!Commit
  <2>4. CASE Lifecycle!Authorize(b) \/ Lifecycle!Claim(b) \/ Lifecycle!Report(b, s)
    <3>1. /\ Known[b] \in {"none", "authorized", "dispatched", "unknown"}
          /\ Effect' = Effect /\ \A c \in Action \ {b} : Known'[c] = Known[c]
      BY <2>1, <2>4 DEF Lifecycle!Authorize, Lifecycle!Claim, Lifecycle!Report
    <3>2. QED
      BY <3>1
  <2>5. QED
    BY Zenon, <2>2, <2>3, <2>4
<1>2. QED
  BY <1>1, BindingIsSafe, PTL DEF Spec, Lifecycle!OutcomeIsFinal, Lifecycle!vars

==============================================================================
