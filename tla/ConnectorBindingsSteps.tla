------------------------ MODULE ConnectorBindingsSteps ------------------------
(***************************************************************************)
(* Proofs about ConnectorBindings, for any configurations, processes,      *)
(* proposals and actions, and any number of restarts: its inductive        *)
(* invariant, and that what the processes do keeps it.                     *)
(*                                                                         *)
(* Whoever calls a provider holds the binding of the stored command; only  *)
(* the claim leads to an execution, so one request at most is ever sent,   *)
(* and until it arrives the provider has not seen the action.              *)
(***************************************************************************)
EXTENDS ConnectorBindings, TLAPS

Location == {"idle", "authorize", "submit", "dispatch", "execute", "query", "executing",
             "querying", "record", "settle"}
Calling == {"execute", "query", "executing", "querying", "record", "settle"}
Open == {"none", "authorized"}

\* A confirmation goes on with the binding that was shown, in a process where it is
\* the active one; the command gets that binding, unless a request without a proposal
\* inserts the action.
Confirming ==
  /\ \A q \in agreed : shown[q] # None
  /\ \A p \in Process : pc[p] \in {"authorize", "submit", "dispatch"} => job[p].action \in Action
  /\ \A p \in Process : pc[p] = "authorize" =>
       \E q \in agreed : KeyOf[q] = job[p].action /\ \E b \in Active(p) : Pin(b) = shown[q]
  /\ \A p \in Process : pc[p] = "dispatch" => status[job[p].action] # "none"
  /\ \A a \in Action : pin[a] = None <=> status[a] = "none"
  /\ StampedAsShown

\* Calls, requests and what providers did go with the binding of a claimed action.
CallsArePinned ==
  /\ \A p \in Process : pc[p] \in Calling =>
       /\ job[p].action \in Action /\ job[p].binding \in Binding
       /\ Pin(job[p].binding) = pin[job[p].action]
       /\ status[job[p].action] \notin Open
  /\ \A r \in net : r.pin = pin[r.action] /\ status[r.action] \notin Open
  /\ \A a \in Action, x \in Pins : provider[a][x] # "new" => x = pin[a] /\ status[a] \notin Open

\* An action is executed once: until its one request arrives the provider has not seen it.
OneExecution ==
  /\ \A p, q \in Process :
       pc[p] = "execute" /\ pc[q] = "execute" /\ job[p].action = job[q].action => p = q
  /\ \A p \in Process : pc[p] = "execute" =>
       /\ provider[job[p].action][pin[job[p].action]] = "new"
       /\ \A r \in net : r.op = "execute" => r.action # job[p].action
  /\ \A r \in net : r.op = "execute" => provider[r.action][r.pin] = "new"
  /\ \A r, s \in net : r.op = "execute" /\ s.op = "execute" /\ r.action = s.action => r = s

\* A success that is recorded, or about to be, was one.
SuccessesAreReal ==
  /\ \A p \in Process : pc[p] \in {"record", "settle"} => answer[p] # "reconciled"
  /\ \A p \in Process : pc[p] \in {"record", "settle"} /\ answer[p] = "succeeded" =>
       provider[job[p].action][pin[job[p].action]] = "done"
  /\ SuccessIsDone

\* So was a failure, unless a query presumed it.
FailuresAreReal ==
  /\ \A p \in Process :
       pc[p] \in {"record", "settle"} /\ answer[p] = "failed" /\ job[p].action \notin presumed =>
         provider[job[p].action][pin[job[p].action]] = "rejected"
  /\ \A a \in Action : status[a] = "failed" /\ a \notin presumed =>
       provider[a][pin[a]] = "rejected"

BindingInv ==
  TypeOK /\ Confirming /\ CallsArePinned /\ OneExecution /\ SuccessesAreReal /\ FailuresAreReal

USE BindingAssumption DEF Calling, Open, historyVars, actionVars, outsideVars

\* Before any process runs the invariant holds.
LEMMA InitBindingInv == Init => BindingInv
<1> SUFFICES ASSUME Init PROVE BindingInv
  OBVIOUS
<1>1. TypeOK
  BY Zenon DEF Init, TypeOK, Active, NoJob, Process
<1>2. Confirming
  BY Zenon DEF Init, Confirming, StampedAsShown
<1>3. CallsArePinned /\ OneExecution
  BY Zenon DEF Init, CallsArePinned, OneExecution
<1>4. SuccessesAreReal /\ FailuresAreReal
  BY Zenon DEF Init, SuccessesAreReal, FailuresAreReal, SuccessIsDone
<1>5. QED
  BY Zenon, <1>1, <1>2, <1>3, <1>4 DEF BindingInv

\* The pin of a binding is one of the pins.
LEMMA PinIsPin == \A b \in Binding : Pin(b) \in Pins
BY Zenon DEF Pins

\* Nobody new to confirm, stamps and proposals as they were: confirmations stay right.
LEMMA ConfirmingKept ==
  ASSUME Confirming, UNCHANGED <<config, shown, agreed, direct, pin>>,
         \A k \in Process : pc'[k] \in {"authorize", "submit", "dispatch"} =>
           pc'[k] = pc[k] /\ job'[k] = job[k],
         \A c \in Action : status'[c] = "none" <=> status[c] = "none"
  PROVE  Confirming'
<1>1. StampedAsShown'
  BY DEF Confirming, StampedAsShown
<1>2. \A k \in Process : Active(k)' = Active(k)
  BY Zenon DEF Active
<1>3. \A k \in Process : pc'[k] = "authorize" =>
        \E q \in agreed' : KeyOf[q] = job'[k].action /\ \E b \in Active(k)' : Pin(b) = shown'[q]
  BY <1>2 DEF Confirming
<1>4. \A k \in Process : pc'[k] \in {"authorize", "submit", "dispatch"} => job'[k].action \in Action
  BY DEF Confirming
<1>5. \A k \in Process : pc'[k] = "dispatch" => status'[job'[k].action] # "none"
  BY <1>4 DEF Confirming
<1>6. (\A q \in agreed' : shown'[q] # None) /\ \A c \in Action : pin'[c] = None <=> status'[c] = "none"
  BY DEF Confirming
<1>7. QED
  BY Zenon, <1>1, <1>3, <1>4, <1>5, <1>6 DEF Confirming

\* Nobody new to execute, nothing new under way, providers at rest: one execution stays.
LEMMA OneExecutionKept ==
  ASSUME OneExecution, net' \subseteq net, provider' = provider,
         \A k \in Process : pc'[k] = "execute" =>
           pc[k] = "execute" /\ job'[k] = job[k] /\ pin'[job[k].action] = pin[job[k].action]
  PROVE  OneExecution'
<1>1. \A p, q \in Process :
        pc'[p] = "execute" /\ pc'[q] = "execute" /\ job'[p].action = job'[q].action => p = q
  BY DEF OneExecution
<1>2. \A p \in Process : pc'[p] = "execute" =>
        /\ provider'[job'[p].action][pin'[job'[p].action]] = "new"
        /\ \A r \in net' : r.op = "execute" => r.action # job'[p].action
  BY DEF OneExecution
<1>3. /\ \A r \in net' : r.op = "execute" => provider'[r.action][r.pin] = "new"
      /\ \A r, s \in net' : r.op = "execute" /\ s.op = "execute" /\ r.action = s.action => r = s
  BY DEF OneExecution
<1>4. QED
  BY Zenon, <1>1, <1>2, <1>3 DEF OneExecution

\* No answer but unknown, no status settled, providers at rest: outcomes stay real.
LEMMA OutcomesKept ==
  ASSUME SuccessesAreReal, FailuresAreReal, UNCHANGED <<provider, presumed>>,
         \A k \in Process : pc'[k] \in {"record", "settle"} =>
           \/ answer'[k] = "unknown"
           \/ /\ pc'[k] = pc[k] /\ job'[k] = job[k] /\ answer'[k] = answer[k]
              /\ pin'[job[k].action] = pin[job[k].action],
         \A c \in Action : status'[c] \in {"succeeded", "reconciled", "failed"} =>
           status'[c] = status[c] /\ pin'[c] = pin[c]
  PROVE  SuccessesAreReal' /\ FailuresAreReal'
<1>1. \A k \in Process : pc'[k] \in {"record", "settle"} => answer'[k] # "reconciled"
  BY DEF SuccessesAreReal
<1>2. \A k \in Process : pc'[k] \in {"record", "settle"} /\ answer'[k] = "succeeded" =>
        provider'[job'[k].action][pin'[job'[k].action]] = "done"
  BY DEF SuccessesAreReal
<1>3. SuccessIsDone'
  BY DEF SuccessesAreReal, SuccessIsDone
<1>4. \A k \in Process : pc'[k] \in {"record", "settle"} /\ answer'[k] = "failed"
                            /\ job'[k].action \notin presumed' =>
        provider'[job'[k].action][pin'[job'[k].action]] = "rejected"
  BY DEF FailuresAreReal
<1>5. \A c \in Action : status'[c] = "failed" /\ c \notin presumed' =>
        provider'[c][pin'[c]] = "rejected"
  BY DEF FailuresAreReal
<1>6. SuccessesAreReal'
  BY Zenon, <1>1, <1>2, <1>3 DEF SuccessesAreReal
<1>7. FailuresAreReal'
  BY Zenon, <1>4, <1>5 DEF FailuresAreReal
<1>8. QED
  BY Zenon, <1>6, <1>7

-------------------------------------------------------------------------------
(* Steps of one process that leave the store and the network alone. *)

\* A process that starts, stops, gives up or takes an answer for unknown keeps the
\* invariant.
LEMMA MoveInv ==
  ASSUME BindingInv, NEW p \in Process, NEW l \in Location \ {"authorize", "submit", "dispatch", "execute"},
         pc' = [pc EXCEPT ![p] = l],
         job' \in [Process -> [action : Action \cup {None}, binding : Binding \cup {None}]],
         answer' \in [Process -> {"succeeded", "failed", "unknown", None}],
         config' \in [Process -> SUBSET Binding],
         up' \subseteq Process,
         \A k \in Process \ {p} : /\ job'[k] = job[k] /\ answer'[k] = answer[k]
                                  /\ config'[k] = config[k] /\ (k \in up' <=> k \in up),
         \A b, d \in config'[p] : b.enabled /\ d.enabled => b = d,
         p \notin up' => l = "idle",
         UNCHANGED <<shown, agreed, direct, presumed, status, pin, provider, net>>,
         l \in Calling => pc[p] \in Calling /\ job'[p] = job[p],
         l \in {"record", "settle"} => answer'[p] = "unknown"
  PROVE  BindingInv'
<1> USE DEF BindingInv
<1>1. pc' \in [Process -> Location] /\ pc'[p] = l /\ \A k \in Process \ {p} : pc'[k] = pc[k]
  BY DEF Location, TypeOK
<1>2. ASSUME NEW k \in Process
      PROVE  \A b, d \in Active(k)' : b = d
  <2>1. CASE k = p
    BY <2>1 DEF Active
  <2>2. CASE k # p
    <3>1. Active(k)' = Active(k)
      BY <2>2 DEF Active
    <3>2. \A b, d \in Active(k) : b = d
      BY Zenon DEF TypeOK
    <3>3. QED
      BY <3>1, <3>2
  <2>3. QED
    BY Zenon, <2>1, <2>2
<1>3. TypeOK'
  BY <1>1, <1>2 DEF Location, TypeOK
<1>4. Confirming'
  <2>1. \A k \in Process : pc'[k] \in {"authorize", "submit", "dispatch"} =>
          k # p /\ pc'[k] = pc[k] /\ job'[k] = job[k] /\ Active(k)' = Active(k)
    BY <1>1 DEF Active
  <2>2. StampedAsShown'
    BY DEF Confirming, StampedAsShown
  <2>3. QED
    BY <2>1, <2>2 DEF Confirming
<1>5. CallsArePinned'
  BY <1>1 DEF CallsArePinned
<1>6. OneExecution'
  <2>1. \A k \in Process : pc'[k] = "execute" =>
          pc[k] = "execute" /\ job'[k] = job[k] /\ pin'[job[k].action] = pin[job[k].action]
    BY <1>1
  <2>2. QED
    BY Zenon, <2>1, OneExecutionKept
<1>7. SuccessesAreReal' /\ FailuresAreReal'
  <2>1. \A k \in Process : pc'[k] \in {"record", "settle"} =>
          \/ answer'[k] = "unknown"
          \/ /\ pc'[k] = pc[k] /\ job'[k] = job[k] /\ answer'[k] = answer[k]
             /\ pin'[job[k].action] = pin[job[k].action]
    BY <1>1
  <2>2. QED
    BY Zenon, <2>1, OutcomesKept
<1>8. QED
  BY Zenon, <1>3, <1>4, <1>5, <1>6, <1>7

\* A process starts with a valid configuration.
LEMMA StartInv ==
  ASSUME BindingInv, NEW p \in Process, Start(p)
  PROVE  BindingInv'
<1>1. PICK c \in SUBSET Binding : Valid(c) /\ config' = [config EXCEPT ![p] = c]
  BY Zenon DEF Start
<1>2. /\ p \notin up /\ up' = up \cup {p}
      /\ UNCHANGED <<shown, agreed, direct, presumed, status, pin, provider, net, pc, job, answer>>
  BY Zenon DEF Start
<1>3. TypeOK
  BY Zenon DEF BindingInv
<1>4. /\ config' \in [Process -> SUBSET Binding] /\ config'[p] = c
      /\ \A k \in Process \ {p} : config'[k] = config[k] /\ (k \in up' <=> k \in up)
  BY <1>1, <1>2, <1>3 DEF TypeOK
<1>5. pc' = [pc EXCEPT ![p] = "idle"]
  BY <1>2, <1>3 DEF TypeOK
<1>6. \A b, d \in c : b.enabled /\ d.enabled => b = d
  BY Zenon, <1>1 DEF Valid, Unique
<1>7. /\ job' \in [Process -> [action : Action \cup {None}, binding : Binding \cup {None}]]
      /\ answer' \in [Process -> {"succeeded", "failed", "unknown", None}]
      /\ up' \subseteq Process
  BY <1>2, <1>3 DEF TypeOK
<1>8. \A k \in Process \ {p} : /\ job'[k] = job[k] /\ answer'[k] = answer[k]
                               /\ config'[k] = config[k] /\ (k \in up' <=> k \in up)
  BY Zenon, <1>2, <1>4
<1>9. /\ \A b, d \in config'[p] : b.enabled /\ d.enabled => b = d
      /\ p \in up'
      /\ UNCHANGED <<shown, agreed, direct, presumed, status, pin, provider, net>>
  BY Zenon, <1>2, <1>4, <1>6
<1>10. QED
  BY <1>4, <1>5, <1>7, <1>8, <1>9, MoveInv, ZenonT(40) DEF Location

\* A process stops, wherever it is.
LEMMA StopInv ==
  ASSUME BindingInv, NEW p \in Process, Stop(p)
  PROVE  BindingInv'
<1>1. /\ up' = up \ {p}
      /\ config' = [config EXCEPT ![p] = {}]
      /\ pc' = [pc EXCEPT ![p] = "idle"]
      /\ job' = [job EXCEPT ![p] = NoJob]
      /\ answer' = [answer EXCEPT ![p] = None]
      /\ UNCHANGED <<shown, agreed, direct, presumed, status, pin, provider, net>>
  BY Zenon DEF Stop, Goto
<1>2. TypeOK
  BY Zenon DEF BindingInv
<1>3. /\ job' \in [Process -> [action : Action \cup {None}, binding : Binding \cup {None}]]
      /\ answer' \in [Process -> {"succeeded", "failed", "unknown", None}]
      /\ config' \in [Process -> SUBSET Binding]
      /\ up' \subseteq Process
      /\ config'[p] = {}
  BY <1>1, <1>2 DEF TypeOK, NoJob
<1>4. \A k \in Process \ {p} : /\ job'[k] = job[k] /\ answer'[k] = answer[k]
                               /\ config'[k] = config[k] /\ (k \in up' <=> k \in up)
  BY <1>1, <1>2 DEF TypeOK
<1>5. QED
  BY <1>1, <1>3, <1>4, MoveInv, Zenon DEF Location

\* A step of a running process within its work.
LEMMA WithinInv ==
  ASSUME BindingInv, NEW p \in Process, NEW l \in Location \ {"authorize", "submit", "dispatch", "execute"},
         NEW j \in [action : Action \cup {None}, binding : Binding \cup {None}],
         NEW o \in {"succeeded", "failed", "unknown", None},
         Goto(p, l, j), answer' = [answer EXCEPT ![p] = o], pc[p] # "idle",
         UNCHANGED <<up, config, shown, agreed, direct, presumed, status, pin, provider, net>>,
         l \in Calling => pc[p] \in Calling /\ j = job[p],
         l \in {"record", "settle"} => o = "unknown"
  PROVE  BindingInv'
<1>1. TypeOK
  BY Zenon DEF BindingInv
<1>2. /\ pc' = [pc EXCEPT ![p] = l]
      /\ job' = [job EXCEPT ![p] = j]
  BY Zenon DEF Goto
<1>3. /\ job' \in [Process -> [action : Action \cup {None}, binding : Binding \cup {None}]]
      /\ answer' \in [Process -> {"succeeded", "failed", "unknown", None}]
      /\ job'[p] = j /\ answer'[p] = o
      /\ \A k \in Process \ {p} : job'[k] = job[k] /\ answer'[k] = answer[k]
  BY <1>1, <1>2 DEF TypeOK
<1>4. config' \in [Process -> SUBSET Binding] /\ up' \subseteq Process /\ p \in up'
  BY Zenon, <1>1 DEF TypeOK
<1>5. \A b, d \in config'[p] : b.enabled /\ d.enabled => b = d
  <2>1. \A b, d \in Active(p) : b = d
    BY Zenon, <1>1 DEF TypeOK
  <2>2. QED
    BY Zenon, <2>1 DEF Active
<1>6. \A k \in Process \ {p} : /\ job'[k] = job[k] /\ answer'[k] = answer[k]
                               /\ config'[k] = config[k] /\ (k \in up' <=> k \in up)
  BY <1>3
<1>7. /\ l \in Calling => pc[p] \in Calling /\ job'[p] = job[p]
      /\ l \in {"record", "settle"} => answer'[p] = "unknown"
      /\ p \notin up' => l = "idle"
      /\ UNCHANGED <<shown, agreed, direct, presumed, status, pin, provider, net>>
  BY <1>3, <1>4
<1>8. QED
  BY <1>2, <1>3, <1>4, <1>5, <1>6, <1>7, MoveInv, ZenonT(40)

-------------------------------------------------------------------------------
(* From the proposal to the claim. *)

\* propose stores the active binding of a proposal that had none.
LEMMA ProposeInv ==
  ASSUME BindingInv, NEW p \in Process, NEW q \in Proposal, Propose(p, q)
  PROVE  BindingInv'
<1> USE DEF BindingInv
<1>1. PICK b \in Active(p) : shown' = [shown EXCEPT ![q] = Pin(b)]
  BY Zenon DEF Propose
<1>2. /\ shown[q] = None
      /\ UNCHANGED <<up, config, agreed, direct, presumed, status, pin, provider, net, pc, job,
                     answer>>
  BY Zenon DEF Propose
<1>3. b \in Binding /\ Pin(b) \in Pins
  BY PinIsPin DEF TypeOK, Active
<1>4. /\ shown' \in [Proposal -> Pins \cup {None}]
      /\ q \notin agreed
      /\ \A k \in agreed : shown'[k] = shown[k]
  BY <1>1, <1>2, <1>3 DEF TypeOK, Confirming
<1>5. TypeOK'
  BY <1>2, <1>4 DEF TypeOK, Active
<1>6. Confirming'
  <2>1. StampedAsShown'
    BY <1>2, <1>4 DEF Confirming, StampedAsShown
  <2>2. \A k \in Process : Active(k)' = Active(k)
    BY Zenon, <1>2 DEF Active
  <2>3. QED
    BY <1>2, <1>4, <2>1, <2>2 DEF Confirming
<1>7. CallsArePinned' /\ OneExecution'
  BY <1>2, OneExecutionKept DEF CallsArePinned
<1>8. SuccessesAreReal' /\ FailuresAreReal'
  BY Zenon, <1>2, OutcomesKept
<1>9. QED
  BY Zenon, <1>5, <1>6, <1>7, <1>8

\* A process that goes on to a step before any call, with an action, keeps what is
\* known of calls and answers.
LEMMA BeforeCallInv ==
  ASSUME BindingInv, NEW p \in Process, NEW l \in {"authorize", "submit", "dispatch"}, NEW a \in Action,
         pc' = [pc EXCEPT ![p] = l],
         job' \in [Process -> [action : Action \cup {None}, binding : Binding \cup {None}]],
         \A k \in Process \ {p} : job'[k] = job[k],
         p \in up, UNCHANGED <<up, config, shown, presumed, provider, net, answer>>,
         agreed' \subseteq Proposal, direct' \subseteq Action,
         status' \in [Action -> {"none", "authorized", "dispatched", "succeeded", "failed",
                                 "unknown", "reconciled"}],
         pin' \in [Action -> Pins \cup {None}],
         \A c \in Action : (status'[c] = status[c] /\ pin'[c] = pin[c])
                             \/ (status[c] = "none" /\ status'[c] = "authorized")
  PROVE  TypeOK' /\ CallsArePinned' /\ OneExecution' /\ SuccessesAreReal' /\ FailuresAreReal'
<1> USE DEF BindingInv
<1>1. pc' \in [Process -> Location] /\ pc'[p] = l /\ \A k \in Process \ {p} : pc'[k] = pc[k]
  BY DEF Location, TypeOK
<1>2. TypeOK'
  BY <1>1 DEF TypeOK, Active
<1>3. \A c \in Action : status[c] \notin Open => status'[c] = status[c] /\ pin'[c] = pin[c]
  OBVIOUS
<1>4. \A k \in Process : pc'[k] \in Calling =>
        k # p /\ pc'[k] = pc[k] /\ job'[k] = job[k] /\ pin'[job[k].action] = pin[job[k].action]
  BY <1>1, <1>3 DEF CallsArePinned
<1>5. CallsArePinned'
  BY <1>3, <1>4 DEF TypeOK, CallsArePinned
<1>6. OneExecution'
  <2>1. \A k \in Process : pc'[k] = "execute" =>
          pc[k] = "execute" /\ job'[k] = job[k] /\ pin'[job[k].action] = pin[job[k].action]
    BY <1>4
  <2>2. QED
    BY Zenon, <2>1, OneExecutionKept
<1>7. SuccessesAreReal' /\ FailuresAreReal'
  <2>1. \A k \in Process : pc'[k] \in {"record", "settle"} =>
          \/ answer'[k] = "unknown"
          \/ /\ pc'[k] = pc[k] /\ job'[k] = job[k] /\ answer'[k] = answer[k]
             /\ pin'[job[k].action] = pin[job[k].action]
    BY <1>4
  <2>2. \A c \in Action : status'[c] \in {"succeeded", "reconciled", "failed"} =>
          status'[c] = status[c] /\ pin'[c] = pin[c]
    OBVIOUS
  <2>3. QED
    BY Zenon, <2>1, <2>2, OutcomesKept
<1>8. QED
  BY Zenon, <1>2, <1>5, <1>6, <1>7

\* confirm goes on while the binding of the proposal is the active one.
LEMMA ConfirmInv ==
  ASSUME BindingInv, NEW p \in Process, NEW q \in Proposal, Confirm(p, q)
  PROVE  BindingInv'
<1> USE DEF BindingInv
<1> DEFINE j == [NoJob EXCEPT !.action = KeyOf[q]]
<1>1. PICK b \in Active(p) : Pin(b) = shown[q]
  BY Zenon DEF Confirm
<1>2. /\ pc[p] = "idle" /\ p \in up
      /\ agreed' = agreed \cup {q}
      /\ pc' = [pc EXCEPT ![p] = "authorize"] /\ job' = [job EXCEPT ![p] = j]
      /\ UNCHANGED <<up, config, shown, direct, presumed, status, pin, provider, net, answer>>
  BY Zenon DEF Confirm, Goto, Free
<1>3. KeyOf[q] \in Action /\ j.action = KeyOf[q]
  BY Zenon DEF NoJob
<1>4. j \in [action : Action \cup {None}, binding : Binding \cup {None}]
  BY Zenon, <1>3 DEF NoJob
<1> HIDE DEF j
<1>5. /\ job' \in [Process -> [action : Action \cup {None}, binding : Binding \cup {None}]]
      /\ job'[p] = j /\ \A k \in Process \ {p} : job'[k] = job[k]
      /\ pc'[p] = "authorize" /\ \A k \in Process \ {p} : pc'[k] = pc[k]
  BY <1>2, <1>4 DEF TypeOK
<1>6. agreed' \subseteq Proposal /\ direct' \subseteq Action /\ status' = status /\ pin' = pin
  BY <1>2 DEF TypeOK
<1>7. TypeOK' /\ CallsArePinned' /\ OneExecution' /\ SuccessesAreReal' /\ FailuresAreReal'
  <2>1. /\ status' \in [Action -> {"none", "authorized", "dispatched", "succeeded", "failed",
                                  "unknown", "reconciled"}]
        /\ pin' \in [Action -> Pins \cup {None}]
    BY Zenon, <1>6 DEF TypeOK
  <2>2. \A c \in Action : (status'[c] = status[c] /\ pin'[c] = pin[c])
                            \/ (status[c] = "none" /\ status'[c] = "authorized")
    BY Zenon, <1>6
  <2>3. QED
    BY <1>2, <1>3, <1>5, <1>6, <2>1, <2>2, BeforeCallInv, ZenonT(40)
<1>8. shown[q] # None
  BY <1>1, PinIsPin DEF TypeOK, Active
<1>9. \A k \in Process : Active(k)' = Active(k)
  BY Zenon, <1>2 DEF Active
<1>10. StampedAsShown'
  BY <1>2 DEF Confirming, StampedAsShown
<1>11. Confirming'
  <2>1. \A k \in agreed' : shown'[k] # None
    BY Zenon, <1>2, <1>8 DEF Confirming
  <2>2. \A k \in Process : pc'[k] \in {"authorize", "submit", "dispatch"} => job'[k].action \in Action
    BY <1>3, <1>5 DEF Confirming
  <2>3. ASSUME NEW k \in Process, pc'[k] = "authorize"
        PROVE  \E r \in agreed' : /\ KeyOf[r] = job'[k].action
                                  /\ \E d \in Active(k)' : Pin(d) = shown'[r]
    <3>1. CASE k = p
      BY <1>1, <1>2, <1>3, <1>5, <1>9, <3>1
    <3>2. CASE k # p
      BY <1>2, <1>5, <1>9, <2>3, <3>2 DEF Confirming
    <3>3. QED
      BY Zenon, <3>1, <3>2
  <2>4. \A k \in Process : pc'[k] = "dispatch" => status'[job'[k].action] # "none"
    BY <1>5, <1>6 DEF Confirming
  <2>5. QED
    BY <1>6, <1>10, <2>1, <2>2, <2>3, <2>4 DEF Confirming
<1>12. QED
  BY Zenon, <1>7, <1>11

\* A typed API request goes on with its key.
LEMMA SubmitDirectInv ==
  ASSUME BindingInv, NEW p \in Process, NEW a \in Action, SubmitDirect(p, a)
  PROVE  BindingInv'
<1> USE DEF BindingInv
<1> DEFINE j == [NoJob EXCEPT !.action = a]
<1>1. /\ pc[p] = "idle" /\ p \in up
      /\ pc' = [pc EXCEPT ![p] = "submit"] /\ job' = [job EXCEPT ![p] = j]
      /\ UNCHANGED <<up, config, shown, agreed, direct, presumed, status, pin, provider, net,
                     answer>>
  BY Zenon DEF SubmitDirect, Goto, Free
<1>2. j.action = a /\ j \in [action : Action \cup {None}, binding : Binding \cup {None}]
  BY Zenon DEF NoJob
<1> HIDE DEF j
<1>3. /\ job' \in [Process -> [action : Action \cup {None}, binding : Binding \cup {None}]]
      /\ job'[p] = j /\ \A k \in Process \ {p} : job'[k] = job[k]
      /\ pc'[p] = "submit" /\ \A k \in Process \ {p} : pc'[k] = pc[k]
  BY <1>1, <1>2 DEF TypeOK
<1>4. /\ agreed' \subseteq Proposal /\ direct' \subseteq Action
      /\ status' \in [Action -> {"none", "authorized", "dispatched", "succeeded", "failed",
                                 "unknown", "reconciled"}]
      /\ pin' \in [Action -> Pins \cup {None}]
  BY Zenon, <1>1 DEF TypeOK
<1>5. \A c \in Action : (status'[c] = status[c] /\ pin'[c] = pin[c])
                          \/ (status[c] = "none" /\ status'[c] = "authorized")
  BY Zenon, <1>1
<1>6. TypeOK' /\ CallsArePinned' /\ OneExecution' /\ SuccessesAreReal' /\ FailuresAreReal'
  BY <1>1, <1>3, <1>4, <1>5, BeforeCallInv, ZenonT(40)
<1>7. Confirming'
  <2>1. \A k \in Process : Active(k)' = Active(k)
    BY Zenon, <1>1 DEF Active
  <2>2. StampedAsShown'
    BY <1>1 DEF Confirming, StampedAsShown
  <2>3. \A k \in Process : pc'[k] \in {"authorize", "submit", "dispatch"} => job'[k].action \in Action
    BY <1>2, <1>3 DEF Confirming
  <2>4. \A k \in Process : pc'[k] \in {"authorize", "dispatch"} => pc'[k] = pc[k] /\ job'[k] = job[k]
    BY <1>3
  <2>5. \A k \in Process : pc'[k] = "authorize" =>
          \E q \in agreed' : KeyOf[q] = job'[k].action /\ \E b \in Active(k)' : Pin(b) = shown'[q]
    BY <1>1, <2>1, <2>4 DEF Confirming
  <2>6. \A k \in Process : pc'[k] = "dispatch" => status'[job'[k].action] # "none"
    BY <1>1, <2>4 DEF Confirming
  <2>7. QED
    BY Zenon, <1>1, <2>2, <2>3, <2>5, <2>6 DEF Confirming
<1>8. QED
  BY Zenon, <1>6, <1>7

\* authorize stamps a new action with the active binding, which is the one that was
\* shown if there was a proposal: a process has one active binding.
LEMMA AuthorizeInv ==
  ASSUME BindingInv, NEW p \in Process, Authorize(p)
  PROVE  BindingInv'
<1> USE DEF BindingInv
<1> DEFINE a == job[p].action
<1>0. /\ pc[p] \in {"authorize", "submit"}
      /\ pc' = [pc EXCEPT ![p] = "dispatch"] /\ job' = [job EXCEPT ![p] = job[p]]
      /\ UNCHANGED <<up, config, shown, agreed, presumed, provider, net, answer>>
  BY Zenon DEF Authorize, Goto
<1>1. p \in up
  BY Zenon, <1>0 DEF TypeOK
<1>2. \A b \in Active(p) : Pin(b) \in Pins /\ Pin(b) # None
  <2>1. Active(p) \subseteq Binding
    BY DEF TypeOK, Active
  <2>2. \A b \in Active(p) : Pin(b) \in Pins
    BY Zenon, <2>1, PinIsPin
  <2>3. QED
    BY Zenon, <2>2
<1>3. a \in Action
  BY Zenon, <1>0 DEF Confirming
<1>4. ASSUME pc[p] = "authorize", NEW b \in Active(p)
      PROVE  \E q \in agreed : KeyOf[q] = a /\ shown[q] = Pin(b)
  <2>1. PICK q \in agreed : KeyOf[q] = a /\ \E d \in Active(p) : Pin(d) = shown[q]
    BY Zenon, <1>4 DEF Confirming
  <2>2. PICK d \in Active(p) : Pin(d) = shown[q]
    BY Zenon, <2>1
  <2>3. b = d
    BY Zenon DEF TypeOK
  <2>4. QED
    BY Zenon, <2>1, <2>2, <2>3
<1>5. job' = job
  BY <1>0 DEF TypeOK
<1> DEFINE Stamped(x) == /\ pin' = [pin EXCEPT ![a] = x]
                         /\ a \in direct' \/ \E q \in agreed : KeyOf[q] = a /\ shown[q] = x
<1>6. \/ status[a] # "none" /\ status' = status /\ pin' = pin /\ direct' = direct
      \/ /\ status[a] = "none" /\ status' = [status EXCEPT ![a] = "authorized"]
         /\ \E x \in Pins : x # None /\ Stamped(x)
         /\ direct \subseteq direct' /\ direct' \subseteq Action
  <2>1. CASE status[a] # "none"
    BY Zenon, <2>1 DEF Authorize
  <2>2. CASE status[a] = "none"
    <3>1. PICK b \in Active(p) : pin' = [pin EXCEPT ![a] = Pin(b)]
      BY Zenon, <2>2 DEF Authorize
    <3>2. /\ status' = [status EXCEPT ![a] = "authorized"]
          /\ direct' = IF pc[p] = "submit" THEN direct \cup {a} ELSE direct
      BY Zenon, <2>2 DEF Authorize
    <3>3. a \in direct' \/ pc[p] = "authorize"
      BY <1>0, <3>2
    <3>4. Stamped(Pin(b))
      BY Zenon, <1>4, <3>1, <3>3
    <3>5. direct \subseteq direct' /\ direct' \subseteq Action
      BY <1>3, <3>2 DEF TypeOK
    <3>6. QED
      BY Zenon, <1>2, <2>2, <3>2, <3>4, <3>5
  <2>3. QED
    BY Zenon, <2>1, <2>2
<1> HIDE DEF a
<1>7. /\ status' \in [Action -> {"none", "authorized", "dispatched", "succeeded", "failed",
                                 "unknown", "reconciled"}]
      /\ pin' \in [Action -> Pins \cup {None}]
      /\ \A c \in Action :
           \/ status'[c] = status[c] /\ pin'[c] = pin[c]
           \/ /\ status[c] = "none" /\ status'[c] = "authorized" /\ pin'[c] # None
              /\ c \in direct' \/ \E q \in agreed : KeyOf[q] = c /\ shown[q] = pin'[c]
      /\ status'[a] # "none"
      /\ direct \subseteq direct' /\ direct' \subseteq Action
  <2>1. CASE status[a] # "none" /\ status' = status /\ pin' = pin /\ direct' = direct
    BY Zenon, <2>1 DEF TypeOK
  <2>2. CASE /\ status[a] = "none" /\ status' = [status EXCEPT ![a] = "authorized"]
             /\ \E x \in Pins : x # None /\ Stamped(x)
             /\ direct \subseteq direct' /\ direct' \subseteq Action
    <3>0. PICK x \in Pins : x # None /\ Stamped(x)
      BY Zenon, <2>2
    <3>1. status'[a] = "authorized" /\ pin'[a] = x
      BY <1>3, <2>2, <3>0 DEF TypeOK
    <3>2. \A c \in Action \ {a} : status'[c] = status[c] /\ pin'[c] = pin[c]
      BY <2>2, <3>0 DEF TypeOK
    <3>3. /\ status' \in [Action -> {"none", "authorized", "dispatched", "succeeded", "failed",
                                     "unknown", "reconciled"}]
          /\ pin' \in [Action -> Pins \cup {None}]
      BY <2>2, <3>0 DEF TypeOK
    <3>4. a \in direct' \/ \E q \in agreed : KeyOf[q] = a /\ shown[q] = pin'[a]
      BY Zenon, <3>0, <3>1
    <3>5. QED
      BY <2>2, <3>0, <3>1, <3>2, <3>3, <3>4
  <2>3. QED
    BY Zenon, <1>6, <2>1, <2>2
<1> HIDE DEF Stamped
<1>8. TypeOK' /\ CallsArePinned' /\ OneExecution' /\ SuccessesAreReal' /\ FailuresAreReal'
  <2>1. \A c \in Action : (status'[c] = status[c] /\ pin'[c] = pin[c])
                            \/ (status[c] = "none" /\ status'[c] = "authorized")
    BY Zenon, <1>7
  <2>2. agreed' \subseteq Proposal /\ direct' \subseteq Action
    BY Zenon, <1>0, <1>7 DEF TypeOK
  <2>3. job' \in [Process -> [action : Action \cup {None}, binding : Binding \cup {None}]]
    BY Zenon, <1>5 DEF TypeOK
  <2>4. QED
    BY <1>0, <1>1, <1>3, <1>5, <1>7, <2>1, <2>2, <2>3, BeforeCallInv, Zenon
<1>9. StampedAsShown'
  <2> SUFFICES ASSUME NEW c \in Action, pin'[c] # None
               PROVE  c \in direct' \/ \E q \in agreed : KeyOf[q] = c /\ shown[q] = pin'[c]
    BY Zenon, <1>0 DEF StampedAsShown
  <2>1. CASE pin'[c] = pin[c]
    BY <1>7, <2>1 DEF Confirming, StampedAsShown
  <2>2. QED
    BY Zenon, <1>7, <2>1
<1>10. \A k \in Process : Active(k)' = Active(k)
  BY Zenon, <1>0 DEF Active
<1>11. pc'[p] = "dispatch" /\ \A k \in Process \ {p} : pc'[k] = pc[k]
  BY <1>0 DEF TypeOK
<1>12. Confirming'
  <2>1. \A k \in Process : pc'[k] \in {"authorize", "submit", "dispatch"} => job'[k].action \in Action
    BY <1>3, <1>5, <1>11 DEF Confirming, a
  <2>2. \A k \in Process : pc'[k] = "authorize" =>
          \E r \in agreed' : KeyOf[r] = job'[k].action /\ \E d \in Active(k)' : Pin(d) = shown'[r]
    BY <1>0, <1>5, <1>10, <1>11 DEF Confirming
  <2>3. \A k \in Process : pc'[k] = "dispatch" => status'[job'[k].action] # "none"
    BY <1>5, <1>7, <1>11 DEF Confirming, a
  <2>4. \A c \in Action : pin'[c] = None <=> status'[c] = "none"
    BY <1>7 DEF Confirming
  <2>5. QED
    BY Zenon, <1>0, <1>9, <2>1, <2>2, <2>3, <2>4 DEF Confirming
<1>13. QED
  BY Zenon, <1>8, <1>12

\* Only an action that nobody has called for is claimed.
LEMMA ClaimInv ==
  ASSUME BindingInv, NEW p \in Process, NEW a \in Action, p \in up,
         pc[p] \in {"idle", "dispatch"}, Claim(p, a)
  PROVE  BindingInv'
<1> USE DEF BindingInv
<1>1. PICK b \in Resolve(p, pin[a]) : Goto(p, "execute", [action |-> a, binding |-> b])
  BY Zenon DEF Claim
<1>2. /\ status[a] = "authorized" /\ status' = [status EXCEPT ![a] = "dispatched"]
      /\ UNCHANGED <<up, config, shown, agreed, direct, presumed, pin, provider, net, answer>>
  BY Zenon DEF Claim
<1>3. b \in Binding /\ Pin(b) = pin[a] /\ pin[a] \in Pins
  BY PinIsPin DEF TypeOK, Resolve
<1> DEFINE j == [action |-> a, binding |-> b]
<1>4. j.action = a /\ j.binding = b
      /\ j \in [action : Action \cup {None}, binding : Binding \cup {None}]
  BY Zenon, <1>3
<1>5. pc' = [pc EXCEPT ![p] = "execute"] /\ job' = [job EXCEPT ![p] = j]
  BY Zenon, <1>1 DEF Goto
<1> HIDE DEF j
<1>6. /\ job' \in [Process -> [action : Action \cup {None}, binding : Binding \cup {None}]]
      /\ job'[p] = j /\ \A k \in Process \ {p} : job'[k] = job[k]
      /\ pc' \in [Process -> Location]
      /\ pc'[p] = "execute" /\ \A k \in Process \ {p} : pc'[k] = pc[k]
  BY <1>4, <1>5 DEF Location, TypeOK
<1>7. /\ status' \in [Action -> {"none", "authorized", "dispatched", "succeeded", "failed",
                                 "unknown", "reconciled"}]
      /\ status'[a] = "dispatched" /\ \A c \in Action \ {a} : status'[c] = status[c]
  BY <1>2 DEF TypeOK
<1>8. /\ \A k \in Process : pc[k] \in Calling => job[k].action # a
      /\ \A r \in net : r.action # a
      /\ \A x \in Pins : provider[a][x] = "new"
  BY <1>2 DEF CallsArePinned
<1>9. TypeOK'
  BY <1>2, <1>6, <1>7 DEF Location, TypeOK, Active
<1>10. Confirming'
  <2>1. \A c \in Action : status'[c] = "none" <=> status[c] = "none"
    BY <1>2, <1>7
  <2>2. \A k \in Process : pc'[k] \in {"authorize", "submit", "dispatch"} => pc'[k] = pc[k] /\ job'[k] = job[k]
    BY Zenon, <1>6
  <2>3. QED
    BY Zenon, <1>2, <2>1, <2>2, ConfirmingKept
<1>11. CallsArePinned'
  <2>1. \A k \in Process : pc'[k] \in Calling =>
          /\ job'[k].action \in Action /\ job'[k].binding \in Binding
          /\ Pin(job'[k].binding) = pin'[job'[k].action]
          /\ status'[job'[k].action] \notin Open
    BY <1>2, <1>3, <1>4, <1>6, <1>7, <1>8 DEF CallsArePinned
  <2>2. \A r \in net' : r.pin = pin'[r.action] /\ status'[r.action] \notin Open
    BY <1>2, <1>7, <1>8 DEF TypeOK, CallsArePinned
  <2>3. QED
    BY <1>2, <1>7, <2>1, <2>2 DEF CallsArePinned
<1>12. OneExecution'
  <2>1. \A k, l \in Process :
          pc'[k] = "execute" /\ pc'[l] = "execute" /\ job'[k].action = job'[l].action => k = l
    <3>1. \A k \in Process \ {p} : pc'[k] = "execute" => job'[k].action # a
      BY <1>6, <1>8
    <3>2. job'[p].action = a
      BY Zenon, <1>4, <1>6
    <3>3. \A k, l \in Process \ {p} :
            pc'[k] = "execute" /\ pc'[l] = "execute" /\ job'[k].action = job'[l].action => k = l
      BY <1>6 DEF OneExecution
    <3>4. QED
      BY <3>1, <3>2, <3>3
  <2>2. \A k \in Process : pc'[k] = "execute" =>
          /\ provider'[job'[k].action][pin'[job'[k].action]] = "new"
          /\ \A r \in net' : r.op = "execute" => r.action # job'[k].action
    <3>1. provider[a][pin[a]] = "new" /\ \A r \in net : r.action # a
      BY Zenon, <1>3, <1>8
    <3>2. job'[p].action = a
      BY Zenon, <1>4, <1>6
    <3>3. \A k \in Process \ {p} : pc'[k] = "execute" =>
            /\ provider[job'[k].action][pin[job'[k].action]] = "new"
            /\ \A r \in net : r.op = "execute" => r.action # job'[k].action
      BY <1>6 DEF OneExecution
    <3>4. QED
      BY <1>2, <3>1, <3>2, <3>3
  <2>3. QED
    BY Zenon, <1>2, <2>1, <2>2 DEF OneExecution
<1>13. SuccessesAreReal' /\ FailuresAreReal'
  <2>1. \A k \in Process : pc'[k] \in {"record", "settle"} =>
          \/ answer'[k] = "unknown"
          \/ /\ pc'[k] = pc[k] /\ job'[k] = job[k] /\ answer'[k] = answer[k]
             /\ pin'[job[k].action] = pin[job[k].action]
    BY <1>2, <1>6
  <2>2. \A c \in Action : status'[c] \in {"succeeded", "reconciled", "failed"} =>
          status'[c] = status[c] /\ pin'[c] = pin[c]
    BY <1>2, <1>7
  <2>3. QED
    BY Zenon, <1>2, <2>1, <2>2, OutcomesKept
<1>14. QED
  BY Zenon, <1>9, <1>10, <1>11, <1>12, <1>13

-------------------------------------------------------------------------------
(* What happens to a claimed action. *)

\* Reconciliation only moves a claimed action to unknown and asks its own provider.
LEMMA ReconcileInv ==
  ASSUME BindingInv, NEW p \in Process, NEW a \in Action, Reconcile(p, a)
  PROVE  BindingInv'
<1> USE DEF BindingInv
<1>1. /\ p \in up /\ pc[p] = "idle"
      /\ status[a] \in {"dispatched", "unknown"} /\ status' = [status EXCEPT ![a] = "unknown"]
      /\ UNCHANGED <<up, config, shown, agreed, direct, presumed, pin, provider, net, answer>>
  BY Zenon DEF Reconcile, Free
<1>2. \/ \E b \in Resolve(p, pin[a]) : Goto(p, "query", [action |-> a, binding |-> b])
      \/ UNCHANGED <<pc, job>>
  BY Zenon DEF Reconcile
<1>3. /\ status' \in [Action -> {"none", "authorized", "dispatched", "succeeded", "failed",
                                 "unknown", "reconciled"}]
      /\ status'[a] = "unknown" /\ \A c \in Action \ {a} : status'[c] = status[c]
  BY <1>1 DEF TypeOK
<1>4. \A c \in Action : /\ status'[c] \in Open <=> status[c] \in Open
                        /\ status'[c] = "none" <=> status[c] = "none"
                        /\ status'[c] \in {"succeeded", "failed", "reconciled"} =>
                             status'[c] = status[c]
  BY Zenon, <1>1, <1>3
<1>5. /\ pc' \in [Process -> Location]
      /\ job' \in [Process -> [action : Action \cup {None}, binding : Binding \cup {None}]]
      /\ \A k \in Process \ {p} : pc'[k] = pc[k] /\ job'[k] = job[k]
      /\ \/ pc'[p] = "idle"
         \/ pc'[p] = "query" /\ job'[p].action = a /\ job'[p].binding \in Binding
            /\ Pin(job'[p].binding) = pin[a]
  <2>1. CASE UNCHANGED <<pc, job>>
    BY Zenon, <1>1, <2>1 DEF Location, TypeOK
  <2>2. CASE \E b \in Resolve(p, pin[a]) : Goto(p, "query", [action |-> a, binding |-> b])
    <3>1. PICK b \in Resolve(p, pin[a]) : Goto(p, "query", [action |-> a, binding |-> b])
      BY Zenon, <2>2
    <3> DEFINE j == [action |-> a, binding |-> b]
    <3>2. b \in Binding /\ Pin(b) = pin[a]
      BY DEF TypeOK, Resolve
    <3>3. j.action = a /\ j.binding = b
          /\ j \in [action : Action \cup {None}, binding : Binding \cup {None}]
      BY Zenon, <3>2
    <3>4. pc' = [pc EXCEPT ![p] = "query"] /\ job' = [job EXCEPT ![p] = j]
      BY Zenon, <3>1 DEF Goto
    <3> HIDE DEF j
    <3>5. QED
      BY <3>2, <3>3, <3>4 DEF Location, TypeOK
  <2>3. QED
    BY Zenon, <1>2, <2>1, <2>2
<1>6. TypeOK'
  BY <1>1, <1>3, <1>5 DEF Location, TypeOK, Active
<1>7. Confirming'
  <2>1. \A k \in Process : pc'[k] \in {"authorize", "submit", "dispatch"} => pc'[k] = pc[k] /\ job'[k] = job[k]
    BY Zenon, <1>5
  <2>2. QED
    BY Zenon, <1>1, <1>4, <2>1, ConfirmingKept
<1>8. CallsArePinned'
  <2>1. \A k \in Process : pc'[k] \in Calling =>
          /\ job'[k].action \in Action /\ job'[k].binding \in Binding
          /\ Pin(job'[k].binding) = pin'[job'[k].action]
          /\ status'[job'[k].action] \notin Open
    <3> SUFFICES ASSUME NEW k \in Process, pc'[k] \in Calling
                 PROVE  /\ job'[k].action \in Action /\ job'[k].binding \in Binding
                        /\ Pin(job'[k].binding) = pin[job'[k].action]
                        /\ status'[job'[k].action] \notin Open
      BY Zenon, <1>1
    <3>1. CASE k = p
      BY <1>3, <1>5, <3>1
    <3>2. CASE k # p
      <4>1. pc[k] \in Calling /\ job'[k] = job[k]
        BY <1>5, <3>2
      <4>2. /\ job[k].action \in Action /\ job[k].binding \in Binding
            /\ Pin(job[k].binding) = pin[job[k].action]
            /\ status[job[k].action] \notin Open
        BY <4>1 DEF CallsArePinned
      <4>3. QED
        BY <1>4, <4>1, <4>2
    <3>3. QED
      BY Zenon, <3>1, <3>2
  <2>2. \A r \in net' : r.pin = pin'[r.action] /\ status'[r.action] \notin Open
    <3> SUFFICES ASSUME NEW r \in net
                 PROVE  r.pin = pin[r.action] /\ status'[r.action] \notin Open
      BY <1>1
    <3>1. r.action \in Action
      BY DEF TypeOK
    <3>2. r.pin = pin[r.action] /\ status[r.action] \notin Open
      BY Zenon DEF CallsArePinned
    <3>3. QED
      BY Zenon, <1>4, <3>1, <3>2
  <2>3. \A c \in Action, x \in Pins : provider'[c][x] # "new" => x = pin'[c] /\ status'[c] \notin Open
    BY <1>1, <1>4 DEF CallsArePinned
  <2>4. QED
    BY Zenon, <2>1, <2>2, <2>3 DEF CallsArePinned
<1>9. OneExecution'
  <2>1. \A k \in Process : pc'[k] = "execute" =>
          pc[k] = "execute" /\ job'[k] = job[k] /\ pin'[job[k].action] = pin[job[k].action]
    BY <1>1, <1>5
  <2>2. net' \subseteq net /\ provider' = provider
    BY Zenon, <1>1
  <2>3. QED
    BY Zenon, <2>1, <2>2, OneExecutionKept
<1>10. SuccessesAreReal' /\ FailuresAreReal'
  <2>1. \A k \in Process : pc'[k] \in {"record", "settle"} =>
          \/ answer'[k] = "unknown"
          \/ /\ pc'[k] = pc[k] /\ job'[k] = job[k] /\ answer'[k] = answer[k]
             /\ pin'[job[k].action] = pin[job[k].action]
    BY <1>1, <1>5
  <2>2. \A c \in Action : status'[c] \in {"succeeded", "reconciled", "failed"} =>
          status'[c] = status[c] /\ pin'[c] = pin[c]
    BY Zenon, <1>1, <1>4
  <2>3. QED
    BY Zenon, <1>1, <2>1, <2>2, OutcomesKept
<1>11. QED
  BY Zenon, <1>6, <1>7, <1>8, <1>9, <1>10

\* The one execution of an action moves from the process to the network.
LEMMA SendInv ==
  ASSUME BindingInv, NEW p \in Process, Send(p)
  PROVE  BindingInv'
<1> USE DEF BindingInv
<1> DEFINE r == Request(p)
           l == IF pc[p] = "execute" THEN "executing" ELSE "querying"
<1>1. /\ pc[p] \in {"execute", "query"} /\ net' = net \cup {r}
      /\ pc' = [pc EXCEPT ![p] = l] /\ job' = [job EXCEPT ![p] = job[p]]
      /\ UNCHANGED <<up, config, shown, agreed, direct, presumed, status, pin, provider, answer>>
  BY Zenon DEF Send, Goto
<1>2. /\ job[p].action \in Action /\ job[p].binding \in Binding
      /\ Pin(job[p].binding) = pin[job[p].action] /\ pin[job[p].action] \in Pins
      /\ status[job[p].action] \notin Open
  BY <1>1, PinIsPin DEF CallsArePinned
<1>3. /\ r.from = p /\ r.op = pc[p] /\ r.action = job[p].action /\ r.pin = pin[r.action]
      /\ r \in [from : Process, op : {"execute", "query"}, action : Action, pin : Pins]
  BY Zenon, <1>1, <1>2 DEF Request
<1>4. l \in {"executing", "querying"}
  OBVIOUS
<1> HIDE DEF r, l
<1>5. /\ job' = job /\ pc' \in [Process -> Location]
      /\ pc'[p] = l /\ \A k \in Process \ {p} : pc'[k] = pc[k]
  BY <1>1, <1>4 DEF Location, TypeOK
<1>6. TypeOK'
  BY <1>1, <1>3, <1>4, <1>5 DEF TypeOK, Active
<1>7. Confirming'
  <2>1. \A k \in Process : pc'[k] \in {"authorize", "submit", "dispatch"} => pc'[k] = pc[k] /\ job'[k] = job[k]
    BY Zenon, <1>4, <1>5
  <2>2. QED
    BY Zenon, <1>1, <2>1, ConfirmingKept
<1>8. CallsArePinned'
  <2>1. \A k \in Process : pc'[k] \in Calling => pc[k] \in Calling
    BY <1>1, <1>5
  <2>2. \A e \in net' : e.pin = pin'[e.action] /\ status'[e.action] \notin Open
    BY <1>1, <1>2, <1>3 DEF CallsArePinned
  <2>3. QED
    BY <1>1, <1>5, <2>1, <2>2 DEF CallsArePinned
<1>9. OneExecution'
  <2>1. \A k \in Process : pc'[k] = "execute" => k # p /\ pc[k] = "execute"
    BY Zenon, <1>4, <1>5
  <2>2. r.op = "execute" =>
          /\ provider[r.action][r.pin] = "new"
          /\ \A e \in net : e.op = "execute" => e.action # r.action
          /\ \A k \in Process : pc'[k] = "execute" => job[k].action # r.action
    <3> SUFFICES ASSUME pc[p] = "execute"
                 PROVE  /\ provider[job[p].action][pin[job[p].action]] = "new"
                        /\ \A e \in net : e.op = "execute" => e.action # job[p].action
                        /\ \A k \in Process : pc'[k] = "execute" => job[k].action # job[p].action
      BY <1>3
    <3>1. \A k \in Process : pc'[k] = "execute" => job[k].action # job[p].action
      BY Zenon, <2>1 DEF OneExecution
    <3>2. QED
      BY Zenon, <3>1 DEF OneExecution
  <2>3. \A k \in Process : pc'[k] = "execute" =>
          /\ provider'[job'[k].action][pin'[job'[k].action]] = "new"
          /\ \A e \in net' : e.op = "execute" => e.action # job'[k].action
    BY <1>1, <1>5, <2>1, <2>2 DEF OneExecution
  <2>4. \A e \in net' : e.op = "execute" => provider'[e.action][e.pin] = "new"
    BY Zenon, <1>1, <2>2 DEF OneExecution
  <2>5. \A e, f \in net' : e.op = "execute" /\ f.op = "execute" /\ e.action = f.action => e = f
    BY <1>1, <2>2 DEF OneExecution
  <2>6. QED
    BY <1>5, <2>1, <2>3, <2>4, <2>5 DEF OneExecution
<1>10. SuccessesAreReal' /\ FailuresAreReal'
  <2>1. \A k \in Process : pc'[k] \in {"record", "settle"} =>
          \/ answer'[k] = "unknown"
          \/ /\ pc'[k] = pc[k] /\ job'[k] = job[k] /\ answer'[k] = answer[k]
             /\ pin'[job[k].action] = pin[job[k].action]
    BY <1>1, <1>4, <1>5
  <2>2. QED
    BY Zenon, <1>1, <2>1, OutcomesKept
<1>11. QED
  BY Zenon, <1>6, <1>7, <1>8, <1>9, <1>10

\* A request that is lost leaves fewer under way.
LEMMA LostInv ==
  ASSUME BindingInv, NEW r \in net, Lost(r)
  PROVE  BindingInv'
<1> USE DEF BindingInv
<1>1. /\ net' \subseteq net
      /\ UNCHANGED <<up, config, shown, agreed, direct, presumed, status, pin, provider, pc, job,
                     answer>>
  BY Zenon DEF Lost
<1>2. TypeOK'
  BY <1>1 DEF TypeOK, Active
<1>3. Confirming'
  BY Zenon, <1>1, ConfirmingKept
<1>4. CallsArePinned'
  BY <1>1 DEF CallsArePinned
<1>5. OneExecution'
  BY Zenon, <1>1, OneExecutionKept
<1>6. SuccessesAreReal' /\ FailuresAreReal'
  BY Zenon, <1>1, OutcomesKept
<1>7. QED
  BY Zenon, <1>2, <1>3, <1>4, <1>5, <1>6

===============================================================================
