-------------------------- MODULE ProcedureExecutor --------------------------
(***************************************************************************)
(* Procedures loaded from YAML, the per-session executor that tracks the   *)
(* progress of one, the session state it keeps in step with, and the audit *)
(* records it writes.                                                      *)
(*                                                                         *)
(*   procedures/loader.py, registry.py   validate_procedure, load_all      *)
(*   procedures/executor.py              ProcedureExecutor and its registry*)
(*                                                                         *)
(* One session.  A call is a coroutine on the executor the registry names  *)
(* when the call begins; it gives way at the exit hooks and at the audit   *)
(* write.  The enter hooks come after the last effect of a call and are    *)
(* its return; hooks that raise are swallowed.  Executor objects no call   *)
(* and no registry refers to are reused for new ones.                      *)
(***************************************************************************)
EXTENDS AuditTrail

CONSTANTS
  StepId,         \* step ids a file may mention
  ProcedureFile,  \* YAML files
  Parsed,         \* their contents: [first, steps], see Step
  Executor,       \* executor objects
  Caller,         \* concurrent callers working on the session
  MaxCalls,       \* bound on the number of calls
  None

\* A step of a file; a field the file leaves out is None or empty.
Target == StepId \cup {"end"}
Step == [next : Target \cup {None}, on_success : Target \cup {None},
         on_failure : Target \cup {None}, conditions : SUBSET Target,
         options : SUBSET Target, action : {"tool_call", "inform"}, tool : BOOLEAN]

\* loader.validate_procedure: every reference is a step of the file or "end",
\* and a tool_call names its tool.
Refs(step) ==
  ({step.next, step.on_success, step.on_failure} \ {None}) \cup step.conditions \cup step.options

\* Slip: the options of a step are not validated.
validate_procedure_NoOptions(file) ==
  \A s \in DOMAIN Parsed[file].steps :
    /\ Refs([Parsed[file].steps[s] EXCEPT !.options = {}]) \subseteq DOMAIN Parsed[file].steps \cup {"end"}
    /\ Parsed[file].steps[s].action = "tool_call" => Parsed[file].steps[s].tool

validate_procedure(file) ==
  \A s \in DOMAIN Parsed[file].steps :
    /\ Refs(Parsed[file].steps[s]) \subseteq DOMAIN Parsed[file].steps \cup {"end"}
    /\ Parsed[file].steps[s].action = "tool_call" => Parsed[file].steps[s].tool

\* ProcedureRegistry.load_all skips the files that do not validate.
Loaded == {file \in ProcedureFile : validate_procedure(file)}

\* A record of the trail: what happened, the step it names, the step it left.
ExecutorEntry == [act : {"started", "moved", "completed", "escalated"},
                  step : Target \cup {None}, from : StepId \cup {None}]

\* A file that loads has a first step (step_order[0]) and records of the trail are
\* what the executor writes, among others.
ASSUME ExecutorAssumption ==
  /\ ExecutorEntry \subseteq Entry
  /\ Loaded # {}
  /\ \A file \in Loaded :
       /\ DOMAIN Parsed[file].steps \subseteq StepId
       /\ Parsed[file].first \in DOMAIN Parsed[file].steps
       /\ \A s \in DOMAIN Parsed[file].steps : Parsed[file].steps[s] \in Step
  /\ None \notin Executor /\ None \notin Target
  /\ MaxCalls \in Nat

\* ProcedureExecutor.__init__: "end" is a valid target of every step.
ValidTransitions(file, s) == Refs(Parsed[file].steps[s]) \cup {"end"}

VARIABLES
  registry,   \* the executor of the session
  ex,         \* the executor objects
  session,    \* the workflow keys of the session state
  call,       \* what each caller is doing
  calls,      \* the calls begun so far, for MaxCalls
  writer,     \* history: the executor that last wrote the session's step
  raced,      \* history: two calls were in flight since the executor was created
  unlogged    \* history: a move since then has no audit record

executorVars == <<registry, ex, session, call, calls, writer, raced, unlogged>>
vars == <<trailVars, executorVars>>

Status == {"not_started", "in_progress", "completed", "escalated"}
ExecutorState == [file : Loaded, status : Status,
                  current : StepId \cup {None}, done : SUBSET StepId]
SessionState == [status : Status, step : StepId \cup {None}, done : SUBSET StepId]
NoEntry == [act |-> "none", step |-> None, from |-> None]

\* at "exit": in the exit hooks; "log": the record is being written; "enter":
\* resumed, with "to" still to be entered; to = None: the call then returns.
Call == [at : {"idle", "exit", "log", "enter"}, e : Executor \cup {None},
         to : Target \cup {None}, entry : ExecutorEntry \cup {NoEntry}]
Idle == [at |-> "idle", e |-> None, to |-> None, entry |-> NoEntry]

Entered(act, step, from) == [act |-> act, step |-> step, from |-> from]
InFlight == {c \in Caller : call[c].at # "idle"}
New(file) == [file |-> file, status |-> "not_started", current |-> None, done |-> {}]

Init ==
  /\ TrailInit
  /\ registry = None
  /\ ex \in [Executor -> {New(CHOOSE f \in Loaded : TRUE)}]
  /\ session = [status |-> "not_started", step |-> None, done |-> {}]
  /\ call = [c \in Caller |-> Idle]
  /\ calls = 0
  /\ writer = None
  /\ raced = FALSE
  /\ unlogged = FALSE

\* ProcedureExecutorRegistry.create: the executor of the session is replaced,
\* the calls in flight on the old one keep running.
Create(e, file) ==
  /\ ready
  /\ registry # e
  /\ \A c \in InFlight : call[c].e # e
  /\ registry' = e
  /\ ex' = [ex EXCEPT ![e] = New(file)]
  /\ writer' = IF writer = e THEN None ELSE writer
  /\ raced' = (InFlight # {})
  /\ unlogged' = FALSE
  /\ UNCHANGED <<trailVars, session, call, calls>>

\* ProcedureExecutorRegistry.remove
RemoveExecutor ==
  /\ registry # None
  /\ registry' = None
  /\ UNCHANGED <<trailVars, ex, session, call, calls, writer, raced, unlogged>>

Counted == calls < MaxCalls /\ calls' = calls + 1

\* A caller takes the executor of the session and goes on to location "at".
Begins(c, at, to, entry) ==
  /\ registry # None
  /\ call[c].at = "idle"
  /\ Counted
  /\ call' = [call EXCEPT ![c] = [at |-> at, e |-> registry, to |-> to, entry |-> entry]]
  /\ raced' = (raced \/ InFlight # {})

\* _update_session_state
Shown(e, x, step) ==
  /\ session' = [status |-> x.status, step |-> step, done |-> x.done]
  /\ writer' = e

\* start: refused while in progress; the steps of an earlier pass are kept.
Start(c) ==
  /\ registry # None
  /\ ex[registry].status # "in_progress"
  /\ LET x == [ex[registry] EXCEPT !.status = "in_progress"]
     IN  /\ ex' = [ex EXCEPT ![registry] = x]
         /\ Shown(registry, x, Parsed[x.file].first)
         /\ Begins(c, "log", Parsed[x.file].first, Entered("started", Parsed[x.file].first, None))
  /\ UNCHANGED <<trailVars, registry, unlogged>>

\* enter_step, up to its hooks, by the caller of a call that reached it.
\* Slip: the session keeps showing the step that was left.
Enter_StaleSession(e, step) ==
  LET x == [ex[e] EXCEPT !.current = step, !.done = @ \ {step}]
  IN  /\ ex' = [ex EXCEPT ![e] = x]
      /\ Shown(e, x, ex[e].current)

Enter(e, step) ==
  LET x == [ex[e] EXCEPT !.current = step, !.done = @ \ {step}]
  IN  /\ ex' = [ex EXCEPT ![e] = x]
      /\ Shown(e, x, step)

\* enter_step called by the host: any step of the procedure, with no record.
EnterStep(c) ==
  /\ registry # None
  /\ call[c].at = "idle"
  /\ Counted
  /\ \E step \in DOMAIN Parsed[ex[registry].file].steps : Enter(registry, step)
  /\ raced' = (raced \/ InFlight # {})
  /\ unlogged' = TRUE
  /\ UNCHANGED <<trailVars, registry, call>>

\* transition: the target is validated and the step completed before the hooks.
Transition(c) ==
  /\ registry # None
  /\ ex[registry].current # None
  /\ \E to \in ValidTransitions(ex[registry].file, ex[registry].current) :
       Begins(c, "exit", to, NoEntry)
  /\ ex' = [ex EXCEPT ![registry].done = @ \cup {ex[registry].current}]
  /\ UNCHANGED <<trailVars, registry, session, writer, unlogged>>

\* transition, after the hooks: the record names the step that is current now.
AfterExitHooks(c) ==
  /\ call[c].at = "exit"
  /\ call' = [call EXCEPT ![c].at = "log",
                          ![c].entry = Entered("moved", call[c].to, ex[call[c].e].current)]
  /\ UNCHANGED <<trailVars, registry, ex, session, calls, writer, raced, unlogged>>

\* AuditLogger.log within a call: the record is written or lost, the call
\* resumes later.
WriteRecord(c) ==
  /\ call[c].at = "log"
  /\ \/ Log(call[c].entry) /\ UNCHANGED unlogged
     \/ LogLost /\ unlogged' = TRUE
  /\ call' = [call EXCEPT ![c] = IF call[c].to = None THEN Idle ELSE [@ EXCEPT !.at = "enter"]]
  /\ UNCHANGED <<registry, ex, session, calls, writer, raced>>

\* start and transition, after the record: enter_step of a step of the procedure.
ResumeEnter(c) ==
  /\ call[c].at = "enter"
  /\ call[c].to \in DOMAIN Parsed[ex[call[c].e].file].steps
  /\ Enter(call[c].e, call[c].to)
  /\ call' = [call EXCEPT ![c] = Idle]
  /\ UNCHANGED <<trailVars, registry, calls, raced, unlogged>>

\* complete, up to its record.
\* Slip: the executor keeps its current step.
Finished_KeepsStep(e) ==
  /\ ex' = [ex EXCEPT ![e].status = "completed"]
  /\ session' = [session EXCEPT !.status = "completed", !.step = None]
  /\ writer' = e

Finished(e) ==
  /\ ex' = [ex EXCEPT ![e].status = "completed", ![e].current = None]
  /\ session' = [session EXCEPT !.status = "completed", !.step = None]
  /\ writer' = e

\* transition to "end", after its record.
ResumeEnd(c) ==
  /\ call[c].at = "enter"
  /\ call[c].to = "end"
  /\ Finished(call[c].e)
  /\ call' = [call EXCEPT ![c].at = "log", ![c].to = None,
                          ![c].entry = Entered("completed", None, None)]
  /\ UNCHANGED <<trailVars, registry, calls, raced, unlogged>>

\* complete called by the host.
Complete(c) ==
  /\ Begins(c, "log", None, Entered("completed", None, None))
  /\ Finished(registry)
  /\ UNCHANGED <<trailVars, registry, unlogged>>

\* escalate: the current step is kept, so the procedure can still move on.
Escalate(c) ==
  /\ Begins(c, "log", None, Entered("escalated", None, ex[registry].current))
  /\ ex' = [ex EXCEPT ![registry].status = "escalated"]
  /\ session' = [session EXCEPT !.status = "escalated"]
  /\ UNCHANGED <<trailVars, registry, writer, unlogged>>

\* The process stops and starts again: executors are in memory only, the
\* session state and the trail are not.
Restart ==
  /\ InitDb
  /\ registry' = None
  /\ call' = [c \in Caller |-> Idle]
  /\ UNCHANGED <<ex, session, calls, writer, raced, unlogged>>

Tampered == Outside /\ UNCHANGED executorVars

Next ==
  \/ Restart
  \/ RemoveExecutor
  \/ \E e \in Executor, file \in Loaded : Create(e, file)
  \/ \E c \in Caller :
       \/ Start(c) \/ EnterStep(c) \/ Transition(c) \/ AfterExitHooks(c) \/ WriteRecord(c)
       \/ ResumeEnter(c) \/ ResumeEnd(c) \/ Complete(c) \/ Escalate(c)
  \/ Tampered

Spec == Init /\ [][Next]_vars

-----------------------------------------------------------------------------

\* Executors hold loaded procedures, and calls, session and trail have the shape the
\* code gives them.
TypeOK ==
  /\ TrailTypeOK
  /\ registry \in Executor \cup {None}
  /\ ex \in [Executor -> ExecutorState]
  /\ session \in SessionState
  /\ call \in [Caller -> Call]
  /\ calls \in 0 .. MaxCalls
  /\ writer \in Executor \cup {None}
  /\ raced \in BOOLEAN
  /\ unlogged \in BOOLEAN

\* The step a call is about to enter exists in its procedure, so no call fails
\* after it completed the step it left: what the loader validates covers every
\* target the executor's graph is built from.
EntersKnownStep ==
  \A c \in Caller :
    call[c].at # "idle" /\ call[c].to # None =>
      call[c].to \in DOMAIN Parsed[ex[call[c].e].file].steps \cup {"end"}

\* The session state shows the status and the step of the executor that wrote its
\* step last, however the calls of the session interleave; between the first and the
\* second half of a start it already shows the first step.  Once no call is in
\* flight, a procedure in progress also shows the steps completed so far.
Starting(e) == \E c \in InFlight : call[c].e = e /\ call[c].entry.act = "started"
SessionFollows ==
  writer # None /\ writer = registry =>
    /\ session.status = ex[writer].status
    /\ session.step = ex[writer].current \/ Starting(writer)
    /\ InFlight = {} /\ session.status = "in_progress" => session.done = ex[writer].done

\* When the calls of a session came one after the other and none of their records
\* was lost, the newest record of the trail tells where the procedure is.
Explains(r, x) ==
  \/ r.act = "started" /\ x.status = "in_progress" /\ x.current = Parsed[x.file].first
  \/ r.act = "moved" /\ x.status \in {"in_progress", "escalated"} /\ x.current = r.step
  \/ r.act = "completed" /\ x.status = "completed" /\ x.current = None
  \/ r.act = "escalated" /\ x.status = "escalated" /\ x.current = r.from
AuditExplains ==
  registry # None /\ InFlight = {} /\ ~ raced /\ ~ unlogged =>
    \/ ex[registry].status = "not_started"
    \/ ledger # << >> /\ Explains(Newest(ledger), ex[registry])

==============================================================================
