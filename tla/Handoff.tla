------------------------------- MODULE Handoff -------------------------------
(***************************************************************************)
(* The handoff of a conversation to a human agent: the request that        *)
(* creates and enqueues it, and the callbacks of the agent platform.       *)
(*                                                                         *)
(*   conversation/runtime.py   ConversationRuntime: request_handoff,       *)
(*                             accept_handoff, transition_handoff          *)
(*   core/kernel.py            create_handoff, transition_handoff          *)
(*   integrations/sandbox.py   SQLiteHandoffQueueAdapter.enqueue           *)
(*   main.py                   the handoff and callback endpoints          *)
(*                                                                         *)
(* Handoffs have fresh ids and never interact, so the module models one.   *)
(* A transition reads the row, checks the table of allowed transitions and *)
(* then compares and sets the status in a second transaction.  Callbacks   *)
(* may be delayed, repeated and reordered; the platform sends them once it *)
(* has the ticket.                                                         *)
(***************************************************************************)
CONSTANTS
  Agent,     \* human agents
  Handler,   \* requests applying callbacks
  Creator,   \* the request that creates the handoff
  NoAgent    \* assigned_agent_id is NULL

Status == {"requested", "queued", "accepted", "rejected", "timed_out", "failed",
           "reassigned", "connected", "resolved", "bot_reentry"}
Request == Handler \cup {Creator}

ASSUME HandoffAssumption == Creator \notin Handler /\ NoAgent \notin Agent

VARIABLES
  status,   \* handoffs.status, "none" before the row exists
  agent,    \* handoffs.assigned_agent_id
  ticket,   \* the agent platform has a ticket for the handoff
  at,       \* where each request is
  seen,     \* the status a request read
  wanted,   \* the status it is going to set
  who,      \* the agent it is going to store
  holders   \* history: the agents told they have the handoff since it was last given up

handoffVars == <<status, agent, ticket, at, seen, wanted, who, holders>>
rowVars == <<status, agent, holders>>
wishVars == <<seen, wanted, who>>

Position == {"create", "enqueue", "queue", "update", "idle"}

\* Slip: an accepted handoff can be accepted again.
Allowed_Reaccept(s) ==
  {t \in Status :
     \/ s = "requested" /\ t \in {"queued", "accepted", "rejected", "failed"}
     \/ s = "queued" /\ t \in {"accepted", "timed_out", "reassigned", "failed"}
     \/ s = "reassigned" /\ t \in {"accepted", "timed_out", "failed"}
     \/ s = "accepted" /\ t \in {"accepted", "connected", "reassigned", "failed"}
     \/ s = "connected" /\ t \in {"resolved", "bot_reentry", "failed"}
     \/ s \in {"resolved", "rejected"} /\ t = "bot_reentry"
     \/ s \in {"timed_out", "failed"} /\ t \in {"reassigned", "bot_reentry"}}

Allowed(s) ==
  {t \in Status :
     \/ s = "requested" /\ t \in {"queued", "accepted", "rejected", "failed"}
     \/ s = "queued" /\ t \in {"accepted", "timed_out", "reassigned", "failed"}
     \/ s = "reassigned" /\ t \in {"accepted", "timed_out", "failed"}
     \/ s = "accepted" /\ t \in {"connected", "reassigned", "failed"}
     \/ s = "connected" /\ t \in {"resolved", "bot_reentry", "failed"}
     \/ s \in {"resolved", "rejected"} /\ t = "bot_reentry"
     \/ s \in {"timed_out", "failed"} /\ t \in {"reassigned", "bot_reentry"}}

HandoffInit ==
  /\ status = "none"
  /\ agent = NoAgent
  /\ ticket = FALSE
  /\ at = [r \in Request |-> IF r = Creator THEN "create" ELSE "idle"]
  /\ seen = [r \in Request |-> "none"]
  /\ wanted = [r \in Request |-> "none"]
  /\ who = [r \in Request |-> NoAgent]
  /\ holders = {}

MoveTo(r, l) == at' = [at EXCEPT ![r] = l]

-------------------------------------------------------------------------------
CreateHandoff ==
  /\ at[Creator] = "create"
  /\ status' = "requested"
  /\ MoveTo(Creator, "enqueue")
  /\ UNCHANGED <<agent, holders, ticket, wishVars>>

\* Slip: the ticket is created when the row is already queued.
Enqueue_Later ==
  /\ at[Creator] = "enqueue"
  /\ MoveTo(Creator, "queue")
  /\ UNCHANGED <<rowVars, ticket, wishVars>>

Enqueue ==
  /\ at[Creator] = "enqueue"
  /\ ticket' = TRUE
  /\ MoveTo(Creator, "queue")
  /\ UNCHANGED <<rowVars, wishVars>>

\* transition_handoff reads the row and finds the transition allowed.
ReadAllowed(r, s, x) ==
  /\ s \in Allowed(status)
  /\ seen' = [seen EXCEPT ![r] = status]
  /\ wanted' = [wanted EXCEPT ![r] = s]
  /\ who' = [who EXCEPT ![r] = x]
  /\ MoveTo(r, "update")
  /\ UNCHANGED <<rowVars, ticket>>

\* The endpoint marks the handoff queued; a callback may have come first.
MarkQueued ==
  /\ at[Creator] = "queue"
  /\ \/ ReadAllowed(Creator, "queued", NoAgent)
     \/ /\ "queued" \notin Allowed(status)
        /\ MoveTo(Creator, "idle")
        /\ UNCHANGED <<rowVars, ticket, wishVars>>

\* A callback of the agent platform; assigned_agent_id is optional.  One that is
\* not allowed raises and changes nothing.
Callback(r, s, x) ==
  /\ at[r] = "idle"
  /\ ticket
  /\ ReadAllowed(r, s, x)

AcceptHandoff(r, x) ==
  /\ at[r] = "idle"
  /\ status = "requested"
  /\ ReadAllowed(r, "accepted", x)

\* Those who hold the handoff once it has status s, agent x having been stored.
HoldersAfter(s, x) ==
  IF s = "accepted" THEN holders \cup {x} ELSE IF s = "connected" THEN holders ELSE {}

\* Slip: the status is not compared.
TransitionHandoff_NoCompare(r) ==
  /\ at[r] = "update"
  /\ status' = wanted[r]
  /\ agent' = who[r]
  /\ holders' = HoldersAfter(wanted[r], who[r])
  /\ MoveTo(r, "idle")
  /\ UNCHANGED <<ticket, wishVars>>

\* The compare-and-set; a mismatch raises HandoffConflict.
TransitionHandoff(r) ==
  /\ at[r] = "update"
  /\ \/ /\ status = seen[r]
        /\ status' = wanted[r]
        /\ agent' = who[r]
        /\ holders' = HoldersAfter(wanted[r], who[r])
     \/ status # seen[r] /\ UNCHANGED rowVars
  /\ MoveTo(r, "idle")
  /\ UNCHANGED <<ticket, wishVars>>

\* The request fails or its process dies: nothing resumes it.
RequestDies(r) ==
  /\ at[r] \in {"enqueue", "queue", "update"}
  /\ MoveTo(r, "idle")
  /\ UNCHANGED <<rowVars, ticket, wishVars>>

HandoffNext ==
  \/ CreateHandoff
  \/ Enqueue
  \/ MarkQueued
  \/ \E r \in Handler, s \in Status, x \in Agent \cup {NoAgent} : Callback(r, s, x)
  \/ \E r \in Handler, x \in Agent : AcceptHandoff(r, x)
  \/ \E r \in Request : TransitionHandoff(r) \/ RequestDies(r)

HandoffSpec == HandoffInit /\ [][HandoffNext]_handoffVars

-------------------------------------------------------------------------------
(* Properties. *)

\* Every variable has the type the schema and the code give it; the row exists from
\* the moment the creating request goes on.
HandoffTypeOK ==
  /\ status \in Status \cup {"none"}
  /\ status = "none" <=> at[Creator] = "create"
  /\ agent \in Agent \cup {NoAgent}
  /\ ticket \in BOOLEAN
  /\ at \in [Request -> Position]
  /\ seen \in [Request -> Status \cup {"none"}]
  /\ wanted \in [Request -> Status \cup {"none"}]
  /\ who \in [Request -> Agent \cup {NoAgent}]
  /\ holders \subseteq Agent \cup {NoAgent}

\* Two agents never both hold the handoff, however their acceptances, reassignments
\* and stale reads interleave, and somebody holds it while it is accepted or connected.
OneHolder ==
  /\ \A x, y \in holders : x = y
  /\ status \in {"accepted", "connected"} <=> holders # {}

\* "Provider acknowledgment means queued": a queued handoff has a ticket at the agent
\* platform, also when the creating request died on the way.
QueuedIsAcknowledged == status = "queued" => ticket

\* The row only moves along the table of transition_handoff, although the table is
\* consulted for a status read in an earlier transaction.
MovesAreAllowed ==
  [][status # "none" /\ status' # status => status' \in Allowed(status)]_handoffVars

===============================================================================
