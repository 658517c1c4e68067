-------------------------- MODULE ConversationTurn --------------------------
(***************************************************************************)
(* A turn, from the request to the action proposals it makes, on top of    *)
(* the inbox: who may speak for a customer, the agent's session, the       *)
(* intents its tools queue, and the proposals, with their confirmation.    *)
(*                                                                         *)
(*   main.py                    the turn, proposal and MCP handlers        *)
(*   tools/action_proposals.py  the model's proposal tools                 *)
(*   AccessCatalog              permissions, policies, resources           *)
(*   core/jurisdiction.py       consent, asked of one of the endpoints     *)
(*                                                                         *)
(* Every step between two awaits is an action.  The session store is a     *)
(* database: a session that was loaded is a copy, and changing the copy    *)
(* changes nothing that is stored.  The agent's runner loads a copy of its *)
(* own and stores what the tools assign.                                   *)
(***************************************************************************)
EXTENDS ConversationInbox, AccessCatalog, FiniteSets

CONSTANTS
  Actor,       \* authenticated users
  RolesOf,     \* the roles an actor's tokens carry, over time
  Customer,    \* customers; an actor with role customer is one of them
  Action,      \* consequential actions the model asks for
  Resource,    \* the system of record: id -> [type, owner, status, age, amount]
  NoResource,  \* an intent that names none
  Enforced,    \* whether the jurisdiction guard blocks or only warns
  MaxDirect    \* bound on the proposals after which none is made outside a turn

VARIABLES
  sessions,    \* stored sessions: [role, intents], by owner and conversation
  turn,        \* the local state of each request that runs a turn
  proposals,   \* action proposals, with who made and who confirmed them
  asked        \* history: the intents agents queued, with actor, customer and conversation

turnVars == <<vars, sessions, turn, proposals, asked>>

SessionKey == Actor \X Customer \X Conversation
Role == UNION {RolesOf[a] : a \in Actor}

\* What the proposal tools queue: they choose the type, the model chooses the id.
Intents(x) ==
  [action : {x}, resource : IF x \in DOMAIN ToolResource
                            THEN {i \in DOMAIN Resource : Resource[i].type = ToolResource[x]}
                            ELSE {NoResource}]
Intent == UNION {Intents(x) : x \in Action}
SessionRow == [role : Role, intents : SUBSET Intent]

ASSUME TurnAssumption ==
  /\ Nothing \notin SessionRow
  /\ Action \subseteq ActionName

Rows(i) == IF i.resource = NoResource THEN {} ELSE {Resource[i.resource]}
NoTurn == [at |-> "none", actor |-> Nothing, role |-> Nothing, customer |-> Nothing,
           seen |-> {}, work |-> {}]

SomeoneServes == \E a \in Actor, c \in Customer : \E r \in RolesOf[a] : MayServe(a, r, c)

\* JurisdictionGuard.evaluate_inbound, for what a request says of itself: a text, or a
\* voice turn with the caller's consent or without.
Voice == {"chat", "consented", "silent"}
Consented(voice) == Enforced => voice # "silent"

\* session_owner_id, with the conversation the session is looked up by.
\* Slip: the owner is the customer alone.
KeyOf_CustomerOnly(t, m) == <<CHOOSE a \in Actor : TRUE, t.customer, ConversationOf[m]>>

KeyOf(t, m) == <<t.actor, t.customer, ConversationOf[m]>>
Key(h) == KeyOf(turn[h], cur[h])

\* The row _create_action_proposal stores, with the role it was made under.
Proposal(t, i, m, procedure) ==
  [actor |-> t.actor, role |-> t.role, customer |-> t.customer, action |-> i.action,
   resource |-> i.resource, message |-> m, procedure |-> procedure, status |-> "pending",
   confirmer |-> Nothing, confirmerRole |-> Nothing]

\* ActionProposal, as far as this module tells proposals apart.
ProposalRow ==
  [actor : Actor, role : Role, customer : Customer \cup Actor, action : Action,
   resource : DOMAIN Resource \cup {NoResource}, message : Message \cup {"direct"},
   procedure : DOMAIN AllowedActions, status : {"pending", "confirmed", "cancelled"},
   confirmer : Actor \cup {Nothing}, confirmerRole : Role \cup {Nothing}]

-----------------------------------------------------------------------------

TurnInit ==
  /\ Init
  /\ sessions = [k \in SessionKey |-> Nothing]
  /\ turn = [h \in Handler |-> NoTurn]
  /\ proposals = {}
  /\ asked = {}

\* process_turn: the inbox takes the message and the turn begins, under the role
\* of the token the request came with.
BeginTurn(h, a, r, c, m) ==
  /\ Accept(h, m)
  /\ turn' = [turn EXCEPT ![h] =
       [NoTurn EXCEPT !.at = "load", !.actor = a, !.role = r, !.customer = c]]
  /\ UNCHANGED <<sessions, proposals, asked>>

\* chat_v1: its messages carry no sequence.
ChatTurn(h, a, r, c, m) ==
  /\ m \notin Sequenced
  /\ MayServe(a, r, c)
  /\ BeginTurn(h, a, r, c, m)

\* websocket_chat: the token is read when the socket is opened.
SocketTurn(h, a, r, c, m) ==
  /\ MayServe(a, r, c)
  /\ BeginTurn(h, a, r, c, m)

\* process_conversation_turn, for chat and voice.  What is refused here for want of
\* consent leaves no trace, and may come again with consent or by another endpoint.
VoiceOrChatTurn(h, a, r, c, m) ==
  /\ MayServe(a, r, c)
  /\ r = "integration" => "channel:ingest" \in Permissions(r)
  /\ \E voice \in Voice : Consented(voice)
  /\ BeginTurn(h, a, r, c, m)

\* The same requests, for a message the inbox does not take.
NotAccepted(h, m) ==
  /\ SomeoneServes
  /\ Duplicate(h, m) \/ Quarantine(h, m)
  /\ UNCHANGED <<sessions, turn, proposals, asked>>

\* accept_ivr_turn: no consent is asked for, and no turn is started, then or later:
\* when the message comes again it is a duplicate.
IvrIntake(h, m) ==
  /\ SomeoneServes
  /\ AcceptIvr(h, m)
  /\ UNCHANGED <<sessions, turn, proposals, asked>>

At(h, place) == cur[h] # Nothing /\ turn[h].at = place
Go(h, place) == turn' = [turn EXCEPT ![h].at = place]

\* _generate_safe_turn: get_session
LoadSession(h) ==
  /\ At(h, "load")
  /\ IF sessions[Key(h)] = Nothing
     THEN Go(h, "create")
     ELSE turn' = [turn EXCEPT ![h].at = "start", ![h].seen = sessions[Key(h)].intents]
  /\ UNCHANGED <<vars, sessions, proposals, asked>>

\* create_session: the role is stored once.  If another turn was faster, this raises.
CreateSession(h) ==
  /\ At(h, "create")
  /\ sessions[Key(h)] = Nothing
  /\ sessions' = [sessions EXCEPT ![Key(h)] = [role |-> turn[h].role, intents |-> {}]]
  /\ Go(h, "start")
  /\ UNCHANGED <<vars, proposals, asked>>

\* runner.run_async loads the session for the agent.
StartRun(h) ==
  /\ At(h, "start")
  /\ turn' = [turn EXCEPT ![h].at = "run", ![h].work = sessions[Key(h)].intents]
  /\ UNCHANGED <<vars, sessions, proposals, asked>>

\* _queue: the whole list is read, extended and assigned.
QueueIntent(h, i) ==
  /\ At(h, "run")
  /\ authorize_tool(sessions[Key(h)].role, i.action)
  /\ turn' = [turn EXCEPT ![h].work = @ \cup {i}]
  /\ sessions' = [sessions EXCEPT ![Key(h)].intents = turn[h].work \cup {i}]
  /\ asked' = asked \cup {<<turn[h].actor, turn[h].customer, ConversationOf[cur[h]], i>>}
  /\ UNCHANGED <<vars, proposals>>

\* The answer goes through the rails; then the intents of the loaded copy are
\* taken, and the copy's list is cleared.
Answer(h) ==
  /\ At(h, "run")
  /\ Go(h, "drain")
  /\ UNCHANGED <<vars, sessions, proposals, asked>>

\* A session or a header may name any procedure, or none.
Procedures(x) == {ActionPolicy(x, requested) : requested \in DOMAIN AllowedActions}

\* One intent: _create_action_proposal makes the proposal or raises, because of
\* the permission, the resource, or arguments that do not validate.
Drain(h, i) ==
  /\ At(h, "drain")
  /\ i \in turn[h].seen
  /\ \/ /\ ActionAccess(turn[h].role, i.action)
        /\ Prepared(i.action, Rows(i), turn[h].customer)
        /\ \E procedure \in Procedures(i.action) :
             proposals' = proposals \cup {Proposal(turn[h], i, cur[h], procedure)}
     \/ UNCHANGED proposals
  /\ turn' = [turn EXCEPT ![h].seen = @ \ {i}]
  /\ UNCHANGED <<vars, sessions, asked>>

EndTurn(h) ==
  /\ At(h, "drain")
  /\ turn[h].seen = {}
  /\ ProcessTurn(h)
  /\ turn' = [turn EXCEPT ![h] = NoTurn]
  /\ UNCHANGED <<sessions, proposals, asked>>

\* Slip: a failed turn deletes its row, so that the provider can send it again.
TurnFails_Forgets(h) ==
  /\ cur[h] # Nothing
  /\ inbox' = [inbox EXCEPT ![cur[h]] = "absent"]
  /\ cur' = [cur EXCEPT ![h] = Nothing]
  /\ turn' = [turn EXCEPT ![h] = NoTurn]
  /\ UNCHANGED <<last, turns, log, sessions, proposals, asked>>

\* Something raises, or the process dies; the row stays.
TurnFails(h) ==
  /\ Crash(h)
  /\ turn' = [turn EXCEPT ![h] = NoTurn]
  /\ UNCHANGED <<sessions, proposals, asked>>

\* A proposal made outside a turn; "direct" stands for its message.
ProposeAs(a, r, c, i, procedure) ==
  LET t == [NoTurn EXCEPT !.actor = a, !.role = r, !.customer = c]
  IN  /\ Cardinality(proposals) < MaxDirect
      /\ MayServe(a, r, c)
      /\ ActionAccess(r, i.action)
      /\ Prepared(i.action, Rows(i), c)
      /\ proposals' = proposals \cup {Proposal(t, i, "direct", procedure)}
      /\ UNCHANGED <<vars, sessions, turn, asked>>

\* create_action_proposal
Prepare(a, r, c, i) == ProposeAs(a, r, c, i, DefaultProcedure[i.action])

\* The MCP tool actions_prepare.  A customer's own id replaces the header that
\* names the customer; another header may name the procedure.
McpCustomer(a, r, header) == IF r = "customer" THEN a ELSE header
McpPrepare(a, r, header, i) ==
  \E procedure \in Procedures(i.action) :
    ProposeAs(a, r, McpCustomer(a, r, header), i, procedure)

\* _owned_proposal
Owned(a, r, p) == MayServe(a, r, p.customer) /\ p.actor = a

\* confirm_action_proposal; what the bridge does then is ActionBridge's matter.
ConfirmProposal(a, r, p) ==
  /\ p.status = "pending"
  /\ Owned(a, r, p)
  /\ ActionAccess(r, p.action)
  /\ proposals' = (proposals \ {p}) \cup
       {[p EXCEPT !.status = "confirmed", !.confirmer = a, !.confirmerRole = r]}
  /\ UNCHANGED <<vars, sessions, turn, asked>>

\* cancel_action_proposal asks for no permission on the action.
CancelProposal(a, r, p) ==
  /\ p.status = "pending"
  /\ Owned(a, r, p)
  /\ proposals' = (proposals \ {p}) \cup {[p EXCEPT !.status = "cancelled"]}
  /\ UNCHANGED <<vars, sessions, turn, asked>>

TurnStep(h) ==
  \/ LoadSession(h) \/ CreateSession(h) \/ StartRun(h) \/ Answer(h) \/ EndTurn(h) \/ TurnFails(h)
  \/ \E i \in Intent : Drain(h, i)

Request(h, a, r, c, m) ==
  ChatTurn(h, a, r, c, m) \/ SocketTurn(h, a, r, c, m) \/ VoiceOrChatTurn(h, a, r, c, m)

TurnNext ==
  \/ \E h \in Handler, m \in Message :
       \/ NotAccepted(h, m) \/ IvrIntake(h, m)
       \/ \E a \in Actor, c \in Customer : \E r \in RolesOf[a] : Request(h, a, r, c, m)
  \/ \E h \in Handler : TurnStep(h) \/ \E i \in Intent : QueueIntent(h, i)
  \/ \E a \in Actor : \E r \in RolesOf[a] :
       \/ \E c \in Customer, i \in Intent : Prepare(a, r, c, i) \/ McpPrepare(a, r, c, i)
       \/ \E p \in proposals : ConfirmProposal(a, r, p) \/ CancelProposal(a, r, p)

TurnSpec == TurnInit /\ [][TurnNext]_turnVars

-----------------------------------------------------------------------------
(* Properties. *)

\* Every variable has the type the code gives it.
TurnTypeOK ==
  /\ TypeOK
  /\ sessions \in [SessionKey -> SessionRow \cup {Nothing}]
  /\ proposals \subseteq ProposalRow
  /\ \A h \in Handler :
       /\ turn[h].at \in {"none", "load", "create", "start", "run", "drain"}
       /\ turn[h].at = "none" <=> cur[h] = Nothing
       /\ turn[h].seen \cup turn[h].work \subseteq Intent
       /\ turn[h].at \in {"start", "run", "drain"} => sessions[Key(h)] # Nothing

\* Seen through the inbox alone, a turn of many steps is the one step in which
\* ConversationInbox completes it, and a turn that fails is its crash.
ImplementsInbox == Spec

\* A proposal is made, and confirmed, only under a role that may take the action
\* at that moment, although the intent was queued with the permissions the session
\* was created under; it is confirmed by its maker alone; its policy lists it; and
\* the money or the dispute it is about is the serviced customer's.
ProposalsAreEntitled ==
  \A p \in proposals :
    /\ p.action \in AllowedActions[p.procedure]
    /\ p.action \in CustomerBound => Resource[p.resource].owner = p.customer
    /\ p.role = "customer" => p.actor = p.customer /\ p.action = "issue_refund"
    /\ p.role \notin {"readonly", "integration"}
    /\ p.status = "confirmed" =>
         /\ p.confirmer = p.actor
         /\ p.confirmerRole \notin {"readonly", "integration"}

\* A proposal of a turn comes from the same actor's session with the same customer:
\* the agent of that session asked for it, in that turn or an earlier one.
ProposedWasAsked ==
  \A p \in proposals : p.message # "direct" =>
    <<p.actor, p.customer, ConversationOf[p.message], [action |-> p.action, resource |-> p.resource]>>
      \in asked

=============================================================================
