-------------------------- MODULE ConversationInbox --------------------------
(***************************************************************************)
(* The inbox of one channel provider: deduplication by message id, the     *)
(* sequence check of each conversation, quarantine and resending, and the  *)
(* turn that an accepted message starts.                                   *)
(*                                                                         *)
(*   core/kernel.py            SQLiteCoreStore.accept_message_result       *)
(*   conversation/service.py   ConversationService.process_turn            *)
(*   main.py                   the turns, chat and IVR endpoints           *)
(*                                                                         *)
(* accept_message_result is one BEGIN IMMEDIATE transaction and is one     *)
(* action; the turn runs after it, concurrently with other requests.       *)
(* Providers have separate inboxes, so one provider is enough.             *)
(***************************************************************************)
EXTENDS Naturals, Sequences

CONSTANTS
  Message,         \* message ids of the provider
  ConversationOf,  \* the conversation of each message
  SeqOf,           \* its sequence number, or NoSequence
  Handler,         \* concurrent requests
  NoSequence,
  Nothing

Conversation == {ConversationOf[m] : m \in Message}
Sequenced == {m \in Message : SeqOf[m] # NoSequence}

ASSUME InboxAssumption ==
  /\ \A m \in Sequenced : SeqOf[m] \in Nat
  /\ NoSequence \notin Nat /\ Nothing \notin Nat /\ Nothing \notin Message
  /\ NoSequence # Nothing

VARIABLES
  inbox,   \* conversation_inbox_v3.ordering_status
  last,    \* conversation_sequences.last_sequence
  cur,     \* the message whose turn a request processes
  turns,   \* history: how many turns of each message were completed
  log      \* history: the messages of each conversation in order of acceptance

vars == <<inbox, last, cur, turns, log>>

Init ==
  /\ inbox = [m \in Message |-> "absent"]
  /\ last = [c \in Conversation |-> Nothing]
  /\ cur = [h \in Handler |-> Nothing]
  /\ turns = [m \in Message |-> 0]
  /\ log = [c \in Conversation |-> <<>>]

-------------------------------------------------------------------------------
LastOf(m) == last[ConversationOf[m]]

\* Slip: the message id is not looked up.
Known_Never(m) == FALSE

\* Slip: a quarantined message counts as received.
Known_Quarantined(m) == inbox[m] # "absent"

Known(m) == inbox[m] = "accepted"

Overtaken(m) == m \in Sequenced /\ LastOf(m) # Nothing /\ SeqOf[m] <= LastOf(m)

\* Slip: off by one, a gap of one message is not noticed.
Gap_Late(m) == m \in Sequenced /\ LastOf(m) # Nothing /\ SeqOf[m] > LastOf(m) + 2

Gap(m) == m \in Sequenced /\ LastOf(m) # Nothing /\ SeqOf[m] > LastOf(m) + 1

Duplicate(h, m) ==
  /\ cur[h] = Nothing
  /\ Known(m) \/ Overtaken(m)
  /\ UNCHANGED vars

\* First delivery or resend of a message that is still ahead of its turn.
Quarantine(h, m) ==
  /\ cur[h] = Nothing
  /\ ~Known(m) /\ ~Overtaken(m) /\ Gap(m)
  /\ inbox' = [inbox EXCEPT ![m] = "quarantined"]
  /\ UNCHANGED <<last, cur, turns, log>>

Insert(m) ==
  /\ ~Known(m) /\ ~Overtaken(m) /\ ~Gap(m)
  /\ inbox' = [inbox EXCEPT ![m] = "accepted"]
  /\ last' = IF m \in Sequenced THEN [last EXCEPT ![ConversationOf[m]] = SeqOf[m]] ELSE last
  /\ log' = [log EXCEPT ![ConversationOf[m]] = Append(@, m)]

\* process_turn, up to the call of the processor.
Accept(h, m) ==
  /\ cur[h] = Nothing
  /\ Insert(m)
  /\ cur' = [cur EXCEPT ![h] = m]
  /\ UNCHANGED turns

\* The IVR intake endpoint accepts a message and starts no turn; its messages
\* carry no sequence.
AcceptIvr(h, m) ==
  /\ cur[h] = Nothing
  /\ m \notin Sequenced
  /\ Insert(m)
  /\ UNCHANGED <<cur, turns>>

ProcessTurn(h) ==
  /\ cur[h] # Nothing
  /\ turns' = [turns EXCEPT ![cur[h]] = @ + 1]
  /\ cur' = [cur EXCEPT ![h] = Nothing]
  /\ UNCHANGED <<inbox, last, log>>

\* The processor raises or the process dies: the turn is gone, the row stays.
Crash(h) ==
  /\ cur[h] # Nothing
  /\ cur' = [cur EXCEPT ![h] = Nothing]
  /\ UNCHANGED <<inbox, last, turns, log>>

Deliver(h, m) == Duplicate(h, m) \/ Quarantine(h, m) \/ Accept(h, m)

Next ==
  \/ \E h \in Handler, m \in Message : Deliver(h, m) \/ AcceptIvr(h, m)
  \/ \E h \in Handler : ProcessTurn(h) \/ Crash(h)

Spec == Init /\ [][Next]_vars

\* A started turn ends, and the provider sends every message, again and again until it is answered
\* as accepted or duplicate (docs/channels.md:22-23).
Fairness ==
  /\ \A h \in Handler : WF_vars(ProcessTurn(h) \/ Crash(h))
  /\ \A m \in Message : SF_vars(\E h \in Handler : Quarantine(h, m) \/ Accept(h, m))

FairSpec == Spec /\ Fairness

-------------------------------------------------------------------------------
(* Properties. *)

\* Every variable has the type the schema and the code give it.
TypeOK ==
  /\ inbox \in [Message -> {"absent", "accepted", "quarantined"}]
  /\ last \in [Conversation -> {SeqOf[m] : m \in Sequenced} \cup {Nothing}]
  /\ cur \in [Handler -> Message \cup {Nothing}]
  /\ turns \in [Message -> Nat]
  /\ log \in [Conversation -> Seq(Message)]

\* However often a message is delivered, resent and delivered to two requests at
\* once, it gets at most one turn, and only once it is accepted.
AtMostOneTurn ==
  \A m \in Message :
    /\ turns[m] \in {0, 1}
    /\ turns[m] = 1 => inbox[m] = "accepted"
    /\ \A h \in Handler : cur[h] = m =>
         turns[m] = 0 /\ inbox[m] = "accepted" /\ \A k \in Handler : cur[k] = m => k = h

\* The sequenced messages of a conversation are accepted in order of their numbers
\* and without a gap, whatever order they arrive in.
AcceptedInOrder ==
  \A c \in Conversation : \A i, j \in 1 .. Len(log[c]) :
    /\ i < j
    /\ log[c][i] \in Sequenced /\ log[c][j] \in Sequenced
    /\ \A k \in i + 1 .. j - 1 : log[c][k] \notin Sequenced
    => SeqOf[log[c][j]] = SeqOf[log[c][i]] + 1

\* A provider that keeps resending gets every quarantined message accepted, unless
\* another message took its sequence number.
QuarantineEnds ==
  \A m \in Message : inbox[m] = "quarantined" ~> (inbox[m] = "accepted" \/ Overtaken(m))

===============================================================================
