------------------------- MODULE ConversationProofs -------------------------
(***************************************************************************)
(* Proofs about ConversationInbox and the turns on top of it, for any      *)
(* messages, conversations, numbering, actors, customers and number of     *)
(* concurrent requests.                                                    *)
(*                                                                         *)
(* The row of a message is accepted before its turn starts and never again *)
(* afterwards; the last sequence of a conversation is the number of the    *)
(* newest numbered message in its log.  What a turn proposes is in the     *)
(* stored session of its actor and customer, where only its agent puts it. *)
(***************************************************************************)
EXTENDS ConversationTurn, TLAPS

\* A message has one turn, running or completed, and that only once it is accepted.
OneTurn ==
  /\ \A h \in Handler : cur[h] # Nothing => inbox[cur[h]] = "accepted" /\ turns[cur[h]] = 0
  /\ \A g, h \in Handler : cur[g] = cur[h] /\ cur[h] # Nothing => g = h
  /\ \A m \in Message : turns[m] \in {0, 1} /\ (turns[m] = 1 => inbox[m] = "accepted")

\* conversation_sequences has the number of the newest numbered message.
LastIsLogged ==
  \A c \in Conversation :
    /\ last[c] = Nothing => \A k \in 1 .. Len(log[c]) : log[c][k] \notin Sequenced
    /\ last[c] # Nothing =>
         \E k \in 1 .. Len(log[c]) :
           /\ log[c][k] \in Sequenced
           /\ SeqOf[log[c][k]] = last[c]
           /\ \A j \in k + 1 .. Len(log[c]) : log[c][j] \notin Sequenced

InboxInv == TypeOK /\ OneTurn /\ LastIsLogged /\ AcceptedInOrder

USE InboxAssumption

\* The empty inbox satisfies the invariant.
LEMMA InitInboxInv == Init => InboxInv
<1> SUFFICES ASSUME Init PROVE InboxInv
  OBVIOUS
<1>1. TypeOK
  BY DEF Init, TypeOK
<1>2. OneTurn
  BY DEF Init, OneTurn
<1>3. LastIsLogged /\ AcceptedInOrder
  BY DEF Init, LastIsLogged, AcceptedInOrder
<1>4. QED
  BY Zenon, <1>1, <1>2, <1>3 DEF InboxInv

\* A message has a conversation, and a numbered one a natural number.
LEMMA MessageTypes ==
  ASSUME NEW m \in Message
  PROVE  ConversationOf[m] \in Conversation /\ (m \in Sequenced => SeqOf[m] \in Nat)
BY Zenon DEF Conversation, Sequenced

\* accept_message_result keeps the log in order: a numbered message that is inserted
\* is the successor of the last one, or the first of its conversation.
LEMMA InsertInv ==
  ASSUME InboxInv, NEW m \in Message, Insert(m)
  PROVE  /\ inbox' \in [Message -> {"absent", "accepted", "quarantined"}]
         /\ last' \in [Conversation -> {SeqOf[n] : n \in Sequenced} \cup {Nothing}]
         /\ log' \in [Conversation -> Seq(Message)]
         /\ LastIsLogged'
         /\ AcceptedInOrder'
<1> DEFINE c0 == ConversationOf[m]
<1>1. /\ inbox' = [inbox EXCEPT ![m] = "accepted"]
      /\ last' = IF m \in Sequenced THEN [last EXCEPT ![c0] = SeqOf[m]] ELSE last
      /\ log' = [log EXCEPT ![c0] = Append(@, m)]
      /\ ~ Overtaken(m) /\ ~ Gap(m)
  BY Zenon DEF Insert
<1>2. c0 \in Conversation /\ (m \in Sequenced => SeqOf[m] \in Nat /\ SeqOf[m] # Nothing)
  BY Zenon, MessageTypes
<1>3. /\ inbox \in [Message -> {"absent", "accepted", "quarantined"}]
      /\ last \in [Conversation -> {SeqOf[n] : n \in Sequenced} \cup {Nothing}]
      /\ log \in [Conversation -> Seq(Message)]
  BY Zenon DEF InboxInv, TypeOK
<1>4. m \in Sequenced /\ last[c0] # Nothing => last[c0] \in Nat /\ SeqOf[m] = last[c0] + 1
  <2> SUFFICES ASSUME m \in Sequenced, last[c0] # Nothing
               PROVE  last[c0] \in Nat /\ SeqOf[m] = last[c0] + 1
    OBVIOUS
  <2>1. last[c0] \in Nat
    BY <1>2, <1>3 DEF Sequenced
  <2>2. QED
    BY <1>1, <1>2, <2>1 DEF Overtaken, Gap, LastOf
<1> HIDE DEF c0
<1>5. /\ \A c \in Conversation \ {c0} : log'[c] = log[c] /\ last'[c] = last[c]
      /\ last'[c0] = IF m \in Sequenced THEN SeqOf[m] ELSE last[c0]
      /\ log'[c0] = Append(log[c0], m)
  BY Zenon, <1>1, <1>2, <1>3
<1>6. inbox' \in [Message -> {"absent", "accepted", "quarantined"}]
  BY Zenon, <1>1, <1>3
<1>7. last' \in [Conversation -> {SeqOf[n] : n \in Sequenced} \cup {Nothing}]
  BY Zenon, <1>1, <1>2, <1>3
<1>8. log' \in [Conversation -> Seq(Message)]
  BY <1>1, <1>2, <1>3
<1>9. PICK n \in Nat : n = Len(log[c0])
  BY <1>2, <1>3
<1>10. /\ Len(log'[c0]) = n + 1
       /\ log'[c0][n + 1] = m
       /\ \A k \in 1 .. n : log'[c0][k] = log[c0][k]
  BY <1>2, <1>3, <1>5, <1>9
<1>11. LastIsLogged'
  <2> SUFFICES ASSUME NEW c \in Conversation
               PROVE  /\ last'[c] = Nothing => \A k \in 1 .. Len(log'[c]) : log'[c][k] \notin Sequenced
                      /\ last'[c] # Nothing =>
                           \E k \in 1 .. Len(log'[c]) :
                             /\ log'[c][k] \in Sequenced
                             /\ SeqOf[log'[c][k]] = last'[c]
                             /\ \A j \in k + 1 .. Len(log'[c]) : log'[c][j] \notin Sequenced
    BY Zenon DEF LastIsLogged
  <2>1. CASE c # c0
    <3>1. log'[c] = log[c] /\ last'[c] = last[c]
      BY Zenon, <1>5, <2>1
    <3>2. LastIsLogged
      BY Zenon DEF InboxInv
    <3>3. /\ last[c] = Nothing => \A k \in 1 .. Len(log[c]) : log[c][k] \notin Sequenced
          /\ last[c] # Nothing =>
               \E k \in 1 .. Len(log[c]) :
                 /\ log[c][k] \in Sequenced
                 /\ SeqOf[log[c][k]] = last[c]
                 /\ \A j \in k + 1 .. Len(log[c]) : log[c][j] \notin Sequenced
      BY <3>2, Zenon DEF LastIsLogged
    <3>4. QED
      BY <3>1, <3>3, Zenon
  <2>2. CASE c = c0 /\ m \in Sequenced
    BY <1>2, <1>5, <1>10, <2>2
  <2>3. CASE c = c0 /\ m \notin Sequenced
    <3>1. last'[c0] = last[c0]
      BY Zenon, <1>5, <2>3
    <3>2. CASE last[c0] = Nothing
      BY <1>2, <1>9, <1>10, <2>3, <3>1, <3>2 DEF InboxInv, LastIsLogged
    <3>3. CASE last[c0] # Nothing
      <4>1. PICK k \in 1 .. n : /\ log[c0][k] \in Sequenced
                                /\ SeqOf[log[c0][k]] = last[c0]
                                /\ \A j \in k + 1 .. n : log[c0][j] \notin Sequenced
        BY Zenon, <1>2, <1>9, <3>3 DEF InboxInv, LastIsLogged
      <4>2. /\ k \in 1 .. n + 1
            /\ log'[c0][k] \in Sequenced /\ SeqOf[log'[c0][k]] = last'[c0]
            /\ \A j \in k + 1 .. n + 1 : log'[c0][j] \notin Sequenced
        <5>1. k \in 1 .. n + 1 /\ log'[c0][k] = log[c0][k]
          BY <1>10, <4>1
        <5>2. ASSUME NEW j \in k + 1 .. n + 1 PROVE log'[c0][j] \notin Sequenced
          <6>1. j = n + 1 \/ (j \in k + 1 .. n /\ j \in 1 .. n)
            BY <4>1
          <6>2. QED
            BY Zenon, <1>10, <2>3, <4>1, <6>1
        <5>3. QED
          BY Zenon, <3>1, <4>1, <5>1, <5>2
      <4>3. QED
        BY Zenon, <1>10, <2>3, <3>1, <3>3, <4>2
    <3>4. QED
      BY Zenon, <3>2, <3>3
  <2>4. QED
    BY Zenon, <2>1, <2>2, <2>3
<1>12. AcceptedInOrder'
  <2> SUFFICES ASSUME NEW c \in Conversation,
                      NEW i \in 1 .. Len(log'[c]), NEW j \in 1 .. Len(log'[c]), i < j,
                      log'[c][i] \in Sequenced, log'[c][j] \in Sequenced,
                      \A k \in i + 1 .. j - 1 : log'[c][k] \notin Sequenced
               PROVE  SeqOf[log'[c][j]] = SeqOf[log'[c][i]] + 1
    BY Zenon DEF AcceptedInOrder
  <2>1. CASE c # c0
    <3>1. log'[c] = log[c]
      BY Zenon, <1>5, <2>1
    <3>2. /\ i \in 1 .. Len(log[c]) /\ j \in 1 .. Len(log[c])
          /\ log[c][i] \in Sequenced /\ log[c][j] \in Sequenced
          /\ \A k \in i + 1 .. j - 1 : log[c][k] \notin Sequenced
      BY Zenon, <3>1
    <3>3. SeqOf[log[c][j]] = SeqOf[log[c][i]] + 1
      BY Zenon, <3>2 DEF InboxInv, AcceptedInOrder
    <3>4. QED
      BY Zenon, <3>1, <3>3
  <2>2. CASE c = c0 /\ j \in 1 .. n
    <3>1. i \in 1 .. n /\ log'[c0][i] = log[c0][i] /\ log'[c0][j] = log[c0][j]
      BY <1>10, <2>2
    <3>2. ASSUME NEW k \in i + 1 .. j - 1 PROVE log[c0][k] \notin Sequenced
      <4>1. k \in 1 .. n
        BY <2>2, <3>1
      <4>2. QED
        BY Zenon, <1>10, <2>2, <4>1
    <3>3. /\ i \in 1 .. Len(log[c0]) /\ j \in 1 .. Len(log[c0])
          /\ log[c0][i] \in Sequenced /\ log[c0][j] \in Sequenced
      BY Zenon, <1>9, <2>2, <3>1
    <3>4. SeqOf[log[c0][j]] = SeqOf[log[c0][i]] + 1
      BY <1>2, <3>2, <3>3 DEF InboxInv, AcceptedInOrder
    <3>5. QED
      BY Zenon, <2>2, <3>1, <3>4
  <2>3. CASE c = c0 /\ j = n + 1
    <3>1. i \in 1 .. n /\ log'[c0][i] = log[c0][i] /\ log'[c0][j] = m /\ m \in Sequenced
      BY <1>10, <2>3
    <3>2. log[c0][i] \in Sequenced
      BY Zenon, <3>1, <2>3
    <3>3. last[c0] # Nothing
      BY Zenon, <1>2, <1>9, <3>1, <3>2 DEF InboxInv, LastIsLogged
    <3>4. PICK k \in 1 .. n : /\ log[c0][k] \in Sequenced
                              /\ SeqOf[log[c0][k]] = last[c0]
                              /\ \A l \in k + 1 .. n : log[c0][l] \notin Sequenced
      BY Zenon, <1>2, <1>9, <3>3 DEF InboxInv, LastIsLogged
    <3>5. i <= k
      BY <3>1, <3>2, <3>4
    <3>6. k <= i
      <4> SUFFICES ASSUME k > i PROVE FALSE
        BY <3>1, <3>4
      <4>1. k \in i + 1 .. j - 1 /\ log'[c0][k] = log[c0][k]
        BY <1>10, <2>3, <3>1, <3>4
      <4>2. QED
        BY Zenon, <2>3, <3>4, <4>1
    <3>7. i = k
      BY <3>1, <3>4, <3>5, <3>6
    <3>8. QED
      BY Zenon, <1>4, <2>3, <3>1, <3>3, <3>4, <3>7
  <2>4. QED
    BY <1>10, <2>1, <2>2, <2>3
<1>13. QED
  BY Zenon, <1>6, <1>7, <1>8, <1>11, <1>12

\* A step that changes nothing keeps the invariant.
LEMMA StutterInv == InboxInv /\ UNCHANGED vars => InboxInv'
<1> SUFFICES ASSUME InboxInv, UNCHANGED vars PROVE InboxInv'
  OBVIOUS
<1>1. TypeOK' /\ OneTurn'
  BY Zenon DEF vars, InboxInv, TypeOK, OneTurn
<1>2. LastIsLogged'
  BY Zenon DEF vars, InboxInv, LastIsLogged
<1>3. AcceptedInOrder'
  <2>1. log' = log
    BY Zenon DEF vars
  <2>2. QED
    BY Zenon, <2>1 DEF InboxInv, AcceptedInOrder
<1>4. QED
  BY Zenon, <1>1, <1>2, <1>3 DEF InboxInv

\* Every step of a request keeps the invariant.
LEMMA NextInboxInv == InboxInv /\ [Next]_vars => InboxInv'
<1> SUFFICES ASSUME InboxInv, [Next]_vars PROVE InboxInv'
  OBVIOUS
<1>1. ASSUME NEW h \in Handler, NEW m \in Message, Duplicate(h, m)
      PROVE  InboxInv'
  BY Zenon, <1>1, StutterInv DEF Duplicate
<1>2. ASSUME NEW h \in Handler, NEW m \in Message, Quarantine(h, m)
      PROVE  InboxInv'
  <2>1. /\ inbox' = [inbox EXCEPT ![m] = "quarantined"]
        /\ inbox[m] # "accepted"
        /\ UNCHANGED <<last, cur, turns, log>>
    BY Zenon, <1>2 DEF Quarantine, Known
  <2>2. TypeOK'
    BY Zenon, <2>1 DEF InboxInv, TypeOK
  <2>3. OneTurn'
    BY <2>1 DEF InboxInv, TypeOK, OneTurn
  <2>4. LastIsLogged' /\ AcceptedInOrder'
    BY <2>1 DEF InboxInv, LastIsLogged, AcceptedInOrder
  <2>5. QED
    BY Zenon, <2>2, <2>3, <2>4 DEF InboxInv
<1>3. ASSUME NEW h \in Handler, NEW m \in Message, Accept(h, m) \/ AcceptIvr(h, m)
      PROVE  InboxInv'
  <2>1. /\ inbox' = [inbox EXCEPT ![m] = "accepted"]
        /\ inbox[m] # "accepted"
        /\ cur' = [cur EXCEPT ![h] = m] \/ cur' = cur
        /\ turns' = turns
        /\ Insert(m)
    BY Zenon, <1>3 DEF Accept, AcceptIvr, Insert, Known
  <2>2. TypeOK'
    BY Zenon, <2>1, InsertInv DEF InboxInv, TypeOK
  <2>3. OneTurn'
    <3>1. turns[m] = 0 /\ \A g \in Handler : cur[g] # m
      BY <2>1 DEF InboxInv, TypeOK, OneTurn
    <3>2. \A n \in Message : inbox[n] = "accepted" => inbox'[n] = "accepted"
      BY Zenon, <2>1 DEF InboxInv, TypeOK
    <3>3. \A g \in Handler : cur'[g] = cur[g] \/ (g = h /\ cur'[g] = m)
      BY Zenon, <2>1 DEF InboxInv, TypeOK
    <3>4. inbox'[m] = "accepted"
      BY Zenon, <2>1 DEF InboxInv, TypeOK
    <3>5. \A g \in Handler : cur'[g] # Nothing =>
            inbox'[cur'[g]] = "accepted" /\ turns'[cur'[g]] = 0
      BY <2>1, <3>1, <3>2, <3>3, <3>4 DEF InboxInv, TypeOK, OneTurn
    <3>6. \A f, g \in Handler : cur'[f] = cur'[g] /\ cur'[g] # Nothing => f = g
      BY <3>1, <3>3 DEF InboxInv, OneTurn
    <3>7. \A n \in Message : turns'[n] \in {0, 1} /\ (turns'[n] = 1 => inbox'[n] = "accepted")
      BY Zenon, <2>1, <3>2 DEF InboxInv, OneTurn
    <3>8. QED
      BY Zenon, <3>5, <3>6, <3>7 DEF OneTurn
  <2>4. QED
    BY Zenon, <2>1, <2>2, <2>3, InsertInv DEF InboxInv
<1>4. ASSUME NEW h \in Handler, ProcessTurn(h) \/ Crash(h)
      PROVE  InboxInv'
  <2>1. /\ cur[h] \in Message
        /\ cur' = [cur EXCEPT ![h] = Nothing]
        /\ turns' = [turns EXCEPT ![cur[h]] = @ + 1] \/ turns' = turns
        /\ UNCHANGED <<inbox, last, log>>
    BY Zenon, <1>4 DEF ProcessTurn, Crash, InboxInv, TypeOK
  <2>2. TypeOK'
    BY <2>1 DEF InboxInv, TypeOK
  <2>3. OneTurn'
    BY <2>1 DEF InboxInv, TypeOK, OneTurn
  <2>4. LastIsLogged' /\ AcceptedInOrder'
    BY <2>1 DEF InboxInv, LastIsLogged, AcceptedInOrder
  <2>5. QED
    BY Zenon, <2>2, <2>3, <2>4 DEF InboxInv
<1>5. CASE UNCHANGED vars
  BY Zenon, <1>5, StutterInv
<1>6. QED
  BY Zenon, <1>1, <1>2, <1>3, <1>4, <1>5 DEF Next, Deliver

\* The invariant holds throughout, whatever is delivered to how many requests.
THEOREM InboxIsSafe == Spec => []InboxInv
<1>1. QED
  BY InitInboxInv, NextInboxInv, PTL DEF Spec

\* The rows and the requests have the types the schema and the code give them.
THEOREM InboxTypes == Spec => []TypeOK
<1>1. InboxInv => TypeOK
  BY Zenon DEF InboxInv
<1>2. QED
  BY InboxIsSafe, <1>1, PTL

\* A message gets at most one turn, however often and to however many requests it
\* is delivered.
THEOREM TurnHappensOnce == Spec => []AtMostOneTurn
<1>1. InboxInv => AtMostOneTurn
  <2> SUFFICES ASSUME InboxInv PROVE AtMostOneTurn
    OBVIOUS
  <2>1. \A m \in Message : turns[m] \in {0, 1} /\ (turns[m] = 1 => inbox[m] = "accepted")
    BY Zenon DEF InboxInv, OneTurn
  <2>2. \A m \in Message, h \in Handler : cur[h] = m =>
          /\ turns[m] = 0 /\ inbox[m] = "accepted"
          /\ \A k \in Handler : cur[k] = m => k = h
    BY DEF InboxInv, OneTurn
  <2>3. QED
    BY Zenon, <2>1, <2>2 DEF AtMostOneTurn
<1>2. QED
  BY InboxIsSafe, <1>1, PTL

\* Numbered messages are accepted in order and without a gap.
THEOREM NoGaps == Spec => []AcceptedInOrder
<1>1. InboxInv => AcceptedInOrder
  BY Zenon DEF InboxInv
<1>2. QED
  BY InboxIsSafe, <1>1, PTL

-----------------------------------------------------------------------------
(* Turns. *)

\* A step of a turn is a step of the inbox, or none.
LEMMA TurnStepRefines == [TurnNext]_turnVars => [Next]_vars
<1> SUFFICES ASSUME [TurnNext]_turnVars PROVE [Next]_vars
  OBVIOUS
<1>1. CASE UNCHANGED turnVars
  BY Zenon, <1>1 DEF turnVars
<1>2. ASSUME NEW h \in Handler, NEW m \in Message, NotAccepted(h, m) \/ IvrIntake(h, m)
      PROVE  [Next]_vars
  BY Zenon, <1>2 DEF NotAccepted, IvrIntake, Next, Deliver
<1>3. ASSUME NEW h \in Handler, NEW m \in Message, NEW a, NEW r, NEW c, Request(h, a, r, c, m)
      PROVE  [Next]_vars
  <2>1. Accept(h, m)
    BY Zenon, <1>3 DEF Request, ChatTurn, SocketTurn, VoiceOrChatTurn, BeginTurn
  <2>2. QED
    BY Zenon, <2>1 DEF Next, Deliver
<1>4. ASSUME NEW h \in Handler, TurnStep(h) PROVE [Next]_vars
  <2>1. CASE EndTurn(h) \/ TurnFails(h)
    BY Zenon, <2>1 DEF EndTurn, TurnFails, Next
  <2>2. ASSUME NEW i \in Intent, Drain(h, i) PROVE [Next]_vars
    BY Zenon, <2>2 DEF Drain
  <2>3. CASE LoadSession(h) \/ CreateSession(h) \/ StartRun(h) \/ Answer(h)
    BY Zenon, <2>3 DEF LoadSession, CreateSession, StartRun, Answer
  <2>4. QED
    BY Zenon, <1>4, <2>1, <2>2, <2>3 DEF TurnStep
<1>5. ASSUME NEW h \in Handler, NEW i \in Intent, QueueIntent(h, i) PROVE [Next]_vars
  BY Zenon, <1>5 DEF QueueIntent
<1>6. ASSUME NEW a \in Actor, NEW r, NEW c, NEW i, Prepare(a, r, c, i) \/ McpPrepare(a, r, c, i)
      PROVE  [Next]_vars
  BY Zenon, <1>6 DEF Prepare, McpPrepare, ProposeAs
<1>7. ASSUME NEW a \in Actor, NEW r, NEW p \in proposals, ConfirmProposal(a, r, p) \/ CancelProposal(a, r, p)
      PROVE  [Next]_vars
  BY Zenon, <1>7 DEF ConfirmProposal, CancelProposal
<1>8. QED
  BY Zenon, <1>1, <1>2, <1>3, <1>4, <1>5, <1>6, <1>7 DEF TurnNext

\* With sessions, agents and proposals around it, the inbox is still the one of
\* ConversationInbox.
THEOREM TurnRefinesInbox == TurnSpec => ImplementsInbox
<1>1. TurnInit => Init
  BY Zenon DEF TurnInit
<1>2. [TurnNext]_turnVars => [Next]_vars
  BY Zenon, TurnStepRefines
<1>3. QED
  BY <1>1, <1>2, PTL DEF TurnSpec, Spec, ImplementsInbox

\* So what the inbox guarantees holds with everything that turns do around it: replays,
\* failing turns and turns of other conversations give no message a second turn, and no
\* conversation a gap.
THEOREM TurnsKeepOrder == TurnSpec => [](AtMostOneTurn /\ AcceptedInOrder)
<1>1. QED
  BY TurnRefinesInbox, TurnHappensOnce, NoGaps, PTL DEF ImplementsInbox

\* The invariant behind ProposedWasAsked.  Every place an intent can be in (a stored
\* session, the copy a turn drains, the copy its agent extends) holds only intents
\* asked for by the same owner in the same conversation.
TurnRow ==
  [at : {"none", "load", "create", "start", "run", "drain"}, actor : Actor \cup {Nothing},
   role : Role \cup {Nothing}, customer : Customer \cup {Nothing},
   seen : SUBSET Intent, work : SUBSET Intent]

SessionsAreAsked ==
  \A k \in SessionKey : sessions[k] # Nothing =>
    \A i \in sessions[k].intents : <<k[1], k[2], k[3], i>> \in asked

TurnIsAsked(t, m, S, A) ==
  /\ t.actor \in Actor /\ t.customer \in Customer /\ t.role \in Role
  /\ \A i \in t.seen \cup t.work : <<t.actor, t.customer, ConversationOf[m], i>> \in A
  /\ t.at \in {"start", "run", "drain"} => S[KeyOf(t, m)] # Nothing

\* The fields of a proposal that confirming and cancelling leave alone.
Identity == {"actor", "customer", "message", "action", "resource"}

AskedProposals == ProposedWasAsked /\ \A p \in proposals : Identity \subseteq DOMAIN p

TurnInv ==
  /\ sessions \in [SessionKey -> SessionRow \cup {Nothing}]
  /\ turn \in [Handler -> TurnRow]
  /\ SessionsAreAsked
  /\ \A h \in Handler : cur[h] # Nothing => TurnIsAsked(turn[h], cur[h], sessions, asked)
  /\ AskedProposals

\* More that was asked for, and more sessions, keep a turn right.
LEMMA TurnIsAskedKept ==
  ASSUME NEW t \in TurnRow, NEW m \in Message, TurnIsAsked(t, m, sessions, asked),
         asked \subseteq asked',
         \A k \in SessionKey : sessions[k] # Nothing => sessions'[k] # Nothing
  PROVE  TurnIsAsked(t, m, sessions', asked')
<1>1. KeyOf(t, m) \in SessionKey
  BY Zenon, MessageTypes DEF TurnIsAsked, KeyOf, SessionKey
<1>2. t.at \in {"start", "run", "drain"} => sessions'[KeyOf(t, m)] # Nothing
  BY Zenon, <1>1 DEF TurnIsAsked
<1>3. QED
  BY Zenon, <1>2 DEF TurnIsAsked

\* A step of one turn.
LEMMA OneTurnInv ==
  ASSUME TurnInv, TypeOK, NEW h \in Handler, NEW t \in TurnRow,
         turn' = [turn EXCEPT ![h] = t],
         \A g \in Handler \ {h} : cur'[g] = cur[g],
         cur'[h] # Nothing => TurnIsAsked(t, cur'[h], sessions', asked'),
         sessions' \in [SessionKey -> SessionRow \cup {Nothing}],
         \A k \in SessionKey : sessions[k] # Nothing => sessions'[k] # Nothing,
         SessionsAreAsked', asked \subseteq asked', AskedProposals'
  PROVE  TurnInv'
<1>1. turn' \in [Handler -> TurnRow] /\ turn'[h] = t /\ \A g \in Handler \ {h} : turn'[g] = turn[g]
  BY Zenon DEF TurnInv
<1>2. ASSUME NEW g \in Handler, cur'[g] # Nothing
      PROVE  TurnIsAsked(turn'[g], cur'[g], sessions', asked')
  <2>1. CASE g = h
    BY Zenon, <1>1, <1>2, <2>1
  <2>2. CASE g # h
    <3>1. turn'[g] = turn[g] /\ cur'[g] = cur[g] /\ turn[g] \in TurnRow
      BY Zenon, <1>1, <2>2 DEF TurnInv
    <3>2. cur[g] \in Message /\ TurnIsAsked(turn[g], cur[g], sessions, asked)
      BY Zenon, <1>2, <3>1 DEF TurnInv, TypeOK
    <3>3. TurnIsAsked(turn[g], cur[g], sessions', asked')
      BY Zenon, <3>1, <3>2, TurnIsAskedKept
    <3>4. QED
      BY Zenon, <3>1, <3>3
  <2>3. QED
    BY Zenon, <2>1, <2>2
<1>3. QED
  BY Zenon, <1>1, <1>2 DEF TurnInv

\* The session of a running turn, and the intents it may load from it.
LEMMA RunningTurn ==
  ASSUME TurnInv, TypeOK, NEW h \in Handler, cur[h] # Nothing
  PROVE  /\ cur[h] \in Message /\ turn[h] \in TurnRow
         /\ TurnIsAsked(turn[h], cur[h], sessions, asked)
         /\ Key(h) = <<turn[h].actor, turn[h].customer, ConversationOf[cur[h]]>>
         /\ Key(h) \in SessionKey
         /\ sessions[Key(h)] # Nothing =>
              /\ sessions[Key(h)] \in SessionRow
              /\ \A i \in sessions[Key(h)].intents :
                   <<turn[h].actor, turn[h].customer, ConversationOf[cur[h]], i>> \in asked
<1>1. cur[h] \in Message /\ turn[h] \in TurnRow
  BY Zenon DEF TurnInv, TypeOK
<1>2. TurnIsAsked(turn[h], cur[h], sessions, asked)
  BY Zenon DEF TurnInv
<1>3. Key(h) = <<turn[h].actor, turn[h].customer, ConversationOf[cur[h]]>>
  BY Zenon DEF Key, KeyOf
<1>4. Key(h) \in SessionKey
  BY <1>1, <1>2, <1>3, MessageTypes DEF TurnIsAsked, SessionKey
<1>5. sessions[Key(h)] # Nothing => sessions[Key(h)] \in SessionRow
  BY Zenon, <1>4 DEF TurnInv
<1>6. sessions[Key(h)] # Nothing =>
        \A i \in sessions[Key(h)].intents : <<Key(h)[1], Key(h)[2], Key(h)[3], i>> \in asked
  BY Zenon, <1>4 DEF TurnInv, SessionsAreAsked
<1>7. /\ Key(h)[1] = turn[h].actor /\ Key(h)[2] = turn[h].customer
      /\ Key(h)[3] = ConversationOf[cur[h]]
  BY <1>3
<1>8. QED
  BY Zenon, <1>1, <1>2, <1>3, <1>4, <1>5, <1>6, <1>7

\* Loading a session, running the agent and answering change the local state only.
LEMMA LocalStepInv ==
  ASSUME TurnInv, TypeOK, NEW h \in Handler, LoadSession(h) \/ StartRun(h) \/ Answer(h)
  PROVE  TurnInv'
<1>1. cur[h] # Nothing /\ UNCHANGED <<vars, sessions, proposals, asked>>
  BY Zenon DEF LoadSession, StartRun, Answer, At
<1>2. UNCHANGED <<cur, sessions, proposals, asked>>
  BY Zenon, <1>1 DEF vars
<1>3. /\ cur[h] \in Message /\ turn[h] \in TurnRow
      /\ TurnIsAsked(turn[h], cur[h], sessions, asked)
      /\ Key(h) = <<turn[h].actor, turn[h].customer, ConversationOf[cur[h]]>>
      /\ sessions[Key(h)] # Nothing =>
           /\ sessions[Key(h)] \in SessionRow
           /\ \A i \in sessions[Key(h)].intents :
                <<turn[h].actor, turn[h].customer, ConversationOf[cur[h]], i>> \in asked
  BY Zenon, <1>1, RunningTurn
<1>4. ASSUME NEW t \in TurnRow, turn' = [turn EXCEPT ![h] = t],
             TurnIsAsked(t, cur[h], sessions, asked)
      PROVE  TurnInv'
  <2>1. /\ SessionsAreAsked' /\ AskedProposals'
        /\ sessions' \in [SessionKey -> SessionRow \cup {Nothing}]
    BY Zenon, <1>2 DEF TurnInv, SessionsAreAsked, AskedProposals, ProposedWasAsked
  <2>2. /\ TurnIsAsked(t, cur'[h], sessions', asked')
        /\ \A g \in Handler \ {h} : cur'[g] = cur[g]
        /\ \A k \in SessionKey : sessions[k] # Nothing => sessions'[k] # Nothing
        /\ asked \subseteq asked'
    BY Zenon, <1>2, <1>4
  <2>3. QED
    BY Zenon, <1>4, <2>1, <2>2, OneTurnInv
<1>5. CASE LoadSession(h) /\ sessions[Key(h)] = Nothing
  <2> DEFINE t == [turn[h] EXCEPT !.at = "create"]
  <2>1. turn' = [turn EXCEPT ![h] = t]
    BY Zenon, <1>5 DEF LoadSession, Go
  <2>2. t \in TurnRow
    BY Zenon, <1>3 DEF TurnRow
  <2>3. TurnIsAsked(t, cur[h], sessions, asked)
    BY Zenon, <1>3 DEF TurnIsAsked, TurnRow
  <2>4. QED
    BY Zenon, <1>4, <2>1, <2>2, <2>3
<1>6. CASE LoadSession(h) /\ sessions[Key(h)] # Nothing
  <2> DEFINE t == [turn[h] EXCEPT !.at = "start", !.seen = sessions[Key(h)].intents]
  <2>1. turn' = [turn EXCEPT ![h] = t]
    BY Zenon, <1>6 DEF LoadSession
  <2>2. t \in TurnRow
    BY Zenon, <1>3, <1>6 DEF TurnRow, SessionRow
  <2>3. /\ t.actor = turn[h].actor /\ t.customer = turn[h].customer /\ t.role = turn[h].role
        /\ t.seen = sessions[Key(h)].intents /\ t.work = turn[h].work
    BY Zenon, <1>3 DEF TurnRow
  <2> HIDE DEF t
  <2>4. KeyOf(t, cur[h]) = Key(h)
    BY Zenon, <2>3 DEF KeyOf, Key
  <2>5. TurnIsAsked(t, cur[h], sessions, asked)
    BY Zenon, <1>3, <1>6, <2>3, <2>4 DEF TurnIsAsked
  <2>6. QED
    BY Zenon, <1>4, <2>1, <2>2, <2>5
<1>7. CASE StartRun(h)
  <2> DEFINE t == [turn[h] EXCEPT !.at = "run", !.work = sessions[Key(h)].intents]
  <2>1. turn' = [turn EXCEPT ![h] = t]
    BY Zenon, <1>7 DEF StartRun
  <2>2. sessions[Key(h)] # Nothing
    BY Zenon, <1>3, <1>7 DEF StartRun, At, TurnIsAsked, Key
  <2>3. t \in TurnRow
    BY Zenon, <1>3, <2>2 DEF TurnRow, SessionRow
  <2>4. /\ t.actor = turn[h].actor /\ t.customer = turn[h].customer /\ t.role = turn[h].role
        /\ t.work = sessions[Key(h)].intents /\ t.seen = turn[h].seen
    BY Zenon, <1>3 DEF TurnRow
  <2> HIDE DEF t
  <2>5. KeyOf(t, cur[h]) = Key(h)
    BY Zenon, <2>4 DEF KeyOf, Key
  <2>6. TurnIsAsked(t, cur[h], sessions, asked)
    BY Zenon, <1>3, <2>2, <2>4, <2>5 DEF TurnIsAsked
  <2>7. QED
    BY Zenon, <1>4, <2>1, <2>3, <2>6
<1>8. CASE Answer(h)
  <2> DEFINE t == [turn[h] EXCEPT !.at = "drain"]
  <2>1. turn' = [turn EXCEPT ![h] = t] /\ turn[h].at = "run"
    BY Zenon, <1>8 DEF Answer, Go, At
  <2>2. t \in TurnRow
    BY Zenon, <1>3 DEF TurnRow
  <2>3. /\ t.actor = turn[h].actor /\ t.customer = turn[h].customer /\ t.role = turn[h].role
        /\ t.work = turn[h].work /\ t.seen = turn[h].seen
    BY Zenon, <1>3 DEF TurnRow
  <2> HIDE DEF t
  <2>4. KeyOf(t, cur[h]) = Key(h)
    BY Zenon, <2>3 DEF KeyOf, Key
  <2>5. TurnIsAsked(t, cur[h], sessions, asked)
    BY Zenon, <1>3, <2>1, <2>3, <2>4 DEF TurnIsAsked, Key
  <2>6. QED
    BY Zenon, <1>4, <2>1, <2>2, <2>5
<1>9. QED
  BY Zenon, <1>5, <1>6, <1>7, <1>8

\* An intent is the record of its two fields.
LEMMA IntentIs ==
  ASSUME NEW i \in Intent
  PROVE  [action |-> i.action, resource |-> i.resource] = i
<1>1. PICK x \in Action : i \in Intents(x)
  BY Zenon DEF Intent
<1>2. QED
  BY Zenon, <1>1 DEF Intents

\* create_session stores a session without intents.
LEMMA CreateSessionInv ==
  ASSUME TurnInv, TypeOK, NEW h \in Handler, CreateSession(h)
  PROVE  TurnInv'
<1> DEFINE t == [turn[h] EXCEPT !.at = "start"]
           row == [role |-> turn[h].role, intents |-> {}]
<1>1. /\ cur[h] # Nothing /\ sessions[Key(h)] = Nothing
      /\ sessions' = [sessions EXCEPT ![Key(h)] = row] /\ turn' = [turn EXCEPT ![h] = t]
      /\ UNCHANGED <<cur, proposals, asked>>
  BY Zenon DEF CreateSession, At, Go, vars
<1>2. /\ cur[h] \in Message /\ turn[h] \in TurnRow
      /\ TurnIsAsked(turn[h], cur[h], sessions, asked)
      /\ Key(h) \in SessionKey
  BY Zenon, <1>1, RunningTurn
<1>3. row \in SessionRow
  BY Zenon, <1>2 DEF SessionRow, TurnIsAsked
<1>4. row # Nothing /\ row.intents = {}
  BY Zenon, <1>3, TurnAssumption
<1>5. t \in TurnRow
  BY Zenon, <1>2 DEF TurnRow
<1>6. /\ t.actor = turn[h].actor /\ t.customer = turn[h].customer /\ t.role = turn[h].role
      /\ t.work = turn[h].work /\ t.seen = turn[h].seen
  BY Zenon, <1>2 DEF TurnRow
<1> HIDE DEF t, row
<1>7. /\ sessions' \in [SessionKey -> SessionRow \cup {Nothing}]
      /\ sessions'[Key(h)] = row
      /\ \A k \in SessionKey \ {Key(h)} : sessions'[k] = sessions[k]
  BY Zenon, <1>1, <1>2, <1>3 DEF TurnInv
<1>8. \A k \in SessionKey : sessions[k] # Nothing => sessions'[k] # Nothing
  BY Zenon, <1>4, <1>7
<1>9. SessionsAreAsked'
  BY Zenon, <1>1, <1>4, <1>7 DEF SessionsAreAsked, TurnInv
<1>10. KeyOf(t, cur[h]) = Key(h)
  BY Zenon, <1>6 DEF KeyOf, Key
<1>11. TurnIsAsked(t, cur'[h], sessions', asked')
  BY Zenon, <1>1, <1>2, <1>4, <1>6, <1>7, <1>10 DEF TurnIsAsked
<1>12. AskedProposals'
  BY Zenon, <1>1 DEF AskedProposals, ProposedWasAsked, TurnInv
<1>13. (\A g \in Handler \ {h} : cur'[g] = cur[g]) /\ asked \subseteq asked'
  BY Zenon, <1>1
<1>14. QED
  BY Zenon, <1>1, <1>5, <1>7, <1>8, <1>9, <1>11, <1>12, <1>13, OneTurnInv

\* _queue writes the whole list of its own copy: every intent of it was asked for in
\* this session, though one that another turn wrote in between is lost.
LEMMA QueueIntentInv ==
  ASSUME TurnInv, TypeOK, NEW h \in Handler, NEW i \in Intent, QueueIntent(h, i)
  PROVE  TurnInv'
<1> DEFINE t == [turn[h] EXCEPT !.work = @ \cup {i}]
           row == [sessions[Key(h)] EXCEPT !.intents = turn[h].work \cup {i}]
           entry == <<turn[h].actor, turn[h].customer, ConversationOf[cur[h]], i>>
<1>1. /\ cur[h] # Nothing /\ turn[h].at = "run" /\ turn' = [turn EXCEPT ![h] = t]
      /\ sessions' = [sessions EXCEPT ![Key(h)] = row]
      /\ asked' = asked \cup {entry} /\ UNCHANGED <<cur, proposals>>
  BY Zenon DEF QueueIntent, At, vars
<1>2. /\ cur[h] \in Message /\ turn[h] \in TurnRow
      /\ TurnIsAsked(turn[h], cur[h], sessions, asked)
      /\ Key(h) \in SessionKey
      /\ Key(h) = <<turn[h].actor, turn[h].customer, ConversationOf[cur[h]]>>
      /\ sessions[Key(h)] # Nothing => sessions[Key(h)] \in SessionRow
  BY Zenon, <1>1, RunningTurn
<1>3. sessions[Key(h)] \in SessionRow
  BY Zenon, <1>1, <1>2 DEF TurnIsAsked, Key
<1>4. row \in SessionRow /\ row.intents = turn[h].work \cup {i}
  BY Zenon, <1>2, <1>3 DEF SessionRow, TurnRow
<1>5. row # Nothing
  BY Zenon, <1>4, TurnAssumption
<1>6. t \in TurnRow
  BY Zenon, <1>2 DEF TurnRow
<1>7. /\ t.actor = turn[h].actor /\ t.customer = turn[h].customer /\ t.role = turn[h].role
      /\ t.work = turn[h].work \cup {i} /\ t.seen = turn[h].seen
  BY Zenon, <1>2 DEF TurnRow
<1> HIDE DEF t, row
<1>8. /\ sessions' \in [SessionKey -> SessionRow \cup {Nothing}]
      /\ sessions'[Key(h)] = row
      /\ \A k \in SessionKey \ {Key(h)} : sessions'[k] = sessions[k]
  BY Zenon, <1>1, <1>2, <1>4 DEF TurnInv
<1>9. \A k \in SessionKey : sessions[k] # Nothing => sessions'[k] # Nothing
  BY Zenon, <1>5, <1>8
<1>10. asked \subseteq asked' /\ entry \in asked'
  BY Zenon, <1>1
<1>11. \A j \in turn[h].work \cup {i} :
         <<turn[h].actor, turn[h].customer, ConversationOf[cur[h]], j>> \in asked'
  BY Zenon, <1>2, <1>10 DEF TurnIsAsked
<1>12. SessionsAreAsked'
  <2> SUFFICES ASSUME NEW k \in SessionKey, sessions'[k] # Nothing, NEW j \in sessions'[k].intents
               PROVE  <<k[1], k[2], k[3], j>> \in asked'
    BY Zenon DEF SessionsAreAsked
  <2>1. CASE k = Key(h)
    <3>1. j \in turn[h].work \cup {i}
      BY Zenon, <1>4, <1>8, <2>1
    <3>2. k[1] = turn[h].actor /\ k[2] = turn[h].customer /\ k[3] = ConversationOf[cur[h]]
      BY <1>2, <2>1
    <3>3. QED
      BY Zenon, <1>11, <3>1, <3>2
  <2>2. CASE k # Key(h)
    <3>1. sessions'[k] = sessions[k]
      BY Zenon, <1>8, <2>2
    <3>2. <<k[1], k[2], k[3], j>> \in asked
      BY Zenon, <3>1 DEF SessionsAreAsked, TurnInv
    <3>3. QED
      BY Zenon, <1>10, <3>2
  <2>3. QED
    BY Zenon, <2>1, <2>2
<1>13. KeyOf(t, cur[h]) = Key(h)
  BY Zenon, <1>7 DEF KeyOf, Key
<1>14. TurnIsAsked(t, cur'[h], sessions', asked')
  <2>1. \A j \in t.seen \cup t.work : <<t.actor, t.customer, ConversationOf[cur[h]], j>> \in asked'
    BY Zenon, <1>2, <1>7, <1>10, <1>11 DEF TurnIsAsked
  <2>2. sessions'[KeyOf(t, cur[h])] # Nothing
    BY Zenon, <1>5, <1>8, <1>13
  <2>3. t.actor \in Actor /\ t.customer \in Customer /\ t.role \in Role
    BY Zenon, <1>2, <1>7 DEF TurnIsAsked
  <2>4. cur'[h] = cur[h]
    BY Zenon, <1>1
  <2>5. QED
    BY Zenon, <2>1, <2>2, <2>3, <2>4 DEF TurnIsAsked
<1>15. AskedProposals'
  BY Zenon, <1>1, <1>10 DEF AskedProposals, ProposedWasAsked, TurnInv
<1>16. \A g \in Handler \ {h} : cur'[g] = cur[g]
  BY Zenon, <1>1
<1>17. QED
  BY Zenon, <1>1, <1>6, <1>8, <1>9, <1>10, <1>12, <1>14, <1>15, <1>16, OneTurnInv

\* Draining takes an intent out of the loaded copy and may propose it.
LEMMA DrainInv ==
  ASSUME TurnInv, TypeOK, NEW h \in Handler, NEW i \in Intent, Drain(h, i)
  PROVE  TurnInv'
<1> DEFINE t == [turn[h] EXCEPT !.seen = @ \ {i}]
<1>1. /\ cur[h] # Nothing /\ turn[h].at = "drain" /\ i \in turn[h].seen
      /\ turn' = [turn EXCEPT ![h] = t] /\ UNCHANGED <<cur, sessions, asked>>
  BY Zenon DEF Drain, At, vars
<1>2. /\ turn[h] \in TurnRow
      /\ TurnIsAsked(turn[h], cur[h], sessions, asked)
  BY Zenon, <1>1, RunningTurn
<1>3. t \in TurnRow
  BY Zenon, <1>2 DEF TurnRow
<1>4. /\ t.actor = turn[h].actor /\ t.customer = turn[h].customer /\ t.role = turn[h].role
      /\ t.work = turn[h].work /\ t.seen = turn[h].seen \ {i} /\ t.at = turn[h].at
  BY Zenon, <1>2 DEF TurnRow
<1> HIDE DEF t
<1>5. KeyOf(t, cur[h]) = KeyOf(turn[h], cur[h])
  BY Zenon, <1>4 DEF KeyOf
<1>6. TurnIsAsked(t, cur[h], sessions, asked)
  BY Zenon, <1>2, <1>4, <1>5 DEF TurnIsAsked
<1>7. AskedProposals'
  <2>1. CASE UNCHANGED proposals
    BY Zenon, <1>1, <2>1 DEF AskedProposals, ProposedWasAsked, TurnInv
  <2>2. CASE \E procedure \in Procedures(i.action) :
               proposals' = proposals \cup {Proposal(turn[h], i, cur[h], procedure)}
    <3>1. PICK procedure \in Procedures(i.action) :
               proposals' = proposals \cup {Proposal(turn[h], i, cur[h], procedure)}
      BY Zenon, <2>2
    <3> DEFINE q == Proposal(turn[h], i, cur[h], procedure)
    <3>2. /\ q.actor = turn[h].actor /\ q.customer = turn[h].customer /\ q.message = cur[h]
          /\ [action |-> q.action, resource |-> q.resource]
               = [action |-> i.action, resource |-> i.resource]
          /\ Identity \subseteq DOMAIN q
      BY Zenon DEF Proposal, Identity
    <3>3. <<turn[h].actor, turn[h].customer, ConversationOf[cur[h]], i>> \in asked
      BY Zenon, <1>1, <1>2 DEF TurnIsAsked
    <3> HIDE DEF q
    <3>4. <<q.actor, q.customer, ConversationOf[q.message],
            [action |-> q.action, resource |-> q.resource]>> \in asked
      BY Zenon, <3>2, <3>3, IntentIs
    <3>5. proposals' = proposals \cup {q} /\ asked' = asked
      BY Zenon, <1>1, <3>1 DEF q
    <3>6. QED
      BY Zenon, <3>2, <3>4, <3>5 DEF AskedProposals, ProposedWasAsked, TurnInv
  <2>3. QED
    BY Zenon, <2>1, <2>2 DEF Drain
<1>8. /\ SessionsAreAsked' /\ sessions' \in [SessionKey -> SessionRow \cup {Nothing}]
  BY Zenon, <1>1 DEF TurnInv, SessionsAreAsked
<1>9. /\ TurnIsAsked(t, cur'[h], sessions', asked')
      /\ \A g \in Handler \ {h} : cur'[g] = cur[g]
      /\ \A k \in SessionKey : sessions[k] # Nothing => sessions'[k] # Nothing
      /\ asked \subseteq asked'
  BY Zenon, <1>1, <1>6
<1>10. QED
  BY Zenon, <1>1, <1>3, <1>7, <1>8, <1>9, OneTurnInv

\* A turn begins with no intents, and leaves none behind.
LEMMA BeginEndInv ==
  ASSUME TurnInv, TypeOK, NEW h \in Handler,
         \/ \E a \in Actor, c \in Customer : \E r \in RolesOf[a], m \in Message :
              BeginTurn(h, a, r, c, m)
         \/ EndTurn(h) \/ TurnFails(h)
  PROVE  TurnInv'
<1>1. UNCHANGED <<sessions, proposals, asked>>
  BY Zenon DEF BeginTurn, EndTurn, TurnFails
<1>2. /\ SessionsAreAsked' /\ AskedProposals'
      /\ sessions' \in [SessionKey -> SessionRow \cup {Nothing}]
      /\ \A k \in SessionKey : sessions[k] # Nothing => sessions'[k] # Nothing
      /\ asked \subseteq asked'
  BY Zenon, <1>1 DEF TurnInv, SessionsAreAsked, AskedProposals, ProposedWasAsked
<1>3. ASSUME NEW a \in Actor, NEW c \in Customer, NEW r \in RolesOf[a], NEW m \in Message,
             BeginTurn(h, a, r, c, m)
      PROVE  TurnInv'
  <2> DEFINE t == [NoTurn EXCEPT !.at = "load", !.actor = a, !.role = r, !.customer = c]
  <2>1. turn' = [turn EXCEPT ![h] = t] /\ cur' = [cur EXCEPT ![h] = m]
    BY Zenon, <1>3 DEF BeginTurn, Accept
  <2>2. r \in Role
    BY Zenon, <1>3 DEF Role
  <2>3. /\ t.at = "load" /\ t.actor = a /\ t.role = r /\ t.customer = c
        /\ t.seen = {} /\ t.work = {}
    BY Zenon DEF NoTurn
  <2>4. t \in TurnRow
    BY Zenon, <2>2 DEF NoTurn, TurnRow
  <2> HIDE DEF t
  <2>5. TurnIsAsked(t, cur'[h], sessions', asked')
    BY Zenon, <2>2, <2>3 DEF TurnIsAsked
  <2>6. \A g \in Handler \ {h} : cur'[g] = cur[g]
    BY Zenon, <2>1 DEF TypeOK
  <2>7. QED
    BY Zenon, <1>2, <2>1, <2>4, <2>5, <2>6, OneTurnInv
<1>4. CASE EndTurn(h) \/ TurnFails(h)
  <2>1. turn' = [turn EXCEPT ![h] = NoTurn] /\ cur' = [cur EXCEPT ![h] = Nothing]
    BY Zenon, <1>4 DEF EndTurn, ProcessTurn, TurnFails, Crash
  <2>2. NoTurn \in TurnRow
    BY Zenon DEF NoTurn, TurnRow
  <2>3. cur'[h] = Nothing /\ \A g \in Handler \ {h} : cur'[g] = cur[g]
    BY Zenon, <2>1 DEF TypeOK
  <2>4. QED
    BY Zenon, <1>2, <2>1, <2>2, <2>3, OneTurnInv
<1>5. QED
  BY Zenon, <1>3, <1>4

\* A step that starts and moves no turn keeps the invariant if it keeps the history.
LEMMA NoTurnInv ==
  ASSUME TurnInv, UNCHANGED <<cur, sessions, turn, asked>>, AskedProposals'
  PROVE  TurnInv'
<1>1. SessionsAreAsked'
  BY Zenon DEF TurnInv, SessionsAreAsked
<1>2. QED
  BY Zenon, <1>1 DEF TurnInv

\* Proposals made outside a turn, and decisions on proposals.
LEMMA ProposalInv ==
  ASSUME TurnInv, NEW a \in Actor, NEW r \in RolesOf[a],
         \/ \E c \in Customer, i \in Intent : Prepare(a, r, c, i) \/ McpPrepare(a, r, c, i)
         \/ \E p \in proposals : ConfirmProposal(a, r, p) \/ CancelProposal(a, r, p)
  PROVE  TurnInv'
<1>1. ASSUME NEW c, NEW i, NEW procedure, ProposeAs(a, r, c, i, procedure)
      PROVE  TurnInv'
  <2> DEFINE q == Proposal([NoTurn EXCEPT !.actor = a, !.role = r, !.customer = c],
                           i, "direct", procedure)
  <2>1. proposals' = proposals \cup {q} /\ UNCHANGED <<cur, sessions, turn, asked>>
    BY Zenon, <1>1 DEF ProposeAs, vars
  <2>2. q.message = "direct" /\ Identity \subseteq DOMAIN q
    BY Zenon DEF Proposal, Identity
  <2> HIDE DEF q
  <2>3. AskedProposals'
    BY Zenon, <2>1, <2>2 DEF AskedProposals, ProposedWasAsked, TurnInv
  <2>4. QED
    BY Zenon, <2>1, <2>3, NoTurnInv
<1>2. ASSUME NEW p \in proposals, ConfirmProposal(a, r, p) \/ CancelProposal(a, r, p)
      PROVE  TurnInv'
  <2>1. UNCHANGED <<cur, sessions, turn, asked>>
    BY Zenon, <1>2 DEF ConfirmProposal, CancelProposal, vars
  <2>2. PICK q : /\ proposals' = (proposals \ {p}) \cup {q}
                 /\ q.actor = p.actor /\ q.customer = p.customer /\ q.message = p.message
                 /\ q.action = p.action /\ q.resource = p.resource
                 /\ Identity \subseteq DOMAIN q
    <3>1. Identity \subseteq DOMAIN p
      BY Zenon DEF TurnInv, AskedProposals
    <3> DEFINE y == [p EXCEPT !.status = "confirmed", !.confirmer = a, !.confirmerRole = r]
               n == [p EXCEPT !.status = "cancelled"]
    <3>2. DOMAIN y = DOMAIN p /\ \A f \in Identity : y[f] = p[f]
      BY Zenon, <3>1 DEF Identity
    <3>3. DOMAIN n = DOMAIN p /\ \A f \in Identity : n[f] = p[f]
      BY Zenon, <3>1 DEF Identity
    <3>4. proposals' = (proposals \ {p}) \cup {y} \/ proposals' = (proposals \ {p}) \cup {n}
      BY Zenon, <1>2 DEF ConfirmProposal, CancelProposal
    <3> HIDE DEF y, n
    <3>5. PICK q : /\ proposals' = (proposals \ {p}) \cup {q}
                   /\ DOMAIN q = DOMAIN p /\ \A f \in Identity : q[f] = p[f]
      BY Zenon, <3>2, <3>3, <3>4
    <3>6. /\ q.actor = p.actor /\ q.customer = p.customer /\ q.message = p.message
          /\ q.action = p.action /\ q.resource = p.resource /\ Identity \subseteq DOMAIN q
      BY Zenon, <3>1, <3>5 DEF Identity
    <3>7. QED
      BY Zenon, <3>5, <3>6
  <2>3. AskedProposals'
    BY Zenon, <2>1, <2>2 DEF AskedProposals, ProposedWasAsked, TurnInv
  <2>4. QED
    BY Zenon, <2>1, <2>3, NoTurnInv
<1>3. QED
  BY Zenon, <1>1, <1>2 DEF Prepare, McpPrepare

\* Every step keeps the invariant.
LEMMA NextTurnInv == TypeOK /\ TurnInv /\ [TurnNext]_turnVars => TurnInv'
<1> SUFFICES ASSUME TypeOK, TurnInv, [TurnNext]_turnVars PROVE TurnInv'
  OBVIOUS
<1>1. ASSUME NEW h \in Handler, NEW m \in Message, NotAccepted(h, m) \/ IvrIntake(h, m)
      PROVE  TurnInv'
  <2>1. UNCHANGED <<cur, sessions, turn, proposals, asked>>
    BY Zenon, <1>1 DEF NotAccepted, Duplicate, Quarantine, IvrIntake, AcceptIvr, vars
  <2>2. AskedProposals'
    BY Zenon, <2>1 DEF AskedProposals, ProposedWasAsked, TurnInv
  <2>3. QED
    BY Zenon, <2>1, <2>2, NoTurnInv
<1>2. ASSUME NEW h \in Handler, NEW m \in Message, NEW a \in Actor, NEW c \in Customer,
             NEW r \in RolesOf[a], Request(h, a, r, c, m)
      PROVE  TurnInv'
  <2>1. BeginTurn(h, a, r, c, m)
    BY Zenon, <1>2 DEF Request, ChatTurn, SocketTurn, VoiceOrChatTurn
  <2>2. QED
    BY Zenon, <2>1, BeginEndInv
<1>3. ASSUME NEW h \in Handler, TurnStep(h) PROVE TurnInv'
  BY Zenon, <1>3, LocalStepInv, CreateSessionInv, DrainInv, BeginEndInv DEF TurnStep
<1>4. ASSUME NEW h \in Handler, NEW i \in Intent, QueueIntent(h, i) PROVE TurnInv'
  BY Zenon, <1>4, QueueIntentInv
<1>5. ASSUME NEW a \in Actor, NEW r \in RolesOf[a],
             \/ \E c \in Customer, i \in Intent : Prepare(a, r, c, i) \/ McpPrepare(a, r, c, i)
             \/ \E p \in proposals : ConfirmProposal(a, r, p) \/ CancelProposal(a, r, p)
      PROVE  TurnInv'
  BY Zenon, <1>5, ProposalInv
<1>6. CASE UNCHANGED turnVars
  <2>1. UNCHANGED <<cur, sessions, turn, proposals, asked>>
    BY Zenon, <1>6 DEF turnVars, vars
  <2>2. AskedProposals'
    BY Zenon, <2>1 DEF AskedProposals, ProposedWasAsked, TurnInv
  <2>3. QED
    BY Zenon, <2>1, <2>2, NoTurnInv
<1>7. QED
  BY Zenon, <1>1, <1>2, <1>3, <1>4, <1>5, <1>6 DEF TurnNext

\* Before the first request there are no sessions, turns and proposals.
LEMMA InitTurnInv == TurnInit => TurnInv
<1> SUFFICES ASSUME TurnInit PROVE TurnInv
  OBVIOUS
<1>1. sessions = [k \in SessionKey |-> Nothing] /\ turn = [h \in Handler |-> NoTurn]
      /\ proposals = {} /\ cur = [h \in Handler |-> Nothing]
  BY Zenon DEF TurnInit, Init
<1>2. NoTurn \in TurnRow
  BY Zenon DEF NoTurn, TurnRow
<1>3. SessionsAreAsked
  BY Zenon, <1>1 DEF SessionsAreAsked
<1>4. AskedProposals
  BY Zenon, <1>1 DEF AskedProposals, ProposedWasAsked
<1>5. QED
  BY Zenon, <1>1, <1>2, <1>3, <1>4 DEF TurnInv

\* The inbox keeps its types under the turns, and sessions, turns and proposals the
\* invariant.
THEOREM TurnIsSafe == TurnSpec => [](TypeOK /\ TurnInv)
<1>1. TurnSpec => []TypeOK
  BY TurnRefinesInbox, InboxTypes, PTL DEF ImplementsInbox
<1>2. QED
  BY <1>1, InitTurnInv, NextTurnInv, PTL DEF TurnSpec

\* However turns of the same customer or conversation interleave, fail and reuse a
\* stored session, a turn proposes only what the agent of its own session was asked
\* for: the intents _generate_safe_turn drains never cross owners.
THEOREM ProposalsWereAsked == TurnSpec => []ProposedWasAsked
<1>1. TurnInv => ProposedWasAsked
  BY Zenon DEF TurnInv, AskedProposals
<1>2. QED
  BY <1>1, TurnIsSafe, PTL

-----------------------------------------------------------------------------
(* Who may speak, propose and confirm. *)

\* What the tables of AccessCatalog give: analysts and other customers do not serve a
\* customer; who only reads takes no action, and a customer only the refund.
LEMMA RoleTables ==
  /\ \A a, r, c : MayServe(a, r, c) => c = a \/ r \notin {"customer", "fraud_analyst"}
  /\ \A r : \A x \in ActionName : ActionAccess(r, x) =>
       r \notin {"readonly", "integration"} /\ (r = "customer" => x = "issue_refund")
<1>1. /\ Permissions("customer") = {}
      /\ "customer:read" \notin Permissions("fraud_analyst")
  BY Zenon DEF Permissions, ROLE_PERMISSIONS, CaseWork, FraudWork
<1>2. \A x \in ActionName :
        ActionPermission[x] \in {"refund:write", "case:write", "escalation:create", "account:flag",
                                 "sar:submit", "fraud_alert:write"}
  BY DEF ActionName, ActionPermission
<1>3. \A p \in {"refund:write", "case:write", "escalation:create", "account:flag",
                "sar:submit", "fraud_alert:write"} :
        p \notin Permissions("readonly") /\ p \notin Permissions("integration")
  BY Zenon DEF Permissions, ROLE_PERMISSIONS
<1>4. QED
  BY Zenon, <1>1, <1>2, <1>3 DEF MayServe, ActionAccess

\* Whatever procedure a request names, the policy it gets lists the action.
LEMMA PolicyLists ==
  ASSUME NEW x \in ActionName, NEW procedure \in Procedures(x) \cup {DefaultProcedure[x]}
  PROVE  procedure \in DOMAIN AllowedActions /\ x \in AllowedActions[procedure]
<1>1. DefaultProcedure[x] \in DOMAIN AllowedActions /\ x \in AllowedActions[DefaultProcedure[x]]
  BY DEF ActionName, DefaultProcedure, AllowedActions
<1>2. QED
  BY Zenon, <1>1 DEF Procedures, ActionPolicy

\* The row of a proposal that was entitled when it was made and when it was confirmed.
Entitled(p) ==
  /\ p \in ProposalRow
  /\ p.action \in AllowedActions[p.procedure]
  /\ p.action \in CustomerBound => Resource[p.resource].owner = p.customer
  /\ p.role = "customer" => p.actor = p.customer /\ p.action = "issue_refund"
  /\ p.role \notin {"readonly", "integration"}
  /\ p.status = "confirmed" =>
       p.confirmer = p.actor /\ p.confirmerRole \notin {"readonly", "integration"}

\* A turn is under way exactly while its request holds a message, for a customer whom
\* its role may serve.
Admitted(t, m) ==
  /\ t.at = "none" <=> m = Nothing
  /\ m # Nothing => t.customer = t.actor \/ t.role \notin {"customer", "fraud_analyst"}

AccessInv ==
  /\ \A h \in Handler : Admitted(turn[h], cur[h])
  /\ \A p \in proposals : Entitled(p)

\* _create_action_proposal
LEMMA NewProposalEntitled ==
  ASSUME NEW t, NEW i \in Intent, NEW m \in Message \cup {"direct"}, NEW procedure,
         procedure \in Procedures(i.action) \cup {DefaultProcedure[i.action]},
         t.actor \in Actor, t.role \in Role, t.customer \in Customer \cup Actor,
         t.role = "customer" => t.customer = t.actor,
         ActionAccess(t.role, i.action), Prepared(i.action, Rows(i), t.customer)
  PROVE  Entitled(Proposal(t, i, m, procedure))
<1>1. /\ i.action \in Action /\ i.action \in ActionName
      /\ i.resource \in DOMAIN Resource \cup {NoResource}
  <2>1. PICK x \in Action : i \in Intents(x)
    BY Zenon DEF Intent
  <2>2. i.action = x /\ i.resource \in DOMAIN Resource \cup {NoResource}
    BY Zenon, <2>1 DEF Intents
  <2>3. QED
    BY Zenon, <2>2, TurnAssumption
<1>2. procedure \in DOMAIN AllowedActions /\ i.action \in AllowedActions[procedure]
  BY Zenon, <1>1, PolicyLists
<1>3. t.role \notin {"readonly", "integration"} /\ (t.role = "customer" => i.action = "issue_refund")
  BY Zenon, <1>1, RoleTables
<1>4. i.action \in CustomerBound => Resource[i.resource].owner = t.customer
  <2>1. CustomerBound \subseteq Authoritative
    BY Zenon DEF CustomerBound, Authoritative, ActionName
  <2>2. QED
    BY Zenon, <2>1 DEF Prepared, Rows
<1> DEFINE q == Proposal(t, i, m, procedure)
<1>5. /\ q.actor = t.actor /\ q.role = t.role /\ q.customer = t.customer /\ q.action = i.action
      /\ q.resource = i.resource /\ q.procedure = procedure /\ q.status = "pending"
  BY Zenon DEF Proposal
<1>6. q \in ProposalRow
  BY Zenon, <1>1, <1>2 DEF Proposal, ProposalRow
<1> HIDE DEF q
<1>7. Entitled(q)
  BY Zenon, <1>2, <1>3, <1>4, <1>5, <1>6 DEF Entitled
<1>8. QED
  BY Zenon, <1>7 DEF q

\* confirm_action_proposal and cancel_action_proposal change the status of one row.
LEMMA DecisionEntitled ==
  ASSUME AccessInv, NEW a \in Actor, NEW r \in RolesOf[a], NEW p \in proposals,
         ConfirmProposal(a, r, p) \/ CancelProposal(a, r, p)
  PROVE  \A q \in proposals' : Entitled(q)
<1>1. Entitled(p) /\ p \in ProposalRow /\ p.action \in ActionName
  BY Zenon, TurnAssumption DEF AccessInv, Entitled, ProposalRow
<1>2. r \in Role
  BY Zenon DEF Role
<1> DEFINE y == [p EXCEPT !.status = "confirmed", !.confirmer = a, !.confirmerRole = r]
           n == [p EXCEPT !.status = "cancelled"]
<1>3. CASE ConfirmProposal(a, r, p)
  <2>1. proposals' = (proposals \ {p}) \cup {y} /\ p.actor = a /\ ActionAccess(r, p.action)
    BY Zenon, <1>3 DEF ConfirmProposal, Owned
  <2>2. r \notin {"readonly", "integration"}
    BY Zenon, <1>1, <2>1, RoleTables
  <2>3. /\ y \in ProposalRow /\ y.actor = p.actor /\ y.role = p.role /\ y.customer = p.customer
        /\ y.action = p.action /\ y.resource = p.resource /\ y.procedure = p.procedure
        /\ y.confirmer = a /\ y.confirmerRole = r
    BY Zenon, <1>1, <1>2 DEF ProposalRow
  <2> HIDE DEF y
  <2>4. Entitled(y)
    BY Zenon, <1>1, <2>1, <2>2, <2>3 DEF Entitled
  <2>5. QED
    BY Zenon, <2>1, <2>4 DEF AccessInv
<1>4. CASE CancelProposal(a, r, p)
  <2>1. proposals' = (proposals \ {p}) \cup {n}
    BY Zenon, <1>4 DEF CancelProposal
  <2>2. /\ n \in ProposalRow /\ n.actor = p.actor /\ n.role = p.role /\ n.customer = p.customer
        /\ n.action = p.action /\ n.resource = p.resource /\ n.procedure = p.procedure
        /\ n.status = "cancelled"
    BY Zenon, <1>1 DEF ProposalRow
  <2> HIDE DEF n
  <2>3. Entitled(n)
    BY Zenon, <1>1, <2>2 DEF Entitled
  <2>4. QED
    BY Zenon, <2>1, <2>3 DEF AccessInv
<1>5. QED
  BY Zenon, <1>3, <1>4


\* A step inside a turn changes neither who it is for nor its message.
LEMMA InsideTurn ==
  ASSUME TurnInv, TypeOK, AccessInv, NEW h \in Handler,
         \/ LoadSession(h) \/ CreateSession(h) \/ StartRun(h) \/ Answer(h)
         \/ \E i \in Intent : Drain(h, i) \/ QueueIntent(h, i)
  PROVE  \A g \in Handler : Admitted(turn'[g], cur'[g])
<1>1. cur[h] # Nothing /\ cur' = cur
  BY Zenon DEF LoadSession, CreateSession, StartRun, Answer, Drain, QueueIntent, At, vars
<1>2. turn \in [Handler -> TurnRow] /\ turn[h] \in TurnRow
  BY Zenon DEF TurnInv
<1>3. turn[h].at # "none"
  BY Zenon, <1>1 DEF AccessInv, Admitted
<1>4. PICK t : /\ turn' = [turn EXCEPT ![h] = t] /\ t.at # "none"
               /\ t.actor = turn[h].actor /\ t.customer = turn[h].customer /\ t.role = turn[h].role
  <2>1. CASE LoadSession(h) /\ sessions[Key(h)] = Nothing
    <3> DEFINE t == [turn[h] EXCEPT !.at = "create"]
    <3>1. turn' = [turn EXCEPT ![h] = t]
      BY Zenon, <2>1 DEF LoadSession, Go
    <3>2. /\ t.at # "none"
          /\ t.actor = turn[h].actor /\ t.customer = turn[h].customer /\ t.role = turn[h].role
      BY Zenon, <1>2 DEF TurnRow
    <3>3. QED
      BY Zenon, <3>1, <3>2
  <2>2. CASE LoadSession(h) /\ sessions[Key(h)] # Nothing
    <3> DEFINE t == [turn[h] EXCEPT !.at = "start", !.seen = sessions[Key(h)].intents]
    <3>1. turn' = [turn EXCEPT ![h] = t]
      BY Zenon, <2>2 DEF LoadSession
    <3>2. /\ t.at # "none"
          /\ t.actor = turn[h].actor /\ t.customer = turn[h].customer /\ t.role = turn[h].role
      BY Zenon, <1>2 DEF TurnRow
    <3>3. QED
      BY Zenon, <3>1, <3>2
  <2>3. CASE CreateSession(h)
    <3> DEFINE t == [turn[h] EXCEPT !.at = "start"]
    <3>1. turn' = [turn EXCEPT ![h] = t]
      BY Zenon, <2>3 DEF CreateSession, Go
    <3>2. /\ t.at # "none"
          /\ t.actor = turn[h].actor /\ t.customer = turn[h].customer /\ t.role = turn[h].role
      BY Zenon, <1>2 DEF TurnRow
    <3>3. QED
      BY Zenon, <3>1, <3>2
  <2>4. CASE StartRun(h)
    <3> DEFINE t == [turn[h] EXCEPT !.at = "run", !.work = sessions[Key(h)].intents]
    <3>1. turn' = [turn EXCEPT ![h] = t]
      BY Zenon, <2>4 DEF StartRun
    <3>2. /\ t.at # "none"
          /\ t.actor = turn[h].actor /\ t.customer = turn[h].customer /\ t.role = turn[h].role
      BY Zenon, <1>2 DEF TurnRow
    <3>3. QED
      BY Zenon, <3>1, <3>2
  <2>5. CASE Answer(h)
    <3> DEFINE t == [turn[h] EXCEPT !.at = "drain"]
    <3>1. turn' = [turn EXCEPT ![h] = t]
      BY Zenon, <2>5 DEF Answer, Go
    <3>2. /\ t.at # "none"
          /\ t.actor = turn[h].actor /\ t.customer = turn[h].customer /\ t.role = turn[h].role
      BY Zenon, <1>2 DEF TurnRow
    <3>3. QED
      BY Zenon, <3>1, <3>2
  <2>6. ASSUME NEW i \in Intent, Drain(h, i)
        PROVE  \E t : /\ turn' = [turn EXCEPT ![h] = t] /\ t.at # "none"
                      /\ t.actor = turn[h].actor /\ t.customer = turn[h].customer
                      /\ t.role = turn[h].role
    <3> DEFINE t == [turn[h] EXCEPT !.seen = @ \ {i}]
    <3>1. turn' = [turn EXCEPT ![h] = t]
      BY Zenon, <2>6 DEF Drain
    <3>2. /\ t.at # "none"
          /\ t.actor = turn[h].actor /\ t.customer = turn[h].customer /\ t.role = turn[h].role
      BY Zenon, <1>2, <1>3 DEF TurnRow
    <3>3. QED
      BY Zenon, <3>1, <3>2
  <2>7. ASSUME NEW i \in Intent, QueueIntent(h, i)
        PROVE  \E t : /\ turn' = [turn EXCEPT ![h] = t] /\ t.at # "none"
                      /\ t.actor = turn[h].actor /\ t.customer = turn[h].customer
                      /\ t.role = turn[h].role
    <3> DEFINE t == [turn[h] EXCEPT !.work = @ \cup {i}]
    <3>1. turn' = [turn EXCEPT ![h] = t]
      BY Zenon, <2>7 DEF QueueIntent
    <3>2. /\ t.at # "none"
          /\ t.actor = turn[h].actor /\ t.customer = turn[h].customer /\ t.role = turn[h].role
      BY Zenon, <1>2, <1>3 DEF TurnRow
    <3>3. QED
      BY Zenon, <3>1, <3>2
  <2>8. QED
    BY Zenon, <2>1, <2>2, <2>3, <2>4, <2>5, <2>6, <2>7
<1>5. \A g \in Handler : turn'[g] = IF g = h THEN t ELSE turn[g]
  BY Zenon, <1>2, <1>4
<1>6. Admitted(t, cur[h])
  BY Zenon, <1>1, <1>4 DEF AccessInv, Admitted
<1>7. QED
  BY Zenon, <1>1, <1>5, <1>6 DEF AccessInv

\* A turn begins for a customer its role may serve, and ends.
LEMMA BeginsAdmitted ==
  ASSUME TurnInv, TypeOK, AccessInv, NEW h \in Handler,
         \/ \E a \in Actor, c \in Customer : \E r \in RolesOf[a], m \in Message :
              Request(h, a, r, c, m)
         \/ EndTurn(h) \/ TurnFails(h)
  PROVE  \A g \in Handler : Admitted(turn'[g], cur'[g])
<1>1. turn \in [Handler -> TurnRow] /\ cur \in [Handler -> Message \cup {Nothing}]
  BY Zenon DEF TurnInv, TypeOK
<1>2. ASSUME NEW t, NEW m, turn' = [turn EXCEPT ![h] = t], cur' = [cur EXCEPT ![h] = m],
             Admitted(t, m)
      PROVE  \A g \in Handler : Admitted(turn'[g], cur'[g])
  BY Zenon, <1>1, <1>2 DEF AccessInv
<1>3. ASSUME NEW a \in Actor, NEW c \in Customer, NEW r \in RolesOf[a], NEW m \in Message,
             Request(h, a, r, c, m)
      PROVE  \A g \in Handler : Admitted(turn'[g], cur'[g])
  <2> DEFINE t == [NoTurn EXCEPT !.at = "load", !.actor = a, !.role = r, !.customer = c]
  <2>1. /\ turn' = [turn EXCEPT ![h] = t] /\ cur' = [cur EXCEPT ![h] = m]
        /\ MayServe(a, r, c)
    BY Zenon, <1>3 DEF Request, ChatTurn, SocketTurn, VoiceOrChatTurn, BeginTurn, Accept
  <2>2. t.at = "load" /\ t.actor = a /\ t.role = r /\ t.customer = c
    BY Zenon DEF NoTurn
  <2> HIDE DEF t
  <2>3. c = a \/ r \notin {"customer", "fraud_analyst"}
    BY Zenon, <2>1, RoleTables
  <2>4. m # Nothing
    BY Zenon
  <2>5. Admitted(t, m)
    BY Zenon, <2>2, <2>3, <2>4 DEF Admitted
  <2>6. QED
    BY Zenon, <1>2, <2>1, <2>5
<1>4. CASE EndTurn(h) \/ TurnFails(h)
  <2>1. turn' = [turn EXCEPT ![h] = NoTurn] /\ cur' = [cur EXCEPT ![h] = Nothing]
    BY Zenon, <1>4 DEF EndTurn, ProcessTurn, TurnFails, Crash
  <2>2. Admitted(NoTurn, Nothing)
    BY Zenon DEF Admitted, NoTurn
  <2>3. QED
    BY Zenon, <1>2, <2>1, <2>2
<1>5. QED
  BY Zenon, <1>3, <1>4

\* A turn proposes for the customer it was admitted for.
LEMMA DrainEntitled ==
  ASSUME TurnInv, TypeOK, AccessInv, NEW h \in Handler, NEW i \in Intent, Drain(h, i)
  PROVE  \A p \in proposals' : Entitled(p)
<1>1. cur[h] # Nothing
  BY Zenon DEF Drain, At
<1>2. /\ cur[h] \in Message /\ turn[h].actor \in Actor /\ turn[h].customer \in Customer
      /\ turn[h].role \in Role
  BY Zenon, <1>1, RunningTurn DEF TurnIsAsked
<1>3. turn[h].role = "customer" => turn[h].customer = turn[h].actor
  BY Zenon, <1>1 DEF AccessInv, Admitted
<1>4. CASE UNCHANGED proposals
  BY Zenon, <1>4 DEF AccessInv
<1>5. ASSUME ActionAccess(turn[h].role, i.action), Prepared(i.action, Rows(i), turn[h].customer),
             NEW procedure \in Procedures(i.action),
             proposals' = proposals \cup {Proposal(turn[h], i, cur[h], procedure)}
      PROVE  \A p \in proposals' : Entitled(p)
  <2>1. Entitled(Proposal(turn[h], i, cur[h], procedure))
    BY Zenon, <1>2, <1>3, <1>5, NewProposalEntitled
  <2>2. QED
    BY Zenon, <1>5, <2>1 DEF AccessInv
<1>6. QED
  BY Zenon, <1>4, <1>5 DEF Drain

\* create_action_proposal and actions_prepare: a customer proposes for no one else.
LEMMA DirectEntitled ==
  ASSUME AccessInv, NEW a \in Actor, NEW r \in RolesOf[a], NEW c \in Customer, NEW i \in Intent,
         Prepare(a, r, c, i) \/ McpPrepare(a, r, c, i)
  PROVE  \A p \in proposals' : Entitled(p)
<1>1. PICK d \in Customer \cup Actor, procedure \in Procedures(i.action) \cup {DefaultProcedure[i.action]} :
        ProposeAs(a, r, d, i, procedure)
  BY Zenon DEF Prepare, McpPrepare, McpCustomer
<1> DEFINE t == [NoTurn EXCEPT !.actor = a, !.role = r, !.customer = d]
<1>2. t.actor = a /\ t.role = r /\ t.customer = d
  BY Zenon DEF NoTurn
<1>3. /\ MayServe(a, r, d) /\ ActionAccess(r, i.action) /\ Prepared(i.action, Rows(i), d)
      /\ proposals' = proposals \cup {Proposal(t, i, "direct", procedure)}
  BY Zenon, <1>1 DEF ProposeAs
<1> HIDE DEF t
<1>4. r \in Role
  BY Zenon DEF Role
<1>5. r = "customer" => d = a
  BY Zenon, <1>3, RoleTables
<1>6. Entitled(Proposal(t, i, "direct", procedure))
  BY Zenon, <1>2, <1>3, <1>4, <1>5, NewProposalEntitled
<1>7. QED
  BY Zenon, <1>3, <1>6 DEF AccessInv

\* Every step keeps turns admitted and proposals entitled.
LEMMA NextAccessInv == TypeOK /\ TurnInv /\ AccessInv /\ [TurnNext]_turnVars => AccessInv'
<1> SUFFICES ASSUME TypeOK, TurnInv, AccessInv, [TurnNext]_turnVars PROVE AccessInv'
  OBVIOUS
<1>1. ASSUME UNCHANGED <<cur, turn>>, \A p \in proposals' : Entitled(p) PROVE AccessInv'
  BY Zenon, <1>1 DEF AccessInv
<1>2. ASSUME UNCHANGED proposals, \A g \in Handler : Admitted(turn'[g], cur'[g]) PROVE AccessInv'
  BY Zenon, <1>2 DEF AccessInv
<1>3. ASSUME NEW h \in Handler, NEW m \in Message, NotAccepted(h, m) \/ IvrIntake(h, m)
      PROVE  AccessInv'
  <2>1. UNCHANGED <<cur, turn, proposals>>
    BY Zenon, <1>3 DEF NotAccepted, Duplicate, Quarantine, IvrIntake, AcceptIvr, vars
  <2>2. QED
    BY Zenon, <2>1 DEF AccessInv
<1>4. ASSUME NEW h \in Handler, NEW m \in Message, NEW a \in Actor, NEW c \in Customer,
             NEW r \in RolesOf[a], Request(h, a, r, c, m)
      PROVE  AccessInv'
  <2>1. UNCHANGED proposals
    BY Zenon, <1>4 DEF Request, ChatTurn, SocketTurn, VoiceOrChatTurn, BeginTurn
  <2>2. QED
    BY Zenon, <1>2, <1>4, <2>1, BeginsAdmitted
<1>5. ASSUME NEW h \in Handler, EndTurn(h) \/ TurnFails(h)
      PROVE  AccessInv'
  BY Zenon, <1>2, <1>5, BeginsAdmitted DEF EndTurn, TurnFails
<1>6. ASSUME NEW h \in Handler,
             \/ LoadSession(h) \/ CreateSession(h) \/ StartRun(h) \/ Answer(h)
             \/ \E i \in Intent : QueueIntent(h, i)
      PROVE  AccessInv'
  <2>1. UNCHANGED proposals
    BY Zenon, <1>6 DEF LoadSession, CreateSession, StartRun, Answer, QueueIntent
  <2>2. QED
    BY Zenon, <1>2, <1>6, <2>1, InsideTurn
<1>7. ASSUME NEW h \in Handler, NEW i \in Intent, Drain(h, i)
      PROVE  AccessInv'
  <2>1. \A p \in proposals' : Entitled(p)
    BY Zenon, <1>7, DrainEntitled
  <2>2. \A g \in Handler : Admitted(turn'[g], cur'[g])
    BY Zenon, <1>7, InsideTurn
  <2>3. QED
    BY Zenon, <2>1, <2>2 DEF AccessInv
<1>8. ASSUME NEW a \in Actor, NEW r \in RolesOf[a],
             \/ \E c \in Customer, i \in Intent : Prepare(a, r, c, i) \/ McpPrepare(a, r, c, i)
             \/ \E p \in proposals : ConfirmProposal(a, r, p) \/ CancelProposal(a, r, p)
      PROVE  AccessInv'
  <2>1. UNCHANGED <<cur, turn>>
    BY Zenon, <1>8 DEF Prepare, McpPrepare, ProposeAs, ConfirmProposal, CancelProposal, vars
  <2>2. \A p \in proposals' : Entitled(p)
    BY Zenon, <1>8, DirectEntitled, DecisionEntitled
  <2>3. QED
    BY Zenon, <1>1, <2>1, <2>2
<1>9. CASE UNCHANGED turnVars
  <2>1. UNCHANGED <<cur, turn, proposals>>
    BY Zenon, <1>9 DEF turnVars, vars
  <2>2. QED
    BY Zenon, <2>1 DEF AccessInv
<1>10. QED
  BY Zenon, <1>3, <1>4, <1>5, <1>6, <1>7, <1>8, <1>9 DEF TurnNext, TurnStep

\* Access is decided once per turn and per proposal, and still holds when it is used.
THEOREM AccessIsKept == TurnSpec => []AccessInv
<1>1. TurnInit => AccessInv
  BY DEF TurnInit, Init, AccessInv, Admitted, NoTurn
<1>2. QED
  BY <1>1, TurnIsSafe, NextAccessInv, PTL DEF TurnSpec

\* Whoever queued the intent and under whatever role, a proposal is made and confirmed
\* only by who may take the action, for the customer who owns the resource.
THEOREM OnlyEntitledProposals == TurnSpec => []ProposalsAreEntitled
<1>1. AccessInv => ProposalsAreEntitled
  BY Zenon DEF AccessInv, Entitled, ProposalsAreEntitled
<1>2. QED
  BY <1>1, AccessIsKept, PTL

\* Type correctness of sessions, turns and proposals.
THEOREM TurnTypes == TurnSpec => []TurnTypeOK
<1>1. TypeOK /\ TurnInv /\ AccessInv => TurnTypeOK
  <2> SUFFICES ASSUME TypeOK, TurnInv, AccessInv PROVE TurnTypeOK
    OBVIOUS
  <2>1. proposals \subseteq ProposalRow
    BY Zenon DEF AccessInv, Entitled
  <2>2. ASSUME NEW h \in Handler
        PROVE  /\ turn[h].at \in {"none", "load", "create", "start", "run", "drain"}
               /\ turn[h].at = "none" <=> cur[h] = Nothing
               /\ turn[h].seen \cup turn[h].work \subseteq Intent
               /\ turn[h].at \in {"start", "run", "drain"} => sessions[Key(h)] # Nothing
    <3>1. turn[h] \in TurnRow
      BY Zenon DEF TurnInv
    <3>2. turn[h].at = "none" <=> cur[h] = Nothing
      BY Zenon DEF AccessInv, Admitted
    <3>3. turn[h].at \in {"start", "run", "drain"} => sessions[Key(h)] # Nothing
      BY Zenon, <3>2 DEF TurnInv, TurnIsAsked, Key
    <3>4. QED
      BY Zenon, <3>1, <3>2, <3>3 DEF TurnRow
  <2>3. QED
    BY Zenon, <2>1, <2>2 DEF TurnInv, TurnTypeOK
<1>2. QED
  BY <1>1, TurnIsSafe, AccessIsKept, PTL

=============================================================================
