------------------------- MODULE MCConversationTurn -------------------------
(* Small instances of ConversationTurn for TLC. *)
EXTENDS ConversationTurn, TLC

CONSTANTS m1, m3, w

\* Between m1 and m3 a message is missing; w is a chat message without sequence number.
Numbers == (m1 :> 1) @@ (m3 :> 3) @@ (w :> NoSequence)
MCSeqOf == [m \in Message |-> Numbers[m]]
MCConversationOf == [m \in Message |-> "one"]
MCRolesOf == [alice |-> {"customer"}, bob |-> {"customer"},
              rep |-> {"customer_service_rep", "readonly"}]

\* Only the first order may be refunded to alice.
Row == [type |-> "order", owner |-> "alice", status |-> "completed", age |-> 30, amount |-> 1]
Resources == [own |-> Row, foreign |-> [Row EXCEPT !.owner = "bob"]]

Symmetry == Permutations(Handler)

=============================================================================
