-------------------------- MODULE MCConversationInbox ------------------------
(* Small instances of ConversationInbox for TLC. *)
EXTENDS ConversationInbox, TLC

CONSTANTS m1, m2, m3, m3b, n1, u

\* m1, m2, m3 follow each other, m3b claims the number of m3, n1 belongs to
\* another conversation and u has no sequence number.
Numbers == (m1 :> 1) @@ (m2 :> 2) @@ (m3 :> 3) @@ (m3b :> 3)
             @@ (n1 :> 7) @@ (u :> NoSequence)
MCSeqOf == [m \in Message |-> Numbers[m]]
MCConversationOf == [m \in Message |-> IF m = n1 THEN "other" ELSE "one"]

Symmetry == Permutations(Handler)

==============================================================================
