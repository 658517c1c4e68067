-------------------------- MODULE MCResponseRails --------------------------
(* Small instances of ResponseRails for TLC. *)
EXTENDS ResponseRails

Orders ==
  [recent |-> [customer |-> "c1", total |-> 80, status |-> "delivered", age |-> 30, merchant |-> "shop"],
   late   |-> [customer |-> "c1", total |-> 40, status |-> "shipped", age |-> 31, merchant |-> "shop"],
   other  |-> [customer |-> "c2", total |-> 80, status |-> "completed", age |-> 10, merchant |-> "shop"]]
Disputes ==
  [own   |-> [customer |-> "c1", amount |-> 80, liability |-> 50],
   other |-> [customer |-> "c2", amount |-> 40, liability |-> 500]]
\* By merchant alone, by amount, and by a date nothing matches.
Filters == {[merchant |-> "shop", amount |-> None, age |-> None],
            [merchant |-> None, amount |-> 42, age |-> None],
            [merchant |-> None, amount |-> 80, age |-> 99]}

\* Texts with one noteworthy thing in them, and two that mix several.
Plain == [Fallback EXCEPT !.disclosed = TRUE]
Texts == {[Plain EXCEPT !.amounts = {a}] : a \in Amount} \cup
         {[Plain EXCEPT ![f] = ~ @] : f \in DOMAIN Plain \ {"amounts"}} \cup
         {[Plain EXCEPT !.approved = TRUE, !.amounts = {40}, !.internal = TRUE],
          [Plain EXCEPT !.prohibited = TRUE, !.bare = TRUE]}

=============================================================================
