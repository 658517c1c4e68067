---------------------------- MODULE SessionFacts ----------------------------
(***************************************************************************)
(* The read tools an agent may call and the session state they leave for   *)
(* later steps and for the response rails.                                 *)
(*                                                                         *)
(*   tools/access.py               who may call a tool (AccessCatalog)     *)
(*   tools/crm_tools.py            lookup_order, search_orders             *)
(*   tools/dispute_tools.py        lookup_dispute, check_dispute_eligibility*)
(*   database/repository.py        the queries behind them                 *)
(*                                                                         *)
(* The reference tables are constants: nothing in the engine updates an    *)
(* order or a looked-up dispute.  A tool that is refused or finds nothing  *)
(* changes nothing, and is no step.                                        *)
(***************************************************************************)
EXTENDS AccessCatalog, FiniteSets

CONSTANTS
  Customer,
  OrderRow,      \* orders: id -> [customer, total, status, age, merchant]
  DisputeRow,    \* disputes: id -> [customer, amount, liability]
  Filter,        \* arguments of search_orders: [merchant, amount, age]
  Days,          \* days since the customer noticed a transfer
  Method,        \* payment methods
  Role,          \* the roles sessions are opened under
  Unlimited,     \* the max_liability of a dispute reported too late
  None

VARIABLES
  role,    \* the role of the actor, from the session state
  state    \* the session state: what the tools and the host put there

factVars == <<role, state>>

Order == DOMAIN OrderRow
Dispute == DOMAIN DisputeRow
Eligibility == [eligible : BOOLEAN, tier : {"tier_1", "tier_2", "tier_3", None},
                liability : {50, 500, Unlimited, None}]

\* OrderRepository.search: a filter that is left out matches everything; the
\* amount matches within ten per cent, the date within three days.
Matches(o, f) ==
  /\ f.merchant # None => OrderRow[o].merchant = f.merchant
  /\ f.amount # None => 9 * f.amount <= 10 * OrderRow[o].total
                        /\ 10 * OrderRow[o].total <= 11 * f.amount
  /\ f.age # None => OrderRow[o].age \in (f.age - 3) .. (f.age + 3)

Search(customer, f) == {o \in Order : OrderRow[o].customer = customer /\ Matches(o, f)}

\* search_orders repeats a search that found nothing without its date.
Found(customer, f) ==
  LET dated == Search(customer, f)
  IN  IF dated = {} /\ f.age # None /\ (f.merchant # None \/ f.amount # None)
      THEN Search(customer, [f EXCEPT !.age = None])
      ELSE dated

\* Regulation E liability tiers, and the transfers it covers.
Covered == {"debit_card", "debit", "ach", "ach_withdrawal", "wire", "p2p", "atm",
            "electronic_transfer", "debit_card_ending_5678", "debit_card_ending_4242",
            "debit_card_ending_1234"}

LiabilityTier(days) ==
  IF days <= 2 THEN "tier_1" ELSE IF days <= 60 THEN "tier_2" ELSE "tier_3"

Assessed(method, days) ==
  IF method \notin Covered
  THEN [eligible |-> FALSE, tier |-> None, liability |-> None]
  ELSE LET tier == LiabilityTier(days)
       IN  [eligible |-> tier # "tier_3", tier |-> tier,
            liability |-> [tier_1 |-> 50, tier_2 |-> 500, tier_3 |-> Unlimited][tier]]

\* What a session holds: whose it is, and what the tools found.
Facts == [customer : Customer, order : Order \cup {None},
          dispute : Dispute \cup {None}, elig : Eligibility \cup {None}]

FactsInit ==
  /\ role \in Role
  /\ state \in [customer : Customer, order : {None}, dispute : {None}, elig : {None}]

\* lookup_order
\* Slip: the owner of the order is not compared with the session's customer.
LookupOrder_AnyOwner ==
  /\ authorize_tool(role, "lookup_order")
  /\ \E o \in Order : state' = [state EXCEPT !.order = o]
  /\ UNCHANGED role

LookupOrder ==
  /\ authorize_tool(role, "lookup_order")
  /\ \E o \in Order : /\ OrderRow[o].customer = state.customer
                      /\ state' = [state EXCEPT !.order = o]
  /\ UNCHANGED role

\* search_orders: a single match is loaded again and kept as lookup_order does.
SearchOrders ==
  /\ authorize_tool(role, "search_orders")
  /\ \E f \in Filter : LET found == Found(state.customer, f)
                       IN  /\ Cardinality(found) = 1
                           /\ \E o \in found : /\ OrderRow[o].customer = state.customer
                                               /\ state' = [state EXCEPT !.order = o]
  /\ UNCHANGED role

\* lookup_dispute
LookupDispute ==
  /\ authorize_tool(role, "lookup_dispute")
  /\ \E d \in Dispute : /\ DisputeRow[d].customer = state.customer
                        /\ state' = [state EXCEPT !.dispute = d]
  /\ UNCHANGED role

\* check_dispute_eligibility
CheckEligibility ==
  /\ authorize_tool(role, "check_dispute_eligibility")
  /\ \E method \in Method, days \in Days :
       state' = [state EXCEPT !.elig = Assessed(method, days)]
  /\ UNCHANGED role

CallTool == LookupOrder \/ SearchOrders \/ LookupDispute \/ CheckEligibility

-----------------------------------------------------------------------------

FactsTypeOK ==
  /\ role \in Role
  /\ state \in Facts

=============================================================================
