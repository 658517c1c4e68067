---------------------------- MODULE AccessCatalog ----------------------------
(***************************************************************************)
(* The closed tables that decide what a role, a tool and an action may do. *)
(*                                                                         *)
(*   auth/rbac.py, context.py   roles, permissions and customer context    *)
(*   tools/catalog.py           the permission each model tool requires    *)
(*   tools/action_proposals.py  the resource each proposal tool names      *)
(*   core/action_specs.py       ACTION_SPECIFICATIONS                      *)
(*   core/domains.py            RefundDecisionService                      *)
(*   actions/bridge.py          _prepare_refund, _prepare_generic          *)
(*   main.py                    the policy packages and their actions      *)
(*                                                                         *)
(* Tokens carry no permissions beyond those of their role.                 *)
(***************************************************************************)
EXTENDS Integers

ActionName == {"issue_refund", "issue_store_credit", "update_case_status", "file_eft_dispute",
               "issue_provisional_credit", "escalate_to_supervisor", "add_case_note",
               "flag_account", "submit_sar", "close_alert"}

-----------------------------------------------------------------------------
(* Roles and permissions. *)

CaseWork == {"case:read", "case:write", "escalation:create"}
FraudWork == {"fraud_alert:read", "fraud_alert:write", "account:flag", "sar:submit",
              "transaction:read", "device:read"}

\* Without the administrative pages.
ROLE_PERMISSIONS ==
  [supervisor |-> {"order:read", "customer:read", "refund:write"} \cup CaseWork \cup FraudWork,
   admin |-> {"order:read", "customer:read", "refund:write", "channel:ingest"}
               \cup CaseWork \cup FraudWork,
   customer_service_rep |-> {"order:read", "customer:read", "refund:write"} \cup CaseWork,
   fraud_analyst |-> CaseWork \cup FraudWork,
   readonly |-> {"order:read", "customer:read", "case:read", "fraud_alert:read",
                 "transaction:read"},
   integration |-> {"customer:read", "case:read", "channel:ingest"},
   customer |-> {}]

\* get_permissions_for_role
Permissions(r) == IF r \in DOMAIN ROLE_PERMISSIONS THEN ROLE_PERMISSIONS[r] ELSE {}

\* resolve_customer_context
MayServe(a, r, c) == IF r = "customer" THEN a = c ELSE "customer:read" \in Permissions(r)

\* TOOL_CATALOG: the read tools, and the permission of each.
ReadPermission ==
  [lookup_order |-> "order:read", get_customer_profile |-> "customer:read",
   search_orders |-> "order:read", lookup_dispute |-> "case:read",
   check_dispute_eligibility |-> "case:read", get_fraud_alert |-> "fraud_alert:read",
   get_account_transactions |-> "transaction:read", check_device_fingerprint |-> "device:read"]

\* ACTION_PERMISSIONS, which the proposal tools of TOOL_CATALOG repeat.
ActionPermission ==
  [issue_refund |-> "refund:write", issue_store_credit |-> "refund:write",
   update_case_status |-> "case:write", file_eft_dispute |-> "case:write",
   issue_provisional_credit |-> "refund:write", escalate_to_supervisor |-> "escalation:create",
   add_case_note |-> "case:write", flag_account |-> "account:flag",
   submit_sar |-> "sar:submit", close_alert |-> "fraud_alert:write"]

\* authorize_tool, with the role stored in the session: of all tools only
\* issue_refund has self-service.
authorize_tool(r, tool) ==
  IF tool \in ActionName
  THEN ActionPermission[tool] \in Permissions(r) \/ (tool = "issue_refund" /\ r = "customer")
  ELSE ReadPermission[tool] \in Permissions(r)

\* _require_action_access, with the role of the request's token.
ActionAccess(r, x) == \/ r = "customer" /\ x = "issue_refund"
                      \/ r = "admin"
                      \/ ActionPermission[x] \in Permissions(r)

-----------------------------------------------------------------------------
(* Policies. *)

\* The packages main.py signs and activates, with their allowed_actions.
AllowedActions ==
  [cs_refund |-> {"issue_refund", "issue_store_credit", "update_case_status",
                  "escalate_to_supervisor", "add_case_note"},
   cs_eft_dispute |-> {"file_eft_dispute", "issue_provisional_credit",
                       "escalate_to_supervisor", "add_case_note"},
   fraud_alert_triage |-> {"flag_account", "submit_sar", "close_alert",
                           "escalate_to_supervisor", "add_case_note"}]

\* _DEFAULT_PROCEDURE_BY_ACTION
DefaultProcedure ==
  [issue_refund |-> "cs_refund", issue_store_credit |-> "cs_refund",
   update_case_status |-> "cs_refund", escalate_to_supervisor |-> "cs_refund",
   add_case_note |-> "cs_refund", file_eft_dispute |-> "cs_eft_dispute",
   issue_provisional_credit |-> "cs_eft_dispute", flag_account |-> "fraud_alert_triage",
   submit_sar |-> "fraud_alert_triage", close_alert |-> "fraud_alert_triage"]

\* _action_policy: the requested procedure, if it is known and lists the action.
ActionPolicy(x, requested) ==
  IF requested \in DOMAIN AllowedActions /\ x \in AllowedActions[requested]
  THEN requested ELSE DefaultProcedure[x]

-----------------------------------------------------------------------------
(* Actions and the resources they are about. *)

\* The resource type a proposal tool fills in; the model supplies only the id.
ToolResource ==
  [issue_refund |-> "order", issue_store_credit |-> "order", file_eft_dispute |-> "transaction",
   issue_provisional_credit |-> "dispute", flag_account |-> "account",
   submit_sar |-> "fraud_alert", close_alert |-> "fraud_alert"]

\* ACTION_SPECIFICATIONS: with authoritative parameters, and with a customer binding.
Authoritative == ActionName \ {"update_case_status", "escalate_to_supervisor", "add_case_note"}
CustomerBound == {"issue_refund", "issue_store_credit", "file_eft_dispute", "issue_provisional_credit"}

\* RefundDecisionService.evaluate
Refundable(row, customer) ==
  /\ row.owner = customer
  /\ row.status \in {"delivered", "completed"}
  /\ row.age <= 30
  /\ row.amount > 0

\* _prepare_generic and _prepare_refund; rows holds the row of the resource that the
\* intent names, if it names one.
\* Slip: the owner of the row is not looked at.
Prepared_AnyOwner(x, rows, customer) == x \in Authoritative => rows # {}

Prepared(x, rows, customer) ==
  /\ x \in Authoritative => rows # {}
  /\ \A row \in rows : /\ x \in CustomerBound => row.owner = customer
                       /\ x = "issue_refund" => Refundable(row, customer)

==============================================================================
