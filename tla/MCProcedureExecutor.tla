------------------------ MODULE MCProcedureExecutor ------------------------
(* Small instances of ProcedureExecutor for TLC. *)
EXTENDS ProcedureExecutor, TLC

Inform == [next |-> None, on_success |-> None, on_failure |-> None, conditions |-> {},
           options |-> {}, action |-> "inform", tool |-> FALSE]

\* A refund in miniature: look up, then refund or deny, and back to the look-up.
Refund == [first |-> "lookup",
           steps |-> [lookup |-> [Inform EXCEPT !.action = "tool_call", !.tool = TRUE,
                                                !.on_success = "refund", !.on_failure = "deny"],
                      refund |-> [Inform EXCEPT !.conditions = {"end"}],
                      deny   |-> [Inform EXCEPT !.options = {"lookup"}]]]
\* An option that leads nowhere, and a tool_call without a tool.
Dangling == [first |-> "lookup", steps |-> [lookup |-> [Inform EXCEPT !.options = {"refund"}]]]
Toolless == [first |-> "deny", steps |-> [deny |-> [Inform EXCEPT !.action = "tool_call"]]]

Contents3 == [refund |-> Refund, dangling |-> Dangling, toolless |-> Toolless]
Started == {[act |-> "started", step |-> "lookup", from |-> None]}

Symmetry == Permutations(Executor) \cup Permutations(Caller)

=============================================================================
