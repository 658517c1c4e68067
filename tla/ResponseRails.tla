---------------------------- MODULE ResponseRails ----------------------------
(***************************************************************************)
(* What happens to a model's answer before it is sent: the pattern rails,  *)
(* the verification against the facts of the session, the rewrites, and    *)
(* the fallback.                                                           *)
(*                                                                         *)
(*   main.py               _generate_safe_turn                             *)
(*   agents/guardrails.py  filter_response, steer_response                 *)
(*   agents/reasoning.py   extract_claims, ReasoningEngine                 *)
(*   agents/compliance.py  ComplianceChecker                               *)
(*                                                                         *)
(* A text is the set of things the patterns find in it.  The pattern for   *)
(* amounts also matches a dollar sign followed by commas alone, which      *)
(* float() does not parse (bare): a check that reads the amounts of such a *)
(* text raises, and nothing between it and the turn catches that.  The Z3  *)
(* queries are ground: each constant is fixed by an equation.              *)
(* The facts are those of the session as it was loaded when the turn       *)
(* began, before the tools of the turn ran.  The rails read the order's    *)
(* total, age and status, and an issued provisional credit, from keys that *)
(* a host may fill in (host) and that no tool writes.                      *)
(***************************************************************************)
EXTENDS SessionFacts

CONSTANTS
  Text,            \* texts the model may produce: records as in TextType
  Step,            \* steps of procedures
  Amount,          \* dollar amounts in texts
  Credit,          \* amounts of provisional credits
  MaxIterations,   \* reasoning_max_iterations
  MaxTools         \* bound on the tool calls of a turn

VARIABLES
  settings,   \* reasoning_enabled, compliance_enabled
  host,       \* session keys written by the host: procedure, step, order facts, credit
  seen,       \* tool facts of the session as loaded by this turn
  text,       \* the candidate, after the pattern rails
  steer,      \* where the turn is: [at, tools, rewrites, canRewrite]
  sent        \* the text returned to the channel

vars == <<factVars, settings, host, seen, text, steer, sent>>

TextType == [amounts : SUBSET Amount, approved : BOOLEAN, denied : BOOLEAN,
             storeCredit : BOOLEAN, disclosed : BOOLEAN, units : BOOLEAN,
             tier : BOOLEAN, prohibited : BOOLEAN, internal : BOOLEAN, bare : BOOLEAN]
ProcedureId == {"cs_refund", "cs_eft_dispute", "cs_complaint"}
OrderStatus == {"processing", "shipped", "delivered", "completed"}

\* Amounts and ages are numbers, a text is what the patterns can find, and what is
\* missing is none of the things that can be there.
ASSUME RailsAssumption ==
  /\ Text \subseteq TextType /\ Amount \subseteq Nat
  /\ \A o \in Order : /\ OrderRow[o].total \in Int /\ OrderRow[o].age \in Int
                      /\ OrderRow[o].status \in OrderStatus
  /\ \A d \in Dispute : DisputeRow[d].amount \in Int
  /\ None \notin Int /\ Unlimited \notin Int
  /\ None \notin Order /\ None \notin Dispute /\ None \notin Eligibility /\ None \notin Facts
  /\ None \notin TextType /\ None \notin ProcedureId \cup OrderStatus
  /\ MaxIterations \in Nat /\ MaxTools \in Nat

NoHost == [procedure |-> None, step |-> None, total |-> None, age |-> None,
           status |-> None, refundable |-> TRUE, credit |-> None]

\* check_response, by severity: promises and advice are only reported.
check_response(t) ==
  (IF t.internal THEN {"redact"} ELSE {}) \cup (IF t.prohibited THEN {"warning"} ELSE {})

filter_response(t) == IF "redact" \in check_response(t) THEN [t EXCEPT !.internal = FALSE] ELSE t

\* _parse_condition_to_z3, for the condition that leads to process_refund.
Eligible(h) == h.age <= 30 /\ h.status \in {"delivered", "shipped"} /\ h.refundable

\* build_policy_from_procedure: without a procedure there is no policy; cs_refund has
\* the condition above in its step check_eligibility.
UniversalRules == {"refund_lte_total", "refund_positive", "order_total_positive"}
Rules(procedure) ==
  (IF procedure # None THEN UniversalRules ELSE {}) \cup
  (IF procedure = "cs_refund" THEN {"check_eligibility"} ELSE {})

\* _verify_eligibility_claims
EligibilityErrors(t, h) ==
  /\ "check_eligibility" \in Rules(h.procedure)
  /\ h.age # None /\ h.status # None
  /\ (t.approved /\ ~ Eligible(h)) \/ (t.denied /\ Eligible(h))

\* _verify_amount_claims
AmountErrors(t, h) == h.total # None /\ \E a \in t.amounts : a > h.total

\* ReasoningEngine.verify
ReasoningErrors(t, h) ==
  Rules(h.procedure) # {} /\ (EligibilityErrors(t, h) \/ AmountErrors(t, h))

\* _verify_step_claims
StepWarnings(t, h) ==
  /\ h.procedure # None /\ h.step # None
  /\ \/ t.approved /\ h.step \notin {"process_refund", "cancel_order"}
     \/ t.storeCredit /\ h.step \notin {"deny_refund_window", "offer_store_credit"}

\* check_financial_compliance
FinancialErrors(t, h) ==
  h.total # None /\ \E a \in t.amounts : a > h.total \/ a <= 0

\* check_reg_e_compliance: the liability is the assessment's, if it has one, and
\* the dispute's otherwise; "unlimited" is no number and ends the comparison.
Liability(s) ==
  IF s.elig # None /\ s.elig.liability # None THEN s.elig.liability
  ELSE IF s.dispute # None THEN DisputeRow[s.dispute].liability ELSE None

LiabilityKnown(s) == s.dispute # None /\ Liability(s) \notin {None, Unlimited}

NonNegative(n) == IF n < 0 THEN 0 ELSE n
CreditErrors(t, h, s) ==
  /\ LiabilityKnown(s)
  /\ LET disputed == DisputeRow[s.dispute].amount
     IN  \/ h.step = "assess_provisional_credit" /\ \E a \in t.amounts : a > disputed
         \/ h.credit # None /\ h.credit # NonNegative(disputed - Liability(s))

\* check_all calls it also for cs_eft_dispute, but without a dispute it returns at once.
DisputeKnown(s) == s.dispute # None \/ s.elig # None
RegEErrors(t, h, s) == DisputeKnown(s) /\ (CreditErrors(t, h, s) \/ t.tier)
TimelineWarnings(t, h, s) ==
  DisputeKnown(s) /\ h.step \in {"file_dispute", "close_dispute"} /\ t.units

\* check_procedure_compliance: required disclosures and prohibited content.
Disclosing == {"process_refund", "offer_store_credit", "escalate_case", "file_dispute",
               "assess_provisional_credit", "close_dispute", "deny_late_dispute"}
DisclosureWarnings(t, h) == h.step \in Disclosing /\ ~ t.disclosed

\* check_all
ComplianceErrors(t, h, s) == FinancialErrors(t, h) \/ t.prohibited \/ RegEErrors(t, h, s)
ComplianceWarnings(t, h, s) == TimelineWarnings(t, h, s) \/ DisclosureWarnings(t, h)

\* _run_verification.  Every finding is an error or a warning, so the verdict
\* VALID is never given.
Verdict(t, h, s, compliance) ==
  IF ReasoningErrors(t, h) \/ (compliance /\ ComplianceErrors(t, h, s)) THEN "INVALID"
  ELSE IF StepWarnings(t, h) \/ (compliance /\ ComplianceWarnings(t, h, s)) THEN "SATISFIABLE"
  ELSE "NOT_APPLICABLE"

\* Verification reads the amounts of a text: extract_claims once there is a policy
\* with rules, the financial check once a total is known, and the one of Regulation
\* E once the dispute and its liability are.
Raises(t, h, s, compliance) ==
  /\ t.bare
  /\ \/ Rules(h.procedure) # {}
     \/ compliance /\ (h.total # None \/ LiabilityKnown(s))

\* _SAFE_FALLBACK
Fallback == [amounts |-> {}, approved |-> FALSE, denied |-> FALSE, storeCredit |-> FALSE,
             disclosed |-> FALSE, units |-> FALSE, tier |-> FALSE, prohibited |-> FALSE,
             internal |-> FALSE, bare |-> FALSE]
NoSteer == [at |-> "idle", tools |-> 0, rewrites |-> 0, canRewrite |-> FALSE]

Init ==
  /\ FactsInit
  /\ settings \in [reasoning : BOOLEAN, compliance : BOOLEAN]
  /\ host = NoHost
  /\ seen = None
  /\ text = None
  /\ steer = NoSteer
  /\ sent = None

\* Between turns a host moves the procedure on or records what it knows.
HostMoves ==
  /\ steer.at = "idle"
  /\ \E p \in ProcedureId, s \in Step : host' = [host EXCEPT !.procedure = p, !.step = s]
  /\ UNCHANGED <<factVars, settings, seen, text, steer, sent>>

\* _get_order_age_days: a date in a format it does not know gives no age.
KnownAge(o) == {OrderRow[o].age, None}

HostRecords ==
  /\ steer.at = "idle"
  /\ \/ /\ state.order # None
        /\ \E refundable \in BOOLEAN, age \in KnownAge(state.order) :
             host' = [host EXCEPT !.total = OrderRow[state.order].total,
                                  !.age = age,
                                  !.status = OrderRow[state.order].status,
                                  !.refundable = refundable]
     \/ \E a \in Credit : host' = [host EXCEPT !.credit = a]
  /\ UNCHANGED <<factVars, settings, seen, text, steer, sent>>

\* _generate_safe_turn: the session is loaded, then the agent runs with a copy of
\* its own, then its last answer goes through the rails.
BeginTurn ==
  /\ steer.at = "idle"
  /\ seen' = state
  /\ steer' = [NoSteer EXCEPT !.at = "run"]
  /\ UNCHANGED <<factVars, settings, host, text, sent>>

RunTool ==
  /\ steer.at = "run" /\ steer.tools < MaxTools
  /\ CallTool
  /\ steer' = [steer EXCEPT !.tools = @ + 1]
  /\ UNCHANGED <<settings, host, seen, text, sent>>

\* steer_response, first layer; main.py passes no generate_fn.
Answer ==
  /\ steer.at = "run"
  /\ \E t \in Text, canRewrite \in BOOLEAN :
       /\ text' = filter_response(t)
       /\ IF settings.reasoning
          THEN /\ steer' = [NoSteer EXCEPT !.at = "verify", !.canRewrite = canRewrite]
               /\ UNCHANGED sent
          ELSE /\ steer' = [NoSteer EXCEPT !.at = "sent"]
               /\ sent' = filter_response(t)
  /\ UNCHANGED <<factVars, settings, host, seen>>

Send(t) == sent' = t /\ steer' = [NoSteer EXCEPT !.at = "sent"]

\* The exception leaves steer_response and the turn: no text goes out.
Fail == steer' = [NoSteer EXCEPT !.at = "failed"] /\ UNCHANGED sent

\* One pass of the loop: send, rewrite, or give up with the fallback.
\* Slip: when no rewrite is possible the candidate is sent as it is.
Verify_NoFallback ==
  /\ steer.at = "verify"
  /\ IF Raises(text, host, seen, settings.compliance) THEN Fail
     ELSE IF Verdict(text, host, seen, settings.compliance) = "INVALID"
             /\ steer.canRewrite /\ steer.rewrites < MaxIterations
          THEN steer' = [steer EXCEPT !.at = "rewrite"] /\ UNCHANGED sent
          ELSE Send(text)
  /\ UNCHANGED <<factVars, settings, host, seen, text>>

\* Slip: a candidate with warnings is not sent either.
Verify_StrictWarnings ==
  /\ steer.at = "verify"
  /\ IF Raises(text, host, seen, settings.compliance) THEN Fail
     ELSE IF Verdict(text, host, seen, settings.compliance) = "NOT_APPLICABLE" THEN Send(text)
     ELSE Send(Fallback)
  /\ UNCHANGED <<factVars, settings, host, seen, text>>

\* Slip: the loop has no bound.
Verify_Unbounded ==
  /\ steer.at = "verify"
  /\ IF Raises(text, host, seen, settings.compliance) THEN Fail
     ELSE IF Verdict(text, host, seen, settings.compliance) # "INVALID" THEN Send(text)
     ELSE steer' = [steer EXCEPT !.at = "rewrite"] /\ UNCHANGED sent
  /\ UNCHANGED <<factVars, settings, host, seen, text>>

Verify ==
  /\ steer.at = "verify"
  /\ IF Raises(text, host, seen, settings.compliance) THEN Fail
     ELSE IF Verdict(text, host, seen, settings.compliance) # "INVALID" THEN Send(text)
     ELSE IF steer.canRewrite /\ steer.rewrites < MaxIterations
          THEN steer' = [steer EXCEPT !.at = "rewrite"] /\ UNCHANGED sent
          ELSE Send(Fallback)
  /\ UNCHANGED <<factVars, settings, host, seen, text>>

\* generate_fn answers, and its text goes through the pattern rails again.
Rewrite ==
  /\ steer.at = "rewrite"
  /\ \E t \in Text : text' = filter_response(t)
  /\ steer' = [steer EXCEPT !.at = "verify",
                            !.rewrites = IF @ < MaxIterations THEN @ + 1 ELSE @]
  /\ UNCHANGED <<factVars, settings, host, seen, sent>>

\* generate_fn raises: the verdict on the old candidate stands.
RewriteFails ==
  /\ steer.at = "rewrite"
  /\ Send(Fallback)
  /\ UNCHANGED <<factVars, settings, host, seen, text>>

\* The answer is out, or the turn has raised; the next starts from nothing.
EndTurn ==
  /\ steer.at \in {"sent", "failed"}
  /\ steer' = NoSteer
  /\ seen' = None
  /\ text' = None
  /\ sent' = None
  /\ UNCHANGED <<factVars, settings, host>>

Steering == Answer \/ Verify \/ Rewrite \/ RewriteFails \/ EndTurn
Next == HostMoves \/ HostRecords \/ BeginTurn \/ RunTool \/ Steering

Spec == Init /\ [][Next]_vars

\* The coroutine of a turn is scheduled until it returns; a tool or a host may
\* interleave, but neither goes on for ever once the agent answers.
FairSpec == Spec /\ WF_vars(Verify \/ Rewrite \/ RewriteFails)

-----------------------------------------------------------------------------

\* Session, host keys and the answer under way have the shape the code gives them; a
\* turn holds the facts it loaded, of the same customer, until it ends.
TypeOK ==
  /\ FactsTypeOK
  /\ settings \in [reasoning : BOOLEAN, compliance : BOOLEAN]
  /\ host \in [procedure : ProcedureId \cup {None}, step : Step \cup {None},
               total : {OrderRow[o].total : o \in Order} \cup {None},
               age : {OrderRow[o].age : o \in Order} \cup {None},
               status : OrderStatus \cup {None}, refundable : BOOLEAN,
               credit : Credit \cup {None}]
  /\ seen \in Facts \cup {None}
  /\ seen # None => seen.customer = state.customer
  /\ seen = None <=> steer.at = "idle"
  /\ text \in TextType \cup {None}
  /\ steer \in [at : {"idle", "run", "verify", "rewrite", "sent", "failed"},
                tools : 0 .. MaxTools, rewrites : 0 .. MaxIterations, canRewrite : BOOLEAN]
  /\ sent \in TextType \cup {None}

\* Tools never bring another customer's order or dispute into a session, by id or
\* by search, so the facts answers are checked against are the customer's own.
OwnFacts ==
  /\ state.order # None => OrderRow[state.order].customer = state.customer
  /\ state.dispute # None => DisputeRow[state.dispute].customer = state.customer

\* What the rails promise about a text, said without reference to how they look
\* for it: no internals; no amount beyond the order's known total; no approval of
\* an order outside the refund conditions and no denial of one inside; nothing
\* prohibited, no liability tiers once a dispute is known, and no credit above
\* the disputed amount.
Respects(t, h, s) ==
  /\ h.procedure # None /\ h.total # None => t.amounts \subseteq 0 .. h.total
  /\ h.procedure = "cs_refund" /\ {h.age, h.status} \cap {None} = {} =>
       /\ t.approved => h.refundable /\ h.age < 31 /\ h.status \notin {"processing", "completed"}
       /\ t.denied => ~ h.refundable \/ h.age > 30 \/ h.status \in {"processing", "completed"}
RespectsCompliance(t, h, s) ==
  /\ ~ t.prohibited
  /\ h.total # None => t.amounts \subseteq 1 .. h.total
  /\ s.dispute # None \/ s.elig # None => ~ t.tier
  /\ s.dispute # None /\ h.step = "assess_provisional_credit" /\ Liability(s) \in {50, 500} =>
       t.amounts \subseteq 0 .. DisputeRow[s.dispute].amount

\* With reasoning on, steer_response returns the fallback or a text that respects
\* the facts, after any number of rewrites, failed rewrites included; and with
\* reasoning off at least nothing internal is sent.
SentRespectsFacts ==
  sent # None =>
    /\ ~ sent.internal
    /\ settings.reasoning =>
         /\ Respects(sent, host, seen)
         /\ settings.compliance => RespectsCompliance(sent, host, seen)

\* The fallback is the last resort: it replaces a candidate only if that broke a
\* rule of the rails, never because of a warning.
FallbackIsNeeded ==
  sent = Fallback /\ text # Fallback =>
    \/ ~ Respects(text, host, seen)
    \/ settings.compliance /\ (~ RespectsCompliance(text, host, seen) \/ CreditErrors(text, host, seen))

\* Every answer leaves the rails: the loop of verification and rewriting ends, with
\* a text sent or, only if the candidate holds an amount that does not parse, with
\* an exception.
AnswerIsSent == steer.at = "verify" ~> (sent # None \/ (steer.at = "failed" /\ text.bare))

==============================================================================
