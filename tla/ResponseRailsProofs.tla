------------------------- MODULE ResponseRailsProofs -------------------------
(***************************************************************************)
(* Proofs about the read tools and the response rails, for every set of    *)
(* texts, orders, disputes and roles and every bound on the rewrites: the  *)
(* facts of a session are its customer's own, what leaves steer_response   *)
(* respects the facts of the session, and the fallback replaces a          *)
(* candidate only if that broke a rule.                                    *)
(*                                                                         *)
(* What is sent has to be tied to the verdict that let it pass: RailsInv   *)
(* remembers, while a rewrite is asked for and once a text is out, which   *)
(* verdict the candidate had.  The verdict stays true because neither the  *)
(* host keys nor the loaded facts change before the turn ends.             *)
(***************************************************************************)
EXTENDS ResponseRails, TLAPS

HostKeys == [procedure : ProcedureId \cup {None}, step : Step \cup {None},
             total : {OrderRow[o].total : o \in Order} \cup {None},
             age : {OrderRow[o].age : o \in Order} \cup {None},
             status : OrderStatus \cup {None}, refundable : BOOLEAN,
             credit : Credit \cup {None}]

SteerType == [at : {"idle", "run", "verify", "rewrite", "sent", "failed"}, tools : 0 .. MaxTools,
              rewrites : 0 .. MaxIterations, canRewrite : BOOLEAN]

Refused == Verdict(text, host, seen, settings.compliance) = "INVALID"

\* The candidate under way and the text that was sent, tied to the verdict.
CandidateInv ==
  /\ text # None => ~ text.internal
  /\ steer.at \in {"verify", "rewrite"} => text # None /\ settings.reasoning
  /\ steer.at = "rewrite" => Refused
  /\ sent # None <=> steer.at = "sent"
  /\ sent # None => text # None
  /\ sent # None /\ settings.reasoning =>
       (sent = text /\ ~ Refused) \/ (sent = Fallback /\ Refused)
  /\ sent # None /\ ~ settings.reasoning => sent = text

RailsInv == TypeOK /\ OwnFacts /\ CandidateInv

-------------------------------------------------------------------------------
(* The rails as operators on texts. *)

\* filter_response returns a text, and nothing internal is left in it.
LEMMA FilteredText ==
  ASSUME NEW t \in Text
  PROVE  filter_response(t) \in TextType /\ ~ filter_response(t).internal
<1>1. t \in TextType
  BY Zenon, RailsAssumption
<1>2. CASE t.internal
  <2>1. filter_response(t) = [t EXCEPT !.internal = FALSE]
    BY Zenon, <1>2 DEF filter_response, check_response
  <2>2. QED
    BY Zenon, <1>1, <2>1 DEF TextType
<1>3. CASE ~ t.internal
  <2>1. filter_response(t) = t
    BY Zenon, <1>3 DEF filter_response, check_response
  <2>2. QED
    BY Zenon, <1>1, <1>3, <2>1
<1>4. QED
  BY Zenon, <1>2, <1>3

\* The fallback is a text like any other, and is told apart from a missing one.
LEMMA FallbackText == Fallback \in TextType /\ ~ Fallback.internal /\ Fallback # None
<1>1. Fallback \in TextType /\ ~ Fallback.internal
  BY Zenon DEF Fallback, TextType
<1>2. QED
  BY Zenon, <1>1, RailsAssumption

\* The keys of the host are numbers and statuses wherever they are there.
LEMMA HostNumbers ==
  ASSUME NEW h \in HostKeys
  PROVE  /\ h.total # None => h.total \in Int
         /\ h.age # None => h.age \in Int
         /\ h.status # None => h.status \in OrderStatus
BY Zenon, RailsAssumption DEF HostKeys

\* The condition _parse_condition_to_z3 builds is the refund window and the two
\* statuses of an order that was sent.
LEMMA EligibleMeans ==
  ASSUME NEW h \in HostKeys, h.age # None, h.status # None
  PROVE  Eligible(h) <=>
           h.refundable /\ h.age < 31 /\ h.status \notin {"processing", "completed"}
<1>1. h.age \in Int /\ h.status \in OrderStatus
  BY Zenon, HostNumbers
<1>2. h.refundable \in BOOLEAN
  BY Zenon DEF HostKeys
<1>3. h.age <= 30 <=> h.age < 31
  BY <1>1
<1>4. h.status \in {"delivered", "shipped"} <=> h.status \notin {"processing", "completed"}
  BY Zenon, <1>1 DEF OrderStatus
<1>5. QED
  BY Zenon, <1>2, <1>3, <1>4 DEF Eligible

\* A procedure is what makes the policy rules apply, and cs_refund has the condition.
LEMMA RulesMean ==
  ASSUME NEW h \in HostKeys
  PROVE  /\ Rules(h.procedure) # {} <=> h.procedure # None
         /\ "check_eligibility" \in Rules(h.procedure) <=> h.procedure = "cs_refund"
<1>1. None # "cs_refund"
  BY Zenon, RailsAssumption DEF ProcedureId
<1>2. QED
  BY Zenon, <1>1 DEF Rules, UniversalRules

\* ReasoningEngine.verify finds an error exactly in a text that does not respect the
\* policy of the procedure.
LEMMA ReasoningFindsErrors ==
  ASSUME NEW t \in TextType, NEW h \in HostKeys, NEW s
  PROVE  ReasoningErrors(t, h) <=> ~ Respects(t, h, s)
<1> DEFINE Amounts == h.procedure # None /\ h.total # None => t.amounts \subseteq 0 .. h.total
<1> DEFINE Conditions ==
      h.procedure = "cs_refund" /\ {h.age, h.status} \cap {None} = {} =>
        /\ t.approved => h.refundable /\ h.age < 31 /\ h.status \notin {"processing", "completed"}
        /\ t.denied => ~ h.refundable \/ h.age > 30 \/ h.status \in {"processing", "completed"}
<1>1. t.amounts \subseteq Nat /\ t.approved \in BOOLEAN /\ t.denied \in BOOLEAN
  BY Zenon, RailsAssumption DEF TextType
<1>2. h.procedure # None => (AmountErrors(t, h) <=> ~ Amounts)
  BY <1>1, HostNumbers DEF AmountErrors
<1>3. EligibilityErrors(t, h) <=> ~ Conditions
  <2>1. CASE h.procedure = "cs_refund" /\ h.age # None /\ h.status # None
    <3>1. h.age \in Int /\ h.refundable \in BOOLEAN
      BY Zenon, <2>1, HostNumbers DEF HostKeys
    <3>2. h.age > 30 <=> ~ (h.age < 31)
      BY <3>1
    <3>3. Eligible(h) <=>
            h.refundable /\ h.age < 31 /\ h.status \notin {"processing", "completed"}
      BY Zenon, <2>1, EligibleMeans
    <3>4. EligibilityErrors(t, h) <=> (t.approved /\ ~ Eligible(h)) \/ (t.denied /\ Eligible(h))
      BY Zenon, <2>1, RulesMean DEF EligibilityErrors
    <3>5. {h.age, h.status} \cap {None} = {}
      BY Zenon, <2>1
    <3>6. QED
      BY Zenon, <1>1, <2>1, <3>1, <3>2, <3>3, <3>4, <3>5
  <2>2. CASE ~ (h.procedure = "cs_refund" /\ h.age # None /\ h.status # None)
    <3>1. ~ EligibilityErrors(t, h)
      BY Zenon, <2>2, RulesMean DEF EligibilityErrors
    <3>2. Conditions
      BY Zenon, <2>2
    <3>3. QED
      BY Zenon, <3>1, <3>2
  <2>3. QED
    BY Zenon, <2>1, <2>2
<1>4. Respects(t, h, s) <=> Amounts /\ Conditions
  BY Zenon DEF Respects
<1>5. h.procedure = None => Amounts /\ Conditions
  BY Zenon, RailsAssumption DEF ProcedureId
<1>6. ReasoningErrors(t, h) <=> h.procedure # None /\ (EligibilityErrors(t, h) \/ AmountErrors(t, h))
  BY Zenon, RulesMean DEF ReasoningErrors
<1> HIDE DEF Amounts, Conditions
<1>7. QED
  BY Zenon, <1>2, <1>3, <1>4, <1>5, <1>6

\* check_all finds an error in every text that breaks the compliance rules, and in no
\* other except for an issued credit that is not the amount the regulation gives.
LEMMA ComplianceFindsErrors ==
  ASSUME NEW t \in TextType, NEW h \in HostKeys, NEW s \in Facts
  PROVE  /\ ~ ComplianceErrors(t, h, s) => RespectsCompliance(t, h, s)
         /\ ComplianceErrors(t, h, s) => ~ RespectsCompliance(t, h, s) \/ CreditErrors(t, h, s)
<1>1. t.amounts \subseteq Nat
  BY Zenon, RailsAssumption DEF TextType
<1>2. FinancialErrors(t, h) <=> ~ (h.total # None => t.amounts \subseteq 1 .. h.total)
  BY <1>1, HostNumbers DEF FinancialErrors
<1>3. ASSUME ~ CreditErrors(t, h, s), s.dispute # None, h.step = "assess_provisional_credit",
             Liability(s) \in {50, 500}
      PROVE  t.amounts \subseteq 0 .. DisputeRow[s.dispute].amount
  <2>1. s.dispute \in Dispute
    BY <1>3 DEF Facts
  <2>2. DisputeRow[s.dispute].amount \in Int
    BY Zenon, <2>1, RailsAssumption
  <2>3. Liability(s) \notin {None, Unlimited}
    <3>1. 50 \in Int /\ 500 \in Int
      OBVIOUS
    <3>2. QED
      BY <1>3, <3>1, RailsAssumption
  <2>4. \A a \in t.amounts : ~ (a > DisputeRow[s.dispute].amount)
    BY <1>3, <2>3 DEF CreditErrors, LiabilityKnown
  <2>5. QED
    BY <1>1, <2>2, <2>4
<1>4. (s.dispute # None \/ s.elig # None) <=> DisputeKnown(s)
  BY Zenon DEF DisputeKnown
<1>5. ASSUME ~ ComplianceErrors(t, h, s)
      PROVE  RespectsCompliance(t, h, s)
  <2>1. ~ FinancialErrors(t, h) /\ ~ t.prohibited /\ ~ RegEErrors(t, h, s)
    BY Zenon, <1>5 DEF ComplianceErrors
  <2>2. DisputeKnown(s) => ~ CreditErrors(t, h, s) /\ ~ t.tier
    BY Zenon, <2>1 DEF RegEErrors
  <2>3. QED
    BY <1>2, <1>3, <1>4, <2>1, <2>2 DEF RespectsCompliance
<1>6. ASSUME ComplianceErrors(t, h, s), ~ CreditErrors(t, h, s)
      PROVE  ~ RespectsCompliance(t, h, s)
  <2>1. FinancialErrors(t, h) \/ t.prohibited \/ (DisputeKnown(s) /\ t.tier)
    BY Zenon, <1>6 DEF ComplianceErrors, RegEErrors
  <2>2. QED
    BY Zenon, <1>2, <1>4, <2>1 DEF RespectsCompliance
<1>7. QED
  BY Zenon, <1>5, <1>6

\* _run_verification refuses a text exactly if a layer that is switched on found an error.
LEMMA RefusedMeans ==
  ASSUME NEW t, NEW h, NEW s, NEW c \in BOOLEAN
  PROVE  Verdict(t, h, s, c) = "INVALID" <=>
           ReasoningErrors(t, h) \/ (c /\ ComplianceErrors(t, h, s))
BY Zenon DEF Verdict

\* The fallback claims nothing, so it breaks none of the rules.
LEMMA FallbackRespects ==
  ASSUME NEW h \in HostKeys, NEW s
  PROVE  Respects(Fallback, h, s) /\ RespectsCompliance(Fallback, h, s)
<1>1. /\ Fallback.amounts = {} /\ ~ Fallback.approved /\ ~ Fallback.denied
      /\ ~ Fallback.prohibited /\ ~ Fallback.tier
  BY Zenon DEF Fallback
<1>2. Respects(Fallback, h, s)
  BY Zenon, <1>1 DEF Respects
<1>3. RespectsCompliance(Fallback, h, s)
  BY <1>1 DEF RespectsCompliance
<1>4. QED
  BY Zenon, <1>2, <1>3


-------------------------------------------------------------------------------
(* Every step keeps the invariant. *)

\* Every phase of a turn starts with no tool called and no rewrite made.
LEMMA PhaseStarts ==
  /\ NoSteer \in SteerType /\ NoSteer.at = "idle"
  /\ \A a \in {"run", "verify", "sent", "failed"} :
       /\ [NoSteer EXCEPT !.at = a] \in SteerType
       /\ [NoSteer EXCEPT !.at = a].at = a
       /\ \A c \in BOOLEAN : /\ [NoSteer EXCEPT !.at = a, !.canRewrite = c] \in SteerType
                            /\ [NoSteer EXCEPT !.at = a, !.canRewrite = c].at = a
<1>1. 0 \in 0 .. MaxTools /\ 0 \in 0 .. MaxIterations
  BY RailsAssumption
<1>2. NoSteer \in SteerType /\ NoSteer.at = "idle"
  BY Zenon, <1>1 DEF NoSteer, SteerType
<1>3. ASSUME NEW a \in {"run", "verify", "sent", "failed"}
      PROVE  [NoSteer EXCEPT !.at = a] \in SteerType /\ [NoSteer EXCEPT !.at = a].at = a
  BY Zenon, <1>2 DEF SteerType
<1>4. ASSUME NEW a \in {"run", "verify", "sent", "failed"}, NEW c \in BOOLEAN
      PROVE  /\ [NoSteer EXCEPT !.at = a, !.canRewrite = c] \in SteerType
             /\ [NoSteer EXCEPT !.at = a, !.canRewrite = c].at = a
  BY Zenon, <1>2 DEF SteerType
<1>5. QED
  BY Zenon, <1>2, <1>3, <1>4

\* A new session has no facts, no answer under way and nothing sent.
LEMMA InitRailsInv == Init => RailsInv
<1> SUFFICES ASSUME Init PROVE RailsInv
  OBVIOUS
<1>1. FactsTypeOK /\ OwnFacts
  BY Zenon DEF Init, FactsInit, FactsTypeOK, Facts, OwnFacts
<1>2. host \in HostKeys
  BY Zenon DEF Init, NoHost, HostKeys
<1>3. steer \in SteerType /\ steer.at = "idle"
  BY Zenon, PhaseStarts DEF Init
<1>4. TypeOK
  BY Zenon, <1>1, <1>2, <1>3 DEF Init, TypeOK, HostKeys, SteerType
<1>5. CandidateInv
  BY Zenon, <1>3 DEF Init, CandidateInv
<1>6. QED
  BY Zenon, <1>1, <1>4, <1>5 DEF RailsInv

\* Between turns a host may write its keys: nothing has been checked against them yet.
LEMMA HostInv == RailsInv /\ (HostMoves \/ HostRecords) => RailsInv'
<1> SUFFICES ASSUME RailsInv, HostMoves \/ HostRecords PROVE RailsInv'
  OBVIOUS
<1>1. steer.at = "idle" /\ UNCHANGED <<factVars, settings, seen, text, steer, sent>>
  BY Zenon DEF HostMoves, HostRecords
<1>2. host \in HostKeys
  BY Zenon DEF RailsInv, TypeOK, HostKeys
<1>3. host' \in HostKeys
  <2>1. CASE HostMoves
    <3>1. PICK p \in ProcedureId, s \in Step : host' = [host EXCEPT !.procedure = p, !.step = s]
      BY Zenon, <2>1 DEF HostMoves
    <3>2. QED
      BY Zenon, <1>2, <3>1 DEF HostKeys
  <2>2. CASE HostRecords
    <3>1. CASE \E a \in Credit : host' = [host EXCEPT !.credit = a]
      BY Zenon, <1>2, <3>1 DEF HostKeys
    <3>2. ASSUME state.order # None, NEW refundable \in BOOLEAN, NEW age \in KnownAge(state.order),
                 host' = [host EXCEPT !.total = OrderRow[state.order].total, !.age = age,
                                      !.status = OrderRow[state.order].status,
                                      !.refundable = refundable]
          PROVE  host' \in HostKeys
      <4>1. state.order \in Order
        BY Zenon, <3>2 DEF RailsInv, TypeOK, FactsTypeOK, Facts
      <4>2. OrderRow[state.order].status \in OrderStatus
        BY Zenon, <4>1, RailsAssumption
      <4>3. age \in {OrderRow[o].age : o \in Order} \cup {None}
        BY Zenon, <4>1 DEF KnownAge
      <4>4. OrderRow[state.order].total \in {OrderRow[o].total : o \in Order}
        BY Zenon, <4>1
      <4>5. QED
        BY Zenon, <1>2, <3>2, <4>2, <4>3, <4>4 DEF HostKeys
    <3>3. QED
      BY Zenon, <2>2, <3>1, <3>2 DEF HostRecords
  <2>3. QED
    BY Zenon, <2>1, <2>2
<1>4. TypeOK'
  BY Zenon, <1>1, <1>3 DEF RailsInv, TypeOK, HostKeys, FactsTypeOK, factVars
<1>5. OwnFacts'
  BY Zenon, <1>1 DEF RailsInv, OwnFacts, factVars
<1>6. CandidateInv'
  BY Zenon, <1>1 DEF RailsInv, CandidateInv
<1>7. QED
  BY Zenon, <1>4, <1>5, <1>6 DEF RailsInv

\* The tools write what they found into the session: rows of the session's customer.
LEMMA ToolFacts ==
  ASSUME FactsTypeOK, OwnFacts, CallTool
  PROVE  FactsTypeOK' /\ OwnFacts' /\ state'.customer = state.customer
<1>0. state \in Facts /\ role \in Role
  BY Zenon DEF FactsTypeOK
<1>1. role' = role
  BY Zenon DEF CallTool, LookupOrder, SearchOrders, LookupDispute, CheckEligibility
<1>2. ASSUME NEW o \in Order, OrderRow[o].customer = state.customer,
             state' = [state EXCEPT !.order = o]
      PROVE  state' \in Facts /\ OwnFacts' /\ state'.customer = state.customer
  <2>1. state' \in Facts /\ state'.customer = state.customer /\ state'.order = o
        /\ state'.dispute = state.dispute
    BY Zenon, <1>0, <1>2 DEF Facts
  <2>2. QED
    BY Zenon, <1>2, <2>1 DEF OwnFacts
<1>3. ASSUME NEW d \in Dispute, DisputeRow[d].customer = state.customer,
             state' = [state EXCEPT !.dispute = d]
      PROVE  state' \in Facts /\ OwnFacts' /\ state'.customer = state.customer
  <2>1. state' \in Facts /\ state'.customer = state.customer /\ state'.dispute = d
        /\ state'.order = state.order
    BY Zenon, <1>0, <1>3 DEF Facts
  <2>2. QED
    BY Zenon, <1>3, <2>1 DEF OwnFacts
<1>4. ASSUME NEW e \in Eligibility, state' = [state EXCEPT !.elig = e]
      PROVE  state' \in Facts /\ OwnFacts' /\ state'.customer = state.customer
  <2>1. state' \in Facts /\ state'.customer = state.customer /\ state'.dispute = state.dispute
        /\ state'.order = state.order
    BY Zenon, <1>0, <1>4 DEF Facts
  <2>2. QED
    BY Zenon, <2>1 DEF OwnFacts
<1>5. ASSUME NEW c, NEW f
      PROVE  Found(c, f) \subseteq Order
  BY Zenon DEF Found, Search
<1>6. ASSUME NEW m, NEW n
      PROVE  Assessed(m, n) \in Eligibility
  <2>1. CASE m \notin Covered
    BY <2>1 DEF Assessed, Eligibility
  <2>2. CASE m \in Covered
    <3>1. LiabilityTier(n) \in {"tier_1", "tier_2", "tier_3"}
      BY Zenon DEF LiabilityTier
    <3>2. Assessed(m, n) =
            [eligible |-> LiabilityTier(n) # "tier_3", tier |-> LiabilityTier(n),
             liability |-> [tier_1 |-> 50, tier_2 |-> 500, tier_3 |-> Unlimited][LiabilityTier(n)]]
      BY Zenon, <2>2 DEF Assessed
    <3>3. [tier_1 |-> 50, tier_2 |-> 500, tier_3 |-> Unlimited][LiabilityTier(n)]
            \in {50, 500, Unlimited}
      BY <3>1
    <3>4. QED
      BY <3>1, <3>2, <3>3 DEF Eligibility
  <2>3. QED
    BY Zenon, <2>1, <2>2
<1>7. CASE LookupOrder
  BY Zenon, <1>0, <1>1, <1>2, <1>7 DEF LookupOrder, FactsTypeOK
<1>8. CASE SearchOrders
  <2>1. PICK f \in Filter : \E o \in Found(state.customer, f) :
          OrderRow[o].customer = state.customer /\ state' = [state EXCEPT !.order = o]
    BY Zenon, <1>8 DEF SearchOrders
  <2>2. QED
    BY Zenon, <1>0, <1>1, <1>2, <1>5, <2>1 DEF FactsTypeOK
<1>9. CASE LookupDispute
  BY Zenon, <1>0, <1>1, <1>3, <1>9 DEF LookupDispute, FactsTypeOK
<1>10. CASE CheckEligibility
  <2>1. PICK method \in Method, days \in Days : state' = [state EXCEPT !.elig = Assessed(method, days)]
    BY Zenon, <1>10 DEF CheckEligibility
  <2>2. Assessed(method, days) \in Eligibility
    BY Zenon, <1>6
  <2>3. QED
    BY Zenon, <1>0, <1>1, <1>4, <2>1, <2>2 DEF FactsTypeOK
<1>11. QED
  BY Zenon, <1>7, <1>8, <1>9, <1>10 DEF CallTool

\* A turn loads the facts of its session.
LEMMA BeginTurnInv == RailsInv /\ BeginTurn => RailsInv'
<1> SUFFICES ASSUME RailsInv, BeginTurn PROVE RailsInv'
  OBVIOUS
<1>1. seen' = state /\ steer.at = "idle" /\ UNCHANGED <<factVars, settings, host, text, sent>>
  BY Zenon DEF BeginTurn
<1>2. state \in Facts /\ state # None
  BY RailsAssumption DEF RailsInv, TypeOK, FactsTypeOK
<1>3. steer' \in SteerType /\ steer'.at = "run"
  BY Zenon, PhaseStarts DEF BeginTurn
<1>4. TypeOK'
  BY <1>1, <1>2, <1>3 DEF RailsInv, TypeOK, FactsTypeOK, factVars, SteerType
<1>5. OwnFacts'
  BY Zenon, <1>1 DEF RailsInv, OwnFacts, factVars
<1>6. CandidateInv'
  BY Zenon, <1>1, <1>3 DEF RailsInv, CandidateInv
<1>7. QED
  BY Zenon, <1>4, <1>5, <1>6 DEF RailsInv

\* A tool call adds to the session, and leaves the loaded facts as they were.
LEMMA RunToolInv == RailsInv /\ RunTool => RailsInv'
<1> SUFFICES ASSUME RailsInv, RunTool PROVE RailsInv'
  OBVIOUS
<1>1. /\ steer.at = "run" /\ steer.tools < MaxTools /\ CallTool
      /\ steer' = [steer EXCEPT !.tools = @ + 1]
      /\ UNCHANGED <<settings, host, seen, text, sent>>
  BY Zenon DEF RunTool
<1>2. FactsTypeOK' /\ OwnFacts' /\ state'.customer = state.customer
  BY Zenon, <1>1, ToolFacts DEF RailsInv, TypeOK
<1>3. steer' \in SteerType /\ steer'.at = "run"
  <2>1. steer \in SteerType
    BY Zenon DEF RailsInv, TypeOK, SteerType
  <2>2. steer.tools + 1 \in 0 .. MaxTools
    BY <1>1, <2>1, RailsAssumption DEF SteerType
  <2>3. QED
    BY Zenon, <1>1, <2>1, <2>2 DEF SteerType
<1>4. TypeOK'
  BY <1>1, <1>2, <1>3 DEF RailsInv, TypeOK, SteerType
<1>5. CandidateInv'
  BY Zenon, <1>1, <1>3 DEF RailsInv, CandidateInv
<1>6. QED
  BY Zenon, <1>2, <1>4, <1>5 DEF RailsInv

\* The answer of the agent becomes the candidate, or is sent when reasoning is off.
LEMMA AnswerInv == RailsInv /\ Answer => RailsInv'
<1> SUFFICES ASSUME RailsInv, Answer PROVE RailsInv'
  OBVIOUS
<1>1. PICK t \in Text, canRewrite \in BOOLEAN :
        /\ text' = filter_response(t)
        /\ IF settings.reasoning
           THEN /\ steer' = [NoSteer EXCEPT !.at = "verify", !.canRewrite = canRewrite]
                /\ UNCHANGED sent
           ELSE /\ steer' = [NoSteer EXCEPT !.at = "sent"]
                /\ sent' = filter_response(t)
  BY Zenon DEF Answer
<1>2. steer.at = "run" /\ UNCHANGED <<factVars, settings, host, seen>>
  BY Zenon DEF Answer
<1>3. text' \in TextType /\ text' # None /\ ~ text'.internal
  BY Zenon, <1>1, FilteredText, RailsAssumption
<1>4. sent = None /\ seen # None
  BY Zenon, <1>2 DEF RailsInv, TypeOK, CandidateInv
<1>5. OwnFacts'
  BY Zenon, <1>2 DEF RailsInv, OwnFacts, factVars
<1>6. CASE settings.reasoning
  <2>1. steer' \in SteerType /\ steer'.at = "verify"
    <3>1. steer' = [NoSteer EXCEPT !.at = "verify", !.canRewrite = canRewrite]
      BY Zenon, <1>1, <1>6
    <3>2. [NoSteer EXCEPT !.at = "verify", !.canRewrite = canRewrite] \in SteerType
      BY Zenon, PhaseStarts
    <3>3. [NoSteer EXCEPT !.at = "verify", !.canRewrite = canRewrite].at = "verify"
      BY Zenon, PhaseStarts
    <3>4. QED
      BY Zenon, <3>1, <3>2, <3>3
  <2>2. sent' = None
    BY Zenon, <1>1, <1>4, <1>6
  <2>3. TypeOK'
    BY <1>2, <1>3, <1>4, <2>1, <2>2 DEF RailsInv, TypeOK, FactsTypeOK, factVars, SteerType
  <2>4. CandidateInv'
    BY Zenon, <1>2, <1>3, <1>6, <2>1, <2>2 DEF CandidateInv
  <2>5. QED
    BY Zenon, <1>5, <2>3, <2>4 DEF RailsInv
<1>7. CASE ~ settings.reasoning
  <2>1. steer' \in SteerType /\ steer'.at = "sent"
    BY Zenon, <1>1, <1>7, PhaseStarts
  <2>2. sent' = text'
    BY Zenon, <1>1, <1>7
  <2>3. TypeOK'
    BY <1>2, <1>3, <1>4, <2>1, <2>2 DEF RailsInv, TypeOK, FactsTypeOK, factVars, SteerType
  <2>4. CandidateInv'
    BY Zenon, <1>2, <1>3, <1>7, <2>1, <2>2 DEF CandidateInv
  <2>5. QED
    BY Zenon, <1>5, <2>3, <2>4 DEF RailsInv
<1>8. QED
  BY Zenon, <1>6, <1>7

\* Sending keeps the invariant if what goes out is the candidate that passed, or the
\* fallback for one that was refused.
LEMMA SendInv ==
  ASSUME RailsInv, steer.at \in {"verify", "rewrite"}, NEW t \in TextType, Send(t),
         (t = text /\ ~ Refused) \/ (t = Fallback /\ Refused),
         UNCHANGED <<factVars, settings, host, seen, text>>
  PROVE  RailsInv'
<1>1. sent' = t /\ t # None
  BY Zenon, RailsAssumption DEF Send
<1>2. steer' \in SteerType /\ steer'.at = "sent"
  BY Zenon, PhaseStarts DEF Send
<1>3. seen # None /\ text # None /\ settings.reasoning
  BY Zenon DEF RailsInv, TypeOK, CandidateInv
<1>4. TypeOK'
  BY <1>1, <1>2, <1>3 DEF RailsInv, TypeOK, FactsTypeOK, factVars, SteerType
<1>5. OwnFacts'
  BY Zenon DEF RailsInv, OwnFacts, factVars
<1>6. Refused' = Refused
  BY Zenon DEF Refused
<1>7. CandidateInv'
  BY Zenon, <1>1, <1>2, <1>3, <1>6 DEF RailsInv, CandidateInv
<1>8. QED
  BY Zenon, <1>4, <1>5, <1>7 DEF RailsInv

\* One pass of the loop: the verdict decides between sending, rewriting and giving up.
LEMMA VerifyInv == RailsInv /\ Verify => RailsInv'
<1> SUFFICES ASSUME RailsInv, Verify PROVE RailsInv'
  OBVIOUS
<1>1. /\ steer.at = "verify" /\ UNCHANGED <<factVars, settings, host, seen, text>>
      /\ IF Raises(text, host, seen, settings.compliance) THEN Fail
         ELSE IF ~ Refused THEN Send(text)
         ELSE IF steer.canRewrite /\ steer.rewrites < MaxIterations
              THEN steer' = [steer EXCEPT !.at = "rewrite"] /\ UNCHANGED sent
              ELSE Send(Fallback)
  BY Zenon DEF Verify, Refused
<1>2. text \in TextType /\ text # None /\ settings.reasoning /\ seen # None /\ sent = None
  BY Zenon, <1>1 DEF RailsInv, TypeOK, CandidateInv
<1>3. CASE ~ Refused /\ Send(text)
  BY Zenon, <1>1, <1>2, <1>3, SendInv
<1>4. CASE Refused /\ Send(Fallback)
  BY Zenon, <1>1, <1>4, FallbackText, SendInv
<1>5. CASE Refused /\ steer' = [steer EXCEPT !.at = "rewrite"] /\ UNCHANGED sent
  <2>1. steer' \in SteerType /\ steer'.at = "rewrite"
    BY Zenon, <1>5 DEF RailsInv, TypeOK, SteerType
  <2>2. TypeOK'
    BY <1>1, <1>2, <1>5, <2>1 DEF RailsInv, TypeOK, FactsTypeOK, factVars, SteerType
  <2>3. OwnFacts'
    BY Zenon, <1>1 DEF RailsInv, OwnFacts, factVars
  <2>4. Refused'
    BY Zenon, <1>1, <1>5 DEF Refused
  <2>5. CandidateInv'
    BY Zenon, <1>1, <1>2, <1>5, <2>1, <2>4 DEF RailsInv, CandidateInv
  <2>6. QED
    BY Zenon, <2>2, <2>3, <2>5 DEF RailsInv
<1>6. CASE Fail
  <2>1. steer' \in SteerType /\ steer'.at = "failed"
    BY Zenon, <1>6, PhaseStarts DEF Fail
  <2>2. sent' = None
    BY Zenon, <1>2, <1>6 DEF Fail
  <2>3. TypeOK'
    BY <1>1, <1>2, <2>1, <2>2 DEF RailsInv, TypeOK, FactsTypeOK, factVars, SteerType
  <2>4. OwnFacts'
    BY Zenon, <1>1 DEF RailsInv, OwnFacts, factVars
  <2>5. CandidateInv'
    BY Zenon, <1>1, <1>2, <2>1, <2>2 DEF RailsInv, CandidateInv
  <2>6. QED
    BY Zenon, <2>3, <2>4, <2>5 DEF RailsInv
<1>7. QED
  BY Zenon, <1>1, <1>3, <1>4, <1>5, <1>6

\* A rewritten candidate goes through the pattern rails before it is verified again.
LEMMA RewriteInv == RailsInv /\ Rewrite => RailsInv'
<1> SUFFICES ASSUME RailsInv, Rewrite PROVE RailsInv'
  OBVIOUS
<1>1. /\ steer.at = "rewrite" /\ UNCHANGED <<factVars, settings, host, seen, sent>>
      /\ steer' = [steer EXCEPT !.at = "verify",
                                !.rewrites = IF @ < MaxIterations THEN @ + 1 ELSE @]
  BY Zenon DEF Rewrite
<1>2. text' \in TextType /\ text' # None /\ ~ text'.internal
  BY Zenon, FilteredText, RailsAssumption DEF Rewrite
<1>3. settings.reasoning /\ sent = None /\ seen # None
  BY Zenon, <1>1 DEF RailsInv, TypeOK, CandidateInv
<1>4. steer' \in SteerType /\ steer'.at = "verify"
  <2>1. steer \in SteerType
    BY Zenon DEF RailsInv, TypeOK, SteerType
  <2>2. (IF steer.rewrites < MaxIterations THEN steer.rewrites + 1 ELSE steer.rewrites)
          \in 0 .. MaxIterations
    BY <2>1, RailsAssumption DEF SteerType
  <2>3. QED
    BY Zenon, <1>1, <2>1, <2>2 DEF SteerType
<1>5. TypeOK'
  BY <1>1, <1>2, <1>3, <1>4 DEF RailsInv, TypeOK, FactsTypeOK, factVars, SteerType
<1>6. OwnFacts'
  BY Zenon, <1>1 DEF RailsInv, OwnFacts, factVars
<1>7. CandidateInv'
  BY Zenon, <1>1, <1>2, <1>3, <1>4 DEF CandidateInv
<1>8. QED
  BY Zenon, <1>5, <1>6, <1>7 DEF RailsInv

\* A rewrite that fails leaves the refused candidate, which the fallback replaces.
LEMMA RewriteFailsInv == RailsInv /\ RewriteFails => RailsInv'
<1> SUFFICES ASSUME RailsInv, RewriteFails PROVE RailsInv'
  OBVIOUS
<1>1. steer.at = "rewrite" /\ Send(Fallback) /\ UNCHANGED <<factVars, settings, host, seen, text>>
  BY Zenon DEF RewriteFails
<1>2. Refused
  BY Zenon, <1>1 DEF RailsInv, CandidateInv
<1>3. QED
  BY Zenon, <1>1, <1>2, FallbackText, SendInv

\* A turn that ends forgets its facts and its candidate.
LEMMA EndTurnInv == RailsInv /\ EndTurn => RailsInv'
<1> SUFFICES ASSUME RailsInv, EndTurn PROVE RailsInv'
  OBVIOUS
<1>1. seen' = None /\ text' = None /\ sent' = None /\ UNCHANGED <<factVars, settings, host>>
  BY Zenon DEF EndTurn
<1>2. steer' \in SteerType /\ steer'.at = "idle"
  BY Zenon, PhaseStarts DEF EndTurn
<1>3. TypeOK'
  BY <1>1, <1>2 DEF RailsInv, TypeOK, FactsTypeOK, factVars, SteerType
<1>4. OwnFacts'
  BY Zenon, <1>1 DEF RailsInv, OwnFacts, factVars
<1>5. CandidateInv'
  BY Zenon, <1>1, <1>2 DEF CandidateInv
<1>6. QED
  BY Zenon, <1>3, <1>4, <1>5 DEF RailsInv

\* Nothing happening keeps the invariant.
LEMMA StutterRailsInv == RailsInv /\ UNCHANGED vars => RailsInv'
<1> SUFFICES ASSUME RailsInv, UNCHANGED vars PROVE RailsInv'
  OBVIOUS
<1>1. TypeOK'
  BY DEF RailsInv, vars, factVars, TypeOK, FactsTypeOK
<1>2. OwnFacts'
  BY Zenon DEF RailsInv, vars, factVars, OwnFacts
<1>3. CandidateInv'
  BY Zenon DEF RailsInv, vars, factVars, CandidateInv, Refused
<1>4. QED
  BY Zenon, <1>1, <1>2, <1>3 DEF RailsInv

-------------------------------------------------------------------------------
(* The results. *)

\* RailsInv holds in every state of the tools and the rails: the facts are the
\* customer's own and every text is tied to the verdict on it.
THEOREM RailsAreSafe == Spec => []RailsInv
<1>1. RailsInv /\ [Next]_vars => RailsInv'
  BY Zenon, HostInv, BeginTurnInv, RunToolInv, AnswerInv, VerifyInv, RewriteInv, RewriteFailsInv,
     EndTurnInv, StutterRailsInv DEF Next, Steering
<1>2. QED
  BY InitRailsInv, <1>1, PTL DEF Spec

\* Session, host keys and the answer under way keep their types, and a turn holds the
\* facts of its own customer until it ends.
THEOREM RailsTypes == Spec => []TypeOK
<1>1. RailsInv => TypeOK
  BY Zenon DEF RailsInv
<1>2. QED
  BY RailsAreSafe, <1>1, PTL

\* lookup_order, search_orders and lookup_dispute never bring another customer's row
\* into a session.
THEOREM FactsAreOwn == Spec => []OwnFacts
<1>1. RailsInv => OwnFacts
  BY Zenon DEF RailsInv
<1>2. QED
  BY RailsAreSafe, <1>1, PTL

\* What steer_response returns respects the facts of the session, however often the
\* candidate was rewritten and whether or not a rewrite failed.
THEOREM SentTextRespects == Spec => []SentRespectsFacts
<1>1. RailsInv => SentRespectsFacts
  <2> SUFFICES ASSUME RailsInv, sent # None
               PROVE  /\ ~ sent.internal
                      /\ settings.reasoning =>
                           /\ Respects(sent, host, seen)
                           /\ settings.compliance => RespectsCompliance(sent, host, seen)
    BY Zenon DEF SentRespectsFacts
  <2>1. host \in HostKeys /\ settings.compliance \in BOOLEAN
    BY Zenon DEF RailsInv, TypeOK, HostKeys
  <2>2. seen \in Facts /\ text \in TextType
    BY Zenon DEF RailsInv, TypeOK, CandidateInv
  <2>3. ~ sent.internal
    BY Zenon, FallbackText DEF RailsInv, CandidateInv
  <2>4. ASSUME settings.reasoning
        PROVE  /\ Respects(sent, host, seen)
               /\ settings.compliance => RespectsCompliance(sent, host, seen)
    <3>1. CASE sent = text /\ ~ Refused
      <4>1. ~ ReasoningErrors(text, host)
            /\ (settings.compliance => ~ ComplianceErrors(text, host, seen))
        BY Zenon, <2>1, <3>1, RefusedMeans DEF Refused
      <4>2. Respects(text, host, seen)
        BY Zenon, <2>1, <2>2, <4>1, ReasoningFindsErrors
      <4>3. settings.compliance => RespectsCompliance(text, host, seen)
        BY Zenon, <2>1, <2>2, <4>1, ComplianceFindsErrors
      <4>4. QED
        BY Zenon, <3>1, <4>2, <4>3
    <3>2. CASE sent = Fallback
      BY Zenon, <2>1, <3>2, FallbackRespects
    <3>3. QED
      BY Zenon, <2>4, <3>1, <3>2 DEF RailsInv, CandidateInv
  <2>5. QED
    BY Zenon, <2>3, <2>4
<1>2. QED
  BY RailsAreSafe, <1>1, PTL

\* The fallback replaces a candidate only if that broke a rule of the rails: a
\* warning alone never withholds an answer.
THEOREM FallbackIsLastResort == Spec => []FallbackIsNeeded
<1>1. RailsInv => FallbackIsNeeded
  <2> SUFFICES ASSUME RailsInv, sent = Fallback, text # Fallback
               PROVE  \/ ~ Respects(text, host, seen)
                      \/ settings.compliance /\ (\/ ~ RespectsCompliance(text, host, seen)
                                                 \/ CreditErrors(text, host, seen))
    BY Zenon DEF FallbackIsNeeded
  <2>1. sent # None
    BY Zenon, FallbackText
  <2>2. host \in HostKeys /\ settings.compliance \in BOOLEAN
    BY Zenon DEF RailsInv, TypeOK, HostKeys
  <2>3. seen \in Facts /\ text \in TextType
    BY Zenon, <2>1 DEF RailsInv, TypeOK, CandidateInv
  <2>4. Refused
    BY Zenon, <2>1 DEF RailsInv, CandidateInv
  <2>5. ReasoningErrors(text, host)
        \/ (settings.compliance /\ ComplianceErrors(text, host, seen))
    BY Zenon, <2>2, <2>4, RefusedMeans DEF Refused
  <2>6. QED
    BY Zenon, <2>2, <2>3, <2>5, ReasoningFindsErrors, ComplianceFindsErrors
<1>2. QED
  BY RailsAreSafe, <1>1, PTL

==============================================================================
