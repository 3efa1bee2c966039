----------------------------- MODULE Assessment -----------------------------
(***************************************************************************)
(* How an upgrade is decided: the decide node (agents/nodes.py) runs       *)
(* assess_upgrade, which reads the systems of record one query at a time,  *)
(* applies the rules (domain/rules, domain/policies) and, when nothing     *)
(* blocks, asks the billing specialist, which reads a part of the same     *)
(* records again in a session of its own.  Other writers commit between    *)
(* the queries (READ COMMITTED).                                           *)
(***************************************************************************)
EXTENDS Catalogue

CONSTANTS
  Accounts,    \* the seeded accounts that are assessed
  Targets,     \* target_plan_code: a plan, or a code that is none
  MaxChanges   \* bound: commits of other writers

ASSUME AccountAssumption == Accounts \subseteq DOMAIN SCENARIOS /\ MaxChanges \in Nat

VARIABLES
  scenario,   \* the seeded account
  target,     \* state["target_plan_code"]
  rows,       \* what the systems of record hold of the account
  plans,      \* the plans table
  today,      \* days since seeding
  tie,        \* how a half cent of an inexact fraction is rounded, per line
  changes,    \* how much of MaxChanges is used
  pc,         \* where the decide node is
  todo,       \* the queries that the reader has still to make
  seen,       \* what the node's session has read
  remote,     \* what the specialist's session has read
  reply,      \* what the specialist has answered
  verdict     \* what decide returns

assessVars == <<scenario, target, rows, plans, today, tie, changes, pc, todo, seen,
                remote, reply, verdict>>
world == <<scenario, target, rows, plans, today, tie, changes>>

LocalQueries == <<"clock", "account", "target", "subscription", "current", "contract",
                  "invoices", "tickets", "discount">>
RemoteQueries == <<"clock", "subscription", "current", "target", "invoices", "contract">>

NoPlan == Offer(0, 0, 0, FALSE)
NoContract == [status |-> "absent", restriction |-> "none", ends |-> 0]
NoReply == [status |-> "unavailable", amount |-> 0, indicated |-> FALSE]
Undecided == [outcome |-> "none", findings |-> {}, warnings |-> {}, credit |-> 0,
              charge |-> 0, amount |-> 0, triggers |-> {}, approval |-> FALSE]

Outcome == {"none", "not_assessable", "blocked", "lost", "eligible"}

-----------------------------------------------------------------------------
(* The queries                                                             *)

\* get_active_contract
ContractInForce(now) == IF rows.contract.status = "active" /\ rows.contract.ends > now
                        THEN rows.contract ELSE NoContract

\* count_past_due_invoices
PastDue(now) == Cardinality({i \in rows.invoices :
                               i.status \in {"open", "uncollectible"} /\ i.due < now})

\* count_open_urgent_tickets
OpenUrgent == Cardinality({t \in DOMAIN rows.tickets :
                 rows.tickets[t][1] = "urgent" /\ rows.tickets[t][2] \in {"open", "pending"}})

\* What a query finds, given what was read before and the time it compares with.
\* The current plan is selected by the subscription read.
Answer(query, before, now) ==
  CASE query = "clock"        -> today
    [] query = "account"      -> [exists |-> rows.exists, customer |-> rows.customer,
                                  status |-> rows.account]
    [] query = "target"       -> IF target \in DOMAIN plans THEN plans[target] ELSE NoPlan
    [] query = "subscription" -> rows.subscription
    [] query = "current"      -> plans[before["subscription"].plan]
    [] query = "contract"     -> ContractInForce(now)
    [] query = "invoices"     -> PastDue(now)
    [] query = "tickets"      -> OpenUrgent
    [] query = "discount"     -> rows.discount

\* AssessmentErrorCode, or _require in the specialist: nothing to go on with
Missing(query, found) ==
  \/ query = "account" /\ ~found.exists
  \/ query = "target" /\ found = NoPlan
  \/ query = "subscription" /\ ~found.active

\* What a session has read, with what one more query found
Noted(before, query, found) ==
  [q \in DOMAIN before \cup {query} |-> IF q = query THEN found ELSE before[q]]

-----------------------------------------------------------------------------
(* The rules                                                               *)

\* Mutant: the rule returns on the first blocker.
FirstBlocker(account, s) ==
  CASE account.customer # "active" -> {"customer_not_active"}
    [] account.status # "active" -> {"account_not_active"}
    [] s["target"].rank <= s["current"].rank -> {"not_an_upgrade"}
    [] ~s["target"].active -> {"target_plan_inactive"}
    [] s["invoices"] > 0 -> {"outstanding_past_due_invoices"}
    [] s["contract"].restriction = "term_locked" -> {"contract_term_locked"}
    [] OTHER -> {}

\* check_upgrade_eligibility: every blocker is collected.
Blockers(account, s) ==
  {b \in {"customer_not_active", "account_not_active", "not_an_upgrade",
          "target_plan_inactive", "outstanding_past_due_invoices", "contract_term_locked"} :
     \/ b = "customer_not_active" /\ account.customer # "active"
     \/ b = "account_not_active" /\ account.status # "active"
     \/ b = "not_an_upgrade" /\ s["target"].rank <= s["current"].rank
     \/ b = "target_plan_inactive" /\ ~s["target"].active
     \/ b = "outstanding_past_due_invoices" /\ s["invoices"] > 0
     \/ b = "contract_term_locked" /\ s["contract"].restriction = "term_locked"}

\* The warnings of the same rule
Warnings(s) ==
  {w \in {"subscription_set_to_cancel", "open_urgent_tickets", "contract_ending_soon"} :
     \/ w = "subscription_set_to_cancel" /\ s["subscription"].cancelling
     \/ w = "open_urgent_tickets" /\ s["tickets"] > 0
     \/ w = "contract_ending_soon" /\ s["contract"] # NoContract
                                   /\ s["contract"].ends - s["clock"] \in 0..60}

\* requires_approval for a subscription upgrade; the limits themselves pass.
Triggers(amount, discount, s) ==
  {t \in {"discount_above_threshold", "charge_above_threshold", "contract_terms_ambiguous"} :
     \/ t = "discount_above_threshold" /\ discount > 2000
     \/ t = "charge_above_threshold" /\ amount > 1000000
     \/ t = "contract_terms_ambiguous" /\ s["contract"].restriction = "ambiguous_terms"}

UnitPrice(plan, sub) == IF sub.cycle = "annual" THEN plan.annual ELSE plan.monthly

\* calculate_proration refuses an effective time outside the billing period.
Priceable(s) == s["subscription"].start <= s["clock"] /\ s["clock"] <= s["subscription"].end

Remaining(s) == s["subscription"].end - s["clock"]
PeriodDays(s) == s["subscription"].end - s["subscription"].start

\* to_money of price * seats * (remaining / days): the fraction has 28 digits, so
\* half a cent is only seen as one when the fraction ends.
Prorated(price, s, half_up) ==
  LET exact == price * s["subscription"].seats * Remaining(s)
      days == PeriodDays(s)
      rest == 2 * (exact % days)
      ends == (10000 * Remaining(s)) % days = 0
  IN (exact \div days) +
       (IF rest > days \/ (rest = days /\ (ends \/ half_up)) THEN 1 ELSE 0)

\* Mutant: the difference is rounded, not the two lines of the invoice.
RoundedDifference(s) ==
  LET credit == UnitPrice(s["current"], s["subscription"])
      charge == UnitPrice(s["target"], s["subscription"])
  IN [credit |-> Prorated(credit, s, tie.credit), charge |-> Prorated(charge, s, tie.charge),
      amount |-> Prorated(charge - credit, s, tie.charge)]

\* calculate_proration
Proration(s) ==
  LET credit == Prorated(UnitPrice(s["current"], s["subscription"]), s, tie.credit)
      charge == Prorated(UnitPrice(s["target"], s["subscription"]), s, tie.charge)
  IN [credit |-> credit, charge |-> charge, amount |-> charge - credit]

-----------------------------------------------------------------------------
(* Other writers                                                           *)

\* `custops seed` has run again, or with --reset: in one commit, dated today
Reseeded == {SeedScenario(SCENARIOS[scenario], before, today) : before \in {rows, Cleared}}

\* A commit of another session, or days that pass.  The restrictions and prices
\* are those that the rules tell apart.
Change ==
  /\ pc # "unseeded"
  /\ changes < MaxChanges
  /\ changes' = changes + 1
  /\ \/ /\ \/ rows' = [rows EXCEPT !.customer = "churned"]
           \/ rows' = [rows EXCEPT !.account = "suspended"]
           \/ rows' = [rows EXCEPT !.subscription.active = FALSE]
           \/ rows' = [rows EXCEPT !.subscription.cancelling = TRUE]
           \/ rows' = [rows EXCEPT !.subscription.cycle = "annual"]
           \/ rows' = [rows EXCEPT !.subscription.plan = "enterprise"]
           \/ rows' = [rows EXCEPT !.discount = 2000]
           \/ rows' = [rows EXCEPT !.invoices = @ \cup {[status |-> "open", due |-> 0, by |-> "other"]}]
           \/ \E r \in {"term_locked", "requires_customer_approval", "ambiguous_terms"} :
                rows' = [rows EXCEPT !.contract =
                           [status |-> "active", restriction |-> r, ends |-> 60]]
        /\ UNCHANGED <<plans, today, tie>>
     \/ /\ rows.exists
        /\ rows' \in Reseeded /\ plans' = PLANS
        /\ UNCHANGED <<today, tie>>
     \/ /\ \/ plans' = [plans EXCEPT !["enterprise"].active = FALSE] /\ tie' = tie
           \/ /\ plans' = [plans EXCEPT !["professional"].monthly = 255]
              /\ tie' \in [credit : BOOLEAN, charge : BOOLEAN]
        /\ UNCHANGED <<rows, today>>
     \/ today' \in {today + 1, today + 21} /\ UNCHANGED <<rows, plans, tie>>
  /\ UNCHANGED <<scenario, target, pc, todo, seen, remote, reply, verdict>>

\* seed_all; the request may also name an account that does not exist.
SeedAll ==
  /\ pc = "unseeded"
  /\ scenario' \in Accounts
  /\ target' \in Targets
  /\ rows' \in {SeedScenario(SCENARIOS[scenario'], Cleared, today), Cleared}
  /\ plans' = PLANS
  /\ pc' = "idle"
  /\ UNCHANGED <<today, tie, changes, todo, seen, remote, reply, verdict>>

-----------------------------------------------------------------------------
(* The decide node                                                         *)

Begin ==
  /\ pc = "idle"
  /\ pc' = "reading"
  /\ todo' = LocalQueries
  /\ UNCHANGED <<world, seen, remote, reply, verdict>>

\* Mutant: the error ends the node and leaves no status.
EndSilently(outcome) ==
  /\ pc' = "ended"
  /\ todo' = <<>>
  /\ UNCHANGED verdict

\* What the node returns instead of a decision, or an error it does not catch
End(outcome) ==
  /\ pc' = "ended"
  /\ todo' = <<>>
  /\ verdict' = [verdict EXCEPT !.outcome = outcome]

\* The next query of assess_upgrade, or an AssessmentError
Read ==
  /\ pc = "reading"
  /\ todo # <<>>
  /\ LET query == Head(todo)
         now == IF query = "clock" THEN today ELSE seen["clock"]
         found == Answer(query, seen, now)
     IN IF Missing(query, found)
        THEN End("not_assessable") /\ UNCHANGED seen
        ELSE /\ seen' = Noted(seen, query, found)
             /\ todo' = Tail(todo)
             /\ UNCHANGED <<pc, verdict>>
  /\ UNCHANGED <<world, remote, reply>>

\* assess_upgrade on what was read.  It prices also what is blocked, and nothing
\* catches a PricingError.  An eligible upgrade goes on to the specialist, if
\* one is configured.
Assess ==
  /\ pc = "reading"
  /\ todo = <<>>
  /\ IF ~Priceable(seen) THEN End("lost")
     ELSE LET lines == Proration(seen)
              blockers == Blockers(seen["account"], seen)
              assessed == [verdict EXCEPT
                !.findings = blockers, !.warnings = Warnings(seen),
                !.credit = lines.credit, !.charge = lines.charge, !.amount = lines.amount,
                !.triggers = Triggers(lines.amount, seen["discount"], seen),
                !.outcome = IF blockers = {} THEN "none" ELSE "blocked"]
          IN /\ verdict' = assessed
             /\ IF blockers # {} THEN pc' = "ended" /\ UNCHANGED todo
                ELSE \/ pc' = "consulting" /\ todo' = RemoteQueries
                     \/ pc' = "replied" /\ UNCHANGED todo
  /\ UNCHANGED <<world, seen, remote, reply>>

\* Mutant: what the specialist says decides whether a human is asked.
CombineFollowing ==
  /\ pc = "replied"
  /\ pc' = "ended"
  /\ verdict' = [verdict EXCEPT !.outcome = "eligible",
       !.approval = IF reply.status = "consulted" THEN reply.indicated
                    ELSE verdict.triggers # {}]
  /\ UNCHANGED <<world, todo, seen, remote, reply>>

\* Mutant: a different amount is noted and nothing else.
CombineNotingAmounts ==
  /\ pc = "replied"
  /\ pc' = "ended"
  /\ verdict' = [verdict EXCEPT !.outcome = "eligible",
       !.approval = verdict.triggers # {} \/ reply.indicated]
  /\ UNCHANGED <<world, todo, seen, remote, reply>>

\* The rest of decide: the specialist can only raise the bar.
Combine ==
  /\ pc = "replied"
  /\ pc' = "ended"
  /\ verdict' = [verdict EXCEPT !.outcome = "eligible",
       !.approval = \/ verdict.triggers # {}
                    \/ reply.status = "consulted" /\ reply.indicated
                    \/ reply.status = "consulted" /\ reply.amount # verdict.amount]
  /\ UNCHANGED <<world, todo, seen, remote, reply>>

-----------------------------------------------------------------------------
(* The specialist (billing_specialist/) and its client (a2a/client)        *)

\* price_upgrade's next tool call, or SpecialistRefusalError
SpecialistRead ==
  /\ pc = "consulting"
  /\ todo # <<>>
  /\ LET found == Answer(Head(todo), remote, today)
     IN IF Missing(Head(todo), found)
        THEN /\ reply' = [NoReply EXCEPT !.status = "refused"]
             /\ pc' = "answered" /\ todo' = <<>>
             /\ UNCHANGED remote
        ELSE /\ remote' = Noted(remote, Head(todo), found)
             /\ todo' = Tail(todo)
             /\ UNCHANGED <<pc, reply>>
  /\ UNCHANGED <<world, seen, verdict>>

\* Mutant: an error while pricing is not caught where it is answered.
SpecialistAnswerRaising ==
  /\ pc = "consulting"
  /\ todo = <<>>
  /\ IF ~Priceable(remote) THEN End("lost") /\ UNCHANGED reply
     ELSE /\ reply' = [status |-> "consulted", amount |-> Proration(remote).amount,
                       indicated |-> Triggers(Proration(remote).amount, 0, remote) # {}]
          /\ pc' = "answered"
          /\ UNCHANGED <<todo, verdict>>
  /\ UNCHANGED <<world, seen, remote>>

\* The rest of price_upgrade: no customer standing, no discounts.  Any error of
\* the pricing becomes a failed task, which the client reports as refused.
SpecialistAnswer ==
  /\ pc = "consulting"
  /\ todo = <<>>
  /\ reply' = IF ~Priceable(remote) THEN [NoReply EXCEPT !.status = "refused"]
              ELSE [status |-> "consulted", amount |-> Proration(remote).amount,
                    indicated |-> Triggers(Proration(remote).amount, 0, remote) # {}]
  /\ pc' = "answered"
  /\ UNCHANGED <<world, todo, seen, remote, verdict>>

Receive ==
  /\ pc = "answered"
  /\ pc' = "replied"
  /\ UNCHANGED <<world, todo, seen, remote, reply, verdict>>

\* Mutant: only a response that has begun is given up on.
TimeOutOnceAnswered ==
  /\ pc = "answered"
  /\ pc' = "replied"
  /\ reply' = NoReply
  /\ UNCHANGED <<world, todo, seen, remote, verdict>>

\* httpx.HTTPError, or a response that a check of the client refuses: no second
\* opinion
TimeOutConsult ==
  /\ pc \in {"consulting", "answered"}
  /\ pc' = "replied"
  /\ reply' = NoReply
  /\ todo' = <<>>
  /\ UNCHANGED <<world, seen, remote, verdict>>

\* A response with a `status` that is no object, or `parts` that are a number:
\* _interpret raises, and neither the client nor decide catches that.
MalformedAnswer ==
  /\ pc \in {"consulting", "answered"}
  /\ reply' = [NoReply EXCEPT !.status = "malformed"]
  /\ End("lost")
  /\ UNCHANGED <<world, seen, remote>>

-----------------------------------------------------------------------------
AssessInit ==
  /\ scenario = "acme" /\ target = "enterprise"
  /\ rows = Cleared /\ plans = PLANS
  /\ today = 0 /\ tie = [credit |-> FALSE, charge |-> FALSE] /\ changes = 0
  /\ pc = "unseeded" /\ todo = <<>>
  /\ seen = <<>> /\ remote = <<>>
  /\ reply = NoReply /\ verdict = Undecided

DecideStep ==
  Read \/ Assess \/ Receive \/ TimeOutConsult \/ MalformedAnswer \/ Combine

AssessNext == SeedAll \/ Change \/ Begin \/ DecideStep \/ SpecialistRead \/ SpecialistAnswer

\* The node runs on; the specialist may stop at any point.
AssessSpec == AssessInit /\ [][AssessNext]_assessVars /\ WF_assessVars(DecideStep)

-----------------------------------------------------------------------------
(* Properties                                                              *)

Decided == pc = "ended" /\ verdict.outcome = "eligible"

\* An assessment ends with exactly one outcome, blocked ones say why, and only
\* an eligible one asks for approval.
AssessTypeOK ==
  /\ pc \in {"unseeded", "idle", "reading", "consulting", "answered", "replied", "ended"}
  /\ verdict.outcome \in Outcome
  /\ pc = "ended" <=> verdict.outcome # "none"
  /\ verdict.outcome = "blocked" <=> verdict.findings # {}
  /\ verdict.approval => verdict.outcome = "eligible"
  /\ reply.status \in {"unavailable", "refused", "consulted", "malformed"}
  /\ todo # <<>> => pc \in {"reading", "consulting"}

\* An upgrade that runs without a human after a consultation was priced twice, at
\* different times, to the same amount within the limit, and neither reading found
\* ambiguous terms.  That is all that decide compares: a term lock or an overdue
\* invoice that only the specialist found is in its answer, and is not looked at.
ConsultedMeansTwice ==
  Decided /\ ~verdict.approval /\ reply.status = "consulted" =>
    /\ reply.amount = verdict.amount /\ verdict.amount <= 1000000
    /\ seen["contract"].restriction # "ambiguous_terms"
    /\ remote["contract"].restriction # "ambiguous_terms"

\* Whatever the specialist answers, and if it does not: a trigger of the local
\* policy always asks a human.
SpecialistOnlyRaises == Decided /\ verdict.triggers # {} => verdict.approval

\* The amount is the difference of the two lines that the invoice shows, and
\* within a cent of the exact price.
LinesAddUp ==
  verdict.outcome \in {"blocked", "eligible"} =>
    LET s == seen["subscription"]
        exact == (UnitPrice(seen["target"], s) - UnitPrice(seen["current"], s))
                   * s.seats * Remaining(seen)
        error == verdict.amount * PeriodDays(seen) - exact
    IN /\ verdict.amount = verdict.charge - verdict.credit
       /\ -PeriodDays(seen) <= error /\ error <= PeriodDays(seen)

\* The seeded accounts take the paths that their notes announce, when nobody
\* changes them and the run is not lost by a malformed answer.
SeedNotesHold ==
  pc = "ended" /\ changes = 0 /\ rows.exists /\ target = "enterprise"
      /\ reply.status # "malformed" =>
    CASE scenario = "acme" -> Decided /\ ~verdict.approval /\ verdict.amount = 933333
      [] scenario = "globex" -> verdict.findings = {"contract_term_locked"}
      [] scenario = "initech" ->
           verdict.findings = {"account_not_active", "outstanding_past_due_invoices"}
      [] scenario = "umbrella" -> Decided /\ "discount_above_threshold" \in verdict.triggers
      [] scenario = "vehement" -> verdict.triggers = {"contract_terms_ambiguous"}
      [] scenario = "hooli" -> Decided /\ verdict.warnings = {"open_urgent_tickets"}
      [] scenario = "soylent" -> verdict.findings = {"customer_not_active"}

\* A run is only lost in decide when the time that it read is outside the billing
\* period that it read, or the answer of the specialist is malformed: a specialist
\* that fails, refuses, is slow or finds other records never loses one.
LossesHaveReason ==
  verdict.outcome = "lost" => ~Priceable(seen) \/ reply.status = "malformed"

\* For every upgrade that needs approval there is a seeded user with authority
\* for its amount: none waits at the gate for nobody.
SomebodyCanDecide ==
  Decided /\ verdict.approval =>
    \E u \in DOMAIN SEED_USERS : MayDecide(SEED_USERS[u], verdict.amount)

\* decide always returns or raises, also when the specialist never answers.
EveryAssessmentEnds == []<>(pc \in {"unseeded", "idle", "ended"})

\* A second opinion can add an approval and never take one away.
SecondOpinionOnlyAdds == ConsultedMeansTwice /\ SpecialistOnlyRaises

\* An assessment shows the amount of its invoice, and takes the path that the
\* catalogue notes of the account.
AssessmentsAreRight == LinesAddUp /\ SeedNotesHold

\* No upgrade is stranded by a specialist that answers as it should or not at all,
\* nor at the gate, waiting for a decision that nobody may take.
NoneIsStranded == LossesHaveReason /\ SomebodyCanDecide
=============================================================================
