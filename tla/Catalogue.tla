------------------------------ MODULE Catalogue ------------------------------
(***************************************************************************)
(* The seeded catalogue (domain/seed.py): plans, one account per path, the *)
(* policies' documents and the users who may decide.  Amounts are cents,   *)
(* percentages hundredths, days count from the first seeding.              *)
(***************************************************************************)
EXTENDS Integers, Sequences, FiniteSetsExt

Offer(rank, monthly, annual, active) ==
  [rank |-> rank, monthly |-> monthly, annual |-> annual, active |-> active]

PLANS ==
  [starter             |-> Offer(1, 4900, 49000, TRUE),
   professional        |-> Offer(2, 29900, 299000, TRUE),
   enterprise          |-> Offer(3, 99900, 999000, TRUE),
   professional_legacy |-> Offer(2, 24900, 249000, FALSE)]

\* "absent": no contract, no discount
SCENARIOS ==
  LET Account(plan, seats) ==
        [customer |-> "active", account |-> "active", plan |-> plan, seats |-> seats,
         contract |-> "absent", past_due |-> FALSE, discount |-> 0, tickets |-> <<>>]
  IN [acme     |-> [Account("professional", 20) EXCEPT
                      !.contract = "none", !.tickets = <<<<"normal", "resolved">>>>],
      globex   |-> [Account("professional", 40) EXCEPT !.contract = "term_locked"],
      initech  |-> [Account("starter", 5) EXCEPT
                      !.account = "suspended", !.past_due = TRUE],
      umbrella |-> [Account("professional", 60) EXCEPT
                      !.contract = "none", !.discount = 3500,
                      !.tickets = <<<<"high", "pending">>>>],
      vehement |-> [Account("professional", 15) EXCEPT !.contract = "ambiguous_terms"],
      hooli    |-> [Account("professional", 85) EXCEPT
                      !.contract = "none",
                      !.tickets = <<<<"urgent", "open">>, <<"urgent", "pending">>,
                                    <<"high", "open">>, <<"normal", "resolved">>,
                                    <<"low", "closed">>>>],
      soylent  |-> [Account("starter", 3) EXCEPT !.customer = "inactive"]]

SEED_USERS ==
  [ops     |-> [is_active |-> TRUE,  roles |-> {"operator", "approver"}],
   finance |-> [is_active |-> TRUE,  roles |-> {"approver", "finance_approver"}],
   viewer  |-> [is_active |-> TRUE,  roles |-> {"viewer"}],
   former  |-> [is_active |-> FALSE, roles |-> {"approver"}]]

-----------------------------------------------------------------------------
\* _seed_invoices: one paid, and one that is open past its due date
SeededInvoices(s, now) ==
  LET Invoice(status, due) == [status |-> status, due |-> due, by |-> "seed"]
  IN {Invoice("paid", now - 25)} \cup (IF s.past_due THEN {Invoice("open", now - 15)} ELSE {})

\* _seed_scenario: the rows of an account, dated from now.  A re-run merges them by
\* their fixed ids: it overwrites the rows it has and leaves those it does not have.
SeedScenario(s, rows, now) ==
  [rows EXCEPT
     !.exists = TRUE, !.customer = s.customer, !.account = s.account,
     !.subscription = [active |-> TRUE, plan |-> s.plan, seats |-> s.seats,
                       cycle |-> "monthly", cancelling |-> FALSE,
                       start |-> now - 10, end |-> now + 20],
     !.invoices = {i \in @ : i.by # "seed"} \cup SeededInvoices(s, now),
     !.contract = IF s.contract = "absent" THEN @
                  ELSE [status |-> "active", restriction |-> s.contract, ends |-> now + 330],
     !.discount = IF s.discount = 0 THEN @ ELSE s.discount,
     !.tickets = s.tickets]

\* clear_seed_data: the customer, and everything that cascades from it
Cleared ==
  [exists |-> FALSE, customer |-> "inactive", account |-> "suspended",
   subscription |-> [active |-> FALSE, plan |-> "starter", seats |-> 1,
                     cycle |-> "monthly", cancelling |-> FALSE, start |-> 0, end |-> 1],
   invoices |-> {}, contract |-> [status |-> "absent", restriction |-> "none", ends |-> 0],
   discount |-> 0, tickets |-> <<>>]

-----------------------------------------------------------------------------
\* Mutant: nobody but an administrator may exceed the limit.
MayDecideAsAdmin(user, amount) ==
  /\ user.is_active
  /\ user.roles \cap {"approver", "finance_approver", "admin"} # {}
  /\ amount > 1000000 => "admin" \in user.roles

\* check_authority, for an actor with these roles
MayDecide(user, amount) ==
  /\ user.is_active
  /\ user.roles \cap {"approver", "finance_approver", "admin"} # {}
  /\ amount > 1000000 => user.roles \cap {"finance_approver", "admin"} # {}
=============================================================================
