------------------------------- MODULE Portal -------------------------------
(***************************************************************************)
(* The legacy provisioning portal (apps/legacy_portal/app.py) and the      *)
(* browser that drives it (provisioning/playwright_client.py): concurrent  *)
(* operations on one account, each in a browser of its own.  Between two   *)
(* requests of an operation the portal may restart, which forgets its      *)
(* sessions, or stop answering, which the browser's timeout ends, or the   *)
(* entitlement may be written by somebody who needs no portal: `custops    *)
(* seed` merges the rows of its catalogue, one command at a time.          *)
(***************************************************************************)
EXTENDS Naturals, Sequences

CONSTANTS
  Operations,    \* calls of the provisioning client
  MaxRestarts,   \* bound: restarts of the portal process
  MaxSeeds       \* bound: seed commands that commit

VARIABLES
  catalogued,    \* whether the account is one of those that are seeded
  account,       \* whether the portal's database has the account
  entitlement,   \* its entitlement: tier and seats
  ever,          \* history: every entitlement it has had, in order
  sessions,      \* the SessionStore; a token is named by its operation
  restarts,      \* how much of MaxRestarts is used
  seeds,         \* how much of MaxSeeds is used
  seeding,       \* the entitlement as a seed command has loaded it, or Nothing
  op             \* per operation: what it asks for, where it is, what it got

seedVars == <<catalogued, seeds, seeding>>
portalVars == <<account, entitlement, ever, sessions, restarts, op, seedVars>>

PROVISIONABLE_TIERS == {"starter", "professional", "enterprise"}
Unprovisioned == [tier |-> "unprovisioned", seats |-> 1]
Nothing == [tier |-> "none", seats |-> 0]

\* The entitlement of the catalogue
Seeded == [tier |-> "professional", seats |-> 1]

\* What an operation asks for: a change of one column or the other, or a tier
\* that is not the portal's; reads ask for nothing.
Request == {[tier |-> "professional", seats |-> 5], [tier |-> "enterprise", seats |-> 1],
            [tier |-> "legacy", seats |-> 1], Nothing}

\* ProvisioningErrorCode, less the codes that nothing raises; `raised` is an
\* error of the browser driver that is no timeout (a connection refused).
Failure == {"login_failed", "account_not_found", "timeout", "browser_unavailable", "raised"}
Ended(o) == op[o].pc \in Failure \cup {"new", "confirmed", "read", "absent"}

\* A step of the browser that leaves the portal alone, and one that only leads it on
MoveOnly(o, next) ==
  /\ op' = [op EXCEPT ![o] = next]
  /\ UNCHANGED <<account, entitlement, ever, sessions, restarts, seedVars>>
GoTo(o, pc) == MoveOnly(o, [op[o] EXCEPT !.pc = pc])

\* What the portal has held from some moment on
HeldSince(from) == {ever[n] : n \in from .. Len(ever)}

PortalTypeOK ==
  /\ entitlement \in [tier : PROVISIONABLE_TIERS \cup {"unprovisioned"}, seats : {1, 5}]
  /\ ever # <<>> /\ ever[Len(ever)] = entitlement
  /\ ~account => entitlement = Unprovisioned
  /\ catalogued \in BOOLEAN /\ seeds \in Nat
  /\ seeding # Nothing => catalogued /\ seeding \in HeldSince(1)
  /\ sessions \subseteq Operations
  /\ \A o \in Operations :
       /\ op[o].asks \in Request
       /\ op[o].pc \in Failure \cup {"new", "launched", "signing", "signed_in", "form",
                                     "changing", "changed", "confirmed", "read", "absent"}
       /\ op[o].change \in {"none", "begun", "failed", "committed"}
       /\ op[o].change # "none" => op[o].asks # Nothing

\* An account of the catalogue, seeded or not yet, or one that is not.
PortalInit ==
  /\ catalogued \in BOOLEAN /\ account \in BOOLEAN
  /\ ~catalogued => account
  /\ entitlement = IF catalogued /\ account THEN Seeded ELSE Unprovisioned
  /\ ever = <<entitlement>>
  /\ seeds = 0 /\ seeding = Nothing
  /\ sessions = {} /\ restarts = 0
  /\ op = [o \in Operations |-> [asks |-> Nothing, pc |-> "new", change |-> "none",
                                 loaded |-> Nothing, since |-> 1, got |-> Nothing]]

-----------------------------------------------------------------------------
(* The browser, and the portal's handlers *)

\* set_tier or read_tier launches a browser.
Launch(o) ==
  /\ op[o].pc = "new"
  /\ \E asks \in Request, pc \in {"launched", "browser_unavailable"} :
       MoveOnly(o, [op[o] EXCEPT !.asks = asks, !.pc = pc, !.since = Len(ever)])

\* POST /login: credentials that do not fit lead back to /login.
Login(o) ==
  /\ op[o].pc = "launched"
  /\ UNCHANGED <<account, entitlement, ever, restarts, seedVars>>
  /\ \/ /\ sessions' = sessions \cup {o}
        /\ op' = [op EXCEPT ![o].pc = "signing"]
     \/ /\ op' = [op EXCEPT ![o].pc = "login_failed"]
        /\ UNCHANGED sessions

\* GET /accounts, where the login leads; without a session, back to /login.
ListAccounts(o) ==
  /\ op[o].pc = "signing"
  /\ GoTo(o, IF o \in sessions THEN "signed_in" ELSE "login_failed")

\* GET /accounts/{id}: without a session the browser lands at /login, where
\* there is no tier to read either.
AccountDetail(o) ==
  /\ op[o].pc = "signed_in"
  /\ \/ /\ o \in sessions /\ account /\ op[o].asks = Nothing
        /\ MoveOnly(o, [op[o] EXCEPT !.pc = "read", !.got = entitlement])
     \/ /\ o \in sessions /\ account /\ op[o].asks # Nothing
        /\ GoTo(o, "form")
     \/ /\ ~(o \in sessions /\ account)
        /\ GoTo(o, IF op[o].asks = Nothing THEN "absent" ELSE "account_not_found")

\* Mutant: whoever posts the form may change the tier.
ChangeTierUnchecked(o) ==
  /\ op[o].pc = "form" /\ op[o].asks.tier \in PROVISIONABLE_TIERS
  /\ IF account
       THEN MoveOnly(o, [op[o] EXCEPT !.pc = "changing", !.change = "begun",
                                      !.loaded = entitlement])
       ELSE GoTo(o, "timeout")

\* The form is filled in and posted, and change_tier reads the entitlement.  A
\* tier that the form does not offer cannot be selected; an answer that does
\* not lead back to the account is waited for in vain.
ChangeTier(o) ==
  /\ op[o].pc = "form"
  /\ IF op[o].asks.tier \in PROVISIONABLE_TIERS /\ o \in sessions /\ account
       THEN MoveOnly(o, [op[o] EXCEPT !.pc = "changing", !.change = "begun",
                                      !.loaded = entitlement])
       ELSE GoTo(o, "timeout")

\* The entitlement when `asks` is written over a row that was loaded: an UPDATE
\* writes the columns that differ from what was loaded.
Written(asks, loaded) ==
  [tier |-> IF asks.tier = loaded.tier THEN entitlement.tier ELSE asks.tier,
   seats |-> IF loaded # Unprovisioned /\ asks.seats = loaded.seats
               THEN entitlement.seats ELSE asks.seats]

\* The browser, if it still waits, is led to the account with what it changed.
Committed(o) ==
  [op[o] EXCEPT !.change = "committed", !.since = Len(ever) + 1,
                !.pc = IF op[o].pc = "changing" THEN "changed" ELSE op[o].pc]

\* The change is lost, by a commit that fails or with the process: no answer that
\* leads anywhere.
Lost(o) == [op[o] EXCEPT !.change = "failed",
                         !.pc = IF op[o].pc = "changing" THEN "timeout" ELSE op[o].pc]
Answer500(o) == MoveOnly(o, Lost(o))

\* change_tier commits, also when the browser has gone.  It fails when the row
\* that it inserts has come to be.
CommitChange(o) ==
  /\ op[o].change = "begun"
  /\ IF op[o].loaded = Unprovisioned <=> entitlement = Unprovisioned
       THEN /\ entitlement' = Written(op[o].asks, op[o].loaded)
            /\ ever' = Append(ever, entitlement')
            /\ op' = [op EXCEPT ![o] = Committed(o)]
            /\ UNCHANGED <<account, sessions, restarts, seedVars>>
       ELSE Answer500(o)

\* Mutant: the request is taken for the answer.
ConfirmRequested(o) ==
  /\ op[o].pc = "changed"
  /\ IF o \in sessions /\ account
       THEN MoveOnly(o, [op[o] EXCEPT !.pc = "confirmed", !.got = op[o].asks])
       ELSE GoTo(o, "timeout")

\* Mutant: landing at /login is a failed login, whenever it happens.
ConfirmByAddress(o) ==
  /\ op[o].pc = "changed"
  /\ IF o \in sessions /\ account
       THEN MoveOnly(o, [op[o] EXCEPT !.pc = "confirmed", !.got = entitlement])
       ELSE GoTo(o, IF o \in sessions THEN "timeout" ELSE "login_failed")

\* GET /accounts/{id}?updated=..., where the change leads: the tier and the
\* seats are read from the page.
Confirm(o) ==
  /\ op[o].pc = "changed"
  /\ IF o \in sessions /\ account
       THEN MoveOnly(o, [op[o] EXCEPT !.pc = "confirmed", !.got = entitlement])
       ELSE GoTo(o, "timeout")

-----------------------------------------------------------------------------
(* What goes wrong *)

\* Mutant: only signing in is given up.
TimeOutSigningIn(o) ==
  /\ op[o].pc \in {"launched", "signing"}
  /\ \E pc \in {"login_failed", "timeout"} : GoTo(o, pc)

\* The portal does not answer in timeout_ms.  While the browser signs in, the
\* failure is named by where it stands; a posted change is not taken back.
TimeOut(o) ==
  \/ /\ op[o].pc \in {"launched", "signing"}
     /\ \E pc \in {"login_failed", "timeout"} : GoTo(o, pc)
  \/ /\ op[o].pc \in {"signed_in", "form", "changing", "changed"}
     /\ GoTo(o, "timeout")

\* The portal refuses the connection of a `goto`.
Unreachable(o) ==
  /\ op[o].pc \in {"launched", "signed_in"}
  /\ GoTo(o, "raised")

\* The process of the portal is killed and started again.
Restart ==
  /\ restarts < MaxRestarts
  /\ restarts' = restarts + 1
  /\ sessions' = {}
  /\ op' = [o \in Operations |-> IF op[o].change = "begun" THEN Lost(o) ELSE op[o]]
  /\ UNCHANGED <<account, entitlement, ever, seedVars>>

-----------------------------------------------------------------------------
(* `custops seed` *)

\* merge() loads the row, if there is one.
SeedLoad ==
  /\ catalogued /\ seeding = Nothing /\ seeds < MaxSeeds
  /\ seeding' = entitlement
  /\ UNCHANGED <<account, entitlement, ever, sessions, restarts, op, catalogued, seeds>>

\* What a seed command commits is there, with its account.
SeedWrites(row) ==
  /\ account' = TRUE
  /\ entitlement' = row
  /\ ever' = Append(ever, row)
  /\ seeds' = seeds + 1 /\ seeding' = Nothing
  /\ UNCHANGED <<sessions, restarts, catalogued>>

\* ... and commits: what a change has written in between stays in the columns that
\* had the value of the catalogue when they were loaded.
SeedCommit ==
  /\ seeding # Nothing
  /\ SeedWrites(Written(Seeded, seeding))
  /\ UNCHANGED op

\* `custops seed --reset` deletes the account and seeds it again, in one commit.
\* The changes that waited for the row it deleted find none.
SeedReset ==
  /\ catalogued /\ seeding = Nothing /\ seeds < MaxSeeds
  /\ SeedWrites(Seeded)
  /\ \E waiting \in SUBSET {o \in Operations : op[o].change = "begun"} :
       op' = [o \in Operations |-> IF o \in waiting THEN Lost(o) ELSE op[o]]

-----------------------------------------------------------------------------
OperationStep(o) ==
  \/ Launch(o) \/ Login(o) \/ ListAccounts(o) \/ AccountDetail(o)
  \/ ChangeTier(o) \/ CommitChange(o) \/ Confirm(o)
  \/ TimeOut(o) \/ Unreachable(o)

PortalNext ==
  (\E o \in Operations : OperationStep(o)) \/ Restart \/ SeedLoad \/ SeedCommit \/ SeedReset

\* Nothing obliges the portal to answer: only the browser's timeouts are fair.
PortalSpec ==
  PortalInit /\ [][PortalNext]_portalVars /\ \A o \in Operations : WF_portalVars(TimeOut(o))

-----------------------------------------------------------------------------
(* Properties *)

\* What an operation reports is what the portal held at some moment, not
\* before the operation began and, for a change, not before its own commit:
\* the confirmation is read back, not assumed.
ReportedWasHeld ==
  \A o \in Operations : op[o].pc \in {"confirmed", "read"} => op[o].got \in HeldSince(op[o].since)

\* A failure that is not worth a retry, or that blames the credentials or the
\* account, left the entitlement alone and will; a timeout promises nothing.
OtherFailuresChangeNothing ==
  \A o \in Operations :
    op[o].pc \in Failure \ {"timeout"} => op[o].change = "none"

\* Whatever the restarts, an entitlement changes only by a post with a session that
\* the running portal has issued, or by a seed command that commits; that one
\* brings each column to the catalogue's or leaves it as it is, also when
\* changes have committed since it read the row.
ChangesAreSignedIn ==
  [][entitlement' # entitlement =>
       \/ \E o \in sessions : op[o].change = "begun" /\ op'[o].change = "committed"
       \/ /\ seeds' = seeds + 1 /\ catalogued
          /\ entitlement'.tier \in {entitlement.tier, Seeded.tier}
          /\ entitlement'.seats \in {entitlement.seats, Seeded.seats}]_portalVars

\* Every operation ends, though the portal may never answer.
EveryOperationEnds == []<>(\A o \in Operations : Ended(o))

\* A call of the provisioning client tells the truth, of a change that it made
\* and of a failure that it had.
ReportsAreTrue == ReportedWasHeld /\ OtherFailuresChangeNothing
=============================================================================
