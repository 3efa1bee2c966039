-------------------------- MODULE ApprovalDecision --------------------------
(***************************************************************************)
(* POST /approvals/{id}/decision, sent by several deciders for the same    *)
(* approval (apps/api/routers/approvals.py).  A request is cut at every    *)
(* round trip to the database, because other requests run between them:    *)
(* authenticate, load the row and check that it is decidable, read the     *)
(* actor again and check authority, commit the decision with its audit     *)
(* event, resume the run.                                                  *)
(*                                                                         *)
(* All of a request uses one SQLAlchemy session (get_session is cached per *)
(* request).  An object that session has loaded is not refreshed by a      *)
(* later query: both the row and the roles are what they were when first   *)
(* read.                                                                   *)
(***************************************************************************)
EXTENDS Naturals, Sequences

CONSTANTS
  Deciders,  \* users, each of whom sends one decision
  Nobody     \* decided_by_user_id is NULL

ASSUME DeciderAssumption == Nobody \notin Deciders

VARIABLES
  elevated,   \* the amount is above elevated_amount_threshold
  row,        \* the row of the approvals table
  events,     \* the APPROVAL_RECEIVED events of the audit table
  roles,      \* the role each user has in the database
  run,        \* the run that asked: "paused", "refused" or "executed"
  pc,         \* where each request is
  choice,     \* payload.approved
  seen_role,  \* the role in the request's session
  current,    \* history: who still had authority at the second read
  late        \* history: requests that began after a decision was committed

vars == <<elevated, row, events, roles, run, pc, choice, seen_role, current, late>>
request == <<choice, seen_role, current, late>>

-----------------------------------------------------------------------------
(* The policies: endpoint_authority.py, approval_authority.py, tokens.py.  *)

\* "none": the user has no approving role, or is deactivated.
RoleName == {"none", "approver", "finance_approver", "admin"}

\* ENDPOINT_MATRIX[DECIDE_APPROVAL] for a valid token
MayReachEndpoint(role) == role \in {"approver", "finance_approver"}

\* check_authority
HasAuthority(role) ==
  /\ role \in {"approver", "finance_approver", "admin"}
  /\ elevated => role \in {"finance_approver", "admin"}

\* Mutant: only a spent approval is final.
UndecidedUnlessSpent(r) == ~r.consumed

\* check_decidable
Decidable(r) == ~r.consumed /\ r.status = "pending"

-----------------------------------------------------------------------------
Row == [status : {"pending", "approved", "rejected"},
        by : Deciders \cup {Nobody}, consumed : BOOLEAN]
Event == [by : Deciders, status : {"approved", "rejected"}]
Served == {"idle", "refused", "answered", "stopped"}

TypeOK ==
  /\ elevated \in BOOLEAN
  /\ row \in Row
  /\ events \in Seq(Event)
  /\ roles \in [Deciders -> RoleName]
  /\ run \in {"paused", "refused", "executed"}
  /\ pc \in [Deciders -> Served \cup {"authenticated", "loaded", "authorised",
                                      "recorded"}]
  /\ choice \in [Deciders -> {"approved", "rejected"}]
  /\ seen_role \in [Deciders -> RoleName]
  /\ current \subseteq Deciders
  /\ late \subseteq Deciders

Init ==
  /\ elevated \in BOOLEAN
  /\ row = [status |-> "pending", by |-> Nobody, consumed |-> FALSE]
  /\ events = <<>>
  /\ roles \in [Deciders -> RoleName]
  /\ run = "paused"
  /\ pc = [d \in Deciders |-> "idle"]
  /\ choice \in [Deciders -> {"approved", "rejected"}]
  /\ seen_role = [d \in Deciders |-> "none"]
  /\ current = {}
  /\ late = {}

\* get_principal and the endpoint policy
Authenticate(d) ==
  /\ pc[d] = "idle"
  /\ seen_role' = [seen_role EXCEPT ![d] = roles[d]]
  /\ pc' = [pc EXCEPT ![d] = IF MayReachEndpoint(roles[d]) THEN "authenticated"
                                                           ELSE "refused"]
  /\ late' = IF row.status = "pending" THEN late ELSE late \cup {d}
  /\ UNCHANGED <<elevated, row, events, roles, run, choice, current>>

\* session.get, then check_decidable: 409 unless it is undecided
LoadApproval(d) ==
  /\ pc[d] = "authenticated"
  /\ pc' = [pc EXCEPT ![d] = IF Decidable(row) THEN "loaded" ELSE "refused"]
  /\ UNCHANGED <<elevated, row, events, roles, run, request>>

\* Mutant: reaching the endpoint is taken for authority over any amount.
CheckRoleOnly(d) ==
  /\ pc[d] = "loaded"
  /\ current' = IF HasAuthority(roles[d]) THEN current \cup {d} ELSE current
  /\ pc' = [pc EXCEPT ![d] = IF MayReachEndpoint(seen_role[d]) THEN "authorised"
                                                              ELSE "refused"]
  /\ UNCHANGED <<elevated, row, events, roles, run, choice, seen_role, late>>

\* The user is selected again, into the session that already has it: 403
\* unless the role the session has carries authority over the amount.
CheckAuthority(d) ==
  /\ pc[d] = "loaded"
  /\ current' = IF HasAuthority(roles[d]) THEN current \cup {d} ELSE current
  /\ pc' = [pc EXCEPT ![d] = IF HasAuthority(seen_role[d]) THEN "authorised"
                                                          ELSE "refused"]
  /\ UNCHANGED <<elevated, row, events, roles, run, choice, seen_role, late>>

\* Mutant: the event goes into a transaction of its own, and is lost.
RecordUnaudited(d) ==
  /\ pc[d] = "authorised"
  /\ row' = [row EXCEPT !.status = choice[d], !.by = d]
  /\ events' \in {events, Append(events, [by |-> d, status |-> choice[d]])}
  /\ pc' = [pc EXCEPT ![d] = "recorded"]
  /\ UNCHANGED <<elevated, roles, run, request>>

\* Mutant: a refusal cancels the request.
RecordCancelling(d) ==
  /\ pc[d] = "authorised"
  /\ LET status == IF choice[d] = "approved" THEN "approved" ELSE "cancelled" IN
       /\ row' = [row EXCEPT !.status = status, !.by = d]
       /\ events' = Append(events, [by |-> d, status |-> status])
  /\ pc' = [pc EXCEPT ![d] = "recorded"]
  /\ UNCHANGED <<elevated, roles, run, request>>

\* UPDATE approvals ... WHERE id, the event, COMMIT.  No version is compared.
Record(d) ==
  /\ pc[d] = "authorised"
  /\ row' = [row EXCEPT !.status = choice[d], !.by = d]
  /\ events' = Append(events, [by |-> d, status |-> choice[d]])
  /\ pc' = [pc EXCEPT ![d] = "recorded"]
  /\ UNCHANGED <<elevated, roles, run, request>>

\* Mutant: a rejection is recorded and the run is left alone.
ResumeApproved(d) ==
  /\ pc[d] = "recorded"
  /\ \/ /\ choice[d] = "approved" /\ run = "paused"
        /\ \/ run' = "refused" /\ UNCHANGED row
           \/ /\ row.status = "approved" /\ run' = "executed"
              /\ row' \in {row, [row EXCEPT !.consumed = TRUE]}
     \/ choice[d] = "rejected" /\ UNCHANGED <<run, row>>
     \/ run # "paused" /\ UNCHANGED <<run, row>>
  /\ pc' = [pc EXCEPT ![d] = "answered"]
  /\ UNCHANGED <<elevated, events, roles, request>>

\* Mutant: the run is told what the request asked for, not what is recorded.
ResumeWithPayload(d) ==
  /\ pc[d] = "authorised"
  /\ run = "paused"
  /\ run' = IF choice[d] = "approved" THEN "executed" ELSE "refused"
  /\ pc' = [pc EXCEPT ![d] = "answered"]
  /\ UNCHANGED <<elevated, row, events, roles, request>>

\* runner.resume: the paused run reads a row of its own (UpgradeWorkflow) and
\* escalates, or reads this one and executes if it is approved; execute may
\* spend it.  A run that has ended is not driven again.
Resume(d) ==
  /\ pc[d] = "recorded"
  /\ \/ run = "paused" /\ run' = "refused" /\ UNCHANGED row
     \/ /\ run = "paused" /\ row.status = "approved"
        /\ run' = "executed"
        /\ row' \in {row, [row EXCEPT !.consumed = TRUE]}
     \/ run # "paused" /\ UNCHANGED <<run, row>>
  /\ pc' = [pc EXCEPT ![d] = "answered"]
  /\ UNCHANGED <<elevated, events, roles, request>>

\* The process that serves the request stops: an open transaction is lost.
Stop(d) ==
  /\ pc[d] \notin Served
  /\ pc' = [pc EXCEPT ![d] = "stopped"]
  /\ UNCHANGED <<elevated, row, events, roles, run, request>>

\* An administrator gives a user another role, or deactivates the user.
ChangeRole(d) ==
  /\ roles' \in {[roles EXCEPT ![d] = role] : role \in RoleName \ {roles[d]}}
  /\ UNCHANGED <<elevated, row, events, run, pc, request>>

-----------------------------------------------------------------------------
Serve(d) == LoadApproval(d) \/ CheckAuthority(d) \/ Record(d) \/ Resume(d)

Next ==
  \E d \in Deciders : Authenticate(d) \/ Serve(d) \/ Stop(d) \/ ChangeRole(d)

\* The server goes on with every request it has begun.
Spec == Init /\ [][Next]_vars /\ \A d \in Deciders : WF_vars(Serve(d))

-----------------------------------------------------------------------------
\* Whoever is named as the decider had, when the request was authenticated, a
\* role with authority over this amount: nothing that happens to the roles or
\* to other requests in between lets anyone else's decision in
\* (approval_authority.py, fail closed at every step).
DeciderHadAuthority ==
  row.by # Nobody => HasAuthority(seen_role[row.by]) /\ MayReachEndpoint(seen_role[row.by])

\* The last APPROVAL_RECEIVED event says what the row says, also when requests
\* overtake each other or stop: row and event are one transaction.
AuditTellsTheDecision ==
  IF row.status = "pending"
    THEN events = <<>> /\ row.by = Nobody
    ELSE events # <<>> /\ events[Len(events)] = [by |-> row.by, status |-> row.status]

\* A request that begins after a decision was committed never replaces it, at
\* whatever step it is overtaken (check_decidable).
LateRequestsAreRefused ==
  \A d \in late : row.by # d /\ pc[d] \notin {"loaded", "authorised", "recorded"}

\* A run that has left the pause left it on a committed and audited decision,
\* and it has only executed on an approval: "a workflow that acted on a decision
\* nobody recorded" cannot be (approvals.py).
RunActsOnARecord ==
  /\ run # "paused" => events # <<>>
  /\ run = "executed" => \E i \in DOMAIN events : events[i].status = "approved"

\* Every committed decision, an approval or a refusal, gets the run out of its
\* pause, unless the process of the request that recorded it stopped.
DecisionReachesTheRun ==
  \A d \in Deciders : pc[d] = "recorded" ~> (run # "paused" \/ pc[d] = "stopped")

-----------------------------------------------------------------------------
\* "An approval is decided exactly once" (approval_authority.py:135).
DecidedOnce ==
  [][row.status # "pending" => row'.status = row.status /\ row'.by = row.by]_vars

\* Re-reading the actor "means a role revoked mid-session cannot approve on the
\* strength of a stale token" (approvals.py:160-161): the decider had authority
\* when the actor was read for the second time.
RevokedRoleCannotDecide ==
  row.by # Nobody => row.by \in current

=============================================================================
