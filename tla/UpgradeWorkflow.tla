--------------------------- MODULE UpgradeWorkflow ---------------------------
(***************************************************************************)
(* One run of the subscription upgrade, with the nodes that build_nodes    *)
(* (agents/nodes.py) puts into the graph: what they read and write in the  *)
(* three systems of record and in the approvals table, how a human's       *)
(* decision comes back through POST /approvals/{id}/decision, and what is  *)
(* lost when a process stops between two commits.                          *)
(*                                                                         *)
(* A node is one step, except approval_gate, which is cut where it waits.  *)
(* The edges are the operators of WorkflowGraph, which this module         *)
(* implements (RefinesGraph).                                              *)
(***************************************************************************)
EXTENDS Naturals, Sequences

CONSTANTS
  MaxRetries,    \* BudgetPolicy.max_retries
  MaxReplans,    \* BudgetPolicy.max_replans
  MaxApprovals,  \* bound: a paused run is resumed only below so many rows
  ResumeModes,   \* what interrupt() does on resume: "restart", "continue"
  Faulty,        \* tools, the portal and the validator's reads may fail
  Crashes        \* the API process may stop around a resume

ASSUME UpgradeAssumption ==
  /\ MaxRetries \in Nat
  /\ MaxReplans \in Nat
  /\ MaxApprovals \in Nat
  /\ ResumeModes \subseteq {"restart", "continue"}
  /\ Faulty \in BOOLEAN
  /\ Crashes \in BOOLEAN

VARIABLES
  \* The workflow state, as in WorkflowGraph; status has its full range here.
  node, workflow_type, status, approval_status, evidence,
  evidence_sufficient, verdicts, last_retryable, retry_count, replan_count,
  executions,
  target_known,  \* target_plan_code was extracted from the request
  \* The systems of record: the plan each of them has for the account.
  billing, crm, portal,
  \* Approvals.
  rows,          \* the run's rows of the approvals table, oldest first
  gate,          \* "idle", "paused" (suspended) or "resuming"
  gate_row,      \* approval_id, the local variable of approval_gate
  undelivered,   \* rows decided whose API request has yet to call resume
  answer         \* the row whose decision last resumed the run

routed == <<workflow_type, evidence, evidence_sufficient, target_known>>
budgets == <<retry_count, replan_count>>
systems == <<billing, crm, portal>>
waiting == <<gate, gate_row, undelivered, answer>>
outcome == <<node, status, approval_status>>
progress == <<routed, verdicts, last_retryable, budgets, executions>>
vars == <<outcome, progress, systems, rows, waiting>>

-----------------------------------------------------------------------------
Final == {"completed", "escalated"}
Status == Final \cup {"received", "planning", "researching", "deciding",
                      "awaiting_approval", "executing", "validating"}
Tier == {"old", "target", "other"}
ApprovalRow == [status : {"pending", "approved", "rejected"},
                consumed : BOOLEAN]

Graph == INSTANCE WorkflowGraph WITH
  paused <- gate # "idle",
  status <- IF status \in Final THEN status ELSE "in_progress"

TypeOK ==
  /\ node \in Graph!NodeSet \cup Graph!Bookkeeping \cup Graph!Stopped
  /\ status \in Status
  /\ {evidence, evidence_sufficient, target_known, last_retryable} \subseteq BOOLEAN
  /\ workflow_type \in Graph!WorkflowType
  /\ approval_status \in Graph!ApprovalState
  /\ verdicts \subseteq Graph!Verdict
  /\ {retry_count, replan_count, executions} \subseteq Nat
  /\ {billing, crm, portal} \subseteq Tier
  /\ rows \in Seq(ApprovalRow)
  /\ gate \in {"idle", "paused", "resuming"}
  /\ (gate # "idle" => gate_row \in DOMAIN rows)
  /\ undelivered \subseteq DOMAIN rows
  /\ answer \in {0} \cup DOMAIN rows

Init ==
  /\ node = "supervisor"
  /\ workflow_type = "unknown"
  /\ status = "received"
  /\ approval_status = "not_required"
  /\ evidence = FALSE /\ evidence_sufficient = FALSE
  /\ verdicts = {}
  /\ last_retryable = FALSE
  /\ retry_count = 0 /\ replan_count = 0
  /\ executions = 0
  /\ target_known = FALSE
  /\ billing = "old" /\ crm = "old" /\ portal = "old"
  /\ rows = <<>>
  /\ gate = "idle" /\ gate_row = 0
  /\ undelivered = {} /\ answer = 0

-----------------------------------------------------------------------------
(* From the request to a decision.                                         *)

Supervisor ==
  /\ node = "supervisor"
  /\ workflow_type' \in Graph!WorkflowType
  /\ target_known' \in BOOLEAN
  /\ status' = "planning"
  /\ node' = Graph!RouteAfterSupervisor(workflow_type')
  /\ UNCHANGED <<evidence, evidence_sufficient, approval_status, verdicts,
                 last_retryable, budgets, executions, systems, rows, waiting>>

Planner ==
  /\ node = "planner"
  /\ status' = "researching"
  /\ node' = "research"
  /\ UNCHANGED <<approval_status, progress, systems, rows, waiting>>

\* _fail_research, or the evidence that was gathered and its sufficiency.
\* The read tools it calls never report a transient error.
Research ==
  /\ node = "research"
  /\ \/ /\ evidence_sufficient' = FALSE
        /\ last_retryable' = FALSE
        /\ UNCHANGED <<evidence, status>>
     \/ /\ evidence' = TRUE
        /\ evidence_sufficient' \in BOOLEAN
        /\ last_retryable' \in {last_retryable, FALSE}
        /\ status' = "deciding"
  /\ node' = Graph!RouteAfterResearch(evidence', evidence_sufficient')
  /\ UNCHANGED <<workflow_type, target_known, approval_status, verdicts,
                 budgets, executions, systems, rows, waiting>>

\* Escalated before or by the assessment: no target, or an AssessmentError.
Unassessable ==
  /\ status' = "escalated"
  /\ last_retryable' = FALSE
  /\ \/ ~target_known /\ UNCHANGED approval_status
     \/ target_known /\ approval_status' = "not_required"

\* The eligibility rules have a blocker: any account may have one.
Blocked ==
  /\ target_known
  /\ status' = "escalated"
  /\ UNCHANGED <<approval_status, last_retryable>>

\* No blocker, so the plan is still below the target.  A human is needed when
\* the thresholds say so or when the billing specialist raises the bar.
Eligible ==
  /\ target_known
  /\ billing # "target"
  /\ \E needs_approval \in BOOLEAN :
       /\ approval_status' = IF needs_approval THEN "required" ELSE "not_required"
       /\ status' = IF needs_approval THEN "awaiting_approval" ELSE "executing"
  /\ UNCHANGED last_retryable

Decide ==
  /\ node = "decide"
  /\ Unassessable \/ Blocked \/ Eligible
  /\ node' = Graph!RouteAfterDecide(status', approval_status')
  /\ UNCHANGED <<routed, verdicts, budgets, executions, systems, rows, waiting>>

-----------------------------------------------------------------------------
(* approval_gate and the decision endpoint.                                *)

Pending == [status |-> "pending", consumed |-> FALSE]

\* Mutant: the run is suspended before the row is there.
InterruptBeforeRow ==
  /\ node = "approval_gate"
  /\ gate = "idle"
  /\ gate' = "paused"
  /\ gate_row' = Len(rows) + 1
  /\ UNCHANGED <<outcome, progress, systems, rows, undelivered, answer>>

\* The PENDING row is committed, then interrupt() suspends the run.
ApprovalGate ==
  /\ node = "approval_gate"
  /\ gate = "idle"
  /\ rows' = Append(rows, Pending)
  /\ gate' = "paused"
  /\ gate_row' = Len(rows')
  /\ UNCHANGED <<outcome, progress, systems, undelivered, answer>>

\* decide_approval up to its commit; ApprovalDecision has its steps.
RecordDecision(r) ==
  /\ rows[r].status = "pending"
  /\ \E decision \in {"approved", "rejected"} :
       rows' = [rows EXCEPT ![r].status = decision]
  /\ undelivered' = undelivered \cup {r}
  /\ UNCHANGED <<outcome, progress, systems, gate, gate_row, answer>>

\* runner.resume: the node runs again.  LangGraph restarts it from its first
\* line, so it draws a new approval_id and commits a second PENDING row; a
\* run that continued after interrupt() would still have the row it asked for.
ResumeGate(r) ==
  /\ r \in undelivered
  /\ gate = "paused"
  /\ \/ /\ "restart" \in ResumeModes
        /\ Len(rows) < MaxApprovals
        /\ rows' = Append(rows, Pending)
        /\ gate_row' = Len(rows')
     \/ /\ "continue" \in ResumeModes
        /\ UNCHANGED <<rows, gate_row>>
  /\ gate' = "resuming"
  /\ answer' = r
  /\ undelivered' = undelivered \ {r}
  /\ UNCHANGED <<outcome, progress, systems>>

\* After interrupt() returned: the decision is read from the local row.
ReadDecision ==
  /\ gate = "resuming"
  /\ approval_status' = IF rows[gate_row].status = "approved" THEN "granted"
                                                              ELSE "rejected"
  /\ status' = IF approval_status' = "granted" THEN "executing" ELSE "escalated"
  /\ node' = Graph!RouteAfterApproval(approval_status')
  /\ gate' = "idle"
  /\ UNCHANGED <<progress, systems, rows, gate_row, undelivered, answer>>

\* Resuming a run that has ended drives nothing.
ResumeEnded(r) ==
  /\ r \in undelivered
  /\ node \in Graph!Stopped
  /\ undelivered' = undelivered \ {r}
  /\ UNCHANGED <<outcome, progress, systems, rows, gate, gate_row, answer>>

\* The API process stops after the commit, before it calls resume ...
LoseResume(r) ==
  /\ Crashes
  /\ r \in undelivered
  /\ undelivered' = undelivered \ {r}
  /\ UNCHANGED <<outcome, progress, systems, rows, gate, gate_row, answer>>

\* ... or while the gate runs again: the checkpoint still has the interrupt.
StopResuming ==
  /\ Crashes
  /\ gate = "resuming"
  /\ gate' = "paused"
  /\ UNCHANGED <<outcome, progress, systems, rows, gate_row, undelivered, answer>>

-----------------------------------------------------------------------------
(* execute: three tools under one approval.                                *)

\* verify_approval accepts the row (its other checks are ToolLayer's).
Usable(r) == rows[r].status = "approved" /\ ~rows[r].consumed

\* Mutant: no row is needed where the policy asked for none.
AuthorisedByPolicy ==
  IF rows = <<>> THEN {approval_status = "not_required"}
                 ELSE {Usable(r) : r \in DOMAIN rows}

\* verify_approval takes the first row of a SELECT that has no ORDER BY, and
\* refuses when there is none: whether a tool is authorised depends on it.
Authorisations ==
  IF rows = <<>> THEN {FALSE} ELSE {Usable(r) : r \in DOMAIN rows}

\* A tool that changes the database applies its change or reports why not.
Applied == UNION {IF Faulty THEN {ok, FALSE} ELSE {ok} : ok \in Authorisations}

\* update_entitlement is the one that spends the approval.  When the portal
\* reports an error the savepoint takes the spending back, but not what the
\* portal may have done before, and only some errors are transient.
Provision(error) ==
  \/ /\ FALSE \in Authorisations
     /\ error = "final"
     /\ UNCHANGED <<portal, rows>>
  \/ \E r \in DOMAIN rows :
       /\ Usable(r)
       /\ rows' = [rows EXCEPT ![r].consumed = TRUE]
       /\ \/ portal' = "target" /\ error = "none"
          \/ Faulty /\ portal' = "other" /\ error = "final"
  \/ /\ Faulty
     /\ TRUE \in Authorisations
     /\ error \in {"final", "transient"}
     /\ portal' \in {portal, "target"}
     /\ UNCHANGED rows

\* The errors are appended in the order of the calls; the last one decides.
ApplyUpgrade ==
  \E billed \in Applied, synced \in Applied,
     error \in {"none", "final", "transient"} :
    /\ billing' = IF billed THEN "target" ELSE billing
    /\ crm' = IF synced THEN "target" ELSE crm
    /\ Provision(error)
    /\ status' = "validating"
    /\ last_retryable' = IF error = "none" /\ billed /\ synced
                           THEN last_retryable ELSE error = "transient"

\* The account has lost its subscription: nothing is called.
NothingToExecute ==
  /\ Faulty
  /\ status' = "escalated"
  /\ last_retryable' = FALSE
  /\ UNCHANGED <<systems, rows>>

Execute ==
  /\ node = "execute"
  /\ ApplyUpgrade \/ NothingToExecute
  /\ executions' = executions + 1
  /\ node' = "validate"
  /\ UNCHANGED <<routed, approval_status, verdicts, budgets, waiting>>

-----------------------------------------------------------------------------
(* validate, recovery and the end of the run.                              *)

\* validate_upgrade: what one system reports against the target plan.
Check(tier, readable) ==
  IF ~readable THEN "needs_review" ELSE IF tier = "target" THEN "pass" ELSE "fail"

\* Mutant: the portal is left out when it could not be read.
ReadableChecks(billing_read, crm_read, portal_read) ==
  {Check(billing, billing_read), Check(crm, crm_read)}
    \cup (IF portal_read THEN {Check(portal, TRUE)} ELSE {})

\* The status of a subscription that could be read is an active one.
Checks(billing_read, crm_read, portal_read) ==
  {Check(billing, billing_read), Check(crm, crm_read), Check(portal, portal_read)}
    \cup (IF billing_read THEN {"pass"} ELSE {})

\* Mutant: the divergence is reported with the error execute left behind.
ValidateKeepingError ==
  /\ node = "validate"
  /\ \E reads \in [1..3 -> IF Faulty THEN BOOLEAN ELSE {TRUE}] :
       verdicts' = verdicts \cup Checks(reads[1], reads[2], reads[3])
  /\ node' = Graph!RouteAfterValidate(verdicts', retry_count, replan_count,
                                      last_retryable)
  /\ UNCHANGED <<routed, status, approval_status, last_retryable, budgets,
                 executions, systems, rows, waiting>>

\* Any verdict but PASS appends an error that is not retryable.
Validate ==
  /\ node = "validate"
  /\ \E reads \in [1..3 -> IF Faulty THEN BOOLEAN ELSE {TRUE}] :
       LET found == Checks(reads[1], reads[2], reads[3]) IN
       /\ verdicts' = verdicts \cup found
       /\ last_retryable' = (found = {"pass"} /\ last_retryable)
  /\ node' = Graph!RouteAfterValidate(verdicts', retry_count, replan_count,
                                      last_retryable')
  /\ UNCHANGED <<routed, status, approval_status, budgets, executions,
                 systems, rows, waiting>>

\* Mutant: the new plan keeps the replan budget of the old one.
ReplanForFree ==
  /\ \/ node = "retry" /\ node' = "execute"
        /\ retry_count' = retry_count + 1 /\ UNCHANGED replan_count
     \/ node = "replan" /\ node' = "planner"
        /\ retry_count' = 0 /\ UNCHANGED replan_count
  /\ UNCHANGED <<status, approval_status, routed, verdicts, last_retryable,
                 executions, systems, rows, waiting>>

\* _spend_retry and _spend_replan
SpendBudget ==
  /\ \/ node = "retry" /\ node' = "execute"
        /\ retry_count' = retry_count + 1 /\ UNCHANGED replan_count
     \/ node = "replan" /\ node' = "planner"
        /\ retry_count' = 0 /\ replan_count' = replan_count + 1
  /\ UNCHANGED <<status, approval_status, routed, verdicts, last_retryable,
                 executions, systems, rows, waiting>>

\* notify, then complete; or escalate.
Conclude ==
  /\ \/ node = "notify" /\ status' = "completed" /\ node' = "complete"
     \/ node = "complete" /\ status' = "completed" /\ node' = "end"
     \/ node = "escalate" /\ status' = "escalated" /\ node' = "end"
  /\ UNCHANGED <<approval_status, progress, systems, rows, waiting>>

\* An exception or a stop inside a node that is not waiting: what the node did
\* to the database is rolled back, what execute did to the portal is not.
Raise ==
  /\ node \in Graph!NodeSet
  /\ gate = "idle"
  /\ node' = "raised"
  /\ executions' = IF node = "execute" THEN executions + 1 ELSE executions
  /\ portal' \in IF node = "execute" /\ TRUE \in Authorisations
                  THEN {portal, "target"} ELSE {portal}
  /\ UNCHANGED <<status, approval_status, routed, verdicts, last_retryable,
                 budgets, billing, crm, rows, waiting>>

-----------------------------------------------------------------------------
\* What the task that drives the run does by itself.
Drive ==
  \/ Supervisor \/ Planner \/ Research \/ Decide \/ ApprovalGate
  \/ ReadDecision \/ Execute \/ Validate \/ SpendBudget \/ Conclude

Next ==
  \/ Drive
  \/ \E r \in DOMAIN rows :
       RecordDecision(r) \/ ResumeGate(r) \/ ResumeEnded(r) \/ LoseResume(r)
  \/ StopResuming
  \/ Raise

\* The event loop runs a task that can go on.  Nobody owes the run a decision.
Spec == Init /\ [][Next]_vars /\ WF_vars(Drive)

-----------------------------------------------------------------------------
\* Every run of the real nodes is a run of the graph's topology, and comes to
\* rest like one: what WorkflowGraph promises of any nodes holds of these.
RefinesGraph == Graph!Spec

\* A system of record only ever leaves its old plan after a human approved a
\* request of this run, whatever path led to execute and whatever the policy
\* said about needing approval (mcp/tools/approval.py, decision D9).
NothingWithoutConsent ==
  (billing # "old" \/ crm # "old" \/ portal # "old") =>
    \E r \in DOMAIN rows : rows[r].status = "approved"

\* "Agreement between two systems is not success if the third cannot be
\* confirmed" (README.md): a run that reports success left all three on the
\* target plan, however many plans and lost answers came before.
CompletedMeansAgreement ==
  status = "completed" => billing = "target" /\ crm = "target" /\ portal = "target"

\* The retry edge is only ever taken when nothing is left to do: validate
\* appends its own, not retryable, error whenever a system disagrees, so the
\* transient error that asks for the retry is one whose call took effect.  On
\* the first retry of a plan the approval of that call was given back and can
\* be spent.  A retry that succeeds appends no error, so where an older verdict
\* keeps the run from completing the same error asks again, with the approval
\* spent.
RetryOnlyWhenConverged ==
  node = "retry" =>
    /\ billing = "target" /\ crm = "target" /\ portal = "target"
    /\ retry_count = 0 => \E r \in DOMAIN rows : Usable(r)

-----------------------------------------------------------------------------
\* "Resuming continues the same execution rather than replaying it"
\* (README.md:63): a run resumed by an approval is granted that approval.
ApprovalIsGranted ==
  [][gate = "resuming" /\ gate' = "idle" /\ rows[answer].status = "approved"
       => approval_status' = "granted"]_vars

\* "Happy path - upgrades cleanly with no approval" (domain/seed.py:121): when
\* nothing fails, a run whose policy asks for no human changes the plan.
AutomaticUpgradeApplies ==
  [][node = "execute" /\ node' = "validate" /\ approval_status = "not_required"
       => billing' = "target"]_vars

\* "A crash between the two leaves a recorded decision and a resumable
\* workflow" (apps/api/routers/approvals.py:10): a paused run either has a
\* resume on its way or a row that a human can still decide.
PausedRunCanBeResumed ==
  gate = "paused" =>
    undelivered # {} \/ \E r \in DOMAIN rows : rows[r].status = "pending"

=============================================================================
