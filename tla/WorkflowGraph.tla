---------------------------- MODULE WorkflowGraph ----------------------------
(***************************************************************************)
(* The topology of the upgrade workflow, for ANY node implementations.     *)
(*                                                                         *)
(* build_graph (apps/orchestrator/graph.py) wires nodes that it receives   *)
(* as a NodeSet, and the conditional edges are the pure functions of       *)
(* agents/routing.py over the workflow state, with the retry and replan    *)
(* budgets of agents/budgets.py.  This module keeps exactly that split:    *)
(* a node may return any update of the fields it owns, and the edges, the  *)
(* reducers and the two bookkeeping nodes are those of the code.  It is    *)
(* the abstract specification that UpgradeWorkflow, with the real nodes,   *)
(* is shown to implement.                                                  *)
(***************************************************************************)
EXTENDS Naturals

CONSTANTS
  MaxRetries,   \* BudgetPolicy.max_retries
  MaxReplans    \* BudgetPolicy.max_replans

ASSUME BudgetAssumption == MaxRetries \in Nat /\ MaxReplans \in Nat

VARIABLES
  node,                 \* the node that runs next, or "end" or "raised"
  paused,               \* the run is suspended inside approval_gate
  workflow_type,
  status,
  approval_status,
  evidence,             \* the evidence list is not empty
  evidence_sufficient,  \* metadata["evidence_sufficient"] is True
  verdicts,             \* the verdicts in the accumulated validation_results
  last_retryable,       \* the last of errors is marked retryable
  retry_count,
  replan_count,
  executions            \* history: how often the execute node was entered

decided == <<workflow_type, evidence, evidence_sufficient>>
budgets == <<retry_count, replan_count>>
vars == <<node, paused, workflow_type, status, approval_status, evidence,
          evidence_sufficient, verdicts, last_retryable, retry_count,
          replan_count, executions>>

-----------------------------------------------------------------------------
(* What the routing tells apart.  "in_progress" stands for the statuses    *)
(* from received to validating, which no edge looks at.                    *)

WorkflowType == {"subscription_upgrade", "unknown"}
Status == {"in_progress", "completed", "escalated"}
ApprovalState == {"not_required", "required", "granted", "rejected"}
Verdict == {"pass", "fail", "needs_review"}

NodeSet == {"supervisor", "planner", "research", "decide", "approval_gate",
            "execute", "validate", "notify", "complete", "escalate"}
Bookkeeping == {"retry", "replan"}
Stopped == {"end", "raised"}

TypeOK ==
  /\ node \in NodeSet \cup Bookkeeping \cup Stopped
  /\ paused \in BOOLEAN
  /\ workflow_type \in WorkflowType
  /\ status \in Status
  /\ approval_status \in ApprovalState
  /\ evidence \in BOOLEAN
  /\ evidence_sufficient \in BOOLEAN
  /\ verdicts \subseteq Verdict
  /\ last_retryable \in BOOLEAN
  /\ retry_count \in Nat
  /\ replan_count \in Nat
  /\ executions \in Nat

-----------------------------------------------------------------------------
(* The conditional edges, as functions of the state after the merge.       *)

RouteAfterSupervisor(type) ==
  IF type = "subscription_upgrade" THEN "planner" ELSE "escalate"

\* Mutant: thin evidence goes back to the planner, outside the budgets.
ResearchAgain(some, sufficient) ==
  IF some /\ sufficient THEN "decide" ELSE "planner"

RouteAfterResearch(some, sufficient) ==
  IF some /\ sufficient THEN "decide" ELSE "escalate"

\* Mutant: the edge to the gate is missing.
RouteIgnoringApproval(st, approval) ==
  IF st = "escalated" THEN "escalate" ELSE "execute"

RouteAfterDecide(st, approval) ==
  CASE st = "escalated" -> "escalate"
    [] st # "escalated" /\ approval = "required" -> "approval_gate"
    [] st # "escalated" /\ approval # "required" -> "execute"

RouteAfterApproval(approval) ==
  IF approval = "granted" THEN "execute" ELSE "escalate"

\* Mutant: the retry budget is compared with <= in place of <.
RecoveryOffByOne(retries, replans, retryable) ==
  IF retryable /\ retries <= MaxRetries
    THEN "retry"
    ELSE IF replans < MaxReplans THEN "replan" ELSE "escalate"

\* Retry the same plan, then replan, then give up; only a transient failure
\* may be retried.  The names are those of the node the graph goes to.
NextRecoveryStep(retries, replans, retryable) ==
  IF retryable /\ retries < MaxRetries
    THEN "retry"
    ELSE IF replans < MaxReplans THEN "replan" ELSE "escalate"

\* Mutant: the budget is asked before the verdicts are looked at for doubt.
RouteRetryingDoubt(found, retries, replans, retryable) ==
  IF found = {} THEN "escalate"
  ELSE IF found = {"pass"} THEN "notify"
  ELSE NextRecoveryStep(retries, replans, retryable)

RouteAfterValidate(found, retries, replans, retryable) ==
  CASE found = {} -> "escalate"
    [] found = {"pass"} -> "notify"
    [] "needs_review" \in found -> "escalate"
    [] OTHER -> NextRecoveryStep(retries, replans, retryable)

-----------------------------------------------------------------------------
(* The nodes.  Each writes the fields its return value carries; a field    *)
(* with an operator.add reducer can only grow; no node writes a budget.    *)

Init ==
  /\ node = "supervisor"
  /\ paused = FALSE
  /\ workflow_type = "unknown"
  /\ status = "in_progress"
  /\ approval_status = "not_required"
  /\ evidence = FALSE
  /\ evidence_sufficient = FALSE
  /\ verdicts = {}
  /\ last_retryable = FALSE
  /\ retry_count = 0
  /\ replan_count = 0
  /\ executions = 0

Supervisor ==
  /\ node = "supervisor"
  /\ workflow_type' \in WorkflowType
  /\ status' \in Status
  /\ node' = RouteAfterSupervisor(workflow_type')
  /\ UNCHANGED <<paused, approval_status, evidence, evidence_sufficient,
                 verdicts, last_retryable, budgets, executions>>

Planner ==
  /\ node = "planner"
  /\ status' \in Status
  /\ node' = "research"
  /\ UNCHANGED <<paused, decided, approval_status, verdicts, last_retryable,
                 budgets, executions>>

Research ==
  /\ node = "research"
  /\ status' \in Status
  /\ evidence' \in {evidence, TRUE}
  /\ evidence_sufficient' \in BOOLEAN
  /\ last_retryable' \in BOOLEAN
  /\ node' = RouteAfterResearch(evidence', evidence_sufficient')
  /\ UNCHANGED <<paused, workflow_type, approval_status, verdicts, budgets,
                 executions>>

Decide ==
  /\ node = "decide"
  /\ status' \in Status
  /\ approval_status' \in {approval_status, "not_required", "required"}
  /\ last_retryable' \in BOOLEAN
  /\ node' = RouteAfterDecide(status', approval_status')
  /\ UNCHANGED <<paused, decided, verdicts, budgets, executions>>

\* interrupt(): the run is suspended to the checkpointer.
ApprovalGate ==
  /\ node = "approval_gate"
  /\ ~paused
  /\ paused' = TRUE
  /\ UNCHANGED <<node, decided, status, approval_status, verdicts,
                 last_retryable, budgets, executions>>

\* WorkflowRunner.resume: the gate returns what was decided.
Resume ==
  /\ node = "approval_gate"
  /\ paused
  /\ paused' = FALSE
  /\ status' \in Status
  /\ approval_status' \in {"granted", "rejected"}
  /\ node' = RouteAfterApproval(approval_status')
  /\ UNCHANGED <<decided, verdicts, last_retryable, budgets, executions>>

Execute ==
  /\ node = "execute"
  /\ status' \in Status
  /\ last_retryable' \in BOOLEAN
  /\ executions' = executions + 1
  /\ node' = "validate"
  /\ UNCHANGED <<paused, decided, approval_status, verdicts, budgets>>

Validate ==
  /\ node = "validate"
  /\ status' \in Status
  /\ \E found \in SUBSET Verdict : verdicts' = verdicts \cup found
  /\ last_retryable' \in BOOLEAN
  /\ node' = RouteAfterValidate(verdicts', retry_count, replan_count,
                                last_retryable')
  /\ UNCHANGED <<paused, decided, approval_status, budgets, executions>>

\* Mutant: the retry is given back.
RetryRefunded ==
  /\ node = "retry"
  /\ retry_count' = retry_count - 1
  /\ node' = "execute"
  /\ UNCHANGED <<paused, decided, status, approval_status, verdicts,
                 last_retryable, replan_count, executions>>

\* _spend_retry
Retry ==
  /\ node = "retry"
  /\ retry_count' = retry_count + 1
  /\ node' = "execute"
  /\ UNCHANGED <<paused, decided, status, approval_status, verdicts,
                 last_retryable, replan_count, executions>>

\* _spend_replan: a new plan gets its own retry budget.
Replan ==
  /\ node = "replan"
  /\ replan_count' = replan_count + 1
  /\ retry_count' = 0
  /\ node' = "planner"
  /\ UNCHANGED <<paused, decided, status, approval_status, verdicts,
                 last_retryable, executions>>

\* notify -> complete -> END and escalate -> END.
Conclude ==
  /\ node \in {"notify", "complete", "escalate"}
  /\ status' \in Status
  /\ node' = IF node = "notify" THEN "complete" ELSE "end"
  /\ UNCHANGED <<paused, decided, approval_status, verdicts, last_retryable,
                 budgets, executions>>

\* An exception in a node leaves astream: no edge is followed any more.
Raise ==
  /\ node \in NodeSet
  /\ node' = "raised"
  /\ paused' = FALSE
  /\ executions' = IF node = "execute" THEN executions + 1 ELSE executions
  /\ UNCHANGED <<decided, status, approval_status, verdicts, last_retryable,
                 budgets>>

-----------------------------------------------------------------------------
\* What the streaming loop of WorkflowRunner._drive does by itself.
Step ==
  \/ Supervisor \/ Planner \/ Research \/ Decide \/ ApprovalGate \/ Execute
  \/ Validate \/ Retry \/ Replan \/ Conclude

Next == Step \/ Resume \/ Raise

\* A started run is driven by its own task; nobody owes it a resume.
Spec == Init /\ [][Next]_vars /\ WF_vars(Step)

-----------------------------------------------------------------------------
\* The execute node runs at most once per retry of each plan, whatever the
\* nodes return: "unbounded retry against a mutating tool is how one workflow
\* becomes four charges" (agents/budgets.py).
ExecutionsBounded ==
  executions <= (MaxReplans + 1) * (MaxRetries + 1)

\* No path through the graph, recovery loops included, comes to the execute
\* node, or to what follows it, with an approval that was asked for and is
\* still open or was refused (route_after_decide, route_after_approval).
ExecuteOnlyWithConsent ==
  node \in {"execute", "validate", "retry", "notify", "complete"} =>
    approval_status \in {"not_required", "granted"}

\* Once one validation could not tell, the action is never repeated: "repeating
\* an action whose effect is unknown is how a single upgrade becomes two"
\* (route_after_validate).
DoubtNeverRepeats ==
  [][executions' > executions => "needs_review" \notin verdicts]_vars

\* A run that is driven comes to rest: it ends, raises, or waits for a human.
\* The budgets are what makes this true (graph.py, "termination is a property
\* of the topology").
EventuallyAtRest ==
  <>[](node \in Stopped \/ paused)

=============================================================================
