------------------------ MODULE WorkflowGraph_proofs ------------------------
(***************************************************************************)
(* Proofs that the safety properties of WorkflowGraph hold for every       *)
(* BudgetPolicy and whatever the nodes return.                             *)
(***************************************************************************)
EXTENDS WorkflowGraph, TLAPS

\* Where the latest entry of the execute node has been counted already.
AfterExecute == {"validate", "retry", "replan", "notify", "complete",
                 "escalate", "end", "raised"}

\* The two counters stay within the policy, and a bookkeeping node is only
\* entered with budget left.
BudgetInv ==
  /\ retry_count <= MaxRetries
  /\ replan_count <= MaxReplans
  /\ node = "retry" => retry_count < MaxRetries
  /\ node = "replan" => replan_count < MaxReplans

\* Every replan pays for one plan's worth of executions, every retry for one.
Paid == replan_count * (MaxRetries + 1) + retry_count

ExecutionInv ==
  executions <= IF node \in AfterExecute THEN Paid + 1 ELSE Paid

\* A refusal is final: nothing leads from it back into the graph.
ConsentInv ==
  /\ ExecuteOnlyWithConsent
  /\ node \in {"supervisor", "planner", "research", "decide", "replan"} =>
       approval_status # "rejected"

\* So is a validation that could not tell.
DoubtInv ==
  "needs_review" \in verdicts => node \in {"escalate", "end", "raised"}

IInv == TypeOK /\ BudgetInv /\ ExecutionInv /\ ConsentInv /\ DoubtInv

-----------------------------------------------------------------------------
\* A plan more is worth MaxRetries + 1 executions more.
LEMMA PlanMore ==
  ASSUME NEW k \in Nat, NEW c \in Nat
  PROVE  (k + 1) * c = k * c + c
OBVIOUS

\* Fewer plans are worth no more executions.
LEMMA PlansMonotone ==
  ASSUME NEW j \in Nat, NEW k \in Nat, NEW c \in Nat, j <= k
  PROVE  /\ j * c \in Nat
         /\ k * c \in Nat
         /\ j * c <= k * c
<1>1. PICK d \in Nat : k = j + d
  <2>1. k - j \in Nat
    OBVIOUS
  <2> QED BY <2>1
<1>2. k * c = j * c + d * c
  BY <1>1
<1>3. j * c \in Nat /\ d * c \in Nat /\ k * c \in Nat
  OBVIOUS
<1> QED BY <1>2, <1>3

\* Each answer of next_recovery_step stands for a budget that is not spent.
LEMMA RecoveryWithinBudget ==
  ASSUME NEW retries \in Nat, NEW replans \in Nat, NEW retryable \in BOOLEAN
  PROVE  LET step == NextRecoveryStep(retries, replans, retryable) IN
         /\ step \in {"retry", "replan", "escalate"}
         /\ step = "retry" => retries < MaxRetries
         /\ step = "replan" => replans < MaxReplans
BY BudgetAssumption DEF NextRecoveryStep

\* route_after_validate goes on only without doubt, and back only on budget.
LEMMA ValidateRoutes ==
  ASSUME NEW found \in SUBSET Verdict, NEW retries \in Nat,
         NEW replans \in Nat, NEW retryable \in BOOLEAN
  PROVE  LET next == RouteAfterValidate(found, retries, replans, retryable) IN
         /\ next \in {"notify", "retry", "replan", "escalate"}
         /\ next = "retry" => retries < MaxRetries
         /\ next = "replan" => replans < MaxReplans
         /\ "needs_review" \in found => next = "escalate"
<1>1. CASE found = {} \/ found = {"pass"} \/ "needs_review" \in found
  BY <1>1 DEF RouteAfterValidate
<1>2. CASE found # {} /\ found # {"pass"} /\ "needs_review" \notin found
  <2>1. RouteAfterValidate(found, retries, replans, retryable)
          = NextRecoveryStep(retries, replans, retryable)
    BY <1>2 DEF RouteAfterValidate
  <2> QED BY <2>1, <1>2, RecoveryWithinBudget
<1> QED BY <1>1, <1>2

-----------------------------------------------------------------------------
\* A run starts in the invariant.
LEMMA InitInv == Init => IInv
<1> SUFFICES ASSUME Init PROVE IInv
  OBVIOUS
<1>1. TypeOK
  BY DEF Init, TypeOK, NodeSet, WorkflowType, Status, ApprovalState, Verdict
<1>2. BudgetInv
  BY BudgetAssumption DEF Init, BudgetInv
<1>3. ExecutionInv
  BY BudgetAssumption DEF Init, ExecutionInv, Paid, AfterExecute
<1>4. ConsentInv /\ DoubtInv
  BY DEF Init, ConsentInv, ExecuteOnlyWithConsent, DoubtInv
<1> QED BY <1>1, <1>2, <1>3, <1>4 DEF IInv

\* Every action keeps the types, given the types.
LEMMA TypeStep == TypeOK /\ [Next]_vars => TypeOK'
<1> SUFFICES ASSUME TypeOK, [Next]_vars PROVE TypeOK'
  OBVIOUS
<1> USE DEF TypeOK, decided, budgets, NodeSet, Bookkeeping, Stopped
<1>1. CASE Supervisor
  BY <1>1 DEF Supervisor, RouteAfterSupervisor
<1>2. CASE Planner
  BY <1>2 DEF Planner
<1>3. CASE Research
  BY <1>3 DEF Research, RouteAfterResearch
<1>4. CASE Decide
  BY <1>4 DEF Decide, RouteAfterDecide, Status, ApprovalState
<1>5. CASE ApprovalGate
  BY <1>5 DEF ApprovalGate
<1>6. CASE Resume
  BY <1>6 DEF Resume, RouteAfterApproval, ApprovalState
<1>7. CASE Execute
  BY <1>7 DEF Execute
<1>8. CASE Validate
  <2>1. verdicts' \in SUBSET Verdict /\ last_retryable' \in BOOLEAN
    BY <1>8 DEF Validate
  <2>2. node' \in {"notify", "retry", "replan", "escalate"}
    BY <1>8, <2>1, ValidateRoutes DEF Validate
  <2> QED BY <1>8, <2>1, <2>2 DEF Validate
<1>9. CASE Retry
  BY <1>9 DEF Retry
<1>10. CASE Replan
  BY <1>10 DEF Replan
<1>11. CASE Conclude
  BY <1>11 DEF Conclude
<1>12. CASE Raise
  <2>1. executions' \in Nat
    BY <1>12 DEF Raise
  <2>2. node' = "raised" /\ paused' = FALSE
    BY <1>12 DEF Raise
  <2>3. UNCHANGED <<decided, status, approval_status, verdicts,
                    last_retryable, budgets>>
    BY <1>12 DEF Raise
  <2> QED BY <2>1, <2>2, <2>3
<1>13. CASE UNCHANGED vars
  BY <1>13 DEF vars
<1> QED BY <1>1, <1>2, <1>3, <1>4, <1>5, <1>6, <1>7, <1>8, <1>9, <1>10,
           <1>11, <1>12, <1>13 DEF Next, Step

-----------------------------------------------------------------------------
\* The budgets move in the bookkeeping nodes only, which are entered with
\* budget left.
LEMMA BudgetStep == TypeOK /\ BudgetInv /\ [Next]_vars => BudgetInv'
<1> SUFFICES ASSUME TypeOK, BudgetInv, [Next]_vars PROVE BudgetInv'
  OBVIOUS
<1> USE DEF BudgetInv, budgets
<1>1. CASE Supervisor
  BY <1>1 DEF Supervisor, RouteAfterSupervisor
<1>2. CASE Planner
  BY <1>2 DEF Planner
<1>3. CASE Research
  BY <1>3 DEF Research, RouteAfterResearch
<1>4. CASE Decide
  BY <1>4 DEF Decide, RouteAfterDecide
<1>5. CASE ApprovalGate
  BY <1>5 DEF ApprovalGate
<1>6. CASE Resume
  BY <1>6 DEF Resume, RouteAfterApproval
<1>7. CASE Execute
  BY <1>7 DEF Execute
<1>8. CASE Validate
  <2>1. /\ verdicts' \in SUBSET Verdict
        /\ last_retryable' \in BOOLEAN
        /\ retry_count \in Nat /\ replan_count \in Nat
        /\ UNCHANGED <<retry_count, replan_count>>
    BY <1>8 DEF Validate, TypeOK
  <2>2. /\ node' = "retry" => retry_count < MaxRetries
        /\ node' = "replan" => replan_count < MaxReplans
    BY <1>8, <2>1, ValidateRoutes DEF Validate
  <2> QED BY <2>1, <2>2
<1>9. CASE Retry
  BY <1>9, BudgetAssumption DEF Retry, TypeOK
<1>10. CASE Replan
  BY <1>10, BudgetAssumption DEF Replan, TypeOK
<1>11. CASE Conclude
  BY <1>11 DEF Conclude
<1>12. CASE Raise
  BY <1>12 DEF Raise
<1>13. CASE UNCHANGED vars
  BY <1>13 DEF vars
<1> QED BY <1>1, <1>2, <1>3, <1>4, <1>5, <1>6, <1>7, <1>8, <1>9, <1>10,
           <1>11, <1>12, <1>13 DEF Next, Step

\* Each execution is paid for before the next one can start.
LEMMA ExecutionStep ==
  TypeOK /\ BudgetInv /\ ExecutionInv /\ [Next]_vars => ExecutionInv'
<1> SUFFICES ASSUME TypeOK, BudgetInv, ExecutionInv, [Next]_vars
             PROVE  ExecutionInv'
  OBVIOUS
<1> DEFINE paidFor == replan_count * (MaxRetries + 1)
<1>1. /\ paidFor \in Nat /\ retry_count \in Nat /\ executions \in Nat
      /\ Paid = paidFor + retry_count
  BY BudgetAssumption DEF TypeOK, Paid

\* Nothing is spent: the bound can only be raised by one.
<1>2. ASSUME UNCHANGED <<budgets, executions>>,
             node \in AfterExecute => node' \in AfterExecute
      PROVE  ExecutionInv'
  <2>1. Paid' = Paid
    BY <1>2 DEF Paid, budgets
  <2> QED BY <1>1, <1>2, <2>1 DEF ExecutionInv
<1>3. CASE Execute
  <2>1. Paid' = Paid /\ executions' = executions + 1
    BY <1>3 DEF Execute, Paid, budgets
  <2>2. executions <= Paid /\ node' \in AfterExecute
    BY <1>3 DEF Execute, ExecutionInv, AfterExecute
  <2> QED BY <1>1, <2>1, <2>2 DEF ExecutionInv
<1>4. CASE Raise
  <2>1. Paid' = Paid /\ node' \in AfterExecute
    BY <1>4 DEF Raise, Paid, budgets, AfterExecute
  <2>2. CASE node = "execute"
    <3>1. executions' = executions + 1 /\ executions <= Paid
      BY <1>4, <2>2 DEF Raise, ExecutionInv, AfterExecute
    <3> QED BY <1>1, <2>1, <3>1 DEF ExecutionInv
  <2>3. CASE node # "execute"
    <3>1. UNCHANGED executions
      BY <1>4, <2>3 DEF Raise
    <3> QED BY <1>1, <2>1, <3>1 DEF ExecutionInv
  <2> QED BY <2>2, <2>3
<1>5. CASE Retry
  <2>1. executions <= Paid + 1 /\ executions' = executions
    BY <1>5 DEF Retry, ExecutionInv, AfterExecute
  <2>2. Paid' = Paid + 1
    BY <1>1, <1>5 DEF Retry, Paid
  <2> QED BY <1>1, <2>1, <2>2 DEF ExecutionInv

\* The new plan pays for the retries it gives back: there were at most
\* MaxRetries of them.
<1>6. CASE Replan
  <2>1. executions <= Paid + 1 /\ executions' = executions
    BY <1>6 DEF Replan, ExecutionInv, AfterExecute
  <2>2. replan_count' = replan_count + 1 /\ retry_count' = 0
    BY <1>6 DEF Replan
  <2>3. (replan_count + 1) * (MaxRetries + 1) = paidFor + (MaxRetries + 1)
    BY PlanMore, BudgetAssumption DEF TypeOK
  <2>4. Paid' = paidFor + (MaxRetries + 1)
    BY <1>1, <2>2, <2>3, BudgetAssumption DEF Paid
  <2>5. retry_count <= MaxRetries
    BY DEF BudgetInv
  <2> HIDE DEF paidFor
  <2> QED BY <1>1, <2>1, <2>4, <2>5, BudgetAssumption DEF ExecutionInv
<1>7. CASE Supervisor \/ Planner \/ Research \/ Decide \/ ApprovalGate
  BY <1>7, <1>2 DEF Supervisor, Planner, Research, Decide, ApprovalGate,
                    AfterExecute
<1>8. CASE Resume
  BY <1>8, <1>2 DEF Resume, AfterExecute
<1>9. CASE Validate
  <2>1. /\ verdicts' \in SUBSET Verdict
        /\ last_retryable' \in BOOLEAN
        /\ retry_count \in Nat /\ replan_count \in Nat
    BY <1>9 DEF Validate, TypeOK
  <2>2. node' \in AfterExecute
    BY <1>9, <2>1, ValidateRoutes DEF Validate, AfterExecute
  <2> QED BY <1>9, <2>2, <1>2 DEF Validate
<1>10. CASE Conclude
  BY <1>10, <1>2 DEF Conclude, AfterExecute
<1>11. CASE UNCHANGED vars
  BY <1>11, <1>2 DEF vars, budgets
<1> QED BY <1>3, <1>4, <1>5, <1>6, <1>7, <1>8, <1>9, <1>10, <1>11
        DEF Next, Step

\* An approval that was asked for is answered before execute, and a refusal
\* leaves the graph.
LEMMA ConsentStep == TypeOK /\ ConsentInv /\ [Next]_vars => ConsentInv'
<1> SUFFICES ASSUME TypeOK, ConsentInv, [Next]_vars PROVE ConsentInv'
  OBVIOUS
<1> USE DEF ConsentInv, ExecuteOnlyWithConsent, decided
<1>1. CASE Supervisor
  BY <1>1 DEF Supervisor, RouteAfterSupervisor
<1>2. CASE Planner
  BY <1>2 DEF Planner
<1>3. CASE Research
  BY <1>3 DEF Research, RouteAfterResearch
<1>4. CASE Decide
  BY <1>4 DEF Decide, RouteAfterDecide, TypeOK, ApprovalState
<1>5. CASE ApprovalGate
  BY <1>5 DEF ApprovalGate
<1>6. CASE Resume
  BY <1>6 DEF Resume, RouteAfterApproval
<1>7. CASE Execute
  BY <1>7 DEF Execute
<1>8. CASE Validate
  BY <1>8 DEF Validate
<1>9. CASE Retry
  BY <1>9 DEF Retry
<1>10. CASE Replan
  BY <1>10 DEF Replan
<1>11. CASE Conclude
  BY <1>11 DEF Conclude
<1>12. CASE Raise
  BY <1>12 DEF Raise
<1>13. CASE UNCHANGED vars
  BY <1>13 DEF vars
<1> QED BY <1>1, <1>2, <1>3, <1>4, <1>5, <1>6, <1>7, <1>8, <1>9, <1>10,
           <1>11, <1>12, <1>13 DEF Next, Step

\* Verdicts accumulate, so the first doubt is seen by every later decision,
\* and the decision made on it is to escalate.
LEMMA DoubtStep == TypeOK /\ DoubtInv /\ [Next]_vars => DoubtInv'
<1> SUFFICES ASSUME TypeOK, DoubtInv, [Next]_vars PROVE DoubtInv'
  OBVIOUS
<1>1. CASE Validate
  <2>1. /\ verdicts' \in SUBSET Verdict
        /\ last_retryable' \in BOOLEAN
        /\ retry_count \in Nat /\ replan_count \in Nat
    BY <1>1 DEF Validate, TypeOK
  <2> QED BY <1>1, <2>1, ValidateRoutes DEF Validate, DoubtInv
<1>2. CASE ~Validate
  <2>1. UNCHANGED verdicts
    BY <1>2 DEF Next, Step, vars, Supervisor, Planner, Research, Decide,
                ApprovalGate, Resume, Execute, Retry, Replan, Conclude, Raise
  <2>2. node \in {"escalate", "end", "raised"} =>
          node' \in {"escalate", "end", "raised"}
    BY <1>2 DEF Next, Step, vars, Supervisor, Planner, Research, Decide,
                ApprovalGate, Resume, Execute, Retry, Replan, Conclude, Raise
  <2> QED BY <2>1, <2>2 DEF DoubtInv
<1> QED BY <1>1, <1>2

\* Executions that are paid for are within the budget of all plans.
LEMMA PaidWithinBudget == IInv => ExecutionsBounded
<1> SUFFICES ASSUME IInv PROVE ExecutionsBounded
  OBVIOUS
<1>1. /\ executions \in Nat /\ retry_count \in Nat /\ replan_count \in Nat
      /\ retry_count <= MaxRetries /\ replan_count <= MaxReplans
  BY DEF IInv, TypeOK, BudgetInv
<1> DEFINE paidFor == replan_count * (MaxRetries + 1)
           allPlans == MaxReplans * (MaxRetries + 1)
<1>2. paidFor \in Nat /\ allPlans \in Nat /\ paidFor <= allPlans
  BY <1>1, PlansMonotone, BudgetAssumption
<1>3. (MaxReplans + 1) * (MaxRetries + 1) = allPlans + (MaxRetries + 1)
  BY PlanMore, BudgetAssumption
<1>4. executions <= paidFor + retry_count + 1
  <2>1. Paid = paidFor + retry_count
    BY DEF Paid
  <2> HIDE DEF paidFor
  <2> QED BY <1>1, <1>2, <2>1 DEF IInv, ExecutionInv
<1> HIDE DEF paidFor, allPlans
<1> QED BY <1>1, <1>2, <1>3, <1>4, BudgetAssumption DEF ExecutionsBounded

\* Only the execute node counts executions, and in doubt the run is past it.
LEMMA DoubtStopsExecution ==
  IInv /\ [Next]_vars => [executions' > executions => "needs_review" \notin verdicts]_vars
<1> SUFFICES ASSUME IInv, Next, executions' > executions
             PROVE  "needs_review" \notin verdicts
  OBVIOUS
<1>1. executions \in Nat
  BY DEF IInv, TypeOK
<1>2. node = "execute" \/ UNCHANGED executions
  BY DEF Next, Step, Supervisor, Planner, Research, Decide, ApprovalGate,
         Resume, Execute, Validate, Retry, Replan, Conclude, Raise
<1>3. node = "execute"
  BY <1>1, <1>2
<1> QED BY <1>3 DEF IInv, DoubtInv

-----------------------------------------------------------------------------
\* IInv is inductive: every reachable state of every instance satisfies it.
THEOREM Invariance == Spec => []IInv
<1>1. IInv /\ [Next]_vars => IInv'
  BY TypeStep, BudgetStep, ExecutionStep, ConsentStep, DoubtStep DEF IInv
<1> QED BY InitInv, <1>1, PTL DEF Spec

\* Type correctness of the workflow state.
THEOREM TypeCorrect == Spec => []TypeOK
<1>1. IInv => TypeOK
  BY DEF IInv
<1> QED BY Invariance, <1>1, PTL

\* A run enters the execute node at most (MaxReplans + 1) * (MaxRetries + 1)
\* times, for every BudgetPolicy and whatever the nodes return.
THEOREM ExecutionBound == Spec => []ExecutionsBounded
BY Invariance, PaidWithinBudget, PTL

\* No run executes under an approval that is open or refused.
THEOREM Consent == Spec => []ExecuteOnlyWithConsent
<1>1. IInv => ExecuteOnlyWithConsent
  BY DEF IInv, ConsentInv
<1> QED BY Invariance, <1>1, PTL

\* No step enters the execute node once a validation could not tell.
THEOREM NoRepeatInDoubt == Spec => DoubtNeverRepeats
BY Invariance, DoubtStopsExecution, PTL DEF Spec, DoubtNeverRepeats

=============================================================================
