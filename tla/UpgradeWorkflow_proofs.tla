----------------------- MODULE UpgradeWorkflow_proofs -----------------------
(***************************************************************************)
(* For every budget, any number of approval rows, with and without faults  *)
(* and stops, and for both ways in which a suspended node may come back:   *)
(* nothing is changed without consent, success means agreement, a retry    *)
(* finds nothing to do, and every step of the real nodes is a step of the  *)
(* graph's topology.                                                       *)
(***************************************************************************)
EXTENDS UpgradeWorkflow, TLAPS

\* TypeOK, field by field.
Fields ==
  /\ node \in Graph!NodeSet \cup Graph!Bookkeeping \cup Graph!Stopped
  /\ status \in Status
  /\ evidence \in BOOLEAN /\ evidence_sufficient \in BOOLEAN
  /\ target_known \in BOOLEAN /\ last_retryable \in BOOLEAN
  /\ workflow_type \in Graph!WorkflowType
  /\ approval_status \in Graph!ApprovalState
  /\ verdicts \subseteq Graph!Verdict
  /\ retry_count \in Nat /\ replan_count \in Nat /\ executions \in Nat
  /\ billing \in Tier /\ crm \in Tier /\ portal \in Tier
  /\ rows \in Seq(ApprovalRow)
  /\ gate \in {"idle", "paused", "resuming"}
  /\ gate # "idle" => gate_row \in DOMAIN rows
  /\ undelivered \subseteq DOMAIN rows
  /\ answer \in {0} \cup DOMAIN rows

Converged == billing = "target" /\ crm = "target" /\ portal = "target"

\* Where a plan is that has yet to be executed.
Planning == {"supervisor", "planner", "research", "decide", "approval_gate"}

\* Only the gate waits, and only approval_gate has one.
GateInv == gate # "idle" => node = "approval_gate"

\* Success is reported once, by notify, and nothing runs after it but complete.
AgreementInv ==
  /\ node \in {"notify", "complete"} => Converged
  /\ status = "completed" => Converged /\ node \in {"complete", "end", "raised"}

\* A transient error that is still the last one when a plan is over comes from a
\* run that converged, so that the eligibility rules stop the next plan: it
\* is not the last error of a plan at its first execution.
RetryInv ==
  /\ node \in Planning => retry_count = 0
  /\ node \in Planning \cup {"replan"} /\ last_retryable => billing = "target"
  /\ node = "approval_gate" => ~last_retryable
  /\ node = "execute" /\ retry_count = 0 => ~last_retryable
  /\ node = "validate" /\ retry_count = 0 /\ last_retryable =>
       \E r \in DOMAIN rows : Usable(r)
  /\ RetryOnlyWhenConverged

UpgradeInv == /\ Fields /\ GateInv /\ NothingWithoutConsent /\ AgreementInv
              /\ RetryInv

-----------------------------------------------------------------------------
\* What the edges of the graph return.
LEMMA Routes ==
  /\ \A type : Graph!RouteAfterSupervisor(type) \in {"planner", "escalate"}
  /\ \A some, sufficient :
       Graph!RouteAfterResearch(some, sufficient) \in {"decide", "escalate"}
  /\ \A st, approval :
       /\ Graph!RouteAfterDecide(st, approval) \in {"escalate", "approval_gate", "execute"}
       /\ st = "escalated" => Graph!RouteAfterDecide(st, approval) = "escalate"
  /\ \A approval : Graph!RouteAfterApproval(approval) \in {"execute", "escalate"}
BY DEF Graph!RouteAfterSupervisor, Graph!RouteAfterResearch, Graph!RouteAfterDecide,
       Graph!RouteAfterApproval

\* Only an error marked as retryable is retried, and only where every verdict of
\* every plan was a pass is the run over.
LEMMA ValidateRoutes ==
  ASSUME NEW found, NEW retries, NEW replans, NEW retryable \in BOOLEAN
  PROVE  LET next == Graph!RouteAfterValidate(found, retries, replans, retryable) IN
         /\ next \in {"notify", "retry", "replan", "escalate"}
         /\ next = "notify" => found = {"pass"}
         /\ next = "retry" => retryable
<1> DEFINE next == Graph!RouteAfterValidate(found, retries, replans, retryable)
<1>1. CASE found = {} \/ found = {"pass"} \/ "needs_review" \in found
  BY <1>1 DEF Graph!RouteAfterValidate
<1>2. CASE found # {} /\ found # {"pass"} /\ "needs_review" \notin found
  <2>1. next = Graph!NextRecoveryStep(retries, replans, retryable)
    BY <1>2 DEF Graph!RouteAfterValidate
  <2> QED BY <2>1 DEF Graph!NextRecoveryStep
<1> QED BY <1>1, <1>2

\* The checks of validate only pass where all three systems could be read and
\* are on the target plan.
LEMMA ChecksPass ==
  ASSUME NEW b \in BOOLEAN, NEW c \in BOOLEAN, NEW p \in BOOLEAN
  PROVE  /\ Checks(b, c, p) \subseteq Graph!Verdict
         /\ Checks(b, c, p) # {}
         /\ Checks(b, c, p) = {"pass"} => Converged
<1>1. \A tier, readable : Check(tier, readable) \in Graph!Verdict
  BY DEF Check, Graph!Verdict
<1>2. /\ Checks(b, c, p) \subseteq Graph!Verdict
      /\ Check(billing, b) \in Checks(b, c, p)
      /\ Check(crm, c) \in Checks(b, c, p)
      /\ Check(portal, p) \in Checks(b, c, p)
  BY <1>1 DEF Checks, Graph!Verdict
<1>3. \A tier, readable : Check(tier, readable) = "pass" => tier = "target"
  BY DEF Check
<1> QED BY <1>2, <1>3 DEF Converged

\* What a step of validate finds, and that a retryable error is still the last one
\* only where it found the systems converged.
LEMMA WhatValidateFinds ==
  ASSUME Validate, last_retryable \in BOOLEAN, verdicts \subseteq Graph!Verdict
  PROVE  /\ verdicts' \subseteq Graph!Verdict
         /\ \E found \in SUBSET Graph!Verdict : verdicts' = verdicts \cup found
         /\ last_retryable' \in BOOLEAN
         /\ last_retryable' => last_retryable /\ Converged
         /\ verdicts' = {"pass"} => Converged
<1>1. PICK reads \in [1..3 -> IF Faulty THEN BOOLEAN ELSE {TRUE}] :
        LET found == Checks(reads[1], reads[2], reads[3]) IN
        /\ verdicts' = verdicts \cup found
        /\ last_retryable' = (found = {"pass"} /\ last_retryable)
  BY DEF Validate
<1>2. \A i \in 1..3 : reads[i] \in BOOLEAN
  <2>1. CASE Faulty = TRUE
    BY <2>1, <1>1
  <2>2. CASE Faulty = FALSE
    BY <2>2, <1>1
  <2> QED BY <2>1, <2>2, UpgradeAssumption
<1> DEFINE found == Checks(reads[1], reads[2], reads[3])
<1>3. /\ found \subseteq Graph!Verdict
      /\ found # {}
      /\ found = {"pass"} => Converged
  BY <1>2, ChecksPass
<1>4. verdicts' = verdicts \cup found /\ last_retryable' = (found = {"pass"} /\ last_retryable)
  BY <1>1
<1> HIDE DEF found
<1>5. verdicts' = {"pass"} => found = {"pass"}
  BY <1>3, <1>4
<1> QED BY <1>3, <1>4, <1>5

\* A tool is only authorised where a row is approved and not spent.
LEMMA AuthorisedByRow ==
  /\ TRUE \in Authorisations => \E r \in DOMAIN rows : Usable(r)
  /\ TRUE \in Applied => \E r \in DOMAIN rows : Usable(r)
<1>1. TRUE \in Authorisations => \E r \in DOMAIN rows : Usable(r)
  BY Zenon DEF Authorisations
<1>2. TRUE \in Applied => TRUE \in Authorisations
  BY Zenon DEF Applied
<1> QED BY <1>1, <1>2

-----------------------------------------------------------------------------
\* The sets of TypeOK are about their members.
LEMMA FieldsAreTyped == Fields => TypeOK
<1> SUFFICES ASSUME Fields PROVE TypeOK
  OBVIOUS
<1>1. {evidence, evidence_sufficient, target_known, last_retryable} \subseteq BOOLEAN
  BY Zenon DEF Fields
<1>2. /\ {retry_count, replan_count, executions} \subseteq Nat
      /\ {billing, crm, portal} \subseteq Tier
  BY DEF Fields
<1> QED BY <1>1, <1>2 DEF Fields, TypeOK

\* The invariant holds of a run that has just been accepted.
LEMMA InitInv == Init => UpgradeInv
<1> SUFFICES ASSUME Init PROVE UpgradeInv
  OBVIOUS
<1>1. Fields
  <2>1. /\ node \in Graph!NodeSet /\ workflow_type \in Graph!WorkflowType
        /\ approval_status \in Graph!ApprovalState /\ status \in Status
    BY DEF Init, Graph!NodeSet, Graph!WorkflowType, Graph!ApprovalState, Status
  <2>2. /\ evidence \in BOOLEAN /\ evidence_sufficient \in BOOLEAN
        /\ target_known \in BOOLEAN /\ last_retryable \in BOOLEAN
    BY DEF Init
  <2>3. rows \in Seq(ApprovalRow) /\ undelivered \subseteq DOMAIN rows
    BY DEF Init
  <2> QED BY <2>1, <2>2, <2>3 DEF Init, Fields, Tier
<1>2. GateInv /\ NothingWithoutConsent /\ AgreementInv
  BY DEF Init, GateInv, NothingWithoutConsent, AgreementInv
<1>3. RetryInv
  BY DEF Init, RetryInv, Planning, RetryOnlyWhenConverged
<1> QED BY <1>1, <1>2, <1>3 DEF UpgradeInv

\* What each node leaves alone, and what it does to the rows: rows are only added
\* at the gate, decided once, and spent by execute.
LEMMA RowsStep ==
  ASSUME Fields, [Next]_vars
  PROVE  /\ rows' \in Seq(ApprovalRow)
         /\ DOMAIN rows \subseteq DOMAIN rows'
         /\ \A r \in DOMAIN rows : rows[r].status = "approved" => rows'[r].status = "approved"
         /\ node # "execute" =>
              \A r \in DOMAIN rows : rows[r].status = "approved" => rows'[r] = rows[r]
<1>t. /\ rows \in Seq(ApprovalRow)
      /\ \A r \in DOMAIN rows : rows[r] \in ApprovalRow
      /\ Len(rows) \in Nat /\ DOMAIN rows = 1..Len(rows)
  BY DEF Fields
<1>1. ASSUME UNCHANGED rows PROVE rows' = rows
  BY <1>1
<1>2. CASE rows' = Append(rows, Pending)
  <2>1. Pending \in ApprovalRow
    BY DEF Pending, ApprovalRow
  <2>2. /\ rows' \in Seq(ApprovalRow)
        /\ DOMAIN rows' = 1..(Len(rows) + 1)
        /\ \A r \in DOMAIN rows : rows'[r] = rows[r]
    BY <1>t, <1>2, <2>1
  <2> QED BY <1>t, <2>2
<1>3. ASSUME NEW r \in DOMAIN rows, NEW row \in ApprovalRow,
             rows' = [rows EXCEPT ![r] = row],
             rows[r].status = "approved" => row.status = "approved",
             node # "execute" => rows[r].status # "approved"
      PROVE  /\ rows' \in Seq(ApprovalRow)
             /\ DOMAIN rows \subseteq DOMAIN rows'
             /\ \A q \in DOMAIN rows : rows[q].status = "approved" => rows'[q].status = "approved"
             /\ node # "execute" =>
                  \A q \in DOMAIN rows : rows[q].status = "approved" => rows'[q] = rows[q]
  <2>1. rows' \in Seq(ApprovalRow) /\ DOMAIN rows' = DOMAIN rows
    BY <1>t, <1>3
  <2>2. \A q \in DOMAIN rows : rows'[q] = IF q = r THEN row ELSE rows[q]
    BY <1>3
  <2> QED BY <1>3, <2>1, <2>2
<1>4. ASSUME NEW r \in DOMAIN rows, RecordDecision(r)
      PROVE  \E row \in ApprovalRow : /\ rows' = [rows EXCEPT ![r] = row]
                                      /\ rows[r].status # "approved"
  <2>1. PICK decision \in {"approved", "rejected"} :
          rows' = [rows EXCEPT ![r].status = decision]
    BY <1>4 DEF RecordDecision
  <2>2. [rows[r] EXCEPT !.status = decision] \in ApprovalRow
    BY <1>t DEF ApprovalRow
  <2> QED BY <1>4, <2>1, <2>2 DEF RecordDecision
<1>5. ASSUME Execute
      PROVE  \/ UNCHANGED rows
             \/ \E r \in DOMAIN rows, row \in ApprovalRow :
                  /\ rows' = [rows EXCEPT ![r] = row]
                  /\ rows[r].status = row.status
  <2>1. \/ UNCHANGED rows
        \/ \E r \in DOMAIN rows : rows' = [rows EXCEPT ![r].consumed = TRUE]
    BY <1>5 DEF Execute, ApplyUpgrade, NothingToExecute, Provision
  <2>2. \A r \in DOMAIN rows : /\ [rows[r] EXCEPT !.consumed = TRUE] \in ApprovalRow
                               /\ [rows[r] EXCEPT !.consumed = TRUE].status = rows[r].status
    BY <1>t DEF ApprovalRow
  <2> QED BY <2>1, <2>2
<1>6. \/ UNCHANGED rows
      \/ rows' = Append(rows, Pending)
      \/ \E r \in DOMAIN rows : RecordDecision(r)
      \/ Execute
  BY DEF Next, vars, Drive, Supervisor, Planner, Research, Decide, ApprovalGate,
         ReadDecision, Validate, SpendBudget, Conclude, ResumeGate, ResumeEnded,
         LoseResume, StopResuming, Raise
<1>7. Execute => node = "execute"
  BY DEF Execute
<1> QED BY <1>t, <1>1, <1>2, <1>3, <1>4, <1>5, <1>6, <1>7

\* Every step keeps the types.
LEMMA TypeStep == Fields /\ [Next]_vars => Fields'
<1> SUFFICES ASSUME Fields, [Next]_vars PROVE Fields'
  OBVIOUS
<1>t. /\ rows' \in Seq(ApprovalRow)
      /\ DOMAIN rows \subseteq DOMAIN rows'
  BY RowsStep
<1> USE DEF Fields, routed, budgets, systems, waiting, outcome, progress
<1>1. CASE Supervisor
  BY <1>t, <1>1, Routes DEF Supervisor, Graph!NodeSet, Status
<1>2. CASE Planner
  BY <1>t, <1>2 DEF Planner, Graph!NodeSet, Status
<1>3. CASE Research
  BY <1>t, <1>3, Routes DEF Research, Graph!NodeSet, Status
<1>4. CASE Decide
  BY <1>t, <1>4, Routes
     DEF Decide, Unassessable, Blocked, Eligible, Graph!NodeSet, Status, Final,
         Graph!ApprovalState
<1>5. CASE ApprovalGate
  <2>1. gate_row' \in DOMAIN rows'
    BY <1>t, <1>5 DEF ApprovalGate
  <2> QED BY <1>t, <1>5, <2>1 DEF ApprovalGate
<1>6. ASSUME NEW r \in DOMAIN rows, RecordDecision(r) PROVE Fields'
  BY <1>t, <1>6 DEF RecordDecision
<1>7. ASSUME NEW r \in DOMAIN rows, ResumeGate(r) PROVE Fields'
  <2>1. gate_row' \in DOMAIN rows'
    BY <1>t, <1>7 DEF ResumeGate
  <2> QED BY <1>t, <1>7, <2>1 DEF ResumeGate
<1>8. CASE ReadDecision
  BY <1>t, <1>8, Routes
     DEF ReadDecision, Graph!NodeSet, Status, Final, Graph!ApprovalState
<1>9. ASSUME NEW r \in DOMAIN rows, ResumeEnded(r) \/ LoseResume(r) PROVE Fields'
  BY <1>t, <1>9 DEF ResumeEnded, LoseResume
<1>10. CASE StopResuming
  BY <1>t, <1>10 DEF StopResuming
<1>11. CASE Execute
  <2>1. /\ last_retryable' \in BOOLEAN /\ status' \in Status
        /\ billing' \in Tier /\ crm' \in Tier
    BY <1>11 DEF Execute, ApplyUpgrade, NothingToExecute, Status, Final, Tier
  <2>2. portal' \in Tier
    BY <1>11 DEF Execute, ApplyUpgrade, NothingToExecute, Provision, Tier
  <2> QED BY <1>t, <1>11, <2>1, <2>2 DEF Execute, Graph!NodeSet
<1>12. CASE Validate
  <2>1. verdicts' \subseteq Graph!Verdict /\ last_retryable' \in BOOLEAN
    BY <1>12, WhatValidateFinds
  <2>2. node' \in {"notify", "retry", "replan", "escalate"}
    BY <1>12, <2>1, ValidateRoutes DEF Validate
  <2> QED BY <1>t, <1>12, <2>1, <2>2 DEF Validate, Graph!NodeSet, Graph!Bookkeeping
<1>13. CASE SpendBudget
  BY <1>t, <1>13 DEF SpendBudget, Graph!NodeSet
<1>14. CASE Conclude
  BY <1>t, <1>14 DEF Conclude, Graph!NodeSet, Graph!Stopped, Status, Final
<1>15. CASE Raise
  <2>1. portal' \in {portal, "target"} /\ executions' \in {executions, executions + 1}
    BY <1>15, Zenon DEF Raise
  <2>2. node' \in Graph!Stopped
    BY <1>15 DEF Raise, Graph!Stopped
  <2>3. UNCHANGED <<status, approval_status, routed, verdicts, last_retryable, budgets,
                    billing, crm, rows, waiting>>
    BY <1>15 DEF Raise
  <2> QED BY <1>t, <2>1, <2>2, <2>3 DEF Tier
<1>16. CASE UNCHANGED vars
  BY <1>t, <1>16 DEF vars
<1> QED BY <1>1, <1>2, <1>3, <1>4, <1>5, <1>6, <1>7, <1>8, <1>9, <1>10, <1>11,
           <1>12, <1>13, <1>14, <1>15, <1>16 DEF Next, Drive

\* The gate opens where it waits, and the run goes on from there.
LEMMA GateStep == Fields /\ GateInv /\ [Next]_vars => GateInv'
<1> SUFFICES ASSUME Fields, GateInv, [Next]_vars PROVE GateInv'
  OBVIOUS
<1>1. CASE gate' = "idle"
  BY <1>1 DEF GateInv
<1>2. CASE gate' # "idle"
  BY <1>2
     DEF GateInv, Next, vars, Drive, Supervisor, Planner, Research, Decide, ApprovalGate,
         ReadDecision, Execute, Validate, SpendBudget, Conclude, RecordDecision,
         ResumeGate, ResumeEnded, LoseResume, StopResuming, Raise,
         routed, budgets, systems, waiting, outcome, progress, Graph!Stopped
<1> QED BY <1>1, <1>2

\* Systems of record are only written where a row authorises it, and approved
\* rows stay approved.
LEMMA ConsentStep == Fields /\ NothingWithoutConsent /\ [Next]_vars => NothingWithoutConsent'
<1> SUFFICES ASSUME Fields, NothingWithoutConsent, [Next]_vars,
                    billing' # "old" \/ crm' # "old" \/ portal' # "old"
             PROVE  \E r \in DOMAIN rows' : rows'[r].status = "approved"
  BY DEF NothingWithoutConsent
<1>1. \/ billing # "old" \/ crm # "old" \/ portal # "old"
      \/ \E r \in DOMAIN rows : Usable(r)
  <2>1. CASE Execute
    <3>1. CASE UNCHANGED systems
      BY <3>1 DEF systems
    <3>2. ASSUME NEW billed \in Applied, NEW synced \in Applied, NEW error,
                 billing' = IF billed THEN "target" ELSE billing,
                 crm' = IF synced THEN "target" ELSE crm,
                 Provision(error)
          PROVE  \/ billing # "old" \/ crm # "old" \/ portal # "old"
                 \/ \E r \in DOMAIN rows : Usable(r)
      <4>1. CASE billed = TRUE \/ synced = TRUE
        BY <4>1, AuthorisedByRow
      <4>2. CASE UNCHANGED portal
        BY <3>2, <4>1, <4>2 DEF Applied, Authorisations
      <4>3. CASE ~UNCHANGED portal
        BY <3>2, <4>3, AuthorisedByRow DEF Provision
      <4> QED BY <4>2, <4>3
    <3> QED BY <2>1, <3>1, <3>2 DEF Execute, ApplyUpgrade, NothingToExecute
  <2>2. CASE Raise
    BY <2>2, AuthorisedByRow DEF Raise
  <2>3. CASE ~Execute /\ ~Raise
    <3>1. UNCHANGED systems
      BY <2>3
         DEF Next, vars, Drive, Supervisor, Planner, Research, Decide, ApprovalGate,
             ReadDecision, Validate, SpendBudget, Conclude, RecordDecision,
             ResumeGate, ResumeEnded, LoseResume, StopResuming
    <3> QED BY <3>1 DEF systems
  <2> QED BY <2>1, <2>2, <2>3
<1>2. \E r \in DOMAIN rows : rows[r].status = "approved"
  BY <1>1 DEF NothingWithoutConsent, Usable
<1> QED BY <1>2, RowsStep

\* Success is only said of systems that agree, and nothing is done after it.
LEMMA AgreementStep == Fields /\ AgreementInv /\ [Next]_vars => AgreementInv'
<1> SUFFICES ASSUME Fields, AgreementInv, [Next]_vars PROVE AgreementInv'
  OBVIOUS
<1> USE DEF AgreementInv, Converged, routed, budgets, systems, waiting, outcome, progress
<1>1. CASE Supervisor
  BY <1>1, Routes DEF Supervisor
<1>2. CASE Planner
  BY <1>2 DEF Planner
<1>3. CASE Research
  BY <1>3, Routes DEF Research
<1>4. CASE Decide
  BY <1>4, Routes DEF Decide, Unassessable, Blocked, Eligible
<1>5. CASE ApprovalGate
  BY <1>5 DEF ApprovalGate
<1>6. ASSUME NEW r \in DOMAIN rows,
             RecordDecision(r) \/ ResumeGate(r) \/ ResumeEnded(r) \/ LoseResume(r)
      PROVE  AgreementInv'
  BY <1>6 DEF RecordDecision, ResumeGate, ResumeEnded, LoseResume
<1>7. CASE ReadDecision
  BY <1>7, Routes DEF ReadDecision
<1>8. CASE StopResuming
  BY <1>8 DEF StopResuming
<1>9. CASE Execute
  <2>1. status' # "completed" /\ node' = "validate"
    BY <1>9 DEF Execute, ApplyUpgrade, NothingToExecute
  <2> QED BY <2>1
<1>10. CASE Validate
  <2>1. /\ last_retryable' \in BOOLEAN
        /\ verdicts' = {"pass"} => Converged
    BY <1>10, WhatValidateFinds DEF Fields
  <2>2. /\ node' \in {"notify", "retry", "replan", "escalate"}
        /\ node' = "notify" => verdicts' = {"pass"}
    BY <1>10, <2>1, ValidateRoutes DEF Validate
  <2> QED BY <1>10, <2>1, <2>2 DEF Validate
<1>11. CASE SpendBudget
  BY <1>11 DEF SpendBudget
<1>12. CASE Conclude
  BY <1>12 DEF Conclude
<1>13. CASE Raise
  <2>1. node' = "raised" /\ UNCHANGED <<status, billing, crm>>
    BY <1>13 DEF Raise
  <2>2. status = "completed" => portal' = portal
    BY <1>13 DEF Raise
  <2> QED BY <2>1, <2>2
<1>14. CASE UNCHANGED vars
  BY <1>14 DEF vars
<1> QED BY <1>1, <1>2, <1>3, <1>4, <1>5, <1>6, <1>7, <1>8, <1>9, <1>10, <1>11,
           <1>12, <1>13, <1>14 DEF Next, Drive

\* What execute leaves behind as the last error: its own, or the one it found.
LEMMA WhatExecuteLeaves ==
  ASSUME Execute, last_retryable \in BOOLEAN, last_retryable'
  PROVE  \/ last_retryable
         \/ UNCHANGED rows /\ \E r \in DOMAIN rows : Usable(r)
<1>1. CASE NothingToExecute
  BY <1>1 DEF NothingToExecute
<1>2. CASE ApplyUpgrade
  <2>1. PICK billed \in Applied, synced \in Applied, error \in {"none", "final", "transient"} :
          /\ Provision(error)
          /\ last_retryable' = IF error = "none" /\ billed /\ synced
                                 THEN last_retryable ELSE error = "transient"
    BY <1>2 DEF ApplyUpgrade
  <2>2. CASE error = "none" /\ billed /\ synced
    BY <2>1, <2>2
  <2>3. CASE ~(error = "none" /\ billed /\ synced)
    <3>1. error = "transient"
      BY <2>1, <2>3
    <3>2. TRUE \in Authorisations /\ UNCHANGED rows
      BY <2>1, <3>1 DEF Provision
    <3> QED BY <3>2, AuthorisedByRow
  <2> QED BY <2>2, <2>3
<1> QED BY <1>1, <1>2 DEF Execute

\* A retry is asked for by an error whose call took effect, and on the first
\* retry of a plan by one of that plan.
LEMMA RetryStep == Fields /\ GateInv /\ RetryInv /\ [Next]_vars => RetryInv'
<1> SUFFICES ASSUME Fields, GateInv, RetryInv, [Next]_vars PROVE RetryInv'
  OBVIOUS
<1>t. last_retryable \in BOOLEAN /\ retry_count \in Nat /\ verdicts \subseteq Graph!Verdict
  BY DEF Fields
<1> USE DEF RetryInv, RetryOnlyWhenConverged, Planning, routed, budgets, systems, waiting,
            outcome, progress
<1>1. CASE Supervisor
  BY <1>1, Routes DEF Supervisor
<1>2. CASE Planner
  BY <1>2 DEF Planner
<1>3. CASE Research
  <2>1. node' \in {"decide", "escalate"} /\ node = "research" /\ UNCHANGED <<retry_count, billing>>
    BY <1>3, Routes DEF Research
  <2>2. last_retryable' => last_retryable
    BY <1>3 DEF Research
  <2> QED BY <2>1, <2>2
<1>4. CASE Decide
  <2>1. node' \in {"escalate", "approval_gate", "execute"}
    BY <1>4, Routes DEF Decide
  <2>2. node' # "escalate" => billing # "target" /\ UNCHANGED last_retryable
    BY <1>4, Routes DEF Decide, Unassessable, Blocked, Eligible
  <2> QED BY <1>4, <2>1, <2>2 DEF Decide
<1>5. CASE ApprovalGate
  BY <1>5 DEF ApprovalGate
<1>6. ASSUME NEW r \in DOMAIN rows,
             RecordDecision(r) \/ ResumeGate(r) \/ ResumeEnded(r) \/ LoseResume(r)
      PROVE  RetryInv'
  <2>1. UNCHANGED <<node, last_retryable, retry_count, billing, crm, portal>>
    BY <1>6 DEF RecordDecision, ResumeGate, ResumeEnded, LoseResume
  <2>2. CASE node = "execute"
    BY <2>1, <2>2
  <2>3. CASE node # "execute"
    <3>1. ASSUME NEW q \in DOMAIN rows, Usable(q)
          PROVE  \E p \in DOMAIN rows' : rows'[p].status = "approved" /\ ~rows'[p].consumed
      BY <2>3, <3>1, RowsStep DEF Usable
    <3> QED BY <2>1, <3>1 DEF Usable
  <2> QED BY <2>2, <2>3
<1>7. CASE ReadDecision
  <2>1. node = "approval_gate"
    BY <1>7 DEF ReadDecision, GateInv
  <2> QED BY <1>7, <2>1, Routes DEF ReadDecision
<1>8. CASE StopResuming
  BY <1>8 DEF StopResuming, Usable
<1>9. CASE Execute
  <2>1. node = "execute" /\ node' = "validate" /\ UNCHANGED budgets
    BY <1>9 DEF Execute
  <2>2. retry_count = 0 /\ last_retryable' => UNCHANGED rows /\ \E r \in DOMAIN rows : Usable(r)
    BY <1>t, <1>9, <2>1, WhatExecuteLeaves
  <2> QED BY <2>1, <2>2 DEF Usable
<1>10. CASE Validate
  <2>1. /\ last_retryable' \in BOOLEAN
        /\ last_retryable' => last_retryable /\ Converged
    BY <1>t, <1>10, WhatValidateFinds
  <2>2. /\ node' \in {"notify", "retry", "replan", "escalate"}
        /\ node' = "retry" => last_retryable'
    BY <1>10, <2>1, ValidateRoutes DEF Validate
  <2>3. node = "validate" /\ UNCHANGED <<retry_count, billing, crm, portal, rows>>
    BY <1>10 DEF Validate
  <2> QED BY <2>1, <2>2, <2>3 DEF Converged, Usable
<1>11. CASE SpendBudget
  BY <1>t, <1>11 DEF SpendBudget
<1>12. CASE Conclude
  BY <1>12 DEF Conclude
<1>13. CASE Raise
  <2>1. node' = "raised"
    BY <1>13 DEF Raise
  <2> QED BY <2>1
<1>14. CASE UNCHANGED vars
  BY <1>14 DEF vars, Usable
<1> QED BY <1>1, <1>2, <1>3, <1>4, <1>5, <1>6, <1>7, <1>8, <1>9, <1>10, <1>11,
           <1>12, <1>13, <1>14 DEF Next, Drive

-----------------------------------------------------------------------------
\* The invariant, of which the next four are consequences.
THEOREM Invariance == Spec => []UpgradeInv
<1>1. UpgradeInv /\ [Next]_vars => UpgradeInv'
  BY TypeStep, GateStep, ConsentStep, AgreementStep, RetryStep DEF UpgradeInv
<1> QED BY InitInv, <1>1, PTL DEF Spec

\* Type correctness of the workflow state, the systems, the rows and the gate.
THEOREM TypeCorrect == Spec => []TypeOK
<1>1. UpgradeInv => TypeOK
  BY FieldsAreTyped DEF UpgradeInv
<1> QED BY <1>1, Invariance, PTL

\* Whatever led to execute, no system of record changes before a human approved a
\* request of the run.
THEOREM Consent == Spec => []NothingWithoutConsent
<1>1. UpgradeInv => NothingWithoutConsent
  BY DEF UpgradeInv
<1> QED BY <1>1, Invariance, PTL

\* A run that reports success left all three systems on the target plan.
THEOREM Agreement == Spec => []CompletedMeansAgreement
<1>1. UpgradeInv => CompletedMeansAgreement
  BY DEF UpgradeInv, AgreementInv, Converged, CompletedMeansAgreement
<1> QED BY <1>1, Invariance, PTL

\* A retry finds nothing left to do; the first one of a plan can still be
\* authorised.
THEOREM RetryFindsNothingToDo == Spec => []RetryOnlyWhenConverged
<1>1. UpgradeInv => RetryOnlyWhenConverged
  BY DEF UpgradeInv, RetryInv
<1> QED BY <1>1, Invariance, PTL

-----------------------------------------------------------------------------
(* Refinement.                                                             *)

\* The types in which the graph sees the run: nothing but whether it has ended is
\* left of the status.
LEMMA MappedStatus ==
  \A st : LET seen == IF st \in Final THEN st ELSE "in_progress" IN
          /\ seen \in Graph!Status
          /\ \A approval :
               Graph!RouteAfterDecide(seen, approval) = Graph!RouteAfterDecide(st, approval)
BY DEF Final, Graph!Status, Graph!RouteAfterDecide

\* A run that has just been accepted is an initial state of the graph.
LEMMA RefinedInit == Init => Graph!Init
BY DEF Init, Graph!Init, Final

\* Every step of the real nodes, of deciders and of stops is a step of the graph
\* or leaves all that the graph sees unchanged.
LEMMA RefinedStep == UpgradeInv /\ [Next]_vars => [Graph!Next]_(Graph!vars)
<1> SUFFICES ASSUME UpgradeInv, [Next]_vars PROVE [Graph!Next]_(Graph!vars)
  OBVIOUS
<1> USE DEF routed, budgets, systems, waiting, outcome, progress, Graph!decided, Graph!budgets
<1>t. Fields /\ GateInv
  BY DEF UpgradeInv
<1>1. CASE Supervisor
  <2>1. Graph!Supervisor
    BY <1>1, MappedStatus DEF Supervisor, Graph!Supervisor
  <2> QED BY <2>1 DEF Graph!Next, Graph!Step
<1>2. CASE Planner
  <2>1. Graph!Planner
    BY <1>2, MappedStatus DEF Planner, Graph!Planner
  <2> QED BY <2>1 DEF Graph!Next, Graph!Step
<1>3. CASE Research
  <2>1. Graph!Research
    BY <1>t, <1>3, MappedStatus DEF Research, Graph!Research, Fields
  <2> QED BY <2>1 DEF Graph!Next, Graph!Step
<1>4. CASE Decide
  <2>1. /\ last_retryable' \in BOOLEAN
        /\ approval_status' \in {approval_status, "not_required", "required"}
    BY <1>t, <1>4 DEF Decide, Unassessable, Blocked, Eligible, Fields
  <2>2. Graph!Decide
    BY <1>4, <2>1, MappedStatus DEF Decide, Graph!Decide
  <2> QED BY <2>2 DEF Graph!Next, Graph!Step
<1>5. CASE ApprovalGate
  <2>1. Graph!ApprovalGate
    BY <1>5 DEF ApprovalGate, Graph!ApprovalGate
  <2> QED BY <2>1 DEF Graph!Next, Graph!Step
<1>6. ASSUME NEW r \in DOMAIN rows,
             RecordDecision(r) \/ ResumeGate(r) \/ ResumeEnded(r) \/ LoseResume(r)
      PROVE  UNCHANGED Graph!vars
  BY <1>6 DEF RecordDecision, ResumeGate, ResumeEnded, LoseResume, Graph!vars
<1>7. CASE ReadDecision
  <2>1. node = "approval_gate"
    BY <1>t, <1>7 DEF ReadDecision, GateInv
  <2>2. Graph!Resume
    BY <1>7, <2>1, MappedStatus DEF ReadDecision, Graph!Resume
  <2> QED BY <2>2 DEF Graph!Next
<1>8. CASE StopResuming
  BY <1>8 DEF StopResuming, Graph!vars
<1>9. CASE Execute
  <2>1. last_retryable' \in BOOLEAN
    BY <1>t, <1>9 DEF Execute, ApplyUpgrade, NothingToExecute, Fields
  <2>2. Graph!Execute
    BY <1>9, <2>1, MappedStatus DEF Execute, Graph!Execute
  <2> QED BY <2>2 DEF Graph!Next, Graph!Step
<1>10. CASE Validate
  <2>1. /\ last_retryable' \in BOOLEAN
        /\ \E found \in SUBSET Graph!Verdict : verdicts' = verdicts \cup found
    BY <1>t, <1>10, WhatValidateFinds DEF Fields
  <2>2. Graph!Validate
    BY <1>10, <2>1, MappedStatus DEF Validate, Graph!Validate
  <2> QED BY <2>2 DEF Graph!Next, Graph!Step
<1>11. CASE SpendBudget
  <2>1. Graph!Retry \/ Graph!Replan
    BY <1>11 DEF SpendBudget, Graph!Retry, Graph!Replan
  <2> QED BY <2>1 DEF Graph!Next, Graph!Step
<1>12. CASE Conclude
  <2>1. Graph!Conclude
    BY <1>12, MappedStatus DEF Conclude, Graph!Conclude
  <2> QED BY <2>1 DEF Graph!Next, Graph!Step
<1>13. CASE Raise
  <2>1. Graph!Raise
    BY <1>13 DEF Raise, Graph!Raise
  <2> QED BY <2>1 DEF Graph!Next
<1>14. CASE UNCHANGED vars
  BY <1>14 DEF vars, Graph!vars
<1> QED BY <1>1, <1>2, <1>3, <1>4, <1>5, <1>6, <1>7, <1>8, <1>9, <1>10, <1>11,
           <1>12, <1>13, <1>14 DEF Next, Drive

\* Every run of the real nodes is a run of the graph's topology; that it also comes
\* to rest like one is the part of RefinesGraph that stays with TLC.
THEOREM Refinement == Spec => Graph!Init /\ [][Graph!Next]_(Graph!vars)
BY RefinedInit, RefinedStep, Invariance, PTL DEF Spec

-----------------------------------------------------------------------------
(* What the graph promises of any nodes, for the real ones.                *)

GraphProofs == INSTANCE WorkflowGraph_proofs WITH
  paused <- gate # "idle",
  status <- IF status \in Final THEN status ELSE "in_progress"

\* The two instances are of one specification.
LEMMA SameGraph ==
  /\ Graph!Init <=> GraphProofs!Init
  /\ [Graph!Next]_(Graph!vars) <=> [GraphProofs!Next]_(GraphProofs!vars)
<1>1. Graph!Init <=> GraphProofs!Init
  BY DEF Graph!Init, GraphProofs!Init
<1>2. [Graph!Next]_(Graph!vars) <=> [GraphProofs!Next]_(GraphProofs!vars)
  BY DEF Graph!vars, Graph!decided, Graph!budgets, Graph!Next, Graph!Step,
         Graph!Supervisor, Graph!Planner, Graph!Research, Graph!Decide,
         Graph!ApprovalGate, Graph!Resume, Graph!Execute, Graph!Validate, Graph!Retry,
         Graph!Replan, Graph!Conclude, Graph!Raise, Graph!RouteAfterSupervisor,
         Graph!RouteAfterResearch, Graph!RouteAfterDecide, Graph!RouteAfterApproval,
         Graph!RouteAfterValidate, Graph!NextRecoveryStep, Graph!NodeSet,
         Graph!WorkflowType, Graph!Status, Graph!Verdict,
         GraphProofs!vars, GraphProofs!decided, GraphProofs!budgets, GraphProofs!Next,
         GraphProofs!Step, GraphProofs!Supervisor, GraphProofs!Planner,
         GraphProofs!Research, GraphProofs!Decide, GraphProofs!ApprovalGate,
         GraphProofs!Resume, GraphProofs!Execute, GraphProofs!Validate,
         GraphProofs!Retry, GraphProofs!Replan, GraphProofs!Conclude, GraphProofs!Raise,
         GraphProofs!RouteAfterSupervisor, GraphProofs!RouteAfterResearch,
         GraphProofs!RouteAfterDecide, GraphProofs!RouteAfterApproval,
         GraphProofs!RouteAfterValidate, GraphProofs!NextRecoveryStep,
         GraphProofs!NodeSet, GraphProofs!WorkflowType, GraphProofs!Status,
         GraphProofs!Verdict
<1> QED BY <1>1, <1>2

\* The graph's inductive invariant is one of the real nodes.
THEOREM GraphInvariance == Spec => []GraphProofs!IInv
<1>1. GraphProofs!BudgetAssumption
  BY UpgradeAssumption DEF GraphProofs!BudgetAssumption
<1>2. GraphProofs!Init => GraphProofs!IInv
  BY <1>1, GraphProofs!InitInv, Zenon
<1>3. GraphProofs!IInv /\ [GraphProofs!Next]_(GraphProofs!vars) => GraphProofs!IInv'
  BY <1>1, GraphProofs!TypeStep, GraphProofs!BudgetStep, GraphProofs!ExecutionStep,
     GraphProofs!ConsentStep, GraphProofs!DoubtStep, Zenon DEF GraphProofs!IInv
<1> QED BY <1>2, <1>3, SameGraph, Refinement, PTL

\* A run executes at most (MaxReplans + 1) * (MaxRetries + 1) times, only with no
\* approval asked for or one that was granted, and never once more after a check
\* that could not tell.
THEOREM GraphPromises ==
  Spec => /\ []Graph!ExecutionsBounded
          /\ []Graph!ExecuteOnlyWithConsent
          /\ Graph!DoubtNeverRepeats
<1>1. GraphProofs!BudgetAssumption
  BY UpgradeAssumption DEF GraphProofs!BudgetAssumption
<1>2. GraphProofs!IInv => Graph!ExecutionsBounded
  BY <1>1, GraphProofs!PaidWithinBudget
     DEF Graph!ExecutionsBounded, GraphProofs!ExecutionsBounded
<1>3. GraphProofs!IInv => Graph!ExecuteOnlyWithConsent
  BY DEF GraphProofs!IInv, GraphProofs!ConsentInv, GraphProofs!ExecuteOnlyWithConsent,
         Graph!ExecuteOnlyWithConsent
<1>4. GraphProofs!IInv /\ [Graph!Next]_(Graph!vars) =>
        [executions' > executions => "needs_review" \notin verdicts]_(Graph!vars)
  BY <1>1, SameGraph, GraphProofs!DoubtStopsExecution DEF Graph!vars, GraphProofs!vars
<1> QED BY <1>2, <1>3, <1>4, GraphInvariance, Refinement, PTL DEF Graph!DoubtNeverRepeats

=============================================================================
