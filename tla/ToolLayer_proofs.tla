-------------------------- MODULE ToolLayer_proofs --------------------------
(***************************************************************************)
(* For any number of sessions, approvals and runs: what is changed was     *)
(* authorised, a spent approval authorises nothing, the trail tells what   *)
(* happened, and of two drivers of one run only one spends its approval.   *)
(***************************************************************************)
EXTENDS ToolLayer, TLAPS

Active == {"calling", "authorised", "flushing"}

\* A log of calls ends with a success, says that a tool succeeded, or that its
\* handler was called.
EndsWell(log) == log # <<>> /\ log[Len(log)].ok
SaysOk(log, tool) == \E i \in DOMAIN log : log[i].tool = tool /\ log[i].ok
SaysCalled(log, tool) == \E i \in DOMAIN log : log[i].tool = tool /\ log[i].called

\* The approval was granted for what this session was opened for.
Granted(s, r) ==
  /\ approvals[r].status = "approved"
  /\ approvals[r].execution = job[s].execution
  /\ approvals[r].subject = SubjectOf[job[s].kind]
  /\ job[s].role = "execution"
  /\ r \notin spent_before[s]

-----------------------------------------------------------------------------
\* From the verification of a call to its end, the session has the row that it
\* was authorised by, and no decision is taken back in between.
HeldInv ==
  /\ \A s \in Sessions : pc[s] # "idle" => job[s] \in Job
  /\ \A s \in Sessions : \A r \in spent_before[s] : approvals[r].consumed
  /\ \A s \in Sessions : pc[s] \in {"authorised", "flushing"} =>
       HasNext(s) /\ held[s] \in Rows /\ Granted(s, held[s])

\* Every change is of a session that was opened, under an approval granted to it.
EffectsInv ==
  \A c \in database \cup pending \cup portal : pc[c.by] # "idle" /\ Granted(c.by, c.row)

\* What is flushed is recorded in the same transaction; what the portal did is
\* recorded, or about to be.
LogInv ==
  /\ \A s \in Sessions : trail[s] # <<>> => pc[s] = "over"
  /\ \A c \in pending : pc[c.by] \in Active /\ SaysOk(calls[c.by], c.tool)
  /\ \A c \in database : pc[c.by] = "over" /\ SaysOk(trail[c.by], c.tool)
  /\ \A c \in portal :
       \/ pc[c.by] = "over"
          /\ (trail[c.by] # <<>> => SaysCalled(trail[c.by], c.tool))
       \/ pc[c.by] \in Active /\ SaysCalled(calls[c.by], c.tool)
       \/ pc[c.by] = "flushing" /\ c.tool = Tool(c.by)

\* An approval is spent by the success of the last call, and by nothing else.
SpendingInv ==
  /\ \A s \in Sessions : pc[s] = "idle" => calls[s] = <<>>
  /\ \A s \in Sessions : \A r \in spending[s] :
       pc[s] = "calling" /\ ~HasNext(s) /\ EndsWell(calls[s]) /\ held[s] = r
  /\ \A s \in Sessions : pc[s] = "calling" /\ ~HasNext(s) /\ EndsWell(calls[s]) =>
       held[s] \in spending[s]
  /\ \A s \in Sessions : Succeeded(s) => held[s] \in Rows /\ approvals[held[s]].consumed
  /\ SpentOnlyBySuccess

\* A session at its last call, or past its success.
AtLast(s) ==
  \/ pc[s] \in {"authorised", "flushing"} /\ Consumes(s)
  \/ pc[s] = "calling" /\ ~HasNext(s) /\ EndsWell(calls[s])

SyncedIn(changes, s) == \E c \in changes : c.by = s /\ c.tool = "update_crm"

\* The CRM change of a run is made behind a lock, so the session that comes
\* second verifies its last call when the first one has spent its approval.
OrderInv ==
  /\ \A s, t \in Sessions : SyncedIn(pending, s) /\ SyncedIn(pending, t) => s = t
  /\ \A s, t \in Sessions :
       /\ SyncedIn(pending, s) /\ SyncedIn(database, t)
       /\ job[s].kind = "workflow" /\ job[t].kind = "workflow"
       /\ AtLast(s) /\ Succeeded(t)
       => held[s] # held[t]
  /\ AppliedRunsSpendOnce

ToolInv == TypeOK /\ HeldInv /\ EffectsInv /\ LogInv /\ SpendingInv /\ OrderInv

-----------------------------------------------------------------------------
ToolName == {"update_subscription", "update_crm", "update_entitlement"}

\* The tools of a session are one or three, and only the last of them consumes
\* the approval.
LEMMA Programs ==
  ASSUME NEW s \in Sessions, job[s] \in Job, calls[s] \in Seq(Call)
  PROVE  /\ Tools(s) \in Seq(ToolName)
         /\ HasNext(s) => Tool(s) \in ToolName
         /\ HasNext(s) => (Consumes(s) <=> Len(calls[s]) + 1 = Len(Tools(s)))
         /\ job[s].kind = "workflow" /\ HasNext(s) /\ Consumes(s)
              => Tool(s) = "update_entitlement"
<1> DEFINE kind == job[s].kind
<1>1. kind \in {"workflow", "mcp_subscription", "mcp_crm"}
  BY DEF Job, Program
<1>2. Len(calls[s]) \in Nat
  OBVIOUS
<1>3. CASE kind = "workflow"
  <2>1. Tools(s) = Workflow
    BY <1>3 DEF Tools, Program
  <2>2. Workflow \in Seq(ToolName) /\ Len(Workflow) = 3
    BY DEF Workflow, ToolName
  <2>3. /\ Workflow[1] = "update_subscription" /\ Workflow[2] = "update_crm"
        /\ Workflow[3] = "update_entitlement"
    BY DEF Workflow
  <2>4. HasNext(s) => Len(calls[s]) + 1 \in {1, 2, 3}
    BY <1>2, <2>1, <2>2 DEF HasNext
  <2> QED BY <1>2, <1>3, <2>1, <2>2, <2>3, <2>4 DEF Tool, HasNext, Consumes, ToolName
<1>4. CASE kind = "mcp_subscription"
  <2>1. Tools(s) = <<"update_subscription">>
    BY <1>4 DEF Tools, Program
  <2> QED BY <1>2, <1>4, <2>1 DEF Tool, HasNext, Consumes, ToolName
<1>5. CASE kind = "mcp_crm"
  <2>1. Tools(s) = <<"update_crm">>
    BY <1>5 DEF Tools, Program
  <2> QED BY <1>2, <1>5, <2>1 DEF Tool, HasNext, Consumes, ToolName
<1> QED BY <1>1, <1>3, <1>4, <1>5

\* What recording a call adds to the log, and what it leaves in it.
LEMMA Recorded ==
  ASSUME NEW log \in Seq(Call), NEW call \in Call, NEW after, after = Append(log, call)
  PROVE  /\ after \in Seq(Call) /\ Len(after) = Len(log) + 1
         /\ EndsWell(after) <=> call.ok
         /\ \A tool : SaysOk(log, tool) => SaysOk(after, tool)
         /\ \A tool : SaysCalled(log, tool) => SaysCalled(after, tool)
         /\ call.ok => SaysOk(after, call.tool)
         /\ call.called => SaysCalled(after, call.tool)
<1>1. /\ after \in Seq(Call) /\ Len(after) = Len(log) + 1 /\ after # <<>>
      /\ Len(after) \in DOMAIN after /\ after[Len(after)] = call
  OBVIOUS
<1>2. \A i \in DOMAIN log : i \in DOMAIN after /\ after[i] = log[i]
  OBVIOUS
<1> QED BY <1>1, <1>2 DEF EndsWell, SaysOk, SaysCalled

\* A release writes its own change or nothing, and the last tool of a run nothing.
LEMMA Written ==
  ASSUME NEW s \in Sessions, Tool(s) \in ToolName, NEW written \in Writes(s)
  PROVE  /\ written \subseteq {[by |-> s, tool |-> Tool(s), row |-> held[s]]}
         /\ Tool(s) = "update_entitlement" => written = {}
BY DEF Writes, ToolName

\* No decision is taken back, no approval is handed to another run or made
\* usable again, and only a commit consumes one.
LEMMA ApprovalsKept ==
  ASSUME TypeOK, [Next]_vars
  PROVE  \A r \in Rows :
           /\ approvals'[r].execution = approvals[r].execution
           /\ approvals'[r].subject = approvals[r].subject
           /\ approvals[r].status = "approved" => approvals'[r].status = "approved"
           /\ approvals[r].consumed => approvals'[r].consumed
           /\ approvals'[r].consumed => \/ approvals[r].consumed
                                       \/ \E s \in Sessions : Commit(s) /\ r \in spending[s]
<1>1. CASE UNCHANGED approvals
  BY <1>1
<1>2. ASSUME NEW s \in Sessions, Commit(s), NEW r \in Rows
      PROVE /\ approvals'[r].execution = approvals[r].execution
            /\ approvals'[r].subject = approvals[r].subject
            /\ approvals'[r].status = approvals[r].status
            /\ approvals[r].consumed => approvals'[r].consumed
            /\ approvals'[r].consumed => approvals[r].consumed \/ r \in spending[s]
  <2>1. \/ approvals'[r] = approvals[r]
        \/ r \in spending[s] /\ approvals'[r] = [approvals[r] EXCEPT !.consumed = TRUE]
    BY <1>2 DEF Commit
  <2>2. approvals[r] \in Approval
    BY DEF TypeOK
  <2> QED BY <2>1, <2>2 DEF Approval
<1>3. CASE \E s \in Sessions : Commit(s)
  BY <1>2, <1>3
<1>4. ASSUME NEW r \in Rows, Decided(r) \/ Aged(r)
      PROVE \A q \in Rows :
              /\ approvals'[q].execution = approvals[q].execution
              /\ approvals'[q].subject = approvals[q].subject
              /\ approvals'[q].consumed = approvals[q].consumed
              /\ approvals[q].status = "approved" => approvals'[q].status = "approved"
  <2>1. approvals \in [Rows -> Approval] /\ approvals[r] \in Approval
    BY DEF TypeOK
  <2>2. CASE Decided(r)
    <3>1. PICK decision \in {"approved", "rejected"} :
            approvals' = [approvals EXCEPT ![r].status = decision, ![r].current = TRUE]
      BY <2>2 DEF Decided
    <3>2. approvals[r].status = "pending"
      BY <2>2 DEF Decided
    <3> QED BY <2>1, <3>1, <3>2 DEF Approval
  <2>3. CASE Aged(r)
    BY <2>1, <2>3 DEF Aged, Approval
  <2> QED BY <1>4, <2>2, <2>3
<1>5. CASE \E r \in Rows : Decided(r) \/ Aged(r)
  BY <1>4, <1>5
<1>6. \/ UNCHANGED approvals \/ \E s \in Sessions : Commit(s)
      \/ \E r \in Rows : Decided(r) \/ Aged(r)
  BY DEF Next, vars, committed, Open, Refuse, Authorise, Handle, HandlerFails,
     FlushFails, Fail, Release, Abort
<1> QED BY <1>1, <1>3, <1>5, <1>6

\* A session is opened once, and stays what it was opened for.
LEMMA OpenedOnce ==
  ASSUME TypeOK, [Next]_vars
  PROVE  \A s \in Sessions : pc[s] # "idle" =>
           /\ job'[s] = job[s] /\ spent_before'[s] = spent_before[s]
           /\ pc'[s] # "idle"
<1> SUFFICES ASSUME NEW s \in Sessions, pc[s] # "idle"
             PROVE  job'[s] = job[s] /\ spent_before'[s] = spent_before[s] /\ pc'[s] # "idle"
  OBVIOUS
<1>1. CASE \E t \in Sessions : Open(t)
  BY <1>1 DEF Open, TypeOK
<1>2. CASE ~\E t \in Sessions : Open(t)
  BY <1>2 DEF Next, vars, opened, TypeOK, Refuse, Authorise, Handle, HandlerFails,
     FlushFails, Fail, Release, Commit, Abort, Closed, Decided, Aged
<1> QED BY <1>1, <1>2

\* What a session was granted it keeps.
LEMMA GrantedKept ==
  ASSUME TypeOK, [Next]_vars
  PROVE  \A s \in Sessions : \A r \in Rows :
           pc[s] # "idle" /\ Granted(s, r) => Granted(s, r)'
BY ApprovalsKept, OpenedOnce DEF Granted

\* The program of a session is read from its job alone.
LEMMA SameProgram ==
  ASSUME TypeOK, NEW s \in Sessions, job'[s] = job[s]
  PROVE  /\ Tools(s)' = Tools(s)
         /\ calls'[s] = calls[s] => /\ HasNext(s)' <=> HasNext(s)
                                    /\ Tool(s)' = Tool(s)
                                    /\ Consumes(s)' <=> Consumes(s)
BY DEF Tools, HasNext, Tool, Consumes

-----------------------------------------------------------------------------
\* A session that is at a call of its program.
AtCall(s) == /\ pc[s] \in Active
             /\ pc[s] = "calling" => HasNext(s)

\* A session that verifies, handles or flushes has a tool to call.
LEMMA AtWork ==
  ASSUME TypeOK, HeldInv, NEW s \in Sessions,
         AtCall(s)
  PROVE  /\ job[s] \in Job /\ HasNext(s) /\ Tool(s) \in ToolName
         /\ pc[s] # "calling" => held[s] \in Rows /\ Granted(s, held[s])
         /\ pc[s] # "calling" =>
              [by |-> s, tool |-> Tool(s), row |-> held[s]] \in Change
<1>1. job[s] \in Job /\ HasNext(s) /\ calls[s] \in Seq(Call)
  BY DEF HeldInv, TypeOK, AtCall, Active
<1>2. Tool(s) \in ToolName
  BY <1>1, Programs
<1>3. pc[s] # "calling" => held[s] \in Rows /\ Granted(s, held[s])
  BY DEF HeldInv, AtCall, Active
<1> QED BY <1>1, <1>2, <1>3 DEF Change, ToolName

\* A call that ended is recorded, in the log of its own session.
LEMMA Ended ==
  ASSUME TypeOK, HeldInv, NEW s \in Sessions, NEW ok \in BOOLEAN, NEW called \in BOOLEAN,
         AtCall(s),
         calls' = [calls EXCEPT ![s] = Append(@, [tool |-> Tool(s), ok |-> ok,
                                                  called |-> called])],
         job' = job
  PROVE  /\ calls' \in [Sessions -> Seq(Call)]
         /\ \A t \in Sessions \ {s} : calls'[t] = calls[t]
         /\ EndsWell(calls'[s]) <=> ok
         /\ HasNext(s)' <=> ~Consumes(s)
         /\ \A tool : SaysOk(calls[s], tool) => SaysOk(calls'[s], tool)
         /\ \A tool : SaysCalled(calls[s], tool) => SaysCalled(calls'[s], tool)
         /\ ok => SaysOk(calls'[s], Tool(s))
         /\ called => SaysCalled(calls'[s], Tool(s))
<1> DEFINE call == [tool |-> Tool(s), ok |-> ok, called |-> called]
<1>1. job[s] \in Job /\ HasNext(s) /\ Tool(s) \in ToolName /\ calls[s] \in Seq(Call)
  BY AtWork DEF TypeOK
<1>2. call \in Call
  BY <1>1 DEF Call, ToolName
<1>3. calls'[s] = Append(calls[s], call) /\ \A t \in Sessions \ {s} : calls'[t] = calls[t]
  BY DEF TypeOK
<1>4. calls'[s] \in Seq(Call) /\ Len(calls'[s]) = Len(calls[s]) + 1
  BY <1>1, <1>2, <1>3
<1>5. calls' \in [Sessions -> Seq(Call)]
  BY <1>1, <1>2 DEF TypeOK
<1>6. /\ EndsWell(calls'[s]) <=> call.ok
      /\ \A tool : SaysOk(calls[s], tool) => SaysOk(calls'[s], tool)
      /\ \A tool : SaysCalled(calls[s], tool) => SaysCalled(calls'[s], tool)
      /\ call.ok => SaysOk(calls'[s], call.tool)
      /\ call.called => SaysCalled(calls'[s], call.tool)
  <2> HIDE DEF call
  <2> QED BY <1>1, <1>2, <1>3, Recorded
<1>7. HasNext(s)' <=> ~Consumes(s)
  <2>1. /\ Consumes(s) <=> Len(calls[s]) + 1 = Len(Tools(s))
        /\ Len(Tools(s)) \in Nat /\ Len(calls[s]) \in Nat
        /\ Len(calls[s]) < Len(Tools(s))
    BY <1>1, Programs DEF HasNext
  <2>2. HasNext(s)' <=> Len(calls[s]) + 1 < Len(Tools(s))
    BY <1>4 DEF HasNext, Tools
  <2> QED BY <2>1, <2>2
<1> QED BY <1>3, <1>5, <1>6, <1>7

\* What one session does, and what it leaves of the others.
Acts(s) == \/ Open(s) \/ Refuse(s) \/ Authorise(s) \/ Handle(s) \/ HandlerFails(s)
           \/ FlushFails(s) \/ Release(s) \/ Commit(s) \/ Abort(s)

\* A step of one session changes no other.
LEMMA OthersUntouched ==
  ASSUME TypeOK, NEW s \in Sessions, Acts(s), NEW t \in Sessions \ {s}
  PROVE  /\ job'[t] = job[t] /\ pc'[t] = pc[t] /\ held'[t] = held[t]
         /\ spending'[t] = spending[t] /\ calls'[t] = calls[t] /\ trail'[t] = trail[t]
         /\ spent_before'[t] = spent_before[t]
<1>1. job'[t] = job[t] /\ spent_before'[t] = spent_before[t]
  BY DEF TypeOK, Acts, Open, Refuse, Authorise, Handle, HandlerFails, FlushFails, Fail,
     Release, Commit, Abort, Closed, opened
<1>2. pc'[t] = pc[t]
  BY DEF TypeOK, Acts, Open, Refuse, Authorise, Handle, HandlerFails, FlushFails, Fail,
     Release, Commit, Abort, Closed
<1>3. held'[t] = held[t]
  BY DEF TypeOK, Acts, Open, Refuse, Authorise, Handle, HandlerFails, FlushFails, Fail,
     Release, Commit, Abort, Closed
<1>4. spending'[t] = spending[t]
  BY DEF TypeOK, Acts, Open, Refuse, Authorise, Handle, HandlerFails, FlushFails, Fail,
     Release, Commit, Abort, Closed
<1>5. calls'[t] = calls[t]
  BY DEF TypeOK, Acts, Open, Refuse, Authorise, Handle, HandlerFails, FlushFails, Fail,
     Release, Commit, Abort, Closed
<1>6. trail'[t] = trail[t]
  BY DEF TypeOK, Acts, Open, Refuse, Authorise, Handle, HandlerFails, FlushFails, Fail,
     Release, Commit, Abort, Closed, committed
<1> QED BY <1>1, <1>2, <1>3, <1>4, <1>5, <1>6

\* A change appears for the call that a session is at, under the row it holds.
LEMMA NewChange ==
  ASSUME TypeOK, HeldInv, [Next]_vars,
         NEW c \in (database \cup pending \cup portal)',
         c \notin database \cup pending \cup portal
  PROVE  \E s \in Sessions : /\ pc[s] \in {"authorised", "flushing"}
                             /\ c = [by |-> s, tool |-> Tool(s), row |-> held[s]]
<1>1. ASSUME NEW s \in Sessions, Handle(s) \/ HandlerFails(s)
      PROVE /\ pc[s] = "authorised"
            /\ c = [by |-> s, tool |-> Tool(s), row |-> held[s]]
  BY <1>1 DEF Handle, HandlerFails, Fail, PortalDoes, committed
<1>2. ASSUME NEW s \in Sessions, Release(s)
      PROVE /\ pc[s] = "flushing"
            /\ c = [by |-> s, tool |-> Tool(s), row |-> held[s]]
  <2>1. PICK written \in Writes(s) : pending' = pending \cup written
    BY <1>2 DEF Release
  <2>2. c \in written
    BY <1>2, <2>1 DEF Release, committed
  <2>3. pc[s] = "flushing"
    BY <1>2 DEF Release
  <2>4. Tool(s) \in ToolName
    BY <2>3, AtWork DEF AtCall, Active
  <2> QED BY <2>2, <2>3, <2>4, Written
<1>3. \E s \in Sessions : Handle(s) \/ HandlerFails(s) \/ Release(s)
  BY DEF Next, vars, committed, Open, Refuse, Authorise, FlushFails, Fail, Commit, Abort,
     Closed, Decided, Aged
<1> QED BY <1>1, <1>2, <1>3

\* The rows that a session spends are rows it held.
LEMMA NewSpending ==
  ASSUME TypeOK, HeldInv, [Next]_vars
  PROVE  spending' \in [Sessions -> SUBSET Rows]
<1>1. ASSUME NEW s \in Sessions, Release(s) PROVE spending' \in [Sessions -> SUBSET Rows]
  <2>1. pc[s] = "flushing"
    BY <1>1 DEF Release
  <2>2. held[s] \in Rows
    BY <2>1, AtWork DEF AtCall, Active
  <2> QED BY <1>1, <2>2 DEF Release, TypeOK
<1>2. ASSUME NEW s \in Sessions, Commit(s) \/ Abort(s)
      PROVE spending' \in [Sessions -> SUBSET Rows]
  BY <1>2 DEF Commit, Abort, Closed, TypeOK
<1>3. CASE UNCHANGED spending
  BY <1>3 DEF TypeOK
<1>4. UNCHANGED spending \/ \E s \in Sessions : Release(s) \/ Commit(s) \/ Abort(s)
  BY DEF Next, vars, Open, Refuse, Authorise, Handle, HandlerFails, FlushFails, Fail,
     Decided, Aged
<1> QED BY <1>1, <1>2, <1>3, <1>4

\* Every variable keeps its type.
LEMMA TypeStep ==
  ASSUME TypeOK, HeldInv, [Next]_vars
  PROVE  TypeOK'
<1>1. spending' \in [Sessions -> SUBSET Rows]
  BY NewSpending
<1>2. database' \subseteq Change /\ pending' \subseteq Change /\ portal' \subseteq Change
  <2> SUFFICES ASSUME NEW c \in (database \cup pending \cup portal)'
               PROVE  c \in Change
    OBVIOUS
  <2>1. CASE c \in database \cup pending \cup portal
    BY <2>1 DEF TypeOK
  <2>2. CASE c \notin database \cup pending \cup portal
    <3>1. PICK s \in Sessions : /\ pc[s] \in {"authorised", "flushing"}
                                /\ c = [by |-> s, tool |-> Tool(s), row |-> held[s]]
      BY <2>2, NewChange
    <3> QED BY <3>1, AtWork DEF AtCall, Active
  <2> QED BY <2>1, <2>2
<1>3. approvals' \in [Rows -> Approval]
  <2>1. CASE UNCHANGED approvals
    BY <2>1 DEF TypeOK
  <2>2. ASSUME NEW s \in Sessions, Commit(s) PROVE approvals' \in [Rows -> Approval]
    <3>1. approvals' = [r \in Rows |-> IF r \in spending[s]
                                         THEN [approvals[r] EXCEPT !.consumed = TRUE]
                                         ELSE approvals[r]]
      BY <2>2 DEF Commit
    <3>2. \A r \in Rows : approvals[r] \in Approval
      BY DEF TypeOK
    <3>3. \A r \in Rows : [approvals[r] EXCEPT !.consumed = TRUE] \in Approval
      BY <3>2 DEF Approval
    <3> QED BY <3>1, <3>2, <3>3
  <2>3. ASSUME NEW r \in Rows, Decided(r) \/ Aged(r) PROVE approvals' \in [Rows -> Approval]
    <3>1. approvals[r] \in Approval
      BY DEF TypeOK
    <3>2. \A q \in Rows \ {r} : approvals'[q] = approvals[q]
      BY <2>3 DEF TypeOK, Decided, Aged
    <3>3. approvals'[r] \in Approval
      <4>1. CASE Decided(r)
        <5>1. PICK decision \in {"approved", "rejected"} :
                approvals' = [approvals EXCEPT ![r].status = decision, ![r].current = TRUE]
          BY <4>1 DEF Decided
        <5> QED BY <3>1, <5>1 DEF TypeOK, Approval
      <4>2. CASE Aged(r)
        BY <4>2, <3>1 DEF TypeOK, Aged, Approval
      <4> QED BY <2>3, <4>1, <4>2
    <3>4. approvals' = [q \in Rows |-> approvals'[q]]
      BY <2>3 DEF TypeOK, Decided, Aged
    <3> QED BY <3>2, <3>3, <3>4 DEF TypeOK
  <2>4. UNCHANGED approvals \/ (\E s \in Sessions : Commit(s))
        \/ \E r \in Rows : Decided(r) \/ Aged(r)
    BY DEF Next, vars, committed, Open, Refuse, Authorise, Handle, HandlerFails,
       FlushFails, Fail, Release, Abort
  <2> QED BY <2>1, <2>2, <2>3, <2>4
<1>4. calls' \in [Sessions -> Seq(Call)]
  <2>1. CASE UNCHANGED calls
    BY <2>1 DEF TypeOK
  <2>2. ASSUME NEW s \in Sessions, Refuse(s) \/ HandlerFails(s) \/ FlushFails(s) \/ Release(s)
        PROVE calls' \in [Sessions -> Seq(Call)]
    <3>1. AtCall(s)
      BY <2>2 DEF Refuse, HandlerFails, FlushFails, Release, AtCall, Active
    <3>2. job' = job
      BY <2>2 DEF Refuse, HandlerFails, FlushFails, Release, Fail, opened
    <3>3. \E ok, called \in BOOLEAN :
            calls' = [calls EXCEPT ![s] = Append(@, [tool |-> Tool(s), ok |-> ok,
                                                     called |-> called])]
      BY <2>2 DEF Refuse, HandlerFails, FlushFails, Release, Fail
    <3> QED BY <3>1, <3>2, <3>3, Ended
  <2>3. ASSUME NEW s \in Sessions, Commit(s) \/ Abort(s)
        PROVE calls' \in [Sessions -> Seq(Call)]
    <3>1. calls' = [calls EXCEPT ![s] = <<>>] /\ <<>> \in Seq(Call)
      BY <2>3 DEF Commit, Abort, Closed
    <3> QED BY <3>1 DEF TypeOK
  <2>4. UNCHANGED calls
        \/ \E s \in Sessions : \/ Refuse(s) \/ HandlerFails(s) \/ FlushFails(s) \/ Release(s)
                               \/ Commit(s) \/ Abort(s)
    BY DEF Next, vars, Open, Authorise, Handle, Decided, Aged
  <2> QED BY <2>1, <2>2, <2>3, <2>4
<1>5. trail' \in [Sessions -> Seq(Call)]
  BY DEF TypeOK, Next, vars, committed, Open, Refuse, Authorise, Handle, HandlerFails,
     FlushFails, Fail, Release, Commit, Abort, Closed, Decided, Aged
<1>6. /\ job' \in [Sessions -> Job \cup {None}]
      /\ spent_before' \in [Sessions -> SUBSET Rows]
  <2>1. CASE \E s \in Sessions : Open(s)
    BY <2>1 DEF TypeOK, Open
  <2>2. CASE ~\E s \in Sessions : Open(s)
    <3>1. UNCHANGED <<job, spent_before>>
      BY <2>2 DEF Next, vars, opened, Refuse, Authorise, Handle, HandlerFails, FlushFails,
         Fail, Release, Commit, Abort, Closed, Decided, Aged
    <3> QED BY <3>1 DEF TypeOK
  <2> QED BY <2>1, <2>2
<1>7. pc' \in [Sessions -> {"idle", "calling", "authorised", "flushing", "over"}]
  BY DEF TypeOK, Next, vars, Open, Refuse, Authorise, Handle, HandlerFails,
     FlushFails, Fail, Release, Commit, Abort, Closed, Decided, Aged
<1>8. held' \in [Sessions -> Rows \cup {None}]
  BY DEF TypeOK, Next, vars, Open, Refuse, Authorise, Handle, HandlerFails,
     FlushFails, Fail, Release, Commit, Abort, Closed, Decided, Aged
<1> QED BY <1>1, <1>2, <1>3, <1>4, <1>5, <1>6, <1>7, <1>8 DEF TypeOK

-----------------------------------------------------------------------------
\* A session has, from its verification on, a row that was granted to it.
LEMMA HeldStep == TypeOK /\ HeldInv /\ [Next]_vars => HeldInv'
<1> SUFFICES ASSUME TypeOK, HeldInv, [Next]_vars PROVE HeldInv'
  OBVIOUS
<1>1. ASSUME NEW s \in Sessions, pc'[s] # "idle" PROVE job'[s] \in Job
  <2>1. CASE pc[s] # "idle"
    BY <2>1, OpenedOnce DEF HeldInv
  <2>2. CASE pc[s] = "idle"
    <3>1. Open(s)
      BY <1>1, <2>2 DEF Next, vars, TypeOK, Open, Refuse, Authorise, Handle, HandlerFails,
         FlushFails, Fail, Release, Commit, Abort, Closed, Decided, Aged
    <3> QED BY <3>1 DEF Open, TypeOK
  <2> QED BY <2>1, <2>2
<1>2. ASSUME NEW s \in Sessions, NEW r \in spent_before'[s] PROVE approvals'[r].consumed
  <2>1. CASE \E t \in Sessions : Open(t)
    BY <2>1, <1>2 DEF Open, TypeOK, HeldInv, committed
  <2>2. CASE ~\E t \in Sessions : Open(t)
    <3>1. spent_before' = spent_before
      BY <2>2 DEF Next, vars, opened, Refuse, Authorise, Handle, HandlerFails, FlushFails,
         Fail, Release, Commit, Abort, Closed, Decided, Aged
    <3>2. r \in Rows /\ approvals[r].consumed
      BY <1>2, <3>1 DEF HeldInv, TypeOK
    <3> QED BY <3>2, ApprovalsKept
  <2> QED BY <2>1, <2>2
<1>3. ASSUME NEW s \in Sessions, pc'[s] \in {"authorised", "flushing"}
      PROVE  HasNext(s)' /\ held'[s] \in Rows /\ Granted(s, held[s])'
  <2>1. ASSUME Authorise(s) PROVE held'[s] \in Rows /\ HasNext(s)' /\ Granted(s, held[s])'
    <3>1. /\ pc[s] = "calling" /\ HasNext(s) /\ Permitted(s)
          /\ UNCHANGED <<approvals, job, calls, spent_before>>
      BY <2>1 DEF Authorise, committed, opened
    <3>2. PICK r \in Rows : Matches(s, r) /\ Usable(s, r) /\ held' = [held EXCEPT ![s] = r]
      BY <2>1 DEF Authorise
    <3>3. held'[s] = r
      BY <3>2 DEF TypeOK
    <3>4. HasNext(s)'
      BY <3>1 DEF HasNext, Tools
    <3>5. Granted(s, r)
      BY <3>1, <3>2 DEF Granted, Matches, Usable, Permitted, HeldInv
    <3> QED BY <3>1, <3>3, <3>4, <3>5 DEF Granted
  <2>2. ASSUME ~Authorise(s)
        PROVE  /\ pc[s] \in {"authorised", "flushing"}
               /\ held'[s] = held[s] /\ calls'[s] = calls[s]
    <3>1. CASE UNCHANGED <<pc, held, calls>>
      BY <1>3, <3>1
    <3>2. CASE Acts(s)
      BY <1>3, <2>2, <3>2 DEF TypeOK, Acts, Open, Refuse, Handle, HandlerFails, FlushFails,
         Fail, Release, Commit, Abort, Closed
    <3>3. CASE \E t \in Sessions \ {s} : Acts(t)
      BY <1>3, <3>3, OthersUntouched
    <3>4. UNCHANGED <<pc, held, calls>> \/ \E t \in Sessions : Acts(t)
      BY DEF Next, vars, Acts, Decided, Aged
    <3> QED BY <3>1, <3>2, <3>3, <3>4
  <2>3. ASSUME ~Authorise(s) PROVE HasNext(s)' /\ held'[s] \in Rows /\ Granted(s, held[s])'
    <3>1. HasNext(s) /\ held[s] \in Rows /\ Granted(s, held[s]) /\ job'[s] = job[s]
      BY <2>2, <2>3, OpenedOnce DEF HeldInv
    <3>2. HasNext(s)'
      BY <2>2, <2>3, <3>1, SameProgram
    <3>3. Granted(s, held[s])'
      BY <2>2, <2>3, <3>1, ApprovalsKept, OpenedOnce DEF Granted
    <3> QED BY <2>2, <2>3, <3>1, <3>2, <3>3
  <2> QED BY <2>1, <2>3
<1> QED BY <1>1, <1>2, <1>3 DEF HeldInv

\* Every change stays one that its session was granted.
LEMMA EffectsStep == TypeOK /\ HeldInv /\ EffectsInv /\ [Next]_vars => EffectsInv'
<1> SUFFICES ASSUME TypeOK, HeldInv, EffectsInv, [Next]_vars,
                    NEW c \in (database \cup pending \cup portal)'
             PROVE  pc'[c.by] # "idle" /\ Granted(c.by, c.row)'
  BY DEF EffectsInv
<1>1. c.by \in Sessions /\ c.row \in Rows /\ pc[c.by] # "idle" /\ Granted(c.by, c.row)
  <2>1. CASE c \in database \cup pending \cup portal
    BY <2>1 DEF TypeOK, Change, EffectsInv
  <2>2. CASE c \notin database \cup pending \cup portal
    <3>1. PICK s \in Sessions : /\ pc[s] \in {"authorised", "flushing"}
                                /\ c = [by |-> s, tool |-> Tool(s), row |-> held[s]]
      BY <2>2, NewChange
    <3>2. c.by = s /\ c.row = held[s] /\ held[s] \in Rows /\ Granted(s, held[s])
      BY <3>1 DEF HeldInv
    <3> QED BY <3>1, <3>2
  <2> QED BY <2>1, <2>2
<1> QED BY <1>1, OpenedOnce, GrantedKept

-----------------------------------------------------------------------------
\* A call that failed is in the log of its session, which goes on, and of the
\* changes in the database and of the rows to spend nothing was touched.
LEMMA FailedCall ==
  ASSUME TypeOK, HeldInv, NEW s \in Sessions, Refuse(s) \/ HandlerFails(s) \/ FlushFails(s)
  PROVE  /\ pc'[s] = "calling" /\ AtCall(s) /\ job' = job
         /\ UNCHANGED <<approvals, database, trail, pending, spending, held, spent_before>>
         /\ ~EndsWell(calls'[s])
         /\ \A tool : SaysOk(calls[s], tool) => SaysOk(calls'[s], tool)
         /\ \A tool : SaysCalled(calls[s], tool) => SaysCalled(calls'[s], tool)
         /\ pc[s] # "calling" => SaysCalled(calls'[s], Tool(s))
<1>1. /\ pc'[s] = "calling" /\ job' = job
      /\ UNCHANGED <<approvals, database, trail, pending, spending, held, spent_before>>
  BY DEF TypeOK, Refuse, HandlerFails, FlushFails, Fail, committed, opened
<1>2. AtCall(s)
  BY DEF Refuse, HandlerFails, FlushFails, AtCall, Active
<1>3. PICK called \in BOOLEAN :
        /\ calls' = [calls EXCEPT ![s] = Append(@, [tool |-> Tool(s), ok |-> FALSE,
                                                    called |-> called])]
        /\ pc[s] # "calling" => called
  BY DEF Refuse, HandlerFails, FlushFails, Fail
<1> QED BY <1>1, <1>2, <1>3, Ended

\* A call that succeeded is in the log with its change, and the last call of a
\* session with the row it spends.
LEMMA ReleasedCall ==
  ASSUME TypeOK, HeldInv, NEW s \in Sessions, Release(s)
  PROVE  /\ pc[s] = "flushing" /\ pc'[s] = "calling" /\ AtCall(s) /\ job' = job /\ ~Locked(s)
         /\ UNCHANGED <<approvals, database, trail, portal, held, spent_before>>
         /\ EndsWell(calls'[s])
         /\ HasNext(s)' <=> ~Consumes(s)
         /\ spending'[s] = IF Consumes(s) THEN spending[s] \cup {held[s]} ELSE spending[s]
         /\ \A c \in pending' : c \in pending \/ /\ c.by = s /\ c.tool = Tool(s)
                                                 /\ Tool(s) # "update_entitlement"
         /\ \A tool : SaysOk(calls[s], tool) => SaysOk(calls'[s], tool)
         /\ \A tool : SaysCalled(calls[s], tool) => SaysCalled(calls'[s], tool)
         /\ SaysOk(calls'[s], Tool(s)) /\ SaysCalled(calls'[s], Tool(s))
<1>1. /\ pc[s] = "flushing" /\ job' = job /\ ~Locked(s)
      /\ UNCHANGED <<approvals, database, trail, portal, held, spent_before>>
  BY DEF Release, committed, opened
<1>2. pc'[s] = "calling" /\ AtCall(s)
  BY <1>1 DEF TypeOK, Release, AtCall, Active
<1>3. calls' = [calls EXCEPT ![s] = Append(@, [tool |-> Tool(s), ok |-> TRUE,
                                               called |-> TRUE])]
  BY DEF Release
<1>4. spending'[s] = IF Consumes(s) THEN spending[s] \cup {held[s]} ELSE spending[s]
  BY DEF TypeOK, Release
<1>5. ASSUME NEW c \in pending', c \notin pending
      PROVE c.by = s /\ c.tool = Tool(s) /\ Tool(s) # "update_entitlement"
  <2>1. PICK written \in Writes(s) : pending' = pending \cup written
    BY DEF Release
  <2>2. Tool(s) \in ToolName
    BY <1>2, AtWork
  <2>3. c \in written /\ written # {}
    BY <1>5, <2>1
  <2> QED BY <2>2, <2>3, Written
<1> QED BY <1>1, <1>2, <1>3, <1>4, <1>5, Ended

\* A session that ends leaves nothing behind but its log, and only a commit
\* leaves that.
LEMMA Ending ==
  ASSUME TypeOK, NEW s \in Sessions, Commit(s) \/ Abort(s)
  PROVE  /\ pc[s] \in Active /\ pc'[s] = "over"
         /\ pending' = {c \in pending : c.by # s}
         /\ spending'[s] = {} /\ UNCHANGED <<job, spent_before, portal, held>>
<1>1. pc[s] \in Active
  BY DEF TypeOK, Active, Commit, Abort
<1> QED BY <1>1 DEF TypeOK, Commit, Abort, Closed, opened

\* The log of every session tells what it changed.
LEMMA LogStep == TypeOK /\ HeldInv /\ LogInv /\ [Next]_vars => LogInv'
<1> SUFFICES ASSUME TypeOK, HeldInv, LogInv, [Next]_vars PROVE LogInv'
  OBVIOUS
<1>a. \A c \in database \cup pending \cup portal : c.by \in Sessions
  BY DEF TypeOK, Change
<1>1. CASE UNCHANGED <<database, portal, trail, job, pc, pending, calls>>
  BY <1>1 DEF LogInv, SaysOk, SaysCalled, Tool, Tools
<1>2. ASSUME NEW s \in Sessions, Acts(s) PROVE LogInv'
  <2>1. ASSUME NEW t \in Sessions, trail'[t] # <<>> PROVE pc'[t] = "over"
    <3>1. CASE t # s
      BY <1>2, <2>1, <3>1, OthersUntouched DEF LogInv
    <3>2. CASE t = s
      <4>1. CASE Commit(s)
        BY <3>2, <4>1, Ending
      <4>2. CASE ~Commit(s)
        <5>1. trail' = trail
          BY <1>2, <4>2 DEF Acts, Open, Refuse, Authorise, Handle, HandlerFails,
             FlushFails, Fail, Release, Abort, committed
        <5>2. pc[s] = "over"
          BY <2>1, <3>2, <5>1 DEF LogInv
        <5> QED BY <1>2, <5>2 DEF Acts, Open, Refuse, Authorise, Handle, HandlerFails,
                   FlushFails, Release, Commit, Abort
      <4> QED BY <4>1, <4>2
    <3> QED BY <3>1, <3>2
  <2>2. ASSUME NEW c \in pending' PROVE pc'[c.by] \in Active /\ SaysOk(calls'[c.by], c.tool)
    <3>1. CASE Open(s)
      <4>1. c \in pending /\ c.by # s /\ c.by \in Sessions
        BY <1>a, <2>2, <3>1 DEF Open, LogInv, Active
      <4> QED BY <1>2, <4>1, OthersUntouched DEF LogInv
    <3>2. CASE Authorise(s) \/ Handle(s)
      <4>1. c \in pending /\ calls' = calls /\ c.by \in Sessions
        BY <1>a, <2>2, <3>2 DEF Authorise, Handle
      <4>2. pc'[s] \in Active
        BY <3>2 DEF Authorise, Handle, TypeOK, Active
      <4> QED BY <1>2, <4>1, <4>2, OthersUntouched DEF LogInv
    <3>3. CASE Refuse(s) \/ HandlerFails(s) \/ FlushFails(s)
      <4>1. c \in pending /\ c.by \in Sessions
        BY <1>a, <2>2, <3>3, FailedCall
      <4>2. CASE c.by = s
        BY <3>3, <4>1, <4>2, FailedCall DEF LogInv, Active
      <4>3. CASE c.by # s
        BY <1>2, <4>1, <4>3, OthersUntouched DEF LogInv
      <4> QED BY <4>2, <4>3
    <3>4. CASE Release(s)
      <4>1. CASE c \in pending /\ c.by # s
        BY <1>a, <1>2, <4>1, OthersUntouched DEF LogInv
      <4>2. CASE c.by = s
        <5>1. pc'[s] = "calling"
          BY <3>4, ReleasedCall
        <5>2. SaysOk(calls'[s], c.tool)
          BY <2>2, <3>4, <4>2, ReleasedCall DEF LogInv
        <5> QED BY <4>2, <5>1, <5>2 DEF Active
      <4> QED BY <2>2, <3>4, <4>1, <4>2, ReleasedCall
    <3>5. CASE Commit(s) \/ Abort(s)
      <4>1. c \in pending /\ c.by # s /\ c.by \in Sessions
        BY <1>a, <2>2, <3>5, Ending
      <4> QED BY <1>2, <4>1, OthersUntouched DEF LogInv
    <3> QED BY <1>2, <3>1, <3>2, <3>3, <3>4, <3>5 DEF Acts
  <2>3. ASSUME NEW c \in database' PROVE pc'[c.by] = "over" /\ SaysOk(trail'[c.by], c.tool)
    <3>1. CASE c \in database
      <4>1. pc[c.by] = "over" /\ c.by \in Sessions
        BY <1>a, <3>1 DEF LogInv
      <4>2. c.by # s
        BY <1>2, <4>1 DEF Acts, Open, Refuse, Authorise, Handle, HandlerFails,
           FlushFails, Release, Commit, Abort
      <4> QED BY <1>2, <3>1, <4>1, <4>2, OthersUntouched DEF LogInv
    <3>2. CASE c \notin database
      <4>1. Commit(s)
        BY <1>2, <2>3, <3>2 DEF Acts, Open, Refuse, Authorise, Handle, HandlerFails,
           FlushFails, Fail, Release, Abort, committed
      <4>2. c \in pending /\ c.by = s
        BY <2>3, <3>2, <4>1 DEF Commit
      <4>3. trail'[s] = calls[s]
        BY <4>1 DEF Commit, TypeOK
      <4> QED BY <4>1, <4>2, <4>3, Ending DEF LogInv
    <3> QED BY <3>1, <3>2
  <2>4. ASSUME NEW c \in portal'
        PROVE \/ pc'[c.by] = "over"
                 /\ (trail'[c.by] # <<>> => SaysCalled(trail'[c.by], c.tool))
              \/ pc'[c.by] \in Active /\ SaysCalled(calls'[c.by], c.tool)
              \/ pc'[c.by] = "flushing" /\ c.tool = Tool(c.by)'
    <3>0. \/ c \in portal
          \/ pc[s] = "authorised" /\ c.by = s /\ c.tool = Tool(s)
      <4>1. CASE Handle(s) \/ HandlerFails(s)
        <5>1. pc[s] = "authorised" /\ c \in portal \cup PortalDoes(s)
          BY <2>4, <4>1 DEF Handle, HandlerFails
        <5>2. c \in portal \/ c = [by |-> s, tool |-> Tool(s), row |-> held[s]]
          BY <5>1 DEF PortalDoes
        <5>3. ASSUME c = [by |-> s, tool |-> Tool(s), row |-> held[s]]
              PROVE  c.by = s /\ c.tool = Tool(s)
          BY <5>3
        <5> QED BY <5>1, <5>2, <5>3
      <4>2. CASE ~(Handle(s) \/ HandlerFails(s))
        <5>1. UNCHANGED portal
          BY <1>2, <4>2 DEF Acts, Open, Refuse, Authorise, FlushFails, Release, Commit,
             Abort, Closed
        <5> QED BY <2>4, <5>1
      <4> QED BY <4>1, <4>2
    <3>1. CASE c \in portal /\ c.by # s
      <4>1. c.by \in Sessions /\ Tool(c.by)' = Tool(c.by)
        BY <1>a, <1>2, <3>1, OthersUntouched DEF Tool, Tools
      <4> QED BY <1>2, <3>1, <4>1, OthersUntouched DEF LogInv
    <3>2. CASE Handle(s) /\ c.by = s
      <4>1. pc[s] = "authorised" /\ pc'[s] = "flushing" /\ calls' = calls /\ job' = job
        BY <3>2 DEF Handle, TypeOK, opened
      <4>2. CASE c \in portal
        BY <3>2, <4>1, <4>2 DEF LogInv, Active
      <4>3. CASE c \notin portal
        <5>1. c.tool = Tool(s)
          BY <3>0, <4>3
        <5> QED BY <3>2, <4>1, <5>1 DEF Tool, Tools
      <4> QED BY <4>2, <4>3
    <3>3. CASE (Refuse(s) \/ HandlerFails(s) \/ FlushFails(s)) /\ c.by = s
      <4>1. c \in portal \/ (pc[s] = "authorised" /\ c.tool = Tool(s))
        BY <3>0
      <4>2. pc[s] # "over"
        BY <3>3 DEF Refuse, HandlerFails, FlushFails
      <4> QED BY <3>3, <4>1, <4>2, FailedCall DEF LogInv, Active
    <3>4. CASE Release(s) /\ c.by = s
      <4>1. c \in portal /\ pc[s] = "flushing"
        BY <2>4, <3>4, ReleasedCall
      <4>2. SaysCalled(calls[s], c.tool) \/ c.tool = Tool(s)
        BY <3>4, <4>1 DEF LogInv
      <4>3. pc'[s] \in Active /\ SaysCalled(calls'[s], c.tool)
        BY <3>4, <4>2, ReleasedCall DEF Active
      <4> QED BY <3>4, <4>3
    <3>5. CASE Commit(s) /\ c.by = s
      <4>1. trail'[s] = calls[s] /\ pc[s] = "calling" /\ c \in portal
        BY <2>4, <3>5, Ending DEF Commit, TypeOK
      <4> QED BY <3>5, <4>1, Ending DEF LogInv
    <3>6. CASE Abort(s) /\ c.by = s
      <4>1. trail'[s] = trail[s] /\ trail[s] = <<>>
        BY <3>6, Ending DEF Abort, committed, LogInv, Active
      <4> QED BY <3>6, <4>1, Ending
    <3>7. CASE Authorise(s) /\ c.by = s
      <4>1. c \in portal /\ pc[s] = "calling" /\ pc'[s] = "authorised" /\ calls' = calls
        BY <2>4, <3>7 DEF Authorise, TypeOK
      <4> QED BY <3>7, <4>1 DEF LogInv, Active
    <3>8. Open(s) => c \in portal /\ c.by # s
      BY <2>4 DEF Open, LogInv, Active
    <3>9. c \in portal \/ c.by = s
      BY <3>0
    <3> QED BY <1>2, <3>1, <3>2, <3>3, <3>4, <3>5, <3>6, <3>7, <3>8, <3>9 DEF Acts
  <2> QED BY <2>1, <2>2, <2>3, <2>4 DEF LogInv
<1> QED BY <1>1, <1>2 DEF Next, vars, Acts, Decided, Aged, opened

-----------------------------------------------------------------------------
\* A session that is over does nothing, and only its commit writes its trail.
LEMMA OneEnd ==
  ASSUME TypeOK, NEW s \in Sessions, Acts(s)
  PROVE  /\ pc[s] # "over"
         /\ ~Commit(s) => UNCHANGED <<trail, database>>
         /\ Commit(s) => trail'[s] = calls[s]
<1>1. pc[s] # "over"
  BY DEF Acts, Open, Refuse, Authorise, Handle, HandlerFails, FlushFails, Release, Commit,
     Abort
<1>2. ~Commit(s) => UNCHANGED <<trail, database>>
  BY DEF Acts, Open, Refuse, Authorise, Handle, HandlerFails, FlushFails, Fail, Release,
     Abort, committed
<1>3. Commit(s) => trail'[s] = calls[s]
  BY DEF Commit, TypeOK
<1> QED BY <1>1, <1>2, <1>3

\* An approval is spent by the success of the last call it was held for.
LEMMA SpendingStep ==
  TypeOK /\ HeldInv /\ LogInv /\ SpendingInv /\ [Next]_vars => SpendingInv'
<1> SUFFICES ASSUME TypeOK, HeldInv, LogInv, SpendingInv, [Next]_vars PROVE SpendingInv'
  OBVIOUS
<1>1. CASE ~\E s \in Sessions : Acts(s)
  <2>1. UNCHANGED <<job, pc, held, calls, trail, spending>>
    BY <1>1 DEF Next, vars, Acts, Decided, Aged, opened
  <2>2. \A r \in Rows : approvals'[r].consumed <=> approvals[r].consumed
    BY <1>1, ApprovalsKept DEF Acts
  <2> QED BY <2>1, <2>2 DEF SpendingInv, SpentOnlyBySuccess, Succeeded, HasNext, Tools,
                            EndsWell, TypeOK
<1>2. ASSUME NEW s \in Sessions, Acts(s) PROVE SpendingInv'
  <2>1. \A t \in Sessions \ {s} : HasNext(t)' <=> HasNext(t)
    BY <1>2, OthersUntouched, SameProgram
  <2>2. \/ Open(s) \/ Authorise(s) \/ Handle(s) \/ Release(s)
        \/ (Refuse(s) \/ HandlerFails(s) \/ FlushFails(s)) \/ (Commit(s) \/ Abort(s))
    BY <1>2 DEF Acts
  <2>3. ASSUME NEW t \in Sessions, pc'[t] = "idle" PROVE calls'[t] = <<>>
    <3>1. t # s
      <4>1. CASE Open(s) \/ Authorise(s) \/ Handle(s)
        BY <2>3, <4>1 DEF Open, Authorise, Handle, TypeOK
      <4>2. CASE Release(s)
        BY <2>3, <4>2, ReleasedCall
      <4>3. CASE Refuse(s) \/ HandlerFails(s) \/ FlushFails(s)
        BY <2>3, <4>3, FailedCall
      <4>4. CASE Commit(s) \/ Abort(s)
        BY <2>3, <4>4, Ending
      <4> QED BY <2>2, <4>1, <4>2, <4>3, <4>4
    <3> QED BY <1>2, <2>3, <3>1, OthersUntouched DEF SpendingInv
  <2>4. ASSUME NEW t \in Sessions, NEW r \in spending'[t]
        PROVE  /\ pc'[t] = "calling" /\ ~HasNext(t)' /\ EndsWell(calls'[t])
               /\ held'[t] = r
    <3>1. CASE t # s
      BY <1>2, <2>1, <2>4, <3>1, OthersUntouched DEF SpendingInv
    <3>2. CASE t = s
      <4>1. Release(s)
        <5>1. CASE Open(s) \/ Authorise(s) \/ Handle(s)
          BY <2>4, <3>2, <5>1 DEF Open, Authorise, Handle, SpendingInv
        <5>2. CASE Refuse(s) \/ HandlerFails(s) \/ FlushFails(s)
          BY <2>4, <3>2, <5>2, FailedCall DEF SpendingInv, AtCall
        <5>3. CASE Commit(s) \/ Abort(s)
          BY <2>4, <3>2, <5>3, Ending
        <5> QED BY <2>2, <5>1, <5>2, <5>3
      <4>2. spending[s] = {} /\ Consumes(s) /\ r = held[s]
        <5>1. pc[s] = "flushing"
          BY <4>1, ReleasedCall
        <5>2. spending[s] = {}
          BY <5>1 DEF SpendingInv, TypeOK
        <5>3. r \in spending'[s]
          BY <2>4, <3>2
        <5>4. spending'[s] = IF Consumes(s) THEN spending[s] \cup {held[s]} ELSE spending[s]
          BY <4>1, ReleasedCall
        <5> QED BY <5>2, <5>3, <5>4
      <4> QED BY <3>2, <4>1, <4>2, ReleasedCall
    <3> QED BY <3>1, <3>2
  <2>5. ASSUME NEW t \in Sessions, pc'[t] = "calling", ~HasNext(t)', EndsWell(calls'[t])
        PROVE  held'[t] \in spending'[t]
    <3>1. CASE t # s
      BY <1>2, <2>1, <2>5, <3>1, OthersUntouched DEF SpendingInv
    <3>2. CASE t = s
      <4>1. ~Open(s)
        BY <2>5, <3>2 DEF Open, SpendingInv, EndsWell
      <4>2. ~(Authorise(s) \/ Handle(s)) /\ ~(Commit(s) \/ Abort(s))
        BY <2>5, <3>2, Ending DEF Authorise, Handle, TypeOK
      <4>3. ~(Refuse(s) \/ HandlerFails(s) \/ FlushFails(s))
        BY <2>5, <3>2, FailedCall
      <4>4. Release(s)
        BY <2>2, <4>1, <4>2, <4>3
      <4> QED BY <2>5, <3>2, <4>4, ReleasedCall
    <3> QED BY <3>1, <3>2
  <2>6. ASSUME Commit(s), EndsWell(calls[s])
        PROVE  /\ held[s] \in spending[s] /\ held[s] \in Rows /\ held'[s] = held[s]
               /\ approvals'[held[s]].consumed
    <3>1. held[s] \in spending[s]
      BY <2>6 DEF Commit, SpendingInv
    <3>2. held[s] \in Rows /\ approvals[held[s]] \in Approval
      BY <3>1 DEF TypeOK
    <3>3. approvals'[held[s]] = [approvals[held[s]] EXCEPT !.consumed = TRUE]
      BY <2>6, <3>1, <3>2 DEF Commit
    <3>4. approvals'[held[s]].consumed
      BY <3>2, <3>3 DEF Approval
    <3> QED BY <2>6, <3>1, <3>2, <3>4, Ending
  <2>7. ASSUME NEW t \in Sessions, Succeeded(t)'
        PROVE  held'[t] \in Rows /\ approvals'[held'[t]].consumed
    <3>1. CASE t # s
      <4>1. Succeeded(t) /\ held'[t] = held[t]
        BY <1>2, <2>7, <3>1, OthersUntouched DEF Succeeded
      <4> QED BY <4>1, ApprovalsKept DEF SpendingInv
    <3>2. CASE t = s
      <4>1. Commit(s)
        BY <1>2, <2>7, <3>2, OneEnd DEF Succeeded, LogInv
      <4>2. EndsWell(calls[s])
        BY <1>2, <2>7, <3>2, <4>1, OneEnd DEF Succeeded, EndsWell
      <4> QED BY <2>6, <3>2, <4>1, <4>2
    <3> QED BY <3>1, <3>2
  <2>8. ASSUME NEW r \in Rows, approvals'[r].consumed
        PROVE  \E t \in Sessions : Succeeded(t)' /\ held'[t] = r
    <3>1. CASE approvals[r].consumed
      <4>1. PICK t \in Sessions : Succeeded(t) /\ held[t] = r
        BY <3>1 DEF SpendingInv, SpentOnlyBySuccess
      <4>2. t # s
        BY <1>2, <4>1, OneEnd DEF Succeeded, LogInv
      <4>3. Succeeded(t)' /\ held'[t] = r
        BY <1>2, <4>1, <4>2, OthersUntouched DEF Succeeded
      <4> QED BY <4>3
    <3>2. CASE ~approvals[r].consumed
      <4>1. PICK t \in Sessions : Commit(t) /\ r \in spending[t]
        BY <2>8, <3>2, ApprovalsKept
      <4>2. EndsWell(calls[t]) /\ held[t] = r /\ Acts(t)
        BY <4>1 DEF SpendingInv, Acts
      <4>3. Succeeded(t)' /\ held'[t] = r
        BY <4>1, <4>2, OneEnd, Ending DEF Succeeded, EndsWell
      <4> QED BY <4>3
    <3> QED BY <3>1, <3>2
  <2>9. SpentOnlyBySuccess'
    BY <2>8 DEF SpentOnlyBySuccess
  <2> QED BY <2>3, <2>4, <2>5, <2>7, <2>9 DEF SpendingInv
<1> QED BY <1>1, <1>2

-----------------------------------------------------------------------------
\* What a step of one session leaves of another one's place in the order.
LEMMA OthersOrder ==
  ASSUME TypeOK, HeldInv, LogInv, [Next]_vars,
         NEW s \in Sessions, Acts(s), NEW t \in Sessions \ {s}
  PROVE  /\ SyncedIn(pending', t) => SyncedIn(pending, t)
         /\ SyncedIn(database', t) => SyncedIn(database, t)
         /\ Succeeded(t)' <=> Succeeded(t)
         /\ AtLast(t)' <=> AtLast(t)
<1>1. SyncedIn(pending', t) => SyncedIn(pending, t)
  <2>1. \A c \in pending' : c \in pending \/ c.by = s
    <3>1. CASE Release(s)
      BY <3>1, ReleasedCall
    <3>2. CASE Commit(s) \/ Abort(s)
      BY <3>2, Ending
    <3>3. CASE Refuse(s) \/ HandlerFails(s) \/ FlushFails(s)
      BY <3>3, FailedCall
    <3>4. CASE Open(s) \/ Authorise(s) \/ Handle(s)
      BY <3>4 DEF Open, Authorise, Handle
    <3> QED BY <3>1, <3>2, <3>3, <3>4 DEF Acts
  <2> QED BY <2>1 DEF SyncedIn
<1>2. SyncedIn(database', t) => SyncedIn(database, t)
  <2>1. \A c \in database' : c \in database \/ c.by = s
    BY OneEnd DEF Commit
  <2> QED BY <2>1 DEF SyncedIn
<1>3. Succeeded(t)' <=> Succeeded(t)
  BY OthersUntouched DEF Succeeded
<1>4. AtLast(t)' <=> AtLast(t)
  <2>1. (Consumes(t)' <=> Consumes(t)) /\ (HasNext(t)' <=> HasNext(t))
    BY OthersUntouched, SameProgram
  <2> QED BY <2>1, OthersUntouched DEF AtLast
<1> QED BY <1>1, <1>2, <1>3, <1>4

\* A session that is at its last call after a step, and made its CRM change
\* before, held its row before, or verified it now.
LEMMA LastOfASession ==
  ASSUME TypeOK, HeldInv, LogInv, [Next]_vars, NEW s \in Sessions, Acts(s),
         SyncedIn(pending', s), AtLast(s)', job'[s].kind = "workflow"
  PROVE  /\ SyncedIn(pending, s) /\ job'[s] = job[s]
         /\ \/ AtLast(s) /\ held'[s] = held[s]
            \/ Authorise(s)
<1>1. ~(Commit(s) \/ Abort(s))
  BY Ending DEF SyncedIn
<1>2. ~(Refuse(s) \/ HandlerFails(s) \/ FlushFails(s))
  BY FailedCall DEF AtLast
<1>3. ~Open(s)
  <2>1. ASSUME Open(s) PROVE FALSE
    <3>1. SyncedIn(pending, s) /\ pc[s] = "idle"
      BY <2>1 DEF Open
    <3> QED BY <3>1 DEF SyncedIn, LogInv, Active
  <2> QED BY <2>1
<1>4. CASE Authorise(s)
  BY <1>4 DEF Authorise, opened
<1>5. CASE Handle(s)
  <2>1. /\ pc[s] = "authorised" /\ pc'[s] = "flushing"
        /\ UNCHANGED <<pending, calls, job, held>>
    BY <1>5 DEF Handle, TypeOK, opened
  <2> QED BY <2>1 DEF AtLast, Consumes, Tool, Tools
<1>6. CASE Release(s)
  <2>1. pc[s] = "flushing" /\ Consumes(s) /\ UNCHANGED <<job, held>>
    BY <1>6, ReleasedCall DEF AtLast
  <2>2. HasNext(s) /\ job[s] \in Job /\ calls[s] \in Seq(Call)
    BY <2>1 DEF HeldInv, TypeOK
  <2>3. Tool(s) = "update_entitlement"
    BY <2>1, <2>2, Programs
  <2>4. SyncedIn(pending, s)
    BY <1>6, <2>3, ReleasedCall DEF SyncedIn
  <2> QED BY <2>1, <2>4 DEF AtLast
<1> QED BY <1>1, <1>2, <1>3, <1>4, <1>5, <1>6 DEF Acts

\* A session that has its CRM change in the database, or its last success in
\* the trail, has it since its commit.
LEMMA AppliedByCommit ==
  ASSUME TypeOK, LogInv, NEW s \in Sessions, Acts(s), Succeeded(s)' \/ SyncedIn(database', s)
  PROVE  /\ Commit(s) /\ pc[s] = "calling" /\ ~HasNext(s)
         /\ UNCHANGED <<job, held>>
         /\ Succeeded(s)' => EndsWell(calls[s])
         /\ SyncedIn(database', s) => SyncedIn(pending, s)
<1>1. pc[s] # "over" /\ trail[s] = <<>> /\ ~SyncedIn(database, s)
  BY OneEnd DEF LogInv, SyncedIn
<1>2. Commit(s)
  BY <1>1, OneEnd DEF Succeeded
<1>3. pc[s] = "calling" /\ ~HasNext(s) /\ UNCHANGED <<job, held>>
  BY <1>2, Ending DEF Commit
<1>4. Succeeded(s)' => EndsWell(calls[s])
  BY <1>2, OneEnd DEF Succeeded, EndsWell
<1>5. SyncedIn(database', s) => SyncedIn(pending, s)
  BY <1>1, <1>2 DEF Commit, SyncedIn
<1> QED BY <1>2, <1>3, <1>4, <1>5

\* The session that comes second waits for the first one's rows.
LEMMA OrderStep ==
  TypeOK /\ HeldInv /\ LogInv /\ SpendingInv /\ OrderInv /\ [Next]_vars => OrderInv'
<1> SUFFICES ASSUME TypeOK, HeldInv, LogInv, SpendingInv, OrderInv, [Next]_vars
             PROVE  OrderInv'
  OBVIOUS
<1>1. CASE ~\E s \in Sessions : Acts(s)
  <2>1. UNCHANGED <<database, trail, pending, job, pc, held, calls>>
    BY <1>1 DEF Next, vars, Acts, Decided, Aged, opened
  <2> QED BY <2>1 DEF OrderInv, AppliedRunsSpendOnce, SyncedIn, AtLast, Succeeded,
                      Consumes, HasNext, Tool, Tools
<1>2. ASSUME NEW u \in Sessions, Acts(u) PROVE OrderInv'
  <2>0. \A s \in Sessions \ {u} : job'[s] = job[s] /\ held'[s] = held[s]
    BY <1>2, OthersUntouched
  <2>1. ASSUME NEW s \in Sessions, NEW t \in Sessions,
               SyncedIn(pending', s), SyncedIn(pending', t)
        PROVE  s = t
    <3>1. CASE SyncedIn(pending, s) /\ SyncedIn(pending, t)
      BY <3>1 DEF OrderInv
    <3>2. ASSUME NEW x \in Sessions, SyncedIn(pending', x), ~SyncedIn(pending, x)
          PROVE  /\ x = u
                 /\ \A y \in Sessions \ {u} : ~SyncedIn(pending, y)
      <4>1. x = u
        BY <1>2, <3>2, OthersOrder
      <4>2. Release(u)
        <5>1. ~(Commit(u) \/ Abort(u))
          BY <3>2, <4>1, Ending DEF SyncedIn
        <5>2. ~(Refuse(u) \/ HandlerFails(u) \/ FlushFails(u))
          BY <3>2, FailedCall
        <5>3. ~(Open(u) \/ Authorise(u) \/ Handle(u))
          BY <3>2 DEF Open, Authorise, Handle
        <5> QED BY <1>2, <5>1, <5>2, <5>3 DEF Acts
      <4>3. Tool(u) = "update_crm" /\ ~Locked(u)
        BY <3>2, <4>2, ReleasedCall DEF SyncedIn
      <4> QED BY <4>1, <4>3 DEF Locked, SyncedIn
    <3> QED BY <1>2, <2>1, <3>1, <3>2, OthersOrder
  <2>2. ASSUME NEW s \in Sessions, NEW t \in Sessions,
               SyncedIn(pending', s), SyncedIn(database', t),
               job'[s].kind = "workflow", job'[t].kind = "workflow",
               AtLast(s)', Succeeded(t)'
        PROVE  held'[s] # held'[t]
    <3>1. CASE t = u
      <4>1. SyncedIn(pending, u) /\ Commit(u)
        BY <1>2, <2>2, <3>1, AppliedByCommit
      <4>2. s # u
        BY <2>2, <4>1, Ending DEF SyncedIn
      <4>3. SyncedIn(pending, s)
        BY <1>2, <2>2, <4>2, OthersOrder
      <4> QED BY <4>1, <4>2, <4>3 DEF OrderInv
    <3>2. CASE t # u
      <4>1. /\ SyncedIn(database, t) /\ Succeeded(t) /\ job[t].kind = "workflow"
            /\ held'[t] = held[t]
        BY <1>2, <2>0, <2>2, <3>2, OthersOrder
      <4>2. CASE s # u
        BY <1>2, <2>0, <2>2, <4>1, <4>2, OthersOrder DEF OrderInv
      <4>3. CASE s = u
        <5>1. SyncedIn(pending, u) /\ job'[u] = job[u]
          BY <1>2, <2>2, <4>3, LastOfASession
        <5>2. CASE AtLast(u) /\ held'[u] = held[u]
          BY <2>2, <4>1, <4>3, <5>1, <5>2 DEF OrderInv
        <5>3. CASE Authorise(u)
          <6>1. PICK r \in Rows : Usable(u, r) /\ held' = [held EXCEPT ![u] = r]
            BY <5>3 DEF Authorise
          <6>2. held'[u] = r /\ ~approvals[r].consumed
            BY <6>1 DEF TypeOK, Usable
          <6>3. approvals[held[t]].consumed
            BY <4>1 DEF SpendingInv
          <6> QED BY <4>1, <4>3, <6>2, <6>3
        <5> QED BY <1>2, <2>2, <4>3, <5>2, <5>3, LastOfASession
      <4> QED BY <4>2, <4>3
    <3> QED BY <3>1, <3>2
  <2>3. ASSUME NEW s \in Sessions, NEW t \in Sessions, s # t,
               SyncedIn(database', s), SyncedIn(database', t),
               job'[s].kind = "workflow", job'[t].kind = "workflow",
               Succeeded(s)', Succeeded(t)'
        PROVE  held'[s] # held'[t]
    <3>1. ASSUME NEW x \in Sessions, x = u, SyncedIn(database', x), Succeeded(x)'
          PROVE  SyncedIn(pending, x) /\ AtLast(x) /\ UNCHANGED <<job, held>>
      BY <1>2, <3>1, AppliedByCommit DEF AtLast
    <3>2. ASSUME NEW x \in Sessions, x # u, SyncedIn(database', x), Succeeded(x)'
          PROVE  SyncedIn(database, x) /\ Succeeded(x) /\ held'[x] = held[x]
                 /\ job'[x] = job[x]
      BY <1>2, <2>0, <3>2, OthersOrder
    <3>3. CASE s # u /\ t # u
      BY <2>3, <3>2, <3>3 DEF OrderInv, AppliedRunsSpendOnce, SyncedIn
    <3>4. CASE s = u
      BY <2>3, <3>1, <3>2, <3>4 DEF OrderInv
    <3>5. CASE t = u
      BY <2>3, <3>1, <3>2, <3>5 DEF OrderInv
    <3> QED BY <3>3, <3>4, <3>5
  <2>4. AppliedRunsSpendOnce'
    BY <2>3 DEF AppliedRunsSpendOnce, SyncedIn
  <2> QED BY <2>1, <2>2, <2>4 DEF OrderInv, SyncedIn
<1> QED BY <1>1, <1>2

-----------------------------------------------------------------------------
\* The invariant holds before any session is opened.
LEMMA InitInv == Init => ToolInv
<1> SUFFICES ASSUME Init PROVE ToolInv
  OBVIOUS
<1>1. TypeOK
  <2>1. approvals \in [Rows -> Approval]
    BY DEF Init
  <2>2. <<>> \in Seq(Call)
    OBVIOUS
  <2> QED BY <2>1, <2>2 DEF Init, TypeOK
<1>2. HeldInv /\ EffectsInv /\ LogInv
  BY DEF Init, HeldInv, EffectsInv, LogInv
<1>3. \A r \in Rows : ~approvals[r].consumed
  BY DEF Init
<1>4. \A s \in Sessions : ~Succeeded(s) /\ calls[s] = <<>> /\ spending[s] = {}
  BY DEF Init, Succeeded
<1>5. SpendingInv
  BY <1>3, <1>4 DEF SpendingInv, SpentOnlyBySuccess, EndsWell
<1>6. OrderInv
  BY DEF Init, OrderInv, AppliedRunsSpendOnce, SyncedIn
<1> QED BY <1>1, <1>2, <1>5, <1>6 DEF ToolInv

\* Every step of a session, of a decider or of the clock keeps it.
LEMMA StepInv == ToolInv /\ [Next]_vars => ToolInv'
BY TypeStep, HeldStep, EffectsStep, LogStep, SpendingStep, OrderStep DEF ToolInv

\* What the invariant says of the properties that the run checks.
LEMMA Consequences ==
  ToolInv => EffectsAreAuthorised /\ SpentStaysSpent /\ TrailTellsWhatHappened
<1> SUFFICES ASSUME ToolInv
             PROVE  EffectsAreAuthorised /\ SpentStaysSpent /\ TrailTellsWhatHappened
  OBVIOUS
<1> USE DEF ToolInv
<1>1. EffectsAreAuthorised /\ SpentStaysSpent
  BY DEF EffectsInv, Granted, EffectsAreAuthorised, SpentStaysSpent
<1>2. \A c \in database : SaysOk(trail[c.by], c.tool)
  BY DEF LogInv
<1>3. ASSUME NEW c \in portal, trail[c.by] # <<>> PROVE SaysCalled(trail[c.by], c.tool)
  <2>1. c.by \in Sessions
    BY DEF TypeOK, Change
  <2>2. pc[c.by] = "over"
    BY <1>3, <2>1 DEF LogInv
  <2> QED BY <1>3, <2>2 DEF LogInv, Active
<1>4. TrailTellsWhatHappened
  BY <1>2, <1>3 DEF TrailTellsWhatHappened, SaysOk, SaysCalled
<1> QED BY <1>1, <1>4

\* The sessions keep the invariant, however many there are and however their
\* transactions overlap, fail or are lost.
THEOREM Invariance == Spec => []ToolInv
<1> QED BY InitInv, StepInv, PTL DEF Spec

\* The tool layer never leaves its types.
THEOREM TypeCorrect == Spec => []TypeOK
<1>1. ToolInv => TypeOK
  BY DEF ToolInv
<1> QED BY <1>1, Invariance, PTL

\* Whatever was changed, in the database or in the portal, was changed under an
\* approval that a human granted for that run and that subject, by a session
\* whose role may (verify_approval, decision D9).
THEOREM Authorised == Spec => []EffectsAreAuthorised
<1> QED BY Consequences, Invariance, PTL

\* An approval that was consumed when a session began authorises nothing in it.
THEOREM Spent == Spec => []SpentStaysSpent
<1> QED BY Consequences, Invariance, PTL

\* The tool_calls rows of a committed session tell every change it made, and
\* every portal action, the ones that were reported as failed included.
THEOREM TrailTells == Spec => []TrailTellsWhatHappened
<1> QED BY Consequences, Invariance, PTL

\* An approval is consumed only together with the success of the last change it
\* was for.
THEOREM SpentBySuccess == Spec => []SpentOnlyBySuccess
<1>1. ToolInv => SpentOnlyBySuccess
  BY DEF ToolInv, SpendingInv
<1> QED BY <1>1, Invariance, PTL

\* Of the drivers of one run that applied their CRM change, one at most spends
\* the approval.
THEOREM AppliedOnce == Spec => []AppliedRunsSpendOnce
<1>1. ToolInv => AppliedRunsSpendOnce
  BY DEF ToolInv, OrderInv
<1> QED BY <1>1, Invariance, PTL

=============================================================================
