------------------------------ MODULE ToolLayer ------------------------------
(***************************************************************************)
(* The boundary every mutation goes through: execute_tool and              *)
(* verify_approval (mcp/tools), called in concurrent database sessions.    *)
(*                                                                         *)
(* A session is either the execute node, which calls three tools under one *)
(* approval and commits once, or one call to the MCP server, which commits *)
(* it.  A call records that it was selected, asks the permission matrix,   *)
(* opens a savepoint, verifies an approval, runs the handler, flushes with *)
(* the savepoint's release, and records how it ended outside of it.        *)
(* Transactions are READ COMMITTED: the verification is a plain SELECT,    *)
(* and an UPDATE keeps its row locked until the transaction ends.          *)
(***************************************************************************)
EXTENDS Naturals, Sequences

CONSTANTS
  Sessions,    \* database sessions that call tools
  Rows,        \* rows of the approvals table
  Executions,  \* workflow runs that the rows and the calls belong to
  None         \* no job, no row

ASSUME NoneAssumption == None \notin Rows

VARIABLES
  approvals,   \* the committed approvals table
  database,    \* committed changes of billing and the CRM
  portal,      \* what the portal did; no rollback reaches it
  trail,       \* committed tool_calls rows, per session
  job,         \* what each session was opened for
  pc,          \* "idle", "calling", "authorised", "flushing", "over"
  held,        \* the row the current call was authorised by
  pending,     \* flushed, uncommitted changes of the session
  spending,    \* rows the session has consumed and not committed
  calls,       \* uncommitted tool_calls rows of the session
  spent_before \* history: rows that were consumed when the session began

vars == <<approvals, database, portal, trail, job, pc, held, pending,
          spending, calls, spent_before>>
committed == <<approvals, database, trail>>
opened == <<job, spent_before>>

-----------------------------------------------------------------------------
\* What an approval is for: the action and the entity it names.  The gate only
\* writes the first; MCP calls ask for the next two; the last is anything else.
Subject == {"upgrade of account", "upgrade of subscription", "crm of account",
            "other"}
Approval == [execution : Executions, subject : Subject,
             status : {"pending", "approved", "rejected"},
             current : BOOLEAN,    \* decided within validity_window_hours
             consumed : BOOLEAN]

\* The tools called, in order, and the approval each of them asks for.
Workflow == <<"update_subscription", "update_crm", "update_entitlement">>
Program == [workflow |-> Workflow,
            mcp_subscription |-> <<"update_subscription">>,
            mcp_crm |-> <<"update_crm">>]
SubjectOf == [workflow |-> "upgrade of account",
              mcp_subscription |-> "upgrade of subscription",
              mcp_crm |-> "crm of account"]
Job == [kind : DOMAIN Program, execution : Executions,
        role : {"execution", "validator"}]

Change == [by : Sessions, tool : {"update_subscription", "update_crm",
                                  "update_entitlement"}, row : Rows]
Call == [tool : {"update_subscription", "update_crm", "update_entitlement"},
         ok : BOOLEAN, called : BOOLEAN]

TypeOK ==
  /\ approvals \in [Rows -> Approval]
  /\ database \subseteq Change
  /\ portal \subseteq Change
  /\ trail \in [Sessions -> Seq(Call)]
  /\ job \in [Sessions -> Job \cup {None}]
  /\ pc \in [Sessions -> {"idle", "calling", "authorised", "flushing", "over"}]
  /\ held \in [Sessions -> Rows \cup {None}]
  /\ pending \subseteq Change
  /\ spending \in [Sessions -> SUBSET Rows]
  /\ calls \in [Sessions -> Seq(Call)]
  /\ spent_before \in [Sessions -> SUBSET Rows]

Init ==
  /\ approvals \in [Rows -> {a \in Approval : a.status = "pending" /\ ~a.current
                                               /\ ~a.consumed}]
  /\ database = {} /\ portal = {} /\ pending = {}
  /\ trail = [s \in Sessions |-> <<>>]
  /\ job = [s \in Sessions |-> None]
  /\ pc = [s \in Sessions |-> "idle"]
  /\ held = [s \in Sessions |-> None]
  /\ spending = [s \in Sessions |-> {}]
  /\ calls = [s \in Sessions |-> <<>>]
  /\ spent_before = [s \in Sessions |-> {}]

-----------------------------------------------------------------------------
Tools(s) == Program[job[s].kind]
Tool(s) == Tools(s)[Len(calls[s]) + 1]
HasNext(s) == Len(calls[s]) < Len(Tools(s))

\* PERMISSION_MATRIX: every mutating tool is for Execution (and Admin).
Permitted(s) == job[s].role = "execution"

\* Three tools share the workflow's approval; the last of them consumes it.
Consumes(s) == job[s].kind = "workflow" => Tool(s) = "update_entitlement"

\* Mutant: the approval is looked up without the run it was granted for.
InAnyRun(s, r) == approvals[r].subject = SubjectOf[job[s].kind]

\* The WHERE clause of verify_approval.
Matches(s, r) ==
  /\ approvals[r].subject = SubjectOf[job[s].kind]
  /\ approvals[r].execution = job[s].execution

\* Mutant: an approval may be used again.
UsableAgain(s, r) == approvals[r].status = "approved" /\ approvals[r].current

Usable(s, r) ==
  /\ approvals[r].status = "approved"
  /\ ~approvals[r].consumed /\ r \notin spending[s]
  /\ approvals[r].current

\* The changes that a release may write.  A subscription that is on the plan
\* already is not written; update_crm always writes, it stamps the time.
Writes(s) ==
  LET change == [by |-> s, tool |-> Tool(s), row |-> held[s]] IN
  CASE Tool(s) = "update_entitlement" -> {{}}
    [] Tool(s) = "update_crm" -> {{change}}
    [] Tool(s) = "update_subscription" ->
         {{change}} \cup {{} : c \in {d \in database : d.tool = Tool(s)}}

\* Another transaction has written a row that the release must write.
Locked(s) ==
  \E other \in Sessions \ {s} :
    \/ \E c \in pending : c.by = other /\ c.tool = Tool(s)
    \/ Consumes(s) /\ held[s] \in spending[other]

-----------------------------------------------------------------------------
Open(s) ==
  /\ pc[s] = "idle"
  /\ \E j \in Job : job' = [job EXCEPT ![s] = j]
  /\ spent_before' = [spent_before EXCEPT ![s] = {r \in Rows : approvals[r].consumed}]
  /\ pc' = [pc EXCEPT ![s] = "calling"]
  /\ UNCHANGED <<committed, portal, held, pending, spending, calls>>

\* Mutant: there is no savepoint to roll back, so what the handler had changed
\* and the approval it had consumed stay in the transaction.
FailKeepingChanges(s, called) ==
  /\ calls' = [calls EXCEPT ![s] = Append(@, [tool |-> Tool(s), ok |-> FALSE,
                                              called |-> called])]
  /\ pc' = [pc EXCEPT ![s] = "calling"]
  /\ \E written \in Writes(s) :
       pending' = IF called THEN pending \cup written ELSE pending
  /\ spending' = IF called /\ Consumes(s)
                   THEN [spending EXCEPT ![s] = @ \cup {held[s]}] ELSE spending
  /\ UNCHANGED <<committed, opened, held>>

\* _fail: the savepoint is rolled back, then the failed call is recorded.
Fail(s, called) ==
  /\ calls' = [calls EXCEPT ![s] = Append(@, [tool |-> Tool(s), ok |-> FALSE,
                                              called |-> called])]
  /\ pc' = [pc EXCEPT ![s] = "calling"]
  /\ UNCHANGED <<committed, opened, held, pending, spending>>

\* No permission, no matching row, or the row that .first() returned, any of
\* the matching ones, is not usable.
Refuse(s) ==
  /\ pc[s] = "calling" /\ HasNext(s)
  /\ \/ ~Permitted(s)
     \/ \A r \in Rows : ~Matches(s, r)
     \/ \E r \in Rows : Matches(s, r) /\ ~Usable(s, r)
  /\ Fail(s, FALSE)
  /\ UNCHANGED portal

Authorise(s) ==
  /\ pc[s] = "calling" /\ HasNext(s)
  /\ Permitted(s)
  /\ \E r \in Rows :
       /\ Matches(s, r) /\ Usable(s, r)
       /\ held' = [held EXCEPT ![s] = r]
  /\ pc' = [pc EXCEPT ![s] = "authorised"]
  /\ UNCHANGED <<committed, opened, portal, pending, spending, calls>>

\* The handler: update_entitlement drives the portal, the others change an
\* object of the session that has yet to be flushed.
PortalDoes(s) == portal \cup {[by |-> s, tool |-> Tool(s), row |-> held[s]]}

Handle(s) ==
  /\ pc[s] = "authorised"
  /\ portal' = IF Tool(s) = "update_entitlement" THEN PortalDoes(s) ELSE portal
  /\ pc' = [pc EXCEPT ![s] = "flushing"]
  /\ UNCHANGED <<committed, opened, held, pending, spending, calls>>

\* The handler raises; the portal may have done its work all the same.
HandlerFails(s) ==
  /\ pc[s] = "authorised"
  /\ \/ UNCHANGED portal
     \/ Tool(s) = "update_entitlement" /\ portal' = PortalDoes(s)
  /\ Fail(s, TRUE)

\* The database ends a flush that waits for its locks in a cycle.
FlushFails(s) ==
  /\ pc[s] = "flushing"
  /\ Locked(s)
  /\ Fail(s, TRUE)
  /\ UNCHANGED portal

\* Mutant: an UPDATE does not wait for the row.
ReleaseUnlocked(s) ==
  /\ pc[s] = "flushing"
  /\ \E written \in Writes(s) : pending' = pending \cup written
  /\ spending' = IF Consumes(s) THEN [spending EXCEPT ![s] = @ \cup {held[s]}]
                                ELSE spending
  /\ calls' = [calls EXCEPT ![s] = Append(@, [tool |-> Tool(s), ok |-> TRUE,
                                              called |-> TRUE])]
  /\ pc' = [pc EXCEPT ![s] = "calling"]
  /\ UNCHANGED <<committed, opened, portal, held>>

\* RELEASE SAVEPOINT: the change and consumed_at are flushed, then the call is
\* recorded as succeeded.
Release(s) ==
  /\ pc[s] = "flushing"
  /\ ~Locked(s)
  /\ \E written \in Writes(s) : pending' = pending \cup written
  /\ spending' = IF Consumes(s) THEN [spending EXCEPT ![s] = @ \cup {held[s]}]
                                ELSE spending
  /\ calls' = [calls EXCEPT ![s] = Append(@, [tool |-> Tool(s), ok |-> TRUE,
                                              called |-> TRUE])]
  /\ pc' = [pc EXCEPT ![s] = "calling"]
  /\ UNCHANGED <<committed, opened, portal, held>>

Closed(s) ==
  /\ pc' = [pc EXCEPT ![s] = "over"]
  /\ pending' = {c \in pending : c.by # s}
  /\ spending' = [spending EXCEPT ![s] = {}]
  /\ calls' = [calls EXCEPT ![s] = <<>>]
  /\ UNCHANGED <<opened, portal, held>>

Commit(s) ==
  /\ pc[s] = "calling" /\ ~HasNext(s)
  /\ database' = database \cup {c \in pending : c.by = s}
  /\ approvals' = [r \in Rows |-> IF r \in spending[s]
                                    THEN [approvals[r] EXCEPT !.consumed = TRUE]
                                    ELSE approvals[r]]
  /\ trail' = [trail EXCEPT ![s] = calls[s]]
  /\ Closed(s)

\* The process stops or loses its connection before the commit.
Abort(s) ==
  /\ pc[s] \notin {"idle", "over"}
  /\ UNCHANGED committed
  /\ Closed(s)

\* decide_approval: a decision, which is current when it is made ...
Decided(r) ==
  /\ approvals[r].status = "pending"
  /\ \E decision \in {"approved", "rejected"} :
       approvals' = [approvals EXCEPT ![r].status = decision, ![r].current = TRUE]
  /\ UNCHANGED <<database, trail, opened, portal, pc, held, pending, spending, calls>>

\* Mutant: a sweeper marks the row.
Swept(r) ==
  /\ approvals[r].current
  /\ approvals' = [approvals EXCEPT ![r].status = "expired"]
  /\ UNCHANGED <<database, trail, opened, portal, pc, held, pending, spending, calls>>

\* ... and no longer is a day later.
Aged(r) ==
  /\ approvals[r].current
  /\ approvals' = [approvals EXCEPT ![r].current = FALSE]
  /\ UNCHANGED <<database, trail, opened, portal, pc, held, pending, spending, calls>>

Next ==
  \/ \E s \in Sessions :
       \/ Open(s) \/ Refuse(s) \/ Authorise(s) \/ Handle(s) \/ HandlerFails(s)
       \/ FlushFails(s) \/ Release(s) \/ Commit(s) \/ Abort(s)
  \/ \E r \in Rows : Decided(r) \/ Aged(r)

Spec == Init /\ [][Next]_vars

-----------------------------------------------------------------------------
\* Whatever was changed, committed or not, in the database or in the portal,
\* was changed for a session that may, under an approval that a human granted
\* for that run and that very subject (mcp/tools/approval.py, decision D9).
EffectsAreAuthorised ==
  \A c \in database \cup pending \cup portal :
    LET a == approvals[c.row] IN
    /\ a.status = "approved"
    /\ a.execution = job[c.by].execution
    /\ a.subject = SubjectOf[job[c.by].kind]
    /\ job[c.by].role = "execution"

\* An approval that was consumed when a session began authorises nothing in it:
\* a retry does not replay one decision into many changes.
SpentStaysSpent ==
  \A c \in database \cup pending \cup portal : c.row \notin spent_before[c.by]

Succeeded(s) == trail[s] # <<>> /\ trail[s][Len(trail[s])].ok

\* "The attempt is always recorded, and a half-applied mutation never is"
\* (mcp/server/app.py): of a session that committed, the changes are those of
\* the calls recorded as succeeded, and no portal action is missing from the
\* recorded calls, not even one that was reported as failed.
TrailTellsWhatHappened ==
  /\ \A c \in database : \E i \in DOMAIN trail[c.by] :
       trail[c.by][i].tool = c.tool /\ trail[c.by][i].ok
  /\ \A c \in portal : trail[c.by] # <<>> =>
       \E i \in DOMAIN trail[c.by] :
         trail[c.by][i].tool = c.tool /\ trail[c.by][i].called

\* An approval is consumed only together with the success of the last change
\* it was for, so that a portal that refused can be tried again under it.
SpentOnlyBySuccess ==
  \A r \in Rows : approvals[r].consumed =>
    \E s \in Sessions : Succeeded(s) /\ held[s] = r

\* Two drivers of one run: when both have applied their CRM change, they do not
\* both spend the approval, because the second waits for the first one's row
\* locks before it looks at the approval for the last time.
AppliedRunsSpendOnce ==
  \A s, t \in Sessions :
    /\ s # t
    /\ \E c \in database : c.by = s /\ c.tool = "update_crm"
    /\ \E c \in database : c.by = t /\ c.tool = "update_crm"
    /\ job[s].kind = "workflow" /\ job[t].kind = "workflow"
    /\ Succeeded(s) /\ Succeeded(t)
    => held[s] # held[t]

-----------------------------------------------------------------------------
\* "One human decision authorises one action" (mcp/tools/approval.py:106-107).
OneDecisionOneAction ==
  \A s, t \in Sessions :
    s # t /\ Succeeded(s) /\ Succeeded(t) => held[s] # held[t]

=============================================================================
