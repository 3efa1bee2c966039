------------------------------ MODULE RunTrace ------------------------------
(***************************************************************************)
(* What WorkflowRunner leaves behind of one run (apps/orchestrator/        *)
(* runner.py): the execution row, one row per node visit and the audit     *)
(* events, each committed in a transaction of its own while the graph is   *)
(* streamed.  A run has one driver that starts it and one more for every   *)
(* decision on an approval it asked for; nothing keeps two of them apart.  *)
(* A reader assembles the trace (apps/api/routers/workflows.py).           *)
(*                                                                         *)
(* LangGraph is external: a driver loads the thread's checkpoint once,     *)
(* works on its own copy, writes a checkpoint after each node, and         *)
(* aget_state reads the latest one.  What a node does is left out: the     *)
(* next one is any that the graph has an edge to.                          *)
(***************************************************************************)
EXTENDS Naturals, FiniteSets

CONSTANTS
  Drivers,    \* calls of _drive for this run
  Starter,    \* the one made by start; the others are made by resume
  MaxDepth    \* bound: nodes on the way from the start of a run to its end

ASSUME DriverAssumption ==
  IsFiniteSet(Drivers) /\ Starter \in Drivers /\ MaxDepth \in Nat \ {0}

VARIABLES
  execution,   \* the workflow_executions row
  steps,       \* the workflow_steps rows
  audit,       \* how many events of each type the run has
  thread,      \* the latest checkpoint
  asked,       \* approval rows of the run that are still pending
  driver,      \* the state of each call of _drive
  reader,      \* a GET /workflows/{id}
  overlapped   \* history: two drivers were at work at the same time

traceVars == <<execution, steps, audit, thread, asked, driver, reader, overlapped>>

-----------------------------------------------------------------------------
(* The graph, as far as the runner sees it.                                *)

\* "work" is any node that is not listed
Node == {"work", "gate", "retry", "replan", "notify", "complete", "escalate"}
Budget == {"retry", "replan"}

Edges(node) ==
  CASE node = "work" -> Node \ {"complete"}
    [] node = "gate" -> {"work", "escalate"}
    [] node \in Budget -> {"work"}
    [] node = "notify" -> {"complete"}
    [] node \in {"complete", "escalate"} -> {"end"}

\* Nodes it takes at least from this one to the end.
Needs(node) == CASE node = "end" -> 0
                 [] node \in {"complete", "escalate"} -> 1
                 [] node \in {"work", "gate", "notify"} -> 2
                 [] node \in Budget -> 3

Successors(node, depth) == {n \in Edges(node) : depth + Needs(n) <= MaxDepth}

\* state["status"] after a node; many nodes that end in escalate set it already
StatusesAfter(node, next, status) ==
  CASE node \in {"notify", "complete"} -> {"completed"}
    [] node = "escalate" \/ (node = "gate" /\ next = "escalate") -> {"escalated"}
    [] node = "work" /\ next = "escalate" -> {"running", "escalated"}
    [] OTHER -> {"running"}

-----------------------------------------------------------------------------
Status == {"received", "running", "awaiting", "completed", "escalated"}
Position == Node \cup {"end"}
Checkpoint == [id : Nat, depth : 0..MaxDepth, next : Position, interrupted : BOOLEAN,
               status : {"running", "completed", "escalated"}]
Step == [sequence : Nat, node : Node, by : Drivers]
AtWork == {"starting", "opening", "streaming", "asking", "visited", "counting",
           "drained", "closing"}

DriverState == [pc : AtWork \cup {"idle", "answered", "dead"}, own : Checkpoint,
                answer : BOOLEAN, sequence : Nat, last : Position, visited : Nat,
                seen : Checkpoint]

Working(d) == driver[d].pc \in AtWork

TraceTypeOK ==
  /\ execution \in [exists : BOOLEAN, status : Status, finished : BOOLEAN]
  /\ steps \subseteq Step
  /\ audit \in [{"request_received", "retry", "replan", "workflow_completed",
                 "workflow_failed"} -> Nat]
  /\ thread \in Checkpoint
  /\ asked \in Nat
  /\ driver \in [Drivers -> DriverState]
  /\ reader \in [pc : {"idle", "row", "steps", "done"}, finished : BOOLEAN,
                 steps : Nat, retries : Nat]
  /\ overlapped \in BOOLEAN

FirstCheckpoint == [id |-> 0, depth |-> 0, next |-> "work", interrupted |-> FALSE,
                    status |-> "running"]

TraceInit ==
  /\ execution = [exists |-> FALSE, status |-> "received", finished |-> FALSE]
  /\ steps = {}
  /\ audit = [e \in {"request_received", "retry", "replan", "workflow_completed",
                     "workflow_failed"} |-> 0]
  /\ thread = FirstCheckpoint
  /\ asked = 0
  /\ driver = [d \in Drivers |->
                [pc |-> "idle", own |-> FirstCheckpoint, answer |-> FALSE,
                 sequence |-> 0, last |-> "end", visited |-> 0,
                 seen |-> FirstCheckpoint]]
  /\ reader = [pc |-> "idle", finished |-> FALSE, steps |-> 0, retries |-> 0]
  /\ overlapped = FALSE

-----------------------------------------------------------------------------
(* One call of _drive.                                                     *)

\* A driver that is gone leaves nothing in memory.
Gone(d, how) == [driver[d] EXCEPT !.pc = how, !.own = FirstCheckpoint,
                                  !.seen = FirstCheckpoint, !.sequence = 0,
                                  !.answer = FALSE]

\* start: POST /workflows has made the initial state
StartRun(d) ==
  /\ d = Starter
  /\ driver[d].pc = "idle"
  /\ driver' = [driver EXCEPT ![d].pc = "starting"]
  /\ UNCHANGED <<execution, steps, audit, thread, asked, reader, overlapped>>

\* _record_started: the row and the first event, in one transaction
RecordStarted(d) ==
  /\ driver[d].pc = "starting"
  /\ execution' = [exists |-> TRUE, status |-> "received", finished |-> FALSE]
  /\ audit' = [audit EXCEPT !["request_received"] = @ + 1]
  /\ driver' = [driver EXCEPT ![d].pc = "opening"]
  /\ UNCHANGED <<steps, thread, asked, reader, overlapped>>

\* resume: somebody has decided one of the run's pending approvals
ResumeRun(d) ==
  /\ d # Starter
  /\ driver[d].pc = "idle"
  /\ asked > 0
  /\ asked' = asked - 1
  /\ driver' = [driver EXCEPT ![d].pc = "opening", ![d].answer = TRUE]
  /\ overlapped' = (overlapped \/ \E e \in Drivers : Working(e))
  /\ UNCHANGED <<execution, steps, audit, thread, reader>>

\* _next_sequence: MAX(sequence) + 1
NextSequence ==
  IF steps = {} THEN 0
  ELSE CHOOSE n \in {s.sequence + 1 : s \in steps} :
         \A s \in steps : s.sequence < n

\* open_checkpointer, _next_sequence, and the first step of astream
OpenStream(d) ==
  /\ driver[d].pc = "opening"
  /\ driver' = [driver EXCEPT ![d].pc = "streaming", ![d].own = thread,
                              ![d].sequence = NextSequence]
  /\ UNCHANGED <<execution, steps, audit, thread, asked, reader, overlapped>>

\* A node runs to its end, and its checkpoint is written.  The gate commits a
\* pending row each time it runs and takes the answer the driver came with.
RunNode(d) ==
  LET own == driver[d].own IN
  /\ driver[d].pc = "streaming"
  /\ own.next # "end"
  /\ own.next = "gate" => driver[d].answer
  /\ \E n \in Successors(own.next, own.depth + 1) :
     \E status \in StatusesAfter(own.next, n, own.status) :
       LET written == [id |-> thread.id + 1, depth |-> own.depth + 1, next |-> n,
                       interrupted |-> FALSE, status |-> status] IN
       /\ thread' = written
       /\ driver' = [driver EXCEPT ![d].pc = "visited", ![d].own = written,
                                   ![d].last = own.next,
                                   ![d].answer = @ /\ own.next # "gate"]
  /\ asked' = IF own.next = "gate" THEN asked + 1 ELSE asked
  /\ UNCHANGED <<execution, steps, audit, reader, overlapped>>

\* The gate without an answer: the row is committed ...
AskForApproval(d) ==
  /\ driver[d].pc = "streaming"
  /\ driver[d].own.next = "gate"
  /\ ~driver[d].answer
  /\ asked' = asked + 1
  /\ driver' = [driver EXCEPT ![d].pc = "asking"]
  /\ UNCHANGED <<execution, steps, audit, thread, reader, overlapped>>

\* Mutant: the gate holds the request until somebody has decided.
InterruptOnceDecided(d) ==
  /\ driver[d].pc = "asking"
  /\ asked = 0
  /\ driver' = [driver EXCEPT ![d].pc = "drained"]
  /\ UNCHANGED <<execution, steps, audit, thread, asked, reader, overlapped>>

\* ... and the interrupt is added to the checkpoint the gate ran from.
Interrupt(d) ==
  /\ driver[d].pc = "asking"
  /\ thread' = IF thread.id = driver[d].own.id
               THEN [thread EXCEPT !.interrupted = TRUE] ELSE thread
  /\ driver' = [driver EXCEPT ![d].pc = "drained"]
  /\ UNCHANGED <<execution, steps, audit, asked, reader, overlapped>>

\* Mutant: a duplicate sequence is skipped instead of raised.
RecordStepIfFree(d) ==
  /\ driver[d].pc = "visited"
  /\ steps' = IF \E s \in steps : s.sequence = driver[d].sequence THEN steps
              ELSE steps \cup {[sequence |-> driver[d].sequence,
                                node |-> driver[d].last, by |-> d]}
  /\ driver' = [driver EXCEPT
       ![d].pc = IF driver[d].last \in Budget THEN "counting" ELSE "streaming",
       ![d].sequence = IF driver[d].last \in Budget THEN @ ELSE @ + 1,
       ![d].last = IF driver[d].last \in Budget THEN @ ELSE "end",
       ![d].visited = @ + 1]
  /\ UNCHANGED <<execution, audit, thread, asked, reader, overlapped>>

\* _record_step.  (execution_id, sequence) is unique: the second driver that
\* inserts a number gets an IntegrityError, which nothing catches.
RecordStep(d) ==
  /\ driver[d].pc = "visited"
  /\ IF \E s \in steps : s.sequence = driver[d].sequence
     THEN /\ driver' = [driver EXCEPT ![d] = Gone(d, "dead")]
          /\ UNCHANGED steps
     ELSE /\ steps' = steps \cup {[sequence |-> driver[d].sequence,
                                   node |-> driver[d].last, by |-> d]}
          /\ driver' = [driver EXCEPT
               ![d].pc = IF driver[d].last \in Budget THEN "counting" ELSE "streaming",
               ![d].sequence = IF driver[d].last \in Budget THEN @ ELSE @ + 1,
               ![d].last = IF driver[d].last \in Budget THEN @ ELSE "end",
               ![d].visited = @ + 1]
  /\ UNCHANGED <<execution, audit, thread, asked, reader, overlapped>>

\* Mutant: a replan is counted as the retry that it takes back.
RecordRetryEvent(d) ==
  /\ driver[d].pc = "counting"
  /\ audit' = [audit EXCEPT !["retry"] = @ + 1]
  /\ driver' = [driver EXCEPT ![d].pc = "streaming", ![d].sequence = @ + 1,
                              ![d].last = "end"]
  /\ UNCHANGED <<execution, steps, thread, asked, reader, overlapped>>

\* _record_budget_event, in another transaction than the step
RecordBudgetEvent(d) ==
  /\ driver[d].pc = "counting"
  /\ audit' = [audit EXCEPT ![driver[d].last] = @ + 1]
  /\ driver' = [driver EXCEPT ![d].pc = "streaming", ![d].sequence = @ + 1,
                              ![d].last = "end"]
  /\ UNCHANGED <<execution, steps, thread, asked, reader, overlapped>>

\* The stream ends when the driver's own copy has no next node.
StreamEnds(d) ==
  /\ driver[d].pc = "streaming"
  /\ driver[d].own.next = "end"
  /\ driver' = [driver EXCEPT ![d].pc = "drained"]
  /\ UNCHANGED <<execution, steps, audit, thread, asked, reader, overlapped>>

\* Mutant: the driver trusts its own copy.
SnapshotOwnCopy(d) ==
  /\ driver[d].pc = "drained"
  /\ driver' = [driver EXCEPT ![d].pc = "closing", ![d].seen = driver[d].own]
  /\ UNCHANGED <<execution, steps, audit, thread, asked, reader, overlapped>>

\* aget_state and _interrupt_from: of the thread, not of this driver
Snapshot(d) ==
  /\ driver[d].pc = "drained"
  /\ driver' = [driver EXCEPT ![d].pc = "closing", ![d].seen = thread]
  /\ UNCHANGED <<execution, steps, audit, thread, asked, reader, overlapped>>

\* Mutant: the run's own word for it.
InterruptedStatus(seen) == IF seen.interrupted THEN "interrupted" ELSE seen.status

\* _resolve_status
ResolvedStatus(seen) == IF seen.interrupted THEN "awaiting" ELSE seen.status

\* Mutant: what is not paused is complete.
RecordFinishedAsComplete(d) ==
  /\ driver[d].pc = "closing"
  /\ LET paused == driver[d].seen.interrupted IN
       /\ execution' = [execution EXCEPT !.status = ResolvedStatus(driver[d].seen),
                                         !.finished = ~paused]
       /\ audit' = [audit EXCEPT ![IF paused THEN "workflow_failed"
                                             ELSE "workflow_completed"] = @ + 1]
  /\ driver' = [driver EXCEPT ![d] = Gone(d, "answered")]
  /\ UNCHANGED <<steps, thread, asked, reader, overlapped>>

\* _record_finished: the row and an event, in one transaction.  A paused run is
\* a failed one to the choice of the event.
RecordFinished(d) ==
  /\ driver[d].pc = "closing"
  /\ LET status == ResolvedStatus(driver[d].seen) IN
       /\ execution' = IF execution.exists
            THEN [execution EXCEPT !.status = status,
                                   !.finished = ~driver[d].seen.interrupted]
            ELSE execution
       /\ audit' = [audit EXCEPT ![IF status = "completed" THEN "workflow_completed"
                                                          ELSE "workflow_failed"] = @ + 1]
  /\ driver' = [driver EXCEPT ![d] = Gone(d, "answered")]
  /\ UNCHANGED <<steps, thread, asked, reader, overlapped>>

\* A node raises, or the process stops: no row says so.
Die(d) ==
  /\ Working(d)
  /\ driver' = [driver EXCEPT ![d] = Gone(d, "dead")]
  /\ UNCHANGED <<execution, steps, audit, thread, asked, reader, overlapped>>

-----------------------------------------------------------------------------
(* get_workflow_trace: one session, READ COMMITTED, one statement after    *)
(* the other.  Only a reader that finds a finished run is followed; of the *)
(* rows it gets, how many.                                                 *)

\* Mutant: whether the run is finished is asked of its thread.
ReadThread ==
  /\ reader.pc = "idle"
  /\ execution.exists /\ thread.next = "end"
  /\ reader' = [reader EXCEPT !.pc = "row", !.finished = TRUE]
  /\ UNCHANGED <<execution, steps, audit, thread, asked, driver, overlapped>>

ReadRow ==
  /\ reader.pc = "idle"
  /\ execution.exists /\ execution.finished
  /\ reader' = [reader EXCEPT !.pc = "row", !.finished = TRUE]
  /\ UNCHANGED <<execution, steps, audit, thread, asked, driver, overlapped>>

ReadSteps ==
  /\ reader.pc = "row"
  /\ reader' = [reader EXCEPT !.pc = "steps", !.steps = Cardinality(steps)]
  /\ UNCHANGED <<execution, steps, audit, thread, asked, driver, overlapped>>

ReadEvents ==
  /\ reader.pc = "steps"
  /\ reader' = [reader EXCEPT !.pc = "done", !.retries = audit["retry"]]
  /\ UNCHANGED <<execution, steps, audit, thread, asked, driver, overlapped>>

-----------------------------------------------------------------------------
DriverStep(d) ==
  \/ RecordStarted(d) \/ OpenStream(d) \/ RunNode(d) \/ AskForApproval(d)
  \/ Interrupt(d) \/ RecordStep(d) \/ RecordBudgetEvent(d) \/ StreamEnds(d)
  \/ Snapshot(d) \/ RecordFinished(d)

TraceNext ==
  \/ \E d \in Drivers : StartRun(d) \/ ResumeRun(d) \/ DriverStep(d) \/ Die(d)
  \/ ReadRow \/ ReadSteps \/ ReadEvents

TraceSpec == TraceInit /\ [][TraceNext]_traceVars
                       /\ \A d \in Drivers : WF_traceVars(DriverStep(d))

-----------------------------------------------------------------------------
(* Properties                                                              *)

Dead == {d \in Drivers : driver[d].pc = "dead"}
AllRest == \A d \in Drivers : ~Working(d)

\* The steps of a run are numbered from 0 without a gap or a duplicate, however
\* many drivers of the thread overlap or die (MAX + 1, read once per driver).
StepsAreNumbered ==
  /\ {s.sequence : s \in steps} = 0..Cardinality(steps) - 1
  /\ \A d \in Drivers :
       Cardinality({s \in steps : s.by = d}) = driver[d].visited

\* A budget that was spent is in the audit trail: retry and replan events fall
\* short of the recorded visits only by drivers that are between the two
\* transactions, or died there.
BudgetsAreAudited ==
  \A node \in Budget :
    Cardinality({s \in steps : s.node = node}) - audit[node]
      \in 0..Cardinality({d \in Drivers : /\ driver[d].pc \in {"counting", "dead"}
                                         /\ driver[d].last = node})

\* When nothing works on the run any more, nobody died and no two drivers met,
\* the row says what the thread says: paused, or how it ended.
RowTellsTheThread ==
  (AllRest /\ execution.exists /\ ~overlapped /\ Dead = {}) =>
    /\ execution.status = ResolvedStatus(thread)
    /\ execution.finished = ~thread.interrupted
    /\ execution.finished => thread.next = "end"

\* workflow_completed is only recorded of a run whose thread reached the notice
\* to the customer, also when the driver that records it is another one.
CompletedIsReal ==
  audit["workflow_completed"] > 0 =>
    \/ \E s \in steps : s.node = "notify"
    \/ \E d \in Drivers : driver[d].last = "notify"

\* A trace that calls the run finished has all of its steps and events: the
\* row is read first, and it is written last.
FinishedTraceIsWhole ==
  (reader.pc = "done" /\ reader.finished /\ ~overlapped /\ Dead = {}) =>
    /\ reader.steps = Cardinality(steps)
    /\ reader.retries = Cardinality({s \in steps : s.node = "retry"})

\* Every call of _drive answers or dies, none waits for a human: again and again
\* nothing works on the run.
DriversEnd == []<>AllRest

\* The trace is whole: numbered steps, audited budgets, and a reader that finds
\* the run finished finds all of it.
TraceIsWhole == StepsAreNumbered /\ BudgetsAreAudited /\ FinishedTraceIsWhole

\* The end that is recorded of a run is one that its thread has come to.
EndIsReal == RowTellsTheThread /\ CompletedIsReal
=============================================================================
