# CustOps in TLA+

CustOps runs customer operations (so far: subscription upgrades) as a LangGraph
workflow. A request is classified, planned, researched and assessed; a human may
have to approve it; three systems of record are changed by tools; the result is
read back from all three. This directory holds TLA+ models of that program, the
TLC configurations that check them, and proofs that TLAPS checks.

`PROJECT.json` maps every definition to the lines it models. Paths below are
relative to `src/custops/` in the repository.

## Files

| File | Content |
| --- | --- |
| `WorkflowGraph.tla` | the graph's edges, reducers and budgets, for any nodes |
| `WorkflowGraph_proofs.tla` | its safety properties, proved for every budget |
| `UpgradeWorkflow.tla` | the real nodes, the systems of record, the approval rows; implements `WorkflowGraph` |
| `UpgradeWorkflow_proofs.tla` | its safety and each step of its refinement, proved for every budget, with faults and stops |
| `ApprovalDecision.tla` | the decision endpoint under concurrent deciders |
| `ApprovalDecision_proofs.tla` | its safety, proved for any number of deciders |
| `ToolLayer.tla`, `ToolLayerMC.tla` | tool calls in concurrent database sessions |
| `ToolLayer_proofs.tla` | its safety, proved for any number of sessions, approvals and runs |
| `RunTrace.tla` | what the runner records of a run with several drivers, and who reads it |
| `RunTrace_proofs.tla` | its safety, proved for any number of drivers and any length of run |
| `Credentials.tla` | API tokens: issue, present, expire, revoke |
| `ApiStartup.tla` | the boot of the API's workers and the setup of the checkpointer |
| `ConnectionPool.tla` | the connections that requests hold and wait for |
| `ApiServiceMC.tla` | the last four models in one run |
| `ApiService_proofs.tla` | the safety of tokens, start-up and connections for any number of each, and of the service they make up |
| `Catalogue.tla` | the seeded accounts, plans and users, and who may decide |
| `Assessment.tla` | `decide`: queries, rules, pricing, thresholds and the second opinion |
| `RetainedTasks.tla` | the specialist's tasks and its client |
| `Knowledge.tla` | concurrent ingests of the corpus, and what a search may answer |
| `Chunking.tla` | `chunk_text` over all texts of a small alphabet |
| `Knowledge_proofs.tla` | the safety of both, for any number of ingests and sources, any text and any sizes |
| `Portal.tla` | the legacy portal and the browser that drives it |
| `NodeServicesMC.tla` | the last five models in one run |
| `NodeServices_proofs.tla` | the safety of `Assessment`, `RetainedTasks` and `Portal`, and of the five services together |
| `*.cfg` | one run each, see "Runs" |

    tlc -config UpgradeWorkflow.cfg UpgradeWorkflow
    tlapm WorkflowGraph_proofs.tla

## The system

| Component | State | Operations | Talks to |
| --- | --- | --- | --- |
| Graph, routing, budgets (`apps/orchestrator/graph.py`, `agents/routing.py`, `agents/budgets.py`, `agents/state.py`) | `WorkflowState`, checkpointed per run | edges, `_spend_retry`, `_spend_replan` | nodes |
| Nodes (`agents/nodes.py`, `agents/validation.py`) | none of their own | supervisor, planner, research, decide, approval_gate, execute, validate, notify, complete, escalate | model, tools, approvals table, specialist |
| Runner, checkpointer (`apps/orchestrator/`) | execution, step and event rows; checkpoints; the advisory lock | `start`, `resume`, `_drive`, `ensure_checkpointer_ready` | graph, API |
| Workflow API, pool (`apps/api/`, `db/engine.py`) | connections | boot, start a run, read a trace, probes | runner |
| Approval API (`apps/api/routers/approvals.py`) | approvals table | list, get, `decide_approval` | authority policies, runner |
| Authority policies (`domain/policies/`) | none | `check_authority`, `check_decidable`, `is_stale`, `is_permitted` | API, tools |
| Authentication (`apps/api/security/`) | tokens, users, roles | `get_principal`, `require`, issue, revoke | API |
| Tool layer (`mcp/tools/`, `mcp/permissions/`) | `tool_calls`, `consumed_at` | `execute_tool`, `verify_approval`, handlers | services, portal |
| MCP server (`mcp/server/app.py`) | one session per call | nine tools | tool layer |
| Enterprise services, assessment, rules (`apps/enterprise/`, `domain/rules/`) | customers, subscriptions, contracts, invoices, tickets | queries, `apply_plan_change`, `update_account_plan_reference`, `assess_upgrade` | nodes, tools |
| Provisioning and legacy portal (`provisioning/`, `apps/legacy_portal/`) | entitlements, portal sessions | `set_tier`, `read_tier`, the portal's pages | tools |
| Billing specialist (`apps/billing_specialist/`, `a2a/`) | retained tasks | answer, fetch a task | decide |
| Knowledge (`knowledge/`) | documents, chunks | ingest, search | research |
| Seed data, commands (`domain/seed.py`, `cli.py`) | the catalogue | seed, clear, issue, revoke, ingest | all tables |
| Observability, evaluation, providers, configuration | logs, fixtures | - | everything |

Each part has its hard behaviour:

* **Graph.** Two loops lead back into mutating tools. Termination and the number
  of executions rest on two counters, one of which the other resets, and on
  results that accumulate over plans.
* **Approval gate.** A row is committed, then the run is suspended, for hours,
  possibly into another process. What happens at the resume depends on how the
  interrupted node is run again.
* **Decision endpoint.** Several requests, a session that caches what it has
  read, a commit, and only then the resume. A stop can come between any two.
* **Tool layer.** One approval, three tools, one transaction, a savepoint per
  tool and a portal that no transaction covers. MCP calls run next to it.
* **Runner.** Rows and events are written around each node, in transactions of
  their own; a raised node ends the stream; nothing keeps two drivers apart.
* **Rules and arithmetic.** Strict thresholds, billing periods, rounding, and two
  readings of the same records, by the node and by the specialist.
* **Tokens.** A request decides on rows it loaded before they were changed.
* **Start-up.** An advisory lock without a time limit, held over an index that
  waits for every transaction of the database.
* **Connections.** A request that starts a run holds one and asks for another.
* **Knowledge.** Long transactions that replace chunks by what their snapshot
  shows; a loop whose progress depends on where a boundary is found.
* **Specialist and portal.** A bounded task store; a browser that may be led to
  the login page at any step, and a change that nobody waits for any more.

## The models

### WorkflowGraph: the topology

`build_graph` receives its nodes, so the topology is specified for *any* nodes: a
node's action assigns an arbitrary value to each field that the node's return
value may carry, and nothing else. `Init` is `initial_state`; the `RouteAfter...`
operators are the conditional edges; `Retry` and `Replan` are the bookkeeping
nodes. The variables are what an edge reads, plus `paused` (suspended in the gate)
and the history variable `executions`. `Raise` is a node that throws: `_drive`
catches nothing, so no edge is followed any more.

This is the abstract specification: what the graph promises to whoever runs it.

### UpgradeWorkflow: the run

The same edges (it instantiates `WorkflowGraph` and calls its operators) with the
nodes of `build_nodes`. State in addition: the plan that billing, the CRM and the
portal have (`old`, `target`, or `other`, a tier the portal confirmed in place of
the one requested), the run's rows in the approvals table, the suspended gate, and
the API requests that have committed a decision and still have to call `resume`.

* `Decide` chooses among the outcomes of the assessment. An account may be blocked
  at any time; it can only be eligible while billing is below the target plan
  (`NOT_AN_UPGRADE` is a blocker).
* `ApprovalGate`, `RecordDecision`, `ResumeGate` and `ReadDecision` are the gate,
  cut where it waits. LangGraph runs an interrupted node again from its first
  line; `"restart"` in `ResumeModes` says so. `"continue"` is the reading in which
  the code after `interrupt()` still has the row it asked for. The passing run
  allows both at each resume, so its properties do not depend on the reading.
* `Execute` is the three tools in one transaction; `Authorisations` is what
  `verify_approval` may answer, given that its `SELECT` has no `ORDER BY`. A
  failing portal call may have taken effect.
* `Validate` appends a non-retryable error whenever a verdict is not PASS, as the
  code does, which is why the retry edge is so hard to reach: the transient error
  that asks for a retry is a portal call that took effect although it failed. Nor
  does a success clear an error. When an older verdict keeps `validate` from
  passing, a retry that succeeded is followed by another one, whose approval is
  already spent (`RetryOnlyWhenConverged` says what is left to do in both).
* `Faulty` lets tools, the portal and reads fail; `Crashes` lets the process stop
  around a resume. `MaxApprovals` bounds how often a restarted gate may add a row.

`Graph!Spec` is the refinement: `paused` is a gate that is not idle, and all
statuses but the two final ones are "in progress".

### ApprovalDecision: the endpoint

Each decider sends one request, and a request is five steps: authenticate, load
and check decidability, read the actor again and check authority, commit row and
event, resume. `seen_role` is the user as the request's session has it. Roles
change, and processes stop, between any two steps. `run` abstracts
`UpgradeWorkflow`: a resumed run refuses, or executes if the row is approved.

### ToolLayer: the tool boundary

A session is an execute node (three tools, one approval, one commit) or one MCP
call. A call is cut at the points where another session can get in: verification,
the handler, the release of the savepoint with its flush, and the commit. `Locked`
is PostgreSQL's row locks under READ COMMITTED: an UPDATE waits for the
transaction that wrote its row, a SELECT does not. `pending` and `spending` are
flushed and uncommitted; `portal` is outside every transaction. Approvals are
decided once here (`ApprovalDecision` has the race) and age.

### RunTrace: what the runner leaves behind

`_drive` runs once for the start of a run and once for every decision. Each call is
a driver: it loads the thread (`OpenStream`), runs nodes on its own copy, writes a
checkpoint after each (`RunNode`), and records a step (`RecordStep`), a budget
event (`RecordBudgetEvent`) and the end (`Snapshot`, `RecordFinished`) in
transactions of their own. `NextSequence` is `MAX + 1`, read once; the unique index
of `(execution_id, sequence)` kills the second driver that uses a number. The
nodes are those of the graph, with their edges; `work` stands for all that the
runner treats alike. `Die` is a node that raises or a process that stops. The
reader is `GET /workflows/{id}`: one statement after the other, under READ
COMMITTED.

### Credentials: tokens

`Present`, `Admit` and `Finish` are a request: the token is one SELECT, its user and
roles are later ones, and `last_used_at` is only kept when the endpoint commits,
which of all endpoints only a recorded decision does. `row` is the token as the
session found it. The operator's commands find and stamp in two steps as well.
Users change next to it: `Deactivate` and `ChangeRole` are edits of the database, and
`Reactivate` is `custops seed`, which activates its users whenever it is run. A user
who was inactive when the token was found may therefore be active when the user is
loaded; `withdrawn` holds of a request whose token was no good when it was presented
and has not come to be good since.

### ApiStartup: the boot

A worker connects, queues for the advisory lock, runs the statements of `setup`
and unlocks; an error stops the boot. A statement that was not done before waits
for what is open (`behind`): transactions of others, and the queries of the
workers that queue for the lock, which are transactions too. `TimeOut` is the
`lock_timeout` that `ensure_checkpointer_ready` sets for the setup's connection.

### ConnectionPool: who holds what

A request authenticates on a connection of its own. A start keeps it while the
runner opens sessions one at a time; a decision has committed before it resumes;
a read gives it back with its answer. `GiveUp` is the pool's timeout.

### Assessment and Catalogue: how an upgrade is decided

`Catalogue` has the seeded plans, accounts and users with their real figures, in
cents and hundredths, and seeding itself. `Assessment` runs `assess_upgrade` on
them, one query per step (`LocalQueries`), while other sessions commit (`Change`);
among them `custops seed`, with and without `--reset`, which puts the rows and the
plans back to the catalogue, dated from the day of the commit (`Reseeded`). The
request may name an account that does not exist.
`Blockers`, `Warnings` and `Triggers` are the rules; `Proration` is the price,
`Prorated` its rounding. The specialist reads again (`RemoteQueries`) and answers,
refuses, or is not there; `Combine` is what `decide` makes of both: it compares the
amounts and takes over an approval, and nothing else. `TimeOutConsult` is every answer
that the client turns into "unavailable"; `MalformedAnswer` is one on which
`_interpret` raises, which ends the run. A half cent of
a fraction that does not end is rounded either way (`tie`): the code divides to 28
digits, and integers do not tell on which side the last digit falls. A
`PricingError` ends the run (`lost`), since nothing catches it.

### RetainedTasks: the specialist's memory

`Retain` is `_record`, with its limit. A message is answered after awaits, so
messages overlap; a client that gave up leaves its task behind.

### Knowledge: the corpus

An ingest is one transaction over all sources. `docs`, `gone` and `rows` are what
of it has reached the database, `pending` what the session has not flushed.
A DELETE takes a snapshot, waits for whoever has locked one of its rows, and
deletes those that are left (`BeginDelete`, `DeleteChunks`); an INSERT waits for
the transaction that inserted the same source, and then meets the unique index. The
flush is cut as well: the documents first (`FlushDocuments`), then the chunks
(`FlushChunks`), which wait for rows that another run has deleted and not
committed. A chunk is a row of the run that inserted it (`by`): an equal chunk of
another run is another row, which a DELETE with an older snapshot does not see. An
UPDATE names the columns that differ from the row as it was loaded: `keeps` has the
documents whose account does not, and `Updated` leaves theirs as it is by then. A
text is one of three: two chunks, one, or none. `Evidence` is every answer that
`retrieve_evidence` may give on what is committed.

### Chunking: `chunk_text`

One turn of the loop per step, with `_find_boundary` as the last match of the
nicest kind. `Write` builds the texts, so that every text up to `MaxLength` is one.

### Portal: the portal and its browser

An operation is the sequence of requests that `playwright_client.py` makes: launch,
login, the list, the account, and for a change the form, its POST (cut between the
read of the entitlement and the commit) and the page the browser is led to. Sessions
are forgotten by a restart. `Written` writes the columns that differ from what was
loaded, as SQLAlchemy does. `since` and `ever` are history, for what is reported.

`custops seed` writes the same row without the portal. It merges, so it is cut between
the load (`SeedLoad`) and the commit (`SeedCommit`), and a change may commit in between.
`--reset` deletes the account and creates it again with the same id in one commit
(`SeedReset`): sessions and browsers go on, and a change that waits for the deleted row
finds none. An account that is not of the catalogue (`catalogued`) is never seeded.

### The two MC modules

`ApiServiceMC` and `NodeServicesMC` conjoin models that share no variable. A
behaviour picks one part and leaves the others as they begin, so each part has
exactly the behaviours of its own specification and the runs stay small. Their
properties are conjunctions of named parts (`TraceIsWhole` is `StepsAreNumbered`,
`BudgetsAreAudited` and `FinishedTraceIsWhole`), and each part has a mutation of
its own in `PROJECT.json`.

## Runs

| Run | Bounds | States | What it shows |
| --- | --- | --- | --- |
| `workflow_graph` | 2 retries, 1 replan | 3,000 | the topology is safe and comes to rest for any nodes |
| `upgrade_workflow` | 2 retries, 1 replan, 4 rows, faults, stops, both resume modes | 168,402 | consent, agreement, the retry edge, refinement |
| `approval_decision` | 2 deciders | 141,376 | authority, audit, ordering, delivery |
| `tool_layer` | 2 sessions, 2 rows, 2 runs, symmetry | 1,590,000 | authorised effects, spending, the trail |
| `api_service` | 3 drivers, 4 nodes deep; 2 requests, 1 token, 1 day; 3 workers, 2 boots; 3 requests, 2 connections | 135,293 | traces and ends of runs, tokens, start-up, connections |
| `node_services` | 7 accounts, 4 targets, 2 changes; 3 messages; 2 ingests, 3 documents, 3 edits; texts of 7; 2 operations, 1 restart, 1 seed command | 684,407 | assessments, tasks, corpus, chunks, provisioning |
| `upgrade_granted` | restart, no faults | - | an approved run is refused (violation) |
| `upgrade_automatic` | no faults | - | an upgrade without approval changes nothing (violation) |
| `upgrade_crash` | stops, no faults | - | a decided run stays paused (violation) |
| `decided_once` | 2 deciders | - | a decision is replaced (violation) |
| `revoked_role` | 2 deciders | - | a revoked role decides (violation) |
| `one_decision_one_action` | as `tool_layer` | - | one approval is spent twice (violation) |

Each property, and what has to go wrong to break it, is described where it is
stated. `PROJECT.json` names for each a mutation of the code that breaks it.

**Why these bounds.** The defaults of `BudgetPolicy` are small: two retries, which
both workflow runs use. With them and one replan every path is there: retry after
replan, replan after retry, a second retry for the error of the first, both
exhausted, and a counter that is neither at its first nor at its last value; the
proofs cover every value. A race for one row
needs two deciders, since a request only interacts with others through the row,
and a third only repeats what the second did. Two sessions suffice likewise for
locks and double spending, and two rows for "the wrong row"; two runs for "the
wrong run". Four rows let a restarted gate come back after a replan and after a
stop. A bound cuts a behaviour off, it never adds one.

In `api_service`, three drivers are a start and two decisions, so that two resumes
meet while the start still streams; paths of four nodes pass the gate twice, or the
gate and a recovery loop. The graph's own topology is checked elsewhere, so longer
paths only add more of the same records. One token is enough because nothing
relates two; two requests and a command are what can be between a read and a write
of it. Three workers put two into the queue while one sets up; two statements make
one that is done and one that is not; a second boot meets what a crash left. Two
connections and three requests are a full pool with somebody outside it.

In `node_services`, all seven seeded accounts are assessed for an upgrade, a plan
that is not one, a plan that is withdrawn and none. Two commits of others are one
before and one between the two readings, or one in each. Three messages overflow a
store of two. Two ingests of two policies and a contract lock each other out in both
orders; three edits are the fewest with which their two UPDATEs can leave a text and
an account that the contract never had together. Seven characters hold three chunks
with every kind of boundary in and out of the search window (`ChunkParameters` names
the cases); the one operator that sees the alphabet, `Nicest`, only looks at classes
of characters. Two operations,
a restart and a seed command cover each cut of one by the other; the account may be of
the catalogue or not, provisioned or not, or not there until it is seeded. The amounts
are the real ones.

**Symmetry** is used in `tool_layer` only: sessions, rows and runs are
interchangeable, nothing is chosen among them, and all its properties are
invariants.

**Fairness.** `WF(Step)` and `WF(Drive)`: the event loop keeps running a task that
can go on, and a driver that stops is `Raise`. `WF(Serve(d))`: the server goes on
with a request it has begun unless it stops. Nobody is assumed to decide, to send
a request, or to resume a run. `ToolLayer` has no fairness and no liveness.

`WF(DriverStep(d))`, `WF(DecideStep)`, `WF(IngestStep(i))`, `WF(RequestStep(r))` are
the same: the event loop, and a database that answers. A driver that dies, an
ingest that fails and a pool that times out are steps of their own, and no
property needs that somebody else gives way. `SF(BootStep(w))` is strong because
the advisory lock comes and goes while a worker queues, and PostgreSQL grants it
in the order it was asked for; the transactions of others may stay open for ever.
Of the portal nothing is assumed: `WF(TimeOut(o))` is the browser's own clock.
`Chunking` needs none: `EveryTurnAdvances` is a step property and, with the type
invariant, a variant.

**Deadlock** is not checked: a run that ended, and a run that waits for a human
nobody owes it, are proper final states.

## Proofs

`WorkflowGraph_proofs` proves, for every `BudgetPolicy` (`BudgetAssumption`: two
natural numbers) and whatever the nodes return, `[]TypeOK`, `[]ExecutionsBounded`,
`[]ExecuteOnlyWithConsent` and `DoubtNeverRepeats`.

None of them is inductive alone. `IInv` adds:

* `BudgetInv`: a bookkeeping node is only entered with budget left, so the
  counters stay within the policy. It follows from `RecoveryWithinBudget`.
* `ExecutionInv`: executions are paid for in advance. `Paid` is `replan_count *
  (MaxRetries + 1) + retry_count`; before execute there are at most `Paid`
  executions, after it at most one more. A retry pays one. A replan pays
  `MaxRetries + 1` and returns at most `MaxRetries`, which is why resetting the
  retry count does not break the bound.
* `ConsentInv`: a refusal never re-enters the graph, so `approval_status` is never
  "rejected" before `decide`, which may leave it as it is.
* `DoubtInv`: once "needs_review" is among the accumulated verdicts the run is at
  escalate or stopped.

`UpgradeWorkflow_proofs` proves, for every budget and every bound on the rows, with
and without faults and stops and for every set of resume modes, `[]TypeOK`,
`[]NothingWithoutConsent`, `[]CompletedMeansAgreement` and
`[]RetryOnlyWhenConverged`; then that each step is a step or a stutter of
`WorkflowGraph` (`Refinement`), and with the invariant of `WorkflowGraph_proofs` that
the real nodes keep the promises made for any nodes (`GraphPromises`).
`UpgradeInv` adds to the types:

* `GateInv`: only `approval_gate` has a gate that is not idle.
* `AgreementInv`: `notify` is only entered when all three systems are on the target
  plan, and after it nothing but `complete` runs, so nothing can undo it.
* `RetryInv`: a transient error that is still the last one when a plan is over came
  from a portal call that took effect, so billing has the target plan and the rules
  stop the next plan before it executes. Hence at the first execution of a plan
  the last error is none, and the error that asks for its first retry is of that
  execution, whose savepoint has given the approval back.

`ApprovalDecision_proofs` proves, for any deciders, the five invariants of its run.
`AuthorityInv` says how far the role that a session has seen has taken its request;
that is all that authority rests on, as roles change under it. `DecidedInv` says
that a decision is only ever replaced, never unmade. Then each request that is
about to record meets the row and the audit as its own commit finds them.

`ToolLayer_proofs` proves, for any sessions, approvals, runs and ages, the six
invariants of its run. `ToolInv` adds to the types:

* `HeldInv`: from the verification of a call to its end the session has the row it
  was authorised by; no decision is taken back in between, although another
  session may spend it.
* `EffectsInv`: each change, flushed, committed or in the portal, is of a session
  that had such a row.
* `LogInv`: a change is flushed with the record of its call, a portal action is
  recorded or about to be. This is what a savepoint that is rolled back must not break.
* `SpendingInv`: a session that spends has no calls left and ended well.
* `OrderInv`: at most one session has a CRM change that is not committed, because of
  the row lock. Two drivers of one run may both verify the approval unspent for
  their first two tools; the second one has to wait for the lock, so its last
  verification finds what the first one committed. `AppliedRunsSpendOnce` follows
  from nothing less.

`RunTrace_proofs` proves, for any finite set of drivers and any length of run,
`[]TraceTypeOK`, `[]TraceIsWhole` and `[]EndIsReal`. `TraceInv` adds to the types:

* `NumberInv`: a driver that counts from where it opened the stream is never ahead of
  the rows, so it takes the next number or one that the unique index refuses.
* `BudgetInv`: an event that is missing is owed by a driver that is alive and about
  to write it, or by one that died; the two are counted from below and from above.
* `LastInv` and `NoticeInv`: a checkpoint beyond `notify` exists only when somebody
  has visited it, and whoever writes `workflow_completed` has seen such a checkpoint.
* `StarterInv`: the run begins with its starter; nobody can resume it before.
* `AloneInv` and `ReaderInv`: as long as no two drivers met and none died, the one
  that works has the thread as it is, a finished row leaves nothing to write, and
  what a reader has counted so far stays true.

`ApiService_proofs` proves the three other parts of the API service, each for itself,
and then the service. Of tokens, for any users, tokens, requests and commands and any
number of days, `[]TokensAreUsedInTime` and `RevocationIsFinal`. `CredInv` adds to the
types:

* `RowsInv`: the row a request works on still exists, with the user, the day of
  issue and the expiry that it had when it was read. That, and not that the row is
  current, is what a late write relies on.
* `ClockInv`: no row was issued in the future, and what was admitted was admitted
  within the lifetime of its row.
* `WithdrawnInv`: what was no good when it was found is no good when it is checked,
  unless its user was activated in between: the row is the one that was found, days only
  pass, and a revocation and an expiry are for good. Only the activation of a user takes
  the mark `withdrawn` away, and only from a request whose row is good with that user.

Of the start-up, for any number of workers, other sessions, statements and boots,
`[]SetupIsSafe`. `LockInv` ties the lock to the places in which a worker has it;
`ProgressInv` relates the tables to the statement that each worker is at, which is why
a worker that skips what is done and one that waits agree on what "done" is. Nothing
is assumed of the waits. Of connections, for any number of requests and any capacity,
`[]OnlyStartsHoldAndWait`. `HoldingInv` says which endpoint may hold which connection
where; then a pool that is full of requests that wait has no second connection lent,
and counts starts. `PartsApart` has each step of the service as a step of one part and
a stutter of the others, so the four invariants hold together and `[]ApiTypeOK`
follows (`ServiceTyped`).

`Knowledge_proofs` proves of the corpus, for any policies, contracts, accounts and
edits and any number of ingests, `[]KnowledgeTypeOK`, `[]CorpusIsSound` and
`RewriteNeedsNewText`. `KnowledgeInv` adds to the types:

* `StoredInv` and `WritesWhatWas`: whatever a run has read, and will write, its
  source has been; the texts and the accounts each for themselves when runs met.
* `TakesOnce`: a run takes each source once, so what it has flushed, what it has still
  to flush, and what is before it are of different sources.
* `WritesInTurn`: of a source that a run has written it has all chunks or is about to
  insert them.
* `WholeInv` and `DeletesWhole`: chunks that were inserted together are deleted
  together: a snapshot, what a run deletes and what is stored are of one text and one
  run. Two such sets are equal or have nothing in common (`WholesMeet`), so to find one
  chunk gone is to find them all gone.
* `LocksOut`: a document is flushed by one run at a time, and from its new chunks to
  the commit no row is left that the run has not deleted. Here the unique index does
  its work: it is only passed when nothing of another run is in the way. A blank text
  does not meet it, which is what `LeftBehind` is about.
* `Alone` and `KeepsAccounts`: a run that met nobody deletes all there is, has a new
  text to write, and finds the account that it need not write.

Of `chunk_text`, for every text, `max_chars` and `overlap_chars`, it proves
`[]ChunkTypeOK`, `[]ChunksCoverTheText` and `EveryTurnAdvances`. `ChunkInv` says that up
to the position everything that has to be together is together in a chunk, and
that no chunk ends beyond what the overlap takes back. The boundary is the last of a
set of matches; that a set of numbers has a least and a greatest element is taken
from the library's theorem that the strict subsets of a finite set are well founded,
not by induction (`HasMin`, `HasMax`).

`NodeServices_proofs` proves the other three services and the five together.

* Tasks, for any messages and any limit: `[]TasksAreAnswered`. `WindowInv` compares the
  retained tasks with those recorded index by index, and `AnswerInv` has every
  message recorded once, also when its client gave up first.
* Portal, for any number of operations, restarts and seed commands:
  `[]ReportsAreTrue` and `ChangesAreSignedIn`. `SeedInv` says that what a seed command
  has loaded is something that the account has held. `Sound` says what the place of a browser tells of its change:
  only a timeout may leave one begun, and a change that has begun has a session, since
  the restart that forgets the session ends the change with it.
* Assessment, through any number of changes of the records and any days:
  `[]SecondOpinionOnlyAdds`, `[]NoneIsStranded` and `[]AssessmentsAreRight`. `ReadingInv`
  says that a session has read each query or has it still before it, after the one it
  builds on; so a decision stands on a complete reading. `VerdictInv` has the verdict as
  the rules make it from that reading, each line of the invoice within half a cent
  of the exact price (`Priced`), and the approval as what either reading asks for. The
  two lines together are within a cent, by arithmetic over all prices, seats and
  periods (`LineToTheCent`, `InvoicesAddUp`). That a run is lost only outside the period
  it read, or by a malformed answer (`LossesHaveReason`), is part of the invariant.
  `SeededInv` follows an account that nobody
  changes from the seed to its verdict, and computes the announced paths account by
  account.
* `ServicesApart`: a step of the whole is a step of one service and a stutter of the
  others. Hence `ServicesInv`, the conjunction of the five invariants, `[]ServicesTypeOK`
  and `WritesHaveCause` of the whole.

The step lemmas have one case per action. All these invariants also hold in TLC on
the instances of the runs.

The assumptions are those of the modules, named there: budgets and bounds are natural
numbers, a resume mode is one of the two, "nobody" and "none" are no decider and no
row, the pool and the store of tasks hold at least one, and the drivers of a run (with
the starter among them) and the requests of a process are finite sets, so that there
is a number of rows and of connections to speak of.

Of tokens it is assumed that there is one and that NULL is neither a day nor a row,
and of the corpus that "every account" is none of the accounts, that no source is both a
policy and a contract, and that a contract belongs to an account.

Every invariant and action property that a passing run checks is stated by a theorem.
Only TLC checks liveness: `EventuallyAtRest`, `DecisionReachesTheRun`, `ApiComesToRest`,
`ServicesComeToRest` (of which `EveryTurnAdvances` is proved), and of `RefinesGraph` the
fairness of the graph. Neither fairness nor ENABLED is in reach of the provers.

A theorem about one part is about its own specification. The runs `api_service` and
`node_services` conjoin parts, and so do `ServiceTyped`, `ServicesTyped` and
`CausedWrites`, which are about `ApiSpec` and `ServicesSpec`.

## Disagreements between the code and what is said of it

1. `README.md:63`: resuming continues rather than replays. The gate is run again,
   commits a second row and reads that one; an approved run escalates
   (`upgrade_granted`).
2. `domain/seed.py:121`: the happy path upgrades without approval. Without a row
   every mutating tool refuses (`upgrade_automatic`).
3. `apps/api/routers/approvals.py:10`: a stop between commit and resume leaves a
   resumable workflow. Nothing can resume it (`upgrade_crash`).
4. `domain/policies/approval_authority.py:135`: decided exactly once. Two
   concurrent requests both decide (`decided_once`).
5. `apps/api/routers/approvals.py:159`: a role revoked mid-session cannot approve.
   The session does not refresh the user (`revoked_role`).
6. `mcp/tools/approval.py:106`: one decision authorises one action. Two sessions
   spend one row (`one_decision_one_action`).

Met on the way and not the subject of a run; the models do what the code does.

Of runs and approvals:

* `agents/validation.py:13-15` lets any NEEDS_REVIEW downgrade the set,
  `overall_verdict` lets FAIL win.
* `domain/models/approval.py:118` writes tool calls before and after the attempt,
  `_record` writes once, after it.
* A contract that requires the customer's approval is a finding of the rules and
  never sends a run to the gate.
* The specialist's `billing_eligible` and its blockers are recorded and not used by
  `decide` (`agents/nodes.py:520-530`): a contract that is locked, or an invoice that
  becomes overdue, between the two readings is found, told and ignored as long as the
  amounts agree. `ConsultedMeansTwice` claims no more than what is compared. The blockers CONTRACT_NOT_ACTIVE and SUBSCRIPTION_NOT_ACTIVE cannot
  occur, because the queries select active rows.
* A run that pauses is recorded with WORKFLOW_FAILED. A start that lingers can
  overwrite the status of a run that was resumed meanwhile.
* `duration_ms` of a step measures the writing of rows, not the node
  (`apps/orchestrator/runner.py:193-199`). The timeline compares tiebreaks of different kinds
  (`observability/trace.py:162`).

Of tokens, start-up and connections:

* `last_used_at` is lost by every endpoint but the decision.
* Two concurrent revocations both stamp, and the later stamp stays;
  `apps/api/security/issuance.py:107-111` says the first is kept.
* `apps/orchestrator/checkpointer.py:54-58` has the losers of the advisory lock find the indexes
  already there. While they queue, their query is a transaction that CREATE INDEX
  CONCURRENTLY waits for: on a fresh database the first worker runs into its
  `lock_timeout` and fails its boot as long as another one queues.
* `create_database` says that the API starts when PostgreSQL is unreachable; the
  lifespan then fails in `ensure_checkpointer_ready`.

Of assessments, corpus and portal:

* `_interpret` says that a malformed body "is treated as unavailability"
  (`a2a/client/billing.py:171-175`). A `status` that is no object, or `parts` that
  cannot be iterated, raises instead (`a2a/client/billing.py:181`, `:219`; falsy values
  excepted), and nothing up to the runner catches it: the run is lost within its billing
  period (`MalformedAnswer`).
* Half a cent of a fraction that does not end in 28 digits is rounded by its last
  digit, not half up.
* `_ingest_many` counts a text that changed to nothing as unchanged. An equal hash
  skips changes of owner, title and category, so an owner that a stale run wrote
  is not corrected by the next one. Two updates of one document that meet can leave the
  text that one has read with the account that the other has read, a pair that the
  contract never was (`StoredWasOnceTrue` says how far this goes). Two runs that meet
  over a text that became blank can leave chunks under it, although
  `knowledge/ingestion/pipeline.py:101-102` says "Replace, never append" (`LeftBehind`).
* `chunk_text` says that an overlap as large as the chunk would not terminate; the
  `max(..., position + 1)` makes it terminate. When `max_chars` less the search window is
  not larger than the overlap, chunks may repeat each other.
* A session that the portal lost is reported as ACCOUNT_NOT_FOUND, or as an account
  without a tier; a login that hangs as LOGIN_FAILED; a refused connection is no
  ProvisioningError at all. TIER_REJECTED, CONFIRMATION_MISSING and UNEXPECTED are hardly
  raised: a tier that the form does not offer times out in the browser.
* A change that timed out in the browser may commit later. Two changes of one row
  at a time can leave the tier of one and the seats of the other.
* Seeding again re-activates its users and overwrites what was changed, and leaves what
  was added; the tier and the seats of an entitlement among it, which the portal is not
  asked about (`domain/seed.py:524-533`).

## External behaviour that is assumed

* LangGraph: one node per superstep, `operator.add` reducers, `interrupt()` and
  `Command(resume=...)`, a checkpoint after each node.
* PostgreSQL: READ COMMITTED, row locks held to the end of the transaction,
  savepoints, a cycle of waits is ended by failing one of them.
* SQLAlchemy: flush at the release of a savepoint and at commit (`autoflush` is
  off), rows of a session are not refreshed by a later select while they are
  referenced. `verify_approval` reads its row again in each call, because nothing
  keeps it alive in between.
* The portal shows what it has, or cannot be read.
* `AsyncPostgresSaver.setup`: a list of statements that do nothing when they have
  been done; PostgreSQL's `CREATE INDEX CONCURRENTLY` waits for the transactions
  that were open when it began, queries in the queue for an advisory lock included.
* SQLAlchemy's pool lends up to its size and overflow, and its UPDATE names the
  columns that changed; the flush orders the rows of a parent before its children's.
* PostgreSQL's DELETE works on its snapshot, waits for rows that another
  transaction has deleted, and skips those that are gone.

## Not modelled

* Two drivers of one thread with the real nodes: `RunTrace` has the drivers with
  abstract nodes, `ToolLayer` two workflow sessions of one run, which is what they
  would do to the database.
* In `UpgradeWorkflow`, a run whose node raised is taken as ended; `RunTrace` has its
  later resume.
* Account, contract and invoice data that change during a pause: nothing reads
  them again. `Assessment` has the changes up to the decision.
* Admin as the role of a tool session, and users with several roles.
* Read permissions and read tools, which only keep a query from being made; the
  order of the timeline, which is computed from rows that `RunTrace` has.
* Signing out of the portal and searching it, which no client does.
* Language model and embedding providers: network calls without state, whose answers
  and failures are choices of the nodes and of an ingest.
* Evaluation (offline scoring of written traces), configuration, migrations, logging
  and redaction: no behaviour over time, or text only.

## Plan

The plan is done: the workflow, its approvals and its tools; the runner's records,
tokens, start-up and connections; the services behind the nodes. All of their safety is
proved. What would be worth adding:

1. The real nodes (`UpgradeWorkflow`) under two drivers of one thread, to have in one
   model what `RunTrace` and `ToolLayer` show of each side.
2. The timeline of `observability/trace.py`, as an order of the rows that `RunTrace` has.
3. Liveness, when the provers reach fairness.
