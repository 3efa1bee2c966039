----------------------------- MODULE ApiStartup -----------------------------
(***************************************************************************)
(* The boot of the API's workers (apps/api/main.py) and the setup of the   *)
(* checkpointer's tables (apps/orchestrator/checkpointer.py).  Workers     *)
(* start together, crash and start again, on a database where others (an   *)
(* earlier release, the MCP server, a command) may have a transaction open *)
(* for as long as they like.                                               *)
(*                                                                         *)
(* AsyncPostgresSaver.setup is external: a list of statements, each of     *)
(* which does nothing if it has been done, and otherwise waits for all     *)
(* that was at work in the database when it began (CREATE INDEX            *)
(* CONCURRENTLY): open transactions, and the SELECT pg_advisory_lock of    *)
(* the workers in the queue, which the database does not see to be waiting *)
(* for the waiter, since the lock is of another session.                   *)
(***************************************************************************)
EXTENDS Naturals

CONSTANTS
  Workers,
  Others,       \* other sessions of the database
  Nobody,       \* no session has the advisory lock
  Statements,   \* how many statements setup has
  MaxBoots      \* bound: how often a worker is started

ASSUME StartupAssumption ==
  Statements \in Nat /\ MaxBoots \in Nat /\ Nobody \notin Workers /\ Workers \cap Others = {}

VARIABLES
  worker,     \* the lifespan of each worker
  advisory,   \* who has the advisory lock
  tables,     \* how many statements have been done
  open        \* the other sessions that have a transaction open

startupVars == <<worker, advisory, tables, open>>

Booting == {"connecting", "queued", "executing", "waiting", "failing", "finishing"}
Lifespan == [pc : Booting \cup {"down", "ready", "failed"}, statement : 1..Statements + 1,
             behind : SUBSET (Workers \cup Others), boots : 0..MaxBoots]

StartupTypeOK ==
  /\ worker \in [Workers -> Lifespan]
  /\ advisory \in Workers \cup {Nobody}
  /\ tables \in 0..Statements
  /\ open \subseteq Others

StartupInit ==
  /\ worker = [w \in Workers |-> [pc |-> "down", statement |-> 1, behind |-> {},
                                  boots |-> 0]]
  /\ advisory = Nobody
  /\ tables = 0
  /\ open = {}

-----------------------------------------------------------------------------
\* lifespan: the engine and the Redis client, neither of which connects
Boot(w) ==
  /\ worker[w].pc \in {"down", "failed"}
  /\ worker[w].boots < MaxBoots
  /\ worker' = [worker EXCEPT ![w] = [pc |-> "connecting", statement |-> 1,
                                      behind |-> {}, boots |-> @.boots + 1]]
  /\ UNCHANGED <<advisory, tables, open>>

\* The guard's connection; an error propagates out of the lifespan.
Connect(w) ==
  /\ worker[w].pc = "connecting"
  /\ \E pc \in {"queued", "failed"} : worker' = [worker EXCEPT ![w].pc = pc]
  /\ UNCHANGED <<advisory, tables, open>>

\* Mutant: the lock is shared.
AcquireShared(w) ==
  /\ worker[w].pc = "queued"
  /\ advisory' = w
  /\ worker' = [worker EXCEPT ![w].pc = "executing"]
  /\ UNCHANGED <<tables, open>>

\* What ends a wait or a transaction lets go of whoever waits for it.
Released(behind, it) == [v \in Workers |-> [behind[v] EXCEPT !.behind = @ \ {it}]]

\* pg_advisory_lock, without a time limit
Acquire(w) ==
  /\ worker[w].pc = "queued"
  /\ advisory = Nobody
  /\ advisory' = w
  /\ worker' = [Released(worker, w) EXCEPT ![w].pc = "executing"]
  /\ UNCHANGED <<tables, open>>

\* A statement of setup: nothing to do, or a wait for what is open now
Execute(w) ==
  LET s == worker[w].statement IN
  /\ worker[w].pc = "executing"
  /\ worker' = [worker EXCEPT ![w] =
       IF s > Statements THEN [@ EXCEPT !.pc = "finishing"]
       ELSE IF s <= tables THEN [@ EXCEPT !.statement = s + 1]
       ELSE [@ EXCEPT !.pc = "waiting",
                       !.behind = open \cup {v \in Workers : worker[v].pc = "queued"}]]
  /\ UNCHANGED <<advisory, tables, open>>

\* Mutant: a statement does its work whether or not it has been done.
CompleteAgain(w) ==
  /\ worker[w].pc = "waiting"
  /\ worker[w].behind = {}
  /\ tables' = tables + worker[w].boots
  /\ worker' = [worker EXCEPT ![w].pc = "executing", ![w].statement = @ + 1]
  /\ UNCHANGED <<advisory, open>>

Complete(w) ==
  /\ worker[w].pc = "waiting"
  /\ worker[w].behind = {}
  /\ tables' = worker[w].statement
  /\ worker' = [worker EXCEPT ![w].pc = "executing", ![w].statement = @ + 1]
  /\ UNCHANGED <<advisory, open>>

\* Mutant: setup runs on the plain DSN, which has no lock_timeout.
WaitOn(w) ==
  /\ worker[w].pc = "waiting"
  /\ worker[w].behind # {}
  /\ UNCHANGED startupVars

\* lock_timeout: the statement fails, and what blocks it is logged
TimeOut(w) ==
  /\ worker[w].pc = "waiting"
  /\ worker[w].behind # {}
  /\ worker' = [worker EXCEPT ![w].pc = "failing", ![w].behind = {}]
  /\ UNCHANGED <<advisory, tables, open>>

\* Mutant: a failed setup is logged and the application serves.
UnlockAndServe(w) ==
  /\ worker[w].pc \in {"failing", "finishing"}
  /\ advisory' = Nobody
  /\ worker' = [worker EXCEPT ![w].pc = "ready"]
  /\ UNCHANGED <<tables, open>>

\* finally: pg_advisory_unlock; an error then stops the boot
Unlock(w) ==
  /\ worker[w].pc \in {"failing", "finishing"}
  /\ advisory' = Nobody
  /\ worker' = [worker EXCEPT ![w].pc = IF @ = "failing" THEN "failed" ELSE "ready"]
  /\ UNCHANGED <<tables, open>>

-----------------------------------------------------------------------------
BeginElsewhere(other) ==
  /\ other \notin open
  /\ open' = open \cup {other}
  /\ UNCHANGED <<worker, advisory, tables>>

EndElsewhere(other) ==
  /\ other \in open
  /\ open' = open \ {other}
  /\ worker' = Released(worker, other)
  /\ UNCHANGED <<advisory, tables>>

\* The process ends, and its sessions with it.
Crash(w) ==
  /\ worker[w].pc \notin {"down", "failed"}
  /\ worker' = [Released(worker, w) EXCEPT
                  ![w] = [@ EXCEPT !.pc = "down", !.behind = {}]]
  /\ advisory' = IF advisory = w THEN Nobody ELSE advisory
  /\ UNCHANGED <<tables, open>>

BootStep(w) ==
  Connect(w) \/ Acquire(w) \/ Execute(w) \/ Complete(w) \/ TimeOut(w) \/ Unlock(w)

StartupNext ==
  \/ \E w \in Workers : Boot(w) \/ BootStep(w) \/ Crash(w)
  \/ \E other \in Others : BeginElsewhere(other) \/ EndElsewhere(other)

\* A boot goes on, and the database grants a lock in the order it was asked for;
\* a transaction may stay open for ever.
StartupFairness == \A w \in Workers : SF_startupVars(BootStep(w))

StartupSpec == StartupInit /\ [][StartupNext]_startupVars /\ StartupFairness

-----------------------------------------------------------------------------
(* Properties                                                              *)

\* Two workers never run the setup statements at the same time, also when the
\* one that ran them crashed: CREATE INDEX CONCURRENTLY cannot be run twice.
OneSetupAtATime ==
  \A v, w \in Workers :
    {worker[v].pc, worker[w].pc} \subseteq {"executing", "waiting"} => v = w

\* A worker that serves requests has the tables a paused run is kept in.
ServingMeansTables ==
  \A w \in Workers : worker[w].pc = "ready" => tables = Statements

\* Every boot comes to an end, although the lock is waited for without a limit
\* and the index waits for transactions that may stay open for ever: again and
\* again no worker is booting.
EveryBootEnds == []<>(\A w \in Workers : worker[w].pc \notin Booting)

\* However the workers boot, crash and boot again: one setup at a time, and no
\* request is served without the tables.
SetupIsSafe == OneSetupAtATime /\ ServingMeansTables
=============================================================================
