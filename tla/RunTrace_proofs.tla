--------------------------- MODULE RunTrace_proofs ---------------------------
(***************************************************************************)
(* For any number of drivers of a run and runs of any length: the trace is *)
(* numbered and audited, what is recorded of its end has happened, and a   *)
(* reader that finds the run finished finds all of it.                     *)
(***************************************************************************)
EXTENDS RunTrace, FiniteSetTheorems, TLAPS

StepsOf(node) == {s \in steps : s.node = node}
StepsBy(d) == {s \in steps : s.by = d}

\* Drivers that have recorded a visit to this node and not its event, or died
\* on the way.
Owing(node) == {d \in Drivers : driver[d].pc = "counting" /\ driver[d].last = node}
MayOwe(node) == {d \in Drivers : driver[d].pc \in {"counting", "dead"}
                                 /\ driver[d].last = node}

\* A driver that counts from where it opened the stream is never ahead.
NumberInv ==
  /\ IsFiniteSet(steps)
  /\ StepsAreNumbered
  /\ \A d \in Drivers :
       /\ driver[d].pc \in {"streaming", "visited"} =>
            driver[d].sequence <= Cardinality(steps)
       /\ driver[d].pc = "counting" => driver[d].sequence < Cardinality(steps)

\* Every driver that is about to record an event owes one.
BudgetInv ==
  \A node \in Budget :
    Cardinality(StepsOf(node)) - audit[node]
      \in Cardinality(Owing(node))..Cardinality(MayOwe(node))

-----------------------------------------------------------------------------
\* What a driver has visited and not yet recorded.
LastInv ==
  \A d \in Drivers :
    /\ driver[d].pc \in {"idle", "starting", "opening", "streaming"} =>
         driver[d].last = "end"
    /\ driver[d].pc = "visited" => driver[d].last \in Node
    /\ driver[d].pc = "counting" => driver[d].last \in Budget

Noticed == \/ \E s \in steps : s.node = "notify"
           \/ \E d \in Drivers : driver[d].last = "notify"

\* No copy of the thread is past the notice that nobody has sent.
Honest(checkpoint) ==
  checkpoint.next = "complete" \/ checkpoint.status = "completed" => Noticed

NoticeInv ==
  /\ Honest(thread)
  /\ \A d \in Drivers : Honest(driver[d].own) /\ Honest(driver[d].seen)
  /\ audit["workflow_completed"] > 0 => Noticed

-----------------------------------------------------------------------------
\* The run begins with its starter.
StarterInv ==
  /\ \A d \in Drivers : driver[d].pc = "starting" => d = Starter
  /\ driver[Starter].pc \in {"idle", "starting"} =>
       /\ asked = 0 /\ ~execution.exists
       /\ \A d \in Drivers \ {Starter} : driver[d].pc = "idle"
  /\ execution.finished => execution.exists

Settled(checkpoint) == checkpoint.interrupted \/ checkpoint.next = "end"

\* As long as no two drivers met and none died, the one that works has the
\* thread as it is, and after a finish there is nothing left to do.
AloneInv ==
  ~overlapped /\ Dead = {} =>
    /\ \A d, e \in Drivers : Working(d) /\ Working(e) => d = e
    /\ thread.interrupted => thread.next = "gate"
    /\ \A d \in Drivers :
         /\ driver[d].pc \in {"streaming", "asking", "visited", "counting"} =>
              driver[d].own = thread
         /\ driver[d].pc = "asking" => driver[d].own.next = "gate"
         /\ driver[d].pc \in {"drained", "closing"} => Settled(thread)
         /\ driver[d].pc = "closing" => driver[d].seen = thread
    /\ execution.finished =>
         /\ thread.next = "end"
         /\ \A d \in Drivers : driver[d].pc \notin {"asking", "visited", "counting"}

\* What a reader of a finished run has got so far is still all there is.
ReaderInv ==
  ~overlapped /\ Dead = {} =>
    /\ reader.pc # "idle" => execution.finished
    /\ reader.pc \in {"steps", "done"} => reader.steps = Cardinality(steps)
    /\ reader.pc = "done" => reader.retries = Cardinality(StepsOf("retry"))

TraceInv == /\ TraceTypeOK /\ NumberInv /\ BudgetInv /\ LastInv /\ NoticeInv
            /\ StarterInv /\ AloneInv /\ ReaderInv /\ RowTellsTheThread

-----------------------------------------------------------------------------
Acts(d) == StartRun(d) \/ ResumeRun(d) \/ DriverStep(d) \/ Die(d)
Reads == ReadRow \/ ReadSteps \/ ReadEvents

\* What the next node needs leaves room for it.
LEMMA RunsAreBounded ==
  ASSUME NEW checkpoint \in Checkpoint, checkpoint.next # "end",
         NEW n \in Successors(checkpoint.next, checkpoint.depth + 1)
  PROVE  /\ n \in Position
         /\ checkpoint.depth + 1 \in 0..MaxDepth
         /\ \A status \in StatusesAfter(checkpoint.next, n, checkpoint.status) :
              status \in {"running", "completed", "escalated"}
<1>1. checkpoint.next \in Node /\ checkpoint.depth \in 0..MaxDepth
  BY DEF Checkpoint, Position
<1>2. n \in Edges(checkpoint.next) /\ checkpoint.depth + 1 + Needs(n) <= MaxDepth
  BY DEF Successors
<1>3. n \in Position
  BY <1>1, <1>2 DEF Edges, Node, Budget, Position
<1>4. Needs(n) \in Nat
  BY <1>3 DEF Needs, Position, Node, Budget
<1>5. checkpoint.depth + 1 \in 0..MaxDepth
  BY <1>1, <1>2, <1>4, DriverAssumption
<1>6. \A status \in StatusesAfter(checkpoint.next, n, checkpoint.status) :
        status \in {"running", "completed", "escalated"}
  BY <1>1 DEF StatusesAfter, Node
<1> QED BY <1>3, <1>5, <1>6

\* A step of a driver is no step of another one.
LEMMA OthersUntouched ==
  ASSUME TraceTypeOK, NEW d \in Drivers, Acts(d), NEW e \in Drivers \ {d}
  PROVE  driver'[e] = driver[e]
<1> USE DEF TraceTypeOK
<1>1. CASE StartRun(d)
  BY <1>1 DEF StartRun
<1>2. CASE ResumeRun(d)
  BY <1>2 DEF ResumeRun
<1>3. CASE RecordStarted(d)
  BY <1>3 DEF RecordStarted
<1>4. CASE OpenStream(d)
  BY <1>4 DEF OpenStream
<1>5. CASE RunNode(d)
  BY <1>5 DEF RunNode
<1>6. CASE AskForApproval(d)
  BY <1>6 DEF AskForApproval
<1>7. CASE Interrupt(d)
  BY <1>7 DEF Interrupt
<1>8. CASE RecordStep(d)
  BY <1>8 DEF RecordStep
<1>9. CASE RecordBudgetEvent(d)
  BY <1>9 DEF RecordBudgetEvent
<1>10. CASE StreamEnds(d)
  BY <1>10 DEF StreamEnds
<1>11. CASE Snapshot(d)
  BY <1>11 DEF Snapshot
<1>12. CASE RecordFinished(d)
  BY <1>12 DEF RecordFinished
<1>13. CASE Die(d)
  BY <1>13 DEF Die
<1> QED
  BY <1>1, <1>2, <1>3, <1>4, <1>5, <1>6, <1>7, <1>8, <1>9, <1>10, <1>11, <1>12, <1>13
  DEF Acts, DriverStep

\* What a node writes is a checkpoint.
LEMMA RunNodeWrites ==
  ASSUME TraceTypeOK, NEW d \in Drivers, RunNode(d)
  PROVE  /\ driver[d].pc = "streaming" /\ driver[d].own.next \in Node
         /\ driver[d].own.next = "gate" => driver[d].answer
         /\ thread' \in Checkpoint /\ ~thread'.interrupted
         /\ thread'.next \in Edges(driver[d].own.next)
         /\ thread'.status \in StatusesAfter(driver[d].own.next, thread'.next,
                                             driver[d].own.status)
         /\ driver'[d] = [driver[d] EXCEPT !.pc = "visited", !.own = thread',
                            !.last = driver[d].own.next,
                            !.answer = @ /\ driver[d].own.next # "gate"]
         /\ driver' = [driver EXCEPT ![d] = driver'[d]]
<1> DEFINE own == driver[d].own
<1>1. own \in Checkpoint /\ driver[d] \in DriverState /\ thread.id \in Nat
  BY DEF TraceTypeOK, DriverState, Checkpoint
<1>2. driver[d].pc = "streaming" /\ own.next \in Node /\ (own.next = "gate" => driver[d].answer)
  BY <1>1 DEF RunNode, Checkpoint, Position
<1>3. PICK n \in Successors(own.next, own.depth + 1) :
        \E status \in StatusesAfter(own.next, n, own.status) :
          /\ thread' = [id |-> thread.id + 1, depth |-> own.depth + 1, next |-> n,
                        interrupted |-> FALSE, status |-> status]
          /\ driver' = [driver EXCEPT ![d].pc = "visited", ![d].own = thread',
                                      ![d].last = own.next,
                                      ![d].answer = @ /\ own.next # "gate"]
  BY DEF RunNode
<1>4. /\ thread' \in Checkpoint /\ ~thread'.interrupted /\ thread'.next = n
      /\ thread'.status \in StatusesAfter(own.next, n, own.status)
  <2>1. PICK status \in StatusesAfter(own.next, n, own.status) :
          thread' = [id |-> thread.id + 1, depth |-> own.depth + 1, next |-> n,
                     interrupted |-> FALSE, status |-> status]
    BY <1>3
  <2>2. own.next # "end"
    BY DEF RunNode
  <2>3. /\ n \in Position /\ own.depth + 1 \in 0..MaxDepth
        /\ status \in {"running", "completed", "escalated"}
    BY <1>1, <2>2, RunsAreBounded
  <2> QED BY <1>1, <2>1, <2>3 DEF Checkpoint
<1>5. n \in Edges(own.next)
  BY <1>3 DEF Successors
<1>6. driver'[d] = [driver[d] EXCEPT !.pc = "visited", !.own = thread', !.last = own.next,
                                     !.answer = @ /\ own.next # "gate"]
  BY <1>1, <1>3 DEF TraceTypeOK
<1>7. driver' = [driver EXCEPT ![d] = driver'[d]]
  BY <1>1, <1>3 DEF TraceTypeOK
<1> QED BY <1>2, <1>3, <1>4, <1>5, <1>6, <1>7

-----------------------------------------------------------------------------
\* A driver that is gone.
LEMMA GoneState ==
  ASSUME TraceTypeOK, NEW d \in Drivers, NEW how \in {"answered", "dead"}
  PROVE  /\ Gone(d, how) \in DriverState
         /\ Gone(d, how).pc = how /\ Gone(d, how).last = driver[d].last
         /\ Gone(d, how).visited = driver[d].visited
         /\ Gone(d, how).own = FirstCheckpoint /\ Gone(d, how).seen = FirstCheckpoint
<1>1. FirstCheckpoint \in Checkpoint
  BY DriverAssumption DEF FirstCheckpoint, Checkpoint, Position, Node
<1>2. driver[d] \in DriverState
  BY DEF TraceTypeOK
<1> QED BY <1>1, <1>2 DEF Gone, DriverState

\* What RecordStep does: the visit has the next number, or the driver dies.
LEMMA RecordStepWrites ==
  ASSUME TraceTypeOK, NEW d \in Drivers, RecordStep(d)
  PROVE  /\ driver[d].pc = "visited"
         /\ UNCHANGED <<execution, audit, thread, asked, reader, overlapped>>
         /\ \/ /\ driver' = [driver EXCEPT ![d] = Gone(d, "dead")] /\ steps' = steps
               /\ \E s \in steps : s.sequence = driver[d].sequence
            \/ /\ \A s \in steps : s.sequence # driver[d].sequence
               /\ steps' = steps \cup {[sequence |-> driver[d].sequence,
                                        node |-> driver[d].last, by |-> d]}
               /\ driver'[d].visited = driver[d].visited + 1
               /\ driver'[d].own = driver[d].own /\ driver'[d].seen = driver[d].seen
               /\ driver[d].last \in Budget =>
                    /\ driver'[d].pc = "counting" /\ driver'[d].last = driver[d].last
                    /\ driver'[d].sequence = driver[d].sequence
               /\ driver[d].last \notin Budget =>
                    /\ driver'[d].pc = "streaming" /\ driver'[d].last = "end"
                    /\ driver'[d].sequence = driver[d].sequence + 1
               /\ driver'[d] \in DriverState
               /\ driver' = [driver EXCEPT ![d] = driver'[d]]
<1>1. driver[d] \in DriverState /\ driver[d].pc = "visited"
  BY DEF TraceTypeOK, RecordStep
<1>2. UNCHANGED <<execution, audit, thread, asked, reader, overlapped>>
  BY DEF RecordStep
<1>3. CASE \E s \in steps : s.sequence = driver[d].sequence
  BY <1>1, <1>2, <1>3 DEF RecordStep
<1>4. CASE \A s \in steps : s.sequence # driver[d].sequence
  <2> DEFINE spends == driver[d].last \in Budget
  <2>1. /\ steps' = steps \cup {[sequence |-> driver[d].sequence,
                                 node |-> driver[d].last, by |-> d]}
        /\ driver' = [driver EXCEPT
               ![d].pc = IF spends THEN "counting" ELSE "streaming",
               ![d].sequence = IF spends THEN @ ELSE @ + 1,
               ![d].last = IF spends THEN @ ELSE "end",
               ![d].visited = @ + 1]
    BY <1>4 DEF RecordStep
  <2> DEFINE after == [driver[d] EXCEPT !.pc = IF spends THEN "counting" ELSE "streaming",
                                        !.sequence = IF spends THEN @ ELSE @ + 1,
                                        !.last = IF spends THEN @ ELSE "end",
                                        !.visited = @ + 1]
  <2>2. driver' = [driver EXCEPT ![d] = after] /\ driver'[d] = after
    BY <2>1 DEF TraceTypeOK
  <2>3. after \in DriverState
    <3>1. /\ (IF spends THEN "counting" ELSE "streaming") \in AtWork
          /\ (IF spends THEN driver[d].sequence ELSE driver[d].sequence + 1) \in Nat
          /\ (IF spends THEN driver[d].last ELSE "end") \in Position
          /\ driver[d].visited + 1 \in Nat
      BY <1>1 DEF DriverState, AtWork, Position
    <3> QED BY <1>1, <3>1 DEF DriverState
  <2>4. /\ after.visited = driver[d].visited + 1
        /\ after.own = driver[d].own /\ after.seen = driver[d].seen
        /\ spends => /\ after.pc = "counting" /\ after.last = driver[d].last
                     /\ after.sequence = driver[d].sequence
        /\ ~spends => /\ after.pc = "streaming" /\ after.last = "end"
                      /\ after.sequence = driver[d].sequence + 1
    BY <1>1 DEF DriverState
  <2> QED BY <1>1, <1>2, <1>4, <2>1, <2>2, <2>3, <2>4
<1> QED BY <1>3, <1>4

\* The next number is the number of the steps there are.
LEMMA NextIsCardinality ==
  ASSUME TraceTypeOK, NumberInv
  PROVE  NextSequence = Cardinality(steps)
<1>1. Cardinality(steps) \in Nat /\ {s.sequence : s \in steps} = 0..Cardinality(steps) - 1
  BY FS_CardinalityType DEF NumberInv, StepsAreNumbered
<1>2. \A s \in steps : s.sequence \in 0..Cardinality(steps) - 1
  BY <1>1
<1>3. CASE steps = {}
  BY <1>3, FS_EmptySet DEF NextSequence
<1>4. CASE steps # {}
  <2>1. Cardinality(steps) # 0
    BY <1>2, <1>4
  <2>2. Cardinality(steps) - 1 \in {s.sequence : s \in steps}
    BY <1>1, <2>1
  <2>3. PICK last \in steps : last.sequence = Cardinality(steps) - 1
    BY <2>2
  <2>4. /\ Cardinality(steps) \in {s.sequence + 1 : s \in steps}
        /\ \A s \in steps : s.sequence < Cardinality(steps)
    BY <1>1, <1>2, <2>3
  <2>5. ASSUME NEW n \in {s.sequence + 1 : s \in steps}, \A s \in steps : s.sequence < n
        PROVE  n = Cardinality(steps)
    BY <1>1, <1>2, <2>3, <2>5
  <2> QED BY <1>4, <2>4, <2>5 DEF NextSequence
<1> QED BY <1>3, <1>4

-----------------------------------------------------------------------------
\* Every variable keeps its type.
LEMMA TypeStep ==
  ASSUME TraceTypeOK, NumberInv, LastInv, [TraceNext]_traceVars
  PROVE  TraceTypeOK'
<1>n. Cardinality(steps) \in Nat /\ NextSequence \in Nat
  BY NextIsCardinality, FS_CardinalityType DEF NumberInv
<1>1. CASE UNCHANGED traceVars
  BY <1>1 DEF traceVars, TraceTypeOK
<1>2. CASE Reads
  BY <1>2, <1>n DEF Reads, ReadRow, ReadSteps, ReadEvents, TraceTypeOK
<1>3. ASSUME NEW d \in Drivers, Acts(d) PROVE TraceTypeOK'
  <2>d. /\ driver[d] \in DriverState /\ thread \in Checkpoint
        /\ driver \in [Drivers -> DriverState]
    BY DEF TraceTypeOK
  <2>1. CASE StartRun(d)
    BY <2>1 DEF StartRun, TraceTypeOK, DriverState, AtWork
  <2>2. CASE ResumeRun(d)
    <3>1. [driver[d] EXCEPT !.pc = "opening", !.answer = TRUE] \in DriverState
      BY <2>d DEF DriverState, AtWork
    <3>2. driver' \in [Drivers -> DriverState]
      BY <2>d, <2>2, <3>1 DEF ResumeRun
    <3>3. asked' \in Nat /\ overlapped' \in BOOLEAN
      BY <2>2 DEF ResumeRun, TraceTypeOK
    <3> QED BY <2>2, <3>2, <3>3 DEF ResumeRun, TraceTypeOK
  <2>3. CASE RecordStarted(d)
    BY <2>3 DEF RecordStarted, TraceTypeOK, DriverState, AtWork, Status
  <2>4. CASE OpenStream(d)
    <3>1. [driver[d] EXCEPT !.pc = "streaming", !.own = thread, !.sequence = NextSequence]
            \in DriverState
      BY <2>d, <1>n DEF DriverState, AtWork
    <3>2. driver' \in [Drivers -> DriverState]
      BY <2>d, <2>4, <3>1 DEF OpenStream
    <3> QED BY <2>4, <3>2 DEF OpenStream, TraceTypeOK
  <2>5. CASE RunNode(d)
    <3>1. driver'[d] \in DriverState
      <4>1. (driver[d].answer /\ driver[d].own.next # "gate") \in BOOLEAN
        OBVIOUS
      <4>2. driver[d].own.next \in Position /\ thread' \in Checkpoint
        BY <2>5, RunNodeWrites DEF Position
      <4>3. [driver[d] EXCEPT !.pc = "visited", !.own = thread', !.last = driver[d].own.next,
                              !.answer = @ /\ driver[d].own.next # "gate"] \in DriverState
        BY <2>d, <4>1, <4>2 DEF DriverState, AtWork
      <4> QED BY <2>5, <4>3, RunNodeWrites
    <3>2. driver' \in [Drivers -> DriverState] /\ thread' \in Checkpoint
      BY <2>d, <2>5, <3>1, RunNodeWrites
    <3>3. asked' \in Nat /\ UNCHANGED <<execution, steps, audit, reader, overlapped>>
      BY <2>5 DEF RunNode, TraceTypeOK
    <3> QED BY <3>2, <3>3 DEF TraceTypeOK
  <2>6. CASE AskForApproval(d)
    BY <2>6 DEF AskForApproval, TraceTypeOK, DriverState, AtWork
  <2>7. CASE Interrupt(d)
    <3>1. thread' \in Checkpoint
      BY <2>d, <2>7 DEF Interrupt, Checkpoint
    <3> QED BY <2>7, <3>1 DEF Interrupt, TraceTypeOK, DriverState, AtWork
  <2>8. CASE RecordStep(d)
    <3>1. driver' \in [Drivers -> DriverState]
      BY <2>d, <2>8, GoneState, RecordStepWrites
    <3>2. steps' \subseteq Step
      <4>1. [sequence |-> driver[d].sequence, node |-> driver[d].last, by |-> d] \in Step
        BY <2>d, <2>8 DEF RecordStep, LastInv, Step, DriverState
      <4> QED BY <2>8, <4>1, RecordStepWrites DEF TraceTypeOK
    <3>3. UNCHANGED <<execution, audit, thread, asked, reader, overlapped>>
      BY <2>8, RecordStepWrites
    <3> QED BY <3>1, <3>2, <3>3 DEF TraceTypeOK
  <2>9. CASE RecordBudgetEvent(d)
    <3>1. audit' \in [{"request_received", "retry", "replan", "workflow_completed",
                       "workflow_failed"} -> Nat]
      BY <2>9 DEF RecordBudgetEvent, LastInv, Budget, TraceTypeOK
    <3>2. driver' \in [Drivers -> DriverState]
      BY <2>9 DEF RecordBudgetEvent, TraceTypeOK, DriverState, AtWork, Position
    <3> QED BY <2>9, <3>1, <3>2 DEF RecordBudgetEvent, TraceTypeOK
  <2>10. CASE StreamEnds(d)
    BY <2>10 DEF StreamEnds, TraceTypeOK, DriverState, AtWork
  <2>11. CASE Snapshot(d)
    <3>1. [driver[d] EXCEPT !.pc = "closing", !.seen = thread] \in DriverState
      BY <2>d DEF DriverState, AtWork
    <3>2. driver' \in [Drivers -> DriverState]
      BY <2>d, <2>11, <3>1 DEF Snapshot
    <3> QED BY <2>11, <3>2 DEF Snapshot, TraceTypeOK
  <2>12. CASE RecordFinished(d)
    <3>1. driver' \in [Drivers -> DriverState]
      BY <2>d, <2>12, GoneState DEF RecordFinished
    <3>2. ResolvedStatus(driver[d].seen) \in Status /\ driver[d].seen.interrupted \in BOOLEAN
      BY <2>d DEF DriverState, Checkpoint, ResolvedStatus, Status
    <3>3. execution' \in [exists : BOOLEAN, status : Status, finished : BOOLEAN]
      BY <2>12, <3>2 DEF RecordFinished, TraceTypeOK
    <3>4. audit' \in [{"request_received", "retry", "replan", "workflow_completed",
                       "workflow_failed"} -> Nat]
      BY <2>12 DEF RecordFinished, TraceTypeOK
    <3> QED BY <2>12, <3>1, <3>3, <3>4 DEF RecordFinished, TraceTypeOK
  <2>13. CASE Die(d)
    BY <2>d, <2>13, GoneState DEF Die, TraceTypeOK
  <2> QED BY <1>3, <2>1, <2>2, <2>3, <2>4, <2>5, <2>6, <2>7, <2>8, <2>9, <2>10, <2>11,
             <2>12, <2>13 DEF Acts, DriverStep
<1> QED BY <1>1, <1>2, <1>3 DEF TraceNext, Acts, Reads

-----------------------------------------------------------------------------
\* A driver other than this one that records nothing keeps what is said of it.
LEMMA QuietNumbers ==
  ASSUME TraceTypeOK, NumberInv, NEW d \in Drivers, steps' = steps,
         \A e \in Drivers \ {d} : driver'[e] = driver[e],
         driver'[d].visited = driver[d].visited,
         driver'[d].pc \in {"streaming", "visited"} =>
           driver'[d].sequence <= Cardinality(steps),
         driver'[d].pc = "counting" => driver'[d].sequence < Cardinality(steps)
  PROVE  NumberInv'
BY DEF NumberInv, StepsAreNumbered

\* The steps stay numbered from 0 without a gap or a duplicate.
LEMMA NumberStep ==
  ASSUME TraceTypeOK, NumberInv, LastInv, [TraceNext]_traceVars
  PROVE  NumberInv'
<1>n. Cardinality(steps) \in Nat /\ NextSequence = Cardinality(steps) /\ IsFiniteSet(steps)
  BY NextIsCardinality, FS_CardinalityType DEF NumberInv
<1>1. CASE UNCHANGED traceVars \/ Reads
  <2>1. UNCHANGED <<steps, driver>>
    BY <1>1 DEF Reads, ReadRow, ReadSteps, ReadEvents, traceVars
  <2> QED BY <2>1 DEF NumberInv, StepsAreNumbered
<1>2. ASSUME NEW d \in Drivers, Acts(d) PROVE NumberInv'
  <2>o. \A e \in Drivers \ {d} : driver'[e] = driver[e]
    BY <1>2, OthersUntouched
  <2>d. driver[d] \in DriverState /\ driver \in [Drivers -> DriverState]
    BY DEF TraceTypeOK
  <2>1. CASE StartRun(d) \/ ResumeRun(d) \/ RecordStarted(d) \/ AskForApproval(d)
             \/ Interrupt(d) \/ StreamEnds(d) \/ Snapshot(d)
    <3>1. /\ steps' = steps /\ driver'[d].visited = driver[d].visited
          /\ driver'[d].pc \notin {"streaming", "visited", "counting"}
      BY <2>1, <2>d DEF StartRun, ResumeRun, RecordStarted, AskForApproval, Interrupt,
         StreamEnds, Snapshot, DriverState
    <3> QED BY <2>o, <3>1, QuietNumbers
  <2>2. CASE RecordFinished(d) \/ Die(d)
    <3>1. /\ steps' = steps /\ driver'[d].visited = driver[d].visited
          /\ driver'[d].pc \notin {"streaming", "visited", "counting"}
      BY <2>2, <2>d, GoneState DEF RecordFinished, Die
    <3> QED BY <2>o, <3>1, QuietNumbers
  <2>3. CASE OpenStream(d)
    <3>1. /\ steps' = steps /\ driver'[d].visited = driver[d].visited
          /\ driver'[d].pc = "streaming" /\ driver'[d].sequence = Cardinality(steps)
      BY <1>n, <2>3, <2>d DEF OpenStream, DriverState
    <3> QED BY <1>n, <2>o, <3>1, QuietNumbers
  <2>4. CASE RunNode(d)
    <3>1. /\ steps' = steps /\ driver[d].pc = "streaming"
          /\ driver'[d] = [driver[d] EXCEPT !.pc = "visited", !.own = thread',
                             !.last = driver[d].own.next,
                             !.answer = @ /\ driver[d].own.next # "gate"]
      BY <2>4, RunNodeWrites DEF RunNode
    <3>2. /\ driver'[d].visited = driver[d].visited /\ driver'[d].pc = "visited"
          /\ driver'[d].sequence = driver[d].sequence
      BY <2>d, <3>1 DEF DriverState
    <3>3. driver[d].sequence <= Cardinality(steps)
      BY <3>1 DEF NumberInv
    <3> QED BY <2>o, <3>1, <3>2, <3>3, QuietNumbers
  <2>5. CASE RecordBudgetEvent(d)
    <3>1. /\ steps' = steps /\ driver'[d].visited = driver[d].visited
          /\ driver[d].pc = "counting" /\ driver'[d].pc = "streaming"
          /\ driver'[d].sequence = driver[d].sequence + 1 /\ driver[d].sequence \in Nat
      BY <2>5, <2>d DEF RecordBudgetEvent, DriverState
    <3>2. driver[d].sequence < Cardinality(steps)
      BY <3>1 DEF NumberInv
    <3> QED BY <1>n, <2>o, <3>1, <3>2, QuietNumbers
  <2>6. CASE RecordStep(d)
    <3>1. CASE /\ driver' = [driver EXCEPT ![d] = Gone(d, "dead")]
               /\ steps' = steps
      <4>1. driver'[d].visited = driver[d].visited /\ driver'[d].pc = "dead"
        BY <2>d, <3>1, GoneState
      <4> QED BY <2>o, <3>1, <4>1, QuietNumbers
    <3>2. ASSUME /\ \A s \in steps : s.sequence # driver[d].sequence
                 /\ steps' = steps \cup {[sequence |-> driver[d].sequence,
                                          node |-> driver[d].last, by |-> d]}
          PROVE  NumberInv'
      <4> DEFINE new == [sequence |-> driver[d].sequence, node |-> driver[d].last, by |-> d]
                 n == Cardinality(steps)
      <4>1. driver[d].pc = "visited" /\ driver[d].sequence \in Nat /\ driver[d].sequence <= n
        BY <2>6, <2>d DEF RecordStep, NumberInv, DriverState
      <4>2. {s.sequence : s \in steps} = 0..n - 1
        BY DEF NumberInv, StepsAreNumbered
      <4>3. driver[d].sequence = n
        <5>1. driver[d].sequence \notin {s.sequence : s \in steps}
          BY <3>2
        <5> QED BY <1>n, <4>1, <4>2, <5>1
      <4>4. new.sequence = n /\ new.by = d /\ new \notin steps
        BY <3>2, <4>3
      <4>5. IsFiniteSet(steps') /\ Cardinality(steps') = n + 1
        BY <1>n, <3>2, <4>4, FS_AddElement
      <4>6. {s.sequence : s \in steps'} = 0..Cardinality(steps') - 1
        <5>1. {s.sequence : s \in steps'} = {s.sequence : s \in steps} \cup {new.sequence}
          BY <3>2
        <5>2. (0..n - 1) \cup {n} = 0..(n + 1) - 1
          BY <1>n
        <5> QED BY <4>2, <4>4, <4>5, <5>1, <5>2
      <4>7. ASSUME NEW e \in Drivers
            PROVE  Cardinality({s \in steps' : s.by = e}) = driver'[e].visited
        <5>1. Cardinality(StepsBy(e)) = driver[e].visited
          BY DEF NumberInv, StepsAreNumbered, StepsBy
        <5>2. CASE e = d
          <6>1. {s \in steps' : s.by = d} = StepsBy(d) \cup {new}
            BY <3>2, <4>4 DEF StepsBy
          <6>2. IsFiniteSet(StepsBy(d)) /\ new \notin StepsBy(d)
            BY <1>n, <4>4, FS_Subset DEF StepsBy
          <6>3. Cardinality({s \in steps' : s.by = d}) = Cardinality(StepsBy(d)) + 1
            BY <6>1, <6>2, FS_AddElement
          <6>4. driver'[d].visited = driver[d].visited + 1
            BY <2>6, <3>2, RecordStepWrites, <4>4
          <6> QED BY <5>1, <5>2, <6>3, <6>4
        <5>3. CASE e # d
          <6>1. {s \in steps' : s.by = e} = StepsBy(e)
            BY <3>2, <4>4, <5>3 DEF StepsBy
          <6> QED BY <2>o, <5>1, <5>3, <6>1
        <5> QED BY <5>2, <5>3
      <4>8. \/ driver'[d].pc = "counting" /\ driver'[d].sequence = n
            \/ driver'[d].pc = "streaming" /\ driver'[d].sequence = n + 1
        BY <2>6, <3>2, <4>3, <4>4, RecordStepWrites
      <4>9. ASSUME NEW e \in Drivers
            PROVE  /\ driver'[e].pc \in {"streaming", "visited"} =>
                        driver'[e].sequence <= Cardinality(steps')
                   /\ driver'[e].pc = "counting" =>
                        driver'[e].sequence < Cardinality(steps')
        <5>1. CASE e = d
          BY <1>n, <4>5, <4>8, <5>1
        <5>2. CASE e # d
          <6>1. driver'[e] = driver[e] /\ driver[e].sequence \in Nat
            BY <2>d, <2>o, <5>2 DEF DriverState
          <6> QED BY <1>n, <4>5, <6>1 DEF NumberInv
        <5> QED BY <5>1, <5>2
      <4> QED BY <4>5, <4>6, <4>7, <4>9 DEF NumberInv, StepsAreNumbered
    <3> QED BY <2>6, <3>1, <3>2, RecordStepWrites
  <2> QED BY <1>2, <2>1, <2>2, <2>3, <2>4, <2>5, <2>6 DEF Acts, DriverStep
<1> QED BY <1>1, <1>2 DEF TraceNext, Acts, Reads

-----------------------------------------------------------------------------
\* A step that neither records a visit nor an event only changes who may owe one.
LEMMA QuietBudget ==
  ASSUME TraceTypeOK, NumberInv, BudgetInv, NEW node \in Budget,
         StepsOf(node)' = StepsOf(node), audit'[node] = audit[node],
         Owing(node)' \subseteq Owing(node), MayOwe(node) \subseteq MayOwe(node)'
  PROVE  Cardinality(StepsOf(node)') - audit'[node]
           \in Cardinality(Owing(node)')..Cardinality(MayOwe(node)')
<1>1. /\ IsFiniteSet(Owing(node)) /\ IsFiniteSet(MayOwe(node)')
      /\ IsFiniteSet(StepsOf(node))
  BY FS_Subset, DriverAssumption DEF Owing, MayOwe, StepsOf, NumberInv
<1>2. /\ Cardinality(Owing(node)') <= Cardinality(Owing(node))
      /\ Cardinality(Owing(node)') \in Nat
  BY <1>1, FS_Subset, FS_CardinalityType
<1>3. /\ Cardinality(MayOwe(node)) <= Cardinality(MayOwe(node)')
      /\ Cardinality(MayOwe(node)) \in Nat /\ Cardinality(MayOwe(node)') \in Nat
  BY <1>1, FS_Subset, FS_CardinalityType
<1>4. audit[node] \in Nat /\ Cardinality(StepsOf(node)) \in Nat
      /\ Cardinality(Owing(node)) \in Nat
  BY <1>1, FS_CardinalityType DEF TraceTypeOK, Budget
<1> QED BY <1>2, <1>3, <1>4 DEF BudgetInv

\* Visits of budgeted nodes and their events stay in step.
LEMMA BudgetStep ==
  ASSUME TraceTypeOK, NumberInv, BudgetInv, LastInv, [TraceNext]_traceVars
  PROVE  BudgetInv'
<1> SUFFICES ASSUME NEW node \in Budget
             PROVE  Cardinality(StepsOf(node)') - audit'[node]
                      \in Cardinality(Owing(node)')..Cardinality(MayOwe(node)')
  BY DEF BudgetInv
<1>n. node \in {"retry", "replan"}
  BY DEF Budget
<1>1. CASE UNCHANGED traceVars \/ Reads
  <2>1. UNCHANGED <<steps, audit, driver>>
    BY <1>1 DEF Reads, ReadRow, ReadSteps, ReadEvents, traceVars
  <2> QED BY <2>1 DEF BudgetInv, StepsOf, Owing, MayOwe
<1>2. ASSUME NEW d \in Drivers, Acts(d)
      PROVE  Cardinality(StepsOf(node)') - audit'[node]
               \in Cardinality(Owing(node)')..Cardinality(MayOwe(node)')
  <2>o. \A e \in Drivers \ {d} : driver'[e] = driver[e]
    BY <1>2, OthersUntouched
  <2>d. driver[d] \in DriverState /\ driver \in [Drivers -> DriverState]
    BY DEF TraceTypeOK
  <2>f. IsFiniteSet(Owing(node)) /\ IsFiniteSet(MayOwe(node)) /\ IsFiniteSet(StepsOf(node))
    BY FS_Subset, DriverAssumption DEF Owing, MayOwe, StepsOf, NumberInv
  <2>c. /\ Cardinality(Owing(node)) \in Nat /\ Cardinality(MayOwe(node)) \in Nat
        /\ Cardinality(StepsOf(node)) \in Nat /\ audit[node] \in Nat
    BY <1>n, <2>f, FS_CardinalityType DEF TraceTypeOK
  <2>q. ASSUME steps' = steps, audit'[node] = audit[node], driver[d].pc # "dead",
               driver'[d].pc # "counting",
               driver[d].pc = "counting" => /\ driver'[d].pc = "dead"
                                            /\ driver'[d].last = driver[d].last
        PROVE  Cardinality(StepsOf(node)') - audit'[node]
                 \in Cardinality(Owing(node)')..Cardinality(MayOwe(node)')
    <3>1. Owing(node)' \subseteq Owing(node) /\ MayOwe(node) \subseteq MayOwe(node)'
      BY <2>o, <2>q DEF Owing, MayOwe
    <3>2. StepsOf(node)' = StepsOf(node)
      BY <2>q DEF StepsOf
    <3> QED BY <2>q, <3>1, <3>2, QuietBudget
  <2>1. CASE StartRun(d) \/ ResumeRun(d) \/ RecordStarted(d) \/ AskForApproval(d)
             \/ Interrupt(d) \/ StreamEnds(d) \/ Snapshot(d) \/ OpenStream(d)
    <3>1. /\ steps' = steps /\ audit'[node] = audit[node]
          /\ driver[d].pc \notin {"counting", "dead"} /\ driver'[d].pc # "counting"
      BY <1>n, <2>1, <2>d DEF StartRun, ResumeRun, RecordStarted, AskForApproval, Interrupt,
         StreamEnds, Snapshot, OpenStream, DriverState, TraceTypeOK
    <3> QED BY <2>q, <3>1
  <2>2. CASE RunNode(d)
    <3>1. /\ steps' = steps /\ audit' = audit /\ driver[d].pc = "streaming"
          /\ driver'[d] = [driver[d] EXCEPT !.pc = "visited", !.own = thread',
                             !.last = driver[d].own.next,
                             !.answer = @ /\ driver[d].own.next # "gate"]
      BY <2>2, RunNodeWrites DEF RunNode
    <3>2. driver'[d].pc = "visited"
      BY <2>d, <3>1 DEF DriverState
    <3> QED BY <2>q, <3>1, <3>2
  <2>3. CASE RecordFinished(d)
    <3>1. audit'[node] = audit[node]
      BY <1>n, <2>3 DEF RecordFinished, TraceTypeOK
    <3>2. steps' = steps /\ driver[d].pc = "closing" /\ driver'[d].pc = "answered"
      BY <2>3, <2>d, GoneState DEF RecordFinished
    <3> QED BY <2>q, <3>1, <3>2
  <2>4. CASE Die(d)
    <3>1. /\ steps' = steps /\ audit' = audit /\ driver[d].pc # "dead"
          /\ driver'[d].pc = "dead" /\ driver'[d].last = driver[d].last
      BY <2>4, <2>d, GoneState DEF Die, Working, AtWork
    <3> QED BY <2>q, <3>1
  <2>5. CASE RecordBudgetEvent(d)
    <3>1. /\ steps' = steps /\ driver[d].pc = "counting" /\ driver'[d].pc = "streaming"
          /\ audit' = [audit EXCEPT ![driver[d].last] = @ + 1]
      BY <2>5, <2>d DEF RecordBudgetEvent, DriverState
    <3>2. CASE driver[d].last # node
      <4>1. Owing(node)' = Owing(node) /\ MayOwe(node)' = MayOwe(node)
        BY <2>o, <3>1, <3>2 DEF Owing, MayOwe
      <4>2. audit'[node] = audit[node] /\ StepsOf(node)' = StepsOf(node)
        BY <1>n, <3>1, <3>2 DEF TraceTypeOK, StepsOf
      <4> QED BY <4>1, <4>2 DEF BudgetInv
    <3>3. CASE driver[d].last = node
      <4>1. d \in Owing(node) /\ d \in MayOwe(node)
        BY <3>1, <3>3 DEF Owing, MayOwe
      <4>2. Owing(node)' = Owing(node) \ {d} /\ MayOwe(node)' = MayOwe(node) \ {d}
        BY <2>o, <3>1 DEF Owing, MayOwe
      <4>3. /\ Cardinality(Owing(node)') = Cardinality(Owing(node)) - 1
            /\ Cardinality(MayOwe(node)') = Cardinality(MayOwe(node)) - 1
        BY <2>f, <4>1, <4>2, FS_RemoveElement
      <4>4. audit'[node] = audit[node] + 1 /\ StepsOf(node)' = StepsOf(node)
        BY <1>n, <3>1, <3>3 DEF TraceTypeOK, StepsOf
      <4>5. Cardinality(StepsOf(node)) - audit[node]
              \in Cardinality(Owing(node))..Cardinality(MayOwe(node))
        BY DEF BudgetInv
      <4> QED BY <2>c, <4>3, <4>4, <4>5
    <3> QED BY <3>2, <3>3
  <2>6. CASE RecordStep(d)
    <3>0. driver[d].pc = "visited" /\ audit' = audit
      BY <2>6, RecordStepWrites
    <3>1. CASE driver' = [driver EXCEPT ![d] = Gone(d, "dead")] /\ steps' = steps
      <4>1. driver'[d].pc = "dead"
        BY <2>d, <3>1, GoneState
      <4> QED BY <2>q, <3>0, <3>1, <4>1
    <3>2. ASSUME /\ \A s \in steps : s.sequence # driver[d].sequence
                 /\ steps' = steps \cup {[sequence |-> driver[d].sequence,
                                          node |-> driver[d].last, by |-> d]}
                 /\ driver[d].last \in Budget =>
                      driver'[d].pc = "counting" /\ driver'[d].last = driver[d].last
                 /\ driver[d].last \notin Budget => driver'[d].pc = "streaming"
          PROVE  Cardinality(StepsOf(node)') - audit'[node]
                   \in Cardinality(Owing(node)')..Cardinality(MayOwe(node)')
      <4> DEFINE new == [sequence |-> driver[d].sequence, node |-> driver[d].last, by |-> d]
      <4>1. new \notin steps /\ new.node = driver[d].last
        BY <3>2
      <4>2. CASE driver[d].last # node
        <5>1. StepsOf(node)' = StepsOf(node)
          BY <3>2, <4>1, <4>2 DEF StepsOf
        <5>2. Owing(node)' = Owing(node) /\ MayOwe(node)' = MayOwe(node)
          BY <2>o, <3>0, <3>2, <4>2 DEF Owing, MayOwe
        <5> QED BY <3>0, <5>1, <5>2 DEF BudgetInv
      <4>3. CASE driver[d].last = node
        <5>1. StepsOf(node)' = StepsOf(node) \cup {new} /\ new \notin StepsOf(node)
          BY <3>2, <4>1, <4>3 DEF StepsOf
        <5>2. /\ Owing(node)' = Owing(node) \cup {d} /\ d \notin Owing(node)
              /\ MayOwe(node)' = MayOwe(node) \cup {d} /\ d \notin MayOwe(node)
          BY <2>o, <3>0, <3>2, <4>3 DEF Owing, MayOwe
        <5>3. /\ Cardinality(StepsOf(node)') = Cardinality(StepsOf(node)) + 1
              /\ Cardinality(Owing(node)') = Cardinality(Owing(node)) + 1
              /\ Cardinality(MayOwe(node)') = Cardinality(MayOwe(node)) + 1
          <6>1. Cardinality(StepsOf(node)') = Cardinality(StepsOf(node)) + 1
            BY <2>f, <5>1, FS_AddElement
          <6>2. Cardinality(Owing(node)') = Cardinality(Owing(node)) + 1
            BY <2>f, <5>2, FS_AddElement
          <6>3. Cardinality(MayOwe(node)') = Cardinality(MayOwe(node)) + 1
            BY <2>f, <5>2, FS_AddElement
          <6> QED BY <6>1, <6>2, <6>3
        <5>4. Cardinality(StepsOf(node)) - audit[node]
                \in Cardinality(Owing(node))..Cardinality(MayOwe(node))
          BY DEF BudgetInv
        <5> QED BY <2>c, <3>0, <5>3, <5>4
      <4> QED BY <4>2, <4>3
    <3> QED BY <2>6, <3>1, <3>2, RecordStepWrites
  <2> QED BY <1>2, <2>1, <2>2, <2>3, <2>4, <2>5, <2>6 DEF Acts, DriverStep
<1> QED BY <1>1, <1>2 DEF TraceNext, Acts, Reads

-----------------------------------------------------------------------------
\* What a step leaves of the driver that makes it, as far as the proofs below
\* ask for it; RunNode and RecordStep have lemmas of their own.
LEMMA DriverAfter ==
  ASSUME TraceTypeOK, NEW d \in Drivers
  PROVE  /\ StartRun(d) => /\ driver[d].pc = "idle" /\ driver'[d].pc = "starting"
                           /\ driver'[d].own = driver[d].own
                           /\ driver'[d].seen = driver[d].seen
                           /\ driver'[d].last = driver[d].last
         /\ ResumeRun(d) => /\ driver[d].pc = "idle" /\ driver'[d].pc = "opening"
                            /\ driver'[d].own = driver[d].own
                            /\ driver'[d].seen = driver[d].seen
                            /\ driver'[d].last = driver[d].last
         /\ RecordStarted(d) => /\ driver[d].pc = "starting" /\ driver'[d].pc = "opening"
                                /\ driver'[d].own = driver[d].own
                                /\ driver'[d].seen = driver[d].seen
                                /\ driver'[d].last = driver[d].last
         /\ OpenStream(d) => /\ driver[d].pc = "opening" /\ driver'[d].pc = "streaming"
                             /\ driver'[d].own = thread
                             /\ driver'[d].seen = driver[d].seen
                             /\ driver'[d].last = driver[d].last
         /\ AskForApproval(d) => /\ driver[d].pc = "streaming" /\ driver'[d].pc = "asking"
                                 /\ driver'[d].own = driver[d].own
                                 /\ driver'[d].seen = driver[d].seen
                                 /\ driver'[d].last = driver[d].last
         /\ Interrupt(d) => /\ driver[d].pc = "asking" /\ driver'[d].pc = "drained"
                            /\ driver'[d].own = driver[d].own
                            /\ driver'[d].seen = driver[d].seen
                            /\ driver'[d].last = driver[d].last
         /\ RecordBudgetEvent(d) => /\ driver[d].pc = "counting"
                                    /\ driver'[d].pc = "streaming"
                                    /\ driver'[d].own = driver[d].own
                                    /\ driver'[d].seen = driver[d].seen
                                    /\ driver'[d].last = "end"
         /\ StreamEnds(d) => /\ driver[d].pc = "streaming" /\ driver'[d].pc = "drained"
                             /\ driver'[d].own = driver[d].own
                             /\ driver'[d].seen = driver[d].seen
                             /\ driver'[d].last = driver[d].last
         /\ Snapshot(d) => /\ driver[d].pc = "drained" /\ driver'[d].pc = "closing"
                           /\ driver'[d].own = driver[d].own
                           /\ driver'[d].seen = thread
                           /\ driver'[d].last = driver[d].last
         /\ RecordFinished(d) => /\ driver[d].pc = "closing" /\ driver'[d].pc = "answered"
                                 /\ driver'[d].own = FirstCheckpoint
                                 /\ driver'[d].seen = FirstCheckpoint
                                 /\ driver'[d].last = driver[d].last
         /\ Die(d) => /\ driver[d].pc \in AtWork /\ driver'[d].pc = "dead"
                      /\ driver'[d].own = FirstCheckpoint
                      /\ driver'[d].seen = FirstCheckpoint
                      /\ driver'[d].last = driver[d].last
         /\ RunNode(d) => /\ driver[d].pc = "streaming" /\ driver'[d].pc = "visited"
                          /\ driver'[d].own = thread'
                          /\ driver'[d].seen = driver[d].seen
                          /\ driver'[d].last = driver[d].own.next
<1>d. driver[d] \in DriverState /\ driver \in [Drivers -> DriverState]
  BY DEF TraceTypeOK
<1>1. ASSUME StartRun(d) \/ RecordStarted(d) \/ AskForApproval(d) \/ Interrupt(d)
             \/ StreamEnds(d)
      PROVE  /\ driver'[d].own = driver[d].own /\ driver'[d].seen = driver[d].seen
             /\ driver'[d].last = driver[d].last
  BY <1>d, <1>1 DEF StartRun, RecordStarted, AskForApproval, Interrupt, StreamEnds, DriverState
<1>2. /\ StartRun(d) => driver[d].pc = "idle" /\ driver'[d].pc = "starting"
      /\ RecordStarted(d) => driver[d].pc = "starting" /\ driver'[d].pc = "opening"
      /\ AskForApproval(d) => driver[d].pc = "streaming" /\ driver'[d].pc = "asking"
      /\ Interrupt(d) => driver[d].pc = "asking" /\ driver'[d].pc = "drained"
      /\ StreamEnds(d) => driver[d].pc = "streaming" /\ driver'[d].pc = "drained"
  BY <1>d DEF StartRun, RecordStarted, AskForApproval, Interrupt, StreamEnds, DriverState
<1>3. ResumeRun(d) =>
        /\ driver[d].pc = "idle" /\ driver'[d].pc = "opening"
        /\ driver'[d].own = driver[d].own /\ driver'[d].seen = driver[d].seen
        /\ driver'[d].last = driver[d].last
  BY <1>d DEF ResumeRun, DriverState
<1>4. OpenStream(d) =>
        /\ driver[d].pc = "opening" /\ driver'[d].pc = "streaming"
        /\ driver'[d].own = thread /\ driver'[d].seen = driver[d].seen
        /\ driver'[d].last = driver[d].last
  BY <1>d DEF OpenStream, DriverState
<1>5. RecordBudgetEvent(d) =>
        /\ driver[d].pc = "counting" /\ driver'[d].pc = "streaming"
        /\ driver'[d].own = driver[d].own /\ driver'[d].seen = driver[d].seen
        /\ driver'[d].last = "end"
  BY <1>d DEF RecordBudgetEvent, DriverState
<1>6. Snapshot(d) =>
        /\ driver[d].pc = "drained" /\ driver'[d].pc = "closing"
        /\ driver'[d].own = driver[d].own /\ driver'[d].seen = thread
        /\ driver'[d].last = driver[d].last
  BY <1>d DEF Snapshot, DriverState
<1>7. RecordFinished(d) =>
        driver[d].pc = "closing" /\ driver' = [driver EXCEPT ![d] = Gone(d, "answered")]
  BY DEF RecordFinished
<1>8. Die(d) => driver[d].pc \in AtWork /\ driver' = [driver EXCEPT ![d] = Gone(d, "dead")]
  BY DEF Die, Working
<1>9. RunNode(d) =>
        /\ driver[d].pc = "streaming" /\ driver'[d].pc = "visited"
        /\ driver'[d].own = thread' /\ driver'[d].seen = driver[d].seen
        /\ driver'[d].last = driver[d].own.next
  <2> SUFFICES ASSUME RunNode(d)
               PROVE  /\ driver[d].pc = "streaming" /\ driver'[d].pc = "visited"
                      /\ driver'[d].own = thread' /\ driver'[d].seen = driver[d].seen
                      /\ driver'[d].last = driver[d].own.next
    OBVIOUS
  <2>1. /\ driver[d].pc = "streaming"
        /\ driver'[d] = [driver[d] EXCEPT !.pc = "visited", !.own = thread',
                           !.last = driver[d].own.next,
                           !.answer = @ /\ driver[d].own.next # "gate"]
    BY RunNodeWrites
  <2> QED BY <1>d, <2>1 DEF DriverState
<1> QED BY <1>d, <1>1, <1>2, <1>3, <1>4, <1>5, <1>6, <1>7, <1>8, <1>9, GoneState

\* What is visited and not yet recorded stays so until it is.
LEMMA LastStep ==
  ASSUME TraceTypeOK, LastInv, [TraceNext]_traceVars
  PROVE  LastInv'
<1>1. CASE UNCHANGED traceVars \/ Reads
  BY <1>1 DEF Reads, ReadRow, ReadSteps, ReadEvents, traceVars, LastInv
<1>2. ASSUME NEW d \in Drivers, Acts(d) PROVE LastInv'
  <2>1. /\ driver'[d].pc \in {"idle", "starting", "opening", "streaming"} =>
             driver'[d].last = "end"
        /\ driver'[d].pc = "visited" => driver'[d].last \in Node
        /\ driver'[d].pc = "counting" => driver'[d].last \in Budget
    <3>1. CASE RecordStep(d)
      <4>1. driver' = [driver EXCEPT ![d] = Gone(d, "dead")] => driver'[d].pc = "dead"
        BY GoneState DEF TraceTypeOK
      <4> QED BY <3>1, <4>1, RecordStepWrites
    <3>2. CASE RunNode(d)
      BY <3>2, DriverAfter, RunNodeWrites
    <3>3. CASE ~RecordStep(d) /\ ~RunNode(d)
      BY <1>2, <3>3, DriverAfter DEF Acts, DriverStep, LastInv
    <3> QED BY <3>1, <3>2, <3>3
  <2>2. \A e \in Drivers \ {d} : driver'[e] = driver[e]
    BY <1>2, OthersUntouched
  <2> QED BY <2>1, <2>2 DEF LastInv
<1> QED BY <1>1, <1>2 DEF TraceNext, Acts, Reads

\* A notice stays on record.
LEMMA NoticeStays ==
  ASSUME TraceTypeOK, LastInv, Noticed, NEW d \in Drivers, Acts(d)
  PROVE  Noticed'
<1>1. steps \subseteq steps'
  BY RecordStepWrites DEF Acts, DriverStep, StartRun, ResumeRun, RecordStarted, OpenStream,
     RunNode, AskForApproval, Interrupt, RecordBudgetEvent, StreamEnds, Snapshot,
     RecordFinished, Die
<1>2. CASE \E s \in steps : s.node = "notify"
  BY <1>1, <1>2 DEF Noticed
<1>3. CASE \E e \in Drivers \ {d} : driver[e].last = "notify"
  BY <1>3, OthersUntouched DEF Noticed
<1>4. CASE driver[d].last = "notify"
  <2>1. CASE RecordStep(d)
    <3>1. CASE driver' = [driver EXCEPT ![d] = Gone(d, "dead")]
      <4>1. driver'[d].last = "notify"
        BY <1>4, <3>1, GoneState DEF TraceTypeOK
      <4> QED BY <4>1 DEF Noticed
    <3>2. CASE steps' = steps \cup {[sequence |-> driver[d].sequence,
                                     node |-> driver[d].last, by |-> d]}
      <4> DEFINE new == [sequence |-> driver[d].sequence, node |-> driver[d].last, by |-> d]
      <4>1. new \in steps' /\ new.node = "notify"
        BY <1>4, <3>2
      <4> QED BY <4>1 DEF Noticed
    <3> QED BY <2>1, <3>1, <3>2, RecordStepWrites
  <2>2. ~RunNode(d) /\ ~RecordBudgetEvent(d)
    BY <1>4, DriverAfter DEF LastInv, Budget
  <2>3. CASE ~RecordStep(d)
    <3>1. driver'[d].last = driver[d].last
      BY <2>2, <2>3, DriverAfter DEF Acts, DriverStep
    <3> QED BY <1>4, <3>1 DEF Noticed
  <2> QED BY <2>1, <2>3
<1> QED BY <1>2, <1>3, <1>4 DEF Noticed

\* Nothing is past the notice before it was sent.
LEMMA NoticeStep ==
  ASSUME TraceTypeOK, LastInv, NoticeInv, [TraceNext]_traceVars
  PROVE  NoticeInv'
<1>1. CASE UNCHANGED traceVars \/ Reads
  BY <1>1 DEF Reads, ReadRow, ReadSteps, ReadEvents, traceVars, NoticeInv, Honest, Noticed
<1>2. ASSUME NEW d \in Drivers, Acts(d) PROVE NoticeInv'
  <2>s. Noticed => Noticed'
    BY <1>2, NoticeStays
  <2>1. thread'.next = "complete" \/ thread'.status = "completed" => Noticed'
    <3>1. CASE RunNode(d)
      <4> DEFINE own == driver[d].own
      <4>1. /\ own.next \in Node /\ thread'.next \in Edges(own.next)
            /\ thread'.status \in StatusesAfter(own.next, thread'.next, own.status)
        BY <3>1, RunNodeWrites
      <4>2. thread'.next = "complete" => own.next = "notify"
        BY <4>1 DEF Edges, Node, Budget
      <4>3. thread'.status = "completed" => own.next \in {"notify", "complete"}
        BY <4>1 DEF StatusesAfter, Node
      <4>4. own.next = "notify" => Noticed'
        BY <3>1, DriverAfter DEF Noticed
      <4>5. own.next = "complete" => Noticed'
        BY <2>s DEF NoticeInv, Honest
      <4> QED BY <4>2, <4>3, <4>4, <4>5
    <3>2. CASE Interrupt(d)
      <4>1. thread'.next = thread.next /\ thread'.status = thread.status
        BY <3>2 DEF Interrupt, TraceTypeOK, Checkpoint
      <4> QED BY <2>s, <4>1 DEF NoticeInv, Honest
    <3>3. CASE ~RunNode(d) /\ ~Interrupt(d)
      <4>1. thread' = thread
        BY <1>2, <3>3 DEF Acts, DriverStep, StartRun, ResumeRun, RecordStarted, OpenStream,
           AskForApproval, RecordStep, RecordBudgetEvent, StreamEnds, Snapshot,
           RecordFinished, Die
      <4> QED BY <2>s, <4>1 DEF NoticeInv, Honest
    <3> QED BY <3>1, <3>2, <3>3
  <2>2. /\ driver'[d].own \in {driver[d].own, thread, thread', FirstCheckpoint}
        /\ driver'[d].seen \in {driver[d].seen, thread, FirstCheckpoint}
    <3>1. CASE RecordStep(d)
      <4>1. driver' = [driver EXCEPT ![d] = Gone(d, "dead")] =>
              driver'[d].own = FirstCheckpoint /\ driver'[d].seen = FirstCheckpoint
        BY GoneState DEF TraceTypeOK
      <4> QED BY <3>1, <4>1, RecordStepWrites
    <3>2. CASE ~RecordStep(d)
      BY <1>2, <3>2, DriverAfter DEF Acts, DriverStep
    <3> QED BY <3>1, <3>2
  <2>3. FirstCheckpoint.next # "complete" /\ FirstCheckpoint.status # "completed"
    BY DEF FirstCheckpoint
  <2>4. ASSUME NEW e \in Drivers
        PROVE  /\ driver'[e].own.next = "complete" \/ driver'[e].own.status = "completed"
                    => Noticed'
               /\ driver'[e].seen.next = "complete" \/ driver'[e].seen.status = "completed"
                    => Noticed'
    <3>1. CASE e = d
      BY <2>1, <2>2, <2>3, <2>s, <3>1 DEF NoticeInv, Honest
    <3>2. CASE e # d
      BY <1>2, <2>s, <3>2, OthersUntouched DEF NoticeInv, Honest
    <3> QED BY <3>1, <3>2
  <2>5. audit'["workflow_completed"] > 0 => Noticed'
    <3>1. CASE RecordFinished(d)
      <4>1. CASE ResolvedStatus(driver[d].seen) = "completed"
        <5>1. driver[d].seen.status = "completed"
          BY <4>1 DEF ResolvedStatus
        <5> QED BY <2>s, <5>1 DEF NoticeInv, Honest
      <4>2. CASE ResolvedStatus(driver[d].seen) # "completed"
        <5>1. audit'["workflow_completed"] = audit["workflow_completed"]
          BY <3>1, <4>2 DEF RecordFinished, TraceTypeOK
        <5> QED BY <2>s, <5>1 DEF NoticeInv
      <4> QED BY <4>1, <4>2
    <3>2. CASE RecordBudgetEvent(d)
      <4>1. audit'["workflow_completed"] = audit["workflow_completed"]
        BY <3>2 DEF RecordBudgetEvent, LastInv, Budget, TraceTypeOK
      <4> QED BY <2>s, <4>1 DEF NoticeInv
    <3>3. CASE RecordStarted(d)
      <4>1. audit'["workflow_completed"] = audit["workflow_completed"]
        BY <3>3 DEF RecordStarted, TraceTypeOK
      <4> QED BY <2>s, <4>1 DEF NoticeInv
    <3>4. CASE ~RecordFinished(d) /\ ~RecordBudgetEvent(d) /\ ~RecordStarted(d)
      <4>1. audit' = audit
        BY <1>2, <3>4 DEF Acts, DriverStep, StartRun, ResumeRun, OpenStream, RunNode,
           AskForApproval, Interrupt, RecordStep, StreamEnds, Snapshot, Die
      <4> QED BY <2>s, <4>1 DEF NoticeInv
    <3> QED BY <3>1, <3>2, <3>3, <3>4
  <2> QED BY <2>1, <2>4, <2>5 DEF NoticeInv, Honest
<1> QED BY <1>1, <1>2 DEF TraceNext, Acts, Reads

-----------------------------------------------------------------------------
\* Until the starter has recorded the run, there is nothing to resume.
LEMMA StarterStep ==
  ASSUME TraceTypeOK, StarterInv, [TraceNext]_traceVars
  PROVE  StarterInv'
<1>1. CASE UNCHANGED traceVars \/ Reads
  BY <1>1 DEF Reads, ReadRow, ReadSteps, ReadEvents, traceVars, StarterInv
<1>2. ASSUME NEW d \in Drivers, Acts(d) PROVE StarterInv'
  <2>o. \A e \in Drivers \ {d} : driver'[e] = driver[e]
    BY <1>2, OthersUntouched
  <2>1. /\ driver[d].pc \notin {"answered", "dead"}
        /\ driver'[d].pc # "idle"
        /\ driver'[d].pc = "starting" => StartRun(d)
    <3>1. CASE RecordStep(d)
      <4>1. driver' = [driver EXCEPT ![d] = Gone(d, "dead")] => driver'[d].pc = "dead"
        BY GoneState DEF TraceTypeOK
      <4> QED BY <3>1, <4>1, RecordStepWrites
    <3>2. CASE ~RecordStep(d)
      BY <1>2, <3>2, DriverAfter DEF Acts, DriverStep, AtWork
    <3> QED BY <3>1, <3>2
  <2>2. CASE StartRun(d)
    <3>1. d = Starter /\ UNCHANGED <<asked, execution>>
      BY <2>2 DEF StartRun
    <3>2. driver[Starter].pc = "idle"
      BY <2>2, <3>1, DriverAfter
    <3> QED BY <2>o, <3>1, <3>2 DEF StarterInv
  <2>3. CASE ~StartRun(d)
    <3>1. \A e \in Drivers : driver'[e].pc = "starting" => e = Starter
      BY <2>o, <2>1, <2>3 DEF StarterInv
    <3>2. driver'[Starter].pc \notin {"idle", "starting"}
      <4>1. SUFFICES ASSUME driver'[Starter].pc \in {"idle", "starting"} PROVE FALSE
        OBVIOUS
      <4>2. d # Starter /\ driver'[Starter] = driver[Starter]
        BY <2>o, <2>1, <2>3, <4>1, DriverAssumption
      <4>3. driver[d].pc = "idle" /\ asked = 0
        BY <4>1, <4>2 DEF StarterInv
      <4>4. ~ResumeRun(d)
        BY <4>3 DEF ResumeRun
      <4>5. ~RecordStep(d)
        BY <4>3 DEF RecordStep
      <4> QED BY <1>2, <2>3, <4>3, <4>4, <4>5, DriverAfter DEF Acts, DriverStep, AtWork
    <3>3. execution'.finished => execution'.exists
      <4>1. CASE RecordFinished(d)
        BY <4>1 DEF RecordFinished, StarterInv, TraceTypeOK
      <4>2. CASE RecordStarted(d)
        BY <4>2 DEF RecordStarted
      <4>3. CASE ~RecordFinished(d) /\ ~RecordStarted(d)
        <5>1. execution' = execution
          BY <1>2, <4>3 DEF Acts, DriverStep, StartRun, ResumeRun, OpenStream, RunNode,
             AskForApproval, Interrupt, RecordStep, RecordBudgetEvent, StreamEnds,
             Snapshot, Die
        <5> QED BY <5>1 DEF StarterInv
      <4> QED BY <4>1, <4>2, <4>3
    <3> QED BY <3>1, <3>2, <3>3 DEF StarterInv
  <2> QED BY <2>2, <2>3
<1> QED BY <1>1, <1>2 DEF TraceNext, Acts, Reads

\* In a run where no two drivers met and none died, the driver that makes a
\* step is the only one at work.
LEMMA Alone ==
  ASSUME TraceTypeOK, StarterInv, AloneInv, NEW d \in Drivers, Acts(d),
         ~overlapped', Dead' = {}
  PROVE  /\ ~overlapped /\ Dead = {} /\ ~Die(d)
         /\ RecordStep(d) => driver' # [driver EXCEPT ![d] = Gone(d, "dead")]
         /\ \A e \in Drivers \ {d} : ~Working(e) /\ driver'[e] = driver[e]
         /\ \A e \in Drivers \ {d} : driver[e].pc \in {"idle", "answered"}
<1>o. \A e \in Drivers \ {d} : driver'[e] = driver[e]
  BY OthersUntouched
<1>1. driver'[d].pc # "dead"
  BY DEF Dead
<1>2. ~Die(d) /\ (RecordStep(d) => driver' # [driver EXCEPT ![d] = Gone(d, "dead")])
  <2>1. ~Die(d)
    BY <1>1, DriverAfter
  <2>2. driver' = [driver EXCEPT ![d] = Gone(d, "dead")] => driver'[d].pc = "dead"
    BY GoneState DEF TraceTypeOK
  <2> QED BY <1>1, <2>1, <2>2
<1>3. driver[d].pc # "dead"
  <2>1. CASE RecordStep(d)
    BY <2>1 DEF RecordStep
  <2>2. CASE ~RecordStep(d)
    BY <2>2, DriverAfter DEF Acts, DriverStep, AtWork
  <2> QED BY <2>1, <2>2
<1>4. Dead = {}
  BY <1>o, <1>3 DEF Dead
<1>5. ~overlapped
  <2>1. CASE ResumeRun(d)
    BY <2>1 DEF ResumeRun
  <2>2. CASE ~ResumeRun(d)
    BY <2>2 DEF Acts, DriverStep, StartRun, RecordStarted, OpenStream, RunNode,
       AskForApproval, Interrupt, RecordStep, RecordBudgetEvent, StreamEnds, Snapshot,
       RecordFinished, Die
  <2> QED BY <2>1, <2>2
<1>6. \A e \in Drivers \ {d} : ~Working(e)
  <2>1. CASE ResumeRun(d)
    BY <2>1 DEF ResumeRun
  <2>2. CASE StartRun(d)
    <3>1. d = Starter /\ driver[Starter].pc = "idle"
      BY <2>2 DEF StartRun
    <3> QED BY <3>1 DEF StarterInv, Working, AtWork
  <2>3. CASE ~ResumeRun(d) /\ ~StartRun(d)
    <3>1. Working(d)
      <4>1. CASE RecordStep(d)
        BY <4>1 DEF RecordStep, Working, AtWork
      <4>2. CASE ~RecordStep(d)
        BY <2>3, <4>2, DriverAfter DEF Acts, DriverStep, Working, AtWork
      <4> QED BY <4>1, <4>2
    <3> QED BY <1>4, <1>5, <3>1 DEF AloneInv
  <2> QED BY <2>1, <2>2, <2>3
<1>7. \A e \in Drivers \ {d} : driver[e].pc \in {"idle", "answered"}
  BY <1>4, <1>6 DEF Working, Dead, TraceTypeOK, DriverState
<1> QED BY <1>o, <1>2, <1>4, <1>5, <1>6, <1>7

\* The step that such a driver makes, by what it does to the thread and the row.
LEMMA AloneEffect ==
  ASSUME TraceTypeOK, LastInv, StarterInv, AloneInv, NEW d \in Drivers, Acts(d),
         ~overlapped', Dead' = {}
  PROVE  /\ thread'.interrupted => thread'.next = "gate"
         /\ driver'[d].pc \in {"streaming", "asking", "visited", "counting"} =>
              driver'[d].own = thread'
         /\ driver'[d].pc = "asking" => driver'[d].own.next = "gate"
         /\ driver'[d].pc \in {"drained", "closing"} => Settled(thread')
         /\ driver'[d].pc = "closing" => driver'[d].seen = thread'
         /\ execution.finished => /\ thread' = thread /\ steps' = steps
                                  /\ driver'[d].pc \notin {"asking", "visited", "counting"}
<1>a. /\ ~overlapped /\ Dead = {} /\ ~Die(d)
      /\ RecordStep(d) => driver' # [driver EXCEPT ![d] = Gone(d, "dead")]
  BY Alone
<1>i. /\ thread.interrupted => thread.next = "gate"
      /\ driver[d].pc \in {"streaming", "asking", "visited", "counting"} =>
           driver[d].own = thread
      /\ driver[d].pc = "asking" => driver[d].own.next = "gate"
      /\ driver[d].pc \in {"drained", "closing"} => Settled(thread)
      /\ driver[d].pc = "closing" => driver[d].seen = thread
      /\ execution.finished =>
           thread.next = "end" /\ driver[d].pc \notin {"asking", "visited", "counting"}
  BY <1>a DEF AloneInv
<1>1. CASE StartRun(d) \/ ResumeRun(d) \/ RecordStarted(d) \/ RecordFinished(d)
  <2>1. thread' = thread /\ steps' = steps
    BY <1>1 DEF StartRun, ResumeRun, RecordStarted, RecordFinished
  <2>2. driver'[d].pc \in {"starting", "opening", "answered"}
    BY <1>1, DriverAfter
  <2> QED BY <1>i, <2>1, <2>2
<1>2. CASE OpenStream(d) \/ RecordBudgetEvent(d)
  <2>1. thread' = thread /\ steps' = steps
    BY <1>2 DEF OpenStream, RecordBudgetEvent
  <2>2. driver'[d].pc = "streaming" /\ driver'[d].own = thread
    BY <1>2, <1>i, DriverAfter
  <2> QED BY <1>i, <2>1, <2>2
<1>3. CASE RunNode(d)
  <2>1. /\ ~thread'.interrupted /\ driver'[d].pc = "visited" /\ driver'[d].own = thread'
        /\ driver[d].pc = "streaming" /\ driver[d].own.next \in Node
    BY <1>3, RunNodeWrites, DriverAfter
  <2>2. thread.next # "end"
    BY <1>i, <2>1 DEF Node
  <2> QED BY <1>i, <2>1, <2>2
<1>4. CASE AskForApproval(d)
  <2>1. /\ thread' = thread /\ driver[d].own.next = "gate" /\ driver[d].pc = "streaming"
        /\ driver'[d].pc = "asking" /\ driver'[d].own = driver[d].own
    BY <1>4, DriverAfter DEF AskForApproval
  <2> QED BY <1>i, <2>1
<1>5. CASE Interrupt(d)
  <2>1. driver[d].pc = "asking" /\ driver'[d].pc = "drained"
    BY <1>5, DriverAfter
  <2>2. thread' = [thread EXCEPT !.interrupted = TRUE]
    BY <1>5, <1>i, <2>1 DEF Interrupt
  <2>3. thread'.interrupted /\ thread'.next = thread.next
    BY <2>2 DEF TraceTypeOK, Checkpoint
  <2> QED BY <1>i, <2>1, <2>3 DEF Settled
<1>6. CASE RecordStep(d)
  <2>1. /\ thread' = thread /\ driver[d].pc = "visited" /\ driver'[d].own = driver[d].own
        /\ driver'[d].pc \in {"counting", "streaming"}
    BY <1>6, <1>a, RecordStepWrites
  <2> QED BY <1>i, <2>1
<1>7. CASE StreamEnds(d)
  <2>1. /\ thread' = thread /\ steps' = steps /\ driver[d].own.next = "end"
        /\ driver[d].pc = "streaming" /\ driver'[d].pc = "drained"
    BY <1>7, DriverAfter DEF StreamEnds
  <2> QED BY <1>i, <2>1 DEF Settled
<1>8. CASE Snapshot(d)
  <2>1. /\ thread' = thread /\ steps' = steps /\ driver[d].pc = "drained"
        /\ driver'[d].pc = "closing" /\ driver'[d].seen = thread
    BY <1>8, DriverAfter DEF Snapshot
  <2> QED BY <1>i, <2>1
<1> QED BY <1>a, <1>1, <1>2, <1>3, <1>4, <1>5, <1>6, <1>7, <1>8 DEF Acts, DriverStep

\* What the row says after a step of such a driver.
LEMMA RowEffect ==
  ASSUME TraceTypeOK, LastInv, StarterInv, AloneInv, NEW d \in Drivers, Acts(d),
         ~overlapped', Dead' = {}
  PROVE  /\ execution.finished => execution'.finished
         /\ execution' = execution \/ RecordStarted(d) \/ RecordFinished(d)
         /\ RecordFinished(d) /\ execution'.exists =>
              /\ execution'.status = ResolvedStatus(thread')
              /\ execution'.finished = ~thread'.interrupted
              /\ execution'.finished => thread'.next = "end"
         /\ ~execution'.exists => ~execution'.finished
<1>a. ~overlapped /\ Dead = {}
  BY Alone
<1>1. execution' = execution \/ RecordStarted(d) \/ RecordFinished(d)
  BY DEF Acts, DriverStep, StartRun, ResumeRun, OpenStream, RunNode, AskForApproval,
     Interrupt, RecordStep, RecordBudgetEvent, StreamEnds, Snapshot, Die
<1>2. ASSUME RecordStarted(d) PROVE ~execution.finished /\ execution'.exists
  <2>1. d = Starter /\ driver[Starter].pc = "starting"
    BY <1>2, DriverAfter DEF StarterInv
  <2> QED BY <1>2, <2>1 DEF StarterInv, RecordStarted
<1>3. ASSUME RecordFinished(d)
      PROVE  /\ execution'.exists = execution.exists
             /\ ~execution.exists => execution' = execution
             /\ execution.exists =>
                  /\ execution'.status = ResolvedStatus(thread')
                  /\ execution'.finished = ~thread'.interrupted
                  /\ execution'.finished => thread'.next = "end"
             /\ execution.finished => execution'.finished
  <2>1. driver[d].pc = "closing" /\ thread' = thread
    BY <1>3 DEF RecordFinished
  <2>2. /\ driver[d].seen = thread /\ Settled(thread)
        /\ thread.interrupted => thread.next = "gate"
        /\ execution.finished => thread.next = "end"
    BY <1>a, <2>1 DEF AloneInv
  <2>3. execution' = IF execution.exists
                       THEN [execution EXCEPT !.status = ResolvedStatus(thread),
                                              !.finished = ~thread.interrupted]
                       ELSE execution
    BY <1>3, <2>2 DEF RecordFinished
  <2>4. /\ execution \in [exists : BOOLEAN, status : Status, finished : BOOLEAN]
        /\ thread.interrupted \in BOOLEAN
    BY DEF TraceTypeOK, Checkpoint
  <2>5. CASE execution.exists
    <3>1. execution' = [execution EXCEPT !.status = ResolvedStatus(thread),
                                         !.finished = ~thread.interrupted]
      BY <2>3, <2>5
    <3>2. /\ execution'.exists = execution.exists
          /\ execution'.status = ResolvedStatus(thread)
          /\ execution'.finished = ~thread.interrupted
      BY <2>4, <3>1
    <3> QED BY <2>1, <2>2, <2>5, <3>2 DEF Settled
  <2>6. CASE ~execution.exists
    BY <2>3, <2>6
  <2> QED BY <2>5, <2>6
<1>4. execution.finished => execution.exists
  BY DEF StarterInv
<1> QED BY <1>1, <1>2, <1>3, <1>4

\* The driver at work has the thread as it is, or leaves it settled.
LEMMA AloneStep ==
  ASSUME TraceTypeOK, LastInv, StarterInv, AloneInv, [TraceNext]_traceVars
  PROVE  AloneInv'
<1>1. CASE UNCHANGED traceVars \/ Reads
  <2>1. UNCHANGED <<driver, thread, execution, overlapped>>
    BY <1>1 DEF Reads, ReadRow, ReadSteps, ReadEvents, traceVars
  <2> QED BY <2>1 DEF AloneInv, Dead, Working
<1>2. ASSUME NEW d \in Drivers, Acts(d), ~overlapped', Dead' = {}
      PROVE  /\ \A e, f \in Drivers : Working(e)' /\ Working(f)' => e = f
             /\ thread'.interrupted => thread'.next = "gate"
             /\ \A e \in Drivers :
                  /\ driver'[e].pc \in {"streaming", "asking", "visited", "counting"} =>
                       driver'[e].own = thread'
                  /\ driver'[e].pc = "asking" => driver'[e].own.next = "gate"
                  /\ driver'[e].pc \in {"drained", "closing"} => Settled(thread')
                  /\ driver'[e].pc = "closing" => driver'[e].seen = thread'
             /\ execution'.finished =>
                  /\ thread'.next = "end"
                  /\ \A e \in Drivers :
                       driver'[e].pc \notin {"asking", "visited", "counting"}
  <2>1. /\ ~overlapped /\ Dead = {}
        /\ \A e \in Drivers \ {d} : driver'[e].pc \in {"idle", "answered"}
    BY <1>2, Alone
  <2>2. \A e \in Drivers \ {d} : ~Working(e)'
    BY <2>1 DEF Working, AtWork
  <2>3. execution'.finished =>
          thread'.next = "end" /\ driver'[d].pc \notin {"asking", "visited", "counting"}
    <3>1. CASE execution.finished
      BY <1>2, <2>1, <3>1, AloneEffect DEF AloneInv
    <3>2. CASE ~execution.finished /\ RecordFinished(d)
      BY <1>2, <3>2, RowEffect, DriverAfter
    <3>3. CASE ~execution.finished /\ ~RecordFinished(d)
      <4>1. ~execution'.finished
        BY <1>2, <3>3, RowEffect DEF RecordStarted
      <4> QED BY <4>1
    <3> QED BY <3>1, <3>2, <3>3
  <2> QED BY <1>2, <2>1, <2>2, <2>3, AloneEffect
<1> QED BY <1>1, <1>2 DEF TraceNext, Acts, Reads, AloneInv

\* The row that the last driver wrote says what the thread says.
LEMMA RowStep ==
  ASSUME TraceTypeOK, LastInv, StarterInv, AloneInv, RowTellsTheThread,
         [TraceNext]_traceVars
  PROVE  RowTellsTheThread'
<1>1. CASE UNCHANGED traceVars \/ Reads
  <2>1. UNCHANGED <<driver, thread, execution, overlapped>>
    BY <1>1 DEF Reads, ReadRow, ReadSteps, ReadEvents, traceVars
  <2> QED BY <2>1 DEF RowTellsTheThread, AllRest, Dead, Working, ResolvedStatus
<1>2. ASSUME NEW d \in Drivers, Acts(d), AllRest', ~overlapped', Dead' = {}
      PROVE  RecordFinished(d)
  <2>1. ~Die(d) /\ (RecordStep(d) => driver' # [driver EXCEPT ![d] = Gone(d, "dead")])
    BY <1>2, Alone
  <2>2. driver'[d].pc \notin AtWork
    BY <1>2 DEF AllRest, Working
  <2>3. ~RecordStep(d)
    BY <2>1, <2>2, RecordStepWrites DEF AtWork
  <2> QED BY <1>2, <2>1, <2>2, <2>3, DriverAfter DEF Acts, DriverStep, AtWork
<1>3. ASSUME NEW d \in Drivers, Acts(d) PROVE RowTellsTheThread'
  BY <1>2, <1>3, RowEffect DEF RowTellsTheThread, ResolvedStatus
<1> QED BY <1>1, <1>3 DEF TraceNext, Acts, Reads

-----------------------------------------------------------------------------
\* What a reader of a finished run has got so far is still all there is.
LEMMA ReaderStep ==
  ASSUME TraceTypeOK, NumberInv, BudgetInv, LastInv, StarterInv, AloneInv, ReaderInv,
         [TraceNext]_traceVars
  PROVE  ReaderInv'
<1>1. CASE UNCHANGED traceVars
  BY <1>1 DEF traceVars, ReaderInv, Dead, StepsOf
<1>2. CASE Reads
  <2>1. UNCHANGED <<execution, steps, audit, driver, overlapped>>
    BY <1>2 DEF Reads, ReadRow, ReadSteps, ReadEvents
  <2>2. Dead' = Dead /\ StepsOf("retry")' = StepsOf("retry")
    BY <2>1 DEF Dead, StepsOf
  <2> SUFFICES ASSUME ~overlapped, Dead = {}
               PROVE  /\ reader'.pc # "idle" => execution.finished
                      /\ reader'.pc \in {"steps", "done"} =>
                           reader'.steps = Cardinality(steps)
                      /\ reader'.pc = "done" =>
                           reader'.retries = Cardinality(StepsOf("retry"))
    BY <2>1, <2>2 DEF ReaderInv
  <2>3. CASE ReadRow
    BY <2>3 DEF ReadRow, TraceTypeOK
  <2>4. CASE ReadSteps
    BY <2>4 DEF ReadSteps, ReaderInv, TraceTypeOK
  <2>5. CASE ReadEvents
    <3>1. execution.finished /\ reader.pc = "steps" /\ reader.steps = Cardinality(steps)
      BY <2>5 DEF ReadEvents, ReaderInv
    <3>2. MayOwe("retry") = {} /\ Owing("retry") = {}
      BY <3>1 DEF AloneInv, Dead, MayOwe, Owing
    <3>3. Cardinality(StepsOf("retry")) = audit["retry"]
      <4>1. Cardinality(StepsOf("retry")) - audit["retry"] \in 0..0
        BY <3>2, FS_EmptySet DEF BudgetInv, Budget
      <4>2. Cardinality(StepsOf("retry")) \in Nat /\ audit["retry"] \in Nat
        BY FS_Subset, FS_CardinalityType DEF NumberInv, StepsOf, TraceTypeOK
      <4> QED BY <4>1, <4>2
    <3> QED BY <2>5, <3>1, <3>3 DEF ReadEvents, TraceTypeOK
  <2> QED BY <1>2, <2>3, <2>4, <2>5 DEF Reads
<1>3. ASSUME NEW d \in Drivers, Acts(d), ~overlapped', Dead' = {}
      PROVE  /\ reader'.pc # "idle" => execution'.finished
             /\ reader'.pc \in {"steps", "done"} => reader'.steps = Cardinality(steps')
             /\ reader'.pc = "done" => reader'.retries = Cardinality(StepsOf("retry")')
  <2>1. reader' = reader
    BY <1>3 DEF Acts, DriverStep, StartRun, ResumeRun, RecordStarted, OpenStream, RunNode,
       AskForApproval, Interrupt, RecordStep, RecordBudgetEvent, StreamEnds, Snapshot,
       RecordFinished, Die
  <2>2. CASE reader.pc = "idle"
    BY <2>1, <2>2
  <2>3. CASE reader.pc # "idle"
    <3>1. /\ ~overlapped /\ Dead = {} /\ execution.finished
          /\ reader.pc \in {"steps", "done"} => reader.steps = Cardinality(steps)
          /\ reader.pc = "done" => reader.retries = Cardinality(StepsOf("retry"))
      BY <1>3, <2>3, Alone DEF ReaderInv
    <3>2. execution'.finished
      BY <1>3, <3>1, RowEffect
    <3>3. steps' = steps
      BY <1>3, <3>1, AloneEffect
    <3>4. StepsOf("retry")' = StepsOf("retry")
      BY <3>3 DEF StepsOf
    <3> QED BY <2>1, <3>1, <3>2, <3>3, <3>4
  <2> QED BY <2>2, <2>3
<1> QED BY <1>1, <1>2, <1>3 DEF TraceNext, Acts, Reads, ReaderInv

-----------------------------------------------------------------------------
\* The invariant holds before the run is started.
LEMMA InitInv == TraceInit => TraceInv
<1> SUFFICES ASSUME TraceInit PROVE TraceInv
  OBVIOUS
<1> USE DriverAssumption
<1>1. TraceTypeOK
  <2>1. FirstCheckpoint \in Checkpoint
    BY DEF FirstCheckpoint, Checkpoint, Position, Node
  <2> QED BY <2>1 DEF TraceInit, TraceTypeOK, DriverState, Position, Status, Step
<1>2. NumberInv
  <2>1. IsFiniteSet(steps) /\ Cardinality(steps) = 0 /\ steps = {}
    BY FS_EmptySet DEF TraceInit
  <2>2. \A d \in Drivers : {s \in steps : s.by = d} = {}
    BY <2>1
  <2> QED BY <2>1, <2>2 DEF TraceInit, NumberInv, StepsAreNumbered
<1>3. BudgetInv
  <2> SUFFICES ASSUME NEW node \in Budget
               PROVE  Cardinality(StepsOf(node)) - audit[node]
                        \in Cardinality(Owing(node))..Cardinality(MayOwe(node))
    BY DEF BudgetInv
  <2>1. StepsOf(node) = {} /\ Owing(node) = {} /\ MayOwe(node) = {}
    BY DEF TraceInit, StepsOf, Owing, MayOwe
  <2>2. audit[node] = 0
    BY DEF TraceInit, Budget
  <2> QED BY <2>1, <2>2, FS_EmptySet
<1>4. LastInv /\ NoticeInv
  BY DEF TraceInit, LastInv, NoticeInv, Honest, FirstCheckpoint
<1>5. StarterInv /\ AloneInv /\ ReaderInv
  BY DEF TraceInit, StarterInv, AloneInv, ReaderInv, Working, AtWork, FirstCheckpoint
<1>6. RowTellsTheThread
  BY DEF TraceInit, RowTellsTheThread
<1> QED BY <1>1, <1>2, <1>3, <1>4, <1>5, <1>6 DEF TraceInv

\* Every step of a driver or of a reader keeps it.
LEMMA StepInv == TraceInv /\ [TraceNext]_traceVars => TraceInv'
BY TypeStep, NumberStep, BudgetStep, LastStep, NoticeStep, StarterStep, AloneStep, ReaderStep,
   RowStep DEF TraceInv

\* What the invariant says of the properties that the run checks.
LEMMA Consequences == TraceInv => TraceIsWhole /\ EndIsReal
<1> SUFFICES ASSUME TraceInv PROVE TraceIsWhole /\ EndIsReal
  OBVIOUS
<1> USE DEF TraceInv
<1>1. StepsAreNumbered /\ RowTellsTheThread
  BY DEF NumberInv
<1>2. BudgetsAreAudited
  <2> SUFFICES ASSUME NEW node \in Budget
               PROVE  Cardinality(StepsOf(node)) - audit[node] \in 0..Cardinality(MayOwe(node))
    BY DEF BudgetsAreAudited, StepsOf, MayOwe
  <2>1. Cardinality(Owing(node)) \in Nat
    BY FS_Subset, FS_CardinalityType, DriverAssumption DEF Owing
  <2> QED BY <2>1 DEF BudgetInv
<1>3. FinishedTraceIsWhole
  BY DEF ReaderInv, FinishedTraceIsWhole, StepsOf
<1>4. CompletedIsReal
  BY DEF NoticeInv, Noticed, CompletedIsReal
<1> QED BY <1>1, <1>2, <1>3, <1>4 DEF TraceIsWhole, EndIsReal

\* The drivers of a run keep the invariant, however many there are and however
\* long the run is.
THEOREM Invariance == TraceSpec => []TraceInv
<1> QED BY InitInv, StepInv, PTL DEF TraceSpec

\* The trace never leaves its types.
THEOREM TypeCorrect == TraceSpec => []TraceTypeOK
<1>1. TraceInv => TraceTypeOK
  BY DEF TraceInv
<1> QED BY <1>1, Invariance, PTL

\* Steps are numbered without a gap or a duplicate, budgets that were spent are
\* audited, and a reader that finds the run finished finds all of it
\* (WorkflowRunner and get_workflow_trace).
THEOREM WholeTrace == TraceSpec => []TraceIsWhole
<1> QED BY Consequences, Invariance, PTL

\* The row and the audit tell of an end that the thread of the run has come to.
THEOREM RealEnd == TraceSpec => []EndIsReal
<1> QED BY Consequences, Invariance, PTL

=============================================================================
