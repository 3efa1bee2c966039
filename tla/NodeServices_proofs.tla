-------------------------- MODULE NodeServices_proofs --------------------------
(***************************************************************************)
(* The services behind the workflow's nodes beside the corpus: the         *)
(* specialist keeps the newest tasks, the portal's client reports what the *)
(* portal held, and an assessment decides on what it has read; and the     *)
(* services together.                                                      *)
(***************************************************************************)
EXTENDS NodeServicesMC, Knowledge_proofs, SequenceTheorems

(***************************************************************************)
(* RetainedTasks                                                           *)
(***************************************************************************)
AnswerState == [pc : {"new", "answering", "sent", "done", "polled"},
           task : {"none", "completed", "failed"},
           has : Status \cup {"nothing"},
           polled : {"nothing", "completed", "failed", "404"}]

IsRecorded(m) == \E i \in 1..Len(recorded) : recorded[i] = m

\* What is retained is a window on what was recorded, as wide as it may be.
WindowInv ==
  /\ tasks \in Seq(Messages) /\ recorded \in Seq(Messages)
  /\ Len(tasks) <= Len(recorded) /\ Len(tasks) <= MaxRetained
  /\ Len(tasks) < MaxRetained => Len(tasks) = Len(recorded)
  /\ \A i \in 1..Len(tasks) : tasks[i] = recorded[Len(recorded) - Len(tasks) + i]

\* A message is recorded once, when it has its task, and its client is done when it
\* has been told something; the specialist may still be at work then.
AnswerInv ==
  /\ message \in [Messages -> AnswerState]
  /\ IsInjective(recorded)
  /\ \A m \in Messages :
       /\ message[m].task # "none" <=> IsRecorded(m)
       /\ message[m].pc \in {"new", "answering"} => message[m].task = "none"
       /\ message[m].pc \in {"sent", "polled"} => message[m].task # "none"
       /\ message[m].pc \in {"done", "polled"} <=> message[m].has # "nothing"
       /\ message[m].has = "consulted" => message[m].task = "completed"
       /\ message[m].has = "refused" => message[m].task = "failed"
       /\ message[m].polled = "404" => Len(recorded) > MaxRetained

TasksInv == WindowInv /\ AnswerInv

\* A window that is not full shows everything.
LEMMA WindowIsSubSeq == WindowInv => NewestAreRetained
<1> SUFFICES ASSUME WindowInv PROVE NewestAreRetained
  OBVIOUS
<1> DEFINE from == Len(recorded) - Len(tasks) + 1
           window == SubSeq(recorded, from, Len(recorded))
<1>1. /\ tasks \in Seq(Messages) /\ recorded \in Seq(Messages)
      /\ Len(tasks) \in Nat /\ Len(recorded) \in Nat /\ Len(tasks) <= Len(recorded)
  BY DEF WindowInv
<1>2. \A i \in from..Len(recorded) : recorded[i] \in Messages
  BY <1>1
<1>3. /\ window \in Seq(Messages)
      /\ Len(window) = IF from <= Len(recorded) THEN Len(recorded) - from + 1 ELSE 0
      /\ \A i \in 1..Len(recorded) - from + 1 : window[i] = recorded[from + i - 1]
  <2> HIDE DEF window, from
  <2>1. from \in Int /\ Len(recorded) \in Int
    BY <1>1 DEF from
  <2> QED BY <1>2, <2>1, SubSeqProperties DEF window
<1>4. Len(window) = Len(tasks)
  BY <1>1, <1>3
<1>5. ASSUME NEW i \in 1..Len(tasks) PROVE tasks[i] = window[i]
  <2>1. window[i] = recorded[from + i - 1]
    BY <1>1, <1>3
  <2>2. from + i - 1 = Len(recorded) - Len(tasks) + i
    BY <1>1
  <2> QED BY <2>1, <2>2 DEF WindowInv
<1>6. tasks = window
  <2> HIDE DEF window
  <2> QED BY <1>1, <1>3, <1>4, <1>5, SeqEqual
<1>7. ASSUME Len(tasks) < MaxRetained PROVE tasks = recorded
  <2>1. Len(tasks) = Len(recorded)
    BY <1>7 DEF WindowInv
  <2>2. \A i \in 1..Len(tasks) : tasks[i] = recorded[i]
    BY <1>1, <2>1 DEF WindowInv
  <2> QED BY <1>1, <2>1, <2>2, SeqEqual
<1> QED BY <1>6, <1>7 DEF NewestAreRetained

\* Recording a message moves the window on.
LEMMA RetainMoves ==
  ASSUME WindowInv, NEW m \in Messages, Retain(m)
  PROVE  /\ WindowInv'
         /\ Len(recorded') = Len(recorded) + 1
         /\ \A i \in 1..Len(recorded) : recorded'[i] = recorded[i]
         /\ recorded'[Len(recorded) + 1] = m
<1> DEFINE kept == IF Len(tasks) >= MaxRetained THEN Tail(tasks) ELSE tasks
<1>1. /\ tasks \in Seq(Messages) /\ recorded \in Seq(Messages)
      /\ Len(tasks) \in Nat /\ Len(recorded) \in Nat
      /\ MaxRetained \in Nat /\ MaxRetained > 0
  BY RetainedAssumption DEF WindowInv
<1>2. /\ recorded' \in Seq(Messages) /\ Len(recorded') = Len(recorded) + 1
      /\ \A i \in 1..Len(recorded) : recorded'[i] = recorded[i]
      /\ recorded'[Len(recorded) + 1] = m
  BY <1>1, AppendProperties DEF Retain
<1>3. /\ kept \in Seq(Messages) /\ Len(kept) \in Nat
      /\ Len(kept) = IF Len(tasks) >= MaxRetained THEN Len(tasks) - 1 ELSE Len(tasks)
      /\ \A i \in 1..Len(kept) : kept[i] = recorded[Len(recorded) - Len(kept) + i]
  <2>1. CASE Len(tasks) >= MaxRetained
    <3>1. tasks # <<>>
      BY <1>1, <2>1, EmptySeq
    <3>2. /\ Tail(tasks) \in Seq(Messages) /\ Len(Tail(tasks)) = Len(tasks) - 1
          /\ \A i \in 1..Len(Tail(tasks)) : Tail(tasks)[i] = tasks[i + 1]
      BY <1>1, <3>1, HeadTailProperties
    <3>3. ASSUME NEW i \in 1..Len(Tail(tasks))
          PROVE  Tail(tasks)[i] = recorded[Len(recorded) - Len(Tail(tasks)) + i]
      <4>1. i + 1 \in 1..Len(tasks) /\ Tail(tasks)[i] = tasks[i + 1]
        BY <1>1, <3>2
      <4>2. tasks[i + 1] = recorded[Len(recorded) - Len(tasks) + (i + 1)]
        BY <4>1 DEF WindowInv
      <4>3. Len(recorded) - Len(tasks) + (i + 1) = Len(recorded) - Len(Tail(tasks)) + i
        BY <1>1, <3>2
      <4> QED BY <4>1, <4>2, <4>3
    <3> QED BY <1>1, <2>1, <3>1, <3>2, <3>3, EmptySeq
  <2>2. CASE ~(Len(tasks) >= MaxRetained)
    BY <1>1, <2>2 DEF WindowInv
  <2> QED BY <2>1, <2>2
<1>4. /\ tasks' \in Seq(Messages) /\ Len(tasks') = Len(kept) + 1
      /\ \A i \in 1..Len(kept) : tasks'[i] = kept[i]
      /\ tasks'[Len(kept) + 1] = m
  <2>1. tasks' = Append(kept, m)
    BY DEF Retain
  <2> HIDE DEF kept
  <2> QED BY <1>3, <2>1, AppendProperties
<1>5. /\ Len(tasks') <= Len(recorded') /\ Len(tasks') <= MaxRetained
      /\ Len(tasks') < MaxRetained => Len(tasks') = Len(recorded')
  <2> HIDE DEF kept
  <2> QED BY <1>1, <1>2, <1>3, <1>4 DEF WindowInv
<1>6. ASSUME NEW i \in 1..Len(tasks')
      PROVE  tasks'[i] = recorded'[Len(recorded') - Len(tasks') + i]
  <2> HIDE DEF kept
  <2>1. Len(recorded') - Len(tasks') = Len(recorded) - Len(kept)
    BY <1>1, <1>2, <1>3, <1>4
  <2>2. Len(kept) <= Len(recorded)
    BY <1>1, <1>3 DEF WindowInv
  <2>3. CASE i = Len(kept) + 1
    <3>1. Len(recorded') - Len(tasks') + i = Len(recorded) + 1
      BY <1>1, <1>3, <2>1, <2>3
    <3> QED BY <1>2, <1>4, <2>3, <3>1
  <2>4. CASE i \in 1..Len(kept)
    <3>1. Len(recorded) - Len(kept) + i \in 1..Len(recorded)
      BY <1>1, <1>3, <2>2, <2>4
    <3>2. tasks'[i] = recorded[Len(recorded) - Len(kept) + i]
      BY <1>3, <1>4, <2>4
    <3> QED BY <1>2, <2>1, <3>1, <3>2
  <2>5. i = Len(kept) + 1 \/ i \in 1..Len(kept)
    <3>1. i \in 1..(Len(kept) + 1)
      BY <1>4
    <3> QED BY <1>3, <3>1
  <2> QED BY <2>3, <2>4, <2>5
<1> QED BY <1>2, <1>4, <1>5, <1>6 DEF WindowInv

\* Recording a message that has no task yet.
LEMMA RecordsOnce ==
  ASSUME WindowInv, AnswerInv, NEW m \in Messages, message[m].task = "none", Retain(m),
         NEW answer \in AnswerState, message' = [message EXCEPT ![m] = answer],
         answer.task # "none", answer.pc \in {"sent", "done"},
         answer.has = message[m].has, answer.pc = "done" <=> answer.has # "nothing",
         answer.polled = message[m].polled
  PROVE  TasksInv'
<1>1. /\ WindowInv' /\ Len(recorded') = Len(recorded) + 1
      /\ \A i \in 1..Len(recorded) : recorded'[i] = recorded[i]
      /\ recorded'[Len(recorded) + 1] = m
  BY RetainMoves
<1>2. Len(recorded) \in Nat /\ DOMAIN recorded = 1..Len(recorded)
      /\ DOMAIN recorded' = 1..Len(recorded) + 1
  <2>1. recorded \in Seq(Messages) /\ recorded' \in Seq(Messages)
    BY <1>1 DEF WindowInv
  <2> QED BY <1>1, <2>1, LenProperties
<1>3. \A i \in 1..Len(recorded) : recorded[i] # m
  BY DEF AnswerInv, IsRecorded
<1>4. IsInjective(recorded')
  BY <1>1, <1>2, <1>3 DEF AnswerInv, IsInjective
<1>5. \A n \in Messages : IsRecorded(n)' <=> IsRecorded(n) \/ n = m
  BY <1>1, <1>2 DEF IsRecorded
<1>6. message' \in [Messages -> AnswerState]
      /\ message'[m] = answer /\ \A n \in Messages \ {m} : message'[n] = message[n]
  BY DEF AnswerInv
<1>7. ASSUME NEW n \in Messages, message'[n].polled = "404"
      PROVE  Len(recorded') > MaxRetained
  <2>1. message[n].polled = "404"
    BY <1>6, <1>7
  <2> QED BY <1>1, <1>2, <2>1, RetainedAssumption DEF AnswerInv
<1>8. AnswerInv'
  BY <1>4, <1>5, <1>6, <1>7 DEF AnswerInv, AnswerState, Status
<1> QED BY <1>1, <1>8 DEF TasksInv

\* Whatever a step does to a message that it does not record.
LEMMA MovesOnly ==
  ASSUME TasksInv, NEW m \in Messages, UNCHANGED <<tasks, recorded>>,
         NEW answer \in AnswerState, message' = [message EXCEPT ![m] = answer],
         answer.task = message[m].task,
         answer.pc \in {"new", "answering"} => answer.task = "none",
         answer.pc \in {"sent", "polled"} => answer.task # "none",
         answer.pc \in {"done", "polled"} <=> answer.has # "nothing",
         answer.has = "consulted" => answer.task = "completed",
         answer.has = "refused" => answer.task = "failed",
         answer.polled = "404" => Len(recorded) > MaxRetained
  PROVE  TasksInv'
<1>1. /\ message' \in [Messages -> AnswerState] /\ message'[m] = answer
      /\ \A n \in Messages \ {m} : message'[n] = message[n]
  BY DEF TasksInv, AnswerInv
<1>2. WindowInv'
  BY DEF TasksInv, WindowInv
<1>3. \A n \in Messages : IsRecorded(n)' <=> IsRecorded(n)
  BY DEF IsRecorded
<1>4. AnswerInv'
  BY <1>1, <1>3 DEF TasksInv, AnswerInv
<1> QED BY <1>2, <1>4 DEF TasksInv

\* A task that cannot be fetched any more was dropped by a full store.
LEMMA MissingWasDropped ==
  ASSUME TasksInv, NEW m \in Messages, message[m].task # "none", m \notin ToSet(tasks)
  PROVE  Len(recorded) > MaxRetained
<1>1. /\ tasks \in Seq(Messages) /\ recorded \in Seq(Messages)
      /\ Len(tasks) \in Nat /\ Len(recorded) \in Nat
  BY DEF TasksInv, WindowInv
<1>2. PICK i \in 1..Len(recorded) : recorded[i] = m
  BY DEF TasksInv, AnswerInv, IsRecorded
<1>3. \A j \in 1..Len(tasks) : tasks[j] # m
  BY <1>1, LenProperties DEF ToSet
<1>4. Len(tasks) # Len(recorded)
  <2>1. Len(tasks) = Len(recorded) => tasks[i] = recorded[i]
    BY <1>1, <1>2 DEF TasksInv, WindowInv
  <2> QED BY <1>1, <1>2, <1>3, <2>1
<1> QED BY <1>1, <1>4, RetainedAssumption DEF TasksInv, WindowInv

\* Nothing has been recorded at first.
LEMMA TasksInitInv == TasksInit => TasksInv
<1> SUFFICES ASSUME TasksInit PROVE TasksInv
  OBVIOUS
<1>1. Len(tasks) = 0 /\ Len(recorded) = 0 /\ DOMAIN recorded = {}
  BY DEF TasksInit
<1>2. WindowInv
  BY <1>1, EmptySeq, RetainedAssumption DEF TasksInit, WindowInv
<1>3. AnswerInv
  BY <1>1 DEF TasksInit, AnswerInv, AnswerState, Status, IsInjective, IsRecorded
<1> QED BY <1>2, <1>3 DEF TasksInv

\* Each step of a message records it or moves it on.
LEMMA TasksStep == TasksInv /\ [TasksNext]_taskVars => TasksInv'
<1> SUFFICES ASSUME TasksInv, [TasksNext]_taskVars PROVE TasksInv'
  OBVIOUS
<1>1. CASE UNCHANGED taskVars
  BY <1>1 DEF TasksInv, WindowInv, AnswerInv, IsRecorded, IsInjective, taskVars
<1>2. ASSUME NEW m \in Messages, Send(m) \/ MessageStep(m) PROVE TasksInv'
  <2>1. message \in [Messages -> AnswerState] /\ message[m] \in AnswerState
    BY DEF TasksInv, AnswerInv
  <2>2. CASE /\ message[m].pc = "new"
             /\ message' = [message EXCEPT ![m].pc = "answering"]
             /\ UNCHANGED <<tasks, recorded>>
    <3> DEFINE answer == [message[m] EXCEPT !.pc = "answering"]
    <3>1. answer \in AnswerState /\ message' = [message EXCEPT ![m] = answer]
      BY <2>1, <2>2 DEF AnswerState
    <3>8. /\ answer.task = message[m].task
          /\ answer.pc \in {"new", "answering"} => answer.task = "none"
          /\ answer.pc \in {"sent", "polled"} => answer.task # "none"
          /\ answer.pc \in {"done", "polled"} <=> answer.has # "nothing"
          /\ answer.has = "consulted" => answer.task = "completed"
          /\ answer.has = "refused" => answer.task = "failed"
          /\ answer.polled = "404" => Len(recorded) > MaxRetained
      BY <2>1, <2>2 DEF TasksInv, AnswerInv, AnswerState
    <3>9. UNCHANGED <<tasks, recorded>>
      BY <2>2
    <3> HIDE DEF answer
    <3> QED BY <3>1, <3>8, <3>9, MovesOnly
  <2>3. CASE /\ message[m].pc = "new"
             /\ message' = [message EXCEPT ![m].pc = "sent", ![m].task = "failed"]
             /\ Retain(m)
    <3> DEFINE answer == [message[m] EXCEPT !.pc = "sent", !.task = "failed"]
    <3>1. answer \in AnswerState /\ message' = [message EXCEPT ![m] = answer]
      BY <2>1, <2>3 DEF AnswerState
    <3> QED BY <2>1, <2>3, <3>1, RecordsOnce DEF TasksInv, AnswerInv, AnswerState
  <2>4. CASE Answered(m)
    <3>1. PICK t \in {"completed", "failed"} :
            message' = [message EXCEPT ![m].task = t,
                          ![m].pc = IF @ = "answering" THEN "sent" ELSE @]
      BY <2>4 DEF Answered
    <3> DEFINE answer == [message[m] EXCEPT !.task = t,
                            !.pc = IF message[m].pc = "answering" THEN "sent"
                                                                 ELSE message[m].pc]
    <3>2. answer \in AnswerState /\ message' = [message EXCEPT ![m] = answer]
      BY <2>1, <3>1 DEF AnswerState
    <3>3. /\ message[m].pc = "answering" \/ message[m].pc = "done"
          /\ message[m].task = "none" /\ Retain(m)
      BY <2>4 DEF Answered, TasksInv, AnswerInv
    <3>4. /\ answer.task # "none" /\ answer.pc \in {"sent", "done"}
          /\ answer.has = message[m].has /\ answer.polled = message[m].polled
          /\ answer.pc = "done" <=> answer.has # "nothing"
      BY <2>1, <3>3 DEF TasksInv, AnswerInv, AnswerState
    <3> HIDE DEF answer
    <3> QED BY <3>2, <3>3, <3>4, RecordsOnce DEF TasksInv
  <2>5. CASE Interpret(m)
    <3> DEFINE answer == [message[m] EXCEPT !.pc = "done",
                  !.has = IF message[m].task = "completed" THEN "consulted" ELSE "refused"]
    <3>1. answer \in AnswerState /\ message' = [message EXCEPT ![m] = answer]
      BY <2>1, <2>5 DEF AnswerState, Interpret, Status
    <3>8. /\ answer.task = message[m].task
          /\ answer.pc \in {"new", "answering"} => answer.task = "none"
          /\ answer.pc \in {"sent", "polled"} => answer.task # "none"
          /\ answer.pc \in {"done", "polled"} <=> answer.has # "nothing"
          /\ answer.has = "consulted" => answer.task = "completed"
          /\ answer.has = "refused" => answer.task = "failed"
          /\ answer.polled = "404" => Len(recorded) > MaxRetained
      BY <2>1, <2>5 DEF Interpret, TasksInv, AnswerInv, AnswerState
    <3>9. UNCHANGED <<tasks, recorded>>
      BY <2>5 DEF Interpret
    <3> HIDE DEF answer
    <3> QED BY <3>1, <3>8, <3>9, MovesOnly
  <2>6. CASE GiveUpWaiting(m)
    <3> DEFINE answer == [message[m] EXCEPT !.pc = "done", !.has = "unavailable"]
    <3>1. answer \in AnswerState /\ message' = [message EXCEPT ![m] = answer]
      BY <2>1, <2>6 DEF AnswerState, GiveUpWaiting, Status
    <3>8. /\ answer.task = message[m].task
          /\ answer.pc \in {"new", "answering"} => answer.task = "none"
          /\ answer.pc \in {"sent", "polled"} => answer.task # "none"
          /\ answer.pc \in {"done", "polled"} <=> answer.has # "nothing"
          /\ answer.has = "consulted" => answer.task = "completed"
          /\ answer.has = "refused" => answer.task = "failed"
          /\ answer.polled = "404" => Len(recorded) > MaxRetained
      BY <2>1, <2>6 DEF GiveUpWaiting, TasksInv, AnswerInv, AnswerState
    <3>9. UNCHANGED <<tasks, recorded>>
      BY <2>6 DEF GiveUpWaiting
    <3> HIDE DEF answer
    <3> QED BY <3>1, <3>8, <3>9, MovesOnly
  <2>7. CASE Poll(m)
    <3> DEFINE answer == [message[m] EXCEPT !.pc = "polled",
                  !.polled = IF m \in ToSet(tasks) THEN message[m].task ELSE "404"]
    <3>1. answer \in AnswerState /\ message' = [message EXCEPT ![m] = answer]
      BY <2>1, <2>7 DEF AnswerState, Poll
    <3>2. answer.polled = "404" => Len(recorded) > MaxRetained
      BY <2>1, <2>7, MissingWasDropped DEF Poll, AnswerState
    <3>8. /\ answer.task = message[m].task
          /\ answer.pc \in {"new", "answering"} => answer.task = "none"
          /\ answer.pc \in {"sent", "polled"} => answer.task # "none"
          /\ answer.pc \in {"done", "polled"} <=> answer.has # "nothing"
          /\ answer.has = "consulted" => answer.task = "completed"
          /\ answer.has = "refused" => answer.task = "failed"
          /\ answer.polled = "404" => Len(recorded) > MaxRetained
      BY <2>1, <2>7, <3>2 DEF Poll, TasksInv, AnswerInv, AnswerState
    <3>9. UNCHANGED <<tasks, recorded>>
      BY <2>7 DEF Poll
    <3> HIDE DEF answer
    <3> QED BY <3>1, <3>8, <3>9, MovesOnly
  <2> QED BY <1>2, <2>2, <2>3, <2>4, <2>5, <2>6, <2>7 DEF Send, MessageStep
<1> QED BY <1>1, <1>2 DEF TasksNext

\* Messages, answers and polls keep the invariant, whatever the limit is.
THEOREM TasksInvariance == TasksSpec => []TasksInv
BY TasksInitInv, TasksStep, PTL DEF TasksSpec

\* The tasks that can be fetched are the newest, in their order, whoever waited for
\* them; and a client was told what its task says (send_message, _record,
\* _interpret).
THEOREM AnsweredTasks == TasksSpec => []TasksAreAnswered
<1>1. TasksInv => TasksAreAnswered
  BY WindowIsSubSeq DEF TasksInv, AnswerInv, ClientAndTaskAgree, TasksAreAnswered
<1> QED BY <1>1, TasksInvariance, PTL

(***************************************************************************)
(* Portal                                                                  *)
(***************************************************************************)
Entitlement == [tier : PROVISIONABLE_TIERS \cup {"unprovisioned"}, seats : {1, 5}]
Place == Failure \cup {"new", "launched", "signing", "signed_in", "form", "changing",
                       "changed", "confirmed", "read", "absent"}
CallState == [asks : Request, pc : Place,
              change : {"none", "begun", "failed", "committed"},
              loaded : Entitlement \cup {Nothing}, since : Nat,
              got : Entitlement \cup {Nothing}]

\* The last entitlement that the portal has held is the one it has.
HistoryInv ==
  /\ account \in BOOLEAN /\ entitlement \in Entitlement
  /\ ever \in Seq(Entitlement) /\ ever # <<>> /\ ever[Len(ever)] = entitlement
  /\ ~account => entitlement = Unprovisioned
  /\ sessions \subseteq Operations
  /\ op \in [Operations -> CallState]

\* What a seed command has loaded is what an account of the catalogue once held.
SeedInv ==
  /\ catalogued \in BOOLEAN /\ seeds \in Nat
  /\ seeding # Nothing => catalogued /\ seeding \in HeldSince(1)

\* Where the browser is tells what has become of the change, but for a timeout.  A
\* change that has begun and not ended is one of a session, to an account that is.
Sound(o, state) ==
  /\ state.since \in 1..Len(ever)
  /\ state.change # "none" => state.asks.tier \in PROVISIONABLE_TIERS
  /\ state.change = "begun" => state.pc \in {"changing", "timeout"} /\ o \in sessions /\ account
  /\ state.pc \in Place \ {"changing", "changed", "confirmed", "timeout"} =>
       state.change = "none"
  /\ state.pc \in {"confirmed", "read"} => state.got \in HeldSince(state.since)

PortalInv == HistoryInv /\ SeedInv /\ \A o \in Operations : Sound(o, op[o])

\* A step of one browser that leaves the entitlement alone.
LEMMA BrowserMoves ==
  ASSUME PortalInv, NEW o \in Operations, NEW next \in CallState,
         op' = [op EXCEPT ![o] = next], UNCHANGED <<account, entitlement, ever>>,
         UNCHANGED seedVars, sessions' = sessions \/ sessions' = sessions \cup {o},
         Sound(o, next)
  PROVE  PortalInv'
<1>1. /\ op' \in [Operations -> CallState] /\ op'[o] = next
      /\ \A q \in Operations \ {o} : op'[q] = op[q]
  BY DEF PortalInv, HistoryInv
<1>2. HistoryInv'
  BY <1>1 DEF PortalInv, HistoryInv
<1>3. ASSUME NEW q \in Operations PROVE Sound(q, op[q])'
  <2>1. Sound(q, op'[q])
    BY <1>1 DEF PortalInv
  <2>2. \A from : HeldSince(from)' = HeldSince(from)
    BY DEF HeldSince
  <2> QED BY <2>1, <2>2 DEF Sound
<1>4. SeedInv'
  <2>1. HeldSince(1)' = HeldSince(1)
    BY DEF HeldSince
  <2> QED BY <2>1 DEF PortalInv, SeedInv, seedVars
<1> QED BY <1>2, <1>3, <1>4 DEF PortalInv

\* A change that had begun is lost with a time-out of its browser.
LEMMA LostChange ==
  ASSUME PortalInv, NEW o \in Operations, op[o].change = "begun"
  PROVE  /\ Lost(o) \in CallState
         /\ Lost(o).since = op[o].since /\ Lost(o).asks = op[o].asks
         /\ Lost(o).change = "failed" /\ Lost(o).pc = "timeout"
         /\ op[o].asks.tier \in PROVISIONABLE_TIERS /\ op[o].since \in 1..Len(ever)
<1>1. op[o] \in CallState /\ Sound(o, op[o])
  BY DEF PortalInv, HistoryInv
<1> QED BY <1>1 DEF Lost, Sound, CallState, Place, Failure

\* What has been held stays held.
LEMMA HeldStays ==
  ASSUME HistoryInv, NEW e \in Entitlement, ever' = Append(ever, e)
  PROVE  /\ ever' \in Seq(Entitlement) /\ ever' # <<>>
         /\ Len(ever) \in Nat /\ Len(ever) > 0
         /\ Len(ever') = Len(ever) + 1 /\ ever'[Len(ever')] = e
         /\ \A from \in 1..Len(ever) : HeldSince(from) \subseteq HeldSince(from)'
<1>1. /\ ever' \in Seq(Entitlement) /\ ever' # <<>> /\ Len(ever') = Len(ever) + 1
      /\ \A i \in 1..Len(ever) : ever'[i] = ever[i]
      /\ ever'[Len(ever) + 1] = e
  BY AppendProperties DEF HistoryInv
<1>2. Len(ever) \in Nat /\ Len(ever) > 0
  BY EmptySeq DEF HistoryInv
<1>3. ASSUME NEW from \in 1..Len(ever), NEW n \in from..Len(ever)
      PROVE  ever[n] \in HeldSince(from)'
  BY <1>1, <1>2 DEF HeldSince
<1>4. \A from \in 1..Len(ever) : HeldSince(from) \subseteq HeldSince(from)'
  BY <1>3 DEF HeldSince
<1> QED BY <1>1, <1>2, <1>4

\* A step that gives the account another entitlement: a change that commits, or a
\* seed command, with which others may be lost.
LEMMA EntitlementMoves ==
  ASSUME PortalInv, entitlement' \in Entitlement, ever' = Append(ever, entitlement'),
         account' = TRUE, UNCHANGED <<sessions, catalogued>>, seeds' \in Nat,
         seeding' \in {seeding, Nothing}, op' \in [Operations -> CallState],
         \A q \in Operations :
           \/ op'[q] = op[q]
           \/ op[q].change = "begun" /\ op'[q] = Lost(q)
           \/ /\ op'[q].since \in 1..Len(ever')
              /\ op'[q].asks.tier \in PROVISIONABLE_TIERS
              /\ op'[q].change = "committed" /\ op'[q].pc \in {"changed", "timeout"}
  PROVE  PortalInv'
<1>1. /\ ever' \in Seq(Entitlement) /\ ever' # <<>> /\ ever'[Len(ever')] = entitlement'
      /\ Len(ever) \in Nat /\ Len(ever) > 0 /\ Len(ever') = Len(ever) + 1
      /\ \A from \in 1..Len(ever) : HeldSince(from) \subseteq HeldSince(from)'
  BY HeldStays DEF PortalInv
<1>2. HistoryInv'
  BY <1>1 DEF PortalInv, HistoryInv
<1>3. ASSUME NEW q \in Operations PROVE Sound(q, op[q])'
  <2>1. CASE op'[q] = op[q]
    <3>1. Sound(q, op[q])
      BY DEF PortalInv
    <3>2. op[q].since \in 1..Len(ever) /\ op[q].since \in 1..Len(ever')
      BY <1>1, <3>1 DEF Sound
    <3> QED BY <1>1, <2>1, <3>1, <3>2 DEF Sound
  <2>2. CASE op[q].change = "begun" /\ op'[q] = Lost(q)
    <3>1. /\ op'[q].since \in 1..Len(ever) /\ op'[q].asks.tier \in PROVISIONABLE_TIERS
          /\ op'[q].change = "failed" /\ op'[q].pc = "timeout"
      BY <2>2, LostChange
    <3>2. op'[q].since \in 1..Len(ever')
      BY <1>1, <3>1
    <3> QED BY <3>1, <3>2 DEF Sound
  <2>3. CASE /\ op'[q].since \in 1..Len(ever')
             /\ op'[q].asks.tier \in PROVISIONABLE_TIERS
             /\ op'[q].change = "committed" /\ op'[q].pc \in {"changed", "timeout"}
    BY <2>3 DEF Sound
  <2> QED BY <2>1, <2>2, <2>3
<1>4. SeedInv'
  BY <1>1 DEF PortalInv, SeedInv
<1> QED BY <1>2, <1>3, <1>4 DEF PortalInv

\* Writing one entitlement over another gives one.
LEMMA WrittenIsOne ==
  ASSUME entitlement \in Entitlement, NEW asks, NEW loaded,
         asks.tier \in PROVISIONABLE_TIERS, asks.seats \in {1, 5}
  PROVE  Written(asks, loaded) \in Entitlement
BY DEF Written, Entitlement

\* No operation has begun at first.
LEMMA PortalInitInv == PortalInit => PortalInv
<1> SUFFICES ASSUME PortalInit PROVE PortalInv
  OBVIOUS
<1>1. entitlement \in Entitlement /\ Nothing \in Request
  BY DEF PortalInit, Entitlement, Unprovisioned, Seeded, PROVISIONABLE_TIERS, Request
<1>2. Len(ever) = 1 /\ ever \in Seq(Entitlement) /\ ever # <<>> /\ ever[1] = entitlement
  BY <1>1 DEF PortalInit
<1>3. HistoryInv
  BY <1>1, <1>2 DEF PortalInit, HistoryInv, CallState, Place
<1>4. \A o \in Operations : Sound(o, op[o])
  BY <1>2 DEF PortalInit, Sound
<1>5. SeedInv
  BY DEF PortalInit, SeedInv
<1> QED BY <1>3, <1>4, <1>5 DEF PortalInv

\* The steps of an operation.
LEMMA OperationKeeps ==
  ASSUME PortalInv, NEW o \in Operations, OperationStep(o)
  PROVE  PortalInv'
<1>1. /\ op[o] \in CallState /\ op \in [Operations -> CallState]
      /\ entitlement \in Entitlement /\ Sound(o, op[o])
      /\ Len(ever) \in Nat /\ Len(ever) > 0
  BY EmptySeq DEF PortalInv, HistoryInv
<1>2. \A from \in 1..Len(ever) : entitlement \in HeldSince(from)
  BY <1>1 DEF PortalInv, HistoryInv, HeldSince
<1>3. ASSUME NEW next \in CallState, MoveOnly(o, next), Sound(o, next) PROVE PortalInv'
  BY <1>3, BrowserMoves DEF MoveOnly
<1>4. ASSUME NEW place \in Place \ {"confirmed", "read", "changing"}, GoTo(o, place),
             op[o].change = "begun" => place = "timeout",
             place \in Place \ {"changed", "timeout"} => op[o].change = "none"
      PROVE  PortalInv'
  <2> DEFINE next == [op[o] EXCEPT !.pc = place]
  <2>1. next \in CallState
    BY <1>1 DEF CallState
  <2>2. Sound(o, next)
    BY <1>1, <1>4 DEF Sound, CallState
  <2> QED BY <1>3, <1>4, <2>1, <2>2 DEF GoTo
<1>5. CASE Launch(o)
  <2>1. PICK asks \in Request, place \in {"launched", "browser_unavailable"} :
          MoveOnly(o, [op[o] EXCEPT !.asks = asks, !.pc = place, !.since = Len(ever)])
    BY <1>5 DEF Launch
  <2> DEFINE next == [op[o] EXCEPT !.asks = asks, !.pc = place, !.since = Len(ever)]
  <2>2. next \in CallState
    BY <1>1 DEF CallState, Place, Failure
  <2>3. op[o].pc = "new" /\ op[o].change = "none"
    BY <1>1, <1>5 DEF Launch, Sound, Place
  <2>4. Sound(o, next)
    BY <1>1, <2>3 DEF Sound, CallState
  <2> QED BY <1>3, <2>1, <2>2, <2>4
<1>6. CASE Login(o)
  <2>0. op[o].pc = "launched" /\ op[o].change = "none"
    BY <1>1, <1>6 DEF Login, Sound, Place
  <2>1. PICK place \in {"signing", "login_failed"} : op' = [op EXCEPT ![o].pc = place]
    BY <1>6 DEF Login
  <2> DEFINE next == [op[o] EXCEPT !.pc = place]
  <2>2. next \in CallState
    BY <1>1 DEF CallState, Place, Failure
  <2>3. Sound(o, next)
    BY <1>1, <2>0 DEF Sound, CallState
  <2>4. op' = [op EXCEPT ![o] = next]
    BY <1>1, <2>1
  <2> HIDE DEF next
  <2> QED BY <1>6, <2>2, <2>3, <2>4, BrowserMoves DEF Login
<1>7. CASE ListAccounts(o)
  BY <1>1, <1>4, <1>7 DEF ListAccounts, Sound, Place, Failure
<1>8. CASE AccountDetail(o)
  <2>1. op[o].pc = "signed_in" /\ op[o].change = "none"
    BY <1>1, <1>8 DEF AccountDetail, Sound, Place
  <2>2. CASE MoveOnly(o, [op[o] EXCEPT !.pc = "read", !.got = entitlement])
    <3> DEFINE next == [op[o] EXCEPT !.pc = "read", !.got = entitlement]
    <3>1. next \in CallState
      BY <1>1 DEF CallState, Place
    <3>2. Sound(o, next)
      BY <1>1, <1>2, <2>1 DEF Sound, CallState
    <3> QED BY <1>3, <2>2, <3>1, <3>2
  <2>3. CASE GoTo(o, "form") \/ GoTo(o, "absent") \/ GoTo(o, "account_not_found")
    BY <1>4, <2>1, <2>3 DEF Place, Failure
  <2> QED BY <1>8, <2>2, <2>3 DEF AccountDetail
<1>9. CASE ChangeTier(o)
  <2>1. op[o].pc = "form" /\ op[o].change = "none"
    BY <1>1, <1>9 DEF ChangeTier, Sound, Place
  <2>2. CASE /\ op[o].asks.tier \in PROVISIONABLE_TIERS /\ o \in sessions /\ account
             /\ MoveOnly(o, [op[o] EXCEPT !.pc = "changing", !.change = "begun",
                                          !.loaded = entitlement])
    <3> DEFINE next == [op[o] EXCEPT !.pc = "changing", !.change = "begun",
                                     !.loaded = entitlement]
    <3>1. next \in CallState
      BY <1>1 DEF CallState, Place
    <3>2. Sound(o, next)
      BY <1>1, <2>1, <2>2 DEF Sound, CallState
    <3> QED BY <1>3, <2>2, <3>1, <3>2
  <2>3. CASE GoTo(o, "timeout")
    BY <1>4, <2>1, <2>3 DEF Place, Failure
  <2> QED BY <1>9, <2>2, <2>3 DEF ChangeTier
<1>10. CASE CommitChange(o)
  <2>1. /\ op[o].change = "begun" /\ op[o].pc \in {"changing", "timeout"}
        /\ op[o].asks.tier \in PROVISIONABLE_TIERS
    BY <1>1, <1>10 DEF CommitChange, Sound
  <2>2. CASE /\ entitlement' = Written(op[o].asks, op[o].loaded)
             /\ ever' = Append(ever, entitlement')
             /\ op' = [op EXCEPT ![o] = Committed(o)]
             /\ UNCHANGED <<account, sessions, restarts, seedVars>>
    <3>1. entitlement' \in Entitlement
      <4>1. op[o].asks \in Request
        BY <1>1 DEF CallState
      <4>2. op[o].asks.seats \in {1, 5}
        BY <2>1, <4>1 DEF Request, Nothing, PROVISIONABLE_TIERS
      <4> QED BY <1>1, <2>1, <2>2, <4>2, WrittenIsOne
    <3>2. /\ Committed(o) \in CallState
          /\ Committed(o).since = Len(ever) + 1
          /\ Committed(o).asks = op[o].asks
          /\ Committed(o).change = "committed"
          /\ Committed(o).pc \in {"changed", "timeout"}
      <4>1. Len(ever) + 1 \in Nat
        BY <1>1
      <4>2. Committed(o) \in CallState
        BY <1>1, <2>1, <4>1 DEF Committed, CallState, Place, Failure
      <4> QED BY <1>1, <2>1, <4>2 DEF Committed, CallState
    <3>3. /\ op' \in [Operations -> CallState] /\ op'[o] = Committed(o)
          /\ \A q \in Operations \ {o} : op'[q] = op[q]
      BY <1>1, <2>2, <3>2
    <3>4. Len(ever') = Len(ever) + 1
      BY <2>2, <3>1, HeldStays DEF PortalInv
    <3>5. op'[o].since \in 1..Len(ever')
      BY <1>1, <3>2, <3>3, <3>4
    <3>6. account' = TRUE /\ UNCHANGED <<sessions, catalogued>> /\ seeds' \in Nat
          /\ seeding' = seeding
      BY <1>1, <2>1, <2>2 DEF Sound, seedVars, PortalInv, HistoryInv, SeedInv
    <3> QED BY <2>1, <2>2, <3>1, <3>2, <3>3, <3>5, <3>6, EntitlementMoves
  <2>3. CASE Answer500(o)
    <3>1. Lost(o) \in CallState /\ Sound(o, Lost(o))
      BY <2>1, LostChange DEF Sound
    <3> QED BY <1>3, <2>3, <3>1 DEF Answer500
  <2> QED BY <1>10, <2>2, <2>3 DEF CommitChange
<1>11. CASE Confirm(o)
  <2>1. op[o].pc = "changed" /\ op[o].change # "begun"
    BY <1>1, <1>11 DEF Confirm, Sound
  <2>2. CASE MoveOnly(o, [op[o] EXCEPT !.pc = "confirmed", !.got = entitlement])
    <3> DEFINE next == [op[o] EXCEPT !.pc = "confirmed", !.got = entitlement]
    <3>1. next \in CallState
      BY <1>1 DEF CallState, Place
    <3>2. Sound(o, next)
      BY <1>1, <1>2, <2>1 DEF Sound, CallState
    <3> QED BY <1>3, <2>2, <3>1, <3>2
  <2>3. CASE GoTo(o, "timeout")
    BY <1>4, <2>3 DEF Place, Failure
  <2> QED BY <1>11, <2>2, <2>3 DEF Confirm
<1>12. CASE TimeOut(o)
  <2>1. CASE op[o].pc \in {"launched", "signing"}
    <3>1. op[o].change = "none"
      BY <1>1, <2>1 DEF Sound, Place
    <3>2. GoTo(o, "login_failed") \/ GoTo(o, "timeout")
      BY <1>12, <2>1 DEF TimeOut
    <3> QED BY <1>4, <3>1, <3>2 DEF Place, Failure
  <2>2. CASE GoTo(o, "timeout")
    BY <1>4, <2>2 DEF Place, Failure
  <2> QED BY <1>12, <2>1, <2>2 DEF TimeOut
<1>13. CASE Unreachable(o)
  <2>1. op[o].change = "none"
    BY <1>1, <1>13 DEF Unreachable, Sound, Place
  <2> QED BY <1>4, <1>13, <2>1 DEF Unreachable, Place, Failure
<1> QED BY <1>5, <1>6, <1>7, <1>8, <1>9, <1>10, <1>11, <1>12, <1>13 DEF OperationStep

\* A restart forgets the sessions, and with them the changes that had begun.
LEMMA RestartKeeps == PortalInv /\ Restart => PortalInv'
<1> SUFFICES ASSUME PortalInv, Restart PROVE PortalInv'
  OBVIOUS
<1>1. /\ op' = [o \in Operations |-> IF op[o].change = "begun" THEN Lost(o) ELSE op[o]]
      /\ sessions' = {} /\ UNCHANGED <<account, entitlement, ever, seedVars>>
  BY DEF Restart
<1>2. \A from : HeldSince(from)' = HeldSince(from)
  BY <1>1 DEF HeldSince
<1>3. ASSUME NEW o \in Operations
      PROVE  op'[o] \in CallState /\ Sound(o, op[o])'
  <2>1. op[o] \in CallState /\ Sound(o, op[o])
    BY DEF PortalInv, HistoryInv
  <2>2. CASE op[o].change = "begun"
    <3>1. op'[o] = Lost(o)
      BY <1>1, <2>2
    <3>2. /\ op'[o] \in CallState /\ op'[o].since \in 1..Len(ever)
          /\ op'[o].asks.tier \in PROVISIONABLE_TIERS
          /\ op'[o].change = "failed" /\ op'[o].pc = "timeout"
      BY <2>2, <3>1, LostChange
    <3> QED BY <1>1, <3>2 DEF Sound
  <2>3. CASE op[o].change # "begun"
    <3>1. op'[o] = op[o]
      BY <1>1, <2>3
    <3> QED BY <1>1, <1>2, <2>1, <2>3, <3>1 DEF Sound
  <2> QED BY <2>2, <2>3
<1>4. op' \in [Operations -> CallState]
  BY <1>1, <1>3
<1>5. HistoryInv'
  BY <1>1, <1>4 DEF PortalInv, HistoryInv
<1>6. SeedInv'
  BY <1>1, <1>2 DEF PortalInv, SeedInv, seedVars
<1> QED BY <1>3, <1>5, <1>6 DEF PortalInv

\* A seed command loads what is there, and commits what is one of the entitlements.
LEMMA SeedKeeps == PortalInv /\ (SeedLoad \/ SeedCommit \/ SeedReset) => PortalInv'
<1>1. ASSUME PortalInv, SeedLoad PROVE PortalInv'
  <2>1. /\ UNCHANGED <<account, entitlement, ever, sessions, op, catalogued, seeds>>
        /\ catalogued /\ seeding' = entitlement
    BY <1>1 DEF SeedLoad
  <2>2. \A from : HeldSince(from)' = HeldSince(from)
    BY <2>1 DEF HeldSince
  <2>3. entitlement \in HeldSince(1)
    <3>1. Len(ever) \in Nat /\ Len(ever) > 0 /\ ever[Len(ever)] = entitlement
      BY <1>1, EmptySeq DEF PortalInv, HistoryInv
    <3> QED BY <3>1 DEF HeldSince
  <2>4. SeedInv'
    BY <1>1, <2>1, <2>2, <2>3 DEF PortalInv, SeedInv
  <2> QED BY <1>1, <2>1, <2>2, <2>4 DEF PortalInv, HistoryInv, Sound
<1>2. Seeded.tier \in PROVISIONABLE_TIERS /\ Seeded.seats \in {1, 5}
  BY DEF Seeded, PROVISIONABLE_TIERS
<1>3. ASSUME PortalInv, NEW row \in Entitlement, SeedWrites(row),
             op' \in [Operations -> CallState],
             \A q \in Operations :
               op'[q] = op[q] \/ (op[q].change = "begun" /\ op'[q] = Lost(q))
      PROVE  PortalInv'
  <2>1. /\ account' = TRUE /\ entitlement' = row /\ ever' = Append(ever, entitlement')
        /\ UNCHANGED <<sessions, catalogued>> /\ seeds' = seeds + 1 /\ seeding' = Nothing
    BY <1>3 DEF SeedWrites
  <2>2. seeds' \in Nat
    BY <1>3, <2>1 DEF PortalInv, SeedInv
  <2> QED BY <1>3, <2>1, <2>2, EntitlementMoves
<1>4. ASSUME PortalInv, SeedCommit PROVE PortalInv'
  <2>1. Written(Seeded, seeding) \in Entitlement
    BY <1>2, <1>4, WrittenIsOne DEF PortalInv, HistoryInv
  <2> QED BY <1>3, <1>4, <2>1 DEF SeedCommit, PortalInv, HistoryInv
<1>5. ASSUME PortalInv, SeedReset PROVE PortalInv'
  <2>1. PICK waiting \in SUBSET {o \in Operations : op[o].change = "begun"} :
          op' = [o \in Operations |-> IF o \in waiting THEN Lost(o) ELSE op[o]]
    BY <1>5 DEF SeedReset
  <2>2. \A q \in Operations :
          op'[q] = op[q] \/ (op[q].change = "begun" /\ op'[q] = Lost(q))
    BY <2>1
  <2>3. \A q \in Operations : op'[q] \in CallState
    BY <1>5, <2>2, LostChange DEF PortalInv, HistoryInv
  <2>4. op' \in [Operations -> CallState]
    BY <2>1, <2>3
  <2>5. Seeded \in Entitlement
    BY DEF Seeded, Entitlement, PROVISIONABLE_TIERS
  <2> QED BY <1>3, <1>5, <2>2, <2>4, <2>5 DEF SeedReset
<1> QED BY <1>1, <1>4, <1>5

\* Every step of the portal or a browser keeps the invariant.
LEMMA PortalStep == PortalInv /\ [PortalNext]_portalVars => PortalInv'
<1>1. PortalInv /\ UNCHANGED portalVars => PortalInv'
  BY DEF portalVars, seedVars, PortalInv, HistoryInv, SeedInv, Sound, HeldSince
<1> QED BY <1>1, OperationKeeps, RestartKeeps, SeedKeeps DEF PortalNext

\* Only a change that has begun with a session writes to an entitlement, or a seed
\* command, column by column.
LEMMA WritesAreSignedIn ==
  PortalInv /\ [PortalNext]_portalVars =>
    [entitlement' # entitlement =>
       \/ \E o \in sessions : op[o].change = "begun" /\ op'[o].change = "committed"
       \/ /\ seeds' = seeds + 1 /\ catalogued
          /\ entitlement'.tier \in {entitlement.tier, Seeded.tier}
          /\ entitlement'.seats \in {entitlement.seats, Seeded.seats}]_portalVars
<1> DEFINE Signed == \E o \in sessions : op[o].change = "begun" /\ op'[o].change = "committed"
           BySeed == /\ seeds' = seeds + 1 /\ catalogued
                     /\ entitlement'.tier \in {entitlement.tier, Seeded.tier}
                     /\ entitlement'.seats \in {entitlement.seats, Seeded.seats}
<1> SUFFICES ASSUME PortalInv, PortalNext, entitlement' # entitlement PROVE Signed \/ BySeed
  BY DEF portalVars
<1>1. ~Restart /\ ~SeedLoad
  BY DEF Restart, SeedLoad
<1>2. CASE SeedCommit
  <2>1. /\ seeds' = seeds + 1 /\ catalogued
        /\ entitlement' = Written(Seeded, seeding)
    BY <1>2 DEF SeedCommit, SeedWrites, PortalInv, SeedInv
  <2> QED BY <2>1 DEF Written
<1>3. CASE SeedReset
  BY <1>3 DEF SeedReset, SeedWrites
<1>4. ASSUME NEW o \in Operations, OperationStep(o) PROVE Signed
  <2>1. CommitChange(o)
    BY <1>4 DEF OperationStep, Launch, Login, ListAccounts, AccountDetail, ChangeTier,
                Confirm, TimeOut, Unreachable, GoTo, MoveOnly
  <2>2. op[o].change = "begun" /\ op' = [op EXCEPT ![o] = Committed(o)]
    BY <2>1 DEF CommitChange, Answer500, MoveOnly
  <2>3. op'[o].change = "committed"
    BY <2>2 DEF PortalInv, HistoryInv, CallState, Committed
  <2> QED BY <2>2, <2>3 DEF PortalInv, Sound
<1> QED BY <1>1, <1>2, <1>3, <1>4 DEF PortalNext

\* Operations, restarts and seed commands keep the invariant.
THEOREM PortalInvariance == PortalSpec => []PortalInv
BY PortalInitInv, PortalStep, PTL DEF PortalSpec

\* What a provisioning call reports is what the portal held, not before the call and
\* for a change not before its commit; a failure other than a timeout left the
\* entitlement alone.
THEOREM TrueReports == PortalSpec => []ReportsAreTrue
<1>1. PortalInv => ReportsAreTrue
  BY DEF PortalInv, HistoryInv, Sound, Place, Failure, CallState, ReportedWasHeld,
         OtherFailuresChangeNothing, ReportsAreTrue
<1> QED BY <1>1, PortalInvariance, PTL

\* Whatever the restarts, an entitlement changes only by a post with a session that
\* the running portal has issued, or by the commit of a seed command that brings each
\* column to the catalogue's or leaves it (change_tier, _seed_scenario).
THEOREM SignedInChanges == PortalSpec => ChangesAreSignedIn
BY PortalInvariance, WritesAreSignedIn, PTL DEF PortalSpec, ChangesAreSignedIn

(***************************************************************************)
(* Assessment                                                              *)
(***************************************************************************)
LocalSet == {LocalQueries[k] : k \in 1..9}
RemoteSet == {RemoteQueries[k] : k \in 1..6}

PlanRow == [rank : Nat, monthly : Nat, annual : Nat, active : BOOLEAN]
Subscription ==
  {s \in [active : BOOLEAN, plan : DOMAIN PLANS, seats : Nat, cycle : {"monthly", "annual"},
          cancelling : BOOLEAN, start : Int, end : Int] : s.start < s.end}
Invoice == [status : {"open", "paid"}, due : Int, by : {"seed", "other"}]
Restriction == {"none", "term_locked", "requires_customer_approval", "ambiguous_terms"}
TicketLists == {<<>>} \cup {SCENARIOS[s].tickets : s \in DOMAIN SCENARIOS}
Records ==
  [exists : BOOLEAN, customer : {"active", "inactive", "churned"},
   account : {"active", "suspended"}, subscription : Subscription,
   invoices : SUBSET Invoice,
   contract : [status : {"absent", "active"}, restriction : Restriction, ends : Int],
   discount : Nat, tickets : TicketLists]

AssessPlace == {"unseeded", "idle", "reading", "consulting", "answered", "replied", "ended"}
Verdict ==
  [outcome : Outcome,
   findings : SUBSET {"customer_not_active", "account_not_active", "not_an_upgrade",
                      "target_plan_inactive", "outstanding_past_due_invoices",
                      "contract_term_locked"},
   warnings : SUBSET {"subscription_set_to_cancel", "open_urgent_tickets",
                      "contract_ending_soon"},
   credit : Int, charge : Int, amount : Int,
   triggers : SUBSET {"discount_above_threshold", "charge_above_threshold",
                      "contract_terms_ambiguous"},
   approval : BOOLEAN]
Reply == [status : {"unavailable", "refused", "consulted", "malformed"}, amount : Int,
          indicated : BOOLEAN]

\* What the systems of record may hold.
WorldInv ==
  /\ scenario \in DOMAIN SCENARIOS /\ rows \in Records
  /\ plans \in [DOMAIN PLANS -> PlanRow]
  /\ today \in Nat /\ tie \in [credit : BOOLEAN, charge : BOOLEAN]

\* What a session has read is a row that was there.
WellRead(read) ==
  /\ "clock" \in DOMAIN read => read["clock"] \in Nat
  /\ "subscription" \in DOMAIN read => read["subscription"] \in Subscription
  /\ "current" \in DOMAIN read => read["current"] \in PlanRow
  /\ "target" \in DOMAIN read => read["target"] \in PlanRow

\* What a query builds on: the subscription names the current plan, and the rest
\* compares with the time of the clock.
Prior(query) == IF query = "current" THEN "subscription" ELSE "clock"

\* A session that reads has read its queries or has them still before it, each
\* after the one it builds on.
Underway(left, read, queries) ==
  /\ left \in Seq(LocalSet)
  /\ \A q \in queries : q \in DOMAIN read \/ \E j \in 1..Len(left) : left[j] = q
  /\ \A j \in 1..Len(left) : left[j] # "clock" =>
       Prior(left[j]) \in DOMAIN read \/ \E i \in 1..(j - 1) : left[i] = Prior(left[j])

ReadingInv ==
  /\ WellRead(seen) /\ WellRead(remote)
  /\ pc = "reading" => Underway(todo, seen, LocalSet)
  /\ pc = "consulting" => Underway(todo, remote, RemoteSet)
  /\ pc \notin {"reading", "consulting"} => todo = <<>>

\* A line of an invoice is within half a cent of what the days cost.
ToTheCent(line, price, read) ==
  LET exact == price * read["subscription"].seats * Remaining(read)
      error == line * PeriodDays(read) - exact
  IN -PeriodDays(read) <= 2 * error /\ 2 * error <= PeriodDays(read)

Priced(v, read) ==
  /\ v.credit \in Nat /\ v.charge \in Nat /\ v.amount = v.charge - v.credit
  /\ ToTheCent(v.credit, UnitPrice(read["current"], read["subscription"]), read)
  /\ ToTheCent(v.charge, UnitPrice(read["target"], read["subscription"]), read)

\* A decision stands on a complete reading, and a human is asked for what either
\* reading tells of.
VerdictInv ==
  /\ pc \in AssessPlace /\ verdict \in Verdict /\ reply \in Reply
  /\ pc \in {"unseeded", "idle", "reading"} => verdict = Undecided
  /\ pc \in {"unseeded", "idle", "reading", "consulting"} => reply = NoReply
  /\ pc = "ended" <=> verdict.outcome # "none"
  /\ verdict.outcome = "blocked" <=> verdict.findings # {}
  /\ verdict.approval => verdict.outcome = "eligible"
  /\ verdict.outcome = "lost" => ~Priceable(seen) \/ reply.status = "malformed"
  /\ pc \in {"consulting", "answered", "replied"} \/ verdict.outcome \in {"blocked", "eligible"} =>
       /\ LocalSet \subseteq DOMAIN seen /\ Priceable(seen) /\ Priced(verdict, seen)
       /\ verdict.findings = Blockers(seen["account"], seen)
       /\ verdict.warnings = Warnings(seen)
       /\ verdict.triggers = Triggers(verdict.amount, seen["discount"], seen)
  /\ reply.status = "consulted" =>
       reply.indicated = (Triggers(reply.amount, 0, remote) # {})
  /\ verdict.outcome = "eligible" =>
       verdict.approval = (\/ verdict.triggers # {}
                           \/ reply.status = "consulted" /\ reply.indicated
                           \/ reply.status = "consulted" /\ reply.amount # verdict.amount)

AssessInv == WorldInv /\ ReadingInv /\ VerdictInv

\* Rounding a fraction to the nearest whole, with a half either way, is off by at
\* most a half.
LEMMA NearestWhole ==
  ASSUME NEW exact \in Nat, NEW days \in Nat \ {0}, NEW up \in {0, 1},
         2 * (exact % days) > days => up = 1,
         2 * (exact % days) < days => up = 0
  PROVE  /\ (exact \div days) + up \in Nat
         /\ -days <= 2 * (((exact \div days) + up) * days - exact)
         /\ 2 * (((exact \div days) + up) * days - exact) <= days
<1> DEFINE q == exact \div days
           r == exact % days
<1>1. /\ q \in Nat /\ r \in Nat /\ r < days /\ exact = q * days + r
  OBVIOUS
<1> HIDE DEF q, r
<1>2. (q + up) * days = q * days + up * days
  BY <1>1
<1>3. (q + up) * days - exact = up * days - r
  BY <1>1, <1>2
<1>4. up * days = IF up = 1 THEN days ELSE 0
  BY <1>1
<1>5. /\ -days <= 2 * (up * days - r)
      /\ 2 * (up * days - r) <= days
  BY <1>1, <1>4 DEF r
<1> QED BY <1>1, <1>3, <1>5 DEF q


\* A line of the invoice is rounded to the cent, whichever way a half goes.
LEMMA LineToTheCent ==
  ASSUME NEW read, read["subscription"] \in Subscription, read["clock"] \in Nat,
         Priceable(read), NEW price \in Nat, NEW half_up \in BOOLEAN
  PROVE  /\ Prorated(price, read, half_up) \in Nat
         /\ ToTheCent(Prorated(price, read, half_up), price, read)
<1> DEFINE days == PeriodDays(read)
           seats == read["subscription"].seats
           left == Remaining(read)
           exact == price * seats * left
           rest == 2 * (exact % days)
           ends == (10000 * left) % days = 0
           up == IF rest > days \/ (rest = days /\ (ends \/ half_up)) THEN 1 ELSE 0
<1>1. days \in Nat \ {0} /\ left \in Nat /\ seats \in Nat
  BY DEF Subscription, Priceable, PeriodDays, Remaining
<1>2. exact \in Nat
  <2> HIDE DEF seats, left
  <2>1. price * seats \in Nat
    BY <1>1
  <2> QED BY <1>1, <2>1
<1>3. exact % days \in Nat
  <2> HIDE DEF exact, days
  <2> QED BY <1>1, <1>2
<1>4. Prorated(price, read, half_up) = (exact \div days) + up
  BY DEF Prorated
<1>5. up \in {0, 1} /\ (rest > days => up = 1) /\ (rest < days => up = 0)
  <2> HIDE DEF exact, days, ends
  <2> QED BY <1>1, <1>3
<1>6. /\ (exact \div days) + up \in Nat
      /\ -days <= 2 * (((exact \div days) + up) * days - exact)
      /\ 2 * (((exact \div days) + up) * days - exact) <= days
  <2> HIDE DEF exact, days, up
  <2> QED BY <1>1, <1>2, <1>5, NearestWhole
<1> QED BY <1>4, <1>6 DEF ToTheCent

\* A complete reading inside the billing period has a price.
LEMMA ReadingIsPriced ==
  ASSUME NEW read, WellRead(read), Priceable(read), tie \in [credit : BOOLEAN, charge : BOOLEAN],
         {"clock", "subscription", "current", "target"} \subseteq DOMAIN read
  PROVE  Priced(Proration(read), read) /\ Proration(read).amount \in Int
<1> DEFINE credit == UnitPrice(read["current"], read["subscription"])
           charge == UnitPrice(read["target"], read["subscription"])
<1>1. /\ read["subscription"] \in Subscription /\ read["clock"] \in Nat
      /\ read["current"] \in PlanRow /\ read["target"] \in PlanRow
  BY DEF WellRead
<1>2. credit \in Nat /\ charge \in Nat
  BY <1>1 DEF UnitPrice, PlanRow
<1>3. /\ Prorated(credit, read, tie.credit) \in Nat
      /\ ToTheCent(Prorated(credit, read, tie.credit), credit, read)
      /\ Prorated(charge, read, tie.charge) \in Nat
      /\ ToTheCent(Prorated(charge, read, tie.charge), charge, read)
  <2> HIDE DEF credit, charge
  <2>1. tie.credit \in BOOLEAN /\ tie.charge \in BOOLEAN
    OBVIOUS
  <2> QED BY <1>1, <1>2, <2>1, LineToTheCent
<1> QED BY <1>3 DEF Proration, Priced

-----------------------------------------------------------------------------
\* The seeded accounts, one by one: an upgrade with nothing in its way
LEMMA Acme ==
  SCENARIOS["acme"] =
       [customer |-> "active", account |-> "active", plan |-> "professional", seats |-> 20,
        contract |-> "none", past_due |-> FALSE, discount |-> 0,
        tickets |-> <<<<"normal", "resolved">>>>]
BY DEF SCENARIOS

\* ... whose contract locks the term
LEMMA Globex ==
  SCENARIOS["globex"] =
       [customer |-> "active", account |-> "active", plan |-> "professional", seats |-> 40,
        contract |-> "term_locked", past_due |-> FALSE, discount |-> 0,
        tickets |-> <<>>]
BY DEF SCENARIOS

\* ... that is suspended, with an unpaid invoice
LEMMA Initech ==
  SCENARIOS["initech"] =
       [customer |-> "active", account |-> "suspended", plan |-> "starter", seats |-> 5,
        contract |-> "absent", past_due |-> TRUE, discount |-> 0,
        tickets |-> <<>>]
BY DEF SCENARIOS

\* ... with a discount above the threshold
LEMMA Umbrella ==
  LET u == SCENARIOS["umbrella"]
  IN /\ u.customer = "active" /\ u.account = "active" /\ u.plan = "professional"
     /\ u.seats = 60 /\ u.contract = "none" /\ u.past_due = FALSE /\ u.discount = 3500
     /\ u.tickets = <<<<"high", "pending">>>>
<1> DEFINE active == [customer |-> "active", account |-> "active", plan |-> "professional",
                      seats |-> 60, contract |-> "absent", past_due |-> FALSE,
                      discount |-> 0, tickets |-> <<>>]
<1>1. SCENARIOS["umbrella"] = [active EXCEPT !.contract = "none", !.discount = 3500,
                                             !.tickets = <<<<"high", "pending">>>>]
  BY DEF SCENARIOS
<1> QED BY <1>1

\* ... with ambiguous terms
LEMMA Vehement ==
  SCENARIOS["vehement"] =
       [customer |-> "active", account |-> "active", plan |-> "professional", seats |-> 15,
        contract |-> "ambiguous_terms", past_due |-> FALSE, discount |-> 0,
        tickets |-> <<>>]
BY DEF SCENARIOS

\* ... with urgent tickets
LEMMA Hooli ==
  SCENARIOS["hooli"] =
       [customer |-> "active", account |-> "active", plan |-> "professional", seats |-> 85,
        contract |-> "none", past_due |-> FALSE, discount |-> 0,
        tickets |-> <<<<"urgent", "open">>, <<"urgent", "pending">>, <<"high", "open">>,
                           <<"normal", "resolved">>, <<"low", "closed">>>>]
BY DEF SCENARIOS

\* ... of a customer that has left
LEMMA Soylent ==
  SCENARIOS["soylent"] =
       [customer |-> "inactive", account |-> "active", plan |-> "starter", seats |-> 3,
        contract |-> "absent", past_due |-> FALSE, discount |-> 0,
        tickets |-> <<>>]
BY DEF SCENARIOS

\* The records of every seeded account are of their types.
LEMMA ScenarioRecords ==
  \A s \in DOMAIN SCENARIOS :
    SCENARIOS[s] \in [customer : {"active", "inactive"}, account : {"active", "suspended"},
                      plan : DOMAIN PLANS, seats : Nat, contract : Restriction \cup {"absent"},
                      past_due : BOOLEAN, discount : Nat, tickets : TicketLists]
<1> SUFFICES ASSUME NEW s \in DOMAIN SCENARIOS
             PROVE  SCENARIOS[s] \in
               [customer : {"active", "inactive"}, account : {"active", "suspended"},
                plan : DOMAIN PLANS, seats : Nat, contract : Restriction \cup {"absent"},
                past_due : BOOLEAN, discount : Nat, tickets : TicketLists]
  OBVIOUS
<1>1. SCENARIOS[s].tickets \in TicketLists
  BY DEF TicketLists
<1>2. s \in {"acme", "globex", "initech", "umbrella", "vehement", "hooli", "soylent"}
  BY DEF SCENARIOS
<1> DEFINE Row == [customer : {"active", "inactive"}, account : {"active", "suspended"},
                   plan : DOMAIN PLANS, seats : Nat, contract : Restriction \cup {"absent"},
                   past_due : BOOLEAN, discount : Nat, tickets : {SCENARIOS[s].tickets}]
<1>3. SCENARIOS[s] \in Row
  <2>1. CASE s = "acme"
    BY <2>1, Acme DEF PLANS, Restriction
  <2>2. CASE s = "globex"
    BY <2>2, Globex DEF PLANS, Restriction
  <2>3. CASE s = "initech"
    BY <2>3, Initech DEF PLANS, Restriction
  <2>4. CASE s = "umbrella"
    <3> DEFINE active == [customer |-> "active", account |-> "active", plan |-> "professional",
                          seats |-> 60, contract |-> "absent", past_due |-> FALSE,
                          discount |-> 0, tickets |-> <<>>]
               tickets == SCENARIOS[s].tickets
               Loose == [customer : {"active", "inactive"}, account : {"active", "suspended"},
                         plan : DOMAIN PLANS, seats : Nat, contract : Restriction \cup {"absent"},
                         past_due : BOOLEAN, discount : Nat, tickets : {<<>>, tickets}]
    <3>1. SCENARIOS[s] = [active EXCEPT !.contract = "none", !.discount = 3500,
                                        !.tickets = <<<<"high", "pending">>>>]
      BY <2>4 DEF SCENARIOS
    <3>2. tickets = <<<<"high", "pending">>>>
      BY <2>4, Umbrella
    <3> DEFINE contract == "none"
               discount == 3500
    <3>3. SCENARIOS[s] = [active EXCEPT !.contract = contract, !.discount = discount,
                                        !.tickets = tickets]
      BY <3>1, <3>2
    <3>4. active \in Loose
      BY DEF PLANS
    <3>5. contract \in Restriction /\ discount \in Nat
      BY DEF Restriction
    <3>6. [active EXCEPT !.contract = contract, !.discount = discount, !.tickets = tickets] \in Loose
      <4> HIDE DEF active, contract, discount, tickets
      <4> QED BY <3>4, <3>5
    <3>7. SCENARIOS[s] \in Loose
      <4> HIDE DEF active, contract, discount, tickets, Loose
      <4> QED BY <3>3, <3>6
    <3> QED BY <3>7
  <2>5. CASE s = "vehement"
    BY <2>5, Vehement DEF PLANS, Restriction
  <2>6. CASE s = "hooli"
    BY <2>6, Hooli DEF PLANS, Restriction
  <2>7. CASE s = "soylent"
    BY <2>7, Soylent DEF PLANS, Restriction
  <2> QED BY <1>2, <2>1, <2>2, <2>3, <2>4, <2>5, <2>6, <2>7
<1> QED BY <1>1, <1>3

\* The seeded plans are plans (_seed_plans).
LEMMA PlansAreOffers == PLANS \in [DOMAIN PLANS -> PlanRow]
<1>1. DOMAIN PLANS = {"starter", "professional", "enterprise", "professional_legacy"}
  BY DEF PLANS
<1>2. \A p \in DOMAIN PLANS : PLANS[p] \in PlanRow
  <2>1. PLANS["starter"] \in PlanRow /\ PLANS["professional"] \in PlanRow
    BY DEF PLANS, Offer, PlanRow
  <2>2. PLANS["enterprise"] \in PlanRow /\ PLANS["professional_legacy"] \in PlanRow
    BY DEF PLANS, Offer, PlanRow
  <2> QED BY <1>1, <2>1, <2>2
<1>3. PLANS = [p \in DOMAIN PLANS |-> PLANS[p]]
  BY DEF PLANS
<1> QED BY <1>2, <1>3

\* Seeding writes rows that may be there, on any day.
LEMMA SeededRecords ==
  ASSUME NEW r \in Records, NEW s \in DOMAIN SCENARIOS, NEW now \in Nat
  PROVE  SeedScenario(SCENARIOS[s], r, now) \in Records
<1> DEFINE a == SCENARIOS[s]
           subscription == [active |-> TRUE, plan |-> a.plan, seats |-> a.seats,
                            cycle |-> "monthly", cancelling |-> FALSE,
                            start |-> now - 10, end |-> now + 20]
           invoices == {i \in r.invoices : i.by # "seed"} \cup SeededInvoices(a, now)
           contract == IF a.contract = "absent" THEN r.contract
                       ELSE [status |-> "active", restriction |-> a.contract,
                             ends |-> now + 330]
           discount == IF a.discount = 0 THEN r.discount ELSE a.discount
<1>1. a \in [customer : {"active", "inactive"}, account : {"active", "suspended"},
             plan : DOMAIN PLANS, seats : Nat, contract : Restriction \cup {"absent"},
             past_due : BOOLEAN, discount : Nat, tickets : TicketLists]
  BY ScenarioRecords
<1>2. SeedScenario(a, r, now) =
        [r EXCEPT !.exists = TRUE, !.customer = a.customer, !.account = a.account,
                  !.subscription = subscription, !.invoices = invoices, !.contract = contract,
                  !.discount = discount, !.tickets = a.tickets]
  BY DEF SeedScenario
<1> HIDE DEF a
<1>3. SeededInvoices(a, now) \subseteq Invoice
  BY DEF SeededInvoices, Invoice
<1>4. /\ subscription \in Subscription
      /\ invoices \in SUBSET Invoice
  BY <1>1, <1>3 DEF Subscription, Records
<1>5. /\ contract \in [status : {"absent", "active"}, restriction : Restriction, ends : Int]
      /\ discount \in Nat
  BY <1>1 DEF Records
<1> HIDE DEF subscription, invoices, contract, discount
<1>6. SeedScenario(a, r, now) \in Records
  BY <1>1, <1>2, <1>4, <1>5 DEF Records
<1> QED BY <1>6 DEF a

\* Before the seed and after it is cleared the queries find no such records.
LEMMA ClearedRecords == Cleared \in Records
<1>1. Cleared.subscription \in Subscription
  BY DEF Cleared, Subscription, PLANS
<1> QED BY <1>1 DEF Cleared, Records, TicketLists, Restriction

-----------------------------------------------------------------------------
\* A reading begins with its queries before it.
LEMMA ReadingBegins ==
  ASSUME NEW read
  PROVE  Underway(LocalQueries, read, LocalSet) /\ Underway(RemoteQueries, read, RemoteSet)
<1>1. /\ LocalQueries \in Seq(LocalSet) /\ Len(LocalQueries) = 9
      /\ RemoteQueries \in Seq(LocalSet) /\ Len(RemoteQueries) = 6
  BY DEF LocalQueries, LocalSet, RemoteQueries
<1>2. /\ \A j \in 1..9 : LocalQueries[j] # "clock" =>
           j > 1 /\ (LocalQueries[j] = "current" => j = 5)
      /\ LocalQueries[1] = "clock" /\ LocalQueries[4] = "subscription"
      /\ \A j \in 1..6 : RemoteQueries[j] # "clock" =>
           j > 1 /\ (RemoteQueries[j] = "current" => j = 3)
      /\ RemoteQueries[1] = "clock" /\ RemoteQueries[2] = "subscription"
  BY DEF LocalQueries, RemoteQueries
<1>3. ASSUME NEW j \in 1..9, LocalQueries[j] # "clock"
      PROVE  \E i \in 1..(j - 1) : LocalQueries[i] = Prior(LocalQueries[j])
  <2>1. CASE LocalQueries[j] = "current"
    <3>1. 4 \in 1..(j - 1)
      BY <1>2, <1>3, <2>1
    <3> QED BY <1>2, <2>1, <3>1 DEF Prior
  <2>2. CASE LocalQueries[j] # "current"
    <3>1. 1 \in 1..(j - 1)
      BY <1>2, <1>3
    <3> QED BY <1>2, <2>2, <3>1 DEF Prior
  <2> QED BY <2>1, <2>2
<1>4. ASSUME NEW j \in 1..6, RemoteQueries[j] # "clock"
      PROVE  \E i \in 1..(j - 1) : RemoteQueries[i] = Prior(RemoteQueries[j])
  <2>1. CASE RemoteQueries[j] = "current"
    <3>1. 2 \in 1..(j - 1)
      BY <1>2, <1>4, <2>1
    <3> QED BY <1>2, <2>1, <3>1 DEF Prior
  <2>2. CASE RemoteQueries[j] # "current"
    <3>1. 1 \in 1..(j - 1)
      BY <1>2, <1>4
    <3> QED BY <1>2, <2>2, <3>1 DEF Prior
  <2> QED BY <2>1, <2>2
<1>5. Underway(LocalQueries, read, LocalSet)
  BY <1>1, <1>3 DEF Underway, LocalSet
<1>6. Underway(RemoteQueries, read, RemoteSet)
  BY <1>1, <1>4 DEF Underway, RemoteSet
<1> QED BY <1>5, <1>6

\* One query more has been read.
LEMMA ReadingGoesOn ==
  ASSUME NEW left, NEW read, NEW queries, Underway(left, read, queries), left # <<>>, NEW found
  PROVE  /\ Underway(Tail(left), Noted(read, Head(left), found), queries)
         /\ Head(left) \in LocalSet
         /\ Head(left) # "clock" => Prior(Head(left)) \in DOMAIN read
<1>1. /\ left \in Seq(LocalSet) /\ Len(left) \in Nat /\ Len(left) > 0
      /\ Head(left) = left[1] /\ Head(left) \in LocalSet
      /\ Tail(left) \in Seq(LocalSet) /\ Len(Tail(left)) = Len(left) - 1
      /\ \A j \in 1..Len(Tail(left)) : Tail(left)[j] = left[j + 1]
  BY HeadTailProperties, EmptySeq DEF Underway
<1>2. DOMAIN Noted(read, Head(left), found) = DOMAIN read \cup {Head(left)}
  BY DEF Noted
<1>3. ASSUME NEW q \in queries, q \notin DOMAIN read \cup {Head(left)}
      PROVE  \E j \in 1..Len(Tail(left)) : Tail(left)[j] = q
  <2>1. PICK j \in 1..Len(left) : left[j] = q
    BY <1>3 DEF Underway
  <2>2. j - 1 \in 1..Len(Tail(left)) /\ Tail(left)[j - 1] = left[(j - 1) + 1] /\ (j - 1) + 1 = j
    BY <1>1, <1>3, <2>1
  <2> QED BY <2>1, <2>2
<1>4. ASSUME NEW j \in 1..Len(Tail(left)), Tail(left)[j] # "clock",
             Prior(Tail(left)[j]) \notin DOMAIN read \cup {Head(left)}
      PROVE  \E i \in 1..(j - 1) : Tail(left)[i] = Prior(Tail(left)[j])
  <2> DEFINE prior == Prior(Tail(left)[j])
  <2>1. left[j + 1] = Tail(left)[j] /\ j + 1 \in 1..Len(left)
    BY <1>1, <1>4
  <2>2. PICK i \in 1..((j + 1) - 1) : left[i] = prior
    BY <1>4, <2>1 DEF Underway
  <2>3. i # 1
    BY <1>1, <1>4, <2>2
  <2>4. i - 1 \in 1..(j - 1) /\ i - 1 \in 1..Len(Tail(left)) /\ (i - 1) + 1 = i
    BY <1>1, <2>2, <2>3
  <2> HIDE DEF prior
  <2>5. Tail(left)[i - 1] = prior
    BY <1>1, <2>2, <2>4
  <2> QED BY <2>4, <2>5 DEF prior
<1>5. Head(left) # "clock" => Prior(Head(left)) \in DOMAIN read
  BY <1>1 DEF Underway
<1> QED BY <1>1, <1>2, <1>3, <1>4, <1>5 DEF Underway

\* A reading with no query before it is complete.
LEMMA ReadingEnds ==
  ASSUME NEW read, NEW queries, Underway(<<>>, read, queries)
  PROVE  queries \subseteq DOMAIN read
BY DEF Underway

\* What a query finds is a row that is there.
LEMMA FindsRows ==
  ASSUME WorldInv, NEW read, WellRead(read), NEW q,
         q = "current" => "subscription" \in DOMAIN read, NEW now
  PROVE  WellRead(Noted(read, q, Answer(q, read, now)))
<1> DEFINE found == Answer(q, read, now)
<1>1. /\ DOMAIN Noted(read, q, found) = DOMAIN read \cup {q}
      /\ Noted(read, q, found)[q] = found
      /\ \A p \in DOMAIN read \ {q} : Noted(read, q, found)[p] = read[p]
  BY DEF Noted
<1>2. q = "clock" => found \in Nat
  BY DEF Answer, WorldInv
<1>3. q = "subscription" => found \in Subscription
  BY DEF Answer, WorldInv, Records
<1>4. q = "current" => found \in PlanRow
  <2>1. SUFFICES ASSUME q = "current" PROVE found \in PlanRow
    OBVIOUS
  <2>2. read["subscription"].plan \in DOMAIN PLANS
    BY <2>1 DEF WellRead, Subscription
  <2>3. found = plans[read["subscription"].plan]
    BY <2>1 DEF Answer
  <2> QED BY <2>2, <2>3 DEF WorldInv
<1>5. q = "target" => found \in PlanRow
  <2>1. NoPlan \in PlanRow
    BY DEF NoPlan, Offer, PlanRow
  <2> QED BY <2>1 DEF Answer, WorldInv
<1> HIDE DEF found
<1>6. WellRead(Noted(read, q, found))
  BY <1>1, <1>2, <1>3, <1>4, <1>5 DEF WellRead
<1> QED BY <1>6 DEF found

-----------------------------------------------------------------------------
\* Nothing is read before the records are seeded.
LEMMA AssessStarts == AssessInit => AssessInv
<1> SUFFICES ASSUME AssessInit PROVE AssessInv
  OBVIOUS
<1>1. WorldInv
  <2>1. "acme" \in DOMAIN SCENARIOS
    BY DEF SCENARIOS
  <2> QED BY <2>1, ClearedRecords, PlansAreOffers DEF AssessInit, WorldInv
<1>2. ReadingInv
  BY DEF AssessInit, ReadingInv, WellRead
<1>3. VerdictInv
  BY DEF AssessInit, VerdictInv, AssessPlace, Verdict, Undecided, Outcome, Reply, NoReply
<1> QED BY <1>1, <1>2, <1>3 DEF AssessInv

\* A commit of another writer leaves rows that may be there, and what was read.
LEMMA ChangeKeeps == AssessInv /\ Change => AssessInv'
<1> SUFFICES ASSUME AssessInv, Change PROVE AssessInv'
  OBVIOUS
<1> USE DEF AssessInv
<1>1. /\ UNCHANGED <<scenario, target, pc, todo, seen, remote, reply, verdict>>
      /\ rows \in Records /\ plans \in [DOMAIN PLANS -> PlanRow] /\ today \in Nat
  BY DEF Change, WorldInv
<1>2. ReadingInv' /\ VerdictInv'
  BY <1>1 DEF ReadingInv, VerdictInv
<1>3. rows' \in Records
  <2>1. CASE rows' = rows
    BY <1>1, <2>1
  <2>2. CASE rows' = [rows EXCEPT !.customer = "churned"]
    BY <1>1, <2>2 DEF Records
  <2>3. CASE rows' = [rows EXCEPT !.account = "suspended"]
    BY <1>1, <2>3 DEF Records
  <2>4. ASSUME NEW s \in Subscription, rows' = [rows EXCEPT !.subscription = s]
        PROVE  rows' \in Records
    BY <1>1, <2>4 DEF Records
  <2>5. rows.subscription \in Subscription
    BY <1>1 DEF Records
  <2>6. CASE rows' = [rows EXCEPT !.subscription.active = FALSE]
    <3>1. [rows.subscription EXCEPT !.active = FALSE] \in Subscription
      BY <2>5 DEF Subscription
    <3> QED BY <2>4, <2>6, <3>1
  <2>7. CASE rows' = [rows EXCEPT !.subscription.cancelling = TRUE]
    <3>1. [rows.subscription EXCEPT !.cancelling = TRUE] \in Subscription
      BY <2>5 DEF Subscription
    <3> QED BY <2>4, <2>7, <3>1
  <2>8. CASE rows' = [rows EXCEPT !.subscription.cycle = "annual"]
    <3>1. [rows.subscription EXCEPT !.cycle = "annual"] \in Subscription
      BY <2>5 DEF Subscription
    <3> QED BY <2>4, <2>8, <3>1
  <2>9. CASE rows' = [rows EXCEPT !.subscription.plan = "enterprise"]
    <3>1. "enterprise" \in DOMAIN PLANS
      BY DEF PLANS
    <3>2. [rows.subscription EXCEPT !.plan = "enterprise"] \in Subscription
      BY <2>5, <3>1 DEF Subscription
    <3> QED BY <2>4, <2>9, <3>2
  <2>10. CASE rows' = [rows EXCEPT !.discount = 2000]
    BY <1>1, <2>10 DEF Records
  <2>11. CASE rows' = [rows EXCEPT !.invoices =
                         @ \cup {[status |-> "open", due |-> 0, by |-> "other"]}]
    <3>1. rows.invoices \cup {[status |-> "open", due |-> 0, by |-> "other"]}
            \in SUBSET Invoice
      BY <1>1 DEF Records, Invoice
    <3> QED BY <1>1, <2>11, <3>1 DEF Records
  <2>12. ASSUME NEW r \in {"term_locked", "requires_customer_approval", "ambiguous_terms"},
                rows' = [rows EXCEPT !.contract =
                           [status |-> "active", restriction |-> r, ends |-> 60]]
         PROVE  rows' \in Records
    <3>1. [status |-> "active", restriction |-> r, ends |-> 60]
            \in [status : {"absent", "active"}, restriction : Restriction, ends : Int]
      BY DEF Restriction
    <3> QED BY <1>1, <2>12, <3>1 DEF Records
  <2>13. CASE rows' \in Reseeded
    BY <1>1, <2>13, ClearedRecords, SeededRecords DEF WorldInv, Reseeded
  <2> QED BY <2>1, <2>2, <2>3, <2>6, <2>7, <2>8, <2>9, <2>10, <2>11, <2>12, <2>13
          DEF Change
<1>4. plans' \in [DOMAIN PLANS -> PlanRow]
  <2>1. CASE plans' = plans
    BY <1>1, <2>1
  <2>2. ASSUME NEW p \in DOMAIN PLANS, NEW row \in PlanRow, plans' = [plans EXCEPT ![p] = row]
        PROVE  plans' \in [DOMAIN PLANS -> PlanRow]
    BY <1>1, <2>2
  <2>3. {"enterprise", "professional"} \subseteq DOMAIN PLANS
    BY DEF PLANS
  <2>4. CASE plans' = [plans EXCEPT !["enterprise"].active = FALSE]
    <3>1. [plans["enterprise"] EXCEPT !.active = FALSE] \in PlanRow
      BY <1>1, <2>3 DEF PlanRow
    <3> QED BY <2>2, <2>3, <2>4, <3>1
  <2>5. CASE plans' = [plans EXCEPT !["professional"].monthly = 255]
    <3>1. [plans["professional"] EXCEPT !.monthly = 255] \in PlanRow
      BY <1>1, <2>3 DEF PlanRow
    <3> QED BY <2>2, <2>3, <2>5, <3>1
  <2>6. CASE plans' = PLANS
    BY <2>6, PlansAreOffers
  <2> QED BY <2>1, <2>4, <2>5, <2>6 DEF Change
<1>5. today' \in Nat
  BY <1>1 DEF Change
<1>6. tie' \in [credit : BOOLEAN, charge : BOOLEAN]
  BY DEF Change, WorldInv
<1> QED BY <1>1, <1>2, <1>3, <1>4, <1>5, <1>6 DEF WorldInv

\* A step that leaves the world alone
LEMMA WorldStays == WorldInv /\ UNCHANGED world => WorldInv'
BY DEF WorldInv, world

\* The seed writes records of their types (seed_all).
LEMMA SeedAllKeeps == AssessInv /\ SeedAll => AssessInv'
<1> SUFFICES ASSUME AssessInv, SeedAll PROVE AssessInv'
  OBVIOUS
<1>1. /\ scenario' \in DOMAIN SCENARIOS /\ plans' = PLANS
      /\ rows' \in {SeedScenario(SCENARIOS[scenario'], Cleared, today), Cleared}
      /\ today \in Nat
  BY AccountAssumption DEF SeedAll, AssessInv, WorldInv
<1>2. rows' \in Records
  BY <1>1, ClearedRecords, SeededRecords
<1>3. WorldInv'
  BY <1>1, <1>2, PlansAreOffers DEF SeedAll, AssessInv, WorldInv
<1>4. ReadingInv'
  BY DEF SeedAll, AssessInv, ReadingInv, WellRead
<1>5. VerdictInv'
  BY DEF SeedAll, AssessInv, VerdictInv, Undecided, AssessPlace
<1> QED BY <1>3, <1>4, <1>5 DEF AssessInv

\* decide opens its session.
LEMMA BeginKeeps == AssessInv /\ Begin => AssessInv'
<1> SUFFICES ASSUME AssessInv, Begin PROVE AssessInv'
  OBVIOUS
<1>1. WorldInv'
  BY WorldStays DEF Begin, AssessInv
<1>2. ReadingInv'
  <2>1. Underway(LocalQueries, seen', LocalSet)
    BY ReadingBegins
  <2> QED BY <2>1 DEF Begin, AssessInv, ReadingInv
<1>3. VerdictInv'
  BY DEF Begin, AssessInv, VerdictInv, Undecided, AssessPlace
<1> QED BY <1>1, <1>2, <1>3 DEF AssessInv

\* A query adds what it found, or ends the assessment (assess_upgrade).
LEMMA ReadKeeps == AssessInv /\ Read => AssessInv'
<1> SUFFICES ASSUME AssessInv, Read PROVE AssessInv'
  OBVIOUS
<1> DEFINE query == Head(todo)
           now == IF query = "clock" THEN today ELSE seen["clock"]
           found == Answer(query, seen, now)
<1>1. WorldInv'
  BY WorldStays DEF Read, AssessInv
<1>2. CASE Missing(query, found)
  <2>1. /\ pc = "reading" /\ pc' = "ended" /\ todo' = <<>> /\ verdict = Undecided
        /\ verdict' = [Undecided EXCEPT !.outcome = "not_assessable"]
        /\ UNCHANGED <<seen, remote, reply>>
    BY <1>2 DEF Read, End, AssessInv, VerdictInv
  <2>2. ReadingInv'
    BY <2>1 DEF AssessInv, ReadingInv
  <2>3. VerdictInv'
    BY <2>1 DEF AssessInv, VerdictInv, Undecided, AssessPlace, Verdict, Outcome
  <2> QED BY <1>1, <2>2, <2>3 DEF AssessInv
<1>3. CASE ~Missing(query, found)
  <2>1. /\ pc = "reading" /\ todo # <<>> /\ seen' = Noted(seen, query, found)
        /\ todo' = Tail(todo) /\ UNCHANGED <<pc, verdict, remote, reply>>
    BY <1>3 DEF Read
  <2>2. /\ Underway(Tail(todo), Noted(seen, query, found), LocalSet)
        /\ query = "current" => "subscription" \in DOMAIN seen
    <3> HIDE DEF found
    <3> QED BY <2>1, ReadingGoesOn DEF AssessInv, ReadingInv, Prior
  <2>3. WellRead(Noted(seen, query, found))
    BY <2>2, FindsRows DEF AssessInv, ReadingInv
  <2> HIDE DEF query, found
  <2>4. ReadingInv'
    BY <2>1, <2>2, <2>3 DEF AssessInv, ReadingInv
  <2>5. VerdictInv'
    BY <2>1 DEF AssessInv, VerdictInv, Undecided
  <2> QED BY <1>1, <2>4, <2>5 DEF AssessInv
<1> QED BY <1>2, <1>3

\* The assessment of a complete reading: an error, a refusal, or a decision that
\* the specialist may still be asked about.
LEMMA AssessKeeps == AssessInv /\ Assess => AssessInv'
<1> SUFFICES ASSUME AssessInv, Assess PROVE AssessInv'
  OBVIOUS
<1>1. WorldInv'
  BY WorldStays DEF Assess, AssessInv
<1>2. /\ pc = "reading" /\ todo = <<>> /\ UNCHANGED <<seen, remote, reply>>
      /\ verdict = Undecided /\ WellRead(seen) /\ WellRead(remote)
      /\ verdict \in Verdict /\ reply \in Reply
      /\ reply.status = "consulted" =>
           reply.indicated = (Triggers(reply.amount, 0, remote) # {})
  BY DEF Assess, AssessInv, VerdictInv, ReadingInv
<1>3. LocalSet \subseteq DOMAIN seen
  BY <1>2, ReadingEnds DEF AssessInv, ReadingInv
<1>4. {"clock", "subscription", "current", "target"} \subseteq LocalSet
  <2>1. /\ LocalQueries[1] = "clock" /\ LocalQueries[4] = "subscription"
        /\ LocalQueries[5] = "current" /\ LocalQueries[3] = "target"
    BY DEF LocalQueries
  <2> QED BY <2>1 DEF LocalSet
<1> reply = NoReply
  BY <1>2 DEF AssessInv, VerdictInv
<1>5. CASE ~Priceable(seen)
  <2>1. /\ pc' = "ended" /\ todo' = <<>>
        /\ verdict' = [Undecided EXCEPT !.outcome = "lost"]
    BY <1>2, <1>5 DEF Assess, End
  <2>2. ReadingInv'
    BY <1>2, <2>1 DEF ReadingInv
  <2>3. VerdictInv'
    BY <1>2, <1>3, <1>4, <1>5, <2>1 DEF VerdictInv, Undecided, AssessPlace, Verdict, Outcome
  <2> QED BY <1>1, <2>2, <2>3 DEF AssessInv
<1>6. CASE Priceable(seen)
  <2> DEFINE lines == Proration(seen)
             blockers == Blockers(seen["account"], seen)
             triggers == Triggers(lines.amount, seen["discount"], seen)
             warnings == Warnings(seen)
             outcome == IF blockers = {} THEN "none" ELSE "blocked"
  <2>1. Priced(lines, seen) /\ lines.amount \in Int
    BY <1>2, <1>3, <1>4, <1>6, ReadingIsPriced DEF AssessInv, WorldInv
  <2>2. /\ lines.credit \in Int /\ lines.charge \in Int
    BY <2>1 DEF Priced
  <2>3. blockers \in SUBSET {"customer_not_active", "account_not_active", "not_an_upgrade",
                      "target_plan_inactive", "outstanding_past_due_invoices",
                      "contract_term_locked"}
    BY DEF Blockers
  <2>4. triggers \in SUBSET {"discount_above_threshold", "charge_above_threshold",
                             "contract_terms_ambiguous"}
    BY DEF Triggers
  <2>5. warnings \in SUBSET {"subscription_set_to_cancel", "open_urgent_tickets",
                             "contract_ending_soon"}
    BY DEF Warnings
  <2>6. /\ verdict' = [Undecided EXCEPT
              !.findings = blockers, !.warnings = warnings, !.credit = lines.credit,
              !.charge = lines.charge, !.amount = lines.amount, !.triggers = triggers,
              !.outcome = outcome]
        /\ \/ blockers # {} /\ pc' = "ended" /\ todo' = <<>>
           \/ blockers = {} /\ pc' = "consulting" /\ todo' = RemoteQueries
           \/ blockers = {} /\ pc' = "replied" /\ todo' = <<>>
    BY <1>2, <1>6 DEF Assess
  <2>7. outcome \in Outcome /\ (outcome = "blocked" <=> blockers # {})
        /\ (outcome = "none" <=> blockers = {})
    BY DEF Outcome
  <2> HIDE DEF lines, blockers, triggers, warnings, outcome
  <2>8. verdict' \in Verdict
    BY <1>2, <2>1, <2>2, <2>3, <2>4, <2>5, <2>6, <2>7 DEF Verdict
  <2>9. /\ verdict'.findings = blockers /\ verdict'.warnings = warnings
        /\ verdict'.credit = lines.credit
        /\ verdict'.charge = lines.charge /\ verdict'.amount = lines.amount
        /\ verdict'.triggers = triggers /\ verdict'.outcome = outcome
        /\ verdict'.approval = FALSE
    BY <2>6 DEF Undecided
  <2>10. Priced(verdict', seen)
    BY <2>1, <2>9 DEF Priced
  <2>11. verdict'.triggers = Triggers(verdict'.amount, seen["discount"], seen)
    BY <2>9 DEF triggers
  <2>12. /\ verdict'.findings = Blockers(seen["account"], seen)
         /\ verdict'.warnings = Warnings(seen)
    BY <2>9 DEF blockers, warnings
  <2>13. ReadingInv'
    <3>1. Underway(RemoteQueries, remote, RemoteSet)
      BY ReadingBegins
    <3> QED BY <1>2, <2>6, <3>1 DEF ReadingInv
  <2>14. VerdictInv'
    <3>1. pc' \in AssessPlace /\ pc' \notin {"unseeded", "idle", "reading"}
      BY <2>6 DEF AssessPlace
    <3>2. pc' = "ended" <=> verdict'.outcome # "none"
      BY <2>6, <2>7, <2>9
    <3>3. verdict'.outcome \in {"none", "blocked"}
      BY <2>9 DEF outcome
    <3> QED BY <1>2, <1>3, <1>6, <2>7, <2>8, <2>9, <2>10, <2>11, <2>12, <3>1, <3>2, <3>3
            DEF VerdictInv
  <2> QED BY <1>1, <2>13, <2>14 DEF AssessInv
<1> QED BY <1>5, <1>6

\* The verdict takes in what the specialist has answered.
LEMMA CombineKeeps == AssessInv /\ Combine => AssessInv'
<1> SUFFICES ASSUME AssessInv, Combine PROVE AssessInv'
  OBVIOUS
<1> DEFINE approval == \/ verdict.triggers # {}
                       \/ reply.status = "consulted" /\ reply.indicated
                       \/ reply.status = "consulted" /\ reply.amount # verdict.amount
<1>1. WorldInv'
  BY WorldStays DEF Combine, AssessInv
<1>2. /\ pc = "replied" /\ pc' = "ended" /\ UNCHANGED <<todo, seen, remote, reply>>
      /\ verdict' = [verdict EXCEPT !.outcome = "eligible", !.approval = approval]
  BY DEF Combine
<1>3. ReadingInv'
  BY <1>2 DEF AssessInv, ReadingInv
<1>4. approval \in BOOLEAN
  BY DEF AssessInv, VerdictInv, Reply
<1>5. verdict \in Verdict /\ verdict.outcome = "none" /\ verdict.findings = {}
  BY <1>2 DEF AssessInv, VerdictInv
<1>6. /\ verdict' \in Verdict /\ verdict'.outcome = "eligible" /\ verdict'.approval = approval
      /\ verdict'.findings = {} /\ verdict'.warnings = verdict.warnings
      /\ verdict'.credit = verdict.credit
      /\ verdict'.charge = verdict.charge /\ verdict'.amount = verdict.amount
      /\ verdict'.triggers = verdict.triggers
  <2> HIDE DEF approval
  <2> QED BY <1>2, <1>4, <1>5 DEF Verdict, Outcome
<1>7. Priced(verdict', seen) /\ Priceable(seen) /\ LocalSet \subseteq DOMAIN seen
      /\ verdict'.findings = Blockers(seen["account"], seen)
      /\ verdict'.warnings = Warnings(seen)
      /\ verdict'.triggers = Triggers(verdict'.amount, seen["discount"], seen)
  BY <1>2, <1>5, <1>6 DEF AssessInv, VerdictInv, Priced
<1>8. VerdictInv'
  BY <1>2, <1>6, <1>7 DEF AssessInv, VerdictInv, AssessPlace
<1> QED BY <1>1, <1>3, <1>8 DEF AssessInv

\* A step of the consultation that leaves the verdict alone
LEMMA ConsultationMoves ==
  ASSUME AssessInv, UNCHANGED world, UNCHANGED <<seen, verdict>>,
         pc \in {"consulting", "answered", "replied"},
         pc' \in {"consulting", "answered", "replied"},
         WellRead(remote'), reply' \in Reply,
         pc' = "consulting" => Underway(todo', remote', RemoteSet),
         pc' = "consulting" => reply' = NoReply,
         pc' # "consulting" => todo' = <<>>,
         reply'.status = "consulted" =>
           reply'.indicated = (Triggers(reply'.amount, 0, remote') # {})
  PROVE  AssessInv'
<1>1. WorldInv'
  BY WorldStays DEF AssessInv
<1>2. ReadingInv'
  BY DEF AssessInv, ReadingInv
<1>3. verdict.outcome = "none"
  BY DEF AssessInv, VerdictInv
<1>4. VerdictInv'
  BY <1>3 DEF AssessInv, VerdictInv, AssessPlace
<1> QED BY <1>1, <1>2, <1>4 DEF AssessInv

\* A specialist that misses a record refuses (_require).
LEMMA Refusal ==
  /\ NoReply \in Reply
  /\ [NoReply EXCEPT !.status = "refused"] \in Reply
  /\ [NoReply EXCEPT !.status = "refused"].status = "refused"
<1>1. NoReply \in Reply
  BY DEF NoReply, Reply
<1>2. ASSUME NEW r \in Reply
      PROVE  /\ [r EXCEPT !.status = "refused"] \in Reply
             /\ [r EXCEPT !.status = "refused"].status = "refused"
  BY DEF Reply
<1> QED BY <1>1, <1>2

\* A tool call of the specialist adds what it found, or makes it refuse.
LEMMA SpecialistReadKeeps == AssessInv /\ SpecialistRead => AssessInv'
<1> SUFFICES ASSUME AssessInv, SpecialistRead PROVE AssessInv'
  OBVIOUS
<1> DEFINE found == Answer(Head(todo), remote, today)
<1>1. /\ pc = "consulting" /\ todo # <<>> /\ reply = NoReply /\ reply \in Reply
      /\ WellRead(remote) /\ Underway(todo, remote, RemoteSet)
      /\ UNCHANGED world /\ UNCHANGED <<seen, verdict>>
  BY DEF SpecialistRead, AssessInv, VerdictInv, ReadingInv
<1>2. CASE Missing(Head(todo), found)
  <2>1. /\ reply' = [NoReply EXCEPT !.status = "refused"] /\ pc' = "answered"
        /\ todo' = <<>> /\ UNCHANGED remote
    BY <1>2 DEF SpecialistRead
  <2>2. reply' \in Reply /\ reply'.status = "refused"
    BY <2>1, Refusal
  <2> QED BY <1>1, <2>1, <2>2, ConsultationMoves
<1>3. CASE ~Missing(Head(todo), found)
  <2>1. /\ remote' = Noted(remote, Head(todo), found) /\ todo' = Tail(todo)
        /\ UNCHANGED <<pc, reply>>
    BY <1>3 DEF SpecialistRead
  <2>2. /\ Underway(Tail(todo), Noted(remote, Head(todo), found), RemoteSet)
        /\ Head(todo) = "current" => "subscription" \in DOMAIN remote
    <3> HIDE DEF found
    <3> QED BY <1>1, ReadingGoesOn DEF Prior
  <2>3. WellRead(Noted(remote, Head(todo), found))
    BY <1>1, <2>2, FindsRows DEF AssessInv
  <2>4. reply'.status # "consulted"
    BY <1>1, <2>1 DEF NoReply
  <2> HIDE DEF found
  <2> QED BY <1>1, <2>1, <2>2, <2>3, <2>4, ConsultationMoves
<1> QED BY <1>2, <1>3

\* The specialist answers with the amount and the triggers of its own reading.
LEMMA SpecialistAnswerKeeps == AssessInv /\ SpecialistAnswer => AssessInv'
<1> SUFFICES ASSUME AssessInv, SpecialistAnswer PROVE AssessInv'
  OBVIOUS
<1> DEFINE amount == Proration(remote).amount
<1>1. /\ pc = "consulting" /\ pc' = "answered" /\ todo = <<>> /\ WellRead(remote)
      /\ Underway(todo, remote, RemoteSet)
      /\ UNCHANGED world /\ UNCHANGED <<seen, verdict, remote, todo>>
  BY DEF SpecialistAnswer, AssessInv, ReadingInv
<1>2. CASE ~Priceable(remote)
  <2>1. reply' = [NoReply EXCEPT !.status = "refused"]
    BY <1>2 DEF SpecialistAnswer
  <2>2. reply' \in Reply /\ reply'.status = "refused"
    BY <2>1, Refusal
  <2> QED BY <1>1, <2>2, ConsultationMoves
<1>3. CASE Priceable(remote)
  <2>1. {"clock", "subscription", "current", "target"} \subseteq RemoteSet
    <3>1. /\ RemoteQueries[1] = "clock" /\ RemoteQueries[2] = "subscription"
          /\ RemoteQueries[3] = "current" /\ RemoteQueries[4] = "target"
      BY DEF RemoteQueries
    <3> QED BY <3>1 DEF RemoteSet
  <2>2. RemoteSet \subseteq DOMAIN remote
    BY <1>1, ReadingEnds
  <2>3. amount \in Int
    BY <1>1, <1>3, <2>1, <2>2, ReadingIsPriced DEF AssessInv, WorldInv
  <2>4. reply' = [status |-> "consulted", amount |-> amount,
                  indicated |-> Triggers(amount, 0, remote) # {}]
    BY <1>3 DEF SpecialistAnswer
  <2> HIDE DEF amount
  <2>5. /\ reply' \in Reply
        /\ reply'.indicated = (Triggers(reply'.amount, 0, remote) # {})
    <3>1. (Triggers(amount, 0, remote) # {}) \in BOOLEAN
      OBVIOUS
    <3> QED BY <2>3, <2>4, <3>1 DEF Reply
  <2>6. reply'.indicated = (Triggers(reply'.amount, 0, remote') # {})
    BY <1>1, <2>5
  <2> QED BY <1>1, <2>5, <2>6, ConsultationMoves
<1> QED BY <1>2, <1>3

\* The client hears of an answer, or gives up.
LEMMA ClientKeeps == AssessInv /\ (Receive \/ TimeOutConsult) => AssessInv'
<1>1. ASSUME AssessInv, Receive PROVE AssessInv'
  BY <1>1, ConsultationMoves DEF Receive, AssessInv, ReadingInv, VerdictInv
<1>2. ASSUME AssessInv, TimeOutConsult PROVE AssessInv'
  <2>1. NoReply \in Reply /\ NoReply.status # "consulted"
    BY DEF NoReply, Reply
  <2> QED BY <1>2, <2>1, ConsultationMoves
          DEF TimeOutConsult, AssessInv, ReadingInv, VerdictInv
<1> QED BY <1>1, <1>2

\* An answer that the client cannot read loses the run.
LEMMA MalformedKeeps == AssessInv /\ MalformedAnswer => AssessInv'
<1> SUFFICES ASSUME AssessInv, MalformedAnswer PROVE AssessInv'
  OBVIOUS
<1>1. /\ pc \in {"consulting", "answered"} /\ pc' = "ended" /\ todo' = <<>>
      /\ UNCHANGED world /\ UNCHANGED <<seen, remote>>
      /\ reply' = [NoReply EXCEPT !.status = "malformed"]
      /\ verdict' = [verdict EXCEPT !.outcome = "lost"]
  BY DEF MalformedAnswer, End
<1>2. reply' \in Reply /\ reply'.status = "malformed"
  <2>1. NoReply \in Reply
    BY DEF NoReply, Reply
  <2> QED BY <1>1, <2>1 DEF Reply
<1>3. verdict \in Verdict /\ verdict.outcome = "none" /\ verdict.findings = {}
      /\ ~verdict.approval
  BY <1>1 DEF AssessInv, VerdictInv
<1>4. /\ verdict' \in Verdict /\ verdict'.outcome = "lost"
      /\ verdict'.findings = {} /\ ~verdict'.approval
  BY <1>1, <1>3 DEF Verdict, Outcome
<1>5. WorldInv'
  BY <1>1, WorldStays DEF AssessInv
<1>6. ReadingInv'
  BY <1>1 DEF AssessInv, ReadingInv
<1>7. VerdictInv'
  BY <1>1, <1>2, <1>4 DEF AssessInv, VerdictInv, AssessPlace
<1> QED BY <1>5, <1>6, <1>7 DEF AssessInv

\* Every step keeps the invariant of the assessment.
LEMMA AssessStep == AssessInv /\ [AssessNext]_assessVars => AssessInv'
<1>1. AssessInv /\ UNCHANGED assessVars => AssessInv'
  BY DEF assessVars, AssessInv, WorldInv, ReadingInv, VerdictInv
<1> QED BY <1>1, ChangeKeeps, SeedAllKeeps, BeginKeeps, ReadKeeps, AssessKeeps, CombineKeeps,
           SpecialistReadKeeps, SpecialistAnswerKeeps, ClientKeeps, MalformedKeeps
           DEF AssessNext, DecideStep

-----------------------------------------------------------------------------
\* Whatever is committed between its queries, an assessment reads every record it
\* decides on, and decides on what it read (assess_upgrade, decide, price_upgrade).
THEOREM AssessInvariance == AssessSpec => []AssessInv
BY AssessStarts, AssessStep, PTL DEF AssessSpec

\* The invariant types the assessment.
LEMMA AssessmentTyped == AssessInv => AssessTypeOK
BY DEF AssessInv, ReadingInv, VerdictInv, AssessPlace, Verdict, Reply, AssessTypeOK

\* An assessment ends with exactly one outcome, a blocked one says why, and only an
\* eligible one asks for approval (decide).
THEOREM AssessTyped == AssessSpec => []AssessTypeOK
BY AssessmentTyped, AssessInvariance, PTL

\* Two readings of the same upgrade, with commits in between, run it without a human
\* only if they agree on its amount, that is within the limit, and neither found
\* ambiguous terms; what else they disagree on is not compared.  And no answer of the
\* specialist takes an approval away (consult_billing_specialist, decide).
THEOREM OpinionsOnlyAdd == AssessSpec => []SecondOpinionOnlyAdds
<1>1. ASSUME AssessInv PROVE SecondOpinionOnlyAdds
  <2>1. ASSUME NEW amount, NEW discount, NEW read, Triggers(amount, discount, read) = {}
        PROVE  read["contract"].restriction # "ambiguous_terms" /\ ~(amount > 1000000)
    <3>1. /\ "contract_terms_ambiguous" \notin Triggers(amount, discount, read)
          /\ "charge_above_threshold" \notin Triggers(amount, discount, read)
      BY <2>1
    <3> QED BY <3>1 DEF Triggers
  <2>2. ConsultedMeansTwice
    <3> SUFFICES ASSUME Decided, ~verdict.approval, reply.status = "consulted"
                 PROVE  /\ reply.amount = verdict.amount /\ verdict.amount <= 1000000
                        /\ seen["contract"].restriction # "ambiguous_terms"
                        /\ remote["contract"].restriction # "ambiguous_terms"
      BY DEF ConsultedMeansTwice
    <3>1. verdict.outcome = "eligible" /\ verdict.amount \in Int
      BY <1>1 DEF AssessInv, VerdictInv, Verdict, Decided
    <3>2. /\ verdict.triggers = {} /\ reply.indicated = FALSE
          /\ reply.amount = verdict.amount
      BY <1>1, <3>1 DEF AssessInv, VerdictInv, Reply
    <3>3. /\ Triggers(verdict.amount, seen["discount"], seen) = {}
          /\ Triggers(reply.amount, 0, remote) = {}
      BY <1>1, <3>1, <3>2 DEF AssessInv, VerdictInv
    <3> QED BY <2>1, <3>1, <3>2, <3>3
  <2>3. SpecialistOnlyRaises
    BY <1>1 DEF AssessInv, VerdictInv, SpecialistOnlyRaises, Decided
  <2> QED BY <2>2, <2>3 DEF SecondOpinionOnlyAdds
<1> QED BY <1>1, AssessInvariance, PTL

\* An upgrade is lost only outside of the billing period that was read, or by a
\* malformed answer of the specialist, and none waits for a decision that none of the
\* seeded users may take (decide, _interpret, check_authority).
THEOREM Unstranded == AssessSpec => []NoneIsStranded
<1>1. ASSUME AssessInv PROVE LossesHaveReason
  BY <1>1 DEF AssessInv, VerdictInv, LossesHaveReason
<1>2. SomebodyCanDecide
  <2>1. /\ "finance" \in DOMAIN SEED_USERS /\ SEED_USERS["finance"].is_active
        /\ "finance_approver" \in SEED_USERS["finance"].roles
    BY DEF SEED_USERS
  <2>2. MayDecide(SEED_USERS["finance"], verdict.amount)
    BY <2>1 DEF MayDecide
  <2> QED BY <2>1, <2>2 DEF SomebodyCanDecide
<1> QED BY <1>1, <1>2, AssessInvariance, PTL DEF NoneIsStranded

\* The amount that is decided on is the difference of the invoice's lines, and with
\* both of them rounded within a cent of the exact price (calculate_proration).
THEOREM InvoicesAddUp == AssessSpec => []LinesAddUp
<1>1. ASSUME AssessInv, verdict.outcome \in {"blocked", "eligible"} PROVE LinesAddUp
  <2> DEFINE s == seen["subscription"]
             credit == UnitPrice(seen["current"], s)
             charge == UnitPrice(seen["target"], s)
             days == PeriodDays(seen)
             left == Remaining(seen)
             exact == (charge - credit) * s.seats * left
  <2>1. /\ Priceable(seen) /\ Priced(verdict, seen) /\ LocalSet \subseteq DOMAIN seen
        /\ WellRead(seen)
    BY <1>1 DEF AssessInv, VerdictInv, ReadingInv
  <2>2. {"clock", "subscription", "current", "target"} \subseteq LocalSet
    <3>1. /\ LocalQueries[1] = "clock" /\ LocalQueries[4] = "subscription"
          /\ LocalQueries[5] = "current" /\ LocalQueries[3] = "target"
      BY DEF LocalQueries
    <3> QED BY <3>1 DEF LocalSet
  <2>3. /\ s \in Subscription /\ seen["clock"] \in Nat
        /\ seen["current"] \in PlanRow /\ seen["target"] \in PlanRow
    BY <2>1, <2>2 DEF WellRead
  <2>4. days \in Nat \ {0} /\ left \in Nat /\ s.seats \in Nat
    BY <2>1, <2>3 DEF Subscription, Priceable, PeriodDays, Remaining
  <2>5. credit \in Nat /\ charge \in Nat
    BY <2>3 DEF UnitPrice, PlanRow
  <2>6. /\ verdict.credit \in Nat /\ verdict.charge \in Nat
        /\ verdict.amount = verdict.charge - verdict.credit
        /\ -days <= 2 * (verdict.credit * days - credit * s.seats * left)
        /\ 2 * (verdict.credit * days - credit * s.seats * left) <= days
        /\ -days <= 2 * (verdict.charge * days - charge * s.seats * left)
        /\ 2 * (verdict.charge * days - charge * s.seats * left) <= days
    BY <2>1 DEF Priced, ToTheCent
  <2> DEFINE price == s.seats * left
             c == verdict.credit * days
             d == verdict.charge * days
  <2>7. /\ -days <= verdict.amount * days - exact
        /\ verdict.amount * days - exact <= days
    <3> HIDE DEF credit, charge, days, left
    <3>1. price \in Nat /\ c \in Nat /\ d \in Nat
      BY <2>4, <2>6
    <3>2. /\ credit * s.seats * left = credit * price
          /\ charge * s.seats * left = charge * price
          /\ exact = charge * price - credit * price
      BY <2>4, <2>5
    <3>3. verdict.amount * days = d - c
      BY <2>4, <2>6
    <3>4. credit * price \in Nat /\ charge * price \in Nat
      BY <2>5, <3>1
    <3> HIDE DEF price, c, d, exact
    <3> QED BY <2>4, <2>6, <3>1, <3>2, <3>3, <3>4 DEF c, d
  <2> QED BY <2>6, <2>7 DEF LinesAddUp
<1>2. AssessInv => LinesAddUp
  BY <1>1 DEF LinesAddUp
<1> QED BY <1>2, AssessInvariance, PTL

-----------------------------------------------------------------------------
\* The rows of a seeded account
Subscribed(a) == [active |-> TRUE, plan |-> a.plan, seats |-> a.seats, cycle |-> "monthly",
                  cancelling |-> FALSE, start |-> -10, end |-> 20]
ContractOf(a) == IF a.contract = "absent" THEN NoContract
                 ELSE [status |-> "active", restriction |-> a.contract, ends |-> 330]

\* What was read is what the catalogue notes of the account.
AsNoted(read) ==
  LET a == SCENARIOS[scenario]
  IN /\ "clock" \in DOMAIN read => read["clock"] = 0
     /\ "account" \in DOMAIN read =>
          read["account"] = [exists |-> TRUE, customer |-> a.customer, status |-> a.account]
     /\ "target" \in DOMAIN read /\ target = "enterprise" =>
          read["target"] = PLANS["enterprise"]
     /\ "subscription" \in DOMAIN read => read["subscription"] = Subscribed(a)
     /\ "current" \in DOMAIN read => read["current"] = PLANS[a.plan]
     /\ "contract" \in DOMAIN read => read["contract"] = ContractOf(a)
     /\ "invoices" \in DOMAIN read => (read["invoices"] > 0 <=> a.past_due)
     /\ "tickets" \in DOMAIN read => (read["tickets"] > 0 <=> scenario = "hooli")
     /\ "discount" \in DOMAIN read => read["discount"] = a.discount

Expected(amount) ==
  /\ scenario = "acme" => amount = 933333
  /\ scenario = "vehement" => amount = 700000

\* The account exists, and nobody has changed its rows.
Undisturbed == changes = 0 /\ rows.exists

\* While nobody has changed them, the rows are those of the catalogue, and so is
\* what was read of them.
SeededInv ==
  /\ changes \in Nat
  /\ changes = 0 =>
       /\ today = 0 /\ tie = [credit |-> FALSE, charge |-> FALSE]
       /\ pc = "unseeded" => DOMAIN seen = {} /\ DOMAIN remote = {}
  /\ Undisturbed /\ pc # "unseeded" =>
       /\ rows = SeedScenario(SCENARIOS[scenario], Cleared, 0) /\ plans = PLANS
       /\ AsNoted(seen) /\ AsNoted(remote)
       /\ target = "enterprise" =>
            /\ verdict.outcome # "not_assessable"
            /\ verdict.outcome = "lost" => reply.status = "malformed"
            /\ pc \in {"consulting", "answered", "replied"}
                 \/ verdict.outcome \in {"blocked", "eligible"} => Expected(verdict.amount)
            /\ reply.status = "consulted" =>
                 RemoteSet \subseteq DOMAIN remote /\ Expected(reply.amount)

-----------------------------------------------------------------------------
\* Counting says whether there is one.
LEMMA CountsSome ==
  ASSUME NEW S, IsFiniteSet(S)
  PROVE  Cardinality(S) > 0 <=> S # {}
BY FS_EmptySet, FS_CardinalityType

\* The scenarios are the seeded accounts (domain/seed.py).
LEMMA ScenarioNames ==
  DOMAIN SCENARIOS = {"acme", "globex", "initech", "umbrella", "vehement", "hooli", "soylent"}
BY DEF SCENARIOS

\* The rows that seeding an empty database writes
LEMMA SeededRows ==
  ASSUME NEW s \in DOMAIN SCENARIOS
  PROVE  LET a == SCENARIOS[s]
             r == SeedScenario(a, Cleared, 0)
         IN /\ r.exists = TRUE /\ r.customer = a.customer /\ r.account = a.account
            /\ r.subscription = Subscribed(a) /\ r.invoices = SeededInvoices(a, 0)
            /\ r.contract = IF a.contract = "absent" THEN Cleared.contract
                            ELSE [status |-> "active", restriction |-> a.contract, ends |-> 330]
            /\ r.discount = a.discount /\ r.tickets = a.tickets
<1> DEFINE a == SCENARIOS[s]
           subscription == Subscribed(a)
           invoices == SeededInvoices(a, 0)
           contract == IF a.contract = "absent" THEN Cleared.contract
                       ELSE [status |-> "active", restriction |-> a.contract, ends |-> 330]
           discount == a.discount
<1>1. /\ {i \in Cleared.invoices : i.by # "seed"} \cup SeededInvoices(a, 0) = invoices
      /\ (IF a.discount = 0 THEN Cleared.discount ELSE a.discount) = discount
  BY DEF Cleared
<1>2. SeedScenario(a, Cleared, 0) =
        [Cleared EXCEPT !.exists = TRUE, !.customer = a.customer, !.account = a.account,
                  !.subscription = subscription, !.invoices = invoices, !.contract = contract,
                  !.discount = discount, !.tickets = a.tickets]
  <2> DEFINE joined == {i \in Cleared.invoices : i.by # "seed"} \cup SeededInvoices(a, 0)
             dated == [active |-> TRUE, plan |-> a.plan, seats |-> a.seats,
                       cycle |-> "monthly", cancelling |-> FALSE,
                       start |-> 0 - 10, end |-> 0 + 20]
             signed == IF a.contract = "absent" THEN Cleared.contract
                       ELSE [status |-> "active", restriction |-> a.contract, ends |-> 0 + 330]
             granted == IF a.discount = 0 THEN Cleared.discount ELSE a.discount
  <2>1. SeedScenario(a, Cleared, 0) =
          [Cleared EXCEPT !.exists = TRUE, !.customer = a.customer, !.account = a.account,
                    !.subscription = dated, !.invoices = joined, !.contract = signed,
                    !.discount = granted, !.tickets = a.tickets]
    BY DEF SeedScenario
  <2>2. joined = invoices /\ granted = discount
    BY <1>1
  <2>3. 0 - 10 = -10 /\ 0 + 20 = 20 /\ 0 + 330 = 330
    OBVIOUS
  <2>4. dated = subscription /\ signed = contract
    BY <2>3 DEF Subscribed
  <2> HIDE DEF joined, granted, invoices, discount, subscription, contract, dated, signed
  <2> QED BY <2>1, <2>2, <2>4
<1> HIDE DEF a, subscription, invoices, contract, discount
<1>3. LET r == SeedScenario(a, Cleared, 0)
      IN /\ r.exists = TRUE /\ r.customer = a.customer /\ r.account = a.account
         /\ r.subscription = subscription /\ r.invoices = invoices /\ r.contract = contract
         /\ r.discount = discount /\ r.tickets = a.tickets
  BY <1>2, ClearedRecords DEF Records
<1> QED BY <1>3 DEF a, subscription, invoices, contract, discount

\* Only one of the seeded accounts has urgent tickets open.
LEMMA UrgentTickets ==
  ASSUME NEW s \in DOMAIN SCENARIOS
  PROVE  LET tickets == SCENARIOS[s].tickets
             urgent == {t \in DOMAIN tickets :
                          tickets[t][1] = "urgent" /\ tickets[t][2] \in {"open", "pending"}}
         IN IsFiniteSet(urgent) /\ (urgent # {} <=> s = "hooli")
<1> DEFINE tickets == SCENARIOS[s].tickets
           urgent == {t \in DOMAIN tickets :
                        tickets[t][1] = "urgent" /\ tickets[t][2] \in {"open", "pending"}}
<1>1. DOMAIN tickets \in {1..0, 1..1, 1..5} /\ (urgent # {} <=> s = "hooli")
  <2>1. CASE s = "acme"
    <3>1. tickets = <<<<"normal", "resolved">>>>
      BY <2>1, Acme
    <3> QED BY <2>1, <3>1
  <2>2. CASE s = "umbrella"
    <3>1. tickets = <<<<"high", "pending">>>>
      BY <2>2, Umbrella
    <3> QED BY <2>2, <3>1
  <2>3. CASE s = "hooli"
    <3>1. tickets = <<<<"urgent", "open">>, <<"urgent", "pending">>, <<"high", "open">>,
                      <<"normal", "resolved">>, <<"low", "closed">>>>
      BY <2>3, Hooli
    <3>2. DOMAIN tickets = 1..5 /\ tickets[1] = <<"urgent", "open">>
      BY <3>1
    <3>3. 1 \in urgent
      BY <3>2
    <3> QED BY <2>3, <3>2, <3>3
  <2>4. CASE s \in {"globex", "initech", "vehement", "soylent"}
    <3>1. tickets = <<>>
      BY <2>4, Globex, Initech, Vehement, Soylent
    <3>2. DOMAIN tickets = 1..0
      BY <3>1
    <3> HIDE DEF tickets
    <3> QED BY <2>4, <3>2
  <2> QED BY <2>1, <2>2, <2>3, <2>4, ScenarioNames
<1>2. IsFiniteSet(DOMAIN tickets)
  <2>1. ASSUME NEW n \in {0, 1, 5} PROVE IsFiniteSet(1..n)
    BY FS_Interval
  <2>2. \E n \in {0, 1, 5} : DOMAIN tickets = 1..n
    BY <1>1
  <2> QED BY <2>1, <2>2
<1>3. IsFiniteSet(urgent)
  BY <1>2, FS_Subset
<1> QED BY <1>1, <1>3

\* What a query finds in rows that nobody has changed
LEMMA FindsNoted ==
  ASSUME scenario \in DOMAIN SCENARIOS, rows = SeedScenario(SCENARIOS[scenario], Cleared, 0),
         plans = PLANS, today = 0, NEW read, AsNoted(read), NEW q, NEW now,
         q \in {"contract", "invoices"} => now = 0, q = "current" => "subscription" \in DOMAIN read
  PROVE  /\ AsNoted(Noted(read, q, Answer(q, read, now)))
         /\ target = "enterprise" => ~Missing(q, Answer(q, read, now))
<1> DEFINE a == SCENARIOS[scenario]
           found == Answer(q, read, now)
<1>1. /\ rows.exists = TRUE /\ rows.customer = a.customer /\ rows.account = a.account
      /\ rows.subscription = Subscribed(a) /\ rows.invoices = SeededInvoices(a, 0)
      /\ rows.contract = IF a.contract = "absent" THEN Cleared.contract
                         ELSE [status |-> "active", restriction |-> a.contract, ends |-> 330]
      /\ rows.discount = a.discount /\ rows.tickets = a.tickets
  BY SeededRows
<1>2. a.past_due \in BOOLEAN
  BY ScenarioRecords
<1>3. /\ DOMAIN Noted(read, q, found) = DOMAIN read \cup {q}
      /\ Noted(read, q, found)[q] = found
      /\ \A p \in DOMAIN read \ {q} : Noted(read, q, found)[p] = read[p]
  BY DEF Noted
<1>4. q = "clock" => found = 0
  BY DEF Answer
<1>5. q = "account" => found = [exists |-> TRUE, customer |-> a.customer, status |-> a.account]
  BY <1>1 DEF Answer
<1>6. q = "target" /\ target = "enterprise" => found = PLANS["enterprise"]
  BY DEF Answer, PLANS
<1>7. q = "subscription" => found = Subscribed(a)
  BY <1>1 DEF Answer
<1>8. q = "current" => found = PLANS[a.plan]
  <2> SUFFICES ASSUME q = "current" PROVE found = PLANS[a.plan]
    OBVIOUS
  <2>1. read["subscription"] = Subscribed(a)
    BY DEF AsNoted
  <2>2. read["subscription"].plan = a.plan
    BY <2>1 DEF Subscribed
  <2> QED BY <2>2 DEF Answer
<1>9. q = "contract" => found = ContractOf(a)
  <2>1. Cleared.contract.status # "active"
    BY DEF Cleared
  <2> QED BY <1>1, <2>1 DEF Answer, ContractInForce, ContractOf
<1>10. q = "invoices" => (found > 0 <=> a.past_due)
  <2> DEFINE due == {i \in rows.invoices : i.status \in {"open", "uncollectible"} /\ i.due < 0}
  <2>1. IsFiniteSet(SeededInvoices(a, 0))
    <3>1. \A x : IsFiniteSet({x}) /\ IsFiniteSet({})
      BY FS_EmptySet, FS_Singleton
    <3> QED BY <3>1, FS_Union DEF SeededInvoices
  <2>2. IsFiniteSet(due)
    BY <1>1, <2>1, FS_Subset
  <2>3. due # {} <=> a.past_due
    <3> DEFINE open == [status |-> "open", due |-> 0 - 15, by |-> "seed"]
    <3>1. CASE a.past_due
      <4>1. open \in rows.invoices
        BY <1>1, <3>1 DEF SeededInvoices
      <4>2. open.status = "open" /\ open.due < 0
        OBVIOUS
      <4>3. open \in due
        BY <4>1, <4>2
      <4> QED BY <3>1, <4>3
    <3>2. CASE ~a.past_due
      <4>1. rows.invoices = {[status |-> "paid", due |-> 0 - 25, by |-> "seed"]}
        BY <1>1, <3>2 DEF SeededInvoices
      <4>2. due = {}
        BY <4>1
      <4> QED BY <3>2, <4>2
    <3> QED BY <3>1, <3>2
  <2>4. q = "invoices" => found = Cardinality(due)
    BY DEF Answer, PastDue
  <2> QED BY <2>2, <2>3, <2>4, CountsSome
<1>11. q = "tickets" => (found > 0 <=> scenario = "hooli")
  <2> DEFINE urgent == {t \in DOMAIN rows.tickets :
                 rows.tickets[t][1] = "urgent" /\ rows.tickets[t][2] \in {"open", "pending"}}
  <2>1. IsFiniteSet(urgent) /\ (urgent # {} <=> scenario = "hooli")
    BY <1>1, UrgentTickets
  <2>2. q = "tickets" => found = Cardinality(urgent)
    BY DEF Answer, OpenUrgent
  <2> QED BY <2>1, <2>2, CountsSome
<1>12. q = "discount" => found = a.discount
  BY <1>1 DEF Answer
<1>13. target = "enterprise" => ~Missing(q, found)
  <2>1. PLANS["enterprise"].rank = 3 /\ NoPlan.rank = 0
    BY DEF PLANS, NoPlan, Offer
  <2>2. PLANS["enterprise"] # NoPlan
    BY <2>1
  <2>3. Subscribed(a).active
    BY DEF Subscribed
  <2> HIDE DEF found, a
  <2> QED BY <1>5, <1>6, <1>7, <2>2, <2>3 DEF Missing
<1>14. AsNoted(Noted(read, q, found))
  <2> DEFINE n == Noted(read, q, found)
  <2> HIDE DEF found, n, a
  <2>1. /\ DOMAIN n = DOMAIN read \cup {q} /\ n[q] = found
        /\ \A p \in DOMAIN read \ {q} : n[p] = read[p]
    BY <1>3 DEF n
  <2>2. /\ "clock" \in DOMAIN n => n["clock"] = 0
        /\ "account" \in DOMAIN n =>
             n["account"] = [exists |-> TRUE, customer |-> a.customer, status |-> a.account]
        /\ "target" \in DOMAIN n /\ target = "enterprise" => n["target"] = PLANS["enterprise"]
    BY <1>4, <1>5, <1>6, <2>1 DEF AsNoted, a
  <2>3. /\ "subscription" \in DOMAIN n => n["subscription"] = Subscribed(a)
        /\ "current" \in DOMAIN n => n["current"] = PLANS[a.plan]
        /\ "contract" \in DOMAIN n => n["contract"] = ContractOf(a)
    BY <1>7, <1>8, <1>9, <2>1 DEF AsNoted, a
  <2>4. /\ "invoices" \in DOMAIN n => (n["invoices"] > 0 <=> a.past_due)
        /\ "tickets" \in DOMAIN n => (n["tickets"] > 0 <=> scenario = "hooli")
        /\ "discount" \in DOMAIN n => n["discount"] = a.discount
    BY <1>10, <1>11, <1>12, <2>1 DEF AsNoted, a
  <2>5. AsNoted(n)
    BY <2>2, <2>3, <2>4 DEF AsNoted, a
  <2> QED BY <2>5 DEF n
<1> QED BY <1>13, <1>14

\* What the enterprise plan costs an account for the rest of the period
LEMMA ExpectedAmounts ==
  ASSUME scenario \in DOMAIN SCENARIOS, tie = [credit |-> FALSE, charge |-> FALSE],
         target = "enterprise", NEW read, AsNoted(read),
         {"clock", "subscription", "current", "target"} \subseteq DOMAIN read
  PROVE  Priceable(read) /\ Expected(Proration(read).amount)
<1> DEFINE a == SCENARIOS[scenario]
           seats == a.seats
<1>1. /\ read["clock"] = 0 /\ read["subscription"] = Subscribed(a)
      /\ read["current"] = PLANS[a.plan] /\ read["target"] = PLANS["enterprise"]
  BY DEF AsNoted
<1>2. /\ read["subscription"].start = -10 /\ read["subscription"].end = 20
      /\ read["subscription"].seats = a.seats /\ read["subscription"].cycle = "monthly"
  BY <1>1 DEF Subscribed
<1>3. Priceable(read) /\ Remaining(read) = 20 /\ PeriodDays(read) = 30
  BY <1>1, <1>2 DEF Priceable, Remaining, PeriodDays
<1>4. tie.credit = FALSE /\ tie.charge = FALSE
  OBVIOUS
<1>5. PLANS["professional"].monthly = 29900 /\ PLANS["enterprise"].monthly = 99900
  BY DEF PLANS, Offer
<1>6. ASSUME a.plan = "professional"
      PROVE  /\ UnitPrice(read["current"], read["subscription"]) = 29900
             /\ UnitPrice(read["target"], read["subscription"]) = 99900
  BY <1>1, <1>2, <1>5, <1>6 DEF UnitPrice
<1>7. CASE scenario = "acme"
  <2>1. a.plan = "professional" /\ a.seats = 20
    BY <1>7, Acme
  <2>2. Proration(read).amount = 1332000 - 398667
    BY <1>2, <1>3, <1>6, <2>1 DEF Proration, Prorated
  <2> QED BY <1>3, <1>7, <2>2 DEF Expected
<1>8. CASE scenario = "vehement"
  <2>1. a.plan = "professional" /\ a.seats = 15
    BY <1>8, Vehement
  <2>2. Proration(read).amount = 999000 - 299000
    BY <1>2, <1>3, <1>6, <2>1 DEF Proration, Prorated
  <2> QED BY <1>3, <1>8, <2>2 DEF Expected
<1> QED BY <1>3, <1>7, <1>8 DEF Expected

-----------------------------------------------------------------------------
\* Nothing has been changed before the seed.
LEMMA SeededStarts == AssessInit => SeededInv
BY DEF AssessInit, SeededInv, Undecided, NoReply

\* A step of an assessment of an account that nobody has changed
LEMMA UnchangedStep ==
  ASSUME AssessInv, SeededInv, Undisturbed, UNCHANGED world, pc # "unseeded", pc' # "unseeded",
         AsNoted(seen'), AsNoted(remote'),
         target = "enterprise" =>
            /\ verdict'.outcome # "not_assessable"
            /\ verdict'.outcome = "lost" => reply'.status = "malformed"
            /\ pc' \in {"consulting", "answered", "replied"}
                 \/ verdict'.outcome \in {"blocked", "eligible"} => Expected(verdict'.amount)
            /\ reply'.status = "consulted" =>
                 RemoteSet \subseteq DOMAIN remote' /\ Expected(reply'.amount)
  PROVE  SeededInv'
<1>1. UNCHANGED <<scenario, target, rows, plans, today, tie, changes>>
  BY DEF world
<1>2. AsNoted(seen)' /\ AsNoted(remote)'
  BY <1>1 DEF AsNoted
<1>3. /\ Expected(verdict'.amount) => Expected(verdict.amount)'
      /\ Expected(reply'.amount) => Expected(reply.amount)'
  BY <1>1 DEF Expected
<1>4. /\ today' = 0 /\ plans' = PLANS /\ tie' = [credit |-> FALSE, charge |-> FALSE]
      /\ rows' = SeedScenario(SCENARIOS[scenario'], Cleared, 0) /\ changes' = 0
  BY <1>1 DEF SeededInv, Undisturbed
<1> QED BY <1>1, <1>2, <1>3, <1>4 DEF SeededInv

\* Every step keeps what is known of accounts that nobody changed.
LEMMA SeededStep == AssessInv /\ SeededInv /\ [AssessNext]_assessVars => SeededInv'
<1> SUFFICES ASSUME AssessInv, SeededInv, [AssessNext]_assessVars PROVE SeededInv'
  OBVIOUS
<1>1. CASE UNCHANGED assessVars
  BY <1>1 DEF assessVars, SeededInv, Undisturbed, AsNoted, Expected
<1>2. CASE Change
  <2>1. changes' \in Nat /\ changes' # 0
    BY <1>2 DEF Change, SeededInv
  <2> QED BY <2>1 DEF SeededInv, Undisturbed
<1>3. CASE SeedAll
  <2>1. CASE changes # 0
    BY <1>3, <2>1 DEF SeedAll, SeededInv, Undisturbed
  <2>2. CASE changes = 0
    <3>1. AsNoted(seen)' /\ AsNoted(remote)'
      BY <1>3, <2>2 DEF SeedAll, SeededInv, AsNoted
    <3>2. verdict' = Undecided /\ reply' = NoReply
      BY <1>3 DEF SeedAll, AssessInv, VerdictInv
    <3>3. /\ today = 0 /\ UNCHANGED <<today, tie, changes>> /\ plans' = PLANS
          /\ pc' # "unseeded"
      BY <1>3, <2>2 DEF SeedAll, SeededInv
    <3>4. rows'.exists => rows' = SeedScenario(SCENARIOS[scenario'], Cleared, 0)
      BY <1>3, <3>3 DEF SeedAll, Cleared
    <3>5. /\ verdict'.outcome = "none" /\ reply'.status = "unavailable" /\ pc' = "idle"
      BY <1>3, <3>2 DEF SeedAll, Undecided, NoReply
    <3> QED BY <2>2, <3>1, <3>3, <3>4, <3>5 DEF SeededInv, Undisturbed
  <2> QED BY <2>1, <2>2
<1>4. CASE Begin \/ DecideStep \/ SpecialistRead \/ SpecialistAnswer
  <2> DEFINE Acts == Begin \/ DecideStep \/ SpecialistRead \/ SpecialistAnswer
  <2>1. UNCHANGED world /\ pc # "unseeded" /\ pc' # "unseeded"
    BY <1>4 DEF Begin, DecideStep, Read, Assess, Receive, TimeOutConsult, MalformedAnswer, Combine,
                SpecialistRead, SpecialistAnswer, End, AssessInv, VerdictInv
  <2>2. CASE ~Undisturbed
    BY <2>1, <2>2 DEF world, SeededInv, Undisturbed
  <2> SUFFICES ASSUME Undisturbed PROVE SeededInv'
    BY <2>2
  <2>3. /\ scenario \in DOMAIN SCENARIOS
        /\ rows = SeedScenario(SCENARIOS[scenario], Cleared, 0)
        /\ plans = PLANS /\ today = 0 /\ tie = [credit |-> FALSE, charge |-> FALSE]
        /\ AsNoted(seen) /\ AsNoted(remote)
    BY <2>1 DEF AssessInv, WorldInv, SeededInv, Undisturbed
  <2>4. CASE Begin
    BY <2>1, <2>3, <2>4, UnchangedStep DEF Begin, AssessInv, VerdictInv, SeededInv, Undecided
  <2>5. CASE Read
    <3> DEFINE query == Head(todo)
               now == IF query = "clock" THEN today ELSE seen["clock"]
               found == Answer(query, seen, now)
    <3>1. /\ pc = "reading" /\ todo # <<>> /\ UNCHANGED <<remote, reply>>
          /\ verdict = Undecided /\ reply = NoReply /\ Underway(todo, seen, LocalSet)
      BY <2>5 DEF Read, AssessInv, VerdictInv, ReadingInv
    <3>2. query # "clock" => Prior(query) \in DOMAIN seen
      BY <3>1, ReadingGoesOn
    <3>3. query = "current" => "subscription" \in DOMAIN seen
      BY <3>2 DEF Prior
    <3>4. query \in {"contract", "invoices"} => now = 0
      BY <2>3, <3>2 DEF Prior, AsNoted
    <3>5. /\ AsNoted(Noted(seen, query, found))
          /\ target = "enterprise" => ~Missing(query, found)
      BY <2>3, <3>3, <3>4, FindsNoted
    <3> HIDE DEF query, found, now
    <3>6. CASE Missing(query, found)
      <4>1. /\ UNCHANGED seen /\ target # "enterprise"
        BY <2>5, <3>5, <3>6 DEF Read, query, found, now
      <4> QED BY <2>1, <2>3, <3>1, <4>1, UnchangedStep
    <3>7. CASE ~Missing(query, found)
      <4>1. seen' = Noted(seen, query, found) /\ UNCHANGED <<pc, verdict>>
        BY <2>5, <3>7 DEF Read, query, found, now
      <4>2. AsNoted(seen')
        BY <3>5, <4>1
      <4> QED BY <2>1, <2>3, <3>1, <4>1, <4>2, UnchangedStep DEF Undecided, NoReply
    <3> QED BY <3>6, <3>7
  <2>6. CASE Assess
    <3>1. /\ pc = "reading" /\ todo = <<>> /\ UNCHANGED <<seen, remote, reply>>
          /\ verdict = Undecided /\ reply = NoReply
      BY <2>6 DEF Assess, AssessInv, VerdictInv
    <3>2. LocalSet \subseteq DOMAIN seen
      BY <3>1, ReadingEnds DEF AssessInv, ReadingInv
    <3>3. {"clock", "subscription", "current", "target"} \subseteq LocalSet
      <4>1. /\ LocalQueries[1] = "clock" /\ LocalQueries[4] = "subscription"
            /\ LocalQueries[5] = "current" /\ LocalQueries[3] = "target"
        BY DEF LocalQueries
      <4> QED BY <4>1 DEF LocalSet
    <3>4. target = "enterprise" => Priceable(seen) /\ Expected(Proration(seen).amount)
      BY <2>3, <3>2, <3>3, ExpectedAmounts
    <3>5. Priceable(seen) => /\ verdict'.amount = Proration(seen).amount
                             /\ verdict'.outcome \in {"none", "blocked"}
      <4> DEFINE lines == Proration(seen)
                 blockers == Blockers(seen["account"], seen)
      <4>1. SUFFICES ASSUME Priceable(seen)
                     PROVE  /\ verdict'.amount = lines.amount
                            /\ verdict'.outcome \in {"none", "blocked"}
        OBVIOUS
      <4>2. verdict' = [Undecided EXCEPT
              !.findings = blockers, !.warnings = Warnings(seen), !.credit = lines.credit,
              !.charge = lines.charge, !.amount = lines.amount,
              !.triggers = Triggers(lines.amount, seen["discount"], seen),
              !.outcome = IF blockers = {} THEN "none" ELSE "blocked"]
        BY <2>6, <3>1, <4>1 DEF Assess
      <4> HIDE DEF lines, blockers
      <4> QED BY <4>2 DEF Undecided
    <3> QED BY <2>1, <2>3, <3>1, <3>4, <3>5, UnchangedStep DEF NoReply
  <2>7. CASE Combine
    <3>1. /\ pc = "replied" /\ UNCHANGED <<seen, remote, reply>>
          /\ verdict'.amount = verdict.amount /\ verdict'.outcome = "eligible"
      BY <2>7 DEF Combine, AssessInv, VerdictInv, Verdict
    <3> QED BY <2>1, <2>3, <3>1, UnchangedStep DEF SeededInv
  <2>8. CASE SpecialistRead
    <3> DEFINE query == Head(todo)
               found == Answer(query, remote, today)
    <3>1. /\ pc = "consulting" /\ todo # <<>> /\ UNCHANGED <<seen, verdict>>
          /\ reply = NoReply /\ Underway(todo, remote, RemoteSet)
      BY <2>8 DEF SpecialistRead, AssessInv, VerdictInv, ReadingInv
    <3>2. query = "current" => "subscription" \in DOMAIN remote
      BY <3>1, ReadingGoesOn DEF Prior
    <3>3. AsNoted(Noted(remote, query, found))
      BY <2>3, <3>2, FindsNoted
    <3> HIDE DEF query, found
    <3>4. remote' \in {remote, Noted(remote, query, found)}
      BY <2>8 DEF SpecialistRead, query, found
    <3>5. reply' \in {NoReply, [NoReply EXCEPT !.status = "refused"]}
      BY <2>8, <3>1 DEF SpecialistRead
    <3>6. AsNoted(remote') /\ reply'.status # "consulted"
      BY <2>3, <3>3, <3>4, <3>5 DEF NoReply
    <3>7. target = "enterprise" =>
            verdict.outcome = "none" /\ Expected(verdict.amount)
      BY <2>1, <3>1 DEF SeededInv, AssessInv, VerdictInv
    <3> QED BY <2>1, <2>3, <3>1, <3>6, <3>7, UnchangedStep
  <2>9. CASE SpecialistAnswer
    <3>1. /\ pc = "consulting" /\ todo = <<>> /\ UNCHANGED <<seen, verdict, remote>>
          /\ Underway(todo, remote, RemoteSet)
      BY <2>9 DEF SpecialistAnswer, AssessInv, ReadingInv
    <3>2. RemoteSet \subseteq DOMAIN remote
      BY <3>1, ReadingEnds
    <3>3. {"clock", "subscription", "current", "target"} \subseteq RemoteSet
      <4>1. /\ RemoteQueries[1] = "clock" /\ RemoteQueries[2] = "subscription"
            /\ RemoteQueries[3] = "current" /\ RemoteQueries[4] = "target"
        BY DEF RemoteQueries
      <4> QED BY <4>1 DEF RemoteSet
    <3>4. target = "enterprise" => Priceable(remote) /\ Expected(Proration(remote).amount)
      BY <2>3, <3>2, <3>3, ExpectedAmounts
    <3>5. Priceable(remote) => reply'.amount = Proration(remote).amount
      BY <2>9 DEF SpecialistAnswer
    <3>6. target = "enterprise" =>
            verdict.outcome = "none" /\ Expected(verdict.amount)
      BY <2>1, <3>1 DEF SeededInv, AssessInv, VerdictInv
    <3> QED BY <2>1, <2>3, <3>1, <3>2, <3>4, <3>5, <3>6, UnchangedStep
  <2>10. CASE Receive \/ TimeOutConsult
    <3>1. /\ pc \in {"consulting", "answered"} /\ UNCHANGED <<seen, verdict, remote>>
          /\ reply' \in {reply, NoReply}
      BY <2>10 DEF Receive, TimeOutConsult
    <3>2. NoReply.status # "consulted"
      BY DEF NoReply
    <3>3. target = "enterprise" =>
            verdict.outcome = "none" /\ Expected(verdict.amount)
      BY <2>1, <3>1 DEF SeededInv, AssessInv, VerdictInv
    <3>4. target = "enterprise" /\ reply'.status = "consulted" =>
            RemoteSet \subseteq DOMAIN remote' /\ Expected(reply'.amount)
      BY <3>1, <3>2 DEF SeededInv
    <3> QED BY <2>1, <2>3, <3>1, <3>3, <3>4, UnchangedStep
  <2>11. CASE MalformedAnswer
    <3>1. /\ pc' = "ended" /\ UNCHANGED <<seen, remote>> /\ reply'.status = "malformed"
          /\ verdict'.outcome = "lost"
      BY <2>11 DEF MalformedAnswer, End, NoReply, AssessInv, VerdictInv, Verdict
    <3> QED BY <2>1, <2>3, <3>1, UnchangedStep
  <2> QED BY <1>4, <2>4, <2>5, <2>6, <2>7, <2>8, <2>9, <2>10, <2>11 DEF DecideStep
<1> QED BY <1>1, <1>2, <1>3, <1>4 DEF AssessNext

\* The findings on a complete reading of an account that nobody has changed
LEMMA NotedFindings ==
  ASSUME scenario \in DOMAIN SCENARIOS, target = "enterprise", NEW read, AsNoted(read),
         LocalSet \subseteq DOMAIN read
  PROVE  LET a == SCENARIOS[scenario]
         IN /\ Blockers(read["account"], read) =
                 {b \in {"customer_not_active", "account_not_active",
                         "outstanding_past_due_invoices", "contract_term_locked"} :
                    \/ b = "customer_not_active" /\ a.customer # "active"
                    \/ b = "account_not_active" /\ a.account # "active"
                    \/ b = "outstanding_past_due_invoices" /\ a.past_due
                    \/ b = "contract_term_locked" /\ a.contract = "term_locked"}
            /\ Warnings(read) = {w \in {"open_urgent_tickets"} : scenario = "hooli"}
            /\ \A amount : Triggers(amount, read["discount"], read) =
                 {t \in {"discount_above_threshold", "charge_above_threshold",
                         "contract_terms_ambiguous"} :
                    \/ t = "discount_above_threshold" /\ a.discount > 2000
                    \/ t = "charge_above_threshold" /\ amount > 1000000
                    \/ t = "contract_terms_ambiguous" /\ a.contract = "ambiguous_terms"}
<1> DEFINE a == SCENARIOS[scenario]
<1>1. {"clock", "account", "target", "subscription", "current", "contract", "invoices",
       "tickets", "discount"} \subseteq DOMAIN read
  <2>1. /\ LocalQueries[1] = "clock" /\ LocalQueries[2] = "account"
        /\ LocalQueries[3] = "target" /\ LocalQueries[4] = "subscription"
        /\ LocalQueries[5] = "current" /\ LocalQueries[6] = "contract"
        /\ LocalQueries[7] = "invoices" /\ LocalQueries[8] = "tickets"
        /\ LocalQueries[9] = "discount"
    BY DEF LocalQueries
  <2> QED BY <2>1 DEF LocalSet
<1>2. /\ read["clock"] = 0 /\ read["subscription"] = Subscribed(a)
      /\ read["account"] = [exists |-> TRUE, customer |-> a.customer, status |-> a.account]
      /\ read["target"] = PLANS["enterprise"] /\ read["current"] = PLANS[a.plan]
      /\ read["contract"] = ContractOf(a) /\ (read["invoices"] > 0 <=> a.past_due)
      /\ (read["tickets"] > 0 <=> scenario = "hooli") /\ read["discount"] = a.discount
  BY <1>1 DEF AsNoted
<1>3. PLANS["enterprise"].active /\ ~(PLANS["enterprise"].rank <= PLANS[a.plan].rank)
  <2>1. a.plan \in {"starter", "professional"}
    BY ScenarioNames, Acme, Globex, Initech, Umbrella, Vehement, Hooli, Soylent
  <2>2. PLANS["enterprise"].active /\ PLANS["enterprise"].rank = 3
    BY DEF PLANS, Offer
  <2>3. PLANS["starter"].rank = 1 /\ PLANS["professional"].rank = 2
    BY DEF PLANS, Offer
  <2> QED BY <2>1, <2>2, <2>3
<1>4. /\ read["contract"].restriction = "term_locked" <=> a.contract = "term_locked"
      /\ read["contract"].restriction = "ambiguous_terms" <=> a.contract = "ambiguous_terms"
      /\ read["contract"] # NoContract => read["contract"].ends = 330
  BY <1>2 DEF ContractOf, NoContract
<1>5. /\ read["account"].customer = a.customer /\ read["account"].status = a.account
      /\ ~read["subscription"].cancelling
  BY <1>2 DEF Subscribed
<1> HIDE DEF a
<1>6. Blockers(read["account"], read) =
        {b \in {"customer_not_active", "account_not_active",
                "outstanding_past_due_invoices", "contract_term_locked"} :
           \/ b = "customer_not_active" /\ a.customer # "active"
           \/ b = "account_not_active" /\ a.account # "active"
           \/ b = "outstanding_past_due_invoices" /\ a.past_due
           \/ b = "contract_term_locked" /\ a.contract = "term_locked"}
  BY <1>2, <1>3, <1>4, <1>5 DEF Blockers
<1>7. Warnings(read) = {w \in {"open_urgent_tickets"} : scenario = "hooli"}
  BY <1>2, <1>4, <1>5 DEF Warnings
<1>8. ASSUME NEW amount
      PROVE  Triggers(amount, read["discount"], read) =
        {t \in {"discount_above_threshold", "charge_above_threshold",
                "contract_terms_ambiguous"} :
           \/ t = "discount_above_threshold" /\ a.discount > 2000
           \/ t = "charge_above_threshold" /\ amount > 1000000
           \/ t = "contract_terms_ambiguous" /\ a.contract = "ambiguous_terms"}
  BY <1>2, <1>4 DEF Triggers
<1> QED BY <1>6, <1>7, <1>8 DEF a

\* The verdict on an account that nobody has changed is the one its notes announce.
LEMMA NotesFollow == AssessInv /\ SeededInv => SeedNotesHold
<1> SUFFICES ASSUME AssessInv, SeededInv PROVE SeedNotesHold
  OBVIOUS
<1> DEFINE Premise == pc = "ended" /\ changes = 0 /\ rows.exists /\ target = "enterprise"
                      /\ reply.status # "malformed"
<1>0. ASSUME ~Premise PROVE SeedNotesHold
  BY <1>0, SMT DEF SeedNotesHold
<1> SUFFICES ASSUME Premise PROVE SeedNotesHold
  BY <1>0
<1> DEFINE a == SCENARIOS[scenario]
           findings == verdict.findings
<1>1. /\ scenario \in DOMAIN SCENARIOS /\ AsNoted(seen) /\ AsNoted(remote)
      /\ verdict \in Verdict /\ verdict.outcome # "none"
      /\ verdict.outcome \notin {"not_assessable", "lost"}
  BY DEF AssessInv, WorldInv, VerdictInv, SeededInv, Undisturbed
<1>2. verdict.outcome \in {"blocked", "eligible"}
  BY <1>1 DEF Verdict, Outcome
<1>3. /\ LocalSet \subseteq DOMAIN seen
      /\ findings = Blockers(seen["account"], seen) /\ verdict.warnings = Warnings(seen)
      /\ verdict.triggers = Triggers(verdict.amount, seen["discount"], seen)
      /\ verdict.outcome = "blocked" <=> findings # {}
  BY <1>2 DEF AssessInv, VerdictInv
<1>4. Expected(verdict.amount)
  BY <1>2 DEF SeededInv, Undisturbed
<1>5. /\ findings = {b \in {"customer_not_active", "account_not_active",
                            "outstanding_past_due_invoices", "contract_term_locked"} :
                       \/ b = "customer_not_active" /\ a.customer # "active"
                       \/ b = "account_not_active" /\ a.account # "active"
                       \/ b = "outstanding_past_due_invoices" /\ a.past_due
                       \/ b = "contract_term_locked" /\ a.contract = "term_locked"}
      /\ verdict.warnings = {w \in {"open_urgent_tickets"} : scenario = "hooli"}
      /\ verdict.triggers =
           {t \in {"discount_above_threshold", "charge_above_threshold",
                   "contract_terms_ambiguous"} :
              \/ t = "discount_above_threshold" /\ a.discount > 2000
              \/ t = "charge_above_threshold" /\ verdict.amount > 1000000
              \/ t = "contract_terms_ambiguous" /\ a.contract = "ambiguous_terms"}
  BY <1>1, <1>3, NotedFindings
<1>6. findings = {} => Decided
  BY <1>2, <1>3 DEF Decided
<1> HIDE DEF a, findings
<1>7. ASSUME scenario = "acme" PROVE Decided /\ ~verdict.approval /\ verdict.amount = 933333
  <2>1. /\ a.customer = "active" /\ a.account = "active" /\ a.past_due = FALSE
        /\ a.contract = "none" /\ a.discount = 0
    BY <1>7, Acme DEF a
  <2>2. Decided /\ verdict.amount = 933333
    BY <1>4, <1>5, <1>6, <1>7, <2>1 DEF Expected
  <2>3. verdict.triggers = {}
    BY <1>5, <2>1, <2>2
  <2>4. reply.status = "consulted" => reply.amount = 933333 /\ ~reply.indicated
    <3> SUFFICES ASSUME reply.status = "consulted" PROVE reply.amount = 933333 /\ ~reply.indicated
      OBVIOUS
    <3>1. RemoteSet \subseteq DOMAIN remote /\ reply.amount = 933333
      BY <1>7 DEF SeededInv, Undisturbed, Expected
    <3>2. "contract" \in RemoteSet
      <4>1. RemoteQueries[6] = "contract"
        BY DEF RemoteQueries
      <4> QED BY <4>1 DEF RemoteSet
    <3>3. remote["contract"] = ContractOf(a)
      BY <1>1, <3>1, <3>2 DEF AsNoted, a
    <3>4. remote["contract"].restriction = "none"
      BY <2>1, <3>3 DEF ContractOf
    <3>5. Triggers(reply.amount, 0, remote) = {}
      BY <3>1, <3>4, SMT DEF Triggers
    <3>6. reply.indicated = FALSE
      BY <3>5 DEF AssessInv, VerdictInv
    <3> QED BY <3>1, <3>6
  <2>5. verdict.approval = (\/ verdict.triggers # {}
                            \/ reply.status = "consulted" /\ reply.indicated
                            \/ reply.status = "consulted" /\ reply.amount # verdict.amount)
    <3>1. verdict.outcome = "eligible"
      BY <2>2 DEF Decided
    <3> QED BY <3>1 DEF AssessInv, VerdictInv
  <2>6. reply.status = "consulted" => reply.amount = verdict.amount /\ ~reply.indicated
    BY <2>2, <2>4
  <2>7. ~verdict.approval
    BY <2>3, <2>5, <2>6
  <2> QED BY <2>2, <2>7
<1>8. ASSUME scenario = "globex" PROVE findings = {"contract_term_locked"}
  BY <1>5, <1>8, Globex DEF a
<1>9. ASSUME scenario = "initech"
      PROVE  findings = {"account_not_active", "outstanding_past_due_invoices"}
  BY <1>5, <1>9, Initech DEF a
<1>10. ASSUME scenario = "umbrella"
       PROVE  Decided /\ "discount_above_threshold" \in verdict.triggers
  <2>1. /\ a.customer = "active" /\ a.account = "active" /\ a.past_due = FALSE
        /\ a.contract = "none" /\ a.discount = 3500
    BY <1>10, Umbrella DEF a
  <2> QED BY <1>5, <1>6, <2>1
<1>11. ASSUME scenario = "vehement" PROVE verdict.triggers = {"contract_terms_ambiguous"}
  <2>1. a.contract = "ambiguous_terms" /\ a.discount = 0 /\ verdict.amount = 700000
    BY <1>4, <1>11, Vehement DEF a, Expected
  <2> QED BY <1>5, <2>1
<1>12. ASSUME scenario = "hooli" PROVE Decided /\ verdict.warnings = {"open_urgent_tickets"}
  <2>1. /\ a.customer = "active" /\ a.account = "active" /\ a.past_due = FALSE
        /\ a.contract = "none"
    BY <1>12, Hooli DEF a
  <2> QED BY <1>5, <1>6, <1>12, <2>1
<1>13. ASSUME scenario = "soylent" PROVE findings = {"customer_not_active"}
  BY <1>5, <1>13, Soylent DEF a
<1>14. CASE scenario = "acme"
  BY <1>7, <1>14, SMT DEF SeedNotesHold, findings
<1>15. CASE scenario = "globex"
  BY <1>8, <1>15, SMT DEF SeedNotesHold, findings
<1>16. CASE scenario = "initech"
  BY <1>9, <1>16, SMT DEF SeedNotesHold, findings
<1>17. CASE scenario = "umbrella"
  BY <1>10, <1>17, SMT DEF SeedNotesHold, findings
<1>18. CASE scenario = "vehement"
  BY <1>11, <1>18, SMT DEF SeedNotesHold, findings
<1>19. CASE scenario = "hooli"
  BY <1>12, <1>19, SMT DEF SeedNotesHold, findings
<1>20. CASE scenario = "soylent"
  BY <1>13, <1>20, SMT DEF SeedNotesHold, findings
<1> QED BY <1>1, <1>14, <1>15, <1>16, <1>17, <1>18, <1>19, <1>20, ScenarioNames

\* An assessment shows the amount of its invoice, and an account that nobody changes
\* takes the path that the catalogue notes of it (SCENARIOS, assess_upgrade, decide).
THEOREM RightAssessments == AssessSpec => []AssessmentsAreRight
<1>1. AssessSpec => []SeededInv
  BY SeededStarts, SeededStep, AssessInvariance, PTL DEF AssessSpec
<1>2. AssessSpec => []SeedNotesHold
  BY <1>1, NotesFollow, AssessInvariance, PTL
<1>3. LinesAddUp /\ SeedNotesHold => AssessmentsAreRight
  BY DEF AssessmentsAreRight
<1> QED BY <1>2, <1>3, InvoicesAddUp, PTL

(***************************************************************************)
(* The five services together                                              *)
(***************************************************************************)
ServicesInv == AssessInv /\ TasksInv /\ KnowledgeInv /\ ChunkInv /\ PortalInv

\* The services share nothing: a step is one of each service or nothing to it.
LEMMA ServicesApart ==
  [ServicesNext]_serviceVars =>
    /\ [AssessNext]_assessVars /\ [TasksNext]_taskVars
    /\ [KnowledgeNext]_knowledgeVars /\ [ChunkNext]_chunkVars /\ [PortalNext]_portalVars
BY DEF ServicesNext, InAssessment, InTasks, InKnowledge, InChunking, InPortal, serviceVars

\* Whichever service runs, each keeps what it keeps on its own.
THEOREM ServicesInvariance == ServicesSpec => []ServicesInv
<1>1. ServicesInit => ServicesInv
  BY AssessStarts, TasksInitInv, KnowledgeStarts, ChunkStarts, PortalInitInv
     DEF ServicesInit, ServicesInv
<1>2. ServicesInv /\ [ServicesNext]_serviceVars => ServicesInv'
  BY ServicesApart, AssessStep, TasksStep, KnowledgeStepKeeps, ChunkStep, PortalStep
     DEF ServicesInv
<1> QED BY <1>1, <1>2, PTL DEF ServicesSpec

\* The services behind the workflow's nodes never leave their types, nor what they
\* keep true of each row (assessment.py, pipeline.py, chunking.py, app.py of the
\* specialist and of the portal).
THEOREM ServicesTyped == ServicesSpec => []ServicesTypeOK
<1>1. TasksInv => TasksTypeOK
  BY DEF TasksInv, WindowInv, AnswerInv, AnswerState, TasksTypeOK
<1>2. ChunkInv => ChunkTypeOK
  BY DEF ChunkInv
<1>3. PortalInv => PortalTypeOK
  <2> SUFFICES ASSUME PortalInv PROVE PortalTypeOK
    OBVIOUS
  <2>1. ASSUME NEW o \in Operations
        PROVE  /\ op[o].asks \in Request /\ op[o].pc \in Place
               /\ op[o].change \in {"none", "begun", "failed", "committed"}
               /\ op[o].change # "none" => op[o].asks # Nothing
    <3>1. op[o] \in CallState /\ Sound(o, op[o])
      BY DEF PortalInv, HistoryInv
    <3> QED BY <3>1 DEF CallState, Sound, Nothing, PROVISIONABLE_TIERS
  <2> QED BY <2>1 DEF PortalInv, HistoryInv, SeedInv, PortalTypeOK, Entitlement, Place
<1>4. ServicesInv => ServicesTypeOK
  BY <1>1, <1>2, <1>3, AssessmentTyped, RowsTyped DEF ServicesInv, ServicesTypeOK
<1> QED BY <1>4, ServicesInvariance, PTL

\* A stored document is replaced for its new text, and an entitlement changed with a
\* session of the portal or by a seed command that writes the catalogue's columns
\* (ingest_document, change_tier, _seed_scenario).
THEOREM CausedWrites == ServicesSpec => WritesHaveCause
<1>1. ServicesSpec => RewriteNeedsNewText
  BY ServicesApart, RewriteStep, ServicesInvariance, PTL
     DEF ServicesSpec, ServicesInv, RewriteNeedsNewText
<1>2. ServicesSpec => ChangesAreSignedIn
  BY ServicesApart, WritesAreSignedIn, ServicesInvariance, PTL
     DEF ServicesSpec, ServicesInv, ChangesAreSignedIn
<1> QED BY <1>1, <1>2 DEF WritesHaveCause
=============================================================================
