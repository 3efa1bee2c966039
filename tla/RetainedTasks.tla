---------------------------- MODULE RetainedTasks ----------------------------
(***************************************************************************)
(* The A2A endpoints of the billing specialist (billing_specialist/app.py) *)
(* and its client: concurrent messages, each answered by a task that is    *)
(* kept in the process, oldest dropped first, and sent back.  The client   *)
(* takes the answer from the response; GET /tasks/{id} asks for it again.  *)
(***************************************************************************)
EXTENDS Naturals, Sequences, SequencesExt

CONSTANTS
  Messages,       \* POST /message:send requests
  MaxRetained     \* MAX_RETAINED_TASKS

ASSUME RetainedAssumption == MaxRetained \in Nat \ {0}

VARIABLES
  tasks,      \* the retained tasks, oldest first
  recorded,   \* history: every task recorded by this process, in order
  message     \* per message: where it is, what was answered, what the client has

taskVars == <<tasks, recorded, message>>

Status == {"unavailable", "refused", "consulted"}

\* No retained task was dropped before an older one, and a message that is
\* done has a status.
TasksTypeOK ==
  /\ tasks \in Seq(Messages)
  /\ Len(tasks) <= MaxRetained
  /\ IsInjective(recorded)
  /\ message \in [Messages -> [pc : {"new", "answering", "sent", "done", "polled"},
                              task : {"none", "completed", "failed"},
                              has : Status \cup {"nothing"},
                              polled : {"nothing", "completed", "failed", "404"}]]
  /\ \A m \in Messages : message[m].pc \in {"done", "polled"} <=> message[m].has # "nothing"

TasksInit ==
  /\ tasks = <<>>
  /\ recorded = <<>>
  /\ message = [m \in Messages |-> [pc |-> "new", task |-> "none", has |-> "nothing",
                                    polled |-> "nothing"]]

-----------------------------------------------------------------------------
\* Mutant: the newest task gives way.
RetainEvictingNewest(m) ==
  /\ tasks' = Append(IF Len(tasks) >= MaxRetained THEN Front(tasks) ELSE tasks, m)
  /\ recorded' = Append(recorded, m)

\* Mutant: the limit is passed by one.
RetainOneMore(m) ==
  /\ tasks' = Append(IF Len(tasks) > MaxRetained THEN Tail(tasks) ELSE tasks, m)
  /\ recorded' = Append(recorded, m)

\* _record
Retain(m) ==
  /\ tasks' = Append(IF Len(tasks) >= MaxRetained THEN Tail(tasks) ELSE tasks, m)
  /\ recorded' = Append(recorded, m)

\* send_message: a body that is no request fails at once.
Send(m) ==
  /\ message[m].pc = "new"
  /\ \/ /\ message' = [message EXCEPT ![m].pc = "answering"]
        /\ UNCHANGED <<tasks, recorded>>
     \/ /\ message' = [message EXCEPT ![m].pc = "sent", ![m].task = "failed"]
        /\ Retain(m)

\* _answer awaits the database; it fails for refusals and for any error.
Answered(m) ==
  /\ message[m].pc = "answering" \/ (message[m].pc = "done" /\ message[m].task = "none")
  /\ \E t \in {"completed", "failed"} :
       message' = [message EXCEPT ![m].task = t,
                                  ![m].pc = IF @ = "answering" THEN "sent" ELSE @]
  /\ Retain(m)

\* Mutant: an answer that was read is consulted, whatever its state.
InterpretAny(m) ==
  /\ message[m].pc = "sent"
  /\ message' = [message EXCEPT ![m].pc = "done", ![m].has = "consulted"]
  /\ UNCHANGED <<tasks, recorded>>

\* _interpret
Interpret(m) ==
  /\ message[m].pc = "sent"
  /\ message' = [message EXCEPT ![m].pc = "done",
       ![m].has = IF message[m].task = "completed" THEN "consulted" ELSE "refused"]
  /\ UNCHANGED <<tasks, recorded>>

\* httpx.HTTPError, or a malformed response.  The specialist works on.
GiveUpWaiting(m) ==
  /\ message[m].pc \in {"answering", "sent"}
  /\ message' = [message EXCEPT ![m].pc = "done", ![m].has = "unavailable"]
  /\ UNCHANGED <<tasks, recorded>>

\* get_task, by someone who knows the id
Poll(m) ==
  /\ message[m].pc = "done"
  /\ message[m].task # "none"
  /\ message' = [message EXCEPT ![m].pc = "polled",
       ![m].polled = IF m \in ToSet(tasks) THEN message[m].task ELSE "404"]
  /\ UNCHANGED <<tasks, recorded>>

MessageStep(m) == Answered(m) \/ Interpret(m) \/ GiveUpWaiting(m) \/ Poll(m)

TasksNext == \E m \in Messages : Send(m) \/ MessageStep(m)

TasksSpec == TasksInit /\ [][TasksNext]_taskVars

-----------------------------------------------------------------------------
(* Properties                                                              *)

\* The tasks that can be fetched are the last ones recorded, in their order,
\* however the messages overlap and whether or not their clients waited.
NewestAreRetained ==
  tasks = SubSeq(recorded, Len(recorded) - Len(tasks) + 1, Len(recorded))
    /\ (Len(tasks) < MaxRetained => tasks = recorded)

\* A client that was told of an agreement or a refusal was told what the task
\* says, and nobody is told later that the task says otherwise.
ClientAndTaskAgree ==
  \A m \in Messages :
    /\ message[m].has = "consulted" => message[m].task = "completed"
    /\ message[m].has = "refused" => message[m].task = "failed"
    /\ message[m].polled = "404" => Len(recorded) > MaxRetained

\* What can be fetched later is the newest, and what the client was told.
TasksAreAnswered == NewestAreRetained /\ ClientAndTaskAgree
=============================================================================
