--------------------------- MODULE ConnectionPool ---------------------------
(***************************************************************************)
(* The connections of one API process (db/engine.py).  A session takes a   *)
(* connection with its first statement and gives it back when it commits   *)
(* or is closed.  get_session is closed after the response, so a request   *)
(* that starts a run (routers/workflows.py) keeps the connection of its    *)
(* authentication while the runner and the nodes open sessions of their    *)
(* own, one at a time; a decision (routers/approvals.py) has committed     *)
(* before it resumes the run.                                              *)
(***************************************************************************)
EXTENDS Naturals, FiniteSets

CONSTANTS
  Requests,
  Capacity,   \* pool_size + max_overflow
  MaxUses     \* bound: sessions the runner opens in a request

ASSUME PoolAssumption ==
  IsFiniteSet(Requests) /\ Capacity \in Nat \ {0} /\ MaxUses \in Nat

VARIABLES
  request_of   \* per request: where it is and what it holds

poolVars == <<request_of>>

Endpoint == {"start", "decide", "read", "health"}
Waiting == {"authenticating", "driving"}

PoolTypeOK ==
  request_of \in [Requests -> [pc : Waiting \cup {"idle", "handling", "using",
                                                  "between", "answered", "failed"},
                               endpoint : Endpoint, own : BOOLEAN, second : BOOLEAN,
                               left : 0..MaxUses]]

PoolInit ==
  request_of = [r \in Requests |-> [pc |-> "idle", endpoint |-> "read",
                                    own |-> FALSE, second |-> FALSE, left |-> 0]]

-----------------------------------------------------------------------------
\* A connection is the own one of a request or a second one that it drives with.
Holds(r) == request_of[r].own \/ request_of[r].second

InUse == Cardinality({r \in Requests : request_of[r].own})
           + Cardinality({r \in Requests : request_of[r].second})

Free == InUse < Capacity

Arrive(r) ==
  /\ request_of[r].pc = "idle"
  /\ \E e \in Endpoint, n \in 0..MaxUses :
       /\ n > 0 <=> e \in {"start", "decide"}
       /\ request_of' = [request_of EXCEPT ![r] = [@ EXCEPT
            !.pc = "authenticating", !.endpoint = e, !.left = n]]

\* get_principal's SELECT, or the probe's
CheckOut(r) ==
  /\ request_of[r].pc = "authenticating"
  /\ Free
  /\ request_of' = [request_of EXCEPT ![r] = [@ EXCEPT !.pc = "handling", !.own = TRUE]]

\* Mutant: the decision is resumed before its session has committed.
HandleKeepingSession(r) ==
  /\ request_of[r].pc = "handling"
  /\ request_of' = [request_of EXCEPT ![r] =
       IF @.left = 0 THEN [@ EXCEPT !.pc = "answered", !.own = FALSE]
       ELSE [@ EXCEPT !.pc = "driving"]]

\* The handler itself.  A read or a probe answers; a decision commits.
Handle(r) ==
  /\ request_of[r].pc = "handling"
  /\ request_of' = [request_of EXCEPT ![r] =
       IF @.left = 0 THEN [@ EXCEPT !.pc = "answered", !.own = FALSE]
       ELSE [@ EXCEPT !.pc = "driving", !.own = request_of[r].own
                                      /\ request_of[r].endpoint = "start"]]

\* A session of the runner or of a node
OpenSession(r) ==
  /\ request_of[r].pc = "driving"
  /\ Free
  /\ request_of' = [request_of EXCEPT ![r] = [@ EXCEPT !.pc = "using", !.second = TRUE]]

CloseSession(r) ==
  /\ request_of[r].pc = "using"
  /\ request_of' = [request_of EXCEPT ![r].pc = "between", ![r].second = FALSE,
                                      ![r].left = @ - 1]

\* Mutant: the sessions of a run are counted one too many.
ProceedOnceMore(r) ==
  /\ request_of[r].pc = "between"
  /\ request_of' = [request_of EXCEPT ![r] =
       IF @.left < 0 THEN [@ EXCEPT !.pc = "answered", !.own = FALSE]
       ELSE [@ EXCEPT !.pc = "driving"]]

\* The next session, or the answer; get_session is closed after it.
Proceed(r) ==
  /\ request_of[r].pc = "between"
  /\ request_of' = [request_of EXCEPT ![r] =
       IF @.left = 0 THEN [@ EXCEPT !.pc = "answered", !.own = FALSE]
       ELSE [@ EXCEPT !.pc = "driving"]]

\* Mutant: only the probe has a time limit.
GiveUpProbing(r) ==
  /\ request_of[r].pc \in Waiting
  /\ ~Free
  /\ request_of[r].endpoint = "health"
  /\ request_of' = [request_of EXCEPT ![r] = [@ EXCEPT !.pc = "failed", !.own = FALSE]]

\* The pool's timeout (a probe has a shorter one): the request fails, and the
\* connection it held comes back.
GiveUp(r) ==
  /\ request_of[r].pc \in Waiting
  /\ ~Free
  /\ request_of' = [request_of EXCEPT ![r] = [@ EXCEPT !.pc = "failed", !.own = FALSE]]

RequestStep(r) == \/ CheckOut(r) \/ Handle(r) \/ OpenSession(r) \/ CloseSession(r)
                  \/ Proceed(r) \/ GiveUp(r)

PoolNext == \E r \in Requests : Arrive(r) \/ RequestStep(r)

PoolFairness == \A r \in Requests : WF_poolVars(RequestStep(r))

PoolSpec == PoolInit /\ [][PoolNext]_poolVars /\ PoolFairness

-----------------------------------------------------------------------------
(* Properties                                                              *)

\* The pool never lends more than it has, and it is only lent out entirely to
\* requests that all wait for it when each of them starts a run: nothing else
\* waits for a connection while it holds one.
OnlyStartsHoldAndWait ==
  /\ InUse <= Capacity
  /\ (~Free /\ \A r \in Requests : Holds(r) => request_of[r].pc \in Waiting) =>
       Cardinality({r \in Requests : request_of[r].own /\ request_of[r].endpoint = "start"})
         = Capacity

\* Every request is answered or fails, also when all connections are held by
\* requests that wait for another one: again and again none is in progress.
EveryRequestEnds ==
  []<>(\A r \in Requests : request_of[r].pc \in {"idle", "answered", "failed"})
=============================================================================
