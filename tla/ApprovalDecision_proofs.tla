----------------------- MODULE ApprovalDecision_proofs -----------------------
(***************************************************************************)
(* For any number of deciders whose requests overlap in any way: the       *)
(* decider had authority, the audit tells what the row says, late requests *)
(* do nothing, and the run acts on a record.                               *)
(***************************************************************************)
EXTENDS ApprovalDecision, TLAPS

\* Requests that were let in, and how far the role of their session took them.
LetIn == {"authenticated", "loaded", "authorised", "recorded", "answered", "stopped"}

AuthorityInv ==
  /\ \A d \in Deciders :
       /\ pc[d] \in LetIn => MayReachEndpoint(seen_role[d])
       /\ pc[d] \in {"authorised", "recorded"} => HasAuthority(seen_role[d])
  /\ row.by # Nobody => pc[row.by] # "idle"
  /\ DeciderHadAuthority

\* A decision that was made is never unmade, only replaced by another one.
DecidedInv ==
  /\ \A d \in Deciders : pc[d] = "recorded" => row.status # "pending"
  /\ \A d \in late : row.status # "pending" /\ pc[d] # "idle"

DecisionInv == /\ TypeOK /\ AuthorityInv /\ DecidedInv /\ AuditTellsTheDecision
               /\ LateRequestsAreRefused /\ RunActsOnARecord

-----------------------------------------------------------------------------
\* The invariant holds before the first request.
LEMMA InitInv == Init => DecisionInv
<1> SUFFICES ASSUME Init PROVE DecisionInv
  OBVIOUS
<1> USE DeciderAssumption DEF Init
<1>1. TypeOK
  BY DEF TypeOK, Row, Event, RoleName, Served
<1>2. AuthorityInv /\ DecidedInv
  BY DEF AuthorityInv, DecidedInv, LetIn, DeciderHadAuthority
<1>3. AuditTellsTheDecision /\ LateRequestsAreRefused /\ RunActsOnARecord
  BY DEF AuditTellsTheDecision, LateRequestsAreRefused, RunActsOnARecord
<1> QED BY <1>1, <1>2, <1>3 DEF DecisionInv

\* The last event of a decided row says how it was decided.
LEMMA LastEvent ==
  ASSUME TypeOK, AuditTellsTheDecision, row.status # "pending"
  PROVE  /\ events # <<>>
         /\ Len(events) \in DOMAIN events
         /\ events[Len(events)].status = row.status
BY DEF TypeOK, AuditTellsTheDecision

\* What an event appended to the audit leaves of it.
LEMMA AppendedEvent ==
  ASSUME TypeOK, NEW e \in Event
  PROVE  /\ Append(events, e) \in Seq(Event)
         /\ Append(events, e) # <<>>
         /\ Append(events, e)[Len(Append(events, e))] = e
         /\ DOMAIN events \subseteq DOMAIN Append(events, e)
         /\ \A i \in DOMAIN events : Append(events, e)[i] = events[i]
BY DEF TypeOK

\* Where a request that goes a step further is, and that the others stay.
LEMMA OneMoves ==
  ASSUME TypeOK, NEW d \in Deciders,
         NEW place \in Served \cup {"authenticated", "loaded", "authorised", "recorded"},
         pc' = [pc EXCEPT ![d] = place]
  PROVE  /\ pc' \in [Deciders -> Served \cup {"authenticated", "loaded", "authorised",
                                              "recorded"}]
         /\ pc'[d] = place
         /\ \A e \in Deciders \ {d} : pc'[e] = pc[e]
BY DEF TypeOK

-----------------------------------------------------------------------------
\* One step per action.
LEMMA StepInv == DecisionInv /\ [Next]_vars => DecisionInv'
<1> SUFFICES ASSUME DecisionInv, [Next]_vars PROVE DecisionInv'
  OBVIOUS
<1> USE DeciderAssumption DEF DecisionInv, request
<1>t. row.by \in Deciders \cup {Nobody} /\ row.status \in {"pending", "approved", "rejected"}
  BY DEF TypeOK, Row
<1>1. ASSUME NEW d \in Deciders, Authenticate(d) PROVE DecisionInv'
  <2>a. /\ UNCHANGED <<elevated, row, events, roles, run, choice, current>>
        /\ pc[d] = "idle"
        /\ late' \in {late, late \cup {d}}
        /\ late' = late \cup {d} => late' = late \/ row.status # "pending"
    BY <1>1 DEF Authenticate
  <2>b. /\ \A e \in Deciders \ {d} : pc'[e] = pc[e] /\ seen_role'[e] = seen_role[e]
        /\ pc'[d] \in {"authenticated", "refused"}
        /\ pc'[d] = "authenticated" => MayReachEndpoint(seen_role'[d])
        /\ pc' \in [Deciders -> Served \cup {"authenticated", "loaded", "authorised",
                                             "recorded"}]
        /\ seen_role' \in [Deciders -> RoleName]
    BY <1>1 DEF Authenticate, TypeOK, Served
  <2>1. TypeOK'
    BY <2>a, <2>b DEF TypeOK
  <2>2. AuthorityInv'
    BY <1>t, <2>a, <2>b
       DEF AuthorityInv, LetIn, DeciderHadAuthority, HasAuthority, MayReachEndpoint
  <2>3. DecidedInv' /\ LateRequestsAreRefused'
    BY <1>t, <2>a, <2>b DEF DecidedInv, LateRequestsAreRefused, AuthorityInv, TypeOK
  <2>4. AuditTellsTheDecision' /\ RunActsOnARecord'
    BY <2>a DEF AuditTellsTheDecision, RunActsOnARecord
  <2> QED BY <2>1, <2>2, <2>3, <2>4
<1>2. ASSUME NEW d \in Deciders, LoadApproval(d) \/ CheckAuthority(d) \/ Stop(d)
      PROVE  DecisionInv'
  <2>a. /\ UNCHANGED <<elevated, row, events, roles, run, choice, seen_role, late>>
        /\ current' \subseteq current \cup {d}
    BY <1>2 DEF LoadApproval, CheckAuthority, Stop
  <2>b. PICK place \in {"loaded", "authorised", "refused", "stopped"} :
          /\ pc' = [pc EXCEPT ![d] = place]
          /\ pc[d] \notin Served
          /\ place = "loaded" => Decidable(row) /\ pc[d] = "authenticated"
          /\ place = "authorised" => HasAuthority(seen_role[d]) /\ pc[d] = "loaded"
    BY <1>2 DEF LoadApproval, CheckAuthority, Stop, Served
  <2>c. pc[d] \in LetIn
    BY <2>b DEF TypeOK, LetIn
  <2>d. /\ pc' \in [Deciders -> Served \cup {"authenticated", "loaded", "authorised",
                                             "recorded"}]
        /\ pc'[d] = place
        /\ \A e \in Deciders \ {d} : pc'[e] = pc[e]
    BY <2>b, OneMoves DEF Served
  <2>1. TypeOK'
    BY <2>a, <2>d DEF TypeOK
  <2>2. AuthorityInv'
    BY <1>t, <2>a, <2>b, <2>c, <2>d
       DEF AuthorityInv, LetIn, DeciderHadAuthority, HasAuthority, MayReachEndpoint
  <2>3. DecidedInv' /\ LateRequestsAreRefused'
    BY <1>t, <2>a, <2>b, <2>d DEF DecidedInv, LateRequestsAreRefused, TypeOK, Decidable
  <2>4. AuditTellsTheDecision' /\ RunActsOnARecord'
    BY <2>a DEF AuditTellsTheDecision, RunActsOnARecord
  <2> QED BY <2>1, <2>2, <2>3, <2>4
<1>3. ASSUME NEW d \in Deciders, Record(d) PROVE DecisionInv'
  <2>a. /\ UNCHANGED <<elevated, roles, run, choice, seen_role, current, late>>
        /\ pc[d] = "authorised"
        /\ pc' = [pc EXCEPT ![d] = "recorded"]
        /\ events' = Append(events, [by |-> d, status |-> choice[d]])
        /\ row' = [row EXCEPT !.status = choice[d], !.by = d]
    BY <1>3 DEF Record
  <2>b. /\ pc' \in [Deciders -> Served \cup {"authenticated", "loaded", "authorised",
                                             "recorded"}]
        /\ pc'[d] = "recorded"
        /\ \A e \in Deciders \ {d} : pc'[e] = pc[e]
    BY <2>a, OneMoves
  <2>c. choice[d] \in {"approved", "rejected"} /\ row \in Row
    BY DEF TypeOK
  <2>d. row' \in Row /\ row'.status = choice[d] /\ row'.by = d
    BY <2>a, <2>c DEF Row
  <2>e. [by |-> d, status |-> choice[d]] \in Event
    BY <2>c DEF Event
  <2>f. /\ events' \in Seq(Event) /\ events' # <<>>
        /\ events'[Len(events')] = [by |-> d, status |-> choice[d]]
        /\ DOMAIN events \subseteq DOMAIN events'
        /\ \A i \in DOMAIN events : events'[i] = events[i]
    BY <2>a, <2>e, AppendedEvent
  <2>1. TypeOK'
    BY <2>a, <2>b, <2>d, <2>f DEF TypeOK
  <2>2. AuthorityInv'
    BY <2>a, <2>b, <2>d
       DEF AuthorityInv, LetIn, DeciderHadAuthority, HasAuthority, MayReachEndpoint
  <2>3. DecidedInv' /\ LateRequestsAreRefused'
    BY <2>a, <2>b, <2>c, <2>d DEF DecidedInv, LateRequestsAreRefused, TypeOK
  <2>4. AuditTellsTheDecision'
    BY <2>c, <2>d, <2>f DEF AuditTellsTheDecision
  <2>5. RunActsOnARecord'
    BY <2>a, <2>f DEF RunActsOnARecord
  <2> QED BY <2>1, <2>2, <2>3, <2>4, <2>5
<1>4. ASSUME NEW d \in Deciders, Resume(d) PROVE DecisionInv'
  <2>a. /\ UNCHANGED <<elevated, events, roles, choice, seen_role, current, late>>
        /\ pc[d] = "recorded"
        /\ pc' = [pc EXCEPT ![d] = "answered"]
        /\ run' \in {run, "refused", "executed"}
        /\ run' = "executed" => run = "executed" \/ row.status = "approved"
        /\ row' \in {row, [row EXCEPT !.consumed = TRUE]}
    BY <1>4 DEF Resume
  <2>b. /\ pc' \in [Deciders -> Served \cup {"authenticated", "loaded", "authorised",
                                             "recorded"}]
        /\ pc'[d] = "answered"
        /\ \A e \in Deciders \ {d} : pc'[e] = pc[e]
    BY <2>a, OneMoves DEF Served
  <2>c. row' \in Row /\ row'.status = row.status /\ row'.by = row.by
    BY <2>a DEF TypeOK, Row
  <2>1. TypeOK'
    BY <2>a, <2>b, <2>c DEF TypeOK
  <2>2. AuthorityInv'
    BY <1>t, <2>a, <2>b, <2>c
       DEF AuthorityInv, LetIn, DeciderHadAuthority, HasAuthority, MayReachEndpoint
  <2>3. DecidedInv' /\ LateRequestsAreRefused'
    BY <2>a, <2>b, <2>c DEF DecidedInv, LateRequestsAreRefused, TypeOK
  <2>4. AuditTellsTheDecision'
    BY <2>a, <2>c DEF AuditTellsTheDecision
  <2>5. RunActsOnARecord'
    BY <2>a, LastEvent DEF RunActsOnARecord, DecidedInv
  <2> QED BY <2>1, <2>2, <2>3, <2>4, <2>5
<1>5. ASSUME NEW d \in Deciders, ChangeRole(d) PROVE DecisionInv'
  <2>a. UNCHANGED <<elevated, row, events, run, pc, choice, seen_role, current, late>>
    BY <1>5 DEF ChangeRole
  <2>b. roles' \in [Deciders -> RoleName]
    BY <1>5 DEF ChangeRole, TypeOK
  <2>1. TypeOK'
    BY <2>a, <2>b DEF TypeOK
  <2>2. AuthorityInv' /\ DecidedInv'
    BY <2>a
       DEF AuthorityInv, DecidedInv, DeciderHadAuthority, HasAuthority, MayReachEndpoint
  <2>3. AuditTellsTheDecision' /\ LateRequestsAreRefused' /\ RunActsOnARecord'
    BY <2>a DEF AuditTellsTheDecision, LateRequestsAreRefused, RunActsOnARecord
  <2> QED BY <2>1, <2>2, <2>3
<1>6. CASE UNCHANGED vars
  <2>1. TypeOK'
    BY <1>6 DEF vars, TypeOK
  <2>2. AuthorityInv' /\ DecidedInv'
    BY <1>6
       DEF vars, AuthorityInv, DecidedInv, DeciderHadAuthority, HasAuthority,
           MayReachEndpoint
  <2>3. AuditTellsTheDecision' /\ LateRequestsAreRefused' /\ RunActsOnARecord'
    BY <1>6 DEF vars, AuditTellsTheDecision, LateRequestsAreRefused, RunActsOnARecord
  <2> QED BY <2>1, <2>2, <2>3
<1> QED BY <1>1, <1>2, <1>3, <1>4, <1>5, <1>6 DEF Next, Serve

-----------------------------------------------------------------------------
\* The invariant, of which the next five are consequences.
THEOREM Invariance == Spec => []DecisionInv
BY InitInv, StepInv, PTL DEF Spec

\* Type correctness of the row, the audit, the roles and the requests.
THEOREM TypeCorrect == Spec => []TypeOK
<1>1. DecisionInv => TypeOK
  BY DEF DecisionInv
<1> QED BY <1>1, Invariance, PTL

\* Nobody without authority over the amount is ever named as the decider.
THEOREM Authority == Spec => []DeciderHadAuthority
<1>1. DecisionInv => DeciderHadAuthority
  BY DEF DecisionInv, AuthorityInv
<1> QED BY <1>1, Invariance, PTL

\* However requests overtake each other, the last audit event says what the row
\* says.
THEOREM AuditAgrees == Spec => []AuditTellsTheDecision
<1>1. DecisionInv => AuditTellsTheDecision
  BY DEF DecisionInv
<1> QED BY <1>1, Invariance, PTL

\* A request that begins after a decision decides nothing.
THEOREM LateRefused == Spec => []LateRequestsAreRefused
<1>1. DecisionInv => LateRequestsAreRefused
  BY DEF DecisionInv
<1> QED BY <1>1, Invariance, PTL

\* A run leaves its pause on a committed and audited decision only.
THEOREM ActsOnARecord == Spec => []RunActsOnARecord
<1>1. DecisionInv => RunActsOnARecord
  BY DEF DecisionInv
<1> QED BY <1>1, Invariance, PTL
=============================================================================
