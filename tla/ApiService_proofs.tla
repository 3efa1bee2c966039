-------------------------- MODULE ApiService_proofs --------------------------
(***************************************************************************)
(* The parts of the API service beside the runner, for any number of users *)
(* and tokens, of workers that boot and of requests for a connection; and  *)
(* the service that all of them make up.                                   *)
(***************************************************************************)
EXTENDS ApiServiceMC, RunTrace_proofs

(***************************************************************************)
(* Credentials                                                             *)
(***************************************************************************)
\* Rows that are in use exist, and are of the token they were read from: only
\* the dates of revocation and of use of a row ever change.
RowsInv ==
  /\ \A o \in Operators : command[o].pc = "found" => token[command[o].token] # Never
  /\ \A c \in Callers : call[c].pc \in {"found", "admitted"} =>
       LET row == call[c].row  now == token[call[c].token] IN
       /\ row # Never
       /\ now # Never
       /\ now.user = row.user /\ now.issued = row.issued /\ now.expires = row.expires

\* No row is stamped with a day that has not come yet.
ClockInv ==
  /\ \A t \in Tokens : token[t] # Never => token[t].issued <= today
  /\ \A c \in Callers : call[c].pc = "admitted" =>
       /\ call[c].row.issued <= call[c].now
       /\ call[c].row.expires # Never => call[c].now < call[c].row.expires

\* What is withdrawn is no good when it is checked: the row is the one that was
\* found, days only pass, and who is activated again takes the mark away.
WithdrawnInv ==
  \A c \in Callers : call[c].pc = "found" /\ call[c].withdrawn =>
    ~Valid(call[c].row, user[call[c].row.user].active, today)

CredInv == /\ CredTypeOK /\ RowsInv /\ ClockInv /\ WithdrawnInv
           /\ TokensAreUsedInTime

-----------------------------------------------------------------------------
\* A row with another date of revocation or of use is a row, and otherwise the
\* same.
LEMMA StampedRow ==
  ASSUME NEW row \in TokenRow, NEW day \in Day,
         NEW stamped \in {[row EXCEPT !.revoked = day], [row EXCEPT !.used = day]}
  PROVE  /\ stamped \in TokenRow
         /\ stamped.user = row.user
         /\ stamped.issued = row.issued
         /\ stamped.expires = row.expires
         /\ stamped.used \in {row.used, day}
BY DEF TokenRow, DayOrNever

\* A call that is over, and one that is admitted, are calls.
LEMMA EndedCall ==
  ASSUME CredTypeOK, NEW c \in Callers
  PROVE  /\ \A how \in {"refused", "forbidden", "done"} :
              /\ Over(c, how) \in Call
              /\ Over(c, how).pc = how
              /\ Over(c, how).withdrawn = call[c].withdrawn
         /\ [call[c] EXCEPT !.pc = "admitted", !.now = today] \in Call
<1>1. call[c] \in Call /\ today \in Day /\ 0 \in Day
  BY CredentialAssumption DEF CredTypeOK, Day
<1> QED BY <1>1 DEF Over, Call, Action

\* The invariant holds when nothing has been issued.
LEMMA CredInitInv == CredInit => CredInv
<1> SUFFICES ASSUME CredInit PROVE CredInv
  OBVIOUS
<1> USE CredentialAssumption DEF CredInit
<1>1. PICK t \in Tokens : t = CHOOSE u \in Tokens : TRUE
  OBVIOUS
<1>2. CredTypeOK
  BY DEF CredTypeOK, Day, RoleHeld, Action, Call
<1>3. RowsInv /\ ClockInv /\ WithdrawnInv /\ TokensAreUsedInTime
  BY DEF RowsInv, ClockInv, WithdrawnInv, TokensAreUsedInTime, WithdrawnIsRefused,
         UsedInItsLifetime
<1> QED BY <1>2, <1>3 DEF CredInv

\* No step leaves the invariant.
LEMMA CredStepInv == CredInv /\ [CredNext]_credVars => CredInv'
<1> SUFFICES ASSUME CredInv, [CredNext]_credVars PROVE CredInv'
  OBVIOUS
<1> USE CredentialAssumption DEF CredInv
<1>t. /\ today \in Day /\ today \in Nat
      /\ \A t \in Tokens : token[t] = Never \/ token[t] \in TokenRow
      /\ \A c \in Callers : call[c] \in Call
  BY DEF CredTypeOK, Day
<1>1. ASSUME NEW t \in Tokens, Issue(t) PROVE CredInv'
  <2>1. CredTypeOK'
    BY <1>1 DEF Issue, CredTypeOK, Day, DayOrNever, TokenRow
  <2>2. RowsInv'
    BY <1>t, <1>1 DEF Issue, RowsInv, TokenRow
  <2>3. ClockInv'
    BY <1>1 DEF Issue, ClockInv, CredTypeOK, Day
  <2>4. WithdrawnInv'
    BY <1>1 DEF Issue, WithdrawnInv, CredTypeOK, TokenRow
  <2>5. TokensAreUsedInTime'
    BY <1>1 DEF Issue, TokensAreUsedInTime, WithdrawnIsRefused, UsedInItsLifetime
  <2> QED BY <2>1, <2>2, <2>3, <2>4, <2>5
<1>2. ASSUME NEW o \in Operators, FindToRevoke(o) PROVE CredInv'
  <2>1. CredTypeOK'
    BY <1>2 DEF FindToRevoke, CredTypeOK, Day, DayOrNever
  <2>2. RowsInv'
    BY <1>t, <1>2 DEF FindToRevoke, RowsInv, TokenRow
  <2>3. ClockInv'
    BY <1>2 DEF FindToRevoke, ClockInv, CredTypeOK, RowsInv
  <2>4. WithdrawnInv'
    BY <1>2 DEF FindToRevoke, WithdrawnInv, CredTypeOK, TokenRow
  <2>5. TokensAreUsedInTime'
    BY <1>2 DEF FindToRevoke, TokensAreUsedInTime, WithdrawnIsRefused, UsedInItsLifetime
  <2> QED BY <2>1, <2>2, <2>3, <2>4, <2>5
<1>3. ASSUME NEW o \in Operators, Revoke(o) PROVE CredInv'
  <2>a. /\ UNCHANGED <<today, user, call>>
        /\ command' = [command EXCEPT ![o].pc = "done"]
        /\ command[o].pc = "found"
    BY <1>3 DEF Revoke
  <2> DEFINE t == command[o].token
             stamped == [token[t] EXCEPT !.revoked = command[o].at]
  <2>b. t \in Tokens /\ command[o].at \in Day /\ token[t] \in TokenRow
    BY <1>t, <2>a DEF CredTypeOK, RowsInv
  <2>c. stamped \in TokenRow
    BY <2>b, StampedRow
  <2>d. token' = [token EXCEPT ![t] = stamped] /\ token \in [Tokens -> TokenRow \cup {Never}]
    BY <1>3 DEF Revoke, CredTypeOK
  <2> HIDE DEF stamped
  <2>e. /\ \A x \in Tokens \ {t} : token'[x] = token[x]
        /\ token'[t] = stamped
        /\ token' \in [Tokens -> TokenRow \cup {Never}]
    BY <2>b, <2>c, <2>d
  <2>f. /\ token'[t] # Never /\ token[t] # Never
        /\ token'[t].user = token[t].user /\ token'[t].issued = token[t].issued
        /\ token'[t].expires = token[t].expires /\ token'[t].used = token[t].used
    BY <2>b, <2>c, <2>e, NeverAssumption DEF TokenRow, stamped
  <2>g. command' \in [Operators -> [pc : {"idle", "found", "done"}, token : Tokens, at : Day]]
    BY <2>a DEF CredTypeOK
  <2>j. \A c \in Callers : call[c].token \in Tokens
    BY <1>t DEF Call
  <2> HIDE DEF t
  <2>1. CredTypeOK'
    BY <1>t, <2>a, <2>e, <2>f DEF CredTypeOK
  <2>2. RowsInv'
    BY <2>a, <2>e, <2>f, <2>g, <2>j DEF RowsInv
  <2>3. ClockInv'
    BY <2>a, <2>e, <2>f DEF ClockInv, RowsInv
  <2>4. WithdrawnInv'
    BY <1>t, <2>a, <2>b DEF WithdrawnInv, RowsInv
  <2>5. TokensAreUsedInTime'
    BY <2>a, <2>e, <2>f DEF TokensAreUsedInTime, WithdrawnIsRefused, UsedInItsLifetime
  <2> QED BY <2>1, <2>2, <2>3, <2>4, <2>5
<1>4. ASSUME NEW c \in Callers, Present(c) PROVE CredInv'
  <2>a. UNCHANGED <<today, user, token, command>>
    BY <1>4 DEF Present
  <2>b. PICK t \in Tokens, a \in Action :
          call' = [call EXCEPT ![c] =
            IF token[t] = Never THEN Over(c, "refused")
            ELSE [pc |-> "found", token |-> t, action |-> a, row |-> token[t], now |-> 0,
                  withdrawn |-> ~Valid(token[t], user[token[t].user].active, today)]]
    BY <1>4 DEF Present
  <2> DEFINE found == [pc |-> "found", token |-> t, action |-> a, row |-> token[t], now |-> 0,
                       withdrawn |-> ~Valid(token[t], user[token[t].user].active, today)]
  <2>c. call \in [Callers -> Call]
    BY DEF CredTypeOK
  <2>d. token[t] # Never => found \in Call
    <3>1. (~Valid(token[t], user[token[t].user].active, today)) \in BOOLEAN
      OBVIOUS
    <3>2. token[t] \in TokenRow \cup {Never} /\ 0 \in Day
      BY DEF CredTypeOK, Day
    <3> QED BY <3>1, <3>2 DEF Call
  <2>e. call'[c] = IF token[t] = Never THEN Over(c, "refused") ELSE found
    BY <2>b, <2>c
  <2>f. call'[c] \in Call /\ \A x \in Callers \ {c} : call'[x] = call[x]
    BY <2>b, <2>c, <2>d, <2>e, EndedCall
  <2>g. \/ call'[c].pc = "refused"
        \/ /\ token[t] # Never
           /\ call'[c].pc = "found" /\ call'[c].token = t /\ call'[c].row = token[t]
           /\ call'[c].withdrawn => ~Valid(token[t], user[token[t].user].active, today)
    <3>1. CASE token[t] = Never
      BY <3>1, <2>e, EndedCall
    <3>2. CASE token[t] # Never
      <4>1. call'[c] = found
        BY <3>2, <2>e
      <4>2. found.withdrawn => ~Valid(token[t], user[token[t].user].active, today)
        BY Zenon
      <4> QED BY <3>2, <4>1, <4>2
    <3> QED BY <3>1, <3>2
  <2>h. call' \in [Callers -> Call]
    BY <2>b, <2>c, <2>f
  <2>1. CredTypeOK'
    BY <1>t, <2>a, <2>f, <2>h DEF CredTypeOK
  <2>2. RowsInv'
    BY <1>t, <2>a, <2>f, <2>g DEF RowsInv
  <2>3. ClockInv'
    BY <2>a, <2>f, <2>g DEF ClockInv, RowsInv
  <2>4. WithdrawnInv'
    BY <2>a, <2>f, <2>g DEF WithdrawnInv, RowsInv
  <2>5. TokensAreUsedInTime'
    BY <2>a, <2>f, <2>g DEF TokensAreUsedInTime, WithdrawnIsRefused, UsedInItsLifetime
  <2> QED BY <2>1, <2>2, <2>3, <2>4, <2>5
<1>5. ASSUME NEW c \in Callers, Admit(c) PROVE CredInv'
  <2>a. UNCHANGED <<today, user, token, command>>
    BY <1>5 DEF Admit
  <2> DEFINE row == call[c].row
             admitted == [call[c] EXCEPT !.pc = "admitted", !.now = today]
  <2>b. call[c].pc = "found" /\ call \in [Callers -> Call]
    BY <1>5 DEF Admit, CredTypeOK
  <2>c. \/ \E how \in {"refused", "forbidden"} : call' = [call EXCEPT ![c] = Over(c, how)]
        \/ Valid(row, user[row.user].active, today) /\ call' = [call EXCEPT ![c] = admitted]
    BY <1>5 DEF Admit
  <2>d. /\ \A x \in Callers \ {c} : call'[x] = call[x]
        /\ \/ \E how \in {"refused", "forbidden"} : call'[c] = Over(c, how)
           \/ Valid(row, user[row.user].active, today) /\ call'[c] = admitted
    BY <2>b, <2>c
  <2>e. call'[c] \in Call
    BY <2>d, EndedCall
  <2>f. call' \in [Callers -> Call]
    BY <2>b, <2>c, <2>e
  <2>g. \/ call'[c].pc \in {"refused", "forbidden"}
        \/ /\ Valid(row, user[row.user].active, today)
           /\ call'[c].pc = "admitted" /\ call'[c].row = row /\ call'[c].now = today
           /\ call'[c].token = call[c].token
           /\ call'[c].withdrawn = call[c].withdrawn
    <3>1. CASE \E how \in {"refused", "forbidden"} : call'[c] = Over(c, how)
      BY <3>1, EndedCall
    <3>2. CASE Valid(row, user[row.user].active, today) /\ call'[c] = admitted
      BY <3>2, <1>t DEF Call
    <3> QED BY <2>d, <3>1, <3>2
  <2>i. /\ row.issued <= today
        /\ Valid(row, user[row.user].active, today) /\ row.expires # Never => today < row.expires
    BY <1>t, <2>b DEF RowsInv, ClockInv, Valid, Expired, TokenRow, Call
  <2>1. CredTypeOK'
    BY <1>t, <2>a, <2>b, <2>f DEF CredTypeOK
  <2>2. RowsInv'
    BY <2>a, <2>b, <2>d, <2>g DEF RowsInv
  <2>3. ClockInv'
    BY <2>a, <2>d, <2>g, <2>i DEF ClockInv
  <2>4. WithdrawnInv'
    BY <2>a, <2>d, <2>g DEF WithdrawnInv, RowsInv
  <2>5. TokensAreUsedInTime'
    BY <2>a, <2>b, <2>d, <2>g
       DEF TokensAreUsedInTime, WithdrawnIsRefused, UsedInItsLifetime, WithdrawnInv
  <2> QED BY <2>1, <2>2, <2>3, <2>4, <2>5
<1>6. ASSUME NEW c \in Callers, Finish(c) PROVE CredInv'
  <2>a. UNCHANGED <<today, user, command>>
    BY <1>6 DEF Finish
  <2>b. /\ call[c].pc = "admitted" /\ call \in [Callers -> Call]
        /\ call' = [call EXCEPT ![c] = Over(c, "done")]
    BY <1>6 DEF Finish, CredTypeOK
  <2>c. /\ call' \in [Callers -> Call]
        /\ call'[c].pc = "done" /\ call'[c].withdrawn = call[c].withdrawn
        /\ \A x \in Callers \ {c} : call'[x] = call[x]
    BY <2>b, EndedCall
  <2> DEFINE t == call[c].token
             stamped == [token[t] EXCEPT !.used = call[c].now]
  <2>d. t \in Tokens /\ call[c].now \in Day /\ token[t] \in TokenRow
    BY <1>t, <2>b DEF RowsInv, Call
  <2>e. stamped \in TokenRow
    BY <2>d, StampedRow
  <2>f. /\ token \in [Tokens -> TokenRow \cup {Never}]
        /\ token' = token \/ token' = [token EXCEPT ![t] = stamped]
    BY <1>6 DEF Finish, CredTypeOK
  <2> HIDE DEF stamped
  <2>g. /\ \A x \in Tokens \ {t} : token'[x] = token[x]
        /\ token'[t] \in {token[t], stamped}
        /\ token' \in [Tokens -> TokenRow \cup {Never}]
    BY <2>d, <2>e, <2>f
  <2>h. /\ token'[t] # Never /\ token[t] # Never
        /\ token'[t].user = token[t].user /\ token'[t].issued = token[t].issued
        /\ token'[t].expires = token[t].expires
        /\ token'[t].used \in {token[t].used, call[c].now}
    BY <2>d, <2>e, <2>g, NeverAssumption DEF TokenRow, stamped
  <2>i. \A x \in Callers : call[x].token \in Tokens
    BY <1>t DEF Call
  <2>j. \A o \in Operators : command[o].token \in Tokens
    BY DEF CredTypeOK
  <2> HIDE DEF t
  <2>1. CredTypeOK'
    BY <2>a, <2>c, <2>g, <2>h DEF CredTypeOK
  <2>2. RowsInv'
    BY <2>a, <2>c, <2>g, <2>h, <2>i, <2>j DEF RowsInv
  <2>3. ClockInv'
    BY <2>a, <2>c, <2>g, <2>h DEF ClockInv
  <2>4. WithdrawnInv'
    BY <1>t, <2>a, <2>c DEF WithdrawnInv, RowsInv
  <2>5. TokensAreUsedInTime'
    BY <2>b, <2>c, <2>g, <2>h
       DEF TokensAreUsedInTime, WithdrawnIsRefused, UsedInItsLifetime, RowsInv,
           ClockInv, t
  <2> QED BY <2>1, <2>2, <2>3, <2>4, <2>5
<1>7. CASE Midnight
  <2>1. CredTypeOK'
    BY <1>7 DEF Midnight, CredTypeOK, Day, DayOrNever
  <2>2. RowsInv'
    BY <1>t, <1>7 DEF Midnight, RowsInv, TokenRow
  <2>3. ClockInv'
    BY <1>7 DEF Midnight, ClockInv, CredTypeOK, TokenRow, Day
  <2>4. WithdrawnInv'
    BY <1>7
       DEF Midnight, WithdrawnInv, CredTypeOK, TokenRow, Call, Valid, Expired, Day,
           RowsInv
  <2>5. TokensAreUsedInTime'
    BY <1>7 DEF Midnight, TokensAreUsedInTime, WithdrawnIsRefused, UsedInItsLifetime
  <2> QED BY <2>1, <2>2, <2>3, <2>4, <2>5
<1>8. ASSUME NEW u \in Users, Deactivate(u) PROVE CredInv'
  <2>a. UNCHANGED <<today, token, call, command>> /\ user' = [user EXCEPT ![u].active = FALSE]
    BY <1>8 DEF Deactivate
  <2>b. user' \in [Users -> [active : BOOLEAN, role : RoleHeld]]
    BY <2>a DEF CredTypeOK
  <2>1. CredTypeOK'
    BY <2>a DEF CredTypeOK, Day, DayOrNever, TokenRow
  <2>2. RowsInv'
    BY <1>t, <2>a, <2>b DEF RowsInv, TokenRow
  <2>3. ClockInv'
    BY <2>a DEF ClockInv, CredTypeOK, RowsInv, TokenRow
  <2>4. WithdrawnInv'
    BY <2>a DEF WithdrawnInv, CredTypeOK, TokenRow, Valid
  <2>5. TokensAreUsedInTime'
    BY <2>a DEF TokensAreUsedInTime, WithdrawnIsRefused, UsedInItsLifetime, CredTypeOK
  <2> QED BY <2>1, <2>2, <2>3, <2>4, <2>5
<1>11. ASSUME NEW u \in Users, Reactivate(u) PROVE CredInv'
  <2>a. UNCHANGED <<today, token, command>>
    BY <1>11 DEF Reactivate
  <2>b. /\ user' \in [Users -> [active : BOOLEAN, role : RoleHeld]]
        /\ user'[u].active = TRUE
        /\ \A x \in Users \ {u} : user'[x] = user[x]
    BY <1>11 DEF Reactivate, CredTypeOK
  <2> DEFINE marked(c) == call[c].pc = "found" /\ call[c].row.user = u
             still(c) == call[c].withdrawn /\ ~Valid(call[c].row, TRUE, today)
  <2>c. call' = [c \in Callers |->
          IF marked(c) THEN [call[c] EXCEPT !.withdrawn = still(c)] ELSE call[c]]
    BY <1>11 DEF Reactivate
  <2>d. ASSUME NEW c \in Callers
        PROVE  /\ call'[c] \in Call
               /\ call'[c].pc = call[c].pc /\ call'[c].row = call[c].row
               /\ call'[c].token = call[c].token /\ call'[c].now = call[c].now
               /\ call'[c].withdrawn => call[c].withdrawn
               /\ marked(c) /\ call'[c].withdrawn => ~Valid(call[c].row, TRUE, today)
    <3>1. still(c) \in BOOLEAN
      OBVIOUS
    <3> DEFINE kept == [call[c] EXCEPT !.withdrawn = still(c)]
    <3>2. call'[c] = IF marked(c) THEN kept ELSE call[c]
      BY <2>c
    <3>3. /\ kept \in Call
          /\ kept.pc = call[c].pc /\ kept.row = call[c].row
          /\ kept.token = call[c].token /\ kept.now = call[c].now
          /\ kept.withdrawn = still(c)
      <4> HIDE DEF still
      <4> QED BY <1>t, <3>1 DEF Call
    <3>4. still(c) => call[c].withdrawn /\ ~Valid(call[c].row, TRUE, today)
      OBVIOUS
    <3> HIDE DEF kept, still, marked
    <3>5. CASE marked(c)
      BY <3>2, <3>3, <3>4, <3>5
    <3>6. CASE ~marked(c)
      BY <1>t, <3>2, <3>6
    <3> QED BY <3>5, <3>6
  <2>e. call' \in [Callers -> Call]
    BY <2>c, <2>d
  <2>1. CredTypeOK'
    BY <1>t, <2>a, <2>b, <2>e DEF CredTypeOK
  <2>2. RowsInv'
    BY <2>a, <2>d DEF RowsInv
  <2>3. ClockInv'
    BY <2>a, <2>d DEF ClockInv
  <2>4. WithdrawnInv'
    <3> SUFFICES ASSUME NEW c \in Callers, call'[c].pc = "found", call'[c].withdrawn
                 PROVE  ~Valid(call'[c].row, user'[call'[c].row.user].active, today')
      BY DEF WithdrawnInv
    <3>1. call[c].row \in TokenRow /\ call[c].row.user \in Users
      BY <1>t, <2>d DEF RowsInv, Call, TokenRow
    <3>2. CASE call[c].row.user = u
      BY <2>a, <2>b, <2>d, <3>2
    <3>3. CASE call[c].row.user # u
      BY <2>a, <2>b, <2>d, <3>1, <3>3 DEF WithdrawnInv
    <3> QED BY <3>2, <3>3
  <2>5. TokensAreUsedInTime'
    BY <2>a, <2>d DEF TokensAreUsedInTime, WithdrawnIsRefused, UsedInItsLifetime
  <2> QED BY <2>1, <2>2, <2>3, <2>4, <2>5
<1>9. ASSUME NEW u \in Users, ChangeRole(u) PROVE CredInv'
  <2>a. PICK role \in RoleHeld : user' = [user EXCEPT ![u].role = role]
    BY <1>9 DEF ChangeRole
  <2>b. UNCHANGED <<today, token, call, command>>
    BY <1>9 DEF ChangeRole
  <2>c. user' \in [Users -> [active : BOOLEAN, role : RoleHeld]]
    BY <2>a DEF CredTypeOK
  <2>d. \A x \in Users : user'[x].active = user[x].active
    BY <2>a DEF CredTypeOK
  <2>1. CredTypeOK'
    BY <2>b, <2>c DEF CredTypeOK, Day, DayOrNever
  <2>2. RowsInv'
    BY <1>t, <2>b, <2>c DEF RowsInv, TokenRow
  <2>3. ClockInv'
    BY <2>b DEF ClockInv, CredTypeOK, RowsInv, TokenRow
  <2>4. WithdrawnInv'
    BY <2>b, <2>d DEF WithdrawnInv, CredTypeOK, TokenRow, Call, RowsInv
  <2>5. TokensAreUsedInTime'
    BY <2>b DEF TokensAreUsedInTime, WithdrawnIsRefused, UsedInItsLifetime, CredTypeOK
  <2> QED BY <2>1, <2>2, <2>3, <2>4, <2>5
<1>10. CASE UNCHANGED credVars
  <2>1. CredTypeOK'
    BY <1>10 DEF credVars, CredTypeOK, Day, DayOrNever
  <2>2. RowsInv'
    BY <1>t, <1>10 DEF credVars, RowsInv, TokenRow
  <2>3. ClockInv'
    BY <1>10 DEF credVars, ClockInv, CredTypeOK, RowsInv
  <2>4. WithdrawnInv'
    BY <1>10 DEF credVars, WithdrawnInv, CredTypeOK, TokenRow
  <2>5. TokensAreUsedInTime'
    BY <1>10 DEF credVars, TokensAreUsedInTime, WithdrawnIsRefused, UsedInItsLifetime
  <2> QED BY <2>1, <2>2, <2>3, <2>4, <2>5
<1> QED BY <1>1, <1>2, <1>3, <1>4, <1>5, <1>6, <1>7, <1>8, <1>9, <1>10, <1>11 DEF CredNext

\* Where a row is written after it was revoked, its date of revocation is that
\* of another command, or as it was.
LEMMA StepKeepsRevocation ==
  CredInv /\ [CredNext]_credVars =>
    \A t \in Tokens :
      token[t] # Never /\ token[t].revoked # Never => token'[t].revoked # Never
<1> SUFFICES ASSUME CredInv, [CredNext]_credVars,
                    NEW t \in Tokens, token[t] # Never, token[t].revoked # Never
             PROVE  token'[t].revoked # Never
  OBVIOUS
<1> USE CredentialAssumption
<1>t. token \in [Tokens -> TokenRow \cup {Never}] /\ token[t] \in TokenRow
  BY DEF CredInv, CredTypeOK
<1>1. ASSUME NEW other \in Tokens, Issue(other) PROVE token'[t].revoked # Never
  BY <1>t, <1>1 DEF Issue
<1>2. ASSUME NEW o \in Operators, Revoke(o) PROVE token'[t].revoked # Never
  <2>1. command[o].at \in Nat
    BY DEF CredInv, CredTypeOK, Day
  <2> QED BY <1>t, <1>2, <2>1 DEF Revoke, TokenRow
<1>3. ASSUME NEW c \in Callers, Finish(c) PROVE token'[t].revoked # Never
  BY <1>t, <1>3 DEF Finish, TokenRow
<1> QED
  BY <1>1, <1>2, <1>3
     DEF CredNext, credVars, FindToRevoke, Present, Admit, Midnight, Deactivate,
         Reactivate, ChangeRole

-----------------------------------------------------------------------------
\* The invariant, of which the next three are consequences.
THEOREM CredInvariance == CredSpec => []CredInv
BY CredInitInv, CredStepInv, PTL DEF CredSpec

\* Type correctness of the tables, the requests and the commands.
THEOREM CredTypeCorrect == CredSpec => []CredTypeOK
<1>1. CredInv => CredTypeOK
  BY DEF CredInv
<1> QED BY <1>1, CredInvariance, PTL

\* A token that was no good when it was presented, nor since, never reaches a
\* handler, and last_used_at is within the lifetime of its token, whatever the
\* sessions of requests and commands commit in between.
THEOREM TokensInTime == CredSpec => []TokensAreUsedInTime
<1>1. CredInv => TokensAreUsedInTime
  BY DEF CredInv
<1> QED BY <1>1, CredInvariance, PTL

\* A revocation is final: no handler that read the row before it writes it back.
THEOREM RevocationStays == CredSpec => RevocationIsFinal
<1>1. CredInv /\ [CredNext]_credVars =>
        [\A t \in Tokens : (token[t] # Never /\ token[t].revoked # Never)
                              => token'[t].revoked # Never]_credVars
  BY StepKeepsRevocation
<1> QED BY <1>1, CredInvariance, PTL DEF CredSpec, RevocationIsFinal

(***************************************************************************)
(* ApiStartup                                                              *)
(***************************************************************************)
Setup == {"executing", "waiting", "failing", "finishing"}

\* The advisory lock is had by exactly the worker that is in the guarded block,
\* also after crashes and failures.
LockInv == \A w \in Workers : worker[w].pc \in Setup <=> advisory = w

\* How far the tables are, as the place of a worker in its boot tells.
ProgressInv ==
  \A w \in Workers :
    /\ worker[w].pc \in {"connecting", "queued"} => worker[w].statement = 1
    /\ worker[w].pc = "executing" => worker[w].statement <= tables + 1
    /\ worker[w].pc = "waiting" =>
         worker[w].statement = tables + 1 /\ worker[w].statement <= Statements
    /\ worker[w].pc \in {"finishing", "ready"} => tables = Statements

StartupInv == StartupTypeOK /\ LockInv /\ ProgressInv

-----------------------------------------------------------------------------
\* Who waits for one thing less is where it was.
LEMMA ReleasedKeepsPlaces ==
  ASSUME StartupTypeOK, NEW it
  PROVE  /\ Released(worker, it) \in [Workers -> Lifespan]
         /\ \A w \in Workers : /\ Released(worker, it)[w].pc = worker[w].pc
                               /\ Released(worker, it)[w].statement = worker[w].statement
<1> SUFFICES ASSUME NEW w \in Workers
             PROVE  LET released == [worker[w] EXCEPT !.behind = @ \ {it}] IN
                    /\ released \in Lifespan
                    /\ released.pc = worker[w].pc /\ released.statement = worker[w].statement
  BY DEF Released
<1>1. worker[w] \in Lifespan
  BY DEF StartupTypeOK
<1> QED BY <1>1 DEF Lifespan

\* The invariant holds before the first boot.
LEMMA StartupInitInv == StartupInit => StartupInv
BY StartupAssumption
   DEF StartupInit, StartupInv, StartupTypeOK, Lifespan, LockInv, ProgressInv, Setup

\* No step leaves the invariant.
LEMMA StartupStepInv == StartupInv /\ [StartupNext]_startupVars => StartupInv'
<1> SUFFICES ASSUME StartupInv, [StartupNext]_startupVars PROVE StartupInv'
  OBVIOUS
<1> USE StartupAssumption DEF StartupInv
<1>t. /\ \A w \in Workers : /\ worker[w].statement \in 1..Statements + 1
                            /\ worker[w].boots \in 0..MaxBoots
                            /\ worker[w].behind \subseteq Workers \cup Others
      /\ tables \in Nat
      /\ Nobody \notin Workers
  BY DEF StartupTypeOK, Lifespan
<1>1. ASSUME NEW w \in Workers, Boot(w) PROVE StartupInv'
  <2>1. StartupTypeOK'
    BY <1>1 DEF Boot, StartupTypeOK, Lifespan, Booting
  <2>2. LockInv'
    BY <1>1 DEF Boot, LockInv, Setup, StartupTypeOK
  <2>3. ProgressInv'
    BY <1>1 DEF Boot, ProgressInv, LockInv, Setup
  <2> QED BY <2>1, <2>2, <2>3
<1>2. ASSUME NEW w \in Workers, Connect(w) PROVE StartupInv'
  <2>1. StartupTypeOK'
    BY <1>2 DEF Connect, StartupTypeOK, Lifespan, Booting
  <2>2. LockInv'
    BY <1>2 DEF Connect, LockInv, Setup, StartupTypeOK
  <2>3. ProgressInv'
    BY <1>2 DEF Connect, ProgressInv, LockInv, Setup
  <2> QED BY <2>1, <2>2, <2>3
<1>3. ASSUME NEW w \in Workers, Acquire(w) PROVE StartupInv'
  <2>a. Released(worker, w) \in [Workers -> Lifespan]
    BY ReleasedKeepsPlaces
  <2>b. [Released(worker, w)[w] EXCEPT !.pc = "executing"] \in Lifespan
    BY <2>a DEF Lifespan, Booting
  <2>c. worker' \in [Workers -> Lifespan]
    BY <1>3, <2>a, <2>b DEF Acquire
  <2>1. StartupTypeOK'
    BY <1>3, <2>c DEF Acquire, StartupTypeOK
  <2>2. LockInv'
    BY ReleasedKeepsPlaces, <1>3 DEF Acquire, LockInv, Setup
  <2>3. ProgressInv'
    BY ReleasedKeepsPlaces, <1>3 DEF Acquire, ProgressInv, StartupTypeOK
  <2> QED BY <2>1, <2>2, <2>3
<1>4. ASSUME NEW w \in Workers, Execute(w) PROVE StartupInv'
  <2> DEFINE queue == open \cup {v \in Workers : worker[v].pc = "queued"}
  <2>a. worker[w].pc = "executing" /\ worker[w] \in Lifespan /\ queue \subseteq Workers \cup Others
    BY <1>4 DEF Execute, StartupTypeOK
  <2>b. [worker[w] EXCEPT !.pc = "finishing"] \in Lifespan
    BY <2>a DEF Lifespan, Booting
  <2>c. [worker[w] EXCEPT !.pc = "waiting", !.behind = queue] \in Lifespan
    BY <2>a DEF Lifespan, Booting
  <2>d. ASSUME worker[w].statement <= Statements
        PROVE  [worker[w] EXCEPT !.statement = worker[w].statement + 1] \in Lifespan
    <3>1. worker[w].statement + 1 \in 1..Statements + 1
      BY <1>t, <2>d
    <3> QED BY <2>a, <3>1 DEF Lifespan
  <2>e. \/ worker' = [worker EXCEPT ![w] = [worker[w] EXCEPT !.pc = "finishing"]]
        \/ worker' = [worker EXCEPT ![w] = [worker[w] EXCEPT !.pc = "waiting", !.behind = queue]]
        \/ /\ worker[w].statement <= tables
           /\ worker' = [worker EXCEPT ![w] =
                           [worker[w] EXCEPT !.statement = worker[w].statement + 1]]
    BY <1>4 DEF Execute
  <2>g. worker' \in [Workers -> Lifespan]
    BY <1>t, <2>b, <2>c, <2>d, <2>e DEF StartupTypeOK
  <2>1. StartupTypeOK'
    BY <1>4, <2>g DEF Execute, StartupTypeOK
  <2>2. LockInv'
    BY <1>4 DEF Execute, LockInv, Setup, StartupTypeOK
  <2>3. ProgressInv'
    BY <1>4 DEF Execute, ProgressInv, StartupTypeOK, Lifespan
  <2> QED BY <2>1, <2>2, <2>3
<1>5. ASSUME NEW w \in Workers, Complete(w) PROVE StartupInv'
  <2>1. StartupTypeOK'
    BY <1>5 DEF Complete, StartupTypeOK, Lifespan, Booting
  <2>2. LockInv'
    BY <1>5 DEF Complete, LockInv, Setup, StartupTypeOK
  <2>3. ProgressInv'
    BY <1>5 DEF Complete, ProgressInv, LockInv, Setup, StartupTypeOK
  <2> QED BY <2>1, <2>2, <2>3
<1>6. ASSUME NEW w \in Workers, TimeOut(w) PROVE StartupInv'
  <2>1. StartupTypeOK'
    BY <1>6 DEF TimeOut, StartupTypeOK, Lifespan, Booting
  <2>2. LockInv'
    BY <1>6 DEF TimeOut, LockInv, Setup, StartupTypeOK
  <2>3. ProgressInv'
    BY <1>6 DEF TimeOut, ProgressInv, LockInv, StartupTypeOK
  <2> QED BY <2>1, <2>2, <2>3
<1>7. ASSUME NEW w \in Workers, Unlock(w) PROVE StartupInv'
  <2>1. StartupTypeOK'
    BY <1>7 DEF Unlock, StartupTypeOK, Lifespan, Booting
  <2>2. LockInv'
    BY <1>7 DEF Unlock, LockInv, Setup, StartupTypeOK
  <2>3. ProgressInv'
    BY <1>7 DEF Unlock, ProgressInv, LockInv, Setup
  <2> QED BY <2>1, <2>2, <2>3
<1>8. ASSUME NEW w \in Workers, Crash(w) PROVE StartupInv'
  <2>a. Released(worker, w) \in [Workers -> Lifespan]
    BY ReleasedKeepsPlaces
  <2>b. [Released(worker, w)[w] EXCEPT !.pc = "down", !.behind = {}] \in Lifespan
    BY <2>a DEF Lifespan
  <2>c. worker' \in [Workers -> Lifespan]
    BY <1>8, <2>a, <2>b DEF Crash
  <2>1. StartupTypeOK'
    BY <1>8, <2>c DEF Crash, StartupTypeOK
  <2>2. LockInv'
    BY ReleasedKeepsPlaces, <1>8 DEF Crash, LockInv, Setup
  <2>3. ProgressInv'
    BY ReleasedKeepsPlaces, <1>8 DEF Crash, ProgressInv, LockInv
  <2> QED BY <2>1, <2>2, <2>3
<1>9. ASSUME NEW other \in Others, BeginElsewhere(other) PROVE StartupInv'
  <2>1. StartupTypeOK'
    BY <1>9 DEF BeginElsewhere, StartupTypeOK, Lifespan, Booting
  <2>2. LockInv'
    BY <1>9 DEF BeginElsewhere, LockInv, Setup, StartupTypeOK
  <2>3. ProgressInv'
    BY <1>9 DEF BeginElsewhere, ProgressInv, LockInv, Setup
  <2> QED BY <2>1, <2>2, <2>3
<1>10. ASSUME NEW other \in Others, EndElsewhere(other) PROVE StartupInv'
  <2>1. StartupTypeOK'
    BY ReleasedKeepsPlaces, <1>10 DEF EndElsewhere, StartupTypeOK, Lifespan
  <2>2. LockInv'
    BY ReleasedKeepsPlaces, <1>10 DEF EndElsewhere, LockInv, Setup
  <2>3. ProgressInv'
    BY ReleasedKeepsPlaces, <1>10 DEF EndElsewhere, ProgressInv, LockInv
  <2> QED BY <2>1, <2>2, <2>3
<1>11. CASE UNCHANGED startupVars
  <2>1. StartupTypeOK'
    BY <1>11 DEF startupVars, StartupTypeOK, Lifespan, Booting
  <2>2. LockInv'
    BY <1>11 DEF startupVars, LockInv, Setup, StartupTypeOK
  <2>3. ProgressInv'
    BY <1>11 DEF startupVars, ProgressInv, LockInv, Setup
  <2> QED BY <2>1, <2>2, <2>3
<1> QED
  BY <1>1, <1>2, <1>3, <1>4, <1>5, <1>6, <1>7, <1>8, <1>9, <1>10, <1>11
     DEF StartupNext, BootStep

-----------------------------------------------------------------------------
\* The invariant, of which the next two are consequences.
THEOREM StartupInvariance == StartupSpec => []StartupInv
BY StartupInitInv, StartupStepInv, PTL DEF StartupSpec

\* Type correctness of the workers, the lock and the tables.
THEOREM StartupTypeCorrect == StartupSpec => []StartupTypeOK
<1>1. StartupInv => StartupTypeOK
  BY DEF StartupInv
<1> QED BY <1>1, StartupInvariance, PTL

\* However the workers boot, crash, fail and boot again: two never run the setup
\* at the same time, and a worker that serves has all tables.
THEOREM SetupSafe == StartupSpec => []SetupIsSafe
<1>1. StartupInv => SetupIsSafe
  BY DEF StartupInv, LockInv, ProgressInv, Setup, SetupIsSafe, OneSetupAtATime,
         ServingMeansTables
<1> QED BY <1>1, StartupInvariance, PTL

(***************************************************************************)
(* ConnectionPool                                                          *)
(***************************************************************************)
PoolRequest == [pc : Waiting \cup {"idle", "handling", "using", "between",
                                   "answered", "failed"},
                endpoint : Endpoint, own : BOOLEAN, second : BOOLEAN,
                left : 0..MaxUses]

\* A request holds a second connection only while a session of the runner is open,
\* and its own one no longer than its endpoint lets it.
HoldingInv ==
  \A r \in Requests :
    /\ request_of[r].second => request_of[r].pc = "using"
    /\ request_of[r].own =>
         \/ request_of[r].pc = "handling"
         \/ request_of[r].pc \in {"driving", "using", "between"}
            /\ request_of[r].endpoint = "start"
    /\ request_of[r].pc \in {"driving", "using"} => request_of[r].left > 0
    /\ request_of[r].pc = "using" => request_of[r].second

WithOwn == {r \in Requests : request_of[r].own}
WithSecond == {r \in Requests : request_of[r].second}

PoolInv == PoolTypeOK /\ HoldingInv /\ InUse <= Capacity

\* The step of one request leaves the others where they are, and takes one
\* connection at most, from a pool that has one.
LEMMA OneRequestMoves ==
  ASSUME PoolTypeOK, HoldingInv, NEW r \in Requests, Arrive(r) \/ RequestStep(r)
  PROVE  /\ request_of' = [request_of EXCEPT ![r] = request_of'[r]]
         /\ request_of'[r] \in PoolRequest
         /\ \/ /\ request_of'[r].own => request_of[r].own
               /\ request_of'[r].second => request_of[r].second
            \/ Free /\ (request_of'[r].second <=> request_of[r].second)
            \/ Free /\ (request_of'[r].own <=> request_of[r].own)
<1> DEFINE old == request_of[r]
           new == request_of'[r]
<1>1. old \in PoolRequest /\ request_of \in [Requests -> PoolRequest]
  BY DEF PoolTypeOK, PoolRequest
<1>2. ASSUME NEW n \in PoolRequest, request_of' = [request_of EXCEPT ![r] = n]
      PROVE  new = n /\ request_of' = [request_of EXCEPT ![r] = new]
  BY <1>1, <1>2
<1> USE <1>1 DEF PoolRequest, Waiting, Endpoint
<1>3. CASE Arrive(r)
  <2>1. PICK e \in Endpoint, n \in 0..MaxUses :
          request_of' = [request_of EXCEPT ![r] =
            [@ EXCEPT !.pc = "authenticating", !.endpoint = e, !.left = n]]
    BY <1>3 DEF Arrive
  <2> QED BY <2>1, <1>2
<1>4. CASE CheckOut(r)
  BY <1>4, <1>2 DEF CheckOut
<1>5. CASE Handle(r)
  BY <1>5, <1>2 DEF Handle
<1>6. CASE OpenSession(r)
  BY <1>6, <1>2 DEF OpenSession
<1>7. CASE CloseSession(r)
  BY <1>7, <1>2, PoolAssumption DEF CloseSession, HoldingInv
<1>8. CASE Proceed(r)
  BY <1>8, <1>2 DEF Proceed
<1>9. CASE GiveUp(r)
  BY <1>9, <1>2 DEF GiveUp
<1> QED BY <1>3, <1>4, <1>5, <1>6, <1>7, <1>8, <1>9 DEF RequestStep

\* What a request holds follows its endpoint.
LEMMA HoldingStep == PoolTypeOK /\ HoldingInv /\ [PoolNext]_poolVars => HoldingInv'
<1> SUFFICES ASSUME PoolTypeOK, HoldingInv, [PoolNext]_poolVars PROVE HoldingInv'
  OBVIOUS
<1>1. CASE UNCHANGED poolVars
  BY <1>1 DEF HoldingInv, poolVars
<1>2. ASSUME NEW r \in Requests, Arrive(r) \/ RequestStep(r) PROVE HoldingInv'
  <2>1. \A q \in Requests \ {r} : request_of'[q] = request_of[q]
    BY <1>2, OneRequestMoves DEF PoolTypeOK
  <2> SUFFICES /\ request_of'[r].second => request_of'[r].pc = "using"
               /\ request_of'[r].own =>
                    \/ request_of'[r].pc = "handling"
                    \/ request_of'[r].pc \in {"driving", "using", "between"}
                       /\ request_of'[r].endpoint = "start"
               /\ request_of'[r].pc \in {"driving", "using"} => request_of'[r].left > 0
               /\ request_of'[r].pc = "using" => request_of'[r].second
    BY <2>1 DEF HoldingInv
  <2> USE DEF PoolTypeOK, HoldingInv, Waiting
  <2>2. CASE Arrive(r)
    BY <2>2 DEF Arrive
  <2>3. CASE CheckOut(r)
    BY <2>3 DEF CheckOut
  <2>4. CASE Handle(r)
    BY <2>4 DEF Handle
  <2>5. CASE OpenSession(r)
    BY <2>5 DEF OpenSession
  <2>6. CASE CloseSession(r)
    BY <2>6 DEF CloseSession
  <2>7. CASE Proceed(r)
    BY <2>7 DEF Proceed
  <2>8. CASE GiveUp(r)
    BY <2>8 DEF GiveUp
  <2> QED BY <1>2, <2>2, <2>3, <2>4, <2>5, <2>6, <2>7, <2>8 DEF RequestStep
<1> QED BY <1>1, <1>2 DEF PoolNext

\* One element more or less.
LEMMA OneMoreOrLess ==
  ASSUME NEW S, NEW r, IsFiniteSet(S), NEW in \in BOOLEAN,
         NEW T, T = IF in THEN S \cup {r} ELSE S \ {r}
  PROVE  /\ IsFiniteSet(T) /\ Cardinality(S) \in Nat /\ Cardinality(T) \in Nat
         /\ Cardinality(T) <= Cardinality(S) + 1
         /\ (in => r \in S) => Cardinality(T) <= Cardinality(S)
<1>1. Cardinality(S) \in Nat
  BY FS_CardinalityType
<1>2. CASE in
  BY <1>1, <1>2, FS_AddElement
<1>3. CASE ~in
  <2>1. /\ IsFiniteSet(T)
        /\ Cardinality(T) = IF r \in S THEN Cardinality(S) - 1 ELSE Cardinality(S)
    BY <1>3, FS_RemoveElement
  <2>2. Cardinality(T) \in Nat
    BY <2>1, FS_CardinalityType
  <2> QED BY <1>1, <2>1, <2>2, <1>3
<1> QED BY <1>2, <1>3

\* The pool lends no more than it has.
LEMMA CapacityStep == PoolInv /\ [PoolNext]_poolVars => (PoolTypeOK /\ InUse <= Capacity)'
<1> SUFFICES ASSUME PoolInv, [PoolNext]_poolVars PROVE (PoolTypeOK /\ InUse <= Capacity)'
  OBVIOUS
<1>1. CASE UNCHANGED poolVars
  BY <1>1 DEF PoolInv, PoolTypeOK, InUse, poolVars
<1>2. ASSUME NEW r \in Requests, Arrive(r) \/ RequestStep(r)
      PROVE  (PoolTypeOK /\ InUse <= Capacity)'
  <2>1. /\ request_of' = [request_of EXCEPT ![r] = request_of'[r]]
        /\ request_of'[r] \in PoolRequest
        /\ \/ /\ request_of'[r].own => request_of[r].own
              /\ request_of'[r].second => request_of[r].second
           \/ Free /\ (request_of'[r].second <=> request_of[r].second)
           \/ Free /\ (request_of'[r].own <=> request_of[r].own)
    BY <1>2, OneRequestMoves DEF PoolInv
  <2>2. request_of \in [Requests -> PoolRequest]
    BY DEF PoolInv, PoolTypeOK, PoolRequest
  <2>3. PoolTypeOK'
    BY <2>1, <2>2 DEF PoolTypeOK, PoolRequest
  <2>4. /\ WithOwn' = IF request_of'[r].own THEN WithOwn \cup {r} ELSE WithOwn \ {r}
        /\ WithSecond' = IF request_of'[r].second THEN WithSecond \cup {r}
                                                  ELSE WithSecond \ {r}
    BY <2>1, <2>2 DEF WithOwn, WithSecond
  <2>5. IsFiniteSet(WithOwn) /\ IsFiniteSet(WithSecond)
    BY PoolAssumption, FS_Subset DEF WithOwn, WithSecond
  <2>6. /\ request_of[r].own <=> r \in WithOwn
        /\ request_of[r].second <=> r \in WithSecond
        /\ request_of'[r].own \in BOOLEAN /\ request_of'[r].second \in BOOLEAN
    BY <2>1 DEF WithOwn, WithSecond, PoolRequest
  <2>7. /\ Cardinality(WithOwn) \in Nat /\ Cardinality(WithOwn') \in Nat
        /\ Cardinality(WithOwn') <= Cardinality(WithOwn) + 1
        /\ (request_of'[r].own => r \in WithOwn) =>
             Cardinality(WithOwn') <= Cardinality(WithOwn)
    BY <2>4, <2>5, <2>6, OneMoreOrLess
  <2>8. /\ Cardinality(WithSecond) \in Nat /\ Cardinality(WithSecond') \in Nat
        /\ Cardinality(WithSecond') <= Cardinality(WithSecond) + 1
        /\ (request_of'[r].second => r \in WithSecond) =>
             Cardinality(WithSecond') <= Cardinality(WithSecond)
    BY <2>4, <2>5, <2>6, OneMoreOrLess
  <2>9. /\ InUse = Cardinality(WithOwn) + Cardinality(WithSecond)
        /\ InUse' = Cardinality(WithOwn') + Cardinality(WithSecond')
    BY DEF InUse, WithOwn, WithSecond
  <2>10. InUse <= Capacity /\ (Free <=> InUse < Capacity)
    BY DEF PoolInv, Free
  <2>11. CASE /\ request_of'[r].own => request_of[r].own
              /\ request_of'[r].second => request_of[r].second
    BY <2>3, <2>6, <2>7, <2>8, <2>9, <2>10, <2>11, PoolAssumption
  <2>12. CASE Free /\ (request_of'[r].second <=> request_of[r].second)
    BY <2>3, <2>6, <2>7, <2>8, <2>9, <2>10, <2>12, PoolAssumption
  <2>13. CASE Free /\ (request_of'[r].own <=> request_of[r].own)
    BY <2>3, <2>6, <2>7, <2>8, <2>9, <2>10, <2>13, PoolAssumption
  <2> QED BY <2>1, <2>11, <2>12, <2>13
<1> QED BY <1>1, <1>2 DEF PoolNext

\* The pool begins with nothing lent.
LEMMA PoolInitInv == PoolInit => PoolInv
<1> SUFFICES ASSUME PoolInit PROVE PoolInv
  OBVIOUS
<1>1. PoolTypeOK /\ HoldingInv
  BY PoolAssumption DEF PoolInit, PoolTypeOK, HoldingInv, Waiting, Endpoint
<1>2. {r \in Requests : request_of[r].own} = {} /\ {r \in Requests : request_of[r].second} = {}
  BY DEF PoolInit
<1>3. InUse = 0
  <2>1. Cardinality({}) = 0
    BY FS_EmptySet
  <2> QED BY <1>2, <2>1 DEF InUse
<1> QED BY <1>1, <1>3, PoolAssumption DEF PoolInv

\* What holds a connection and waits is a start, so a pool that is full of what
\* waits is full of starts.
LEMMA FullOfStarts == PoolInv => OnlyStartsHoldAndWait
<1> SUFFICES ASSUME PoolInv, ~Free,
                    \A r \in Requests : Holds(r) => request_of[r].pc \in Waiting
             PROVE  Cardinality({r \in Requests : /\ request_of[r].own
                                                  /\ request_of[r].endpoint = "start"})
                      = Capacity
  BY DEF PoolInv, OnlyStartsHoldAndWait
<1>1. {r \in Requests : request_of[r].second} = {}
  BY DEF PoolInv, HoldingInv, Holds, Waiting
<1>2. {r \in Requests : request_of[r].own /\ request_of[r].endpoint = "start"}
        = {r \in Requests : request_of[r].own}
  BY DEF PoolInv, HoldingInv, Holds, Waiting
<1>3. Cardinality({r \in Requests : request_of[r].own}) \in Nat
  BY PoolAssumption, FS_Subset, FS_CardinalityType
<1>4. Cardinality({r \in Requests : request_of[r].own}) = Capacity
  BY <1>1, <1>3, FS_EmptySet, PoolAssumption DEF PoolInv, InUse, Free
<1> QED BY <1>2, <1>4

\* The requests keep the invariant, however many there are and however small the
\* pool is.
THEOREM PoolInvariance == PoolSpec => []PoolInv
<1>1. PoolInv /\ [PoolNext]_poolVars => PoolInv'
  BY HoldingStep, CapacityStep DEF PoolInv
<1> QED BY PoolInitInv, <1>1, PTL DEF PoolSpec

\* The pool never lends more than it has, and only requests that start a run wait
\* for a connection while they hold one (get_session, WorkflowRunner).
THEOREM StartsHoldAndWait == PoolSpec => []OnlyStartsHoldAndWait
BY FullOfStarts, PoolInvariance, PTL

(***************************************************************************)
(* The service                                                             *)
(***************************************************************************)
ApiInv == TraceInv /\ CredInv /\ StartupInv /\ PoolInv

\* The parts share nothing: a step of the service is one of each part or nothing.
LEMMA PartsApart ==
  [ApiNext]_allVars =>
    /\ [TraceNext]_traceVars /\ [CredNext]_credVars
    /\ [StartupNext]_startupVars /\ [PoolNext]_poolVars
BY DEF ApiNext, InTrace, InCred, InStartup, InPool, allVars

\* The API service with all of its parts: none of them ever leaves its types, or
\* what they keep true of each row (runner.py, tokens.py, main.py, engine.py).
THEOREM ServiceTyped == ApiSpec => []ApiTypeOK
<1>1. ApiInit => ApiInv
  BY InitInv, CredInitInv, StartupInitInv, PoolInitInv DEF ApiInit, ApiInv
<1>2. ApiInv /\ [ApiNext]_allVars => ApiInv'
  <2>1. ApiInv /\ [ApiNext]_allVars => TraceInv'
    BY PartsApart, StepInv DEF ApiInv
  <2>2. ApiInv /\ [ApiNext]_allVars => CredInv'
    BY PartsApart, CredStepInv DEF ApiInv
  <2>3. ApiInv /\ [ApiNext]_allVars => StartupInv'
    BY PartsApart, StartupStepInv DEF ApiInv
  <2>4. ApiInv /\ [ApiNext]_allVars => PoolInv'
    BY PartsApart, HoldingStep, CapacityStep DEF ApiInv, PoolInv
  <2> QED BY <2>1, <2>2, <2>3, <2>4 DEF ApiInv
<1>3. ApiInv => ApiTypeOK
  BY DEF ApiInv, TraceInv, CredInv, StartupInv, PoolInv, ApiTypeOK
<1> QED BY <1>1, <1>2, <1>3, PTL DEF ApiSpec
=============================================================================
