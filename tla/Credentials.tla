---------------------------- MODULE Credentials ----------------------------
(***************************************************************************)
(* API tokens: issued and revoked by an operator's command (cli.py,        *)
(* security/issuance.py), presented by requests (security/principal.py,    *)
(* security/tokens.py), and refused by role (endpoint_authority.py).       *)
(*                                                                         *)
(* Each request has a session of its own.  Its token is one SELECT, the    *)
(* token's user with the roles are later ones, and everything the request  *)
(* decides afterwards is decided on those rows.  SQLAlchemy writes only    *)
(* the columns that changed.  A presented token stands for its hash.       *)
(***************************************************************************)
EXTENDS Naturals

CONSTANTS
  Users, Tokens,
  Callers,     \* API requests
  Operators,   \* revoke-token commands
  Never,       \* NULL in a column of dates
  LastDay      \* bound: the days that pass

ASSUME CredentialAssumption == LastDay \in Nat /\ Never \notin Nat /\ Tokens # {}

VARIABLES
  today,
  user,      \* the users table with each user's role
  token,     \* the api_tokens table; Never: not issued yet
  call,      \* the API requests
  command    \* the revoke-token commands

credVars == <<today, user, token, call, command>>

Day == 0..LastDay
DayOrNever == Day \cup {Never}
RoleHeld == {"operator", "approver", "viewer"}
Action == {"start_workflow", "read_workflow", "decide_approval"}

-----------------------------------------------------------------------------
(* Policies.                                                               *)

\* ENDPOINT_MATRIX; finance_approver is allowed what approver is
AllowedRoles(action) ==
  CASE action = "start_workflow"  -> {"operator"}
    [] action = "read_workflow"   -> {"operator", "approver", "viewer"}
    [] action = "decide_approval" -> {"approver"}

\* Mutant: a token is good until the end of its last day.
ExpiresAfter(row, now) == row.expires # Never /\ row.expires < now

\* check_validity: expires_at <= now
Expired(row, now) == row.expires # Never /\ row.expires <= now

Valid(row, active, now) == row.revoked = Never /\ ~Expired(row, now) /\ active

-----------------------------------------------------------------------------
TokenRow == [user : Users, issued : Day, expires : Nat \cup {Never},
             revoked : DayOrNever, used : DayOrNever]

\* NULL is not a row.
ASSUME NeverAssumption == Never \notin TokenRow

Call == [pc : {"idle", "found", "refused", "forbidden", "admitted", "done"},
         token : Tokens, action : Action,
         row : TokenRow \cup {Never}, now : Day,
         withdrawn : BOOLEAN]   \* history: no good when presented, nor since

\* Types; a token with a lifetime has one of at least a day.
CredTypeOK ==
  /\ today \in Day
  /\ user \in [Users -> [active : BOOLEAN, role : RoleHeld]]
  /\ token \in [Tokens -> TokenRow \cup {Never}]
  /\ \A t \in Tokens : (token[t] # Never /\ token[t].expires # Never)
                         => token[t].issued < token[t].expires
  /\ call \in [Callers -> Call]
  /\ command \in [Operators -> [pc : {"idle", "found", "done"}, token : Tokens,
                                at : Day]]

CredInit ==
  /\ today = 0
  /\ user = [u \in Users |-> [active |-> TRUE, role |-> "approver"]]
  /\ token = [t \in Tokens |-> Never]
  /\ call = [c \in Callers |->
       [pc |-> "idle", token |-> CHOOSE t \in Tokens : TRUE,
        action |-> "read_workflow", row |-> Never, now |-> 0, withdrawn |-> FALSE]]
  /\ command = [o \in Operators |->
       [pc |-> "idle", token |-> CHOOSE t \in Tokens : TRUE, at |-> 0]]

-----------------------------------------------------------------------------
(* The operator's commands.                                                *)

\* Mutant: a lifetime of zero days is taken literally.
IssueLiterally(t) ==
  /\ token[t] = Never
  /\ \E u \in Users, days \in {0, 1} :
       /\ user[u].active
       /\ token' = [token EXCEPT ![t] =
            [user |-> u, issued |-> today, revoked |-> Never, used |-> Never,
             expires |-> today + days]]
  /\ UNCHANGED <<today, user, call, command>>

\* issue-token: refused for a user who is not active; 0 days never expires
Issue(t) ==
  /\ token[t] = Never
  /\ \E u \in Users, days \in {0, 1} :
       /\ user[u].active
       /\ token' = [token EXCEPT ![t] =
            [user |-> u, issued |-> today, revoked |-> Never, used |-> Never,
             expires |-> IF days = 0 THEN Never ELSE today + days]]
  /\ UNCHANGED <<today, user, call, command>>

\* revoke-token finds the row, and stops if it is revoked already
FindToRevoke(o) ==
  /\ command[o].pc = "idle"
  /\ \E t \in Tokens :
       /\ token[t] # Never
       /\ command' = [command EXCEPT ![o] =
            [pc |-> IF token[t].revoked = Never THEN "found" ELSE "done",
             token |-> t, at |-> today]]
  /\ UNCHANGED <<today, user, token, call>>

\* ... stamps it with the time it has in hand, and commits
Revoke(o) ==
  /\ command[o].pc = "found"
  /\ token' = [token EXCEPT ![command[o].token].revoked = command[o].at]
  /\ command' = [command EXCEPT ![o].pc = "done"]
  /\ UNCHANGED <<today, user, call>>

-----------------------------------------------------------------------------
(* A request.                                                              *)

\* The session of a request that is answered is closed.
Over(c, how) == [call[c] EXCEPT !.pc = how, !.row = Never, !.now = 0,
                                !.action = "read_workflow"]

\* get_principal finds the token by its hash.
Present(c) ==
  /\ call[c].pc = "idle"
  /\ \E t \in Tokens, a \in Action :
       LET row == token[t] IN
       call' = [call EXCEPT ![c] =
         IF row = Never THEN Over(c, "refused")
         ELSE [pc |-> "found", token |-> t, action |-> a, row |-> row, now |-> 0,
               withdrawn |-> ~Valid(row, user[row.user].active, today)]]
  /\ UNCHANGED <<today, user, token, command>>

\* Mutant: the role is checked before the person.
AdmitByRole(c) ==
  /\ call[c].pc = "found"
  /\ LET row == call[c].row IN
     call' = [call EXCEPT ![c] =
       IF user[row.user].role \notin AllowedRoles(call[c].action) THEN Over(c, "forbidden")
       ELSE IF row.revoked # Never \/ Expired(row, today) THEN Over(c, "refused")
       ELSE [@ EXCEPT !.pc = "admitted", !.now = today]]
  /\ UNCHANGED <<today, user, token, command>>

\* The user and the roles are loaded, the clock is read, check_validity and the
\* endpoint's policy decide: 401, 403 or the handler.
Admit(c) ==
  /\ call[c].pc = "found"
  /\ LET row == call[c].row IN
     call' = [call EXCEPT ![c] =
       IF ~Valid(row, user[row.user].active, today) THEN Over(c, "refused")
       ELSE IF user[row.user].role \notin AllowedRoles(call[c].action)
         THEN Over(c, "forbidden")
       ELSE [@ EXCEPT !.pc = "admitted", !.now = today]]
  /\ UNCHANGED <<today, user, token, command>>

\* Mutant: the handler writes back the whole row it has.
FinishWritingRow(c) ==
  /\ call[c].pc = "admitted"
  /\ \/ UNCHANGED token
     \/ /\ call[c].action = "decide_approval"
        /\ token' = [token EXCEPT ![call[c].token] =
                       [call[c].row EXCEPT !.used = call[c].now]]
  /\ call' = [call EXCEPT ![c] = Over(c, "done")]
  /\ UNCHANGED <<today, user, command>>

\* Only a recorded decision commits the request's session, and with it
\* last_used_at; the other sessions are closed, which forgets it.
Finish(c) ==
  /\ call[c].pc = "admitted"
  /\ \/ UNCHANGED token
     \/ /\ call[c].action = "decide_approval"
        /\ token' = [token EXCEPT ![call[c].token].used = call[c].now]
  /\ call' = [call EXCEPT ![c] = Over(c, "done")]
  /\ UNCHANGED <<today, user, command>>

-----------------------------------------------------------------------------
(* Others.                                                                 *)

Midnight ==
  /\ today < LastDay
  /\ today' = today + 1
  /\ UNCHANGED <<user, token, call, command>>

\* Users are deactivated and given other roles in the database.
Deactivate(u) ==
  /\ user[u].active
  /\ user' = [user EXCEPT ![u].active = FALSE]
  /\ UNCHANGED <<today, token, call, command>>

\* `custops seed` activates its users again and gives them their roles, when it
\* is run once more; what is in hand is withdrawn no longer, if that was all.
Reactivate(u) ==
  /\ ~user[u].active
  /\ \E role \in RoleHeld : user' = [user EXCEPT ![u] = [active |-> TRUE, role |-> role]]
  /\ call' = [c \in Callers |->
       IF call[c].pc = "found" /\ call[c].row.user = u
         THEN [call[c] EXCEPT !.withdrawn = @ /\ ~Valid(call[c].row, TRUE, today)]
         ELSE call[c]]
  /\ UNCHANGED <<today, token, command>>

ChangeRole(u) ==
  /\ \E role \in RoleHeld \ {user[u].role} : user' = [user EXCEPT ![u].role = role]
  /\ UNCHANGED <<today, token, call, command>>

CredNext ==
  \/ \E t \in Tokens : Issue(t)
  \/ \E o \in Operators : FindToRevoke(o) \/ Revoke(o)
  \/ \E c \in Callers : Present(c) \/ Admit(c) \/ Finish(c)
  \/ Midnight
  \/ \E u \in Users : Deactivate(u) \/ Reactivate(u) \/ ChangeRole(u)

CredSpec == CredInit /\ [][CredNext]_credVars

-----------------------------------------------------------------------------
(* Properties                                                              *)

\* A token that was no good when it was presented and has not come to be good
\* since never reaches a handler, whatever commits after that.  A revocation and
\* the end of a lifetime are for good; only a user can be active again, between
\* the SELECT of the token and the load of its user.
WithdrawnIsRefused ==
  \A c \in Callers : call[c].withdrawn => call[c].pc \notin {"admitted", "done"}

\* No step takes a revocation back, although handlers that loaded the row
\* before it write the row after it.
RevocationIsFinal ==
  [][\A t \in Tokens :
       (token[t] # Never /\ token[t].revoked # Never) => token'[t].revoked # Never]_credVars

\* last_used_at is within the lifetime of the token: not before it was issued,
\* and before the moment it expires.
UsedInItsLifetime ==
  \A t \in Tokens :
    (token[t] # Never /\ token[t].used # Never) =>
      /\ token[t].issued <= token[t].used
      /\ token[t].expires # Never => token[t].used < token[t].expires

\* A token opens nothing while it is withdrawn, nor outside of its lifetime.
TokensAreUsedInTime == WithdrawnIsRefused /\ UsedInItsLifetime
=============================================================================
