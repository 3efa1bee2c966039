---------------------------- MODULE ApiServiceMC ----------------------------
(***************************************************************************)
(* Four independent parts of the API service, checked in one run: a        *)
(* behaviour exercises one of them while the others stay where they begin. *)
(* The parts share no variable, so each has exactly the behaviours of its  *)
(* own specification.                                                      *)
(***************************************************************************)
EXTENDS RunTrace, Credentials, ApiStartup, ConnectionPool

VARIABLE part

allVars == <<part, traceVars, credVars, startupVars, poolVars>>

InTrace   == part = "trace"   /\ UNCHANGED <<part, credVars, startupVars, poolVars>>
InCred    == part = "cred"    /\ UNCHANGED <<part, traceVars, startupVars, poolVars>>
InStartup == part = "startup" /\ UNCHANGED <<part, traceVars, credVars, poolVars>>
InPool    == part = "pool"    /\ UNCHANGED <<part, traceVars, credVars, startupVars>>

ApiInit ==
  /\ part \in {"trace", "cred", "startup", "pool"}
  /\ TraceInit /\ CredInit /\ StartupInit /\ PoolInit

ApiNext ==
  \/ InTrace /\ TraceNext
  \/ InCred /\ CredNext
  \/ InStartup /\ StartupNext
  \/ InPool /\ PoolNext

\* The fairness of each part, in the behaviours that exercise it
ApiSpec ==
  /\ ApiInit /\ [][ApiNext]_allVars
  /\ \A d \in Drivers : WF_allVars(InTrace /\ DriverStep(d))
  /\ \A w \in Workers : SF_allVars(InStartup /\ BootStep(w))
  /\ \A r \in Requests : WF_allVars(InPool /\ RequestStep(r))

-----------------------------------------------------------------------------
(* Properties of all parts                                                 *)

\* The types of the four parts, and what they keep true of each row.
ApiTypeOK == TraceTypeOK /\ CredTypeOK /\ StartupTypeOK /\ PoolTypeOK

\* Drivers, boots and requests all end, whatever they wait for: a decision, the
\* advisory lock, another transaction, a connection.
ApiComesToRest == DriversEnd /\ EveryBootEnds /\ EveryRequestEnds
=============================================================================
