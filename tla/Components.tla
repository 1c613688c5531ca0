------------------------------ MODULE Components ------------------------------
(***************************************************************************)
(* The jobs and the service runtime together.  They share no state and no  *)
(* step in the code, so one behaviour is one component's: part says whose, *)
(* and the other rests at an initial state.                                *)
(***************************************************************************)
EXTENDS JobQueue, ServiceVerification

VARIABLE part   \* the component that moves

JobsMove     == part = "jobs" /\ Next /\ UNCHANGED <<part, serviceVars>>
ServiceMoves == part = "services" /\ ServiceNext /\ UNCHANGED <<part, vars>>

ComponentsInit ==
  /\ part \in {"jobs", "services"}
  /\ Init
  /\ ServiceInit /\ (part = "jobs" => key = "active")

ComponentsNext == JobsMove \/ ServiceMoves

ComponentsSpec == ComponentsInit /\ [][ComponentsNext]_<<part, vars, serviceVars>>

\* Each keeps to its own values.
TypesOK == TypeOK /\ ServiceTypeOK

=============================================================================
