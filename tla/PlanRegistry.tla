---------------------------- MODULE PlanRegistry ----------------------------
(***************************************************************************)
(* The registration of a service at Nevermined: a harness looks whether    *)
(* its agent and its plan are there (registry-reconciliation.ts),          *)
(* registers them if they are not, and looks again.  The registry answers  *)
(* late, its reads fail, and a harness may be stopped and run again.       *)
(***************************************************************************)
EXTENDS Integers, Sequences, FiniteSets

CONSTANTS
  Attempts,    \* the length of the backoff schedule
  MaxPairs,    \* registrations the registry takes
  MaxHarnessRuns      \* runs of the harness

ASSUME ScheduleAssumption == Attempts \in Nat \ {0} /\ MaxPairs \in Nat /\ MaxHarnessRuns \in Nat

VARIABLES
  calm,        \* no read fails, and what is registered shows at once
  agents,      \* the agents of the name, in the registry
  plans,       \* and the plans
  links,       \* the agents that are linked with the plan of their number
  shown,       \* what of all this the reads of the registry show
  pc,          \* where the harness is
  attempt,     \* of the reconciliation
  known,       \* the number of the pair that it has registered, or 0
  foundAgents, \* by the listing of this attempt
  foundPlans,
  accepted,    \* the pair the harness reports, or 0
  started      \* the runs so far

registryVars == <<calm, agents, plans, links, shown, pc, attempt, known, foundAgents, foundPlans, accepted, started>>

Numbers == 1..MaxPairs
Things  == {"agent", "plan", "link"} \X Numbers

RegistryInit ==
  /\ calm \in BOOLEAN
  /\ agents = {} /\ plans = {} /\ links = {} /\ shown = {}
  /\ pc = "idle" /\ attempt = 0 /\ known = 0 /\ foundAgents = {} /\ foundPlans = {}
  /\ accepted = 0 /\ started = 0

-----------------------------------------------------------------------------
(* The registry.  *)

\* Something that was registered shows in the reads, some time later.
Show ==
  /\ ~calm
  /\ \E t \in ({"agent"} \X agents) \cup ({"plan"} \X plans) \cup ({"link"} \X links) :
       t \notin shown /\ shown' = shown \cup {t}
  /\ UNCHANGED <<calm, agents, plans, links, pc, attempt, known, foundAgents, foundPlans, accepted, started>>

\* What a read gives if it does not fail, and what it may give.
Reads(kind) ==
  IF calm THEN (CASE kind = "agent" -> agents [] kind = "plan" -> plans [] kind = "link" -> links)
  ELSE {n \in Numbers : <<kind, n>> \in shown}
RegistryAnswers(kind) == {Reads(kind)} \cup IF calm THEN {} ELSE {{}}

-----------------------------------------------------------------------------
(* The harness.  A read that fails reads nothing.  *)

Start ==
  /\ pc = "idle" /\ started < MaxHarnessRuns
  /\ pc' = "known" /\ started' = started + 1 /\ attempt' = 1 /\ known' = 0 /\ accepted' = 0
  /\ foundAgents' = {} /\ foundPlans' = {}
  /\ UNCHANGED <<calm, agents, plans, links, shown>>

\* The pair it knows, by its ids: there, and linked, or go on to the lists.
\* The three reads of the code see no less one after the other.
ReadKnown ==
  /\ pc = "known"
  /\ \E a \in RegistryAnswers("agent"), p \in RegistryAnswers("plan"), l \in RegistryAnswers("link") :
       IF known \in a \cap p \cap l THEN accepted' = known /\ pc' = "existing"
       ELSE pc' = "agents" /\ UNCHANGED accepted
  /\ UNCHANGED <<calm, agents, plans, links, shown, attempt, known, foundAgents, foundPlans, started>>

ListAgents ==
  /\ pc = "agents"
  /\ foundAgents' \in RegistryAnswers("agent")
  /\ pc' = "plans"
  /\ UNCHANGED <<calm, agents, plans, links, shown, attempt, known, foundPlans, accepted, started>>

ListPlans ==
  /\ pc = "plans"
  /\ foundPlans' \in RegistryAnswers("plan")
  /\ pc' = "decide"
  /\ UNCHANGED <<calm, agents, plans, links, shown, attempt, known, foundAgents, accepted, started>>

Last == attempt = Attempts
Again ==
  /\ pc' = IF Last THEN "timeout" ELSE "known"
  /\ attempt' = IF Last THEN attempt ELSE attempt + 1

\* A mutant of Absent: an agent without a plan counts as nothing.
AbsentPair ==
  /\ foundAgents = {} \/ foundPlans = {}
  /\ IF Last THEN pc' = "absent" /\ UNCHANGED attempt ELSE Again
  /\ UNCHANGED accepted

\* Nothing of the name in this attempt: absent, if it is the last.
Absent ==
  /\ foundAgents = {} /\ foundPlans = {}
  /\ IF Last THEN pc' = "absent" /\ UNCHANGED attempt ELSE Again
  /\ UNCHANGED accepted

\* One of each: is the link there?
Pair ==
  /\ Cardinality(foundAgents) = 1 /\ Cardinality(foundPlans) = 1
  /\ \E linked \in RegistryAnswers("link") :
       IF foundAgents = foundPlans /\ foundAgents \subseteq linked
       THEN pc' = "existing" /\ accepted' \in foundAgents /\ UNCHANGED attempt
       ELSE Again /\ UNCHANGED accepted

\* More than one, or one without the other.
Unclear ==
  /\ Cardinality(foundAgents) > 1 \/ Cardinality(foundPlans) > 1 \/ Cardinality(foundAgents) # Cardinality(foundPlans)
  /\ pc' = "unclear" /\ UNCHANGED <<attempt, accepted>>

Decide ==
  /\ pc = "decide" /\ (Absent \/ Pair \/ Unclear)
  /\ UNCHANGED <<calm, agents, plans, links, shown, known, foundAgents, foundPlans, started>>

\* Registered once in a run, and looked for again; it may break off with
\* the agent alone.
Register ==
  /\ pc = "absent" /\ known = 0 /\ Cardinality(agents) < MaxPairs
  /\ LET n == Cardinality(agents) + 1 IN
       /\ agents' = agents \cup {n}
       /\ \/ /\ plans' = plans \cup {n} /\ links' = links \cup {n} /\ known' = n
             /\ pc' = "known" /\ attempt' = 1
          \/ pc' = "refused" /\ UNCHANGED <<plans, links, known, attempt>>
  /\ UNCHANGED <<calm, shown, foundAgents, foundPlans, accepted, started>>

\* Anything else that is not a pair is refused.
RefuseRest ==
  /\ pc \in {"unclear", "timeout"} \/ (pc = "absent" /\ known # 0)
  /\ pc' = "refused"
  /\ UNCHANGED <<calm, agents, plans, links, shown, attempt, known, foundAgents, foundPlans, accepted, started>>

\* The harness ends, or is stopped anywhere.
Stop ==
  /\ pc # "idle" /\ pc' = "idle"
  /\ UNCHANGED <<calm, agents, plans, links, shown, attempt, known, foundAgents, foundPlans, accepted, started>>

RegistryNext == Show \/ Start \/ ReadKnown \/ ListAgents \/ ListPlans \/ Decide \/ Register \/ RefuseRest \/ Stop

RegistrySpec == RegistryInit /\ [][RegistryNext]_registryVars

-----------------------------------------------------------------------------
RegistryTypeOK ==
  /\ agents \subseteq Numbers /\ plans \subseteq agents /\ links \subseteq plans /\ shown \subseteq Things
  /\ pc \in {"idle", "known", "agents", "plans", "decide", "absent", "unclear", "timeout", "existing", "refused"}
  /\ attempt \in 0..Attempts /\ known \in 0..MaxPairs /\ foundAgents \subseteq agents /\ foundPlans \subseteq plans
  /\ accepted \in 0..MaxPairs /\ started \in 0..MaxHarnessRuns /\ calm \in BOOLEAN

\* What the harness reports is a pair that was registered together and has
\* been seen linked: never the agent of one registration with the plan of
\* another, however many there are.
ReportsOnePair == pc = "existing" => accepted \in links

\* While the registry answers and is up to date, a name is registered once,
\* wherever the harness is stopped and however often it is run again, also
\* where a registration has left an agent without a plan.
RegisteredOnce == (calm => Cardinality(agents) <= 1) /\ ReportsOnePair

=============================================================================
