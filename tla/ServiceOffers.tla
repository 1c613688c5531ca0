---------------------------- MODULE ServiceOffers ----------------------------
(***************************************************************************)
(* What is offered, by every surface that offers it: the prices of the     *)
(* services, the two servers agents call them through, and the terms       *)
(* Nevermined holds of them.  None keeps a state: a behaviour asks one of  *)
(* them one question.                                                      *)
(***************************************************************************)
EXTENDS Integers, Sequences, FiniteSets

CONSTANT CreditAmounts
ASSUME OfferAssumption == CreditAmounts \subseteq Nat

VARIABLES
  part,      \* the component that is asked, or moves
  question   \* what a component without state is asked

Surfaces == INSTANCE PriceSurfaces
Agents   == INSTANCE AgentSurfaces
Terms    == INSTANCE PlanTerms

\* A configuration of the routes; a call of an agent; a plan, whatever it
\* is, an answer to a settlement, the credits that are expected of a use, or
\* what audits found.
OffersInit ==
  \/ part = "prices" /\ question \in Surfaces!Configs
  \/ part = "agents" /\ question \in Agents!Calls
  \/ part = "plans" /\ \/ question[1] = "plan"
                       \/ question[1] = "settlement" /\ question[2] \in Terms!Settlements
                       \/ question[1] = "use" /\ question[2] \in Terms!Expected
                       \/ question[1] = "audit" /\ question[2] \in Seq(Terms!Found)

\* A question is not changed.
OffersSpec == OffersInit /\ [][FALSE]_<<part, question>>

-----------------------------------------------------------------------------
\* Requests that have up to two things wrong.
Dresses == {d \in Agents!Dress : Cardinality({k \in DOMAIN d : d[k] # Agents!Plain[k]}) <= 2}

\* A plan that passes sells one service and pays for its use; a settlement,
\* the evidence of one and a complete registration are what they say.
TermsHold ==
  /\ question[1] = "plan" =>
       Terms!BoundToItsQuote /\ Terms!PlansSellOneService(question[2]) /\ Terms!CreditsPayForUse(question[2])
  /\ question[1] = "settlement" => Terms!SettlementsCount(question[2])
  /\ question[1] = "use" => \A e \in Terms!Evidence : Terms!EvidenceBalances(e, question[2])
  /\ question[1] = "audit" => Terms!CompleteIsRegistered(question[2])

\* What one surface says is what another does: the prices of a service
\* wherever they can be read, the two servers for agents, and the terms a
\* payment provider holds.
SurfacesAgree ==
  /\ part = "prices" => Surfaces!PricesAgree(question)
  /\ part = "agents" => \A dress \in Dresses, boundary \in Agents!Boundaries : Agents!AgentsAreServed(question, dress, boundary)
  /\ part = "plans" => TermsHold

=============================================================================
