------------------------------ MODULE PlanTerms ------------------------------
(***************************************************************************)
(* The terms Nevermined holds of a service: what the two validators accept *)
(* of a plan as it was read back, what binds a requirement to a quote,     *)
(* which settlement counts, and which evidence of credits does.  A plan    *)
(* that passes is what every buyer then pays through.                      *)
(***************************************************************************)
EXTENDS Integers, Sequences, FiniteSets

CONSTANT CreditAmounts   \* the numbers of credits an account may have or use

Prices == INSTANCE PriceSurfaces

Services == Prices!Services
Documents == {s \in Services : s.name = "document"}
Gross(service) == Prices!Plan(service).amount

-----------------------------------------------------------------------------
(* Plans.  What is read back is the agent and the plan; of both the fields *)
(* that are compared, a field that is missing or malformed being "other".  *)

Fee(gross) == gross \div 100

\* What is asked of a plan of fixed price, and of the plan of the document
\* service in either version.
Exact(service, credits) ==
  [agentName |-> service, planName |-> service, endpoint |-> service, linked |-> "plan",
   amounts |-> <<Gross(service) - Fee(Gross(service)), Fee(Gross(service))>>, receivers |-> <<"seller", "platform">>,
   token |-> "usdc", crypto |-> TRUE, credits |-> credits, fixed |-> FALSE, redemption |-> 4, mirror |-> FALSE,
   duration |-> 0, access |-> "credits", trial |-> FALSE, recurring |-> FALSE]

FixedCredits   == [amount |-> 1, min |-> 1, max |-> 1]
DynamicCredits == [amount |-> 190000, min |-> 12000, max |-> 190000]

FixedRequirements(service) == Exact(service, FixedCredits)
DynamicRequirements(service) ==
  [Exact(service, DynamicCredits) EXCEPT !.amounts = <<188100, 1900>>]

\* What a use of the document service is worth, in a table of its own.
Tiers == [document_native |-> 12000, document_ocr |-> 19000, document_table |-> 29000, document_max_job |-> 190000]

\* What a buyer pays of a plan: a part for each of its two receivers.
Collected(plan) == plan.amounts[1] + plan.amounts[2]

\* A credit costs one atomic unit.
UnitCredits(plan) == plan.credits.amount # 0 /\ Collected(plan) = plan.credits.amount

\* assertFixedServiceId leaves out one version of the document service.
FixedServices == Services \ {[name |-> "document", major |-> 1]}

\* validateNeverminedFixedPaygPlan: all it asks, in one comparison.
AcceptsFixed(service, plan) ==
  /\ service \in FixedServices
  /\ Gross(service) % 100 = 0
  /\ plan = FixedRequirements(service)

\* validateNeverminedDocumentDynamicPlan.
AcceptsDynamic(service, plan) ==
  /\ service \in Documents
  /\ plan = DynamicRequirements(service)
  /\ UnitCredits(plan)

\* A registry's answer is accepted with the plan of the ids it names.
Reconciled(state, ids, read, accepts) ==
  CASE state = "absent" -> "NO_MATCH"
    [] state = "existing" /\ ids = read /\ accepts -> "EXACT_EXISTING"
    [] OTHER -> "CONFLICT"

\* A full registration has each service once; only the first versions are
\* known here.
Canonical == {s \in Services : s.major = 1}
Complete(entries) ==
  /\ Len(entries) = 4 /\ {entries[i].service : i \in DOMAIN entries} = Canonical
  /\ \A i \in DOMAIN entries : entries[i].state = "EXACT_EXISTING" /\ entries[i].agents = 1 /\ entries[i].plans = 1

\* What an audit found of a service, and the entry it makes of it.
Found == [service : Services, state : {"absent", "existing", "partial"}, read : 1..2, accepts : BOOLEAN, pairs : 0..2]
Audited(found) ==
  [service |-> found.service, state |-> Reconciled(found.state, 1, found.read, found.accepts),
   agents |-> found.pairs, plans |-> found.pairs]

-----------------------------------------------------------------------------
(* Requirements.  *)

Quotes == [id : 1..2, amount : 1..2]

\* The provider's requirement, bound to a quote of ours.
Bind(required, quote) == [required |-> required, siteborne |-> quote]

\* validateNeverminedPaymentRequired: our extension is looked at only if a
\* service is named.
AcceptsRequirement(bound, expected, service) ==
  /\ bound.required = expected.required
  /\ service # "none" => bound.siteborne = expected.siteborne

-----------------------------------------------------------------------------
(* Settlements.  Optional fields of the provider's answer may be absent.   *)

Settlements ==
  [success : {"true", "false", "absent", "other"}, payer : {"same", "other", "absent"},
   network : {"same", "other", "absent"}, credits : {"same", "other", "absent"}, transaction : {"none", "real", "long"}]

Success(settlement) ==
  CASE settlement.success = "true"  -> "positive"
    [] settlement.success = "false" -> "failure"
    [] settlement.success = "absent" /\ settlement.transaction = "real" -> "positive"
    [] OTHER -> "ambiguous"

AcceptsSettlement(settlement) ==
  /\ Success(settlement) = "positive"
  /\ settlement.payer # "other" /\ settlement.network # "other" /\ settlement.credits # "other"
  /\ settlement.transaction = "real"

\* The verification before: the payer and the request must be named.
Verifications == [valid : BOOLEAN, payer : {"real", "absent"}, network : {"same", "other", "absent"}, request : {"real", "absent"}]
AcceptsVerification(verified) ==
  verified.valid /\ verified.payer = "real" /\ verified.network # "other" /\ verified.request = "real"

-----------------------------------------------------------------------------
(* The evidence of a settlement in credits.  *)

Evidence == [payment : {1, 2}, start : CreditAmounts, acquired : CreditAmounts, redeemed : CreditAmounts, value : CreditAmounts,
             remaining : CreditAmounts, cash : CreditAmounts, hash : {"own", "other"}]
Expected == [payment : {1}, start : CreditAmounts, acquired : CreditAmounts, used : CreditAmounts, maximum : CreditAmounts]

\* prepareNeverminedUsageSettlement: only the first version of the document
\* service has a usage.
Prepared(service, actual, maximum) ==
  IF service # [name |-> "document", major |-> 1] THEN "invalid_usage_result"
  ELSE IF actual > maximum THEN "authorization_exceeded" ELSE "ok"

AcceptsEvidence(e, expected) ==
  /\ e.payment = expected.payment
  /\ e.start = expected.start /\ e.acquired = expected.acquired
  /\ e.redeemed = expected.used /\ e.value = expected.used
  /\ e.value <= expected.maximum
  /\ e.cash = expected.acquired
  /\ e.remaining = e.start + e.acquired - e.redeemed
  /\ e.hash = "own"

-----------------------------------------------------------------------------
\* A plan that passes sells one service: it is accepted for the service it
\* is named for alone, the buyer pays what the route charges, and the parts
\* of the price make it up.
PlansSellOneService(plan) ==
  \A s, t \in Services :
    /\ AcceptsFixed(s, plan) \/ AcceptsDynamic(s, plan) =>
         /\ Collected(plan) = Gross(s) /\ plan.agentName = s /\ plan.endpoint = s
         /\ plan.amounts[2] * 100 = Gross(s)
    /\ (AcceptsFixed(s, plan) \/ AcceptsDynamic(s, plan)) /\ (AcceptsFixed(t, plan) \/ AcceptsDynamic(t, plan)) => s = t

\* A plan pays for a use at its price, and never for more than was granted.
\* But the second version of the document service, which is charged by use,
\* also passes as a plan of one credit a call, and no use of it can be
\* prepared for settlement.
CreditsPayForUse(plan) ==
  \A s \in Services :
    /\ AcceptsDynamic(s, plan) =>
         /\ \A key \in DOMAIN Tiers :
              Tiers[key] = Prices!Price[key] /\ Tiers[key] \in plan.credits.min..plan.credits.max
         /\ plan.credits.max <= plan.credits.amount /\ plan.credits.amount = Gross(s)
         /\ \A key \in DOMAIN Tiers : Prepared(s, Tiers[key], plan.credits.max) = "ok" <=> s.major = 1
    /\ AcceptsFixed(s, plan) /\ Prices!Plan(s).dynamic => s.major = 2
    /\ s \in Documents => AcceptsDynamic(s, DynamicRequirements(s))

\* A registration that is complete has one pair of each first version, which
\* was read back by its own ids and accepted; of the second versions, which
\* are the ones registered, it says nothing.
CompleteIsRegistered(found) ==
  Complete([i \in DOMAIN found |-> Audited(found[i])]) =>
    /\ {found[i].service : i \in DOMAIN found} = {s \in Services : ~Prices!Registered(s)}
    /\ \A i \in DOMAIN found :
         found[i].state = "existing" /\ found[i].read = 1 /\ found[i].accepts /\ found[i].pairs = 1

\* Where a service is named, a requirement is accepted only for the quote it
\* was bound to; where none is, a requirement of any quote is.
BoundToItsQuote ==
  \A required \in 1..2, quote, other \in Quotes :
    /\ AcceptsRequirement(Bind(required, quote), Bind(required, other), "named") <=> quote = other
    /\ AcceptsRequirement(Bind(required, quote), Bind(required, other), "none")

\* A settlement that counts, of a request that was verified, names a
\* transaction, does not say that it failed, and contradicts neither the
\* payer that was verified nor the network or the amount that were asked.
SettlementsCount(settlement) ==
  \A v \in Verifications : AcceptsVerification(v) /\ AcceptsSettlement(settlement) =>
    /\ v.payer = "real" /\ v.request = "real"
    /\ settlement.transaction = "real" /\ settlement.success \notin {"false", "other"}
    /\ "other" \notin {v.network, settlement.payer, settlement.network, settlement.credits}

\* Evidence that is accepted balances: what was redeemed was there, was
\* authorised and is what was used, and cash moved for what was acquired.
EvidenceBalances(e, expected) ==
  AcceptsEvidence(e, expected) =>
    /\ e.redeemed <= e.start + e.acquired /\ e.redeemed <= expected.maximum
    /\ e.remaining + e.redeemed = e.start + e.cash
    /\ \A d \in [payment : {e.payment}, start : {e.start}, acquired : {e.acquired}, redeemed : CreditAmounts, value : {e.value},
                 remaining : CreditAmounts, cash : {e.cash}, hash : {e.hash}] : AcceptsEvidence(d, expected) => d = e

=============================================================================
