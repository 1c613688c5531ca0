----------------------------- MODULE SurfaceProofs -----------------------------
(***************************************************************************)
(* What the program shows the world, for any number of requests, gates and *)
(* changes, registrations and runs, URLs and limits: what an isolate       *)
(* serves and tells of itself, what a harness registers and reports, where *)
(* a fetch connects and what page it returns; and how the surfaces that    *)
(* offer the services answer to each other.                                *)
(***************************************************************************)
EXTENDS EdgeWorker, PlanRegistry, PublicFetch, ServiceOffers, FiniteSetTheorems, SequenceTheorems, TLAPS

-----------------------------------------------------------------------------
(* The isolate.                                                            *)

\* An app that was composed with every gate open and all it needs.
Sound(app) == app.db # NoDb /\ app.network = "base" /\ app.complete

\* What an app and a request look like.
Base == Databases \cup {NoDb}
App  == [db : Base, network : {"none", "base", "base-sepolia"}, complete : BOOLEAN]
Visit ==
  [at : {"idle", "lookup", "served", "404", "413", "415", "503"}, service : PaidServices,
   flagged : BOOLEAN, db : Base, app : App]
WorkerTyped ==
  /\ on \subseteq Settings /\ changes \in 0..MaxChanges
  /\ db \in Base /\ apps \in [PaidServices -> App] /\ visits \in [Visitors -> Visit]

\* What is kept, or being composed by a request, is sound, and a request is
\* given the app of its own database.
AppsAreSound == \A s \in PaidServices : apps[s] # NoApp => Sound(apps[s])
VisitsAreSound ==
  \A v \in Visitors : visits[v].at \in {"lookup", "served"} =>
    /\ visits[v].service \in PaidServices /\ visits[v].flagged
    /\ Sound(visits[v].app) /\ visits[v].app.db = visits[v].db

\* Every card that was given is the one that is kept, and it fits what is
\* configured.
GivenIsKept == \A a \in given : a = card /\ a.key = CacheKey

WorkerSafe == WorkerTyped /\ AppsAreSound /\ VisitsAreSound /\ GivenIsKept

-----------------------------------------------------------------------------
\* What may be composed is sound.
LEMMA BuiltIsSound ==
  ASSUME NEW s \in PaidServices, NEW settings, NEW database, Composable(s, settings, database)
  PROVE  Sound(Built(settings, database)) /\ Built(settings, database).db = database
BY DEF Composable, Built, Sound, Network

\* What is made is what it should look like.
LEMMA MadeIsTyped ==
  /\ NoApp \in App /\ NoVisit \in Visit
  /\ \A a \in {"404", "413", "415", "503"} : [NoVisit EXCEPT !.at = a] \in Visit
  /\ \A settings, d : d \in Base => Built(settings, d) \in App
<1>1. NoApp \in App
  BY DEF NoApp, App, Base
<1>2. NoVisit \in Visit
  BY <1>1 DEF NoVisit, Visit, Base, PaidServices
<1>3. ASSUME NEW settings, NEW d \in Base PROVE Built(settings, d) \in App
  <2>1. (ReceiptKey \cup Bindings \subseteq settings) \in BOOLEAN
    OBVIOUS
  <2>2. Network(settings) \in {"base", "base-sepolia"}
    BY DEF Network
  <2> QED
    BY <2>1, <2>2 DEF Built, App
<1> QED
  BY <1>1, <1>2, <1>3 DEF Visit

\* The initial states.
LEMMA WorkerStarts == WorkerInit => WorkerSafe
BY MadeIsTyped, ChangesAssumption
   DEF WorkerInit, WorkerSafe, WorkerTyped, AppsAreSound, VisitsAreSound, GivenIsKept, NoVisit, Base

\* A request that comes is refused, served by what is kept for its database,
\* or has its app composed.
LEMMA PostStep ==
  ASSUME WorkerSafe, NEW v \in Visitors, Post(v)
  PROVE  WorkerSafe'
<1> USE DEF WorkerSafe
<1>1. apps' = apps /\ given' = given /\ card' = card /\ on' = on /\ db' = db /\ changes' = changes
  BY DEF Post
<1>2. PICK s \in PaidServices, fits, json \in BOOLEAN :
        \/ \E a \in {"404", "413", "415", "503"} : visits' = [visits EXCEPT ![v] = [NoVisit EXCEPT !.at = a]]
        \/ /\ RouteFlagEnabled(s, on)
           /\ \/ /\ Kept(s)
                 /\ visits' = [visits EXCEPT ![v] =
                      [at |-> "served", service |-> s, flagged |-> RouteFlagEnabled(s, on), db |-> db, app |-> apps[s]]]
              \/ /\ Composable(s, HandedOver(on), db)
                 /\ visits' = [visits EXCEPT ![v] =
                      [at |-> "lookup", service |-> s, flagged |-> RouteFlagEnabled(s, on), db |-> db,
                       app |-> Built(HandedOver(on), db)]]
  BY DEF Post
<1>3. VisitsAreSound'
  <2>1. CASE \E a \in {"404", "413", "415", "503"} : visits' = [visits EXCEPT ![v] = [NoVisit EXCEPT !.at = a]]
    BY <2>1 DEF VisitsAreSound, NoVisit
  <2>2. CASE /\ RouteFlagEnabled(s, on) /\ Kept(s)
             /\ visits' = [visits EXCEPT ![v] =
                  [at |-> "served", service |-> s, flagged |-> RouteFlagEnabled(s, on), db |-> db, app |-> apps[s]]]
    BY <2>2 DEF VisitsAreSound, AppsAreSound, Kept
  <2>3. CASE /\ RouteFlagEnabled(s, on) /\ Composable(s, HandedOver(on), db)
             /\ visits' = [visits EXCEPT ![v] =
                  [at |-> "lookup", service |-> s, flagged |-> RouteFlagEnabled(s, on), db |-> db,
                   app |-> Built(HandedOver(on), db)]]
    BY <2>3, BuiltIsSound DEF VisitsAreSound
  <2> QED
    BY <1>2, <2>1, <2>2, <2>3
<1>4. WorkerTyped'
  <2>1. RouteFlagEnabled(s, on) \in BOOLEAN
    BY DEF RouteFlagEnabled
  <2> QED
    BY <1>1, <1>2, <2>1, MadeIsTyped DEF WorkerTyped, Visit
<1> QED
  BY <1>1, <1>3, <1>4 DEF AppsAreSound, GivenIsKept, CacheKey, Statuses

\* The seller's account answers, or it does not.
LEMMA LookupStep ==
  ASSUME WorkerSafe, NEW v \in Visitors, Lookup(v)
  PROVE  WorkerSafe'
<1> USE DEF WorkerSafe
<1>1. given' = given /\ card' = card /\ on' = on /\ db' = db
  BY DEF Lookup
<1>2. WorkerTyped'
  BY MadeIsTyped DEF Lookup, WorkerTyped, Visit
<1>3. VisitsAreSound'
  BY DEF Lookup, VisitsAreSound, WorkerTyped, Visit, NoVisit
<1>4. AppsAreSound'
  BY DEF Lookup, AppsAreSound, VisitsAreSound, WorkerTyped
<1> QED
  BY <1>1, <1>2, <1>3, <1>4 DEF GivenIsKept, CacheKey, Statuses

\* A card that was given before is the one that is given now.
LEMMA AskCardStep == WorkerSafe /\ AskCard => WorkerSafe'
<1> SUFFICES ASSUME WorkerSafe, AskCard PROVE WorkerSafe'
  OBVIOUS
<1>1. CacheKey' = CacheKey
  BY DEF AskCard, CacheKey, Statuses
<1>2. card'.key = CacheKey /\ (given # {} => card' = card)
  BY DEF WorkerSafe, GivenIsKept, AskCard
<1>3. \A a \in given' : a \in given \/ a = card'
  BY DEF AskCard, Give
<1>4. GivenIsKept'
  BY <1>1, <1>2, <1>3 DEF WorkerSafe, GivenIsKept
<1> QED
  BY <1>4 DEF WorkerSafe, WorkerTyped, AskCard, AppsAreSound, VisitsAreSound

\* A change takes back what was given.
LEMMA ChangeStep == WorkerSafe /\ Change => WorkerSafe'
<1> SUFFICES ASSUME WorkerSafe, Change PROVE WorkerSafe'
  OBVIOUS
<1>1. changes' \in 0..MaxChanges
  BY ChangesAssumption DEF WorkerSafe, WorkerTyped, Change
<1> QED
  BY <1>1 DEF WorkerSafe, WorkerTyped, Base, Change, AppsAreSound, VisitsAreSound, GivenIsKept

\* Every step keeps what the proof needs.
LEMMA WorkerStep == WorkerSafe /\ [WorkerNext]_workerVars => WorkerSafe'
<1> SUFFICES ASSUME WorkerSafe, [WorkerNext]_workerVars PROVE WorkerSafe'
  OBVIOUS
<1>1. CASE UNCHANGED workerVars
  BY <1>1 DEF workerVars, WorkerSafe, WorkerTyped, AppsAreSound, VisitsAreSound, GivenIsKept, CacheKey, Statuses
<1>2. CASE WorkerNext
  BY <1>2, ChangeStep, AskCardStep, PostStep, LookupStep DEF WorkerNext
<1> QED
  BY <1>1, <1>2

\* Of the web route discovery asks less than the composition: with the
\* executor's credentials handed over, it would be composed.
LEMMA ClaimsAreComposable == ClaimsAreSo
<1> SUFFICES ASSUME NEW s \in PaidServices, EffectiveDiscoveryStatus(s, on, db), "well formed key" \in on
             PROVE  /\ RouteFlagEnabled(s, on)
                    /\ \/ Composable(s, HandedOver(on), db)
                       \/ s = "web" /\ Composable(s, HandedOver(on) \cup {"MODAL_WEBCTX"}, db)
  BY DEF ClaimsAreSo, EffectiveDiscoveryStatus
<1>1. /\ db # NoDb /\ RouteFlagEnabled(s, on)
      /\ Gates \subseteq HandedOver(on) /\ ReceiptKey \subseteq HandedOver(on) /\ Bindings \subseteq HandedOver(on)
      /\ "well formed key" \in HandedOver(on)
  BY DEF EffectiveDiscoveryStatus, ProductionAuthorized, HandedOver
<1>2. CASE s = "verify"
  BY <1>1, <1>2 DEF Composable, ProductionAuthorized
<1>3. CASE s = "web"
  BY <1>1, <1>3 DEF Composable, ProductionAuthorized
<1> QED
  BY <1>1, <1>2, <1>3 DEF PaidServices

\* It gives the properties.
LEMMA WorkerSuffices == WorkerSafe => WorkerTypeOK /\ ServedByGates /\ CardAndKeysAgree
<1>1. WorkerSafe => ServedByGates
  BY DEF WorkerSafe, VisitsAreSound, Sound, ServedByGates
<1>2. WorkerSafe => CardAndKeysAgree
  BY DEF WorkerSafe, GivenIsKept, CardAndKeysAgree, CacheKey
<1>3. WorkerSafe => WorkerTypeOK
  BY ChangesAssumption DEF WorkerSafe, WorkerTyped, WorkerTypeOK, App, Visit, Base
<1> QED
  BY <1>1, <1>2, <1>3

\* What an isolate holds is always of its types.
THEOREM WorkerTypeCorrect == WorkerSpec => []WorkerTypeOK
<1>1. WorkerSpec => []WorkerSafe
  BY WorkerStarts, WorkerStep, PTL DEF WorkerSpec
<1> QED
  BY <1>1, WorkerSuffices, PTL

\* No request is served but with its flags on, from its own database and by
\* a service that was composed with every gate open, whatever was changed
\* while it waited.
THEOREM ServesByGates == WorkerSpec => []ServedByGates
<1>1. WorkerSpec => []WorkerSafe
  BY WorkerStarts, WorkerStep, PTL DEF WorkerSpec
<1> QED
  BY <1>1, WorkerSuffices, PTL

\* Until something changes, all cards and key sets an isolate gives are of
\* one identity, and say what is so; what they and the catalogue claim is
\* composable but for a malformed key or, on the web route, the credentials
\* no route hands over, whatever the gates are.
THEOREM ClaimsHold == WorkerSpec => []DiscoveryIsTrue
<1>1. WorkerSpec => []WorkerSafe
  BY WorkerStarts, WorkerStep, PTL DEF WorkerSpec
<1>2. WorkerSafe => DiscoveryIsTrue
  BY WorkerSuffices, ClaimsAreComposable DEF DiscoveryIsTrue
<1> QED
  BY <1>1, <1>2, PTL

-----------------------------------------------------------------------------
(* The registration.                                                       *)

\* In a registry that is calm the agent there may be is the first; what a
\* listing has found of the agents is all there are; and absent is said of
\* nothing.
CalmKnows ==
  calm => /\ agents \subseteq {1}
          /\ pc \in {"plans", "decide"} => foundAgents = agents
          /\ pc = "absent" => agents = {}

\* What shows, is there.
ShownAreThere ==
  \A n : /\ <<"agent", n>> \in shown => n \in agents
         /\ <<"plan", n>> \in shown => n \in plans
         /\ <<"link", n>> \in shown => n \in links

RegistrySafe == RegistryTypeOK /\ CalmKnows /\ ShownAreThere /\ ReportsOnePair

-----------------------------------------------------------------------------
\* What a read answers is there, and what a read of the agents of a calm
\* registry answers are all of them.
LEMMA AnswersAreThere ==
  ASSUME RegistrySafe
  PROVE  /\ \A a \in RegistryAnswers("agent") : a \subseteq agents
         /\ \A p \in RegistryAnswers("plan") : p \subseteq plans
         /\ \A l \in RegistryAnswers("link") : l \subseteq links
         /\ calm => \A a \in RegistryAnswers("agent") : a = agents
BY DEF RegistryAnswers, Reads, RegistrySafe, ShownAreThere

\* The initial states.
LEMMA RegistryStarts == RegistryInit => RegistrySafe
<1>1. RegistryInit => RegistryTypeOK
  BY ScheduleAssumption DEF RegistryInit, RegistryTypeOK, Numbers, Things
<1>2. RegistryInit => CalmKnows /\ ShownAreThere /\ ReportsOnePair
  BY DEF RegistryInit, CalmKnows, ShownAreThere, ReportsOnePair
<1> QED
  BY <1>1, <1>2 DEF RegistrySafe

\* Registering takes the first number where there is no agent.
LEMMA RegisterStep == RegistrySafe /\ Register => RegistrySafe'
<1> SUFFICES ASSUME RegistrySafe, Register PROVE RegistrySafe'
  OBVIOUS
<1> USE DEF Register
<1>1. calm' = calm /\ shown' = shown /\ links \subseteq links' /\ plans \subseteq plans' /\ agents \subseteq agents'
      /\ pc' \in {"known", "refused"}
  OBVIOUS
<1>2. calm => agents' = {1}
  <2>1. calm => agents = {}
    BY DEF RegistrySafe, CalmKnows
  <2>2. Cardinality({}) = 0
    BY FS_EmptySet
  <2> QED
    BY <2>1, <2>2
<1>3. CalmKnows'
  BY <1>1, <1>2 DEF CalmKnows
<1>4. ShownAreThere'
  BY <1>1 DEF RegistrySafe, ShownAreThere
<1>5. ReportsOnePair'
  BY <1>1 DEF ReportsOnePair
<1>6. RegistryTypeOK'
  <2> USE DEF RegistrySafe, RegistryTypeOK
  <2>1. IsFiniteSet(agents) /\ Cardinality(agents) \in Nat
    <3>1. IsFiniteSet(Numbers)
      BY FS_Interval, ScheduleAssumption DEF Numbers
    <3> QED
      BY <3>1, FS_Subset, FS_CardinalityType
  <2> DEFINE n == Cardinality(agents) + 1
  <2>2. n \in Numbers /\ n \in 0..MaxPairs
    BY <2>1, ScheduleAssumption DEF Numbers
  <2>3. /\ agents' = agents \cup {n}
        /\ \/ plans' = plans \cup {n} /\ links' = links \cup {n} /\ known' = n /\ attempt' = 1
           \/ UNCHANGED <<plans, links, known, attempt>>
        /\ UNCHANGED <<calm, shown, foundAgents, foundPlans, accepted, started>>
    OBVIOUS
  <2> HIDE DEF n, Register
  <2>4. 1 \in 0..Attempts
    BY ScheduleAssumption
  <2>5. /\ agents' \subseteq Numbers /\ plans' \subseteq agents' /\ links' \subseteq plans'
        /\ known' \in 0..MaxPairs /\ attempt' \in 0..Attempts
    BY <2>2, <2>3, <2>4
  <2>6. foundAgents' \subseteq agents' /\ foundPlans' \subseteq plans'
    BY <2>3
  <2> QED
    BY <1>1, <2>3, <2>5, <2>6
<1> QED
  BY <1>3, <1>4, <1>5, <1>6 DEF RegistrySafe

\* Something new shows.
LEMMA ShowStep == RegistrySafe /\ Show => RegistrySafe'
<1> SUFFICES ASSUME RegistrySafe, Show PROVE RegistrySafe'
  OBVIOUS
<1>1. PICK t \in ({"agent"} \X agents) \cup ({"plan"} \X plans) \cup ({"link"} \X links) : shown' = shown \cup {t}
  BY DEF Show
<1>2. UNCHANGED <<calm, agents, plans, links, pc, attempt, known, foundAgents, foundPlans, accepted, started>>
  BY DEF Show
<1>3. ShownAreThere'
  <2>1. /\ \A n : t = <<"agent", n>> => n \in agents
        /\ \A n : t = <<"plan", n>> => n \in plans
        /\ \A n : t = <<"link", n>> => n \in links
    BY <1>1
  <2> QED
    BY <1>1, <1>2, <2>1 DEF RegistrySafe, ShownAreThere
<1>4. shown' \subseteq Things
  BY <1>1 DEF RegistrySafe, RegistryTypeOK, Things
<1> QED
  BY <1>2, <1>3, <1>4 DEF RegistrySafe, RegistryTypeOK, CalmKnows, ReportsOnePair

\* Where the harness goes when an attempt has found nothing that will do.
LEMMA AgainGoes ==
  ASSUME RegistrySafe, Again
  PROVE  pc' \in {"timeout", "known"} /\ attempt' \in 0..Attempts
BY ScheduleAssumption DEF RegistrySafe, RegistryTypeOK, Again, Last

\* What the harness decides.
LEMMA DecideStep == RegistrySafe /\ Decide => RegistrySafe'
<1> SUFFICES ASSUME RegistrySafe, Decide PROVE RegistrySafe'
  OBVIOUS
<1>1. UNCHANGED <<calm, agents, plans, links, shown, known, foundAgents, foundPlans, started>> /\ pc = "decide"
  BY DEF Decide
<1>2. /\ pc' \in {"absent", "timeout", "known", "existing", "unclear"}
      /\ attempt' \in 0..Attempts /\ accepted' \in 0..MaxPairs
      /\ pc' = "existing" => accepted' \in links
      /\ pc' = "absent" => foundAgents = {}
  <2> USE DEF RegistrySafe, RegistryTypeOK
  <2>1. CASE Absent
    BY <2>1, AgainGoes DEF Absent
  <2>2. CASE Pair
    <3>1. PICK linked \in RegistryAnswers("link") :
            IF foundAgents = foundPlans /\ foundAgents \subseteq linked
            THEN pc' = "existing" /\ accepted' \in foundAgents /\ UNCHANGED attempt
            ELSE Again /\ UNCHANGED accepted
      BY <2>2 DEF Pair
    <3>2. linked \subseteq links
      BY AnswersAreThere
    <3>3. CASE foundAgents = foundPlans /\ foundAgents \subseteq linked
      <4>1. accepted' \in links /\ accepted' \in Numbers
        BY <3>1, <3>2, <3>3
      <4> QED
        BY <3>1, <3>3, <4>1, ScheduleAssumption DEF Numbers
    <3>4. CASE ~(foundAgents = foundPlans /\ foundAgents \subseteq linked)
      BY <3>1, <3>4, AgainGoes
    <3> QED
      BY <3>3, <3>4
  <2>3. CASE Unclear
    BY <2>3 DEF Unclear
  <2> QED
    BY <2>1, <2>2, <2>3 DEF Decide
<1>3. CalmKnows'
  BY <1>1, <1>2 DEF RegistrySafe, CalmKnows
<1> QED
  BY <1>1, <1>2, <1>3 DEF RegistrySafe, RegistryTypeOK, ShownAreThere, ReportsOnePair

\* Every step keeps what the proof needs.
LEMMA RegistryStep == RegistrySafe /\ [RegistryNext]_registryVars => RegistrySafe'
<1> SUFFICES ASSUME RegistrySafe, [RegistryNext]_registryVars PROVE RegistrySafe'
  OBVIOUS
<1> USE DEF RegistrySafe, RegistryTypeOK, CalmKnows, ShownAreThere, ReportsOnePair
<1>1. CASE Start
  BY <1>1, ScheduleAssumption DEF Start
<1>2. CASE ReadKnown
  <2>1. (pc' = "existing" /\ accepted' \in links /\ accepted' = known) \/ (pc' = "agents" /\ accepted' = accepted)
    BY <1>2, AnswersAreThere DEF ReadKnown
  <2>2. UNCHANGED <<calm, agents, plans, links, shown, attempt, known, foundAgents, foundPlans, started>>
    BY <1>2 DEF ReadKnown
  <2> QED
    BY <2>1, <2>2
<1>3. CASE ListAgents
  BY <1>3, AnswersAreThere DEF ListAgents
<1>4. CASE ListPlans
  BY <1>4, AnswersAreThere DEF ListPlans
<1>5. CASE RefuseRest
  BY <1>5 DEF RefuseRest
<1>6. CASE Stop
  BY <1>6 DEF Stop
<1>7. CASE UNCHANGED registryVars
  BY <1>7 DEF registryVars
<1> QED
  BY <1>1, <1>2, <1>3, <1>4, <1>5, <1>6, <1>7, ShowStep, RegisterStep, DecideStep DEF RegistryNext

\* It gives the property.
LEMMA RegistrySuffices == RegistrySafe => RegisteredOnce
<1> SUFFICES ASSUME RegistrySafe, calm PROVE Cardinality(agents) <= 1
  BY DEF RegistrySafe, RegisteredOnce
<1>1. agents \subseteq {1}
  BY DEF RegistrySafe, CalmKnows
<1>2. IsFiniteSet({1}) /\ Cardinality({1}) = 1
  BY FS_Singleton
<1> QED
  BY <1>1, <1>2, FS_Subset

\* What the harness and the registry hold is always of its types, and no
\* plan is there without its agent, no link without its plan.
THEOREM RegistryTypeCorrect == RegistrySpec => []RegistryTypeOK
<1>1. RegistrySpec => []RegistrySafe
  BY RegistryStarts, RegistryStep, PTL DEF RegistrySpec
<1>2. RegistrySafe => RegistryTypeOK
  BY DEF RegistrySafe
<1> QED
  BY <1>1, <1>2, PTL

\* While the registry answers and is up to date a name is registered once,
\* and what a harness reports is one linked pair in any registry.
THEOREM OneRegistration == RegistrySpec => []RegisteredOnce
<1>1. RegistrySpec => []RegistrySafe
  BY RegistryStarts, RegistryStep, PTL DEF RegistrySpec
<1> QED
  BY <1>1, RegistrySuffices, PTL

-----------------------------------------------------------------------------
(* The fetch.                                                              *)

Families == {"public", "private"}

\* What the variables look like that the proof speaks of.
FetchTyped ==
  /\ via \in {"socket", "executor", "direct"}
  /\ stage \in {"validate", "resolve", "dial", "read", "done"}
  /\ chain \in Seq(Urls) /\ url \in Urls
  /\ answers \in Seq(Seq(Families))
  /\ outcome.kind \in {"failed", "interim", "page"}

\* A hop that has begun is the last of the chain, and allowed.
HopIsAsked ==
  stage \in {"resolve", "dial", "read"} =>
    chain # <<>> /\ url = chain[Len(chain)] /\ ValidateUrl(url)

\* Nothing is dialled before every family has answered.
AllHaveAnswered ==
  /\ stage = "resolve" => Len(answers) \in 0..1 /\ (via # "socket" => Len(answers) = 0)
  /\ stage = "dial" /\ ~Literal(url) => Len(answers) \in 1..2

\* The chain is within the limit of the client that follows it.
ChainIsWithin ==
  IF via = "direct" THEN ValidateRedirectChain(chain) ELSE Len(chain) <= MaxRedirects + 1

\* Each connection is of the chain, and checked; what is read, is of the
\* current hop.
DialledIsChecked ==
  /\ \A d \in dialled :
       ValidateUrl(d.url) /\ d.address = "public" /\ \E i \in DOMAIN chain : chain[i] = d.url
  /\ stage = "read" => \E d \in dialled : d.url = url

\* A page ends the fetch, and comes from the last hop.
PageIsLast ==
  outcome.kind = "page" =>
    /\ stage = "done" /\ ValidateRedirectChain(chain)
    /\ url = chain[Len(chain)] /\ \E d \in dialled : d.url = url

FetchSafe ==
  /\ FetchTyped /\ HopIsAsked /\ AllHaveAnswered /\ ChainIsWithin
  /\ DialledIsChecked /\ PageIsLast

-----------------------------------------------------------------------------
\* The address to connect to, if there is one, is public.
LEMMA AddressIsPublic ==
  ASSUME FetchSafe, stage = "dial", Address # "none"
  PROVE  Address = "public"
<1> USE DEF FetchSafe
<1>1. CASE Literal(url)
  BY <1>1 DEF Literal, Address, HopIsAsked, ValidateUrl
<1>2. CASE ~Literal(url)
  <2>1. Len(answers) \in 1..2 /\ answers \in Seq(Seq(Families))
    BY <1>2 DEF AllHaveAnswered, FetchTyped
  <2>2. answers[1] \in Seq(Families) /\ (Len(answers) = 2 => answers[2] \in Seq(Families))
    BY <2>1
  <2>3. AllAnswers \in Seq(Families)
    BY <2>1, <2>2 DEF AllAnswers
  <2>4. Address = ResolveSafeAddress(AllAnswers)
    BY <1>2 DEF Address
  <2>5. AllAnswers # <<>> /\ \A i \in DOMAIN AllAnswers : AllAnswers[i] = "public"
    BY <2>4 DEF ResolveSafeAddress
  <2>6. 1 \in DOMAIN AllAnswers
    BY <2>3, <2>5
  <2> QED
    BY <2>4, <2>5, <2>6 DEF ResolveSafeAddress
<1> QED
  BY <1>1, <1>2

\* What is accepted as a page has a chain that was checked.
LEMMA PageIsChecked ==
  ASSUME NEW r, NEW body \in Bodies(r), AcceptPage(r, body).kind = "page", via # "direct"
  PROVE  ValidateRedirectChain(chain)
<1>1. AcceptPage(r, body) # Failed("CHAIN")
  BY DEF Failed
<1>2. body.kind # "failed"
  BY DEF AcceptPage
<1> QED
  BY <1>1, <1>2 DEF AcceptPage

\* What is made of the last answer is a page or a failure.
LEMMA AcceptedKind ==
  ASSUME NEW r, NEW body \in Bodies(r)
  PROVE  AcceptPage(r, body).kind \in {"failed", "page"}
<1>1. body = SocketBody(r) \/ \E bytes, framed, cut : body = Received(bytes, framed, cut)
  BY DEF Bodies, ExecutorBodies
<1>2. SocketBody(r).kind \in {"failed", "received"}
  BY DEF SocketBody, Failed, Received
<1>3. body.kind \in {"failed", "received"}
  BY <1>1, <1>2 DEF Received
<1> QED
  BY <1>3 DEF AcceptPage, Failed

\* The initial states.
LEMMA FetchStarts == FetchInit => FetchSafe
<1> SUFFICES ASSUME FetchInit PROVE FetchSafe
  OBVIOUS
<1>1. outcome.kind = "failed"
  BY DEF FetchInit, Failed
<1>2. FetchTyped
  <2>1. <<>> \in Seq(Urls) /\ <<>> \in Seq(Seq(Families))
    BY EmptySeq
  <2> QED
    BY <1>1, <2>1 DEF FetchInit, FetchTyped
<1>3. ChainIsWithin
  <2>1. chain = <<>> /\ Len(chain) = 0 /\ DOMAIN chain = {}
    <3>1. Len(<<>>) = 0 /\ <<>> \in Seq(Urls)
      BY EmptySeq
    <3>2. DOMAIN <<>> = 1..0
      BY <3>1, LenProperties
    <3>3. 1..0 = {}
      OBVIOUS
    <3> QED
      BY <3>1, <3>2, <3>3 DEF FetchInit
  <2>2. 0 <= PolicyRedirects /\ 0 <= MaxRedirects + 1
    BY FetchAssumption
  <2> QED
    BY <2>1, <2>2 DEF ChainIsWithin, ValidateRedirectChain
<1> QED
  BY <1>1, <1>2, <1>3 DEF FetchInit, FetchSafe, HopIsAsked, AllHaveAnswered, DialledIsChecked, PageIsLast

\* A hop that is allowed becomes the last of the chain.
LEMMA HopStep == FetchSafe /\ Hop => FetchSafe'
<1> SUFFICES ASSUME FetchSafe, Hop PROVE FetchSafe'
  OBVIOUS
<1> USE DEF FetchSafe
<1> DEFINE asked == Append(chain, url)
<1>1. FetchTyped /\ chain \in Seq(Urls) /\ url \in Urls
  BY DEF FetchTyped
<1>2. /\ UNCHANGED <<via, url, dialled>>
      /\ answers' = <<>> /\ stage = "validate"
  BY DEF Hop
<1>3. CASE UNCHANGED chain /\ stage' = "done" /\ outcome'.kind = "failed"
  BY <1>1, <1>2, <1>3
     DEF FetchTyped, HopIsAsked, AllHaveAnswered, ChainIsWithin, DialledIsChecked, PageIsLast, ValidateRedirectChain
<1>4. CASE /\ chain' = asked /\ stage' = (IF Literal(url) THEN "dial" ELSE "resolve") /\ UNCHANGED outcome
           /\ Len(chain) <= (IF via = "direct" THEN PolicyRedirects ELSE MaxRedirects)
           /\ ValidateUrl(url) /\ (via = "direct" /\ chain # <<>> => ValidateRedirectChain(asked))
  <2>1. /\ asked \in Seq(Urls) /\ Len(asked) = Len(chain) + 1 /\ asked[Len(asked)] = url /\ asked # <<>>
        /\ \A i \in DOMAIN chain : i \in DOMAIN asked /\ asked[i] = chain[i]
    BY <1>1
  <2>2. FetchTyped'
    BY <1>1, <1>2, <1>4, <2>1 DEF FetchTyped
  <2>3. HopIsAsked' /\ AllHaveAnswered'
    BY <1>2, <1>4, <2>1 DEF HopIsAsked, AllHaveAnswered, Literal, ValidateUrl
  <2>4. ChainIsWithin'
    <3>1. CASE via = "direct" /\ chain # <<>>
      BY <1>2, <1>4, <3>1 DEF ChainIsWithin, ValidateRedirectChain, ValidateUrl
    <3>2. CASE via = "direct" /\ chain = <<>>
      <4>1. asked = <<url>>
        BY <1>1, <3>2
      <4> QED
        BY <1>2, <1>4, <3>2, <4>1, FetchAssumption DEF ChainIsWithin, ValidateRedirectChain, ValidateUrl
    <3>3. CASE via # "direct"
      BY <1>1, <1>2, <1>4, <2>1, <3>3, FetchAssumption DEF ChainIsWithin
    <3> QED
      BY <3>1, <3>2, <3>3
  <2>5. DialledIsChecked'
    BY <1>2, <1>4, <2>1 DEF DialledIsChecked, ValidateUrl
  <2>6. PageIsLast'
    BY <1>2, <1>4 DEF PageIsLast
  <2> QED
    BY <2>2, <2>3, <2>4, <2>5, <2>6
<1>5. \/ UNCHANGED chain /\ (EndFetch(Failed("REDIRECTS")) \/ EndFetch(Failed("REFUSED")))
      \/ /\ chain' = asked /\ stage' = (IF Literal(url) THEN "dial" ELSE "resolve") /\ UNCHANGED outcome
         /\ ~(Len(chain) > (IF via = "direct" THEN PolicyRedirects ELSE MaxRedirects))
         /\ ValidateUrl(url) /\ (via = "direct" /\ chain # <<>> => ValidateRedirectChain(asked))
  BY Zenon DEF Hop
<1>6. Len(chain) \in Nat
  BY <1>1
<1>7. ~(Len(chain) > (IF via = "direct" THEN PolicyRedirects ELSE MaxRedirects)) =>
        Len(chain) <= (IF via = "direct" THEN PolicyRedirects ELSE MaxRedirects)
  BY <1>6, FetchAssumption
<1> QED
  BY <1>3, <1>4, <1>5, <1>7 DEF EndFetch, Failed

\* One family more has answered.
LEMMA ResolveStep == FetchSafe /\ Resolve => FetchSafe'
<1> SUFFICES ASSUME FetchSafe, Resolve PROVE FetchSafe'
  OBVIOUS
<1> USE DEF FetchSafe
<1>1. /\ UNCHANGED <<via, url, chain, dialled, outcome>> /\ stage = "resolve"
      /\ stage' = IF Len(answers') = (IF via = "socket" THEN 2 ELSE 1) THEN "dial" ELSE "resolve"
  BY DEF Resolve
<1>2. PICK found \in {<<>>, <<"public">>, <<"private">>, <<"public", "private">>} : answers' = Append(answers, found)
  BY DEF Resolve
<1>3. answers \in Seq(Seq(Families)) /\ found \in Seq(Families)
  <2>1. <<>> \in Seq(Families)
    BY EmptySeq
  <2>2. <<"public">> \in Seq(Families) /\ <<"private">> \in Seq(Families) /\ <<"public", "private">> \in Seq(Families)
    BY DEF Families
  <2> QED
    BY <2>1, <2>2 DEF FetchTyped
<1>4. answers' \in Seq(Seq(Families)) /\ Len(answers') = Len(answers) + 1
  BY <1>2, <1>3
<1>5. FetchTyped'
  BY <1>1, <1>4 DEF FetchTyped
<1>6. AllHaveAnswered'
  <2>1. (Len(answers) = 0 \/ Len(answers) = 1) /\ (via # "socket" => Len(answers) = 0)
    BY <1>1 DEF AllHaveAnswered
  <2>2. (Len(answers') = 1 \/ Len(answers') = 2) /\ (via # "socket" => Len(answers') = 1)
    <3>1. Len(answers') = Len(answers) + 1
      BY <1>4
    <3>2. CASE Len(answers) = 0
      BY <3>1, <3>2
    <3>3. CASE Len(answers) = 1 /\ via = "socket"
      BY <3>1, <3>3
    <3> QED
      BY <2>1, <3>2, <3>3
  <2>3. stage' = "resolve" => via = "socket" /\ Len(answers') = 1
    BY <1>1, <2>2
  <2> QED
    BY <1>1, <2>2, <2>3 DEF AllHaveAnswered
<1>7. HopIsAsked' /\ ChainIsWithin' /\ DialledIsChecked' /\ PageIsLast'
  BY <1>1 DEF HopIsAsked, ChainIsWithin, DialledIsChecked, PageIsLast, ValidateRedirectChain, ValidateUrl
<1> QED
  BY <1>5, <1>6, <1>7

\* A connection is made to the address that was checked.
LEMMA DialStep == FetchSafe /\ Dial => FetchSafe'
<1> SUFFICES ASSUME FetchSafe, Dial PROVE FetchSafe'
  OBVIOUS
<1> USE DEF FetchSafe
<1>1. /\ UNCHANGED <<via, url, chain, answers>> /\ stage = "dial" /\ stage' \in {"done", "read"}
      /\ stage' = "done" => outcome'.kind = "failed"
      /\ stage' = "read" => UNCHANGED outcome
  BY DEF Dial, EndFetch, Failed
<1>2. \/ UNCHANGED dialled /\ stage' = "done"
      \/ Address # "none" /\ dialled' = dialled \cup {[url |-> url, address |-> Address]}
  BY DEF Dial, EndFetch
<1>3. ValidateUrl(url) /\ \E i \in DOMAIN chain : chain[i] = url
  BY <1>1 DEF HopIsAsked, FetchTyped
<1>4. DialledIsChecked'
  <2>1. CASE UNCHANGED dialled /\ stage' = "done"
    BY <1>1, <2>1 DEF DialledIsChecked, ValidateUrl
  <2>2. CASE Address # "none" /\ dialled' = dialled \cup {[url |-> url, address |-> Address]}
    <3>1. Address = "public"
      BY <1>1, <2>2, AddressIsPublic
    <3>2. \A d \in dialled' : d \in dialled \/ d = [url |-> url, address |-> "public"]
      BY <2>2, <3>1
    <3>3. [url |-> url, address |-> "public"] \in dialled'
      BY <2>2, <3>1
    <3> QED
      BY <1>1, <1>3, <3>2, <3>3 DEF DialledIsChecked, ValidateUrl
  <2> QED
    BY <1>2, <2>1, <2>2
<1>5. FetchTyped' /\ HopIsAsked' /\ AllHaveAnswered' /\ ChainIsWithin'
  BY <1>1 DEF FetchTyped, HopIsAsked, AllHaveAnswered, ChainIsWithin, ValidateRedirectChain, ValidateUrl
<1>6. PageIsLast'
  BY <1>1 DEF PageIsLast
<1> QED
  BY <1>4, <1>5, <1>6

\* A server's answer ends the fetch, or sends it on.
LEMMA ReadStep == FetchSafe /\ Read => FetchSafe'
<1> SUFFICES ASSUME FetchSafe, Read PROVE FetchSafe'
  OBVIOUS
<1> USE DEF FetchSafe
<1>1. UNCHANGED <<via, chain, answers, dialled>> /\ stage = "read"
  BY DEF Read
<1>2. \/ UNCHANGED url /\ stage' = "done" /\ outcome'.kind \in {"failed", "interim"}
      \/ stage' = "validate" /\ url' \in Urls /\ UNCHANGED outcome
      \/ /\ UNCHANGED url /\ stage' = "done"
         /\ \E r \in Replies : \E body \in Bodies(r) : outcome' = AcceptPage(r, body)
  <2>1. PICK r \in Replies :
          CASE r.status = "none"     -> UNCHANGED url /\ EndFetch(Failed("RESET"))
            [] r.status = "interim"  -> UNCHANGED url /\ EndFetch(IF via = "direct" THEN Interim ELSE Failed("STATUS"))
            [] r.status = "redirect" -> Follow(r)
            [] r.status = "final"    -> UNCHANGED url /\ \E body \in Bodies(r) : EndFetch(AcceptPage(r, body))
    BY DEF Read
  <2>2. r.status \in {"none", "interim", "redirect", "final"}
    BY DEF Replies, Silence
  <2>3. CASE r.status = "none"
    BY <2>1, <2>3 DEF EndFetch, Failed
  <2>4. CASE r.status = "interim"
    BY <2>1, <2>4 DEF EndFetch, Failed, Interim
  <2>5. CASE r.status = "redirect"
    <3>1. r.location \in Urls \cup {NoUrl}
      BY <2>5 DEF Replies, Silence
    <3>2. Follow(r)
      BY <2>1, <2>5
    <3> QED
      BY <3>1, <3>2 DEF Follow, EndFetch, Failed
  <2>6. CASE r.status = "final"
    BY <2>1, <2>6 DEF EndFetch
  <2> QED
    BY <2>2, <2>3, <2>4, <2>5, <2>6
<1>3. FetchTyped'
  BY <1>1, <1>2, AcceptedKind DEF FetchTyped
<1>4. HopIsAsked' /\ AllHaveAnswered'
  BY <1>2 DEF HopIsAsked, AllHaveAnswered
<1>5. ChainIsWithin' /\ DialledIsChecked'
  BY <1>1, <1>2 DEF ChainIsWithin, DialledIsChecked, ValidateRedirectChain, ValidateUrl
<1>6. PageIsLast'
  <2>1. ASSUME UNCHANGED url, outcome'.kind = "page", stage' = "done",
               NEW r \in Replies, NEW body \in Bodies(r), outcome' = AcceptPage(r, body)
        PROVE  ValidateRedirectChain(chain)
    BY <2>1, PageIsChecked DEF ChainIsWithin
  <2>2. outcome.kind # "page"
    BY <1>1 DEF PageIsLast
  <2>3. url = chain[Len(chain)] /\ \E d \in dialled : d.url = url
    BY <1>1 DEF HopIsAsked, DialledIsChecked
  <2> QED
    BY <1>1, <1>2, <2>1, <2>2, <2>3 DEF PageIsLast, ValidateRedirectChain, ValidateUrl
<1> QED
  BY <1>3, <1>4, <1>5, <1>6

\* Giving up is no page.
LEMMA TimeOutStep == FetchSafe /\ TimeOut => FetchSafe'
<1> SUFFICES ASSUME FetchSafe, TimeOut PROVE FetchSafe'
  OBVIOUS
<1>1. UNCHANGED <<via, url, chain, answers, dialled>> /\ stage' = "done" /\ outcome'.kind = "failed"
  BY DEF TimeOut, EndFetch, Failed
<1> QED
  BY <1>1
     DEF FetchSafe, FetchTyped, HopIsAsked, AllHaveAnswered, ChainIsWithin, DialledIsChecked, PageIsLast,
         ValidateRedirectChain, ValidateUrl

\* Every step keeps what the proof needs.
LEMMA FetchStep == FetchSafe /\ [FetchNext]_fetchVars => FetchSafe'
<1> SUFFICES ASSUME FetchSafe, [FetchNext]_fetchVars PROVE FetchSafe'
  OBVIOUS
<1>1. CASE UNCHANGED fetchVars
  BY <1>1
     DEF fetchVars, FetchSafe, FetchTyped, HopIsAsked, AllHaveAnswered, ChainIsWithin, DialledIsChecked, PageIsLast,
         ValidateRedirectChain, ValidateUrl
<1>2. CASE FetchNext
  BY <1>2, HopStep, ResolveStep, DialStep, ReadStep, TimeOutStep DEF FetchNext
<1> QED
  BY <1>1, <1>2

\* It gives the property.
LEMMA FetchSuffices == FetchSafe => FetchesAsChecked
<1> SUFFICES ASSUME FetchSafe PROVE FetchesAsChecked
  OBVIOUS
<1>1. via # "direct" => Len(chain) <= MaxRedirects + 1
  BY DEF FetchSafe, ChainIsWithin
<1>2. {d.url : d \in dialled} \subseteq {chain[i] : i \in DOMAIN chain}
  BY DEF FetchSafe, DialledIsChecked
<1> QED
  BY <1>1, <1>2 DEF FetchSafe, FetchesAsChecked, DialledIsChecked, PageIsLast

\* It gives the types.
LEMMA FetchSufficesTypes == FetchSafe => FetchTypeOK
<1> SUFFICES ASSUME FetchSafe PROVE FetchTypeOK
  OBVIOUS
<1>1. chain \in Seq(Urls) /\ Len(chain) \in Nat
  BY DEF FetchSafe, FetchTyped
<1>2. Len(chain) <= MaxRedirects + PolicyRedirects + 2
  BY <1>1, FetchAssumption DEF FetchSafe, ChainIsWithin, ValidateRedirectChain
<1>3. \A i \in DOMAIN chain : chain[i] \in Urls
  BY <1>1
<1> QED
  BY <1>2, <1>3 DEF FetchSafe, FetchTyped, FetchTypeOK

\* What a fetch holds is always of its types.
THEOREM FetchTypeCorrect == FetchSpec => []FetchTypeOK
<1>1. FetchSpec => []FetchSafe
  BY FetchStarts, FetchStep, PTL DEF FetchSpec
<1> QED
  BY <1>1, FetchSufficesTypes, PTL

-----------------------------------------------------------------------------
\* A page that arrives, is whole, or it is one of the code's three gaps.
Whole(r, page) ==
  \/ page.bytes = r.size /\ ~page.framed
  \/ r.framing = "length" /\ r.sent < r.size
  \/ r.framing = "chunked" /\ via # "socket"
  \/ r.framing = "length" /\ r.size > HopBytes /\ via = "direct"

\* The last reply of a fetch that is over.
Final == [status : {"final"}, media : BOOLEAN, packed : BOOLEAN, framing : {"length", "chunked", "close"},
          size : 0..MaxSize, sent : 0..MaxSize]

\* What the socket client receives.
LEMMA SocketReceives ==
  ASSUME NEW r \in Final, Possible(r), SocketBody(r).kind # "failed"
  PROVE  /\ SocketBody(r) = Received(r.sent, FALSE, FALSE)
         /\ r.sent = r.size \/ (r.framing = "length" /\ r.sent < r.size)
<1>1. r.sent <= r.size /\ (r.framing = "close" => r.sent = r.size) /\ r.sent \in Nat /\ r.size \in Nat
  BY FetchAssumption DEF Possible, Final
<1>2. ~(r.framing = "chunked" /\ r.sent < r.size)
  BY DEF SocketBody, Failed
<1>3. SocketBody(r) = Received(r.sent, FALSE, FALSE)
  BY <1>2 DEF SocketBody, Failed
<1>4. r.framing \in {"length", "chunked", "close"}
  BY DEF Final
<1> QED
  BY <1>1, <1>2, <1>3, <1>4

\* What the executor receives: the body up to its bound, and, of what was
\* announced within the bound or ended below it, all that was sent.
LEMMA ExecutorReceives ==
  ASSUME NEW r \in Final, NEW body \in ExecutorBodies(r), r.framing # "chunked"
  PROVE  /\ body.bytes = Lesser(r.sent, HopBytes) /\ body.framed = FALSE /\ body.cut \in BOOLEAN
         /\ body.cut = FALSE => r.sent < HopBytes \/ (r.framing = "length" /\ r.sent >= r.size)
<1>1. PICK cut \in IF r.sent < HopBytes \/ ((r.framing = "length" /\ r.sent >= r.size) /\ r.size <= HopBytes) THEN {FALSE}
                ELSE IF r.framing = "length" /\ r.sent >= r.size THEN BOOLEAN ELSE {TRUE} :
        body = Received(Lesser(r.sent, HopBytes), FALSE, cut)
  BY DEF ExecutorBodies
<1>2. body.cut = cut /\ body.bytes = Lesser(r.sent, HopBytes) /\ body.framed = FALSE
  BY <1>1 DEF Received
<1>3. cut \in BOOLEAN /\ (cut = FALSE => r.sent < HopBytes \/ (r.framing = "length" /\ r.sent >= r.size))
  BY <1>1
<1> QED
  BY <1>2, <1>3

\* A page not said to be truncated is whole.
LEMMA AcceptedIsWhole ==
  ASSUME MaxBytes <= HopBytes, via \in {"socket", "executor", "direct"},
         NEW r \in Final, Possible(r), NEW body \in Bodies(r),
         AcceptPage(r, body).kind = "page", ~AcceptPage(r, body).truncated
  PROVE  Whole(r, AcceptPage(r, body))
<1>1. body.kind # "failed"
  BY DEF AcceptPage
<1>2. /\ AcceptPage(r, body).bytes = body.bytes /\ AcceptPage(r, body).framed = body.framed
      /\ AcceptPage(r, body).truncated = IF via = "direct" THEN body.cut ELSE body.bytes >= MaxBytes
  BY <1>1 DEF AcceptPage, Failed
<1>3. r.sent \in Nat /\ r.size \in Nat /\ HopBytes \in Nat /\ MaxBytes \in Nat
  BY FetchAssumption DEF Final
<1>4. r.sent <= r.size /\ (r.framing = "close" => r.sent = r.size) /\ r.framing \in {"length", "chunked", "close"}
  BY DEF Possible, Final
<1>5. CASE via = "socket"
  <2>1. body = SocketBody(r)
    BY <1>5 DEF Bodies
  <2>2. body.bytes = r.sent /\ body.framed = FALSE
    BY <1>1, <2>1, SocketReceives DEF Received
  <2> QED
    BY <1>1, <1>2, <2>1, <2>2, SocketReceives DEF Whole
<1>6. CASE via # "socket" /\ r.framing # "chunked"
  <2>1. body \in ExecutorBodies(r)
    BY <1>6 DEF Bodies
  <2>2. body.bytes = Lesser(r.sent, HopBytes) /\ body.framed = FALSE
    BY <1>6, <2>1, ExecutorReceives
  <2>3. body.bytes = r.sent \/ (r.framing = "length" /\ r.sent >= r.size /\ r.size > HopBytes /\ via = "direct")
    <3>1. CASE r.sent <= HopBytes
      BY <2>2, <3>1 DEF Lesser
    <3>2. CASE r.sent > HopBytes /\ via = "direct"
      <4>1. body.cut = FALSE
        BY <1>2, <1>6, <2>1, <3>2, ExecutorReceives
      <4>2. r.sent < HopBytes \/ (r.framing = "length" /\ r.sent >= r.size)
        BY <1>6, <2>1, <4>1, ExecutorReceives
      <4> QED
        BY <1>3, <1>4, <3>2, <4>2
    <3>3. CASE r.sent > HopBytes /\ via = "executor"
      BY <1>2, <1>3, <2>2, <3>3 DEF Lesser
    <3> QED
      BY <1>3, <1>6, <3>1, <3>2, <3>3
  <2>4. r.sent = r.size \/ (r.framing = "length" /\ r.sent < r.size)
    BY <1>3, <1>4, <1>6
  <2> DEFINE page == AcceptPage(r, body)
  <2>5. page.bytes = body.bytes /\ page.framed = FALSE
    BY <1>2, <2>2
  <2> HIDE DEF page
  <2>6. Whole(r, page)
    BY <2>3, <2>4, <2>5 DEF Whole
  <2> QED
    BY <2>6 DEF page
<1>7. CASE via # "socket" /\ r.framing = "chunked"
  BY <1>7 DEF Whole
<1> QED
  BY <1>5, <1>6, <1>7

\* A read that ends in a page ends in a whole one.
LEMMA ReadIsWhole ==
  ASSUME MaxBytes <= HopBytes, FetchSafe, Read
  PROVE  PageIsWhole'
<1>1. UNCHANGED via /\ via \in {"socket", "executor", "direct"} /\ outcome.kind # "page"
  BY DEF Read, FetchSafe, FetchTyped, PageIsLast
<1>2. PICK r \in Replies :
        /\ Possible(r) /\ reply' = r
        /\ CASE r.status = "none"     -> UNCHANGED url /\ EndFetch(Failed("RESET"))
             [] r.status = "interim"  -> UNCHANGED url /\ EndFetch(IF via = "direct" THEN Interim ELSE Failed("STATUS"))
             [] r.status = "redirect" -> Follow(r)
             [] r.status = "final"    -> UNCHANGED url /\ \E body \in Bodies(r) : EndFetch(AcceptPage(r, body))
  BY DEF Read
<1>3. r.status \in {"none", "interim", "redirect", "final"}
  BY DEF Replies, Silence
<1>4. CASE r.status = "none"
  BY <1>2, <1>4 DEF EndFetch, Failed, PageIsWhole
<1>5. CASE r.status = "interim"
  BY <1>2, <1>5 DEF EndFetch, Failed, Interim, PageIsWhole
<1>6. CASE r.status = "redirect"
  BY <1>1, <1>2, <1>6 DEF Follow, EndFetch, Failed, PageIsWhole
<1>7. CASE r.status = "final"
  <2>1. r \in Final
    BY <1>7 DEF Replies, Silence, Final
  <2>2. PICK body \in Bodies(r) : outcome' = AcceptPage(r, body)
    BY <1>2, <1>7 DEF EndFetch
  <2>3. outcome'.kind = "page" /\ ~outcome'.truncated => Whole(r, outcome')
    BY <1>1, <1>2, <2>1, <2>2, AcceptedIsWhole
  <2> QED
    BY <1>1, <1>2, <2>3 DEF Whole, PageIsWhole
<1> QED
  BY <1>3, <1>4, <1>5, <1>6, <1>7

\* No other step ends in a page.
LEMMA WholeStep ==
  ASSUME MaxBytes <= HopBytes, FetchSafe, PageIsWhole, [FetchNext]_fetchVars
  PROVE  PageIsWhole'
<1>1. CASE Read
  BY <1>1, ReadIsWhole
<1>2. CASE UNCHANGED fetchVars
  BY <1>2 DEF fetchVars, PageIsWhole
<1>3. CASE Hop \/ Resolve \/ Dial \/ TimeOut
  <2>1. outcome.kind # "page"
    BY <1>3 DEF Hop, Resolve, Dial, TimeOut, FetchSafe, PageIsLast
  <2>2. outcome' = outcome \/ outcome'.kind = "failed"
    BY <1>3 DEF Hop, Resolve, Dial, TimeOut, EndFetch, Failed
  <2> QED
    BY <2>1, <2>2 DEF PageIsWhole
<1> QED
  BY <1>1, <1>2, <1>3 DEF FetchNext

\* Whatever resolvers and servers answer, a fetch connects only to allowed
\* URLs at addresses that were checked, and its page is of a chain without
\* a loop and within the limits; and where one exchange takes no less than
\* the fetch accepts, as in the code, a page that is not said to be
\* truncated is the page, but for the code's three gaps.
THEOREM FetchesAreChecked ==
  ASSUME MaxBytes <= HopBytes
  PROVE  FetchSpec => []FetchedAsChecked
<1>1. FetchInit => PageIsWhole
  <2>1. ASSUME FetchInit PROVE outcome.kind = "failed"
    BY <2>1 DEF FetchInit, Failed
  <2> QED
    BY <2>1 DEF PageIsWhole
<1>2. FetchSpec => []FetchSafe
  BY FetchStarts, FetchStep, PTL DEF FetchSpec
<1>3. PageIsWhole /\ FetchSafe /\ [FetchNext]_fetchVars => PageIsWhole'
  BY WholeStep
<1>4. FetchSpec => []PageIsWhole
  BY <1>1, <1>2, <1>3, PTL DEF FetchSpec
<1>5. FetchSafe /\ PageIsWhole => FetchedAsChecked
  BY FetchSuffices DEF FetchedAsChecked
<1> QED
  BY <1>2, <1>4, <1>5, PTL

-----------------------------------------------------------------------------
(* The servers for agents.                                                 *)

\* No failure is worded as a success.
LEMMA NoFailureCompletes == \A code : Agents!StateForFailure(code) \in {"input_required", "failed", "rejected"}
BY DEF Agents!StateForFailure

\* What an executed call comes to.
LEMMA ExecutedIs ==
  ASSUME NEW boundary \in Agents!Boundaries, NEW skill, NEW input
  PROVE  LET did == Agents!Execute(boundary, skill, input) IN
         /\ did.outcome \in {"fulfilled", "failed", "thrown"}
         /\ did.outcome = "fulfilled" => boundary = "fulfils" /\ did.result = <<skill, input>>
         /\ boundary = "closed" => did.outcome = "failed" /\ did.code = "payment_required"
         /\ boundary = "fulfils" => did.outcome = "fulfilled"
<1>1. CASE boundary = "fulfils"
  BY <1>1 DEF Agents!Execute
<1>2. CASE boundary = "closed"
  BY <1>2 DEF Agents!Execute
<1>3. CASE boundary = "throws"
  BY <1>3 DEF Agents!Execute
<1>4. CASE boundary \notin {"fulfils", "closed", "throws"}
  BY <1>4 DEF Agents!Execute
<1> QED
  BY <1>1, <1>2, <1>3, <1>4

\* What a surface answers: what the boundary made of the call, or nothing.
AnsweredBy(answer, call, boundary) ==
  LET asked == <<call.skill, call.input>> IN
  /\ answer.ran \in {{}, {asked}}
  /\ answer.result # Agents!Nothing => answer.result = asked /\ answer.ran = {asked} /\ boundary = "fulfils"
  /\ answer.state = "completed" <=> answer.result # Agents!Nothing
  /\ boundary = "fulfils" /\ answer.ran # {} => answer.result = asked
  /\ boundary = "closed" /\ answer.ran # {} => answer.code = "payment_required"

\* What is refused before the boundary has run nothing.
LEMMA RefusedIsAnswered ==
  ASSUME NEW status, NEW call, NEW boundary
  PROVE  AnsweredBy(Agents!Refused(status), call, boundary) /\ Agents!Refused(status).ran = {} /\ Agents!Refused(status).result = Agents!Nothing
BY DEF AnsweredBy, Agents!Refused, Agents!Nothing

\* The executor of A2A: what it may refuse itself does not run.
LEMMA ExecutorAnswers ==
  ASSUME NEW call, NEW dress, NEW boundary \in Agents!Boundaries
  PROVE  LET answer == Agents!Executor(call, dress, boundary) IN
         /\ AnsweredBy(answer, call, boundary)
         /\ answer.ran # {} <=> Agents!Parse(call, dress) = "ok"
<1> DEFINE did == Agents!Execute(boundary, call.skill, call.input)
           asked == <<call.skill, call.input>>
           answer == Agents!Executor(call, dress, boundary)
<1>1. /\ did.outcome \in {"fulfilled", "failed", "thrown"}
      /\ did.outcome = "fulfilled" => boundary = "fulfils" /\ did.result = asked
      /\ boundary = "closed" => did.outcome = "failed" /\ did.code = "payment_required"
      /\ boundary = "fulfils" => did.outcome = "fulfilled"
  BY ExecutedIs
<1>2. asked # Agents!Nothing /\ {asked} # {}
  BY DEF Agents!Nothing
<1>3. ASSUME NEW code, NEW ran
      PROVE  LET task == Agents!FailureTask(code, ran) IN
             task.ran = ran /\ task.code = code /\ task.result = Agents!Nothing /\ task.state # "completed"
  BY NoFailureCompletes DEF Agents!FailureTask
<1>4. CASE Agents!Parse(call, dress) # "ok"
  <2>1. answer = Agents!FailureTask(Agents!Parse(call, dress), {})
    BY <1>4 DEF Agents!Executor
  <2>2. answer.ran = {} /\ answer.result = Agents!Nothing /\ answer.state # "completed"
    BY <1>3, <2>1
  <2> QED
    BY <1>4, <2>2 DEF AnsweredBy
<1>5. CASE Agents!Parse(call, dress) = "ok"
  <2>1. CASE did.outcome = "fulfilled"
    <3>1. answer = Agents!FulfilledTask(did.result, {asked})
      BY <1>5, <2>1 DEF Agents!Executor
    <3>2. answer.ran = {asked} /\ answer.result = asked /\ answer.state = "completed"
      BY <1>1, <2>1, <3>1 DEF Agents!FulfilledTask
    <3> QED
      BY <1>1, <1>2, <1>5, <2>1, <3>2 DEF AnsweredBy
  <2>2. CASE did.outcome = "failed"
    <3>1. answer = Agents!FailureTask(did.code, {asked})
      BY <1>5, <2>2 DEF Agents!Executor
    <3>2. answer.ran = {asked} /\ answer.code = did.code /\ answer.result = Agents!Nothing /\ answer.state # "completed"
      BY <1>3, <3>1
    <3> QED
      BY <1>1, <1>2, <1>5, <2>2, <3>2 DEF AnsweredBy
  <2>3. CASE did.outcome = "thrown"
    <3>1. answer = Agents!FailureTask("repository_error", {asked})
      BY <1>5, <2>3 DEF Agents!Executor
    <3>2. answer.ran = {asked} /\ answer.result = Agents!Nothing /\ answer.state # "completed"
      BY <1>3, <3>1
    <3> QED
      BY <1>1, <1>2, <1>5, <2>3, <3>2 DEF AnsweredBy
  <2> QED
    BY <1>1, <2>1, <2>2, <2>3
<1> QED
  BY <1>4, <1>5

\* A tool of MCP runs what it is asked for.
LEMMA ToolAnswers ==
  ASSUME NEW call, NEW boundary \in Agents!Boundaries
  PROVE  AnsweredBy(Agents!Tool(call, boundary), call, boundary) /\ Agents!Tool(call, boundary).ran # {}
<1> DEFINE did == Agents!Execute(boundary, call.skill, call.input)
           asked == <<call.skill, call.input>>
           answer == Agents!Tool(call, boundary)
<1>1. /\ did.outcome \in {"fulfilled", "failed", "thrown"}
      /\ did.outcome = "fulfilled" => boundary = "fulfils" /\ did.result = asked
      /\ boundary = "closed" => did.outcome = "failed" /\ did.code = "payment_required"
      /\ boundary = "fulfils" => did.outcome = "fulfilled"
  BY ExecutedIs
<1>2. asked # Agents!Nothing /\ {asked} # {}
  BY DEF Agents!Nothing
<1>3. CASE did.outcome = "fulfilled"
  <2>1. answer.ran = {asked} /\ answer.result = asked /\ answer.state = "completed"
    BY <1>1, <1>3 DEF Agents!Tool
  <2> QED
    BY <1>1, <1>2, <1>3, <2>1 DEF AnsweredBy
<1>4. CASE did.outcome = "failed"
  <2>1. answer = Agents!ErrorResult(did.code, {asked})
    BY <1>4 DEF Agents!Tool
  <2>2. answer.ran = {asked} /\ answer.code = did.code /\ answer.result = Agents!Nothing /\ answer.state # "completed"
    BY <2>1 DEF Agents!ErrorResult
  <2> QED
    BY <1>1, <1>2, <1>4, <2>2 DEF AnsweredBy
<1>5. CASE did.outcome = "thrown"
  <2>1. answer = Agents!ErrorResult("thrown", {asked})
    BY <1>5 DEF Agents!Tool
  <2>2. answer.ran = {asked} /\ answer.result = Agents!Nothing /\ answer.state # "completed"
    BY <2>1 DEF Agents!ErrorResult
  <2> QED
    BY <1>1, <1>2, <1>5, <2>2 DEF AnsweredBy
<1> QED
  BY <1>1, <1>3, <1>4, <1>5

\* When a call gets through to the boundary.
ThroughA2a(call, dress) ==
  /\ dress.host /\ dress.origin # "other" /\ dress.type = "json" /\ dress.json /\ call.size <= Agents!MaxRequest
  /\ Agents!RawRequest(call, dress) /\ dress.method # "other" /\ Agents!Parse(call, dress) = "ok"
ThroughMcp(call, dress) ==
  /\ call.size <= Agents!MaxMcp /\ dress.host /\ dress.origin # "other" /\ ~ (dress.json /\ call.input = "hostile")
  /\ Agents!Sdk(call, dress)

\* The A2A server answers by the boundary, and asks it exactly when the
\* call gets through.
LEMMA A2aAnswers ==
  ASSUME NEW call, call.size \in Nat, NEW dress, NEW boundary \in Agents!Boundaries
  PROVE  LET answer == Agents!A2a(call, dress, boundary) IN
         AnsweredBy(answer, call, boundary) /\ (answer.ran # {} <=> ThroughA2a(call, dress))
<1> DEFINE answer == Agents!A2a(call, dress, boundary)
           through == /\ dress.host /\ dress.origin # "other" /\ dress.type = "json" /\ ~ call.size > Agents!MaxRequest
                      /\ dress.json /\ Agents!RawRequest(call, dress) /\ dress.method # "other"
<1>1. CASE through
  <2>1. answer = Agents!Executor(call, dress, boundary)
    BY <1>1 DEF Agents!A2a
  <2>2. call.size <= Agents!MaxRequest
    BY <1>1 DEF Agents!MaxRequest
  <2> QED
    BY <1>1, <2>1, <2>2, ExecutorAnswers DEF ThroughA2a
<1>2. CASE ~ through
  <2>1. \E status \in {200, 400, 403, 413, 415} : answer = Agents!Refused(status)
    BY <1>2 DEF Agents!A2a
  <2>2. call.size <= Agents!MaxRequest => ~ call.size > Agents!MaxRequest
    BY DEF Agents!MaxRequest
  <2>3. ~ ThroughA2a(call, dress)
    BY ONLY <1>2, <2>2 DEF ThroughA2a, through
  <2> QED
    BY <2>1, <2>3, RefusedIsAnswered
<1> QED
  BY <1>1, <1>2

\* So does the MCP server.
LEMMA McpAnswers ==
  ASSUME NEW call, call.size \in Nat, NEW dress, NEW boundary \in Agents!Boundaries
  PROVE  LET answer == Agents!Mcp(call, dress, boundary) IN
         AnsweredBy(answer, call, boundary) /\ (answer.ran # {} <=> ThroughMcp(call, dress))
<1> DEFINE answer == Agents!Mcp(call, dress, boundary)
<1>1. CASE ThroughMcp(call, dress)
  <2>1. answer = Agents!Tool(call, boundary)
    BY <1>1 DEF Agents!Mcp, ThroughMcp, Agents!MaxMcp
  <2> QED
    BY <1>1, <2>1, ToolAnswers
<1>2. CASE ~ ThroughMcp(call, dress)
  <2>1. \E status \in {400, 403, 413} : answer = Agents!Refused(status)
    BY <1>2 DEF Agents!Mcp, ThroughMcp, Agents!MaxMcp
  <2> QED
    BY <1>2, <2>1, RefusedIsAnswered
<1> QED
  BY <1>1, <1>2

\* Both servers serve every call as they should, whatever the boundary does
\* and in whatever request, where the runs have requests with up to two
\* things wrong: nothing but the boundary's result for what was asked is
\* delivered, nothing hostile or unfit reaches it, a closed boundary gives
\* nothing away, payment is not read, and the two are alike but for the
\* differences that are named.
THEOREM EveryCallIsServed ==
  \A call \in Agents!Calls, dress \in Agents!Dress, boundary \in Agents!Boundaries :
    Agents!AgentsAreServed(call, dress, boundary)
<1> SUFFICES ASSUME NEW call \in Agents!Calls, NEW dress \in Agents!Dress, NEW boundary \in Agents!Boundaries
             PROVE  Agents!AgentsAreServed(call, dress, boundary)
  OBVIOUS
<1> DEFINE a == Agents!A2a(call, dress, boundary)
           m == Agents!Mcp(call, dress, boundary)
           asked == <<call.skill, call.input>>
<1>1. call.size \in Nat /\ call.input \in Agents!Arguments /\ call.skill \in Agents!Skills
  BY DEF Agents!Calls
<1>2. dress.json \in BOOLEAN /\ dress.method \in {"send", "legacy", "other"} /\ dress.version \in {"none", "v1", "v2"}
  BY DEF Agents!Dress
<1>3. AnsweredBy(a, call, boundary) /\ (a.ran # {} <=> ThroughA2a(call, dress))
  BY <1>1, A2aAnswers
<1>4. AnsweredBy(m, call, boundary) /\ (m.ran # {} <=> ThroughMcp(call, dress))
  BY <1>1, McpAnswers
<1>5. asked # Agents!Nothing /\ {asked} # {}
  BY DEF Agents!Nothing
<1>6. ThroughA2a(call, dress) => Agents!Matches(call.input) /\ call.input # "hostile" /\ call.skill \in Agents!Advertised
  BY DEF ThroughA2a, Agents!Parse
<1>7. ThroughMcp(call, dress) => Agents!Matches(call.input) /\ call.input # "hostile" /\ call.skill \in Agents!Tools
  BY DEF ThroughMcp, Agents!Sdk
<1>8. Agents!Tools \subseteq Agents!Advertised
  BY DEF Agents!Tools, Agents!Advertised
<1>9. Agents!PaymentIsNotRead(call, dress, boundary)
  <2> DEFINE paid == [dress EXCEPT !.payment = ~@]
  <2>1. /\ paid.host = dress.host /\ paid.origin = dress.origin /\ paid.type = dress.type /\ paid.json = dress.json
        /\ paid.method = dress.method /\ paid.parts = dress.parts /\ paid.object = dress.object
        /\ paid.version = dress.version /\ paid.unknown = dress.unknown
    BY DEF Agents!Dress
  <2> HIDE DEF paid
  <2>2. Agents!Parse(call, paid) = Agents!Parse(call, dress) /\ (Agents!RawRequest(call, paid) <=> Agents!RawRequest(call, dress))
    BY <2>1 DEF Agents!Parse, Agents!RawRequest
  <2>3. Agents!Executor(call, paid, boundary) = Agents!Executor(call, dress, boundary)
    BY <2>2 DEF Agents!Executor
  <2>4. Agents!A2a(call, paid, boundary) = Agents!A2a(call, dress, boundary)
    BY <2>1, <2>2, <2>3 DEF Agents!A2a
  <2> QED
    BY <2>4 DEF Agents!PaymentIsNotRead, paid
<1> HIDE DEF a, m, asked
<1>10. Agents!Faithful(call, a, boundary) /\ Agents!Faithful(call, m, boundary)
  BY <1>3, <1>4, <1>5, <1>6, <1>7, <1>8 DEF Agents!Faithful, AnsweredBy, asked
<1>11. boundary = "closed" => Agents!NothingIsFree(a) /\ Agents!NothingIsFree(m)
  BY <1>3, <1>4 DEF Agents!NothingIsFree, AnsweredBy
<1>12. Agents!SurfacesAlike(call, dress, boundary)
  <2>1. a.result # Agents!Nothing /\ call.skill.major = 2 => m.result = a.result
    <3> SUFFICES ASSUME a.result # Agents!Nothing, call.skill.major = 2 PROVE m.result = a.result
      OBVIOUS
    <3>1. a.result = asked /\ boundary = "fulfils" /\ ThroughA2a(call, dress)
      BY <1>3, <1>5 DEF AnsweredBy, asked
    <3>2. call.skill \in Agents!Tools
      BY <1>6, <3>1 DEF Agents!Advertised, Agents!Tools
    <3>3. call.size <= Agents!MaxMcp
      <4>1. call.size <= Agents!MaxRequest
        BY ONLY <3>1 DEF ThroughA2a
      <4> QED
        BY <1>1, <4>1 DEF Agents!MaxMcp, Agents!MaxRequest
    <3>4. dress.method = "send"
      BY <1>2, <3>1 DEF ThroughA2a, Agents!RawRequest
    <3>5. ThroughMcp(call, dress)
      BY ONLY <1>6, <3>1, <3>2, <3>3, <3>4 DEF ThroughA2a, ThroughMcp, Agents!Sdk
    <3> QED
      BY <1>4, <3>1, <3>5 DEF AnsweredBy, asked
  <2>2. ASSUME m.result # Agents!Nothing, dress.type = "json", dress.parts = "data", dress.object, ~ dress.unknown,
               ~ call.size > Agents!MaxData, call.input # "deep", dress.version # "v2"
        PROVE  a.result = m.result
    <3>1. m.result = asked /\ boundary = "fulfils" /\ ThroughMcp(call, dress)
      BY <1>4, <2>2 DEF AnsweredBy, asked
    <3>2. Agents!RawRequest(call, dress)
      BY <1>1, <1>7, <2>2, <3>1 DEF ThroughMcp, Agents!Sdk, Agents!RawRequest, Agents!ObjectSafety, Agents!MaxData
    <3>3. Agents!Parse(call, dress) = "ok"
      BY <1>7, <1>8, <2>2, <3>1 DEF Agents!Parse
    <3>4. call.size <= Agents!MaxRequest
      BY <1>1, <2>2 DEF Agents!MaxData, Agents!MaxRequest
    <3>5. dress.method # "other"
      BY <3>1 DEF ThroughMcp, Agents!Sdk
    <3>6. ThroughA2a(call, dress)
      BY ONLY <2>2, <3>1, <3>2, <3>3, <3>4, <3>5 DEF ThroughA2a, ThroughMcp, Agents!Sdk
    <3> QED
      BY <1>3, <3>1, <3>6 DEF AnsweredBy, asked
  <2> QED
    BY <2>1, <2>2 DEF Agents!SurfacesAlike, a, m
<1> QED
  BY <1>9, <1>10, <1>11, <1>12 DEF Agents!AgentsAreServed, a, m

-----------------------------------------------------------------------------
(* The prices.                                                             *)

\* What is sold.
Sold == {Surfaces!CompanyV1, Surfaces!WebV1, Surfaces!DocumentV1, Surfaces!VerifyV1,
         Surfaces!CompanyV2, Surfaces!WebV2, Surfaces!DocumentV2, Surfaces!VerifyV2}

\* What a price list says of an entry: it is sold as all surfaces tell it.
Agreed(r) ==
  LET s == r.service IN
  /\ s \in Surfaces!Services /\ r.scheme \in {"exact", "upto"} /\ r.release = s.major
  /\ r.runs = s /\ (r.metered <=> r.scheme = "upto") /\ (s.name = "verify" => r.checked)
  /\ Surfaces!Declaration(s).scheme = r.scheme /\ Surfaces!Declaration(s).amount = Surfaces!Price[r.key]
  /\ Surfaces!Plan(s).scheme = r.scheme /\ Surfaces!Plan(s).amount = Surfaces!Price[r.key]
  /\ Surfaces!CardEntry(s).scheme = r.scheme
  /\ Surfaces!McpQuote(s, r.scheme).amount = Surfaces!Price[r.key]
  /\ Surfaces!Price[r.key] <= Surfaces!Seeded(s)

\* The prices that are asked, by their keys.
LEMMA PricesAsked ==
  /\ Surfaces!Price["company"] = 39000 /\ Surfaces!Price["web_direct"] = 9000
  /\ Surfaces!Price["document_max_job"] = 190000 /\ Surfaces!Price["verify_standard"] = 19000
BY DEF Surfaces!Price

\* What the surfaces tell of each name, in either version.
AsTold(name, scheme, key, most) ==
  \A major \in 1..2 : LET s == [name |-> name, major |-> major] IN
    /\ s \in Surfaces!Services /\ s.name = name /\ s.major = major
    /\ Surfaces!Declaration(s).scheme = scheme /\ Surfaces!Declaration(s).amount = Surfaces!Price[key]
    /\ Surfaces!Plan(s).scheme = scheme /\ Surfaces!Plan(s).amount = Surfaces!Price[key]
    /\ Surfaces!CardEntry(s).scheme = scheme /\ Surfaces!McpQuote(s, scheme).amount = Surfaces!Price[key]
    /\ Surfaces!Seeded(s) = most

\* The tables, by name.
LEMMA ToldOfEach ==
  /\ AsTold("company", "exact", "company", 190000) /\ AsTold("web", "exact", "web_direct", 29000)
  /\ AsTold("document", "upto", "document_max_job", 190000) /\ AsTold("verify", "exact", "verify_standard", 49000)
<1> DEFINE Service(name, major) == [name |-> name, major |-> major]
<1>1. ASSUME NEW name \in Surfaces!Names, NEW major \in 1..2
      PROVE  Service(name, major) \in Surfaces!Services /\ Service(name, major).name = name /\ Service(name, major).major = major
  BY DEF Surfaces!Services
<1>2. /\ "company" \in Surfaces!Names /\ "web" \in Surfaces!Names /\ "document" \in Surfaces!Names /\ "verify" \in Surfaces!Names
  BY DEF Surfaces!Names
<1>3. ASSUME NEW s, s.name = "company"
      PROVE  /\ Surfaces!BazaarPolicy(s) = Surfaces!Cost("exact", "company") /\ Surfaces!Seeded(s) = 190000
             /\ Surfaces!ExactKey[s.name] = "company" /\ Surfaces!FixedKey[s.name] = "company"
  BY <1>3 DEF Surfaces!BazaarPolicy, Surfaces!Seeded, Surfaces!ExactKey, Surfaces!FixedKey
<1>4. ASSUME NEW s, s.name = "web"
      PROVE  /\ Surfaces!BazaarPolicy(s) = Surfaces!Cost("exact", "web_direct") /\ Surfaces!Seeded(s) = 29000
             /\ Surfaces!ExactKey[s.name] = "web_direct" /\ Surfaces!FixedKey[s.name] = "web_direct"
  BY <1>4 DEF Surfaces!BazaarPolicy, Surfaces!Seeded, Surfaces!ExactKey, Surfaces!FixedKey
<1>5. ASSUME NEW s, s.name = "document"
      PROVE  /\ Surfaces!BazaarPolicy(s) = Surfaces!Cost("upto", "document_max_job") /\ Surfaces!Seeded(s) = 190000
             /\ Surfaces!UptoKey[s.name] = "document_max_job" /\ Surfaces!Price.document_max_job = Surfaces!Price["document_max_job"]
  BY <1>5 DEF Surfaces!BazaarPolicy, Surfaces!Seeded, Surfaces!UptoKey
<1>6. ASSUME NEW s, s.name = "verify"
      PROVE  /\ Surfaces!BazaarPolicy(s) = Surfaces!Cost("exact", "verify_standard") /\ Surfaces!Seeded(s) = 49000
             /\ Surfaces!ExactKey[s.name] = "verify_standard" /\ Surfaces!FixedKey[s.name] = "verify_standard"
  BY <1>6 DEF Surfaces!BazaarPolicy, Surfaces!Seeded, Surfaces!ExactKey, Surfaces!FixedKey
<1>7. ASSUME NEW s, NEW scheme, NEW key, Surfaces!BazaarPolicy(s) = Surfaces!Cost(scheme, key)
      PROVE  /\ Surfaces!Declaration(s).scheme = scheme /\ Surfaces!Declaration(s).amount = Surfaces!Price[key]
             /\ Surfaces!CardEntry(s).scheme = scheme
  BY <1>7 DEF Surfaces!Declaration, Surfaces!CardEntry, Surfaces!Cost
<1>8. ASSUME NEW s, NEW key, s.name # "document", Surfaces!FixedKey[s.name] = key, Surfaces!ExactKey[s.name] = key
      PROVE  /\ Surfaces!Plan(s).scheme = "exact" /\ Surfaces!Plan(s).amount = Surfaces!Price[key]
             /\ Surfaces!McpQuote(s, "exact").amount = Surfaces!Price[key]
  BY <1>8 DEF Surfaces!Plan, Surfaces!McpQuote
<1>9. ASSUME NEW s, s.name = "document", Surfaces!UptoKey[s.name] = "document_max_job",
             Surfaces!Price.document_max_job = Surfaces!Price["document_max_job"]
      PROVE  /\ Surfaces!Plan(s).scheme = "upto" /\ Surfaces!Plan(s).amount = Surfaces!Price["document_max_job"]
             /\ Surfaces!McpQuote(s, "upto").amount = Surfaces!Price["document_max_job"]
  BY <1>9 DEF Surfaces!Plan, Surfaces!McpQuote
<1>10. AsTold("company", "exact", "company", 190000)
  <2> SUFFICES ASSUME NEW major \in 1..2
               PROVE  LET s == Service("company", major) IN
                      /\ s \in Surfaces!Services /\ s.name = "company" /\ s.major = major
                      /\ Surfaces!Declaration(s).scheme = "exact" /\ Surfaces!Declaration(s).amount = Surfaces!Price["company"]
                      /\ Surfaces!Plan(s).scheme = "exact" /\ Surfaces!Plan(s).amount = Surfaces!Price["company"]
                      /\ Surfaces!CardEntry(s).scheme = "exact"
                      /\ Surfaces!McpQuote(s, "exact").amount = Surfaces!Price["company"]
                      /\ Surfaces!Seeded(s) = 190000
    BY DEF AsTold
  <2> DEFINE s == Service("company", major)
  <2>1. s \in Surfaces!Services /\ s.name = "company" /\ s.major = major
    BY <1>1, <1>2
  <2> HIDE DEF s
  <2>2. /\ Surfaces!Declaration(s).scheme = "exact" /\ Surfaces!Declaration(s).amount = Surfaces!Price["company"]
        /\ Surfaces!Plan(s).scheme = "exact" /\ Surfaces!Plan(s).amount = Surfaces!Price["company"]
        /\ Surfaces!CardEntry(s).scheme = "exact"
        /\ Surfaces!McpQuote(s, "exact").amount = Surfaces!Price["company"]
        /\ Surfaces!Seeded(s) = 190000
    BY <2>1, <1>3, <1>7, <1>8
  <2> QED
    BY <2>1, <2>2 DEF s
<1>11. AsTold("web", "exact", "web_direct", 29000)
  <2> SUFFICES ASSUME NEW major \in 1..2
               PROVE  LET s == Service("web", major) IN
                      /\ s \in Surfaces!Services /\ s.name = "web" /\ s.major = major
                      /\ Surfaces!Declaration(s).scheme = "exact" /\ Surfaces!Declaration(s).amount = Surfaces!Price["web_direct"]
                      /\ Surfaces!Plan(s).scheme = "exact" /\ Surfaces!Plan(s).amount = Surfaces!Price["web_direct"]
                      /\ Surfaces!CardEntry(s).scheme = "exact"
                      /\ Surfaces!McpQuote(s, "exact").amount = Surfaces!Price["web_direct"]
                      /\ Surfaces!Seeded(s) = 29000
    BY DEF AsTold
  <2> DEFINE s == Service("web", major)
  <2>1. s \in Surfaces!Services /\ s.name = "web" /\ s.major = major
    BY <1>1, <1>2
  <2> HIDE DEF s
  <2>2. /\ Surfaces!Declaration(s).scheme = "exact" /\ Surfaces!Declaration(s).amount = Surfaces!Price["web_direct"]
        /\ Surfaces!Plan(s).scheme = "exact" /\ Surfaces!Plan(s).amount = Surfaces!Price["web_direct"]
        /\ Surfaces!CardEntry(s).scheme = "exact"
        /\ Surfaces!McpQuote(s, "exact").amount = Surfaces!Price["web_direct"]
        /\ Surfaces!Seeded(s) = 29000
    BY <2>1, <1>4, <1>7, <1>8
  <2> QED
    BY <2>1, <2>2 DEF s
<1>12. AsTold("document", "upto", "document_max_job", 190000)
  <2> SUFFICES ASSUME NEW major \in 1..2
               PROVE  LET s == Service("document", major) IN
                      /\ s \in Surfaces!Services /\ s.name = "document" /\ s.major = major
                      /\ Surfaces!Declaration(s).scheme = "upto" /\ Surfaces!Declaration(s).amount = Surfaces!Price["document_max_job"]
                      /\ Surfaces!Plan(s).scheme = "upto" /\ Surfaces!Plan(s).amount = Surfaces!Price["document_max_job"]
                      /\ Surfaces!CardEntry(s).scheme = "upto"
                      /\ Surfaces!McpQuote(s, "upto").amount = Surfaces!Price["document_max_job"]
                      /\ Surfaces!Seeded(s) = 190000
    BY DEF AsTold
  <2> DEFINE s == Service("document", major)
  <2>1. s \in Surfaces!Services /\ s.name = "document" /\ s.major = major
    BY <1>1, <1>2
  <2> HIDE DEF s
  <2>2. /\ Surfaces!Declaration(s).scheme = "upto" /\ Surfaces!Declaration(s).amount = Surfaces!Price["document_max_job"]
        /\ Surfaces!Plan(s).scheme = "upto" /\ Surfaces!Plan(s).amount = Surfaces!Price["document_max_job"]
        /\ Surfaces!CardEntry(s).scheme = "upto"
        /\ Surfaces!McpQuote(s, "upto").amount = Surfaces!Price["document_max_job"]
        /\ Surfaces!Seeded(s) = 190000
    BY <2>1, <1>5, <1>7, <1>9
  <2> QED
    BY <2>1, <2>2 DEF s
<1>13. AsTold("verify", "exact", "verify_standard", 49000)
  <2> SUFFICES ASSUME NEW major \in 1..2
               PROVE  LET s == Service("verify", major) IN
                      /\ s \in Surfaces!Services /\ s.name = "verify" /\ s.major = major
                      /\ Surfaces!Declaration(s).scheme = "exact" /\ Surfaces!Declaration(s).amount = Surfaces!Price["verify_standard"]
                      /\ Surfaces!Plan(s).scheme = "exact" /\ Surfaces!Plan(s).amount = Surfaces!Price["verify_standard"]
                      /\ Surfaces!CardEntry(s).scheme = "exact"
                      /\ Surfaces!McpQuote(s, "exact").amount = Surfaces!Price["verify_standard"]
                      /\ Surfaces!Seeded(s) = 49000
    BY DEF AsTold
  <2> DEFINE s == Service("verify", major)
  <2>1. s \in Surfaces!Services /\ s.name = "verify" /\ s.major = major
    BY <1>1, <1>2
  <2> HIDE DEF s
  <2>2. /\ Surfaces!Declaration(s).scheme = "exact" /\ Surfaces!Declaration(s).amount = Surfaces!Price["verify_standard"]
        /\ Surfaces!Plan(s).scheme = "exact" /\ Surfaces!Plan(s).amount = Surfaces!Price["verify_standard"]
        /\ Surfaces!CardEntry(s).scheme = "exact"
        /\ Surfaces!McpQuote(s, "exact").amount = Surfaces!Price["verify_standard"]
        /\ Surfaces!Seeded(s) = 49000
    BY <2>1, <1>6, <1>7, <1>8
  <2> QED
    BY <2>1, <2>2 DEF s
<1> QED
  BY <1>10, <1>11, <1>12, <1>13

\* An entry of the price list, and what makes it agree.
InList(r, name, major, scheme, key) ==
  /\ major \in 1..2 /\ scheme \in {"exact", "upto"}
  /\ r.service = [name |-> name, major |-> major] /\ r.scheme = scheme /\ r.key = key /\ r.release = major
  /\ r.runs = r.service /\ (r.metered <=> scheme = "upto") /\ (name = "verify" => r.checked)
Affordable(key, most) == most \in Nat /\ Surfaces!Price[key] \in Nat /\ Surfaces!Price[key] <= most

LEMMA ListedAgrees ==
  ASSUME NEW r, NEW name, NEW major, NEW scheme, NEW key, NEW most,
         InList(r, name, major, scheme, key), AsTold(name, scheme, key, most), Affordable(key, most)
  PROVE  Agreed(r) /\ r.service.name = name /\ r.service.major = major
<1> DEFINE s == [name |-> name, major |-> major]
<1>1. /\ s \in Surfaces!Services /\ s.name = name /\ s.major = major
      /\ Surfaces!Declaration(s).scheme = scheme /\ Surfaces!Declaration(s).amount = Surfaces!Price[key]
      /\ Surfaces!Plan(s).scheme = scheme /\ Surfaces!Plan(s).amount = Surfaces!Price[key]
      /\ Surfaces!CardEntry(s).scheme = scheme /\ Surfaces!McpQuote(s, scheme).amount = Surfaces!Price[key]
      /\ Surfaces!Seeded(s) = most
  BY DEF AsTold, InList
<1>2. r.service = s
  BY DEF InList
<1> HIDE DEF s
<1> QED
  BY <1>1, <1>2 DEF Agreed, InList, Affordable

\* Each of the eight entries.
LEMMA SoldAgrees ==
  /\ Agreed(Surfaces!CompanyV1) /\ Surfaces!CompanyV1.service.name = "company" /\ Surfaces!CompanyV1.service.major = 1
  /\ Agreed(Surfaces!WebV1) /\ Surfaces!WebV1.service.name = "web" /\ Surfaces!WebV1.service.major = 1
  /\ Agreed(Surfaces!DocumentV1) /\ Surfaces!DocumentV1.service.name = "document" /\ Surfaces!DocumentV1.service.major = 1
  /\ Agreed(Surfaces!VerifyV1) /\ Surfaces!VerifyV1.service.name = "verify" /\ Surfaces!VerifyV1.service.major = 1
  /\ Agreed(Surfaces!CompanyV2) /\ Surfaces!CompanyV2.service.name = "company" /\ Surfaces!CompanyV2.service.major = 2
  /\ Agreed(Surfaces!WebV2) /\ Surfaces!WebV2.service.name = "web" /\ Surfaces!WebV2.service.major = 2
  /\ Agreed(Surfaces!DocumentV2) /\ Surfaces!DocumentV2.service.name = "document" /\ Surfaces!DocumentV2.service.major = 2
  /\ Agreed(Surfaces!VerifyV2) /\ Surfaces!VerifyV2.service.name = "verify" /\ Surfaces!VerifyV2.service.major = 2
<1>1. Agreed(Surfaces!CompanyV1) /\ Surfaces!CompanyV1.service.name = "company" /\ Surfaces!CompanyV1.service.major = 1
  <2>1. InList(Surfaces!CompanyV1, "company", 1, "exact", "company")
    BY DEF InList, Surfaces!CompanyV1, Surfaces!Sells
  <2>2. Affordable("company", 190000)
    BY PricesAsked DEF Affordable
  <2> QED
    BY <2>1, <2>2, ToldOfEach, ListedAgrees
<1>2. Agreed(Surfaces!WebV1) /\ Surfaces!WebV1.service.name = "web" /\ Surfaces!WebV1.service.major = 1
  <2>1. InList(Surfaces!WebV1, "web", 1, "exact", "web_direct")
    BY DEF InList, Surfaces!WebV1, Surfaces!Sells
  <2>2. Affordable("web_direct", 29000)
    BY PricesAsked DEF Affordable
  <2> QED
    BY <2>1, <2>2, ToldOfEach, ListedAgrees
<1>3. Agreed(Surfaces!DocumentV1) /\ Surfaces!DocumentV1.service.name = "document" /\ Surfaces!DocumentV1.service.major = 1
  <2>1. InList(Surfaces!DocumentV1, "document", 1, "upto", "document_max_job")
    BY DEF InList, Surfaces!DocumentV1, Surfaces!Sells
  <2>2. Affordable("document_max_job", 190000)
    BY PricesAsked DEF Affordable
  <2> QED
    BY <2>1, <2>2, ToldOfEach, ListedAgrees
<1>4. Agreed(Surfaces!VerifyV1) /\ Surfaces!VerifyV1.service.name = "verify" /\ Surfaces!VerifyV1.service.major = 1
  <2>1. InList(Surfaces!VerifyV1, "verify", 1, "exact", "verify_standard")
    BY DEF InList, Surfaces!VerifyV1, Surfaces!Sells
  <2>2. Affordable("verify_standard", 49000)
    BY PricesAsked DEF Affordable
  <2> QED
    BY <2>1, <2>2, ToldOfEach, ListedAgrees
<1>5. Agreed(Surfaces!CompanyV2) /\ Surfaces!CompanyV2.service.name = "company" /\ Surfaces!CompanyV2.service.major = 2
  <2>1. InList(Surfaces!CompanyV2, "company", 2, "exact", "company")
    BY DEF InList, Surfaces!CompanyV2, Surfaces!Sells
  <2>2. Affordable("company", 190000)
    BY PricesAsked DEF Affordable
  <2> QED
    BY <2>1, <2>2, ToldOfEach, ListedAgrees
<1>6. Agreed(Surfaces!WebV2) /\ Surfaces!WebV2.service.name = "web" /\ Surfaces!WebV2.service.major = 2
  <2>1. InList(Surfaces!WebV2, "web", 2, "exact", "web_direct")
    BY DEF InList, Surfaces!WebV2, Surfaces!Sells
  <2>2. Affordable("web_direct", 29000)
    BY PricesAsked DEF Affordable
  <2> QED
    BY <2>1, <2>2, ToldOfEach, ListedAgrees
<1>7. Agreed(Surfaces!DocumentV2) /\ Surfaces!DocumentV2.service.name = "document" /\ Surfaces!DocumentV2.service.major = 2
  <2>1. InList(Surfaces!DocumentV2, "document", 2, "upto", "document_max_job")
    BY DEF InList, Surfaces!DocumentV2, Surfaces!Sells
  <2>2. Affordable("document_max_job", 190000)
    BY PricesAsked DEF Affordable
  <2> QED
    BY <2>1, <2>2, ToldOfEach, ListedAgrees
<1>8. Agreed(Surfaces!VerifyV2) /\ Surfaces!VerifyV2.service.name = "verify" /\ Surfaces!VerifyV2.service.major = 2
  <2>1. InList(Surfaces!VerifyV2, "verify", 2, "exact", "verify_standard")
    BY DEF InList, Surfaces!VerifyV2, Surfaces!Sells
  <2>2. Affordable("verify_standard", 49000)
    BY PricesAsked DEF Affordable
  <2> QED
    BY <2>1, <2>2, ToldOfEach, ListedAgrees
<1> QED
  BY <1>1, <1>2, <1>3, <1>4, <1>5, <1>6, <1>7, <1>8

\* And so all of them.
LEMMA SoldAsAgreed == \A r \in Sold : Agreed(r)
BY SoldAgrees DEF Sold

\* A service is sold in one way.
LEMMA SoldOnce == \A r, q \in Sold : r.service = q.service => r = q
BY SoldAgrees DEF Sold

\* A route sells one of them on one of the two rails.
LEMMA RoutesSell ==
  ASSUME NEW config, NEW r \in Surfaces!Routes(config)
  PROVE  /\ r.sold \in Sold /\ r = [sold |-> r.sold, way |-> r.way]
         /\ r.way \in {Surfaces!CdpRoute(config, r.sold.service), Surfaces!NeverminedRoute(r.sold.service)}
BY DEF Sold, Surfaces!Routes, Surfaces!V1, Surfaces!V2

\* Different services and rails have different paths.
LEMMA PathsDiffer ==
  \A s, t \in Surfaces!Services :
    /\ Surfaces!Path(s) = Surfaces!Path(t) => s = t
    /\ Surfaces!NeverminedPath(s) = Surfaces!NeverminedPath(t) => s = t
    /\ Surfaces!Path(s) # Surfaces!NeverminedPath(t)
    /\ \A scheme : Surfaces!McpQuote(s, scheme).path \notin {Surfaces!Path(t), Surfaces!NeverminedPath(t)}
BY DEF Surfaces!Services, Surfaces!Names, Surfaces!Path, Surfaces!NeverminedPath, Surfaces!McpQuote

\* In every configuration a service is sold at one price by one path, the
\* production network is asked for by the gates, and the surfaces differ
\* only where it is said.
LEMMA PricesAlike == \A config \in Surfaces!Configs : Surfaces!PricesAgree(config)
<1> SUFFICES ASSUME NEW config \in Surfaces!Configs PROVE Surfaces!PricesAgree(config)
  OBVIOUS
<1>1. ASSUME NEW r \in Surfaces!Routes(config)
      PROVE  /\ r.sold \in Sold /\ Agreed(r.sold) /\ r.sold.service \in Surfaces!Services
             /\ r.way \in {Surfaces!CdpRoute(config, r.sold.service), Surfaces!NeverminedRoute(r.sold.service)}
  BY RoutesSell, SoldAsAgreed DEF Agreed
<1>2. Surfaces!OnePrice(config)
  <2> SUFFICES ASSUME NEW r \in Surfaces!Routes(config)
               PROVE  LET s == r.sold.service  price == <<r.sold.scheme, Surfaces!Price[r.sold.key]>> IN
                      /\ <<Surfaces!Declaration(s).scheme, Surfaces!Declaration(s).amount>> = price
                      /\ <<Surfaces!Plan(s).scheme, Surfaces!Plan(s).amount>> = price
                      /\ Surfaces!CardEntry(s).scheme = r.sold.scheme
                      /\ Surfaces!McpQuote(s, r.sold.scheme).amount = Surfaces!Price[r.sold.key]
                      /\ Surfaces!McpQuote(s, r.sold.scheme).release = r.sold.release
                      /\ Surfaces!Price[r.sold.key] <= Surfaces!Seeded(s)
    BY DEF Surfaces!OnePrice
  <2>1. Surfaces!McpQuote(r.sold.service, r.sold.scheme).release = r.sold.service.major
    BY DEF Surfaces!McpQuote
  <2> QED
    BY <1>1, <2>1 DEF Agreed
<1>3. Surfaces!SellsWhatItRuns(config)
  BY <1>1 DEF Surfaces!SellsWhatItRuns, Agreed
<1>4. ASSUME NEW r \in Surfaces!Routes(config)
      PROVE  LET s == r.sold.service IN
             \/ r.way.rail = "cdp" /\ r.way.path = Surfaces!Path(s) /\ r.way = Surfaces!CdpRoute(config, s)
             \/ r.way.rail = "nevermined" /\ r.way.path = Surfaces!NeverminedPath(s) /\ r.way = Surfaces!NeverminedRoute(s)
  BY <1>1 DEF Surfaces!CdpRoute, Surfaces!NeverminedRoute
<1>5. Surfaces!OnePath(config)
  <2>1. ASSUME NEW r \in Surfaces!Routes(config), NEW q \in Surfaces!Routes(config), r.way.path = q.way.path
        PROVE  r = q
    <3>1. r.sold.service = q.sold.service /\ r.way = q.way
      BY <1>1, <1>4, <2>1, PathsDiffer
    <3>2. r.sold = q.sold
      BY <1>1, <3>1, SoldOnce
    <3>3. r = [sold |-> r.sold, way |-> r.way] /\ q = [sold |-> q.sold, way |-> q.way]
      BY RoutesSell
    <3> QED
      BY ONLY <3>1, <3>2, <3>3
  <2>2. ASSUME NEW r \in Surfaces!Routes(config)
        PROVE  LET s == r.sold.service IN
               /\ Surfaces!SelectedRail(r.way.path) = r.way.rail
               /\ r.way.path = IF r.way.rail = "cdp" THEN Surfaces!Declaration(s).path ELSE Surfaces!Plan(s).endpoint
               /\ r.way.rail = "nevermined" => r.way.ids = Surfaces!Plan(s).ids
               /\ Surfaces!CardEntry(s).path = Surfaces!Declaration(s).path
    <3> DEFINE s == r.sold.service
    <3>1. /\ Surfaces!Declaration(s).path = Surfaces!Path(s) /\ Surfaces!CardEntry(s).path = Surfaces!Path(s)
          /\ Surfaces!Plan(s).endpoint = Surfaces!NeverminedPath(s)
          /\ Surfaces!NeverminedRoute(s).ids = Surfaces!Plan(s).ids
      BY DEF Surfaces!Declaration, Surfaces!CardEntry, Surfaces!Plan, Surfaces!NeverminedRoute, Surfaces!Registered
    <3>2. Surfaces!SelectedRail(Surfaces!Path(s)) = "cdp" /\ Surfaces!SelectedRail(Surfaces!NeverminedPath(s)) = "nevermined"
      BY <1>1, PathsDiffer DEF Surfaces!SelectedRail
    <3> QED
      BY <1>4, <3>1, <3>2
  <2> QED
    BY <2>1, <2>2 DEF Surfaces!OnePath
<1>6. Surfaces!ProductionByGates(config)
  <2>1. ASSUME NEW service
        PROVE  LET way == Surfaces!CdpRoute(config, service) IN
               /\ way.network = "production" => config.gates = Surfaces!ConfigGates
               /\ way.asset = "usdc" <=> way.network = "production"
               /\ way.rail = "cdp"
    BY DEF Surfaces!CdpRoute, Surfaces!Network, Surfaces!Asset
  <2>2. ASSUME NEW service
        PROVE  LET way == Surfaces!NeverminedRoute(service) IN way.network = "preproduction" /\ way.rail = "nevermined"
    BY DEF Surfaces!NeverminedRoute
  <2>3. ASSUME NEW r \in Surfaces!Routes(config)
        PROVE  /\ r.way.network = "production" => config.gates = Surfaces!ConfigGates /\ r.way.rail = "cdp"
               /\ r.way.rail = "cdp" => (r.way.asset = "usdc" <=> r.way.network = "production")
    BY <1>4, <2>1, <2>2
  <2> QED
    BY <2>3 DEF Surfaces!ProductionByGates
<1>7. Surfaces!Differences(config)
  <2> SUFFICES ASSUME NEW r \in Surfaces!Routes(config)
               PROVE  LET s == r.sold.service IN
                 /\ r.way.rail = "cdp" => (r.way.network # Surfaces!Declaration(s).network <=> config.gates = Surfaces!ConfigGates)
                 /\ r.sold.release # Surfaces!Declaration(s).release <=> s.major = 2
                 /\ \A scheme \in {"exact", "upto"}, q \in Surfaces!Routes(config) :
                      Surfaces!McpQuote(s, scheme).path # q.way.path
    BY DEF Surfaces!Differences
  <2>1. r.way.rail = "cdp" =>
          (r.way.network # Surfaces!Declaration(r.sold.service).network <=> config.gates = Surfaces!ConfigGates)
    <3>1. Surfaces!Declaration(r.sold.service).network = "preproduction"
      BY DEF Surfaces!Declaration
    <3>2. Surfaces!CdpRoute(config, r.sold.service).network # "preproduction" <=> config.gates = Surfaces!ConfigGates
      BY DEF Surfaces!CdpRoute, Surfaces!Network
    <3> QED
      BY <1>4, <3>1, <3>2
  <2>2. r.sold.release # Surfaces!Declaration(r.sold.service).release <=> r.sold.service.major = 2
    BY <1>1 DEF Agreed, Surfaces!Declaration, Surfaces!Services
  <2>3. \A scheme \in {"exact", "upto"}, q \in Surfaces!Routes(config) :
          Surfaces!McpQuote(r.sold.service, scheme).path # q.way.path
    BY <1>1, <1>4, PathsDiffer
  <2> QED
    BY <2>1, <2>2, <2>3
<1> QED
  BY <1>2, <1>3, <1>5, <1>6, <1>7 DEF Surfaces!PricesAgree

-----------------------------------------------------------------------------
(* The terms Nevermined holds.                                             *)

\* What Nevermined is told to charge.
Charged(s) ==
  IF s.name = "company" THEN 39000 ELSE IF s.name = "web" THEN 9000
  ELSE IF s.name = "document" THEN 190000 ELSE 19000

\* It comes from the price table, and a hundredth of it is whole.
LEMMA GrossIsCharged ==
  ASSUME NEW s \in Terms!Services
  PROVE  /\ Terms!Gross(s) = Charged(s) /\ Terms!Gross(s) \in Nat /\ Terms!Gross(s) % 100 = 0
         /\ Terms!Fee(Terms!Gross(s)) * 100 = Terms!Gross(s) /\ Terms!Fee(Terms!Gross(s)) \in Nat
         /\ Terms!Prices!Plan(s).dynamic <=> s.name = "document"
<1>1. s.name \in {"company", "web", "document", "verify"}
  BY DEF Terms!Services, Terms!Prices!Services, Terms!Prices!Names
<1>2. /\ Terms!Prices!Price["company"] = 39000 /\ Terms!Prices!Price["web_direct"] = 9000
      /\ Terms!Prices!Price.document_max_job = 190000 /\ Terms!Prices!Price["verify_standard"] = 19000
  BY DEF Terms!Prices!Price
<1>3. s.name # "document" =>
        Terms!Prices!FixedKey[s.name] = IF s.name = "company" THEN "company" ELSE IF s.name = "web" THEN "web_direct" ELSE "verify_standard"
  BY <1>1 DEF Terms!Prices!FixedKey
<1>4. /\ Terms!Prices!Plan(s).amount =
           IF s.name = "document" THEN Terms!Prices!Price.document_max_job ELSE Terms!Prices!Price[Terms!Prices!FixedKey[s.name]]
      /\ Terms!Prices!Plan(s).dynamic <=> s.name = "document"
  BY DEF Terms!Prices!Plan
<1>5. Terms!Gross(s) = Charged(s)
  BY <1>1, <1>2, <1>3, <1>4 DEF Terms!Gross, Charged
<1>6. Charged(s) \in {39000, 9000, 190000, 19000}
  BY DEF Charged
<1>7. \A gross \in {39000, 9000, 190000, 19000} :
        gross \in Nat /\ gross % 100 = 0 /\ Terms!Fee(gross) * 100 = gross /\ Terms!Fee(gross) \in Nat
  BY DEF Terms!Fee
<1> QED
  BY <1>4, <1>5, <1>6, <1>7

\* A plan that passes has the fields it is asked to have.
LEMMA FixedPlan ==
  ASSUME NEW s, NEW plan, Terms!AcceptsFixed(s, plan)
  PROVE  /\ s \in Terms!Services /\ s # [name |-> "document", major |-> 1]
         /\ plan.agentName = s /\ plan.endpoint = s /\ plan.credits = Terms!FixedCredits
         /\ plan.amounts[1] = Terms!Gross(s) - Terms!Fee(Terms!Gross(s)) /\ plan.amounts[2] = Terms!Fee(Terms!Gross(s))
<1>1. s \in Terms!Services /\ s # [name |-> "document", major |-> 1] /\ plan = Terms!FixedRequirements(s)
  BY DEF Terms!AcceptsFixed, Terms!FixedServices
<1>2. \A credits : LET asked == Terms!Exact(s, credits) IN
        /\ asked.agentName = s /\ asked.endpoint = s /\ asked.credits = credits
        /\ asked.amounts[1] = Terms!Gross(s) - Terms!Fee(Terms!Gross(s)) /\ asked.amounts[2] = Terms!Fee(Terms!Gross(s))
  BY DEF Terms!Exact
<1> QED
  BY <1>1, <1>2 DEF Terms!FixedRequirements

\* The plan of the document service.
LEMMA DynamicPlan ==
  ASSUME NEW s
  PROVE  LET plan == Terms!DynamicRequirements(s) IN
         /\ plan.agentName = s /\ plan.endpoint = s /\ plan.credits = Terms!DynamicCredits
         /\ plan.amounts[1] = 188100 /\ plan.amounts[2] = 1900
BY DEF Terms!DynamicRequirements, Terms!Exact

\* Only the document service has it.
LEMMA DynamicIsDocument ==
  ASSUME NEW s, NEW plan, Terms!AcceptsDynamic(s, plan)
  PROVE  s \in Terms!Services /\ s.name = "document" /\ plan = Terms!DynamicRequirements(s)
BY DEF Terms!AcceptsDynamic, Terms!Documents

\* The credits of the two plans.
LEMMA CreditsAre ==
  /\ Terms!FixedCredits.amount = 1 /\ Terms!DynamicCredits.amount = 190000
  /\ Terms!DynamicCredits.min = 12000 /\ Terms!DynamicCredits.max = 190000
BY DEF Terms!FixedCredits, Terms!DynamicCredits

\* Any plan that passes sells one service at its price.
LEMMA PlansSell == \A plan : Terms!PlansSellOneService(plan)
<1> SUFFICES ASSUME NEW plan, NEW s \in Terms!Services, NEW t \in Terms!Services
             PROVE  /\ Terms!AcceptsFixed(s, plan) \/ Terms!AcceptsDynamic(s, plan) =>
                         /\ Terms!Collected(plan) = Terms!Gross(s) /\ plan.agentName = s /\ plan.endpoint = s
                         /\ plan.amounts[2] * 100 = Terms!Gross(s)
                    /\ (Terms!AcceptsFixed(s, plan) \/ Terms!AcceptsDynamic(s, plan))
                         /\ (Terms!AcceptsFixed(t, plan) \/ Terms!AcceptsDynamic(t, plan)) => s = t
  BY DEF Terms!PlansSellOneService
<1>1. ASSUME NEW u \in Terms!Services, Terms!AcceptsFixed(u, plan)
      PROVE  /\ Terms!Collected(plan) = Terms!Gross(u) /\ plan.agentName = u /\ plan.endpoint = u
             /\ plan.amounts[2] * 100 = Terms!Gross(u)
  BY <1>1, FixedPlan, GrossIsCharged DEF Terms!Collected
<1>2. ASSUME NEW u \in Terms!Services, Terms!AcceptsDynamic(u, plan)
      PROVE  /\ Terms!Collected(plan) = Terms!Gross(u) /\ plan.agentName = u /\ plan.endpoint = u
             /\ plan.amounts[2] * 100 = Terms!Gross(u)
  <2>1. u.name = "document" /\ plan = Terms!DynamicRequirements(u)
    BY <1>2, DynamicIsDocument
  <2>2. Terms!Gross(u) = 190000
    BY <2>1, GrossIsCharged DEF Charged
  <2> QED
    BY <2>1, <2>2, DynamicPlan DEF Terms!Collected
<1> QED
  BY <1>1, <1>2

\* The tiers are the prices of their keys, within what a plan redeems.
LEMMA TiersAre ==
  \A key \in DOMAIN Terms!Tiers :
    /\ Terms!Tiers[key] = Terms!Prices!Price[key]
    /\ Terms!Tiers[key] \in Nat /\ 12000 <= Terms!Tiers[key] /\ Terms!Tiers[key] <= 190000
<1>1. DOMAIN Terms!Tiers = {"document_native", "document_ocr", "document_table", "document_max_job"}
  BY DEF Terms!Tiers
<1>2. /\ Terms!Tiers["document_native"] = 12000 /\ Terms!Tiers["document_ocr"] = 19000
      /\ Terms!Tiers["document_table"] = 29000 /\ Terms!Tiers["document_max_job"] = 190000
  BY DEF Terms!Tiers
<1>3. /\ Terms!Prices!Price["document_native"] = 12000 /\ Terms!Prices!Price["document_ocr"] = 19000
      /\ Terms!Prices!Price["document_table"] = 29000 /\ Terms!Prices!Price["document_max_job"] = 190000
  BY DEF Terms!Prices!Price
<1> QED
  BY <1>1, <1>2, <1>3

\* Any plan that passes pays for its use.
LEMMA CreditsPay == \A plan : Terms!CreditsPayForUse(plan)
<1> SUFFICES ASSUME NEW plan, NEW s \in Terms!Services
             PROVE  /\ Terms!AcceptsDynamic(s, plan) =>
                         /\ \A key \in DOMAIN Terms!Tiers :
                              Terms!Tiers[key] = Terms!Prices!Price[key] /\ Terms!Tiers[key] \in plan.credits.min..plan.credits.max
                         /\ plan.credits.max <= plan.credits.amount /\ plan.credits.amount = Terms!Gross(s)
                         /\ \A key \in DOMAIN Terms!Tiers :
                              Terms!Prepared(s, Terms!Tiers[key], plan.credits.max) = "ok" <=> s.major = 1
                    /\ Terms!AcceptsFixed(s, plan) /\ Terms!Prices!Plan(s).dynamic => s.major = 2
                    /\ s \in Terms!Documents => Terms!AcceptsDynamic(s, Terms!DynamicRequirements(s))
  BY DEF Terms!CreditsPayForUse
<1>1. s = [name |-> s.name, major |-> s.major] /\ s.major \in 1..2
  BY DEF Terms!Services, Terms!Prices!Services
<1>2. ASSUME Terms!AcceptsDynamic(s, plan)
      PROVE  /\ \A key \in DOMAIN Terms!Tiers :
                  Terms!Tiers[key] = Terms!Prices!Price[key] /\ Terms!Tiers[key] \in plan.credits.min..plan.credits.max
             /\ plan.credits.max <= plan.credits.amount /\ plan.credits.amount = Terms!Gross(s)
             /\ \A key \in DOMAIN Terms!Tiers :
                  Terms!Prepared(s, Terms!Tiers[key], plan.credits.max) = "ok" <=> s.major = 1
  <2>1. s.name = "document" /\ plan = Terms!DynamicRequirements(s)
    BY <1>2, DynamicIsDocument
  <2>2. plan.credits.min = 12000 /\ plan.credits.max = 190000 /\ plan.credits.amount = 190000
    BY <2>1, DynamicPlan, CreditsAre
  <2>3. Terms!Gross(s) = 190000
    BY <2>1, GrossIsCharged DEF Charged
  <2>4. s = [name |-> "document", major |-> 1] <=> s.major = 1
    BY <1>1, <2>1
  <2>5. ASSUME NEW use \in Nat, use <= 190000
        PROVE  Terms!Prepared(s, use, 190000) = "ok" <=> s.major = 1
    <3>1. ~ use > 190000
      BY <2>5
    <3> QED
      BY <2>4, <3>1 DEF Terms!Prepared
  <2>6. ASSUME NEW key \in DOMAIN Terms!Tiers
        PROVE  /\ Terms!Tiers[key] = Terms!Prices!Price[key] /\ Terms!Tiers[key] \in plan.credits.min..plan.credits.max
               /\ Terms!Prepared(s, Terms!Tiers[key], plan.credits.max) = "ok" <=> s.major = 1
    <3>1. /\ Terms!Tiers[key] = Terms!Prices!Price[key]
          /\ Terms!Tiers[key] \in Nat /\ 12000 <= Terms!Tiers[key] /\ Terms!Tiers[key] <= 190000
      BY TiersAre
    <3>2. Terms!Prepared(s, Terms!Tiers[key], 190000) = "ok" <=> s.major = 1
      BY <2>5, <3>1
    <3>3. /\ plan.credits.min \in Nat /\ plan.credits.max \in Nat
          /\ plan.credits.min <= Terms!Tiers[key] /\ Terms!Tiers[key] <= plan.credits.max
      BY <2>2, <3>1
    <3>4. \A low, high \in Nat : low <= Terms!Tiers[key] /\ Terms!Tiers[key] <= high => Terms!Tiers[key] \in low..high
      BY <3>1
    <3>5. Terms!Tiers[key] \in plan.credits.min..plan.credits.max
      BY ONLY <3>3, <3>4
    <3>6. Terms!Prepared(s, Terms!Tiers[key], plan.credits.max) = "ok" <=> s.major = 1
      BY <2>2, <3>2
    <3> QED
      BY <3>1, <3>5, <3>6
  <2>7. plan.credits.max <= plan.credits.amount /\ plan.credits.amount = Terms!Gross(s)
    BY <2>2, <2>3
  <2> QED
    BY <2>6, <2>7
<1>3. Terms!AcceptsFixed(s, plan) /\ Terms!Prices!Plan(s).dynamic => s.major = 2
  BY <1>1, FixedPlan, GrossIsCharged
<1>4. s \in Terms!Documents => Terms!AcceptsDynamic(s, Terms!DynamicRequirements(s))
  BY DynamicPlan, CreditsAre DEF Terms!AcceptsDynamic, Terms!UnitCredits, Terms!Collected
<1> QED
  BY <1>2, <1>3, <1>4

\* A requirement is accepted for its own quote.
LEMMA QuotesBind == Terms!BoundToItsQuote
BY DEF Terms!BoundToItsQuote, Terms!AcceptsRequirement, Terms!Bind

\* A settlement that counts says what it should.
LEMMA SettlementsSay == \A settlement \in Terms!Settlements : Terms!SettlementsCount(settlement)
BY DEF Terms!SettlementsCount, Terms!Settlements, Terms!Verifications, Terms!AcceptsVerification, Terms!AcceptsSettlement,
       Terms!Success

\* Evidence that is accepted balances, whatever the amounts.
LEMMA EvidenceIsBalanced == \A e \in Terms!Evidence, expected \in Terms!Expected : Terms!EvidenceBalances(e, expected)
<1> SUFFICES ASSUME NEW e \in Terms!Evidence, NEW expected \in Terms!Expected, Terms!AcceptsEvidence(e, expected)
             PROVE  /\ e.redeemed <= e.start + e.acquired /\ e.redeemed <= expected.maximum
                    /\ e.remaining + e.redeemed = e.start + e.cash
                    /\ \A d \in [payment : {e.payment}, start : {e.start}, acquired : {e.acquired}, redeemed : CreditAmounts, value : {e.value},
                                 remaining : CreditAmounts, cash : {e.cash}, hash : {e.hash}] : Terms!AcceptsEvidence(d, expected) => d = e
  BY DEF Terms!EvidenceBalances
<1>1. /\ e.start \in Nat /\ e.acquired \in Nat /\ e.redeemed \in Nat /\ e.value \in Nat /\ e.remaining \in Nat /\ e.cash \in Nat
      /\ expected.start \in Nat /\ expected.acquired \in Nat /\ expected.used \in Nat /\ expected.maximum \in Nat
  BY OfferAssumption DEF Terms!Evidence, Terms!Expected
<1>2. /\ e.redeemed <= e.start + e.acquired /\ e.redeemed <= expected.maximum
      /\ e.remaining + e.redeemed = e.start + e.cash
  BY <1>1 DEF Terms!AcceptsEvidence
<1>3. ASSUME NEW d \in [payment : {e.payment}, start : {e.start}, acquired : {e.acquired}, redeemed : CreditAmounts, value : {e.value},
                        remaining : CreditAmounts, cash : {e.cash}, hash : {e.hash}],
             Terms!AcceptsEvidence(d, expected)
      PROVE  d = e
  <2>1. d.redeemed = e.redeemed /\ d.remaining = e.remaining
    BY <1>3 DEF Terms!AcceptsEvidence
  <2> QED
    BY <1>3, <2>1 DEF Terms!Evidence
<1> QED
  BY <1>2, <1>3

\* A complete registration is one, however it was audited.
LEMMA CompleteSaysSo == \A found \in Seq(Terms!Found) : Terms!CompleteIsRegistered(found)
<1> SUFFICES ASSUME NEW found \in Seq(Terms!Found), Terms!Complete([i \in DOMAIN found |-> Terms!Audited(found[i])])
             PROVE  /\ {found[i].service : i \in DOMAIN found} = {s \in Terms!Services : ~ Terms!Prices!Registered(s)}
                    /\ \A i \in DOMAIN found :
                         found[i].state = "existing" /\ found[i].read = 1 /\ found[i].accepts /\ found[i].pairs = 1
  BY DEF Terms!CompleteIsRegistered
<1> DEFINE entries == [i \in DOMAIN found |-> Terms!Audited(found[i])]
<1>1. \A i \in DOMAIN found : found[i] \in Terms!Found
  OBVIOUS
<1>2. DOMAIN entries = DOMAIN found /\ \A i \in DOMAIN found : entries[i] = Terms!Audited(found[i])
  OBVIOUS
<1> HIDE DEF entries
<1>3. /\ {entries[i].service : i \in DOMAIN entries} = Terms!Canonical
      /\ \A i \in DOMAIN entries : entries[i].state = "EXACT_EXISTING"
      /\ \A i \in DOMAIN entries : entries[i].agents = 1
  BY DEF Terms!Complete, entries
<1>4. \A f : LET entry == Terms!Audited(f) IN
        /\ entry.service = f.service /\ entry.state = Terms!Reconciled(f.state, 1, f.read, f.accepts) /\ entry.agents = f.pairs
  BY DEF Terms!Audited
<1>5. \A state, read, accepts : Terms!Reconciled(state, 1, read, accepts) = "EXACT_EXISTING" =>
        state = "existing" /\ read = 1 /\ accepts
  BY DEF Terms!Reconciled
<1>6. \A i \in DOMAIN found :
        /\ found[i].state = "existing" /\ found[i].read = 1 /\ found[i].accepts /\ found[i].pairs = 1
        /\ entries[i].service = found[i].service
  BY <1>2, <1>3, <1>4, <1>5
<1>7. {found[i].service : i \in DOMAIN found} = Terms!Canonical
  BY <1>2, <1>3, <1>6
<1>8. Terms!Canonical = {s \in Terms!Services : ~ Terms!Prices!Registered(s)}
  BY DEF Terms!Canonical, Terms!Services, Terms!Prices!Services, Terms!Prices!Registered
<1> QED
  BY <1>6, <1>7, <1>8

-----------------------------------------------------------------------------
(* Everything that is offered.                                             *)

\* Whatever configuration, call, plan, settlement, use or registration the
\* surfaces are asked about, and whatever numbers of credits there are: one
\* price and one path for each service, the two servers alike and nothing
\* free, and terms of Nevermined that sell, settle and register what they
\* name.
THEOREM OffersAgree == OffersSpec => []SurfacesAgree
<1>1. OffersInit => SurfacesAgree
  <2> SUFFICES ASSUME OffersInit PROVE SurfacesAgree
    OBVIOUS
  <2>1. part = "prices" => Surfaces!PricesAgree(question)
    <3>1. part = "prices" => question \in Surfaces!Configs
      BY DEF OffersInit
    <3> QED
      BY <3>1, PricesAlike
  <2>2. part = "agents" => \A dress \in Dresses, boundary \in Agents!Boundaries : Agents!AgentsAreServed(question, dress, boundary)
    <3>1. part = "agents" => question \in Agents!Calls
      BY DEF OffersInit
    <3>2. Dresses \subseteq Agents!Dress
      BY DEF Dresses
    <3> QED
      BY <3>1, <3>2, EveryCallIsServed
  <2>3. part = "plans" => TermsHold
    <3>1. part = "plans" =>
            /\ question[1] = "settlement" => question[2] \in Terms!Settlements
            /\ question[1] = "use" => question[2] \in Terms!Expected
            /\ question[1] = "audit" => question[2] \in Seq(Terms!Found)
      BY DEF OffersInit
    <3>2. Terms!BoundToItsQuote /\ Terms!PlansSellOneService(question[2]) /\ Terms!CreditsPayForUse(question[2])
      BY QuotesBind, PlansSell, CreditsPay
    <3> QED
      BY <3>1, <3>2, SettlementsSay, EvidenceIsBalanced, CompleteSaysSo DEF TermsHold
  <2> QED
    BY <2>1, <2>2, <2>3 DEF SurfacesAgree
<1>2. SurfacesAgree /\ UNCHANGED <<part, question>> => SurfacesAgree'
  BY DEF SurfacesAgree, TermsHold
<1>3. SurfacesAgree /\ [FALSE]_<<part, question>> => SurfacesAgree'
  BY <1>2
<1> QED
  BY <1>1, <1>3, PTL DEF OffersSpec

=============================================================================
