------------------------------ MODULE EdgeWorker -----------------------------
(***************************************************************************)
(* One isolate of the edge Worker, between requests: the settings it is    *)
(* given with each of them, the two paid routes that compose their service *)
(* once and keep it, and the two answers that tell the world what is       *)
(* active, the catalogue and the signed agent card.  A request awaits the  *)
(* lookup of the seller's account while others come and settings change.   *)
(***************************************************************************)
EXTENDS Naturals, FiniteSets

CONSTANTS
  Visitors,    \* requests under way at once
  Gates,       \* the authorizations of ADR 0055
  Databases,   \* identities of the DB binding
  MaxChanges   \* bound: how often the operator changes something

ASSUME ChangesAssumption == MaxChanges \in Nat

NoDb == "none"
PaidServices == {"verify", "web"}
RouteFlag(s) == IF s = "verify" THEN "VERIFY_V2_CDP_ROUTE_ENABLED" ELSE "WEB_CONTEXT_V2_CDP_ROUTE_ENABLED"

ReceiptKey == {"PAID_RECEIPT_SIGNING_PRIVATE_KEY", "PAID_RECEIPT_SIGNING_KEY_ID"}
Bindings   == {"SELLER_WALLET_ADDRESS", "CDP_API_KEY"}
CardKey    == {"AGENT_CARD_SIGNING_PRIVATE_KEY", "AGENT_CARD_SIGNING_KEY_ID"}
Settings   ==
  Gates \cup ReceiptKey \cup Bindings \cup CardKey \cup {"PAID_ROUTES_ENABLED", "MODAL_WEBCTX", "well formed key"}
  \cup {RouteFlag(s) : s \in PaidServices}

VARIABLES
  on,       \* the settings in force (a flag that is "true", a secret that is there)
  db,       \* the DB binding
  apps,     \* what each route has kept: its database, its network, whether key and bindings were there
  visits,   \* each request: was its route on, with which database, and the app it is given
  card,     \* the agent card's application: for what it was built, by which identity
  given,    \* history: cards and key sets given since the last change
  changes

workerVars == <<on, db, apps, visits, card, given, changes>>

NoApp   == [db |-> NoDb, network |-> "none", complete |-> FALSE]
NoVisit == [at |-> "idle", service |-> "verify", flagged |-> FALSE, db |-> NoDb, app |-> NoApp]

-----------------------------------------------------------------------------
(* What the settings allow. *)

RouteFlagEnabled(s, settings) == {"PAID_ROUTES_ENABLED", RouteFlag(s)} \subseteq settings

ProductionAuthorized(settings) == Gates \subseteq settings
Network(settings) == IF ProductionAuthorized(settings) THEN "base" ELSE "base-sepolia"

\* What a route hands to its composition: the executor's credentials are
\* not among the nine values, on either route.
HandedOver(settings) == settings \cap (Gates \cup ReceiptKey \cup Bindings \cup {"well formed key"})

\* The composition up to the lookup of the seller; without production
\* evidence there is no service, and never a fixture.
Composable(s, settings, database) ==
  /\ database # NoDb
  /\ ReceiptKey \cup {"well formed key"} \subseteq settings
  /\ s = "web" => "MODAL_WEBCTX" \in settings
  /\ ProductionAuthorized(settings)
  /\ Bindings \subseteq settings

Built(settings, database) ==
  [db |-> database, network |-> Network(settings), complete |-> ReceiptKey \cup Bindings \subseteq settings]

\* Mutant: the discovery resolvers look at flags and gates.
EffectiveDiscoveryStatusFlags(s, settings, database) ==
  database # NoDb /\ RouteFlagEnabled(s, settings) /\ ProductionAuthorized(settings)

\* What the catalogue, the service pages and the card claim.
EffectiveDiscoveryStatus(s, settings, database) ==
  /\ database # NoDb
  /\ RouteFlagEnabled(s, settings)
  /\ ProductionAuthorized(settings)
  /\ ReceiptKey \subseteq settings
  /\ Bindings \subseteq settings

-----------------------------------------------------------------------------
(* The paid routes. *)

\* Mutant: whatever was built serves.
KeptAnyDatabase(s) == apps[s] # NoApp
\* The sub-application is kept for one database.
Kept(s) == apps[s] # NoApp /\ apps[s].db = db

\* The middleware looks at every POST first: its declared length, then its
\* media type.
Post(v) ==
  /\ visits[v].at # "lookup"
  /\ \E s \in PaidServices, fits, json \in BOOLEAN :
       LET refuse(a) == visits' = [visits EXCEPT ![v] = [NoVisit EXCEPT !.at = a]]
           admit(a, app) == visits' = [visits EXCEPT ![v] =
             [at |-> a, service |-> s, flagged |-> RouteFlagEnabled(s, on), db |-> db, app |-> app]]
       IN IF ~fits THEN refuse("413")
          ELSE IF ~json THEN refuse("415")
          ELSE IF ~RouteFlagEnabled(s, on) THEN refuse("404")
          ELSE IF Kept(s) THEN admit("served", apps[s])
          ELSE IF Composable(s, HandedOver(on), db) THEN admit("lookup", Built(HandedOver(on), db))
          ELSE refuse("503")
  /\ UNCHANGED <<on, db, apps, card, given, changes>>

\* The account that answers for the key is the configured seller, or not,
\* or there is no answer.
Lookup(v) ==
  /\ visits[v].at = "lookup"
  /\ \/ /\ visits' = [visits EXCEPT ![v].at = "served"]
        /\ apps' = [apps EXCEPT ![visits[v].service] = visits[v].app]
     \/ visits' = [visits EXCEPT ![v] = [NoVisit EXCEPT !.at = "503"]] /\ UNCHANGED apps
  /\ UNCHANGED <<on, db, card, given, changes>>

-----------------------------------------------------------------------------
(* The agent card and its key set come from one application, kept for the  *)
(* signing key and the statuses in force.  Without a signing key the       *)
(* identity is made up for it; with half of one there is no application.   *)

Statuses == [s \in PaidServices |-> EffectiveDiscoveryStatus(s, on, db)]
CacheKey == <<on \cap CardKey, Statuses>>

Identity ==
  IF CardKey \subseteq on THEN "configured"
  ELSE IF CardKey \cap on # {} THEN "error"
  ELSE IF card.identity = "ephemeral 1" THEN "ephemeral 2" ELSE "ephemeral 1"

Give(app) == given' = given \cup (IF app.identity = "error" THEN {} ELSE {app})

AskCard ==
  /\ card' = IF card.key = CacheKey THEN card ELSE [key |-> CacheKey, identity |-> Identity]
  /\ Give(card')
  /\ UNCHANGED <<on, db, apps, visits, changes>>

-----------------------------------------------------------------------------
Change ==
  /\ changes < MaxChanges
  /\ changes' = changes + 1
  /\ \/ \E x \in Settings : on' = (IF x \in on THEN on \ {x} ELSE on \cup {x}) /\ UNCHANGED db
     \/ \E d \in Databases \cup {NoDb} : d # db /\ db' = d /\ UNCHANGED on
  /\ given' = {}
  /\ UNCHANGED <<apps, visits, card>>

WorkerInit ==
  /\ on \in {Settings, Settings \ CardKey}
  /\ db \in Databases
  /\ apps = [s \in PaidServices |-> NoApp]
  /\ visits = [v \in Visitors |-> NoVisit]
  /\ card = [key |-> <<>>, identity |-> "none"]
  /\ given = {} /\ changes = 0

WorkerNext == Change \/ AskCard \/ \E v \in Visitors : Post(v) \/ Lookup(v)

WorkerSpec == WorkerInit /\ [][WorkerNext]_workerVars

-----------------------------------------------------------------------------
WorkerTypeOK ==
  /\ on \subseteq Settings /\ db \in Databases \cup {NoDb} /\ changes <= MaxChanges
  /\ \A s \in PaidServices : apps[s].db \in Databases \cup {NoDb}
  /\ \A v \in Visitors : visits[v].at \in {"idle", "lookup", "served", "404", "413", "415", "503"}

\* A request is served only while both flags of its route are on, from its
\* own database, by a service that was composed with every gate open, a
\* receipt key and the seller's bindings, on the production network,
\* whatever else was composed or changed while it waited.
ServedByGates ==
  \A v \in Visitors : visits[v].at = "served" =>
    /\ visits[v].flagged
    /\ visits[v].app.db = visits[v].db /\ visits[v].db # NoDb
    /\ visits[v].app.network = "base" /\ visits[v].app.complete

\* What discovery claims to be active is not refused for something that
\* needs no call to find out, but for a malformed key and, on the web
\* route, the executor's credentials, which the route does not hand over.
ClaimsAreSo ==
  \A s \in PaidServices : EffectiveDiscoveryStatus(s, on, db) =>
    /\ RouteFlagEnabled(s, on)
    /\ \/ Kept(s)
       \/ Composable(s, HandedOver(on), db)
       \/ "well formed key" \notin on
       \/ s = "web" /\ Composable(s, HandedOver(on) \cup {"MODAL_WEBCTX"}, db)

\* As long as nothing changes, every card this isolate gives claims what
\* is so and is signed with a key of every key set it gives.
CardAndKeysAgree ==
  \A a, b \in given : a.identity = b.identity /\ a.key[2] = Statuses

\* What the world is told of this isolate is so, on every surface.
DiscoveryIsTrue == ClaimsAreSo /\ CardAndKeysAgree

=============================================================================
