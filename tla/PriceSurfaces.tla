---------------------------- MODULE PriceSurfaces ----------------------------
(***************************************************************************)
(* Where a price of a service can be read, and where it is charged: the    *)
(* paid routes (paid-services.ts), the discovery declaration of the Bazaar *)
(* (bazaar/discovery.ts), the quote tool of the MCP server, the Agent      *)
(* Card, the declaration to Nevermined and the row the services table is   *)
(* seeded with.  Each is built from tables of its own; what a buyer is     *)
(* told in one place must be what is charged in another.                   *)
(***************************************************************************)
EXTENDS Integers, FiniteSets

\* A service is a name and a major version.
Names    == {"company", "web", "document", "verify"}
Services == [name : Names, major : 1..2]

\* The price of each key, in micro USD, which are the atomic units of USDC.
Price ==
  [company |-> 39000, web_direct |-> 9000, web_rendered |-> 29000,
   document_native |-> 12000, document_ocr |-> 19000, document_table |-> 29000, document_max_job |-> 190000,
   verify_standard |-> 19000, verify_reproduction |-> 49000]

\* One row of a price table.
Cost(scheme, key) == [scheme |-> scheme, key |-> key]

-----------------------------------------------------------------------------
(* The paid routes.  A configuration has the rail of the v1 routes,        *)
(* whether the v2 routes of Nevermined are mounted as well, and the gates  *)
(* of production that are open.                                            *)

ConfigGates == {"environment", "enabled", "bootstrap", "credentials"}
Configs == [rail : {"cdp", "nevermined"}, neverminedV2 : BOOLEAN, gates : SUBSET ConfigGates]

Path(service)           == <<service.major, service.name>>
NeverminedPath(service) == <<service.major, "nevermined", service.name>>

Network(config) == IF config.gates = ConfigGates THEN "production" ELSE "preproduction"
Asset(network)  == IF network = "production" THEN "usdc" ELSE "test usdc"

\* Only the v2 services are registered at Nevermined: the others have the
\* local ids of their declaration.
Registered(service) == service.major = 2

CdpRoute(config, service) ==
  [rail |-> "cdp", path |-> Path(service), network |-> Network(config), asset |-> Asset(Network(config)), ids |-> "none"]

NeverminedRoute(service) ==
  [rail |-> "nevermined", path |-> NeverminedPath(service), network |-> "preproduction", asset |-> "credits",
   ids |-> IF Registered(service) THEN "registered" ELSE "local"]

\* A route as it is written down: what it sells and at which price, the
\* contract release it binds, the service its executor is called for, whether
\* it is charged by use, and whether the schema to be used is checked before
\* anything is quoted.
Sells(name, major, scheme, key, runs, metered, checked) ==
  [service |-> [name |-> name, major |-> major], scheme |-> scheme, key |-> key, release |-> major,
   runs |-> [name |-> runs, major |-> major], metered |-> metered, checked |-> checked]

\* The eight routes.
CompanyV1  == Sells("company", 1, "exact", "company", "company", FALSE, FALSE)
WebV1      == Sells("web", 1, "exact", "web_direct", "web", FALSE, FALSE)
DocumentV1 == Sells("document", 1, "upto", "document_max_job", "document", TRUE, FALSE)
VerifyV1   == Sells("verify", 1, "exact", "verify_standard", "verify", FALSE, TRUE)
CompanyV2  == Sells("company", 2, "exact", "company", "company", FALSE, FALSE)
WebV2      == Sells("web", 2, "exact", "web_direct", "web", FALSE, FALSE)
DocumentV2 == Sells("document", 2, "upto", "document_max_job", "document", TRUE, FALSE)
VerifyV2   == Sells("verify", 2, "exact", "verify_standard", "verify", FALSE, TRUE)

V1(config) ==
  {[sold |-> r, way |-> IF config.rail = "nevermined" THEN NeverminedRoute(r.service) ELSE CdpRoute(config, r.service)] :
     r \in {CompanyV1, WebV1, DocumentV1, VerifyV1}}
V2(config) ==
  LET sold == {CompanyV2, WebV2, DocumentV2, VerifyV2} IN
  {[sold |-> r, way |-> CdpRoute(config, r.service)] : r \in sold}
  \cup {[sold |-> r, way |-> NeverminedRoute(r.service)] : r \in IF config.neverminedV2 THEN sold ELSE {}}

\* All routes of an app.
Routes(config) == V1(config) \cup V2(config)

\* The rail that protocol-nevermined says a path belongs to.
SelectedRail(path) ==
  IF path \in {Path(s) : s \in Services} THEN "cdp"
  ELSE IF path \in {NeverminedPath(s) : s \in Services} THEN "nevermined" ELSE "unknown"

-----------------------------------------------------------------------------
(* Where a price can be read.  *)

\* The Bazaar: always the test network, and the release is the entry's
\* pcc_version, which is 1.0.0 in the registry for every service.
BazaarPolicy(service) ==
  [company |-> Cost("exact", "company"), web |-> Cost("exact", "web_direct"),
   document |-> Cost("upto", "document_max_job"), verify |-> Cost("exact", "verify_standard")][service.name]
Declaration(service) ==
  LET policy == BazaarPolicy(service) IN
  [scheme |-> policy.scheme, amount |-> Price[policy.key], path |-> Path(service), network |-> "preproduction",
   release |-> 1]

\* The quote tool: any service in either scheme, for a resource of its own.
ExactKey ==
  [company |-> "company", web |-> "web_direct", document |-> "document_native", verify |-> "verify_standard"]
\* The keys of an upto quote.
UptoKey ==
  [company |-> "company", web |-> "web_rendered", document |-> "document_max_job", verify |-> "verify_reproduction"]
McpQuote(service, scheme) ==
  [scheme |-> scheme, amount |-> Price[IF scheme = "exact" THEN ExactKey[service.name] ELSE UptoKey[service.name]],
   path |-> <<service.major, "resource", service.name>>, network |-> "preproduction",
   asset |-> Asset("preproduction"), release |-> service.major]

\* The Agent Card, and the declaration to Nevermined, whose prices are by
\* the name of the service alone.
CardEntry(service) == [scheme |-> BazaarPolicy(service).scheme, path |-> Path(service)]
FixedKey == [company |-> "company", web |-> "web_direct", verify |-> "verify_standard"]
Plan(service) ==
  [scheme |-> IF service.name = "document" THEN "upto" ELSE "exact",
   amount |-> IF service.name = "document" THEN Price.document_max_job ELSE Price[FixedKey[service.name]],
   endpoint |-> NeverminedPath(service), dynamic |-> service.name = "document",
   ids |-> IF service.major = 2 THEN "registered" ELSE "local"]

\* The registry's maximum price, which seeds the services table.
Seeded(service) ==
  [company |-> 190000, web |-> 29000, document |-> 190000, verify |-> 49000][service.name]

-----------------------------------------------------------------------------
\* A service is sold at one price: the discovery declaration, the card, the
\* Nevermined declaration and an MCP quote in the route's scheme all name
\* the price and scheme of every route that sells it, and none is above the
\* price the catalogue is seeded with.
OnePrice(config) ==
  \A r \in Routes(config) : LET s == r.sold.service  price == <<r.sold.scheme, Price[r.sold.key]>> IN
    /\ <<Declaration(s).scheme, Declaration(s).amount>> = price
    /\ <<Plan(s).scheme, Plan(s).amount>> = price
    /\ CardEntry(s).scheme = r.sold.scheme
    /\ McpQuote(s, r.sold.scheme).amount = Price[r.sold.key] /\ McpQuote(s, r.sold.scheme).release = r.sold.release
    /\ Price[r.sold.key] <= Seeded(s)

\* A route runs the service it sells, is charged by use exactly where it is
\* sold up to a price, and never sells a verification it cannot execute.
SellsWhatItRuns(config) ==
  \A r \in Routes(config) :
    /\ r.sold.runs = r.sold.service
    /\ r.sold.metered <=> r.sold.scheme = "upto"
    /\ r.sold.service.name = "verify" => r.sold.checked

\* A path leads to one route, on the rail protocol-nevermined selects for
\* it; what is declared for it leads there.
OnePath(config) ==
  /\ \A r, q \in Routes(config) : r.way.path = q.way.path => r = q
  /\ \A r \in Routes(config) : LET s == r.sold.service IN
       /\ SelectedRail(r.way.path) = r.way.rail
       /\ r.way.path = IF r.way.rail = "cdp" THEN Declaration(s).path ELSE Plan(s).endpoint
       /\ r.way.rail = "nevermined" => r.way.ids = Plan(s).ids
       /\ CardEntry(s).path = Declaration(s).path

\* Money of the production network is asked only with every gate open, in
\* its own asset, and never on the Nevermined rail.
ProductionByGates(config) ==
  \A r \in Routes(config) :
    /\ r.way.network = "production" => config.gates = ConfigGates /\ r.way.rail = "cdp"
    /\ r.way.rail = "cdp" => (r.way.asset = "usdc" <=> r.way.network = "production")

\* Where the surfaces differ: with every gate open the declarations and the
\* quotes still name the test network, the declaration of a v2 service the
\* first release, and the resource of an MCP quote is the path of no route.
Differences(config) ==
  \A r \in Routes(config) : LET s == r.sold.service IN
    /\ r.way.rail = "cdp" => (r.way.network # Declaration(s).network <=> config.gates = ConfigGates)
    /\ r.sold.release # Declaration(s).release <=> s.major = 2
    /\ \A scheme \in {"exact", "upto"}, q \in Routes(config) : McpQuote(s, scheme).path # q.way.path

\* What is told of a price, and charged, in one configuration.
PricesAgree(config) ==
  OnePrice(config) /\ SellsWhatItRuns(config) /\ OnePath(config) /\ ProductionByGates(config) /\ Differences(config)

=============================================================================
