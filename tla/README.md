# TLA+ verification of the utility network

The utility network sells agent services (web context, document evidence, company
evidence, verification of an agent's output) over HTTP. A buyer posts a request,
gets a quote and a `402`, signs a payment for a *payment identifier*, posts again,
and the Worker verifies the payment, runs the service, stores the output, settles
the payment on one of two rails (CDP x402, Nevermined) and answers `200` with the
output and a `PaymentServiceLink` that ties the two together. Everything durable
is in D1; the Worker may die at any `await`; the buyer may retry at any time, with
several requests in flight.

Around that route are: the repositories and the job path (idempotent acquisition,
queue, consumer), the service runtime with its verification mesh and signed
receipts, the provider adapters with their guards and the safe public fetch, the
gates that decide what production serves and what discovery claims, the protocol
packages (prices, plans, agent servers), and the release and proof scripts that
guard the repository itself. Each has a module here.

Paths below are relative to `src/`; `cp/` stands for
`apps/edge-api/src/control-plane/`, `pa/` for `packages/provider-adapters/src/`.

## 1. Inventory

| Component | State | Operations | Hard behaviour | Correct when | Modules |
|---|---|---|---|---|---|
| Paid-service route (`cp/routes/x402-service.ts`) | local variables across ~30 awaits | POST without payment (402), POST with payment (acquire, verify, execute, settle, finalize), recoveries of both rails, replays | requests with one identifier interleave, death at any await, ambiguous settle answers, retried settle calls | no second charge before a recorded failure, nothing charged without a stored output, one outcome in every 200, a charged buyer is served | `PaymentRoute`, `PaymentPromise` |
| Payment attempts (`cp/repositories/d1/payment-attempts.ts`) | row `payment_attempts` | unique insert, compare-and-set writes, counters | the statements are the only locks | stage takes legal edges, consumed only after settled | `PaymentRoute`, `PaymentLifecycle` |
| Jobs and their state machine (`cp/repositories/d1/jobs.ts`, `cp/state-machine`) | rows `jobs`, events | create, updateState, complete | the UPDATE matches the id alone | legal edges, terminal states stay | `PaymentRoute`, `JobQueue`, `RepositoryPair` |
| Quotes, results, evidence gates, linkage, reconciliation (`cp/repositories/d1/x402-quotes.ts`, `packages/protocol-x402`, `packages/protocol-nevermined`) | quote rows, result row, a delegation's transactions | mint, latest of a binding, bind, verify, settle, reconcile, price | price and clock move between the quote and the charge; provider records late, missing or another payment's | charged as quoted, a retry is the same, settled means charged | `PaymentEvidence`, `PaymentRoute` |
| Facilitator clients and evidence providers (`cp/evidence`, validation in `packages/protocol-nevermined`) | request ids of the isolate's verifications | verify, settle, what is made of each answer | answers with fields missing, of another type, contradictory, late or lost; an isolate that ends in between | an outcome is recorded only if the facilitator said it for that payment | `FacilitatorEvidence` |
| Job acquisition and idempotency (`cp/repositories/d1/acquisition.ts`, `idempotency.ts`) | idempotency rows, jobs | acquireJob, deleteExpired | SELECT, then a batch INSERT, retried on UNIQUE; cleanup | one job per key, holders agree on its input | `JobQueue`, `JobPromise` |
| Queue (`cp/queue/dispatch.ts`, `consumer.ts`) | dispatch rows, messages | dispatch, consume, release, dead-letter | record then send, delivery at least once, dying workers | sent at most once, lost only when given up, nothing runs late | `JobQueue`, `JobPromise` |
| Service runtime (`packages/service-runtime`) | none between executions | four services, dispatcher's timeout | a timer races the service, sources fail in part | output only for a verified draft | `EvidenceServices`, `ServiceVerification` |
| Verification mesh, receipts, key registry (`packages/verification`) | key status | order verifiers, run waves, decide, sign, check, retire, revoke; gate a buyer's schema | slow and throwing verifiers, a key revoked between signature and check | as above; a refusal has a reason; the order is right | `VerifierGraph`, `Verifiers`, `ServiceVerification`, `SchemaProfile` |
| Adapter guards (`pa/rate-limit`, loop of `pa/http/public-http-adapter.ts`) | limiter, breaker, backoff | acquire, release, execute, wait, reset | shared by executions that interleave at each await | no slot lost, breaker neither passes its threshold nor sticks | `ProviderAdapter` |
| Source adapters (`pa/github`, `openalex`, `crossref`, `federal-register`, `sec`, `http`; `pa/cache`, `pa/policy/terms-guard.ts`) | LRU cache with a time to live | fetch through cache and terms review | what a key leaves out, ageing, error pages | an answer is to the question that was asked | `SourceAdapters` |
| Public fetch and safe egress (`pa/http`, `pa/policy/network-policy.ts`, `services/webctx-safe-egress`) | one fetch | redirects, resolution, dial, read | resolvers and servers answer anything, never the same twice | only checked public addresses, whole pages | `PublicFetch` |
| Source drift (`pa/drift`) | none | infer, compare, classify | nested shapes, lists, policies | goes on only with what it relies on | `SourceDrift` (partly) |
| Production gates and discovery (`cp/config/production-payment.ts`, `cp/routes/production-*.ts`, `cp/production`, `routes/a2a.ts`) | apps and card kept per isolate | compose, serve, list, sign the card | settings and binding change while a request awaits | serves by its gates; claims are so | `EdgeWorker` |
| Policy and pricing, paid services app (`packages/pricing`, `packages/protocol-x402/src/bazaar`, `cp/routes/paid-services.ts`) | tables | mount routes, price, declare | each surface has a table of its own | one price, one path, production by gates | `PriceSurfaces`, `PaymentEvidence` |
| Nevermined protocol and registration (`packages/protocol-nevermined`) | the registry (external) | validate plans, requirements, settlements, evidence; reconcile, register | a registry that lags, failing reads, restarts | a name registered once; a plan sells one service | `PlanRegistry`, `PlanTerms` |
| A2A and MCP servers (`packages/protocol-a2a`, `packages/protocol-mcp`) | none | gates, executor, wording | two surfaces for one boundary | faithful, alike, nothing free | `AgentSurfaces`, `PriceSurfaces` |
| Repositories, in memory and on D1 (`cp/repositories`) | eleven tables, twice | every call | two implementations, times, unique keys | memory stands in for D1 | `RepositoryPair` |
| Artifact store (`cp/artifacts/store.ts`) | objects by id and by hash | put, get, delete | two stores with other keys, puts that await a hash | a hash leads to its content | `ArtifactStores` |
| Quota guard (`cp/quota/guard.ts`) | none written | cost, reserve, release | decimals, scarcity borders | exact, bounded, monotone | `QuotaGuard` |
| Contract release gate (`packages/contracts/scripts/compat.ts`) | files of releases | compare, three commands | edits anywhere | no breaking change as minor, frozen stays | `ContractCompat` |
| Contract validators (`packages/contracts/src/semantic`) | none | two implementations | languages differ | same verdict but where named | `SemanticValidators` |
| Mutation proof scripts (`scripts/test-*-caught.mts`) | the working tree | mutate, test, restore | kills, edits, blind tests | a pass is a proof | `MutationProofs` |
| Edge API shell (`apps/edge-api/src`) | none | middleware, read-only routes | - | - | the two refusing middleware in `EdgeWorker` (partly) |
| Rate limiter's other paths, chain receipts, x402 codec | - | - | - | - | partly, see 5 |
| Contracts and schemas, HTML extraction, Python document pipeline, MCP over stdio, test and diagnostic entry points, web site, registry, governance, operations scripts | none or I/O | - | - | - | not modelled, see 5 |

`PROJECT.json` has the same list with sources and, under `hazards`, the places in
the code that a unit test hardly reaches, each with the properties that watch it.

Interactions. The route calls repositories (D1 statements), the evidence provider
(facilitator and chain) and the service executor; a retry is another run of the
same route and meets the first only in D1. The executor runs a service, which
calls source adapters, which share limiter, breaker and backoff and fetch through
the safe client; the mesh verifies what the service made. Acquisition, dispatch
and consumer meet in D1 and the queue; nothing under `apps/` composes them outside
tests, so who calls them is external. `PaymentRoute` and `PaymentEvidence` are two
views of the route: the first has every interleaving of one identifier's requests,
the second several identifiers that share quotes, the price and a delegation. The
components that `Components` and `Libraries` put side by side share no state and no step
in the code; their runs therefore let exactly one of them move in each behaviour.

## 2. Modules

| Module | What it is |
|---|---|
| `PaymentLifecycle` | The transition tables: `LifecycleTransitions` (stage.ts), `AllowedTransitions`, `TerminalStates` (types/index.ts). |
| `PaymentRoute` | The route for one payment identifier; one process per POST. |
| `PaymentPromise` | Abstract: one charge (another only on a rail that retries, after a recorded failure), then one stored outcome, then that outcome in every 200. |
| `PaymentRouteInvariant`, `PaymentRouteInduction` | The inductive invariant `IndInv`; TLAPS: it is invariant. |
| `PaymentRouteProofs` | TLAPS: what follows from it, `Accounts` beside it, the moves of stage and job, and the refinement of `PaymentPromise`. |
| `PaymentEvidence`, `PaymentEvidenceProofs` | Quote, binding, gates, usage, settlement, reconciliation of several identifiers; TLAPS: its properties. |
| `FacilitatorEvidence` | What a facilitator answers, what the client, the provider and the route make of it. |
| `JobQueue` | One idempotency key from `acquireJob` to the consumer; processes are callers and workers. |
| `JobPromise` | Abstract: the key has one owner, its job is sent at most once, only what was sent is finished. |
| `JobQueueProofs` | TLAPS: the safety properties of `JobQueue`, and that it implements `JobPromise`. |
| `EvidenceServices`, `Verifiers`, `ServiceVerification` | What the four services make of their sources; the verifiers and their waves; one execution with timer, mesh, receipt and key. |
| `ServiceVerificationProofs` | TLAPS: the properties of an execution, for any services and any waves of verifiers, alone and beside the jobs. |
| `VerifierGraph` | `topologicalSort` and `computeWaves` against a definition by sets. |
| `SchemaProfile` | The walk that accepts or refuses a buyer's schema. |
| `ProviderAdapter`, `ProviderAdapterProofs` | Limiter, breaker, backoff, one process per execution; TLAPS: its invariants. |
| `SourceAdapters` | One of the seven adapters: cache, terms, reply. |
| `PublicFetch` | One fetch by one of three clients. |
| `SourceDrift` | Inference, comparison and classification of shapes. |
| `EdgeWorker` | One isolate: gates, kept apps, discovery, card. |
| `PriceSurfaces` | Every place a price can be read or charged. |
| `AgentSurfaces` | A call through the A2A and through the MCP server. |
| `PlanTerms` | What is accepted of a plan, a requirement, a settlement, evidence of credits. |
| `ServiceOffers` | The three before this one, asked one question in each behaviour. |
| `PlanRegistry` | A registration harness over a registry that lags. |
| `SurfaceProofs` | TLAPS: what the Worker shows and reaches: `EdgeWorker`, `PlanRegistry`, `PublicFetch`, `ServiceOffers`. |
| `RepositoryPair`, `ArtifactStores`, `QuotaGuard` | Both implementations of the repositories and of the artifact store, call by call; the cost of a reservation. |
| `ContractCompat`, `SemanticValidators`, `MutationProofs` | The release gate, the two validators, the mutation scripts. |
| `Components`, `Libraries` | The job path beside the service runtime; the other components with a state, side by side. |
| `LibraryProofs` | TLAPS: `MutationProofs`, `ArtifactStores`, `SourceAdapters`, `FacilitatorEvidence`, `RepositoryPair`, `SemanticValidators`, and the types of all of `Libraries`. |
| `MCPaymentRoute`, `MCProviderAdapter`, `MCComponents`, `MCLibraries` | Instances, inputs and symmetry for TLC. |

### PaymentRoute

`stage ... wins` are the columns of the `payment_attempts` row; `job` the job's
`current_state`; `result` and `author` the `x402_service_results` row (`author`:
which request composed the final body); `call` and `charges` what the facilitator
and the chain know of each request's settle call. `pc`, `req`, `resp`, `body`,
`seen` and `ev` are local to a request: where its handler is, what it carries, its
answer, and what it keeps across awaits (`seen` is the row and job a recovery read
earlier and acts on later, `ev` the evidence it holds).

An action is what a handler does from one await to the next, one D1 statement or
external call with the code that follows it, so every interleaving JavaScript and
D1 allow is there. Statements that are compare-and-set in SQL are guards on the
row; a statement whose failure the code swallows (`transition()` for jobs,
`transitionLifecycleStage` in several places) has a silent failing outcome when
`Faults` says so. Three reads that follow each other in a recovery (job, draft,
outcome kind) are one step, `ReadJob`: the draft never changes after the row is
open, the outcome kind comes from the row read, which is a step of its own, and
the steps between them are reads only. `Crash` kills a handler before any step in
`CrashAt`; `Again` is the buyer's next POST on a request slot that has its answer.

The environment (`Land`, `Drop`, the answers of `verify`, `settle`, reconciliation
and receipts) is modelled from how the route uses it: a settle call may charge, be
refused or be lost; its answer may be a success only if the money moved, but a
failure, explicit or ambiguous, or nothing at all in every case. A CDP retry settles
with the payload its own replay brought. The binding compares no nonce and no signature,
so a replay may bring an authorisation signed afresh, and its retry may charge again;
one that brings the spent authorisation is among the calls that `Drop`. On both rails
`ChargedAtMostOnce` rests on the route alone.

### PaymentEvidence

Several identifiers, each with one request at a time, share `quotes`, `price`,
`clock` and Nevermined's `ledger`. `Challenge` mints, `SubmitCdp` and
`SubmitNevermined` are the rails' checks of a signed request (a CDP quote is found
by its id, a Nevermined one is the latest of its binding), `Acquire` compares the
immutable binding, `Verify`, `Execute`, `Settle` and `Recover` apply the gates
(`CanAdvanceToVerified`, `CanAdvanceToSettled`) to any answer a provider may give,
right amount or not. `Execute` counts usage at the price of that moment, `Reprice`
moves the price, `Tick` lets quotes expire. `Reconciled` is the verdict over a
delegation's transactions; `Shared` says whether two payments may carry one
delegation, which nothing in the code or the schema prevents.

### FacilitatorEvidence

One provider (CDP's, Nevermined's, or Nevermined's with a test's client) in one mode asks
a facilitator about payments. `AskFacilitator`, `Verified`, `Charge` and `Settled` are the
verify call, its answer, the settle call and its answer; `Evict` ends the isolate, which
keeps `requestIds` from one to the other. An answer is a record of fields, each of which
may be missing, of another type, or say what was not asked, or it is text, an HTTP error
or nothing. `Text`, `UnderstoodVerify` and `UnderstoodSettle` are what the HTTP client
lets through, `Confirms`, `NeverminedReason` and `CdpReason` the validation, `Explicit`
the route's reading of a failure. `heard` and `sent` are history: what was answered and
under which id the settle call went out.

### JobQueue

`jobs`, `record`, `rows` are tables, `queue` and `sends` what the queue holds and was
sent, `call` and `work` the callers and workers. `buried` is history only: the sinks keep
nothing that could be sent again (D1's `add` logs a warning, its `list` is empty), so it
remembers why a job that was not over lost a message to them, by policy or by a fault.
`Check`, `ReadOriginal`, `Batch` are `acquireJob`; `Look`, `Insert`, `SendMessage`
dispatch; `Deliver`, `ReadJob`, `ReadAttempt` (checks 1 to 13), `Accept`, `Run`,
`Release`, `Return` the consumer. `Abort` and `Die` are deaths and statements that
fail, `DeleteExpired` the cleanup (which may come up to a day late, because an ISO
timestamp is compared with `datetime('now')` as text), `MoveJob` the rest of the
system along `createStateEvent`'s edges. `JobPromise` sees `owner`, `sent`,
`finished` only.

### The service runtime

`EvidenceServices` gives, for each of the four services, the drafts it can make of
any input and any set of answers: claims with the evidence each cites, and counts;
early returns are drafts with a class and nothing to verify. `ServiceVerification`
races the draft with `executeLocalService`'s timer (the service goes on after it),
lets the verifiers of a wave answer in any order, slow or throwing, waits for the
wave, decides, signs, checks the receipt against a key that is retired or revoked
at any moment, and tells. Verifiers answer what their code computes from the draft;
those that read what a draft leaves out (schema, injected prompts) may say anything.

### ProviderAdapter, SourceAdapters, PublicFetch

`ProviderAdapter`: `active`, `tokens`, `queued` are the limiter (tokens in whole
ones), `circuit ... probes` the breaker, `cooled` that `timeoutMs` have passed,
`attempt` the shared backoff, `tries` a history variable. Executions interleave at
each await: acquire's two waiting loops, the fetch, the backoff's timer. Production
(`web-context-v2-production-executor.ts:145`) builds an adapter for each request;
the wiring in `packages/service-runtime/src/wiring.ts` shares adapters.

`SourceAdapters` is what the loop of one adapter leaves between callers: `Ask`
(policy, key, cache, terms review), `Fetch` (any reply, and what this adapter makes
of it), `Pass` (time, expiry, the least recently used entry goes). `Extras` names
what a key leaves out of an input.

`PublicFetch` has the redirect loop of `SecureHttpClient` over the socket client or
the executor, and the executor's own loop; `Hop`, `Resolve`, `Dial`, `Read`,
`TimeOut`. The resolver answers every query anew, the server sends any status,
location, framing and size, and stops where it likes.

### EdgeWorker, PlanRegistry

`EdgeWorker`: `on` and `db` are the settings and the binding an isolate is given
with each request; `apps` and `card` what it keeps. `Post` is the middleware, the
flags, the kept app or the composition up to the one await (`Lookup`, the seller's
account); `AskCard` the card's application; `Change` the operator, between any two.

`PlanRegistry`: `agents`, `plans`, `links` are what the registry holds, `shown` what
its reads show of it yet. The harness reads by known ids, lists agents and plans,
decides (absent, existing, unclear), registers, starts again after a stop; `calm`
is a registry that shows at once and whose reads do not fail.

### Pure components

`VerifierGraph`, `SchemaProfile`, `SourceDrift`, `ContractCompat`, `SemanticValidators`,
`QuotaGuard`, `PriceSurfaces`, `AgentSurfaces` and `PlanTerms` translate functions; each
property compares the translation with a reference (ancestors by sets, conformance of a
document, acceptance by a schema, the other implementation, the other surface) and names the
differences the code has. `ServiceOffers` puts the questions to the surfaces: none keeps a
state, so a behaviour of `OffersSpec` is one question that does not change. `RepositoryPair`
gives both implementations the same calls and compares answers. `ArtifactStores` does so for
the two stores, whose `put` awaits: `coming` are the puts that wait for the hash of their
content (`store.ts:24`) or, on R2, for the look at their key, and what memory checked of the
id before the wait is not checked again after it (`Put`, `HeadOfKey`, `Stored`); `crossed`
remembers the ids put while a put of theirs was under way. `SemanticValidators` has a class
for each way a value can please one language only: another type, text for a number, null, a
key too many, half a pair of UTF-16 units, a text that is long in units and short in code
points, digits of other scripts, a trailing newline, and a day no calendar has (`rolled`: V8
goes on to the next month, Python raises and answers no). `ContractCompat` has of each
release the files, their copies, the lines of SHA256SUMS and the descriptor, and lets each
of the release in use be anything. `MutationProofs` is one loop with six traits (what a
script does when its text is not found, when it checks again, how it restores, ...). Of the
fifteen `test-*-caught` scripts fourteen write their defects into the working tree and are
the settings of these traits; the fifteenth, `test-public-preview-policy-caught.mts`, writes
an unsafe configuration into a temporary directory and never touches the tree. Mutation 6 of
`test-webctx-read-diagnostics-mutation-caught.mts` (`:107`) leaves its text where it was, so
a run after a kill makes the defect again instead of skipping it; the tree it leaves is the
same.

## 3. Runs

All are checked with `tlc -workers 2 -config <name>.cfg <module>`.

| Run | Question and result |
|---|---|
| `route_nevermined` (`MCPaymentRoute`) | Nevermined rail, 3 requests, 2 bindings, a crash before any step, failing job writes, expiry. `ChargedAtMostOnce`, `PaidHasResult`, `ServedIsPaidAndFinal`, `ConsumedIsSettled`, `DeliveredIsConsumed`, `FinalResultStays` hold. |
| `route_cdp` (`MCPaymentRoute`) | CDP rail, same size, failing stage writes, up to 3 counted settle calls. `IndInv` (so all it implies), `WinsCountOnce`, `JobMovesLegally`, `StageMovesLegally` hold and the route implements `PaymentPromise` (`KeepsPromise`). |
| `live_nevermined` (`MCPaymentRoute`) | With fairness: a charged buyer who keeps asking gets a 200 (`PaidIsServed`), although the first request and any number of recoveries may die between the settle call and the record of its outcome. |
| `adapter` (`MCProviderAdapter`) | 2 executions with both waits, retries, late results and an operated breaker: `QueuedIsWaiting`, `ActiveIsHeld`, `ClosedBelowThreshold`, `HalfOpenCanClose`, and with fairness `HalfOpenResolves`. |
| `components` (`MCComponents`) | The job path with deaths, failing reads, cleanup and redelivery: `OneJobPerKey`, `AnswersAgree`, `NothingLost`, `NoLateRun`, and it implements `JobPromise` (`KeepsJobPromise`). One execution of each paid service with timeouts, slow or throwing verifiers and a key retired or revoked: `OutputIsVerified`, `RefusedForAReason`. `TypesOK` for both. |
| `libraries` (`MCLibraries`) | Every other component, one per behaviour; see below. |
| `terminal_job` | *Violation*: DELIVERED becomes REFUND_REQUIRED. |
| `consumed_before_stored` | *Violation*: consumed, and the result still a draft. |
| `explicit_terminal` | *Violation*: `explicit_rejection` is overwritten. |
| `cdp_crash` | *Violation* (with fairness): a CDP row stays `settlement_pending` for ever after a death during `settle()`, money moved. |
| `adapter_concurrency` | *Violation*: three calls under a limit of two, with no retry. |
| `shared_delegation` (`PaymentEvidence`) | *Violation*: `SettledWasCharged` fails when two payments carry one delegation. |

The properties of `libraries`:

* `ChargedAsQuoted`, `RetryIsTheSame`, `SettledWasCharged` (`PaymentEvidence`): no
  buyer is charged other than a quote bound to the identifier and what was used,
  however price and clock move; a repeated request is no conflict, unless
  (Nevermined) the quote is no longer the latest; settled means charged, where each
  delegation carries one payment.
* `OutcomeIsSaid` (`FacilitatorEvidence`): a payment is recorded as verified, settled or
  refused only when the facilitator said so for it, and its settle call goes out under its
  own verification's id; what is lost or misshapen leaves it open, but for a `success` that
  is not a boolean and comes with a transaction, which Nevermined's client leaves out and
  the validation then takes for absent (its comment: "never guessed").
* `FetchedAsChecked` (`PublicFetch`): connections to checked public addresses of
  allowed URLs only; a page not called truncated is whole, but for three named gaps.
* `AnswersTheQuestion` (`SourceAdapters`): a success is about the question that was
  asked, less than a day old; where keys leave something out is named.
* `ServedByGates`, `DiscoveryIsTrue` (`EdgeWorker`): nothing served but with flags,
  gates and database of the request; what discovery claims is composable, but for a
  malformed key and, on the web route, credentials no route hands over; until a
  change, its cards and key sets are of one identity.
* `SurfacesAgree`: every price and path in all 64 configurations (`PricesAgree`), every
  agent call on both servers (`AgentsAreServed`), the terms of plans, settlements,
  credits and audits (`TermsHold`).
* `RegisteredOnce` (`PlanRegistry`): with a calm registry a name has one agent; what
  a harness reports is one linked pair in any registry.
* `ProofsProve` (`MutationProofs`): a thorough script that passes has seen every
  defect noticed in a clean tree; none leaves a defect behind unless killed.
* `StoresAgree` (`RepositoryPair`), `ContentsAreTheirHash` (`ArtifactStores`): the two
  implementations of each repository answer alike except where the property names the
  difference; a hash leads to its content in both stores, and in memory to an artifact whose id
  leads back to it, but for an id put twice at once: both puts pass the check of the id, and
  the hash of the first then leads to an artifact whose id leads to the second.
* `LibraryTypesOK`: each component keeps to its own values.
* `ChecksAreSound`: verifier order, drift, release gate, validators, buyers' schemas,
  reservation costs, each against its reference on every small input. Of the release gate:
  nothing that breaks a document passes for less than a major release, and a repository in
  which a frozen schema was edited passes only if descriptor and SHA256SUMS were edited to
  match (`CheckedIsFrozen`). Of the validators: the two differ only on a value of one of the
  classes above, a field with a default, or a life of less than a millisecond.

What the violations show, with the lines quoted in `PROJECT.json` under `findings`:

* **terminal_job.** `updateState` is `UPDATE ... WHERE id = ?`. The first request
  waits in `settle()`; a second one reconciles, records the settlement and delivers
  the job; the first answer arrives as ambiguous and writes REFUND_REQUIRED over
  DELIVERED (then fails its stage compare-and-set, so the payment side stays right).
* **consumed_before_stored.** Both recoveries mark the identifier consumed before
  they finalize the result; a crash between makes every replay a 409.
* **explicit_terminal.** Two concurrent CDP recoveries, each past its check of the
  outcome kind; the second one's write undoes the first one's terminal verdict.
* **cdp_crash.** The pre-settle write exists on CDP too, but no CDP recovery reads
  `settlement_pending`.
* **adapter_concurrency.** The limiter's second waiting loop does not compare
  `activeRequests` again.
* **shared_delegation.** A recovery accepts the only transaction a delegation lists;
  its amount, time and id are not compared with the payment, and nothing makes a
  delegation single-use.

### Bounds, and why they are enough

* `Requests`: three POSTs at once are the first request and two recoveries (or
  recovery and replay) in any order, which every race in the code needs at most;
  more requests in sequence come through `Again`. `live_nevermined` uses two.
  `Bindings`: two, the acquired one and a conflicting one. `MaxTries`: no guard reads
  the counter; the bound stops CDP retries at three counted calls.
* `CrashAt`, `Faults`, `MayLapse`, `Upto`, `Checker`: the safety runs allow crashes
  anywhere and expiry. `Faults` is `{"job"}` on Nevermined and `{"stage"}` on CDP.
  With failing stage writes `ConsumedIsSettled` does not hold (a recovery ignores the
  result of two stage writes and consumes all the same).
* `ProviderAdapter`: two executions reach both waiting loops, a late result and
  simultaneous probes; three where one waits while two call. Thresholds differ from
  each other and from one.
* `JobQueue`: two callers, two inputs and two workers are the races of unique indexes
  and of redelivery; `MaxRetries` 1 reaches the policy's burial.
* `PaymentEvidence`: one payment in `libraries`, two in `shared_delegation`;
  `MaxNow` 2 passes a quote's life, `MaxQuotes` 2 is a quote and a newer one.
* `FacilitatorEvidence`: one payment; answers with one odd field to a verify call and two
  to a settle call, so each check is met alone and every pair of them in its order.
* `PublicFetch`: both redirect limits 2, so a chain may pass either; `MaxBytes` =
  `HopBytes` = 2 (the code: 10 MiB each) and pages of up to 3 bytes, so a page is
  below, at or over the bound; five URLs, one of each kind.
* `EdgeWorker`: two visitors, two databases, two changes (open and close a gate while
  a request awaits), two gates, since the code asks for all of them alike.
  `SourceAdapters`: one kept entry, a life and a clock of one, so every set evicts and
  every entry ages. `PlanRegistry`: two attempts, registrations and runs.
* `SourceDrift`: 85 documents to a depth of three, compared to a depth of 2 (the code:
  16), 16 policies. `ContractCompat`: two releases, two files, schemas of values and
  objects with every bump; of the release in use every file, copy, line of SHA256SUMS and the
  descriptor take every value. `SemanticValidators`: each model with up to two fields
  spoiled, quotes with all prices and times, outputs with all sections, counts and
  strings. `SchemaProfile`: trees of up to four places with two references, limits 2,
  3 and 2. `AgentSurfaces`: requests with up to two things wrong. `PlanTerms`: plans
  with one field spoiled, up to two credits (section 4 proves these two, the prices and the
  validators without such bounds). `QuotaGuard`: what is left, about each border of scarcity.
* `MutationProofs`: two defects, two runs, so the second meets what a kill left.
  `RepositoryPair`: two ids, two keys, a clock of two half days; the comparison ends
  where one of the two has taken or dropped a row the other has not.
  `ArtifactStores`: two artifacts, two hashes, two puts under way at once (`MaxPuts`).

Symmetry: requests, callers, workers, inputs, artifacts and hashes are interchangeable in
runs of invariants; `route_cdp` combines it with `[][A]_v` properties and a refinement that
are symmetric step properties. Runs of liveness use none. `CHECK_DEADLOCK FALSE` is
set where executions end: a component without steps, a service that was told, a CDP
run whose request slots have all spent their settle call.

### Fairness

* `PaymentRoute`: a Worker that is not killed goes on (weak fairness of `Handle`), and
  the buyer keeps sending the request (`Arrive`, `Again`). The reads, the
  reconciliation and the settled record of a recovery are strongly fair: each retry
  may be killed or find the read-only client failing, but not at the same step of
  every retry for ever. `MayLapse` is off: an expired quote is answered 402 by design.
* `ProviderAdapter`: timers fire, fetches end within their own timeout, time passes,
  executions keep coming. Which of several outcomes a call has is not fair: a provider
  may fail for ever.

## 4. Proofs

`tlapm` checks them for all values of the constants. The assumptions are the named `ASSUME`s
of the modules (bounds are numbers; null values are none of the requests, bindings or
inputs; names of artifacts, hashes and other keys differ; no row's id is 0, which stands for
none; answers of a facilitator are of their fields; for the adapter finite `Requests`,
positive limits and `SuccessThreshold <= HalfOpenMax`, without which a half open breaker
could not close; for the fetch and the cache positive limits; for a service that each
verifier is in a wave and what successes look like). What further assumptions a theorem has,
it states.

**PaymentRoute** (`PaymentRouteInduction`, `PaymentRouteProofs`). `ChargedAtMostOnce`
and `ServedIsPaidAndFinal` are not inductive: they say nothing of who may still charge
or finalize. `IndInv` adds the code's own argument. (1) One request wins the unique
insert, so there is one preparing request (`OneFirstSeen`), and everybody past
`acquire` has the row's binding (`BoundRequests`). (2) Until `recordSettlementPending`
has committed, nothing was sent (`EarlyIsUncharged`); the stage leaves `executed` once.
(3) Until a failed settlement is on record only that request calls settle
(`OneCallUnlessFailed`), on Nevermined for ever; on CDP several may afterwards, and what
landed is what was charged (`ChargesAreLanded`). (4) Success evidence means a
charge (`SettledIsCharged`). (5) `settlement_pending` or `settlement_failed` is left
for `settled_external` once, by a compare-and-set, and its winner is the only one that
finalizes (`OneFinalizer`). `RoutineStep` settles, once for all, the steps that neither
open nor leave a stage, send a call or store a result; each other step has a lemma with
one part per conjunct. From it follow `ChargedOnce`, `ServedOnlyPaid`, `ResultStays`
(an action property) and `Refinement`: every step of `Spec` is a step of
`PaymentPromise` or changes nothing it shows.

**The accounts** (`PaymentRouteProofs`). `Accounts`, inductive relative to `IndInv`:
the service ran once if the stage says so (`RanOnce`), the output is stored before the
pending write (`Drafted`), whoever delivers has consumed (`ConsumedFirst`), a win is
counted by the recovery that consumed (`CountedOnce`), and a finalizer knows the stage
if stage writes report their outcome (`StageIsKnown`). It gives `PaidHasResult`,
`DeliveredIsConsumed`, `WinsCountOnce`, and `ConsumedIsSettled` under
`"stage" \notin Faults`, the proviso the fault model needs.

**The moves** (`PaymentRouteProofs`). `StagesMoveLegally`: every stage write is a
compare-and-set that names the stage it starts from; the one exception, a recovery's record
of a settlement, compares with the stage it read earlier, which `IndInv` says was an open
one (`SeenIsOpen`). `JobsMoveLegally` is about the job's row, which no statement guards. On
CDP it holds where job writes report their outcome: `JobKnown` says, for each place of the
first request, in which states the job can be. A recovery starts from `settlement_failed`,
which that request writes last, after the job has left SETTLING, so a recovery finds nothing
of the job to write and the two never race. On Nevermined a recovery may start while the
first request still waits in `settle()`, and the property is false: that is the run
`terminal_job`.

**PaymentEvidence** (`PaymentEvidenceProofs`). `EvidenceSafe` says of each payment what its
quote, its row, its request and the buyer's money have to do with each other: a row is bound
to a quote of this server at that quote's price (`RowIsBound`), the step of a request tells
the stage of its row (`StageFollowsStep`), nobody is charged before the service has run and
whoever is charged is charged once, as the quote says (`ChargedOnce`), who is told of a
conflict asked for another binding (`ConflictIsTrue`). From it `ChargesFollowQuotes`,
`RetriesAreTheSame`, and, where delegations are not shared, `SettlementsWereCharged`: without
that proviso the run `shared_delegation` refutes it.

**FacilitatorEvidence** (`LibraryProofs`). `FacilitatorSafe` says of each payment what its
standing takes for said (`StandsAsSaid`), with the id kept since the verification while the
isolate lives. `OutcomesAreSaid` follows for any payments and any answers.

**JobQueue** (`JobQueueProofs`). `Safe` is the conjunction of `TypeOK`, `JobShape`,
`CallShape`, `SendShape`, `QueueShape`, `WorkShape` and `MessageShape`. The argument:
the unique index on `jobs` outlives the idempotency record, so a batch after
`deleteExpired` fails rather than make a second job; the unique dispatch row is
written before the message, so one caller at most has a row without a message and only
it sends; a message leaves the queue only when its handler has returned, after its
release or burial, so while the job is open a copy of it is always somewhere. Results:
`KeyHasOneJob`, `HoldersAgree`, `MessagesKept`, `NothingRunsLate`, `KeepsPromise`
(refinement of `JobPromise`), `TypesKept`.

**ProviderAdapter.** The invariants are inductive together with `TriesFollow`, which
tells holders of a slot from retries that run without one. `HalfOpenCanClose` is the
balance that makes an un-returned probe harmless: successes, calls under way and probes
left never sum to less than the threshold. `AdapterTypesKept` is its `TypeOK`.

**The service runtime** (`ServiceVerificationProofs`). `ServiceSafe`: what a verifier is
heard to say is its verdict on this draft (`HeardIsSaid`), a receipt signs what the mesh
decided when all of it was heard (`ReceiptIsDecided`), the document says what was signed or
that the key was no good (`CheckedIsSigned`), the caller is told nothing else
(`ToldIsDecided`). Of the waves the proofs use only that
each verifier is in one (`WavesAssumption`), of the services what their successes look like
(`OutcomesAssumption`): one that counts right has all its sources, and one that is no document
of pages counts and cites as the verifiers want it. TLC evaluates both in `components`, for
the waves of `VerifierGraph` and every draft of `EvidenceServices`. `OutputsAreVerified` and
`RefusalsHaveReasons` are the two properties; `ComponentsVerify` and `ComponentsTyped` carry
them over to the composition with the job path.

**What the Worker shows and reaches** (`SurfaceProofs`). *Gates.* What is kept or awaits its
lookup was composed with every gate open, and a request keeps the app of its own database
(`WorkerSafe`); so `ServesByGates` holds however settings change during the await.
`ClaimsHold` is `DiscoveryIsTrue` for any set of gates. *Registry.* In a calm registry, what
a listing found of agents is all there are, so absence is said of nothing; what shows of a
link is a link (`RegistrySafe`). `OneRegistration` follows for any schedule and number of
runs. *Fetch.* The hop under way is the last of the chain and allowed, every family has
answered before the dial, the chain is within the limit of the client that follows it, each
connection is of the chain and checked (`FetchSafe`). `FetchesAreChecked` has one assumption
of its own, `MaxBytes <= HopBytes` (in the code they are equal): were one exchange to take
less than the fetch accepts, the executor could cut a page and nobody would say so.

**What is offered** (`SurfaceProofs`). `OffersAgree` is `SurfacesAgree` for whatever the
surfaces are asked. *Prices.* Each of the eight entries of the price list is told alike by
every table (`SoldAsAgreed`, entry by entry), a service is sold by one of them
(`SoldOnce`), and paths of different services or rails differ (`PathsDiffer`); `PricesAlike`
follows for every configuration. *Agents.* What a server answers is what the boundary made
of the call or nothing (`AnsweredBy`), and it asks the boundary exactly when the call gets
through (`ThroughA2a`, `ThroughMcp`); the two conditions differ only as `SurfacesAlike`
says. `EveryCallIsServed` is about every request, where the run has those with up to two
things wrong. *Terms.* A plan that passes has every field it is asked to have, so whatever
else is read back, it sells one service (`PlansSell`) and pays for its use (`CreditsPay`);
evidence of credits balances for any amounts (`EvidenceIsBalanced`; the one assumption,
`OfferAssumption`, is that they are natural numbers), and a registration is complete only
with what was read back and accepted, in audits of any length (`CompleteSaysSo`).

**Caches, scripts, stores** (`LibraryProofs`). `SourceSafe`: each entry is what was seen for
a question with its key, at its time, and the queue of uses has each kept key once, so a
full cache always has one to evict. `CallersAreAnswered`, `CachesAreBounded`. `ScriptSafe`:
a script that is running knows which defect is in the tree and what it has seen of it;
`PassesAreProofs`. `StoresSafe`: what is under a hash or an id has that hash or id
(`ShelvesAgree`), and the id of a put that waits is still free unless puts of it crossed
(`PutsWait`), which is what makes the exception the only one; `HashesLeadToContents`, for
any artifacts, hashes and number of puts under way. `LibrariesTyped` is `LibraryTypesOK` for
all components of `Libraries`, each in its own steps (`Independently`).

**Repositories** (`LibraryProofs`). `MemoryStandsInForD1` is `StoresAgree` for any ids, keys,
times and calls. `StoresAgree` says what the last call answered; `PairSafe` is why. Until one
of the two takes or drops a row the other does not, both have the same rows in the order in
which they came, no key of a unique index twice, and each index of memory leads to the row
that has the key (`SameRows`, which needs that ids are not used twice, `DistinctIds`). What
memory lists follows what it stores (`ListFollows`): it is the same, but for reservations,
whose ids it still has in their order, and attempts, of which the first may be any. The
orders both answer in are chosen, not computed (`Orderings`): the places of the rows that are
asked for, listed by a value. That there is one such list is proved from the least set of
places that has none (`ListExists`, where the library's well-founded minimum takes the place
of an induction), that it has each row once in `ListIsOnto`; so rows that came in the order
of their times are in that order on both sides (`InOrderIsByTime`), and otherwise the answers
have the same rows.

**Validators** (`LibraryProofs`). `ModelsMirror` and `OutputsMirror` are the part of
`ChecksAreSound` that compares `validators.ts` and `validators.py`, for documents with any
number of fields spoiled and any times and counts: what each language takes of a kind is
compared once (`KindsCompared`), and times differ only within a millisecond or on a day no
calendar has (`TimesCompared`).

**Only model-checked.** Liveness (`PaidIsServed`, `HalfOpenResolves`), which needs
fairness and ENABLED.
`ChecksAreSound` as a whole: it is about functions of data, and of its parts only the
validators are proved. `VerifierGraph`, `SourceDrift` and `ContractCompat` are recursive,
which the provers do not reach; `SchemaProfile` compares reachability in a schema with
that in its graph of references, an induction over the schema; `QuotaGuard` multiplies and
adds decimals of six scales. TLC runs through their data up to the bounds above, `QuotaGuard`
for every number of units about each border of scarcity.

## 5. Not modelled, and why; what the code does besides

Left out of modelled components: wording, audit text, logging, canonical JSON, hashes
and signatures (identity of model values), parsing of sources' answers (an outcome each),
extraction of values from pages and documents (the mesh's verifiers of what is left out
may say anything), `tryAcquire` and the fixed window limiter (no adapter uses them), the
paging of Nevermined's client, the RPC client of the receipt checker, read-only routes.
The two rails' facilitators, the chain, resolvers, servers, the queue, R2 and the
Nevermined registry are modelled from how the code uses them.

Not modelled: schemas and generated types (data); HTML extraction and the Python document
pipeline (text analysis, no shared state); the entry points of worker runtime tests and
remote diagnostics and the operations scripts (straight sequences of calls and their
report); MCP over stdio (the closed server of `AgentSurfaces`); web site, registry files,
governance (static).

Hazards without a property, as `PROJECT.json` notes: after `recordSettledExternal` a dead
Worker leaves a row neither recovery acts on, so `PaidIsServed` is about deaths before
it; a death between the dispatch row and its message leaves a job nobody sends; an
adapter's retries have no bound of their own while others reset the shared counter.

Reading the code for these modules brought up behaviour that the properties name as
exceptions or that lies beside them. None is needed to read the results; all are in the
code as modelled.

* Fetch and egress. `pa/http/modal-safe-egress-client.ts:59` asks for 10 * 1024 * 1024
  bytes, while the executor's `schemas.py:38` accepts at most 10 000 000. The executor
  does not undo chunked framing; both clients take a body shorter than its length for
  whole; the client drops the executor's `truncated`; the socket client does not look at
  `init.signal`.
* Gates. `production-web-context-v2-cdp-route.ts:56` hands over nine values, and the
  composition also needs `MODAL_WEBCTX_*`: the route answers 503 in every configuration
  while discovery claims it active. The kept app is compared by database only; an
  ephemeral card identity differs between isolates.
* Sources. No adapter looks at the HTTP status, so a JSON error page is kept for a day
  by three of them. The submissions key leaves out the expected name and ticker, the
  public one the conditional headers; a hit comes before the terms are reviewed; a
  bypassing read still writes; both SEC adapters have the id `sec-edgar`.
* Drift. An empty object differs from itself into quarantine; only the first element of
  a list is inferred; `shape.ts:12` gives `JSON.stringify` an array replacer, which drops
  nested names, so different shapes may hash alike.
* Release gate. Arrays are objects to `compat.ts`, so its branches for enums and
  `required` are not reached and additions are minor; the frozen copy of a later release
  may be edited with it unnoticed. SHA256SUMS is read from the same tree as the files
  (`compat.ts:97-111`): whoever edits a schema, the descriptor and both their lines passes.
* Validators. zod strips an eighth protocol and pydantic refuses it (`validators.ts:355`,
  `validators.py:316`); lengths are UTF-16 units in one and code points in the other;
  `new Date` rolls 2024-02-30 over and `fromisoformat` raises (`validators.ts:49`,
  `validators.py:60`). `re.match` with `$` accepts a trailing newline and `\d` other digits;
  None passes for optional fields; missing counts have defaults in Python and compare false
  in TypeScript; the quote's rule of schemes and times is Python's alone.
* Mesh. Production executors pass no `mode`, so a request for independent reproduction is
  verified in the standard mode (docs/decisions/0034 says it cannot be).
* Payments. The comment on CDP's recovery (`x402-service.ts:985-993`) says that a retry
  reuses the "exact original" payload, "already binding-hash-validated", and so "cannot
  produce a second successful on-chain charge". The retry settles the current replay's
  payload (`:1163-1178`), and what the binding compares (`binding.ts:125-154`,
  `:719-743`) has no nonce, signature or hash of the payload: a replay signed afresh
  passes, and TLC reaches a state with two charges. `ChargedAtMostOnce` and the promise
  say what is left: none before a failed outcome is on record.
  `cdp_facilitator_settle_attempt_count` misses a first call that succeeds and
  counts a refused retry twice (`payment-attempts.ts:430`); a CDP quote is accepted by id
  alone, `quoteBindingMatches` is called in its test only.
* Facilitators. The HTTP client drops a `success` that is not a boolean, so such an answer
  with a transaction counts as a settlement, although `normalizeSettlementSuccess` calls a
  value that is neither true nor false ambiguous (`validation.ts:185`). A refusal without a
  transaction is a malformed answer and leaves the payment open. The request id of a
  verification stays in the map after a failed settle call.
* Queue. Dispatch refuses `retry_count > 5`, the consumer `>= 5`; the message
  dispatch sends has no id, and the consumer's first check refuses a message without one:
  whoever joins the two (nothing in src does) has to add it. A read that fails is taken
  for a job that is not there, and the dead letter sinks keep nothing: both are the
  exceptions of `NothingLost`.
* Scripts. Discovery, readiness, web-context-v2 and executor-diagnostics pass although
  mutations were skipped; `termsguard-tristate` never runs the tests on the clean tree;
  two scripts refuse to overwrite a concurrent edit though their header says they restore
  unconditionally.
* Agents. MCP quotes are not stored and name a resource of no route; A2A ignores
  `payment` and refuses `serviceVersion` `v2`.
* Prices and plans. Declarations of v2 services bind release 1.0.0; the catalogue's 0.19
  for company evidence is no price key; document v2 also passes as a fixed plan of one
  credit a call; completeness of a registration knows first versions only; without a
  service id a requirement of any quote is accepted. `registry-reconciliation.ts:162`
  decides "absent" by its last attempt, failed reads included, though its header speaks
  of the whole schedule.
* Schemas. The gate on a buyer's schema misses recursion through nested targets of
  references, encoded names and targets inside annotations.
* Repositories. In memory, `attempts.update` replaces the first attempt of a job
  (`in-memory.ts:171`) and a released reservation stays in the list as it was; D1
  reports most duplicates as `DATABASE_ERROR`; R2 gives keys where memory gives ids. Memory's
  `put` checks the id (`store.ts:14`) before it awaits the hash (`:24`) and writes (`:37-38`),
  so of two puts of one id both may go through and the second has the id.

## 6. Plan

Done: every module of section 2, with its properties, and the proofs of section 4.
What would add most next:

1. `QuotaGuard` for every quantity that is left, and `SchemaProfile` for every schema, as
   theorems about their definitions.
2. `RepositoryPair` beyond the parting: which of the two is right of each call after it.
3. The seven adapters' `execute` as one composition of `ProviderAdapter`,
   `SourceAdapters` and `PublicFetch`, so that a late answer of a fetch meets the cache.
4. `PaymentEvidence` with `PaymentRoute`'s interleaving, at least for two requests of one
   identifier: `ChargedAsQuoted` as an inductive invariant relative to both.
