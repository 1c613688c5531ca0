---------------------------- MODULE MCLibraries ----------------------------
(***************************************************************************)
(* The packages, the gates of the Worker and the scripts, each on a small  *)
(* instance.  They share no state and no step in the code, so one          *)
(* behaviour is one component's: part says whose, and the others rest at   *)
(* an initial state.                                                       *)
(***************************************************************************)
EXTENDS Libraries, ServiceOffers, TLC

all == <<part, question, evidenceVars, fetchVars, sourceVars, workerVars, proofVars, pairVars, storeVars, registryVars, facilitatorVars>>

-----------------------------------------------------------------------------
(* Verifier graphs: three verifiers that depend on each other and on one   *)
(* that is not there, an id used twice, and no verifier at all.            *)

Graph == INSTANCE VerifierGraph WITH Alphabet <- <<"a", "b", "c", "x">>

Deps == SUBSET {"a", "b", "c", "x"}
Graphs ==
  {<<[id |-> "b", deps |-> b], [id |-> "a", deps |-> a], [id |-> "c", deps |-> c]>> : a, b, c \in Deps}
  \cup {<<[id |-> "a", deps |-> {}], [id |-> "a", deps |-> {}]>>, <<>>}

-----------------------------------------------------------------------------
(* URLs of each kind: a name, one with userinfo, an address of each kind,  *)
(* and a port that is not allowed.                                         *)

Web == {
  [id |-> 1, host |-> "name", port |-> TRUE, user |-> FALSE],
  [id |-> 2, host |-> "name", port |-> TRUE, user |-> TRUE],
  [id |-> 3, host |-> "public", port |-> TRUE, user |-> FALSE],
  [id |-> 4, host |-> "private", port |-> TRUE, user |-> FALSE],
  [id |-> 5, host |-> "name", port |-> FALSE, user |-> FALSE]}

-----------------------------------------------------------------------------
(* Documents of a source, of every kind, to a depth of three; the policies *)
(* of an adapter.                                                          *)

Drift == INSTANCE SourceDrift WITH MaxDepth <- 2

Leaves == {[kind |-> k] : k \in {"number", "word", "time"}}
Small  == {[kind |-> "number"], [kind |-> "word"]}
Objects(names, values) == UNION {{[kind |-> "object", fields |-> f] : f \in [S -> values]} : S \in SUBSET names}
Lists(values) == {[kind |-> "list", items |-> s] : s \in UNION {[1..n -> values] : n \in 0..2}}

Inner == Objects({"id"}, Leaves) \cup Lists(Small) \cup Objects({"name"}, Objects({"id"}, Small))
Documents ==
  Leaves \cup Lists(Objects({"id"}, Small)) \cup Objects({"id", "next_cursor", "offset"}, Small)
  \cup {[kind |-> "object", fields |-> [n \in {"data"} |-> v]] : v \in Inner}
  \cup {[kind |-> "object", fields |-> [n \in {"id", "data"} |-> IF n = "id" THEN w ELSE v]] : v \in Inner, w \in Small}

Policies == [additions : BOOLEAN, all : BOOLEAN, items : {0, 1}, depth : {0, 1}]

-----------------------------------------------------------------------------
(* Schemas of a value and of an object, with a property that has the name  *)
(* of a keyword; documents; repositories edited anywhere.                  *)

Compat == INSTANCE ContractCompat

Num(n) == [num |-> n]
Str(s) == [str |-> s]
Map(f) == [map |-> f]

ValueSchemas ==
  {Map([k \in keys |-> Num(IF k = "minimum" THEN low ELSE high)]) :
     keys \in SUBSET {"minimum", "maximum", "default"}, low \in 0..1, high \in 1..2}
  \cup {Map([k \in {"enum"} |-> Map([i \in is |-> Num(IF first = (i = "0") THEN 1 ELSE 0)])]) :
          is \in {{"0"}, {"0", "1"}}, first \in BOOLEAN}
  \cup {Map([k \in {"pattern"} |-> Str(p)]) : p \in {"a", "b"}}

ObjectSchema(keys, names, low, name, more) ==
  Map([k \in {"type"} \cup keys |->
         CASE k = "type" -> Str("object")
           [] k = "properties" -> Map([n \in names |-> Map([m \in {"minimum"} |-> Num(low)])])
           [] k = "required" -> Map([i \in {"0"} |-> Str(name)])
           [] k = "additionalProperties" -> [bool |-> more]])

Schemas ==
  ValueSchemas
  \cup {ObjectSchema(keys, names, low, name, more) :
          keys \in SUBSET {"properties", "required", "additionalProperties"}, names \in SUBSET {"p", "minimum"},
          low \in 0..1, name \in {"p", "minimum"}, more \in BOOLEAN}

Values ==
  {Num(0), Num(1), Num(2), Str("a"), Str("b")}
  \cup {Map(f) : f \in UNION {[S -> {Num(0), Num(1)}] : S \in SUBSET {"p", "minimum", "x"}}}

\* Of the release in use anything may be edited; the other is as it was.
Descriptors == [release : 1..2, lists : 1..3]
Contents == [Compat!Files -> 0..3]

Repository(descriptor, current, copy, sums, yaml, sum) ==
  LET Other(Frozen(_), v) == [r \in 1..2 |-> IF r = descriptor.release THEN v ELSE Frozen(r)]
      FilesOf(r) == [f \in Compat!Files |-> Compat!FrozenFile(r)]
  IN [descriptor |-> descriptor, current |-> current, frozen |-> Other(FilesOf, copy), sums |-> Other(FilesOf, sums),
      descriptors |-> Other(Compat!FrozenDescriptor, yaml), sumOfDescriptor |-> Other(Compat!FrozenDescriptor, sum)]

-----------------------------------------------------------------------------
(* Contract documents: every model with one or two fields that do not fit, *)
(* quotes of either scheme with any prices and times, outputs with every   *)
(* section, count, string or time wrong.                                   *)

Mirror == INSTANCE SemanticValidators

Classes == {"unfit", "missing", "null", "digits", "items", "empty", "extra", "text", "foreign", "long", "half"}
Times   == {[form |-> f, at |-> 0] : f \in {"fit", "digits", "unfit"}} \cup [form : {"fit", "rolled"}, at : 1..3]

Issued == {t \in Times : t.at = 0} \cup {[form |-> "rolled", at |-> 1]}

Spoiled(kinds, most) ==
  UNION {{[k \in kinds |-> IF k \in S THEN f[k] ELSE "fit"] : f \in [S -> Classes]} :
           S \in {S \in SUBSET kinds : Cardinality(S) <= most}}

QuotesOf(kinds) ==
  {[k \in kinds |-> CASE k = "scheme" -> way [] k = "price" -> cost [] k = "maximum" -> most
                      [] k = "issued" -> issued [] k = "expires" -> expires [] OTHER -> d[k]] :
     way \in {"exact", "upto"}, cost, most \in {"fit", "missing", "null", "empty"},
     issued \in Issued, expires \in Times, d \in Spoiled(kinds \ {"scheme", "price", "maximum", "issued", "expires"}, 1)}

ModelDocuments(model) ==
  IF model = "quote" THEN QuotesOf(Mirror!Fields[model]) ELSE Spoiled(Mirror!Fields[model], 2)

Sections == {"contract", "completeness", "verification"}
AllCounts == [requested |-> 1, populated |-> 1, supported |-> 0, score |-> 1]
Output(sections, strings, issued, expires, namespaces, counts, verdict, failures) ==
  [sections |-> sections, id |-> strings[1], version |-> strings[2], hash |-> strings[3],
   issued |-> issued, expires |-> expires, namespaces |-> namespaces, counts |-> counts,
   decision |-> verdict, failures |-> failures]

Soon == [form |-> "fit", at |-> 0]
Late == [form |-> "fit", at |-> 2]
Outputs ==
  {Output(sections, <<"fit", "fit", "fit">>, Soon, Late, {"fit"}, counts, verdict, failures) :
     sections \in SUBSET Sections, verdict \in {"pass", "fail"}, failures \in 0..1,
     counts \in UNION {[S -> -1..1] : S \in SUBSET DOMAIN AllCounts}}
  \cup {Output(Sections, strings, issued, expires, namespaces, AllCounts, "pass", 0) :
          strings \in {"fit", "unfit"} \X {"fit", "newline", "missing"} \X {"fit", "newline", "missing"},
          issued \in Issued, expires \in Times, namespaces \in SUBSET {"fit", "other", "newline", "unfit"}}

-----------------------------------------------------------------------------
(* Answers of a facilitator: in one to a verify call one field is not      *)
(* plain, in one to a settle call two.                                     *)

PlainVerify ==
  [http |-> "ok", valid |-> "true", payer |-> "buyer", network |-> "same", request |-> "first", code |-> "absent"]
PlainSettle ==
  [http |-> "ok", success |-> "true", payer |-> "buyer", network |-> "same", credits |-> "asked",
   transaction |-> "hash", code |-> "absent"]
Unlike(r, plain) == Cardinality({f \in DOMAIN plain : r[f] # plain[f]})

Verifies ==
  {r \in [http : Https, valid : Flags, payer : Payers, network : Networks, request : Tokens, code : Codes] :
     Unlike(r, PlainVerify) <= 1}
Settles ==
  {r \in [http : Https, success : Flags, payer : Payers, network : Networks, credits : Credits,
          transaction : Transactions, code : Codes] : Unlike(r, PlainSettle) <= 2}

-----------------------------------------------------------------------------
(* What is left of a quota, about each border of scarcity. *)

Quota == INSTANCE QuotaGuard
Left == {4, 5, 6, 11, 12, 13, 24, 25, 26, 49, 50, 60, 99, 100, 101, 499, 500, 1000}

-----------------------------------------------------------------------------
(* Schemas of up to four places, with up to two references to any place    *)
(* of them or to none, and keywords that are not known.                    *)

Profile == INSTANCE SchemaProfile WITH MaxDepth <- 2, MaxNodes <- 3, MaxRefs <- 2

Grown(trees) == trees \cup UNION {{t \cup {Append(p, s)} : p \in t, s \in Profile!Steps} : t \in trees}
Trees == Grown(Grown(Grown({{<<>>}})))

BuyersSchemas(places) ==
  UNION {[ref : {[n \in places |-> IF n \in S THEN f[n] ELSE Profile!None] : f \in [S -> places \cup {<<"gone">>}]},
          bad : {{}, {n \in places : \E i \in DOMAIN n : n[i] = "default"}, {<<>>}}] :
           S \in {S \in SUBSET places : Cardinality(S) <= 2}}

-----------------------------------------------------------------------------
(* Every configuration of the paid routes; every call of an agent, in a    *)
(* request that has up to two things wrong; the plans of each service with *)
(* up to one field that is not its own, every answer to a settlement, and  *)
(* accounts of credits.                                                    *)

Canonical == <<"company", "web", "document", "verify">>
Audits ==
  {[k \in 1..4 |-> IF k = i THEN f ELSE [service |-> [name |-> Canonical[k], major |-> 1], state |-> "existing",
                                         read |-> 1, accepts |-> TRUE, pairs |-> 1]] : i \in 1..4, f \in Terms!Found}

SoldBy(service) == {Terms!FixedRequirements(service), Terms!DynamicRequirements(service)}
Plans == UNION {
  UNION {{a}
    \cup {[a EXCEPT !.agentName = s] : s \in Terms!Services} \cup {[a EXCEPT !.planName = s] : s \in Terms!Services}
    \cup {[a EXCEPT !.endpoint = s] : s \in Terms!Services} \cup {[a EXCEPT !.linked = "other"]}
    \cup {[a EXCEPT !.amounts = m] : m \in {<<0, 0>>, <<a.amounts[1] + 1, a.amounts[2] - 1>>, <<a.amounts[2], a.amounts[1]>>,
                                             <<a.amounts[1], 0>>, <<a.amounts[1] + 1, a.amounts[2]>>}}
    \cup {[a EXCEPT !.receivers = <<"platform", "seller">>], [a EXCEPT !.token = "other"], [a EXCEPT !.crypto = FALSE],
          [a EXCEPT !.fixed = TRUE], [a EXCEPT !.redemption = 0], [a EXCEPT !.mirror = TRUE], [a EXCEPT !.duration = 1],
          [a EXCEPT !.access = "time"], [a EXCEPT !.trial = TRUE], [a EXCEPT !.recurring = TRUE]}
    \cup {[a EXCEPT !.credits = c] : c \in [amount : {1, 190000}, min : {1, 12000, 29000}, max : {1, 19000, 190000}]}
    : a \in SoldBy(service)} : service \in Terms!Services}

Offers == ({"plan"} \X Plans) \cup ({"settlement"} \X Terms!Settlements) \cup ({"use"} \X Terms!Expected) \cup ({"audit"} \X Audits)

-----------------------------------------------------------------------------
NoQuestion == <<>>

PaymentMoves ==
  part = "evidence" /\ EvidenceNext /\ UNCHANGED <<part, question, fetchVars, sourceVars, workerVars, proofVars, pairVars, storeVars, registryVars, facilitatorVars>>
FetchMoves ==
  part = "fetch" /\ FetchNext /\ UNCHANGED <<part, question, evidenceVars, sourceVars, workerVars, proofVars, pairVars, storeVars, registryVars, facilitatorVars>>
SourcesMove ==
  part = "sources" /\ SourceNext /\ UNCHANGED <<part, question, evidenceVars, fetchVars, workerVars, proofVars, pairVars, storeVars, registryVars, facilitatorVars>>
EdgeMoves ==
  part = "edge" /\ WorkerNext /\ UNCHANGED <<part, question, evidenceVars, fetchVars, sourceVars, proofVars, pairVars, storeVars, registryVars, facilitatorVars>>
ProofsMove ==
  part = "proofs" /\ ProofNext /\ UNCHANGED <<part, question, evidenceVars, fetchVars, sourceVars, workerVars, pairVars, storeVars, registryVars, facilitatorVars>>
RepositoriesMove ==
  part = "repositories" /\ PairNext /\ UNCHANGED <<part, question, evidenceVars, fetchVars, sourceVars, workerVars, proofVars, storeVars, registryVars, facilitatorVars>>
StoresMove ==
  part = "artifacts" /\ StoresNext /\ UNCHANGED <<part, question, evidenceVars, fetchVars, sourceVars, workerVars, proofVars, pairVars, registryVars, facilitatorVars>>
RegistryMoves ==
  part = "registry" /\ RegistryNext /\ UNCHANGED <<part, question, evidenceVars, fetchVars, sourceVars, workerVars, proofVars, pairVars, storeVars, facilitatorVars>>

FacilitatorMoves ==
  part = "facilitator" /\ FacilitatorNext /\ UNCHANGED <<part, question, evidenceVars, fetchVars, sourceVars, workerVars, proofVars, pairVars, storeVars, registryVars>>

\* The others have no state.  A component that does not move rests at one of
\* its initial states.
LibrariesInit ==
  /\ part \in {"evidence", "fetch", "sources", "edge", "proofs", "repositories", "artifacts", "registry", "facilitator",
               "graphs", "drift", "contracts", "mirror", "quota", "schemas", "prices", "agents", "plans"}
  /\ EvidenceInit /\ (part = "evidence" \/ (rail = "cdp" /\ scheme = "exact"))
  /\ FetchInit    /\ (part = "fetch" \/ (via = "direct" /\ url.id = 1))
  /\ SourceInit   /\ (part = "sources" \/ adapter = "github")
  /\ WorkerInit   /\ (part = "edge" \/ (on = Settings /\ db = CHOOSE d \in Databases : TRUE))
  /\ ProofInit    /\ (part = "proofs" \/ (script = TermsReview /\ blind = {}))
  /\ PairInit /\ (part = "repositories" \/ repository = "jobs")
  /\ StoresInit
  /\ RegistryInit /\ (part = "registry" \/ calm)
  /\ FacilitatorInit /\ (part = "facilitator" \/ (provider = "cdp" /\ mode = "production"))
  /\ question \in CASE part = "graphs"    -> Graphs
                    [] part = "drift"     -> Documents
                    [] part = "contracts" -> Schemas \cup Descriptors
                    [] part = "mirror"    -> DOMAIN Mirror!Fields \cup {"output"}
                    [] part = "quota"     -> {[class |-> c, left |-> n] : c \in Quota!Classes, n \in Left}
                    [] part = "schemas"   -> Trees
                    [] part = "prices"    -> Surfaces!Configs
                    [] part = "agents"    -> Agents!Calls
                    [] part = "plans"     -> Offers
                    [] OTHER              -> {NoQuestion}

LibrariesNext == PaymentMoves \/ FetchMoves \/ SourcesMove \/ EdgeMoves \/ ProofsMove \/ RepositoriesMove \/ StoresMove \/ RegistryMoves
                 \/ FacilitatorMoves

LibrariesSpec == LibrariesInit /\ [][LibrariesNext]_all

\* Callers, inputs, artifacts and hashes are alike, and no property tells them
\* apart.  Artifacts are named as callers are and hashes as inputs: the two
\* never meet in a behaviour.
Symmetric == Permutations(Visitors) \cup Permutations(Inputs)

-----------------------------------------------------------------------------
(* Properties, by the names of their modules. *)

\* An adapter that expects what it was once sent, with every name of it
\* required or with none, goes on with no document that lacks any of it.
GoesOnSafely ==
  \A e \in {Drift!Infer(question, "none", 0)} : \A d \in Documents, policy \in Policies :
    Drift!GoesOnWithTheSame(e, d, policy) /\ Drift!GoesOnWithTheSame([e EXCEPT !.required = {}], d, policy)

\* No schema that breaks a document passes for less than a major release,
\* and a repository edited under a release passes the gates only if what it
\* is checked against was edited to match.
ReleasesKeep ==
  IF question \in Descriptors
  THEN \A current, copy, sums \in Contents, yaml, sum \in Descriptors \cup {Compat!Missing} :
         Compat!CheckedIsFrozen(Repository(question, current, copy, sums, yaml, sum))
  ELSE \A schema \in Schemas : Compat!NotMajorIsCompatible(question, schema, Values)

\* The two implementations of the contract validators differ only where a
\* language makes them, and validators.py is the more lenient.
ValidatorsAgree ==
  IF question = "output" THEN \A d \in Outputs : Mirror!MirrorsOutput(d)
  ELSE \A d \in ModelDocuments(question) : Mirror!MirrorsModel(question, d)

\* The algorithms a caller relies on without seeing them work: the order of
\* verifiers, the verdict on a changed source or contract, the validators in
\* two languages, the schemas a verification is sold for, and the cost of a
\* reservation.
ChecksAreSound ==
  /\ part = "graphs" => Graph!Scheduled(question)
  /\ part = "drift" => GoesOnSafely
  /\ part = "contracts" => ReleasesKeep
  /\ part = "mirror" => ValidatorsAgree
  /\ part = "schemas" => \A schema \in BuyersSchemas(question) : Profile!ProfileIsSound(schema)
  /\ part = "quota" /\ question.left <= Quota!Total[question.class] =>
       \A units \in 0..question.left : Quota!ReservationsAreSound(question.class, question.left, units)

=============================================================================
