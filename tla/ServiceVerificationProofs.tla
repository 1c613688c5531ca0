----------------------- MODULE ServiceVerificationProofs -----------------------
(***************************************************************************)
(* What a buyer of a service is given, for any waves and any outcomes of   *)
(* the services: what every verifier of the mode has passed, under a       *)
(* receipt that was verified; and why an execution ends without success.   *)
(* With it, the two components of Components together.                     *)
(***************************************************************************)
EXTENDS Components, JobQueueProofs, WellFoundedInduction

\* Requests, and what the caller may have been told.
RequestTyped == request.service \in ServicesOf /\ request.mode \in ModesOf
Typed        == ServiceTypeOK /\ RequestTyped

\* What a verifier is heard to say is its verdict on this draft, and nothing
\* is heard before there is one.
HeardIsSaid ==
  \A v \in ToSet(VerifierIds) :
    /\ step \in {"idle", "sources"} => heard[v] = "unheard"
    /\ heard[v] \in {"unheard", "slow"} \/ heard[v] \in Verdicts(v, draft, request.mode, request.reproduction)

\* The draft is one the service can make, and the mesh is given none that
\* cannot be built.
DraftIsMade ==
  /\ step \notin {"idle", "sources"} =>
       \E o \in OutcomesOf[request.service] : draft = o.draft /\ sourced = o.sourced
  /\ step \in {"mesh", "check", "result"} => Buildable(draft)

\* A receipt signs what the mesh decided when all of it was heard.
Signed == step \in {"check", "result"} \/ (step = "done" /\ receipt # "none")
ReceiptIsDecided ==
  /\ step \in {"idle", "sources", "mesh"} => receipt = "none"
  /\ Signed => /\ receipt = Decide /\ Buildable(draft)
               /\ \A v \in VerifiersOf(request.mode) : heard[v] # "unheard"
  /\ step = "done" /\ receipt = "none" => draft.class \in EarlyClasses \/ ~Buildable(draft)

\* The document says what was signed, or that the key was no good.
Checked == Signed /\ step # "check"
CheckedIsSigned ==
  Checked => \/ decision = receipt /\ valid
             \/ decision = "fail" /\ key # "active"

\* The caller is told nothing, or of no success, or what the document says.
ToldIsDecided ==
  \/ told = Nothing /\ step # "done"
  \/ ~told.output /\ told # Nothing /\ told.class # "success"
  \/ step = "done" /\ Checked /\ decision = "pass" /\ told.class = draft.class /\ told.output

ServiceSafe == Typed /\ HeardIsSaid /\ DraftIsMade /\ ReceiptIsDecided /\ CheckedIsSigned /\ ToldIsDecided

-----------------------------------------------------------------------------
(* The verifiers and what they say.                                        *)

Ids == {"claim_evidence", "completeness", "cross_source", "evidence_accessibility",
        "freshness", "prompt_injection", "provenance", "reproduction", "schema"}

LEMMA IdsAreNine == ToSet(VerifierIds) = Ids
BY DEF ToSet, VerifierIds, Ids

LEMMA ModesHaveIds ==
  ASSUME NEW mode \in Modes
  PROVE  VerifiersOf(mode) \subseteq Ids /\ Mandatory(mode) = VerifiersOf(mode)
         /\ (mode = "standard" => "reproduction" \notin VerifiersOf(mode))
         /\ "prompt_injection" \in VerifiersOf(mode)
BY IdsAreNine DEF Modes, VerifiersOf, Mandatory, Standard, Ids

\* What a verifier that is heard can say, and when it says no.
LEMMA VerdictsAre ==
  ASSUME NEW v \in Ids, NEW d, NEW mode, NEW reproduction, NEW verdict \in Verdicts(v, d, mode, reproduction)
  PROVE  /\ verdict \in {"pass", "fail", "confirmed", "skipped"}
         /\ verdict = "confirmed" => v = "prompt_injection"
         /\ verdict = "skipped" => v = "reproduction" /\ mode # "independent_reproduction"
         /\ verdict = "fail" =>
              \/ v = "schema"
              \/ v = "evidence_accessibility" /\ ~(\A c \in d.claims : c.cited \subseteq ToSet(d.evidence))
              \/ v = "claim_evidence" /\ ~Citing(d)
              \/ v = "completeness" /\ ~Counted(d)
              \/ v = "reproduction" /\ mode = "independent_reproduction" /\ reproduction # "match"
         /\ verdict = "pass" =>
              /\ v = "evidence_accessibility" => \A c \in d.claims : c.cited \subseteq ToSet(d.evidence)
              /\ v = "claim_evidence" => Citing(d)
              /\ v = "completeness" => Counted(d)
<1> USE DEF Pass
<1>1. CASE v \in {"schema", "prompt_injection", "freshness", "cross_source", "provenance"}
  BY <1>1 DEF Verdicts, Schema, PromptInjection, Freshness, CrossSource, Provenance
<1>2. CASE v = "evidence_accessibility"
  BY <1>2 DEF Verdicts, EvidenceAccessibility
<1>3. CASE v = "claim_evidence"
  BY <1>3 DEF Verdicts, ClaimEvidence, Citing
<1>4. CASE v = "completeness"
  BY <1>4 DEF Verdicts, Completeness, Counted
<1>5. CASE v = "reproduction"
  BY <1>5 DEF Verdicts, Reproduction
<1> QED
  BY <1>1, <1>2, <1>3, <1>4, <1>5 DEF Ids

\* A set of natural numbers has a least one.
LEMMA LeastOf ==
  ASSUME NEW S \in SUBSET Nat, S # {}
  PROVE  \E n \in S : \A k \in S : n <= k
<1> DEFINE Less == {ss \in Nat \X Nat : ss[1] < ss[2]}
<1>1. IsWellFoundedOn(Less, Nat)
  BY NatLessThanWellFounded DEF OpToRel
<1>0. \A k, n \in Nat : k < n => <<k, n>> \in Less
  OBVIOUS
<1> HIDE DEF Less
<1>2. PICK n \in S : \A k \in S : <<k, n>> \notin Less
  BY <1>1, WFMin
<1>3. ASSUME NEW k \in S PROVE n <= k
  <2>1. k \in Nat /\ n \in Nat /\ ~(k < n)
    BY <1>0, <1>2
  <2> QED
    BY <2>1
<1> QED
  BY <1>3

\* No wave waits for anybody: every verifier of the mode was heard.
LEMMA WavesAreHeard ==
  ASSUME Typed, CurrentWave = {}, NEW v \in VerifiersOf(request.mode)
  PROVE  heard[v] # "unheard"
<1> DEFINE waves == WavesOf[request.mode]
           open  == {n \in DOMAIN waves : Unheard(waves[n]) # {}}
<1>1. request.mode \in ModesOf /\ request.mode \in Modes
  BY DEF Typed, RequestTyped, ServiceTypeOK
<1>2. waves = Waves[request.mode]
  BY <1>1 DEF WavesOf
<1>3. DOMAIN waves \subseteq Nat /\ v \in UNION {waves[n] : n \in DOMAIN waves}
  BY <1>1, <1>2, WavesAssumption
<1>4. open = {}
  <2> SUFFICES ASSUME open # {} PROVE FALSE
    OBVIOUS
  <2>1. \E n \in open : \A k \in open : n <= k
    <3>1. open \subseteq Nat
      BY <1>3
    <3> QED
      BY <3>1, LeastOf
  <2>2. CurrentWave = waves[CHOOSE n \in open : \A k \in open : n <= k]
    BY DEF CurrentWave
  <2>3. (CHOOSE n \in open : \A k \in open : n <= k) \in open
    BY <2>1
  <2> QED
    BY <2>2, <2>3 DEF Unheard
<1> QED
  BY <1>3, <1>4 DEF Unheard

-----------------------------------------------------------------------------
(* The steps.                                                              *)

\* What the decision is, and when it is to pass.
LEMMA DecisionsAre ==
  ASSUME Typed, HeardIsSaid, \A v \in VerifiersOf(request.mode) : heard[v] # "unheard"
  PROVE  /\ Decide \in {"pass", "fail", "conditional", "quarantined"}
         /\ Decide = "pass" <=> \A v \in VerifiersOf(request.mode) : heard[v] = "pass"
<1>1. request.mode \in Modes
  BY DEF Typed, ServiceTypeOK
<1>2. VerifiersOf(request.mode) \subseteq Ids /\ Mandatory(request.mode) = VerifiersOf(request.mode)
  BY <1>1, ModesHaveIds
<1>3. \A v \in VerifiersOf(request.mode) : heard[v] \in {"pass", "fail", "confirmed", "skipped", "slow"}
  <2> TAKE v \in VerifiersOf(request.mode)
  <2>1. v \in Ids /\ heard[v] # "unheard"
    BY <1>2
  <2>2. heard[v] = "slow" \/ heard[v] \in Verdicts(v, draft, request.mode, request.reproduction)
    BY <2>1, IdsAreNine DEF HeardIsSaid
  <2> QED
    BY <2>1, <2>2, VerdictsAre
<1> QED
  BY <1>2, <1>3 DEF Decide

\* The decision looks at the request and at what was heard.
LEMMA DecideFollows == request' = request /\ heard' = heard => Decide' = Decide
BY DEF Decide

\* The initial states.
LEMMA ServiceStarts ==
  ASSUME ServiceInit, "web" \in ServicesOf, "standard" \in ModesOf
  PROVE  ServiceSafe
<1> USE DEF ServiceInit
<1>1. Typed
  BY DEF Typed, RequestTyped, ServiceTypeOK, Steps, Services, Modes, Decisions, KeyStatuses, Nothing
<1>2. HeardIsSaid
  BY DEF HeardIsSaid
<1> QED
  BY <1>1, <1>2 DEF ServiceSafe, DraftIsMade, ReceiptIsDecided, Signed, Checked, CheckedIsSigned, ToldIsDecided, Nothing

\* An execution begins.
LEMMA BeginServiceStep ==
  ASSUME ServiceSafe, BeginService
  PROVE  ServiceSafe'
<1> USE DEF ServiceSafe
<1>1. step = "idle" /\ step' = "sources" /\ UNCHANGED <<draft, sourced, heard, receipt, valid, decision, key, told>>
  BY DEF BeginService
<1>2. Typed'
  BY DEF BeginService, Typed, RequestTyped, ServiceTypeOK, Steps, ServicesOf, ModesOf, Services, Modes
<1>3. HeardIsSaid'
  BY <1>1 DEF HeardIsSaid
<1>4. DraftIsMade' /\ ReceiptIsDecided'
  BY <1>1 DEF DraftIsMade, ReceiptIsDecided, Signed
<1>5. CheckedIsSigned' /\ ToldIsDecided'
  BY <1>1 DEF Signed, Checked, CheckedIsSigned, ToldIsDecided
<1> QED
  BY <1>2, <1>3, <1>4, <1>5

\* The draft is built, refused, or cannot be built.
LEMMA SourcesStep ==
  ASSUME ServiceSafe, AskSources
  PROVE  ServiceSafe'
<1> USE DEF ServiceSafe
<1>1. step = "sources" /\ UNCHANGED <<request, heard, receipt, valid, decision, key>>
  BY DEF AskSources
<1>2. PICK o \in OutcomesOf[request.service] :
        /\ draft' = o.draft /\ sourced' = o.sourced
        /\ \/ o.draft.class \in EarlyClasses /\ Tell(Closed(o.draft.class)) /\ step' = "done"
           \/ /\ o.draft.class \notin EarlyClasses /\ ~Buildable(o.draft)
              /\ Tell(Closed("internal_verification_failed")) /\ step' = "done"
           \/ /\ o.draft.class \notin EarlyClasses /\ Buildable(o.draft)
              /\ step' = "mesh" /\ UNCHANGED told
  BY DEF AskSources
<1>3. o.sourced \in BOOLEAN
  <2>1. request.service \in ServicesOf /\ request.service \in Services
    BY DEF Typed, RequestTyped, ServiceTypeOK
  <2>2. o \in Outcomes[request.service]
    BY <2>1 DEF OutcomesOf
  <2> QED
    BY <2>1, <2>2, OutcomesAssumption
<1>4. /\ step' \in {"mesh", "done"} /\ told'.output \in BOOLEAN
      /\ step' = "mesh" => told' = told /\ Buildable(draft')
      /\ step' = "done" => (draft'.class \in EarlyClasses \/ ~Buildable(draft')) /\ ToldIsDecided'
  <2>1. told.output \in BOOLEAN /\ (told = Nothing \/ (~told.output /\ told # Nothing /\ told.class # "success"))
    BY <1>1 DEF Typed, ServiceTypeOK, ToldIsDecided
  <2>2. \A class \in EarlyClasses \cup {"internal_verification_failed"} :
          Closed(class) # Nothing /\ Closed(class).output = FALSE /\ Closed(class).class = class /\ class # "success"
    BY DEF EarlyClasses, Closed, Nothing
  <2> QED
    BY <1>2, <2>1, <2>2 DEF Tell, ToldIsDecided
<1>5. Typed'
  BY <1>1, <1>2, <1>3, <1>4 DEF Typed, RequestTyped, ServiceTypeOK, Steps
<1>6. HeardIsSaid'
  BY <1>1, <1>4 DEF HeardIsSaid
<1>7. DraftIsMade'
  BY <1>1, <1>2, <1>4 DEF DraftIsMade
<1>8. ReceiptIsDecided' /\ CheckedIsSigned'
  BY <1>1, <1>4 DEF ReceiptIsDecided, Signed, Checked, CheckedIsSigned
<1>9. ToldIsDecided'
  BY <1>1, <1>4 DEF ToldIsDecided
<1> QED
  BY <1>5, <1>6, <1>7, <1>8, <1>9

\* A verifier says what it finds in this draft, or nothing in time.
LEMMA HearStep ==
  ASSUME ServiceSafe, NEW v \in ToSet(VerifierIds), Hear(v)
  PROVE  ServiceSafe'
<1> USE DEF ServiceSafe
<1>1. step = "mesh" /\ UNCHANGED <<request, step, draft, sourced, receipt, valid, decision, key, told>>
  BY DEF Hear
<1>2. PICK verdict \in Verdicts(v, draft, request.mode, request.reproduction) \cup {"slow"} :
        heard' = [heard EXCEPT ![v] = verdict]
  BY DEF Hear
<1>3. Typed'
  BY <1>1, <1>2 DEF Typed, RequestTyped, ServiceTypeOK
<1>4. HeardIsSaid'
  <2> SUFFICES ASSUME NEW u \in ToSet(VerifierIds)
               PROVE  heard'[u] \in {"unheard", "slow"} \/ heard'[u] \in Verdicts(u, draft, request.mode, request.reproduction)
    BY <1>1 DEF HeardIsSaid
  <2>1. DOMAIN heard = ToSet(VerifierIds)
    BY DEF Typed, ServiceTypeOK
  <2>2. CASE u = v
    BY <1>2, <2>1, <2>2
  <2>3. CASE u # v
    <3>1. heard'[u] = heard[u]
      BY <1>2, <2>1, <2>3
    <3> QED
      BY <3>1 DEF HeardIsSaid
  <2> QED
    BY <2>2, <2>3
<1> QED
  BY <1>1, <1>3, <1>4 DEF DraftIsMade, ReceiptIsDecided, Signed, Checked, CheckedIsSigned, ToldIsDecided

\* The receipt signs the decision of the whole mesh.
LEMMA SignStep ==
  ASSUME ServiceSafe, Sign
  PROVE  ServiceSafe'
<1> USE DEF ServiceSafe
<1>1. /\ step = "mesh" /\ step' = "check" /\ CurrentWave = {} /\ receipt' = Decide
      /\ UNCHANGED <<request, draft, sourced, heard, valid, decision, key, told>>
  BY DEF Sign
<1>2. \A v \in VerifiersOf(request.mode) : heard[v] # "unheard"
  BY <1>1, WavesAreHeard
<1>3. Decide \in {"pass", "fail", "conditional", "quarantined"}
  BY <1>2, DecisionsAre
<1>4. Typed'
  BY <1>1, <1>3 DEF Typed, RequestTyped, ServiceTypeOK, Steps, Decisions
<1>5. HeardIsSaid'
  BY <1>1 DEF HeardIsSaid
<1>6. ReceiptIsDecided'
  BY <1>1, <1>2, DecideFollows DEF ReceiptIsDecided, Signed, DraftIsMade
<1> QED
  BY <1>1, <1>4, <1>5, <1>6 DEF DraftIsMade, Signed, Checked, CheckedIsSigned, ToldIsDecided

\* The receipt is checked with the key as it is now.
LEMMA CheckReceiptStep ==
  ASSUME ServiceSafe, CheckReceipt
  PROVE  ServiceSafe'
<1> USE DEF ServiceSafe
<1>1. /\ step = "check" /\ step' = "result" /\ valid' = CanVerifyWith(key)
      /\ decision' = IF CanVerifyWith(key) THEN receipt ELSE "fail"
      /\ UNCHANGED <<request, draft, sourced, heard, receipt, key, told>>
  BY DEF CheckReceipt
<1>2. Typed'
  BY <1>1 DEF Typed, RequestTyped, ServiceTypeOK, Steps, Decisions, CanVerifyWith
<1>3. HeardIsSaid'
  BY <1>1 DEF HeardIsSaid
<1>4. ReceiptIsDecided'
  BY <1>1, DecideFollows DEF ReceiptIsDecided, Signed
<1>5. CheckedIsSigned'
  BY <1>1 DEF CheckedIsSigned, CanVerifyWith
<1>6. DraftIsMade' /\ ToldIsDecided'
  BY <1>1 DEF DraftIsMade, ToldIsDecided
<1> QED
  BY <1>2, <1>3, <1>4, <1>5, <1>6

\* The service's result, or nothing if the timer was first.
LEMMA FinishStep ==
  ASSUME ServiceSafe, Finish
  PROVE  ServiceSafe'
<1> USE DEF ServiceSafe
<1> DEFINE class == IF decision = "pass" THEN draft.class ELSE "internal_verification_failed"
           answer == [class |-> class, output |-> class # "internal_verification_failed"]
<1>1. /\ step = "result" /\ step' = "done" /\ told' = IF told = Nothing THEN answer ELSE told
      /\ UNCHANGED <<request, draft, sourced, heard, receipt, valid, decision, key>>
  BY DEF Finish, Tell
<1>2. answer # Nothing
  <2>1. class = "none" => answer.output = TRUE
    OBVIOUS
  <2> QED
    BY <2>1 DEF Nothing
<1>3. receipt # "none"
  <2>1. receipt = Decide /\ \A v \in VerifiersOf(request.mode) : heard[v] # "unheard"
    BY <1>1 DEF ReceiptIsDecided, Signed
  <2> QED
    BY <2>1, DecisionsAre
<1>4. Typed'
  BY <1>1 DEF Typed, RequestTyped, ServiceTypeOK, Steps
<1>5. HeardIsSaid'
  BY <1>1 DEF HeardIsSaid
<1>6. ReceiptIsDecided' /\ CheckedIsSigned'
  BY <1>1, <1>3, DecideFollows DEF ReceiptIsDecided, Signed, Checked, CheckedIsSigned
<1>7. ToldIsDecided'
  <2>1. CASE told # Nothing
    BY <1>1, <2>1 DEF ToldIsDecided
  <2>2. CASE told = Nothing /\ answer.output
    BY <1>1, <1>2, <1>3, <2>2 DEF ToldIsDecided, Signed, Checked
  <2>3. CASE told = Nothing /\ ~answer.output
    BY <1>1, <1>2, <2>3 DEF ToldIsDecided
  <2> QED
    BY <2>1, <2>2, <2>3
<1> QED
  BY <1>1, <1>4, <1>5, <1>6, <1>7 DEF DraftIsMade

\* The timer, or the key's operator.
LEMMA OutsideStep ==
  ASSUME ServiceSafe, (TimeOut \/ Retire \/ Revoke)
  PROVE  ServiceSafe'
<1> USE DEF ServiceSafe
<1>1. /\ UNCHANGED <<request, step, draft, sourced, heard, receipt, valid, decision>>
      /\ \/ key' = key /\ told' = Closed("internal_verification_failed") /\ told = Nothing /\ step # "done"
         \/ key' \in {"retired", "revoked"} /\ told' = told
  BY DEF TimeOut, Retire, Revoke
<1>2. /\ Closed("internal_verification_failed") # Nothing /\ Closed("internal_verification_failed").output = FALSE
      /\ Closed("internal_verification_failed").class # "success"
  BY DEF Closed, Nothing
<1>3. Typed'
  BY <1>1, <1>2 DEF Typed, RequestTyped, ServiceTypeOK, KeyStatuses
<1>4. HeardIsSaid'
  BY <1>1 DEF HeardIsSaid
<1>5. ReceiptIsDecided'
  BY <1>1, DecideFollows DEF ReceiptIsDecided, Signed
<1>6. CheckedIsSigned' /\ ToldIsDecided'
  BY <1>1, <1>2 DEF CheckedIsSigned, ToldIsDecided, Checked, Signed
<1> QED
  BY <1>1, <1>3, <1>4, <1>5, <1>6 DEF DraftIsMade

\* Every step keeps what the proof needs.
LEMMA ServiceStep == ServiceSafe /\ [ServiceNext]_serviceVars => ServiceSafe'
<1> SUFFICES ASSUME ServiceSafe, [ServiceNext]_serviceVars PROVE ServiceSafe'
  OBVIOUS
<1>1. CASE ServiceNext
  BY <1>1, BeginServiceStep, SourcesStep, HearStep, SignStep, CheckReceiptStep, FinishStep, OutsideStep DEF ServiceNext
<1>2. CASE UNCHANGED serviceVars
  <2>1. UNCHANGED <<request, step, draft, sourced, heard, receipt, valid, decision, key, told>>
    BY <1>2 DEF serviceVars
  <2>2. (Typed /\ HeardIsSaid /\ DraftIsMade /\ CheckedIsSigned /\ ToldIsDecided)'
    BY <2>1 DEF ServiceSafe, Typed, RequestTyped, ServiceTypeOK, HeardIsSaid, DraftIsMade, CheckedIsSigned, ToldIsDecided,
       Checked, Signed
  <2>3. ReceiptIsDecided'
    BY <2>1, DecideFollows DEF ServiceSafe, ReceiptIsDecided, Signed
  <2> QED
    BY <2>2, <2>3 DEF ServiceSafe
<1> QED
  BY <1>1, <1>2

\* A service is served, in the mode every service has.
LEMMA WebIsServed == "web" \in ServicesOf /\ "standard" \in ModesOf
BY DEF ServicesOf, ModesOf, Services, Modes

\* Hence it holds in every state.
LEMMA ServiceIsSafe == ServiceSpec => []ServiceSafe
BY ServiceStarts, ServiceStep, WebIsServed, PTL DEF ServiceSpec

-----------------------------------------------------------------------------
(* What it gives.                                                          *)

\* Output is what every verifier of the mode has passed itself, with a
\* receipt that was signed for a pass and verified; and success is told only
\* of a draft with all its sources.
THEOREM OutputsAreVerified == ServiceSpec => []OutputIsVerified
<1>1. ServiceSafe => OutputIsVerified
  <2> SUFFICES ASSUME ServiceSafe PROVE OutputIsVerified
    OBVIOUS
  <2>1. request.mode \in Modes /\ request.service \in Services /\ request.service \in ServicesOf
    BY DEF ServiceSafe, Typed, RequestTyped, ServiceTypeOK
  <2>2. VerifiersOf(request.mode) \subseteq Ids /\ Mandatory(request.mode) = VerifiersOf(request.mode)
    BY <2>1, ModesHaveIds
  <2>3. ASSUME told.output
        PROVE  /\ \A v \in VerifiersOf(request.mode) : heard[v] = "pass"
               /\ receipt = "pass" /\ decision = "pass" /\ valid /\ step = "done" /\ told.class = draft.class
    <3>1. step = "done" /\ Checked /\ decision = "pass" /\ told.class = draft.class
      BY <2>3 DEF ServiceSafe, ToldIsDecided, Nothing
    <3>2. decision = receipt /\ valid
      BY <3>1 DEF ServiceSafe, CheckedIsSigned
    <3>3. receipt = Decide /\ \A v \in VerifiersOf(request.mode) : heard[v] # "unheard"
      BY <3>1 DEF ServiceSafe, ReceiptIsDecided, Checked
    <3> QED
      BY <3>1, <3>2, <3>3, DecisionsAre DEF ServiceSafe
  <2>4. ASSUME told.output
        PROVE  /\ \A c \in draft.claims : c.cited # {} /\ c.cited \subseteq ToSet(draft.evidence)
               /\ Counted(draft)
    <3>1. {"evidence_accessibility", "claim_evidence", "completeness"} \subseteq VerifiersOf(request.mode)
      BY <2>1, IdsAreNine DEF Modes, VerifiersOf, Standard, Ids
    <3>2. \A v \in {"evidence_accessibility", "claim_evidence", "completeness"} :
            "pass" \in Verdicts(v, draft, request.mode, request.reproduction)
      BY <2>2, <2>3, <2>4, <3>1, IdsAreNine DEF ServiceSafe, HeardIsSaid
    <3> QED
      BY <3>2, VerdictsAre DEF Citing, Ids
  <2>5. ASSUME told.class = "success" PROVE told.output /\ sourced
    <3>1. told.output
      BY <2>5 DEF ServiceSafe, ToldIsDecided, Nothing
    <3>2. step = "done" /\ draft.class = "success" /\ Counted(draft)
      BY <2>3, <2>4, <2>5, <3>1
    <3>3. PICK o \in OutcomesOf[request.service] : draft = o.draft /\ sourced = o.sourced
      BY <3>2 DEF ServiceSafe, DraftIsMade
    <3>4. o \in Outcomes[request.service]
      BY <2>1 DEF OutcomesOf
    <3> QED
      BY <2>1, <3>1, <3>2, <3>3, <3>4, OutcomesAssumption
  <2> QED
    BY <2>2, <2>3, <2>4, <2>5 DEF OutputIsVerified
<1> QED
  BY <1>1, ServiceIsSafe, PTL

\* No verifier, no timer and no key refuses what no reason is given for.
THEOREM RefusalsHaveReasons == ServiceSpec => []RefusedForAReason
<1>1. ServiceSafe => RefusedForAReason
  <2> SUFFICES ASSUME ServiceSafe, step = "done", told.class # "success", draft.class = "success",
                      ~(decision = "pass" /\ ~told.output), key = "active",
                      \A v \in DOMAIN heard : heard[v] # "slow",
                      heard["schema"] # "fail", heard["prompt_injection"] # "confirmed",
                      request.mode = "independent_reproduction" => request.reproduction = "match"
               PROVE  request.service = "document" /\ (~Buildable(draft) \/ ~sourced \/ draft.evidence = <<>>)
    BY DEF RefusedForAReason
  <2>1. request.mode \in Modes /\ request.service \in Services /\ request.service \in ServicesOf
        /\ DOMAIN heard = Ids
    BY IdsAreNine DEF ServiceSafe, Typed, RequestTyped, ServiceTypeOK
  <2>2. PICK o \in Outcomes[request.service] : draft = o.draft /\ sourced = o.sourced
    BY <2>1 DEF ServiceSafe, DraftIsMade, OutcomesOf
  <2>3. /\ request.service # "document" => Buildable(draft) /\ Counted(draft) /\ Citing(draft)
        /\ sourced /\ draft.evidence # <<>> => Counted(draft) /\ Citing(draft)
    BY <2>1, <2>2, OutcomesAssumption
  <2>4. CASE ~Signed
    <3>1. ~Buildable(draft)
      BY <2>4 DEF ServiceSafe, ReceiptIsDecided, Signed, EarlyClasses
    <3> QED
      BY <2>3, <3>1
  <2>5. CASE Signed
    <3>1. /\ receipt = Decide /\ Buildable(draft) /\ decision = receipt
          /\ \A v \in VerifiersOf(request.mode) : heard[v] # "unheard"
      BY <2>5 DEF ServiceSafe, ReceiptIsDecided, CheckedIsSigned, Checked
    <3>2. decision # "pass"
      BY DEF ServiceSafe, ToldIsDecided, Nothing
    <3>3. PICK v \in VerifiersOf(request.mode) : heard[v] # "pass"
      BY <3>1, <3>2, DecisionsAre DEF ServiceSafe
    <3>4. v \in Ids /\ heard[v] # "slow" /\ heard[v] # "unheard"
      BY <2>1, <3>1, <3>3, ModesHaveIds
    <3>5. heard[v] \in Verdicts(v, draft, request.mode, request.reproduction)
      BY <3>4, IdsAreNine DEF ServiceSafe, HeardIsSaid
    <3>6. (heard[v] = "confirmed" \/ heard[v] = "fail") \/ heard[v] = "skipped"
      BY <3>3, <3>4, <3>5, VerdictsAre
    <3>7. heard[v] # "confirmed" /\ heard[v] # "skipped"
      BY <2>1, <3>3, <3>4, <3>5, VerdictsAre, ModesHaveIds DEF Modes
    <3>8. ~Citing(draft) \/ ~Counted(draft)
      <4>1. \A c \in draft.claims : c.cited \subseteq ToSet(draft.evidence)
        BY <3>1 DEF Buildable
      <4> QED
        BY <3>4, <3>5, <3>6, <3>7, <4>1, VerdictsAre
    <3> QED
      BY <2>3, <3>8
  <2> QED
    BY <2>4, <2>5
<1> QED
  BY <1>1, ServiceIsSafe, PTL

-----------------------------------------------------------------------------
(* The components together.                                                *)

\* A behaviour of both is, of each, a behaviour of its own specification.
LEMMA EachIsItself == ComponentsSpec => Spec /\ ServiceSpec
<1>1. ComponentsInit => Init /\ ServiceInit
  BY DEF ComponentsInit
<1>2. [ComponentsNext]_<<part, vars, serviceVars>> => [Next]_vars /\ [ServiceNext]_serviceVars
  BY DEF ComponentsNext, JobsMove, ServiceMoves
<1> QED
  BY <1>1, <1>2, PTL DEF ComponentsSpec, Spec, ServiceSpec

\* Each keeps to its own values.
THEOREM ComponentsTyped == ComponentsSpec => []TypesOK
<1>1. ServiceSafe /\ TypeOK => TypesOK
  BY DEF ServiceSafe, Typed, TypesOK
<1> QED
  BY <1>1, EachIsItself, ServiceIsSafe, TypesKept, PTL

\* What holds of an execution alone holds of it beside the jobs.
THEOREM ComponentsVerify == ComponentsSpec => [](OutputIsVerified /\ RefusedForAReason)
BY EachIsItself, OutputsAreVerified, RefusalsHaveReasons, PTL

=============================================================================
