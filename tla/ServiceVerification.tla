------------------------- MODULE ServiceVerification -------------------------
(***************************************************************************)
(* One execution of a paid service: executeLocalService races the service  *)
(* with a timer, the service asks its sources and builds a draft, runMesh  *)
(* runs the verifiers wave by wave, issueReceipt signs the decision and    *)
(* verifyServiceReceipt checks the signature's key, which an operator may  *)
(* retire or revoke meanwhile.  A service that has timed out goes on.      *)
(***************************************************************************)
EXTENDS Naturals, FiniteSets, SequencesExt, EvidenceServices, Verifiers

CONSTANTS
  Live,      \* the production executors, which serve two of the services
  MaxSlow,   \* verifiers of an execution that may time out or throw: a bound
  Waves,     \* what computeWaves makes of the verifiers of each mode
  Outcomes   \* what each service can make of its input and its sources

VARIABLES
  request,   \* the service, context.mode, its reproduction
  step,      \* where the execution is
  draft,     \* the draft document, NoDraft before
  sourced,   \* every source the request asked for has answered
  heard,     \* what each verifier has answered
  receipt,   \* the decision the signed receipt states
  valid,     \* receiptCryptographicallyValid
  decision,  \* the decision after the receipt check
  key,       \* the signing key's status in the registry
  told       \* result class and output the caller was given

serviceVars == <<request, step, draft, sourced, heard, receipt, valid, decision, key, told>>

Services == {"web", "company", "document", "agent"}
Steps    == {"idle", "sources", "mesh", "check", "result", "done"}
Decisions == {"none", "pass", "fail", "conditional", "quarantined"}
KeyStatuses == {"unknown", "active", "retired", "revoked"}

NoDraft == Refused("none")
Nothing == [class |-> "none", output |-> FALSE]
Closed(class) == [class |-> class, output |-> FALSE]

\* What the mesh relies on: each verifier of a mode is in one of its waves.
ASSUME WavesAssumption ==
  \A mode \in Modes :
    /\ DOMAIN Waves[mode] \subseteq Nat
    /\ VerifiersOf(mode) = UNION {Waves[mode][n] : n \in DOMAIN Waves[mode]}

\* What the mesh is given: a draft that counts as a success and counts
\* right has all its sources; what is not a document of pages is well formed.
Counted(d) == d.supported <= d.populated /\ d.populated <= d.requested
Citing(d)  == \A c \in d.claims : c.cited # {}

ASSUME OutcomesAssumption ==
  \A service \in Services : \A o \in Outcomes[service] :
    /\ o.sourced \in BOOLEAN
    /\ o.draft.class = "success" =>
         /\ Counted(o.draft) => o.sourced
         /\ service # "document" => Buildable(o.draft) /\ Counted(o.draft) /\ Citing(o.draft)
         /\ o.sourced /\ o.draft.evidence # <<>> => Counted(o.draft) /\ Citing(o.draft)

\* The production executors serve two of the services in one mode.
ServicesOf == IF Live THEN {"web", "agent"} ELSE Services
ModesOf    == IF Live THEN {"standard"} ELSE Modes
OutcomesOf == [service \in ServicesOf |-> Outcomes[service]]
WavesOf    == [mode \in ModesOf |-> Waves[mode]]

\* What it has not heard of a wave, and the wave it waits for.
Unheard(wave) == {v \in wave : heard[v] = "unheard"}
CurrentWave ==
  LET waves == WavesOf[request.mode]
      open  == {n \in DOMAIN waves : Unheard(waves[n]) # {}}
  IN IF open = {} THEN {} ELSE waves[CHOOSE n \in open : \A k \in open : n <= k]

\* The fold of runMesh over its results.
Decide ==
  LET missing == Mandatory(request.mode) \ VerifiersOf(request.mode)
      failed  == {v \in VerifiersOf(request.mode) \cap Mandatory(request.mode) :
                    heard[v] \in {"fail", "slow", "confirmed"}}
      injected == heard["prompt_injection"] = "confirmed"
      unsure   == {v \in VerifiersOf(request.mode) \cap Mandatory(request.mode) :
                    heard[v] \in {"indeterminate", "skipped"}}
  IN IF missing # {} \/ failed # {} THEN (IF injected THEN "quarantined" ELSE "fail")
     ELSE IF unsure # {} THEN "conditional" ELSE "pass"

-----------------------------------------------------------------------------
(* The execution.                                                          *)

\* executeLocalService.  No verification mode reaches the context of the
\* production executors; a fixture's context names one.  The service has a
\* reproduction to compare with only for verify_agent_output, if its input
\* asks for it and its wiring supplies one.
BeginService ==
  /\ step = "idle"
  /\ \E service \in ServicesOf, mode \in ModesOf, supplied \in {"none", "match", "mismatch"} :
       /\ (Live \/ service # "agent") => supplied = "none"
       /\ request' = [service |-> service, mode |-> mode, reproduction |-> supplied]
  /\ step' = "sources"
  /\ UNCHANGED <<draft, sourced, heard, receipt, valid, decision, key, told>>

Tell(answer) == told' = IF told = Nothing THEN answer ELSE told

\* The sources have answered and the draft is built, refused, or throws.
AskSources ==
  /\ step = "sources"
  /\ \E o \in OutcomesOf[request.service] :
       /\ draft' = o.draft
       /\ sourced' = o.sourced
       /\ \/ o.draft.class \in EarlyClasses /\ Tell(Closed(o.draft.class)) /\ step' = "done"
          \/ /\ o.draft.class \notin EarlyClasses /\ ~Buildable(o.draft)
             /\ Tell(Closed("internal_verification_failed")) /\ step' = "done"
          \/ /\ o.draft.class \notin EarlyClasses /\ Buildable(o.draft)
             /\ step' = "mesh" /\ UNCHANGED told
  /\ UNCHANGED <<request, heard, receipt, valid, decision, key>>

\* A verifier of the wave answers, or its time is up, or it throws; the rest
\* of its wave is waited for, and the next wave is run whatever it found.
Hear(v) ==
  /\ step = "mesh" /\ v \in Unheard(CurrentWave)
  /\ \E verdict \in Verdicts(v, draft, request.mode, request.reproduction) \cup {"slow"} :
       /\ verdict = "slow" => Cardinality({u \in DOMAIN heard : heard[u] = "slow"}) < MaxSlow
       /\ heard' = [heard EXCEPT ![v] = verdict]
  /\ UNCHANGED <<request, step, draft, sourced, receipt, valid, decision, key, told>>

\* issueReceipt signs the decision of the mesh over the draft.
Sign ==
  /\ step = "mesh" /\ CurrentWave = {}
  /\ receipt' = Decide
  /\ step' = "check"
  /\ UNCHANGED <<request, draft, sourced, heard, valid, decision, key, told>>

CanVerifyWith(status) == status \in {"active", "retired"}

\* Mutant: the result does not depend on the receipt's verification.
CheckIgnored ==
  /\ step = "check"
  /\ valid' = CanVerifyWith(key)
  /\ decision' = receipt
  /\ step' = "result"
  /\ UNCHANGED <<request, draft, sourced, heard, receipt, key, told>>

\* verifyServiceReceipt: a receipt that cannot be verified fails the
\* document, and goes on saying what was signed.
CheckReceipt ==
  /\ step = "check"
  /\ valid' = CanVerifyWith(key)
  /\ decision' = IF CanVerifyWith(key) THEN receipt ELSE "fail"
  /\ step' = "result"
  /\ UNCHANGED <<request, draft, sourced, heard, receipt, key, told>>

\* The service's result, unless the timer was first.  The class the draft
\* stands for needs a pass, and output goes out with a class other than
\* internal_verification_failed.
Finish ==
  /\ step = "result"
  /\ LET class == IF decision = "pass" THEN draft.class ELSE "internal_verification_failed"
     IN Tell([class |-> class, output |-> class # "internal_verification_failed"])
  /\ step' = "done"
  /\ UNCHANGED <<request, draft, sourced, heard, receipt, valid, decision, key>>

\* totalTimeoutMs: the caller is told, the service is not stopped.
TimeOut ==
  /\ step \notin {"idle", "done"} /\ told = Nothing
  /\ told' = Closed("internal_verification_failed")
  /\ UNCHANGED <<request, step, draft, sourced, heard, receipt, valid, decision, key>>

\* KeyRegistry.retire and revoke, of any registered key.
Retire ==
  /\ key # "unknown"
  /\ key' = "retired"
  /\ UNCHANGED <<request, step, draft, sourced, heard, receipt, valid, decision, told>>

Revoke ==
  /\ key # "unknown"
  /\ key' = "revoked"
  /\ UNCHANGED <<request, step, draft, sourced, heard, receipt, valid, decision, told>>

ServiceInit ==
  /\ request = [service |-> "web", mode |-> "standard", reproduction |-> "none"]
  /\ step = "idle" /\ draft = NoDraft /\ sourced = FALSE
  /\ heard = [v \in ToSet(VerifierIds) |-> "unheard"]
  /\ receipt = "none" /\ valid = FALSE /\ decision = "none" /\ told = Nothing
  /\ key \in {"unknown", "active"}

ServiceNext ==
  \/ BeginService \/ AskSources \/ (\E v \in ToSet(VerifierIds) : Hear(v)) \/ Sign
  \/ CheckReceipt \/ Finish \/ TimeOut \/ Retire \/ Revoke

ServiceSpec == ServiceInit /\ [][ServiceNext]_serviceVars

-----------------------------------------------------------------------------
(* Properties. *)

ServiceTypeOK ==
  /\ step \in Steps /\ sourced \in BOOLEAN /\ valid \in BOOLEAN
  /\ request \in [service : Services, mode : Modes, reproduction : {"none", "match", "mismatch"}]
  /\ DOMAIN heard = ToSet(VerifierIds)
  /\ receipt \in Decisions /\ decision \in Decisions /\ key \in KeyStatuses
  /\ told.output \in BOOLEAN

\* Output is given only for a draft every mandatory verifier has passed
\* itself (none timed out), whose claims all cite evidence that is in it, and
\* with a receipt that was signed for a pass and verified; success is told only if every
\* source that was asked for has answered, however the timer, the verifiers
\* and the key's operator interleave.
OutputIsVerified ==
  /\ told.output =>
       /\ \A v \in Mandatory(request.mode) : heard[v] = "pass"
       /\ \A c \in draft.claims : c.cited # {} /\ c.cited \subseteq ToSet(draft.evidence)
       /\ receipt = "pass" /\ decision = "pass" /\ valid
  /\ told.class = "success" => told.output /\ sourced

\* An execution that ends without success has a reason: the service itself
\* counts its draft as less, the timer was first, the schema, an injection, a
\* slow verifier, the reproduction, or the key.  The other verifiers refuse
\* nothing these services build, but a document with more or with no pages.
RefusedForAReason ==
  step = "done" /\ told.class # "success" =>
    \/ draft.class # "success"
    \/ decision = "pass" /\ ~told.output
    \/ key # "active"
    \/ \E v \in DOMAIN heard : heard[v] = "slow"
    \/ heard["schema"] = "fail" \/ heard["prompt_injection"] = "confirmed"
    \/ request.mode = "independent_reproduction" /\ request.reproduction # "match"
    \/ request.service = "document" /\ (~Buildable(draft) \/ ~sourced \/ draft.evidence = <<>>)

=============================================================================
