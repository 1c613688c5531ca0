------------------------------ MODULE Verifiers ------------------------------
(***************************************************************************)
(* The verifiers of packages/verification/src/verifiers, what they depend  *)
(* on, and what each finds in a draft.                                     *)
(***************************************************************************)
EXTENDS Naturals, FiniteSets, SequencesExt

Pass(condition) == {IF condition THEN "pass" ELSE "fail"}

Modes == {"standard", "independent_reproduction"}

\* Their ids, in the order of the alphabet.
VerifierIds == <<"claim_evidence", "completeness", "cross_source", "evidence_accessibility",
                 "freshness", "prompt_injection", "provenance", "reproduction", "schema">>

DependsOn == [v \in ToSet(VerifierIds) |->
  CASE v = "schema" -> {}
    [] v \in {"evidence_accessibility", "freshness", "provenance", "prompt_injection"} -> {"schema"}
    [] v \in {"claim_evidence", "completeness"} -> {"evidence_accessibility"}
    [] v \in {"cross_source", "reproduction"} -> {"claim_evidence"}]

Standard == ToSet(VerifierIds) \ {"reproduction"}

\* buildStandardVerifiers and buildReproductionVerifiers.
VerifiersOf(mode) == IF mode = "independent_reproduction" THEN ToSet(VerifierIds) ELSE Standard

\* Mutant: a mode without reproduction asks for it all the same.
MandatoryAlways(mode) == ToSet(VerifierIds)

\* MANDATORY_VERIFIER_IDS_BY_MODE.
Mandatory(mode) == VerifiersOf(mode)

-----------------------------------------------------------------------------
(* What each finds in a draft of EvidenceServices.                         *)

\* The output schema and the scan for injected prompts read what a draft
\* leaves out: they may find anything.
Schema          == {"pass", "fail"}
PromptInjection == {"pass", "confirmed"}

\* Every claim cites what is there.  The services record evidence only of a
\* source that answered, so none of it is disqualified.
EvidenceAccessibility(d) == Pass(\A c \in d.claims : c.cited \subseteq ToSet(d.evidence))

\* A claim of absence needs evidence as any other does.
ClaimEvidence(d) == Pass(\A c \in d.claims : c.cited # {})

Completeness(d) == Pass(d.supported <= d.populated /\ d.populated <= d.requested)

\* Scores, which no rule of the mesh compares with a bound.
Freshness   == {"pass"}
CrossSource == {"pass"}

\* Source classes and authorizations are those the services write.
Provenance == {"pass"}

\* The reproduction a service was given, none, or one that differs.
Reproduction(mode, reproduction) ==
  IF mode # "independent_reproduction" THEN {"skipped"} ELSE Pass(reproduction = "match")

Verdicts(v, d, mode, reproduction) ==
  CASE v = "schema" -> Schema
    [] v = "prompt_injection" -> PromptInjection
    [] v = "evidence_accessibility" -> EvidenceAccessibility(d)
    [] v = "claim_evidence" -> ClaimEvidence(d)
    [] v = "completeness" -> Completeness(d)
    [] v = "freshness" -> Freshness
    [] v = "cross_source" -> CrossSource
    [] v = "provenance" -> Provenance
    [] v = "reproduction" -> Reproduction(mode, reproduction)

=============================================================================
