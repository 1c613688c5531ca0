------------------------ MODULE FacilitatorEvidence ------------------------
(***************************************************************************)
(* What a payment facilitator says and what the route makes of it: the     *)
(* HTTP client of Nevermined, the providers that turn the answers of       *)
(* Nevermined and of CDP into evidence, the trust their evidence has in a  *)
(* mode, and the outcome the route records.  A field of an answer may be   *)
(* missing, of another type, or say what was not asked.                    *)
(***************************************************************************)
EXTENDS Naturals

CONSTANTS
  Identifiers,    \* payment identifiers
  VerifyReplies,  \* answers to a verify call
  SettleReplies   \* answers to a settle call

Flags    == {"true", "false", "absent", "other"}
Payers   == {"absent", "number", "malformed", "buyer", "stranger"}
Networks == {"absent", "number", "same", "different"}
Tokens   == {"absent", "number", "malformed", "first", "second"}
Credits  == {"absent", "number", "asked", "different"}
Transactions == {"absent", "empty", "long", "odd", "fixture", "hash"}
Codes    == {"absent", "insufficient_funds", "settlement_network_mismatch"}

\* http: a JSON body, text, an HTTP error, or nothing in time.
Https == {"ok", "text", "error", "lost"}

RepliesAssumption ==
  /\ VerifyReplies \subseteq
       [http : Https, valid : Flags, payer : Payers, network : Networks, request : Tokens, code : Codes]
  /\ SettleReplies \subseteq
       [http : Https, success : Flags, payer : Payers, network : Networks, credits : Credits,
        transaction : Transactions, code : Codes]

ASSUME RepliesAssumption

VARIABLES
  provider,    \* who is asked: cdp, nevermined, or nevermined with a test's client
  mode,        \* of the route: fixture or production
  standing,    \* where each payment stands
  requestIds,  \* NeverminedPaymentEvidenceProvider.requestIds, of the isolate
  heard,       \* what was answered to the verify and the settle call of each
  proof,       \* the verification evidence of each
  sent         \* the request id that went with the settle call of each

facilitatorVars == <<provider, mode, standing, requestIds, heard, proof, sent>>

Standings == {"new", "verifying", "rejected", "verified", "settling", "settled", "failed", "pending", "dropped"}
Trusts    == {"synthetic_fixture", "external_verified", "external_unverified"}
NoReply   == [http |-> "none"]
NoProof   == [verified |-> FALSE, payer |-> "absent", trust |-> "external_unverified"]

-----------------------------------------------------------------------------
(* Trust. *)

\* resolvePaymentEvidenceProvider.
Resolves(m, who) == m = "production" => who # "fixture"

\* isTrustClassAllowed.
TrustAllowed(trust) ==
  IF mode = "production" THEN trust = "external_verified" ELSE trust = "synthetic_fixture"

\* trustClass.
Trust(answered) ==
  CASE provider = "fixture" -> "synthetic_fixture"
    [] provider # "fixture" /\ answered -> "external_verified"
    [] OTHER -> "external_unverified"

\* What the facilitator says with an HTTP error, if it gives a code for it.
Refuses(reply) == reply.http = "error" /\ reply.code # "absent"

-----------------------------------------------------------------------------
(* Verification. *)

\* The Nevermined client leaves out a field that is not text.
Text(v) == IF v = "number" THEN "absent" ELSE v

\* post, verifyPermissions; for CDP the client is of a library.
UnderstoodVerify(reply) == reply.http = "ok" /\ reply.valid \in {"true", "false"}

\* validateNeverminedVerificationResult.
Confirms(reply) ==
  /\ reply.valid = "true"
  /\ reply.payer \in {"buyer", "stranger"}
  /\ Text(reply.network) \in {"absent", "same"}
  /\ reply.request \in {"first", "second"}

\* The evidence of a verify call.
Verification(reply) ==
  IF provider = "cdp"
  THEN [verified |-> UnderstoodVerify(reply) /\ reply.valid = "true", payer |-> Text(reply.payer),
        trust |-> Trust(UnderstoodVerify(reply) \/ Refuses(reply))]
  ELSE [verified |-> UnderstoodVerify(reply) /\ Confirms(reply),
        payer |-> IF UnderstoodVerify(reply) /\ Confirms(reply) THEN reply.payer ELSE "absent",
        trust |-> Trust(UnderstoodVerify(reply))]

\* verify begins.  Nevermined's token and requirement are looked at before
\* anything is sent (PlanTerms has the requirement).
AskFacilitator(p) ==
  /\ standing[p] = "new"
  /\ \E step \in {"verifying"} \cup (IF provider = "cdp" THEN {} ELSE {"rejected"}) :
       standing' = [standing EXCEPT ![p] = step]
  /\ UNCHANGED <<provider, mode, requestIds, heard, proof, sent>>

\* The answer, and canAdvanceToVerified.
Verified(p) ==
  /\ standing[p] = "verifying"
  /\ \E reply \in VerifyReplies :
       LET found == Verification(reply)
       IN /\ proof' = [proof EXCEPT ![p] = found]
          /\ heard' = [heard EXCEPT ![p].verify = reply]
          /\ requestIds' = IF provider # "cdp" /\ found.verified
                           THEN [requestIds EXCEPT ![p] = reply.request] ELSE requestIds
          /\ standing' = [standing EXCEPT ![p] =
               IF found.verified /\ TrustAllowed(found.trust) THEN "verified" ELSE "rejected"]
  /\ UNCHANGED <<provider, mode, sent>>

-----------------------------------------------------------------------------
(* Settlement. *)

\* settle begins, for an amount the route has found to be authorized.
Charge(p) ==
  /\ standing[p] = "verified"
  /\ standing' = [standing EXCEPT ![p] = "settling"]
  /\ sent' = [sent EXCEPT ![p] = requestIds[p]]
  /\ UNCHANGED <<provider, mode, requestIds, heard, proof>>

\* settlePermissions wants a transaction and leaves out a success that is
\* not a boolean; CDP's library wants every field that is not optional.
UnderstoodSettle(reply) ==
  /\ reply.http = "ok"
  /\ provider = "nevermined" => reply.transaction \notin {"absent", "empty"}
  /\ provider = "cdp" =>
       /\ reply.success \in {"true", "false"} /\ reply.transaction # "absent"
       /\ reply.network \notin {"absent", "number"} /\ "number" \notin {reply.payer, reply.credits}

Success(reply) == IF provider = "nevermined" /\ reply.success = "other" THEN "absent" ELSE reply.success

\* normalizeSettlementSuccess.
SuccessSaid(reply) ==
  CASE Success(reply) = "false" -> "explicit_failure"
    [] Success(reply) = "true"  -> "positive_success"
    [] Success(reply) = "absent" /\ reply.transaction \notin {"absent", "empty", "long"} -> "positive_success"
    [] OTHER -> "ambiguous"

\* validateNeverminedSettlementResult, then the form of the transaction.
NeverminedReason(reply, payer) ==
  CASE ~UnderstoodSettle(reply) -> "provider_exception"
    [] UnderstoodSettle(reply) /\ SuccessSaid(reply) = "explicit_failure" -> "provider_rejected"
    [] UnderstoodSettle(reply) /\ SuccessSaid(reply) = "ambiguous" -> "ambiguous_settlement"
    [] OTHER ->
         IF Text(reply.payer) \notin {"absent", payer} THEN "payer_mismatch"
         ELSE IF Text(reply.network) = "different" THEN "network_mismatch"
         ELSE IF Text(reply.credits) = "different" THEN "amount_mismatch"
         ELSE IF reply.transaction \in {"absent", "empty", "long"} THEN "missing_transaction"
         ELSE IF reply.transaction # (IF provider = "nevermined" THEN "hash" ELSE "fixture")
         THEN "transaction_reference_invalid" ELSE "none"

\* CdpPaymentEvidenceProvider.settle.
CdpReason(reply) ==
  IF ~UnderstoodSettle(reply)
  THEN IF Refuses(reply) THEN reply.code ELSE "facilitator_settlement_unavailable"
  ELSE IF reply.success = "false" THEN IF reply.code = "absent" THEN "settlement_failed" ELSE reply.code
  ELSE IF reply.network # "same" THEN "settlement_network_mismatch"
  ELSE IF reply.credits = "different" THEN "settlement_amount_mismatch"
  ELSE IF reply.transaction = "empty" THEN "settlement_transaction_missing" ELSE "none"

\* The evidence of a settle call.
Settlement(reply, payer) ==
  LET reason == IF provider = "cdp" THEN CdpReason(reply) ELSE NeverminedReason(reply, payer)
  IN [success |-> reason = "none", reason |-> reason,
      trust |-> Trust(UnderstoodSettle(reply) \/ (provider = "cdp" /\ Refuses(reply)))]

\* CDP_STRUCTURAL_ONLY_SETTLE_REASONS.
StructuralOnly == {"settlement_network_mismatch", "settlement_amount_mismatch", "settlement_transaction_missing"}

\* Mutant: whatever a CDP facilitator answers but success is a refusal.
ExplicitWhateverSaid(found) == ~found.success /\ found.trust # "external_unverified"

\* What the route takes for an explicit refusal: isExplicitCdpSettlementFailure,
\* and its counterpart for Nevermined.
Explicit(found) ==
  /\ ~found.success
  /\ IF provider = "cdp"
     THEN found.trust = "external_verified" /\ found.reason \notin StructuralOnly
     ELSE found.reason = "provider_rejected"

\* The answer, canAdvanceToSettled, and what the route records.
Settled(p) ==
  /\ standing[p] = "settling"
  /\ \E reply \in SettleReplies :
       LET found == Settlement(reply, proof[p].payer)
       IN /\ heard' = [heard EXCEPT ![p].settle = reply]
          /\ requestIds' = IF provider # "cdp" /\ UnderstoodSettle(reply)
                           THEN [requestIds EXCEPT ![p] = "absent"] ELSE requestIds
          /\ standing' = [standing EXCEPT ![p] =
               IF found.success /\ TrustAllowed(found.trust) THEN "settled"
               ELSE IF Explicit(found) THEN "failed" ELSE "pending"]
  /\ UNCHANGED <<provider, mode, proof, sent>>

\* The isolate is gone, with the request ids and the requests under way.
Evict ==
  /\ requestIds' = [p \in Identifiers |-> "absent"]
  /\ standing' = [p \in Identifiers |->
       IF standing[p] \in {"verifying", "verified", "settling"} THEN "dropped" ELSE standing[p]]
  /\ UNCHANGED <<provider, mode, heard, proof, sent>>

-----------------------------------------------------------------------------
FacilitatorInit ==
  /\ provider \in {"cdp", "nevermined", "fixture"}
  /\ mode \in {m \in {"fixture", "production"} : Resolves(m, provider)}
  /\ standing = [p \in Identifiers |-> "new"]
  /\ requestIds = [p \in Identifiers |-> "absent"]
  /\ heard = [p \in Identifiers |-> [verify |-> NoReply, settle |-> NoReply]]
  /\ proof = [p \in Identifiers |-> NoProof]
  /\ sent = [p \in Identifiers |-> "absent"]

FacilitatorNext == Evict \/ \E p \in Identifiers : AskFacilitator(p) \/ Verified(p) \/ Charge(p) \/ Settled(p)

FacilitatorSpec == FacilitatorInit /\ [][FacilitatorNext]_facilitatorVars

-----------------------------------------------------------------------------
(* Properties. *)

FacilitatorTypeOK ==
  /\ provider \in {"cdp", "nevermined", "fixture"} /\ mode \in {"fixture", "production"}
  /\ standing \in [Identifiers -> Standings]
  /\ requestIds \in [Identifiers -> Tokens] /\ sent \in [Identifiers -> Tokens]
  /\ heard \in [Identifiers -> [verify : VerifyReplies \cup {NoReply}, settle : SettleReplies \cup {NoReply}]]
  /\ proof \in [Identifiers -> [verified : BOOLEAN, payer : Payers, trust : Trusts]]

\* A verification that counts for what the facilitator said of it.
SaidVerified(p) ==
  /\ heard[p].verify.http = "ok" /\ heard[p].verify.valid = "true"
  /\ provider # "cdp" =>
       /\ heard[p].verify.network # "different"
       /\ proof[p].payer = heard[p].verify.payer /\ proof[p].payer \in {"buyer", "stranger"}

\* A success that counts: true; to Nevermined's validation also absent, which
\* it was met with (normalizeSettlementSuccess).  The last line is an
\* exception the code makes against that function's comment ("never guessed"):
\* Nevermined's HTTP client leaves out a success that is not a boolean, so the
\* validation takes for absent what it should take for ambiguous.
CountsAsSuccess(success) ==
  \/ success = "true"
  \/ provider # "cdp" /\ success = "absent"
  \/ provider = "nevermined" /\ success = "other"

\* A settlement that counts: said to be one, with a transaction, and with
\* nothing that was not asked.
SaidSettled(p) ==
  LET answer == heard[p].settle
  IN /\ answer.http = "ok" /\ CountsAsSuccess(answer.success)
     /\ answer.network # "different" /\ answer.credits # "different"
     /\ answer.transaction \notin {"absent", "empty"}
     /\ provider # "cdp" =>
          /\ answer.payer \in {"absent", "number", proof[p].payer}
          /\ answer.transaction = IF provider = "nevermined" THEN "hash" ELSE "fixture"

\* A refusal: said with an answer, or by CDP with a code.
SaidNo(p) ==
  LET answer == heard[p].settle
  IN \/ answer.http = "ok" /\ answer.success = "false"
     \/ provider = "cdp" /\ Refuses(answer)

\* The route records a payment as verified, settled or refused for good only
\* when the facilitator of its mode has said so for that payment, and the
\* settle call goes out under the request id of its own verification; what
\* is lost, misshapen or contradictory leaves the payment open, but for the
\* exception of CountsAsSuccess (x402-service.ts: "a LOCAL inability to positively validate its response
\* is never proof the settlement failed").
OutcomeIsSaid ==
  \A p \in Identifiers :
    /\ standing[p] \in {"verified", "settling", "settled", "failed", "pending"} =>
         SaidVerified(p) /\ (mode = "production" <=> provider # "fixture")
    /\ standing[p] \in {"settling", "settled", "failed", "pending"} /\ provider # "cdp" =>
         sent[p] = heard[p].verify.request
    /\ standing[p] = "settled" => SaidSettled(p)
    /\ standing[p] = "failed" => SaidNo(p)

=============================================================================
