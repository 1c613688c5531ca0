--------------------------- MODULE PaymentEvidence ---------------------------
(***************************************************************************)
(* What a payment is bound to, from the quote to the evidence that it was  *)
(* settled: the 402 challenge, the checks of a signed request, the         *)
(* immutable binding of its payment identifier, the two evidence gates,    *)
(* and the reconciliation of a delegation's transactions.  PaymentRoute    *)
(* has the interleaving of one identifier's requests; here several         *)
(* identifiers share the quotes, the price and, perhaps, a delegation, and *)
(* each has one request at a time.                                         *)
(***************************************************************************)
EXTENDS Naturals, Sequences, FiniteSets

CONSTANTS
  Payments,   \* payment identifiers
  Inputs,     \* hashes of request bodies
  Shared,     \* payments may be paid with one delegation
  MaxNow,     \* bound on the clock
  MaxQuotes   \* bound on the quotes that are minted

ASSUME BoundsAssumption == MaxNow \in Nat /\ MaxQuotes \in Nat

VARIABLES
  rail,      \* of the route: cdp or nevermined
  scheme,    \* exact or upto
  clock, price,
  quotes,    \* x402_quotes; a quote's id is derived from all it says
  row,       \* the payment_attempts row of each identifier
  req,       \* the request of each identifier, and the answer to its last
  charged,   \* the amounts the buyer has paid for each identifier
  ledger     \* the transactions Nevermined lists, with their delegation

desk  == <<rail, scheme, clock, price, quotes>>
money == <<charged, ledger>>
evidenceVars == <<desk, row, req, money>>

TTL == 2   \* of a quote and of a payment attempt: five minutes each

Amounts == 0 .. 5
Quotes  == [input : Inputs, amount : Amounts, issued : 0 .. MaxNow]
NoQuote == [input |-> "none", amount |-> 0, issued |-> 0]
Delegations == IF Shared THEN {"shared"} ELSE Payments
Stages  == {"none", "acquired", "verification_failed", "verified", "executed",
            "settlement_pending", "settlement_failed", "settled"}
Steps   == {"idle", "acquire", "verify", "execute", "settle", "recover"}
Answers == {"none", "refused", "expired", "conflict", "processing", "rejected", "exceeded", "failed", "ok"}

NoBinding == [quote |-> NoQuote, input |-> "none", delegation |-> "none", amount |-> 0]
NoRow     == [binding |-> NoBinding, expires |-> 0, stage |-> "none", actual |-> 0]
NoRequest == [at |-> "idle", input |-> "none", delegation |-> "none", quote |-> NoQuote,
              offered |-> 0, now |-> 0, answer |-> "none"]

QuoteExpired(quote, now) == now >= quote.issued + TTL

Goto(p, step)  == req' = [req EXCEPT ![p].at = step]
Answered(r, what) ==
  IF what = "conflict" THEN [r EXCEPT !.at = "idle", !.answer = what, !.offered = 0, !.now = 0]
  ELSE [NoRequest EXCEPT !.answer = what]
Reply(p, what) == req' = [req EXCEPT ![p] = Answered(@, what)]
Stage(p, what) == row' = [row EXCEPT ![p].stage = what]

-----------------------------------------------------------------------------
(* The challenge. *)

\* The price list: what a page costs, and the most a request costs, which is
\* the amount of a quote.
PagePrice == price
MaxPrice  == 2 * price

\* calculateDocumentUsage: the price of the pages, up to the most a job costs.
Usage(pages) == IF pages * PagePrice > MaxPrice THEN MaxPrice ELSE pages * PagePrice

\* A request without a signature: a quote for its input at today's price.
\* Two requests of one instant get one quote (INSERT OR IGNORE).
Challenge(i) ==
  LET quote == [input |-> i, amount |-> MaxPrice, issued |-> clock]
  IN /\ Cardinality(quotes \cup {quote}) <= MaxQuotes
     /\ quotes' = quotes \cup {quote}
     /\ UNCHANGED <<rail, scheme, clock, price, row, req, money>>

\* getLatestForBinding: the newest quote of the input, any of them when two
\* are as new.
Latest(i) ==
  {q \in quotes : q.input = i /\ \A o \in quotes : o.input = i => o.issued <= q.issued}

\* External: time passes; a release changes the prices.
Tick ==
  /\ clock < MaxNow
  /\ clock' = clock + 1
  /\ UNCHANGED <<rail, scheme, price, quotes, row, req, money>>

Reprice ==
  /\ price = 1
  /\ price' = 2
  /\ UNCHANGED <<rail, scheme, clock, quotes, row, req, money>>

-----------------------------------------------------------------------------
(* A signed request. *)

\* Mutant: the amount of the payload is not compared with the quote's.
AcceptsAmountUnchecked(offered, quote, now) == ~QuoteExpired(quote, now)

\* validateExactRequirementBinding, validateUptoRequirementBinding.
AcceptsAmount(offered, quote, now) == offered = quote.amount /\ ~QuoteExpired(quote, now)

\* CDP: the payload names its quote and what it signed for; flawed stands for
\* a version, scheme, network, asset, payee, resource or identifier that is
\* not what the quote or the route says.
SubmitCdp(p) ==
  /\ rail = "cdp" /\ req[p].at = "idle"
  /\ \E i \in Inputs, q \in quotes \cup {NoQuote}, more \in 0 .. 1, flawed \in BOOLEAN :
       LET r == [NoRequest EXCEPT !.input = i, !.quote = q, !.offered = q.amount + more, !.now = clock]
       IN req' = [req EXCEPT ![p] =
            IF q = NoQuote THEN Answered(r, "expired")
            ELSE IF flawed \/ ~AcceptsAmount(r.offered, q, clock) THEN Answered(r, "refused")
            ELSE [r EXCEPT !.at = "acquire"]]
  /\ UNCHANGED <<desk, row, money>>

\* Nevermined: the token says nothing of a quote, so the route takes the
\* newest one of the input; the buyer names the delegation.  Flawed stands
\* for a token, delegation or identifier header that is missing or malformed.
SubmitNevermined(p) ==
  /\ rail = "nevermined" /\ req[p].at = "idle"
  /\ \E i \in Inputs, flawed \in BOOLEAN :
       \E d \in IF Shared THEN Delegations ELSE {p} : \E q \in Latest(i) \cup {NoQuote} :
         LET r == [NoRequest EXCEPT !.input = i, !.delegation = d, !.quote = q,
                                    !.offered = q.amount, !.now = clock]
         IN /\ q = NoQuote => flawed \/ Latest(i) = {}
            /\ req' = [req EXCEPT ![p] =
                 IF flawed THEN Answered(r, "refused")
                 ELSE IF q = NoQuote \/ QuoteExpired(q, clock) THEN Answered(r, "expired")
                 ELSE [r EXCEPT !.at = "acquire"]]
  /\ UNCHANGED <<desk, row, money>>

\* Mutant: the binding has the price of the day, not the quote's.
BindingRepriced(r) ==
  [quote |-> r.quote, input |-> r.input, delegation |-> r.delegation, amount |-> MaxPrice]

\* What bindingsAreIdentical compares.
Binding(r) ==
  [quote |-> r.quote, input |-> r.input, delegation |-> r.delegation, amount |-> r.quote.amount]

\* acquirePaymentAttempt, which the route asks with the clock the request
\* began with.
Acquire(p) ==
  /\ req[p].at = "acquire"
  /\ \/ /\ row[p].stage = "none"
        /\ row' = [row EXCEPT ![p] =
             [binding |-> Binding(req[p]), expires |-> req[p].now + TTL,
              stage |-> "acquired", actual |-> 0]]
        /\ Goto(p, "verify")
     \/ /\ row[p].stage # "none" /\ UNCHANGED row
        /\ \/ req[p].now >= row[p].expires /\ Reply(p, "expired")
           \/ req[p].now < row[p].expires /\ Binding(req[p]) # row[p].binding /\ Reply(p, "conflict")
           \/ /\ req[p].now < row[p].expires /\ Binding(req[p]) = row[p].binding
              /\ IF row[p].stage = "settled" THEN Reply(p, "ok")
                 ELSE IF rail = "nevermined" /\ row[p].stage \in {"settlement_pending", "settlement_failed"}
                 THEN Goto(p, "recover")
                 ELSE Reply(p, "processing")
  /\ UNCHANGED <<desk, money>>

-----------------------------------------------------------------------------
(* Verification, execution and settlement. *)

\* canAdvanceToVerified in the production mode, which wants an answer of the
\* facilitator itself.  The providers copy every other field of the evidence.
CanAdvanceToVerified(ev, quote) ==
  /\ ev.quote = quote
  /\ ev.success
  /\ ev.trust = "external_verified"

Verify(p) ==
  /\ req[p].at = "verify"
  /\ \E answer \in {"valid", "invalid", "lost"} :
       LET ev == [quote |-> req[p].quote, success |-> answer = "valid",
                  trust |-> IF answer = "lost" THEN "external_unverified" ELSE "external_verified"]
       IN IF CanAdvanceToVerified(ev, row[p].binding.quote)
          THEN Stage(p, "verified") /\ Goto(p, "execute")
          ELSE Stage(p, "verification_failed") /\ Reply(p, "rejected")
  /\ UNCHANGED <<desk, money>>

\* The service runs.  For upto the executor says what its pages cost, at the
\* prices of now: more than was authorized is not charged at all.
Execute(p) ==
  /\ req[p].at = "execute"
  /\ \/ Reply(p, "failed") /\ UNCHANGED row
     \/ /\ scheme = "exact"
        /\ row' = [row EXCEPT ![p].stage = "executed", ![p].actual = row[p].binding.quote.amount]
        /\ Goto(p, "settle")
     \/ /\ scheme = "upto"
        /\ \E pages \in 0 .. 3 :
             IF Usage(pages) > row[p].binding.quote.amount
             THEN Reply(p, "exceeded") /\ Stage(p, "executed")
             ELSE /\ row' = [row EXCEPT ![p].stage = "executed", ![p].actual = Usage(pages)]
                  /\ Goto(p, "settle")
  /\ UNCHANGED <<desk, money>>

\* What settle() asks of the facilitator: for upto what was used, for exact
\* what the buyer has signed.
Asked(p) == IF rail = "cdp" /\ scheme = "exact" THEN req[p].offered ELSE row[p].actual

\* External: what the facilitator did and what was heard of it.  An answer
\* may be lost or be misshapen (another amount or network, no transaction).
SettleAnswers ==
  [taken : BOOLEAN, heard : {"lost", "odd"}] \cup
  {[taken |-> TRUE, heard |-> "success"], [taken |-> FALSE, heard |-> "refusal"]}

\* The evidence the provider makes of it; the amount is the one it asked for.
SettlementEvidence(p, heard) ==
  [quote |-> req[p].quote, amount |-> row[p].actual, success |-> heard = "success",
   explicit |-> heard = "refusal",
   trust |-> IF heard = "lost" THEN "external_unverified" ELSE "external_verified"]

\* canAdvanceToSettled.
CanAdvanceToSettled(ev, quote) ==
  /\ ev.quote = quote
  /\ IF scheme = "exact" THEN ev.amount = quote.amount ELSE ev.amount <= quote.amount
  /\ ev.success
  /\ ev.trust = "external_verified"

Settle(p) ==
  /\ req[p].at = "settle"
  /\ \E answer \in SettleAnswers, shown \in {"succeeded", "failed", "processing"} :
       LET ev == SettlementEvidence(p, answer.heard)
       IN /\ answer.taken <=> shown = "succeeded"
          /\ charged' = [charged EXCEPT ![p] = IF answer.taken THEN Append(@, Asked(p)) ELSE @]
          /\ ledger' = IF rail = "cdp" \/ (shown = "failed" /\ answer.heard = "lost") THEN ledger
                       ELSE ledger \cup {[delegation |-> row[p].binding.delegation, payment |-> p, status |-> shown]}
          /\ IF CanAdvanceToSettled(ev, row[p].binding.quote)
             THEN Stage(p, "settled") /\ Reply(p, "ok")
             ELSE /\ Stage(p, IF rail = "cdp" \/ ev.explicit THEN "settlement_failed" ELSE "settlement_pending")
                  /\ Reply(p, "rejected")
  /\ UNCHANGED desk

\* Mutant: whatever the one transaction of a delegation has come to.
ReconciledBlindly(transactions) == Cardinality(transactions) = 1

\* reconcileNeverminedSettlement: one transaction, which has succeeded.
Reconciled(transactions) ==
  Cardinality(transactions) = 1 /\ \A t \in transactions : t.status = "succeeded"

\* A retry of a payment whose settlement is open.  The delegation may be
\* unreadable or inconsistent with the payment; its transactions are not
\* compared with the payment's amount, time or transaction.
Recover(p) ==
  /\ req[p].at = "recover"
  /\ LET transactions == {t \in ledger : t.delegation = row[p].binding.delegation}
     IN \/ /\ Reconciled(transactions)
           /\ Stage(p, "settled") /\ Reply(p, "ok")
        \/ Reply(p, "processing") /\ UNCHANGED row
  /\ UNCHANGED <<desk, money>>

-----------------------------------------------------------------------------
(* The specification. *)

EvidenceInit ==
  /\ rail \in {"cdp", "nevermined"} /\ scheme \in {"exact", "upto"}
  /\ clock = 0 /\ price = 1 /\ quotes = {}
  /\ row = [p \in Payments |-> NoRow] /\ req = [p \in Payments |-> NoRequest]
  /\ charged = [p \in Payments |-> <<>>] /\ ledger = {}

Pay(p) ==
  \/ SubmitCdp(p) \/ SubmitNevermined(p) \/ Acquire(p) \/ Verify(p)
  \/ Execute(p) \/ Settle(p) \/ Recover(p)

EvidenceNext ==
  \/ \E i \in Inputs : Challenge(i)
  \/ Tick \/ Reprice
  \/ \E p \in Payments : Pay(p)

EvidenceSpec == EvidenceInit /\ [][EvidenceNext]_evidenceVars

-----------------------------------------------------------------------------
(* Properties. *)

EvidenceTypeOK ==
  /\ clock \in 0 .. MaxNow /\ price \in 1 .. 2 /\ quotes \subseteq Quotes
  /\ \A p \in Payments :
       /\ row[p].stage \in Stages /\ row[p].actual \in Amounts
       /\ req[p].at \in Steps /\ req[p].answer \in Answers
       /\ charged[p] \in Seq(Amounts)

\* A buyer is never charged more than a quote this server has minted and the
\* identifier is bound to, nor other than the quote's amount when the scheme
\* is exact, nor other than what was used, whatever the prices became.
ChargedAsQuoted ==
  \A p \in Payments : \A n \in DOMAIN charged[p] :
    /\ row[p].binding.quote \in quotes
    /\ charged[p][n] <= row[p].binding.quote.amount
    /\ charged[p][n] = IF scheme = "exact" THEN row[p].binding.quote.amount ELSE row[p].actual

\* Who repeats a request that is bound to an identifier is not told of a
\* conflict, unless (Nevermined) the quote is no longer the newest one.
RetryIsTheSame ==
  \A p \in Payments : req[p].answer = "conflict" =>
    \/ req[p].input # row[p].binding.input
    \/ req[p].delegation # row[p].binding.delegation
    \/ rail = "cdp" /\ req[p].quote # row[p].binding.quote
    \/ rail = "nevermined" /\ \E q \in quotes :
         q.input = row[p].binding.input /\ q # row[p].binding.quote /\ q.issued >= row[p].binding.quote.issued

\* A payment is settled only if the buyer was charged for it
\* (protocol-nevermined/src/delegation-header.ts: "a delegation merely
\* existing (or even having a real "succeeded" transaction) is never enough
\* by itself to mark a payment settled").
SettledWasCharged ==
  \A p \in Payments : row[p].stage = "settled" => charged[p] # <<>>

=============================================================================
