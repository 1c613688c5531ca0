------------------------- MODULE PaymentEvidenceProofs -------------------------
(***************************************************************************)
(* What a buyer is charged and told, for any number of payments, inputs,   *)
(* quotes and ticks of the clock: the invariant says, of every step of a   *)
(* request, what its row, its quote and the buyer's money have come to.    *)
(***************************************************************************)
EXTENDS PaymentEvidence, FiniteSetTheorems, TLAPS

\* What the columns of a row and the fields of a request may hold.
BindingRecords == [quote : Quotes \cup {NoQuote}, input : Inputs \cup {"none"},
             delegation : Delegations \cup {"none"}, amount : Amounts]
RowRecords     == [binding : BindingRecords, expires : Nat, stage : Stages, actual : Amounts]
RequestRecords == [at : Steps, input : Inputs \cup {"none"}, delegation : Delegations \cup {"none"},
             quote : Quotes \cup {NoQuote}, offered : Nat, now : Nat, answer : Answers]

DeskTyped ==
  /\ rail \in {"cdp", "nevermined"} /\ scheme \in {"exact", "upto"}
  /\ clock \in 0 .. MaxNow /\ price \in 1 .. 2 /\ quotes \subseteq Quotes
PaymentsTyped ==
  /\ row \in [Payments -> RowRecords] /\ req \in [Payments -> RequestRecords]
  /\ charged \in [Payments -> Seq(Amounts)]

\* A request that is under way, or was told of a conflict, names a quote of
\* this server.
Remembered(r) == r.at = "acquire" \/ r.answer = "conflict"
RequestIsQuoted(r, p) ==
  /\ r.at # "idle" => r.quote \in quotes /\ r.offered = r.quote.amount /\ r.answer # "conflict"
  /\ Remembered(r) => r.quote \in quotes
  /\ Remembered(r) /\ rail = "nevermined" => r.quote.input = r.input /\ (Shared \/ r.delegation = p)

\* A row is bound to a quote of this server and to its price.
RowIsBound(w, p) ==
  w.stage # "none" =>
    /\ w.binding.quote \in quotes
    /\ w.binding.amount = w.binding.quote.amount
    /\ rail = "nevermined" => w.binding.quote.input = w.binding.input /\ (Shared \/ w.binding.delegation = p)

\* The step of a request says the stage of its row.
StageFollowsStep(r, w) ==
  /\ r.at \in {"verify", "execute", "settle"} => w.binding = Binding(r)
  /\ r.at = "verify"  => w.stage = "acquired"
  /\ r.at = "execute" => w.stage = "verified"
  /\ r.at = "settle"  => /\ w.stage = "executed" /\ w.actual <= w.binding.quote.amount
                         /\ scheme = "exact" => w.actual = w.binding.quote.amount
  /\ r.at = "recover" => rail = "nevermined" /\ w.stage \in {"settlement_pending", "settlement_failed"}

\* Nobody is charged before the service has run, and whoever is charged is
\* charged once, as the quote says.
Unsettled(w) == w.stage \in {"none", "acquired", "verified", "verification_failed", "executed"}
ChargedOnce(w, paid) ==
  \/ paid = <<>>
  \/ /\ ~Unsettled(w) /\ w.actual <= w.binding.quote.amount
     /\ paid = <<IF scheme = "exact" THEN w.binding.quote.amount ELSE w.actual>>

\* Who is told of a conflict asked for another binding; and the quote the
\* route took for the request is as new as the one the row is bound to.
ConflictIsTrue(r, w) ==
  /\ r.answer = "conflict" => w.stage # "none" /\ Binding(r) # w.binding
  /\ rail = "nevermined" /\ Remembered(r) /\ w.stage # "none" /\ w.binding.quote.input = r.quote.input =>
       w.binding.quote.issued <= r.quote.issued

\* While delegations are not shared, a settled payment was charged.
SettledIsCharged(w, paid) == ~Shared /\ w.stage = "settled" => paid # <<>>

PaymentIsSafe(p) ==
  /\ RequestIsQuoted(req[p], p)
  /\ RowIsBound(row[p], p)
  /\ StageFollowsStep(req[p], row[p])
  /\ ChargedOnce(row[p], charged[p])
  /\ ConflictIsTrue(req[p], row[p])
  /\ SettledIsCharged(row[p], charged[p])

\* A transaction that has succeeded is of a payment that was charged.
LedgerIsCharged ==
  \A t \in ledger : t.status = "succeeded" =>
    /\ t.payment \in Payments /\ charged[t.payment] # <<>>
    /\ Shared \/ t.delegation = t.payment

EvidenceSafe == DeskTyped /\ PaymentsTyped /\ (\A p \in Payments : PaymentIsSafe(p)) /\ LedgerIsCharged

-----------------------------------------------------------------------------
(* What the steps of a request are made of.                                *)

\* What is put in the place of a request or a row has its shape.
LEMMA NothingIsTyped ==
  /\ NoQuote \in [input : Inputs \cup {"none"}, amount : Amounts, issued : {0}]
  /\ NoBinding \in BindingRecords /\ NoRow \in RowRecords /\ NoRequest \in RequestRecords
<1>1. 0 \in Amounts /\ 0 \in Nat
  BY DEF Amounts
<1>2. NoBinding \in BindingRecords
  BY <1>1 DEF NoBinding, BindingRecords
<1>3. NoRow \in RowRecords
  BY <1>1, <1>2 DEF NoRow, RowRecords, Stages
<1>4. NoRequest \in RequestRecords
  BY <1>1 DEF NoRequest, RequestRecords, Steps, Answers
<1> QED
  BY <1>1, <1>2, <1>3, <1>4 DEF NoQuote

\* An answer that is not a conflict leaves nothing of the request.
LEMMA AnswersRest ==
  ASSUME NEW r \in RequestRecords, NEW what \in Answers \ {"conflict"}
  PROVE  /\ Answered(r, what) \in RequestRecords
         /\ Answered(r, what).at = "idle" /\ Answered(r, what).answer = what
BY NothingIsTyped DEF Answered, NoRequest, RequestRecords, Steps

\* A conflict leaves what was asked.
LEMMA ConflictsRemember ==
  ASSUME NEW r \in RequestRecords
  PROVE  /\ Answered(r, "conflict") \in RequestRecords
         /\ Answered(r, "conflict").at = "idle" /\ Answered(r, "conflict").answer = "conflict"
         /\ Answered(r, "conflict").quote = r.quote /\ Answered(r, "conflict").input = r.input
         /\ Answered(r, "conflict").delegation = r.delegation
BY DEF Answered, RequestRecords, Steps, Answers

\* The price of the pages is an amount.
LEMMA UsageIsAmount ==
  ASSUME DeskTyped, NEW pages \in 0 .. 3
  PROVE  Usage(pages) \in Amounts /\ MaxPrice \in Amounts
<1>1. CASE price = 1
  BY <1>1 DEF Usage, MaxPrice, PagePrice, Amounts
<1>2. CASE price = 2
  BY <1>2 DEF Usage, MaxPrice, PagePrice, Amounts
<1> QED
  BY <1>1, <1>2 DEF DeskTyped

\* A request that has ended without a conflict says nothing that could be
\* wrong, whatever stage its row has come to.
LEMMA EndedIsSafe ==
  ASSUME NEW r \in RequestRecords, NEW what \in Answers \ {"conflict"}, NEW w, NEW p
  PROVE  /\ RequestIsQuoted(Answered(r, what), p)
         /\ StageFollowsStep(Answered(r, what), w)
         /\ ConflictIsTrue(Answered(r, what), w)
BY AnswersRest DEF RequestIsQuoted, StageFollowsStep, ConflictIsTrue, Remembered

\* Nor does one that was refused before it began.
LEMMA RefusalIsSafe ==
  ASSUME NEW r \in RequestRecords, NEW p
  PROVE  \A what \in {"expired", "refused"} :
           LET s == Answered(r, what)
           IN s \in RequestRecords /\ RequestIsQuoted(s, p) /\ s.at = "idle" /\ s.answer # "conflict"
<1>1. ASSUME NEW what \in {"expired", "refused"}
      PROVE  /\ Answered(r, what) \in RequestRecords /\ RequestIsQuoted(Answered(r, what), p)
             /\ Answered(r, what).at = "idle" /\ Answered(r, what).answer # "conflict"
  <2>1. what \in Answers \ {"conflict"}
    BY DEF Answers
  <2> QED
    BY <2>1, AnswersRest, EndedIsSafe
<1> QED
  BY <1>1

-----------------------------------------------------------------------------
(* One lemma for each action.                                              *)

\* A step of one request leaves the others', and their ledger, alone.
LEMMA OthersStaySafe ==
  ASSUME EvidenceSafe, NEW p \in Payments, UNCHANGED desk,
         DeskTyped', PaymentsTyped', PaymentIsSafe(p)', LedgerIsCharged',
         \A q \in Payments \ {p} : row'[q] = row[q] /\ req'[q] = req[q] /\ charged'[q] = charged[q]
  PROVE  EvidenceSafe'
<1>1. ASSUME NEW q \in Payments \ {p} PROVE PaymentIsSafe(q)'
  BY <1>1 DEF EvidenceSafe, PaymentIsSafe, desk, RequestIsQuoted, RowIsBound, StageFollowsStep, ChargedOnce,
              ConflictIsTrue, SettledIsCharged, Unsettled, Remembered, Binding
<1> QED
  BY <1>1 DEF EvidenceSafe

\* The initial states.
LEMMA EvidenceStarts == EvidenceInit => EvidenceSafe
<1> SUFFICES ASSUME EvidenceInit PROVE EvidenceSafe
  OBVIOUS
<1>1. DeskTyped /\ PaymentsTyped
  BY NothingIsTyped, BoundsAssumption DEF EvidenceInit, DeskTyped, PaymentsTyped
<1>2. ASSUME NEW p \in Payments PROVE PaymentIsSafe(p)
  BY <1>2 DEF EvidenceInit, PaymentIsSafe, NoRow, NoRequest, RequestIsQuoted, RowIsBound, StageFollowsStep,
              ChargedOnce, ConflictIsTrue, SettledIsCharged, Remembered
<1> QED
  BY <1>1, <1>2 DEF EvidenceSafe, EvidenceInit, LedgerIsCharged

\* A quote more, a later hour or another price takes nothing from anybody.
LEMMA DeskStep ==
  ASSUME EvidenceSafe, (\E i \in Inputs : Challenge(i)) \/ Tick \/ Reprice
  PROVE  EvidenceSafe'
<1>1. quotes \subseteq quotes' /\ UNCHANGED <<rail, scheme, row, req, charged, ledger>>
  BY DEF Challenge, Tick, Reprice, money
<1>2. DeskTyped'
  <2>1. CASE \E i \in Inputs : Challenge(i)
    <3>1. MaxPrice \in Amounts
      BY UsageIsAmount DEF EvidenceSafe
    <3> QED
      BY <2>1, <3>1 DEF EvidenceSafe, DeskTyped, Challenge, Quotes
  <2>2. CASE Tick
    BY <2>2, BoundsAssumption DEF EvidenceSafe, DeskTyped, Tick
  <2>3. CASE Reprice
    BY <2>3 DEF EvidenceSafe, DeskTyped, Reprice
  <2> QED
    BY <2>1, <2>2, <2>3
<1>3. ASSUME NEW p \in Payments PROVE PaymentIsSafe(p)'
  BY <1>1, <1>3 DEF EvidenceSafe, PaymentIsSafe, RequestIsQuoted, RowIsBound, StageFollowsStep, ChargedOnce,
                    ConflictIsTrue, SettledIsCharged, Unsettled, Remembered, Binding
<1> QED
  BY <1>1, <1>2, <1>3 DEF EvidenceSafe, PaymentsTyped, LedgerIsCharged

\* A signed request: of CDP, it names its quote and what was signed; of
\* Nevermined, the route gives it the newest quote of its input.
LEMMA SubmitStep ==
  ASSUME EvidenceSafe, NEW p \in Payments, SubmitCdp(p) \/ SubmitNevermined(p)
  PROVE  EvidenceSafe'
<1> USE DEF EvidenceSafe
<1>1. UNCHANGED <<desk, row, charged, ledger>>
  BY DEF SubmitCdp, SubmitNevermined, money
<1>2. PICK r \in RequestRecords :
        /\ req' = [req EXCEPT ![p] = r]
        /\ RequestIsQuoted(r, p) /\ r.at \in {"idle", "acquire"} /\ r.answer # "conflict"
        /\ rail = "nevermined" /\ r.at = "acquire" =>
             \A q \in quotes : q.input = r.quote.input => q.issued <= r.quote.issued
  <2>1. CASE SubmitCdp(p)
    <3>1. PICK i \in Inputs, q \in quotes \cup {NoQuote}, more \in 0 .. 1, flawed \in BOOLEAN :
            LET r == [NoRequest EXCEPT !.input = i, !.quote = q, !.offered = q.amount + more, !.now = clock]
            IN req' = [req EXCEPT ![p] =
                 IF q = NoQuote THEN Answered(r, "expired")
                 ELSE IF flawed \/ ~AcceptsAmount(r.offered, q, clock) THEN Answered(r, "refused")
                 ELSE [r EXCEPT !.at = "acquire"]]
      BY <2>1 DEF SubmitCdp
    <3> DEFINE r == [NoRequest EXCEPT !.input = i, !.quote = q, !.offered = q.amount + more, !.now = clock]
    <3>2. q.amount \in Amounts /\ q \in Quotes \cup {NoQuote} /\ clock \in Nat
      BY NothingIsTyped DEF DeskTyped, Quotes
    <3>3. r \in RequestRecords
      <4>1. q.amount + more \in Nat
        BY <3>2 DEF Amounts
      <4> QED
        BY <4>1, <3>2, NothingIsTyped DEF RequestRecords
    <3>4. CASE q = NoQuote \/ flawed \/ ~AcceptsAmount(r.offered, q, clock)
      <4>1. \/ req' = [req EXCEPT ![p] = Answered(r, "expired")]
            \/ req' = [req EXCEPT ![p] = Answered(r, "refused")]
        BY <3>1, <3>4
      <4> HIDE DEF r
      <4> QED
        BY <4>1, <3>3, RefusalIsSafe
    <3>5. CASE q # NoQuote /\ ~flawed /\ AcceptsAmount(r.offered, q, clock)
      <4> DEFINE s == [r EXCEPT !.at = "acquire"]
      <4>1. req' = [req EXCEPT ![p] = s]
        BY <3>1, <3>5
      <4>2. s \in RequestRecords
        BY <3>3 DEF RequestRecords, Steps
      <4>3. s.at = "acquire" /\ s.quote = q /\ s.offered = r.offered /\ s.answer = "none" /\ q \in quotes
        BY <3>5 DEF NoRequest
      <4>4. s.offered = q.amount /\ rail = "cdp"
        BY <3>5, <4>3, <2>1 DEF AcceptsAmount, SubmitCdp
      <4> QED
        BY <4>1, <4>2, <4>3, <4>4 DEF RequestIsQuoted, Remembered
    <3> QED
      BY <3>4, <3>5
  <2>2. CASE SubmitNevermined(p)
    <3>0. PICK i \in Inputs, flawed \in BOOLEAN :
            \E d \in IF Shared THEN Delegations ELSE {p} : \E q \in Latest(i) \cup {NoQuote} :
              LET r == [NoRequest EXCEPT !.input = i, !.delegation = d, !.quote = q,
                                         !.offered = q.amount, !.now = clock]
              IN /\ q = NoQuote => flawed \/ Latest(i) = {}
                 /\ req' = [req EXCEPT ![p] =
                      IF flawed THEN Answered(r, "refused")
                      ELSE IF q = NoQuote \/ QuoteExpired(q, clock) THEN Answered(r, "expired")
                      ELSE [r EXCEPT !.at = "acquire"]]
      BY <2>2 DEF SubmitNevermined
    <3>1. PICK d \in (IF Shared THEN Delegations ELSE {p}), q \in Latest(i) \cup {NoQuote} :
            LET r == [NoRequest EXCEPT !.input = i, !.delegation = d, !.quote = q,
                                       !.offered = q.amount, !.now = clock]
            IN req' = [req EXCEPT ![p] =
                 IF flawed THEN Answered(r, "refused")
                 ELSE IF q = NoQuote \/ QuoteExpired(q, clock) THEN Answered(r, "expired")
                 ELSE [r EXCEPT !.at = "acquire"]]
      BY <3>0
    <3> DEFINE r == [NoRequest EXCEPT !.input = i, !.delegation = d, !.quote = q,
                                      !.offered = q.amount, !.now = clock]
    <3>2. q.amount \in Amounts /\ q \in Quotes \cup {NoQuote} /\ clock \in Nat /\ d \in Delegations
      BY NothingIsTyped DEF DeskTyped, Quotes, Latest, Delegations
    <3>3. r \in RequestRecords
      <4>1. q.amount \in Nat
        BY <3>2 DEF Amounts
      <4> QED
        BY <4>1, <3>2, NothingIsTyped DEF RequestRecords
    <3>4. CASE flawed \/ q = NoQuote \/ QuoteExpired(q, clock)
      <4>1. \/ req' = [req EXCEPT ![p] = Answered(r, "expired")]
            \/ req' = [req EXCEPT ![p] = Answered(r, "refused")]
        BY <3>1, <3>4
      <4> HIDE DEF r
      <4> QED
        BY <4>1, <3>3, RefusalIsSafe
    <3>5. CASE ~flawed /\ q # NoQuote /\ ~QuoteExpired(q, clock)
      <4> DEFINE s == [r EXCEPT !.at = "acquire"]
      <4>1. req' = [req EXCEPT ![p] = s]
        BY <3>1, <3>5
      <4>2. s \in RequestRecords
        BY <3>3 DEF RequestRecords, Steps
      <4>3. s.at = "acquire" /\ s.quote = q /\ s.offered = q.amount /\ s.answer = "none"
            /\ s.input = i /\ s.delegation = d
        BY DEF NoRequest
      <4>4. q \in quotes /\ q.input = i /\ \A o \in quotes : o.input = i => o.issued <= q.issued
        BY <3>5 DEF Latest
      <4>5. Shared \/ d = p
        OBVIOUS
      <4> QED
        BY <4>1, <4>2, <4>3, <4>4, <4>5 DEF RequestIsQuoted, Remembered
    <3> QED
      BY <3>4, <3>5
  <2> QED
    BY <2>1, <2>2
<1>3. req' \in [Payments -> RequestRecords] /\ req'[p] = r
  BY <1>2 DEF PaymentsTyped
<1>4. PaymentIsSafe(p)'
  <2>1. ConflictIsTrue(r, row[p])
    <3>1. row[p].stage # "none" => row[p].binding.quote \in quotes
      BY DEF PaymentIsSafe, RowIsBound
    <3> QED
      BY <1>2, <3>1 DEF ConflictIsTrue, Remembered
  <2>2. StageFollowsStep(r, row[p])
    BY <1>2 DEF StageFollowsStep
  <2> QED
    BY <1>1, <1>2, <1>3, <2>1, <2>2 DEF PaymentIsSafe, RequestIsQuoted, RowIsBound, StageFollowsStep, ConflictIsTrue,
       Remembered, Binding, ChargedOnce, SettledIsCharged, Unsettled, desk
<1> QED
  BY <1>1, <1>2, <1>3, <1>4, OthersStaySafe DEF PaymentsTyped, DeskTyped, LedgerIsCharged, desk

\* acquirePaymentAttempt: a new row is bound as was asked; of a row that is
\* there only the one that was bound so is answered by what it has come to.
LEMMA AcquireStep ==
  ASSUME EvidenceSafe, NEW p \in Payments, Acquire(p)
  PROVE  EvidenceSafe'
<1> USE DEF EvidenceSafe
<1> DEFINE r == req[p]  w == row[p]
<1>1. UNCHANGED <<desk, charged, ledger>> /\ r.at = "acquire" /\ r \in RequestRecords /\ w \in RowRecords
  BY DEF Acquire, money, PaymentsTyped
<1>2. /\ r.quote \in quotes /\ r.quote \in Quotes /\ r.answer # "conflict" /\ r.quote.amount \in Amounts
      /\ rail = "nevermined" => r.quote.input = r.input /\ (Shared \/ r.delegation = p)
  BY <1>1 DEF PaymentIsSafe, RequestIsQuoted, Remembered, DeskTyped, Quotes
<1>3. CASE /\ w.stage = "none"
           /\ row' = [row EXCEPT ![p] = [binding |-> Binding(r), expires |-> r.now + TTL,
                                         stage |-> "acquired", actual |-> 0]]
           /\ Goto(p, "verify")
  <2>1. Binding(r) \in BindingRecords
    BY <1>1, <1>2 DEF Binding, BindingRecords, RequestRecords
  <2>2. row'[p] = [binding |-> Binding(r), expires |-> r.now + TTL, stage |-> "acquired", actual |-> 0]
        /\ row' \in [Payments -> RowRecords]
    BY <1>1, <1>3, <2>1 DEF PaymentsTyped, RowRecords, RequestRecords, Stages, Amounts, TTL
  <2>3. req'[p] = [r EXCEPT !.at = "verify"] /\ req' \in [Payments -> RequestRecords]
    BY <1>1, <1>3 DEF Goto, PaymentsTyped, RequestRecords, Steps
  <2>4. req'[p].at = "verify" /\ req'[p].quote = r.quote /\ req'[p].input = r.input /\ req'[p].offered = r.offered
        /\ req'[p].delegation = r.delegation /\ req'[p].answer = r.answer
    BY <2>3, <1>1 DEF RequestRecords
  <2>5. charged[p] = <<>>
    BY <1>3 DEF PaymentIsSafe, ChargedOnce, Unsettled
  <2>6. PaymentIsSafe(p)'
    <3>1. RequestIsQuoted(req[p], p)'
      BY <1>1, <1>2, <2>4 DEF RequestIsQuoted, Remembered, PaymentIsSafe, desk
    <3>2. RowIsBound(row[p], p)'
      BY <1>1, <1>2, <2>2 DEF RowIsBound, Binding, desk
    <3>3. StageFollowsStep(req[p], row[p])'
      BY <2>2, <2>4 DEF StageFollowsStep, Binding
    <3>4. ConflictIsTrue(req[p], row[p])'
      BY <1>2, <2>4 DEF ConflictIsTrue, Remembered
    <3> QED
      BY <1>1, <2>2, <2>5, <3>1, <3>2, <3>3, <3>4 DEF PaymentIsSafe, ChargedOnce, SettledIsCharged
  <2> QED
    BY <1>1, <1>3, <2>2, <2>3, <2>6, OthersStaySafe DEF PaymentsTyped, DeskTyped, LedgerIsCharged, desk, Goto
<1>4. CASE w.stage # "none" /\ UNCHANGED row
  <2>1. PICK s \in RequestRecords :
          /\ req' = [req EXCEPT ![p] = s]
          /\ \/ s = Answered(r, "conflict") /\ Binding(r) # w.binding
             \/ s.at = "idle" /\ s.answer # "conflict"
             \/ /\ s.at = "recover" /\ s.answer = r.answer /\ s.quote = r.quote /\ s.offered = r.offered
                /\ rail = "nevermined" /\ w.stage \in {"settlement_pending", "settlement_failed"}
    <3>1. CASE \E what \in {"expired", "ok", "processing"} : Reply(p, what)
      <4>1. PICK what \in {"expired", "ok", "processing"} : Reply(p, what)
        BY <3>1
      <4>2. what \in Answers \ {"conflict"}
        BY DEF Answers
      <4>3. Answered(r, what) \in RequestRecords /\ Answered(r, what).at = "idle" /\ Answered(r, what).answer # "conflict"
        BY <1>1, <4>2, AnswersRest
      <4>4. req' = [req EXCEPT ![p] = Answered(r, what)]
        BY <4>1 DEF Reply
      <4> QED
        BY <4>3, <4>4
    <3>2. CASE Reply(p, "conflict") /\ Binding(r) # w.binding
      BY <3>2, <1>1, ConflictsRemember DEF Reply
    <3>3. CASE Goto(p, "recover") /\ rail = "nevermined" /\ w.stage \in {"settlement_pending", "settlement_failed"}
      <4> DEFINE s == [r EXCEPT !.at = "recover"]
      <4>1. s \in RequestRecords /\ s.at = "recover" /\ s.answer = r.answer /\ s.quote = r.quote /\ s.offered = r.offered
        BY <1>1 DEF RequestRecords, Steps
      <4>2. req' = [req EXCEPT ![p] = s]
        BY <3>3 DEF Goto
      <4> HIDE DEF s
      <4> QED
        BY <3>3, <4>1, <4>2
    <3> QED
      BY <1>4, <3>1, <3>2, <3>3 DEF Acquire
  <2>2. req' \in [Payments -> RequestRecords] /\ req'[p] = s
    BY <2>1 DEF PaymentsTyped
  <2>3. RequestIsQuoted(s, p) /\ StageFollowsStep(s, w)
    BY <1>1, <1>2, <2>1, ConflictsRemember DEF RequestIsQuoted, Remembered, StageFollowsStep, PaymentIsSafe
  <2>4. ConflictIsTrue(s, w)
    <3>1. CASE s = Answered(r, "conflict") /\ Binding(r) # w.binding
      <4>1. s.quote = r.quote /\ Binding(s) = Binding(r)
        BY <3>1, <1>1, ConflictsRemember DEF Binding
      <4>2. ConflictIsTrue(r, w) /\ Remembered(r)
        BY <1>1 DEF PaymentIsSafe, Remembered
      <4> QED
        BY <1>4, <3>1, <4>1, <4>2 DEF ConflictIsTrue
    <3>2. CASE s.answer # "conflict" /\ s.at # "acquire"
      BY <3>2 DEF ConflictIsTrue, Remembered
    <3> QED
      BY <1>2, <2>1, <3>1, <3>2
  <2>5. PaymentIsSafe(p)'
    BY <1>1, <1>4, <2>2, <2>3, <2>4 DEF PaymentIsSafe, RequestIsQuoted, RowIsBound, StageFollowsStep, ConflictIsTrue,
       Remembered, Binding, ChargedOnce, SettledIsCharged, Unsettled, desk
  <2> QED
    BY <1>1, <1>4, <2>1, <2>2, <2>5, OthersStaySafe DEF PaymentsTyped, DeskTyped, LedgerIsCharged, desk
<1> QED
  BY <1>3, <1>4 DEF Acquire

\* The same request, at another step.
Continues(s, r) ==
  /\ s.quote = r.quote /\ s.input = r.input /\ s.delegation = r.delegation
  /\ s.offered = r.offered /\ s.answer = r.answer

\* A row that goes on, or is given up, before anything was charged: its
\* request goes on with it or ends without a conflict.
LEMMA UnsettledStep ==
  ASSUME EvidenceSafe, NEW p \in Payments, UNCHANGED <<desk, charged, ledger>>,
         req[p].at \in {"verify", "execute"},
         NEW s \in RequestRecords, req' = [req EXCEPT ![p] = s],
         NEW x \in RowRecords, row' = [row EXCEPT ![p] = x],
         x.binding = row[p].binding, Unsettled(x), x.stage # "none",
         \/ s.at = "idle" /\ s.answer # "conflict"
         \/ /\ Continues(s, req[p])
            /\ \/ s.at = "execute" /\ x.stage = "verified"
               \/ /\ s.at = "settle" /\ x.stage = "executed" /\ x.actual <= x.binding.quote.amount
                  /\ scheme = "exact" => x.actual = x.binding.quote.amount
  PROVE  EvidenceSafe'
<1> USE DEF EvidenceSafe
<1> DEFINE r == req[p]  w == row[p]
<1>1. w.binding = Binding(r) /\ w.stage # "none"
  BY DEF PaymentIsSafe, StageFollowsStep
<1>2. row'[p] = x /\ row' \in [Payments -> RowRecords]
  BY DEF PaymentsTyped
<1>3. req'[p] = s /\ req' \in [Payments -> RequestRecords]
  BY DEF PaymentsTyped
<1>4. charged[p] = <<>>
  BY DEF PaymentIsSafe, StageFollowsStep, ChargedOnce, Unsettled
<1>5. PaymentIsSafe(p)'
  <2>1. RequestIsQuoted(req[p], p)'
    BY <1>3 DEF RequestIsQuoted, Remembered, PaymentIsSafe, desk, Continues
  <2>2. RowIsBound(row[p], p)'
    BY <1>1, <1>2 DEF RowIsBound, PaymentIsSafe, desk
  <2>3. StageFollowsStep(req[p], row[p])'
    BY <1>1, <1>2, <1>3 DEF StageFollowsStep, Binding, desk, Continues
  <2>4. ConflictIsTrue(req[p], row[p])'
    BY <1>3 DEF ConflictIsTrue, Remembered, PaymentIsSafe, RequestIsQuoted, Continues
  <2>5. SettledIsCharged(row[p], charged[p])'
    BY <1>2 DEF SettledIsCharged, Unsettled
  <2> QED
    BY <1>4, <2>1, <2>2, <2>3, <2>4, <2>5 DEF PaymentIsSafe, ChargedOnce
<1> QED
  BY <1>2, <1>3, <1>5, OthersStaySafe DEF PaymentsTyped, DeskTyped, LedgerIsCharged, desk

\* A step to another place of the handler.
LEMMA GoesTo ==
  ASSUME PaymentsTyped, NEW p \in Payments, NEW step \in Steps, Goto(p, step)
  PROVE  \E s \in RequestRecords : req' = [req EXCEPT ![p] = s] /\ s.at = step /\ Continues(s, req[p])
<1> DEFINE s == [req[p] EXCEPT !.at = step]
<1>1. s \in RequestRecords /\ s.at = step /\ Continues(s, req[p])
  BY DEF PaymentsTyped, RequestRecords, Continues
<1>2. req' = [req EXCEPT ![p] = s]
  BY DEF Goto
<1> HIDE DEF s
<1> QED
  BY <1>1, <1>2

\* The stage of a row is set.
LEMMA ComesTo ==
  ASSUME PaymentsTyped, NEW p \in Payments, NEW stage \in Stages, Stage(p, stage)
  PROVE  \E x \in RowRecords :
           row' = [row EXCEPT ![p] = x] /\ x.stage = stage /\ x.actual = row[p].actual /\ x.binding = row[p].binding
<1> DEFINE x == [row[p] EXCEPT !.stage = stage]
<1>1. row[p] \in RowRecords
  BY DEF PaymentsTyped
<1>2. x \in RowRecords /\ x.stage = stage /\ x.actual = row[p].actual /\ x.binding = row[p].binding
  BY <1>1 DEF RowRecords
<1>3. row' = [row EXCEPT ![p] = x]
  BY DEF Stage
<1> HIDE DEF x
<1> QED
  BY <1>2, <1>3

\* An answer other than a conflict.
LEMMA RepliesWith ==
  ASSUME PaymentsTyped, NEW p \in Payments, NEW what \in Answers \ {"conflict"}, Reply(p, what)
  PROVE  \E s \in RequestRecords : req' = [req EXCEPT ![p] = s] /\ s.at = "idle" /\ s.answer # "conflict"
<1>1. Answered(req[p], what) \in RequestRecords /\ Answered(req[p], what).at = "idle" /\ Answered(req[p], what).answer = what
  BY AnswersRest DEF PaymentsTyped
<1> QED
  BY <1>1 DEF Reply

\* The facilitator has verified, or it has not.
LEMMA VerifyStep ==
  ASSUME EvidenceSafe, NEW p \in Payments, Verify(p)
  PROVE  EvidenceSafe'
<1>1. req[p].at = "verify" /\ UNCHANGED <<desk, charged, ledger>> /\ PaymentsTyped
  BY DEF Verify, money, EvidenceSafe
<1>2. row[p].actual \in Amounts /\ "rejected" \in Answers \ {"conflict"} /\ "execute" \in Steps
      /\ "verified" \in Stages /\ "verification_failed" \in Stages
  BY <1>1 DEF PaymentsTyped, RowRecords, Answers, Steps, Stages
<1>3. CASE Stage(p, "verified") /\ Goto(p, "execute")
  <2>1. PICK x \in RowRecords : row' = [row EXCEPT ![p] = x] /\ x.stage = "verified" /\ x.binding = row[p].binding
    BY <1>1, <1>2, <1>3, ComesTo
  <2>2. PICK s \in RequestRecords :
          req' = [req EXCEPT ![p] = s] /\ s.at = "execute" /\ Continues(s, req[p])
    BY <1>1, <1>2, <1>3, GoesTo
  <2> QED
    BY <1>1, <2>1, <2>2, UnsettledStep DEF Unsettled
<1>4. CASE Stage(p, "verification_failed") /\ Reply(p, "rejected")
  <2>1. PICK x \in RowRecords : row' = [row EXCEPT ![p] = x] /\ x.stage = "verification_failed" /\ x.binding = row[p].binding
    BY <1>1, <1>2, <1>4, ComesTo
  <2>2. PICK s \in RequestRecords : req' = [req EXCEPT ![p] = s] /\ s.at = "idle" /\ s.answer # "conflict"
    BY <1>1, <1>2, <1>4, RepliesWith
  <2> QED
    BY <1>1, <2>1, <2>2, UnsettledStep DEF Unsettled
<1> QED
  BY <1>3, <1>4 DEF Verify

\* The service has run, at what it cost, or it has failed.
LEMMA ExecuteStep ==
  ASSUME EvidenceSafe, NEW p \in Payments, Execute(p)
  PROVE  EvidenceSafe'
<1> DEFINE quoted == row[p].binding.quote.amount
<1>1. req[p].at = "execute" /\ UNCHANGED <<desk, charged, ledger>> /\ PaymentsTyped /\ DeskTyped
  BY DEF Execute, money, EvidenceSafe
<1>2. row[p].stage = "verified" /\ quoted \in Amounts /\ row[p] \in RowRecords
  BY <1>1, NothingIsTyped
     DEF EvidenceSafe, PaymentIsSafe, StageFollowsStep, PaymentsTyped, RowRecords, BindingRecords, Quotes
<1>3. row[p].actual \in Amounts /\ {"failed", "exceeded"} \subseteq Answers \ {"conflict"} /\ "settle" \in Steps /\ "executed" \in Stages
  BY <1>2 DEF RowRecords, Answers, Steps, Stages
<1>4. CASE Reply(p, "failed") /\ UNCHANGED row
  <2>1. PICK s \in RequestRecords : req' = [req EXCEPT ![p] = s] /\ s.at = "idle" /\ s.answer # "conflict"
    BY <1>1, <1>3, <1>4, RepliesWith
  <2>2. row' = [row EXCEPT ![p] = row[p]]
    BY <1>1, <1>4 DEF PaymentsTyped
  <2> QED
    BY <1>1, <1>2, <2>1, <2>2, UnsettledStep DEF Unsettled
<1>5. CASE Reply(p, "exceeded") /\ Stage(p, "executed")
  <2>1. PICK x \in RowRecords : row' = [row EXCEPT ![p] = x] /\ x.stage = "executed" /\ x.binding = row[p].binding
    BY <1>1, <1>3, <1>5, ComesTo
  <2>2. PICK s \in RequestRecords : req' = [req EXCEPT ![p] = s] /\ s.at = "idle" /\ s.answer # "conflict"
    BY <1>1, <1>3, <1>5, RepliesWith
  <2> QED
    BY <1>1, <2>1, <2>2, UnsettledStep DEF Unsettled
<1>6. ASSUME NEW actual \in Amounts, actual <= quoted, scheme = "exact" => actual = quoted,
             row' = [row EXCEPT ![p].stage = "executed", ![p].actual = actual], Goto(p, "settle")
      PROVE  EvidenceSafe'
  <2> DEFINE x == [row[p] EXCEPT !.stage = "executed", !.actual = actual]
  <2>1. x \in RowRecords /\ x.stage = "executed" /\ x.actual = actual /\ x.binding = row[p].binding
    BY <1>2, <1>3 DEF RowRecords
  <2>2. row' = [row EXCEPT ![p] = x]
    BY <1>1, <1>6 DEF PaymentsTyped
  <2> HIDE DEF x
  <2>3. Unsettled(x) /\ x.stage # "none" /\ x.actual <= x.binding.quote.amount
        /\ (scheme = "exact" => x.actual = x.binding.quote.amount)
    BY <1>6, <2>1 DEF Unsettled
  <2>4. PICK s \in RequestRecords :
          req' = [req EXCEPT ![p] = s] /\ s.at = "settle" /\ Continues(s, req[p])
    BY <1>1, <1>3, <1>6, GoesTo
  <2> QED
    BY <1>1, <2>1, <2>2, <2>3, <2>4, UnsettledStep
<1>7. CASE /\ scheme = "exact"
           /\ row' = [row EXCEPT ![p].stage = "executed", ![p].actual = quoted]
           /\ Goto(p, "settle")
  <2>1. quoted <= quoted
    BY <1>2 DEF Amounts
  <2> HIDE DEF quoted
  <2> QED
    BY <1>2, <1>6, <1>7, <2>1
<1>8. CASE /\ scheme = "upto"
           /\ \E pages \in 0 .. 3 :
                /\ ~(Usage(pages) > quoted)
                /\ row' = [row EXCEPT ![p].stage = "executed", ![p].actual = Usage(pages)]
                /\ Goto(p, "settle")
  <2>1. PICK pages \in 0 .. 3 :
          /\ ~(Usage(pages) > quoted)
          /\ row' = [row EXCEPT ![p].stage = "executed", ![p].actual = Usage(pages)]
          /\ Goto(p, "settle")
    BY <1>8
  <2>2. Usage(pages) \in Amounts
    BY <1>1, UsageIsAmount
  <2>3. Usage(pages) <= quoted
    BY <1>2, <2>1, <2>2 DEF Amounts
  <2> QED
    BY <1>6, <1>8, <2>1, <2>2, <2>3
<1> QED
  BY <1>4, <1>5, <1>7, <1>8 DEF Execute

\* Who is asked to settle is charged at most once, what the quote says; the
\* evidence decides what the row is told, never what was charged.
LEMMA SettleStep ==
  ASSUME EvidenceSafe, NEW p \in Payments, Settle(p)
  PROVE  EvidenceSafe'
<1> USE DEF EvidenceSafe
<1> DEFINE r == req[p]  w == row[p]
<1>1. r.at = "settle" /\ UNCHANGED desk /\ r \in RequestRecords /\ w \in RowRecords /\ PaymentsTyped
  BY DEF Settle, PaymentsTyped
<1>2. PICK answer \in SettleAnswers, shown \in {"succeeded", "failed", "processing"} :
        LET ev == SettlementEvidence(p, answer.heard)
        IN /\ answer.taken <=> shown = "succeeded"
           /\ charged' = [charged EXCEPT ![p] = IF answer.taken THEN Append(@, Asked(p)) ELSE @]
           /\ ledger' = IF rail = "cdp" \/ (shown = "failed" /\ answer.heard = "lost") THEN ledger
                        ELSE ledger \cup {[delegation |-> row[p].binding.delegation, payment |-> p, status |-> shown]}
           /\ IF CanAdvanceToSettled(ev, row[p].binding.quote)
              THEN Stage(p, "settled") /\ Reply(p, "ok")
              ELSE /\ Stage(p, IF rail = "cdp" \/ ev.explicit THEN "settlement_failed" ELSE "settlement_pending")
                   /\ Reply(p, "rejected")
  BY DEF Settle
<1> DEFINE ev == SettlementEvidence(p, answer.heard)
<1>3. /\ w.stage = "executed" /\ w.binding = Binding(r) /\ w.actual <= w.binding.quote.amount
      /\ scheme = "exact" => w.actual = w.binding.quote.amount
      /\ r.offered = r.quote.amount /\ charged[p] = <<>> /\ r.quote \in quotes
  BY <1>1 DEF PaymentIsSafe, StageFollowsStep, RequestIsQuoted, ChargedOnce, Unsettled
<1>4. w.actual \in Amounts /\ w.binding.quote.amount \in Amounts
  BY <1>1, <1>3 DEF RowRecords, Binding, DeskTyped, Quotes
<1>5. Asked(p) = IF scheme = "exact" THEN w.binding.quote.amount ELSE w.actual
  BY <1>3 DEF Asked, Binding
<1>6. charged' \in [Payments -> Seq(Amounts)] /\ charged'[p] \in {<<>>, <<Asked(p)>>}
      /\ (answer.taken => charged'[p] # <<>>)
      /\ \A q \in Payments \ {p} : charged'[q] = charged[q]
  <2>1. Append(<<>>, Asked(p)) = <<Asked(p)>> /\ <<Asked(p)>> \in Seq(Amounts) /\ <<Asked(p)>> # <<>>
    BY <1>4, <1>5
  <2>2. CASE answer.taken
    BY <1>2, <1>3, <2>1, <2>2 DEF PaymentsTyped
  <2>3. CASE ~answer.taken
    BY <1>2, <1>3, <2>3 DEF PaymentsTyped
  <2> QED
    BY <2>2, <2>3
<1>7. CanAdvanceToSettled(ev, w.binding.quote) => answer.taken
  <2>1. answer.heard = "success" => answer.taken
    BY DEF SettleAnswers
  <2>2. CanAdvanceToSettled(ev, w.binding.quote) => ev.success
    BY DEF CanAdvanceToSettled
  <2>3. ev.success <=> answer.heard = "success"
    BY DEF SettlementEvidence
  <2> QED
    BY <2>1, <2>2, <2>3
<1>8. PICK stage \in {"settled", "settlement_failed", "settlement_pending"}, what \in {"ok", "rejected"} :
        Stage(p, stage) /\ Reply(p, what) /\ (stage = "settled" => answer.taken)
  BY <1>2, <1>7
<1>9. PICK s \in RequestRecords : req' = [req EXCEPT ![p] = s] /\ s.at = "idle" /\ s.answer # "conflict"
  <2>1. what \in Answers \ {"conflict"}
    BY DEF Answers
  <2> QED
    BY <1>1, <1>8, <2>1, RepliesWith
<1>10. PICK x \in RowRecords : /\ row' = [row EXCEPT ![p] = x] /\ x.stage = stage /\ x.actual = w.actual
                               /\ x.binding = w.binding
  <2>1. stage \in Stages
    BY DEF Stages
  <2> QED
    BY <1>1, <1>8, <2>1, ComesTo
<1>11. row' \in [Payments -> RowRecords] /\ req' \in [Payments -> RequestRecords] /\ row'[p] = x /\ req'[p] = s
  BY <1>1, <1>9, <1>10 DEF PaymentsTyped
<1>12. PaymentIsSafe(p)'
  <2>1. RequestIsQuoted(req[p], p)'
    BY <1>9, <1>11 DEF RequestIsQuoted, Remembered
  <2>2. RowIsBound(row[p], p)'
    BY <1>1, <1>3, <1>10, <1>11 DEF RowIsBound, PaymentIsSafe, desk
  <2>3. StageFollowsStep(req[p], row[p])' /\ ConflictIsTrue(req[p], row[p])'
    BY <1>9, <1>11 DEF StageFollowsStep, ConflictIsTrue, Remembered
  <2>4. ChargedOnce(row[p], charged[p])'
    BY <1>1, <1>3, <1>5, <1>6, <1>8, <1>10, <1>11 DEF ChargedOnce, Unsettled, desk
  <2>5. SettledIsCharged(row[p], charged[p])'
    BY <1>6, <1>8, <1>10, <1>11 DEF SettledIsCharged
  <2> QED
    BY <2>1, <2>2, <2>3, <2>4, <2>5 DEF PaymentIsSafe
<1>13. LedgerIsCharged'
  <2>1. ASSUME NEW t \in ledger', t.status = "succeeded"
        PROVE  t.payment \in Payments /\ charged'[t.payment] # <<>> /\ (Shared \/ t.delegation = t.payment)
    <3>1. CASE t \in ledger
      <4>1. t.payment \in Payments /\ charged[t.payment] # <<>> /\ (Shared \/ t.delegation = t.payment)
        BY <2>1, <3>1 DEF LedgerIsCharged
      <4> QED
        BY <4>1, <1>3, <1>6
    <3>2. CASE t \notin ledger
      <4>1. rail # "cdp" /\ t = [delegation |-> w.binding.delegation, payment |-> p, status |-> shown]
        BY <1>2, <2>1, <3>2
      <4>2. Shared \/ w.binding.delegation = p
        BY <1>3, <4>1 DEF PaymentIsSafe, RowIsBound, DeskTyped
      <4> QED
        BY <1>2, <1>6, <2>1, <4>1, <4>2
    <3> QED
      BY <3>1, <3>2
  <2> QED
    BY <2>1 DEF LedgerIsCharged
<1> QED
  BY <1>1, <1>6, <1>9, <1>10, <1>11, <1>12, <1>13, OthersStaySafe DEF PaymentsTyped, DeskTyped, desk

\* A retry settles on what the delegation's one transaction has come to: it
\* is the payment's own, unless delegations are shared.
LEMMA RecoverStep ==
  ASSUME EvidenceSafe, NEW p \in Payments, Recover(p)
  PROVE  EvidenceSafe'
<1> USE DEF EvidenceSafe
<1> DEFINE r == req[p]  w == row[p]
<1>1. /\ r.at = "recover" /\ UNCHANGED <<desk, charged, ledger>> /\ r \in RequestRecords /\ w \in RowRecords
      /\ PaymentsTyped
  BY DEF Recover, PaymentsTyped, money
<1>2. rail = "nevermined" /\ w.stage \in {"settlement_pending", "settlement_failed"}
  BY <1>1 DEF PaymentIsSafe, StageFollowsStep
<1>3. PICK what \in {"ok", "processing"} : Reply(p, what)
  BY DEF Recover
<1>4. PICK s \in RequestRecords : req' = [req EXCEPT ![p] = s] /\ s.at = "idle" /\ s.answer # "conflict"
  <2>1. what \in Answers \ {"conflict"}
    BY DEF Answers
  <2> QED
    BY <1>1, <1>3, <2>1, RepliesWith
<1>5. PICK x \in RowRecords :
        /\ row' = [row EXCEPT ![p] = x] /\ x.actual = w.actual /\ x.binding = w.binding
        /\ \/ x.stage = w.stage
           \/ x.stage = "settled" /\ (Shared \/ charged[p] # <<>>)
  <2>1. CASE UNCHANGED row
    BY <1>1, <2>1 DEF PaymentsTyped
  <2>2. CASE /\ Reconciled({t \in ledger : t.delegation = row[p].binding.delegation})
             /\ Stage(p, "settled")
    <3>1. PICK x \in RowRecords : /\ row' = [row EXCEPT ![p] = x] /\ x.stage = "settled" /\ x.actual = w.actual
                                  /\ x.binding = w.binding
      <4>1. "settled" \in Stages
        BY DEF Stages
      <4> QED
        BY <1>1, <2>2, <4>1, ComesTo
    <3>2. Shared \/ charged[p] # <<>>
      <4>1. PICK t \in ledger : t.delegation = w.binding.delegation /\ t.status = "succeeded"
        BY <2>2, FS_EmptySet DEF Reconciled
      <4>2. Shared \/ w.binding.delegation = p
        BY <1>2 DEF PaymentIsSafe, RowIsBound
      <4> QED
        BY <4>1, <4>2 DEF LedgerIsCharged
    <3> QED
      BY <3>1, <3>2
  <2> QED
    BY <2>1, <2>2 DEF Recover
<1>6. row' \in [Payments -> RowRecords] /\ req' \in [Payments -> RequestRecords] /\ row'[p] = x /\ req'[p] = s
  BY <1>1, <1>4, <1>5 DEF PaymentsTyped
<1>7. PaymentIsSafe(p)'
  <2>1. RequestIsQuoted(req[p], p)'
    BY <1>4, <1>6 DEF RequestIsQuoted, Remembered
  <2>2. RowIsBound(row[p], p)'
    BY <1>1, <1>2, <1>5, <1>6 DEF RowIsBound, PaymentIsSafe, desk
  <2>3. StageFollowsStep(req[p], row[p])' /\ ConflictIsTrue(req[p], row[p])'
    BY <1>4, <1>6 DEF StageFollowsStep, ConflictIsTrue, Remembered
  <2>4. ChargedOnce(row[p], charged[p])'
    BY <1>1, <1>2, <1>5, <1>6 DEF PaymentIsSafe, ChargedOnce, Unsettled, desk
  <2>5. SettledIsCharged(row[p], charged[p])'
    BY <1>1, <1>2, <1>5, <1>6 DEF SettledIsCharged
  <2> QED
    BY <2>1, <2>2, <2>3, <2>4, <2>5 DEF PaymentIsSafe
<1> QED
  BY <1>1, <1>4, <1>5, <1>6, <1>7, OthersStaySafe DEF PaymentsTyped, DeskTyped, LedgerIsCharged, desk

\* Every step keeps what the proof needs.
LEMMA EvidenceStep == EvidenceSafe /\ [EvidenceNext]_evidenceVars => EvidenceSafe'
<1> SUFFICES ASSUME EvidenceSafe, [EvidenceNext]_evidenceVars PROVE EvidenceSafe'
  OBVIOUS
<1>1. CASE (\E i \in Inputs : Challenge(i)) \/ Tick \/ Reprice
  BY <1>1, DeskStep
<1>2. ASSUME NEW p \in Payments, Pay(p) PROVE EvidenceSafe'
  BY <1>2, SubmitStep, AcquireStep, VerifyStep, ExecuteStep, SettleStep, RecoverStep DEF Pay
<1>3. CASE UNCHANGED evidenceVars
  BY <1>3 DEF evidenceVars, desk, money, EvidenceSafe, DeskTyped, PaymentsTyped, PaymentIsSafe, LedgerIsCharged,
     RequestIsQuoted, RowIsBound, StageFollowsStep, ChargedOnce, ConflictIsTrue, SettledIsCharged, Unsettled,
     Remembered, Binding
<1> QED
  BY <1>1, <1>2, <1>3 DEF EvidenceNext

\* Hence it holds in every state.
LEMMA EvidenceIsSafe == EvidenceSpec => []EvidenceSafe
BY EvidenceStarts, EvidenceStep, PTL DEF EvidenceSpec

-----------------------------------------------------------------------------
(* What it gives.                                                          *)

\* Every variable keeps to the values the schema has for it.
THEOREM EvidenceTypeCorrect == EvidenceSpec => []EvidenceTypeOK
<1>1. EvidenceSafe => EvidenceTypeOK
  BY DEF EvidenceSafe, DeskTyped, PaymentsTyped, EvidenceTypeOK, RowRecords, RequestRecords
<1> QED
  BY <1>1, EvidenceIsSafe, PTL

\* No buyer is charged but what the quote says the identifier is bound to,
\* whatever the prices became, by any scheme and on either rail.
THEOREM ChargesFollowQuotes == EvidenceSpec => []ChargedAsQuoted
<1>1. EvidenceSafe => ChargedAsQuoted
  <2> SUFFICES ASSUME EvidenceSafe, NEW p \in Payments, NEW n \in DOMAIN charged[p]
               PROVE  /\ row[p].binding.quote \in quotes
                      /\ charged[p][n] <= row[p].binding.quote.amount
                      /\ charged[p][n] = IF scheme = "exact" THEN row[p].binding.quote.amount ELSE row[p].actual
    BY DEF ChargedAsQuoted
  <2>1. PaymentIsSafe(p) /\ DeskTyped
    BY DEF EvidenceSafe
  <2>2. charged[p] # <<>>
    OBVIOUS
  <2>3. /\ ~Unsettled(row[p]) /\ row[p].actual <= row[p].binding.quote.amount
        /\ charged[p] = <<IF scheme = "exact" THEN row[p].binding.quote.amount ELSE row[p].actual>>
    BY <2>1, <2>2 DEF PaymentIsSafe, ChargedOnce
  <2>4. row[p].binding.quote \in quotes
    BY <2>1, <2>3 DEF PaymentIsSafe, RowIsBound, Unsettled
  <2>5. row[p].binding.quote.amount \in Nat
    BY <2>1, <2>4 DEF DeskTyped, Quotes, Amounts
  <2>6. n = 1 /\ charged[p][n] = IF scheme = "exact" THEN row[p].binding.quote.amount ELSE row[p].actual
    BY <2>3
  <2> QED
    BY <2>3, <2>4, <2>5, <2>6
<1> QED
  BY <1>1, EvidenceIsSafe, PTL

\* Who repeats a request is told of no conflict but a true one.
THEOREM RetriesAreTheSame == EvidenceSpec => []RetryIsTheSame
<1>1. EvidenceSafe => RetryIsTheSame
  <2> SUFFICES ASSUME EvidenceSafe, NEW p \in Payments, req[p].answer = "conflict",
                      req[p].input = row[p].binding.input, req[p].delegation = row[p].binding.delegation,
                      ~(rail = "cdp" /\ req[p].quote # row[p].binding.quote)
               PROVE  rail = "nevermined" /\ \E q \in quotes :
                        /\ q.input = row[p].binding.input /\ q # row[p].binding.quote
                        /\ q.issued >= row[p].binding.quote.issued
    BY DEF RetryIsTheSame
  <2>1. PaymentIsSafe(p) /\ DeskTyped /\ PaymentsTyped
    BY DEF EvidenceSafe
  <2>2. row[p].stage # "none" /\ Binding(req[p]) # row[p].binding
    BY <2>1 DEF PaymentIsSafe, ConflictIsTrue
  <2>3. row[p].binding \in BindingRecords /\ row[p].binding.amount = row[p].binding.quote.amount
        /\ row[p].binding.quote \in quotes
    BY <2>1, <2>2 DEF PaymentsTyped, RowRecords, PaymentIsSafe, RowIsBound
  <2>4. req[p].quote # row[p].binding.quote
    BY <2>2, <2>3 DEF Binding, BindingRecords
  <2>5. rail = "nevermined" /\ req[p].quote \in quotes /\ req[p].quote.input = req[p].input
    BY <2>1, <2>4 DEF DeskTyped, PaymentIsSafe, RequestIsQuoted, Remembered
  <2>6. row[p].binding.quote.input = row[p].binding.input
    BY <2>1, <2>2, <2>5 DEF PaymentIsSafe, RowIsBound
  <2>7. row[p].binding.quote.issued <= req[p].quote.issued
    BY <2>1, <2>2, <2>5, <2>6 DEF PaymentIsSafe, ConflictIsTrue, Remembered
  <2>8. row[p].binding.quote.issued \in Nat /\ req[p].quote.issued \in Nat
    BY <2>1, <2>3, <2>5 DEF DeskTyped, Quotes
  <2> QED
    BY <2>4, <2>5, <2>7, <2>8
<1> QED
  BY <1>1, EvidenceIsSafe, PTL

\* While every payment has a delegation of its own, none is settled that was
\* not charged, by the facilitator's word or by reconciliation.
THEOREM SettlementsWereCharged ==
  ASSUME ~Shared
  PROVE  EvidenceSpec => []SettledWasCharged
<1>1. EvidenceSafe => SettledWasCharged
  BY DEF EvidenceSafe, PaymentIsSafe, SettledIsCharged, SettledWasCharged
<1> QED
  BY <1>1, EvidenceIsSafe, PTL

=============================================================================
