--------------------------- MODULE SourceAdapters ---------------------------
(***************************************************************************)
(* The source adapters: seven of them run the same loop around a cache of  *)
(* their own, the review of the provider's terms, and a fetch.  What       *)
(* differs is what the cache key leaves out of the input and what each     *)
(* makes of a reply.  Here one adapter and its callers; limiter, breaker   *)
(* and retries are in ProviderAdapter: they refuse or delay, and keep      *)
(* nothing of an attempt that fails.                                       *)
(***************************************************************************)
EXTENDS Naturals, Sequences, FiniteSets

CONSTANTS
  Askers,     \* concurrent calls of the adapter
  Questions,  \* what an input asks for: the part every key holds
  MaxKept,    \* entries of the cache (DEFAULT_CACHE_POLICY.maxSize)
  Ttl,        \* life of an entry
  MaxTime     \* bound: the clock

ASSUME CacheAssumption == MaxKept \in Nat \ {0} /\ Ttl \in Nat \ {0} /\ MaxTime \in Nat

VARIABLES
  adapter,   \* which of the seven
  time,
  store,     \* the cache: key -> entry
  recency,   \* its keys, the least recently used first
  asked      \* per caller: its input, how it goes, the answer

sourceVars == <<adapter, time, store, recency, asked>>

-----------------------------------------------------------------------------
Adapters == {"github", "openalex", "crossref", "federal", "submissions", "facts", "public"}

\* What an input has besides its question: the name or the ticker the
\* caller expects of the company, or the version of the page it has.
Extras ==
  {"none"} \cup (IF adapter = "submissions" THEN {"name", "ticker"}
                ELSE IF adapter = "public" THEN {"version"} ELSE {})

AdapterInputs == [question : Questions, extra : Extras]

\* Mutant: a key of the provider and the capability alone.
KeyOfCapability(input) == [question |-> "any"]

\* What is expected and the headers of a conditional request are no part
\* of the key.
Key(input) == [question |-> input.question]

-----------------------------------------------------------------------------
(* The terms guard.  A review may be recorded at any time, so each call    *)
(* meets any.                                                              *)

NoReview == [status |-> "none", basis |-> "none"]

\* A review that is pending refuses as one that is blocked does, and on
\* any basis.
ReviewRecords ==
  {NoReview} \cup {[status |-> "blocked", basis |-> "provider_terms_review"]}
  \cup [status : {"verified"}, basis : {"provider_terms_review", "operator_risk_acceptance"}]

\* commercial_application_allowed, automated_access_allowed and
\* transformed_output_allowed of the manifest: all true, or all unknown.
Permitted == adapter # "public"

\* No manifest has a hash of its terms, so a changed text is never seen.
MayAccess(mode, review) ==
  \/ mode = "test"
  \/ review.status = "verified" /\ (review.basis = "operator_risk_acceptance" \/ Permitted)

-----------------------------------------------------------------------------
(* What a source sends, and what an adapter makes of it.  The status is    *)
(* looked at by none of them: an error page in JSON is a page.             *)

SourceReplies == {"found", "nothing", "error", "unchanged", "garbled"}

Finding(what) == [class |-> "success", of |-> what]
SourceFailed == [class |-> "permanent_failure"]

\* github reads the fields it knows; none of them is needed.
GitHub(r) == IF r = "nothing" THEN Finding("found") ELSE Finding(r)
\* openalex reads the length of the results, and an error has none.
OpenAlex(r) == IF r = "error" THEN SourceFailed ELSE Finding(r)
\* These three take missing items for no items.
Crossref(r) == Finding(IF r = "error" THEN "nothing" ELSE r)
Federal(r) == Finding(IF r = "error" THEN "nothing" ELSE r)
Facts(r) == Finding(IF r = "error" THEN "nothing" ELSE r)
\* The name of the entity is read when one is expected.
Submissions(r, input) ==
  IF r = "error" /\ input.extra = "name" THEN SourceFailed ELSE Finding(r)
\* A page is a page whatever its status; the answer to a conditional
\* request may be that nothing changed, which is a page without content.
Public(r, input) == Finding(r)

Normalized(r, input) ==
  IF adapter # "public" /\ r \in {"garbled", "unchanged"} THEN SourceFailed
  ELSE CASE adapter = "public"      -> Public(r, input)
         [] adapter = "github"      -> GitHub(r)
         [] adapter = "openalex"    -> OpenAlex(r)
         [] adapter = "crossref"    -> Crossref(r)
         [] adapter = "federal"     -> Federal(r)
         [] adapter = "submissions" -> Submissions(r, input)
         [] adapter = "facts"       -> Facts(r)

\* Only a conditional request is told that nothing changed.
MaySend(r, input) == r = "unchanged" => input.extra = "version"

-----------------------------------------------------------------------------
(* The cache: a map, and its keys by last use.                             *)

EntryExpired(entry) == time >= entry.at + Ttl

\* Mutant: a key that is used again keeps its old place too.
WithoutNone(key) == recency

\* No key is there twice.
Without(key) ==
  IF \E i \in DOMAIN recency : recency[i] = key
  THEN LET i == CHOOSE i \in DOMAIN recency : recency[i] = key
       IN SubSeq(recency, 1, i - 1) \o SubSeq(recency, i + 1, Len(recency))
  ELSE recency

\* get drops an entry that has expired and moves one that has not to the end.
CacheGet(key) ==
  IF key \notin DOMAIN store THEN UNCHANGED <<store, recency>>
  ELSE IF EntryExpired(store[key])
  THEN store' = [k \in DOMAIN store \ {key} |-> store[k]] /\ recency' = Without(key)
  ELSE store' = [store EXCEPT ![key].used = time] /\ recency' = Append(Without(key), key)

\* set makes room for a new key by dropping the key used longest ago.
CacheSet(key, entry) ==
  LET full == Cardinality(DOMAIN store) >= MaxKept /\ key \notin DOMAIN store
      gone == IF full /\ recency # <<>> THEN {recency[1]} ELSE {}
      rest == [k \in (DOMAIN store \ gone) \cup {key} |-> IF k = key THEN entry ELSE store[k]]
  IN /\ store' = rest
     /\ recency' = Append(IF gone # {} THEN Tail(recency) ELSE Without(key), key)

-----------------------------------------------------------------------------
NoAsk == [question |-> "none", extra |-> "none"]
NoAnswer == [class |-> "none"]
Idle == [stage |-> "idle", input |-> NoAsk, answer |-> NoAnswer]

SourceInit ==
  /\ adapter \in Adapters
  /\ time = 0 /\ store = <<>> /\ recency = <<>>
  /\ asked = [c \in Askers |-> Idle]

Goes(c, stage, input, answer) ==
  asked' = [asked EXCEPT ![c] = [stage |-> stage, input |-> input, answer |-> answer]]

\* What a caller is told of an observation, and how old it is.
Told(seen, age) == [class |-> seen.class, of |-> seen.of, for |-> seen.for, age |-> age]

\* execute up to the fetch: the cache is asked first, and what it has is
\* given before the terms are looked at.
Ask(c) ==
  /\ asked[c].stage \in {"idle", "answered"}
  /\ \E input \in AdapterInputs, bypass \in BOOLEAN,
        allowed \in {MayAccess(mode, review) : mode \in {"test", "live"}, review \in ReviewRecords} :
       LET key  == Key(input)
           hit  == ~bypass /\ key \in DOMAIN store /\ ~EntryExpired(store[key])
       IN \/ \* A URL the network policy refuses; the other adapters check nothing.
             adapter = "public" /\ Goes(c, "answered", input, [class |-> "invalid_request"]) /\ UNCHANGED <<store, recency>>
          \/ /\ IF bypass THEN UNCHANGED <<store, recency>> ELSE CacheGet(key)
             /\ IF hit THEN Goes(c, "answered", input, Told(store[key].observation, time - store[key].at))
                ELSE IF ~allowed THEN Goes(c, "answered", input, [class |-> "policy_blocked"])
                ELSE Goes(c, "fetching", input, NoAnswer)
  /\ UNCHANGED <<adapter, time>>

\* The attempt of the loop that ends it.  What was found is kept whatever the caller's
\* policy is.
Fetch(c) ==
  /\ asked[c].stage = "fetching"
  /\ LET input == asked[c].input
         answers(answer) == Goes(c, "answered", input, answer)
     IN \/ \E r \in SourceReplies :
             /\ MaySend(r, input)
             /\ LET made == Normalized(r, input) IN
                IF made.class = "success"
                THEN LET seen == [class |-> "success", of |-> made.of, for |-> input]
                     IN CacheSet(Key(input), [observation |-> seen, at |-> time, used |-> time]) /\ answers(Told(seen, 0))
                ELSE answers(made) /\ UNCHANGED <<store, recency>>
        \/ \* An error that does not pass, an open circuit, or no attempt left.
           answers(SourceFailed) /\ UNCHANGED <<store, recency>>
  /\ UNCHANGED <<adapter, time>>

Pass == time < MaxTime /\ time' = time + 1 /\ UNCHANGED <<adapter, store, recency, asked>>

SourceNext == (\E c \in Askers : Ask(c) \/ Fetch(c)) \/ Pass

SourceSpec == SourceInit /\ [][SourceNext]_sourceVars

-----------------------------------------------------------------------------
SourcesTypeOK ==
  /\ adapter \in Adapters
  /\ DOMAIN store = {recency[i] : i \in DOMAIN recency} /\ Len(recency) = Cardinality(DOMAIN store)
  /\ Len(recency) <= MaxKept
  /\ \A i, j \in DOMAIN recency : i < j => store[recency[i]].used <= store[recency[j]].used

\* However many callers share an adapter, and however its cache ages and
\* overflows between them, whoever is told of a success is told what was
\* seen for the very question it asked, less than a day ago.  What else an
\* input holds was the same too, but for the two adapters whose keys leave
\* it out.  That nothing changed is told only of a conditional request, and
\* an error page passes for a finding of three adapters only.
AnswersTheQuestion ==
  \A c \in Askers : asked[c].answer.class = "success" =>
    LET told == asked[c].answer
    IN /\ told.for.question = asked[c].input.question /\ told.age < Ttl
       /\ told.for.extra = asked[c].input.extra \/ adapter \in {"submissions", "public"}
       /\ told.of = "unchanged" => told.for.extra = "version"
       /\ told.of = "error" => adapter \in {"github", "submissions", "public"}

=============================================================================
