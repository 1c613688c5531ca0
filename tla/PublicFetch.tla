----------------------------- MODULE PublicFetch -----------------------------
(***************************************************************************)
(* One fetch of a public web page: the redirect loop of SecureHttpClient   *)
(* over one of two clients that make a single exchange (the raw socket     *)
(* client of the Worker, or the executor off Cloudflare that it calls),    *)
(* and the executor's own redirect loop for a caller that asks it directly.*)
(* Resolvers and servers are the environment: they answer anything, and    *)
(* never the same twice.                                                   *)
(***************************************************************************)
EXTENDS Naturals, Sequences, FiniteSets

CONSTANTS
  Urls,             \* [id, host, port, user]: host is "name", "public", "private" or "localhost",
                    \* port says whether its scheme and port are allowed, user whether it has userinfo
  MaxRedirects,     \* of the caller (config.maxRedirects)
  PolicyRedirects,  \* of the network policy
  MaxBytes,         \* what SecureHttpClient accepts
  HopBytes,         \* what the client of one exchange accepts
  MaxSize           \* bound: bytes of a page

ASSUME FetchAssumption ==
  MaxRedirects \in Nat /\ PolicyRedirects \in Nat \ {0} /\ MaxBytes \in Nat /\ HopBytes \in Nat /\ MaxSize \in Nat

VARIABLES
  via,      \* "socket", "executor" or "direct": who fetches, and by what
  stage,    \* what comes next
  url,      \* of the current hop
  chain,    \* the URLs asked so far
  answers,  \* what the resolver has said for this hop, by family
  dialled,  \* the connections made: [url, address]
  reply,    \* what the last server sends
  outcome   \* the page, or why there is none

fetchVars == <<via, stage, url, chain, answers, dialled, reply, outcome>>

-----------------------------------------------------------------------------
(* The network policy. *)

ValidateUrl(u) == u.port /\ u.host \notin {"localhost", "private"}

ValidateRedirectChain(urls) ==
  /\ Len(urls) <= PolicyRedirects
  /\ \A i, j \in DOMAIN urls : urls[i] = urls[j] => i = j
  /\ \A i \in DOMAIN urls : ValidateUrl(urls[i])

Literal(u) == u.host \in {"public", "private"}

\* One prohibited address among the answers refuses them all.
ResolveSafeAddress(found) ==
  IF found # <<>> /\ \A i \in DOMAIN found : found[i] = "public" THEN found[1] ELSE "none"

-----------------------------------------------------------------------------
(* What a server may send, and what arrives of it.  A page of size bytes   *)
(* is announced by its length, sent in chunks, or ended by the close of    *)
(* the connection; sent of them arrive before the server is silent or gone.*)
(* media says that its type is one of those asked for, packed that it is   *)
(* compressed in a way that cannot be undone within the limit.             *)

Silence == [status |-> "none"]
NoUrl == [id |-> 0]

Replies ==
  {Silence}
  \cup {[status |-> "redirect", location |-> u] : u \in Urls \cup {NoUrl}}
  \cup {[status |-> "interim"]}
  \cup [status : {"final"}, media : BOOLEAN, packed : BOOLEAN, framing : {"length", "chunked", "close"},
        size : 0..MaxSize, sent : 0..MaxSize]

Possible(r) == r.status = "final" => r.sent <= r.size /\ (r.framing = "close" => r.sent = r.size)

Failed(why) == [kind |-> "failed", why |-> why]
Interim == [kind |-> "interim"]
Received(bytes, framed, cut) == [kind |-> "received", bytes |-> bytes, framed |-> framed, cut |-> cut]

Lesser(a, b) == IF a <= b THEN a ELSE b

\* The socket client reads chunks to their end, but takes a body that
\* stops before its announced length for the whole.
SocketBody(r) ==
  IF r.framing = "chunked" /\ r.sent < r.size THEN Failed("PREMATURE_EOF")
  ELSE IF (r.framing = "length" /\ r.size > HopBytes) \/ r.sent > HopBytes THEN Failed("TOO_LARGE")
  ELSE Received(r.sent, FALSE, FALSE)

\* The executor stops at its bound, and does not know chunks: their frames
\* are bytes of the body.  It looks at the length first, so that a body of
\* a little more than the bound, which may come in one piece, is cut to the
\* bound and not said to be.
ExecutorBodies(r) ==
  LET raw  == IF r.framing = "chunked" THEN r.sent + 1 ELSE r.sent
      told == r.framing = "length" /\ raw >= r.size
  IN {Received(Lesser(raw, HopBytes), r.framing = "chunked", cut) :
        cut \in IF raw < HopBytes \/ (told /\ r.size <= HopBytes) THEN {FALSE}
                ELSE IF told THEN BOOLEAN ELSE {TRUE}}

Bodies(r) == IF via = "socket" THEN {SocketBody(r)} ELSE ExecutorBodies(r)

-----------------------------------------------------------------------------
FetchInit ==
  /\ via \in {"socket", "executor", "direct"}
  /\ url \in Urls
  /\ stage = "validate" /\ chain = <<>> /\ answers = <<>> /\ dialled = {}
  /\ reply = Silence /\ outcome = Failed("not yet")

EndFetch(result) == stage' = "done" /\ outcome' = result

\* The loop's next hop: SecureHttpClient has checked the URL before it
\* comes here and counts the hops; the executor checks the whole chain.
Hop ==
  /\ stage = "validate"
  /\ answers' = <<>>
  /\ LET limit == IF via = "direct" THEN PolicyRedirects ELSE MaxRedirects
         asked == Append(chain, url)
         refused == \/ ~ValidateUrl(url)
                    \/ via # "socket" /\ url.user
                    \/ via = "direct" /\ chain # <<>> /\ ~ValidateRedirectChain(asked)
     IN IF Len(chain) > limit THEN EndFetch(Failed("REDIRECTS")) /\ UNCHANGED chain
        ELSE IF refused THEN EndFetch(Failed("REFUSED")) /\ UNCHANGED chain
        ELSE /\ chain' = asked
             /\ stage' = IF Literal(url) THEN "dial" ELSE "resolve"
             /\ UNCHANGED outcome
  /\ UNCHANGED <<via, url, dialled, reply>>

\* One query of a family; a query that fails answers nothing.  The socket
\* client asks for both families, the executor asks its host once.
Resolve ==
  /\ stage = "resolve"
  /\ \E found \in {<<>>, <<"public">>, <<"private">>, <<"public", "private">>} : answers' = Append(answers, found)
  /\ stage' = IF Len(answers') = (IF via = "socket" THEN 2 ELSE 1) THEN "dial" ELSE "resolve"
  /\ UNCHANGED <<via, url, chain, dialled, reply, outcome>>

AllAnswers == IF Len(answers) = 2 THEN answers[1] \o answers[2] ELSE answers[1]

\* Mutant: the first answer is as good as any.
AddressUnchecked ==
  IF Literal(url) THEN url.host ELSE IF AllAnswers = <<>> THEN "none" ELSE AllAnswers[1]

\* Where to connect for the current URL.
Address == IF Literal(url) THEN url.host ELSE ResolveSafeAddress(AllAnswers)

\* The connection is made to the address that was checked, never to a name.
Dial ==
  /\ stage = "dial"
  /\ IF Address = "none" THEN EndFetch(Failed("DNS")) /\ UNCHANGED dialled
     ELSE /\ dialled' = dialled \cup {[url |-> url, address |-> Address]}
          /\ \/ stage' = "read" /\ UNCHANGED outcome
             \/ EndFetch(Failed("CONNECTION"))
  /\ UNCHANGED <<via, url, chain, answers, reply>>

\* A redirect is followed, by the client that owns the loop.
Follow(r) ==
  IF r.location = NoUrl THEN EndFetch(Failed("NO_LOCATION")) /\ UNCHANGED url
  ELSE IF via # "direct" /\ ~ValidateUrl(r.location) THEN EndFetch(Failed("REDIRECT_TARGET")) /\ UNCHANGED url
  ELSE stage' = "validate" /\ url' = r.location /\ UNCHANGED outcome

\* What SecureHttpClient makes of the last answer; the executor's caller
\* is given the body as it is.
AcceptPage(r, body) ==
  IF body.kind = "failed" THEN body
  ELSE IF via = "direct" THEN [kind |-> "page", bytes |-> body.bytes, framed |-> body.framed, truncated |-> body.cut]
  ELSE IF ~ValidateRedirectChain(chain) THEN Failed("CHAIN")
  ELSE IF ~r.media THEN Failed("MEDIA_TYPE")
  ELSE IF (r.framing = "length" /\ r.size > MaxBytes) \/ body.bytes > MaxBytes THEN Failed("TOO_LARGE")
  ELSE IF r.packed THEN Failed("DECOMPRESSION")
  ELSE [kind |-> "page", bytes |-> body.bytes, framed |-> body.framed, truncated |-> body.bytes >= MaxBytes]

Read ==
  /\ stage = "read"
  /\ \E r \in Replies :
       /\ Possible(r)
       /\ reply' = r
       /\ CASE r.status = "none"     -> UNCHANGED url /\ EndFetch(Failed("RESET"))
            [] r.status = "interim"  -> UNCHANGED url /\ EndFetch(IF via = "direct" THEN Interim ELSE Failed("STATUS"))
            [] r.status = "redirect" -> Follow(r)
            [] r.status = "final"    -> UNCHANGED url /\ \E body \in Bodies(r) : EndFetch(AcceptPage(r, body))
  /\ UNCHANGED <<via, chain, answers, dialled>>

\* The socket client does not look at the signal: only the executor and
\* the call to it give up.
TimeOut ==
  /\ stage # "done" /\ via # "socket"
  /\ EndFetch(Failed("TIMEOUT"))
  /\ UNCHANGED <<via, url, chain, answers, dialled, reply>>

FetchNext == Hop \/ Resolve \/ Dial \/ Read \/ TimeOut

FetchSpec == FetchInit /\ [][FetchNext]_fetchVars

-----------------------------------------------------------------------------
FetchTypeOK ==
  /\ stage \in {"validate", "resolve", "dial", "read", "done"}
  /\ url \in Urls /\ Len(chain) <= MaxRedirects + PolicyRedirects + 2
  /\ \A i \in DOMAIN chain : chain[i] \in Urls
  /\ outcome.kind \in {"failed", "interim", "page"}

\* Whatever resolvers and servers answer, a connection is made only for a
\* URL the policy allows, to an address that was itself checked and found
\* public, and one for every hop of the chain at most; a page comes from
\* the last URL of a chain that is within both limits and has no loop.
FetchesAsChecked ==
  /\ \A d \in dialled : ValidateUrl(d.url) /\ d.address = "public"
  /\ {d.url : d \in dialled} \subseteq {chain[i] : i \in DOMAIN chain}
  /\ outcome.kind = "page" =>
       /\ ValidateRedirectChain(chain) /\ (via # "direct" => Len(chain) <= MaxRedirects + 1)
       /\ url = chain[Len(chain)] /\ \E d \in dialled : d.url = url

\* A page that is not said to be truncated is the page, all of it, but for
\* three gaps of the code: a server that breaks off before the length it
\* announced; chunks that come by way of the executor; and a page just
\* over the bound that the executor is asked for directly.
PageIsWhole ==
  outcome.kind = "page" /\ ~outcome.truncated =>
    \/ outcome.bytes = reply.size /\ ~outcome.framed
    \/ reply.framing = "length" /\ reply.sent < reply.size
    \/ reply.framing = "chunked" /\ via # "socket"
    \/ reply.framing = "length" /\ reply.size > HopBytes /\ via = "direct"

\* What a fetch promises whoever asked for the page.
FetchedAsChecked == FetchesAsChecked /\ PageIsWhole

=============================================================================
