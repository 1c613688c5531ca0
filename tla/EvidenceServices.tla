--------------------------- MODULE EvidenceServices ---------------------------
(***************************************************************************)
(* What the four paid services make of their input and of what their       *)
(* sources answered: the draft document the verification mesh is given,    *)
(* and the result class its decision "pass" would mean.                    *)
(*                                                                         *)
(* A draft is claims, evidence ids and counts.  A claim names the evidence *)
(* it cites; what it says is left out.  An early return of a service is a  *)
(* draft with a class and nothing to verify.                               *)
(***************************************************************************)
EXTENDS Naturals, SequencesExt

Claim(id, cited) == [id |-> id, cited |-> cited]

Draft(claims, evidence, requested, populated, supported, class) ==
  [claims |-> claims, evidence |-> evidence, requested |-> requested,
   populated |-> populated, supported |-> supported, class |-> class]

Refused(class) == Draft({}, <<>>, 0, 0, 0, class)
EarlyClasses   == {"rejected", "dependency_unavailable", "permanent_failure"}

\* validateClaimEvidenceInvariants: what buildDraftDocument throws on.
Buildable(d) ==
  /\ \A i, j \in DOMAIN d.evidence : d.evidence[i] = d.evidence[j] => i = j
  /\ \A c \in d.claims : c.cited \subseteq ToSet(d.evidence)

-----------------------------------------------------------------------------
(* web_context_verified.                                                   *)

WebInputs == [mode : {"missing", "rendered", "direct"}, fetch : {"success", "failed"}, title : BOOLEAN]

\* A failed fetch, source_changed among them, leaves a document without
\* claims: nothing in it can be refuted.
WebContext(in) ==
  CASE in.mode = "missing"  -> Refused("rejected")
    [] in.mode = "rendered" -> Refused("dependency_unavailable")
    [] in.mode = "direct" /\ in.fetch = "success" ->
         Draft({Claim("text", {"page"})} \cup (IF in.title THEN {Claim("title", {"page"})} ELSE {}),
               <<"page">>, 1, 1, 1, "success")
    [] in.mode = "direct" /\ in.fetch # "success" ->
         Draft({}, <<>>, 1, 0, 0, "internal_verification_failed")

WebSourced(in) == in.mode = "direct" /\ in.fetch = "success"

-----------------------------------------------------------------------------
(* company_evidence_graph.                                                 *)

FieldGroups == {"identity", "sec_submissions", "recent_filings", "website_evidence",
                "regulatory_mentions", "repositories"}

\* What is known of the company and what the three sources would answer:
\* an observation or not, blocked by policy, or no such dependency.
CompanyWorlds ==
  [cik : BOOLEAN, urls : BOOLEAN, sec : {"filings", "no_filings", "blocked", "failed"},
   web : {"success", "failed"}, register : {"found", "absent", "blocked", "failed", "missing"}]

NotYet == [status |-> [g \in {} |-> "empty"], claims |-> {}, evidence |-> <<>>, covered |-> {}]

Status(st, groups, status) ==
  [st EXCEPT !.status = [g \in DOMAIN @ \cup groups |-> IF g \in groups THEN status ELSE @[g]]]
Cover(st, source)    == [st EXCEPT !.covered = @ \cup {source}]
Observe(st, ev, claims) ==
  [st EXCEPT !.evidence = Append(@, ev), !.claims = @ \cup {Claim(c, {ev}) : c \in claims}]

\* sec_submissions and recent_filings share one call; after it a group gets
\* the status of sec_submissions, whatever the filings were.
SecGroup(world, st, group) ==
  IF ~world.cik THEN Status(st, {group}, "unavailable")
  ELSE IF "sec" \in st.covered
  THEN Status(st, {group}, st.status["sec_submissions"])
  ELSE IF world.sec \in {"blocked", "failed"}
  THEN Cover(Status(st, {"sec_submissions", "recent_filings"},
                    IF world.sec = "blocked" THEN "unavailable" ELSE "empty"), "sec")
  ELSE LET called == Cover(Observe(Status(st, {"sec_submissions"}, "complete"), "sec", {"legal_name"}), "sec")
       IN Status(called, {"recent_filings"}, IF world.sec = "filings" THEN "complete" ELSE "empty")

\* A second website_evidence overwrites what the first one found.
WebGroup(world, st) ==
  IF "web" \in st.covered \/ ~world.urls THEN Status(st, {"website_evidence"}, "unavailable")
  ELSE IF world.web # "success" THEN Cover(Status(st, {"website_evidence"}, "empty"), "web")
  ELSE Cover(Observe(Status(st, {"website_evidence"}, "complete"), "web", {}), "web")

\* An empty search is a claim of its own: verified absence, with the search
\* as its evidence.
RegisterGroup(world, st) ==
  IF "register" \in st.covered THEN st
  ELSE IF world.register \in {"missing", "blocked"}
  THEN Cover(Status(st, {"regulatory_mentions"}, "unavailable"), "register")
  ELSE IF world.register = "failed" THEN Cover(Status(st, {"regulatory_mentions"}, "empty"), "register")
  ELSE Cover(Observe(Status(st, {"regulatory_mentions"}, "complete"), "register", {world.register}), "register")

Group(world, st, group) ==
  CASE group = "identity" -> Status(st, {group}, IF world.cik THEN "complete" ELSE "partial")
    [] group \in {"sec_submissions", "recent_filings"} -> SecGroup(world, st, group)
    [] group = "website_evidence" -> WebGroup(world, st)
    [] group = "regulatory_mentions" -> RegisterGroup(world, st)
    [] group = "repositories" -> Status(st, {group}, "unavailable")

\* An input without an identity signal is refused; groups is what was asked
\* for, in order and perhaps twice.
CompanyEvidence(signal, groups, world) ==
  LET end        == FoldLeft(LAMBDA st, g : Group(world, st, g), NotYet, groups)
      count(set) == Len(SelectSeq(groups, LAMBDA g : end.status[g] \in set))
      requested  == Len(groups)
      supported  == count({"complete"})
  IN IF ~signal THEN Refused("rejected")
     ELSE Draft(end.claims, end.evidence, requested, count({"complete", "partial"}), supported,
                IF supported = requested THEN "success" ELSE "partial")

\* What a group promises: that its source was asked and answered.
CompanySourced(groups, world) ==
  \A g \in ToSet(groups) :
    CASE g = "identity" -> world.cik
      [] g \in {"sec_submissions", "recent_filings"} -> world.cik /\ world.sec \in {"filings", "no_filings"}
      [] g = "website_evidence" -> world.urls /\ world.web = "success"
      [] g = "regulatory_mentions" -> world.register \in {"found", "absent"}
      [] g = "repositories" -> FALSE

-----------------------------------------------------------------------------
(* document_evidence_json.                                                 *)

\* The artifact, and what the worker answered of it: pages processed, pages
\* counted, whether a page has text, and its tables ("twins" have one hash).
DocumentInputs ==
  [reference : BOOLEAN, stored : BOOLEAN, worker : {"done", "failed"}, needsOcr : BOOLEAN,
   pages : 0 .. 2, counted : 0 .. 2, text : BOOLEAN, tables : {"none", "one", "twins"}]

PageId(n) == <<"page", n>>
PageCount == <<"page_count", 0>>

\* The tables are those of page 1.  page_count cites the first evidence there
\* is, which is none for a document without pages.
DocumentEvidence(in) ==
  LET table    == IF in.pages = 0 \/ in.tables = "none" THEN <<>>
                  ELSE IF in.tables = "one" THEN << <<"table", 1>> >>
                  ELSE << <<"table", 1>>, <<"table", 1>> >>
      evidence == IF in.pages = 0 THEN <<>>
                  ELSE <<PageId(1)>> \o table \o (IF in.pages = 2 THEN <<PageId(2)>> ELSE <<>>)
      texts    == IF in.text THEN {Claim(PageId(n), {PageId(n)}) : n \in 1 .. in.pages} ELSE {}
      count    == Claim(PageCount, IF evidence = <<>> THEN {} ELSE {evidence[1]})
  IN CASE ~in.reference -> Refused("dependency_unavailable")
       [] in.reference /\ ~in.stored -> Refused("rejected")
       [] in.reference /\ in.stored /\ in.worker = "failed" -> Refused("permanent_failure")
       [] in.reference /\ in.stored /\ in.worker = "done" /\ in.needsOcr -> Refused("rejected")
       [] OTHER -> Draft(texts \cup {Claim(t, {t}) : t \in ToSet(table)} \cup {count}, evidence,
                         in.counted, in.pages, in.pages,
                         IF in.pages < in.counted THEN "partial" ELSE "success")

DocumentSourced(in) == in.reference /\ in.stored /\ in.worker = "done" /\ in.pages = in.counted

-----------------------------------------------------------------------------
(* verify_agent_output.                                                    *)

\* The contract's claims and requirements, and how many of them hold.
AgentInputs == [complete : BOOLEAN, claims : 0 .. 1, claimsHold : 0 .. 1, reqs : 0 .. 1, reqsHold : 0 .. 1]

AgentVerification(in) ==
  IF ~in.complete THEN Refused("rejected")
  ELSE Draft({Claim(<<"claim", n>>, {"output"}) : n \in 1 .. in.claims}, <<"output">>,
             in.claims + in.reqs, in.claims + in.reqs, in.claimsHold + in.reqsHold,
             IF in.reqsHold = in.reqs /\ in.claimsHold = in.claims THEN "success" ELSE "partial")

AgentSourced(in) == in.complete /\ in.claimsHold = in.claims /\ in.reqsHold = in.reqs

-----------------------------------------------------------------------------
(* What a service can come to: its draft, and whether every source it was   *)
(* asked for has answered.                                                 *)

GroupLists == {<<a>> : a \in FieldGroups} \cup {<<a, b>> : a, b \in FieldGroups}
              \cup {<<"identity", "sec_submissions", "recent_filings", "website_evidence">>}

Outcome(d, ok) == [draft |-> d, sourced |-> ok]
ServiceOutcomes ==
  [web      |-> {Outcome(WebContext(in), WebSourced(in)) : in \in WebInputs},
   company  |-> {Outcome(CompanyEvidence(signal, groups, world), signal /\ CompanySourced(groups, world)) :
                   signal \in BOOLEAN, groups \in GroupLists, world \in CompanyWorlds},
   document |-> {Outcome(DocumentEvidence(in), DocumentSourced(in)) : in \in DocumentInputs},
   agent    |-> {Outcome(AgentVerification(in), AgentSourced(in)) :
                   in \in {i \in AgentInputs : i.claimsHold <= i.claims /\ i.reqsHold <= i.reqs}}]

=============================================================================
