---------------------------- MODULE AgentSurfaces ----------------------------
(***************************************************************************)
(* The two ways an agent calls a service: a message to the A2A server and  *)
(* a tool call to the MCP server.  Each is a chain of gates before the     *)
(* boundary that executes a service, and a wording of what the boundary    *)
(* answered.  The Worker passes no boundary, so both are then closed.      *)
(***************************************************************************)
EXTENDS Integers, Sequences, FiniteSets

\* Sizes by the bounds they are under: 1 the data part's, 2 the A2A
\* request's, 3 the MCP request's, 4 none.
MaxData    == 1
MaxRequest == 2
MaxMcp     == 3

Names    == {"company", "web", "document", "verify"}
Advertised == [name : Names, major : 1..2]
Tools      == [name : Names, major : {2}]
Skills     == Advertised \cup {[name |-> "other", major |-> 1]}

\* Arguments that match the service's schema, that do not, and that have a
\* forbidden key or are nested too deeply.
Arguments == {"fit", "fit too", "unfit", "hostile", "deep"}
Matches(input) == input \in {"fit", "fit too", "deep"}

\* What the client wants done, and how the request is dressed.
Calls == [skill : Skills, input : Arguments, size : 1..4]
Dress ==
  [host : BOOLEAN, origin : {"none", "allowed", "other"}, type : {"json", "text"}, json : BOOLEAN,
   method : {"send", "legacy", "other"}, parts : {"data", "text", "two", "both", "kind"},
   object : BOOLEAN, version : {"none", "v1", "v2"}, payment : BOOLEAN, unknown : BOOLEAN]
Plain ==
  [host |-> TRUE, origin |-> "none", type |-> "json", json |-> TRUE, method |-> "send", parts |-> "data",
   object |-> TRUE, version |-> "none", payment |-> FALSE, unknown |-> FALSE]

\* What a boundary makes of a service and an input: the result is theirs,
\* or it fails with a code, or it throws.
Codes == {"payment_required", "external_dependency_unavailable", "repository_error", "invalid_input", "quota_exceeded"}
Boundaries == {"closed", "fulfils", "throws"} \cup Codes
Execute(boundary, skill, input) ==
  CASE boundary = "fulfils" -> [outcome |-> "fulfilled", result |-> <<skill, input>>]
    [] boundary = "closed"  -> [outcome |-> "failed", code |-> "payment_required"]
    [] boundary = "throws"  -> [outcome |-> "thrown"]
    [] OTHER                -> [outcome |-> "failed", code |-> boundary]

\* An answer: the HTTP status, the state, the code, the result if there is
\* one, and the calls that reached the boundary.
Nothing == <<>>
Refused(status) == [status |-> status, state |-> "error", code |-> "protocol", result |-> Nothing, ran |-> {}]

-----------------------------------------------------------------------------
(* A2A.  *)

\* objectSafetyError: a forbidden key anywhere, or too deep.
ObjectSafety(input) == input \notin {"hostile", "deep"}

\* The checks on the raw request, before the SDK reads it.
RawRequest(call, dress) ==
  /\ ObjectSafety(call.input)
  /\ dress.method # "legacy"
  /\ dress.method = "send" => /\ dress.parts \notin {"kind", "both"}
                              /\ dress.parts = "data" => call.size <= MaxData

\* Mutant: the input is not looked at by the schema of its service.
ParseUnmatched(call, dress) ==
  IF dress.parts # "data" \/ ~dress.object \/ call.input = "hostile" \/ dress.unknown THEN "invalid_input"
  ELSE IF call.skill \notin Advertised THEN "unknown_skill"
  ELSE IF dress.version = "v2" THEN "invalid_input" ELSE "ok"

\* parseInvocation: why a message is refused, or "ok" if it is not.
Parse(call, dress) ==
  IF dress.parts # "data" \/ ~dress.object \/ call.input = "hostile" \/ dress.unknown THEN "invalid_input"
  ELSE IF call.skill \notin Advertised THEN "unknown_skill"
  ELSE IF dress.version = "v2" \/ ~Matches(call.input) THEN "invalid_input" ELSE "ok"

StateForFailure(code) ==
  CASE code = "payment_required" -> "input_required"
    [] code \in {"external_dependency_unavailable", "repository_error"} -> "failed"
    [] OTHER -> "rejected"

FailureTask(code, ran) ==
  [status |-> 200, state |-> StateForFailure(code), code |-> code, result |-> Nothing, ran |-> ran]
FulfilledTask(result, ran) ==
  [status |-> 200, state |-> "completed", code |-> "fulfilled", result |-> result, ran |-> ran]

\* The executor: a throw is a repository error, and `payment` goes nowhere.
Executor(call, dress, boundary) ==
  LET refusal == Parse(call, dress)
      did == Execute(boundary, call.skill, call.input)
      ran == {<<call.skill, call.input>>} IN
  IF refusal # "ok" THEN FailureTask(refusal, {})
  ELSE CASE did.outcome = "fulfilled" -> FulfilledTask(did.result, ran)
         [] did.outcome = "failed"    -> FailureTask(did.code, ran)
         [] did.outcome = "thrown"    -> FailureTask("repository_error", ran)

\* The whole request.  Another method finds no task: each request has a
\* store of its own.
A2a(call, dress, boundary) ==
  IF ~dress.host \/ dress.origin = "other" THEN Refused(403)
  ELSE IF dress.type # "json" THEN Refused(415)
  ELSE IF call.size > MaxRequest THEN Refused(413)
  ELSE IF ~dress.json \/ ~RawRequest(call, dress) THEN Refused(400)
  ELSE IF dress.method = "other" THEN Refused(200)
  ELSE Executor(call, dress, boundary)

-----------------------------------------------------------------------------
(* MCP.  *)

ErrorResult(code, ran) == [status |-> 200, state |-> "error", code |-> code, result |-> Nothing, ran |-> ran]

\* A tool's handler.  The SDK turns a throw into an error result.
Tool(call, boundary) ==
  LET did == Execute(boundary, call.skill, call.input)
      ran == {<<call.skill, call.input>>} IN
  CASE did.outcome = "fulfilled" -> [status |-> 200, state |-> "completed", code |-> "fulfilled", result |-> did.result, ran |-> ran]
    [] did.outcome = "failed"    -> ErrorResult(did.code, ran)
    [] did.outcome = "thrown"    -> ErrorResult("thrown", ran)

\* The SDK knows the tools and checks the input by the tool's schema.
Sdk(call, dress) == dress.json /\ dress.method = "send" /\ call.skill \in Tools /\ Matches(call.input)

\* The whole request: the size is looked at before the host.
Mcp(call, dress, boundary) ==
  IF call.size > MaxMcp THEN Refused(413)
  ELSE IF ~dress.host \/ dress.origin = "other" THEN Refused(403)
  ELSE IF (dress.json /\ call.input = "hostile") \/ ~Sdk(call, dress) THEN Refused(400)
  ELSE Tool(call, boundary)

-----------------------------------------------------------------------------
\* Nothing is delivered but what the boundary made of exactly the service
\* and the input that were asked for, and nothing that has a forbidden key
\* or does not match the schema reaches it.
Faithful(call, answer, boundary) ==
  /\ answer.result # Nothing => /\ answer.result = <<call.skill, call.input>> /\ answer.ran = {answer.result}
                                /\ boundary = "fulfils" /\ answer.state = "completed"
  /\ answer.state = "completed" => answer.result # Nothing
  /\ answer.ran # {} => /\ answer.ran = {<<call.skill, call.input>>} /\ Matches(call.input) /\ call.input # "hostile"
                        /\ call.skill \in Advertised

\* A closed boundary delivers nothing: it asks for payment.
NothingIsFree(answer) ==
  answer.ran # {} => answer.code = "payment_required" /\ answer.result = Nothing

\* Payment in an A2A message changes nothing: what it asks to be paid for
\* still has to be bought at the route of the service.
PaymentIsNotRead(call, dress, boundary) ==
  A2a(call, [dress EXCEPT !.payment = ~@], boundary) = A2a(call, dress, boundary)

\* The same call gets the same result from both, but for a service of the
\* first version, which has no tool, the version v2, which only an MCP tool
\* stands for, and inputs that are too large or too deep for A2A alone.
SurfacesAlike(call, dress, boundary) ==
  LET a == A2a(call, dress, boundary)
      m == Mcp(call, dress, boundary) IN
  /\ a.result # Nothing /\ call.skill.major = 2 => m.result = a.result
  /\ m.result # Nothing /\ dress.type = "json" /\ dress.parts = "data" /\ dress.object /\ ~dress.unknown =>
       \/ a.result = m.result
       \/ call.size > MaxData \/ call.input = "deep" \/ dress.version = "v2"

\* A call is served as it should be by both surfaces, whatever its dress and
\* whatever the boundary does.
AgentsAreServed(call, dress, boundary) ==
  /\ Faithful(call, A2a(call, dress, boundary), boundary) /\ Faithful(call, Mcp(call, dress, boundary), boundary)
  /\ boundary = "closed" => NothingIsFree(A2a(call, dress, boundary)) /\ NothingIsFree(Mcp(call, dress, boundary))
  /\ PaymentIsNotRead(call, dress, boundary)
  /\ SurfacesAlike(call, dress, boundary)

=============================================================================
