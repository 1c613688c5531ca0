-------------------------- MODULE SemanticValidators --------------------------
(***************************************************************************)
(* The semantic validators of a contract, which exist twice: zod schemas   *)
(* and functions in validators.ts, pydantic models and functions in        *)
(* validators.py, which says it mirrors the first.  Each is a verdict over *)
(* a document, and the question is when the two verdicts differ.           *)
(***************************************************************************)
EXTENDS Integers, FiniteSets

-----------------------------------------------------------------------------
(* Quotes, envelopes, errors and metadata.  Fields that both languages     *)
(* treat alike are one field, named by its kind: "words" is a text of any  *)
(* characters, "note" one that may be left out, "measure" a number that    *)
(* may.  Of the classes of value, "digits" fits but for digits that are    *)
(* not ASCII, "items" is the right container of something else, "empty" an *)
(* object without a field, "extra" an object with a field too many, "text" *)
(* a number or a boolean told as another type, "foreign" a currency other  *)
(* than USD, "long" a text that fits in code points and not in the units   *)
(* of UTF-16, "half" a text with half a pair of them.                      *)

MayBeLeft == {"fit", "missing"}

\* What the zod schemas take of a kind.  What an object has too much is
\* stripped.
ZodTakes(kind) ==
  CASE kind \in {"optional", "listed", "price", "maximum", "measure"} -> MayBeLeft
    [] kind \in {"uri", "note"} -> MayBeLeft \cup {"half"}
    [] kind = "words"           -> {"fit", "half"}
    [] kind = "protocols"       -> {"fit", "extra"}
    [] kind = "input"           -> {"fit", "empty", "items", "null", "missing"}
    [] OTHER                    -> {"fit"}

\* What the pydantic models take of it: None for whatever may be left out,
\* any list or dict where no model is named, and seven protocols.
ModelTakes(kind) ==
  CASE kind = "optional"              -> MayBeLeft \cup {"null"}
    [] kind = "measure"               -> MayBeLeft \cup {"null", "text"}
    [] kind = "note"                  -> MayBeLeft \cup {"null", "long"}
    [] kind = "words"                 -> {"fit", "long"}
    [] kind \in {"listed", "uri"}     -> MayBeLeft \cup {"null", "items"}
    [] kind \in {"price", "maximum"}  -> MayBeLeft \cup {"null", "items", "empty"}
    [] kind = "base"                  -> {"fit", "items", "empty"}
    [] kind \in {"list", "protocols"} -> {"fit", "items"}
    [] kind = "limits"                -> MayBeLeft \cup {"items"}
    [] kind = "number"                -> {"fit", "text"}
    [] kind \in {"time", "amount"}    -> {"fit", "digits"}
    [] kind = "currency"              -> MayBeLeft \cup {"foreign"}
    [] kind = "input"                 -> {"fit", "empty"}
    [] OTHER                          -> {"fit"}

\* The kinds of field of each model.  The price of an envelope is a money
\* model of its own, and its input an object, or "items".  A time that is
\* compared with no other is any in form.
Fields ==
  [envelope |-> {"pattern", "number", "amount", "currency", "listed", "input", "optional", "measure"},
   request  |-> {"pattern", "choice", "price", "optional", "measure"},
   quote    |-> {"pattern", "choice", "number", "scheme", "price", "maximum", "issued", "expires", "limits"},
   error    |-> {"pattern", "choice", "number", "time", "optional", "listed", "words", "note", "measure"},
   metadata |-> {"pattern", "choice", "number", "words", "list", "uri", "base", "price", "protocols", "limits", "time"}]

\* {} counts as a price in TypeScript, and as none in Python.
Truthy(language, class) == class \in {"fit", "items"} \/ (class = "empty" /\ language = "ts")

\* validateQuoteExactUpto: the price of the scheme, and not the other one.
ExactUpto(language, scheme, price, maximum) ==
  LET has == Truthy(language, price)
      may == Truthy(language, maximum)
  IN /\ scheme = "exact" => has /\ ~may
     /\ scheme = "upto" => may /\ ~has

\* isTimestampAfter, and validateTimestampOrdering with it.  A Date has
\* milliseconds, a datetime microseconds; two ticks are a millisecond.  A
\* time is "rolled" that is in form and that a Date alone makes one of: a day
\* its month lacks, the year 0.  datetime reads what is a time as it stands.
Ordered(language, issued, expires) ==
  IF language = "ts"
  THEN /\ {issued.form, expires.form} \subseteq {"fit", "rolled"}
       /\ expires.at \div 2 > issued.at \div 2
  ELSE issued.form = "fit" /\ expires.form = "fit" /\ expires.at > issued.at

\* The kinds of a quote that stand for more than a class.
Special == {"scheme", "issued", "expires"}

\* A quote is valid in TypeScript when its schema, the exact or upto check
\* and the timestamp check take it; the model of Python has the three.
ValidModel(language, model, d) ==
  /\ \A kind \in Fields[model] \ Special :
       d[kind] \in IF language = "ts" THEN ZodTakes(kind) ELSE ModelTakes(kind)
  /\ model = "quote" => /\ ExactUpto(language, d.scheme, d.price, d.maximum)
                        /\ Ordered(language, d.issued, d.expires)

-----------------------------------------------------------------------------
(* A service's output document.  Its own id and namespace are "fit", those *)
(* of another service "other"; "newline" fits but for a newline at its     *)
(* end, which re.match lets pass.  Parts may be left out, but have the     *)
(* types of ServiceOutputDocument, which are the JSON schema's to check    *)
(* (validators.ts:371).                                                    *)

Matches(language, class) == class = "fit" \/ (language = "py" /\ class = "newline")

\* validateServiceExtension and validateWrongExtension.
Extended(language, namespaces) ==
  /\ "fit" \in namespaces /\ "other" \notin namespaces
  /\ \A ns \in namespaces : Matches(language, ns)

\* A comparison with a count that is not there is false in TypeScript; in
\* Python the count is 0.
More(language, counts, a, b) ==
  LET n(f) == IF f \in DOMAIN counts THEN counts[f] ELSE 0
  IN n(a) > n(b) /\ (language = "ts" => {a, b} \subseteq DOMAIN counts)

\* validateCompleteness.
Complete(language, counts) ==
  /\ ~More(language, counts, "supported", "populated")
  /\ ~More(language, counts, "populated", "requested")
  /\ \A f \in DOMAIN counts : counts[f] >= 0
  /\ "score" \in DOMAIN counts => counts["score"] <= 1

\* validateServiceOutputDocument.  A section that is not there is an error
\* when TypeScript reads a field of it, and a section without fields in
\* Python; extensions may be left out in both, and lack the required one.
ValidOutput(language, d) ==
  /\ language = "ts" => {"completeness", "verification"} \subseteq d.sections
  /\ "contract" \in d.sections
  /\ d.id = "fit"
  /\ Matches(language, d.version) /\ Matches(language, d.hash)
  /\ Ordered(language, d.issued, d.expires)
  /\ Extended(language, d.namespaces)
  /\ "completeness" \in d.sections => Complete(language, d.counts)
  /\ "verification" \in d.sections => ~(d.decision = "pass" /\ d.failures > 0)

-----------------------------------------------------------------------------
(* Properties.                                                             *)

Later(d) == d.expires.at > d.issued.at

Rolled(d) == "rolled" \in {d.issued.form, d.expires.form}

\* What TypeScript takes Python takes too, but for an input that is not an
\* object, a protocol too many, half a pair of units and a rolled time; what
\* only Python takes has a value of one of the odd classes, a field that has
\* a default, or lives less than a millisecond.
MirrorsModel(model, d) ==
  /\ ValidModel("ts", model, d) =>
       \/ ValidModel("py", model, d)
       \/ "input" \in Fields[model] /\ d["input"] \notin {"fit", "empty"}
       \/ \E kind \in Fields[model] \ Special : d[kind] \in {"extra", "half"}
       \/ model = "quote" /\ Rolled(d)
  /\ ValidModel("py", model, d) /\ ~ValidModel("ts", model, d) =>
       \/ \E kind \in Fields[model] \ Special :
            d[kind] \in {"null", "items", "empty", "digits", "text", "foreign", "long"}
       \/ \E kind \in Fields[model] \cap {"limits", "currency"} : d[kind] = "missing"
       \/ model = "quote" /\ Later(d) /\ d.expires.at \div 2 = d.issued.at \div 2

\* And so for an output, whatever it leaves out: one that has all its
\* sections and counts, no newline, no rolled time and a life of a
\* millisecond is valid in both or in neither.  Valid in either, it supports
\* no more than was requested, passed only without failures, and carries its
\* own extension alone.
MirrorsOutput(d) ==
  LET whole == /\ d.sections = {"contract", "completeness", "verification"}
               /\ DOMAIN d.counts = {"requested", "populated", "supported", "score"}
      plain == /\ "newline" \notin {d.version, d.hash} \cup d.namespaces
               /\ ~Rolled(d)
               /\ Later(d) => d.expires.at \div 2 > d.issued.at \div 2
  IN /\ whole /\ plain => (ValidOutput("ts", d) <=> ValidOutput("py", d))
     /\ \A language \in {"ts", "py"} : whole /\ ValidOutput(language, d) =>
          /\ d.counts["supported"] <= d.counts["requested"]
          /\ d.decision = "pass" => d.failures = 0
          /\ "fit" \in d.namespaces /\ "other" \notin d.namespaces /\ Later(d)

=============================================================================
