----------------------------- MODULE SourceDrift -----------------------------
(***************************************************************************)
(* The drift check of a provider's answers: inferSchema makes a shape of   *)
(* what was received, compareSchemas lists how it differs from the shape   *)
(* that is expected, classifyDrift says whether an adapter may go on.  A   *)
(* pure function of the three, checked over small documents.               *)
(***************************************************************************)
EXTENDS Naturals, Sequences, FiniteSets

CONSTANT MaxDepth   \* of inferSchema: what is deeper is not looked at

\* A document is [kind], a list [kind, items] or an object [kind, fields],
\* its fields a function of their names.  Of strings, "time" looks like a
\* timestamp, "word" like an identifier, "text" like neither.
Strings == {"text", "word", "time"}

\* Names the code knows: of identifiers and of wrappers.
IdentifierNames == {"id", "cik"}
Wrappers    == {"data", "results"}

TypeOf(d) == IF d.kind \in Strings THEN "string" ELSE d.kind

\* The format of a value under its name; "none" is the name of the root and
\* of the items of a list.
FormatOf(d, name) ==
  IF d.kind = "time" THEN "timestamp"
  ELSE IF d.kind = "word" /\ name \in IdentifierNames THEN "identifier"
  ELSE IF name = "next_cursor" THEN "pagination-cursor"
  ELSE "none"

Plain(type, format) ==
  [type |-> type, format |-> format, open |-> FALSE, props |-> <<>>, required |-> {},
   items |-> <<>>, max |-> 0, deep |-> 0]

\* inferSchema.  The first of a list stands for all of them, and every name
\* that was seen is required.
RECURSIVE Infer(_, _, _)
Infer(d, name, depth) ==
  LET plain == Plain(TypeOf(d), FormatOf(d, name))
  IN CASE d.kind = "list" ->
            [plain EXCEPT !.max = Len(d.items),
                          !.items = IF d.items = <<>> THEN <<Plain("unknown", "none")>>
                                    ELSE <<Infer(d.items[1], "none", depth + 1)>>]
       [] d.kind = "object" /\ depth >= MaxDepth -> [plain EXCEPT !.deep = MaxDepth]
       [] d.kind = "object" /\ depth < MaxDepth ->
            [plain EXCEPT !.open = TRUE, !.required = DOMAIN d.fields,
                          !.props = [n \in DOMAIN d.fields |-> Infer(d.fields[n], n, depth + 1)]]
       [] OTHER -> plain

-----------------------------------------------------------------------------
Change(type, severity) == [type |-> type, severity |-> severity]
When(condition, type, severity) == IF condition THEN {Change(type, severity)} ELSE {}

\* One unknown name that is known for a wrapper, or no name in common.  An
\* empty object has none in common with any, itself included.
WrapperChanges(e, o) ==
  LET wanted  == DOMAIN e.props
      seen    == DOMAIN o.props
      wrapped == Cardinality(seen) = 1 /\ seen \subseteq Wrappers /\ wanted \cap seen = {}
  IN IF wrapped /\ Cardinality(wanted) > 1 THEN {Change("unexpected_wrapper", "unsafe")}
     ELSE When(wanted \cap seen = {}, "unexpected_wrapper", "quarantine")

FieldPresence(e, o, policy) ==
  LET missing == DOMAIN e.props \ DOMAIN o.props
  IN When(DOMAIN o.props \ DOMAIN e.props # {}, "optional_field_added", "safe")
     \cup When(missing # {} /\ (policy.all \/ missing \cap e.required # {}), "required_field_missing", "unsafe")

\* The first field of pages, in the order the names have in every document.
Page(names) ==
  IF "next_cursor" \in names THEN "next_cursor" ELSE IF "offset" \in names THEN "offset" ELSE "none"

RootPagination(e, o) ==
  LET before == Page(DOMAIN e.props)
      after  == Page(DOMAIN o.props)
  IN When(before # "none" /\ before # after, "pagination_shape_changed", "unsafe")
     \cup When(before = "none" /\ after # "none", "pagination_shape_changed", "safe")

\* Only these two are told apart; a cursor may become anything else.
FormatChanges(e, o) ==
  LET told == {"identifier", "timestamp"}
  IN When(e.format # o.format /\ {e.format, o.format} \cap told # {}, "format_changed", "unsafe")

ItemCount(e, o, policy) ==
  LET limit == IF policy.items = 0 THEN e.max ELSE policy.items
  IN When(e.type = "list" /\ (o.max > limit \/ o.max > 2 * e.max), "result_item_shape_changed", "unsafe")

Nesting(e, o, policy) ==
  LET limit == IF policy.depth # 0 THEN policy.depth ELSE IF e.deep # 0 THEN e.deep ELSE 64
  IN When(o.deep > limit, "excessive_nesting", "quarantine")

RECURSIVE Compare(_, _, _, _)
\* compareSchemas: a change of type ends the comparison of that place.
Compare(e, o, root, policy) ==
  IF e.type # o.type
  THEN IF {e.type, o.type} = {"list", "object"} THEN {Change("array_vs_object_changed", "quarantine")}
       ELSE {Change("field_type_changed", "unsafe")}
  ELSE (IF e.open /\ o.open
        THEN WrapperChanges(e, o) \cup FieldPresence(e, o, policy)
             \cup UNION {Compare(e.props[n], o.props[n], FALSE, policy) : n \in DOMAIN e.props \cap DOMAIN o.props}
             \cup (IF root THEN RootPagination(e, o) ELSE {})
        ELSE When(e.open, "removed_wrapper", "unsafe"))
       \cup (IF e.type = "list" THEN Compare(e.items[1], o.items[1], FALSE, policy) ELSE {})
       \cup FormatChanges(e, o) \cup Nesting(e, o, policy) \cup ItemCount(e, o, policy)

\* classifyDrift.  No change at all is no reason to go on either.
Classify(changes, policy) ==
  IF \E c \in changes : c.severity = "quarantine" THEN "quarantined"
  ELSE IF /\ policy.additions /\ changes # {}
          /\ \A c \in changes :
               c.severity = "safe" /\ c.type \in {"optional_field_added", "pagination_shape_changed"}
  THEN "continue" ELSE "source_changed"

\* detectDrift: safe_to_continue.
SafeToContinue(expected, d, policy) ==
  Classify(Compare(expected, Infer(d, "none", 0), TRUE, policy), policy) = "continue"

-----------------------------------------------------------------------------
(* The reference: what a document must be for an adapter that relies on    *)
(* the expected shape, said of the document and not of its shape.          *)

RECURSIVE Conforms(_, _, _, _)
Conforms(e, d, name, policy) ==
  /\ TypeOf(d) = e.type
  /\ FormatOf(d, name) = e.format \/ {FormatOf(d, name), e.format} = {"none", "pagination-cursor"}
  /\ d.kind = "object" /\ e.open =>
       /\ \A n \in DOMAIN e.props : n \in DOMAIN d.fields => Conforms(e.props[n], d.fields[n], n, policy)
       /\ (IF policy.all THEN DOMAIN e.props ELSE e.required) \subseteq DOMAIN d.fields
  /\ d.kind = "list" =>
       /\ Len(d.items) <= (IF policy.items = 0 THEN e.max ELSE policy.items)
       /\ IF d.items = <<>> THEN e.items[1].type = "unknown"
          ELSE Conforms(e.items[1], d.items[1], "none", policy)

\* Whatever a source sends in place of what it used to send, an adapter is
\* told to go on only with a document that still has every field it relies
\* on, each of its type and format, at any depth.  Of a list that is said of
\* the first only.
GoesOnWithTheSame(expected, d, policy) ==
  SafeToContinue(expected, d, policy) => policy.additions /\ Conforms(expected, d, "none", policy)

=============================================================================
