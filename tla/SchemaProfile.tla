---------------------------- MODULE SchemaProfile ----------------------------
(***************************************************************************)
(* The gate before a verification is sold (schema-profile-1.ts): a schema  *)
(* of the buyer's is walked once, and what it may cost to apply it is      *)
(* settled there: which keywords it has, how large it is, and that no      *)
(* reference leads back to where it came from.                             *)
(*                                                                         *)
(* A schema is the tree of its subschemas.  A path has a step for each     *)
(* keyword and name that leads to one: "p" and "q" are applied with the    *)
(* schema they are in, "d" and "odd" are definitions, and the name "odd"   *)
(* is one that encodeURIComponent changes; "default" is an annotation that *)
(* happens to look like a schema.                                          *)
(***************************************************************************)
EXTENDS Integers, Sequences, FiniteSets, SequencesExt

CONSTANTS MaxDepth, MaxNodes, MaxRefs

Steps   == {"p", "d", "odd", "default"}
Applied == {"p"}

\* No reference.
None == <<"none">>

\* nodes is closed under prefixes; ref has a node, or the path of none, for
\* each; bad are those with a keyword or a value the profile does not know.
Nodes(schema) == DOMAIN schema.ref

Under(path, other) == IsPrefix(other, path)

-----------------------------------------------------------------------------
(* The walk.  *)

\* Annotations are passed over, with all that is in them.
Walked(schema) == {n \in Nodes(schema) : "default" \notin Range(n)}

\* The walk names a node by encoding each of its steps.
Encoded(path) == [i \in DOMAIN path |-> IF path[i] = "odd" THEN "encoded" ELSE path[i]]

\* Every keyword is known, and the bounds are kept.
Walk(schema) ==
  LET walked == Walked(schema) IN
  /\ walked \cap schema.bad = {}
  /\ \A n \in walked : Len(n) <= MaxDepth
  /\ Cardinality(walked) <= MaxNodes
  /\ Cardinality({n \in walked : schema.ref[n] # None}) <= MaxRefs

\* The references the walk has met, by the name of their place.
Refs(schema) ==
  {[from |-> Encoded(n), to |-> schema.ref[n]] : n \in {n \in Walked(schema) : schema.ref[n] # None}}

\* A pointer is followed through whatever is there, walked or not.
Resolves(schema, target) == target \in Nodes(schema)

-----------------------------------------------------------------------------
(* The graph of references.  *)

\* The innermost target a place is in, or the root.
VertexFor(place, vertices) ==
  CHOOSE v \in vertices : Under(place, v) /\ \A w \in vertices : Under(place, w) => Len(w) <= Len(v)

Edges(refs) ==
  LET vertices == {<<>>} \cup {r.to : r \in refs} IN {<<VertexFor(r.from, vertices), r.to>> : r \in refs}

\* Some vertices each lead to another of them.
HasCycle(edges) ==
  \E S \in (SUBSET {e[1] : e \in edges}) \ {{}} : \A v \in S : \E e \in edges : e[1] = v /\ e[2] \in S

\* checkSchemaProfile1.
Accepted(schema) ==
  /\ Walk(schema)
  /\ \A r \in Refs(schema) : Resolves(schema, r.to)
  /\ ~HasCycle(Edges(Refs(schema)))

-----------------------------------------------------------------------------
(* What an interpreter does with the schema: it applies what is applied    *)
(* with a node, and what the node refers to.                               *)

AppliedFrom(schema, n) ==
  {m \in Nodes(schema) : m # <<>> /\ Front(m) = n /\ Last(m) \in Applied}
  \cup {m \in Nodes(schema) : m = schema.ref[n]}

\* All that is applied for the root, in as many steps as there are nodes.
Used(schema) ==
  LET used[k \in Nat] == IF k = 0 THEN {<<>>} ELSE used[k - 1] \cup UNION {AppliedFrom(schema, n) : n \in used[k - 1]}
  IN used[Cardinality(Nodes(schema))]

Recursive(schema) ==
  HasCycle(UNION {{<<n, m>> : m \in AppliedFrom(schema, n)} : n \in Used(schema)})

\* What the walk does not see: a reference into an annotation; a reference
\* in a definition whose name is encoded; a target inside another target,
\* which the graph takes for a place apart.
IntoAnnotation(schema) == \E r \in Refs(schema) : "default" \in Range(r.to)
InEncoded(schema)      == \E r \in Refs(schema) : "encoded" \in Range(r.from)
NestedTargets(schema)  ==
  \E r, q \in Refs(schema) : r.to # <<>> /\ r.to # q.to /\ Under(q.to, r.to)

-----------------------------------------------------------------------------
\* An accepted schema can be applied: only keywords the gate has seen are
\* met, every reference leads somewhere, and none leads back, but for what
\* the walk does not see.  It does not refuse for a cycle unless one place
\* of the schema contains or refers its way back to itself.
ProfileIsSound(schema) ==
  /\ Accepted(schema) => /\ \A n \in Used(schema) : n \in schema.bad => IntoAnnotation(schema)
                         /\ \A n \in Used(schema) : schema.ref[n] = None \/ schema.ref[n] \in Used(schema)
                                                    \/ IntoAnnotation(schema)
                         /\ Recursive(schema) => \/ IntoAnnotation(schema) \/ InEncoded(schema) \/ NestedTargets(schema)
  /\ HasCycle(Edges(Refs(schema))) =>
       HasCycle({<<n, m>> \in Nodes(schema) \X Nodes(schema) : m # n /\ (Under(m, n) \/ m = schema.ref[n])}
                \cup {<<n, n>> : n \in {n \in Nodes(schema) : schema.ref[n] = n}})

=============================================================================
