---------------------------- MODULE VerifierGraph ----------------------------
(***************************************************************************)
(* The order of the verification mesh: topologicalSort, a depth first      *)
(* search from the verifiers in the order of their ids, and computeWaves,  *)
(* which puts a verifier one wave after the last of its dependencies.      *)
(*                                                                         *)
(* A graph is a sequence of verifiers [id, deps], as runMesh is given it;  *)
(* ids are taken in the order of the sequence Alphabet.                    *)
(***************************************************************************)
EXTENDS Naturals, FiniteSets, SequencesExt

CONSTANT Alphabet   \* the ids there are, sorted

Ids(graph)     == {v.id : v \in ToSet(graph)}
Sorted(ids)    == SelectSeq(Alphabet, LAMBDA id : id \in ids)
DepsOf(graph, id) == UNION {v.deps : v \in {u \in ToSet(graph) : u.id = id}}

Throws == [order |-> <<>>, error |-> TRUE]

\* visit: dependencies first; one that is being visited is a cycle, thrown
\* to the caller.
RECURSIVE Visit(_, _, _)
Visit(graph, st, id) ==
  IF st.error \/ id \in st.visited THEN st
  ELSE IF id \in st.stack THEN [st EXCEPT !.error = TRUE]
  ELSE LET inner == FoldLeft(LAMBDA s, d : Visit(graph, s, d),
                             [st EXCEPT !.stack = @ \cup {id}], Sorted(DepsOf(graph, id)))
       IN [inner EXCEPT !.stack = @ \ {id}, !.visited = @ \cup {id}, !.order = Append(@, id)]

\* An id used twice and a dependency that is not there are errors too.
TopologicalSort(graph) ==
  LET start == [visited |-> {}, stack |-> {}, order |-> <<>>, error |-> FALSE]
      walk  == FoldLeft(LAMBDA s, id : Visit(graph, s, id), start, Sorted(Ids(graph)))
  IN IF \/ Cardinality(Ids(graph)) # Len(graph)
        \/ \E v \in ToSet(graph) : ~ v.deps \subseteq Ids(graph)
        \/ walk.error
     THEN Throws
     ELSE [order |-> walk.order, error |-> FALSE]

\* The wave of each id, given the order; a dependency without one counts as 0.
WaveOf(graph, order) ==
  FoldLeft(LAMBDA wave, id :
             LET deps == DepsOf(graph, id)
             IN [i \in DOMAIN wave \cup {id} |->
                   IF i # id THEN wave[i]
                   ELSE IF deps = {} THEN 0
                   ELSE LET after == {IF d \in DOMAIN wave THEN wave[d] + 1 ELSE 1 : d \in deps}
                        IN CHOOSE n \in after : \A k \in after : k <= n],
           <<>>, order)

\* computeWaves, as a sequence of sets; <<>> stands for the error thrown.
ComputeWaves(graph) ==
  LET sort == TopologicalSort(graph)
      wave == WaveOf(graph, sort.order)
      last == IF sort.order = <<>> THEN 0
              ELSE CHOOSE n \in {wave[i] : i \in DOMAIN wave} : \A i \in DOMAIN wave : wave[i] <= n
  IN IF sort.error THEN <<>>
     ELSE [n \in 1 .. last + 1 |-> {i \in DOMAIN wave : wave[i] = n - 1}]

-----------------------------------------------------------------------------
(* Properties. *)

\* Whom a verifier depends on, directly or not: the reference definition,
\* by sets rather than by search.
Ancestors(graph, id) ==
  LET step(S) == S \cup UNION {DepsOf(graph, d) : d \in S}
  IN FoldLeft(LAMBDA S, v : step(S), DepsOf(graph, id), graph)

\* computeWaves refuses exactly the graphs that cannot be ordered; the waves
\* of every other hold each verifier once, after everything it depends on and
\* right after one of its dependencies.
Scheduled(graph) ==
  LET waves    == ComputeWaves(graph)
      orderly  == /\ Cardinality(Ids(graph)) = Len(graph)
                  /\ \A v \in ToSet(graph) :
                       v.deps \subseteq Ids(graph) /\ v.id \notin Ancestors(graph, v.id)
      earlier(n) == UNION {waves[k] : k \in 1 .. n - 1}
  IN IF ~orderly THEN waves = <<>>
     ELSE /\ UNION ToSet(waves) = Ids(graph)
          /\ \A n \in DOMAIN waves, id \in Ids(graph) : id \in waves[n] =>
               /\ id \notin earlier(n)
               /\ Ancestors(graph, id) \subseteq earlier(n)
               /\ n > 1 => DepsOf(graph, id) \cap waves[n - 1] # {}

=============================================================================
