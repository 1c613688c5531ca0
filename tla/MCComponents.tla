---------------------------- MODULE MCComponents ----------------------------
(***************************************************************************)
(* Components on a small instance: the waves are those computeWaves makes  *)
(* of the nine verifiers, the outcomes those of the four services.         *)
(***************************************************************************)
EXTENDS Components, TLC

Graph == INSTANCE VerifierGraph WITH Alphabet <- VerifierIds

\* The verifiers of a mode, as runMesh hands them to computeWaves.
GraphOf(mode) ==
  LET ids == SelectSeq(VerifierIds, LAMBDA v : v \in VerifiersOf(mode))
  IN [i \in DOMAIN ids |-> [id |-> ids[i], deps |-> DependsOn[ids[i]]]]

MeshWaves == [mode \in Modes |-> Graph!ComputeWaves(GraphOf(mode))]

\* Callers, workers and inputs are alike, and no property tells them apart.
Symmetric == Permutations(Callers) \cup Permutations(Workers) \cup Permutations(Inputs)

=============================================================================
