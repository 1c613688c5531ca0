-------------------------- MODULE MCProviderAdapter -------------------------
(***************************************************************************)
(* Small instances of ProviderAdapter for TLC.                             *)
(***************************************************************************)
EXTENDS ProviderAdapter, TLC

\* Executions are alike; only runs of invariants use it.
Symmetric == Permutations(Requests)

=============================================================================
