------------------------------ MODULE Libraries ------------------------------
(***************************************************************************)
(* The components that have a state of their own and share none: the       *)
(* payments of a route and what a facilitator says of them, a fetch, an    *)
(* adapter's cache, one isolate's gates and cards, a registration, the     *)
(* repositories, the stores of artifacts, a mutation script.               *)
(***************************************************************************)
EXTENDS PaymentEvidence, FacilitatorEvidence, PublicFetch, SourceAdapters, EdgeWorker, PlanRegistry,
        RepositoryPair, ArtifactStores, MutationProofs

\* Each keeps to its own values.
LibraryTypesOK ==
  /\ EvidenceTypeOK
  /\ FacilitatorTypeOK
  /\ FetchTypeOK
  /\ SourcesTypeOK
  /\ WorkerTypeOK
  /\ RegistryTypeOK
  /\ StoresTypeOK
  /\ ProofsTypeOK

=============================================================================
