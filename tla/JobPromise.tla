----------------------------- MODULE JobPromise -----------------------------
(***************************************************************************)
(* What job acquisition and dispatch promise for one idempotency key,      *)
(* however many requests carry it and wherever they die: the key belongs   *)
(* to the input that first claimed it, its job is sent to the queue at     *)
(* most once, and only a job that was sent is ever finished.               *)
(***************************************************************************)
EXTENDS Naturals

CONSTANTS Inputs, NoInput

VARIABLES
  owner,     \* the input the key's job was created for
  sent,      \* how often its message was given to the queue
  finished   \* its attempt was completed

promise == <<owner, sent, finished>>

Init == owner = NoInput /\ sent = 0 /\ finished = FALSE

Claim ==
  /\ owner = NoInput
  /\ owner' \in Inputs
  /\ UNCHANGED <<sent, finished>>

Send ==
  /\ owner # NoInput
  /\ sent = 0
  /\ sent' = 1
  /\ UNCHANGED <<owner, finished>>

Finish ==
  /\ sent = 1
  /\ finished' = TRUE
  /\ UNCHANGED <<owner, sent>>

Next == Claim \/ Send \/ Finish

Spec == Init /\ [][Next]_promise

=============================================================================
