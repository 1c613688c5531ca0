--------------------------- MODULE MutationProofs ---------------------------
(***************************************************************************)
(* The mutation proofs (scripts/test-*-caught.mts): a script puts a known  *)
(* defect into a source file, runs the tests that should notice, puts the  *)
(* file back, and passes if every defect was noticed.  It writes into the  *)
(* working tree a developer may be editing, and it may be killed.          *)
(***************************************************************************)
EXTENDS Naturals, FiniteSets

CONSTANT MaxScriptRuns   \* bound: runs of a script in one tree

ASSUME RunsAssumption == MaxScriptRuns \in Nat

VARIABLES
  script,   \* the script of this tree
  run,      \* where its run is
  tree,     \* the files: the defects in them, and whether somebody else edited them
  kept,     \* what the script will put back
  begun,    \* history: the tree its run began with
  works,    \* the tests can be run at all
  blind,    \* defects that the tests do not notice
  caught, skipped,   \* defects, as the script counts them
  lost,     \* history: an edit was overwritten
  runs

proofVars == <<script, run, tree, kept, begun, works, blind, caught, skipped, lost, runs>>

Defects == 1..2
Clean   == [defects |-> {}, edited |-> FALSE]

-----------------------------------------------------------------------------
(* The scripts.  They have one to nineteen defects, here one or two.       *)
(*   skip     a defect whose place is not found is counted against the     *)
(*            script, ignored, or an error                                 *)
(*   notices  what counts as noticed: any failure of the tests, a failure  *)
(*            that says why, or the answer of a worker that was started    *)
(*   recheck  when the tests are run on the restored files                 *)
(*   once     the file is read once, for all defects                       *)
(*   refuses  a file that is not as the script left it is not restored     *)
(*   tidy     only a tree without changes is touched                       *)
(*   stops    at the first defect that is not noticed                      *)

Common == [skip |-> "counted", notices |-> "any", recheck |-> "end", once |-> FALSE,
           refuses |-> FALSE, tidy |-> FALSE, stops |-> FALSE, defects |-> Defects]

PrematureEof   == [Common EXCEPT !.refuses = TRUE]
ReadDiagnostics == [Common EXCEPT !.refuses = TRUE]
TermsReview    == Common
McpCoherence   == Common
TermsGuardTristate == [Common EXCEPT !.recheck = "never", !.once = TRUE]
Discovery      == [Common EXCEPT !.skip = "ignored"]
Readiness      == [Common EXCEPT !.skip = "ignored"]
WebContextV2   == [Common EXCEPT !.skip = "ignored"]
ExecutorDiagnostics == [Common EXCEPT !.skip = "ignored"]
DomainMetadata ==
  [Common EXCEPT !.skip = "error", !.notices = "reason", !.recheck = "each", !.stops = TRUE]
FixtureReintroduction ==
  [Common EXCEPT !.skip = "error", !.notices = "reason", !.recheck = "never", !.stops = TRUE]
X402Blocker ==
  [Common EXCEPT !.skip = "error", !.notices = "worker", !.recheck = "each", !.tidy = TRUE, !.defects = {1}]
NeverminedDenial == X402Blocker
OldVerifyPath == X402Blocker

Scripts == {PrematureEof, ReadDiagnostics, TermsReview, McpCoherence, TermsGuardTristate, Discovery,
            Readiness, WebContextV2, ExecutorDiagnostics, DomainMetadata, FixtureReintroduction,
            X402Blocker, NeverminedDenial, OldVerifyPath}

-----------------------------------------------------------------------------
AtRest == [at |-> "idle", defect |-> 0, told |-> "none"]
At(s, d) == [at |-> s, defect |-> d, told |-> "none"]
Tell(word) == [at |-> "idle", defect |-> 0, told |-> word]

\* The tests pass on a tree with no defect that they notice.
TestsPass(t) == works /\ t.defects \subseteq blind

\* The defects are taken in turn; then the verdict.
After(d) == IF d + 1 \in script.defects THEN At("mutate", d + 1) ELSE At("verdict", 0)

\* A script that wants a tidy tree asks git first.
Begin ==
  /\ run.at = "idle"
  /\ runs < MaxScriptRuns
  /\ runs' = runs + 1
  /\ works' \in BOOLEAN
  /\ run' = IF script.tidy /\ tree # Clean THEN Tell("fail") ELSE At("mutate", 1)
  /\ kept' = tree /\ begun' = tree
  /\ caught' = {} /\ skipped' = {} /\ lost' = FALSE
  /\ UNCHANGED <<script, tree, blind>>

\* What was read is what will be put back, the read and the write being one.
Original == IF script.once THEN kept ELSE tree

\* The place of a defect that is there is not found.
Skip ==
  /\ run.at = "mutate"
  /\ run.defect \in Original.defects
  /\ skipped' = skipped \cup {run.defect}
  /\ run' = IF script.skip = "error" THEN Tell("fail") ELSE After(run.defect)
  /\ UNCHANGED <<script, tree, kept, begun, works, blind, caught, lost, runs>>

\* The defect is written.  (The sixth defect of ReadDiagnostics leaves its place
\* where it was: made again instead of skipped, it gives the same tree.)
Mutate ==
  /\ run.at = "mutate"
  /\ run.defect \notin Original.defects
  /\ kept' = Original
  /\ tree' = [Original EXCEPT !.defects = @ \cup {run.defect}]
  /\ lost' = (lost \/ (tree.edited /\ ~ Original.edited))
  /\ run' = At("test", run.defect)
  /\ UNCHANGED <<script, begun, works, blind, caught, skipped, runs>>

\* A worker that does not start is an error of the script.
Noticed ==
  CASE script.notices = "any"    -> ~ TestsPass(tree)
    [] script.notices = "reason" -> works /\ run.defect \notin blind
    [] script.notices = "worker" -> works /\ ~ TestsPass(tree)

RunTests ==
  /\ run.at = "test"
  /\ caught' = caught \cup {d \in {run.defect} : Noticed}
  /\ run' = At("restore", run.defect)
  /\ UNCHANGED <<script, tree, kept, begun, works, blind, skipped, lost, runs>>

\* finally: two of the scripts will not overwrite what they did not write.
Refuse ==
  /\ run.at = "restore"
  /\ script.refuses
  /\ tree # [kept EXCEPT !.defects = @ \cup {run.defect}]
  /\ run' = Tell("fail")
  /\ UNCHANGED <<script, tree, kept, begun, works, blind, caught, skipped, lost, runs>>

\* Mutant: only what was noticed is put back.
RestoreCaught ==
  /\ run.at = "restore"
  /\ script.refuses => tree = [kept EXCEPT !.defects = @ \cup {run.defect}]
  /\ tree' = IF run.defect \in caught THEN kept ELSE tree
  /\ lost' = (lost \/ (tree.edited /\ ~ kept.edited))
  /\ run' = CASE script.stops /\ run.defect \notin caught -> Tell("fail")
              [] script.recheck = "each" /\ ~ TestsPass(kept) -> Tell("fail")
              [] OTHER -> After(run.defect)
  /\ UNCHANGED <<script, kept, begun, works, blind, caught, skipped, runs>>

\* The others write what they read, whatever is there.
Restore ==
  /\ run.at = "restore"
  /\ script.refuses => tree = [kept EXCEPT !.defects = @ \cup {run.defect}]
  /\ tree' = kept
  /\ lost' = (lost \/ (tree.edited /\ ~ kept.edited))
  /\ run' = CASE script.stops /\ run.defect \notin caught -> Tell("fail")
              [] script.recheck = "each" /\ ~ TestsPass(kept) -> Tell("fail")
              [] OTHER -> After(run.defect)
  /\ UNCHANGED <<script, kept, begun, works, blind, caught, skipped, runs>>

\* A skipped defect counts as if it had been caught, or not.
Verdict ==
  /\ run.at = "verdict"
  /\ LET missed == script.defects \ (caught \cup (IF script.skip = "ignored" THEN skipped ELSE {}))
         green  == script.recheck = "end" => TestsPass(tree)
     IN run' = Tell(IF missed = {} /\ green THEN "pass" ELSE "fail")
  /\ UNCHANGED <<script, tree, kept, begun, works, blind, caught, skipped, lost, runs>>

\* SIGINT and SIGKILL end the script without its finally.
Kill ==
  /\ run.at # "idle"
  /\ run' = Tell("killed")
  /\ UNCHANGED <<script, tree, kept, begun, works, blind, caught, skipped, lost, runs>>

\* Somebody edits the file the script is working on.
Edit ==
  /\ ~ tree.edited
  /\ tree' = [tree EXCEPT !.edited = TRUE]
  /\ UNCHANGED <<script, run, kept, begun, works, blind, caught, skipped, lost, runs>>

ProofInit ==
  /\ script \in Scripts
  /\ run = AtRest
  /\ tree = Clean /\ kept = Clean /\ begun = Clean
  /\ works = TRUE
  /\ blind \in SUBSET Defects
  /\ caught = {} /\ skipped = {} /\ lost = FALSE /\ runs = 0

ProofNext ==
  Begin \/ Skip \/ Mutate \/ RunTests \/ Refuse \/ Restore \/ Verdict \/ Kill \/ Edit

ProofSpec == ProofInit /\ [][ProofNext]_proofVars

-----------------------------------------------------------------------------
\* The scripts whose verdict can be relied on: a defect that was never made
\* counts against them, and tests that do not run cannot pass for a proof.
Thorough == script.skip # "ignored" /\ (script.notices # "any" \/ script.recheck # "never")

\* A thorough script passes only if its tests run and notice each of the
\* defects, in a tree without any: also after a run that was killed with a
\* defect in the tree.
PassIsProof ==
  run.told = "pass" /\ Thorough =>
    works /\ blind \cap script.defects = {} /\ tree.defects = {}

\* However it ends, unless it is killed, a script leaves no defect behind
\* that it did not find; one that refuses to overwrite an edit does, and
\* only the others overwrite one.
TreeIsRestored ==
  /\ run.told \in {"pass", "fail"} => tree.defects = begun.defects \/ (script.refuses /\ tree.edited)
  /\ lost => ~ script.refuses

\* What a script that may stop anywhere owes the tree and its reader.
ProofsProve == PassIsProof /\ TreeIsRestored

ProofsTypeOK ==
  /\ script \in Scripts
  /\ run \in [at : {"idle", "mutate", "test", "restore", "verdict"}, defect : 0..2,
              told : {"none", "pass", "fail", "killed"}]
  /\ {tree, kept, begun} \subseteq [defects : SUBSET Defects, edited : BOOLEAN]
  /\ works \in BOOLEAN /\ lost \in BOOLEAN
  /\ blind \subseteq Defects /\ caught \subseteq Defects /\ skipped \subseteq Defects
  /\ runs \in 0..MaxScriptRuns

=============================================================================
