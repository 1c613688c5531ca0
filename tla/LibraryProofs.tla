---------------------------- MODULE LibraryProofs ----------------------------
(***************************************************************************)
(* What a mutation script, an artifact store, an adapter's cache, the      *)
(* evidence of a facilitator and the two of a repository keep, for any     *)
(* number of runs, ids, hashes, callers, questions and answers; that every *)
(* component of Libraries keeps to its types; and that the validators of a *)
(* contract in its two languages agree on any document.                    *)
(***************************************************************************)
EXTENDS Libraries, PaymentEvidenceProofs, SurfaceProofs, WellFoundedInduction

-----------------------------------------------------------------------------
(* The mutation scripts.                                                   *)

\* The tree a run will put back has the defects it began with; while no
\* defect of its own is in the tree, so has the tree, and while one is, the
\* tree has that one more, and any edit it had when it was read.
TreeAsBegun ==
  /\ kept.defects = begun.defects
  /\ run.at \in {"mutate", "verdict"} => tree.defects = begun.defects
  /\ run.at \in {"test", "restore"} =>
       /\ run.defect \notin begun.defects
       /\ tree.defects = begun.defects \cup {run.defect}
       /\ kept.edited => tree.edited
  /\ run.at \in {"mutate", "test", "restore"} => run.defect \in script.defects
  /\ script.tidy /\ run.at # "idle" => begun.defects = {}

\* What is counted as caught was not there before, and the tests told of it
\* in the way the script asks for.
CaughtIsNoticed ==
  \A d \in caught :
    /\ d \notin begun.defects
    /\ script.notices # "reason" => ~(works /\ begun.defects \cup {d} \subseteq blind)
    /\ script.notices = "reason" => d \notin blind
    /\ script.notices # "any" => works

ScriptSafe == ProofsTypeOK /\ TreeAsBegun /\ CaughtIsNoticed /\ ProofsProve

Trees == [defects : SUBSET Defects, edited : BOOLEAN]
Places == [at : {"idle", "mutate", "test", "restore", "verdict"}, defect : 0..2,
           told : {"none", "pass", "fail", "killed"}]

\* What the fourteen scripts that write into the tree have in common.
Ordinary(s) ==
  /\ s.skip \in {"counted", "ignored", "error"} /\ s.notices \in {"any", "reason", "worker"}
  /\ s.notices # "worker" => s.defects = Defects
  /\ s.notices = "worker" => s.defects = {1} /\ s.tidy
  /\ s.notices = "any" => s.recheck # "each"
  /\ s.recheck \in {"end", "each", "never"}
  /\ s.once => ~ s.refuses

LEMMA ScriptsAre == \A s \in Scripts : Ordinary(s)
<1>1. Ordinary(PrematureEof) /\ Ordinary(ReadDiagnostics) /\ Ordinary(TermsReview) /\ Ordinary(McpCoherence)
  BY DEF Ordinary, PrematureEof, ReadDiagnostics, TermsReview, McpCoherence, Common
<1>2. Ordinary(TermsGuardTristate) /\ Ordinary(Discovery) /\ Ordinary(Readiness) /\ Ordinary(WebContextV2)
  BY DEF Ordinary, TermsGuardTristate, Discovery, Readiness, WebContextV2, Common
<1>3. Ordinary(ExecutorDiagnostics) /\ Ordinary(DomainMetadata) /\ Ordinary(FixtureReintroduction)
  BY DEF Ordinary, ExecutorDiagnostics, DomainMetadata, FixtureReintroduction, Common
<1>4. Ordinary(X402Blocker)
  BY DEF Ordinary, X402Blocker, Common
<1>5. Ordinary(NeverminedDenial) /\ Ordinary(OldVerifyPath)
  BY <1>4 DEF NeverminedDenial, OldVerifyPath
<1> QED
  BY <1>1, <1>2, <1>3, <1>4, <1>5 DEF Scripts

\* Where a run goes.
LEMMA PlacesAre ==
  /\ AtRest \in Places
  /\ \A w \in {"none", "pass", "fail", "killed"} : Tell(w) \in Places /\ Tell(w).told = w /\ Tell(w).at = "idle"
  /\ \A s \in {"mutate", "test", "restore", "verdict"} : \A d \in 0..2 :
       At(s, d) \in Places /\ At(s, d).at = s /\ At(s, d).defect = d /\ At(s, d).told = "none"
BY DEF AtRest, Tell, At, Places

\* After a defect comes the next one of the script, or the verdict.
LEMMA AfterGoes ==
  ASSUME script \in Scripts, NEW d \in Defects
  PROVE  /\ After(d) \in Places /\ After(d).told = "none"
         /\ After(d).at \in {"mutate", "verdict"}
         /\ After(d).at = "mutate" => After(d).defect \in script.defects
<1>1. script.defects \subseteq Defects
  BY ScriptsAre DEF Ordinary, Defects
<1>2. CASE d + 1 \in script.defects
  <2>1. d + 1 \in 0..2
    BY <1>1, <1>2 DEF Defects
  <2> QED
    BY <1>2, <2>1, PlacesAre DEF After
<1>3. CASE d + 1 \notin script.defects
  BY <1>3, PlacesAre DEF After
<1> QED
  BY <1>2, <1>3

\* The initial states.
LEMMA ScriptStarts == ProofInit => ScriptSafe
<1> SUFFICES ASSUME ProofInit PROVE ScriptSafe
  OBVIOUS
<1>1. Clean \in Trees /\ Clean.defects = {}
  BY DEF Clean, Trees
<1>2. AtRest \in Places /\ AtRest.at = "idle" /\ AtRest.told = "none"
  BY DEF AtRest, Places
<1>3. ProofsTypeOK
  <2>1. 0 \in 0..MaxScriptRuns
    BY RunsAssumption
  <2>2. script \in Scripts /\ run \in Places /\ {tree, kept, begun} \subseteq Trees
    BY <1>1, <1>2 DEF ProofInit
  <2> QED
    BY <2>1, <2>2 DEF ProofInit, ProofsTypeOK, Trees, Places
<1>4. TreeAsBegun /\ CaughtIsNoticed /\ ProofsProve
  BY <1>1, <1>2 DEF ProofInit, TreeAsBegun, CaughtIsNoticed, ProofsProve, PassIsProof, TreeIsRestored
<1> QED
  BY <1>3, <1>4 DEF ScriptSafe

\* A run begins with the tree as it is.
LEMMA BeginStep == ScriptSafe /\ Begin => ScriptSafe'
<1> SUFFICES ASSUME ScriptSafe, Begin PROVE ScriptSafe'
  OBVIOUS
<1>1. /\ kept' = tree /\ begun' = tree /\ tree' = tree /\ caught' = {} /\ skipped' = {} /\ lost' = FALSE
      /\ script' = script /\ blind' = blind /\ works' \in BOOLEAN /\ runs' = runs + 1 /\ runs < MaxScriptRuns
      /\ run' = IF script.tidy /\ tree # Clean THEN Tell("fail") ELSE At("mutate", 1)
  BY DEF Begin
<1>2. /\ run' \in Places /\ run'.told \in {"none", "fail"} /\ run'.at \in {"idle", "mutate"}
      /\ run'.at = "mutate" => run'.defect = 1 /\ (script.tidy => tree = Clean)
  BY <1>1, PlacesAre
<1>3. 1 \in script.defects
  BY ScriptsAre DEF Ordinary, ScriptSafe, ProofsTypeOK, Defects
<1>4. ProofsTypeOK'
  <2>1. runs' \in 0..MaxScriptRuns
    BY <1>1, RunsAssumption DEF ScriptSafe, ProofsTypeOK
  <2> QED
    BY <1>1, <1>2, <2>1 DEF ScriptSafe, ProofsTypeOK, Places
<1>5. Clean.defects = {}
  BY DEF Clean
<1>6. TreeAsBegun' /\ CaughtIsNoticed'
  BY <1>1, <1>2, <1>3, <1>5 DEF TreeAsBegun, CaughtIsNoticed
<1>7. ProofsProve'
  BY <1>1, <1>2 DEF ProofsProve, PassIsProof, TreeIsRestored
<1> QED
  BY <1>4, <1>6, <1>7 DEF ScriptSafe

\* What a run reads for its next defect has the defects it began with.
LEMMA OriginalAsBegun ==
  ASSUME ScriptSafe, run.at = "mutate"
  PROVE  /\ Original \in Trees /\ Original.defects = begun.defects
         /\ run.defect \in Defects /\ (~ script.once => Original = tree)
BY ScriptsAre DEF Ordinary, ScriptSafe, ProofsTypeOK, TreeAsBegun, Original, Trees, Defects

\* A defect that is there is skipped.
LEMMA SkipStep == ScriptSafe /\ Skip => ScriptSafe'
<1> SUFFICES ASSUME ScriptSafe, Skip PROVE ScriptSafe'
  OBVIOUS
<1>1. /\ UNCHANGED <<script, tree, kept, begun, works, blind, caught, lost, runs>>
      /\ skipped' = skipped \cup {run.defect} /\ run.at = "mutate"
      /\ run' = IF script.skip = "error" THEN Tell("fail") ELSE After(run.defect)
  BY DEF Skip
<1>2. run.defect \in Defects /\ script \in Scripts
  BY <1>1, OriginalAsBegun DEF ScriptSafe, ProofsTypeOK
<1>3. /\ run' \in Places /\ run'.told \in {"none", "fail"} /\ run'.at \in {"idle", "mutate", "verdict"}
      /\ run'.at = "mutate" => run'.defect \in script.defects
  BY <1>1, <1>2, AfterGoes, PlacesAre
<1>4. ProofsTypeOK'
  BY <1>1, <1>2, <1>3 DEF ScriptSafe, ProofsTypeOK, Places
<1>5. TreeAsBegun' /\ CaughtIsNoticed'
  BY <1>1, <1>3 DEF ScriptSafe, TreeAsBegun, CaughtIsNoticed
<1>6. ProofsProve'
  BY <1>1, <1>3 DEF ScriptSafe, TreeAsBegun, ProofsProve, PassIsProof, TreeIsRestored
<1> QED
  BY <1>4, <1>5, <1>6 DEF ScriptSafe

\* A defect is made in the tree that was read.
LEMMA MutateStep == ScriptSafe /\ Mutate => ScriptSafe'
<1> SUFFICES ASSUME ScriptSafe, Mutate PROVE ScriptSafe'
  OBVIOUS
<1>1. /\ UNCHANGED <<script, begun, works, blind, caught, skipped, runs>> /\ run.at = "mutate"
      /\ run.defect \notin Original.defects
      /\ kept' = Original /\ tree' = [Original EXCEPT !.defects = @ \cup {run.defect}]
      /\ lost' = (lost \/ (tree.edited /\ ~ Original.edited)) /\ run' = At("test", run.defect)
  BY DEF Mutate
<1>2. /\ Original \in Trees /\ Original.defects = begun.defects
      /\ run.defect \in Defects /\ (~ script.once => Original = tree)
  BY <1>1, OriginalAsBegun
<1>3. run.defect \in 0..2
  BY <1>2 DEF Defects
<1>4. run' \in Places /\ run'.at = "test" /\ run'.defect = run.defect /\ run'.told = "none"
  BY <1>1, <1>3, PlacesAre
<1>5. tree' \in Trees /\ tree'.defects = begun.defects \cup {run.defect} /\ tree'.edited = Original.edited
  BY <1>1, <1>2 DEF Trees
<1>6. ProofsTypeOK'
  BY <1>1, <1>2, <1>4, <1>5 DEF ScriptSafe, ProofsTypeOK, Places, Trees
<1>7. TreeAsBegun' /\ CaughtIsNoticed'
  BY <1>1, <1>2, <1>4, <1>5 DEF ScriptSafe, TreeAsBegun, CaughtIsNoticed
<1>8. ProofsProve'
  <2>1. lost' => ~ script.refuses
    BY <1>1, <1>2, ScriptsAre DEF Ordinary, ScriptSafe, ProofsTypeOK, ProofsProve, TreeIsRestored
  <2> QED
    BY <1>1, <1>4, <2>1 DEF ProofsProve, PassIsProof, TreeIsRestored
<1> QED
  BY <1>6, <1>7, <1>8 DEF ScriptSafe

\* The tests tell of the defect, or they do not.
LEMMA RunTestsStep == ScriptSafe /\ RunTests => ScriptSafe'
<1> SUFFICES ASSUME ScriptSafe, RunTests PROVE ScriptSafe'
  OBVIOUS
<1>1. /\ UNCHANGED <<script, tree, kept, begun, works, blind, skipped, lost, runs>> /\ run.at = "test"
      /\ caught' = caught \cup {d \in {run.defect} : Noticed} /\ run' = At("restore", run.defect)
  BY DEF RunTests
<1>2. run.defect \in 0..2 /\ run.defect \in Defects /\ script \in Scripts
  BY <1>1, ScriptsAre DEF Ordinary, ScriptSafe, ProofsTypeOK, TreeAsBegun, Defects
<1>3. run' \in Places /\ run'.at = "restore" /\ run'.defect = run.defect /\ run'.told = "none"
  BY <1>1, <1>2, PlacesAre
<1>4. ProofsTypeOK'
  BY <1>1, <1>2, <1>3 DEF ScriptSafe, ProofsTypeOK, Places
<1>5. Noticed => /\ run.defect \notin begun.defects
                 /\ script.notices # "reason" => ~(works /\ begun.defects \cup {run.defect} \subseteq blind)
                 /\ script.notices = "reason" => run.defect \notin blind
                 /\ script.notices # "any" => works
  <2>1. script.notices \in {"any", "reason", "worker"}
    BY <1>2, ScriptsAre DEF Ordinary
  <2>2. run.defect \notin begun.defects /\ tree.defects = begun.defects \cup {run.defect}
    BY <1>1 DEF ScriptSafe, TreeAsBegun
  <2> QED
    BY <2>1, <2>2 DEF Noticed, TestsPass
<1>6. CaughtIsNoticed'
  <2>1. ASSUME NEW d \in caught' PROVE d \in caught \/ (d = run.defect /\ Noticed)
    BY <1>1, <2>1
  <2> QED
    BY <1>1, <1>5, <2>1 DEF ScriptSafe, CaughtIsNoticed
<1>7. TreeAsBegun'
  BY <1>1, <1>3 DEF ScriptSafe, TreeAsBegun
<1>8. ProofsProve'
  BY <1>1, <1>3 DEF ScriptSafe, ProofsProve, PassIsProof, TreeIsRestored
<1> QED
  BY <1>4, <1>6, <1>7, <1>8 DEF ScriptSafe

\* A file that somebody edited is not overwritten by a script that refuses.
LEMMA RefuseStep == ScriptSafe /\ Refuse => ScriptSafe'
<1> SUFFICES ASSUME ScriptSafe, Refuse PROVE ScriptSafe'
  OBVIOUS
<1>1. /\ UNCHANGED <<script, tree, kept, begun, works, blind, caught, skipped, lost, runs>> /\ run.at = "restore"
      /\ script.refuses /\ tree # [kept EXCEPT !.defects = @ \cup {run.defect}] /\ run' = Tell("fail")
  BY DEF Refuse
<1>2. run' \in Places /\ run'.at = "idle" /\ run'.told = "fail"
  BY <1>1, PlacesAre
<1>3. tree.edited
  <2>1. tree \in Trees /\ kept \in Trees /\ tree.defects = kept.defects \cup {run.defect}
    BY <1>1 DEF ScriptSafe, ProofsTypeOK, TreeAsBegun, Trees
  <2>2. tree.edited # kept.edited
    BY <1>1, <2>1 DEF Trees
  <2>3. kept.edited => tree.edited
    BY <1>1 DEF ScriptSafe, TreeAsBegun
  <2> QED
    BY <2>1, <2>2, <2>3 DEF Trees
<1>4. ProofsTypeOK'
  BY <1>1, <1>2 DEF ScriptSafe, ProofsTypeOK, Places
<1>5. TreeAsBegun' /\ CaughtIsNoticed' /\ ProofsProve'
  BY <1>1, <1>2, <1>3
     DEF ScriptSafe, TreeAsBegun, CaughtIsNoticed, ProofsProve, PassIsProof, TreeIsRestored
<1> QED
  BY <1>4, <1>5 DEF ScriptSafe

\* What was read is put back.
LEMMA RestoreStep == ScriptSafe /\ Restore => ScriptSafe'
<1> SUFFICES ASSUME ScriptSafe, Restore PROVE ScriptSafe'
  OBVIOUS
<1>1. /\ UNCHANGED <<script, kept, begun, works, blind, caught, skipped, runs>> /\ run.at = "restore"
      /\ script.refuses => tree = [kept EXCEPT !.defects = @ \cup {run.defect}]
      /\ tree' = kept /\ lost' = (lost \/ (tree.edited /\ ~ kept.edited))
      /\ run' = Tell("fail") \/ run' = After(run.defect)
  BY DEF Restore
<1>2. run.defect \in Defects /\ script \in Scripts
  BY <1>1, ScriptsAre DEF Ordinary, ScriptSafe, ProofsTypeOK, TreeAsBegun, Defects
<1>3. /\ run' \in Places /\ run'.told \in {"none", "fail"} /\ run'.at \in {"idle", "mutate", "verdict"}
      /\ run'.at = "mutate" => run'.defect \in script.defects
  BY <1>1, <1>2, AfterGoes, PlacesAre
<1>4. lost' => ~ script.refuses
  BY <1>1 DEF ScriptSafe, ProofsTypeOK, ProofsProve, TreeIsRestored
<1>5. ProofsTypeOK'
  BY <1>1, <1>3 DEF ScriptSafe, ProofsTypeOK, Places
<1>6. TreeAsBegun' /\ CaughtIsNoticed'
  BY <1>1, <1>3 DEF ScriptSafe, TreeAsBegun, CaughtIsNoticed
<1>7. ProofsProve'
  BY <1>1, <1>3, <1>4 DEF ScriptSafe, TreeAsBegun, ProofsProve, PassIsProof, TreeIsRestored
<1> QED
  BY <1>5, <1>6, <1>7 DEF ScriptSafe

\* A thorough script that passes has seen its tests notice every defect.
LEMMA VerdictStep == ScriptSafe /\ Verdict => ScriptSafe'
<1> SUFFICES ASSUME ScriptSafe, Verdict PROVE ScriptSafe'
  OBVIOUS
<1> DEFINE missed == script.defects \ (caught \cup (IF script.skip = "ignored" THEN skipped ELSE {}))
<1>1. /\ UNCHANGED <<script, tree, kept, begun, works, blind, caught, skipped, lost, runs>> /\ run.at = "verdict"
      /\ \/ run' = Tell("fail")
         \/ run' = Tell("pass") /\ missed = {} /\ (script.recheck = "end" => TestsPass(tree))
  BY DEF Verdict
<1>2. run' \in Places /\ run'.at = "idle" /\ run'.told \in {"pass", "fail"}
  BY <1>1, PlacesAre
<1>3. ProofsTypeOK'
  BY <1>1, <1>2 DEF ScriptSafe, ProofsTypeOK, Places
<1>4. TreeAsBegun' /\ CaughtIsNoticed' /\ TreeIsRestored'
  BY <1>1, <1>2 DEF ScriptSafe, TreeAsBegun, CaughtIsNoticed, ProofsProve, TreeIsRestored
<1>5. ASSUME run'.told = "pass", Thorough
      PROVE  works /\ blind \cap script.defects = {} /\ tree.defects = {}
  <2>1. missed = {} /\ (script.recheck = "end" => TestsPass(tree))
    BY <1>1, <1>5, PlacesAre
  <2>2. script.defects \subseteq caught
    BY <1>5, <2>1 DEF Thorough
  <2>3. tree.defects = begun.defects /\ begun.defects \subseteq Defects /\ script \in Scripts
    BY <1>1 DEF ScriptSafe, TreeAsBegun, ProofsTypeOK
  <2>4. \A d \in script.defects :
          /\ d \notin begun.defects
          /\ script.notices # "reason" => ~(works /\ begun.defects \cup {d} \subseteq blind)
          /\ script.notices = "reason" => d \notin blind
          /\ script.notices # "any" => works
    BY <2>2 DEF ScriptSafe, CaughtIsNoticed
  <2>5. script.defects # {} /\ (script.notices # "worker" => script.defects = Defects)
    BY <2>3, ScriptsAre DEF Ordinary, Defects
  <2>6. begun.defects = {}
    <3>1. CASE script.notices = "worker"
      BY <1>1, <2>3, <3>1, ScriptsAre DEF Ordinary, ScriptSafe, TreeAsBegun
    <3>2. CASE script.notices # "worker"
      BY <2>3, <2>4, <2>5, <3>2
    <3> QED
      BY <3>1, <3>2
  <2>7. works
    <3>1. CASE script.notices = "any"
      <4>1. script.recheck = "end"
        BY <1>5, <2>3, <3>1, ScriptsAre DEF Ordinary, Thorough
      <4> QED
        BY <2>1, <4>1 DEF TestsPass
    <3>2. CASE script.notices # "any"
      BY <2>4, <2>5, <3>2
    <3> QED
      BY <3>1, <3>2
  <2>8. \A d \in script.defects : d \notin blind
    BY <2>4, <2>6, <2>7
  <2> QED
    BY <2>3, <2>6, <2>7, <2>8
<1>6. Thorough' = Thorough
  BY <1>1 DEF Thorough
<1>7. ProofsProve'
  BY <1>1, <1>4, <1>5, <1>6 DEF ProofsProve, PassIsProof
<1> QED
  BY <1>3, <1>4, <1>7 DEF ScriptSafe

\* A script is killed, with whatever it left in the tree.
LEMMA KillStep == ScriptSafe /\ Kill => ScriptSafe'
<1> SUFFICES ASSUME ScriptSafe, Kill PROVE ScriptSafe'
  OBVIOUS
<1>1. /\ UNCHANGED <<script, tree, kept, begun, works, blind, caught, skipped, lost, runs>> /\ run' = Tell("killed")
  BY DEF Kill
<1>2. run' \in Places /\ run'.at = "idle" /\ run'.told = "killed"
  BY <1>1, PlacesAre
<1>3. ProofsTypeOK'
  BY <1>1, <1>2 DEF ScriptSafe, ProofsTypeOK, Places
<1> QED
  BY <1>1, <1>2, <1>3
     DEF ScriptSafe, TreeAsBegun, CaughtIsNoticed, ProofsProve, PassIsProof, TreeIsRestored

\* Somebody edits the file.
LEMMA EditStep == ScriptSafe /\ Edit => ScriptSafe'
<1> SUFFICES ASSUME ScriptSafe, Edit PROVE ScriptSafe'
  OBVIOUS
<1>1. UNCHANGED <<script, run, kept, begun, works, blind, caught, skipped, lost, runs>>
      /\ tree' = [tree EXCEPT !.edited = TRUE]
  BY DEF Edit
<1>2. tree' \in Trees /\ tree'.defects = tree.defects /\ tree'.edited
  BY <1>1 DEF ScriptSafe, ProofsTypeOK, Trees
<1>3. ProofsTypeOK'
  BY <1>1, <1>2 DEF ScriptSafe, ProofsTypeOK, Trees
<1> QED
  BY <1>1, <1>2, <1>3
     DEF ScriptSafe, TreeAsBegun, CaughtIsNoticed, ProofsProve, PassIsProof, TreeIsRestored, Thorough

\* Every step keeps what the proof needs.
LEMMA ScriptStep == ScriptSafe /\ [ProofNext]_proofVars => ScriptSafe'
<1> SUFFICES ASSUME ScriptSafe, [ProofNext]_proofVars PROVE ScriptSafe'
  OBVIOUS
<1>1. CASE UNCHANGED proofVars
  BY <1>1
     DEF proofVars, ScriptSafe, ProofsTypeOK, TreeAsBegun, CaughtIsNoticed, ProofsProve, PassIsProof, TreeIsRestored,
         Thorough
<1>2. CASE ProofNext
  BY <1>2, BeginStep, SkipStep, MutateStep, RunTestsStep, RefuseStep, RestoreStep, VerdictStep, KillStep, EditStep
     DEF ProofNext
<1> QED
  BY <1>1, <1>2

\* A thorough script that passes has proved what it says, whatever was
\* killed or edited before, and no script that ends leaves its own defect
\* in the tree, however often it is run.
THEOREM PassesAreProofs == ProofSpec => []ProofsProve
<1>1. ProofSpec => []ScriptSafe
  BY ScriptStarts, ScriptStep, PTL DEF ProofSpec
<1>2. ScriptSafe => ProofsProve
  BY DEF ScriptSafe
<1> QED
  BY <1>1, <1>2, PTL

-----------------------------------------------------------------------------
(* The stores of artifacts.                                                *)

\* What lies in memory under a hash, and under an id; what lies in R2.
ShelvesAgree ==
  /\ \A h \in Hashes : shelf[h] # Nowhere =>
       shelf[h].hash = h /\ (shelf[h].id \notin crossed => shelf[shelf[h].id] = shelf[h])
  /\ \A i \in Artifacts : shelf[i] # Nowhere => shelf[i].id = i
  /\ \A h \in Hashes : bucket[h] # Nowhere.hash => bucket[h] = h

\* An id whose puts have not overlapped is not yet there while one waits.
PutsWait ==
  /\ \A p \in coming : p.taken /\ p.artifact.id \notin crossed => shelf[p.artifact.id] = Nowhere
  /\ \A p, q \in coming :
       p.taken /\ q.taken /\ p.artifact.id = q.artifact.id /\ p # q => p.artifact.id \in crossed

StoresSafe == StoresTypeOK /\ ShelvesAgree /\ PutsWait

\* A put under way, and what memory and R2 have seen of it.
PutsComing == [artifact : Records, taken : BOOLEAN, key : {"unseen", "free", "held"}]

\* A record is somewhere.
LEMMA RecordsAreSomewhere ==
  \A a \in Records : a # Nowhere /\ a.id \in Artifacts /\ a.hash \in Hashes /\ a.id \notin Hashes /\ a.hash \notin Artifacts
BY NamesDiffer DEF Records, Nowhere

\* The initial states.
LEMMA StoresStart == StoresInit => StoresSafe
BY NamesDiffer DEF StoresInit, StoresSafe, StoresTypeOK, ShelvesAgree, PutsWait

\* A put that begins while one of its id waits is noted.
LEMMA PutStep ==
  ASSUME StoresSafe, NEW a \in Records, NEW fits \in BOOLEAN, Put(a, fits)
  PROVE  StoresSafe'
<1> DEFINE taken == shelf[a.id] = Nowhere /\ fits
           put == [artifact |-> a, taken |-> taken, key |-> "unseen"]
<1>1. /\ coming' = coming \cup {put}
      /\ crossed' = IF taken /\ Underway(a.id) THEN crossed \cup {a.id} ELSE crossed
      /\ UNCHANGED <<shelf, bucket>>
  BY DEF Put
<1>2. a.id \in Artifacts /\ taken \in BOOLEAN
  BY RecordsAreSomewhere
<1>3. put \in PutsComing /\ put.artifact = a /\ put.taken = taken
  BY <1>2 DEF PutsComing
<1>4. StoresTypeOK'
  BY <1>1, <1>2, <1>3 DEF StoresSafe, StoresTypeOK, PutsComing
<1>5. ShelvesAgree'
  BY <1>1 DEF StoresSafe, ShelvesAgree
<1>6. taken => shelf[a.id] = Nowhere
  OBVIOUS
<1> HIDE DEF put, taken
<1>7. \A p \in coming' : p.taken /\ p.artifact.id \notin crossed' => shelf'[p.artifact.id] = Nowhere
  BY <1>1, <1>3, <1>6 DEF StoresSafe, PutsWait
<1>8. ASSUME NEW p \in coming, taken, p.taken, p.artifact.id = a.id
      PROVE  a.id \in crossed'
  BY <1>1, <1>8 DEF Underway
<1>9. \A p, q \in coming' :
        p.taken /\ q.taken /\ p.artifact.id = q.artifact.id /\ p # q => p.artifact.id \in crossed'
  BY <1>1, <1>3, <1>8 DEF StoresSafe, PutsWait
<1> QED
  BY <1>4, <1>5, <1>7, <1>9 DEF StoresSafe, PutsWait

\* Looking at R2's key changes what one put has seen.
LEMMA HeadStep ==
  ASSUME StoresSafe, NEW p \in coming, HeadOfKey(p)
  PROVE  StoresSafe'
<1>1. p \in PutsComing
  BY DEF StoresSafe, StoresTypeOK, PutsComing
<1>2. PICK seen \in {"free", "held"} :
        coming' = (coming \ {p}) \cup {[p EXCEPT !.key = seen]} /\ UNCHANGED <<shelf, bucket, crossed>>
  BY DEF HeadOfKey
<1> DEFINE put == [p EXCEPT !.key = seen]
<1>3. put \in PutsComing /\ put.artifact = p.artifact /\ put.taken = p.taken
  BY <1>1 DEF PutsComing
<1>4. StoresTypeOK'
  BY <1>2, <1>3 DEF StoresSafe, StoresTypeOK, PutsComing
<1>5. ShelvesAgree'
  BY <1>2 DEF StoresSafe, ShelvesAgree
<1> HIDE DEF put
<1>6. PutsWait'
  <2>1. coming' = (coming \ {p}) \cup {put} /\ crossed' = crossed /\ shelf' = shelf
    BY <1>2 DEF put
  <2>2. \A q \in coming' : q.taken /\ q.artifact.id \notin crossed' => shelf'[q.artifact.id] = Nowhere
    BY <2>1, <1>3 DEF StoresSafe, PutsWait
  <2>3. \A q, r \in coming' :
          q.taken /\ r.taken /\ q.artifact.id = r.artifact.id /\ q # r => q.artifact.id \in crossed'
    BY <2>1, <1>3 DEF StoresSafe, PutsWait
  <2> QED
    BY <2>2, <2>3 DEF PutsWait
<1> QED
  BY <1>4, <1>5, <1>6 DEF StoresSafe

\* What is put lies under its id and its hash.
LEMMA StoredStep ==
  ASSUME StoresSafe, NEW p \in coming, Stored(p)
  PROVE  StoresSafe'
<1> DEFINE a == p.artifact
           keeps == p.taken /\ shelf[a.hash] = Nowhere
<1>1. p \in PutsComing /\ a \in Records /\ a.id \in Artifacts /\ a.hash \in Hashes
  BY RecordsAreSomewhere DEF StoresSafe, StoresTypeOK, PutsComing
<1>2. /\ coming' = coming \ {p} /\ crossed' = crossed
      /\ shelf' = IF keeps THEN [shelf EXCEPT ![a.id] = a, ![a.hash] = a] ELSE shelf
      /\ bucket' = IF p.key = "free" THEN [bucket EXCEPT ![a.hash] = a.hash] ELSE bucket
  BY DEF Stored
<1>3. keeps => p.taken /\ shelf[a.hash] = Nowhere
  OBVIOUS
<1>4. p.taken /\ a.id \notin crossed => shelf[a.id] = Nowhere
  BY DEF StoresSafe, PutsWait
<1>5. \A q \in coming' : p.taken /\ q.taken /\ q.artifact.id = a.id => q.artifact.id \in crossed'
  BY <1>2 DEF StoresSafe, PutsWait
<1> HIDE DEF keeps, a
<1>6. StoresTypeOK'
  BY <1>1, <1>2 DEF StoresSafe, StoresTypeOK
<1>7. \A h \in Hashes : bucket'[h] # Nowhere.hash => bucket'[h] = h
  BY <1>1, <1>2 DEF StoresSafe, StoresTypeOK, ShelvesAgree
<1>8. CASE ~keeps
  <2>1. shelf' = shelf /\ crossed' = crossed /\ coming' \subseteq coming
    BY <1>2, <1>8
  <2>2. PutsWait'
    BY <2>1 DEF StoresSafe, PutsWait
  <2> QED
    BY <1>6, <1>7, <2>1, <2>2 DEF StoresSafe, ShelvesAgree
<1>9. CASE keeps
  <2>1. \A n \in Artifacts \cup Hashes : shelf'[n] = IF n \in {a.id, a.hash} THEN a ELSE shelf[n]
    BY <1>1, <1>2, <1>9, RecordsAreSomewhere DEF StoresSafe, StoresTypeOK
  <2>2. \A i \in Artifacts : shelf'[i] # Nowhere => shelf'[i].id = i
    BY <1>1, <2>1, RecordsAreSomewhere DEF StoresSafe, ShelvesAgree
  <2>3. ASSUME NEW h \in Hashes, h # a.hash, shelf[h] # Nowhere, shelf[h].id \notin crossed
        PROVE  shelf[h] \in Records /\ shelf[h].id # a.id
    BY <1>3, <1>4, <1>9, <2>3, RecordsAreSomewhere DEF StoresSafe, StoresTypeOK, ShelvesAgree
  <2>4. ASSUME NEW h \in Hashes, shelf'[h] # Nowhere
        PROVE  shelf'[h].hash = h /\ (shelf'[h].id \notin crossed' => shelf'[shelf'[h].id] = shelf'[h])
    <3>1. CASE h = a.hash
      BY <1>1, <2>1, <3>1
    <3>2. CASE h # a.hash
      <4>1. shelf'[h] = shelf[h] /\ shelf[h] \in Records /\ crossed' = crossed
        BY <1>1, <1>2, <2>1, <2>4, <3>2, RecordsAreSomewhere DEF StoresSafe, StoresTypeOK
      <4>2. shelf[h].hash = h /\ (shelf[h].id \notin crossed => shelf[shelf[h].id] = shelf[h])
        BY <2>4, <4>1 DEF StoresSafe, ShelvesAgree
      <4>3. ASSUME shelf[h].id \notin crossed
            PROVE  shelf'[shelf[h].id] = shelf[shelf[h].id]
        BY <1>1, <2>1, <2>3, <2>4, <3>2, <4>1, <4>3, RecordsAreSomewhere
      <4> QED
        BY <4>1, <4>2, <4>3
    <3> QED
      BY <3>1, <3>2
  <2>5. ASSUME NEW q \in coming', q.taken, q.artifact.id \notin crossed'
        PROVE  shelf'[q.artifact.id] = Nowhere
    <3>1. q \in coming /\ q.artifact.id \in Artifacts /\ q.artifact.id # a.id
      BY <1>2, <1>3, <1>5, <1>9, <2>5, RecordsAreSomewhere DEF StoresSafe, StoresTypeOK
    <3>2. shelf'[q.artifact.id] = shelf[q.artifact.id]
      BY <1>1, <2>1, <3>1, RecordsAreSomewhere
    <3> QED
      BY <1>2, <2>5, <3>1, <3>2 DEF StoresSafe, PutsWait
  <2>6. \A q, r \in coming' :
          q.taken /\ r.taken /\ q.artifact.id = r.artifact.id /\ q # r => q.artifact.id \in crossed'
    BY <1>2 DEF StoresSafe, PutsWait
  <2> QED
    BY <1>6, <1>7, <2>2, <2>4, <2>5, <2>6 DEF StoresSafe, ShelvesAgree, PutsWait
<1> QED
  BY <1>8, <1>9

\* What is removed lies nowhere, and what lies elsewhere stays.
LEMMA RemoveStep ==
  ASSUME StoresSafe, NEW name \in Names, Remove(name)
  PROVE  StoresSafe'
<1>1. /\ shelf' = [n \in DOMAIN shelf |->
                    IF InMemory(name) # Nowhere /\ n \in {name, shelf[name].hash} THEN Nowhere ELSE shelf[n]]
      /\ bucket' = [h \in Hashes |-> IF name = KeyOf(h) THEN Nowhere.hash ELSE bucket[h]]
      /\ UNCHANGED <<coming, crossed>>
  BY DEF Remove
<1>2. StoresTypeOK'
  BY <1>1 DEF StoresSafe, StoresTypeOK
<1>3. \A h \in Hashes : bucket'[h] # Nowhere.hash => bucket'[h] = h
  BY <1>1 DEF StoresSafe, ShelvesAgree
<1>4. PutsWait'
  <2>1. \A p \in coming : p.artifact.id \in Artifacts
    BY RecordsAreSomewhere DEF StoresSafe, StoresTypeOK
  <2>2. \A i \in Artifacts : shelf[i] = Nowhere => shelf'[i] = Nowhere
    BY <1>1 DEF StoresSafe, StoresTypeOK
  <2> QED
    BY <1>1, <2>1, <2>2 DEF StoresSafe, PutsWait
<1>5. CASE InMemory(name) = Nowhere
  <2>1. shelf' = shelf
    BY <1>1, <1>5 DEF StoresSafe, StoresTypeOK
  <2> QED
    BY <1>1, <1>2, <1>3, <1>4, <2>1 DEF StoresSafe, ShelvesAgree
<1>6. CASE InMemory(name) # Nowhere
  <2>1. name \in Artifacts \cup Hashes /\ shelf[name] \in Records
    BY <1>6 DEF InMemory, Names, StoresSafe, StoresTypeOK
  <2> DEFINE gone == {name, shelf[name].hash}
  <2>2. \A n \in Artifacts \cup Hashes : shelf'[n] = IF n \in gone THEN Nowhere ELSE shelf[n]
    BY <1>1, <1>6 DEF StoresSafe, StoresTypeOK
  <2>3. \A i \in Artifacts : shelf'[i] # Nowhere => shelf'[i].id = i
    BY <2>2 DEF StoresSafe, ShelvesAgree
  <2>4. ASSUME NEW h \in Hashes, h \notin gone, shelf[h] # Nowhere, shelf[h].id \notin crossed
        PROVE  shelf[h] \in Records /\ shelf[h].id \in Artifacts /\ shelf[h].id \notin gone
    <3>1. shelf[h] \in Records /\ shelf[h].id \in Artifacts
      BY <2>4, RecordsAreSomewhere DEF StoresSafe, StoresTypeOK
    <3>2. shelf[h].id # shelf[name].hash
      BY <2>1, <3>1, RecordsAreSomewhere
    <3>3. shelf[h].hash = h /\ shelf[shelf[h].id] = shelf[h]
      BY <2>4 DEF StoresSafe, ShelvesAgree
    <3> QED
      BY <2>4, <3>1, <3>2, <3>3
  <2>5. \A h \in Hashes : shelf'[h] # Nowhere =>
          shelf'[h].hash = h /\ (shelf'[h].id \notin crossed' => shelf'[shelf'[h].id] = shelf'[h])
    <3> SUFFICES ASSUME NEW h \in Hashes, shelf'[h] # Nowhere
                 PROVE  shelf'[h].hash = h /\ (shelf'[h].id \notin crossed' => shelf'[shelf'[h].id] = shelf'[h])
      OBVIOUS
    <3>1. h \notin gone /\ shelf'[h] = shelf[h] /\ crossed' = crossed
      BY <1>1, <2>2
    <3>2. shelf[h].id \notin crossed => shelf'[shelf[h].id] = shelf[shelf[h].id]
      BY <2>2, <2>4, <3>1
    <3> QED
      BY <3>1, <3>2 DEF StoresSafe, ShelvesAgree
  <2> QED
    BY <1>2, <1>3, <1>4, <2>3, <2>5 DEF StoresSafe, ShelvesAgree
<1> QED
  BY <1>5, <1>6

\* Every step keeps what the proof needs.
LEMMA StoresStep == StoresSafe /\ [StoresNext]_storeVars => StoresSafe'
<1> SUFFICES ASSUME StoresSafe, [StoresNext]_storeVars PROVE StoresSafe'
  OBVIOUS
<1>1. CASE UNCHANGED storeVars
  BY <1>1 DEF storeVars, StoresSafe, StoresTypeOK, ShelvesAgree, PutsWait
<1>2. CASE StoresNext
  BY <1>2, PutStep, HeadStep, StoredStep, RemoveStep DEF StoresNext
<1> QED
  BY <1>1, <1>2

\* What R2 tells of a hash is the hash, and no other name finds anything in
\* both stores.
LEMMA LookedUp ==
  ASSUME StoresSafe
  PROVE  /\ \A h \in Hashes : Listed(h) # Nowhere => Listed(h).hash = h
         /\ \A name \in Names : Nowhere \in {InMemory(name), InR2(name)}
BY DEF StoresSafe, ShelvesAgree, Listed, InMemory, InR2

\* Whatever is put and removed, and however puts overlap, a hash leads to
\* its content in both stores, in memory an artifact under its hash is under
\* its id unless two puts of the id overlapped, and no other name means a
\* content in both, for any ids, hashes and number of puts.
THEOREM HashesLeadToContents == StoresSpec => []ContentsAreTheirHash
<1>1. StoresSpec => []StoresSafe
  BY StoresStart, StoresStep, PTL DEF StoresSpec
<1>2. StoresSafe => ContentsAreTheirHash
  BY LookedUp DEF StoresSafe, ShelvesAgree, ContentsAreTheirHash
<1> QED
  BY <1>1, <1>2, PTL

-----------------------------------------------------------------------------
(* An adapter's cache: a queue of its keys by last use.                    *)

KeySet == [question : Questions]

Distinct(s) == \A i, j \in 1..Len(s) : s[i] = s[j] => i = j
Elements(s) == {s[i] : i \in 1..Len(s)}

\* w is s without some of its elements.
Thinned(w, s) ==
  /\ w \in Seq(KeySet)
  /\ \E f \in [1..Len(w) -> 1..Len(s)] :
       /\ \A i \in 1..Len(w) : w[i] = s[f[i]]
       /\ \A i, j \in 1..Len(w) : i < j => f[i] < f[j]

\* s holds the keys of st, the least recently used first.
Queue(s, st, now) ==
  /\ s \in Seq(KeySet) /\ Distinct(s)
  /\ DOMAIN st = Elements(s)
  /\ \A k \in DOMAIN st : st[k].used \in Nat /\ st[k].used <= now
  /\ \A i, j \in 1..Len(s) : i < j => st[s[i]].used <= st[s[j]].used

\* What of a queue is left, is one.
LEMMA ThinnedQueue ==
  ASSUME NEW s, NEW st, NEW now \in Nat, Queue(s, st, now), NEW w, Thinned(w, s), NEW st2,
         DOMAIN st2 = Elements(w), \A k \in DOMAIN st2 : st2[k].used = st[k].used
  PROVE  Queue(w, st2, now)
<1>1. PICK f \in [1..Len(w) -> 1..Len(s)] :
        /\ \A i \in 1..Len(w) : w[i] = s[f[i]]
        /\ \A i, j \in 1..Len(w) : i < j => f[i] < f[j]
  BY DEF Thinned
<1>2. w \in Seq(KeySet) /\ Len(w) \in Nat /\ s \in Seq(KeySet) /\ Len(s) \in Nat
  BY DEF Thinned, Queue
<1>3. \A i \in 1..Len(w) : f[i] \in 1..Len(s) /\ w[i] \in DOMAIN st2 /\ w[i] \in DOMAIN st
  BY <1>1 DEF Queue, Elements
<1>4. Distinct(w)
  <2> SUFFICES ASSUME NEW i \in 1..Len(w), NEW j \in 1..Len(w), w[i] = w[j], i # j PROVE FALSE
    BY DEF Distinct
  <2>1. f[i] = f[j]
    BY <1>1, <1>3 DEF Queue, Distinct
  <2>2. i < j \/ j < i
    BY <1>2
  <2> QED
    BY <1>1, <1>2, <1>3, <2>1, <2>2
<1>5. ASSUME NEW i \in 1..Len(w), NEW j \in 1..Len(w), i < j
      PROVE  st2[w[i]].used <= st2[w[j]].used
  <2>1. st[s[f[i]]].used <= st[s[f[j]]].used
    BY <1>1, <1>3, <1>5 DEF Queue
  <2>2. st2[w[i]].used = st[w[i]].used /\ st2[w[j]].used = st[w[j]].used
    BY <1>3
  <2> QED
    BY <1>1, <2>1, <2>2
<1>6. \A k \in DOMAIN st2 : st2[k].used \in Nat /\ st2[k].used <= now
  BY <1>3 DEF Queue, Elements
<1> QED
  BY <1>2, <1>4, <1>5, <1>6 DEF Queue

\* What is used now goes to its end.
LEMMA AppendQueue ==
  ASSUME NEW w, NEW st, NEW now \in Nat, Queue(w, st, now), NEW key \in KeySet, key \notin Elements(w), NEW st2,
         DOMAIN st2 = Elements(w) \cup {key}, st2[key].used = now,
         \A k \in Elements(w) : st2[k].used = st[k].used
  PROVE  Queue(Append(w, key), st2, now)
<1> DEFINE s == Append(w, key)
<1>1. w \in Seq(KeySet) /\ Len(w) \in Nat
  BY DEF Queue
<1>2. /\ s \in Seq(KeySet) /\ Len(s) = Len(w) + 1 /\ s[Len(w) + 1] = key
      /\ \A i \in 1..Len(w) : s[i] = w[i]
  BY <1>1, AppendProperties
<1> HIDE DEF s
<1>3. \A i \in 1..Len(s) : i \in 1..Len(w) \/ i = Len(w) + 1
  BY <1>1, <1>2
<1>4. \A i \in 1..Len(w) : i \in 1..Len(s) /\ s[i] \in Elements(w) /\ s[i] # key
  BY <1>1, <1>2 DEF Elements
<1>5. Elements(s) = Elements(w) \cup {key}
  <2>1. Elements(s) \subseteq Elements(w) \cup {key}
    BY <1>2, <1>3, <1>4 DEF Elements
  <2>2. Elements(w) \subseteq Elements(s)
    BY <1>2, <1>4 DEF Elements
  <2>3. key \in Elements(s)
    <3>1. Len(w) + 1 \in 1..Len(s)
      BY <1>1, <1>2
    <3> QED
      BY <1>2, <3>1 DEF Elements
  <2> QED
    BY <2>1, <2>2, <2>3
<1>6. Distinct(s)
  BY <1>2, <1>3, <1>4 DEF Distinct, Queue
<1>7. \A k \in DOMAIN st2 : st2[k].used \in Nat /\ st2[k].used <= now
  BY DEF Queue
<1>8. ASSUME NEW i \in 1..Len(s), NEW j \in 1..Len(s), i < j
      PROVE  st2[s[i]].used <= st2[s[j]].used
  <2>1. i \in 1..Len(w)
    BY <1>1, <1>2, <1>8
  <2>2. CASE j \in 1..Len(w)
    BY <1>2, <1>4, <1>8, <2>1, <2>2 DEF Queue
  <2>3. CASE j = Len(w) + 1
    BY <1>2, <1>4, <1>7, <2>1, <2>3
  <2> QED
    BY <1>3, <2>2, <2>3
<1>9. Queue(s, st2, now)
  BY <1>2, <1>5, <1>6, <1>7, <1>8 DEF Queue
<1> QED
  BY <1>9 DEF s

\* All of a sequence, all but one of it, all but the first.
LEMMA AllIsThinned == \A s \in Seq(KeySet) : Thinned(s, s)
<1> SUFFICES ASSUME NEW s \in Seq(KeySet) PROVE Thinned(s, s)
  OBVIOUS
<1> DEFINE f == [i \in 1..Len(s) |-> i]
<1>1. f \in [1..Len(s) -> 1..Len(s)] /\ \A i \in 1..Len(s) : f[i] = i
  OBVIOUS
<1> HIDE DEF f
<1> QED
  BY <1>1 DEF Thinned

LEMMA CutIsThinned ==
  ASSUME NEW s \in Seq(KeySet), Distinct(s), NEW i \in 1..Len(s), NEW w \in Seq(KeySet), Len(w) = Len(s) - 1,
         \A n \in 1..Len(w) : w[n] = s[IF n < i THEN n ELSE n + 1]
  PROVE  Thinned(w, s) /\ Elements(w) = Elements(s) \ {s[i]}
<1>1. Len(s) \in Nat
  OBVIOUS
<1> DEFINE f == [n \in 1..Len(w) |-> IF n < i THEN n ELSE n + 1]
<1>2. f \in [1..Len(w) -> 1..Len(s)]
  BY <1>1
<1>3. /\ \A n \in 1..Len(w) : w[n] = s[f[n]] /\ f[n] # i
      /\ \A m, n \in 1..Len(w) : m < n => f[m] < f[n]
  BY <1>1
<1>4. \A m \in 1..Len(s) : m # i => \E n \in 1..Len(w) : f[n] = m
  <2> SUFFICES ASSUME NEW m \in 1..Len(s), m # i PROVE \E n \in 1..Len(w) : f[n] = m
    OBVIOUS
  <2>1. CASE m < i
    <3>1. m \in 1..Len(w) /\ f[m] = m
      BY <1>1, <2>1
    <3> QED
      BY <3>1
  <2>2. CASE m > i
    <3>1. m - 1 \in 1..Len(w) /\ f[m - 1] = m
      BY <1>1, <2>2
    <3> QED
      BY <3>1
  <2> QED
    BY <1>1, <2>1, <2>2
<1> HIDE DEF f
<1>5. Thinned(w, s)
  BY <1>2, <1>3 DEF Thinned
<1>6. Elements(w) \subseteq Elements(s) \ {s[i]}
  <2> SUFFICES ASSUME NEW n \in 1..Len(w) PROVE w[n] \in Elements(s) /\ w[n] # s[i]
    BY DEF Elements
  <2>1. f[n] \in 1..Len(s) /\ f[n] # i /\ w[n] = s[f[n]]
    BY <1>2, <1>3
  <2> QED
    BY <2>1 DEF Elements, Distinct
<1>7. Elements(s) \ {s[i]} \subseteq Elements(w)
  <2> SUFFICES ASSUME NEW m \in 1..Len(s), m # i PROVE s[m] \in Elements(w)
    BY DEF Elements
  <2>1. PICK n \in 1..Len(w) : f[n] = m
    BY <1>4
  <2> QED
    BY <1>3, <2>1 DEF Elements
<1> QED
  BY <1>5, <1>6, <1>7

LEMMA TailIsThinned ==
  ASSUME NEW s \in Seq(KeySet), Distinct(s), s # <<>>
  PROVE  /\ Tail(s) \in Seq(KeySet) /\ Len(Tail(s)) = Len(s) - 1
         /\ Thinned(Tail(s), s) /\ Elements(Tail(s)) = Elements(s) \ {s[1]}
<1>1. /\ Tail(s) \in Seq(KeySet) /\ Len(Tail(s)) = Len(s) - 1 /\ Len(s) \in Nat \ {0}
      /\ \A n \in 1..Len(Tail(s)) : Tail(s)[n] = s[n + 1]
  BY HeadTailProperties, EmptySeq
<1>2. 1 \in 1..Len(s)
  BY <1>1
<1>3. \A n \in 1..Len(Tail(s)) : Tail(s)[n] = s[IF n < 1 THEN n ELSE n + 1]
  BY <1>1
<1> QED
  BY <1>1, <1>2, <1>3, CutIsThinned

LEMMA WithoutThins ==
  ASSUME recency \in Seq(KeySet), Distinct(recency), NEW key
  PROVE  /\ Thinned(Without(key), recency) /\ Elements(Without(key)) = Elements(recency) \ {key}
         /\ Len(Without(key)) = IF key \in Elements(recency) THEN Len(recency) - 1 ELSE Len(recency)
<1>1. DOMAIN recency = 1..Len(recency) /\ Len(recency) \in Nat
  OBVIOUS
<1>2. CASE key \notin Elements(recency)
  <2>1. Without(key) = recency
    BY <1>1, <1>2 DEF Without, Elements
  <2> QED
    BY <1>2, <2>1, AllIsThinned
<1>3. CASE key \in Elements(recency)
  <2> DEFINE i == CHOOSE i \in DOMAIN recency : recency[i] = key
             a == SubSeq(recency, 1, i - 1)
             b == SubSeq(recency, i + 1, Len(recency))
  <2>1. i \in 1..Len(recency) /\ recency[i] = key
    BY <1>1, <1>3 DEF Elements
  <2>2. Without(key) = a \o b
    BY <1>1, <1>3 DEF Without, Elements
  <2> HIDE DEF i
  <2>3. \A n \in 1..Len(recency) : recency[n] \in KeySet
    BY ElementOfSeq
  <2>4. /\ a \in Seq(KeySet) /\ Len(a) = i - 1 /\ \A n \in 1..i - 1 : a[n] = recency[n]
    <3>1. 1 \in Int /\ i - 1 \in Int /\ \A n \in 1..i - 1 : recency[n] \in KeySet
      BY <1>1, <2>1, <2>3
    <3>2. /\ a \in Seq(KeySet) /\ Len(a) = (IF 1 <= i - 1 THEN (i - 1) - 1 + 1 ELSE 0)
          /\ \A n \in 1..(i - 1) - 1 + 1 : a[n] = recency[1 + n - 1]
      BY <3>1, SubSeqProperties
    <3> QED
      BY <2>1, <3>2
  <2>5. /\ b \in Seq(KeySet) /\ Len(b) = Len(recency) - i /\ \A n \in 1..Len(recency) - i : b[n] = recency[n + i]
    <3>1. i + 1 \in Int /\ Len(recency) \in Int /\ \A n \in i + 1..Len(recency) : recency[n] \in KeySet
      BY <1>1, <2>1, <2>3
    <3>2. /\ b \in Seq(KeySet) /\ Len(b) = (IF i + 1 <= Len(recency) THEN Len(recency) - (i + 1) + 1 ELSE 0)
          /\ \A n \in 1..Len(recency) - (i + 1) + 1 : b[n] = recency[(i + 1) + n - 1]
      BY <3>1, SubSeqProperties
    <3> QED
      BY <1>1, <2>1, <3>2
  <2> HIDE DEF a, b
  <2>6. /\ a \o b \in Seq(KeySet) /\ Len(a \o b) = Len(recency) - 1
        /\ \A n \in 1..Len(recency) - 1 : (a \o b)[n] = IF n <= i - 1 THEN a[n] ELSE b[n - (i - 1)]
    <3>1. Len(a) + Len(b) = Len(recency) - 1
      BY <1>1, <2>1, <2>4, <2>5
    <3> QED
      BY <2>4, <2>5, <3>1, ConcatProperties
  <2>7. \A n \in 1..Len(a \o b) : (a \o b)[n] = recency[IF n < i THEN n ELSE n + 1]
    <3> SUFFICES ASSUME NEW n \in 1..Len(recency) - 1
                 PROVE  (a \o b)[n] = recency[IF n < i THEN n ELSE n + 1]
      BY <2>6
    <3>1. CASE n < i
      BY <2>1, <2>4, <2>6, <3>1
    <3>2. CASE ~(n < i)
      <4>1. n - (i - 1) \in 1..Len(recency) - i /\ (n - (i - 1)) + i = n + 1
        BY <1>1, <2>1, <3>2
      <4>2. (a \o b)[n] = b[n - (i - 1)]
        BY <1>1, <2>1, <2>6, <3>2
      <4> QED
        BY <2>5, <3>2, <4>1, <4>2
    <3> QED
      BY <3>1, <3>2
  <2> DEFINE w == a \o b
  <2>8. /\ w \in Seq(KeySet) /\ Len(w) = Len(recency) - 1
        /\ \A n \in 1..Len(w) : w[n] = recency[IF n < i THEN n ELSE n + 1]
    BY <2>6, <2>7
  <2>9. Without(key) = w
    BY <2>2
  <2> HIDE DEF w
  <2>10. Thinned(w, recency) /\ Elements(w) = Elements(recency) \ {recency[i]}
    BY <2>1, <2>8, CutIsThinned
  <2> QED
    BY <1>3, <2>1, <2>8, <2>9, <2>10
<1> QED
  BY <1>2, <1>3

-----------------------------------------------------------------------------
(* The adapter and its callers.                                            *)

\* What an adapter may have seen for an input.
Sighted(o, input) ==
  /\ o.class = "success" /\ o.for = input /\ input \in AdapterInputs
  /\ o.of = "unchanged" => input.extra = "version"
  /\ o.of = "error" => adapter \in {"github", "submissions", "public"}

\* An entry was seen for an input with the question of its key, not later
\* than now.
EntriesAreSeen ==
  \A k \in DOMAIN store :
    /\ DOMAIN store[k] = {"observation", "at", "used"}
    /\ store[k].at \in Nat /\ store[k].at <= time
    /\ \E input \in AdapterInputs : Sighted(store[k].observation, input) /\ input.question = k.question

CallersAre ==
  /\ DOMAIN asked = Askers
  /\ \A c \in Askers : asked[c].stage = "fetching" => asked[c].input \in AdapterInputs

CacheSafe == Queue(recency, store, time) /\ Len(recency) <= MaxKept /\ EntriesAreSeen
SourceSafe == adapter \in Adapters /\ time \in Nat /\ CacheSafe /\ CallersAre /\ AnswersTheQuestion

\* A queue has as many elements as it is long.
LEMMA QueueIsCounted ==
  ASSUME NEW s, NEW st, NEW now, Queue(s, st, now)
  PROVE  IsFiniteSet(DOMAIN st) /\ Cardinality(DOMAIN st) = Len(s) /\ Len(s) \in Nat
<1>1. s \in Seq(KeySet) /\ Len(s) \in Nat /\ s \in [1..Len(s) -> Elements(s)]
  BY LenProperties DEF Queue, Elements
<1>2. s \in Bijection(1..Len(s), Elements(s))
  BY <1>1 DEF Queue, Distinct, Elements, Bijection, Injection, Surjection, IsInjective
<1>3. ExistsBijection(1..Len(s), Elements(s))
  BY <1>2 DEF ExistsBijection
<1>4. IsFiniteSet(Elements(s)) /\ Cardinality(Elements(s)) = Len(s)
  BY <1>1, <1>3, FS_NatBijection, FS_CountingElements
<1> QED
  BY <1>1, <1>4 DEF Queue

\* What is told of an entry that has not expired answers the question.
RightFor(answer, input) ==
  answer.class = "success" =>
    /\ answer.for.question = input.question /\ answer.age < Ttl
    /\ answer.for.extra = input.extra \/ adapter \in {"submissions", "public"}
    /\ answer.of = "unchanged" => answer.for.extra = "version"
    /\ answer.of = "error" => adapter \in {"github", "submissions", "public"}

LEMMA ToldAnswers ==
  ASSUME adapter \in Adapters, NEW o, NEW seen \in AdapterInputs, Sighted(o, seen), NEW input \in AdapterInputs,
         seen.question = input.question, NEW age, age < Ttl
  PROVE  RightFor(Told(o, age), input)
<1>1. seen.extra = input.extra \/ adapter \in {"submissions", "public"}
  BY DEF AdapterInputs, Extras
<1>2. /\ Told(o, age).class = "success" /\ Told(o, age).for = seen /\ Told(o, age).age = age
      /\ Told(o, age).of = o.of
  BY DEF Told, Sighted
<1> QED
  BY <1>1, <1>2 DEF RightFor, Sighted

\* What a caller is told, the others are not.
LEMMA GoesOn ==
  ASSUME SourceSafe, NEW c \in Askers, NEW at, NEW input, NEW answer, Goes(c, at, input, answer),
         UNCHANGED adapter, RightFor(answer, input), at = "fetching" => input \in AdapterInputs
  PROVE  CallersAre' /\ AnswersTheQuestion'
<1>1. /\ DOMAIN asked' = Askers
      /\ asked'[c] = [stage |-> at, input |-> input, answer |-> answer]
      /\ \A d \in Askers : d # c => asked'[d] = asked[d]
  BY DEF Goes, SourceSafe, CallersAre
<1>2. asked'[c].stage = at /\ asked'[c].input = input /\ asked'[c].answer = answer
  BY <1>1
<1>3. AdapterInputs' = AdapterInputs
  BY DEF AdapterInputs, Extras
<1>4. CallersAre'
  BY <1>1, <1>2, <1>3 DEF SourceSafe, CallersAre
<1>5. \A d \in Askers : RightFor(asked'[d].answer, asked'[d].input)
  BY <1>1, <1>2 DEF SourceSafe, AnswersTheQuestion, RightFor
<1>6. AnswersTheQuestion'
  BY <1>5 DEF AnswersTheQuestion, RightFor
<1> QED
  BY <1>4, <1>6

\* A key that was asked for goes to the end, or, expired, goes.
LEMMA GetKeeps ==
  ASSUME SourceSafe, NEW key \in KeySet, CacheGet(key), UNCHANGED <<adapter, time>>
  PROVE  CacheSafe'
<1> USE DEF SourceSafe, CacheSafe
<1>1. recency \in Seq(KeySet) /\ Distinct(recency) /\ DOMAIN store = Elements(recency)
  BY DEF Queue
<1>2. /\ Thinned(Without(key), recency) /\ Elements(Without(key)) = Elements(recency) \ {key}
      /\ Len(Without(key)) = IF key \in Elements(recency) THEN Len(recency) - 1 ELSE Len(recency)
  BY <1>1, WithoutThins
<1>3. Len(recency) \in Nat /\ MaxKept \in Nat
  BY <1>1, CacheAssumption
<1>4. AdapterInputs' = AdapterInputs
  BY DEF AdapterInputs, Extras
<1>5. CASE key \notin DOMAIN store
  BY <1>4, <1>5 DEF CacheGet, EntriesAreSeen, Sighted
<1>6. CASE key \in DOMAIN store /\ EntryExpired(store[key])
  <2>1. /\ store' = [k \in DOMAIN store \ {key} |-> store[k]]
        /\ recency' = Without(key)
    BY <1>6 DEF CacheGet
  <2>2. DOMAIN store' = Elements(recency') /\ \A k \in DOMAIN store' : k \in DOMAIN store /\ store'[k] = store[k]
    BY <1>1, <1>2, <2>1
  <2>3. Queue(recency', store', time)
    BY <1>2, <2>1, <2>2, ThinnedQueue
  <2>4. EntriesAreSeen'
    BY <1>4, <2>2 DEF EntriesAreSeen, Sighted
  <2>5. Len(recency') <= MaxKept
    BY <1>1, <1>2, <1>3, <1>6, <2>1
  <2> QED
    BY <2>3, <2>4, <2>5
<1>7. CASE key \in DOMAIN store /\ ~EntryExpired(store[key])
  <2>1. store' = [store EXCEPT ![key].used = time] /\ recency' = Append(Without(key), key)
    BY <1>7 DEF CacheGet
  <2>2. /\ DOMAIN store' = DOMAIN store
        /\ \A k \in DOMAIN store : k # key => store'[k] = store[k]
        /\ store'[key] = [store[key] EXCEPT !.used = time]
    BY <1>7, <2>1
  <2>3. /\ DOMAIN store'[key] = {"observation", "at", "used"} /\ store'[key].used = time
        /\ store'[key].at = store[key].at /\ store'[key].observation = store[key].observation
    BY <1>7, <2>2 DEF EntriesAreSeen
  <2> DEFINE left == [k \in DOMAIN store \ {key} |-> store[k]]
  <2>4. Queue(Without(key), left, time)
    <3>1. DOMAIN left = Elements(Without(key)) /\ \A k \in DOMAIN left : left[k].used = store[k].used
      BY <1>1, <1>2
    <3> HIDE DEF left
    <3> QED
      BY <1>2, <3>1, ThinnedQueue
  <2>5. /\ key \notin Elements(Without(key)) /\ DOMAIN store' = Elements(Without(key)) \cup {key}
        /\ \A k \in Elements(Without(key)) : store'[k].used = left[k].used
    BY <1>1, <1>2, <1>7, <2>2
  <2> HIDE DEF left
  <2>6. Queue(recency', store', time)
    BY <2>1, <2>3, <2>4, <2>5, AppendQueue
  <2>7. EntriesAreSeen'
    BY <1>4, <2>2, <2>3 DEF EntriesAreSeen, Sighted
  <2>8. Len(recency') <= MaxKept
    <3>1. Without(key) \in Seq(KeySet)
      BY <1>2 DEF Thinned
    <3>2. Len(recency') = Len(Without(key)) + 1
      BY <2>1, <3>1
    <3> QED
      BY <1>1, <1>2, <1>3, <1>7, <3>2
  <2> QED
    BY <2>6, <2>7, <2>8
<1> QED
  BY <1>5, <1>6, <1>7

\* What was seen is kept under its key, at the end, and the oldest goes when
\* there is no room.
LEMMA SetKeeps ==
  ASSUME SourceSafe, NEW input \in AdapterInputs, NEW o, Sighted(o, input), UNCHANGED <<adapter, time>>,
         CacheSet(Key(input), [observation |-> o, at |-> time, used |-> time])
  PROVE  CacheSafe'
<1> USE DEF SourceSafe, CacheSafe
<1> DEFINE key == Key(input)
           entry == [observation |-> o, at |-> time, used |-> time]
           full == Cardinality(DOMAIN store) >= MaxKept /\ key \notin DOMAIN store
           gone == IF full /\ recency # <<>> THEN {recency[1]} ELSE {}
           rest == IF gone # {} THEN Tail(recency) ELSE Without(key)
           left == [k \in Elements(rest) |-> store[k]]
<1>1. /\ recency \in Seq(KeySet) /\ Distinct(recency) /\ DOMAIN store = Elements(recency)
      /\ Len(recency) \in Nat /\ Cardinality(DOMAIN store) = Len(recency) /\ MaxKept \in Nat \ {0}
  BY QueueIsCounted, CacheAssumption DEF Queue
<1>2. key \in KeySet /\ key.question = input.question
  BY DEF Key, KeySet, AdapterInputs
<1>3. /\ store' = [k \in (DOMAIN store \ gone) \cup {key} |-> IF k = key THEN entry ELSE store[k]]
      /\ recency' = Append(rest, key)
  BY DEF CacheSet
<1>4. entry.used = time /\ entry.at = time /\ entry.observation = o /\ DOMAIN entry = {"observation", "at", "used"}
  OBVIOUS
<1> HIDE DEF key, entry
<1>5. /\ Thinned(rest, recency) /\ key \notin Elements(rest)
      /\ Elements(rest) \cup {key} = (DOMAIN store \ gone) \cup {key} /\ Elements(rest) \subseteq DOMAIN store
      /\ Len(rest) + 1 <= MaxKept
  <2>1. CASE gone # {}
    <3>1. full /\ recency # <<>> /\ gone = {recency[1]} /\ rest = Tail(recency)
      BY <2>1
    <3>2. /\ Thinned(rest, recency) /\ Elements(rest) = Elements(recency) \ {recency[1]}
          /\ Len(rest) = Len(recency) - 1
      BY <1>1, <3>1, TailIsThinned
    <3> QED
      BY <1>1, <3>1, <3>2
  <2>2. CASE gone = {}
    <3>1. rest = Without(key)
      BY <2>2
    <3>2. /\ Thinned(rest, recency) /\ Elements(rest) = Elements(recency) \ {key}
          /\ Len(rest) = IF key \in Elements(recency) THEN Len(recency) - 1 ELSE Len(recency)
      BY <1>1, <3>1, WithoutThins
    <3>3. key \notin DOMAIN store => Len(recency) + 1 <= MaxKept
      <4>1. recency # <<>> \/ Len(recency) = 0
        BY <1>1, EmptySeq
      <4> QED
        BY <1>1, <2>2, <4>1
    <3> QED
      BY <1>1, <2>2, <3>2, <3>3
  <2> QED
    BY <2>1, <2>2
<1>6. DOMAIN left = Elements(rest) /\ \A k \in Elements(rest) : left[k] = store[k]
  OBVIOUS
<1>7. /\ DOMAIN store' = Elements(rest) \cup {key} /\ store'[key] = entry
      /\ \A k \in Elements(rest) : store'[k] = store[k]
  BY <1>3, <1>5
<1>8. Len(Append(rest, key)) = Len(rest) + 1
  BY <1>5 DEF Thinned
<1> HIDE DEF left, rest
<1>9. Queue(rest, left, time)
  BY <1>5, <1>6, ThinnedQueue
<1>10. Queue(recency', store', time)
  <2>1. /\ DOMAIN store' = Elements(rest) \cup {key} /\ store'[key].used = time
        /\ \A k \in Elements(rest) : store'[k].used = left[k].used
    BY <1>4, <1>6, <1>7
  <2>2. key \in KeySet /\ key \notin Elements(rest) /\ time \in Nat
    BY <1>2, <1>5
  <2>3. Queue(Append(rest, key), store', time)
    BY <1>9, <2>1, <2>2, AppendQueue
  <2> QED
    BY <1>3, <2>3
<1>11. EntriesAreSeen'
  <2>1. AdapterInputs' = AdapterInputs
    BY DEF AdapterInputs, Extras
  <2> QED
    BY <1>2, <1>4, <1>5, <1>7, <2>1 DEF EntriesAreSeen, Sighted
<1> QED
  BY <1>3, <1>5, <1>8, <1>10, <1>11

\* What an adapter makes of a reply that may come is something it may have
\* seen.
LEMMA MadeIsSighted ==
  ASSUME adapter \in Adapters, NEW input \in AdapterInputs, NEW r \in SourceReplies, MaySend(r, input),
         Normalized(r, input).class = "success"
  PROVE  Sighted([class |-> "success", of |-> Normalized(r, input).of, for |-> input], input)
<1>1. \/ Normalized(r, input) = Finding(r)
      \/ Normalized(r, input) = Finding("nothing") \/ Normalized(r, input) = Finding("found")
  BY DEF Normalized, Public, GitHub, OpenAlex, Crossref, Federal, Facts, Submissions, SourceFailed, Adapters
<1>2. r = "error" => \/ adapter \in {"github", "submissions", "public"} \/ Normalized(r, input) = Finding("nothing")
  BY DEF Normalized, Public, GitHub, OpenAlex, Crossref, Federal, Facts, Submissions, SourceFailed, Adapters
<1>3. Finding(r).of = r /\ Finding("nothing").of = "nothing" /\ Finding("found").of = "found"
  BY DEF Finding
<1> QED
  BY <1>1, <1>2, <1>3 DEF Sighted, MaySend

\* The initial states.
LEMMA SourceStarts == SourceInit => SourceSafe
<1> SUFFICES ASSUME SourceInit PROVE SourceSafe
  OBVIOUS
<1>1. recency \in Seq(KeySet) /\ Len(recency) = 0 /\ DOMAIN store = {} /\ store = <<>>
  <2>1. <<>> \in Seq(KeySet) /\ Len(<<>>) = 0
    BY EmptySeq
  <2>2. DOMAIN <<>> = 1..0
    BY <2>1, LenProperties
  <2> QED
    BY <2>1, <2>2 DEF SourceInit
<1>2. Elements(recency) = {} /\ 0 <= MaxKept
  BY <1>1, CacheAssumption DEF Elements
<1>3. CacheSafe
  BY <1>1, <1>2 DEF CacheSafe, Queue, Distinct, EntriesAreSeen
<1>4. CallersAre /\ AnswersTheQuestion
  BY DEF SourceInit, CallersAre, AnswersTheQuestion, Idle, NoAnswer
<1> QED
  BY <1>3, <1>4 DEF SourceInit, SourceSafe

\* A call is answered from the cache, refused, or goes to fetch.
LEMMA AskStep ==
  ASSUME SourceSafe, NEW c \in Askers, Ask(c)
  PROVE  SourceSafe'
<1>1. UNCHANGED <<adapter, time>>
  BY DEF Ask
<1>2. PICK input \in AdapterInputs, bypass \in BOOLEAN,
           allowed \in {MayAccess(style, review) : style \in {"test", "live"}, review \in ReviewRecords} :
        LET key == Key(input)
            hit == ~bypass /\ key \in DOMAIN store /\ ~EntryExpired(store[key])
        IN \/ adapter = "public" /\ Goes(c, "answered", input, [class |-> "invalid_request"]) /\ UNCHANGED <<store, recency>>
           \/ /\ IF bypass THEN UNCHANGED <<store, recency>> ELSE CacheGet(key)
              /\ IF hit THEN Goes(c, "answered", input, Told(store[key].observation, time - store[key].at))
                 ELSE IF ~allowed THEN Goes(c, "answered", input, [class |-> "policy_blocked"])
                 ELSE Goes(c, "fetching", input, NoAnswer)
  BY DEF Ask
<1>3. Key(input) \in KeySet /\ Key(input).question = input.question
  BY DEF Key, KeySet, AdapterInputs
<1>4. UNCHANGED <<store, recency>> => CacheSafe'
  <2>1. AdapterInputs' = AdapterInputs
    BY <1>1 DEF AdapterInputs, Extras
  <2> QED
    BY <1>1, <2>1 DEF SourceSafe, CacheSafe, EntriesAreSeen, Sighted
<1>5. CacheSafe'
  BY <1>1, <1>2, <1>3, <1>4, GetKeeps
<1>6. \E at, answer : Goes(c, at, input, answer) /\ RightFor(answer, input)
  <2>1. \A class \in {"invalid_request", "policy_blocked", "none"} : RightFor([class |-> class], input)
    BY DEF RightFor
  <2>2. CASE /\ Key(input) \in DOMAIN store /\ ~EntryExpired(store[Key(input)])
             /\ Goes(c, "answered", input, Told(store[Key(input)].observation, time - store[Key(input)].at))
    <3> DEFINE entry == store[Key(input)]
    <3>1. PICK seen \in AdapterInputs : Sighted(entry.observation, seen) /\ seen.question = input.question
      BY <1>3, <2>2 DEF SourceSafe, CacheSafe, EntriesAreSeen
    <3>2. entry.at \in Nat /\ time \in Nat /\ ~(time >= entry.at + Ttl)
      BY <2>2 DEF SourceSafe, CacheSafe, EntriesAreSeen, EntryExpired
    <3> HIDE DEF entry
    <3>3. time - entry.at < Ttl
      BY <3>2, CacheAssumption
    <3>4. RightFor(Told(entry.observation, time - entry.at), input)
      BY <3>1, <3>3, ToldAnswers DEF SourceSafe
    <3> QED
      BY <2>2, <3>4 DEF entry
  <2>3. CASE \/ Goes(c, "answered", input, [class |-> "invalid_request"])
             \/ Goes(c, "answered", input, [class |-> "policy_blocked"])
             \/ Goes(c, "fetching", input, NoAnswer)
    BY <2>1, <2>3 DEF NoAnswer
  <2> QED
    BY <1>2, <2>2, <2>3
<1>7. CallersAre' /\ AnswersTheQuestion'
  BY <1>1, <1>6, GoesOn
<1> QED
  BY <1>1, <1>5, <1>7 DEF SourceSafe

\* What was seen is kept and told; what failed is told.
LEMMA FetchedStep ==
  ASSUME SourceSafe, NEW c \in Askers, Fetch(c)
  PROVE  SourceSafe'
<1>1. UNCHANGED <<adapter, time>> /\ asked[c].input \in AdapterInputs
  BY DEF Fetch, SourceSafe, CallersAre
<1> DEFINE input == asked[c].input
<1>2. UNCHANGED <<store, recency>> => CacheSafe'
  <2>1. AdapterInputs' = AdapterInputs
    BY <1>1 DEF AdapterInputs, Extras
  <2> QED
    BY <1>1, <2>1 DEF SourceSafe, CacheSafe, EntriesAreSeen, Sighted
<1>3. CASE \E answer : Goes(c, "answered", input, answer) /\ answer.class # "success" /\ UNCHANGED <<store, recency>>
  <2>1. PICK answer : Goes(c, "answered", input, answer) /\ answer.class # "success" /\ UNCHANGED <<store, recency>>
    BY <1>3
  <2>2. RightFor(answer, input)
    BY <2>1 DEF RightFor
  <2>3. CallersAre' /\ AnswersTheQuestion'
    BY <1>1, <2>1, <2>2, GoesOn
  <2> QED
    BY <1>1, <1>2, <2>1, <2>3 DEF SourceSafe
<1>4. CASE \E r \in SourceReplies :
             LET seen == [class |-> "success", of |-> Normalized(r, input).of, for |-> input]
             IN /\ MaySend(r, input) /\ Normalized(r, input).class = "success"
                /\ CacheSet(Key(input), [observation |-> seen, at |-> time, used |-> time])
                /\ Goes(c, "answered", input, Told(seen, 0))
  <2>1. PICK r \in SourceReplies :
             LET seen == [class |-> "success", of |-> Normalized(r, input).of, for |-> input]
             IN /\ MaySend(r, input) /\ Normalized(r, input).class = "success"
                /\ CacheSet(Key(input), [observation |-> seen, at |-> time, used |-> time])
                /\ Goes(c, "answered", input, Told(seen, 0))
    BY <1>4
  <2> DEFINE seen == [class |-> "success", of |-> Normalized(r, input).of, for |-> input]
  <2>2. Sighted(seen, input)
    BY <1>1, <2>1, MadeIsSighted DEF SourceSafe
  <2> HIDE DEF seen
  <2>3. CacheSet(Key(input), [observation |-> seen, at |-> time, used |-> time]) /\ Goes(c, "answered", input, Told(seen, 0))
    BY <2>1 DEF seen
  <2>4. CacheSafe'
    BY <1>1, <2>2, <2>3, SetKeeps
  <2>5. RightFor(Told(seen, 0), input)
    BY <1>1, <2>2, ToldAnswers, CacheAssumption DEF SourceSafe
  <2>6. CallersAre' /\ AnswersTheQuestion'
    BY <1>1, <2>3, <2>5, GoesOn
  <2> QED
    BY <1>1, <2>4, <2>6 DEF SourceSafe
<1>5. SourceFailed.class # "success"
  BY DEF SourceFailed
<1> QED
  BY <1>3, <1>4, <1>5, Zenon DEF Fetch

\* Every step keeps what the proof needs.
LEMMA SourceStep == SourceSafe /\ [SourceNext]_sourceVars => SourceSafe'
<1> SUFFICES ASSUME SourceSafe, [SourceNext]_sourceVars PROVE SourceSafe'
  OBVIOUS
<1>1. CASE Pass \/ UNCHANGED sourceVars
  <2>1. UNCHANGED <<adapter, store, recency, asked>> /\ time' \in Nat /\ time <= time'
    BY <1>1 DEF Pass, sourceVars, SourceSafe
  <2>2. AdapterInputs' = AdapterInputs
    BY <2>1 DEF AdapterInputs, Extras
  <2>3. Queue(recency', store', time')
    BY <2>1 DEF SourceSafe, CacheSafe, Queue
  <2>4. EntriesAreSeen'
    BY <2>1, <2>2 DEF SourceSafe, CacheSafe, EntriesAreSeen, Sighted
  <2>5. CallersAre' /\ AnswersTheQuestion'
    BY <2>1, <2>2 DEF SourceSafe, CallersAre, AnswersTheQuestion
  <2> QED
    BY <2>1, <2>3, <2>4, <2>5 DEF SourceSafe, CacheSafe
<1>2. CASE SourceNext
  BY <1>1, <1>2, AskStep, FetchedStep DEF SourceNext
<1> QED
  BY <1>1, <1>2

\* However many callers share an adapter, however long its cache is and
\* entries live, who is told of a success is told what was seen for the
\* question it asked.
THEOREM CallersAreAnswered == SourceSpec => []AnswersTheQuestion
<1>1. SourceSpec => []SourceSafe
  BY SourceStarts, SourceStep, PTL DEF SourceSpec
<1>2. SourceSafe => AnswersTheQuestion
  BY DEF SourceSafe
<1> QED
  BY <1>1, <1>2, PTL

\* A cache never outgrows its size, has each key in its queue once, and the
\* queue is by last use.
THEOREM CachesAreBounded == SourceSpec => []SourcesTypeOK
<1>1. SourceSpec => []SourceSafe
  BY SourceStarts, SourceStep, PTL DEF SourceSpec
<1>2. SourceSafe => SourcesTypeOK
  <2> SUFFICES ASSUME SourceSafe PROVE SourcesTypeOK
    OBVIOUS
  <2>1. Queue(recency, store, time) /\ DOMAIN recency = 1..Len(recency)
    BY DEF SourceSafe, CacheSafe, Queue
  <2>2. Cardinality(DOMAIN store) = Len(recency)
    BY <2>1, QueueIsCounted
  <2> QED
    BY <2>1, <2>2 DEF SourceSafe, CacheSafe, Queue, Elements, SourcesTypeOK
<1> QED
  BY <1>1, <1>2, PTL

-----------------------------------------------------------------------------
(* What a facilitator says.                                                *)

Passed == {"verified", "settling", "settled", "failed", "pending"}

\* What one payment's standing says of what was heard for it; until the
\* settle call goes out its request id is the one kept for the payment.
StandsAsSaid(p) ==
  /\ standing[p] \in Passed =>
       SaidVerified(p) /\ (mode = "production" <=> provider # "fixture")
  /\ standing[p] = "verified" /\ provider # "cdp" => requestIds[p] = heard[p].verify.request
  /\ standing[p] \in Passed \ {"verified"} /\ provider # "cdp" => sent[p] = heard[p].verify.request
  /\ standing[p] = "settled" => SaidSettled(p)
  /\ standing[p] = "failed" => SaidNo(p)

FacilitatorSafe == FacilitatorTypeOK /\ \A p \in Identifiers : StandsAsSaid(p)

\* Nothing has been heard of a payment that is new.
LEMMA FacilitatorStarts == FacilitatorInit => FacilitatorSafe
BY RepliesAssumption
DEF FacilitatorInit, FacilitatorSafe, FacilitatorTypeOK, StandsAsSaid, Passed, Standings, Tokens, Payers, Trusts,
    NoReply, NoProof, Resolves

\* The evidence of a verify call.
LEMMA VerificationType ==
  ASSUME NEW r \in VerifyReplies
  PROVE  Verification(r) \in [verified : BOOLEAN, payer : Payers, trust : Trusts]
BY RepliesAssumption
DEF RepliesAssumption, Verification, UnderstoodVerify, Confirms, Text, Trust, Payers, Trusts

\* A verification that counts is one the facilitator has given.
LEMMA VerificationCounts ==
  ASSUME NEW r \in VerifyReplies, Verification(r).verified, TrustAllowed(Verification(r).trust),
         provider \in {"cdp", "nevermined", "fixture"}, mode \in {"fixture", "production"}
  PROVE  /\ r.http = "ok" /\ r.valid = "true"
         /\ provider # "cdp" => /\ r.network # "different" /\ r.payer \in {"buyer", "stranger"}
                                /\ Verification(r).payer = r.payer
         /\ mode = "production" <=> provider # "fixture"
<1>1. r.http = "ok" /\ r.valid = "true"
  <2>1. CASE provider = "cdp"
    BY <2>1 DEF Verification, UnderstoodVerify
  <2>2. CASE provider # "cdp"
    BY <2>2 DEF Verification, UnderstoodVerify, Confirms
  <2> QED
    BY <2>1, <2>2
<1>2. ASSUME provider # "cdp"
      PROVE  r.network # "different" /\ r.payer \in {"buyer", "stranger"} /\ Verification(r).payer = r.payer
  BY <1>2 DEF Verification, Confirms, Text
<1>3. UnderstoodVerify(r)
  BY <1>1 DEF UnderstoodVerify
<1>4. mode = "production" <=> provider # "fixture"
  BY <1>3 DEF Verification, TrustAllowed, Trust
<1> QED
  BY <1>1, <1>2, <1>4

\* A settlement that counts is one the facilitator has given.
LEMMA SettlementCounts ==
  ASSUME NEW r \in SettleReplies, NEW payer, Settlement(r, payer).success,
         provider \in {"cdp", "nevermined", "fixture"}
  PROVE  /\ r.http = "ok" /\ CountsAsSuccess(r.success) /\ r.network # "different" /\ r.credits # "different"
         /\ r.transaction \notin {"absent", "empty"}
         /\ provider # "cdp" => /\ r.payer \in {"absent", "number", payer}
                                /\ r.transaction = IF provider = "nevermined" THEN "hash" ELSE "fixture"
<1>1. CASE provider = "cdp"
  <2>1. CdpReason(r) = "none"
    BY <1>1 DEF Settlement
  <2>2. UnderstoodSettle(r)
    BY <2>1, RepliesAssumption DEF CdpReason, Refuses, RepliesAssumption, Codes
  <2>3. r.success # "false"
    BY <2>1, <2>2, RepliesAssumption DEF CdpReason, RepliesAssumption, Codes
  <2>4. CountsAsSuccess(r.success)
    BY <1>1, <2>2, <2>3 DEF UnderstoodSettle, CountsAsSuccess
  <2> QED
    BY <1>1, <2>1, <2>2, <2>3, <2>4 DEF CdpReason, UnderstoodSettle
<1>2. CASE provider # "cdp"
  <2>1. NeverminedReason(r, payer) = "none"
    BY <1>2 DEF Settlement
  <2>2. UnderstoodSettle(r) /\ SuccessSaid(r) \notin {"explicit_failure", "ambiguous"}
    BY <2>1 DEF NeverminedReason
  <2>3. /\ Text(r.payer) \in {"absent", payer} /\ Text(r.network) # "different" /\ Text(r.credits) # "different"
        /\ r.transaction = IF provider = "nevermined" THEN "hash" ELSE "fixture"
    BY <2>1, <2>2 DEF NeverminedReason
  <2>4. CountsAsSuccess(r.success)
    <3>1. r \in [http : Https, success : Flags, payer : Payers, network : Networks,
                 credits : Credits, transaction : Transactions, code : Codes]
      BY RepliesAssumption DEF RepliesAssumption
    <3>2. r.success \in {"true", "false", "absent", "other"}
      BY <3>1 DEF Flags
    <3>3. Success(r) # "false" /\ (Success(r) # "other")
      BY <2>2 DEF SuccessSaid
    <3>4. CASE r.success = "other"
      BY <1>2, <3>3, <3>4 DEF Success, CountsAsSuccess
    <3>5. CASE r.success # "other"
      BY <1>2, <3>2, <3>3, <3>5 DEF Success, CountsAsSuccess
    <3> QED
      BY <3>4, <3>5
  <2> QED
    BY <1>2, <2>2, <2>3, <2>4 DEF UnderstoodSettle, Text
<1> QED
  BY <1>1, <1>2

\* A refusal is the facilitator's own.
LEMMA RefusalIsSaid ==
  ASSUME NEW r \in SettleReplies, NEW payer, Explicit(Settlement(r, payer)),
         provider \in {"cdp", "nevermined", "fixture"}
  PROVE  \/ r.http = "ok" /\ r.success = "false"
         \/ provider = "cdp" /\ Refuses(r)
<1>1. CASE provider = "cdp"
  <2>1. CdpReason(r) \notin StructuralOnly \cup {"none"}
    BY <1>1 DEF Explicit, Settlement
  <2>2. Settlement(r, payer).trust = Trust(UnderstoodSettle(r) \/ Refuses(r))
    BY <1>1 DEF Settlement
  <2>3. UnderstoodSettle(r) \/ Refuses(r)
    BY <1>1, <2>2 DEF Explicit, Trust
  <2>4. ASSUME UnderstoodSettle(r)
        PROVE  r.http = "ok" /\ r.success = "false"
    BY <1>1, <2>1, <2>4 DEF CdpReason, StructuralOnly, UnderstoodSettle
  <2> QED
    BY <1>1, <2>3, <2>4
<1>2. CASE provider # "cdp"
  <2>1. NeverminedReason(r, payer) = "provider_rejected"
    BY <1>2 DEF Explicit, Settlement
  <2>2. UnderstoodSettle(r) /\ SuccessSaid(r) = "explicit_failure"
    BY <2>1 DEF NeverminedReason
  <2> QED
    BY <2>2 DEF UnderstoodSettle, SuccessSaid, Success
<1> QED
  BY <1>1, <1>2

\* Every step leaves each payment standing as it was said to.
LEMMA FacilitatorStep == FacilitatorSafe /\ [FacilitatorNext]_facilitatorVars => FacilitatorSafe'
<1> SUFFICES ASSUME FacilitatorSafe, [FacilitatorNext]_facilitatorVars
             PROVE  FacilitatorSafe'
  OBVIOUS
<1> USE DEF FacilitatorSafe
<1>1. CASE Evict
  <2>1. FacilitatorTypeOK'
    BY <1>1 DEF Evict, FacilitatorTypeOK, Standings, Tokens
  <2>2. ASSUME NEW p \in Identifiers
        PROVE  StandsAsSaid(p)'
    BY <1>1 DEF Evict, FacilitatorTypeOK, StandsAsSaid, Passed, SaidVerified, SaidSettled, CountsAsSuccess, SaidNo, Refuses
  <2> QED
    BY <2>1, <2>2
<1>2. ASSUME NEW p \in Identifiers, AskFacilitator(p)
      PROVE  FacilitatorSafe'
  <2>1. FacilitatorTypeOK'
    BY <1>2 DEF AskFacilitator, FacilitatorTypeOK, Standings
  <2>2. ASSUME NEW q \in Identifiers
        PROVE  StandsAsSaid(q)'
    BY <1>2 DEF AskFacilitator, FacilitatorTypeOK, StandsAsSaid, Passed, SaidVerified, SaidSettled, CountsAsSuccess, SaidNo, Refuses
  <2> QED
    BY <2>1, <2>2
<1>3. ASSUME NEW p \in Identifiers, Verified(p)
      PROVE  FacilitatorSafe'
  <2>1. PICK r \in VerifyReplies :
          /\ proof' = [proof EXCEPT ![p] = Verification(r)]
          /\ heard' = [heard EXCEPT ![p].verify = r]
          /\ requestIds' = IF provider # "cdp" /\ Verification(r).verified
                           THEN [requestIds EXCEPT ![p] = r.request] ELSE requestIds
          /\ standing' = [standing EXCEPT ![p] =
               IF Verification(r).verified /\ TrustAllowed(Verification(r).trust) THEN "verified" ELSE "rejected"]
    BY <1>3 DEF Verified
  <2>2. standing[p] = "verifying" /\ UNCHANGED <<provider, mode, sent>>
    BY <1>3 DEF Verified
  <2>3. Verification(r) \in [verified : BOOLEAN, payer : Payers, trust : Trusts]
    BY VerificationType
  <2>4. r.request \in Tokens
    BY RepliesAssumption DEF RepliesAssumption
  <2>5. FacilitatorTypeOK'
    BY <2>1, <2>2, <2>3, <2>4 DEF FacilitatorTypeOK, Standings
  <2>6. ASSUME NEW q \in Identifiers, q # p
        PROVE  StandsAsSaid(q)'
    BY <2>1, <2>2, <2>6 DEF FacilitatorTypeOK, StandsAsSaid, Passed, SaidVerified, SaidSettled, CountsAsSuccess, SaidNo, Refuses
  <2>7. heard'[p].verify = r /\ proof'[p] = Verification(r)
    BY <2>1 DEF FacilitatorTypeOK
  <2>8. ASSUME Verification(r).verified /\ TrustAllowed(Verification(r).trust)
        PROVE  StandsAsSaid(p)'
    <3>1. /\ r.http = "ok" /\ r.valid = "true"
          /\ provider # "cdp" => /\ r.network # "different" /\ r.payer \in {"buyer", "stranger"}
                                 /\ Verification(r).payer = r.payer
          /\ mode = "production" <=> provider # "fixture"
      BY <2>8, VerificationCounts DEF FacilitatorTypeOK
    <3>2. standing'[p] = "verified" /\ (provider # "cdp" => requestIds'[p] = r.request)
      BY <2>8, <2>1 DEF FacilitatorTypeOK
    <3> QED
      BY <3>1, <3>2, <2>2, <2>7 DEF StandsAsSaid, Passed, SaidVerified, SaidSettled, CountsAsSuccess, SaidNo, Refuses
  <2>9. ASSUME ~(Verification(r).verified /\ TrustAllowed(Verification(r).trust))
        PROVE  StandsAsSaid(p)'
    <3>1. standing'[p] = "rejected"
      BY <2>9, <2>1 DEF FacilitatorTypeOK
    <3> QED
      BY <3>1 DEF StandsAsSaid, Passed, SaidVerified, SaidSettled, CountsAsSuccess, SaidNo, Refuses
  <2> QED
    BY <2>5, <2>6, <2>8, <2>9
<1>4. ASSUME NEW p \in Identifiers, Charge(p)
      PROVE  FacilitatorSafe'
  <2>1. FacilitatorTypeOK'
    BY <1>4 DEF Charge, FacilitatorTypeOK, Standings
  <2>2. ASSUME NEW q \in Identifiers
        PROVE  StandsAsSaid(q)'
    BY <1>4 DEF Charge, FacilitatorTypeOK, StandsAsSaid, Passed, SaidVerified, SaidSettled, CountsAsSuccess, SaidNo, Refuses
  <2> QED
    BY <2>1, <2>2
<1>5. ASSUME NEW p \in Identifiers, Settled(p)
      PROVE  FacilitatorSafe'
  <2> DEFINE found(r) == Settlement(r, proof[p].payer)
  <2>1. PICK r \in SettleReplies :
          /\ heard' = [heard EXCEPT ![p].settle = r]
          /\ requestIds' = IF provider # "cdp" /\ UnderstoodSettle(r)
                           THEN [requestIds EXCEPT ![p] = "absent"] ELSE requestIds
          /\ standing' = [standing EXCEPT ![p] =
               IF found(r).success /\ TrustAllowed(found(r).trust) THEN "settled"
               ELSE IF Explicit(found(r)) THEN "failed" ELSE "pending"]
    BY <1>5 DEF Settled
  <2>2. standing[p] = "settling" /\ UNCHANGED <<provider, mode, proof, sent>>
    BY <1>5 DEF Settled
  <2>3. FacilitatorTypeOK'
    BY <2>1, <2>2 DEF FacilitatorTypeOK, Standings, Tokens
  <2>4. ASSUME NEW q \in Identifiers, q # p
        PROVE  StandsAsSaid(q)'
    BY <2>1, <2>2, <2>4 DEF FacilitatorTypeOK, StandsAsSaid, Passed, SaidVerified, SaidSettled, CountsAsSuccess, SaidNo, Refuses
  <2>5. heard'[p].verify = heard[p].verify /\ heard'[p].settle = r
    BY <2>1 DEF FacilitatorTypeOK
  <2>6. SaidVerified(p)' /\ (mode = "production" <=> provider # "fixture")
        /\ (provider # "cdp" => sent[p] = heard[p].verify.request)
    BY <2>2, <2>5 DEF StandsAsSaid, Passed, SaidVerified
  <2>7. standing'[p] = (IF found(r).success /\ TrustAllowed(found(r).trust) THEN "settled"
                        ELSE IF Explicit(found(r)) THEN "failed" ELSE "pending")
    BY <2>1 DEF FacilitatorTypeOK
  <2>8. standing'[p] = "settled" => SaidSettled(p)'
    <3>1. SUFFICES ASSUME found(r).success
                   PROVE  SaidSettled(p)'
      BY <2>7
    <3>2. /\ r.http = "ok" /\ CountsAsSuccess(r.success) /\ r.network # "different" /\ r.credits # "different"
          /\ r.transaction \notin {"absent", "empty"}
          /\ provider # "cdp" => /\ r.payer \in {"absent", "number", proof[p].payer}
                                 /\ r.transaction = IF provider = "nevermined" THEN "hash" ELSE "fixture"
      BY <3>1, SettlementCounts DEF FacilitatorTypeOK
    <3> QED
      BY <3>2, <2>2, <2>5 DEF SaidSettled, CountsAsSuccess
  <2>9. standing'[p] = "failed" => SaidNo(p)'
    <3>1. SUFFICES ASSUME Explicit(found(r))
                   PROVE  SaidNo(p)'
      BY <2>7
    <3>2. (r.http = "ok" /\ r.success = "false") \/ (provider = "cdp" /\ Refuses(r))
      BY <3>1, RefusalIsSaid DEF FacilitatorTypeOK
    <3> QED
      BY <3>2, <2>2, <2>5 DEF SaidNo, Refuses
  <2>10. standing'[p] # "verified"
    BY <2>7
  <2>11. StandsAsSaid(p)'
    BY <2>2, <2>5, <2>6, <2>8, <2>9, <2>10 DEF StandsAsSaid
  <2> QED
    BY <2>3, <2>4, <2>11
<1>6. CASE UNCHANGED facilitatorVars
  BY <1>6 DEF facilitatorVars, FacilitatorTypeOK, StandsAsSaid, SaidVerified, SaidSettled, CountsAsSuccess, SaidNo, Refuses
<1> QED
  BY <1>1, <1>2, <1>3, <1>4, <1>5, <1>6 DEF FacilitatorNext

\* For any identifiers and any answers: an outcome the route records is what
\* the facilitator said, and what is not understood leaves a payment open, but
\* for a success that is not a boolean, which Nevermined's client leaves out.
THEOREM OutcomesAreSaid == FacilitatorSpec => []OutcomeIsSaid
<1>1. FacilitatorSpec => []FacilitatorSafe
  BY FacilitatorStarts, FacilitatorStep, PTL DEF FacilitatorSpec
<1>2. FacilitatorSafe => OutcomeIsSaid
  BY DEF FacilitatorSafe, StandsAsSaid, OutcomeIsSaid, Passed
<1> QED
  BY <1>1, <1>2, PTL

-----------------------------------------------------------------------------
(* The order of finitely many places of a list.                            *)

\* Of any two of them one is before the other.
Orders(before, I) ==
  /\ \A i \in I : <<i, i>> \notin before
  /\ \A i, j \in I : <<i, j>> \in before /\ <<j, i>> \in before => FALSE
  /\ \A i, j \in I : i # j => <<i, j>> \in before \/ <<j, i>> \in before
  /\ \A i, j, k \in I : <<i, j>> \in before /\ <<j, k>> \in before => <<i, k>> \in before

\* All of them, one after another.
Lists(f, I, before) ==
  /\ f \in [1..Cardinality(I) -> I]
  /\ \A m, n \in 1..Cardinality(I) : m < n => <<f[m], f[n]>> \in before

\* Among finite sets one has none of the others in it.
LEMMA LeastSet ==
  ASSUME NEW I, IsFiniteSet(I), NEW T \in SUBSET SUBSET I, T # {}
  PROVE  \E X \in T : \A Y \in T : Y \subseteq X => Y = X
<1>1. IsWellFoundedOn(StrictSubsetOrdering(I), SUBSET I)
  BY FS_StrictSubsetOrderingWellFounded, FS_FiniteSubsetsOfFinite
<1>2. PICK X \in T : \A Y \in T : ~ (<<Y, X>> \in StrictSubsetOrdering(I))
  BY <1>1, WFMin
<1>3. ASSUME NEW Y \in T, Y \subseteq X PROVE Y = X
  <2>1. <<Y, X>> \notin StrictSubsetOrdering(I)
    BY <1>2
  <2> QED
    BY <2>1, <1>3 DEF StrictSubsetOrdering
<1> QED
  BY <1>3

\* One of them is the last.
LEMMA HasLast ==
  ASSUME NEW I, IsFiniteSet(I), NEW before, Orders(before, I)
  PROVE  \A X \in SUBSET I : X # {} => \E x \in X : \A y \in X \ {x} : <<y, x>> \in before
<1> DEFINE T == {X \in SUBSET I : X # {} /\ ~ \E x \in X : \A y \in X \ {x} : <<y, x>> \in before}
<1> SUFFICES ASSUME T # {} PROVE FALSE
  OBVIOUS
<1>1. PICK X \in T : \A Y \in T : Y \subseteq X => Y = X
  <2>1. T \in SUBSET SUBSET I
    OBVIOUS
  <2> HIDE DEF T
  <2> QED
    BY <2>1, LeastSet
<1>2. PICK x \in X : TRUE
  OBVIOUS
<1>3. X \ {x} # {}
  OBVIOUS
<1>4. X \ {x} \notin T
  BY <1>1
<1>5. PICK y \in X \ {x} : \A z \in (X \ {x}) \ {y} : <<z, y>> \in before
  BY <1>3, <1>4
<1>6. CASE <<x, y>> \in before
  <2>1. \A z \in X \ {y} : <<z, y>> \in before
    BY <1>5, <1>6
  <2> QED
    BY <2>1
<1>7. CASE <<y, x>> \in before
  <2>1. \A z \in X \ {x} : <<z, x>> \in before
    <3> SUFFICES ASSUME NEW z \in X \ {x} PROVE <<z, x>> \in before
      OBVIOUS
    <3>1. z = y \/ <<z, y>> \in before
      BY <1>5
    <3> QED
      BY <3>1, <1>7 DEF Orders
  <2> QED
    BY <2>1
<1> QED
  BY <1>6, <1>7 DEF Orders

\* They can be listed in their order: all but the last, and the last.
LEMMA ListExists ==
  ASSUME NEW I, IsFiniteSet(I), NEW before, Orders(before, I)
  PROVE  \A X \in SUBSET I : \E f : Lists(f, X, before)
<1> DEFINE T == {X \in SUBSET I : ~ \E f : Lists(f, X, before)}
<1> SUFFICES ASSUME T # {} PROVE FALSE
  OBVIOUS
<1>1. PICK X \in T : \A Y \in T : Y \subseteq X => Y = X
  <2>1. T \in SUBSET SUBSET I
    OBVIOUS
  <2> HIDE DEF T
  <2> QED
    BY <2>1, LeastSet
<1>2. X \in SUBSET I /\ IsFiniteSet(X)
  BY FS_Subset
<1>3. X # {}
  <2> SUFFICES ASSUME X = {} PROVE FALSE
    OBVIOUS
  <2>1. Cardinality(X) = 0
    BY FS_EmptySet
  <2>2. Lists([n \in 1..0 |-> 0], X, before)
    BY <2>1 DEF Lists
  <2> QED
    BY <2>2
<1>4. PICK x \in X : \A y \in X \ {x} : <<y, x>> \in before
  BY <1>2, <1>3, HasLast
<1>5. X \ {x} \notin T
  BY <1>1
<1>6. PICK f : Lists(f, X \ {x}, before)
  BY <1>2, <1>5
<1>7. /\ Cardinality(X) \in Nat /\ Cardinality(X \ {x}) \in Nat
      /\ Cardinality(X) = Cardinality(X \ {x}) + 1
  <2>1. IsFiniteSet(X \ {x}) /\ Cardinality(X \ {x}) = Cardinality(X) - 1
    BY <1>2, FS_RemoveElement
  <2>2. Cardinality(X) \in Nat /\ Cardinality(X \ {x}) \in Nat
    BY <1>2, <2>1, FS_CardinalityType
  <2> QED
    BY <2>1, <2>2
<1> DEFINE n == Cardinality(X \ {x})
<1>a. n \in Nat /\ Cardinality(X) = n + 1
  BY <1>7
<1>b. /\ f \in [1..n -> X \ {x}]
      /\ \A k, m \in 1..n : k < m => <<f[k], f[m]>> \in before
  BY <1>6 DEF Lists
<1> HIDE DEF n
<1> DEFINE g == [m \in 1..n + 1 |-> IF m = n + 1 THEN x ELSE f[m]]
<1>8. g \in [1..n + 1 -> X]
  BY <1>a, <1>b
<1>9. ASSUME NEW k \in 1..n + 1, NEW m \in 1..n + 1, k < m PROVE <<g[k], g[m]>> \in before
  <2>1. k \in 1..n /\ g[k] = f[k] /\ f[k] \in X \ {x}
    BY <1>a, <1>b, <1>9
  <2>2. CASE m = n + 1
    BY <2>1, <2>2, <1>4
  <2>3. CASE m # n + 1
    BY <2>1, <2>3, <1>a, <1>b, <1>9
  <2> QED
    BY <2>2, <2>3
<1>10. Lists(g, X, before)
  BY <1>a, <1>8, <1>9 DEF Lists
<1> QED
  BY <1>10

\* Such a list has each of them, and once.
LEMMA ListIsOnto ==
  ASSUME NEW I, IsFiniteSet(I), NEW before, Orders(before, I), NEW f, Lists(f, I, before)
  PROVE  /\ \A m, n \in 1..Cardinality(I) : f[m] = f[n] => m = n
         /\ \A i \in I : \E n \in 1..Cardinality(I) : f[n] = i
<1>1. Cardinality(I) \in Nat
  BY FS_CardinalityType
<1>2. \A m, n \in 1..Cardinality(I) : f[m] = f[n] => m = n
  <2> SUFFICES ASSUME NEW m \in 1..Cardinality(I), NEW n \in 1..Cardinality(I), f[m] = f[n], m # n
               PROVE  FALSE
    OBVIOUS
  <2>1. m < n \/ n < m
    BY <1>1
  <2>2. <<f[m], f[m]>> \in before /\ f[m] \in I
    BY <2>1 DEF Lists
  <2> QED
    BY <2>2 DEF Orders
<1>3. f \in Injection(1..Cardinality(I), I)
  BY <1>2 DEF Injection, IsInjective, Lists
<1>4. Cardinality(1..Cardinality(I)) = Cardinality(I)
  BY <1>1, FS_Interval
<1>5. f \in Surjection(1..Cardinality(I), I)
  BY <1>3, <1>4, FS_Injection
<1> QED
  BY <1>2, <1>5 DEF Surjection

-----------------------------------------------------------------------------
(* Lists of rows. *)

\* The order of the values, and of the places where they are one.
By(value, I) == {p \in I \X I : value[p[1]] < value[p[2]] \/ (value[p[1]] = value[p[2]] /\ p[1] < p[2])}

\* Places of a list of n rows, and what each row goes by.
Positions(n, I, value) == n \in Nat /\ I \in SUBSET (1..n) /\ value \in [1..n -> Int]

\* Where each place of the arranged rows comes from.
LEMMA Arranged ==
  ASSUME NEW n, NEW I, NEW value, Positions(n, I, value)
  PROVE  /\ Cardinality(I) \in Nat
         /\ Ordered(I, value) \in [1..Cardinality(I) -> I]
         /\ \A a, b \in 1..Cardinality(I) : Ordered(I, value)[a] = Ordered(I, value)[b] => a = b
         /\ \A i \in I : \E a \in 1..Cardinality(I) : Ordered(I, value)[a] = i
<1> DEFINE before == By(value, I)
<1> n \in Nat /\ I \in SUBSET (1..n) /\ value \in [1..n -> Int]
  BY DEF Positions
<1>1. IsFiniteSet(I) /\ Cardinality(I) \in Nat
  <2>1. IsFiniteSet(1..n)
    BY FS_Interval
  <2> QED
    BY <2>1, FS_Subset, FS_CardinalityType
<1>2. Orders(before, I)
  <2>1. \A i \in I : i \in Int /\ value[i] \in Int
    OBVIOUS
  <2>2. \A i, j \in I : <<i, j>> \in before <=> value[i] < value[j] \/ (value[i] = value[j] /\ i < j)
    BY DEF By
  <2> HIDE DEF before
  <2>3. /\ \A i \in I : <<i, i>> \notin before
        /\ \A i, j \in I : <<i, j>> \in before /\ <<j, i>> \in before => FALSE
        /\ \A i, j \in I : i # j => <<i, j>> \in before \/ <<j, i>> \in before
    BY <2>1, <2>2
  <2>4. \A i, j, k \in I : <<i, j>> \in before /\ <<j, k>> \in before => <<i, k>> \in before
    BY <2>1, <2>2
  <2> QED
    BY <2>3, <2>4 DEF Orders
<1>3. PICK g : Lists(g, I, before)
  <2>1. I \in SUBSET I
    OBVIOUS
  <2> HIDE DEF before
  <2> QED
    BY <1>1, <1>2, <2>1, ListExists
<1>4. Orderings(I, value) = {f \in [1..Cardinality(I) -> I] : Lists(f, I, before)}
  <2> SUFFICES ASSUME NEW f \in [1..Cardinality(I) -> I]
               PROVE  (\A a, b \in DOMAIN f : a < b => value[f[a]] < value[f[b]] \/ (value[f[a]] = value[f[b]] /\ f[a] < f[b]))
                      <=> Lists(f, I, before)
    BY DEF Orderings
  <2>1. DOMAIN f = 1..Cardinality(I) /\ \A a \in DOMAIN f : f[a] \in I
    OBVIOUS
  <2> QED
    BY <2>1 DEF Lists, By
<1>5. g \in Orderings(I, value)
  BY <1>3, <1>4 DEF Lists
<1> DEFINE f == Ordered(I, value)
           c == Cardinality(I)
<1>6. f \in Orderings(I, value)
  BY <1>5 DEF Ordered
<1>7. Lists(f, I, before)
  BY <1>4, <1>6
<1>8. f \in [1..c -> I]
  BY <1>7 DEF Lists
<1> HIDE DEF before, f
<1>9. /\ \A a, b \in 1..c : f[a] = f[b] => a = b
      /\ \A i \in I : \E a \in 1..c : f[a] = i
  BY <1>1, <1>2, <1>7, ListIsOnto
<1> QED
  BY <1>1, <1>8, <1>9 DEF f

\* What is in a list of rows is a row.
LEMMA RowsAre ==
  ASSUME NEW rows \in Seq(Rows), NEW i \in DOMAIN rows
  PROVE  /\ i \in Nat /\ rows[i] \in Rows
         /\ rows[i].id \in RowIds /\ rows[i].key \in RowKeys /\ rows[i].data \in 0..1 /\ rows[i].at \in Int
<1>1. i \in Nat /\ rows[i] \in Rows
  OBVIOUS
<1>2. rows[i].id \in RowIds /\ rows[i].key \in RowKeys /\ rows[i].data \in 0..1 /\ rows[i].at \in RowTimes
  BY <1>1 DEF Rows
<1>3. RowTimes \subseteq Int
  <2>1. Nat \subseteq Int
    OBVIOUS
  <2> QED
    BY <2>1, PairAssumption
<1> QED
  BY <1>1, <1>2, <1>3

\* An order is one of its values and places alone.
LEMMA ArrangedAlike ==
  ASSUME NEW rows, NEW I, NEW value, NEW other, Orderings(I, value) = Orderings(I, other)
  PROVE  Arrange(rows, I, value) = Arrange(rows, I, other)
BY DEF Arrange, Ordered

\* Each row has an id of its own.
DistinctIds(rows) == \A i, j \in DOMAIN rows : rows[i].id = rows[j].id => i = j

\* Rows that are taken out of a list are rows, these rows, and each once.
LEMMA ArrangedRows ==
  ASSUME NEW rows \in Seq(Rows), NEW I \in SUBSET DOMAIN rows, NEW value \in [DOMAIN rows -> Int]
  PROVE  /\ Arrange(rows, I, value) \in Seq(Rows)
         /\ Seqs!ToSet(Arrange(rows, I, value)) = {rows[i] : i \in I}
         /\ DistinctIds(rows) => DistinctIds(Arrange(rows, I, value))
<1>1. DOMAIN rows = 1..Len(rows) /\ Len(rows) \in Nat /\ rows \in [1..Len(rows) -> Rows]
  OBVIOUS
<1> DEFINE c == Cardinality(I)
           f == Ordered(I, value)
<1>2. /\ c \in Nat /\ f \in [1..c -> I]
      /\ \A a, b \in 1..c : f[a] = f[b] => a = b
      /\ \A i \in I : \E a \in 1..c : f[a] = i
  <2>1. Positions(Len(rows), I, value)
    BY <1>1 DEF Positions
  <2> QED
    BY <2>1, Arranged
<1> DEFINE some == [a \in 1..c |-> rows[f[a]]]
<1>a. Arrange(rows, I, value) = some
  BY DEF Arrange
<1> HIDE DEF c, f
<1>3. some \in [1..c -> Rows] /\ DOMAIN some = 1..c
  BY <1>1, <1>2
<1>4. some \in Seq(Rows)
  BY <1>2, <1>3, IsASeq
<1>5. {some[a] : a \in DOMAIN some} = {rows[i] : i \in I}
  BY <1>2, <1>3
<1>6. DistinctIds(rows) => DistinctIds(some)
  BY <1>1, <1>2, <1>3 DEF DistinctIds
<1>7. Seqs!ToSet(some) = {rows[i] : i \in I}
  BY <1>5 DEF Seqs!ToSet
<1> HIDE DEF some
<1> QED
  BY <1>a, <1>4, <1>6, <1>7

\* So it is of rows in the order they came,
LEMMA WhereIsArranged ==
  ASSUME NEW rows \in Seq(Rows), NEW I \in SUBSET DOMAIN rows
  PROVE  /\ Where(rows, I) \in Seq(Rows)
         /\ Seqs!ToSet(Where(rows, I)) = {rows[i] : i \in I}
         /\ DistinctIds(rows) => DistinctIds(Where(rows, I))
<1>1. [i \in DOMAIN rows |-> i] \in [DOMAIN rows -> Int]
  OBVIOUS
<1> QED
  BY <1>1, ArrangedRows DEF Where

\* and of rows in the order of their times.
LEMMA ByTimeIsArranged ==
  ASSUME NEW rows \in Seq(Rows), NEW I \in SUBSET DOMAIN rows
  PROVE  /\ ByTime(rows, I) \in Seq(Rows)
         /\ Seqs!ToSet(ByTime(rows, I)) = {rows[i] : i \in I}
<1>1. [i \in DOMAIN rows |-> rows[i].at] \in [DOMAIN rows -> Int]
  BY RowsAre
<1> QED
  BY <1>1, ArrangedRows DEF ByTime

\* Rows that came in the order of their times are in that order.
LEMMA InOrderIsByTime ==
  ASSUME NEW rows \in Seq(Rows), NEW I \in SUBSET DOMAIN rows,
         \A i, j \in DOMAIN rows : i < j => rows[i].at < rows[j].at
  PROVE  ByTime(rows, I) = Where(rows, I)
<1> DEFINE times == [i \in DOMAIN rows |-> rows[i].at]
           place == [i \in DOMAIN rows |-> i]
<1>1. \A i \in DOMAIN rows : rows[i].at \in Int /\ i \in Int
  BY RowsAre
<1>2. \A i, j \in I : (times[i] < times[j] \/ (times[i] = times[j] /\ i < j))
                      <=> (place[i] < place[j] \/ (place[i] = place[j] /\ i < j))
  <2> TAKE i, j \in I
  <2>1. i < j \/ i = j \/ j < i
    BY <1>1
  <2> QED
    BY <1>1, <2>1
<1>3. Orderings(I, times) = Orderings(I, place)
  <2> HIDE DEF times, place
  <2> SUFFICES ASSUME NEW f \in [1..Cardinality(I) -> I], NEW a \in DOMAIN f, NEW b \in DOMAIN f
               PROVE  (times[f[a]] < times[f[b]] \/ (times[f[a]] = times[f[b]] /\ f[a] < f[b]))
                      <=> (place[f[a]] < place[f[b]] \/ (place[f[a]] = place[f[b]] /\ f[a] < f[b]))
    BY DEF Orderings
  <2>1. f[a] \in I /\ f[b] \in I
    OBVIOUS
  <2> QED
    BY <2>1, <1>2
<1>4. Arrange(rows, I, times) = Arrange(rows, I, place)
  <2> HIDE DEF times, place
  <2> QED
    BY <1>3, ArrangedAlike
<1> QED
  BY <1>4 DEF ByTime, Where

\* A row is found by its id.
LEMMA FoundById ==
  ASSUME NEW rows \in Seq(Rows), DistinctIds(rows), NEW id
  PROVE  /\ ById(rows, id) = <<>> <=> \A i \in DOMAIN rows : rows[i].id # id
         /\ \A i \in DOMAIN rows : rows[i].id = id => ById(rows, id) = <<rows[i]>>
<1> DEFINE I == {i \in DOMAIN rows : rows[i].id = id}
<1>1. CASE I = {}
  BY <1>1 DEF ById, First
<1>2. ASSUME NEW i \in DOMAIN rows, rows[i].id = id PROVE ById(rows, id) = <<rows[i]>>
  <2>1. I = {i}
    BY <1>2 DEF DistinctIds
  <2>2. i \in Int
    OBVIOUS
  <2>3. (CHOOSE k \in I : \A j \in I : k <= j) = i
    BY <2>1, <2>2
  <2> QED
    BY <2>1, <2>3 DEF ById, First
<1>3. (\A i \in DOMAIN rows : rows[i].id # id) => ById(rows, id) = <<>>
  BY <1>1
<1>4. \A i \in DOMAIN rows : <<rows[i]>> # <<>>
  OBVIOUS
<1> QED
  BY <1>2, <1>3, <1>4

\* A row is found by its key where no other has it.
LEMMA FoundByKey ==
  ASSUME NEW rows \in Seq(Rows), \A i, j \in DOMAIN rows : rows[i].key = rows[j].key => i = j, NEW key
  PROVE  /\ OfKey(rows, key) = <<>> <=> \A i \in DOMAIN rows : rows[i].key # key
         /\ \A i \in DOMAIN rows : rows[i].key = key => OfKey(rows, key) = <<rows[i]>>
<1> DEFINE I == {i \in DOMAIN rows : rows[i].key = key}
<1>1. CASE I = {}
  BY <1>1 DEF OfKey, First
<1>2. ASSUME NEW i \in DOMAIN rows, rows[i].key = key PROVE OfKey(rows, key) = <<rows[i]>>
  <2>1. I = {i}
    BY <1>2
  <2>2. i \in Int
    OBVIOUS
  <2>3. (CHOOSE k \in I : \A j \in I : k <= j) = i
    BY <2>1, <2>2
  <2> QED
    BY <2>1, <2>3 DEF OfKey, First
<1>3. (\A i \in DOMAIN rows : rows[i].key # key) => OfKey(rows, key) = <<>>
  BY <1>1
<1>4. \A i \in DOMAIN rows : <<rows[i]>> # <<>>
  OBVIOUS
<1> QED
  BY <1>2, <1>3, <1>4

-----------------------------------------------------------------------------
(* Both of a repository. *)

\* What memory lists has the rows it stores, in their order, as they were
\* when they came; of attempts the first may be any.
ListFollows ==
  /\ repository \notin HasList => list = <<>>
  /\ repository \in HasList => Len(list) = Len(mem)
  /\ repository \in HasList => \A i \in DOMAIN mem : (i = 1 /\ repository = "attempts") \/ list[i].id = mem[i].id
  /\ repository \in HasList \ {"attempts", "quota"} => list = mem
  /\ repository = "attempts" /\ Len(mem) <= 1 => list = mem

\* Until they part both have the same rows, none with the key of another
\* where keys are unique, and the index of memory leads to them.
SameRows ==
  /\ base = mem
  /\ repository \in UniqueKey => \A i, j \in DOMAIN mem : mem[i].key = mem[j].key => i = j
  /\ \A k \in RowKeys : byKey[k] # 0 => \E i \in DOMAIN mem : mem[i].id = byKey[k] /\ mem[i].key = k
  /\ repository \in Indexed => \A i \in DOMAIN mem : byKey[mem[i].key] = mem[i].id

\* The last two answers are one, but for the named differences.
Alike ==
  Fresh \/ said.op \notin {"find", "list"} \/ repository \notin {"attempts", "quota"} =>
    IF said.mem.word = "duplicate" THEN said.d1.word \in {"duplicate", "database_error"}
    ELSE IF said.op = "all" /\ ~ InOrder /\ repository # "services" THEN Seqs!ToSet(said.mem.rows) = Seqs!ToSet(said.d1.rows)
    ELSE said.mem = said.d1

\* What every call keeps.
PairSafe ==
  /\ PairTypeOK
  /\ DistinctIds(mem)
  /\ ListFollows
  /\ ~ parted => SameRows /\ Alike

\* Nothing is kept at first.
LEMMA PairStarts == PairInit => PairSafe
<1> SUFFICES ASSUME PairInit PROVE PairSafe
  OBVIOUS
<1>1. mem = <<>> /\ list = <<>> /\ base = <<>> /\ parted = FALSE /\ halfDays = 0 /\ repository \in Tables
      /\ byKey = [k \in RowKeys |-> 0] /\ said.op = "none" /\ said.mem = said.d1
  BY DEF PairInit
<1>2. PairTypeOK
  <2>1. 0 \in 0..MaxClock
    BY PairAssumption
  <2>2. byKey \in [RowKeys -> RowIds \cup {0}]
    BY <1>1
  <2>3. <<>> \in Seq(Rows)
    OBVIOUS
  <2> QED
    BY <1>1, <2>1, <2>2, <2>3 DEF PairTypeOK
<1>3. DistinctIds(mem) /\ ListFollows /\ SameRows
  BY <1>1 DEF DistinctIds, ListFollows, SameRows
<1>4. Alike
  BY <1>1 DEF Alike
<1> QED
  BY <1>2, <1>3, <1>4 DEF PairSafe

\* Both answers are one answer.
LEMMA OneAnswer == said.mem = said.d1 => Alike
BY DEF Alike

\* What memory lists is in the order in which it is stored.
LEMMA FreshIsSame ==
  ASSUME PairSafe, repository \in HasList, Fresh
  PROVE  list = mem
<1>1. list \in Seq(Rows) /\ mem \in Seq(Rows) /\ Len(list) = Len(mem)
  BY DEF PairSafe, PairTypeOK, ListFollows
<1>2. CASE repository \notin {"attempts", "quota"}
  BY <1>2 DEF PairSafe, ListFollows
<1>3. CASE repository \in {"attempts", "quota"}
  <2>1. \A i \in DOMAIN mem : \E j \in DOMAIN list : mem[i] = list[j]
    BY DEF Fresh, Seqs!ToSet
  <2>2. \A i \in DOMAIN list : \E j \in DOMAIN mem : list[i] = mem[j]
    BY DEF Fresh, Seqs!ToSet
  <2>3. \A i, j \in DOMAIN mem : mem[i].id = mem[j].id => i = j
    BY DEF PairSafe, DistinctIds
  <2>4. \A i \in DOMAIN mem : i # 1 => list[i].id = mem[i].id
    BY DEF PairSafe, ListFollows
  <2>5. DOMAIN list = DOMAIN mem /\ DOMAIN mem = 1..Len(mem)
    BY <1>1
  <2>6. \A i \in DOMAIN mem : i # 1 => list[i] = mem[i]
    BY <2>2, <2>3, <2>4, <2>5
  <2>7. 1 \in DOMAIN mem => list[1] = mem[1]
    <3> SUFFICES ASSUME 1 \in DOMAIN mem PROVE list[1] = mem[1]
      OBVIOUS
    <3>1. PICK j \in DOMAIN list : mem[1] = list[j]
      BY <2>1
    <3>2. j # 1 => list[j] = mem[j] /\ j \in DOMAIN mem
      BY <2>5, <2>6
    <3>3. j = 1
      BY <3>1, <3>2, <2>3
    <3> QED
      BY <3>1, <3>3
  <2>8. \A i \in 1..Len(mem) : list[i] = mem[i]
    BY <2>5, <2>6, <2>7
  <2> QED
    BY <1>1, <2>5, <2>8
<1> QED
  BY <1>2, <1>3

\* The index leads to the row that has the key.
LEMMA IndexFinds ==
  ASSUME PairSafe, ~ parted, repository \in Indexed, NEW key \in RowKeys
  PROVE  ById(mem, byKey[key]) = OfKey(mem, key)
<1>1. /\ mem \in Seq(Rows) /\ DistinctIds(mem)
      /\ \A i, j \in DOMAIN mem : mem[i].key = mem[j].key => i = j
      /\ \A k \in RowKeys : byKey[k] # 0 => \E i \in DOMAIN mem : mem[i].id = byKey[k] /\ mem[i].key = k
      /\ \A i \in DOMAIN mem : byKey[mem[i].key] = mem[i].id
  BY DEF PairSafe, PairTypeOK, SameRows, Indexed, UniqueKey, Tables
<1>2. CASE byKey[key] = 0
  <2>1. \A i \in DOMAIN mem : mem[i].id # 0
    BY <1>1, RowsAre, PairAssumption
  <2>2. \A i \in DOMAIN mem : mem[i].key # key
    BY <1>1, <1>2, <2>1
  <2> QED
    BY <1>1, <1>2, <2>1, <2>2, FoundById, FoundByKey
<1>3. CASE byKey[key] # 0
  <2>1. PICK i \in DOMAIN mem : mem[i].id = byKey[key] /\ mem[i].key = key
    BY <1>1, <1>3
  <2>2. ById(mem, byKey[key]) = <<mem[i]>>
    BY <1>1, <2>1, FoundById
  <2>3. OfKey(mem, key) = <<mem[i]>>
    BY <1>1, <2>1, FoundByKey
  <2> QED
    BY <2>2, <2>3
<1> QED
  BY <1>2, <1>3

\* A call that reads leaves everything as it was.
LEMMA ReadingKeeps ==
  ASSUME PairSafe, UNCHANGED <<repository, mem, byKey, list, base, halfDays, parted>>, ~ parted => Alike'
  PROVE  PairSafe'
<1>1. PairTypeOK' /\ DistinctIds(mem)' /\ ListFollows' /\ (~ parted => SameRows)'
  BY DEF PairSafe, PairTypeOK, DistinctIds, ListFollows, SameRows
<1> QED
  BY <1>1 DEF PairSafe

LEMMA ReadRowStep == ASSUME PairSafe, ~ parted, NEW id \in RowIds, ReadRow(id) PROVE PairSafe'
<1>1. base = mem
  BY DEF PairSafe, SameRows
<1>2. said'.mem = said'.d1
  BY <1>1 DEF ReadRow, Answer
<1>3. Alike'
  BY <1>2 DEF Alike
<1> QED
  BY <1>3, ReadingKeeps DEF ReadRow

LEMMA FindStep == ASSUME PairSafe, ~ parted, NEW key \in RowKeys, Find(key) PROVE PairSafe'
<1>1. base = mem
  BY DEF PairSafe, SameRows
<1>2. /\ UNCHANGED <<repository, mem, byKey, list, base, halfDays, parted>> /\ repository \in UniqueKey
      /\ said' = [op |-> "find", mem |-> Ok(IF repository \in Indexed THEN ById(mem, byKey[key]) ELSE OfKey(list, key)),
                  d1 |-> Ok(OfKey(base, key))]
  BY DEF Find, Answer
<1>3. CASE repository \in Indexed
  <2>1. said'.mem = said'.d1
    BY <1>1, <1>2, <1>3, IndexFinds
  <2>2. Alike'
    BY <2>1 DEF Alike
  <2> QED
    BY <1>2, <2>2, ReadingKeeps
<1>4. CASE repository \notin Indexed
  <2>1. repository \in HasList
    BY <1>2, <1>4 DEF UniqueKey, Tables, Indexed, HasList
  <2>2. ASSUME Fresh \/ repository \notin {"attempts", "quota"} PROVE list = mem
    BY <2>1, <2>2, FreshIsSame DEF PairSafe, ListFollows
  <2>3. ASSUME Fresh \/ repository \notin {"attempts", "quota"} PROVE said'.mem = said'.d1
    BY <1>1, <1>2, <1>4, <2>2, <2>3
  <2>4. Fresh' <=> Fresh
    BY <1>2 DEF Fresh
  <2>5. Alike'
    BY <1>2, <2>3, <2>4 DEF Alike
  <2> QED
    BY <1>2, <2>5, ReadingKeeps
<1> QED
  BY <1>3, <1>4

LEMMA ListStep == ASSUME PairSafe, ~ parted, List PROVE PairSafe'
<1>1. base = mem
  BY DEF PairSafe, SameRows
<1>2. UNCHANGED <<repository, mem, byKey, list, base, halfDays, parted>> /\ repository \in HasList /\ said'.op = "list"
  BY DEF List, Answer
<1>3. ASSUME Fresh \/ repository \notin {"attempts", "quota"} PROVE said'.mem = said'.d1
  <2>1. list = base
    BY <1>1, <1>2, <1>3, FreshIsSame DEF PairSafe, ListFollows
  <2> QED
    BY <2>1 DEF List, Answer
<1>4. Fresh' <=> Fresh
  BY <1>2 DEF Fresh
<1>5. Alike'
  BY <1>2, <1>3, <1>4 DEF Alike
<1> QED
  BY <1>2, <1>5, ReadingKeeps

\* The rows from the last to the first are these rows.
LEMMA ReversedRows ==
  ASSUME NEW rows \in Seq(Rows)
  PROVE  Seqs!ToSet(Seqs!Reverse(rows)) = Seqs!ToSet(rows)
<1> DEFINE back == [i \in 1..Len(rows) |-> rows[(Len(rows) - i) + 1]]
<1>1. Len(rows) \in Nat /\ DOMAIN rows = 1..Len(rows)
  OBVIOUS
<1>2. \A i \in 1..Len(rows) : (Len(rows) - i) + 1 \in 1..Len(rows) /\ (Len(rows) - ((Len(rows) - i) + 1)) + 1 = i
  BY <1>1
<1>3. {back[i] : i \in DOMAIN back} = {rows[i] : i \in DOMAIN rows}
  BY <1>1, <1>2
<1> QED
  BY <1>3 DEF Seqs!ToSet, Seqs!Reverse

LEMMA AllStep == ASSUME PairSafe, ~ parted, All PROVE PairSafe'
<1> DEFINE Wanted == {i \in DOMAIN mem : repository = "jobs" => mem[i].data = 0}
           Newest(rows) == IF repository \in {"audit", "security"} THEN Seqs!Reverse(rows) ELSE rows
<1>1. base = mem /\ mem \in Seq(Rows) /\ Wanted \in SUBSET DOMAIN mem
  BY DEF PairSafe, SameRows, PairTypeOK
<1>2. UNCHANGED <<repository, mem, byKey, list, base, halfDays, parted>>
  BY DEF All
<1>3. said' = [op |-> "all", mem |-> Ok(Newest(Where(mem, Wanted))),
               d1 |-> Ok(IF repository = "services" THEN Where(mem, Wanted) ELSE Newest(ByTime(mem, Wanted)))]
  BY <1>1 DEF All, Answer
<1> DEFINE m == Where(mem, Wanted)
           d == ByTime(mem, Wanted)
<1>4. /\ m \in Seq(Rows) /\ Seqs!ToSet(m) = {mem[i] : i \in Wanted}
      /\ d \in Seq(Rows) /\ Seqs!ToSet(d) = {mem[i] : i \in Wanted}
  <2> HIDE DEF Wanted
  <2> QED
    BY <1>1, WhereIsArranged, ByTimeIsArranged
<1>5. InOrder => d = m
  <2> HIDE DEF Wanted
  <2> QED
    BY <1>1, InOrderIsByTime DEF InOrder
<1> HIDE DEF m, d, Wanted
<1>6. Seqs!ToSet(Newest(m)) = Seqs!ToSet(Newest(d))
  BY <1>4, ReversedRows
<1>7. InOrder' <=> InOrder
  BY <1>2 DEF InOrder
<1>8. said'.op = "all" /\ said'.mem = Ok(Newest(m)) /\ said'.d1 = Ok(IF repository = "services" THEN m ELSE Newest(d))
  BY <1>3 DEF m, d
<1>9. CASE repository = "services"
  <2>1. said'.mem = said'.d1
    BY <1>8, <1>9
  <2>2. Alike'
    BY <2>1 DEF Alike
  <2> QED
    BY <1>2, <2>2, ReadingKeeps
<1>10. CASE repository # "services" /\ InOrder
  <2>1. said'.mem = said'.d1
    BY <1>5, <1>8, <1>10
  <2>2. Alike'
    BY <2>1 DEF Alike
  <2> QED
    BY <1>2, <2>2, ReadingKeeps
<1>11. CASE repository # "services" /\ ~ InOrder
  <2>1. said'.mem = Ok(Newest(m)) /\ said'.d1 = Ok(Newest(d))
    BY <1>8, <1>11
  <2>2. said'.mem.word = "ok" /\ said'.mem.rows = Newest(m) /\ said'.d1.rows = Newest(d)
    BY <2>1 DEF Ok
  <2> HIDE DEF Newest
  <2>3. Alike'
    BY <1>2, <1>6, <1>7, <1>8, <1>11, <2>2 DEF Alike
  <2> QED
    BY <1>2, <2>3, ReadingKeeps
<1> QED
  BY <1>9, <1>10, <1>11

LEMMA WaitStep == ASSUME PairSafe, Wait PROVE PairSafe'
<1>1. PairTypeOK'
  BY PairAssumption DEF PairSafe, PairTypeOK, Wait
<1>2. DistinctIds(mem)' /\ ListFollows' /\ (~ parted => SameRows /\ Alike)'
  BY DEF PairSafe, Wait, DistinctIds, ListFollows, SameRows, Alike, Fresh, InOrder
<1> QED
  BY <1>1, <1>2 DEF PairSafe

\* A row that comes is kept in memory if its id is new.
LEMMA AppendKeeps ==
  ASSUME NEW rows \in Seq(Rows), NEW r \in Rows, DistinctIds(rows), ById(rows, r.id) = <<>>
  PROVE  /\ Append(rows, r) \in Seq(Rows) /\ DistinctIds(Append(rows, r))
         /\ DOMAIN Append(rows, r) = 1..Len(rows) + 1 /\ DOMAIN rows = 1..Len(rows) /\ Len(rows) \in Nat
         /\ \A i \in DOMAIN rows : Append(rows, r)[i] = rows[i] /\ rows[i].id # r.id
         /\ Append(rows, r)[Len(rows) + 1] = r
<1>1. \A i \in DOMAIN rows : rows[i].id # r.id
  BY FoundById
<1>2. /\ Append(rows, r) \in Seq(Rows)
      /\ DOMAIN Append(rows, r) = 1..Len(rows) + 1 /\ DOMAIN rows = 1..Len(rows) /\ Len(rows) \in Nat
      /\ \A i \in DOMAIN rows : Append(rows, r)[i] = rows[i]
      /\ Append(rows, r)[Len(rows) + 1] = r
  OBVIOUS
<1>3. \A i \in 1..Len(rows) + 1 : i \in DOMAIN rows \/ i = Len(rows) + 1
  BY <1>2
<1>4. DistinctIds(Append(rows, r))
  BY <1>1, <1>2, <1>3 DEF DistinctIds
<1> QED
  BY <1>1, <1>2, <1>4

LEMMA CreateStep ==
  ASSUME PairSafe, ~ parted, NEW r \in Rows, NEW orphan \in BOOLEAN, Create(r, orphan)
  PROVE  PairSafe'
<1> DEFINE keeps  == ById(mem, r.id) = <<>>
           stored == ~ Taken(r) /\ ~ orphan
<1>1. /\ mem' = IF keeps THEN Append(mem, r) ELSE mem
      /\ byKey' = IF keeps /\ repository \in Indexed THEN [byKey EXCEPT ![r.key] = r.id] ELSE byKey
      /\ list' = IF keeps /\ repository \in HasList THEN Append(list, r) ELSE list
      /\ base' = IF stored THEN Append(base, r) ELSE base
      /\ said'.op = "create"
      /\ said'.mem = IF keeps THEN Ok(<<r>>) ELSE Word("duplicate")
      /\ said'.d1 = IF stored THEN Ok(<<r>>) ELSE Word(IF Taken(r) THEN Refusal ELSE "database_error")
      /\ parted' = (parted \/ keeps # stored)
      /\ repository' = repository /\ halfDays' = halfDays
  BY DEF Create, Answer
<1>2. /\ mem \in Seq(Rows) /\ list \in Seq(Rows) /\ base = mem /\ DistinctIds(mem) /\ PairTypeOK /\ ListFollows /\ SameRows
      /\ byKey \in [RowKeys -> RowIds \cup {0}]
  BY DEF PairSafe, PairTypeOK, SameRows
<1>3. r.id \in RowIds /\ r.key \in RowKeys
  BY DEF Rows
<1>b. ~ parted' => (keeps <=> stored)
  BY DEF Create
<1> HIDE DEF keeps, stored
<1>4. PairTypeOK'
  <2>1. mem' \in Seq(Rows) /\ list' \in Seq(Rows) /\ base' \in Seq(Rows)
    BY <1>1, <1>2
  <2>2. byKey' \in [RowKeys -> RowIds \cup {0}]
    BY <1>1, <1>2, <1>3
  <2>3. repository' \in Tables /\ halfDays' \in 0..MaxClock /\ parted' \in BOOLEAN
    BY <1>1, <1>2 DEF PairTypeOK
  <2> QED
    BY <2>1, <2>2, <2>3 DEF PairTypeOK
<1>5. DistinctIds(mem)'
  <2>1. CASE keeps
    <3>1. DistinctIds(Append(mem, r))
      BY <1>2, <2>1, AppendKeeps DEF keeps
    <3> QED
      BY <1>1, <2>1, <3>1
  <2>2. CASE ~ keeps
    BY <1>1, <1>2, <2>2
  <2> QED
    BY <2>1, <2>2
<1>6. ListFollows'
  <2>1. CASE ~ keeps
    <3>1. mem' = mem /\ list' = list
      BY <1>1, <2>1
    <3> QED
      BY <1>1, <1>2, <3>1 DEF ListFollows
  <2>2. CASE keeps /\ repository \notin HasList
    BY <1>1, <1>2, <2>2 DEF ListFollows, HasList
  <2>3. CASE keeps /\ repository \in HasList
    <3>1. mem' = Append(mem, r) /\ list' = Append(list, r) /\ repository' = repository
      BY <1>1, <2>3
    <3>2. /\ Len(list) = Len(mem)
          /\ \A i \in DOMAIN mem : (i = 1 /\ repository = "attempts") \/ list[i].id = mem[i].id
          /\ repository \notin {"attempts", "quota"} => list = mem
          /\ repository = "attempts" /\ Len(mem) <= 1 => list = mem
      BY <1>2, <2>3 DEF ListFollows
    <3>3. Len(list') = Len(mem') /\ Len(mem') = Len(mem) + 1 /\ Len(mem) \in Nat
      BY <1>2, <3>1, <3>2
    <3>4. \A i \in DOMAIN mem' : i \in DOMAIN mem \/ i = Len(mem) + 1
      BY <1>2, <3>1
    <3>5. \A i \in DOMAIN mem' : (i = 1 /\ repository = "attempts") \/ list'[i].id = mem'[i].id
      <4> SUFFICES ASSUME NEW i \in DOMAIN mem', ~ (i = 1 /\ repository = "attempts") PROVE list'[i].id = mem'[i].id
        OBVIOUS
      <4>1. CASE i \in DOMAIN mem
        <5>1. i \in 1..Len(mem) /\ i \in 1..Len(list)
          BY <1>2, <3>2, <4>1
        <5>2. list'[i] = list[i] /\ mem'[i] = mem[i]
          BY <1>2, <3>1, <5>1
        <5> QED
          BY <3>2, <4>1, <5>2
      <4>2. CASE i = Len(mem) + 1
        <5>1. list'[i] = r /\ mem'[i] = r
          BY <1>2, <3>1, <3>2, <4>2
        <5> QED
          BY <5>1
      <4> QED
        BY <3>4, <4>1, <4>2
    <3>6. repository \notin {"attempts", "quota"} => list' = mem'
      BY <3>1, <3>2
    <3>7. repository = "attempts" /\ Len(mem') <= 1 => list' = mem'
      BY <3>1, <3>2, <3>3
    <3> QED
      BY <2>3, <3>1, <3>3, <3>5, <3>6, <3>7 DEF ListFollows
  <2> QED
    BY <2>1, <2>2, <2>3
<1>7. ASSUME ~ parted' PROVE SameRows'
  <2>1. keeps <=> stored
    BY <1>b, <1>7
  <2>2. base' = mem'
    BY <1>1, <1>2, <2>1
  <2>3. CASE ~ keeps
    <3>1. mem' = mem /\ byKey' = byKey /\ repository' = repository
      BY <1>1, <2>3
    <3>2. SameRows
      BY <1>2
    <3> QED
      BY <2>2, <3>1, <3>2 DEF SameRows
  <2>4. CASE keeps
    <3>1. mem' = Append(mem, r)
      BY <1>1, <2>4
    <3>2. /\ DOMAIN mem' = 1..Len(mem) + 1 /\ DOMAIN mem = 1..Len(mem) /\ Len(mem) \in Nat
          /\ \A i \in DOMAIN mem : mem'[i] = mem[i] /\ mem[i].id # r.id
          /\ mem'[Len(mem) + 1] = r
      BY <1>2, <2>4, <3>1, AppendKeeps DEF keeps
    <3>3. \A i \in DOMAIN mem' : i \in DOMAIN mem \/ i = Len(mem) + 1
      BY <3>2
    <3>a. DOMAIN mem \subseteq DOMAIN mem' /\ Len(mem) + 1 \in DOMAIN mem'
      BY <3>2
    <3>4. repository \in UniqueKey => \A i \in DOMAIN mem : mem[i].key # r.key
      BY <1>2, <2>1, <2>4 DEF stored, Taken
    <3>5. repository \in UniqueKey => \A i, j \in DOMAIN mem' : mem'[i].key = mem'[j].key => i = j
      <4>1. repository \in UniqueKey => \A i, j \in DOMAIN mem : mem[i].key = mem[j].key => i = j
        BY <1>2 DEF SameRows
      <4> QED
        BY <3>2, <3>3, <3>4, <4>1
    <3>6. repository \in Indexed => repository \in UniqueKey
      BY DEF Indexed, UniqueKey, Tables
    <3>7. /\ \A k \in RowKeys : byKey[k] # 0 => \E i \in DOMAIN mem : mem[i].id = byKey[k] /\ mem[i].key = k
          /\ repository \in Indexed => \A i \in DOMAIN mem : byKey[mem[i].key] = mem[i].id
      BY <1>2 DEF SameRows
    <3>8. CASE repository \in Indexed
      <4>1. byKey' = [byKey EXCEPT ![r.key] = r.id]
        BY <1>1, <2>4, <3>8
      <4>2. byKey'[r.key] = r.id /\ \A k \in RowKeys \ {r.key} : byKey'[k] = byKey[k]
        BY <1>2, <1>3, <4>1
      <4>3. \A k \in RowKeys : byKey'[k] # 0 => \E i \in DOMAIN mem' : mem'[i].id = byKey'[k] /\ mem'[i].key = k
        <5> SUFFICES ASSUME NEW k \in RowKeys, byKey'[k] # 0
                     PROVE  \E i \in DOMAIN mem' : mem'[i].id = byKey'[k] /\ mem'[i].key = k
          OBVIOUS
        <5>1. CASE k = r.key
          BY <3>2, <3>a, <4>2, <5>1
        <5>2. CASE k # r.key
          BY <3>2, <3>a, <3>7, <4>2, <5>2
        <5> QED
          BY <5>1, <5>2
      <4>4. \A i \in DOMAIN mem' : byKey'[mem'[i].key] = mem'[i].id
        <5> SUFFICES ASSUME NEW i \in DOMAIN mem' PROVE byKey'[mem'[i].key] = mem'[i].id
          OBVIOUS
        <5>1. CASE i = Len(mem) + 1
          BY <3>2, <4>2, <5>1
        <5>2. CASE i \in DOMAIN mem
          <6>1. mem[i].key \in RowKeys \ {r.key}
            BY <1>2, <3>4, <3>6, <3>8, <5>2, RowsAre
          <6> QED
            BY <3>2, <3>7, <3>8, <4>2, <5>2, <6>1
        <5> QED
          BY <3>3, <5>1, <5>2
      <4> QED
        BY <1>1, <2>2, <3>5, <4>3, <4>4 DEF SameRows
    <3>9. CASE repository \notin Indexed
      <4>1. byKey' = byKey
        BY <1>1, <3>9
      <4>2. \A k \in RowKeys : byKey'[k] # 0 => \E i \in DOMAIN mem' : mem'[i].id = byKey'[k] /\ mem'[i].key = k
        BY <3>2, <3>a, <3>7, <4>1
      <4> QED
        BY <1>1, <2>2, <3>5, <3>9, <4>2 DEF SameRows
    <3> QED
      BY <3>8, <3>9
  <2> QED
    BY <2>3, <2>4
<1>8. ASSUME ~ parted' PROVE Alike'
  <2>1. keeps <=> stored
    BY <1>b, <1>8
  <2>2. CASE keeps
    <3>1. said'.mem = said'.d1
      BY <1>1, <2>1, <2>2
    <3> QED
      BY <3>1 DEF Alike
  <2>3. CASE ~ keeps
    <3>1. said'.mem.word = "duplicate"
      BY <1>1, <2>3 DEF Word
    <3>2. said'.d1 = Word(Refusal) \/ said'.d1 = Word("database_error")
      BY <1>1, <2>1, <2>3
    <3>3. said'.d1.word \in {"duplicate", "database_error"}
      BY <3>2 DEF Word, Refusal
    <3> QED
      BY <3>1, <3>3 DEF Alike
  <2> QED
    BY <2>2, <2>3
<1> QED
  BY <1>4, <1>5, <1>6, <1>7, <1>8 DEF PairSafe

\* Two lists of the same ids.
SameIds(rows, others) == Len(others) = Len(rows) /\ \A i \in DOMAIN rows : others[i].id = rows[i].id

\* What is dropped is dropped from every list of the same ids alike.
LEMMA DroppedAlike ==
  ASSUME NEW rows \in Seq(Rows), NEW others \in Seq(Rows), NEW ids, SameIds(rows, others)
  PROVE  SameIds(WithoutRows(rows, ids), WithoutRows(others, ids))
<1> DEFINE I == {i \in DOMAIN rows : rows[i].id \notin ids}
           place == [i \in DOMAIN rows |-> i]
           c == Cardinality(I)
           f == Ordered(I, place)
<1>1. /\ DOMAIN others = DOMAIN rows /\ DOMAIN rows = 1..Len(rows) /\ Len(rows) \in Nat
      /\ \A i \in DOMAIN rows : others[i].id = rows[i].id
  BY DEF SameIds
<1>2. {i \in DOMAIN others : others[i].id \notin ids} = I
  BY <1>1
<1>3. [i \in DOMAIN others |-> i] = place
  BY <1>1
<1>4. /\ WithoutRows(rows, ids) = [a \in 1..c |-> rows[f[a]]]
      /\ WithoutRows(others, ids) = [a \in 1..c |-> others[f[a]]]
  BY <1>2, <1>3 DEF WithoutRows, Where, Arrange
<1>5. Positions(Len(rows), I, place)
  BY <1>1 DEF Positions
<1>6. I \subseteq DOMAIN rows
  OBVIOUS
<1> HIDE DEF I, place
<1>7. c \in Nat /\ f \in [1..c -> I]
  BY <1>5, Arranged
<1> HIDE DEF c, f
<1>8. \A a \in 1..c : others[f[a]].id = rows[f[a]].id
  BY <1>1, <1>6, <1>7
<1>9. Len(WithoutRows(rows, ids)) = c /\ Len(WithoutRows(others, ids)) = c /\ DOMAIN WithoutRows(rows, ids) = 1..c
  BY <1>4, <1>7
<1> QED
  BY <1>4, <1>8, <1>9 DEF SameIds

\* What is left of a list without the rows of these ids.
Leaves(rows, ids, left) ==
  /\ left \in Seq(Rows)
  /\ DistinctIds(rows) => DistinctIds(left)
  /\ \A a \in DOMAIN left : \E i \in DOMAIN rows : left[a] = rows[i] /\ rows[i].id \notin ids
  /\ \A i \in DOMAIN rows : rows[i].id \notin ids => \E a \in DOMAIN left : left[a] = rows[i]

\* That is what taking them out leaves.
LEMMA LeftRows ==
  ASSUME NEW rows \in Seq(Rows), NEW ids
  PROVE  Leaves(rows, ids, WithoutRows(rows, ids))
<1> DEFINE I == {i \in DOMAIN rows : rows[i].id \notin ids}
           left == WithoutRows(rows, ids)
<1>1. I \in SUBSET DOMAIN rows
  OBVIOUS
<1>2. left = Where(rows, I)
  BY DEF WithoutRows
<1> HIDE DEF left
<1>3. /\ left \in Seq(Rows)
      /\ Seqs!ToSet(left) = {rows[i] : i \in I}
      /\ DistinctIds(rows) => DistinctIds(left)
  <2> HIDE DEF I
  <2> QED
    BY <1>1, <1>2, WhereIsArranged
<1>4. {left[a] : a \in DOMAIN left} = {rows[i] : i \in I}
  BY <1>3 DEF Seqs!ToSet
<1>5. \A a \in DOMAIN left : \E i \in I : left[a] = rows[i]
  BY <1>4
<1>6. \A i \in I : \E a \in DOMAIN left : left[a] = rows[i]
  BY <1>4
<1> QED
  BY <1>3, <1>5, <1>6 DEF left, Leaves

\* Rows that go from memory go from its index.
LEMMA RemovalKeeps ==
  ASSUME PairSafe, ~ parted, repository \in {"idempotency", "artifacts", "quota"}, NEW gone, NEW goneD1,
         mem' = WithoutRows(mem, gone), list' = WithoutRows(list, gone), base' = WithoutRows(base, goneD1),
         byKey' = [k \in RowKeys |-> IF \E i \in DOMAIN mem : mem[i].id \in gone /\ mem[i].key = k THEN 0 ELSE byKey[k]],
         parted' \in BOOLEAN, ~ parted' => gone = goneD1, ~ parted' => Alike',
         UNCHANGED <<repository, halfDays>>
  PROVE  PairSafe'
<1>1. /\ mem \in Seq(Rows) /\ list \in Seq(Rows) /\ base = mem /\ DistinctIds(mem) /\ PairTypeOK /\ ListFollows /\ SameRows
      /\ byKey \in [RowKeys -> RowIds \cup {0}]
  BY DEF PairSafe, PairTypeOK, SameRows
<1>2. Leaves(mem, gone, mem') /\ Leaves(list, gone, list') /\ Leaves(base, goneD1, base')
  BY <1>1, LeftRows
<1>3. PairTypeOK'
  <2>1. byKey' \in [RowKeys -> RowIds \cup {0}]
    BY <1>1
  <2>2. repository' \in Tables /\ halfDays' \in 0..MaxClock /\ parted' \in BOOLEAN
    BY <1>1 DEF PairTypeOK
  <2> QED
    BY <1>2, <2>1, <2>2 DEF PairTypeOK, Leaves
<1>4. DistinctIds(mem)'
  BY <1>1, <1>2 DEF Leaves
<1>5. ListFollows'
  <2>1. CASE repository = "idempotency"
    <3>1. list = <<>>
      BY <1>1, <2>1 DEF ListFollows, HasList
    <3>2. list' \in Seq(Rows) /\ \A a \in DOMAIN list' : FALSE
      BY <1>2, <3>1 DEF Leaves
    <3>3. Len(list') \in Nat /\ DOMAIN list' = 1..Len(list')
      BY <3>2
    <3>4. list' = <<>>
      <4>1. Len(list') # 0 => 1 \in DOMAIN list'
        BY ONLY <3>3
      <4>2. Len(list') = 0
        BY ONLY <3>2, <4>1
      <4> QED
        BY ONLY <3>2, <4>2, EmptySeq
    <3>5. repository' \notin HasList
      BY <2>1 DEF HasList
    <3> QED
      BY <3>4, <3>5, <2>1 DEF ListFollows
  <2>2. CASE repository = "artifacts"
    <3>1. list = mem
      BY <1>1, <2>2 DEF ListFollows, HasList
    <3>2. list' = mem' /\ repository' = "artifacts"
      BY <2>2, <3>1
    <3>3. SameIds(mem', list')
      BY <3>2 DEF SameIds
    <3> QED
      BY ONLY <3>2, <3>3 DEF ListFollows, HasList, SameIds
  <2>3. CASE repository = "quota"
    <3>1. SameIds(mem, list)
      BY <1>1, <2>3 DEF ListFollows, HasList, SameIds
    <3>2. SameIds(WithoutRows(mem, gone), WithoutRows(list, gone))
      BY <1>1, <3>1, DroppedAlike
    <3>3. SameIds(mem', list')
      BY <3>2
    <3> QED
      BY <2>3, <3>3 DEF ListFollows, HasList, SameIds
  <2> QED
    BY <2>1, <2>2, <2>3
<1>6. ASSUME ~ parted' PROVE SameRows'
  <2>1. base' = mem'
    BY <1>1, <1>6
  <2>2. /\ \A i, j \in DOMAIN mem : mem[i].key = mem[j].key => i = j
        /\ \A k \in RowKeys : byKey[k] # 0 => \E i \in DOMAIN mem : mem[i].id = byKey[k] /\ mem[i].key = k
        /\ repository \in Indexed /\ \A i \in DOMAIN mem : byKey[mem[i].key] = mem[i].id
    BY <1>1 DEF SameRows, UniqueKey, Indexed, Tables
  <2>3. /\ \A a \in DOMAIN mem' : \E i \in DOMAIN mem : mem'[a] = mem[i] /\ mem[i].id \notin gone
        /\ \A i \in DOMAIN mem : mem[i].id \notin gone => \E a \in DOMAIN mem' : mem'[a] = mem[i]
    BY <1>2 DEF Leaves
  <2>4. \A a, b \in DOMAIN mem' : mem'[a].key = mem'[b].key => a = b
    <3> SUFFICES ASSUME NEW a \in DOMAIN mem', NEW b \in DOMAIN mem', mem'[a].key = mem'[b].key PROVE a = b
      OBVIOUS
    <3>1. PICK i \in DOMAIN mem : mem'[a] = mem[i]
      BY <2>3
    <3>2. PICK j \in DOMAIN mem : mem'[b] = mem[j]
      BY <2>3
    <3>3. i = j
      BY <2>2, <3>1, <3>2
    <3> QED
      BY <1>4, <3>1, <3>2, <3>3 DEF DistinctIds
  <2>5. \A k \in RowKeys : byKey'[k] # 0 => \E a \in DOMAIN mem' : mem'[a].id = byKey'[k] /\ mem'[a].key = k
    <3> SUFFICES ASSUME NEW k \in RowKeys, byKey'[k] # 0
                 PROVE  \E a \in DOMAIN mem' : mem'[a].id = byKey'[k] /\ mem'[a].key = k
      OBVIOUS
    <3>1. byKey'[k] = byKey[k] /\ \A i \in DOMAIN mem : mem[i].key = k => mem[i].id \notin gone
      OBVIOUS
    <3>2. PICK i \in DOMAIN mem : mem[i].id = byKey[k] /\ mem[i].key = k
      BY <2>2, <3>1
    <3> QED
      BY <2>3, <3>1, <3>2
  <2>6. \A a \in DOMAIN mem' : byKey'[mem'[a].key] = mem'[a].id
    <3> SUFFICES ASSUME NEW a \in DOMAIN mem' PROVE byKey'[mem'[a].key] = mem'[a].id
      OBVIOUS
    <3>1. PICK i \in DOMAIN mem : mem'[a] = mem[i] /\ mem[i].id \notin gone
      BY <2>3
    <3>2. mem[i].key \in RowKeys
      BY <1>1, RowsAre
    <3>3. ~ \E j \in DOMAIN mem : mem[j].id \in gone /\ mem[j].key = mem[i].key
      BY <2>2, <3>1
    <3> QED
      BY <2>2, <3>1, <3>2, <3>3
  <2> QED
    BY <2>1, <2>4, <2>5, <2>6 DEF SameRows
<1> QED
  BY <1>3, <1>4, <1>5, <1>6 DEF PairSafe

LEMMA DeleteStep == ASSUME PairSafe, ~ parted, NEW id \in RowIds, Delete(id) PROVE PairSafe'
<1>1. base = mem
  BY DEF PairSafe, SameRows
<1>2. said'.mem = said'.d1
  BY <1>1 DEF Delete, Answer
<1>3. Alike'
  BY <1>2 DEF Alike
<1>4. byKey' = [k \in RowKeys |-> IF \E i \in DOMAIN mem : mem[i].id \in {id} /\ mem[i].key = k THEN 0 ELSE byKey[k]]
  BY DEF Delete
<1>5. /\ repository = "artifacts" /\ mem' = WithoutRows(mem, {id}) /\ list' = WithoutRows(list, {id})
      /\ base' = WithoutRows(base, {id}) /\ UNCHANGED <<repository, halfDays, parted>>
  BY DEF Delete
<1>6. parted' \in BOOLEAN
  BY <1>5 DEF PairSafe, PairTypeOK
<1> QED
  BY <1>3, <1>4, <1>5, <1>6, RemovalKeeps

LEMMA ExpireStep == ASSUME PairSafe, ~ parted, Expire PROVE PairSafe'
<1> DEFINE gone   == {mem[i].id : i \in {i \in DOMAIN mem : Past(mem[i].at)}}
           goneD1 == {base[i].id : i \in {i \in DOMAIN base : PastD1(base[i].at)}}
<1>1. /\ repository \in {"idempotency", "artifacts", "quota"}
      /\ mem' = WithoutRows(mem, gone) /\ list' = WithoutRows(list, gone) /\ base' = WithoutRows(base, goneD1)
      /\ byKey' = [k \in RowKeys |-> IF \E i \in DOMAIN mem : mem[i].id \in gone /\ mem[i].key = k THEN 0 ELSE byKey[k]]
      /\ said'.mem = Ok(Where(mem, {i \in DOMAIN mem : mem[i].id \in gone}))
      /\ said'.d1 = Ok(Where(base, {i \in DOMAIN base : base[i].id \in goneD1}))
      /\ parted' = (parted \/ gone # goneD1)
      /\ UNCHANGED <<repository, halfDays>>
  BY DEF Expire, Answer
<1>2. base = mem
  BY DEF PairSafe, SameRows
<1>3. parted' \in BOOLEAN /\ (~ parted' => gone = goneD1)
  BY <1>1
<1> HIDE DEF gone, goneD1
<1>4. ASSUME ~ parted' PROVE Alike'
  <2>1. said'.mem = said'.d1
    BY <1>1, <1>2, <1>3, <1>4
  <2> QED
    BY <2>1 DEF Alike
<1> QED
  BY <1>1, <1>3, <1>4, RemovalKeeps

LEMMA ChangeRowStep ==
  ASSUME PairSafe, ~ parted, NEW id \in RowIds, NEW key \in RowKeys, ChangeRow(id, key)
  PROVE  PairSafe'
<1> DEFINE keyed == repository \in {"idempotency", "quota"}
           m == ById(mem, IF keyed THEN byKey[key] ELSE id)
           d == IF keyed THEN OfKey(base, key) ELSE ById(base, id)
           Set(r) == [r EXCEPT !.data = 1]
<1>1. /\ repository \in {"jobs", "attempts", "idempotency", "dispatches", "quota", "services"}
      /\ mem' = IF m = <<>> THEN mem ELSE WithRow(mem, m[1].id, Set(m[1]))
      /\ list' = IF m = <<>> THEN list ELSE Relisted(Set(m[1]))
      /\ base' = IF d = <<>> THEN base ELSE WithRow(base, d[1].id, Set(d[1]))
      /\ UNCHANGED <<repository, byKey, halfDays, parted>>
  BY DEF ChangeRow
<1>2. /\ mem \in Seq(Rows) /\ list \in Seq(Rows) /\ base = mem /\ DistinctIds(mem) /\ PairTypeOK /\ ListFollows /\ SameRows
  BY DEF PairSafe, PairTypeOK, SameRows
<1>3. d = m
  BY <1>2, IndexFinds DEF Indexed
<1>4. base' = mem'
  BY <1>1, <1>2, <1>3
<1>5. said'.mem = said'.d1
  <2> HIDE DEF m, d
  <2>1. ChangeRow(id, key) => said'.mem = said'.d1
    BY <1>3 DEF ChangeRow, Answer, m, d
  <2> QED
    BY <2>1
<1>6. Alike'
  BY <1>5 DEF Alike
<1>7. CASE m = <<>>
  <2> HIDE DEF m, d
  <2>1. UNCHANGED <<repository, mem, byKey, list, base, halfDays, parted>>
    BY <1>1, <1>2, <1>4, <1>7
  <2> QED
    BY <1>6, <2>1, ReadingKeeps
<1>8. CASE m # <<>>
  <2>1. PICK i \in DOMAIN mem : m = <<mem[i]>>
    BY <1>2, <1>8, FoundById
  <2> HIDE DEF m, d
  <2> DEFINE r == Set(mem[i])
  <2>2. mem' = WithRow(mem, mem[i].id, r) /\ list' = Relisted(r)
    BY <1>1, <1>8, <2>1
  <2>3. r \in Rows /\ r.id = mem[i].id /\ r.key = mem[i].key
    <3>1. mem[i] \in Rows
      BY <1>2, RowsAre
    <3> QED
      BY <3>1 DEF Rows
  <2> HIDE DEF r, Set
  <2>4. /\ DOMAIN mem' = DOMAIN mem /\ DOMAIN mem = 1..Len(mem) /\ Len(mem) \in Nat
        /\ \A j \in DOMAIN mem : mem'[j] = IF j = i THEN r ELSE mem[j]
    BY <1>2, <2>2 DEF WithRow, DistinctIds
  <2>5. mem' \in Seq(Rows) /\ Len(mem') = Len(mem)
    <3>1. mem' = [j \in 1..Len(mem) |-> IF mem[j].id = mem[i].id THEN r ELSE mem[j]]
      BY <2>2, <2>4 DEF WithRow
    <3>2. mem' \in [1..Len(mem) -> Rows]
      BY <1>2, <2>3, <2>4, <3>1, RowsAre
    <3> QED
      BY <2>4, <3>2
  <2>6. \A j \in DOMAIN mem : mem'[j].id = mem[j].id /\ mem'[j].key = mem[j].key
    BY <2>3, <2>4
  <2>7. /\ list' \in Seq(Rows) /\ Len(list') = Len(list)
        /\ \A j \in DOMAIN list : j # 1 \/ repository # "attempts" => list'[j] = list[j]
        /\ repository # "attempts" => list' = list
    <3>1. CASE repository = "attempts" /\ list # <<>>
      <4>1. list' = [list EXCEPT ![1] = r]
        BY <2>2, <3>1 DEF Relisted
      <4>2. 1 \in DOMAIN list
        BY <1>2, <3>1
      <4> QED
        BY <1>2, <2>3, <3>1, <4>1, <4>2
    <3>2. CASE ~ (repository = "attempts" /\ list # <<>>)
      BY <1>2, <2>2, <3>2 DEF Relisted
    <3> QED
      BY <3>1, <3>2
  <2>8. PairTypeOK'
    BY <1>1, <1>2, <1>4, <2>5, <2>7 DEF PairTypeOK
  <2>9. DistinctIds(mem)'
    BY <1>2, <2>4, <2>6 DEF DistinctIds
  <2>10. ListFollows'
    <3>1. CASE repository \notin HasList
      <4>1. list' = <<>>
        BY <1>2, <2>7, <3>1 DEF ListFollows, HasList
      <4> QED
        BY <1>1, <3>1, <4>1 DEF ListFollows, HasList
    <3>2. CASE repository = "quota"
      <4>1. list' = list /\ Len(list) = Len(mem) /\ \A j \in DOMAIN mem : list[j].id = mem[j].id
        BY <1>2, <2>7, <3>2 DEF ListFollows, HasList
      <4>2. Len(list') = Len(mem') /\ \A j \in DOMAIN mem' : list'[j].id = mem'[j].id
        BY <2>4, <2>5, <2>6, <4>1
      <4> QED
        BY <1>1, <3>2, <4>2 DEF ListFollows, HasList
    <3>3. CASE repository = "attempts"
      <4>1. /\ Len(list) = Len(mem) /\ DOMAIN list = DOMAIN mem
            /\ \A j \in DOMAIN mem : j # 1 => list[j].id = mem[j].id
            /\ Len(mem) <= 1 => list = mem
        BY <1>2, <3>3 DEF ListFollows, HasList
      <4>2. Len(list') = Len(mem')
        BY <2>5, <2>7, <4>1
      <4>3. \A j \in DOMAIN mem' : j # 1 => list'[j].id = mem'[j].id
        BY <2>4, <2>6, <2>7, <4>1
      <4>4. Len(mem') <= 1 => list' = mem'
        <5> SUFFICES ASSUME Len(mem) <= 1 PROVE list' = mem'
          BY <2>5
        <5>1. i = 1 /\ Len(mem) = 1
          BY <2>4
        <5>2. list # <<>>
          BY <4>1, <5>1
        <5>3. list' = [list EXCEPT ![1] = r]
          BY <2>2, <3>3, <5>2 DEF Relisted
        <5>4. list'[1] = r /\ mem'[1] = r
          BY <1>2, <2>4, <4>1, <5>1, <5>3
        <5>5. \A j \in 1..1 : list'[j] = mem'[j]
          BY <5>4
        <5>6. Len(list') = 1 /\ Len(mem') = 1
          BY <2>5, <4>2, <5>1
        <5> QED
          BY <2>5, <2>7, <5>5, <5>6
      <4> QED
        BY <1>1, <3>3, <4>2, <4>3, <4>4 DEF ListFollows, HasList
    <3> QED
      BY <1>1, <3>1, <3>2, <3>3 DEF HasList
  <2>11. SameRows'
    <3>1. /\ repository \in UniqueKey => \A a, b \in DOMAIN mem : mem[a].key = mem[b].key => a = b
          /\ \A k \in RowKeys : byKey[k] # 0 => \E a \in DOMAIN mem : mem[a].id = byKey[k] /\ mem[a].key = k
          /\ repository \in Indexed => \A a \in DOMAIN mem : byKey[mem[a].key] = mem[a].id
      BY <1>2 DEF SameRows
    <3>2. repository' = repository /\ byKey' = byKey
      BY <1>1
    <3>3. repository \in UniqueKey => \A a, b \in DOMAIN mem' : mem'[a].key = mem'[b].key => a = b
      BY <2>4, <2>6, <3>1
    <3>4. \A k \in RowKeys : byKey[k] # 0 => \E a \in DOMAIN mem' : mem'[a].id = byKey[k] /\ mem'[a].key = k
      BY <2>4, <2>6, <3>1
    <3>5. repository \in Indexed => \A a \in DOMAIN mem' : byKey[mem'[a].key] = mem'[a].id
      BY <2>4, <2>6, <3>1
    <3> QED
      BY <1>4, <3>2, <3>3, <3>4, <3>5 DEF SameRows
  <2> QED
    BY <1>6, <2>8, <2>9, <2>10, <2>11 DEF PairSafe
<1> QED
  BY <1>7, <1>8

\* Every call keeps it.
LEMMA PairStep == PairSafe /\ [PairNext]_pairVars => PairSafe'
<1> SUFFICES ASSUME PairSafe, [PairNext]_pairVars PROVE PairSafe'
  OBVIOUS
<1>1. CASE PairNext
  <2>1. ~ parted
    BY <1>1 DEF PairNext
  <2>2. CASE \E r \in Rows, orphan \in BOOLEAN : r.data = 0 /\ Create(r, orphan)
    BY <2>1, <2>2, CreateStep
  <2>3. CASE \E id \in RowIds : ReadRow(id) \/ Delete(id)
    BY <2>1, <2>3, ReadRowStep, DeleteStep
  <2>4. CASE \E key \in RowKeys : Find(key)
    BY <2>1, <2>4, FindStep
  <2>5. CASE List \/ All \/ Expire \/ Wait
    BY <2>1, <2>5, ListStep, AllStep, ExpireStep, WaitStep
  <2>6. CASE \E id \in RowIds, key \in RowKeys : ChangeRow(id, key)
    BY <2>1, <2>6, ChangeRowStep
  <2> QED
    BY <1>1, <2>2, <2>3, <2>4, <2>5, <2>6 DEF PairNext
<1>2. CASE UNCHANGED pairVars
  BY <1>2 DEF pairVars, PairSafe, PairTypeOK, DistinctIds, ListFollows, SameRows, Alike, Fresh, InOrder
<1> QED
  BY <1>1, <1>2

\* What the calls keep is what memory promises.
LEMMA PairSuffices == PairSafe => StoresAgree
<1> SUFFICES ASSUME PairSafe PROVE StoresAgree
  OBVIOUS
<1>1. ~ parted => Alike
  BY DEF PairSafe
<1>2. repository \in HasList => Fresh \/ repository = "quota" \/ (repository = "attempts" /\ Len(list) > 1)
  <2>1. list = mem => Fresh
    BY DEF Fresh
  <2>2. repository \in HasList \ {"attempts", "quota"} => list = mem
    BY DEF PairSafe, ListFollows
  <2>3. repository = "attempts" => Len(list) = Len(mem) /\ Len(list) \in Nat /\ (Len(mem) <= 1 => list = mem)
    BY DEF PairSafe, PairTypeOK, ListFollows, HasList
  <2> QED
    BY <2>1, <2>2, <2>3
<1>3. ASSUME ~ parted, NEW k \in RowKeys, byKey[k] # 0 PROVE ById(mem, byKey[k]) # <<>>
  <2>1. \E i \in DOMAIN mem : mem[i].id = byKey[k]
    BY <1>3 DEF PairSafe, SameRows
  <2>2. mem \in Seq(Rows) /\ DistinctIds(mem)
    BY DEF PairSafe, PairTypeOK
  <2> QED
    BY <2>1, <2>2, FoundById
<1>4. MemoryStandsIn
  BY <1>1, <1>2, <1>3 DEF MemoryStandsIn, Alike
<1> QED
  BY <1>4 DEF StoresAgree, PairSafe

\* The repositories in memory answer as those on D1 do, and lead to no row
\* that is gone, after any calls, with any ids, keys and times: but for the
\* named differences.
THEOREM MemoryStandsInForD1 == PairSpec => []StoresAgree
<1>1. PairSpec => []PairSafe
  BY PairStarts, PairStep, PTL DEF PairSpec
<1> QED
  BY <1>1, PairSuffices, PTL

-----------------------------------------------------------------------------
(* All of them.                                                            *)

\* A mutation script and a store of artifacts keep to their values.
THEOREM KeepersTyped ==
  /\ StoresSpec => []StoresTypeOK
  /\ ProofSpec => []ProofsTypeOK
  /\ FacilitatorSpec => []FacilitatorTypeOK
<1>1. StoresSpec => []StoresSafe
  BY StoresStart, StoresStep, PTL DEF StoresSpec
<1>2. StoresSafe => StoresTypeOK
  BY DEF StoresSafe
<1>3. ProofSpec => []ScriptSafe
  BY ScriptStarts, ScriptStep, PTL DEF ProofSpec
<1>4. ScriptSafe => ProofsTypeOK
  BY DEF ScriptSafe
<1>5. FacilitatorSpec => []FacilitatorSafe
  BY FacilitatorStarts, FacilitatorStep, PTL DEF FacilitatorSpec
<1>6. FacilitatorSafe => FacilitatorTypeOK
  BY DEF FacilitatorSafe
<1> QED
  BY <1>1, <1>2, <1>3, <1>4, <1>5, <1>6, PTL

\* The components, side by side, each in its own steps.
Independently ==
  EvidenceSpec /\ FetchSpec /\ SourceSpec /\ WorkerSpec /\ RegistrySpec /\ StoresSpec /\ ProofSpec
  /\ FacilitatorSpec

\* Each component keeps to its own values, for any instance of all of them.
THEOREM LibrariesTyped == Independently => []LibraryTypesOK
<1>1. EvidenceSpec => []EvidenceTypeOK
  BY EvidenceTypeCorrect
<1>2. FetchSpec => []FetchTypeOK
  BY FetchTypeCorrect
<1>3. SourceSpec => []SourcesTypeOK
  BY CachesAreBounded
<1>4. WorkerSpec => []WorkerTypeOK
  BY WorkerTypeCorrect
<1>5. RegistrySpec => []RegistryTypeOK
  BY RegistryTypeCorrect
<1>6. (StoresSpec => []StoresTypeOK) /\ (ProofSpec => []ProofsTypeOK) /\ (FacilitatorSpec => []FacilitatorTypeOK)
  BY KeepersTyped
<1>7. EvidenceTypeOK /\ FetchTypeOK /\ SourcesTypeOK /\ WorkerTypeOK /\ RegistryTypeOK /\ StoresTypeOK /\ ProofsTypeOK
        /\ FacilitatorTypeOK => LibraryTypesOK
  BY DEF LibraryTypesOK
<1> QED
  BY <1>1, <1>2, <1>3, <1>4, <1>5, <1>6, <1>7, PTL DEF Independently

-----------------------------------------------------------------------------
(* The validators of the contracts, in two languages.                      *)

Mirror == INSTANCE SemanticValidators

\* What each language takes of a kind, side by side.
LEMMA KindsCompared ==
  ASSUME NEW kind, NEW class
  PROVE  /\ class \in Mirror!ZodTakes(kind) =>
              \/ class \in Mirror!ModelTakes(kind)
              \/ kind = "input" /\ class \notin {"fit", "empty"}
              \/ class \in {"extra", "half"}
         /\ class \in Mirror!ModelTakes(kind) /\ class \notin Mirror!ZodTakes(kind) =>
              \/ class \in {"null", "items", "empty", "digits", "text", "foreign", "long"}
              \/ kind \in {"limits", "currency"} /\ class = "missing"
         /\ kind \in {"price", "maximum"} /\ class \in Mirror!ZodTakes(kind) => class \in {"fit", "missing"}
BY DEF Mirror!ZodTakes, Mirror!ModelTakes, Mirror!MayBeLeft

\* The order of two times is the same in both languages, but for a rolled
\* time and within a millisecond.
LEMMA TimesCompared ==
  ASSUME NEW issued, NEW expires, issued.at \in Int, expires.at \in Int
  PROVE  /\ Mirror!Ordered("ts", issued, expires) /\ ~ Mirror!Ordered("py", issued, expires) =>
              "rolled" \in {issued.form, expires.form}
         /\ Mirror!Ordered("py", issued, expires) /\ ~ Mirror!Ordered("ts", issued, expires) =>
              expires.at > issued.at /\ expires.at \div 2 = issued.at \div 2
         /\ \A language \in {"ts", "py"} : Mirror!Ordered(language, issued, expires) => expires.at > issued.at
<1>1. \A m, n \in Int : (m \div 2 > n \div 2 => m > n) /\ (m > n => m \div 2 >= n \div 2)
  OBVIOUS
<1>2. issued.at \div 2 \in Int /\ expires.at \div 2 \in Int
  OBVIOUS
<1>3. Mirror!Ordered("ts", issued, expires) <=>
        {issued.form, expires.form} \subseteq {"fit", "rolled"} /\ expires.at \div 2 > issued.at \div 2
  BY DEF Mirror!Ordered
<1>4. Mirror!Ordered("py", issued, expires) <=>
        issued.form = "fit" /\ expires.form = "fit" /\ expires.at > issued.at
  BY DEF Mirror!Ordered
<1>5. /\ expires.at \div 2 > issued.at \div 2 => expires.at > issued.at
      /\ expires.at > issued.at => expires.at \div 2 >= issued.at \div 2
  BY <1>1
<1> QED
  BY <1>2, <1>3, <1>4, <1>5

\* Whatever is wrong with a document of a contract, in however many fields,
\* and whatever its times: validators.py takes it if validators.ts does, but
\* for an input that is no object, a protocol too many, half a pair of units
\* and a rolled time, and takes nothing else but values of the odd classes,
\* defaults and a life of less than a millisecond.
THEOREM ModelsMirror ==
  ASSUME NEW model \in DOMAIN Mirror!Fields, NEW d,
         model = "quote" => d.issued.at \in Int /\ d.expires.at \in Int
  PROVE  Mirror!MirrorsModel(model, d)
<1> DEFINE kinds == Mirror!Fields[model] \ Mirror!Special
           zod == \A kind \in kinds : d[kind] \in Mirror!ZodTakes(kind)
           pydantic == \A kind \in kinds : d[kind] \in Mirror!ModelTakes(kind)
           exact(language) == Mirror!ExactUpto(language, d.scheme, d.price, d.maximum)
           ordered(language) == Mirror!Ordered(language, d.issued, d.expires)
           more == \/ "input" \in Mirror!Fields[model] /\ d["input"] \notin {"fit", "empty"}
                   \/ \E kind \in kinds : d[kind] \in {"extra", "half"}
           odd == \/ \E kind \in kinds : d[kind] \in {"null", "items", "empty", "digits", "text", "foreign", "long"}
                  \/ \E kind \in Mirror!Fields[model] \cap {"limits", "currency"} : d[kind] = "missing"
<1>1. /\ Mirror!ValidModel("ts", model, d) <=> zod /\ (model = "quote" => exact("ts") /\ ordered("ts"))
      /\ Mirror!ValidModel("py", model, d) <=> pydantic /\ (model = "quote" => exact("py") /\ ordered("py"))
  BY DEF Mirror!ValidModel
<1>2. model = "quote" => "price" \in kinds /\ "maximum" \in kinds /\ "input" \notin kinds
  BY DEF Mirror!Fields, Mirror!Special
<1>3. zod => pydantic \/ more
  BY KindsCompared
<1>4. pydantic /\ ~ zod => odd
  BY KindsCompared
<1>5. ASSUME model = "quote", d.price # "empty", d.maximum # "empty" PROVE exact("ts") <=> exact("py")
  BY <1>5 DEF Mirror!ExactUpto, Mirror!Truthy
<1>6. ASSUME model = "quote", zod PROVE d.price # "empty" /\ d.maximum # "empty"
  <2>1. d["price"] # "empty" /\ d["maximum"] # "empty"
    BY <1>2, <1>6, KindsCompared
  <2> QED
    BY <2>1
<1>7. model = "quote" /\ (d.price = "empty" \/ d.maximum = "empty") => odd
  <2>1. d.price = d["price"] /\ d.maximum = d["maximum"]
    OBVIOUS
  <2> QED
    BY <1>2, <2>1
<1>8. model = "quote" => /\ ordered("ts") /\ ~ ordered("py") => Mirror!Rolled(d)
                         /\ ordered("py") /\ ~ ordered("ts") =>
                              Mirror!Later(d) /\ d.expires.at \div 2 = d.issued.at \div 2
  BY TimesCompared DEF Mirror!Later, Mirror!Rolled
<1> HIDE DEF zod, pydantic, exact, ordered, more
<1>9. Mirror!ValidModel("ts", model, d) =>
        Mirror!ValidModel("py", model, d) \/ more \/ (model = "quote" /\ Mirror!Rolled(d))
  BY <1>1, <1>3, <1>5, <1>6, <1>8
<1>10. Mirror!ValidModel("py", model, d) /\ ~ Mirror!ValidModel("ts", model, d) =>
         odd \/ (model = "quote" /\ Mirror!Later(d) /\ d.expires.at \div 2 = d.issued.at \div 2)
  BY <1>1, <1>4, <1>5, <1>7, <1>8
<1> QED
  BY <1>9, <1>10 DEF Mirror!MirrorsModel, more

\* Counts that are all there are compared alike.
LEMMA CountsCompared ==
  ASSUME NEW counts, DOMAIN counts = {"requested", "populated", "supported", "score"},
         \A f \in DOMAIN counts : counts[f] \in Int
  PROVE  /\ Mirror!Complete("ts", counts) <=> Mirror!Complete("py", counts)
         /\ \A language : Mirror!Complete(language, counts) => counts["supported"] <= counts["requested"]
<1>1. \A language : \A a, b \in DOMAIN counts : Mirror!More(language, counts, a, b) <=> counts[a] > counts[b]
  BY DEF Mirror!More
<1>2. \A language :
        Mirror!Complete(language, counts) <=>
          /\ ~ counts["supported"] > counts["populated"] /\ ~ counts["populated"] > counts["requested"]
          /\ \A f \in DOMAIN counts : counts[f] >= 0
          /\ "score" \in DOMAIN counts => counts["score"] <= 1
  BY <1>1 DEF Mirror!Complete
<1>3. counts["supported"] \in Int /\ counts["populated"] \in Int /\ counts["requested"] \in Int
  OBVIOUS
<1> QED
  BY <1>2, <1>3

\* And so for the documents that services put out, whatever is in them: one
\* with all its sections and counts, no newline, no rolled time and a life
\* of a millisecond is valid in both languages or in neither; one that is
\* valid in either is what it says.
THEOREM OutputsMirror ==
  ASSUME NEW d, d.issued.at \in Int, d.expires.at \in Int, \A f \in DOMAIN d.counts : d.counts[f] \in Int, d.failures \in Nat
  PROVE  Mirror!MirrorsOutput(d)
<1> DEFINE whole == /\ d.sections = {"contract", "completeness", "verification"}
                    /\ DOMAIN d.counts = {"requested", "populated", "supported", "score"}
           plain == /\ "newline" \notin {d.version, d.hash} \cup d.namespaces
                    /\ ~ Mirror!Rolled(d)
                    /\ Mirror!Later(d) => d.expires.at \div 2 > d.issued.at \div 2
           ordered(language) == Mirror!Ordered(language, d.issued, d.expires)
<1>1. ASSUME whole, NEW language \in {"ts", "py"}
      PROVE  Mirror!ValidOutput(language, d) <=>
               /\ d.id = "fit" /\ Mirror!Matches(language, d.version) /\ Mirror!Matches(language, d.hash)
               /\ ordered(language) /\ Mirror!Extended(language, d.namespaces) /\ Mirror!Complete(language, d.counts)
               /\ ~ (d.decision = "pass" /\ d.failures > 0)
  BY <1>1 DEF Mirror!ValidOutput
<1>2. \A class : class # "newline" => (Mirror!Matches("ts", class) <=> Mirror!Matches("py", class))
  BY DEF Mirror!Matches
<1>3. "newline" \notin d.namespaces => (Mirror!Extended("ts", d.namespaces) <=> Mirror!Extended("py", d.namespaces))
  BY <1>2 DEF Mirror!Extended
<1>4. whole => /\ Mirror!Complete("ts", d.counts) <=> Mirror!Complete("py", d.counts)
               /\ \A language : Mirror!Complete(language, d.counts) => d.counts["supported"] <= d.counts["requested"]
  BY CountsCompared
<1>5. /\ ordered("ts") /\ ~ Mirror!Rolled(d) => ordered("py")
      /\ (Mirror!Later(d) => d.expires.at \div 2 > d.issued.at \div 2) /\ ordered("py") => ordered("ts")
      /\ \A language \in {"ts", "py"} : ordered(language) => Mirror!Later(d)
  <2>1. d.expires.at \div 2 \in Int /\ d.issued.at \div 2 \in Int
    OBVIOUS
  <2> QED
    BY <2>1, TimesCompared DEF Mirror!Later, Mirror!Rolled
<1> HIDE DEF ordered
<1>6. whole /\ plain => (Mirror!ValidOutput("ts", d) <=> Mirror!ValidOutput("py", d))
  BY <1>1, <1>2, <1>3, <1>4, <1>5
<1>7. ASSUME NEW language \in {"ts", "py"}, whole, Mirror!ValidOutput(language, d)
      PROVE  /\ d.counts["supported"] <= d.counts["requested"]
             /\ d.decision = "pass" => d.failures = 0
             /\ "fit" \in d.namespaces /\ "other" \notin d.namespaces /\ Mirror!Later(d)
  <2>1. "fit" \in d.namespaces /\ "other" \notin d.namespaces
    BY <1>1, <1>7 DEF Mirror!Extended
  <2>2. d.decision = "pass" => d.failures = 0
    BY <1>1, <1>7
  <2> QED
    BY <1>1, <1>4, <1>5, <1>7, <2>1, <2>2
<1> HIDE DEF whole, plain
<1> QED
  BY <1>6, <1>7 DEF Mirror!MirrorsOutput, whole, plain

=============================================================================
