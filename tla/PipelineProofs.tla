--------------------------- MODULE PipelineProofs ---------------------------
(* Proofs about Pipeline, for every set of worktrees, every ceiling, every *)
(* number of commits and crashes, with and without review and faults.      *)
EXTENDS Pipeline, TLAPS

-----------------------------------------------------------------------------
(* Types *)

LEMMA Numbers ==
    /\ MaxCall \in Nat /\ MaxCommits \in Nat /\ MaxCrashes \in Nat /\ MaxBlind \in Nat
    /\ Limit["period"] \in Nat \ {0} /\ Limit["issue"] \in Nat \ {0}
<1>1. \A n \in {MaxCall, MaxCommits, MaxCrashes, MaxBlind} : n \in Nat
  BY LimitAssumption
<1> QED
  BY <1>1, LimitAssumption DEF Scope

(* A checkpoint of a dirty worktree is never the empty one. *)
LEMMA DirtyEvidence ==
    ASSUME NEW t \in Tree
    PROVE  /\ Evidence(t) \in {Evidence(u) : u \in Tree}
           /\ t # Clean => Evidence(t) # Clean
<1>1. t # Clean => t \in [protected : BOOLEAN, clipped : BOOLEAN, text : Nat]
  BY DirtAssumption DEF Tree
<1> QED
  BY <1>1 DEF Evidence, Clean

Attached == pc = "child" => active
LEMMA TypeStep ==
    ASSUME TypeOK, Attached, [Next]_vars
    PROVE  TypeOK' /\ Attached'
<1> USE Numbers DEF TypeOK, Attached, Goto, EndTick, Smuggles, tickVars, looseVars, PC,
        Works
<1>h. NoHead \in Head /\ Clean \in Tree
  BY DEF NoHead, Head, Tree
<1>s. NoSaved \in [number : 0..MaxCommits, evidence : {Evidence(t) : t \in Tree}]
  BY <1>h DEF NoSaved, Evidence, Clean
<1>t. ASSUME SaveTree
      PROVE  /\ saved' \in [number : 0..MaxCommits, evidence : {Evidence(t) : t \in Tree}]
             /\ scar' \in BOOLEAN
  <2>1. head.number \in 0..MaxCommits
    BY DEF Head
  <2>2. [number |-> head.number, evidence |-> Evidence(tree)]
          \in [number : 0..MaxCommits, evidence : {Evidence(t) : t \in Tree}]
    BY <2>1
  <2> QED
    BY <1>s, <1>t, <2>2 DEF SaveTree
<1>1. CASE Commit \/ LooseCommit
  <2>1. Commits
    BY <1>1 DEF Commit, LooseCommit
  <2>2. head' \in Head /\ tree' \in Tree
    BY <1>h, <2>1 DEF Commits, Head
  <2>3. smuggled' \subseteq Trait
    BY <1>1, <2>2 DEF Commit, LooseCommit, Head
  <2>4. meddled' \in BOOLEAN /\ scar' \in BOOLEAN
    BY <1>1 DEF Commit, LooseCommit
  <2>5. UNCHANGED <<pc, saved, active, orphan, loose, tickVars, used, crashes, blind>>
    BY <2>1 DEF Commits
  <2> QED
    BY <2>2, <2>3, <2>4, <2>5
<1>2. CASE Edit \/ LooseEdit \/ LooseEnds
  <2>1. scar' \in BOOLEAN
    BY <1>2 DEF Edit, LooseEdit, LooseEnds
  <2>2. loose' \in BOOLEAN /\ tree' \in Tree
    BY <1>2 DEF Edit, LooseEdit, LooseEnds
  <2>3. UNCHANGED <<pc, head, saved, active, orphan, meddled, tickVars, used, crashes,
                    blind, smuggled>>
    BY <1>2 DEF Edit, LooseEdit, LooseEnds
  <2> QED
    BY <2>1, <2>2, <2>3
<1>3. CASE ChangeGitHub
  BY <1>3 DEF ChangeGitHub
<1>4. CASE Recover
  BY <1>4 DEF Recover, AfterKill, Head
<1>5. CASE SaveRecovered
  BY <1>5, <1>t DEF SaveRecovered
<1>6. CASE Launch
  <2>0. blind' = blind \/ blind' = blind + 1
    BY <1>6, Zenon DEF Launch
  <2>1. blind' \in Nat
    BY <2>0
  <2>2. pc' = "child" /\ pc = "idle" /\ ~active /\ active' = TRUE
    BY <1>6 DEF Launch
  <2>3. baseline' = head /\ started' = TRUE /\ claim' = FALSE /\ remote' = FALSE
    BY <1>6 DEF Launch
  <2>4. UNCHANGED <<head, tree, saved, orphan, looseVars, used, crashes, smuggled, scar>>
    BY <1>6 DEF Launch
  <2> QED
    BY <2>1, <2>2, <2>3, <2>4
<1>7. CASE Refuse
  BY <1>7 DEF Refuse
<1>8. CASE ChargeCoordinator
  BY <1>8 DEF ChargeCoordinator, Charge
<1>9. CASE LaunchFails \/ ReviewBreaks
  BY <1>9 DEF LaunchFails, ReviewBreaks
<1>0. CASE WatchFails
  <2>1. /\ pc' = "handler" /\ orphan' \in BOOLEAN /\ (orphan' => pc = "child")
        /\ UNCHANGED <<head, tree, saved, active, looseVars, tickVars, used, crashes,
                       blind, smuggled, scar>>
    BY <1>0 DEF WatchFails
  <2> QED
    BY <2>1
<1>10. CASE CoordinatorFailed
  BY <1>10 DEF CoordinatorFailed, Failed
<1>11. CASE Reported
  BY <1>11 DEF Reported
<1>12. CASE Verify
  BY <1>12 DEF Verify, Step, Passes, AfterChecks
<1>13. CASE Scan
  BY <1>13 DEF Scan, Step, Passes
<1>14. CASE RunGates
  <2>1. /\ pc' \in {"handler", "review", "finish"}
        /\ UNCHANGED <<head, saved, orphan, looseVars, tickVars, used, crashes, blind,
                       smuggled, active>>
    BY <1>14 DEF RunGates, Step, Passes
  <2>2. pc = "gates" /\ tree' \in Tree /\ scar' \in BOOLEAN
    BY <1>14 DEF RunGates, Step, Passes, Tree
  <2> QED
    BY <2>1, <2>2
<1>15. CASE StartReview
  BY <1>15 DEF StartReview
<1>16. CASE ChargeReviewer
  BY <1>16 DEF ChargeReviewer, Charge
<1>17. CASE ReviewFailed
  BY <1>17 DEF ReviewFailed, Failed
<1>18. CASE ReviewPassed
  BY <1>18 DEF ReviewPassed, Passes
<1>19. CASE Finish
  BY <1>19 DEF Finish, Passes
<1>20. CASE Clear
  BY <1>20, <1>h, <1>s DEF Clear
<1>21. CASE Handle
  BY <1>21 DEF Handle, AfterFail
<1>22. CASE SaveHandled
  BY <1>22, <1>t DEF SaveHandled
<1>23. CASE RecordFailure
  BY <1>23, <1>h DEF RecordFailure, Head
<1>24. CASE Crash
  <2>1. scar' \in BOOLEAN /\ crashes' \in Nat
    BY <1>24 DEF Crash
  <2>2. smuggled' \subseteq Trait
    BY <1>24 DEF Crash, Head
  <2>3. /\ pc' = "idle" /\ baseline' = NoHead /\ started' = FALSE
        /\ claim' = FALSE /\ remote' = FALSE /\ meddled' = FALSE
        /\ orphan' = IF pc = "child" THEN TRUE ELSE orphan
        /\ UNCHANGED <<head, tree, saved, active, loose, used, blind>>
    BY <1>24 DEF Crash
  <2> QED
    BY <1>h, <2>1, <2>2, <2>3
<1>25. CASE NewPeriod
  BY <1>25 DEF NewPeriod, MaxUsed, Scope
<1>26. CASE Human
  BY <1>26, <1>h DEF Human, Tree
<1>27. CASE UNCHANGED vars
  BY <1>27 DEF vars
<1> QED
  BY <1>0, <1>1, <1>2, <1>3, <1>4, <1>5, <1>6, <1>7, <1>8, <1>9, <1>10, <1>11, <1>12,
     <1>13, <1>14, <1>15, <1>16, <1>17, <1>18, <1>19, <1>20, <1>21, <1>22, <1>23,
     <1>24, <1>25, <1>26, <1>27
  DEF Next

(* Every variable of the tick pipeline keeps its type, and a coordinator   *)
(* that outlives its supervisor leaves an active run behind, which the     *)
(* next recovery looks for.                                                *)
THEOREM TypeCorrect == Spec => []TypeOK
<1>1. Init => TypeOK /\ Attached
  <2> SUFFICES ASSUME Init PROVE TypeOK /\ Attached
    OBVIOUS
  <2>1. NoHead \in Head /\ Clean \in Tree
    BY Numbers DEF NoHead, Head, Tree
  <2>2. NoSaved \in [number : 0..MaxCommits, evidence : {Evidence(t) : t \in Tree}]
    BY <2>1, Numbers DEF NoSaved, Evidence, Clean
  <2> QED
    BY <2>1, <2>2 DEF Init, TypeOK, Attached, PC
<1> QED
  BY <1>1, TypeStep, PTL DEF Spec

-----------------------------------------------------------------------------
(* The budgets *)

(* A call starts below the ceilings, but for an Issue nobody named: each   *)
(* such launch may start one call above it.                                *)
Headroom ==
    /\ pc = "child" => /\ used["period"] < Limit["period"]
                       /\ used["issue"] < Limit["issue"] + MaxCall * blind
    /\ pc \in {"checks", "scan", "gates", "review", "reviewing"} => ~Over

LEMMA Product ==
    ASSUME NEW n \in Nat
    PROVE  /\ MaxCall * n \in Nat
           /\ MaxCall * (n + 1) \in Nat
           /\ MaxCall * (n + 1) = MaxCall * n + MaxCall
BY Numbers

LEMMA BudgetStep ==
    ASSUME TypeOK, Headroom, BudgetBound, [Next]_vars
    PROVE  Headroom' /\ BudgetBound'
<1> USE DEF Goto, EndTick, tickVars, looseVars
<1> DEFINE More == MaxCall * blind
           Most == MaxCall * (blind + 1)
<1>t. /\ used \in [Scope -> Nat] /\ blind \in Nat
      /\ used["period"] \in Nat /\ used["issue"] \in Nat
      /\ Scope = {"period", "issue"}
  BY DEF TypeOK, Scope
<1>m. More \in Nat /\ Most \in Nat /\ Most = More + MaxCall
  BY <1>t, Product
<1>1. ASSUME UNCHANGED <<used, blind>>, pc' \notin {"child", "checks"},
             pc' \in {"scan", "gates", "review", "reviewing"} =>
                pc \in {"checks", "scan", "gates", "review", "reviewing"}
      PROVE  Headroom' /\ BudgetBound'
  BY <1>1 DEF Headroom, BudgetBound, Over
<1>2. ASSUME UNCHANGED <<used, blind, pc>>
      PROVE  Headroom' /\ BudgetBound'
  BY <1>2 DEF Headroom, BudgetBound, Over
<1>3. CASE \/ Commit \/ LooseCommit \/ Edit \/ LooseEdit \/ LooseEnds
           \/ ChangeGitHub \/ Human
  BY <1>2, <1>3
  DEF Commit, LooseCommit, Commits, Edit, LooseEdit, LooseEnds, ChangeGitHub, Human
<1>4. CASE \/ Recover \/ SaveRecovered \/ Refuse \/ LaunchFails \/ WatchFails
           \/ ReviewBreaks
  BY <1>1, <1>4 DEF Recover, SaveRecovered, Refuse, LaunchFails, WatchFails, ReviewBreaks
<1>5. CASE Launch
  <2>1. pc' = "child" /\ UNCHANGED used
    BY <1>5 DEF Launch
  <2>2. \/ MayLaunch(TRUE) /\ blind' = blind
        \/ MayLaunch(FALSE) /\ blind' = blind + 1
    BY <1>5, Zenon DEF Launch
  <2>3. CASE MayLaunch(TRUE) /\ blind' = blind
    <3>1. used["period"] < Limit["period"] /\ used["issue"] < Limit["issue"]
      BY <2>3, <1>t DEF MayLaunch
    <3> QED
      BY <1>t, <1>m, <2>1, <2>3, <3>1, Numbers DEF Headroom, BudgetBound
  <2>4. CASE MayLaunch(FALSE) /\ blind' = blind + 1
    <3>1. used["period"] < Limit["period"]
      BY <2>4, <1>t DEF MayLaunch
    <3>2. MaxCall * (blind' + 1) = Most + MaxCall
      BY <1>t, <2>4, Product
    <3>3. used["issue"] < Limit["issue"] + Most
      BY DEF BudgetBound
    <3> QED
      BY <1>t, <1>m, <2>1, <2>4, <3>1, <3>2, <3>3, Numbers DEF Headroom, BudgetBound
  <2> QED
    BY <2>2, <2>3, <2>4
<1>6. ASSUME NEW from \in {"child", "reviewing"}, NEW to \in {"charged", "reviewed"},
             Charge(from, to)
      PROVE  Headroom' /\ BudgetBound'
  <2>1. PICK u \in 0..MaxCall : used' = [s \in Scope |-> used[s] + u]
    BY <1>6 DEF Charge
  <2>2. pc' = to /\ blind' = blind /\ pc = from
    BY <1>6 DEF Charge
  <2>3. /\ used'["period"] = used["period"] + u
        /\ used'["issue"] = used["issue"] + u
    BY <1>t, <2>1
  <2>4. used["period"] < Limit["period"] /\ used["issue"] < Limit["issue"] + More
    BY <1>t, <1>m, <2>2, Numbers DEF Headroom, Over
  <2>5. /\ used'["period"] < Limit["period"] + MaxCall
        /\ used'["issue"] < Limit["issue"] + Most
    BY <1>t, <1>m, <2>3, <2>4, Numbers
  <2> QED
    BY <1>6, <2>2, <2>5 DEF Headroom, BudgetBound
<1>7. CASE ChargeCoordinator \/ ChargeReviewer
  BY <1>6, <1>7 DEF ChargeCoordinator, ChargeReviewer
<1>8. CASE CoordinatorFailed \/ ReviewFailed
  BY <1>1, <1>8 DEF CoordinatorFailed, ReviewFailed, Failed
<1>9. CASE Reported
  BY <1>9 DEF Reported, WithinBudget, Headroom, BudgetBound, Over
<1>10. CASE Verify \/ Scan
  BY <1>1, <1>10 DEF Verify, Scan, Step, Passes, AfterChecks
<1>11. CASE RunGates \/ StartReview \/ ReviewPassed
  BY <1>1, <1>11 DEF RunGates, StartReview, ReviewPassed, Step, Passes
<1>12. CASE Finish \/ Clear
  BY <1>1, <1>12 DEF Finish, Clear, Passes
<1>13. CASE Handle \/ SaveHandled \/ RecordFailure
  BY <1>1, <1>13 DEF Handle, SaveHandled, RecordFailure, AfterFail
<1>14. CASE Crash
  BY <1>1, <1>14 DEF Crash
<1>15. CASE NewPeriod
  <2>1. PICK u \in 0..MaxUsed : u < used["period"] /\ used' = [used EXCEPT !["period"] = u]
    BY <1>15 DEF NewPeriod
  <2>2. u \in Nat /\ used'["period"] = u /\ used'["issue"] = used["issue"]
    BY <1>t, <2>1
  <2>3. UNCHANGED <<pc, blind>>
    BY <1>15 DEF NewPeriod
  <2> QED
    BY <1>t, <2>1, <2>2, <2>3, Numbers DEF Headroom, BudgetBound, Over
<1>16. CASE UNCHANGED vars
  BY <1>2, <1>16 DEF vars
<1> QED
  BY <1>3, <1>4, <1>5, <1>7, <1>8, <1>9, <1>10, <1>11, <1>12, <1>13, <1>14, <1>15, <1>16
  DEF Next

(* A period never costs more than its ceiling and one call, an Issue one   *)
(* more for each launch that did not know it.                              *)
THEOREM BudgetsHold == Spec => []BudgetBound
<1>1. Init => Headroom /\ BudgetBound
  <2> SUFFICES ASSUME Init PROVE Headroom /\ BudgetBound
    OBVIOUS
  <2>1. MaxCall * (blind + 1) \in Nat /\ used["period"] = 0 /\ used["issue"] = 0
    BY Product DEF Init, Scope
  <2> QED
    BY <2>1, Numbers DEF Init, Headroom, BudgetBound
<1> QED
  BY <1>1, BudgetStep, TypeCorrect, PTL DEF Spec

-----------------------------------------------------------------------------
(* The worktree *)

Kept == tree = Clean \/ Covered \/ scar
Running == {"child", "charged", "checks", "scan", "gates", "review", "reviewing",
            "reviewed", "finish", "clear"}

(* From the handlers on, a run that was started gets its checkpoint; past  *)
(* the checks the worktree is clean, or something else has dirtied it.     *)
Follows ==
    /\ pc \in Running \cup {"save"} => started
    /\ pc = "handler" /\ orphan => started
    /\ pc = "record" \/ (pc = "handler" /\ ~started) => Kept
    /\ pc \in {"scan", "gates", "review", "reviewing", "reviewed", "finish", "clear"}
         => tree = Clean \/ scar
    /\ pc = "idle" /\ ~active => Kept

LEMMA SaveKeeps ==
    ASSUME TypeOK, SaveTree, UNCHANGED <<head, tree>>
    PROVE  Kept'
<1>1. CASE tree # Clean /\ saved' = [number |-> head.number, evidence |-> Evidence(tree)]
  <2>1. Evidence(tree) # Clean
    BY <1>1, DirtyEvidence DEF TypeOK
  <2> QED
    BY <1>1, <2>1 DEF Kept, Covered, NoSaved
<1> QED
  BY <1>1 DEF SaveTree, Kept

LEMMA FollowsStep ==
    ASSUME TypeOK, Follows, [Next]_vars
    PROVE  Follows'
<1> USE DEF Goto, EndTick, tickVars, looseVars
<1>k. ASSUME UNCHANGED <<head, tree, saved, scar>> PROVE Kept' = Kept
  BY <1>k DEF Kept, Covered
<1>1. CASE Commit \/ Edit
  <2>1. /\ UNCHANGED <<pc, active, started>>
        /\ \/ pc = "child"
           \/ pc = "idle" /\ active
           \/ pc = "handler" /\ orphan
    BY <1>1 DEF Commit, Commits, Edit, Works, TypeOK
  <2>2. pc = "handler" /\ orphan => started
    BY DEF Follows
  <2> QED
    BY <2>1, <2>2 DEF Follows, Running
<1>0. CASE LooseCommit \/ LooseEdit
  <2>1. UNCHANGED <<pc, active, orphan, started>> /\ scar' = (tree' # Clean)
    BY <1>0 DEF LooseCommit, Commits, LooseEdit
  <2>2. Kept' /\ (tree' = Clean \/ scar')
    BY <2>1 DEF Kept
  <2> QED
    BY <2>1, <2>2 DEF Follows, Running
<1>2. CASE ChangeGitHub \/ LooseEnds
  BY <1>2, <1>k DEF ChangeGitHub, LooseEnds, Follows
<1>3. CASE Recover
  BY <1>3 DEF Recover, Follows, Running
<1>4. CASE SaveRecovered
  <2>1. Kept' /\ pc' = "idle"
    BY <1>4, SaveKeeps DEF SaveRecovered
  <2> QED
    BY <2>1 DEF Follows, Running
<1>5. CASE Launch
  BY <1>5 DEF Launch, Follows, Running
<1>6. CASE Refuse
  BY <1>6, <1>k DEF Refuse, Follows, Running, TypeOK
<1>7. CASE LaunchFails \/ WatchFails \/ ReviewBreaks
  BY <1>7 DEF LaunchFails, WatchFails, ReviewBreaks, Follows, Running
<1>8. CASE ChargeCoordinator \/ ChargeReviewer
  BY <1>8 DEF ChargeCoordinator, ChargeReviewer, Charge, Follows, Running
<1>9. CASE CoordinatorFailed \/ ReviewFailed
  BY <1>9 DEF CoordinatorFailed, ReviewFailed, Failed, Follows, Running
<1>10. CASE Reported
  BY <1>10 DEF Reported, Follows, Running
<1>11. CASE Verify
  BY <1>11 DEF Verify, Step, Passes, AfterChecks, Follows, Running
<1>12. CASE Scan
  BY <1>12 DEF Scan, Step, Passes, Follows, Running
<1>13. CASE RunGates
  BY <1>13 DEF RunGates, Step, Passes, Follows, Running
<1>14. CASE StartReview \/ ReviewPassed \/ Finish
  BY <1>14 DEF StartReview, ReviewPassed, Finish, Step, Passes, Follows, Running
<1>15. CASE Clear
  BY <1>15 DEF Clear, Follows, Running, Kept
<1>16. CASE Handle
  BY <1>16, <1>k DEF Handle, AfterFail, Follows, Running
<1>17. CASE SaveHandled
  <2>1. Kept' /\ pc' = "record"
    BY <1>17, SaveKeeps DEF SaveHandled
  <2> QED
    BY <2>1 DEF Follows, Running
<1>18. CASE RecordFailure
  BY <1>18, <1>k DEF RecordFailure, Follows, Running
<1>19. CASE Crash
  <2>1. /\ pc' = "idle" /\ pc # "idle" /\ UNCHANGED <<head, tree, saved, active>>
        /\ scar' = (scar \/ (Unsaved /\ ~active /\ tree # Clean))
    BY <1>19 DEF Crash
  <2>2. ASSUME ~active, Kept PROVE Kept'
    BY <2>1, <2>2 DEF Kept, Covered
  <2>3. ASSUME ~active, Unsaved PROVE Kept'
    BY <2>1, <2>3 DEF Kept
  <2>4. ASSUME ~Unsaved PROVE Kept
    <3>1. pc = "record" \/ (pc = "handler" /\ ~started)
      BY <2>1, <2>4 DEF Unsaved, Follows, Running, TypeOK, PC
    <3> QED
      BY <3>1 DEF Follows
  <2> QED
    BY <2>1, <2>2, <2>3, <2>4 DEF Follows, Running
<1>20. CASE NewPeriod
  BY <1>20, <1>k DEF NewPeriod, Follows
<1>21. CASE Human
  BY <1>21 DEF Human, Follows, Running, Kept
<1>22. CASE UNCHANGED vars
  BY <1>22, <1>k DEF vars, Follows
<1> QED
  BY <1>0, <1>1, <1>2, <1>3, <1>4, <1>5, <1>6, <1>7, <1>8, <1>9, <1>10, <1>11, <1>12,
     <1>13, <1>14, <1>15, <1>16, <1>17, <1>18, <1>19, <1>20, <1>21, <1>22
  DEF Next

(* Between two ticks a dirty worktree is covered by the checkpoint (so     *)
(* that the next tick accepts it, unless it holds a protected change), or  *)
(* something the ticks cannot see dirtied it: no path of the handlers, of  *)
(* the recovery or of a crash loses an interrupted worktree in silence.    *)
THEOREM WorktreeResumes == Spec => []Resumable
<1>1. Init => Follows
  BY DEF Init, Follows, Running, Kept
<1>2. Follows => Resumable
  BY DEF Follows, Resumable, Kept, Accepted
<1> QED
  BY <1>1, <1>2, FollowsStep, TypeCorrect, PTL DEF Spec

-----------------------------------------------------------------------------
(* What HEAD has *)

VettedHead == /\ ~ProtectedSince(baseline)
              /\ AddedSecrets = {}
              /\ head.number # baseline.number => "broken" \notin head.has

(* A tick begins with what was recorded; HEAD is still the baseline or a   *)
(* later commit; the checks passed one after the other; and what the       *)
(* record does not cover yet, no later step starts from.                   *)
Accounted ==
    /\ pc \in Running => /\ baseline.has \subseteq smuggled
                         /\ baseline.number <= head.number
                         /\ baseline.number = head.number => baseline = head
    /\ pc \in {"scan", "gates"} => ~ProtectedSince(baseline) \/ meddled
    /\ pc = "gates" => AddedSecrets = {} \/ meddled
    /\ pc \in {"review", "reviewing", "reviewed", "finish"} => VettedHead \/ meddled
    /\ pc = "clear" => VettedHead \/ head.has \subseteq smuggled
    /\ meddled => /\ pc \in Checked \cup {"clear", "handler", "save", "record"}
                  /\ ~orphan
                  /\ head.has \subseteq smuggled
    /\ pc = "recovering" \/ (pc = "idle" /\ ~active) => head.has \subseteq smuggled

LEMMA VettedIsRecorded ==
    ASSUME TypeOK, VettedHead, baseline.has \subseteq smuggled,
           baseline.number = head.number => baseline = head
    PROVE  head.has \subseteq smuggled
<1>1. CASE baseline = head
  BY <1>1
<1>2. CASE head.number # baseline.number
  BY <1>2 DEF TypeOK, Head, Trait, VettedHead, ProtectedSince, AddedSecrets
<1> QED
  BY <1>1, <1>2

LEMMA AccountedStep ==
    ASSUME TypeOK, Accounted, [Next]_vars
    PROVE  Accounted'
<1> USE DEF Goto, EndTick, tickVars, looseVars
<1>m. meddled => /\ pc \notin {"idle", "recovering", "child", "charged", "checks"}
                 /\ ~Works
                 /\ head.has \subseteq smuggled
  BY DEF Accounted, Works, Checked
<1>h. ASSUME UNCHANGED <<head, baseline>>
      PROVE  /\ ProtectedSince(baseline)' = ProtectedSince(baseline)
             /\ AddedSecrets' = AddedSecrets
             /\ VettedHead' = VettedHead
  BY <1>h DEF ProtectedSince, AddedSecrets, VettedHead
<1>e. ASSUME pc' \in {"idle", "recovering"}, head.has \subseteq smuggled',
             UNCHANGED head, ~meddled'
      PROVE  Accounted'
  BY <1>e DEF Accounted, Running
<1>o. ASSUME pc' \in {"handler", "save", "record"}, UNCHANGED <<head, smuggled, meddled>>,
             meddled => ~orphan'
      PROVE  Accounted'
  BY <1>o, <1>m DEF Accounted, Running
<1>0. ASSUME Commits
      PROVE  /\ head'.number = head.number + 1
             /\ head.number \in Nat /\ baseline.number \in Nat
             /\ UNCHANGED <<pc, active, orphan, baseline>>
  <2>1. PICK has \in SUBSET Trait : head' = [number |-> head.number + 1, has |-> has]
    BY <1>0 DEF Commits
  <2> QED
    BY <1>0, <2>1 DEF Commits, TypeOK, Head
<1>1. CASE Commit
  <2>1. /\ UNCHANGED <<smuggled, meddled>> /\ ~meddled
        /\ \/ pc = "child"
           \/ pc = "idle" /\ active
           \/ pc = "handler"
    BY <1>1, <1>m DEF Commit, Works, TypeOK
  <2> QED
    BY <1>0, <1>1, <2>1 DEF Commit, Accounted, Running
<1>c. CASE LooseCommit
  <2>1. /\ smuggled \subseteq smuggled' /\ head'.has \subseteq smuggled'
        /\ meddled' = IF pc \in Checked THEN TRUE ELSE meddled
    BY <1>c DEF LooseCommit
  <2>2. orphan => pc \notin Checked
    BY DEF TypeOK, Checked
  <2> QED
    BY <1>0, <1>c, <1>m, <2>1, <2>2 DEF LooseCommit, Accounted, Running, Checked, Works
<1>2. CASE \/ Edit \/ LooseEdit \/ LooseEnds \/ ChangeGitHub \/ NewPeriod
  BY <1>2, <1>h DEF Edit, LooseEdit, LooseEnds, ChangeGitHub, NewPeriod, Accounted
<1>3. CASE Recover
  BY <1>3, <1>e, <1>m DEF Recover, Smuggles
<1>4. CASE SaveRecovered
  BY <1>4, <1>e, <1>m DEF SaveRecovered, Accounted
<1>5. CASE Launch
  BY <1>5, <1>m DEF Launch, Accounted, Running, TypeOK, Head
<1>6. CASE Refuse \/ LaunchFails \/ WatchFails \/ ReviewBreaks
  <2>1. /\ pc' \in {"handler", "save"}
        /\ UNCHANGED <<head, smuggled, meddled>>
        /\ pc # "child" => ~orphan' \/ orphan' = orphan
    BY <1>6 DEF Refuse, LaunchFails, WatchFails, ReviewBreaks
  <2>2. meddled => pc # "child" /\ ~orphan
    BY <1>m DEF Works
  <2> QED
    BY <2>1, <2>2, <1>o
<1>7. CASE ChargeCoordinator
  BY <1>7, <1>h, <1>m DEF ChargeCoordinator, Charge, Accounted, Running
<1>8. CASE ChargeReviewer
  BY <1>8, <1>h DEF ChargeReviewer, Charge, Accounted, Running, Checked
<1>9. CASE CoordinatorFailed \/ ReviewFailed
  <2>1. pc' = "handler" /\ UNCHANGED <<head, smuggled, meddled, orphan>>
    BY <1>9 DEF CoordinatorFailed, ReviewFailed, Failed
  <2> QED
    BY <2>1, <1>o, <1>m DEF Works
<1>10. CASE Reported
  BY <1>10, <1>h, <1>m DEF Reported, Accounted, Running
<1>11. CASE Verify
  <2>1. /\ pc = "checks" /\ UNCHANGED <<head, baseline, smuggled, orphan, meddled>>
        /\ \/ pc' = "handler"
           \/ /\ ~ProtectedSince(baseline) /\ (ObservedMutation => claim)
              /\ pc' = IF claim THEN "scan" ELSE "finish"
    BY <1>11 DEF Verify, Step, Passes, AfterChecks
  <2>2. CASE pc' = "handler"
    BY <2>1, <2>2, <1>o, <1>m
  <2>3. CASE pc' # "handler"
    <3>1. ~claim => head = baseline
      BY <2>1, <2>3 DEF ObservedMutation, Accounted, Running
    <3>2. ~claim => VettedHead
      BY <2>1, <2>3, <3>1 DEF VettedHead, AddedSecrets
    <3> QED
      BY <2>1, <2>3, <3>2, <1>h, <1>m DEF Accounted, Running
  <2> QED
    BY <2>2, <2>3
<1>12. CASE Scan
  <2>1. /\ pc = "scan" /\ UNCHANGED <<head, baseline, smuggled, orphan, meddled>>
        /\ pc' = "handler" \/ (AddedSecrets = {} /\ pc' = "gates")
    BY <1>12 DEF Scan, Step, Passes
  <2>2. CASE pc' = "handler"
    BY <2>1, <2>2, <1>o, <1>m DEF Works
  <2>3. CASE pc' # "handler"
    BY <2>1, <2>3, <1>h DEF Accounted, Running, Checked
  <2> QED
    BY <2>2, <2>3
<1>13. CASE RunGates
  <2>1. /\ pc = "gates" /\ UNCHANGED <<head, baseline, smuggled, orphan, meddled>>
        /\ \/ pc' = "handler"
           \/ "broken" \notin head.has /\ pc' \in {"review", "finish"}
    BY <1>13 DEF RunGates, Step, Passes
  <2>2. CASE pc' = "handler"
    BY <2>1, <2>2, <1>o, <1>m DEF Works
  <2>3. CASE pc' # "handler"
    <3>1. VettedHead \/ meddled
      BY <2>1, <2>3 DEF VettedHead, Accounted
    <3> QED
      BY <2>1, <2>3, <3>1, <1>h DEF Accounted, Running, Checked
  <2> QED
    BY <2>2, <2>3
<1>14. CASE StartReview \/ ReviewPassed \/ Finish
  BY <1>14, <1>h DEF StartReview, ReviewPassed, Finish, Passes, Accounted, Running, Checked
<1>15. CASE Clear
  <2>1. head.has \subseteq smuggled
    BY <1>15, VettedIsRecorded DEF Clear, Accounted, Running
  <2> QED
    BY <1>15, <2>1, <1>e DEF Clear
<1>16. CASE Handle \/ SaveHandled
  <2>1. /\ pc' \in {"save", "record"} /\ UNCHANGED <<head, smuggled, meddled>>
        /\ ~orphan' \/ orphan' = orphan
    BY <1>16 DEF Handle, SaveHandled, AfterFail
  <2> QED
    BY <2>1, <1>o, <1>m DEF Works
<1>17. CASE RecordFailure
  BY <1>17, <1>e DEF RecordFailure, Smuggles
<1>18. CASE Crash
  <2>1. head.has \subseteq smuggled'
    <3>1. CASE pc = "clear"
      BY <1>18, <3>1, VettedIsRecorded DEF Crash, Accounted, Running
    <3>2. CASE pc # "clear"
      BY <1>18, <3>2 DEF Crash, Smuggles
    <3> QED
      BY <3>1, <3>2
  <2> QED
    BY <1>18, <2>1, <1>e DEF Crash
<1>19. CASE Human
  BY <1>19, <1>h DEF Human, Accounted
<1>20. CASE UNCHANGED vars
  BY <1>20, <1>h DEF vars, Accounted
<1> QED
  BY <1>c, <1>1, <1>2, <1>3, <1>4, <1>5, <1>6, <1>7, <1>8, <1>9, <1>10, <1>11, <1>12,
     <1>13, <1>14, <1>15, <1>16, <1>17, <1>18, <1>19, <1>20
  DEF Next

LEMMA AccountedHolds == Spec => []Accounted
<1>1. Init => Accounted
  BY DEF Init, Accounted, Running, NoHead
<1> QED
  BY <1>1, AccountedStep, TypeCorrect, PTL DEF Spec

(* What HEAD has between two ticks came past the checks or is on record as *)
(* the work of a tick that did not finish.                                 *)
THEOREM NothingSlipsIn == Spec => []UnvettedIsRecorded
<1>1. Accounted => UnvettedIsRecorded
  BY DEF Accounted, UnvettedIsRecorded
<1> QED
  BY <1>1, AccountedHolds, PTL

(* A tick is recorded as finished only past every check that its commits   *)
(* need, even one whose coordinator claimed to have changed nothing; the   *)
(* commits of an earlier call's child behind the checks are the exception. *)
THEOREM OnlyVettedFinishes == Spec => FinishedIsVetted
<1>1. Accounted => (pc = "finish" /\ pc' = "clear" /\ ~meddled => VettedHead)
  BY DEF Accounted
<1> QED
  BY <1>1, AccountedHolds, PTL DEF FinishedIsVetted, VettedHead
=============================================================================
