------------------------------ MODULE Pipeline ------------------------------
(***************************************************************************)
(* What a tick lets pass (runtime.py tick, _review, recover): the target's *)
(* HEAD and worktree, the baseline, the checks of a coordinator's result,  *)
(* the gates, the review, the budgets, and the checkpoint of an            *)
(* interrupted worktree, over many ticks of one loop, with crashes between *)
(* any two steps.                                                          *)
(*                                                                         *)
(* HEAD is a number that every commit increases and the set of things its  *)
(* content has that the project began without: a change of a protected     *)
(* path, a secret, a defect that the gates notice.  Leases, heartbeats and *)
(* overlapping ticks are Coordination's: here the child of a killed        *)
(* supervisor works on until the next recovery, which comes first; that of *)
(* a call that raised works on, under no run, until it ends by itself.     *)
(***************************************************************************)
EXTENDS Naturals, FiniteSets

CONSTANTS
    Dirt,           \* states of a worktree that is not clean
    ReviewEnabled,  \* review.enabled
    Limit,          \* budgets: the ceiling of each scope
    MaxCall,        \* most tokens one call uses
    Faults,         \* a subset of {"git", "gates", "human", "io"}
    MaxCommits, MaxCrashes,     \* bounds of an instance
    MaxBlind                    \* bound on the launches that do not know
                                \* their Issue

Trait == {"protected", "secret", "broken"}
Scope == {"period", "issue"}    \* an hour, a day or a tick; an Issue

(* paths: what `git status` lists, besides the state of the file contents. *)
(* git() strips the output, so that a path listed first as " M path" loses *)
(* its first letter: it is clipped.                                        *)
ASSUME DirtAssumption ==
    Dirt \subseteq [protected : BOOLEAN, clipped : BOOLEAN, text : Nat]
ASSUME LimitAssumption ==
    /\ Limit \in [Scope -> Nat \ {0}]
    /\ {MaxCall, MaxCommits, MaxCrashes, MaxBlind} \subseteq Nat
    /\ ReviewEnabled \in BOOLEAN

VARIABLES
    pc,         \* where the loop is
    head,       \* HEAD: its number and what its content has
    tree,       \* the worktree
    baseline,   \* HEAD when the tick began
    saved,      \* checkpoint recovery_worktree
    active,     \* a run row is starting or running
    orphan,     \* its child survived the supervisor, or the call
    loose,      \* a child works on whose run was recorded as failed
    started,    \* run_started
    claim,      \* structured["mutation"]
    remote,     \* the GitHub state changed during the tick
    used,       \* recorded usage of each scope
    crashes,
    blind,      \* (history) launches that did not know their Issue
    smuggled,   \* (history) content of HEAD at the end of the ticks that
                \* were not recorded as finished, and of the commits of
                \* what is loose
    meddled,    \* (history) what is loose committed behind the checks of
                \* the tick
    scar        \* (history) something no checkpoint covers happened to the
                \* worktree since it was last clean or covered

tickVars == <<baseline, started, claim, remote>>
looseVars == <<loose, meddled>>
vars == <<pc, head, tree, baseline, saved, active, orphan, looseVars, started,
          claim, remote, used, crashes, blind, smuggled, scar>>

Clean == [protected |-> FALSE, clipped |-> FALSE, text |-> 0]
Tree == {Clean} \cup Dirt
NoHead == [number |-> 0, has |-> {}]
Head == [number : 0..MaxCommits, has : SUBSET Trait]
PC == {"idle", "recovering", "child", "charged", "checks", "scan", "gates",
       "review", "reviewing", "reviewed", "finish", "clear",
       "handler", "save", "record"}

(* _worktree_evidence hashes the files that changed_paths names: a clipped *)
(* name is no file.  The checkpoint is that evidence and HEAD.             *)
Evidence(t) == IF t.clipped THEN [t EXCEPT !.text = 0] ELSE t
NoSaved == [number |-> 0, evidence |-> Clean]
Covered == /\ saved # NoSaved
           /\ saved.number = head.number
           /\ saved.evidence = Evidence(tree)

(* protected_changes of the worktree, and of the commits since a base *)
ProtectedDirt == tree.protected /\ ~tree.clipped
ProtectedNow(base) == ProtectedDirt     \* mutant: no base
ProtectedSince(base) == ("protected" \in base.has) # ("protected" \in head.has)

Init ==
    /\ pc = "idle"
    /\ head = NoHead /\ baseline = NoHead
    /\ tree = Clean
    /\ saved = NoSaved
    /\ active = FALSE /\ orphan = FALSE /\ loose = FALSE
    /\ started = FALSE /\ claim = FALSE /\ remote = FALSE
    /\ used = [s \in Scope |-> 0]
    /\ crashes = 0
    /\ blind = 0
    /\ smuggled = {}
    /\ meddled = FALSE
    /\ scar = FALSE

Goto(p) == pc' = p
EndTick ==      \* the locals of tick are gone
    /\ Goto("idle")
    /\ baseline' = NoHead
    /\ started' = FALSE /\ claim' = FALSE /\ remote' = FALSE
    /\ meddled' = FALSE
Smuggles == smuggled' = smuggled \cup head.has
MaxUsed == Limit["period"] + MaxCall
Over == \E s \in Scope : used[s] >= Limit[s]

-----------------------------------------------------------------------------
(* Whoever works on the target: the coordinator or its orphan; and a child *)
(* that no run and no checkpoint knows of.                                 *)

Works == pc = "child" \/ orphan
Checked == {"scan", "gates", "review", "reviewing", "reviewed", "finish"}

Commits ==
    /\ head.number < MaxCommits
    /\ \E has \in SUBSET Trait :
         /\ Cardinality((has \ head.has) \cup (head.has \ has)) <= 1
         /\ head' = [number |-> head.number + 1, has |-> has]
    /\ tree' \in {tree, Clean}
    /\ UNCHANGED <<pc, saved, active, orphan, loose, tickVars, used, crashes,
                   blind>>

Commit ==
    /\ Works
    /\ Commits
    /\ UNCHANGED <<smuggled, meddled, scar>>

LooseCommit ==
    /\ loose
    /\ Commits
    /\ smuggled' = smuggled \cup head'.has
    /\ meddled' = IF pc \in Checked THEN TRUE ELSE meddled
    /\ scar' = (tree' # Clean)

Edit ==
    /\ Works
    /\ tree' \in Tree
    /\ UNCHANGED <<pc, head, saved, active, orphan, looseVars, tickVars, used,
                   crashes, blind, smuggled, scar>>

LooseEdit ==
    /\ loose
    /\ tree' \in Tree
    /\ scar' = (tree' # Clean)
    /\ UNCHANGED <<pc, head, saved, active, orphan, looseVars, tickVars, used,
                   crashes, blind, smuggled>>

LooseEnds ==
    /\ loose
    /\ loose' = FALSE
    /\ UNCHANGED <<pc, head, tree, saved, active, orphan, meddled, tickVars,
                   used, crashes, blind, smuggled, scar>>

ChangeGitHub ==
    /\ pc = "child" \/ (loose /\ started)
    /\ remote' = TRUE
    /\ UNCHANGED <<pc, head, tree, baseline, saved, active, orphan, looseVars,
                   started, claim, used, crashes, blind, smuggled, scar>>

-----------------------------------------------------------------------------
(* _checkpoint_recovery_worktree; a failing git leaves the old checkpoint. *)
SaveTree ==
    \/ /\ saved' = IF tree = Clean THEN NoSaved
                   ELSE [number |-> head.number, evidence |-> Evidence(tree)]
       /\ scar' = FALSE
    \/ /\ "git" \in Faults
       /\ UNCHANGED saved
       /\ scar' = (tree # Clean)

(* recover: kill, abandon, then save the worktree. *)
SparesOrphan == orphan          \* mutant
AfterKill == FALSE

Recover ==
    /\ pc = "idle"
    /\ active
    /\ orphan' = AfterKill
    /\ active' = FALSE
    /\ Smuggles
    /\ Goto("recovering")
    /\ UNCHANGED <<head, tree, saved, looseVars, tickVars, used, crashes, blind, scar>>

SaveRecovered ==
    /\ pc = "recovering"
    /\ SaveTree
    /\ Goto("idle")
    /\ UNCHANGED <<head, tree, active, orphan, looseVars, tickVars, used,
                   crashes, blind, smuggled>>

(* What tick accepts of a worktree, the governance's refusal included. *)
Accepted == (tree = Clean \/ Covered) /\ ~ProtectedDirt

(* tick, up to the launch.  The branch names the Issue (known) or not. *)
MayLaunch(known) ==
    /\ \A s \in Scope : (s = "issue" => known) => used[s] < Limit[s]
    /\ Accepted

Launch ==
    /\ pc = "idle"
    /\ ~active
    /\ \/ MayLaunch(TRUE) /\ UNCHANGED blind
       \/ MayLaunch(FALSE) /\ blind < MaxBlind /\ blind' = blind + 1
    /\ baseline' = head
    /\ active' = TRUE
    /\ started' = TRUE
    /\ claim' = FALSE
    /\ remote' = FALSE
    /\ Goto("child")
    /\ UNCHANGED <<head, tree, saved, orphan, looseVars, used, crashes, smuggled,
                   scar>>

(* Any check before start_run may fail, those not modelled included. *)
Refuse ==
    /\ pc = "idle"
    /\ ~active
    /\ started' = FALSE
    /\ Goto("handler")
    /\ UNCHANGED <<head, tree, baseline, saved, active, orphan, looseVars,
                   claim, remote, used, crashes, blind, smuggled, scar>>

(* A call ends and its usage is recorded, whatever its exit code. *)
Charge(from, to) ==
    /\ pc = from
    /\ \E u \in 0..MaxCall : used' = [s \in Scope |-> used[s] + u]
    /\ Goto(to)
    /\ UNCHANGED <<head, tree, saved, active, orphan, looseVars, tickVars,
                   crashes, blind, smuggled, scar>>
ChargeCoordinator == Charge("child", "charged")
ChargeReviewer == Charge("reviewing", "reviewed")

(* No child was started (QwenUnavailable, a failed Popen). *)
LaunchFails ==
    /\ pc \in {"child", "reviewing"}
    /\ pc = "child" => head = baseline /\ ~remote
    /\ Goto("handler")
    /\ UNCHANGED <<head, tree, saved, active, orphan, looseVars, tickVars,
                   used, crashes, blind, smuggled, scar>>

(* run_process raises with its child at work or ended: the log, the        *)
(* heartbeat or the second wait failed.                                    *)
WatchFails ==
    /\ "io" \in Faults
    /\ pc \in {"child", "reviewing"}
    /\ orphan' \in (IF pc = "child" THEN BOOLEAN ELSE {FALSE})
    /\ Goto("handler")
    /\ UNCHANGED <<head, tree, saved, active, looseVars, tickVars, used,
                   crashes, blind, smuggled, scar>>

(* Of the kinds of exception that tick handles, _review handles some: the  *)
(* others leave the reviewer's row active, for tick fails its coordinator's.*)
ReviewBreaks ==
    /\ "io" \in Faults
    /\ pc = "reviewing"
    /\ Goto("save")
    /\ UNCHANGED <<head, tree, saved, active, orphan, looseVars, tickVars,
                   used, crashes, blind, smuggled, scar>>

(* _assert_budgets leaves before finish_run; then the exit code and the    *)
(* structured output decide.                                               *)
Unlimited == TRUE               \* mutant: no check after the call
WithinBudget == ~Over
Failed(from) ==
    /\ pc = from
    /\ active' \in (IF WithinBudget THEN {FALSE} ELSE {active})
    /\ Goto("handler")
    /\ UNCHANGED <<head, tree, saved, orphan, looseVars, tickVars, used,
                   crashes, blind, smuggled, scar>>
CoordinatorFailed == Failed("charged")
ReviewFailed == Failed("reviewed")

Reported ==
    /\ pc = "charged"
    /\ WithinBudget
    /\ active' = FALSE
    /\ claim' \in BOOLEAN
    /\ Goto("checks")
    /\ UNCHANGED <<head, tree, baseline, saved, orphan, looseVars, started,
                   remote, used, crashes, blind, smuggled, scar>>

(* A step of the verification: on if the check holds, unless the check     *)
(* itself fails (git, reconcile, a gate); else an exception.               *)
Passes(from, to) ==
    /\ pc = from
    /\ Goto(to)
    /\ UNCHANGED <<head, saved, orphan, looseVars, tickVars, used, crashes,
                   blind, smuggled>>
Step(from, holds, to) == (holds /\ Passes(from, to)) \/ Passes(from, "handler")

GitHubMutation == remote        \* mutant
ObservedMutation == head.number # baseline.number \/ remote

AfterChecks == IF claim THEN "scan" ELSE "finish"
Verify ==
    /\ Step("checks",
            /\ tree = Clean
            /\ ~ProtectedSince(baseline)
            /\ ObservedMutation => claim,
            AfterChecks)
    /\ UNCHANGED <<tree, active, scar>>

AddedSecrets == (head.has \ baseline.has) \cap {"secret"}
Scan ==
    /\ Step("scan", AddedSecrets = {}, "gates")
    /\ UNCHANGED <<tree, active, scar>>

(* The gates run on the worktree and may leave something in it. *)
RunGates ==
    /\ Step("gates", "broken" \notin head.has, IF ReviewEnabled THEN "review" ELSE "finish")
    /\ \/ UNCHANGED <<tree, scar>>
       \/ "gates" \in Faults /\ tree' \in Dirt /\ scar' = TRUE
    /\ UNCHANGED active

StartReview ==
    /\ pc = "review"
    /\ active' = TRUE
    /\ Goto("reviewing")
    /\ UNCHANGED <<head, tree, saved, orphan, looseVars, tickVars, used,
                   crashes, blind, smuggled, scar>>

ReviewPassed ==
    /\ WithinBudget
    /\ Passes("reviewed", "finish")
    /\ active' = FALSE
    /\ UNCHANGED <<tree, scar>>

(* tick_finished is on record; then the checkpoint is cleared. *)
Finish ==
    /\ Passes("finish", "clear")
    /\ UNCHANGED <<tree, active, scar>>

Clear ==
    /\ pc = "clear"
    /\ saved' = NoSaved
    /\ EndTick
    /\ UNCHANGED <<head, tree, active, orphan, loose, used, crashes, blind,
                   smuggled, scar>>

(* The handlers, SafetyPause's and the others': fail_active_run, the       *)
(* checkpoint if the run was started, then failure, delay and event.       *)
NeverSave == "record"           \* mutant
AfterFail == IF started THEN "save" ELSE "record"

Handle ==
    /\ pc = "handler"
    /\ active' = FALSE
    /\ orphan' = FALSE
    /\ loose' = IF orphan THEN TRUE ELSE loose
    /\ Goto(AfterFail)
    /\ UNCHANGED <<head, tree, saved, meddled, tickVars, used, crashes, blind,
                   smuggled, scar>>

SaveHandled ==
    /\ pc = "save"
    /\ SaveTree
    /\ Goto("record")
    /\ UNCHANGED <<head, tree, active, orphan, looseVars, tickVars, used,
                   crashes, blind, smuggled>>

RecordFailure ==
    /\ pc = "record"
    /\ Smuggles
    /\ EndTick
    /\ UNCHANGED <<head, tree, saved, active, orphan, loose, used, crashes,
                   blind, scar>>

-----------------------------------------------------------------------------
(* The environment *)

(* The supervisor is killed: a recovery will come for an active run only,  *)
(* and finds its coordinator at work.                                      *)
Unsaved == pc = "recovering" \/ (started /\ pc # "record")
Crash ==
    /\ crashes < MaxCrashes
    /\ pc # "idle"
    /\ crashes' = crashes + 1
    /\ orphan' = IF pc = "child" THEN TRUE ELSE orphan
    /\ scar' = (scar \/ (Unsaved /\ ~active /\ tree # Clean))
    /\ IF pc = "clear" THEN UNCHANGED smuggled ELSE Smuggles
    /\ EndTick
    /\ UNCHANGED <<head, tree, saved, active, loose, used, blind>>

(* Calls leave the window of an hour or a day, or another tick begins. *)
NewPeriod ==
    /\ \E u \in 0..MaxUsed :
         /\ u < used["period"]
         /\ used' = [used EXCEPT !["period"] = u]
    /\ UNCHANGED <<pc, head, tree, saved, active, orphan, looseVars, tickVars,
                   crashes, blind, smuggled, scar>>

Human ==
    /\ pc = "idle"
    /\ tree' \in {Clean} \cup (IF "human" \in Faults THEN Dirt ELSE {})
    /\ scar' = (tree' # Clean)
    /\ UNCHANGED <<pc, head, saved, active, orphan, looseVars, tickVars, used,
                   crashes, blind, smuggled>>

Next ==
    \/ Commit \/ Edit \/ LooseCommit \/ LooseEdit \/ LooseEnds \/ ChangeGitHub
    \/ Recover \/ SaveRecovered
    \/ Launch \/ Refuse \/ ChargeCoordinator \/ LaunchFails \/ CoordinatorFailed
    \/ Reported \/ Verify \/ Scan \/ RunGates
    \/ StartReview \/ ChargeReviewer \/ ReviewFailed \/ ReviewBreaks \/ ReviewPassed
    \/ WatchFails
    \/ Finish \/ Clear
    \/ Handle \/ SaveHandled \/ RecordFailure
    \/ Crash \/ NewPeriod \/ Human

Spec == Init /\ [][Next]_vars

-----------------------------------------------------------------------------
(* Types; and a child that outlives its supervisor is one that recover    *)
(* will find and kill before the next tick.                                *)
TypeOK ==
    /\ pc \in PC
    /\ head \in Head /\ baseline \in Head
    /\ tree \in Tree
    /\ saved \in [number : 0..MaxCommits, evidence : {Evidence(t) : t \in Tree}]
    /\ active \in BOOLEAN /\ orphan \in BOOLEAN /\ loose \in BOOLEAN
    /\ started \in BOOLEAN /\ claim \in BOOLEAN /\ remote \in BOOLEAN
    /\ meddled \in BOOLEAN /\ scar \in BOOLEAN
    /\ used \in [Scope -> Nat]
    /\ crashes \in Nat /\ blind \in Nat
    /\ smuggled \subseteq Trait
    /\ orphan => pc \in {"idle", "handler"} /\ active

(* A tick is recorded as finished only if what it did to HEAD changes no   *)
(* protected path, adds no secret and passes the gates, whatever it        *)
(* reported of itself and whatever earlier ticks left; unless the child of *)
(* an earlier, failed call committed while the checks were under way.      *)
FinishedIsVetted ==
    [][pc = "finish" /\ pc' = "clear" /\ ~meddled =>
           /\ ~ProtectedSince(baseline)
           /\ AddedSecrets = {}
           /\ head.number # baseline.number => "broken" \notin head.has]_vars

(* What HEAD has between two ticks that no check ever passed was brought   *)
(* by a tick that did not finish, and the record says so.                  *)
UnvettedIsRecorded == pc = "idle" /\ ~active => head.has \subseteq smuggled

(* A dirty worktree between two ticks is one that the next tick accepts,   *)
(* or one that the checkpoint covers and that the governance refuses, for  *)
(* its protected change, until somebody cleans it; unless somebody changed *)
(* it outside the ticks (a human, the child of a failed call), a gate      *)
(* dirtied it, git failed, or the supervisor died after the run was no     *)
(* longer active.                                                          *)
Resumable ==
    pc = "idle" /\ ~active /\ tree # Clean =>
        \/ Accepted
        \/ Covered /\ ProtectedDirt
        \/ scar

(* A scope exceeds its ceiling by less than one call; an Issue that the    *)
(* branch does not name, by one more call for each such launch.            *)
BudgetBound ==
    /\ used["period"] < Limit["period"] + MaxCall
    /\ used["issue"] < Limit["issue"] + MaxCall * (blind + 1)
=============================================================================
