---------------------------- MODULE Coordination ----------------------------
(***************************************************************************)
(* The supervisor processes of one runtime directory: persistent loops     *)
(* (`qas loop`, runtime.py loop/recover/tick), one-shot tools (`qas tick`, *)
(* `qas recover`), the Qwen children they launch (process.py run_process)  *)
(* and the time that passes between their steps.  They share the ledger    *)
(* (leases and runs), the scheduler lock and the operating system's        *)
(* process table, and nothing else.                                        *)
(*                                                                         *)
(* Left out: what a tick decides about the work (worktree, gates' verdict, *)
(* failures, budgets); here a phase of a tick just succeeds or fails.      *)
(***************************************************************************)
EXTENDS Ledger

CONSTANTS
    Loops,      \* processes that run `qas loop`
    Tools,      \* processes that run `qas tick` or `qas recover`
    NoProc,     \* nobody holds scheduler.lock
    Heartbeat,  \* scheduler.heartbeatSeconds
    Grace,      \* scheduler.shutdownGraceSeconds, with the kill that follows
    Setup,      \* longest time from acquire_lease to set_run_running, and
                \* from start_run to set_run_running
    Sweep,      \* longest time from the start of recover to acquire_lease
    Reviews,    \* review.enabled
    Faults,     \* faults that may happen, a subset of FaultKinds
    MaxCrashes  \* bound on the crashes of a behaviour

Proc == Loops \cup Tools
FaultKinds == {"crash", "io", "db", "heir", "stall"}

ASSUME ProcAssumption ==
    /\ Loops \cap Tools = {}
    /\ NoProc \notin Proc
ASSUME BoundAssumption ==
    /\ {Heartbeat, Grace, Setup, Sweep, MaxCrashes} \subseteq Nat
    /\ Faults \subseteq FaultKinds
    /\ Reviews \in BOOLEAN

VARIABLES
    pc,         \* where each process is
    cur,        \* its tick; in recover, the tick of the row it handles
    role,       \* kind of its run; in recover, the kind of that row
    lag,        \* time it has spent in a phase of bounded length
    todo,       \* recover: rows of its SELECT not handled yet
    child,      \* the Qwen process of each run
    heirs,      \* runs whose output a descendant of the child holds open
    lock,       \* holder of scheduler.lock
    used,       \* tick ids taken
    crashes

ledgerVars == <<lease, runs>>
procVars == <<pc, cur, role, lag, todo>>
vars == <<lease, runs, pc, cur, role, lag, todo, child, heirs, lock, used, crashes>>

(* Phases of recover, of a tick and of the loop around them. *)
Sweeping == {"reap", "scan", "rows", "kill", "abandon"}
Starting == {"setup", "launch", "spawned"}
Watching == {"watch", "renew", "stop"}
InTick == Starting \cup Watching \cup {"verify", "leave"}
Out == {"off", "down"}  \* not running: stopped, or to be started again
PC == Sweeping \cup InTick \cup Out \cup {"poise", "wait"}

SnapRow == [run : Run, age : 0..(Silence + 1), pid : BOOLEAN]
ChildState == {"none", "alive", "exited", "killed"}

RunOf(p) == <<cur[p], role[p]>>
Alive(r) == child[r] = "alive"

(* The process is between the start and the end of the life of run r. *)
Attends(p, r) == /\ pc[p] \in {"launch", "spawned"} \cup Watching
                 /\ RunOf(p) = r

(* Longest stay, counted from the last reset of lag. *)
Timed == Sweeping \cup {"poise"} \cup Starting \cup Watching
Limit(phase) == CASE phase \in Sweeping \cup {"poise"} -> Sweep
                  [] phase \in Starting -> Setup
                  [] phase \in {"watch", "renew"} -> Heartbeat
                  [] OTHER -> Heartbeat + Grace

Init ==
    /\ lease = NoLease
    /\ runs = [r \in Run |-> NoRun]
    /\ pc = [p \in Proc |-> "off"]
    /\ cur = [p \in Proc |-> NoTick]
    /\ role = [p \in Proc |-> "coordinator"]
    /\ lag = [p \in Proc |-> 0]
    /\ todo = [p \in Proc |-> {}]
    /\ child = [r \in Run |-> "none"]
    /\ heirs = {}
    /\ lock = NoProc
    /\ used = {}
    /\ crashes = 0

(* Control moves to a phase; the clock of the phase restarts or runs on. *)
At(p, phase) == pc[p] = phase
Goto(p, phase) == /\ pc' = [pc EXCEPT ![p] = phase]
                  /\ UNCHANGED lag
GotoFresh(p, phase) == /\ pc' = [pc EXCEPT ![p] = phase]
                       /\ lag' = [lag EXCEPT ![p] = 0]
Handles(p, r) == /\ cur' = [cur EXCEPT ![p] = r[1]]
                 /\ role' = [role EXCEPT ![p] = r[2]]
Nothing(p) == /\ cur' = [cur EXCEPT ![p] = NoTick]
              /\ role' = [role EXCEPT ![p] = "coordinator"]
Idle(p) == IF p \in Loops THEN "wait" ELSE "off"

(* A service manager starts a loop that failed again, and at a boot.       *)
Dead(p) == IF p \in Loops THEN "down" ELSE "off"

-----------------------------------------------------------------------------
(* Processes start and stop. *)

StartLoop(p) ==
    /\ p \in Loops
    /\ pc[p] \in Out
    /\ lock = NoProc
    /\ lock' = p
    /\ GotoFresh(p, "reap")
    /\ UNCHANGED <<ledgerVars, cur, role, todo, child, heirs, used, crashes>>

StartTool(p) ==
    /\ p \in Tools
    /\ At(p, "off")
    /\ \E phase \in {"poise", "reap"} : GotoFresh(p, phase)
    /\ UNCHANGED <<ledgerVars, cur, role, todo, child, heirs, lock, used, crashes>>

(* The wait between two rounds of a loop ends, or the loop is stopped. *)
NextRound(p) ==
    /\ At(p, "wait")
    /\ GotoFresh(p, "reap")
    /\ UNCHANGED <<ledgerVars, cur, role, todo, child, heirs, lock, used, crashes>>

StopLoop(p) ==
    /\ At(p, "wait")
    /\ GotoFresh(p, "off")
    /\ lock' = NoProc
    /\ UNCHANGED <<ledgerVars, cur, role, todo, child, heirs, used, crashes>>

-----------------------------------------------------------------------------
(* Supervisor.recover *)

ReapLeases(p) ==
    /\ At(p, "reap")
    /\ ReapExpiredLeases
    /\ Goto(p, "scan")
    /\ UNCHANGED <<runs, cur, role, todo, child, heirs, lock, used, crashes>>

SelectStarting == {r \in Run : runs[r].status = "starting"}   \* mutant
Select == {r \in Run : runs[r].status \in Active}

Scan(p) ==
    /\ At(p, "scan")
    /\ todo' = [todo EXCEPT ![p] =
                  {[run |-> r, age |-> runs[r].age, pid |-> runs[r].pid] : r \in Select}]
    /\ Goto(p, "rows")
    /\ UNCHANGED <<ledgerVars, cur, role, child, heirs, lock, used, crashes>>

(* The age and the pid are those of the snapshot, a live pid is looked up. *)
StaleAtThreshold(x) == x.age >= Silence                       \* mutant
Stale(x) == x.age > Silence
SparesProcess(x) == "abandon"                                 \* mutant
Verdict(x) == IF x.pid /\ Alive(x.run) THEN "kill" ELSE "abandon"

HandleRow(p, x) ==
    /\ At(p, "rows")
    /\ x \in todo[p]
    /\ todo' = [todo EXCEPT ![p] = @ \ {x}]
    /\ IF Stale(x) THEN Handles(p, x.run) /\ Goto(p, Verdict(x))
                   ELSE UNCHANGED <<pc, cur, role, lag>>
    /\ UNCHANGED <<ledgerVars, child, heirs, lock, used, crashes>>

SweepKill(p) ==
    /\ At(p, "kill")
    /\ child' = IF Alive(RunOf(p)) THEN [child EXCEPT ![RunOf(p)] = "killed"] ELSE child
    /\ Goto(p, "abandon")
    /\ UNCHANGED <<ledgerVars, cur, role, todo, heirs, lock, used, crashes>>

Abandon(p) ==
    /\ At(p, "abandon")
    /\ FinishRun(RunOf(p), "abandoned")
    /\ Goto(p, "rows")
    /\ Nothing(p)
    /\ UNCHANGED <<lease, todo, child, heirs, lock, used, crashes>>

(* recover returns: a loop goes on to its tick, `qas recover` ends. *)
EndRecover(p) ==
    /\ At(p, "rows")
    /\ todo[p] = {}
    /\ IF p \in Loops THEN Goto(p, "poise") ELSE GotoFresh(p, "off")
    /\ UNCHANGED <<ledgerVars, cur, role, todo, child, heirs, lock, used, crashes>>

-----------------------------------------------------------------------------
(* Supervisor.tick *)

(* A loop held back by next_allowed_epoch or by a host quarantine, or any  *)
(* tick that finds the lease busy, does nothing (nor does a tick once the  *)
(* bound on tick ids is reached).                                          *)
NoTickNow(p) ==
    /\ At(p, "poise")
    /\ p \in Loops \/ LeaseBusy \/ used = Ticks
    /\ GotoFresh(p, Idle(p))
    /\ UNCHANGED <<ledgerVars, cur, role, todo, child, heirs, lock, used, crashes>>

Acquire(p) ==
    /\ At(p, "poise")
    /\ \E t \in Ticks \ used :
         /\ AcquireLease(t)
         /\ used' = used \cup {t}
         /\ Handles(p, <<t, "coordinator">>)
    /\ GotoFresh(p, "setup")
    /\ UNCHANGED <<runs, todo, child, heirs, lock, crashes>>

(* Maintenance, budgets, worktree, governance and reconcile all passed. *)
StartCoordinator(p) ==
    /\ At(p, "setup")
    /\ StartRun(RunOf(p))
    /\ Goto(p, "launch")
    /\ UNCHANGED <<lease, cur, role, todo, child, heirs, lock, used, crashes>>

(* A tick that fails marks its run, and _review its own, if still active. *)
FailTick(p) == FailActiveRuns({RunOf(p), <<cur[p], "coordinator">>})

(* An exception before the child exists: a check of the setup, a launcher  *)
(* without its binary or a failed Popen.  fail_active_run touches a row    *)
(* only once start_run has inserted it.                                    *)
FailEarly(p) ==
    /\ pc[p] \in {"setup", "launch"}
    /\ FailTick(p)
    /\ Goto(p, "leave")
    /\ UNCHANGED <<lease, cur, role, todo, child, heirs, lock, used, crashes>>

Spawn(p) ==
    /\ At(p, "launch")
    /\ child' = [child EXCEPT ![RunOf(p)] = "alive"]
    /\ Goto(p, "spawned")
    /\ UNCHANGED <<ledgerVars, cur, role, todo, heirs, lock, used, crashes>>

Record(p) ==
    /\ At(p, "spawned")
    /\ SetRunRunning(RunOf(p))
    /\ GotoFresh(p, "watch")
    /\ UNCHANGED <<lease, cur, role, todo, child, heirs, lock, used, crashes>>

(* The heartbeat closure of the launcher: heartbeat_run, then renew_lease. *)
Beat(p) ==
    /\ At(p, "watch")
    /\ HeartbeatRun(RunOf(p))
    /\ GotoFresh(p, "renew")
    /\ UNCHANGED <<lease, cur, role, todo, child, heirs, lock, used, crashes>>

Renew(p) ==
    /\ At(p, "renew")
    /\ RenewLease(cur[p])
    /\ Goto(p, IF OwnsLease(cur[p]) \/ ~Alive(RunOf(p)) THEN "watch" ELSE "stop")
    /\ UNCHANGED <<runs, cur, role, todo, child, heirs, lock, used, crashes>>

(* Wall time or silence is exceeded: _terminate_tree begins. *)
Overrun(p) ==
    /\ At(p, "watch")
    /\ Alive(RunOf(p))
    /\ Goto(p, "stop")
    /\ UNCHANGED <<ledgerVars, cur, role, todo, child, heirs, lock, used, crashes>>

TerminatePolitely(p) == /\ At(p, "stop")                      \* mutant
                        /\ Goto(p, "watch")
                        /\ UNCHANGED <<ledgerVars, cur, role, todo, child, heirs, lock, used, crashes>>

(* _terminate_tree returns with the child dead, by SIGKILL at the latest. *)
Terminated(p) ==
    /\ At(p, "stop")
    /\ \/ Alive(RunOf(p)) /\ child' = [child EXCEPT ![RunOf(p)] = "killed"]
       \/ ~Alive(RunOf(p)) /\ UNCHANGED child
    /\ Goto(p, "watch")
    /\ UNCHANGED <<ledgerVars, cur, role, todo, heirs, lock, used, crashes>>

(* The loop of run_process ends when the child is dead and both readers    *)
(* are, which read on for as long as anything holds the child's output.    *)
OutputEnds(p) == ~Alive(RunOf(p)) /\ RunOf(p) \notin heirs

(* run_process returns and the usage is within budget: the outcome is      *)
(* written without looking at the row.  Only a child that ended by itself  *)
(* can have exit code 0.                                                   *)
Collect(p) ==
    /\ At(p, "watch")
    /\ OutputEnds(p)
    /\ \/ /\ child[RunOf(p)] = "exited"
          /\ FinishRun(RunOf(p), "succeeded")
          /\ GotoFresh(p, IF role[p] = "coordinator" THEN "verify" ELSE "leave")
       \/ /\ FinishRun(RunOf(p), "failed")
          /\ GotoFresh(p, "leave")
    /\ UNCHANGED <<lease, cur, role, todo, child, heirs, lock, used, crashes>>

(* The usage exceeds a budget: SafetyPause leaves before finish_run. *)
OverBudget(p) ==
    /\ At(p, "watch")
    /\ OutputEnds(p)
    /\ FailTick(p)
    /\ GotoFresh(p, "leave")
    /\ UNCHANGED <<lease, cur, role, todo, child, heirs, lock, used, crashes>>

(* Checks of the result, secret scan and quality gates take as long as     *)
(* they take, without a heartbeat; then the reviewer runs or the tick ends,*)
(* well or with an exception.                                              *)
StartReview(p) ==
    /\ Reviews
    /\ At(p, "verify")
    /\ role' = [role EXCEPT ![p] = "reviewer"]
    /\ StartRun(<<cur[p], "reviewer">>)
    /\ GotoFresh(p, "launch")
    /\ UNCHANGED <<lease, cur, todo, child, heirs, lock, used, crashes>>

EndVerify(p) ==
    /\ At(p, "verify")
    /\ UNCHANGED runs \/ FailTick(p)
    /\ Goto(p, "leave")
    /\ UNCHANGED <<lease, cur, role, todo, child, heirs, lock, used, crashes>>

(* `finally`: release the lease if it is still ours. *)
Release(p) ==
    /\ At(p, "leave")
    /\ ReleaseLease(cur[p])
    /\ Nothing(p)
    /\ GotoFresh(p, Idle(p))
    /\ UNCHANGED <<runs, todo, child, heirs, lock, used, crashes>>

-----------------------------------------------------------------------------
(* The environment: children, faults and time. *)

ChildEnds(r) ==
    /\ Alive(r)
    /\ \E how \in {"exited", "killed"} : child' = [child EXCEPT ![r] = how]
    /\ UNCHANGED <<ledgerVars, procVars, heirs, lock, used, crashes>>

(* A descendant of the child inherits its output, may outlive it (in a     *)
(* session of its own even a kill of the group), and ends when it likes.   *)
Fork(r) ==
    /\ "heir" \in Faults
    /\ Alive(r)
    /\ heirs' = heirs \cup {r}
    /\ UNCHANGED <<ledgerVars, procVars, child, lock, used, crashes>>

HeirEnds(r) ==
    /\ r \in heirs
    /\ heirs' = heirs \ {r}
    /\ UNCHANGED <<ledgerVars, procVars, child, lock, used, crashes>>

(* An OSError while the child is watched or told to stop (its log cannot   *)
(* be written): the tick fails, and run_process leaves the child running.  *)
WatchFails(p) ==
    /\ "io" \in Faults
    /\ pc[p] \in Watching
    /\ FailTick(p)
    /\ GotoFresh(p, "leave")
    /\ UNCHANGED <<lease, cur, role, todo, child, heirs, lock, used, crashes>>

(* The child is not gone max(5, grace) after SIGKILL: the TimeoutExpired   *)
(* of that wait is nothing _review handles, so the reviewer's row stays.   *)
StopFails(p) ==
    /\ "io" \in Faults
    /\ At(p, "stop")
    /\ FailActiveRuns({<<cur[p], "coordinator">>})
    /\ GotoFresh(p, "leave")
    /\ UNCHANGED <<lease, cur, role, todo, child, heirs, lock, used, crashes>>

Dies(p) ==
    /\ GotoFresh(p, Dead(p))
    /\ Nothing(p)
    /\ todo' = [todo EXCEPT ![p] = {}]
    /\ lock' = IF lock = p THEN NoProc ELSE lock

(* An sqlite3.Error is none of the exceptions tick handles: the lease is   *)
(* released by `finally` and the process ends with its run still active.   *)
LedgerFails(p) ==
    /\ "db" \in Faults
    /\ pc[p] \in InTick
    /\ ReleaseLease(cur[p])
    /\ Dies(p)
    /\ UNCHANGED <<runs, child, heirs, used, crashes>>

(* The process is killed; its child lives in a session of its own. *)
Crash(p) ==
    /\ "crash" \in Faults
    /\ crashes < MaxCrashes
    /\ pc[p] \notin Out
    /\ crashes' = crashes + 1
    /\ Dies(p)
    /\ UNCHANGED <<ledgerVars, child, heirs, used>>

Reboot ==
    /\ "crash" \in Faults
    /\ crashes < MaxCrashes
    /\ crashes' = crashes + 1
    /\ pc' = [p \in Proc |-> Dead(p)]
    /\ cur' = [p \in Proc |-> NoTick]
    /\ role' = [p \in Proc |-> "coordinator"]
    /\ lag' = [p \in Proc |-> 0]
    /\ todo' = [p \in Proc |-> {}]
    /\ child' = [r \in Run |-> IF Alive(r) THEN "killed" ELSE child[r]]
    /\ heirs' = {}
    /\ lock' = NoProc
    /\ UNCHANGED <<ledgerVars, used>>

(* Time passes unless a process is at the end of a bounded phase; a        *)
(* stalled machine respects no bound.                                      *)
Overdue(p) == pc[p] \in Timed /\ lag[p] >= Limit(pc[p])
ClockTick ==
    /\ "stall" \in Faults \/ \A p \in Proc : ~Overdue(p)
    /\ LedgerTick
    /\ lag' = [p \in Proc |-> IF pc[p] \in Timed /\ ~Overdue(p) THEN lag[p] + 1 ELSE lag[p]]
    /\ todo' = [p \in Proc |-> {[x EXCEPT !.age = Older(@)] : x \in todo[p]}]
    /\ UNCHANGED <<pc, cur, role, child, heirs, lock, used, crashes>>

-----------------------------------------------------------------------------
Recovers(p) ==
    \/ ReapLeases(p) \/ Scan(p) \/ SweepKill(p) \/ Abandon(p)
    \/ EndRecover(p)
    \/ \E x \in todo[p] : HandleRow(p, x)

(* The end of run_process, by a deadline or by the end of the child.       *)
Ends(p) == Overrun(p) \/ Collect(p) \/ OverBudget(p)

TicksOn(p) ==
    \/ NoTickNow(p) \/ Acquire(p) \/ StartCoordinator(p) \/ FailEarly(p)
    \/ Spawn(p) \/ Record(p) \/ Beat(p) \/ Renew(p) \/ Terminated(p)
    \/ Ends(p) \/ StartReview(p) \/ EndVerify(p) \/ Release(p)

Works(p) == Recovers(p) \/ TicksOn(p) \/ NextRound(p)

Next ==
    \/ \E p \in Proc : \/ StartLoop(p) \/ StartTool(p) \/ StopLoop(p)
                       \/ Works(p)
                       \/ WatchFails(p) \/ StopFails(p) \/ LedgerFails(p) \/ Crash(p)
    \/ \E r \in Run : ChildEnds(r) \/ Fork(r) \/ HeirEnds(r)
    \/ Reboot
    \/ ClockTick

Spec == Init /\ [][Next]_vars

(* A started process keeps running; each turn of the watching loop tests   *)
(* the wall time and the end of the child, so neither is overlooked for    *)
(* ever; the service manager restarts a loop that died, never one that was *)
(* stopped (Restart=on-failure in deploy/qas.service; the loop of          *)
(* scripts/run_long_campaign.sh ends with a success); and time passes.     *)
(* Children and their descendants owe nothing.                             *)
Fairness ==
    /\ \A p \in Proc : WF_vars(Works(p)) /\ SF_vars(Ends(p))
    /\ WF_vars(\E p \in Loops : At(p, "down") /\ StartLoop(p))
    /\ WF_vars(ClockTick)

FairSpec == Spec /\ Fairness

-----------------------------------------------------------------------------
(* What the configuration has to satisfy for the promises below.  The code *)
(* checks only Heartbeat < Lease (config.py).                              *)
WellTimed ==
    /\ Lease > Silence + Sweep + Setup + Heartbeat
    /\ Silence >= Setup + Sweep
    /\ Silence >= Heartbeat + Grace + Sweep

(* Types. *)
TypeOK ==
    /\ lease \in LeaseRow
    /\ runs \in [Run -> RunRow]
    /\ pc \in [Proc -> PC]
    /\ cur \in [Proc -> Ticks \cup {NoTick}]
    /\ \A p \in Proc : pc[p] \in InTick \cup {"kill", "abandon"} => cur[p] \in Ticks
    /\ role \in [Proc -> {"coordinator", "reviewer"}]
    /\ lag \in [Proc -> Nat]
    /\ todo \in [Proc -> SUBSET SnapRow]
    /\ child \in [Run -> ChildState]
    /\ heirs \subseteq Run
    /\ lock \in Loops \cup {NoProc}
    /\ used \subseteq Ticks
    /\ crashes \in Nat

(* A coordinator is launched and watched only under a valid lease: from    *)
(* acquire_lease to the end of the child no other process can acquire it.  *)
InCoordinator(p) == pc[p] \in Starting \cup Watching /\ role[p] = "coordinator"
CoordinatorHoldsLease == \A p \in Proc : InCoordinator(p) => OwnsLease(cur[p])

(* Why it does: two ticks never have the same id, and the time since the   *)
(* lease was last renewed is bounded in every phase (inductive).           *)
OwnTicks ==
    \A p, q \in Proc :
        /\ pc[p] \in InTick => cur[p] \in used
        /\ pc[p] \in InTick /\ pc[q] \in InTick /\ p # q => cur[p] # cur[q]
Spent(phase) == CASE phase \in Starting -> 0
                  [] phase = "renew" -> Setup + Heartbeat + Grace
                  [] OTHER -> Setup
Stay(phase) == CASE phase \in Starting -> Setup
                 [] phase = "renew" -> Heartbeat
                 [] OTHER -> Heartbeat + Grace
LeaseCoversLag ==
    \A p \in Proc : InCoordinator(p) =>
        /\ lease.owner = cur[p]
        /\ lease.ttl + lag[p] + Spent(pc[p]) >= Lease
        /\ lag[p] <= Stay(pc[p])
LeaseInvariant == OwnTicks /\ LeaseCoversLag

(* recover abandons no run that a live process still attends: its snapshot *)
(* and its pid check never overtake a heartbeat.                           *)
AbandonedMeansUnattended ==
    \A p \in Proc, r \in Run : runs[r].status = "abandoned" => ~Attends(p, r)

(* The outcome of a run is written once: finish_run, which has no guard,   *)
(* overwrites no terminal status.                                          *)
TerminalRunStable ==
    [][\A r \in Run : runs[r].status \in Terminal => runs'[r].status = runs[r].status]_vars

(* Once a run is over its recorded child is dead: recover kills before it  *)
(* abandons and tick collects before it finishes.                          *)
NoChildOutlivesItsRun ==
    \A r \in Run : runs[r].status \in Terminal /\ runs[r].pid => ~Alive(r)

(* A loop, which recovers before every tick, never launches a coordinator  *)
(* while another recorded coordinator is alive, even one that a crashed    *)
(* supervisor left behind.                                                 *)
LoopLaunchesAlone ==
    [][\A p \in Loops : Spawn(p) /\ role[p] = "coordinator" =>
           \A t \in Ticks \ {cur[p]} :
               runs[<<t, "coordinator">>].pid => ~Alive(<<t, "coordinator">>)]_vars

(* Every run recorded as active reaches a terminal status, whatever        *)
(* crashes, log and ledger errors or stalls happen meanwhile, unless the   *)
(* loops were stopped for good (nobody recovers then) or a descendant of   *)
(* its child holds the output for ever: wall time and silence are tested   *)
(* only while the child itself lives, so nothing ends that watch.          *)
StoppedForGood == <>[](\A p \in Loops : At(p, "off"))
Inherited(r) == <>[](r \in heirs)

(* No tick holds a valid lease for ever, whether its process goes on, is   *)
(* gone or was stopped, unless a descendant holds the output of one of its *)
(* children for ever (the watch renews the lease as long as that lasts).   *)
LeaseEventuallyFreed ==
    \A t \in Ticks : \/ \E kind \in {"coordinator", "reviewer"} : Inherited(<<t, kind>>)
                     \/ OwnsLease(t) ~> ~OwnsLease(t)

(* What all this is for: the runs of the ledger, with the processes that   *)
(* attend them, behave as Custody says; coordinators exclude one another.  *)
AttendedRuns == {r \in Run : \E p \in Proc : Attends(p, r)}
Outcome == [r \in Run |-> IF runs[r].status \in Active THEN "open" ELSE runs[r].status]
Coordinators == Ticks \X {"coordinator"}
Kept == INSTANCE Custody WITH Runs <- Run, Exclusive <- Coordinators,
                              attended <- AttendedRuns, outcome <- Outcome
KeepsCustody == Kept!Spec

(* README.md: "One coordinator process can mutate the target at a time."   *)
OneCoordinator ==
    \A t, u \in Ticks :
        Alive(<<t, "coordinator">>) /\ Alive(<<u, "coordinator">>) => t = u

(* README.md: the lease "is renewed throughout the run": a tick that is    *)
(* not over yet still owns it.                                             *)
LeaseHeldThroughTick ==
    \A p \in Proc : pc[p] \in InTick \ {"leave"} => OwnsLease(cur[p])
=============================================================================
