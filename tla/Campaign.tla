------------------------------ MODULE Campaign ------------------------------
(***************************************************************************)
(* run_campaign (campaign.py): a loop bounded by a deadline, its chaos and *)
(* deadline threads, the checkpoint from which a later process resumes it, *)
(* and the report; with the failures that hold its ticks back.             *)
(*                                                                         *)
(* The loop's ticks are those of Coordination, in a few steps: a run row   *)
(* and one child at a time, and what is left of the runs of dead processes *)
(* until a recovery finds it silent.  Instants are kept relative to now.   *)
(***************************************************************************)
EXTENDS Failures

CONSTANTS
    Procs,          \* processes that run `qas campaign`
    NoProc,         \* nobody holds scheduler.lock
    Duration,       \* --duration
    Chaos,          \* --chaos-every is given
    MaxCampaigns, MaxFinished,    \* bounds of an instance, the last one on
    MaxEvents       \* crashes and what others do beside a campaign

ASSUME CampaignAssumption ==
    /\ NoProc \notin Procs
    /\ Duration \in Nat \ {0}
    /\ Chaos \in BOOLEAN
    /\ {MaxCampaigns, MaxFinished, MaxEvents} \subseteq Nat

VARIABLES
    pc,         \* where each process is
    mine,       \* campaign_id and before
    left,       \* stop_at - now
    tally,      \* ticks it counts for its report
    stop,       \* the event Supervisor._stop
    thread,     \* its chaos and its deadline thread
    lock,       \* holder of scheduler.lock
    camp,       \* checkpoint active_campaign
    active,     \* a run row is running, its pid recorded
    child,      \* the process of that row
    stray,      \* an older row that a dead process left, and its process
    finished,   \* tick_finished events
    reports,    \* campaigns whose report was written
    events,     \* crashes and interventions so far
    campaigns,  \* campaigns started so far: their ids are 1..campaigns
    origin,     \* (history) tick_finished events when a campaign was started
    missed,     \* (history) campaigns replaced after their deadline
    overrun,    \* (history) campaigns that lost the checkpoint to another
                \* process that did not know of them
    told,       \* (history) the process was told to stop
    late,       \* (history) ticks a process has launched past its deadline
    saw,        \* (history) what the checkpoint named when a process read it
    unseen      \* (history) failures of `qas tick` during a tick of the loop

procVars == <<pc, mine, left, tally, stop, thread, lock, told, late, saw>>
rowVars == <<active, child, stray>>
tickVars == <<rowVars, finished, unseen>>
recordVars == <<camp, reports, campaigns, origin, missed, overrun>>
vars == <<procVars, tickVars, recordVars, events, failureVars>>

Ids == 1..MaxCampaigns
NoCampaign == [id |-> 0, left |-> 0, before |-> 0]
Mine == [id : 0..MaxCampaigns, before : 0..MaxFinished]
Killer == {"chaos", "deadline"}
Row == {"newest", "stray"}      \* of the active ones, those a thread aims at
Aims == {"waiting", "over"} \cup Row

(* Phases of loop, of a tick in it, and of run_campaign around them. *)
InTick == {"launch", "coordinator", "verify", "reviewer", "judge"}
Watching == {"coordinator", "reviewer"}
InLoop == {"round", "recover", "gate"} \cup InTick
PC == {"off", "mark", "enter", "count", "report", "clear"} \cup InLoop

Init ==
    /\ pc = [p \in Procs |-> "off"]
    /\ mine = [p \in Procs |-> [id |-> 0, before |-> 0]]
    /\ left = [p \in Procs |-> 0]
    /\ tally = [p \in Procs |-> 0]
    /\ stop = [p \in Procs |-> FALSE]
    /\ thread = [p \in Procs |-> [k \in Killer |-> "over"]]
    /\ lock = NoProc
    /\ camp = NoCampaign
    /\ active = FALSE
    /\ child = "none"
    /\ stray = "no"
    /\ finished = 0
    /\ unseen = {}
    /\ reports = {}
    /\ events = 0
    /\ campaigns = 0
    /\ origin = [i \in Ids |-> 0]
    /\ missed = {}
    /\ overrun = {}
    /\ told = [p \in Procs |-> FALSE]
    /\ late = [p \in Procs |-> 0]
    /\ saw = [p \in Procs |-> 0]
    /\ NoFailures

At(p, phase) == pc[p] = phase
Goto(p, phase) == pc' = [pc EXCEPT ![p] = phase]
Step(p, from, to) == At(p, from) /\ Goto(p, to)

(* The locals of a process that ends. *)
Forgets(p) ==
    /\ Goto(p, "off")
    /\ mine' = [mine EXCEPT ![p] = [id |-> 0, before |-> 0]]
    /\ left' = [left EXCEPT ![p] = 0]
    /\ tally' = [tally EXCEPT ![p] = 0]
    /\ stop' = [stop EXCEPT ![p] = FALSE]
    /\ told' = [told EXCEPT ![p] = FALSE]
    /\ late' = [late EXCEPT ![p] = 0]
    /\ saw' = [saw EXCEPT ![p] = 0]

Happens == events < MaxEvents /\ events' = events + 1

-----------------------------------------------------------------------------
(* The start of run_campaign: resume what the checkpoint names while its   *)
(* deadline has not passed, or count the events and mark a new campaign.   *)

(* A second process beside one that is at work counts as an event. *)
Starts(p) == /\ At(p, "off")
             /\ IF \A q \in Procs : At(q, "off") THEN UNCHANGED events ELSE Happens

BaselineNow == finished         \* mutant: a resumed campaign counts anew
Baseline == camp.before
ResumableLater == camp.left > 1   \* mutant
Resumable == camp.left > 0

Resume(p) ==
    /\ Starts(p)
    /\ Goto(p, "enter")
    /\ Resumable
    /\ mine' = [mine EXCEPT ![p] = [id |-> camp.id, before |-> Baseline]]
    /\ left' = [left EXCEPT ![p] = camp.left]
    /\ UNCHANGED <<tally, stop, thread, lock, told, late, saw, tickVars, recordVars,
                   failureVars>>

CountBefore(p) ==
    /\ Starts(p)
    /\ Goto(p, "mark")
    /\ ~Resumable
    /\ mine' = [mine EXCEPT ![p] = [id |-> 0, before |-> finished]]
    /\ left' = [left EXCEPT ![p] = Duration]
    /\ saw' = [saw EXCEPT ![p] = camp.id]
    /\ UNCHANGED <<tally, stop, thread, lock, told, late, tickVars, recordVars,
                   failureVars>>

(* The checkpoint is replaced, whatever it names by now. *)
Mark(p) ==
    /\ Step(p, "mark", "enter")
    /\ campaigns < MaxCampaigns
    /\ campaigns' = campaigns + 1
    /\ mine' = [mine EXCEPT ![p].id = campaigns']
    /\ camp' = [id |-> campaigns', left |-> left[p], before |-> mine[p].before]
    /\ origin' = [origin EXCEPT ![campaigns'] = mine[p].before]
    /\ missed' = IF camp.left = 0 THEN missed \cup ({camp.id} \ {0}) ELSE missed
    /\ overrun' = overrun \cup ({camp.id} \ {0, saw[p]})
    /\ UNCHANGED <<left, tally, stop, thread, lock, told, late, saw, tickVars, reports,
                   events, failureVars>>

(* The threads start, then loop wants the lock; AlreadyRunning ends the    *)
(* process and leaves the checkpoint.                                      *)
Kinds == IF Chaos THEN Killer ELSE {"deadline"}
LockIgnored == TRUE             \* mutant: no scheduler.lock
LockFree == lock = NoProc

Enter(p) ==
    /\ At(p, "enter")
    /\ IF LockFree
       THEN /\ Goto(p, "round")
            /\ lock' = p
            /\ thread' = [thread EXCEPT ![p] =
                            [k \in Killer |-> IF k \in Kinds THEN "waiting" ELSE "over"]]
            /\ UNCHANGED <<mine, left, tally, stop, told, late, saw>>
       ELSE Forgets(p) /\ UNCHANGED <<lock, thread>>
    /\ UNCHANGED <<tickVars, recordVars, events, failureVars>>

-----------------------------------------------------------------------------
(* Supervisor.loop *)

(* `finally` of run_campaign: the threads that wait are told to end. *)
EndWaiting(t) == [k \in Killer |-> IF t[k] = "waiting" THEN "over" ELSE t[k]]

(* The end of the wait between two rounds, which stop_at or the event cuts *)
(* short, and the test of the loop.                                        *)
UntilStopped(p) == ~stop[p]     \* mutant: no test of stop_at
GoesOn(p) == ~stop[p] /\ left[p] > 0

Round(p) ==
    /\ At(p, "round")
    /\ IF GoesOn(p)
       THEN Goto(p, "recover") /\ UNCHANGED <<lock, thread>>
       ELSE /\ Goto(p, "count")
            /\ lock' = NoProc
            /\ thread' = [thread EXCEPT ![p] = EndWaiting(@)]
    /\ UNCHANGED <<mine, left, tally, stop, told, late, saw, tickVars, recordVars, events,
                   failureVars>>

(* Rows are settled: a thread that has read one will miss its process, and *)
(* end.                                                                    *)
Settle(rows) == thread' = [p \in Procs |-> [k \in Killer |->
                              IF thread[p][k] \in rows THEN "over" ELSE thread[p][k]]]

(* What dead processes left is killed and settled once it is silent enough.*)
Recover(p) ==
    /\ Step(p, "recover", "gate")
    /\ \E rows \in SUBSET Row :
         /\ Settle(rows)
         /\ IF "newest" \in rows THEN active' = FALSE /\ child' = "none"
                                 ELSE UNCHANGED <<active, child>>
         /\ stray' = IF "stray" \in rows THEN "no" ELSE stray
    /\ UNCHANGED <<mine, left, tally, stop, lock, told, late, saw, finished, unseen,
                   recordVars, events, failureVars>>

(* The loop's condition for a tick: nothing of the rows of others. *)
Gate(p) ==
    /\ At(p, "gate")
    /\ Goto(p, IF Allowed THEN "launch" ELSE "round")
    /\ UNCHANGED <<mine, left, tally, stop, thread, lock, told, late, saw, tickVars,
                   recordVars, events, failureVars>>

(* Another tick holds the lease. *)
LeaseBusy(p) ==
    /\ Step(p, "launch", "round")
    /\ unseen' = {}
    /\ UNCHANGED <<mine, left, tally, stop, thread, lock, told, late, saw, rowVars,
                   finished, recordVars, events, failureVars>>

Runs(p) == active' = TRUE /\ child' = "alive"
Launch(p) ==
    /\ Step(p, "launch", "coordinator")
    /\ Runs(p)
    /\ IF active
       THEN /\ stray' = IF "alive" \in {child, stray} THEN "alive" ELSE "dead"
            /\ thread' = [q \in Procs |-> [k \in Killer |->
                            IF thread[q][k] = "newest" THEN "stray" ELSE thread[q][k]]]
       ELSE UNCHANGED <<stray, thread>>
    /\ late' = [late EXCEPT ![p] = IF left[p] = 0 THEN @ + 1 ELSE @]
    /\ UNCHANGED <<mine, left, tally, stop, lock, told, saw, finished, unseen, recordVars,
                   events, failureVars>>

LaunchReviewer(p) ==
    /\ Step(p, "verify", "reviewer")
    /\ Runs(p)
    /\ UNCHANGED <<mine, left, tally, stop, thread, lock, told, late, saw, stray, finished,
                   unseen, recordVars, events, failureVars>>

(* The child is reaped and its row settled. *)
Collect(p) ==
    /\ pc[p] \in Watching
    /\ child = "zombie"
    /\ Goto(p, IF At(p, "coordinator") THEN "verify" ELSE "judge")
    /\ child' = "none"
    /\ active' = FALSE
    /\ Settle({"newest"})
    /\ UNCHANGED <<mine, left, tally, stop, lock, told, late, saw, stray, finished, unseen,
                   recordVars, events, failureVars>>

(* The end of a tick, with a child or without. *)
Ending == {"launch", "verify", "judge"}
Ends(p) ==
    /\ pc[p] \in Ending
    /\ Goto(p, "round")
    /\ unseen' = {}
    /\ UNCHANGED <<mine, left, tally, stop, thread, lock, told, late, saw, rowVars,
                   recordVars, events>>

Finish(p) ==
    /\ ~At(p, "launch")
    /\ Ends(p)
    /\ finished < MaxFinished
    /\ finished' = finished + 1
    /\ UNCHANGED failureVars

Fail(p) ==
    /\ Ends(p)
    /\ \/ \E f \in Fingerprints : \E scope \in {"host", "work"} : Fails(f, scope)
       \/ Dependency
       \/ SafetyPause
    /\ UNCHANGED finished

-----------------------------------------------------------------------------
(* kill_active_agent in a thread: read the newest active run, then kill    *)
(* its pid.                                                                *)
(* A pid that is gone raises ProcessLookupError, which ends the thread.    *)
(* The deadline thread goes on to request_stop, the chaos thread to its    *)
(* next wait.                                                              *)

DueAtOnce(p, k) == TRUE         \* mutant: the result of wait is not tested
Due(p, k) == k = "chaos" \/ left[p] = 0

SetThread(p, k, s) == thread' = [thread EXCEPT ![p][k] = s]
GoesOnAs(p, k) ==
    /\ SetThread(p, k, IF k = "chaos" /\ pc[p] \in InLoop THEN "waiting" ELSE "over")
    /\ stop' = IF k = "deadline" THEN [stop EXCEPT ![p] = TRUE] ELSE stop

Aim(p, k) ==
    /\ thread[p][k] = "waiting"
    /\ Due(p, k)
    /\ CASE active -> SetThread(p, k, "newest") /\ UNCHANGED stop
         [] ~active /\ stray # "no" -> SetThread(p, k, "stray") /\ UNCHANGED stop
         [] OTHER -> GoesOnAs(p, k)
    /\ UNCHANGED <<pc, mine, left, tally, lock, told, late, saw, tickVars, recordVars,
                   events, failureVars>>

(* An orphan has no parent that would reap it: it is gone at once. *)
Corpse == IF \E p \in Procs : pc[p] \in Watching THEN "zombie" ELSE "none"
Kill(p, k) ==
    /\ \/ /\ thread[p][k] = "newest"
          /\ IF child = "none" THEN SetThread(p, k, "over") /\ UNCHANGED <<stop, child>>
                               ELSE GoesOnAs(p, k) /\ child' = Corpse
          /\ UNCHANGED stray
       \/ /\ thread[p][k] = "stray"
          /\ IF stray = "alive" THEN GoesOnAs(p, k) /\ stray' = "dead"
                                ELSE SetThread(p, k, "over") /\ UNCHANGED <<stop, stray>>
          /\ UNCHANGED child
    /\ UNCHANGED <<pc, mine, left, tally, lock, told, late, saw, active, finished, unseen,
                   recordVars, events, failureVars>>

-----------------------------------------------------------------------------
(* The end of run_campaign: join, count, report, clear.                    *)

Joined(p) == \A k \in Killer : thread[p][k] = "over"
Count(p) ==
    /\ Step(p, "count", "report")
    /\ Joined(p)
    /\ tally' = [tally EXCEPT ![p] = finished - mine[p].before]
    /\ UNCHANGED <<mine, left, stop, thread, lock, told, late, saw, tickVars, recordVars,
                   events, failureVars>>

Report(p) ==
    /\ Step(p, "report", "clear")
    /\ reports' = reports \cup {mine[p].id}
    /\ UNCHANGED <<mine, left, tally, stop, thread, lock, told, late, saw, tickVars, camp,
                   campaigns, origin, missed, overrun, events, failureVars>>

(* Whoever's campaign the checkpoint names by now; then the process ends. *)
Clear(p) ==
    /\ At(p, "clear")
    /\ camp' = NoCampaign
    /\ overrun' = overrun \cup ({camp.id} \ {0, mine[p].id})
    /\ Forgets(p)
    /\ UNCHANGED <<thread, lock, tickVars, reports, campaigns, origin, missed, events,
                   failureVars>>

-----------------------------------------------------------------------------
(* The environment *)

Tell(p) ==
    /\ Happens
    /\ pc[p] \in InLoop
    /\ stop' = [stop EXCEPT ![p] = TRUE]
    /\ told' = [told EXCEPT ![p] = TRUE]
    /\ UNCHANGED <<pc, mine, left, tally, thread, lock, late, saw, tickVars, recordVars,
                   failureVars>>

(* The supervisor is killed: its child lives on, unless the host goes      *)
(* down; a failure may be on record already, without its delay.            *)
Crash(p) ==
    /\ ~At(p, "off")
    /\ Happens
    /\ Forgets(p)
    /\ thread' = [thread EXCEPT ![p] = [k \in Killer |-> "over"]]
    /\ lock' = IF lock = p THEN NoProc ELSE lock
    /\ IF pc[p] \in Watching THEN child' \in {"none"} \cup ({child} \ {"zombie"})
                             ELSE UNCHANGED child
    /\ \/ UNCHANGED failureVars
       \/ /\ pc[p] \in Ending
          /\ \E f \in Fingerprints :
               \E scope \in {"host", "work"} : FailsUndelayed(f, scope)
    /\ unseen' = IF pc[p] \in InTick THEN {} ELSE unseen
    /\ UNCHANGED <<active, stray, finished, recordVars>>

(* By itself or by the wall time of its watchdog. *)
ChildEnds ==
    /\ \/ child = "alive" /\ child' = Corpse /\ UNCHANGED stray
       \/ stray = "alive" /\ stray' = "dead" /\ UNCHANGED child
    /\ UNCHANGED <<procVars, active, finished, unseen, recordVars, events, failureVars>>

Lift ==
    /\ Happens
    /\ \E f \in Fingerprints : Unquarantine(f)
    /\ UNCHANGED <<procVars, tickVars, recordVars>>

(* `qas tick` asks nobody: it only needs the lease, which a loop holds     *)
(* while it watches its coordinator, but neither at its gate nor safely    *)
(* once the quality gates run.                                             *)
OneShot ==
    /\ Happens
    /\ \A p \in Procs : ~At(p, "coordinator")
    /\ \/ /\ finished < MaxFinished
          /\ finished' = finished + 1
          /\ UNCHANGED <<unseen, failureVars>>
       \/ \E f \in Fingerprints :
            /\ \E scope \in {"host", "work"} : Counted(f, scope)
            /\ hostFails' = [hostFails EXCEPT ![f] = 0]
            /\ unseen' = IF \E p \in Procs : pc[p] \in InTick THEN unseen \cup {f}
                                                           ELSE unseen
            /\ UNCHANGED finished
    /\ UNCHANGED <<procVars, rowVars, recordVars>>

ClockTick ==
    /\ camp' = [camp EXCEPT !.left = IF @ = 0 THEN 0 ELSE @ - 1]
    /\ left' = [p \in Procs |-> IF pc[p] \in InLoop /\ left[p] > 0 THEN left[p] - 1
                                                                 ELSE left[p]]
    /\ HoldPasses
    /\ UNCHANGED <<pc, mine, tally, stop, thread, lock, told, late, saw, tickVars,
                   reports, campaigns, origin, missed, overrun, events>>

-----------------------------------------------------------------------------
Begins(p) == Resume(p) \/ CountBefore(p) \/ Mark(p) \/ Enter(p)
Loops(p) == \/ Round(p) \/ Recover(p) \/ Gate(p)
            \/ LeaseBusy(p) \/ Launch(p) \/ LaunchReviewer(p) \/ Collect(p)
            \/ Finish(p) \/ Fail(p)
Kills(p) == \E k \in Killer : Aim(p, k) \/ Kill(p, k)
Concludes(p) == Count(p) \/ Report(p) \/ Clear(p)

Next ==
    \/ \E p \in Procs : \/ Begins(p) \/ Loops(p) \/ Kills(p) \/ Concludes(p)
                        \/ Tell(p) \/ Crash(p)
    \/ ChildEnds \/ Lift \/ OneShot \/ ClockTick

Spec == Init /\ [][Next]_vars

-----------------------------------------------------------------------------
(* Types; and the lock is held by the process in its loop. *)
CampaignOK ==
    /\ pc \in [Procs -> PC]
    /\ mine \in [Procs -> Mine]
    /\ left \in [Procs -> 0..Duration]
    /\ tally \in [Procs -> 0..MaxFinished]
    /\ stop \in [Procs -> BOOLEAN] /\ told \in [Procs -> BOOLEAN]
    /\ thread \in [Procs -> [Killer -> Aims]]
    /\ lock \in Procs \cup {NoProc}
    /\ \A p \in Procs : pc[p] \in InLoop <=> lock = p
    /\ camp \in [id : 0..MaxCampaigns, left : 0..Duration, before : 0..MaxFinished]
    /\ active \in BOOLEAN
    /\ child \in {"none", "alive", "zombie"} /\ stray \in {"no", "dead", "alive"}
    /\ unseen \subseteq Fingerprints
    /\ finished \in 0..MaxFinished
    /\ campaigns \in 0..MaxCampaigns
    /\ origin \in [Ids -> 0..MaxFinished]
    /\ reports \subseteq 0..MaxCampaigns /\ missed \subseteq 0..MaxCampaigns
    /\ overrun \subseteq 0..MaxCampaigns
    /\ saw \in [Procs -> 0..MaxCampaigns]
    /\ late \in [Procs -> Nat] /\ events \in Nat
TypeOK == CampaignOK /\ FailuresOK

(* However often its process died, a campaign reports the ticks since it   *)
(* was first started.                                                      *)
ReportSpansCampaign ==
    [][\A p \in Procs : At(p, "count") /\ pc'[p] = "report" =>
           tally'[p] = finished - origin[mine[p].id]]_vars

(* A campaign that was started is in the checkpoint or was reported,       *)
(* unless nobody resumed it before its deadline, or a second process at    *)
(* work on the same ledger did not know of it.                             *)
NoCampaignForgotten ==
    1..campaigns \subseteq {camp.id} \cup reports \cup missed \cup overrun

(* A campaign is reported before its deadline only if its process was      *)
(* told to stop; one that died does not count as stopped.                  *)
ReportIsDue ==
    [][\A p \in Procs : At(p, "report") /\ pc'[p] = "clear" => left[p] = 0 \/ told[p]]_vars

(* A process launches at most one tick past its deadline, even if its      *)
(* deadline thread dies before it requests the stop.                       *)
OneLateTick == \A p \in Procs : late[p] <= 1

(* A host failure is met at most Threshold times, over all campaigns and   *)
(* crashes, until somebody outside the loop touches it.                    *)
HostFailuresBounded == \A f \in Fingerprints : hostFails[f] <= Threshold

(* A host quarantine is lifted by a person, by a one-shot tick whose       *)
(* failure has the same fingerprint, or by the loop's, if `qas tick` met   *)
(* that failure behind the loop's look at the quarantines; by nothing else *)
(* that a loop does, however its ticks, crashes and restarts are ordered.  *)
QuarantineStays ==
    [][\A f \in Fingerprints :
           HostQuarantined(f) /\ ~HostQuarantined(f)' => Lift \/ OneShot \/ f \in unseen]_vars
=============================================================================
