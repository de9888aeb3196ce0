------------------------- MODULE SupervisionProofs -------------------------
(***************************************************************************)
(* What the theorems about the lease and about recover amount to, for      *)
(* every value of the constants: Coordination implements Custody, and two  *)
(* coordinator processes are never alive together, unless something fails  *)
(* and the one that is left over was not launched by a loop or is not on   *)
(* record.                                                                 *)
(***************************************************************************)
EXTENDS RecoveryProofs

-----------------------------------------------------------------------------
(* Steps that Custody sees. *)

Same(r) == \/ runs'[r].status = runs[r].status
           \/ runs[r].status \in Active /\ runs'[r].status \in Active

(* A step that takes no run into custody and writes no outcome.            *)
LEMMA Quiet ==
    ASSUME \A r \in Run, p \in Proc : Attends(p, r)' => Attends(p, r),
           \A r \in Run : Same(r)
    PROVE  Kept!Next
<1>1. AttendedRuns' \subseteq AttendedRuns
    BY DEF AttendedRuns
<1>2. Outcome' = Outcome
    BY DEF Same, Outcome
<1> QED BY <1>1, <1>2 DEF Kept!Next, Kept!Forsake

(* A step that writes the outcome of one run, and of no other.             *)
LEMMA Rewritten ==
    ASSUME NEW r \in Run, NEW s,
           \A x \in Run \ {r} : runs'[x].status = runs[x].status,
           s = IF runs'[r].status \in Active THEN "open" ELSE runs'[r].status
    PROVE  Outcome' = [Outcome EXCEPT ![r] = s]
<1>1. Outcome = [x \in Run |-> IF runs[x].status \in Active THEN "open" ELSE runs[x].status]
    BY DEF Outcome
<1>2. Outcome' = [x \in Run |-> IF runs'[x].status \in Active THEN "open" ELSE runs'[x].status]
    BY DEF Outcome
<1> QED BY <1>1, <1>2

(* The custody of everybody else stays as it is.                           *)
Custodians(p) == \A q \in Proc \ {p} : pc'[q] = pc[q] /\ cur'[q] = cur[q] /\ role'[q] = role[q]

(* Nobody else attends the run of a process in a tick.                     *)
LEMMA SoleCustody ==
    ASSUME OwnTicks, NEW p \in Proc, pc[p] \in InTick, NEW q \in Proc \ {p}, NEW r \in Run,
           Attends(q, r)
    PROVE  r[1] # cur[p]
<1>1. pc[q] \in InTick /\ r = <<cur[q], role[q]>>
    BY DEF Attends, RunOf, InTick, Starting
<1> QED BY <1>1 DEF OwnTicks

(* A process that stops attending its run with an outcome settles it.      *)
LEMMA SettlesIt ==
    ASSUME TypeOK, OwnTicks, NEW p \in Proc, NEW s \in {"succeeded", "failed"},
           pc[p] \in Attending, runs[RunOf(p)].status \in Active,
           Custodians(p), pc'[p] \notin Attending,
           runs'[RunOf(p)].status = s,
           \A x \in Run \ {RunOf(p)} : runs'[x].status = runs[x].status
    PROVE  Kept!Next
<1>1. pc[p] \in InTick /\ RunOf(p) \in Run /\ Attends(p, RunOf(p)) /\ RunOf(p)[1] = cur[p]
    BY OwnTypes DEF Attending, InTick, Starting, Attends, RunOf
<1>2. AttendedRuns' = AttendedRuns \ {RunOf(p)}
  <2>1. \A r \in Run : ~Attends(p, r)'
      BY DEF Attends, Attending
  <2>2. \A r \in Run, q \in Proc \ {p} : Attends(q, r)' = Attends(q, r)
      BY DEF Custodians, Attends, RunOf
  <2>3. \A q \in Proc \ {p} : ~Attends(q, RunOf(p))
      BY <1>1, SoleCustody
  <2>4. \A r \in Run : Attends(p, r) => r = RunOf(p)
      BY DEF Attends
  <2> QED BY <2>1, <2>2, <2>3, <2>4 DEF AttendedRuns
<1>3. Outcome[RunOf(p)] = "open" /\ RunOf(p) \in AttendedRuns
    BY <1>1 DEF Outcome, AttendedRuns
<1>4. Outcome' = [Outcome EXCEPT ![RunOf(p)] = s]
    BY <1>1, Rewritten DEF Active
<1>5. Kept!Settle(RunOf(p))
    BY <1>2, <1>3, <1>4 DEF Kept!Settle
<1> QED BY <1>1, <1>5 DEF Kept!Next

(* A process that starts to attend a run opens it: its row is new, and a   *)
(* coordinator is started under the lease, where there is no other.        *)
LEMMA OpensIt ==
    ASSUME TypeOK, LeaseInvariant, NEW p \in Proc, pc[p] \in InTick, ~(pc[p] \in Attending),
           NEW k \in Kinds, k = "coordinator" => InCoordinator(p),
           Custodians(p), pc'[p] = "launch", cur'[p] = cur[p], role'[p] = k,
           runs[<<cur[p], k>>].status = "none", runs'[<<cur[p], k>>].status \in Active,
           \A x \in Run \ {<<cur[p], k>>} : runs'[x].status = runs[x].status
    PROVE  Kept!Next
<1>1. PICK r : r = <<cur[p], k>>
    OBVIOUS
<1>2. r \in Run /\ cur[p] \in Ticks
    BY <1>1, OwnTypes
<1>3. AttendedRuns' = AttendedRuns \cup {r}
  <2>1. \A x \in Run : Attends(p, x)' <=> x = r
      BY <1>1 DEF Attends, RunOf
  <2>2. \A x \in Run, q \in Proc \ {p} : Attends(q, x)' <=> Attends(q, x)
      BY DEF Custodians, Attends, RunOf
  <2>3. \A x \in Run : ~Attends(p, x)
      BY DEF Attends, Attending
  <2> QED BY <1>2, <2>1, <2>2, <2>3 DEF AttendedRuns
<1>4. Outcome[r] = "none"
    BY <1>1, <1>2 DEF Outcome, Active
<1>5. Outcome' = [Outcome EXCEPT ![r] = "open"]
    BY <1>1, <1>2, Rewritten
<1>6. ASSUME r \in Coordinators PROVE AttendedRuns \cap Coordinators = {}
  <2>1. InCoordinator(p)
      BY <1>1, <1>6 DEF Coordinators
  <2>2. ASSUME NEW x \in Coordinators, NEW q \in Proc, Attends(q, x) PROVE FALSE
    <3>1. InCoordinator(q) /\ pc[q] \in Attending
        BY <2>2 DEF Attends, RunOf, Coordinators, InCoordinator, Starting, Attending
    <3>2. cur[q] = cur[p] /\ pc[q] \in InTick
        BY <2>1, <3>1 DEF LeaseInvariant, LeaseCoversLag, InCoordinator, InTick
    <3> QED BY <3>1, <3>2 DEF LeaseInvariant, OwnTicks
  <2> QED BY <2>2 DEF AttendedRuns
<1>7. Kept!Open(r)
    BY <1>3, <1>4, <1>5, <1>6 DEF Kept!Open
<1> QED BY <1>2, <1>7 DEF Kept!Next

(* A tick that fails settles the run it attends, if it attends one, or     *)
(* leaves it without custody (the reviewer's that would not stop).         *)
LEMMA FailsIt ==
    ASSUME TypeOK, OwnTicks, Orderly, NEW p \in Proc, pc[p] \in InTick \ {"leave"},
           FailsRows(p), Custodians(p), pc'[p] = "leave"
    PROVE  Kept!Next
<1>0. Mine(p)
    BY DEF Orderly
<1>s. PICK S \in SUBSET {RunOf(p), <<cur[p], "coordinator">>} : FailActiveRuns(S)
    BY DEF FailsRows, FailTick
<1>1. \A r \in Run : runs'[r].status =
          IF r \in S /\ runs[r].status \in Active THEN "failed" ELSE runs[r].status
  <2>1. \A r \in Run : Row("failed", 0, runs[r].pid).status = "failed"
      BY DEF Row
  <2> QED BY <1>s, <2>1 DEF FailActiveRuns
<1>2. \A r \in S : r \in Run /\ (runs[r].status \in Active => Attends(p, r))
    BY <1>0, <1>s, OwnTypes DEF Mine, OnlyAttended, RowOf, Kinds, RunOf
<1>3. CASE pc[p] \in Attending /\ RunOf(p) \in S
  <2>1. runs[RunOf(p)].status \in Active
      BY <1>0, <1>3 DEF Mine, InPhase, Attending, Active
  <2>2. runs'[RunOf(p)].status = "failed"
      BY <1>1, <1>2, <1>3, <2>1
  <2>3. \A x \in Run \ {RunOf(p)} : runs'[x].status = runs[x].status
      BY <1>1, <1>2 DEF Attends
  <2>4. pc'[p] \notin Attending
      BY DEF Attending, Watching
  <2> QED BY <1>3, <2>1, <2>2, <2>3, <2>4, SettlesIt
<1>4. CASE pc[p] \notin Attending \/ RunOf(p) \notin S
  <2>1. \A r \in Run : runs'[r].status = runs[r].status
      BY <1>1, <1>2, <1>4 DEF Attends, Attending
  <2>2. \A r \in Run, q \in Proc : Attends(q, r)' => Attends(q, r)
      BY DEF Custodians, Attends, RunOf, Watching
  <2> QED BY <2>1, <2>2, Quiet DEF Same
<1> QED BY <1>3, <1>4

(* Every step is one of Custody.                                           *)
LEMMA CustodyStep ==
    ASSUME TypeOK, LeaseInvariant, Orderly, [Next]_vars
    PROVE  Kept!Next
<1>0. /\ pc \in [Proc -> PC] /\ cur \in [Proc -> Ticks \cup {NoTick}]
      /\ role \in [Proc -> Kinds] /\ runs \in [Run -> RunRow]
      /\ OwnTicks /\ \A p \in Proc : Mine(p) /\ Swept(p)
    BY DEF TypeOK, Kinds, LeaseInvariant, Orderly
<1> USE DEF At, Goto, GotoFresh, ledgerVars, procVars
(* The rows stay, and nobody takes custody of a run. *)
<1>1. ASSUME UNCHANGED runs, \A r \in Run, p \in Proc : Attends(p, r)' => Attends(p, r)
      PROVE  Kept!Next
    BY <1>1, Quiet DEF Same
<1>2. ASSUME NEW p \in Proc,
             \/ StartLoop(p) \/ StartTool(p) \/ StopLoop(p) \/ NextRound(p) \/ Crash(p)
             \/ ReapLeases(p) \/ Scan(p) \/ EndRecover(p) \/ NoTickNow(p) \/ SweepKill(p)
             \/ (\E x \in todo[p] : HandleRow(p, x)) \/ Acquire(p) \/ Release(p)
             \/ LedgerFails(p) \/ (EndVerify(p) /\ UNCHANGED runs)
      PROVE  Kept!Next
  <2>1. /\ UNCHANGED runs /\ Custodians(p)
        /\ pc'[p] \notin {"launch", "spawned", "watch", "renew", "stop"}
    <3> USE <1>0 DEF Custodians, Nothing, Handles, Dies, Dead, Idle
    <3>1. CASE \/ StartLoop(p) \/ StartTool(p) \/ StopLoop(p) \/ NextRound(p) \/ Crash(p)
               \/ ReapLeases(p) \/ Scan(p) \/ EndRecover(p) \/ NoTickNow(p) \/ SweepKill(p)
        BY <3>1 DEF StartLoop, StartTool, StopLoop, NextRound, Crash, ReapLeases, Scan,
           EndRecover, NoTickNow, SweepKill
    <3>2. ASSUME NEW x \in todo[p], HandleRow(p, x)
          PROVE  /\ UNCHANGED runs /\ Custodians(p)
                 /\ pc'[p] \notin {"launch", "spawned", "watch", "renew", "stop"}
      <4>1. Verdict(x) \in {"kill", "abandon"}
          BY DEF Verdict
      <4> QED BY <3>2, <4>1 DEF HandleRow
    <3>3. CASE Acquire(p) \/ Release(p) \/ LedgerFails(p) \/ (EndVerify(p) /\ UNCHANGED runs)
        BY <3>3 DEF Acquire, Release, LedgerFails, EndVerify
    <3> QED BY <1>2, <3>1, <3>2, <3>3
  <2> QED BY <1>1, <2>1 DEF Custodians, Attends, RunOf, Watching
<1>3. ASSUME NEW p \in Proc, Spawn(p) \/ Renew(p) \/ Overrun(p) \/ Terminated(p) PROVE Kept!Next
  <2>1. /\ UNCHANGED <<runs, cur, role>> /\ Custodians(p)
        /\ pc[p] \in Attending
      BY <1>0, <1>3 DEF Spawn, Renew, Overrun, Terminated, Custodians, Attending, Watching
  <2> QED BY <1>1, <2>1 DEF Custodians, Attends, RunOf, Attending
<1>4. ASSUME NEW p \in Proc, Record(p) \/ Beat(p) PROVE Kept!Next
  <2>1. /\ UNCHANGED <<cur, role>> /\ Custodians(p) /\ pc[p] \in Attending
      BY <1>0, <1>4 DEF Record, Beat, Custodians, Attending, Watching
  <2>2. \A r \in Run : Same(r)
    <3>1. PICK row : row = Row("running", 0, TRUE)
        OBVIOUS
    <3>2. row.status \in Active
        BY <3>1 DEF Row, Active
    <3>3. runs' = [runs EXCEPT ![RunOf(p)] = row] /\ runs[RunOf(p)].status \in Active
        BY <1>0, <1>4, <3>1 DEF Record, Beat, SetRunRunning, HeartbeatRun, Mine, InPhase, Active,
           Watching
    <3> QED BY <1>0, <3>2, <3>3 DEF Same
  <2> QED BY <2>1, <2>2, Quiet DEF Custodians, Attends, RunOf, Attending
<1>5. ASSUME ClockTick PROVE Kept!Next
  <2>1. \A r \in Run : Same(r)
      BY <1>5, RowsAge DEF ClockTick, Same
  <2> QED BY <1>5, <2>1, Quiet DEF ClockTick, Attends, RunOf
<1>6. ASSUME Reboot \/ (\E r \in Run : Outside(r)) \/ UNCHANGED vars PROVE Kept!Next
    BY <1>1, <1>6 DEF Reboot, Dead, Outside, ChildEnds, Fork, HeirEnds, vars, Attends,
       RunOf, Watching
(* A row is inserted. *)
<1>7. ASSUME NEW p \in Proc, StartCoordinator(p) \/ StartReview(p) PROVE Kept!Next
  <2>1. pc[p] \in {"setup", "verify"} /\ pc[p] \in InTick /\ role[p] = "coordinator"
      BY <1>0, <1>7 DEF StartCoordinator, StartReview, Mine, ReviewerLast, InTick, Starting
  <2>2. /\ Custodians(p) /\ pc'[p] = "launch" /\ cur'[p] = cur[p]
        /\ pc[p] \notin Attending
      BY <1>0, <1>7, <2>1 DEF StartCoordinator, StartReview, Custodians, Attending, Watching
  <2>3. PICK k \in Kinds : /\ runs' = [runs EXCEPT ![<<cur[p], k>>] = Row("starting", 0, FALSE)]
                           /\ runs[<<cur[p], k>>].status = "none"
                           /\ k = "coordinator" => pc[p] = "setup"
                           /\ role'[p] = k
    <3>1. CASE StartCoordinator(p)
        BY <1>0, <2>1, <3>1 DEF StartCoordinator, StartRun, Mine, ReviewerLast, RowOf, RunOf, Kinds
    <3>2. CASE StartReview(p)
        BY <1>0, <2>1, <3>2 DEF StartReview, StartRun, Mine, ReviewerLast, RowOf, Kinds
    <3> QED BY <1>7, <3>1, <3>2
  <2>4. <<cur[p], k>> \in Run
      BY <2>1, OwnTypes
  <2>5. runs'[<<cur[p], k>>].status \in Active
      BY <1>0, <2>3, <2>4 DEF Row, Active
  <2>6. \A x \in Run \ {<<cur[p], k>>} : runs'[x].status = runs[x].status
      BY <1>0, <2>3, <2>4
  <2>7. k = "coordinator" => InCoordinator(p)
      BY <2>1, <2>3 DEF InCoordinator, Starting
  <2> QED BY <2>1, <2>2, <2>3, <2>5, <2>6, <2>7, OpensIt
(* An outcome is written. *)
<1>8. ASSUME NEW p \in Proc,
             \/ FailEarly(p) \/ OverBudget(p) \/ WatchFails(p) \/ StopFails(p)
             \/ EndVerify(p) /\ FailTick(p)
      PROVE  Kept!Next
  <2>1. pc[p] \in InTick \ {"leave"} /\ FailsRows(p) /\ Custodians(p) /\ pc'[p] = "leave"
      BY <1>0, <1>8 DEF FailEarly, OverBudget, WatchFails, StopFails, EndVerify, FailsRows,
         InTick, Starting, Watching, Custodians
  <2> QED BY <1>0, <2>1, FailsIt
<1>9. ASSUME NEW p \in Proc, Collect(p) PROVE Kept!Next
  <2>1. PICK s \in {"succeeded", "failed"} : FinishRun(RunOf(p), s)
      BY <1>9 DEF Collect
  <2>2. /\ pc[p] = "watch" /\ Custodians(p) /\ pc'[p] \in {"verify", "leave"}
      BY <1>0, <1>9 DEF Collect, Custodians
  <2>3. /\ pc[p] \in Attending /\ pc'[p] \notin Attending
        /\ RunOf(p) \in Run /\ runs[RunOf(p)].status \in Active
      BY <1>0, <2>2, OwnTypes DEF Attending, Watching, InTick, Mine, InPhase, Active
  <2>4. /\ runs'[RunOf(p)].status = s
        /\ \A x \in Run \ {RunOf(p)} : runs'[x].status = runs[x].status
      BY <1>0, <2>1, <2>3 DEF FinishRun, Row
  <2> QED BY <1>0, <2>2, <2>3, <2>4, SettlesIt
(* A run that nobody attends is given up, for the first time or again. *)
<1>10. ASSUME NEW p \in Proc, Abandon(p) PROVE Kept!Next
  <2>1. /\ pc[p] = "abandon" /\ pc'[p] = "rows" /\ Custodians(p)
        /\ FinishRun(RunOf(p), "abandoned")
      BY <1>0, <1>10 DEF Abandon, Custodians, Nothing
  <2>2. /\ RunOf(p) \in Run /\ \A q \in Proc : ~Attends(q, RunOf(p))
        /\ runs[RunOf(p)].status \in Active \cup {"abandoned"}
      BY <1>0, <2>1, RunOfType DEF Swept, TypeOK
  <2>3. /\ runs'[RunOf(p)].status = "abandoned"
        /\ \A x \in Run \ {RunOf(p)} : runs'[x].status = runs[x].status
      BY <1>0, <2>1, <2>2 DEF FinishRun, Row
  <2>4. \A r \in Run, q \in Proc : Attends(q, r)' <=> Attends(q, r)
      BY <2>1 DEF Custodians, Attends, RunOf, Watching
  <2>5. CASE runs[RunOf(p)].status = "abandoned"
    <3>1. \A x \in Run : runs'[x].status = runs[x].status
        BY <2>2, <2>3, <2>5
    <3> QED BY <2>4, <3>1, Quiet DEF Same
  <2>6. CASE runs[RunOf(p)].status \in Active
    <3>1. Outcome' = [Outcome EXCEPT ![RunOf(p)] = "abandoned"]
        BY <2>2, <2>3, Rewritten DEF Active
    <3>2. AttendedRuns' = AttendedRuns /\ RunOf(p) \notin AttendedRuns
        BY <2>2, <2>4 DEF AttendedRuns
    <3>3. Outcome[RunOf(p)] = "open"
        BY <2>2, <2>6 DEF Outcome
    <3>4. Kept!Abandon(RunOf(p))
        BY <3>1, <3>2, <3>3 DEF Kept!Abandon
    <3> QED BY <2>2, <3>4 DEF Kept!Next
  <2> QED BY <2>2, <2>5, <2>6
<1>11. ASSUME NEW p \in Proc, EndVerify(p) PROVE Kept!Next
    BY <1>2, <1>8, <1>11 DEF EndVerify
<1> QED BY <1>2, <1>3, <1>4, <1>5, <1>6, <1>7, <1>8, <1>9, <1>10, <1>11
        DEF Next, Works, TicksOn, Recovers, Ends, Outside

(* Coordination implements Custody, whatever crashes, log and ledger       *)
(* errors happen to any number of loops and tools, short of a stall: the   *)
(* runs of the ledger are kept as it says, the lease excludes, the age of  *)
(* a row tells who is gone.                                                *)
THEOREM CustodyIsKept ==
    ASSUME WellTimed, "stall" \notin Faults
    PROVE  Spec => KeepsCustody
<1>1. Init => Kept!Init
    BY DEF Init, Kept!Init, AttendedRuns, Outcome, Attends, Watching, NoRun, Row, Active
<1>2. TypeOK /\ LeaseInvariant /\ Orderly /\ [Next]_vars => [Kept!Next]_(Kept!vars)
    BY CustodyStep
<1> QED BY <1>1, <1>2, OrderHolds, PTL DEF Spec, KeepsCustody, Kept!Spec

-----------------------------------------------------------------------------
(* Coordinators, as processes. *)

(* Somebody minds every child that is alive: its supervisor collects it    *)
(* before it goes on.                                                      *)
Minds(p, r) == pc[p] \in {"spawned"} \cup Watching /\ RunOf(p) = r
Minded == \A r \in Run : Alive(r) => \E p \in Proc : Minds(p, r)

LEMMA MindedStep ==
    ASSUME Faults \subseteq {"heir"}, TypeOK, Minded, [Next]_vars
    PROVE  Minded'
<1>0. /\ pc \in [Proc -> PC] /\ cur \in [Proc -> Ticks \cup {NoTick}]
      /\ role \in [Proc -> Kinds] /\ child \in [Run -> ChildState]
    BY DEF TypeOK, Kinds
<1> USE <1>0 DEF At, Goto, GotoFresh, ledgerVars, procVars, Custodians
<1> DEFINE Wanes == \A r \in Run : Alive(r)' => Alive(r)
           Minding(p) == pc[p] \in {"spawned"} \cup Watching
(* Children only end, and who minds one that is alive goes on. *)
<1>1. ASSUME Wanes, \A r \in Run, p \in Proc : Minds(p, r) /\ Alive(r) => Minds(p, r)'
      PROVE  Minded'
    BY <1>1 DEF Minded
<1>2. ASSUME NEW p \in Proc,
             \/ StartLoop(p) \/ StartTool(p) \/ StopLoop(p) \/ NextRound(p) \/ ReapLeases(p)
             \/ Scan(p) \/ EndRecover(p) \/ NoTickNow(p) \/ SweepKill(p) \/ Abandon(p)
             \/ (\E x \in todo[p] : HandleRow(p, x)) \/ Acquire(p) \/ Release(p)
             \/ StartCoordinator(p) \/ FailEarly(p) \/ StartReview(p) \/ EndVerify(p)
      PROVE  Minded'
  <2>1. Wanes /\ Custodians(p) /\ ~Minding(p)
    <3> USE DEF Alive, Nothing, Handles, Watching, Out
    <3>1. CASE \/ StartLoop(p) \/ StartTool(p) \/ StopLoop(p) \/ NextRound(p) \/ ReapLeases(p)
               \/ Scan(p) \/ EndRecover(p) \/ NoTickNow(p) \/ SweepKill(p) \/ Abandon(p)
        BY <3>1 DEF StartLoop, StartTool, StopLoop, NextRound, ReapLeases, Scan, EndRecover,
           NoTickNow, SweepKill, Abandon
    <3>2. CASE \/ (\E x \in todo[p] : HandleRow(p, x)) \/ Acquire(p) \/ Release(p)
               \/ StartCoordinator(p) \/ FailEarly(p) \/ StartReview(p) \/ EndVerify(p)
        BY <3>2 DEF HandleRow, Acquire, Release, StartCoordinator, FailEarly, StartReview, EndVerify
    <3> QED BY <1>2, <3>1, <3>2
  <2> QED BY <1>1, <2>1 DEF Minds, RunOf
<1>3. ASSUME NEW p \in Proc,
             Record(p) \/ Beat(p) \/ Renew(p) \/ Overrun(p) \/ Terminated(p)
      PROVE  Minded'
  <2>1. /\ Wanes /\ Custodians(p) /\ Minding(p)' /\ UNCHANGED <<cur, role>>
      BY <1>3 DEF Record, Beat, Renew, Overrun, Terminated, Alive, Watching
  <2> QED BY <1>1, <2>1 DEF Minds, RunOf
<1>4. ASSUME NEW p \in Proc, Collect(p) \/ OverBudget(p) PROVE Minded'
  <2>1. UNCHANGED child /\ Custodians(p) /\ ~Alive(RunOf(p))
      BY <1>4 DEF Collect, OverBudget, OutputEnds
  <2> QED BY <1>1, <2>1 DEF Minds, RunOf, Alive
<1>5. ASSUME NEW p \in Proc, Spawn(p) PROVE Minded'
  <2>1. /\ Custodians(p) /\ pc'[p] = "spawned" /\ UNCHANGED <<cur, role>>
        /\ child' = [child EXCEPT ![RunOf(p)] = "alive"]
        /\ ~Minding(p)
      BY <1>5 DEF Spawn, Watching
  <2>2. \A r \in Run : Alive(r)' => Alive(r) \/ Minds(p, r)'
      BY <2>1 DEF Alive, Minds, RunOf
  <2>3. \A r \in Run, q \in Proc : Minds(q, r) => Minds(q, r)'
      BY <2>1 DEF Minds, RunOf
  <2> QED BY <2>2, <2>3 DEF Minded
<1>6. ASSUME ClockTick \/ (\E r \in Run : Outside(r)) \/ UNCHANGED vars PROVE Minded'
  <2>1. Wanes /\ UNCHANGED <<pc, cur, role>>
      BY <1>6 DEF ClockTick, Outside, ChildEnds, Fork, HeirEnds, vars, Alive
  <2> QED BY <1>1, <2>1 DEF Minds, RunOf
<1>7. ASSUME \/ Reboot
             \/ \E p \in Proc : WatchFails(p) \/ StopFails(p) \/ LedgerFails(p) \/ Crash(p)
      PROVE  FALSE
    BY <1>7 DEF WatchFails, StopFails, LedgerFails, Crash, Reboot
<1> QED BY <1>2, <1>3, <1>4, <1>5, <1>6, <1>7
        DEF Next, Works, TicksOn, Recovers, Ends, Outside

(* What README.md promises is true as long as nothing of the supervisor's  *)
(* own fails, whatever descendants its children leave behind: two          *)
(* coordinator processes are never alive together, for each is minded by   *)
(* its supervisor, which has the lease.                                    *)
THEOREM OneCoordinatorUnlessFaults ==
    ASSUME WellTimed, Faults \subseteq {"heir"}
    PROVE  Spec => []OneCoordinator
<1>1. Init => Minded
    BY DEF Init, Minded, Alive
<1>2. LeaseInvariant /\ Minded => OneCoordinator
  <2> SUFFICES ASSUME LeaseInvariant, Minded, NEW t \in Ticks, NEW u \in Ticks,
                      Alive(<<t, "coordinator">>), Alive(<<u, "coordinator">>)
               PROVE  t = u
      BY DEF OneCoordinator
  <2>1. ASSUME NEW x \in Ticks, Alive(<<x, "coordinator">>) PROVE lease.owner = x
    <3>1. PICK p \in Proc : Minds(p, <<x, "coordinator">>)
        BY <2>1 DEF Minded, Run
    <3>2. InCoordinator(p) /\ cur[p] = x
        BY <3>1 DEF Minds, RunOf, InCoordinator, Starting
    <3> QED BY <3>2 DEF LeaseInvariant, LeaseCoversLag
  <2> QED BY <2>1
<1>3. "stall" \notin Faults
    OBVIOUS
<1> QED BY <1>1, <1>2, <1>3, MindedStep, TypeCorrect, LeaseCovered, PTL DEF Spec

(* After a crash it is not: an orphan may live on whose pid was never      *)
(* recorded, and a tool launches without a sweep.  What loops keep to is   *)
(* the promise for the coordinators that are on record.                    *)
OneRecorded ==
    \A t, u \in Ticks :
        /\ runs[<<t, "coordinator">>].pid /\ Alive(<<t, "coordinator">>)
        /\ runs[<<u, "coordinator">>].pid /\ Alive(<<u, "coordinator">>)
        => t = u

(* From its spawn to its record a coordinator has no other beside it.      *)
Cleared == \A p \in Loops, t \in Ticks :
    pc[p] = "spawned" /\ role[p] = "coordinator" /\ Threat(t) => t = cur[p]
OneThreat == \A t, u \in Ticks : Threat(t) /\ Threat(u) => t = u

(* A process has a child to record because it spawned it.                  *)
LEMMA SpawnedBefore ==
    ASSUME TypeOK, [Next]_vars, NEW p \in Proc, pc'[p] = "spawned"
    PROVE  /\ pc[p] = "spawned" \/ Spawn(p)
           /\ cur'[p] = cur[p] /\ role'[p] = role[p]
<1>0. /\ pc \in [Proc -> PC] /\ cur \in [Proc -> Ticks \cup {NoTick}]
      /\ role \in [Proc -> Kinds]
    BY DEF TypeOK, Kinds
<1> USE <1>0 DEF At, Goto, GotoFresh, ledgerVars, procVars, Nothing, Handles, Dies, Dead, Idle,
           Out
<1>1. ASSUME NEW q \in Proc,
             \/ StartLoop(q) \/ StartTool(q) \/ StopLoop(q) \/ NextRound(q) \/ Crash(q)
             \/ ReapLeases(q) \/ Scan(q) \/ EndRecover(q) \/ NoTickNow(q) \/ SweepKill(q)
             \/ Abandon(q) \/ Acquire(q)
      PROVE  pc[p] = "spawned" /\ cur'[p] = cur[p] /\ role'[p] = role[p]
    BY <1>1 DEF StartLoop, StartTool, StopLoop, NextRound, Crash, ReapLeases, Scan, EndRecover,
       NoTickNow, SweepKill, Abandon, Acquire
<1>2. ASSUME NEW q \in Proc, NEW x \in todo[q], HandleRow(q, x)
      PROVE  pc[p] = "spawned" /\ cur'[p] = cur[p] /\ role'[p] = role[p]
  <2>1. Verdict(x) \in {"kill", "abandon"}
      BY DEF Verdict
  <2> QED BY <1>2, <2>1 DEF HandleRow
<1>3. ASSUME NEW q \in Proc,
             \/ Overrun(q) \/ Collect(q) \/ OverBudget(q) \/ EndVerify(q) \/ StartCoordinator(q)
             \/ FailEarly(q) \/ Record(q) \/ Beat(q) \/ Terminated(q) \/ StartReview(q)
             \/ WatchFails(q) \/ StopFails(q) \/ Renew(q) \/ Release(q) \/ LedgerFails(q)
      PROVE  pc[p] = "spawned" /\ cur'[p] = cur[p] /\ role'[p] = role[p]
    BY <1>3 DEF Overrun, Collect, OverBudget, EndVerify, StartCoordinator, FailEarly, Record, Beat,
       Terminated, StartReview, WatchFails, StopFails, Renew, Release, LedgerFails
<1>4. ASSUME NEW q \in Proc, Spawn(q)
      PROVE  /\ pc[p] = "spawned" \/ Spawn(p)
             /\ cur'[p] = cur[p] /\ role'[p] = role[p]
  <2>1. UNCHANGED <<cur, role>> /\ (p # q => pc'[p] = pc[p])
      BY <1>4 DEF Spawn
  <2> QED BY <1>4, <2>1
<1>5. ASSUME ClockTick \/ Reboot \/ (\E r \in Run : Outside(r)) \/ UNCHANGED vars
      PROVE  pc[p] = "spawned" /\ cur'[p] = cur[p] /\ role'[p] = role[p]
    BY <1>5 DEF ClockTick, Reboot, Outside, ChildEnds, Fork, HeirEnds, vars
<1> QED BY <1>1, <1>2, <1>3, <1>4, <1>5 DEF Next, Works, TicksOn, Recovers, Ends, Outside

LEMMA OneThreatStep ==
    ASSUME Tools = {}, Faults \cap {"io", "db", "stall"} = {}, TypeOK, LeaseInvariant, Orderly,
           NoChildOutlivesItsRun', Alone, Cleared, OneThreat, [Next]_vars
    PROVE  Cleared' /\ OneThreat'
<1>f. "io" \notin Faults
    OBVIOUS
(* Who records a coordinator. *)
<1>1. ASSUME NEW t \in Ticks, NEW q \in Proc, Record(q), RunOf(q) = First(t)
      PROVE  /\ q \in Loops /\ pc[q] = "spawned" /\ role[q] = "coordinator" /\ cur[q] = t
             /\ pc' = [pc EXCEPT ![q] = "watch"] /\ pc'[q] = "watch" /\ UNCHANGED <<cur, role>>
    BY <1>1 DEF Record, At, GotoFresh, RunOf, First, TypeOK, Proc
<1>2. Cleared'
  <2> SUFFICES ASSUME NEW p \in Loops, NEW t \in Ticks,
                      pc'[p] = "spawned", role'[p] = "coordinator", Threat(t)'
               PROVE  t = cur'[p]
      BY DEF Cleared
  <2>1. /\ p \in Proc
        /\ pc[p] = "spawned" \/ Spawn(p)
        /\ cur'[p] = cur[p] /\ role[p] = "coordinator"
      BY SpawnedBefore DEF Proc
  <2>2. CASE Threat(t)
    <3>1. Spawn(p) => Launches(p)
        BY <2>1 DEF Spawn, At, Launches
    <3> QED BY <2>1, <2>2, <3>1 DEF Cleared, Alone
  <2>3. ASSUME NEW q \in Proc, Record(q), RunOf(q) = First(t) PROVE FALSE
    <3>q. /\ pc[q] = "spawned" /\ role[q] = "coordinator" /\ cur[q] = t
          /\ pc' = [pc EXCEPT ![q] = "watch"] /\ pc'[q] = "watch" /\ q \in Loops
        BY <1>1, <2>3
    <3>1. p # q /\ pc'[p] = "spawned"
        BY <3>q
    <3>2. pc[p] = "spawned"
      <4>1. pc \in [Proc -> PC] /\ p \in Proc
          BY <2>1 DEF TypeOK
      <4>2. pc'[p] = pc[p]
          BY <3>q, <3>1, <4>1
      <4> QED BY <3>1, <4>2
    <3>3. InCoordinator(p) /\ InCoordinator(q) /\ pc[p] \in InTick /\ pc[q] \in InTick
        BY <2>1, <3>q, <3>2 DEF InCoordinator, Starting, InTick
    <3> QED BY <2>1, <2>3, <3>1, <3>3 DEF LeaseInvariant, LeaseCoversLag, OwnTicks
  <2> QED BY <1>f, <2>2, <2>3, ThreatFate
<1>3. OneThreat'
  <2> SUFFICES ASSUME NEW t \in Ticks, NEW u \in Ticks, Threat(t)', Threat(u)' PROVE t = u
      BY DEF OneThreat
  <2>1. ASSUME NEW q \in Proc, Record(q), RunOf(q) = First(t), Threat(u) PROVE t = u
      BY <1>1, <2>1 DEF Cleared
  <2>2. ASSUME NEW q \in Proc, Record(q), RunOf(q) = First(u), Threat(t) PROVE t = u
      BY <1>1, <2>2 DEF Cleared
  <2>3. ASSUME NEW q \in Proc, Record(q), RunOf(q) = First(t),
               NEW v \in Proc, Record(v), RunOf(v) = First(u)
        PROVE  t = u
      BY <1>1, <2>3 DEF TypeOK
  <2> QED BY <1>f, <2>1, <2>2, <2>3, ThreatFate DEF OneThreat
<1> QED BY <1>2, <1>3

(* Where only loops launch, and whatever crashes and reboots happen, two   *)
(* recorded coordinators are never alive together: what a crashed          *)
(* supervisor left behind is killed, or keeps the lease busy, before the   *)
(* next one is launched.                                                   *)
THEOREM OneRecordedCoordinator ==
    ASSUME WellTimed, Tools = {}, Faults \cap {"io", "db", "stall"} = {}
    PROVE  Spec => []OneRecorded
<1>0. "stall" \notin Faults /\ Faults \cap {"io", "stall"} = {}
    OBVIOUS
<1> DEFINE Known == TypeOK /\ LeaseInvariant /\ Orderly
           IInv == Aging /\ Alone /\ Cleared /\ OneThreat
<1>1. Init => IInv
    BY DEF Init, Aging, Alone, Cleared, OneThreat, Threat, First, Alive, Run
<1>2. Known /\ NoChildOutlivesItsRun /\ NoChildOutlivesItsRun' /\ IInv /\ [Next]_vars => IInv'
    BY AgingStep, AloneStep, OneThreatStep
<1>3. Known /\ IInv => OneRecorded
  <2> SUFFICES ASSUME TypeOK, OneThreat, NEW t \in Ticks, NEW u \in Ticks,
                      runs[<<t, "coordinator">>].pid, Alive(<<t, "coordinator">>),
                      runs[<<u, "coordinator">>].pid, Alive(<<u, "coordinator">>)
               PROVE  t = u
      BY DEF OneRecorded
  <2>1. ASSUME NEW x \in Ticks, runs[<<x, "coordinator">>].pid, Alive(<<x, "coordinator">>)
        PROVE  Threat(x)
    <3>1. runs[First(x)] \in RunRow /\ runs[First(x)].pid
        BY <2>1 DEF First, Run, TypeOK
    <3>2. runs[First(x)].pid = TRUE
        BY <3>1 DEF RunRow
    <3> QED BY <2>1, <3>2 DEF Threat, First
  <2> QED BY <2>1 DEF OneThreat
<1> HIDE DEF Known, IInv
<1>4. Spec => []Known
    BY <1>0, OrderHolds, PTL DEF Known
<1>5. Spec => []NoChildOutlivesItsRun
    BY <1>0, NoChildSurvives, PTL
<1> QED BY <1>1, <1>2, <1>3, <1>4, <1>5, PTL DEF Spec
=============================================================================
