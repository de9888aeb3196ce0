------------------------- MODULE CoordinationProofs -------------------------
(* Theorems about Coordination, for every value of its constants. *)
EXTENDS Coordination, TLAPS

-----------------------------------------------------------------------------
(* Types. *)

(* What is known of the times.                                             *)
LEMMA Constants ==
    /\ Lease \in Nat /\ Lease > 0 /\ Silence \in Nat
    /\ Heartbeat \in Nat /\ Grace \in Nat /\ Setup \in Nat /\ Sweep \in Nat
BY TimeAssumption, BoundAssumption

(* The rows of the ledger are well-formed.                                 *)
RunsOK == runs \in [Run -> RunRow]
LeaseOK == lease \in LeaseRow

(* Each transaction keeps the lease row well-formed ...                    *)
LEMMA LeaseTypes ==
    ASSUME LeaseOK, NEW t \in Ticks \cup {NoTick}
    PROVE  /\ RenewLease(t) => LeaseOK'
           /\ ReleaseLease(t) => LeaseOK'
           /\ ReapExpiredLeases => LeaseOK'
           /\ AcquireLease(t) => LeaseOK'
BY Constants DEF LeaseOK, LeaseRow, RenewLease, ReleaseLease, ReapExpiredLeases,
   AcquireLease, NoLease

(* ... and so for the rows of runs.                                        *)
LEMMA RunTypes ==
    ASSUME RunsOK, NEW r \in Run, NEW S
    PROVE  /\ StartRun(r) => RunsOK'
           /\ SetRunRunning(r) => RunsOK'
           /\ HeartbeatRun(r) => RunsOK'
           /\ \A s \in Terminal : FinishRun(r, s) => RunsOK'
           /\ FailActiveRuns(S) => RunsOK'
<1> USE Constants DEF RunsOK, RunRow, Active, Terminal, Row
<1>1. StartRun(r) => RunsOK'
    BY DEF StartRun
<1>2. SetRunRunning(r) => RunsOK'
    BY DEF SetRunRunning
<1>3. HeartbeatRun(r) => RunsOK'
    BY DEF HeartbeatRun
<1>4. \A s \in Terminal : FinishRun(r, s) => RunsOK'
    BY DEF FinishRun
<1>5. FailActiveRuns(S) => RunsOK'
    BY DEF FailActiveRuns
<1> QED BY <1>1, <1>2, <1>3, <1>4, <1>5

(* The passage of time keeps both well-formed.                             *)
LEMMA TickTypes == ASSUME LeaseOK, RunsOK, LedgerTick PROVE LeaseOK' /\ RunsOK'
<1>1. LeaseOK'
    BY Constants DEF LeaseOK, LeaseRow, LedgerTick
<1>2. RunsOK'
    <2>1. ASSUME NEW r \in Run
          PROVE  Row(runs[r].status, Older(runs[r].age), runs[r].pid) \in RunRow
        BY Constants DEF RunsOK, RunRow, Row, Older
    <2> QED BY <2>1 DEF RunsOK, LedgerTick
<1> QED BY <1>1, <1>2

(* A process that knows its tick id names rows that exist.                 *)
LEMMA RunOfType ==
    ASSUME TypeOK, NEW p \in Proc, cur[p] \in Ticks
    PROVE  /\ RunOf(p) \in Run
           /\ <<cur[p], "coordinator">> \in Run
           /\ <<cur[p], "reviewer">> \in Run
BY DEF TypeOK, RunOf, Run

(* Every variable keeps its type, and a process that is in a tick or       *)
(* handles a row of recover knows its tick id.                             *)
THEOREM TypeCorrect == Spec => []TypeOK
<1> USE DEF Proc
<1>1. Init => TypeOK
    BY Constants, BoundAssumption DEF Init, TypeOK, NoLease, LeaseRow, NoRun, Row, RunRow, PC,
       Out, Sweeping, InTick, Starting, Watching, ChildState
<1>2. TypeOK /\ [Next]_vars => TypeOK'
  <2> SUFFICES ASSUME TypeOK, [Next]_vars PROVE TypeOK'
      OBVIOUS
  <2> USE DEF TypeOK, At, Goto, GotoFresh, Nothing, Handles, ledgerVars, procVars, PC, Out,
              Sweeping, InTick, Starting, Watching, Idle, Dead
  <2>1. ASSUME NEW p \in Proc, StartLoop(p) PROVE TypeOK'
      BY <2>1 DEF StartLoop
  <2>2. ASSUME NEW p \in Proc, StartTool(p) PROVE TypeOK'
      BY <2>2 DEF StartTool
  <2>3. ASSUME NEW p \in Proc, NextRound(p) PROVE TypeOK'
      BY <2>3 DEF NextRound
  <2>4. ASSUME NEW p \in Proc, StopLoop(p) PROVE TypeOK'
      BY <2>4 DEF StopLoop
  <2>5. ASSUME NEW p \in Proc, EndRecover(p) PROVE TypeOK'
      BY <2>5 DEF EndRecover
  <2>6. ASSUME NEW p \in Proc, NoTickNow(p) PROVE TypeOK'
      BY <2>6 DEF NoTickNow
  <2>7. ASSUME NEW p \in Proc, Spawn(p) PROVE TypeOK'
      BY <2>7 DEF Spawn, ChildState
  <2>8. ASSUME NEW p \in Proc, Overrun(p) PROVE TypeOK'
      BY <2>8 DEF Overrun
  <2>9. ASSUME NEW p \in Proc, Terminated(p) PROVE TypeOK'
      BY <2>9 DEF Terminated, ChildState
  <2>10. ASSUME NEW p \in Proc, ReapLeases(p) PROVE TypeOK'
    <3>1. LeaseOK'
        BY <2>10, LeaseTypes DEF ReapLeases, LeaseOK
    <3> QED BY <2>10, <3>1 DEF ReapLeases, LeaseOK
  <2>11. ASSUME NEW p \in Proc, StartCoordinator(p) PROVE TypeOK'
    <3>1. RunsOK'
        BY <2>11, RunTypes, RunOfType DEF StartCoordinator, RunsOK
    <3> QED BY <2>11, <3>1 DEF StartCoordinator, RunsOK
  <2>12. ASSUME NEW p \in Proc, FailEarly(p) PROVE TypeOK'
    <3>1. RunsOK'
        BY <2>12, RunTypes, RunOfType DEF FailEarly, RunsOK, FailTick
    <3> QED BY <2>12, <3>1 DEF FailEarly, RunsOK
  <2>13. ASSUME NEW p \in Proc, Record(p) PROVE TypeOK'
    <3>1. RunsOK'
        BY <2>13, RunTypes, RunOfType DEF Record, RunsOK
    <3> QED BY <2>13, <3>1 DEF Record, RunsOK
  <2>14. ASSUME NEW p \in Proc, Beat(p) PROVE TypeOK'
    <3>1. RunsOK'
        BY <2>14, RunTypes, RunOfType DEF Beat, RunsOK
    <3> QED BY <2>14, <3>1 DEF Beat, RunsOK
  <2>15. ASSUME NEW p \in Proc, OverBudget(p) PROVE TypeOK'
    <3>1. RunsOK'
        BY <2>15, RunTypes, RunOfType DEF OverBudget, RunsOK, FailTick
    <3> QED BY <2>15, <3>1 DEF OverBudget, RunsOK
  <2>16. ASSUME NEW p \in Proc, StartReview(p) PROVE TypeOK'
    <3>1. RunsOK'
        BY <2>16, RunTypes, RunOfType DEF StartReview, RunsOK
    <3> QED BY <2>16, <3>1 DEF StartReview, RunsOK
  <2>17. ASSUME NEW p \in Proc, WatchFails(p) PROVE TypeOK'
    <3>1. RunsOK'
        BY <2>17, RunTypes, RunOfType DEF WatchFails, RunsOK, FailTick
    <3> QED BY <2>17, <3>1 DEF WatchFails, RunsOK
  <2>18. ASSUME NEW p \in Proc, Abandon(p) PROVE TypeOK'
    <3>1. RunsOK'
        BY <2>18, RunTypes, RunOfType DEF Abandon, RunsOK, Terminal
    <3> QED BY <2>18, <3>1 DEF Abandon, RunsOK
  <2>19. ASSUME NEW p \in Proc, Collect(p) PROVE TypeOK'
    <3>1. RunsOK'
        BY <2>19, RunTypes, RunOfType DEF Collect, RunsOK, Terminal
    <3> QED BY <2>19, <3>1 DEF Collect, RunsOK
  <2>20. ASSUME NEW p \in Proc, EndVerify(p) PROVE TypeOK'
    <3>1. RunsOK'
        BY <2>20, RunTypes, RunOfType DEF EndVerify, RunsOK, FailTick
    <3> QED BY <2>20, <3>1 DEF EndVerify, RunsOK
  <2>21. ASSUME NEW p \in Proc, Renew(p) PROVE TypeOK'
    <3>1. LeaseOK'
        BY <2>21, LeaseTypes DEF Renew, LeaseOK
    <3> QED BY <2>21, <3>1 DEF Renew, LeaseOK
  <2>22. ASSUME NEW p \in Proc, Release(p) PROVE TypeOK'
    <3>1. LeaseOK'
        BY <2>22, LeaseTypes DEF Release, LeaseOK
    <3> QED BY <2>22, <3>1 DEF Release, LeaseOK
  <2>23. ASSUME NEW p \in Proc, Acquire(p) PROVE TypeOK'
    <3>1. PICK t \in Ticks \ used : /\ AcquireLease(t)
                                    /\ used' = used \cup {t}
                                    /\ Handles(p, <<t, "coordinator">>)
        BY <2>23 DEF Acquire
    <3>2. LeaseOK'
        BY <3>1, LeaseTypes DEF LeaseOK
    <3> QED BY <2>23, <3>1, <3>2 DEF Acquire, LeaseOK
  <2>24. ASSUME NEW p \in Proc, Scan(p) PROVE TypeOK'
    <3>1. \A r \in Run : [run |-> r, age |-> runs[r].age, pid |-> runs[r].pid] \in SnapRow
        BY DEF SnapRow, RunRow
    <3> QED BY <2>24, <3>1 DEF Scan, Select
  <2>25. ASSUME NEW p \in Proc, NEW x \in todo[p], HandleRow(p, x) PROVE TypeOK'
    <3>1. x \in SnapRow
        OBVIOUS
    <3>2. x.run[1] \in Ticks /\ x.run[2] \in {"coordinator", "reviewer"}
        BY <3>1 DEF SnapRow, Run
    <3> QED BY <2>25, <3>2 DEF HandleRow, Verdict
  <2>26. ASSUME NEW p \in Proc, SweepKill(p) PROVE TypeOK'
      BY <2>26 DEF SweepKill, ChildState
  <2>27. ASSUME NEW r \in Run, ChildEnds(r) PROVE TypeOK'
      BY <2>27 DEF ChildEnds, ChildState
  <2>28. ASSUME NEW p \in Proc, LedgerFails(p) PROVE TypeOK'
    <3>1. LeaseOK'
        BY <2>28, LeaseTypes DEF LedgerFails, LeaseOK
    <3> QED BY <2>28, <3>1 DEF LedgerFails, Dies, LeaseOK
  <2>29. ASSUME NEW p \in Proc, Crash(p) PROVE TypeOK'
      BY <2>29, BoundAssumption DEF Crash, Dies
  <2>30. CASE Reboot
      BY <2>30, BoundAssumption DEF Reboot, ChildState
  <2>31. CASE ClockTick
    <3>1. LeaseOK' /\ RunsOK'
        BY <2>31, TickTypes DEF ClockTick, LeaseOK, RunsOK
    <3>2. \A p \in Proc : {[x EXCEPT !.age = Older(@)] : x \in todo[p]} \subseteq SnapRow
        BY Constants DEF SnapRow, Older
    <3> QED BY <2>31, <3>1, <3>2 DEF ClockTick, LeaseOK, RunsOK
  <2>32. CASE UNCHANGED vars
      BY <2>32 DEF vars
  <2>33. ASSUME NEW p \in Proc, StopFails(p) PROVE TypeOK'
    <3>1. RunsOK'
        BY <2>33, RunTypes, RunOfType DEF StopFails, RunsOK
    <3> QED BY <2>33, <3>1 DEF StopFails, RunsOK
  <2>34. ASSUME NEW r \in Run, Fork(r) \/ HeirEnds(r) PROVE TypeOK'
      BY <2>34 DEF Fork, HeirEnds
  <2> HIDE DEF TypeOK
  <2> QED BY <2>1, <2>2, <2>3, <2>4, <2>5, <2>6, <2>7, <2>8, <2>9, <2>10, <2>11, <2>12, <2>13,
             <2>14, <2>15, <2>16, <2>17, <2>18, <2>19, <2>20, <2>21, <2>22, <2>23, <2>24, <2>25,
             <2>26, <2>27, <2>28, <2>29, <2>30, <2>31, <2>32, <2>33, <2>34
          DEF Next, Works, Recovers, TicksOn, Ends
<1> QED BY <1>1, <1>2, PTL DEF Spec

-----------------------------------------------------------------------------
(* The lease. *)

(* Of two ticks in progress, the one that acts on the lease acts on its    *)
(* own row only.                                                           *)
LEMMA OthersKeepTheLease ==
    ASSUME TypeOK, OwnTicks, NEW p \in Proc, NEW q \in Proc, p # q,
           pc[p] \in InTick, pc[q] \in InTick, lease.owner = cur[p]
    PROVE  /\ RenewLease(cur[q]) => UNCHANGED lease
           /\ ReleaseLease(cur[q]) => UNCHANGED lease
BY DEF OwnTicks, RenewLease, ReleaseLease, OwnsLease

(* A process that keeps its place keeps the lease whose owner and expiry   *)
(* do not change.                                                          *)
Steady(p) == pc'[p] = pc[p] /\ cur'[p] = cur[p] /\ role'[p] = role[p] /\ lag'[p] = lag[p]

Covered(p) == /\ lease.owner = cur[p]
              /\ lease.ttl + lag[p] + Spent(pc[p]) >= Lease
              /\ lag[p] <= Stay(pc[p])

(* A covered lease is still valid: WellTimed leaves something of it.       *)
LEMMA CoveredOwns ==
    ASSUME WellTimed, TypeOK, NEW p \in Proc, InCoordinator(p), Covered(p)
    PROVE  OwnsLease(cur[p]) /\ LeaseBusy
<1> lag[p] \in Nat /\ lease.ttl \in Nat
    BY DEF TypeOK, LeaseRow
<1> QED BY Constants DEF WellTimed, Covered, InCoordinator, OwnsLease, LeaseBusy, Spent, Stay,
        Starting, Watching

(* A step of process q alone needs to be looked at for q only.             *)
LEMMA StepOfOne ==
    ASSUME LeaseInvariant, NEW q \in Proc,
           \A p \in Proc \ {q} : Steady(p),
           \A p \in Proc \ {q} : InCoordinator(p) => UNCHANGED lease,
           InCoordinator(q)' => Covered(q)',
           used \subseteq used',
           pc'[q] \in InTick => \/ pc[q] \in InTick /\ cur'[q] = cur[q]
                                \/ cur'[q] \in used' \ used
    PROVE  LeaseInvariant'
<1>1. OwnTicks'
    BY DEF LeaseInvariant, OwnTicks, Steady
<1>2. LeaseCoversLag'
  <2> SUFFICES ASSUME NEW p \in Proc, InCoordinator(p)' PROVE Covered(p)'
      BY DEF LeaseCoversLag, Covered
  <2>1. CASE p = q
      BY <2>1
  <2>2. CASE p # q
    <3>1. InCoordinator(p) /\ Steady(p) /\ UNCHANGED lease
        BY <2>2 DEF InCoordinator, Steady
    <3>2. Covered(p)
        BY <3>1 DEF LeaseInvariant, LeaseCoversLag, Covered
    <3> QED BY <3>1, <3>2 DEF Steady, Covered
  <2> QED BY <2>1, <2>2
<1> QED BY <1>1, <1>2 DEF LeaseInvariant

(* Every step keeps the lease covered and the tick ids apart.              *)
LEMMA LeaseStep ==
    ASSUME WellTimed, "stall" \notin Faults, TypeOK, LeaseInvariant, [Next]_vars
    PROVE  LeaseInvariant'
<1> USE DEF Proc, TypeOK
<1>0. ASSUME NEW p \in Proc, InCoordinator(p)
      PROVE  /\ Covered(p) /\ OwnsLease(cur[p]) /\ LeaseBusy /\ pc[p] \in InTick
             /\ lag[p] \in Nat /\ lease.ttl \in Nat
    BY <1>0, CoveredOwns DEF LeaseInvariant, LeaseCoversLag, Covered, LeaseRow, InCoordinator, InTick
<1> DEFINE Others(q) == \A p \in Proc \ {q} : Steady(p)
           Safe(q) == \A p \in Proc \ {q} : InCoordinator(p) => UNCHANGED lease
           Own(q) == pc'[q] \in InTick => pc[q] \in InTick /\ cur'[q] = cur[q]
(* A step of one process that leaves the lease alone and keeps the process *)
(* out of a tick, or takes it from one phase of its tick to another.       *)
<1>1. ASSUME NEW q \in Proc, Others(q), UNCHANGED used, Own(q), Safe(q),
             InCoordinator(q)' => Covered(q)'
      PROVE  LeaseInvariant'
    <2> HIDE DEF TypeOK, Others, Safe, Own
    <2>1. /\ \A p \in Proc \ {q} : Steady(p)
          /\ \A p \in Proc \ {q} : InCoordinator(p) => UNCHANGED lease
        BY <1>1 DEF Others, Safe
    <2>2. used \subseteq used'
        BY <1>1
    <2>3. pc'[q] \in InTick => pc[q] \in InTick /\ cur'[q] = cur[q]
        BY <1>1 DEF Own
    <2> QED BY <1>1, <2>1, <2>2, <2>3, StepOfOne
<1> USE DEF At, Goto, GotoFresh, Nothing, Handles, ledgerVars, procVars, Sweeping, InTick, Starting,
            Watching, Idle, Out, Dead, Steady, InCoordinator
<1>2. ASSUME NEW q \in Proc,
             \/ StartLoop(q) \/ StartTool(q) \/ NextRound(q) \/ StopLoop(q) \/ Scan(q)
             \/ SweepKill(q) \/ Abandon(q) \/ EndRecover(q) \/ NoTickNow(q)
             \/ \E x \in todo[q] : HandleRow(q, x)
      PROVE  LeaseInvariant'
    <2>1. Others(q) /\ Safe(q) /\ Own(q) /\ UNCHANGED used /\ ~InCoordinator(q)'
        BY <1>2 DEF StartLoop, StartTool, NextRound, StopLoop, Scan, SweepKill, Abandon, EndRecover,
           NoTickNow, HandleRow, Verdict
    <2> QED BY <2>1, <1>1
(* The tick ends, goes on without a child or with a reviewer, or fails.    *)
<1>3. ASSUME NEW q \in Proc,
             \/ FailEarly(q) \/ Collect(q) \/ OverBudget(q) \/ EndVerify(q) \/ WatchFails(q)
             \/ StopFails(q) \/ StartReview(q) \/ Crash(q)
      PROVE  LeaseInvariant'
    <2>1. Others(q) /\ Safe(q) /\ Own(q) /\ UNCHANGED used /\ ~InCoordinator(q)'
        BY <1>3 DEF FailEarly, Collect, OverBudget, EndVerify, WatchFails, StopFails,
           StartReview, Crash, Dies
    <2> QED BY <2>1, <1>1
(* The lease is given up. *)
<1>4. ASSUME NEW q \in Proc, ReapLeases(q) PROVE LeaseInvariant'
    <2>1. Others(q) /\ Own(q) /\ UNCHANGED used /\ ~InCoordinator(q)'
        BY <1>4 DEF ReapLeases
    <2>2. Safe(q)
        BY <1>4, <1>0 DEF ReapLeases, ReapExpiredLeases, LeaseBusy
    <2> QED BY <2>1, <2>2, <1>1
<1>5. ASSUME NEW q \in Proc, Release(q) \/ LedgerFails(q) PROVE LeaseInvariant'
    <2>1. Others(q) /\ Own(q) /\ UNCHANGED used /\ ~InCoordinator(q)'
        BY <1>5 DEF Release, LedgerFails, Dies
    <2>2. pc[q] \in InTick /\ ReleaseLease(cur[q])
        BY <1>5 DEF Release, LedgerFails
    <2>3. Safe(q)
        BY <2>2, <1>0, OthersKeepTheLease DEF LeaseInvariant, Covered
    <2> QED BY <2>1, <2>3, <1>1
(* A phase of the run follows another. *)
<1>6. ASSUME NEW q \in Proc, StartCoordinator(q) \/ Spawn(q) \/ Overrun(q) \/ Terminated(q)
      PROVE  LeaseInvariant'
    <2>1. Others(q) /\ Own(q) /\ UNCHANGED used /\ UNCHANGED lease
        BY <1>6 DEF StartCoordinator, Spawn, Overrun, Terminated
    <2>2. ASSUME InCoordinator(q)' PROVE Covered(q)'
        BY <1>6, <2>2, <1>0, Constants
           DEF StartCoordinator, Spawn, Overrun, Terminated, Covered, Spent, Stay
    <2> QED BY <2>1, <2>2, <1>1
<1>7. ASSUME NEW q \in Proc, Record(q) \/ Beat(q) PROVE LeaseInvariant'
    <2>1. Others(q) /\ Own(q) /\ UNCHANGED used /\ UNCHANGED lease
        BY <1>7 DEF Record, Beat
    <2>2. ASSUME InCoordinator(q)' PROVE Covered(q)'
        BY <1>7, <2>2, <1>0, Constants DEF Record, Beat, Covered, Spent, Stay
    <2> QED BY <2>1, <2>2, <1>1
<1>8. ASSUME NEW q \in Proc, Renew(q) PROVE LeaseInvariant'
    <2>1. Others(q) /\ Own(q) /\ UNCHANGED used
        BY <1>8 DEF Renew
    <2>2. Safe(q)
        BY <1>8, <1>0, OthersKeepTheLease DEF Renew, LeaseInvariant, Covered
    <2>3. ASSUME InCoordinator(q)' PROVE Covered(q)'
      <3>1. InCoordinator(q) /\ OwnsLease(cur[q]) /\ Covered(q) /\ lag[q] \in Nat
          BY <1>8, <2>3, <1>0 DEF Renew
      <3>2. lease' = [lease EXCEPT !.ttl = Lease] /\ pc' = [pc EXCEPT ![q] = "watch"]
          BY <1>8, <3>1 DEF Renew, RenewLease
      <3> QED BY <1>8, <3>1, <3>2, Constants DEF Renew, Covered, Spent, Stay, LeaseRow
    <2> QED BY <2>1, <2>2, <2>3, <1>1
(* A tick begins: its id is new, and it finds no other that is covered.    *)
<1>9. ASSUME NEW q \in Proc, Acquire(q) PROVE LeaseInvariant'
    <2>1. PICK t \in Ticks \ used : /\ AcquireLease(t)
                                    /\ used' = used \cup {t}
                                    /\ Handles(q, <<t, "coordinator">>)
        BY <1>9 DEF Acquire
    <2>2. \A p \in Proc \ {q} : Steady(p)
        BY <1>9, <2>1 DEF Acquire
    <2>3. \A p \in Proc \ {q} : InCoordinator(p) => UNCHANGED lease
        BY <2>1, <1>0 DEF AcquireLease
    <2>4. InCoordinator(q)' => Covered(q)'
        BY <1>9, <2>1, Constants DEF Acquire, AcquireLease, Covered, Spent, Stay
    <2>5. used \subseteq used' /\ cur'[q] \in used' \ used
        BY <2>1
    <2> HIDE DEF InTick, Steady, InCoordinator, TypeOK
    <2> QED BY <2>2, <2>3, <2>4, <2>5, StepOfOne
(* Time passes: the lease loses what lag gains. *)
<1>10. CASE ClockTick
    <2>1. OwnTicks'
        BY <1>10 DEF ClockTick, LeaseInvariant, OwnTicks
    <2>2. ASSUME NEW p \in Proc, InCoordinator(p)' PROVE Covered(p)'
      <3>1. /\ InCoordinator(p) /\ Covered(p) /\ OwnsLease(cur[p])
            /\ lag[p] \in Nat /\ lease.ttl \in Nat /\ ~Overdue(p) /\ pc[p] \in Timed
          BY <1>10, <2>2, <1>0 DEF ClockTick, Timed
      <3>2. lag'[p] = lag[p] + 1 /\ lease' = [lease EXCEPT !.ttl = @ - 1] /\ lease.ttl > 0
          BY <1>10, <3>1 DEF ClockTick, LedgerTick, OwnsLease
      <3>3. lag[p] < Limit(pc[p])
          BY <3>1, Constants DEF Overdue, Limit
      <3>4. lag[p] + 1 <= Stay(pc[p])
          BY <3>1, <3>3, Constants DEF Limit, Stay
      <3>5. lease' \in LeaseRow /\ lease'.owner = lease.owner /\ lease'.ttl = lease.ttl - 1
          BY <3>1, <3>2, Constants DEF LeaseRow
      <3> QED BY <1>10, <3>1, <3>2, <3>4, <3>5, Constants DEF ClockTick, Covered, Spent
    <2> QED BY <2>1, <2>2 DEF LeaseInvariant, LeaseCoversLag, Covered
<1>11. CASE Reboot
    BY <1>11 DEF Reboot, LeaseInvariant, OwnTicks, LeaseCoversLag
<1>12. ASSUME NEW r \in Run, ChildEnds(r) \/ Fork(r) \/ HeirEnds(r) PROVE LeaseInvariant'
    BY <1>12 DEF ChildEnds, Fork, HeirEnds, LeaseInvariant, OwnTicks, LeaseCoversLag, Spent, Stay
<1>13. CASE UNCHANGED vars
    BY <1>13 DEF vars, LeaseInvariant, OwnTicks, LeaseCoversLag, Spent, Stay
<1> HIDE DEF TypeOK
<1> QED BY <1>2, <1>3, <1>4, <1>5, <1>6, <1>7, <1>8, <1>9, <1>10, <1>11, <1>12, <1>13
        DEF Next, Works, Recovers, TicksOn, Ends

(* Initially no process is in a tick.                                      *)
LEMMA LeaseInit == Init => LeaseInvariant
BY DEF Init, LeaseInvariant, OwnTicks, LeaseCoversLag, InCoordinator, InTick, Starting, Watching

(* With the timing of WellTimed, the age of the lease is bounded by the    *)
(* time each phase of the watch may take, and ticks own distinct ids.      *)
THEOREM LeaseCovered ==
    ASSUME WellTimed, "stall" \notin Faults
    PROVE  Spec => []LeaseInvariant
<1>1. TypeOK /\ LeaseInvariant /\ [Next]_vars => LeaseInvariant'
    BY LeaseStep
<1> QED BY LeaseInit, <1>1, TypeCorrect, PTL DEF Spec

(* With the timing of WellTimed, and unless the machine stalls, a          *)
(* coordinator is launched and watched under a valid lease only, whatever  *)
(* crashes, log and ledger errors happen to any number of loops and tools. *)
THEOREM CoordinatorUnderLease ==
    ASSUME WellTimed, "stall" \notin Faults
    PROVE  Spec => []CoordinatorHoldsLease
<1>1. TypeOK /\ LeaseInvariant => CoordinatorHoldsLease
    BY CoveredOwns DEF LeaseInvariant, LeaseCoversLag, Covered, CoordinatorHoldsLease
<1> QED BY <1>1, LeaseCovered, TypeCorrect, PTL

(* Hence two supervisors never watch coordinators at the same time.        *)
THEOREM OneWatchedCoordinator ==
    ASSUME WellTimed, "stall" \notin Faults
    PROVE  Spec => [](\A p, q \in Proc : InCoordinator(p) /\ InCoordinator(q) => p = q)
<1>1. LeaseInvariant => \A p, q \in Proc : InCoordinator(p) /\ InCoordinator(q) => p = q
    BY DEF LeaseInvariant, LeaseCoversLag, OwnTicks, InCoordinator, InTick
<1> QED BY <1>1, LeaseCovered, PTL
=============================================================================
