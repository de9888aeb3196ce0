--------------------------- MODULE RecoveryProofs ---------------------------
(***************************************************************************)
(* Theorems about recovery in Coordination, for every value of its         *)
(* constants: recover settles dead runs only, the outcome of a run is      *)
(* written once, a run that is over has no child left, and a loop launches *)
(* a coordinator beside no other.                                          *)
(***************************************************************************)
EXTENDS CoordinationProofs

Attending == {"launch", "spawned"} \cup Watching
Kinds == {"coordinator", "reviewer"}
RowOf(p, k) == runs[<<cur[p], k>>]

(* What a process knows of the rows of its own tick: only the run it       *)
(* attends is active (or a reviewer's that would not stop), the reviewer's *)
(* comes last, and the row of the run says what phase it is in and has     *)
(* been heard of within lag.                                               *)
OnlyAttended(p) ==
    pc[p] \in InTick =>
        \A k \in Kinds : RowOf(p, k).status \in Active =>
            Attends(p, <<cur[p], k>>) \/ (pc[p] = "leave" /\ k = "reviewer")
ReviewerLast(p) ==
    /\ pc[p] \in {"setup", "verify"} => role[p] = "coordinator"
    /\ pc[p] = "setup" => RowOf(p, "coordinator").status = "none"
    /\ pc[p] \in InTick /\ role[p] = "coordinator" => RowOf(p, "reviewer").status = "none"
InPhase(p) ==
    /\ pc[p] \in {"launch", "spawned"} =>
         runs[RunOf(p)].status = "starting" /\ runs[RunOf(p)].pid = FALSE
    /\ pc[p] \in Watching => runs[RunOf(p)].status = "running" /\ runs[RunOf(p)].pid = TRUE
Recent(p) ==
    /\ pc[p] = "setup" => lag[p] <= Setup
    /\ pc[p] \in Attending => runs[RunOf(p)].age <= lag[p] /\ lag[p] <= Stay(pc[p])
    /\ pc[p] = "watch" /\ Alive(RunOf(p)) => lag[p] <= Heartbeat
Mine(p) == OnlyAttended(p) /\ ReviewerLast(p) /\ InPhase(p) /\ Recent(p)

(* A row of the snapshot that somebody attends, or that has changed since, *)
(* has an age which the sweep cannot bring above the silence timeout: it   *)
(* was young when it was read.                                             *)
Touched(x) == \/ \E p \in Proc : Attends(p, x.run)
              \/ runs[x.run].status \in {"succeeded", "failed"}
              \/ runs[x.run].pid # x.pid

Swept(q) ==
    /\ todo[q] # {} => pc[q] \in {"rows", "kill", "abandon"}
    /\ pc[q] \in Sweeping \cup {"poise"} => lag[q] <= Sweep
    /\ \A x \in todo[q] :
         /\ runs[x.run].status # "none"
         /\ Touched(x) => x.age + Sweep <= Silence + lag[q]
    /\ pc[q] \in {"kill", "abandon"} =>
         /\ runs[RunOf(q)].status \in Active \cup {"abandoned"}
         /\ \A p \in Proc : ~Attends(p, RunOf(q))
         /\ pc[q] = "abandon" /\ runs[RunOf(q)].pid => ~Alive(RunOf(q))

Unborn == \A r \in Run : /\ r[1] \notin used => runs[r].status = "none"
                         /\ runs[r].status = "none" => ~runs[r].pid
Orderly == Unborn /\ \A p \in Proc : Mine(p) /\ Swept(p)

-----------------------------------------------------------------------------
(* Steps of a tick. *)

OthersKeep(p) == \A q \in Proc \ {p} : Steady(q) /\ todo'[q] = todo[q]

(* What a step of process p in a tick may do to rows and children.         *)
OwnRows(p) ==
    /\ \A r \in Run : runs'[r] # runs[r] =>
           r[1] = cur[p] /\ (Attends(p, r) \/ runs[r].status = "none")
    /\ \A r \in Run : runs'[r].status = "none" => runs'[r] = runs[r]
    /\ \A r \in Run : Alive(r)' => Alive(r) \/ Attends(p, r)

Takes(p) == \A r \in Run : Attends(p, r)' => Attends(p, r) \/ runs[r].status = "none"

(* Such a step leaves the order of all others intact.                      *)
LEMMA StepOfTick ==
    ASSUME TypeOK, OwnTicks, Orderly, NEW p \in Proc, pc[p] \in InTick,
           OthersKeep(p), todo'[p] = todo[p], used' = used,
           pc'[p] \notin Sweeping \cup {"poise"},
           OwnRows(p), Takes(p), Mine(p)'
    PROVE  Orderly'
<1>1. Unborn'
    BY DEF Orderly, Unborn, OwnRows, OwnTicks
<1>2. ASSUME NEW q \in Proc \ {p} PROVE Mine(q)'
  <2>1. Steady(q) /\ Mine(q)
      BY DEF OthersKeep, Orderly
  <2>2. CASE pc[q] \in InTick
    <3>1. cur[q] # cur[p] /\ cur[q] \in Ticks
        BY <2>2 DEF OwnTicks, TypeOK
    <3>2. \A k \in Kinds : <<cur[q], k>> \in Run /\ runs'[<<cur[q], k>>] = runs[<<cur[q], k>>]
        BY <3>1 DEF OwnRows, Run, Kinds
    <3>3. role[q] \in Kinds
        BY DEF TypeOK, Kinds
    <3>4. runs'[RunOf(q)] = runs[RunOf(q)] /\ RunOf(q) \in Run /\ RunOf(q)' = RunOf(q)
        BY <2>1, <3>2, <3>3 DEF RunOf, Steady
    <3>5. Alive(RunOf(q))' => Alive(RunOf(q))
        BY <3>1, <3>4 DEF OwnRows, Attends, RunOf, Alive
    <3> QED BY <2>1, <3>2, <3>4, <3>5 DEF Mine, OnlyAttended, ReviewerLast, InPhase, Recent, Steady, RowOf, Attends, Kinds
  <2>3. CASE pc[q] \notin InTick
      BY <2>1, <2>3 DEF Mine, OnlyAttended, ReviewerLast, InPhase, Recent, Steady, InTick, Attending, Starting, Watching
  <2> QED BY <2>2, <2>3
<1>3. Swept(p)'
  <2>1. todo'[p] = {}
      BY DEF Orderly, Swept, InTick, Starting, Watching
  <2> QED BY <2>1 DEF Swept, Sweeping
<1>4. ASSUME NEW q \in Proc \ {p} PROVE Swept(q)'
  <2>1. Steady(q) /\ todo'[q] = todo[q] /\ Swept(q)
      BY DEF OthersKeep, Orderly
  <2>2. \A r \in Run : \A u \in Proc \ {p} : Attends(u, r)' = Attends(u, r)
      BY DEF OthersKeep, Steady, Attends, RunOf
  <2>3. ASSUME NEW x \in todo[q] PROVE /\ runs'[x.run].status # "none"
                                       /\ Touched(x)' => Touched(x)
    <3>1. x.run \in Run /\ runs[x.run].status # "none"
        BY <2>1 DEF TypeOK, SnapRow, Swept
    <3>2. runs'[x.run] # runs[x.run] => Attends(p, x.run)
        BY <3>1 DEF OwnRows
    <3>3. Attends(p, x.run)' => Attends(p, x.run)
        BY <3>1 DEF Takes
    <3>4. runs'[x.run].status # "none"
        BY <3>1 DEF OwnRows
    <3> QED BY <2>2, <3>1, <3>2, <3>3, <3>4 DEF Touched
  <2>4. ASSUME pc[q] \in {"kill", "abandon"}
        PROVE  /\ RunOf(q)' = RunOf(q)
               /\ runs'[RunOf(q)] = runs[RunOf(q)]
               /\ \A u \in Proc : ~Attends(u, RunOf(q))'
               /\ Alive(RunOf(q))' => Alive(RunOf(q))
    <3>1. RunOf(q) \in Run /\ RunOf(q)' = RunOf(q)
        BY <2>1, <2>4, RunOfType DEF TypeOK, Steady, RunOf
    <3>2. runs[RunOf(q)].status # "none" /\ ~Attends(p, RunOf(q))
        BY <2>1, <2>4 DEF Swept, Active
    <3>3. runs'[RunOf(q)] = runs[RunOf(q)] /\ (Alive(RunOf(q))' => Alive(RunOf(q)))
        BY <3>1, <3>2 DEF OwnRows, Alive, RunOf
    <3>4. ~Attends(p, RunOf(q))'
        BY <3>1, <3>2 DEF Takes, Attends, RunOf
    <3>5. \A u \in Proc \ {p} : ~Attends(u, RunOf(q))'
        BY <2>1, <2>2, <2>4, <3>1 DEF Swept, Attends, RunOf
    <3> QED BY <3>1, <3>3, <3>4, <3>5
  <2> QED BY <2>1, <2>3, <2>4 DEF Swept, Steady, Alive
<1> QED BY <1>1, <1>2, <1>3, <1>4 DEF Orderly

(* What the rows of a process in a tick are.                               *)
LEMMA OwnTypes ==
    ASSUME TypeOK, NEW p \in Proc, pc[p] \in InTick
    PROVE  /\ cur[p] \in Ticks /\ role[p] \in Kinds /\ lag[p] \in Nat
           /\ RunOf(p) \in Run /\ RunOf(p) = <<cur[p], role[p]>>
           /\ \A k \in Kinds : <<cur[p], k>> \in Run
           /\ \A r \in Run : runs[r] \in RunRow
           /\ runs = [r \in Run |-> runs[r]]
BY DEF TypeOK, Kinds, RunOf, Run

(* A tick that fails settles rows of its own and nobody else's.            *)
FailsRows(p) == FailTick(p) \/ FailActiveRuns({<<cur[p], "coordinator">>})

LEMMA FailedTick ==
    ASSUME TypeOK, NEW p \in Proc, pc[p] \in InTick \ {"leave"}, Mine(p), FailsRows(p),
           UNCHANGED child, pc'[p] = "leave", cur'[p] = cur[p], role'[p] = role[p]
    PROVE  OwnRows(p) /\ Takes(p) /\ Mine(p)'
<1> USE DEF Active
<1>1. PICK S \in SUBSET {RunOf(p), <<cur[p], "coordinator">>} :
          FailActiveRuns(S) /\ <<cur[p], "coordinator">> \in S
    BY DEF FailsRows, FailTick
<1>r. \A r \in Run : runs'[r] = IF r \in S /\ runs[r].status \in Active
                                THEN Row("failed", 0, runs[r].pid) ELSE runs[r]
    BY <1>1 DEF FailActiveRuns
<1>2. \A r \in {RunOf(p), <<cur[p], "coordinator">>} :
          r[1] = cur[p] /\ (runs[r].status \in Active => Attends(p, r))
    BY OwnTypes DEF Mine, OnlyAttended, RowOf, Kinds, RunOf
<1>f. \A r \in Run : Row("failed", 0, runs[r].pid).status = "failed"
    BY DEF Row
<1>3. OwnRows(p)
  <2>1. ASSUME NEW r \in Run, runs'[r] # runs[r]
        PROVE  r[1] = cur[p] /\ Attends(p, r) /\ runs'[r].status # "none"
      BY <1>1, <1>r, <1>2, <1>f, <2>1
  <2> QED BY <2>1 DEF OwnRows, Alive
<1>4. \A r : ~Attends(p, r)'
    BY DEF Attends, Watching
<1>5. runs'[<<cur[p], "coordinator">>].status \notin Active
    BY <1>1, <1>r, <1>f, OwnTypes DEF Kinds
<1>6. role[p] = "coordinator" => runs'[<<cur[p], "reviewer">>].status = "none"
    BY <1>1, <1>r, OwnTypes DEF Mine, ReviewerLast, RowOf, RunOf, Kinds, OnlyAttended
<1> QED BY <1>3, <1>4, <1>5, <1>6
        DEF Takes, Mine, OnlyAttended, ReviewerLast, InPhase, Recent, RowOf, Attending, Watching,
            InTick, Starting, Kinds

(* Each step of a tick is of this kind.                                    *)
LEMMA TickSteps ==
    ASSUME TypeOK, OwnTicks, Orderly, NEW p \in Proc, pc[p] \in InTick,
           \/ StartCoordinator(p) \/ FailEarly(p) \/ Spawn(p) \/ Record(p) \/ Beat(p)
           \/ Renew(p) \/ Ends(p) \/ Terminated(p) \/ StartReview(p) \/ EndVerify(p)
           \/ Release(p) \/ WatchFails(p) \/ StopFails(p) \/ LedgerFails(p) \/ Crash(p)
    PROVE  Orderly'
<1> DEFINE Own == OwnRows(p) /\ Takes(p) /\ Mine(p)'
<1>0. /\ pc \in [Proc -> PC] /\ cur \in [Proc -> Ticks \cup {NoTick}]
      /\ role \in [Proc -> Kinds] /\ lag \in [Proc -> Nat]
      /\ todo \in [Proc -> SUBSET SnapRow] /\ child \in [Run -> ChildState]
    BY DEF TypeOK, Kinds
<1>1. Mine(p) /\ todo[p] = {}
    BY DEF Orderly, Swept, InTick, Starting, Watching
<1> USE DEF At, Goto, GotoFresh, ledgerVars, InTick, Starting, Watching
<1>2. /\ OthersKeep(p) /\ todo'[p] = todo[p] /\ used' = used
      /\ pc'[p] \notin Sweeping \cup {"poise"}
  <2> USE <1>0, <1>1 DEF OthersKeep, Steady, Nothing, Handles, Sweeping, Idle
  <2>1. CASE StartCoordinator(p) \/ FailEarly(p) \/ Spawn(p) \/ Record(p) \/ Beat(p) \/ Renew(p)
      BY <2>1 DEF StartCoordinator, FailEarly, Spawn, Record, Beat, Renew
  <2>2. CASE Ends(p) \/ Terminated(p) \/ StartReview(p) \/ EndVerify(p)
      BY <2>2 DEF Ends, Overrun, Collect, OverBudget, Terminated, StartReview, EndVerify
  <2>3. CASE Release(p) \/ WatchFails(p) \/ StopFails(p) \/ LedgerFails(p) \/ Crash(p)
      BY <2>3 DEF Release, WatchFails, StopFails, LedgerFails, Crash, Dies, Dead
  <2> QED BY <2>1, <2>2, <2>3
(* The tick is over for good. *)
<1>3. ASSUME Release(p) \/ LedgerFails(p) \/ Crash(p) PROVE Own
  <2>1. pc'[p] \in {"off", "down", "wait"} /\ UNCHANGED <<runs, child>>
      BY <1>0, <1>3 DEF Release, LedgerFails, Crash, Dies, Dead, Idle
  <2> QED BY <2>1 DEF OwnRows, Takes, Mine, OnlyAttended, ReviewerLast, InPhase, Recent, Attends, Alive, Attending
(* The tick fails. *)
<1>4. ASSUME \/ FailEarly(p) \/ OverBudget(p) \/ WatchFails(p) \/ StopFails(p)
             \/ EndVerify(p) /\ FailTick(p)
      PROVE  Own
  <2>1. /\ FailsRows(p) /\ UNCHANGED <<child, cur, role>>
        /\ pc[p] \in InTick \ {"leave"} /\ pc'[p] = "leave"
      BY <1>0, <1>4 DEF FailEarly, OverBudget, WatchFails, StopFails, EndVerify, FailsRows
  <2> QED BY <1>1, <2>1, FailedTick
<1>5. ASSUME EndVerify(p) /\ UNCHANGED runs PROVE Own
  <2>1. pc[p] = "verify" /\ pc'[p] = "leave" /\ UNCHANGED <<runs, child, cur, role>>
      BY <1>0, <1>5 DEF EndVerify
  <2> QED BY <1>1, <2>1 DEF OwnRows, Takes, Mine, OnlyAttended, ReviewerLast, InPhase, Recent, Attends, Alive, Attending, RowOf
(* What the process works on. *)
<1>t. /\ cur[p] \in Ticks /\ role[p] \in Kinds /\ RunOf(p) \in Run /\ lag[p] \in Nat
      /\ \A k \in Kinds : <<cur[p], k>> \in Run
      /\ runs \in [Run -> RunRow] /\ \A r \in Run : runs[r].age \in Nat
  <2>1. runs \in [Run -> RunRow]
      BY DEF TypeOK
  <2> QED BY <2>1, OwnTypes, Constants DEF RunRow
(* A row is inserted. *)
<1>6. ASSUME StartCoordinator(p) \/ StartReview(p) PROVE Own
  <2>r. PICK row : row = Row("starting", 0, FALSE)
      OBVIOUS
  <2>s. row.status = "starting" /\ row.age = 0 /\ row.pid = FALSE
      BY <2>r DEF Row
  <2>1. PICK k \in Kinds :
            /\ runs' = [runs EXCEPT ![<<cur[p], k>>] = row]
            /\ runs[<<cur[p], k>>].status = "none"
            /\ \A j \in Kinds : runs[<<cur[p], j>>].status \notin Active
            /\ k = "coordinator" => runs[<<cur[p], "reviewer">>].status = "none"
            /\ role'[p] = k /\ cur' = cur /\ pc'[p] = "launch" /\ child' = child
            /\ lag'[p] \in Nat /\ lag'[p] <= Setup
    <3>1. CASE StartCoordinator(p)
      <4>1. role[p] = "coordinator" /\ RunOf(p) = <<cur[p], "coordinator">>
          BY <1>1, <3>1 DEF StartCoordinator, Mine, OnlyAttended, ReviewerLast, InPhase, Recent, RunOf
      <4> QED BY <1>0, <1>1, <1>t, <2>r, <3>1, <4>1
              DEF StartCoordinator, StartRun, Mine, OnlyAttended, ReviewerLast, InPhase, Recent, RowOf, Kinds, Active
    <3>2. CASE StartReview(p)
      <4>1. pc[p] = "verify" /\ role[p] = "coordinator"
          BY <1>1, <3>2 DEF StartReview, Mine, OnlyAttended, ReviewerLast, InPhase, Recent
      <4> QED BY <1>0, <1>1, <1>t, <2>r, <3>2, <4>1, Constants
              DEF StartReview, StartRun, Mine, OnlyAttended, ReviewerLast, InPhase, Recent, RowOf, Kinds, Attends
    <3> QED BY <1>6, <3>1, <3>2
  <2>2. <<cur[p], k>> \in Run /\ RunOf(p)' = <<cur[p], k>>
      BY <1>t, <2>1 DEF RunOf
  <2>3. \A r \in Run : runs'[r] = IF r = <<cur[p], k>> THEN row ELSE runs[r]
      BY <1>t, <2>1, <2>2
  <2>4. OwnRows(p)
    <3>1. ASSUME NEW r \in Run, runs'[r] # runs[r]
          PROVE  r[1] = cur[p] /\ runs[r].status = "none" /\ runs'[r].status # "none"
        BY <2>1, <2>3, <2>s, <3>1
    <3> QED BY <2>1, <3>1 DEF OwnRows, Alive
  <2>5. Takes(p)
      BY <2>1, <2>2 DEF Takes, Attends, RunOf
  <2>6. Mine(p)'
    <3>1. runs'[RunOf(p)'] = row /\ runs'[<<cur[p], k>>] = row
        BY <2>2, <2>3
    <3>2. \A j \in Kinds : j # k => runs'[<<cur[p], j>>] = runs[<<cur[p], j>>]
        BY <1>t, <2>2, <2>3
    <3>4. \A j \in Kinds : runs'[<<cur[p], j>>].status \in Active => Attends(p, <<cur[p], j>>)'
        BY <2>1, <2>2, <3>2 DEF Attends, RunOf
    <3>5. k = "coordinator" => runs'[<<cur[p], "reviewer">>].status = "none"
        BY <2>1, <3>2 DEF Kinds
    <3>6. (runs[RunOf(p)].status = "starting" /\ runs[RunOf(p)].pid = FALSE /\ runs[RunOf(p)].age = 0)'
        BY <2>s, <3>1
    <3>7. OnlyAttended(p)'
        BY <2>1, <3>4 DEF OnlyAttended, RowOf
    <3>8. ReviewerLast(p)'
        BY <2>1, <3>5 DEF ReviewerLast, RowOf
    <3>9. InPhase(p)'
        BY <2>1, <3>6 DEF InPhase
    <3>10. Recent(p)'
        BY <2>1, <3>6 DEF Recent, Stay, Attending
    <3> QED BY <3>7, <3>8, <3>9, <3>10 DEF Mine
  <2> QED BY <2>4, <2>5, <2>6
(* The child of the row is spawned, recorded, watched and stopped. *)
<1>w. ASSUME pc[p] \in Attending, pc'[p] \in Attending, cur'[p] = cur[p], role'[p] = role[p],
             lag'[p] \in Nat,
             NEW row, runs' = [runs EXCEPT ![RunOf(p)] = row], row.age <= lag'[p],
             pc'[p] \in {"launch", "spawned"} => row.status = "starting" /\ row.pid = FALSE,
             pc'[p] \in Watching => row.status = "running" /\ row.pid = TRUE,
             lag'[p] <= Stay(pc'[p]),
             \A r \in Run : Alive(r)' => Alive(r) \/ Attends(p, r),
             pc'[p] = "watch" /\ Alive(RunOf(p))' => lag'[p] <= Heartbeat
      PROVE  Own
  <2>1. RunOf(p)' = RunOf(p) /\ Attends(p, RunOf(p)) /\ runs'[RunOf(p)] = row
      BY <1>t, <1>w DEF RunOf, Attends, Attending
  <2>2. \A r \in Run : r # RunOf(p) => runs'[r] = runs[r]
      BY <1>t, <1>w
  <2>3. OwnRows(p)
    <3>1. row.status # "none"
        BY <1>w DEF Attending
    <3> QED BY <1>w, <2>1, <2>2, <3>1 DEF OwnRows, RunOf
  <2>4. Takes(p)
      BY <1>w, <2>1 DEF Takes, Attends, Attending
  <2>5. OnlyAttended(p)'
    <3>1. ASSUME NEW k \in Kinds, runs'[<<cur[p], k>>].status \in Active
          PROVE  <<cur[p], k>> = RunOf(p)
        BY <1>1, <1>t, <1>w, <2>2, <3>1 DEF Mine, OnlyAttended, RowOf, Attends, Attending
    <3>2. \A k \in Kinds : runs'[<<cur'[p], k>>].status \in Active => <<cur'[p], k>> = RunOf(p)'
        BY <1>w, <2>1, <3>1
    <3> QED BY <1>w, <3>2 DEF OnlyAttended, RowOf, Attends, Attending
  <2>6. ReviewerLast(p)'
    <3>1. role[p] = "coordinator" =>
              /\ runs'[<<cur[p], "reviewer">>] = runs[<<cur[p], "reviewer">>]
              /\ runs[<<cur[p], "reviewer">>].status = "none"
        BY <1>1, <1>t, <2>2 DEF Mine, ReviewerLast, RowOf, RunOf, Kinds
    <3> QED BY <1>w, <3>1 DEF ReviewerLast, RowOf, Attending
  <2>7. InPhase(p)'
      BY <1>w, <2>1 DEF InPhase
  <2>8. Recent(p)'
      BY <1>w, <2>1 DEF Recent, Attending
  <2> QED BY <2>3, <2>4, <2>5, <2>6, <2>7, <2>8 DEF Mine
<1>7. ASSUME Spawn(p) PROVE Own
  <2>1. /\ pc[p] = "launch" /\ pc'[p] = "spawned" /\ UNCHANGED <<runs, cur, role, lag>>
        /\ child' = [child EXCEPT ![RunOf(p)] = "alive"]
      BY <1>0, <1>7 DEF Spawn
  <2>2. \A r \in Run : Alive(r)' => Alive(r) \/ Attends(p, r)
      BY <1>0, <2>1 DEF Alive, Attends
  <2>3. runs' = [runs EXCEPT ![RunOf(p)] = runs[RunOf(p)]]
      BY <1>t, <2>1
  <2> QED BY <1>1, <1>t, <1>w, <2>1, <2>2, <2>3 DEF Attending, Mine, InPhase, Recent, Stay
<1>8. ASSUME Record(p) PROVE Own
  <2>1. PICK row : row = Row("running", 0, TRUE)
      OBVIOUS
  <2>2. row.status = "running" /\ row.age = 0 /\ row.pid = TRUE
      BY <2>1 DEF Row
  <2>3. /\ pc[p] = "spawned" /\ pc'[p] = "watch" /\ UNCHANGED <<child, cur, role>> /\ lag'[p] = 0
        /\ runs' = [runs EXCEPT ![RunOf(p)] = row]
      BY <1>0, <1>1, <1>8, <2>1 DEF Record, SetRunRunning, Mine, InPhase
  <2>4. \A r \in Run : Alive(r)' => Alive(r)
      BY <2>3 DEF Alive
  <2>5. row.age <= lag'[p] /\ lag'[p] <= Stay(pc'[p]) /\ lag'[p] <= Heartbeat /\ lag'[p] \in Nat
      BY <2>2, <2>3, Constants DEF Stay
  <2> QED BY <1>w, <2>2, <2>3, <2>4, <2>5 DEF Attending
<1>9. ASSUME Beat(p) PROVE Own
  <2>1. PICK row : row = Row("running", 0, TRUE)
      OBVIOUS
  <2>2. row.status = "running" /\ row.age = 0 /\ row.pid = TRUE
      BY <2>1 DEF Row
  <2>3. /\ pc[p] = "watch" /\ pc'[p] = "renew" /\ UNCHANGED <<child, cur, role>> /\ lag'[p] = 0
        /\ runs' = [runs EXCEPT ![RunOf(p)] = row]
      BY <1>0, <1>1, <1>9, <2>1 DEF Beat, HeartbeatRun, Mine, InPhase, Active
  <2>4. \A r \in Run : Alive(r)' => Alive(r)
      BY <2>3 DEF Alive
  <2>5. row.age <= lag'[p] /\ lag'[p] <= Stay(pc'[p]) /\ lag'[p] <= Heartbeat /\ lag'[p] \in Nat
      BY <2>2, <2>3, Constants DEF Stay
  <2> QED BY <1>w, <2>2, <2>3, <2>4, <2>5 DEF Attending
<1>10. ASSUME Renew(p) PROVE Own
  <2>1. /\ pc[p] = "renew" /\ pc'[p] \in {"watch", "stop"} /\ UNCHANGED <<runs, child, cur, role, lag>>
      BY <1>0, <1>10 DEF Renew
  <2>2. runs' = [runs EXCEPT ![RunOf(p)] = runs[RunOf(p)]]
      BY <1>t, <2>1
  <2>3. lag[p] <= Heartbeat /\ lag[p] <= Stay(pc'[p])
      BY <1>1, <1>t, <2>1, Constants DEF Mine, Recent, Stay, Attending
  <2> QED BY <1>1, <1>t, <1>w, <2>1, <2>2, <2>3 DEF Attending, Mine, InPhase, Recent, Alive
<1>11. ASSUME Overrun(p) PROVE Own
  <2>1. /\ pc[p] = "watch" /\ pc'[p] = "stop" /\ UNCHANGED <<runs, child, cur, role, lag>>
      BY <1>0, <1>11 DEF Overrun
  <2>2. runs' = [runs EXCEPT ![RunOf(p)] = runs[RunOf(p)]]
      BY <1>t, <2>1
  <2> QED BY <1>1, <1>t, <1>w, <2>1, <2>2 DEF Attending, Mine, InPhase, Recent, Alive, Stay
<1>12. ASSUME Terminated(p) PROVE Own
  <2>1. /\ pc[p] = "stop" /\ pc'[p] = "watch" /\ UNCHANGED <<runs, cur, role, lag>>
        /\ RunOf(p)' = RunOf(p)
      BY <1>0, <1>12 DEF Terminated, RunOf
  <2>2. ~Alive(RunOf(p))' /\ \A r \in Run : Alive(r)' => Alive(r)
      BY <1>0, <1>t, <1>12, <2>1 DEF Terminated, Alive
  <2>3. runs' = [runs EXCEPT ![RunOf(p)] = runs[RunOf(p)]]
      BY <1>t, <2>1
  <2> QED BY <1>1, <1>t, <1>w, <2>1, <2>2, <2>3 DEF Attending, Mine, InPhase, Recent, Stay
<1>13. ASSUME Collect(p) PROVE Own
  <2>1. PICK s \in {"succeeded", "failed"} : FinishRun(RunOf(p), s)
      BY <1>13 DEF Collect
  <2>2. PICK row : row = Row(s, 0, runs[RunOf(p)].pid)
      OBVIOUS
  <2>3. row.status = s
      BY <2>2 DEF Row
  <2>4. /\ pc[p] = "watch" /\ UNCHANGED <<child, cur, role>>
        /\ pc'[p] = "leave" \/ (pc'[p] = "verify" /\ role[p] = "coordinator")
        /\ runs' = [runs EXCEPT ![RunOf(p)] = row]
      BY <1>0, <1>13, <2>1, <2>2 DEF Collect, FinishRun
  <2>5. runs'[RunOf(p)] = row /\ \A r \in Run : r # RunOf(p) => runs'[r] = runs[r]
      BY <1>t, <2>4
  <2>6. Attends(p, RunOf(p)) /\ RunOf(p)[1] = cur[p]
      BY <1>t, <2>4 DEF Attends, RunOf
  <2>7. OwnRows(p)
      BY <2>3, <2>4, <2>5, <2>6 DEF OwnRows, Alive
  <2>8. Takes(p)
      BY <2>4 DEF Takes, Attends
  <2>9. \A k \in Kinds : runs'[<<cur[p], k>>].status \notin Active
    <3> SUFFICES ASSUME NEW k \in Kinds PROVE runs'[<<cur[p], k>>].status \notin Active
        OBVIOUS
    <3>1. CASE <<cur[p], k>> = RunOf(p)
        BY <2>3, <2>5, <3>1 DEF Active
    <3>2. CASE <<cur[p], k>> # RunOf(p)
        BY <1>1, <1>t, <2>4, <2>5, <3>2 DEF Mine, OnlyAttended, RowOf, Attends
    <3> QED BY <3>1, <3>2
  <2>10. role[p] = "coordinator" => runs'[<<cur[p], "reviewer">>].status = "none"
      BY <1>1, <1>t, <2>5 DEF Mine, ReviewerLast, RowOf, RunOf, Kinds
  <2>11. OnlyAttended(p)' /\ ReviewerLast(p)'
      BY <2>4, <2>9, <2>10 DEF OnlyAttended, ReviewerLast, RowOf
  <2>12. InPhase(p)' /\ Recent(p)'
      BY <2>4 DEF InPhase, Recent, Attending
  <2> QED BY <2>7, <2>8, <2>11, <2>12 DEF Mine
<1> QED BY <1>2, <1>3, <1>4, <1>5, <1>6, <1>7, <1>8, <1>9, <1>10, <1>11, <1>12, <1>13, StepOfTick
        DEF Ends, EndVerify

-----------------------------------------------------------------------------
(* Steps outside a tick. *)

(* Only rows that nobody attends are given up.                             *)
GivesUp == \A r \in Run : runs'[r] # runs[r] =>
    /\ runs[r].status \in Active \cup {"abandoned"} /\ runs'[r].status = "abandoned"
    /\ runs'[r].pid = runs[r].pid
    /\ \A u \in Proc : ~Attends(u, r)

(* Then those who attend a run, and those who sweep beside, lose nothing.  *)
LEMMA StepOfSweep ==
    ASSUME TypeOK, Orderly, NEW p \in Proc, pc[p] \notin InTick,
           OthersKeep(p), used \subseteq used', GivesUp,
           \A r \in Run : Alive(r)' => Alive(r),
           pc'[p] \notin InTick \ {"setup"},
           Mine(p)', Swept(p)'
    PROVE  Orderly'
<1>1. Unborn'
    BY DEF Orderly, Unborn, GivesUp, Active
<1>2. \A r \in Run, u \in Proc : Attends(u, r)' = Attends(u, r)
    BY DEF OthersKeep, Steady, Attends, RunOf, InTick, Starting, Watching
<1>3. ASSUME NEW q \in Proc \ {p} PROVE Mine(q)'
  <2>1. Steady(q) /\ Mine(q)
      BY DEF OthersKeep, Orderly
  <2>2. CASE pc[q] \in InTick
    <3>1. /\ RunOf(q)' = RunOf(q) /\ RunOf(q) \in Run /\ pc'[q] = pc[q] /\ cur'[q] = cur[q]
          /\ role'[q] = role[q] /\ lag'[q] = lag[q]
          /\ \A k \in Kinds : <<cur[q], k>> \in Run
        BY <2>1, <2>2, OwnTypes DEF Steady, RunOf
    <3>2. OnlyAttended(q)'
      <4> SUFFICES ASSUME NEW k \in Kinds, runs'[<<cur[q], k>>].status \in Active
                   PROVE  Attends(q, <<cur[q], k>>) \/ (pc[q] = "leave" /\ k = "reviewer")
          BY <2>2, <3>1 DEF OnlyAttended, RowOf, Attends
      <4>1. runs'[<<cur[q], k>>] = runs[<<cur[q], k>>]
          BY <3>1 DEF GivesUp, Active
      <4> QED BY <2>1, <2>2, <4>1 DEF Mine, OnlyAttended, RowOf
    <3>3. ReviewerLast(q)'
      <4>1. \A k \in Kinds : runs[<<cur[q], k>>].status = "none" =>
                                 runs'[<<cur[q], k>>].status = "none"
          BY <3>1 DEF GivesUp, Active
      <4> QED BY <2>1, <3>1, <4>1 DEF Mine, ReviewerLast, RowOf, Kinds
    <3>4. pc[q] \in Attending => runs'[RunOf(q)] = runs[RunOf(q)]
        BY <3>1 DEF GivesUp, Attends, Attending
    <3>5. InPhase(q)'
        BY <2>1, <3>1, <3>4 DEF Mine, InPhase, Attending
    <3>6. Recent(q)'
      <4>1. Alive(RunOf(q))' => Alive(RunOf(q))
          BY <3>1 DEF Alive
      <4> QED BY <2>1, <3>1, <3>4, <4>1 DEF Mine, Recent, Attending
    <3> QED BY <3>2, <3>3, <3>5, <3>6 DEF Mine
  <2>3. CASE pc[q] \notin InTick
      BY <2>1, <2>3 DEF Mine, OnlyAttended, ReviewerLast, InPhase, Recent, Steady, InTick,
         Attending, Starting, Watching
  <2> QED BY <2>2, <2>3
<1>4. ASSUME NEW q \in Proc \ {p} PROVE Swept(q)'
  <2>1. Steady(q) /\ todo'[q] = todo[q] /\ Swept(q)
      BY DEF OthersKeep, Orderly
  <2>2. ASSUME NEW x \in todo[q]
        PROVE  runs'[x.run].status # "none" /\ (Touched(x)' => Touched(x))
    <3>1. x.run \in Run /\ runs[x.run].status # "none"
        BY <2>1 DEF TypeOK, SnapRow, Swept
    <3> QED BY <1>2, <3>1 DEF Touched, GivesUp
  <2>3. ASSUME pc[q] \in {"kill", "abandon"}
        PROVE  /\ RunOf(q)' = RunOf(q)
               /\ runs'[RunOf(q)].status \in Active \cup {"abandoned"}
               /\ \A u \in Proc : ~Attends(u, RunOf(q))'
               /\ pc[q] = "abandon" /\ runs'[RunOf(q)].pid => ~Alive(RunOf(q))'
    <3>1. RunOf(q) \in Run /\ RunOf(q)' = RunOf(q)
        BY <2>1, <2>3, RunOfType DEF TypeOK, Steady, RunOf
    <3>2. \A u \in Proc : ~Attends(u, RunOf(q))'
        BY <1>2, <2>1, <2>3, <3>1 DEF Swept, Attends
    <3>3. runs'[RunOf(q)].status \in Active \cup {"abandoned"}
          /\ runs'[RunOf(q)].pid = runs[RunOf(q)].pid
        BY <2>1, <2>3, <3>1 DEF Swept, GivesUp
    <3>4. Alive(RunOf(q))' => Alive(RunOf(q))
        BY <3>1 DEF Alive
    <3> QED BY <2>1, <2>3, <3>1, <3>2, <3>3, <3>4 DEF Swept
  <2> QED BY <2>1, <2>2, <2>3 DEF Swept, Steady
<1> QED BY <1>1, <1>3, <1>4 DEF Orderly

(* A stale row of a snapshot is one that nobody attends, and whose pid is  *)
(* known as the snapshot has it.                                           *)
LEMMA StaleIsDead ==
    ASSUME WellTimed, TypeOK, Orderly, NEW p \in Proc, NEW x \in todo[p], Stale(x)
    PROVE  /\ x.run \in Run
           /\ runs[x.run].status \in Active \cup {"abandoned"}
           /\ \A u \in Proc : ~Attends(u, x.run)
           /\ runs[x.run].pid = x.pid
<1>1. x \in SnapRow /\ x.run \in Run /\ x.age \in Nat /\ lag[p] \in Nat
    BY Constants DEF TypeOK, SnapRow
<1>2. Swept(p) /\ lag[p] <= Sweep
    BY DEF Orderly, Swept, Sweeping
<1>3. ~Touched(x) /\ runs[x.run].status # "none"
    BY <1>1, <1>2, Constants DEF Swept, Stale
<1>4. runs[x.run].status \in {"none"} \cup Active \cup Terminal
    BY <1>1 DEF TypeOK, RunRow
<1> QED BY <1>1, <1>3, <1>4 DEF Touched, Terminal

(* A row that is attended when it is read is younger than the silence      *)
(* timeout by more than a sweep.                                           *)
LEMMA ReadYoung ==
    ASSUME WellTimed, TypeOK, Orderly, NEW r \in Run, NEW u \in Proc, Attends(u, r)
    PROVE  runs[r].age + Sweep <= Silence
<1>1. pc[u] \in Attending /\ r = RunOf(u) /\ Recent(u)
    BY DEF Attends, Attending, Orderly, Mine
<1>2. runs[r].age \in Nat /\ lag[u] \in Nat
    BY Constants DEF TypeOK, RunRow
<1> QED BY <1>1, <1>2, Constants DEF Recent, WellTimed, Stay

(* Each step outside a tick is of this kind.                               *)
LEMMA SweepSteps ==
    ASSUME WellTimed, TypeOK, Orderly, NEW p \in Proc, pc[p] \notin InTick,
           \/ StartLoop(p) \/ StartTool(p) \/ StopLoop(p) \/ NextRound(p) \/ Recovers(p)
           \/ NoTickNow(p) \/ Acquire(p) \/ Crash(p)
    PROVE  Orderly'
<1> DEFINE Shape == /\ OthersKeep(p) /\ used \subseteq used' /\ GivesUp
                    /\ \A r \in Run : Alive(r)' => Alive(r)
                    /\ pc'[p] \notin InTick \ {"setup"}
                    /\ Mine(p)' /\ Swept(p)'
<1>0. /\ pc \in [Proc -> PC] /\ cur \in [Proc -> Ticks \cup {NoTick}]
      /\ role \in [Proc -> Kinds] /\ lag \in [Proc -> Nat]
      /\ todo \in [Proc -> SUBSET SnapRow] /\ child \in [Run -> ChildState]
    BY DEF TypeOK, Kinds
<1>1. Swept(p) /\ Unborn
    BY DEF Orderly
<1>o. ASSUME pc'[p] \notin InTick PROVE Mine(p)'
    BY <1>o DEF Mine, OnlyAttended, ReviewerLast, InPhase, Recent, InTick, Attending, Starting,
       Watching
<1> USE DEF At, Goto, GotoFresh, ledgerVars
(* Nothing is swept: todo is empty before and after. *)
<1>2. ASSUME todo[p] = {}, todo'[p] = {}, lag'[p] \in Nat, pc'[p] \notin {"kill", "abandon"},
             pc'[p] \in Sweeping \cup {"poise"} => lag'[p] <= Sweep
      PROVE  Swept(p)'
    BY <1>2 DEF Swept
<1>3. ASSUME StartLoop(p) \/ StartTool(p) \/ StopLoop(p) \/ NextRound(p) \/ Crash(p) \/ NoTickNow(p)
      PROVE  Shape
  <2>1. /\ OthersKeep(p) /\ UNCHANGED <<used, runs, child>>
        /\ lag'[p] = 0 /\ pc'[p] \in {"off", "down", "reap", "poise", "wait"}
        /\ todo'[p] = todo[p] \/ todo'[p] = {}
        /\ pc[p] \in {"off", "down", "wait", "poise"} \/ todo'[p] = {}
      BY <1>0, <1>3 DEF StartLoop, StartTool, StopLoop, NextRound, Crash, NoTickNow, Dies, Dead,
         Nothing, OthersKeep, Steady, Idle, Out
  <2>2. todo'[p] = {}
      BY <1>1, <2>1 DEF Swept
  <2>3. Swept(p)' /\ Mine(p)'
      BY <1>o, <2>1, <2>2, Constants DEF Swept, InTick, Starting, Watching
  <2> QED BY <2>1, <2>3 DEF GivesUp, Alive, InTick, Starting, Watching
<1>4. ASSUME ReapLeases(p) \/ EndRecover(p) PROVE Shape
  <2>1. /\ OthersKeep(p) /\ UNCHANGED <<used, runs, child, todo>> /\ todo[p] = {}
        /\ pc'[p] \in {"off", "scan", "poise"}
        /\ lag'[p] = lag[p] \/ lag'[p] = 0
        /\ pc[p] \in Sweeping
      BY <1>0, <1>1, <1>4 DEF ReapLeases, EndRecover, OthersKeep, Steady, Swept, Sweeping
  <2>2. Swept(p)' /\ Mine(p)'
      BY <1>1, <1>o, <2>1, Constants DEF Swept, InTick, Starting, Watching
  <2> QED BY <2>1, <2>2 DEF GivesUp, Alive, InTick, Starting, Watching
<1>5. ASSUME Acquire(p) PROVE Shape
  <2>1. PICK t \in Ticks \ used : used' = used \cup {t} /\ Handles(p, <<t, "coordinator">>)
      BY <1>5 DEF Acquire
  <2>2. /\ OthersKeep(p) /\ UNCHANGED <<runs, child, todo>> /\ todo[p] = {}
        /\ pc'[p] = "setup" /\ lag'[p] = 0 /\ cur'[p] = t /\ role'[p] = "coordinator"
      BY <1>0, <1>1, <1>5, <2>1 DEF Acquire, Handles, OthersKeep, Steady, Swept
  <2>3. \A k \in Kinds : runs[<<t, k>>].status = "none"
      BY <1>1, <2>1 DEF Unborn, Run, Kinds
  <2>4. Swept(p)'
      BY <2>2 DEF Swept, Sweeping
  <2>5. Mine(p)'
      BY <2>2, <2>3, Constants DEF Mine, OnlyAttended, ReviewerLast, InPhase, Recent, RowOf, Active,
         Attending, Watching, Kinds
  <2> QED BY <2>1, <2>2, <2>4, <2>5 DEF GivesUp, Alive
<1>6. ASSUME Scan(p) PROVE Shape
  <2>1. /\ OthersKeep(p) /\ UNCHANGED <<used, runs, child, cur, role, lag>>
        /\ pc[p] = "scan" /\ pc'[p] = "rows" /\ lag'[p] = lag[p]
        /\ todo'[p] = {[run |-> r, age |-> runs[r].age, pid |-> runs[r].pid] : r \in Select}
      BY <1>0, <1>6 DEF Scan, OthersKeep, Steady
  <2>2. lag[p] \in Nat /\ lag[p] <= Sweep
      BY <1>0, <1>1, <2>1 DEF Swept, Sweeping
  <2>3. ASSUME NEW x \in todo'[p]
        PROVE  /\ runs'[x.run].status # "none"
               /\ Touched(x)' => x.age + Sweep <= Silence + lag'[p]
    <3>1. PICK r \in Select : x = [run |-> r, age |-> runs[r].age, pid |-> runs[r].pid]
        BY <2>1, <2>3
    <3>2. /\ r \in Run /\ runs[r].status \in {"starting", "running"} /\ runs'[r] = runs[r]
          /\ x.run = r /\ x.age = runs[r].age /\ x.pid = runs[r].pid
        BY <2>1, <3>1 DEF Select, Active
    <3>3. ASSUME Touched(x)' PROVE \E u \in Proc : Attends(u, r)
      <4>1. PICK u \in Proc : Attends(u, r)'
          BY <3>2, <3>3 DEF Touched, Attends
      <4> QED BY <2>1, <4>1 DEF Attends, RunOf, OthersKeep, Steady, Watching
    <3>4. ASSUME Touched(x)' PROVE x.age + Sweep <= Silence + lag'[p]
      <4>1. runs[r].age + Sweep <= Silence
          BY <3>2, <3>3, <3>4, ReadYoung
      <4>2. runs[r].age \in Nat
          BY <3>2, Constants DEF TypeOK, RunRow
      <4> QED BY <2>1, <2>2, <3>2, <4>1, <4>2, Constants
    <3> QED BY <3>2, <3>4
  <2>4. Swept(p)'
      BY <2>1, <2>2, <2>3 DEF Swept
  <2> QED BY <1>o, <2>1, <2>4 DEF GivesUp, Alive, InTick, Starting, Watching
<1>7. ASSUME NEW x \in todo[p], HandleRow(p, x) PROVE Shape
  <2>1. /\ OthersKeep(p) /\ UNCHANGED <<used, runs, child, lag>>
        /\ pc[p] = "rows" /\ pc'[p] \in {"rows", "kill", "abandon"}
        /\ todo'[p] = todo[p] \ {x}
        /\ lag[p] <= Sweep
    <3>1. CASE Stale(x)
      <4>1. Verdict(x) \in {"kill", "abandon"}
          BY DEF Verdict
      <4> QED BY <1>0, <1>1, <1>7, <3>1, <4>1
              DEF HandleRow, Handles, OthersKeep, Steady, Swept, Sweeping
    <3>2. CASE ~Stale(x)
        BY <1>0, <1>1, <1>7, <3>2 DEF HandleRow, OthersKeep, Steady, Swept, Sweeping
    <3> QED BY <3>1, <3>2
  <2>2. \A r \in Run, u \in Proc : Attends(u, r)' => Attends(u, r)
      BY <2>1 DEF Attends, RunOf, OthersKeep, Steady, Watching
  <2>3. \A z \in todo[p] : z.run \in Run
      BY DEF TypeOK, SnapRow
  <2>4. ASSUME NEW z \in todo'[p]
        PROVE  /\ runs'[z.run].status # "none"
               /\ Touched(z)' => z.age + Sweep <= Silence + lag'[p]
    <3>1. z \in todo[p] /\ z.run \in Run /\ (Touched(z)' => Touched(z))
        BY <2>1, <2>2, <2>3 DEF Touched
    <3> QED BY <1>1, <2>1, <3>1 DEF Swept
  <2>5. ASSUME pc'[p] \in {"kill", "abandon"}
        PROVE  /\ runs'[RunOf(p)'].status \in Active \cup {"abandoned"}
               /\ \A u \in Proc : ~Attends(u, RunOf(p))'
               /\ pc'[p] = "abandon" /\ runs'[RunOf(p)'].pid => ~Alive(RunOf(p))'
    <3>1. Stale(x)
        BY <1>7, <2>1, <2>5 DEF HandleRow
    <3>2. /\ x.run \in Run /\ runs[x.run].status \in Active \cup {"abandoned"}
          /\ \A u \in Proc : ~Attends(u, x.run)
          /\ runs[x.run].pid = x.pid
        BY <2>1, <3>1, StaleIsDead DEF Sweeping
    <3>3. x.run = <<x.run[1], x.run[2]>> /\ cur'[p] = x.run[1] /\ role'[p] = x.run[2]
          /\ pc'[p] = Verdict(x)
        BY <1>0, <1>7, <3>1, <3>2 DEF HandleRow, Handles, Run
    <3>4. RunOf(p)' = x.run
        BY <3>3 DEF RunOf
    <3>5. \A u \in Proc : ~Attends(u, RunOf(p))'
        BY <2>2, <3>2, <3>4 DEF Attends
    <3>6. pc'[p] = "abandon" /\ x.pid => ~Alive(x.run)'
        BY <2>1, <3>3 DEF Verdict, Alive
    <3> QED BY <2>1, <3>2, <3>4, <3>5, <3>6 DEF Alive
  <2>6. Swept(p)'
      BY <2>1, <2>4, <2>5 DEF Swept
  <2> QED BY <1>o, <2>1, <2>6 DEF GivesUp, Alive, InTick, Starting, Watching
<1>8. ASSUME SweepKill(p) PROVE Shape
  <2>1. /\ OthersKeep(p) /\ UNCHANGED <<used, runs, lag, todo, cur, role>>
        /\ pc[p] = "kill" /\ pc'[p] = "abandon" /\ cur[p] \in Ticks
        /\ child' = IF Alive(RunOf(p)) THEN [child EXCEPT ![RunOf(p)] = "killed"] ELSE child
      BY <1>0, <1>8 DEF SweepKill, OthersKeep, Steady, TypeOK
  <2>2. RunOf(p) \in Run /\ RunOf(p)' = RunOf(p)
      BY <2>1, RunOfType DEF RunOf
  <2>3. ~Alive(RunOf(p))' /\ \A r \in Run : Alive(r)' => Alive(r)
      BY <1>0, <2>1, <2>2 DEF Alive
  <2>4. \A r \in Run, u \in Proc : Attends(u, r)' => Attends(u, r)
      BY <2>1 DEF Attends, RunOf, OthersKeep, Steady, Watching
  <2>5. ASSUME NEW z \in todo[p] PROVE Touched(z)' => Touched(z)
    <3>1. z.run \in Run
        BY DEF TypeOK, SnapRow
    <3> QED BY <2>1, <2>4, <3>1 DEF Touched
  <2>6. \A u \in Proc : ~Attends(u, RunOf(p))'
      BY <1>1, <2>1, <2>2, <2>4 DEF Swept, Attends
  <2>7. Swept(p)'
      BY <1>1, <2>1, <2>2, <2>3, <2>5, <2>6 DEF Swept, Sweeping
  <2> QED BY <1>o, <2>1, <2>3, <2>7 DEF GivesUp, InTick, Starting, Watching
<1>9. ASSUME Abandon(p) PROVE Shape
  <2>r. PICK row : row = Row("abandoned", 0, runs[RunOf(p)].pid)
      OBVIOUS
  <2>s. row.status = "abandoned" /\ row.pid = runs[RunOf(p)].pid
      BY <2>r DEF Row
  <2>1. /\ OthersKeep(p) /\ UNCHANGED <<used, child, lag, todo>>
        /\ pc[p] = "abandon" /\ pc'[p] = "rows" /\ cur[p] \in Ticks
        /\ runs' = [runs EXCEPT ![RunOf(p)] = row]
      BY <1>0, <1>9, <2>r DEF Abandon, FinishRun, OthersKeep, Steady, TypeOK, Nothing
  <2>2. RunOf(p) \in Run
      BY <2>1, RunOfType
  <2>3. \A r \in Run : runs'[r] = IF r = RunOf(p) THEN row ELSE runs[r]
      BY <2>1, <2>2 DEF TypeOK
  <2>4. GivesUp
      BY <1>1, <2>1, <2>2, <2>3, <2>s DEF GivesUp, Swept
  <2>5. \A r \in Run, u \in Proc : Attends(u, r)' => Attends(u, r)
      BY <2>1 DEF Attends, RunOf, OthersKeep, Steady, Watching
  <2>6. ASSUME NEW z \in todo[p]
        PROVE  runs'[z.run].status # "none" /\ (Touched(z)' => Touched(z))
    <3>1. z.run \in Run /\ runs[z.run].status # "none"
        BY <1>1 DEF TypeOK, SnapRow, Swept
    <3>2. /\ runs'[z.run].status # "none"
          /\ runs'[z.run].status \in {"succeeded", "failed"} =>
                 runs[z.run].status \in {"succeeded", "failed"}
          /\ runs'[z.run].pid = runs[z.run].pid
        BY <2>3, <2>s, <3>1
    <3> QED BY <2>5, <3>1, <3>2 DEF Touched
  <2>7. Swept(p)'
      BY <1>1, <2>1, <2>6 DEF Swept, Sweeping
  <2> QED BY <1>o, <2>1, <2>4, <2>7 DEF Alive, InTick, Starting, Watching
<1> QED BY <1>3, <1>4, <1>5, <1>6, <1>7, <1>8, <1>9, StepOfSweep DEF Recovers

-----------------------------------------------------------------------------
(* Steps of the environment. *)

(* A row that ages keeps its status and its pid, and ages by one at most.  *)
LEMMA RowsAge ==
    ASSUME TypeOK, LedgerTick, NEW r \in Run
    PROVE  /\ runs'[r].status = runs[r].status
           /\ runs'[r].pid = runs[r].pid
           /\ runs[r].age \in Nat /\ runs'[r].age \in Nat
           /\ runs'[r].age <= runs[r].age + 1
           /\ runs'[r].age >= runs[r].age
           /\ runs[r].status \in Active => runs'[r].age = Older(runs[r].age)
<1>1. runs[r] \in RunRow
    BY DEF TypeOK
<1>2. runs[r].age \in Nat
    BY <1>1, Constants DEF RunRow
<1>3. CASE runs[r].status \in Active
  <2>1. runs'[r] = Row(runs[r].status, Older(runs[r].age), runs[r].pid)
      BY <1>3 DEF LedgerTick
  <2>2. /\ runs'[r].status = runs[r].status /\ runs'[r].pid = runs[r].pid
        /\ runs'[r].age = Older(runs[r].age)
      BY <2>1 DEF Row
  <2> QED BY <1>2, <2>2, Constants DEF Older
<1>4. CASE runs[r].status \notin Active
    BY <1>2, <1>4 DEF LedgerTick
<1> QED BY <1>3, <1>4

(* Rows age no faster than the clocks of those who attend or sweep them.   *)
LEMMA TimeKeepsOrder ==
    ASSUME "stall" \notin Faults, TypeOK, Orderly, ClockTick
    PROVE  Orderly'
<1>0. /\ LedgerTick /\ UNCHANGED <<pc, cur, role, child, used>>
      /\ \A p \in Proc : ~Overdue(p) /\ lag[p] \in Nat
      /\ \A p \in Proc : lag'[p] = IF pc[p] \in Timed THEN lag[p] + 1 ELSE lag[p]
    BY DEF ClockTick, TypeOK
<1>1. Unborn'
    BY <1>0, RowsAge DEF Orderly, Unborn
<1>2. \A r \in Run, u \in Proc : Attends(u, r)' = Attends(u, r)
    BY <1>0 DEF Attends, RunOf
<1>3. ASSUME NEW p \in Proc PROVE Mine(p)'
  <2>1. Mine(p)
      BY DEF Orderly
  <2>2. CASE pc[p] \in InTick
    <3>1. /\ \A k \in Kinds : runs'[<<cur[p], k>>].status = runs[<<cur[p], k>>].status
          /\ RunOf(p) \in Run /\ RunOf(p)' = RunOf(p)
        BY <1>0, <2>2, RowsAge, OwnTypes DEF RunOf
    <3>2. OnlyAttended(p)' /\ ReviewerLast(p)'
        BY <1>0, <2>1, <3>1 DEF Mine, OnlyAttended, ReviewerLast, RowOf, Attends, RunOf, Kinds
    <3>3. InPhase(p)'
        BY <1>0, <2>1, <3>1, RowsAge DEF Mine, InPhase
    <3>4. Recent(p)'
      <4>1. runs[RunOf(p)].age \in Nat /\ runs'[RunOf(p)].age \in Nat
            /\ runs'[RunOf(p)].age <= runs[RunOf(p)].age + 1
          BY <1>0, <3>1, RowsAge
      <4>2. ASSUME pc[p] \in Attending \cup {"setup"}
            PROVE  lag'[p] = lag[p] + 1 /\ lag[p] < Limit(pc[p])
          BY <1>0, <4>2, Constants DEF Attending, Timed, Starting, Watching, Overdue, Limit
      <4>3. pc[p] = "setup" => lag'[p] <= Setup
          BY <1>0, <4>2, Constants DEF Limit, Starting, Sweeping
      <4>4. ASSUME pc[p] \in Attending
            PROVE  runs'[RunOf(p)].age <= lag'[p] /\ lag'[p] <= Stay(pc[p])
        <5>1. Limit(pc[p]) <= Stay(pc[p]) /\ Limit(pc[p]) \in Nat /\ Stay(pc[p]) \in Nat
            BY <4>4, Constants DEF Limit, Stay, Attending, Starting, Watching, Sweeping
        <5> QED BY <1>0, <2>1, <4>1, <4>2, <4>4, <5>1 DEF Mine, Recent
      <4>5. pc[p] = "watch" => lag'[p] <= Heartbeat
          BY <1>0, <4>2, Constants DEF Limit, Starting, Sweeping, Attending, Watching
      <4> QED BY <1>0, <3>1, <4>3, <4>4, <4>5 DEF Recent
    <3> QED BY <3>2, <3>3, <3>4 DEF Mine
  <2>3. CASE pc[p] \notin InTick
      BY <1>0, <2>3 DEF Mine, OnlyAttended, ReviewerLast, InPhase, Recent, InTick, Attending,
         Starting, Watching
  <2> QED BY <2>2, <2>3
<1>4. ASSUME NEW q \in Proc PROVE Swept(q)'
  <2>1. Swept(q)
      BY DEF Orderly
  <2>2. todo[q] # {} => lag'[q] = lag[q] + 1
      BY <1>0, <2>1 DEF Swept, Timed, Sweeping
  <2>3. ASSUME pc[q] \in Sweeping \cup {"poise"} PROVE lag'[q] <= Sweep
    <3>1. Limit(pc[q]) = Sweep /\ pc[q] \in Timed
        BY <2>3 DEF Limit, Timed, Sweeping, Starting
    <3>2. lag[q] \in Nat /\ ~(lag[q] >= Sweep) /\ lag'[q] = lag[q] + 1
        BY <1>0, <3>1 DEF Overdue
    <3> QED BY <3>2, Constants
  <2>4. ASSUME NEW y \in todo'[q]
        PROVE  /\ todo[q] # {} /\ runs'[y.run].status # "none"
               /\ Touched(y)' => y.age + Sweep <= Silence + lag'[q]
    <3>1. PICK x \in todo[q] : y = [x EXCEPT !.age = Older(@)]
        BY <2>4 DEF ClockTick
    <3>2. x \in SnapRow /\ x.run \in Run /\ x.age \in Nat
        BY Constants DEF TypeOK, SnapRow
    <3>3. y.run = x.run /\ y.pid = x.pid /\ y.age <= x.age + 1 /\ y.age \in Nat
        BY <3>1, <3>2, Constants DEF SnapRow, Older
    <3>4. runs'[x.run].status = runs[x.run].status /\ runs'[x.run].pid = runs[x.run].pid
        BY <1>0, <3>2, RowsAge
    <3>5. Touched(y)' => Touched(x)
        BY <1>2, <3>2, <3>3, <3>4 DEF Touched
    <3>6. Touched(y)' => y.age + Sweep <= Silence + lag'[q]
        BY <1>0, <2>1, <2>2, <3>2, <3>3, <3>5, Constants DEF Swept
    <3> QED BY <2>1, <3>3, <3>4, <3>6 DEF Swept
  <2>5. ASSUME pc[q] \in {"kill", "abandon"}
        PROVE  /\ runs'[RunOf(q)].status = runs[RunOf(q)].status
               /\ runs'[RunOf(q)].pid = runs[RunOf(q)].pid
               /\ RunOf(q)' = RunOf(q)
               /\ \A u \in Proc : ~Attends(u, RunOf(q))'
    <3>1. RunOf(q) \in Run /\ RunOf(q)' = RunOf(q)
        BY <1>0, <2>5, RunOfType DEF TypeOK, RunOf
    <3> QED BY <1>0, <1>2, <2>1, <2>5, <3>1, RowsAge DEF Swept, Attends
  <2> QED BY <1>0, <2>1, <2>3, <2>4, <2>5 DEF Swept, Alive
<1> QED BY <1>1, <1>3, <1>4 DEF Orderly

(* What children and their descendants do.                                 *)
Outside(r) == ChildEnds(r) \/ Fork(r) \/ HeirEnds(r)

(* Children that end and machines that restart leave no row attended that  *)
(* was not.                                                                *)
LEMMA EnvironmentSteps ==
    ASSUME TypeOK, Orderly, Reboot \/ (\E r \in Run : Outside(r)) \/ UNCHANGED vars
    PROVE  Orderly'
<1>1. CASE Reboot
  <2>1. /\ \A p \in Proc : pc'[p] \in Out /\ todo'[p] = {}
        /\ UNCHANGED <<runs, used>>
      BY <1>1 DEF Reboot, Dead, Out, ledgerVars
  <2>2. \A p \in Proc : Mine(p)' /\ Swept(p)'
      BY <2>1 DEF Mine, OnlyAttended, ReviewerLast, InPhase, Recent, Swept, InTick, Attending,
         Starting, Watching, Sweeping, Out
  <2>3. Unborn'
      BY <2>1 DEF Orderly, Unborn
  <2> QED BY <2>2, <2>3 DEF Orderly
<1>2. CASE (\E r \in Run : Outside(r)) \/ UNCHANGED vars
  <2>1. /\ UNCHANGED <<runs, pc, cur, role, lag, todo, used>>
        /\ \A r \in Run : Alive(r)' => Alive(r)
      BY <1>2 DEF Outside, ChildEnds, Fork, HeirEnds, vars, ledgerVars, procVars, Alive, TypeOK
  <2>2. ASSUME NEW u \in Proc, pc[u] \in {"watch", "abandon"}
        PROVE  Alive(RunOf(u))' => Alive(RunOf(u))
    <3>1. RunOf(u) \in Run /\ RunOf(u)' = RunOf(u)
        BY <2>1, <2>2, RunOfType DEF TypeOK, RunOf, InTick, Watching
    <3> QED BY <2>1, <3>1 DEF Alive
  <2> QED BY <2>1, <2>2 DEF Orderly, Unborn, Mine, OnlyAttended, ReviewerLast, InPhase, Recent,
             Swept, Touched, Attends, RunOf, RowOf
<1> QED BY <1>1, <1>2

(* Every step of the specification keeps the order.                        *)
LEMMA OrderStep ==
    ASSUME WellTimed, "stall" \notin Faults, TypeOK, OwnTicks, Orderly, [Next]_vars
    PROVE  Orderly'
<1>1. ASSUME NEW p \in Proc,
             \/ StartCoordinator(p) \/ FailEarly(p) \/ Spawn(p) \/ Record(p) \/ Beat(p)
             \/ Renew(p) \/ Ends(p) \/ Terminated(p) \/ StartReview(p) \/ EndVerify(p)
             \/ Release(p) \/ WatchFails(p) \/ StopFails(p) \/ LedgerFails(p)
      PROVE  Orderly'
  <2>1. pc[p] \in InTick
      BY <1>1 DEF StartCoordinator, FailEarly, Spawn, Record, Beat, Renew, Ends, Overrun, Collect,
         OverBudget, Terminated, StartReview, EndVerify, Release, WatchFails, StopFails,
         LedgerFails, At, InTick, Starting, Watching
  <2> QED BY <1>1, <2>1, TickSteps
<1>2. ASSUME NEW p \in Proc,
             \/ StartLoop(p) \/ StartTool(p) \/ StopLoop(p) \/ NextRound(p) \/ Recovers(p)
             \/ NoTickNow(p) \/ Acquire(p)
      PROVE  Orderly'
  <2>1. pc[p] \notin InTick
      BY <1>2 DEF StartLoop, StartTool, StopLoop, NextRound, Recovers, NoTickNow, Acquire,
         ReapLeases, Scan, SweepKill, Abandon, EndRecover, HandleRow, At, InTick, Starting,
         Watching, Out
  <2> QED BY <1>2, <2>1, SweepSteps
<1>3. ASSUME NEW p \in Proc, Crash(p) PROVE Orderly'
    BY <1>3, TickSteps, SweepSteps
<1> QED BY <1>1, <1>2, <1>3, TimeKeepsOrder, EnvironmentSteps DEF Next, Works, TicksOn, Outside

(* Initially there are neither rows nor processes in a tick or a sweep.    *)
LEMMA OrderInit == Init => Orderly
BY DEF Init, Orderly, Unborn, Mine, OnlyAttended, ReviewerLast, InPhase, Recent, Swept, NoRun, Row,
   InTick, Attending, Starting, Watching, Sweeping

(* Hence the order holds, with what is known of types and of the lease.    *)
LEMMA OrderHolds ==
    ASSUME WellTimed, "stall" \notin Faults
    PROVE  Spec => [](TypeOK /\ LeaseInvariant /\ Orderly)
<1>1. TypeOK /\ LeaseInvariant /\ Orderly /\ [Next]_vars => Orderly'
    BY OrderStep DEF LeaseInvariant
<1> QED BY OrderInit, <1>1, TypeCorrect, LeaseCovered, PTL DEF Spec

(* recover abandons no run that a live process still attends, whatever     *)
(* else happens short of a stall: the row of an attended run is active.    *)
THEOREM AbandonedIsUnattended ==
    ASSUME WellTimed, "stall" \notin Faults
    PROVE  Spec => []AbandonedMeansUnattended
<1>1. Orderly => AbandonedMeansUnattended
    BY DEF Orderly, Mine, InPhase, AbandonedMeansUnattended, Attends
<1> QED BY <1>1, OrderHolds, PTL

-----------------------------------------------------------------------------
(* The life of a row. *)

Settles(r) ==
    /\ runs[r].status \in Active \cup {"abandoned"} /\ runs'[r].status \in Terminal
    /\ runs[r].status = "abandoned" => runs'[r].status = "abandoned"
    /\ runs'[r].pid = runs[r].pid
    /\ UNCHANGED child
    /\ "io" \in Faults \/ runs[r].pid = FALSE \/ ~Alive(r)
Fate(r) ==
    \/ /\ runs'[r] = runs[r]
       /\ Alive(r)' => Alive(r) \/ (runs[r].status = "starting" /\ runs[r].pid = FALSE)
    \/ ClockTick
    \/ /\ runs[r].status = "none" /\ runs'[r].status = "starting" /\ runs'[r].pid = FALSE
       /\ UNCHANGED child
    \/ \E p \in Proc : /\ Record(p) \/ Beat(p)
                       /\ r = RunOf(p) /\ runs[r].status \in Active
                       /\ runs'[r].status \in Active /\ UNCHANGED child
    \/ Settles(r)

(* A tick that fails settles a run without a child, or one whose child has *)
(* ended; only an error of its log leaves one behind.                      *)
LEMMA FailedTickFate ==
    ASSUME TypeOK, Orderly, NEW p \in Proc, pc[p] \in InTick \ {"leave"}, FailsRows(p),
           UNCHANGED child, "io" \in Faults \/ pc[p] \notin Watching \/ ~Alive(RunOf(p)),
           NEW r \in Run
    PROVE  Fate(r)
<1>1. Mine(p)
    BY DEF Orderly
<1>2. CASE runs'[r] = runs[r]
    BY <1>2 DEF Fate, Alive
<1>3. CASE runs'[r] # runs[r]
  <2>1. /\ r \in {RunOf(p), <<cur[p], "coordinator">>} /\ runs[r].status \in Active
        /\ runs'[r] = Row("failed", 0, runs[r].pid)
      BY <1>3 DEF FailsRows, FailTick, FailActiveRuns
  <2>2. runs'[r].status = "failed" /\ runs'[r].pid = runs[r].pid
      BY <2>1 DEF Row
  <2>3. Attends(p, r)
      BY <1>1, <2>1, OwnTypes DEF Mine, OnlyAttended, RowOf, Kinds, RunOf
  <2>4. runs[r].pid = FALSE \/ pc[p] \in Watching
      BY <1>1, <2>3 DEF Mine, InPhase, Attends
  <2> QED BY <2>1, <2>2, <2>3, <2>4 DEF Fate, Settles, Active, Terminal, Attends
<1> QED BY <1>2, <1>3

(* Every step gives every row one of these fates.                          *)
LEMMA Fates ==
    ASSUME TypeOK, Orderly, [Next]_vars, NEW r \in Run
    PROVE  Fate(r)
<1>0. /\ child \in [Run -> ChildState]
      /\ runs \in [Run -> RunRow]
      /\ \A p \in Proc : Mine(p) /\ Swept(p)
    BY DEF TypeOK, Orderly
<1> USE DEF At, Goto, GotoFresh, ledgerVars, procVars
<1>1. ASSUME UNCHANGED runs, UNCHANGED child \/ Reboot \/ \E x \in Run : Outside(x)
      PROVE  Fate(r)
    BY <1>0, <1>1 DEF Fate, Alive, Reboot, Outside, ChildEnds, Fork, HeirEnds
<1>2. ASSUME NEW p \in Proc,
             \/ StartLoop(p) \/ StartTool(p) \/ StopLoop(p) \/ NextRound(p) \/ Crash(p)
             \/ ReapLeases(p) \/ Scan(p) \/ EndRecover(p) \/ NoTickNow(p) \/ Acquire(p)
             \/ (\E x \in todo[p] : HandleRow(p, x)) \/ Renew(p) \/ Overrun(p) \/ Release(p)
             \/ LedgerFails(p) \/ (EndVerify(p) /\ UNCHANGED runs)
      PROVE  Fate(r)
  <2>1. UNCHANGED <<runs, child>>
      BY <1>2 DEF StartLoop, StartTool, StopLoop, NextRound, Crash, Dies, ReapLeases, Scan,
         EndRecover, NoTickNow, Acquire, HandleRow, Renew, Overrun, Release, LedgerFails, EndVerify
  <2> QED BY <2>1, <1>1
<1>3. ASSUME NEW p \in Proc, SweepKill(p) \/ Terminated(p) PROVE Fate(r)
  <2>1. UNCHANGED runs /\ (Alive(r)' => Alive(r))
      BY <1>0, <1>3 DEF SweepKill, Terminated, Alive
  <2> QED BY <2>1 DEF Fate
<1>4. ASSUME NEW p \in Proc, Spawn(p) PROVE Fate(r)
  <2>1. pc[p] = "launch" /\ UNCHANGED runs /\ child' = [child EXCEPT ![RunOf(p)] = "alive"]
      BY <1>4 DEF Spawn
  <2>2. runs[RunOf(p)].status = "starting" /\ runs[RunOf(p)].pid = FALSE
      BY <1>0, <2>1 DEF Mine, InPhase
  <2> QED BY <1>0, <2>1, <2>2 DEF Fate, Alive
<1>5. ASSUME NEW p \in Proc,
             \/ FailEarly(p) \/ OverBudget(p) \/ WatchFails(p) \/ StopFails(p)
             \/ EndVerify(p) /\ FailTick(p)
      PROVE  Fate(r)
  <2>1. /\ pc[p] \in InTick \ {"leave"} /\ FailsRows(p) /\ UNCHANGED child
        /\ "io" \in Faults \/ pc[p] \notin Watching \/ ~Alive(RunOf(p))
      BY <1>5 DEF FailEarly, OverBudget, OutputEnds, WatchFails, StopFails, EndVerify, FailsRows,
         InTick, Starting, Watching
  <2> QED BY <2>1, FailedTickFate
<1>6. ASSUME NEW p \in Proc, StartCoordinator(p) \/ StartReview(p) PROVE Fate(r)
  <2>r. PICK row : row = Row("starting", 0, FALSE)
      OBVIOUS
  <2>s. row.status = "starting" /\ row.pid = FALSE
      BY <2>r DEF Row
  <2>1. pc[p] \in {"setup", "verify"} /\ UNCHANGED child /\ role[p] = "coordinator"
      BY <1>0, <1>6 DEF StartCoordinator, StartReview, Mine, ReviewerLast
  <2>2. PICK k \in Kinds : /\ runs' = [runs EXCEPT ![<<cur[p], k>>] = row]
                           /\ runs[<<cur[p], k>>].status = "none"
    <3>1. CASE StartCoordinator(p)
        BY <1>0, <2>1, <2>r, <3>1 DEF StartCoordinator, StartRun, Mine, ReviewerLast, RowOf, RunOf,
           Kinds
    <3>2. CASE StartReview(p)
      <4>1. pc[p] = "verify"
          BY <3>2 DEF StartReview
      <4> QED BY <1>0, <2>1, <2>r, <3>2, <4>1 DEF StartReview, StartRun, Mine, ReviewerLast, RowOf,
                 Kinds, InTick
    <3> QED BY <1>6, <3>1, <3>2
  <2> QED BY <1>0, <2>1, <2>2, <2>s DEF Fate, Alive
<1>7. ASSUME NEW p \in Proc, Record(p) \/ Beat(p) PROVE Fate(r)
  <2>r. PICK row : row = Row("running", 0, TRUE)
      OBVIOUS
  <2>s. row.status = "running"
      BY <2>r DEF Row
  <2>1. /\ pc[p] \in {"spawned", "watch"} /\ UNCHANGED child
        /\ runs' = [runs EXCEPT ![RunOf(p)] = row]
        /\ runs[RunOf(p)].status \in Active
      BY <1>0, <1>7, <2>r DEF Record, Beat, SetRunRunning, HeartbeatRun, Mine, InPhase, Active,
         Watching
  <2> QED BY <1>0, <1>7, <2>1, <2>s DEF Fate, Alive, Active
<1>8. ASSUME NEW p \in Proc, Collect(p) PROVE Fate(r)
  <2>1. PICK s \in {"succeeded", "failed"} : FinishRun(RunOf(p), s)
      BY <1>8 DEF Collect
  <2>r. PICK row : row = Row(s, 0, runs[RunOf(p)].pid)
      OBVIOUS
  <2>s. row.status = s /\ row.pid = runs[RunOf(p)].pid
      BY <2>r DEF Row
  <2>2. /\ pc[p] = "watch" /\ UNCHANGED child /\ ~Alive(RunOf(p))
        /\ runs' = [runs EXCEPT ![RunOf(p)] = row]
        /\ runs[RunOf(p)].status = "running"
      BY <1>0, <1>8, <2>1, <2>r DEF Collect, OutputEnds, FinishRun, Mine, InPhase, Watching
  <2> QED BY <1>0, <2>2, <2>s DEF Fate, Settles, Alive, Active, Terminal
<1>9. ASSUME NEW p \in Proc, Abandon(p) PROVE Fate(r)
  <2>r. PICK row : row = Row("abandoned", 0, runs[RunOf(p)].pid)
      OBVIOUS
  <2>s. row.status = "abandoned" /\ row.pid = runs[RunOf(p)].pid
      BY <2>r DEF Row
  <2>1. /\ pc[p] = "abandon" /\ UNCHANGED child
        /\ runs' = [runs EXCEPT ![RunOf(p)] = row]
      BY <1>9, <2>r DEF Abandon, FinishRun
  <2>2. /\ runs[RunOf(p)].status \in Active \cup {"abandoned"}
        /\ runs[RunOf(p)].pid => ~Alive(RunOf(p))
      BY <1>0, <2>1 DEF Swept
  <2>3. CASE r = RunOf(p)
    <3>1. runs'[r] = row
        BY <1>0, <2>1, <2>3
    <3>2. runs[r].pid \in BOOLEAN
        BY <1>0 DEF RunRow
    <3>3. runs[r].pid = FALSE \/ ~Alive(r)
        BY <2>2, <2>3, <3>2
    <3>4. Settles(r)
        BY <2>1, <2>2, <2>3, <2>s, <3>1, <3>3 DEF Settles, Terminal
    <3> QED BY <3>4 DEF Fate
  <2>4. CASE r # RunOf(p)
      BY <1>0, <2>1, <2>4 DEF Fate, Alive
  <2> QED BY <2>3, <2>4
<1>10. CASE ClockTick
    BY <1>10 DEF Fate
<1>11. CASE Reboot \/ (\E x \in Run : Outside(x)) \/ UNCHANGED vars
  <2>1. UNCHANGED runs /\ (UNCHANGED child \/ Reboot \/ \E x \in Run : Outside(x))
      BY <1>11 DEF Reboot, Outside, ChildEnds, Fork, HeirEnds, vars
  <2> QED BY <2>1, <1>1
<1>12. ASSUME NEW p \in Proc, EndVerify(p) PROVE Fate(r)
    BY <1>2, <1>5, <1>12 DEF EndVerify
<1> QED BY <1>2, <1>3, <1>4, <1>5, <1>6, <1>7, <1>8, <1>9, <1>10, <1>11, <1>12
        DEF Next, Works, TicksOn, Recovers, Ends, Outside

(* The outcome of a run is written once: nobody overwrites the status that *)
(* recover, a tick or its failure gave it, unless the machine stalls.      *)
THEOREM OutcomeIsFinal ==
    ASSUME WellTimed, "stall" \notin Faults
    PROVE  Spec => TerminalRunStable
<1> DEFINE Stays == \A r \in Run : runs[r].status \in Terminal => runs'[r].status = runs[r].status
<1>1. TypeOK /\ Orderly /\ [Next]_vars => [Stays]_vars
  <2> SUFFICES ASSUME TypeOK, Orderly, [Next]_vars, NEW r \in Run, runs[r].status \in Terminal
               PROVE  runs'[r].status = runs[r].status
      OBVIOUS
  <2>1. Fate(r)
      BY Fates
  <2>2. ClockTick => runs'[r].status = runs[r].status
      BY RowsAge DEF ClockTick
  <2> QED BY <2>1, <2>2 DEF Fate, Settles, Active, Terminal
<1> QED BY <1>1, OrderHolds, PTL DEF Spec, TerminalRunStable

(* A run that is over has no child left: unless its log fails under its    *)
(* supervisor, every way to settle it comes after the end of the child.    *)
THEOREM NoChildSurvives ==
    ASSUME WellTimed, Faults \cap {"io", "stall"} = {}
    PROVE  Spec => []NoChildOutlivesItsRun
<1>0. "stall" \notin Faults /\ "io" \notin Faults
    OBVIOUS
<1>1. Init => NoChildOutlivesItsRun
    BY DEF Init, NoChildOutlivesItsRun, NoRun, Row, Terminal
<1>2. TypeOK /\ Orderly /\ NoChildOutlivesItsRun /\ [Next]_vars => NoChildOutlivesItsRun'
  <2> SUFFICES ASSUME TypeOK, Orderly, NoChildOutlivesItsRun, [Next]_vars,
                      NEW r \in Run, runs'[r].status \in Terminal, runs'[r].pid
               PROVE  ~Alive(r)'
      BY DEF NoChildOutlivesItsRun
  <2>1. Fate(r)
      BY Fates
  <2>2. ClockTick => /\ runs'[r].status = runs[r].status /\ runs'[r].pid = runs[r].pid
                     /\ UNCHANGED child
      BY RowsAge DEF ClockTick
  <2> QED BY <2>1, <2>2 DEF Fate, Settles, Active, Terminal, NoChildOutlivesItsRun, Alive
<1> QED BY <1>0, <1>1, <1>2, OrderHolds, PTL DEF Spec

-----------------------------------------------------------------------------
(* A loop and the coordinators that others left behind. *)

First(t) == <<t, "coordinator">>
Threat(t) == runs[First(t)].pid = TRUE /\ Alive(First(t))

(* A recorded coordinator that is alive is known to the sweep by its age,  *)
(* or to acquire_lease by the lease that its tick still has.               *)
Guarded(t) == \/ runs[First(t)].age > Silence
              \/ /\ lease.owner = t
                 /\ runs[First(t)].age + lease.ttl + Setup + Heartbeat >= Lease
Aging == \A t \in Ticks : Threat(t) => Guarded(t)

(* A loop past its SELECT is going to kill it, or cannot acquire the lease *)
(* before recover and all that follows must be over.                       *)
Held(p, t) == lease.owner = t /\ lease.ttl + lag[p] > Sweep
Met(p, t) == \/ pc[p] = "kill" /\ RunOf(p) = First(t)
             \/ \E x \in todo[p] : x.run = First(t) /\ Stale(x)
             \/ Held(p, t)
PastSelect == {"rows", "kill", "abandon", "poise"}
Launches(p) == pc[p] \in {"setup", "launch"} /\ role[p] = "coordinator"
Alone == \A p \in Loops, t \in Ticks : Threat(t) =>
    /\ pc[p] \in PastSelect => Met(p, t)
    /\ Launches(p) => t = cur[p]

(* Such a coordinator became one by being recorded, and its row is active. *)
LEMMA ThreatFate ==
    ASSUME "io" \notin Faults, TypeOK, Orderly, NoChildOutlivesItsRun', [Next]_vars,
           NEW t \in Ticks, Threat(t)'
    PROVE  \/ /\ Threat(t)
              /\ \/ runs'[First(t)] = runs[First(t)]
                 \/ ClockTick
                 \/ \E p \in Proc : Beat(p) /\ RunOf(p) = First(t)
           \/ \E p \in Proc : Record(p) /\ RunOf(p) = First(t)
<1>1. First(t) \in Run /\ runs'[First(t)].pid = TRUE /\ Alive(First(t))'
    BY DEF First, Run, Threat
<1>2. Fate(First(t))
    BY <1>1, Fates
<1>3. CASE ClockTick
    BY <1>1, <1>3, RowsAge DEF ClockTick, Threat, Alive, First
<1>4. ASSUME NEW p \in Proc, Beat(p), RunOf(p) = First(t), UNCHANGED child PROVE Threat(t)
  <2>1. runs[RunOf(p)].pid = TRUE
      BY <1>4 DEF Orderly, Mine, InPhase, Beat, At, Watching
  <2> QED BY <1>1, <1>4, <2>1 DEF Threat, Alive, First
<1>5. ASSUME Settles(First(t)) PROVE FALSE
    BY <1>1, <1>5 DEF Settles, NoChildOutlivesItsRun
<1> QED BY <1>1, <1>2, <1>3, <1>4, <1>5 DEF Fate, Threat, Alive, First

(* Its row is active, for a run that is over has no child.                 *)
LEMMA ThreatActive ==
    ASSUME TypeOK, Orderly, NoChildOutlivesItsRun, NEW t \in Ticks, Threat(t)
    PROVE  /\ First(t) \in Run /\ runs[First(t)].status \in Active
           /\ runs[First(t)].age \in Nat
           /\ lease.ttl \in Nat /\ lease.ttl <= Lease
<1>1. First(t) \in Run
    BY DEF First, Run
<1>2. runs[First(t)] \in RunRow /\ lease \in LeaseRow
    BY <1>1 DEF TypeOK
<1>3. runs[First(t)].status \notin Terminal \cup {"none"}
    BY <1>1 DEF Threat, NoChildOutlivesItsRun, Orderly, Unborn
<1> QED BY <1>1, <1>2, <1>3, Constants DEF RunRow, LeaseRow

(* What a step may do to the lease.                                        *)
LEMMA LeaseFate ==
    ASSUME "db" \notin Faults, TypeOK, [Next]_vars
    PROVE  \/ UNCHANGED lease
           \/ ClockTick
           \/ \E q \in Proc : Renew(q) \/ Release(q) \/ ReapLeases(q) \/ Acquire(q)
<1> USE DEF ledgerVars
<1>1. ASSUME NEW p \in Proc,
             \/ StartLoop(p) \/ StartTool(p) \/ StopLoop(p) \/ NextRound(p) \/ Crash(p)
             \/ Scan(p) \/ EndRecover(p) \/ NoTickNow(p) \/ SweepKill(p) \/ Abandon(p)
             \/ (\E x \in todo[p] : HandleRow(p, x)) \/ Overrun(p) \/ Collect(p) \/ OverBudget(p)
             \/ EndVerify(p) \/ StartCoordinator(p) \/ FailEarly(p) \/ Spawn(p) \/ Record(p)
             \/ Beat(p) \/ Terminated(p) \/ StartReview(p) \/ WatchFails(p) \/ StopFails(p)
      PROVE  UNCHANGED lease
    BY <1>1 DEF StartLoop, StartTool, StopLoop, NextRound, Crash, Scan, EndRecover, NoTickNow,
       SweepKill, Abandon, HandleRow, Overrun, Collect, OverBudget, EndVerify, StartCoordinator,
       FailEarly, Spawn, Record, Beat, Terminated, StartReview, WatchFails, StopFails
<1>2. ASSUME NEW p \in Proc, LedgerFails(p) PROVE FALSE
    BY <1>2 DEF LedgerFails
<1>3. ASSUME Reboot \/ (\E r \in Run : Outside(r)) \/ UNCHANGED vars PROVE UNCHANGED lease
    BY <1>3 DEF Reboot, Outside, ChildEnds, Fork, HeirEnds, vars
<1> QED BY <1>1, <1>2, <1>3 DEF Next, Works, TicksOn, Recovers, Ends, Outside

(* While a recorded coordinator is alive its lease, still valid, stays.    *)
LEMMA LeaseStays ==
    ASSUME "db" \notin Faults, TypeOK, Orderly, NoChildOutlivesItsRun, [Next]_vars, ~ClockTick,
           NEW t \in Ticks, Threat(t), lease.owner = t
    PROVE  \/ lease'.owner = t /\ lease'.ttl >= lease.ttl
           \/ lease.ttl = 0
<1>0. lease \in LeaseRow /\ lease.ttl \in Nat /\ lease.ttl <= Lease
    BY ThreatActive DEF TypeOK
<1>1. ASSUME UNCHANGED lease PROVE lease'.owner = t /\ lease'.ttl >= lease.ttl
    BY <1>0, <1>1
<1>2. ASSUME NEW q \in Proc, Renew(q) PROVE lease'.owner = t /\ lease'.ttl >= lease.ttl
    BY <1>0, <1>2, Constants DEF Renew, RenewLease, LeaseRow
<1>3. ASSUME NEW q \in Proc, Release(q) PROVE lease'.owner = t /\ lease'.ttl >= lease.ttl
  <2>1. pc[q] = "leave" /\ ReleaseLease(cur[q])
      BY <1>3 DEF Release, At
  <2>2. cur[q] # t
    <3>1. SUFFICES ASSUME cur[q] = t PROVE FALSE
        OBVIOUS
    <3>2. runs[<<cur[q], "coordinator">>].status \in Active
        BY <3>1, ThreatActive DEF First
    <3>3. Attends(q, <<cur[q], "coordinator">>)
        BY <2>1, <3>2 DEF Orderly, Mine, OnlyAttended, RowOf, Kinds, InTick
    <3> QED BY <2>1, <3>3 DEF Attends, Watching
  <2> QED BY <1>0, <2>1, <2>2 DEF ReleaseLease
<1>4. ASSUME NEW q \in Proc, ReapLeases(q) \/ Acquire(q)
      PROVE  UNCHANGED lease \/ lease.ttl = 0
  <2>1. CASE ReapLeases(q)
      BY <2>1 DEF ReapLeases, ReapExpiredLeases
  <2>2. CASE Acquire(q)
    <3>1. ~LeaseBusy
        BY <2>2 DEF Acquire, AcquireLease
    <3> QED BY <1>0, <3>1 DEF LeaseBusy
  <2> QED BY <1>4, <2>1, <2>2
<1> QED BY <1>1, <1>2, <1>3, <1>4, LeaseFate

(* Who records or beats holds a lease that covers what it has spent.       *)
LEMMA AttendedIsCovered ==
    ASSUME TypeOK, LeaseInvariant, Orderly, NEW t \in Ticks, NEW p \in Proc,
           Record(p) \/ Beat(p), RunOf(p) = First(t)
    PROVE  /\ InCoordinator(p) /\ cur[p] = t /\ lease.owner = t /\ UNCHANGED lease
           /\ lease.ttl \in Nat /\ lag[p] \in Nat
           /\ runs'[First(t)].age = 0
           /\ Record(p) => lease.ttl + Setup >= Lease
           /\ Beat(p) /\ Alive(First(t)) => lease.ttl + Setup + Heartbeat >= Lease
<1>r. PICK row : row = Row("running", 0, TRUE)
    OBVIOUS
<1>s. row.age = 0
    BY <1>r DEF Row
<1>1. /\ pc[p] \in {"spawned", "watch"} /\ role[p] = "coordinator" /\ cur[p] = t
      /\ Record(p) => pc[p] = "spawned"
      /\ Beat(p) => pc[p] = "watch"
      /\ UNCHANGED lease
    BY DEF Record, Beat, At, RunOf, First
<1>2. InCoordinator(p) /\ Mine(p)
    BY <1>1 DEF InCoordinator, Starting, Watching, Orderly
<1>3. Covered(p) /\ lag[p] \in Nat /\ lease.ttl \in Nat
    BY <1>2, Constants DEF LeaseInvariant, LeaseCoversLag, Covered, TypeOK, LeaseRow
<1>4. runs'[First(t)] = row
  <2>1. First(t) \in Run /\ runs \in [Run -> RunRow]
      BY DEF First, Run, TypeOK
  <2>2. runs' = [runs EXCEPT ![First(t)] = row]
      BY <1>1, <1>2, <1>r DEF Record, Beat, SetRunRunning, HeartbeatRun, Mine, InPhase, Active,
         Watching
  <2> QED BY <2>1, <2>2
<1>5. Record(p) => lease.ttl + Setup >= Lease
    BY <1>1, <1>3, Constants DEF Covered, Spent, Stay, Starting
<1>6. Beat(p) /\ Alive(First(t)) => lease.ttl + Setup + Heartbeat >= Lease
    BY <1>1, <1>2, <1>3, Constants DEF Covered, Spent, Starting, Mine, Recent
<1> QED BY <1>1, <1>2, <1>3, <1>4, <1>5, <1>6, <1>s DEF Covered

(* Nothing but the end of its tick takes its lease before it is silent.    *)
LEMMA AgingStep ==
    ASSUME WellTimed, Faults \cap {"io", "db", "stall"} = {}, TypeOK, LeaseInvariant, Orderly,
           NoChildOutlivesItsRun, NoChildOutlivesItsRun', Aging, [Next]_vars
    PROVE  Aging'
<1> SUFFICES ASSUME NEW t \in Ticks, Threat(t)' PROVE Guarded(t)'
    BY DEF Aging
<1>f. "io" \notin Faults /\ "db" \notin Faults
    OBVIOUS
<1>1. ASSUME NEW p \in Proc, Record(p) \/ Beat(p), RunOf(p) = First(t),
             Record(p) \/ Alive(First(t))
      PROVE  Guarded(t)'
  <2>1. /\ lease'.owner = t /\ lease'.ttl = lease.ttl /\ runs'[First(t)].age = 0
        /\ lease.ttl \in Nat /\ lease.ttl + Setup + Heartbeat >= Lease
      BY <1>1, AttendedIsCovered, Constants
  <2> QED BY <2>1, Constants DEF Guarded, First
<1>2. ASSUME Threat(t), runs'[First(t)] = runs[First(t)], ~ClockTick PROVE Guarded(t)'
  <2>1. runs[First(t)].age \in Nat /\ lease.ttl \in Nat /\ Guarded(t)
      BY <1>2, ThreatActive DEF Aging
  <2>2. CASE runs[First(t)].age > Silence
      BY <1>2, <2>2 DEF Guarded, First
  <2>3. CASE lease.owner = t /\ runs[First(t)].age <= Silence
    <3>1. lease.ttl # 0 /\ runs[First(t)].age + lease.ttl + Setup + Heartbeat >= Lease
        BY <2>1, <2>3, Constants DEF Guarded, WellTimed
    <3>2. lease'.owner = t /\ lease'.ttl >= lease.ttl
        BY <1>f, <1>2, <2>3, <3>1, LeaseStays
    <3>3. lease'.ttl \in Nat
      <4>1. lease' \in LeaseRow
          BY <1>f, <1>2, LeaseFate, LeaseTypes DEF LeaseOK, TypeOK, Renew, Release, ReapLeases, Acquire
      <4> QED BY <4>1, Constants DEF LeaseRow
    <3> QED BY <1>2, <2>1, <3>1, <3>2, <3>3, Constants DEF Guarded, First
  <2> QED BY <2>1, <2>2, <2>3, Constants DEF Guarded
<1>3. ASSUME Threat(t), ClockTick PROVE Guarded(t)'
  <2>1. /\ runs[First(t)].age \in Nat /\ lease.ttl \in Nat /\ Guarded(t)
        /\ runs'[First(t)].age = Older(runs[First(t)].age)
      BY <1>3, ThreatActive, RowsAge DEF Aging, ClockTick
  <2>2. /\ lease'.owner = lease.owner
        /\ lease'.ttl = IF lease.ttl = 0 THEN 0 ELSE lease.ttl - 1
      BY <1>3 DEF ClockTick, LedgerTick, TypeOK, LeaseRow
  <2> QED BY <2>1, <2>2, Constants DEF Guarded, Older, First
<1> QED BY <1>f, <1>1, <1>2, <1>3, ThreatFate DEF Threat

(* Where a loop past its SELECT comes from.                                *)
LEMMA Places ==
    ASSUME TypeOK, [Next]_vars, ~ClockTick, NEW p \in Loops,
           pc'[p] \in PastSelect \/ Launches(p)'
    PROVE  \/ Steady(p) /\ todo'[p] = todo[p]
           \/ Scan(p) \/ (\E x \in todo[p] : HandleRow(p, x)) \/ SweepKill(p) \/ Abandon(p)
           \/ EndRecover(p) \/ Acquire(p) \/ StartCoordinator(p)
<1>0. /\ p \in Proc /\ pc \in [Proc -> PC] /\ cur \in [Proc -> Ticks \cup {NoTick}]
      /\ role \in [Proc -> {"coordinator", "reviewer"}] /\ lag \in [Proc -> Nat]
      /\ todo \in [Proc -> SUBSET SnapRow]
    BY DEF TypeOK, Proc
<1> DEFINE Same(q) == Steady(q) /\ todo'[q] = todo[q]
<1> USE <1>0 DEF At, Goto, GotoFresh, ledgerVars, procVars, Steady, Nothing, Handles, Dies
<1>1. ASSUME NEW q \in Proc, q # p,
             \/ StartLoop(q) \/ StartTool(q) \/ StopLoop(q) \/ NextRound(q) \/ Crash(q)
             \/ ReapLeases(q) \/ Scan(q) \/ EndRecover(q) \/ NoTickNow(q) \/ SweepKill(q)
             \/ Abandon(q) \/ (\E x \in todo[q] : HandleRow(q, x)) \/ Acquire(q)
      PROVE  Same(p)
    BY <1>1 DEF StartLoop, StartTool, StopLoop, NextRound, Crash, ReapLeases, Scan, EndRecover,
       NoTickNow, SweepKill, Abandon, HandleRow, Acquire
<1>2. ASSUME NEW q \in Proc, q # p,
             \/ Overrun(q) \/ Collect(q) \/ OverBudget(q) \/ EndVerify(q) \/ StartCoordinator(q)
             \/ FailEarly(q) \/ Spawn(q) \/ Record(q) \/ Beat(q) \/ Terminated(q)
             \/ StartReview(q) \/ WatchFails(q) \/ StopFails(q) \/ Renew(q) \/ Release(q)
             \/ LedgerFails(q)
      PROVE  Same(p)
    BY <1>2 DEF Overrun, Collect, OverBudget, EndVerify, StartCoordinator, FailEarly, Spawn, Record,
       Beat, Terminated, StartReview, WatchFails, StopFails, Renew, Release, LedgerFails
<1>3. ASSUME \/ StartLoop(p) \/ StartTool(p) \/ StopLoop(p) \/ NextRound(p) \/ Crash(p)
             \/ ReapLeases(p) \/ NoTickNow(p) \/ Overrun(p) \/ Collect(p) \/ OverBudget(p)
             \/ EndVerify(p) \/ FailEarly(p) \/ Spawn(p) \/ Record(p) \/ Beat(p)
             \/ Terminated(p) \/ StartReview(p) \/ WatchFails(p) \/ StopFails(p) \/ Renew(p)
             \/ Release(p) \/ LedgerFails(p)
      PROVE  FALSE
  <2>0. p \notin Tools
      BY ProcAssumption
  <2>1. \/ pc'[p] \in {"off", "down", "reap", "wait", "scan", "stop", "verify", "leave", "spawned",
                      "watch", "renew"}
        \/ pc'[p] = "launch" /\ role'[p] = "reviewer"
      BY <1>3, <2>0 DEF StartLoop, StartTool, StopLoop, NextRound, Crash, ReapLeases, NoTickNow,
         Overrun, Collect, OverBudget, EndVerify, FailEarly, Spawn, Record, Beat, Terminated,
         StartReview, WatchFails, StopFails, Renew, Release, LedgerFails, Idle, Dead
  <2> QED BY <2>1 DEF PastSelect, Launches
<1>4. ASSUME Reboot PROVE FALSE
    BY <1>4 DEF Reboot, Dead, PastSelect, Launches
<1>5. ASSUME (\E r \in Run : Outside(r)) \/ UNCHANGED vars PROVE Same(p)
    BY <1>5 DEF Outside, ChildEnds, Fork, HeirEnds, vars
<1> QED BY <1>1, <1>2, <1>3, <1>4, <1>5 DEF Next, Works, TicksOn, Recovers, Ends, Outside

(* Every step keeps such a coordinator within reach of the loop's sweep,   *)
(* or keeps the loop from the lease.                                       *)
LEMMA AloneStep ==
    ASSUME WellTimed, Faults \cap {"io", "db", "stall"} = {}, TypeOK, LeaseInvariant, Orderly,
           NoChildOutlivesItsRun, NoChildOutlivesItsRun', Aging, Alone, [Next]_vars
    PROVE  Alone'
<1>f. "io" \notin Faults /\ "db" \notin Faults /\ "stall" \notin Faults
    OBVIOUS
<1> SUFFICES ASSUME NEW p \in Loops, NEW t \in Ticks, Threat(t)',
                    pc'[p] \in PastSelect \/ Launches(p)'
             PROVE  /\ pc'[p] \in PastSelect => Met(p, t)'
                    /\ Launches(p)' => t = cur'[p]
    BY DEF Alone
<1>0. /\ p \in Proc /\ Mine(p) /\ Swept(p)
      /\ lag[p] \in Nat /\ lease.ttl \in Nat
      /\ pc[p] \in PC
    BY Constants DEF Proc, Orderly, TypeOK, LeaseRow
<1>1. ASSUME NEW q \in Proc, Record(q), RunOf(q) = First(t)
      PROVE  /\ pc'[p] \in PastSelect => Met(p, t)'
             /\ Launches(p)' => t = cur'[p]
  <2>1. /\ InCoordinator(q) /\ cur[q] = t /\ lease.owner = t /\ UNCHANGED lease
        /\ lease.ttl + Setup >= Lease
      BY <1>1, AttendedIsCovered
  <2>2. CASE p = q
    <3>1. pc'[p] = "watch"
        BY <1>0, <1>1, <2>2 DEF Record, GotoFresh, TypeOK
    <3> QED BY <3>1 DEF PastSelect, Launches
  <2>3. CASE p # q
    <3>1. Steady(p)
        BY <1>0, <1>1, <2>3 DEF Record, GotoFresh, Steady, TypeOK
    <3>2. Held(p, t)'
        BY <1>0, <2>1, <3>1, Constants DEF Held, Steady, WellTimed
    <3>3. ASSUME Launches(p)' PROVE t = cur'[p]
      <4>1. InCoordinator(p)
          BY <3>1, <3>3 DEF Launches, Steady, InCoordinator, Starting
      <4> QED BY <1>0, <2>1, <3>1, <4>1 DEF LeaseInvariant, LeaseCoversLag, Steady
    <3> QED BY <3>2, <3>3 DEF Met
  <2> QED BY <2>2, <2>3
<1>2. ASSUME Threat(t), ClockTick
      PROVE  /\ pc'[p] \in PastSelect => Met(p, t)'
             /\ Launches(p)' => t = cur'[p]
  <2>1. /\ UNCHANGED <<pc, cur, role>> /\ RunOf(p)' = RunOf(p)
        /\ lease'.owner = lease.owner
        /\ lease'.ttl = IF lease.ttl = 0 THEN 0 ELSE lease.ttl - 1
        /\ todo'[p] = {[x EXCEPT !.age = Older(@)] : x \in todo[p]}
      BY <1>0, <1>2 DEF ClockTick, LedgerTick, TypeOK, LeaseRow, RunOf
  <2>2. ASSUME pc[p] \in PastSelect PROVE Met(p, t)'
    <3>1. lag'[p] = lag[p] + 1 /\ lag[p] <= Sweep
        BY <1>f, <1>0, <1>2, <2>2 DEF ClockTick, PastSelect, Timed, Sweeping, Swept
    <3>2. Met(p, t)
        BY <1>2, <2>2 DEF Alone
    <3>3. ASSUME Held(p, t) PROVE Held(p, t)'
        BY <1>0, <2>1, <3>1, <3>3, Constants DEF Held
    <3>4. ASSUME NEW x \in todo[p], x.run = First(t), Stale(x)
          PROVE  \E y \in todo'[p] : y.run = First(t) /\ Stale(y)
      <4>1. x \in SnapRow /\ x.age \in Nat /\ x.age > Silence
          BY <3>4, Constants DEF TypeOK, SnapRow, Stale, Proc
      <4>2. PICK y : y = [x EXCEPT !.age = Older(@)]
          OBVIOUS
      <4>3. y.run = x.run /\ y.age > Silence
          BY <4>1, <4>2, Constants DEF SnapRow, Older
      <4> QED BY <2>1, <3>4, <4>2, <4>3 DEF Stale
    <3> QED BY <2>1, <3>2, <3>3, <3>4 DEF Met, First, Stale
  <2>3. Launches(p)' => t = cur'[p]
      BY <1>2, <2>1 DEF Alone, Launches
  <2> QED BY <2>1, <2>2, <2>3
(* What keeps the loop from the lease stays. *)
<1>3. ASSUME Threat(t), ~ClockTick, Held(p, t), pc[p] \in PastSelect, lag'[p] = lag[p]
      PROVE  Held(p, t)'
  <2>1. lag[p] <= Sweep
      BY <1>0, <1>3 DEF Swept, PastSelect, Sweeping
  <2>2. lease.ttl # 0 /\ lease.owner = t
      BY <1>0, <1>3, <2>1, Constants DEF Held
  <2>3. lease'.owner = t /\ lease'.ttl >= lease.ttl
      BY <1>f, <1>3, <2>2, LeaseStays
  <2>4. lease'.ttl \in Nat
    <3>1. lease' \in LeaseRow
        BY <1>f, <1>3, LeaseFate, LeaseTypes DEF LeaseOK, TypeOK, Renew, Release, ReapLeases, Acquire
    <3> QED BY <3>1, Constants DEF LeaseRow
  <2> QED BY <1>0, <1>3, <2>3, <2>4, Constants DEF Held
<1>4. ASSUME Threat(t), ~ClockTick, Steady(p), todo'[p] = todo[p]
      PROVE  /\ pc'[p] \in PastSelect => Met(p, t)'
             /\ Launches(p)' => t = cur'[p]
    BY <1>3, <1>4 DEF Steady, Alone, Met, Launches, RunOf, Stale, First
<1>5. ASSUME Threat(t), ~ClockTick, Scan(p) PROVE pc'[p] = "rows" /\ Met(p, t)'
  <2>1. /\ pc[p] = "scan" /\ pc'[p] = "rows" /\ UNCHANGED <<lag, lease>>
        /\ todo'[p] = {[run |-> r, age |-> runs[r].age, pid |-> runs[r].pid] : r \in Select}
      BY <1>0, <1>5 DEF Scan, At, Goto, ledgerVars, TypeOK
  <2>2. /\ First(t) \in Select /\ runs[First(t)].age \in Nat /\ Guarded(t)
      BY <1>5, ThreatActive DEF Select, Aging
  <2>3. CASE runs[First(t)].age > Silence
    <3>1. PICK x : x = [run |-> First(t), age |-> runs[First(t)].age, pid |-> runs[First(t)].pid]
        OBVIOUS
    <3>2. x \in todo'[p] /\ x.run = First(t) /\ x.age > Silence
        BY <2>1, <2>2, <2>3, <3>1
    <3> QED BY <2>1, <3>2 DEF Met, First, Stale
  <2>4. CASE ~(runs[First(t)].age > Silence)
    <3>1. lease.owner = t /\ lease.ttl > Sweep
        BY <1>0, <2>2, <2>4, Constants DEF Guarded, WellTimed
    <3> QED BY <1>0, <2>1, <3>1, Constants DEF Met, Held
  <2> QED BY <2>1, <2>3, <2>4
<1>6. ASSUME Threat(t), ~ClockTick, NEW x \in todo[p], HandleRow(p, x)
      PROVE  pc'[p] \in {"rows", "kill", "abandon"} /\ Met(p, t)'
  <2>1. /\ pc[p] = "rows" /\ UNCHANGED <<lag, child, runs, lease>> /\ todo'[p] = todo[p] \ {x}
      BY <1>0, <1>6 DEF HandleRow, At, Goto, ledgerVars, TypeOK
  <2>2. Met(p, t)
      BY <1>6, <2>1 DEF Alone, PastSelect
  <2>3. pc'[p] \in {"rows", "kill", "abandon"}
    <3>1. Verdict(x) \in {"kill", "abandon"}
        BY DEF Verdict
    <3> QED BY <1>0, <1>6, <2>1, <3>1 DEF HandleRow, Goto, TypeOK
  <2>4. CASE Held(p, t)
    <3>1. pc[p] \in PastSelect /\ lag'[p] = lag[p]
        BY <2>1 DEF PastSelect
    <3>2. Held(p, t)'
        BY <1>3, <1>6, <2>4, <3>1
    <3> QED BY <2>3, <3>2 DEF Met
  <2>5. ASSUME NEW y \in todo[p], y.run = First(t), Stale(y), y # x PROVE Met(p, t)'
      BY <2>1, <2>5 DEF Met, Stale, First
  <2>6. ASSUME x.run = First(t), Stale(x) PROVE Met(p, t)'
    <3>1. runs[x.run].pid = x.pid
        BY <1>0, <2>1, <2>6, StaleIsDead DEF Sweeping
    <3>2. Verdict(x) = "kill"
        BY <1>6, <2>6, <3>1 DEF Verdict, Threat
    <3>3. pc'[p] = "kill" /\ RunOf(p)' = First(t)
        BY <1>0, <1>6, <2>6, <3>2 DEF HandleRow, Handles, Goto, TypeOK, First, RunOf
    <3> QED BY <3>3 DEF Met, First
  <2> QED BY <2>1, <2>2, <2>3, <2>4, <2>5, <2>6 DEF Met
<1>7. ASSUME Threat(t), ~ClockTick, SweepKill(p) \/ Abandon(p) \/ EndRecover(p)
      PROVE  pc'[p] \in PastSelect /\ Met(p, t)'
  <2>1. /\ pc[p] \in {"rows", "kill", "abandon"} /\ pc'[p] \in PastSelect
        /\ UNCHANGED <<lag, todo>>
        /\ pc[p] = "kill" => SweepKill(p)
      BY <1>0, <1>7 DEF SweepKill, Abandon, EndRecover, At, Goto, TypeOK, PastSelect
  <2>2. Met(p, t)
      BY <1>7, <2>1 DEF Alone, PastSelect
  <2>3. CASE Held(p, t)
      BY <1>3, <1>7, <2>1, <2>3 DEF Met, PastSelect
  <2>4. CASE pc[p] = "kill" /\ RunOf(p) = First(t)
    <3>1. ~Alive(First(t))'
        BY <2>1, <2>4 DEF SweepKill, Alive, First, Run, TypeOK
    <3> QED BY <3>1 DEF Threat, First
  <2>5. ASSUME NEW y \in todo[p], y.run = First(t), Stale(y) PROVE Met(p, t)'
      BY <2>1, <2>5 DEF Met, Stale, First
  <2> QED BY <2>1, <2>2, <2>3, <2>4, <2>5 DEF Met
<1>8. ASSUME Threat(t), Acquire(p) PROVE FALSE
  <2>1. pc[p] = "poise" /\ ~LeaseBusy
      BY <1>8 DEF Acquire, At, AcquireLease
  <2>2. Met(p, t) /\ todo[p] = {} /\ lag[p] <= Sweep
      BY <1>0, <1>8, <2>1 DEF Alone, PastSelect, Swept
  <2>3. lease.ttl = 0
      BY <1>0, <2>1 DEF LeaseBusy
  <2> QED BY <1>0, <2>1, <2>2, <2>3, Constants DEF Met, Held
<1>9. ASSUME Threat(t), StartCoordinator(p) PROVE pc'[p] = "launch" /\ t = cur'[p]
  <2>1. pc[p] = "setup" /\ pc'[p] = "launch" /\ UNCHANGED cur /\ role[p] = "coordinator"
      BY <1>0, <1>9 DEF StartCoordinator, At, Goto, TypeOK, Mine, ReviewerLast
  <2> QED BY <1>9, <2>1 DEF Alone, Launches
<1>10. ASSUME Threat(t), ~ClockTick
       PROVE  /\ pc'[p] \in PastSelect => Met(p, t)'
              /\ Launches(p)' => t = cur'[p]
  <2>1. \/ Steady(p) /\ todo'[p] = todo[p]
        \/ Scan(p) \/ (\E x \in todo[p] : HandleRow(p, x)) \/ SweepKill(p) \/ Abandon(p)
        \/ EndRecover(p) \/ Acquire(p) \/ StartCoordinator(p)
      BY <1>10, Places
  <2> QED BY <1>4, <1>5, <1>6, <1>7, <1>8, <1>9, <1>10, <2>1 DEF PastSelect, Launches
<1> QED BY <1>f, <1>1, <1>2, <1>10, ThreatFate DEF Threat

(* A loop never launches a coordinator while another recorded one is       *)
(* alive: the sweep kills what it finds silent, and what it finds speaking *)
(* holds a lease that outlasts the rest of recover.                        *)
THEOREM LaunchedAlone ==
    ASSUME WellTimed, Faults \cap {"io", "db", "stall"} = {}
    PROVE  Spec => LoopLaunchesAlone
<1>0. "stall" \notin Faults /\ Faults \cap {"io", "stall"} = {}
    OBVIOUS
<1> DEFINE Inv == TypeOK /\ LeaseInvariant /\ Orderly
           IInv == Aging /\ Alone
           Apart == \A p \in Loops : Spawn(p) /\ role[p] = "coordinator" =>
                        \A t \in Ticks \ {cur[p]} :
                            runs[<<t, "coordinator">>].pid => ~Alive(<<t, "coordinator">>)
<1>1. Init => IInv
    BY DEF Init, Aging, Alone, Threat, First, Alive, Run
<1>2. Inv /\ NoChildOutlivesItsRun /\ NoChildOutlivesItsRun' /\ IInv /\ [Next]_vars => IInv'
    BY AgingStep, AloneStep
<1>3. Inv /\ IInv => Apart
  <2> SUFFICES ASSUME TypeOK, Alone, NEW p \in Loops, Spawn(p), role[p] = "coordinator",
                      NEW t \in Ticks, t # cur[p], runs[<<t, "coordinator">>].pid,
                      Alive(<<t, "coordinator">>)
               PROVE  FALSE
      OBVIOUS
  <2>1. Launches(p)
      BY DEF Spawn, At, Launches
  <2>2. runs[First(t)].pid = TRUE
    <3>1. First(t) \in Run /\ runs[First(t)] \in RunRow /\ runs[First(t)].pid
        BY DEF First, Run, TypeOK
    <3> QED BY <3>1 DEF RunRow
  <2> QED BY <2>1, <2>2 DEF Alone, Threat, First
<1>4. Inv /\ IInv => [Apart]_vars
    BY <1>3
<1> HIDE DEF Inv, IInv, Apart
<1>5. Spec => []Inv
    BY <1>0, OrderHolds, PTL DEF Inv
<1>6. Spec => []NoChildOutlivesItsRun
    BY <1>0, NoChildSurvives, PTL
<1>7. Spec => [][Apart]_vars
    BY <1>1, <1>2, <1>4, <1>5, <1>6, PTL DEF Spec
<1> QED BY <1>7 DEF LoopLaunchesAlone, Apart
=============================================================================
