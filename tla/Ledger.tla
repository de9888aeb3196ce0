------------------------------- MODULE Ledger -------------------------------
(***************************************************************************)
(* The rows of the SQLite ledger (db.py) that the supervisor processes of  *)
(* one runtime directory share: the single "coordinator" row of `leases`   *)
(* and the table `runs`.  Every operator below is one SQLite transaction,  *)
(* hence one atomic step.                                                  *)
(*                                                                         *)
(* Instants are kept relative to now: `ttl` is expires_epoch - now (0 once *)
(* the lease has expired, whether or not its row is still there) and `age` *)
(* is now - heartbeat_at, capped just above the silence threshold, the     *)
(* only value it is compared with.                                         *)
(***************************************************************************)
EXTENDS Naturals

CONSTANTS
    Ticks,      \* tick ids (uuid4): the id is the owner of the lease
    NoTick,     \* no lease row
    Lease,      \* scheduler.leaseSeconds
    Silence     \* scheduler.silenceTimeoutSeconds

ASSUME TickAssumption == NoTick \notin Ticks
ASSUME TimeAssumption == Lease \in Nat \ {0} /\ Silence \in Nat

VARIABLES
    lease,      \* leases row of resource "coordinator"
    runs        \* runs row of each run

Run == Ticks \X {"coordinator", "reviewer"}

Active == {"starting", "running"}
Terminal == {"succeeded", "failed", "abandoned"}

LeaseRow == [owner : Ticks \cup {NoTick}, ttl : 0..Lease]
RunRow == [status : {"none"} \cup Active \cup Terminal,
           age : 0..(Silence + 1), pid : BOOLEAN]

NoLease == [owner |-> NoTick, ttl |-> 0]
Row(status, age, pid) == [status |-> status, age |-> age, pid |-> pid]
NoRun == Row("none", 0, FALSE)

(* Seconds pass: capped so that the instance is finite. *)
Older(age) == IF age > Silence THEN age ELSE age + 1
LedgerTick ==
    /\ lease' = [lease EXCEPT !.ttl = IF @ = 0 THEN 0 ELSE @ - 1]
    /\ runs' = [r \in Run |-> IF runs[r].status \in Active
                              THEN Row(runs[r].status, Older(runs[r].age), runs[r].pid)
                              ELSE runs[r]]

(* acquire_lease deletes the expired row and inserts its own, or fails. *)
LeaseBusy == lease.ttl > 0
AcquireLeaseReplacing(t) ==     \* mutant: INSERT OR REPLACE
    lease' = [owner |-> t, ttl |-> Lease]
AcquireLease(t) == /\ ~LeaseBusy
                   /\ lease' = [owner |-> t, ttl |-> Lease]

(* renew_lease matches only the owner's row, and only while it is valid. *)
OwnsLease(t) == lease.owner = t /\ lease.ttl > 0
RenewLeaseAdding(t) ==          \* mutant: extends the old expiry, not now
    lease' = IF OwnsLease(t) THEN [lease EXCEPT !.ttl = @ + Lease] ELSE lease
RenewLeaseNever(t) == UNCHANGED lease   \* mutant: the UPDATE matches no row
RenewLease(t) == lease' = IF OwnsLease(t) THEN [lease EXCEPT !.ttl = Lease] ELSE lease

ReleaseLease(t) == lease' = IF lease.owner = t THEN NoLease ELSE lease

ReapExpiredLeases == lease' = IF lease.ttl = 0 THEN NoLease ELSE lease

StartRun(r) ==
    runs' = [runs EXCEPT ![r] = Row("starting", 0, FALSE)]

SetRunRunning(r) ==
    runs' = IF runs[r].status = "starting"
            THEN [runs EXCEPT ![r] = Row("running", 0, TRUE)]
            ELSE runs

HeartbeatRun(r) ==
    runs' = IF runs[r].status \in Active
            THEN [runs EXCEPT ![r] = Row(runs[r].status, 0, runs[r].pid)]
            ELSE runs

(* finish_run has no guard on the current status, fail_active_run has. *)
FinishRun(r, s) == runs' = [runs EXCEPT ![r] = Row(s, 0, runs[r].pid)]
FailRunsUnguarded(S) ==         \* mutant: no condition on the status
    runs' = [r \in Run |-> IF r \in S /\ runs[r].status # "none"
                           THEN Row("failed", 0, runs[r].pid)
                           ELSE runs[r]]
FailActiveRuns(S) ==
    runs' = [r \in Run |-> IF r \in S /\ runs[r].status \in Active
                           THEN Row("failed", 0, runs[r].pid)
                           ELSE runs[r]]
=============================================================================
