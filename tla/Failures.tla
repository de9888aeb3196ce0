------------------------------ MODULE Failures ------------------------------
(***************************************************************************)
(* What a failed tick leaves behind for the ticks after it: the table      *)
(* `failures` of the ledger (db.py) and the checkpoint next_allowed_epoch, *)
(* kept as the time that is left until then.  Each operator is one way a   *)
(* tick can end (runtime.py, the handlers of tick), or a transaction.      *)
(***************************************************************************)
EXTENDS Naturals

CONSTANTS
    Fingerprints,
    Threshold,  \* recovery.maximumIdenticalFailures
    Base,       \* recovery.retryBaseSeconds
    MaxDelay,   \* recovery.retryMaximumSeconds
    Pause       \* scheduler.loopMinutes, in seconds

ASSUME FailureAssumption ==
    /\ Threshold \in Nat \ {0}
    /\ {Base, MaxDelay, Pause} \subseteq Nat

VARIABLES
    fail,       \* the row of each fingerprint
    hold,       \* next_allowed_epoch - now, 0 once it is past
    hostFails   \* (history) host failures of each fingerprint since it was
                \* last touched from outside the loop

failureVars == <<fail, hold, hostFails>>

Least(a, b) == IF a < b THEN a ELSE b
Most(a, b) == IF a < b THEN b ELSE a

(* Counts stop above the threshold: every larger one acts like it. *)
MaxCount == Threshold + 1
FailureRow == [count : 0..MaxCount, quarantined : BOOLEAN, scope : {"host", "work"}]
NoFailure == [count |-> 0, quarantined |-> FALSE, scope |-> "work"]

NoFailures ==
    /\ fail = [f \in Fingerprints |-> NoFailure]
    /\ hold = 0
    /\ hostFails = [f \in Fingerprints |-> 0]

(* record_failure: the scope is that of the latest failure. *)
ReachesLate(count) == count > Threshold     \* mutant
Reaches(count) == count >= Threshold
Recorded(row, scope) ==
    LET count == Least(row.count + 1, MaxCount)
    IN  [count |-> count, quarantined |-> Reaches(count), scope |-> scope]

RecordFailure(f, scope) == fail' = [fail EXCEPT ![f] = Recorded(@, scope)]

Backoff(count) == Least(MaxDelay, Base * 2^(count - 1))
Counted(f, scope) ==
    /\ RecordFailure(f, scope)
    /\ hold' = Backoff(fail'[f].count)

(* A failure that looks transient is not counted. *)
Dependency == hold' = Base /\ UNCHANGED <<fail, hostFails>>
SafetyPause == hold' = Most(Base, Pause) /\ UNCHANGED <<fail, hostFails>>
Meets(f, scope) ==
    hostFails' = IF scope = "host"
                 THEN [hostFails EXCEPT ![f] = Least(@ + 1, MaxCount)]
                 ELSE hostFails
Fails(f, scope) == Counted(f, scope) /\ Meets(f, scope)

(* The process dies between record_failure and the checkpoint. *)
FailsUndelayed(f, scope) == RecordFailure(f, scope) /\ Meets(f, scope) /\ UNCHANGED hold

(* The loop's condition for a tick. *)
HostQuarantined(f) == fail[f].quarantined /\ fail[f].scope = "host"
AllowedAfterDelay == hold = 0               \* mutant: no quarantine
Allowed == hold = 0 /\ \A f \in Fingerprints : ~HostQuarantined(f)

(* `qas unquarantine`: only where there is something to lift. *)
Unquarantine(f) ==
    /\ fail[f].quarantined
    /\ fail' = [fail EXCEPT ![f].quarantined = FALSE, ![f].count = 0]
    /\ hostFails' = [hostFails EXCEPT ![f] = 0]
    /\ UNCHANGED hold

HoldPasses == hold' = (IF hold = 0 THEN 0 ELSE hold - 1) /\ UNCHANGED <<fail, hostFails>>

RowsOK ==
    /\ fail \in [Fingerprints -> FailureRow]
    /\ hostFails \in [Fingerprints -> 0..MaxCount]
FailuresOK == RowsOK /\ hold \in Nat
=============================================================================
