----------------------------- MODULE Operations -----------------------------
(***************************************************************************)
(* IdempotentOperationRunner.ensure (operations.py) over the `operations`  *)
(* table and the events of the ledger, with any number of callers, a       *)
(* remote side that answers late or not at all, and crashes at every step. *)
(*                                                                         *)
(* The remote side is external: a request is in flight until it lands (its *)
(* effect exists and can be observed from then on) or is lost, whatever    *)
(* the caller was told or has become in the meantime.  Nothing in the code *)
(* keeps two callers off the same key, so the model does not either: it    *)
(* remembers in `overlapped` that it happened.                             *)
(***************************************************************************)
EXTENDS Naturals

CONSTANTS
    Key,        \* operation keys
    Runner,     \* processes that call ensure
    NoKey,
    MaxCalls    \* bound on the calls of a behaviour

ASSUME KeyAssumption == NoKey \notin Key
ASSUME CallsAssumption == MaxCalls \in Nat

VARIABLES
    op,         \* status of the operations row
    reported,   \* events operation_{reconciled,completed,interrupted}
    effects,    \* remote: effects of each key
    inflight,   \* remote: requests sent and neither landed nor lost
    pc, key,    \* where each caller is, and with which key
    overlapped, \* keys looked for while another attempt was outstanding
    calls

vars == <<op, reported, effects, inflight, pc, key, overlapped, calls>>
remote == <<effects, inflight>>

Step == {"idle", "lookup", "reconcile",
         "begin_found", "complete_found", "report_found",
         "begin", "send", "answer", "after", "confirm", "complete", "report",
         "interrupted"}
Event == {"reconciled", "completed", "interrupted"}

Init ==
    /\ op = [k \in Key |-> "none"]
    /\ reported = [k \in Key |-> {}]
    /\ effects = [k \in Key |-> 0]
    /\ inflight = [k \in Key |-> 0]
    /\ pc = [r \in Runner |-> "idle"]
    /\ key = [r \in Runner |-> NoKey]
    /\ overlapped = {}
    /\ calls = 0

At(r, step) == pc[r] = step
Goto(r, step) == /\ pc' = [pc EXCEPT ![r] = step]
                 /\ UNCHANGED <<key, calls>>
LeaveHalfway(r) == /\ key' = [key EXCEPT ![r] = NoKey]      \* mutant
                   /\ UNCHANGED <<pc, calls>>
Leave(r) == /\ pc' = [pc EXCEPT ![r] = "idle"]
            /\ key' = [key EXCEPT ![r] = NoKey]
            /\ UNCHANGED calls

BeginReplacing(k) == op' = [op EXCEPT ![k] = "pending"]     \* mutant: OR REPLACE
BeginNothing(k) == UNCHANGED op                             \* mutant: no row
BeginOperation(k) == op' = IF op[k] = "none" THEN [op EXCEPT ![k] = "pending"] ELSE op
CompleteOperation(k) == op' = [op EXCEPT ![k] = "completed"]
AppendEvent(k, e) == reported' = [reported EXCEPT ![k] = @ \cup {e}]

Call(r) ==
    /\ At(r, "idle")
    /\ calls < MaxCalls
    /\ calls' = calls + 1
    /\ \E k \in Key : key' = [key EXCEPT ![r] = k]
    /\ pc' = [pc EXCEPT ![r] = "lookup"]
    /\ UNCHANGED <<op, reported, remote, overlapped>>

Lookup(r) ==
    /\ At(r, "lookup")
    /\ IF op[key[r]] = "completed" THEN Leave(r) ELSE Goto(r, "reconcile")
    /\ UNCHANGED <<op, reported, remote, overlapped>>

(* reconcile: the remote side is asked, never the journal. *)
SeenInJournal(k) == op[k] = "completed"                     \* mutant
SeenAlways(k) == TRUE                                       \* mutant
Seen(k) == effects[k] > 0

(* The effect exists: record it and return. *)
FindEffect(r) ==
    /\ At(r, "reconcile")
    /\ Seen(key[r])
    /\ Goto(r, "begin_found")
    /\ UNCHANGED <<op, reported, remote, overlapped>>

BeginFound(r) ==
    /\ At(r, "begin_found")
    /\ BeginOperation(key[r])
    /\ Goto(r, "complete_found")
    /\ UNCHANGED <<reported, remote, overlapped>>

CompleteFound(r) ==
    /\ At(r, "complete_found")
    /\ CompleteOperation(key[r])
    /\ Goto(r, "report_found")
    /\ UNCHANGED <<reported, remote, overlapped>>

ReportFound(r) ==
    /\ At(r, "report_found")
    /\ AppendEvent(key[r], "reconciled")
    /\ Leave(r)
    /\ UNCHANGED <<op, remote, overlapped>>

(* Another caller decided to mutate, or a request is still on its way. *)
Outstanding(r, k) ==
    \/ inflight[k] > 0
    \/ \E q \in Runner \ {r} : key[q] = k /\ pc[q] \in {"begin", "send"}

(* The effect is not there: mutate. *)
FindNothing(r) ==
    /\ At(r, "reconcile")
    /\ ~Seen(key[r])
    /\ overlapped' = IF Outstanding(r, key[r]) THEN overlapped \cup {key[r]} ELSE overlapped
    /\ Goto(r, "begin")
    /\ UNCHANGED <<op, reported, remote>>

Begin(r) ==
    /\ At(r, "begin")
    /\ BeginOperation(key[r])
    /\ Goto(r, "send")
    /\ UNCHANGED <<reported, remote, overlapped>>

Send(r) ==
    /\ At(r, "send")
    /\ inflight' = [inflight EXCEPT ![key[r]] = @ + 1]
    /\ Goto(r, "answer")
    /\ UNCHANGED <<op, reported, effects, overlapped>>

(* mutate returns, after_remote_effect returns, and the remote is observed *)
(* again: OperationNotConfirmed if the effect is not there yet.            *)
Answered(r) ==
    /\ At(r, "answer")
    /\ Goto(r, "after")
    /\ UNCHANGED <<op, reported, remote, overlapped>>

AfterEffect(r) ==
    /\ At(r, "after")
    /\ Goto(r, "confirm")
    /\ UNCHANGED <<op, reported, remote, overlapped>>

Confirm(r) ==
    /\ At(r, "confirm")
    /\ Goto(r, IF Seen(key[r]) THEN "complete" ELSE "interrupted")
    /\ UNCHANGED <<op, reported, remote, overlapped>>

Complete(r) ==
    /\ At(r, "complete")
    /\ CompleteOperation(key[r])
    /\ Goto(r, "report")
    /\ UNCHANGED <<reported, remote, overlapped>>

Report(r) ==
    /\ At(r, "report")
    /\ AppendEvent(key[r], "completed")
    /\ Leave(r)
    /\ UNCHANGED <<op, remote, overlapped>>

(* Any exception from mutate on is reported and raised again. *)
Raise(r) ==
    /\ pc[r] \in {"send", "answer", "after", "confirm", "complete", "report"}
    /\ Goto(r, "interrupted")
    /\ UNCHANGED <<op, reported, remote, overlapped>>

Interrupted(r) ==
    /\ At(r, "interrupted")
    /\ AppendEvent(key[r], "interrupted")
    /\ Leave(r)
    /\ UNCHANGED <<op, remote, overlapped>>

(* The caller's process is killed, or an exception leaves ensure silently. *)
Crash(r) ==
    /\ ~At(r, "idle")
    /\ Leave(r)
    /\ UNCHANGED <<op, reported, remote, overlapped>>

(* External: the remote side. *)
Land(k) ==
    /\ inflight[k] > 0
    /\ inflight' = [inflight EXCEPT ![k] = @ - 1]
    /\ effects' = [effects EXCEPT ![k] = @ + 1]
    /\ UNCHANGED <<op, reported, pc, key, overlapped, calls>>

Lose(k) ==
    /\ inflight[k] > 0
    /\ inflight' = [inflight EXCEPT ![k] = @ - 1]
    /\ UNCHANGED <<op, reported, effects, pc, key, overlapped, calls>>

Next ==
    \/ \E r \in Runner :
          \/ Call(r) \/ Lookup(r)
          \/ FindEffect(r) \/ BeginFound(r) \/ CompleteFound(r) \/ ReportFound(r)
          \/ FindNothing(r) \/ Begin(r) \/ Send(r) \/ Answered(r) \/ AfterEffect(r)
          \/ Confirm(r) \/ Complete(r) \/ Report(r)
          \/ Raise(r) \/ Interrupted(r) \/ Crash(r)
    \/ \E k \in Key : Land(k) \/ Lose(k)

Spec == Init /\ [][Next]_vars

-----------------------------------------------------------------------------
(* Types. *)
TypeOK ==
    /\ op \in [Key -> {"none", "pending", "completed"}]
    /\ reported \in [Key -> SUBSET Event]
    /\ effects \in [Key -> Nat]
    /\ inflight \in [Key -> Nat]
    /\ pc \in [Runner -> Step]
    /\ key \in [Runner -> Key \cup {NoKey}]
    /\ \A r \in Runner : ~At(r, "idle") => key[r] \in Key
    /\ overlapped \subseteq Key
    /\ calls \in Nat

(* A crash, an interruption or a lost answer at any step, followed by any  *)
(* number of retries, applies the effect at most once, as long as no two   *)
(* attempts at the key overlapped.                                         *)
AtMostOneEffect == \A k \in Key : k \notin overlapped => effects[k] <= 1

(* No effect is unknown to the journal: `operations` has its row before    *)
(* the request leaves, so that pending_operations shows it after a crash.  *)
JournalFirst == \A k \in Key : effects[k] + inflight[k] > 0 => op[k] # "none"

(* The ledger reports success only for an effect that exists and whose row *)
(* is completed, even when a retry overtakes an interrupted attempt.       *)
ReportsAreTrue ==
    \A k \in Key : /\ op[k] = "completed" => effects[k] > 0
                   /\ reported[k] \cap {"reconciled", "completed"} # {} => op[k] = "completed"

(* The API keeps the promise of RemoteOnce. *)
Once == INSTANCE RemoteOnce WITH acknowledged <- {k \in Key : op[k] = "completed"}
KeepsPromise == Once!Spec
=============================================================================
