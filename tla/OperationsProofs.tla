-------------------------- MODULE OperationsProofs --------------------------
(* Theorems about Operations, for any keys, callers and number of calls. *)
EXTENDS Operations, TLAPS

-----------------------------------------------------------------------------
(* The inductive invariant.                                                *)
Sent(k) == effects[k] + inflight[k]
Mutating(r, k) == key[r] = k /\ pc[r] \in {"begin", "send"}

(* Without overlap, a key has one attempt: decided upon, or sent.          *)
OneAttempt ==
    \A k \in Key \ overlapped :
        /\ Sent(k) <= 1
        /\ \A r \in Runner : Mutating(r, k) => Sent(k) = 0
        /\ \A r, q \in Runner : Mutating(r, k) /\ Mutating(q, k) => r = q

(* What a caller has seen or written stays so until it leaves.             *)
Witnessed ==
    \A r \in Runner :
        /\ pc[r] \in {"begin_found", "complete_found", "report_found", "complete", "report"}
              => effects[key[r]] > 0
        /\ pc[r] \in {"report_found", "report"} => op[key[r]] = "completed"
        /\ pc[r] = "send" => op[key[r]] # "none"

Inv == TypeOK /\ OneAttempt /\ Witnessed /\ JournalFirst /\ ReportsAreTrue

(* Initially nothing was sent, seen or written.                            *)
LEMMA InitInv == Init => Inv
BY KeyAssumption, CallsAssumption
   DEF Init, Inv, TypeOK, OneAttempt, Witnessed, JournalFirst, ReportsAreTrue, Sent, Mutating, At,
       Step

-----------------------------------------------------------------------------
(* Steps of one caller that neither decide to mutate nor touch the journal *)
(* or the remote side.                                                     *)
Quiet(r) ==
    \/ Call(r) \/ Lookup(r) \/ FindEffect(r) \/ Answered(r) \/ AfterEffect(r)
    \/ Confirm(r) \/ Raise(r) \/ Crash(r) \/ Interrupted(r)

(* Every step keeps the types.                                             *)
LEMMA TypeStep == TypeOK /\ [Next]_vars => TypeOK'
<1> SUFFICES ASSUME TypeOK, [Next]_vars PROVE TypeOK'
    OBVIOUS
<1> USE DEF TypeOK, At, Goto, Leave, remote, AppendEvent, Step, Event
<1>1. ASSUME NEW r \in Runner, Quiet(r) PROVE TypeOK'
    BY <1>1, CallsAssumption
       DEF Quiet, Call, Lookup, FindEffect, Answered, AfterEffect, Confirm, Raise, Crash, Interrupted
<1>2. ASSUME NEW r \in Runner, BeginFound(r) \/ Begin(r) PROVE TypeOK'
    BY <1>2 DEF BeginFound, Begin, BeginOperation
<1>3. ASSUME NEW r \in Runner, CompleteFound(r) \/ Complete(r) PROVE TypeOK'
    BY <1>3 DEF CompleteFound, Complete, CompleteOperation
<1>4. ASSUME NEW r \in Runner, ReportFound(r) \/ Report(r) PROVE TypeOK'
    BY <1>4 DEF ReportFound, Report
<1>5. ASSUME NEW r \in Runner, FindNothing(r) PROVE TypeOK'
    BY <1>5 DEF FindNothing
<1>6. ASSUME NEW r \in Runner, Send(r) PROVE TypeOK'
    BY <1>6 DEF Send
<1>7. ASSUME NEW k \in Key, Land(k) \/ Lose(k) PROVE TypeOK'
    BY <1>7 DEF Land, Lose
<1>8. CASE UNCHANGED vars
    BY <1>8 DEF vars
<1> HIDE DEF TypeOK
<1> QED BY <1>1, <1>2, <1>3, <1>4, <1>5, <1>6, <1>7, <1>8 DEF Next, Quiet

(* Only FindNothing starts an attempt, and only Send counts it as sent.    *)
LEMMA AttemptStep == Inv /\ [Next]_vars => OneAttempt'
<1> SUFFICES ASSUME TypeOK, OneAttempt, [Next]_vars PROVE OneAttempt'
    BY DEF Inv
<1> USE KeyAssumption DEF TypeOK, At, Goto, Leave, remote, OneAttempt, Sent, Mutating
<1>1. ASSUME NEW r \in Runner, Quiet(r) PROVE OneAttempt'
  <2>1. UNCHANGED <<effects, inflight, overlapped>>
      BY <1>1
         DEF Quiet, Call, Lookup, FindEffect, Answered, AfterEffect, Confirm, Raise, Crash, Interrupted
  <2>2. pc'[r] \notin {"begin", "send"}
      BY <1>1
         DEF Quiet, Call, Lookup, FindEffect, Answered, AfterEffect, Confirm, Raise, Crash, Interrupted
  <2>3. \A q \in Runner \ {r} : pc'[q] = pc[q] /\ key'[q] = key[q]
      BY <1>1
         DEF Quiet, Call, Lookup, FindEffect, Answered, AfterEffect, Confirm, Raise, Crash, Interrupted
  <2> QED BY <2>1, <2>2, <2>3
<1>2. ASSUME NEW r \in Runner, BeginFound(r) \/ Begin(r) PROVE OneAttempt'
    BY <1>2 DEF BeginFound, Begin
<1>3. ASSUME NEW r \in Runner,
             CompleteFound(r) \/ Complete(r) \/ ReportFound(r) \/ Report(r)
      PROVE  OneAttempt'
    BY <1>3 DEF CompleteFound, Complete, ReportFound, Report
<1>4. ASSUME NEW r \in Runner, FindNothing(r) PROVE OneAttempt'
    BY <1>4 DEF FindNothing, Seen, Outstanding
<1>5. ASSUME NEW r \in Runner, Send(r) PROVE OneAttempt'
    BY <1>5 DEF Send
<1>6. ASSUME NEW k \in Key, Land(k) \/ Lose(k) PROVE OneAttempt'
    BY <1>6 DEF Land, Lose
<1>7. CASE UNCHANGED vars
    BY <1>7 DEF vars
<1> HIDE DEF TypeOK, OneAttempt
<1> QED BY <1>1, <1>2, <1>3, <1>4, <1>5, <1>6, <1>7 DEF Next, Quiet

(* The remaining conjuncts speak of one step's key: `op` only advances and *)
(* an effect, once there, stays.                                           *)
Advances ==
    \A k \in Key : /\ op[k] # "none" => op'[k] # "none"
                   /\ op[k] = "completed" => op'[k] = "completed"
                   /\ effects[k] > 0 => effects'[k] > 0

(* Every step advances.                                                    *)
LEMMA Advance == TypeOK /\ [Next]_vars => Advances
<1> SUFFICES ASSUME TypeOK, [Next]_vars PROVE Advances
    OBVIOUS
<1> USE DEF TypeOK, Advances, At, Goto, Leave, remote
<1>1. ASSUME NEW r \in Runner, \/ Quiet(r) \/ ReportFound(r) \/ Report(r) \/ FindNothing(r) \/ Send(r)
      PROVE  Advances
    BY <1>1
       DEF Quiet, Call, Lookup, FindEffect, Answered, AfterEffect, Confirm, Raise, Crash, Interrupted,
           ReportFound, Report, FindNothing, Send
<1>2. ASSUME NEW r \in Runner, BeginFound(r) \/ Begin(r) PROVE Advances
    BY <1>2 DEF BeginFound, Begin, BeginOperation
<1>3. ASSUME NEW r \in Runner, CompleteFound(r) \/ Complete(r) PROVE Advances
    BY <1>3 DEF CompleteFound, Complete, CompleteOperation
<1>4. ASSUME NEW k \in Key, Land(k) \/ Lose(k) PROVE Advances
    BY <1>4 DEF Land, Lose
<1>5. CASE UNCHANGED vars
    BY <1>5 DEF vars
<1> HIDE DEF TypeOK, Advances
<1> QED BY <1>1, <1>2, <1>3, <1>4, <1>5 DEF Next, Quiet

(* Callers other than r keep what they have seen, and so does r when its   *)
(* new place asks for nothing more than its old one did.                   *)
LEMMA WitnessedByOthers ==
    ASSUME TypeOK, Witnessed, Advances, NEW r \in Runner,
           \A q \in Runner \ {r} : pc'[q] = pc[q] /\ key'[q] = key[q],
           pc'[r] \in {"begin_found", "complete_found", "report_found", "complete", "report"}
              => effects'[key'[r]] > 0,
           pc'[r] \in {"report_found", "report"} => op'[key'[r]] = "completed",
           pc'[r] = "send" => op'[key'[r]] # "none"
    PROVE  Witnessed'
<1> SUFFICES ASSUME NEW q \in Runner
             PROVE  /\ pc'[q] \in {"begin_found", "complete_found", "report_found", "complete",
                                   "report"} => effects'[key'[q]] > 0
                    /\ pc'[q] \in {"report_found", "report"} => op'[key'[q]] = "completed"
                    /\ pc'[q] = "send" => op'[key'[q]] # "none"
    BY DEF Witnessed
<1>1. CASE q = r
    BY <1>1
<1>2. CASE q # r
    BY <1>2 DEF TypeOK, At, Witnessed, Advances
<1> QED BY <1>1, <1>2

(* No step takes away what a caller has seen.                              *)
LEMMA WitnessStep == Inv /\ [Next]_vars => Witnessed'
<1> SUFFICES ASSUME TypeOK, Witnessed, [Next]_vars PROVE Witnessed'
    BY DEF Inv
<1>0. Advances
    BY Advance
<1>1. ASSUME NEW r \in Runner, \/ Call(r) \/ Lookup(r) \/ Answered(r) \/ AfterEffect(r) \/ Raise(r)
                               \/ Crash(r) \/ Interrupted(r) \/ ReportFound(r) \/ Report(r)
                               \/ FindNothing(r) \/ Send(r)
      PROVE  Witnessed'
  <2>1. \A q \in Runner \ {r} : pc'[q] = pc[q] /\ key'[q] = key[q]
      BY <1>1 DEF Call, Lookup, Answered, AfterEffect, Raise, Crash, Interrupted, ReportFound, Report,
         FindNothing, Send, Goto, Leave, TypeOK
  <2>2. pc'[r] \notin {"begin_found", "complete_found", "report_found", "complete", "report", "send"}
      BY <1>1 DEF Call, Lookup, Answered, AfterEffect, Raise, Crash, Interrupted, ReportFound, Report,
         FindNothing, Send, Goto, Leave, TypeOK
  <2> QED BY <1>0, <2>1, <2>2, WitnessedByOthers
<1>2. ASSUME NEW r \in Runner, FindEffect(r) \/ Confirm(r) PROVE Witnessed'
    BY <1>0, <1>2, WitnessedByOthers DEF FindEffect, Confirm, Seen, Goto, At, TypeOK, remote
<1>3. ASSUME NEW r \in Runner, BeginFound(r) \/ Begin(r) PROVE Witnessed'
  <2>1. \A q \in Runner \ {r} : pc'[q] = pc[q] /\ key'[q] = key[q]
      BY <1>3 DEF BeginFound, Begin, Goto, TypeOK
  <2>2. key[r] \in Key /\ key'[r] = key[r] /\ op'[key[r]] # "none"
      BY <1>3 DEF BeginFound, Begin, BeginOperation, Goto, At, TypeOK
  <2>3. \/ pc'[r] = "complete_found" /\ effects'[key[r]] > 0
        \/ pc'[r] = "send"
      BY <1>3 DEF BeginFound, Begin, Goto, At, TypeOK, Witnessed, remote
  <2> QED BY <1>0, <2>1, <2>2, <2>3, WitnessedByOthers
<1>4. ASSUME NEW r \in Runner, CompleteFound(r) \/ Complete(r) PROVE Witnessed'
  <2>1. \A q \in Runner \ {r} : pc'[q] = pc[q] /\ key'[q] = key[q]
      BY <1>4 DEF CompleteFound, Complete, Goto, TypeOK
  <2>2. key'[r] = key[r] /\ op'[key[r]] = "completed" /\ effects'[key[r]] > 0
      BY <1>4 DEF CompleteFound, Complete, CompleteOperation, Goto, At, TypeOK, Witnessed, remote
  <2> QED BY <1>0, <2>1, <2>2, WitnessedByOthers
<1>5. CASE UNCHANGED <<pc, key>>
    BY <1>0, <1>5 DEF Witnessed, Advances, TypeOK, At
<1> QED BY <1>1, <1>2, <1>3, <1>4, <1>5 DEF Next, Land, Lose, vars

(* Only Send adds a request, after Begin has written the row.              *)
LEMMA JournalStep == Inv /\ [Next]_vars => JournalFirst'
<1> SUFFICES ASSUME Inv, [Next]_vars, NEW k \in Key, (effects[k] + inflight[k] > 0)'
             PROVE  op'[k] # "none"
    BY DEF JournalFirst
<1>1. Advances /\ effects[k] \in Nat /\ inflight[k] \in Nat
    BY Advance DEF Inv, TypeOK
<1>2. CASE effects[k] + inflight[k] > 0
    BY <1>1, <1>2 DEF Inv, JournalFirst, Advances
<1>3. CASE \E r \in Runner : Send(r) /\ key[r] = k
    BY <1>1, <1>3 DEF Send, Inv, Witnessed, At, Advances
<1>4. CASE ~(effects[k] + inflight[k] > 0) /\ ~\E r \in Runner : Send(r) /\ key[r] = k
  <2>1. effects'[k] = effects[k] /\ inflight'[k] = inflight[k]
    <3> USE <1>1, <1>4 DEF Inv, TypeOK, remote
    <3>1. ASSUME NEW r \in Runner, Send(r) PROVE effects'[k] = effects[k] /\ inflight'[k] = inflight[k]
        BY <3>1 DEF Send
    <3>2. ASSUME NEW q \in Key, Land(q) \/ Lose(q) PROVE effects'[k] = effects[k] /\ inflight'[k] = inflight[k]
        BY <3>2 DEF Land, Lose
    <3>3. CASE UNCHANGED remote
        BY <3>3
    <3> HIDE DEF Inv, TypeOK
    <3> QED BY <3>1, <3>2, <3>3
            DEF Next, vars, Call, Lookup, FindEffect, BeginFound, CompleteFound, ReportFound,
                FindNothing, Begin, Answered, AfterEffect, Confirm, Complete, Report, Raise,
                Interrupted, Crash
  <2> QED BY <1>4, <2>1
<1> QED BY <1>2, <1>3, <1>4

(* Only what is completed is reported, only what exists is completed.      *)
LEMMA ReportStep == Inv /\ [Next]_vars => ReportsAreTrue'
<1> SUFFICES ASSUME Inv, [Next]_vars PROVE ReportsAreTrue'
    OBVIOUS
<1>0. Advances
    BY Advance DEF Inv
<1> USE DEF Inv, TypeOK, ReportsAreTrue
<1>1. ASSUME NEW r \in Runner, BeginFound(r) \/ Begin(r) PROVE ReportsAreTrue'
    BY <1>1 DEF BeginFound, Begin, BeginOperation, remote
<1>2. ASSUME NEW r \in Runner, CompleteFound(r) \/ Complete(r) PROVE ReportsAreTrue'
    BY <1>2 DEF CompleteFound, Complete, CompleteOperation, remote, Witnessed, At
<1>3. ASSUME NEW r \in Runner, ReportFound(r) \/ Report(r) PROVE ReportsAreTrue'
    BY <1>3 DEF ReportFound, Report, AppendEvent, remote, Witnessed, At
<1>4. ASSUME NEW r \in Runner, Interrupted(r) PROVE ReportsAreTrue'
    BY <1>4 DEF Interrupted, AppendEvent, remote, At
<1>5. CASE UNCHANGED <<op, reported>>
    BY <1>0, <1>5 DEF Advances
<1> HIDE DEF Inv, TypeOK, ReportsAreTrue
<1> QED BY <1>1, <1>2, <1>3, <1>4, <1>5
        DEF Next, vars, Call, Lookup, FindEffect, FindNothing, Send, Answered, AfterEffect, Confirm,
            Raise, Crash, Land, Lose

-----------------------------------------------------------------------------
(* The invariant is inductive, hence holds throughout.                     *)
LEMMA InvStep == Inv /\ [Next]_vars => Inv'
BY TypeStep, AttemptStep, WitnessStep, JournalStep, ReportStep DEF Inv

(* The strengthening behind the properties of the journal and the remote.  *)
THEOREM Invariance == Spec => []Inv
BY InitInv, InvStep, PTL DEF Spec

(* However often ensure is interrupted, killed or left without an answer,  *)
(* and retried, the effect of a key whose attempts do not overlap is       *)
(* applied at most once.                                                   *)
THEOREM AtMostOnce == Spec => []AtMostOneEffect
<1>1. Inv => AtMostOneEffect
    BY DEF Inv, TypeOK, OneAttempt, Sent, AtMostOneEffect
<1> QED BY Invariance, <1>1, PTL

(* Every variable of the callers and of the remote side keeps its type.    *)
THEOREM TypeCorrect == Spec => []TypeOK
<1>1. Inv => TypeOK
    BY DEF Inv
<1> QED BY Invariance, <1>1, PTL

(* No request leaves before the journal has its row: an effect that nobody *)
(* acknowledged is one that pending_operations shows.                      *)
THEOREM JournalComesFirst == Spec => []JournalFirst
<1>1. Inv => JournalFirst
    BY DEF Inv
<1> QED BY Invariance, <1>1, PTL

(* No success is recorded or reported before the effect exists, whichever  *)
(* of several attempts records it.                                         *)
THEOREM SuccessIsTrue == Spec => []ReportsAreTrue
<1>1. Inv => ReportsAreTrue
    BY DEF Inv
<1> QED BY Invariance, <1>1, PTL

-----------------------------------------------------------------------------
(* ensure implements RemoteOnce. *)

(* Every step maps to a step of RemoteOnce or to a stutter.                *)
LEMMA StepRefines == Inv /\ [Next]_vars => [Once!Next]_(Once!vars)
<1> SUFFICES ASSUME Inv, [Next]_vars PROVE Once!Next \/ UNCHANGED Once!vars
    OBVIOUS
<1> USE DEF Once!vars, remote
<1>1. ASSUME NEW r \in Runner, BeginFound(r) \/ Begin(r) PROVE UNCHANGED Once!vars
    BY <1>1 DEF BeginFound, Begin, BeginOperation, Inv, TypeOK
<1>2. ASSUME NEW r \in Runner, CompleteFound(r) \/ Complete(r) PROVE Once!Next
  <2>1. /\ key[r] \in Key /\ effects[key[r]] > 0 /\ op' = [op EXCEPT ![key[r]] = "completed"]
        /\ UNCHANGED <<effects, overlapped>>
      BY <1>2 DEF CompleteFound, Complete, CompleteOperation, Inv, TypeOK, Witnessed, At
  <2>2. {k \in Key : op'[k] = "completed"} = {k \in Key : op[k] = "completed"} \cup {key[r]}
      BY <2>1 DEF Inv, TypeOK
  <2> QED BY <2>1, <2>2 DEF Once!Next, Once!Acknowledge
<1>3. ASSUME NEW r \in Runner, FindNothing(r) PROVE Once!Next \/ UNCHANGED Once!vars
    BY <1>3 DEF FindNothing, Inv, TypeOK, At, Once!Next, Once!Overlap
<1>4. ASSUME NEW k \in Key, Land(k) PROVE Once!Next
  <2>1. Once!Apply(k)
      BY <1>4 DEF Land, Inv, TypeOK, OneAttempt, Sent, Once!Apply
  <2> QED BY <2>1 DEF Once!Next
<1>5. CASE UNCHANGED <<op, effects, overlapped>>
    BY <1>5
<1>6. \/ \E r \in Runner : \/ BeginFound(r) \/ Begin(r) \/ CompleteFound(r) \/ Complete(r)
                             \/ FindNothing(r)
      \/ \E k \in Key : Land(k)
      \/ UNCHANGED <<op, effects, overlapped>>
    BY DEF Next, vars, Call, Lookup, FindEffect, ReportFound, Report, Interrupted, Send, Answered,
           AfterEffect, Confirm, Raise, Crash, Lose
<1> HIDE DEF Once!vars
<1> QED BY <1>1, <1>2, <1>3, <1>4, <1>5, <1>6

(* The journal, the remote side and the callers together behave as the     *)
(* abstract once-only remote of RemoteOnce.                                *)
THEOREM Refinement == Spec => KeepsPromise
<1>1. Init => Once!Init
    BY DEF Init, Once!Init
<1>2. Spec => Init /\ []Inv /\ [][Next]_vars
    BY Invariance DEF Spec
<1> QED BY <1>1, <1>2, StepRefines, PTL DEF KeepsPromise, Once!Spec
=============================================================================
