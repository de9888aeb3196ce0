--------------------------- MODULE CampaignProofs ---------------------------
(* Proofs about Campaign, for any processes, campaigns, crashes, duration, *)
(* thresholds and delays.                                                  *)
EXTENDS Campaign, FiniteSetTheorems, TLAPS

-----------------------------------------------------------------------------
LEMMA Sizes ==
    /\ MaxCampaigns \in Nat /\ MaxFinished \in Nat /\ MaxEvents \in Nat
    /\ Duration \in Nat \ {0}
    /\ Threshold \in Nat \ {0} /\ MaxCount \in Nat /\ MaxCount = Threshold + 1
<1>1. \A n \in {MaxCampaigns, MaxFinished, MaxEvents} : n \in Nat
  BY CampaignAssumption
<1> QED
  BY <1>1, CampaignAssumption, FailureAssumption DEF MaxCount

(* What a process counts from lies in the past. *)
Past == camp.before <= finished /\ \A p \in Procs : mine[p].before <= finished
Kept == CampaignOK /\ Past

LEMMA KeptStep ==
    ASSUME Kept, [Next]_vars
    PROVE  Kept'
<1> USE Sizes, CampaignAssumption
    DEF Kept, CampaignOK, Past, At, Goto, Step, procVars, tickVars, recordVars, failureVars,
        PC, InLoop, InTick, Watching, Mine, rowVars
<1> DEFINE Shape == UNCHANGED <<pc, mine, left, camp, finished, campaigns, origin, reports,
                                missed, overrun>>
<1>f. ASSUME NEW p \in Procs, Forgets(p) PROVE
        /\ mine' \in [Procs -> Mine] /\ left' \in [Procs -> 0..Duration]
        /\ tally' \in [Procs -> 0..MaxFinished] /\ saw' \in [Procs -> 0..MaxCampaigns]
        /\ stop' \in [Procs -> BOOLEAN] /\ told' \in [Procs -> BOOLEAN]
        /\ late' \in [Procs -> Nat] /\ pc' = [pc EXCEPT ![p] = "off"]
        /\ \A q \in Procs : mine'[q].before <= finished
  BY <1>f DEF Forgets
<1>a. "waiting" \in Aims /\ "over" \in Aims /\ "newest" \in Aims /\ "stray" \in Aims
  BY DEF Aims, Row
<1>l. ASSUME NEW rows \in SUBSET Row, Settle(rows) PROVE thread' \in [Procs -> [Killer -> Aims]]
  BY <1>a, <1>l DEF Settle
<1>i. ASSUME NEW p \in Procs PROVE
        /\ mine[p].id \in 0..MaxCampaigns /\ camp.id \in 0..MaxCampaigns
        /\ {mine[p].id} \subseteq 0..MaxCampaigns /\ {camp.id} \subseteq 0..MaxCampaigns
  OBVIOUS
<1>e. ASSUME NEW p \in Procs
      PROVE  EndWaiting(thread[p]) \in [Killer -> Aims]
  BY <1>a DEF EndWaiting
<1>s. ASSUME NEW p \in Procs, NEW k \in Killer,
             NEW w \in Aims, SetThread(p, k, w)
      PROVE  thread' \in [Procs -> [Killer -> Aims]]
  BY <1>s DEF SetThread
<1>o. ASSUME NEW p \in Procs, lock = p, lock' = NoProc,
             NEW phase \in PC \ InLoop, pc' = [pc EXCEPT ![p] = phase]
      PROVE  /\ pc' \in [Procs -> PC] /\ lock' \in Procs \cup {NoProc}
             /\ \A q \in Procs : pc'[q] \in InLoop <=> lock' = q
  BY <1>o
<1>c. ASSUME NEW p \in Procs, lock # p, lock' = lock,
             NEW phase \in PC \ InLoop, pc' = [pc EXCEPT ![p] = phase]
      PROVE  /\ pc' \in [Procs -> PC] /\ lock' \in Procs \cup {NoProc}
             /\ \A q \in Procs : pc'[q] \in InLoop <=> lock' = q
  BY <1>c
<1>m. ASSUME NEW p \in Procs, pc[p] \in InLoop, NEW phase \in InLoop,
             pc' = [pc EXCEPT ![p] = phase], lock' = lock
      PROVE  /\ pc' \in [Procs -> PC] /\ lock' \in Procs \cup {NoProc}
             /\ \A q \in Procs : pc'[q] \in InLoop <=> lock' = q
  BY <1>m
<1>q. ASSUME /\ pc' \in [Procs -> PC] /\ lock' \in Procs \cup {NoProc}
             /\ \A q \in Procs : pc'[q] \in InLoop <=> lock' = q,
             thread' \in [Procs -> [Killer -> Aims]],
             UNCHANGED <<mine, left, tally, stop, told, late, saw, recordVars>>,
             active' \in BOOLEAN, child' \in {"none", "alive", "zombie"},
             stray' \in {"no", "dead", "alive"}, unseen' \subseteq Fingerprints,
             finished' \in 0..MaxFinished, finished <= finished', events' \in Nat
      PROVE  Kept'
  <2>1. camp'.before <= finished' /\ \A p \in Procs : mine'[p].before <= finished'
    <3>1. camp.before \in Nat /\ finished \in Nat /\ finished' \in Nat
      BY <1>q
    <3>2. \A p \in Procs : mine[p].before \in Nat
      OBVIOUS
    <3> QED
      BY <1>q, <3>1, <3>2
  <2> QED
    BY <1>q, <2>1
<1>1. ASSUME NEW p \in Procs, Resume(p) PROVE Kept'
  BY <1>1 DEF Resume, Starts, Happens, Baseline
<1>2. ASSUME NEW p \in Procs, CountBefore(p) PROVE Kept'
  BY <1>2 DEF CountBefore, Starts, Happens
<1>3. ASSUME NEW p \in Procs, Mark(p) PROVE Kept'
  <2>m. campaigns < MaxCampaigns /\ campaigns' = campaigns + 1
    BY <1>3, Zenon DEF Mark
  <2>n. campaigns + 1 \in Ids /\ campaigns + 1 \in 0..MaxCampaigns
    BY <2>m DEF Ids
  <2>0. PICK c \in Ids : c = campaigns + 1 /\ c = campaigns' /\ c \in 0..MaxCampaigns
    BY <2>m, <2>n
  <2>b. missed' \subseteq missed \cup {camp.id} /\ overrun' \subseteq overrun \cup {camp.id}
        /\ reports' = reports
    BY <1>3, Zenon DEF Mark
  <2>a. /\ mine' = [mine EXCEPT ![p].id = c]
        /\ camp' = [id |-> c, left |-> left[p], before |-> mine[p].before]
        /\ origin' = [origin EXCEPT ![c] = mine[p].before]
    BY <1>3, <2>0 DEF Mark
  <2>1. /\ pc' \in [Procs -> PC] /\ lock' \in Procs \cup {NoProc}
        /\ \A q \in Procs : pc'[q] \in InLoop <=> lock' = q
    BY <1>3, <1>i, <2>0, <2>a DEF Mark, Ids
  <2>2. thread' \in [Procs -> [Killer -> Aims]]
    BY <1>3, <1>i, <2>0, <2>a DEF Mark, Ids
  <2>3. /\ camp' \in [id : 0..MaxCampaigns, left : 0..Duration, before : 0..MaxFinished]
        /\ campaigns' \in 0..MaxCampaigns /\ origin' \in [Ids -> 0..MaxFinished]
        /\ reports' \subseteq 0..MaxCampaigns /\ missed' \subseteq 0..MaxCampaigns
        /\ overrun' \subseteq 0..MaxCampaigns
    BY <1>i, <2>0, <2>a, <2>b
  <2>4. /\ mine' \in [Procs -> Mine] /\ left' \in [Procs -> 0..Duration]
        /\ tally' \in [Procs -> 0..MaxFinished]
        /\ stop' \in [Procs -> BOOLEAN] /\ told' \in [Procs -> BOOLEAN]
        /\ saw' \in [Procs -> 0..MaxCampaigns] /\ late' \in [Procs -> Nat]
    <3>1. mine' \in [Procs -> Mine]
      BY <2>0, <2>a
    <3>2. UNCHANGED <<left, tally, stop, told, saw, late>>
      BY <1>3, Zenon DEF Mark
    <3> QED
      BY <3>1, <3>2
  <2>5. /\ active' \in BOOLEAN /\ child' \in {"none", "alive", "zombie"}
        /\ stray' \in {"no", "dead", "alive"} /\ unseen' \subseteq Fingerprints
        /\ finished' \in 0..MaxFinished /\ events' \in Nat
    BY <1>3, <1>i, <2>0, <2>a DEF Mark, Ids
  <2>6. camp'.before <= finished' /\ \A q \in Procs : mine'[q].before <= finished'
    <3>1. finished' = finished
      BY <1>3, Zenon DEF Mark
    <3> QED
      BY <2>a, <3>1
  <2> QED
    BY <2>1, <2>2, <2>3, <2>4, <2>5, <2>6
<1>4. ASSUME NEW p \in Procs, Enter(p) PROVE Kept'
  <2>1. /\ pc' \in [Procs -> PC] /\ lock' \in Procs \cup {NoProc}
        /\ \A q \in Procs : pc'[q] \in InLoop <=> lock' = q
    <3>1. CASE LockFree
      <4>1. pc[p] = "enter" /\ lock = NoProc /\ lock' = p /\ pc' = [pc EXCEPT ![p] = "round"]
        BY <1>4, <3>1 DEF Enter, LockFree
      <4> QED
        BY <4>1
    <3>2. CASE ~LockFree
      <4>1. pc[p] = "enter" /\ lock' = lock /\ pc' = [pc EXCEPT ![p] = "off"]
        BY <1>4, <1>f, <3>2 DEF Enter
      <4> QED
        BY <4>1
    <3> QED
      BY <3>1, <3>2
  <2>2. thread' \in [Procs -> [Killer -> Aims]]
    <3>1. \/ UNCHANGED thread
          \/ thread' = [thread EXCEPT ![p] =
                          [k \in Killer |-> IF k \in Kinds THEN "waiting" ELSE "over"]]
      BY <1>4, Zenon DEF Enter
    <3>2. [k \in Killer |-> IF k \in Kinds THEN "waiting" ELSE "over"] \in [Killer -> Aims]
      BY <1>a
    <3>3. CASE UNCHANGED thread
      BY <3>3
    <3>4. CASE thread' = [thread EXCEPT ![p] =
                            [k \in Killer |-> IF k \in Kinds THEN "waiting" ELSE "over"]]
      BY <3>2, <3>4
    <3> QED
      BY <3>1, <3>3, <3>4
  <2>3. /\ camp' \in [id : 0..MaxCampaigns, left : 0..Duration, before : 0..MaxFinished]
        /\ campaigns' \in 0..MaxCampaigns /\ origin' \in [Ids -> 0..MaxFinished]
        /\ reports' \subseteq 0..MaxCampaigns /\ missed' \subseteq 0..MaxCampaigns
        /\ overrun' \subseteq 0..MaxCampaigns
    BY <1>4, <1>f DEF Enter, LockFree, Kinds
  <2>4. /\ mine' \in [Procs -> Mine] /\ left' \in [Procs -> 0..Duration]
        /\ tally' \in [Procs -> 0..MaxFinished]
        /\ stop' \in [Procs -> BOOLEAN] /\ told' \in [Procs -> BOOLEAN]
        /\ saw' \in [Procs -> 0..MaxCampaigns] /\ late' \in [Procs -> Nat]
    BY <1>4, <1>f DEF Enter, LockFree, Kinds
  <2>5. /\ active' \in BOOLEAN /\ child' \in {"none", "alive", "zombie"}
        /\ stray' \in {"no", "dead", "alive"} /\ unseen' \subseteq Fingerprints
        /\ finished' \in 0..MaxFinished /\ events' \in Nat
    BY <1>4, <1>f DEF Enter, LockFree, Kinds
  <2>6. camp'.before <= finished' /\ \A q \in Procs : mine'[q].before <= finished'
    BY <1>4, <1>f DEF Enter, LockFree, Kinds
  <2> QED
    BY <2>1, <2>2, <2>3, <2>4, <2>5, <2>6
<1>5. ASSUME NEW p \in Procs, Round(p) PROVE Kept'
  <2>1. /\ pc' \in [Procs -> PC] /\ lock' \in Procs \cup {NoProc}
        /\ \A q \in Procs : pc'[q] \in InLoop <=> lock' = q
    <3>1. CASE GoesOn(p)
      <4>1. pc[p] = "round" /\ pc' = [pc EXCEPT ![p] = "recover"] /\ lock' = lock
        BY <1>5, <3>1 DEF Round
      <4> QED
        BY <1>m, <4>1
    <3>2. CASE ~GoesOn(p)
      BY <1>5, <1>o, <3>2 DEF Round
    <3> QED
      BY <3>1, <3>2
  <2>2. thread' \in [Procs -> [Killer -> Aims]]
    <3>1. UNCHANGED thread \/ thread' = [thread EXCEPT ![p] = EndWaiting(@)]
      BY <1>5, Zenon DEF Round
    <3> QED
      BY <1>e, <3>1
  <2>3. /\ camp' \in [id : 0..MaxCampaigns, left : 0..Duration, before : 0..MaxFinished]
        /\ campaigns' \in 0..MaxCampaigns /\ origin' \in [Ids -> 0..MaxFinished]
        /\ reports' \subseteq 0..MaxCampaigns /\ missed' \subseteq 0..MaxCampaigns
        /\ overrun' \subseteq 0..MaxCampaigns
    BY <1>5 DEF Round, EndWaiting
  <2>4. /\ mine' \in [Procs -> Mine] /\ left' \in [Procs -> 0..Duration]
        /\ tally' \in [Procs -> 0..MaxFinished]
        /\ stop' \in [Procs -> BOOLEAN] /\ told' \in [Procs -> BOOLEAN]
        /\ saw' \in [Procs -> 0..MaxCampaigns] /\ late' \in [Procs -> Nat]
    BY <1>5 DEF Round, EndWaiting
  <2>5. /\ active' \in BOOLEAN /\ child' \in {"none", "alive", "zombie"}
        /\ stray' \in {"no", "dead", "alive"} /\ unseen' \subseteq Fingerprints
        /\ finished' \in 0..MaxFinished /\ events' \in Nat
    BY <1>5 DEF Round, EndWaiting
  <2>6. camp'.before <= finished' /\ \A q \in Procs : mine'[q].before <= finished'
    BY <1>5 DEF Round, EndWaiting
  <2> QED
    BY <2>1, <2>2, <2>3, <2>4, <2>5, <2>6
<1>6. ASSUME NEW p \in Procs, Recover(p) PROVE Kept'
  <2>1. /\ pc' \in [Procs -> PC] /\ lock' \in Procs \cup {NoProc}
        /\ \A q \in Procs : pc'[q] \in InLoop <=> lock' = q
    BY <1>6, <1>m DEF Recover
  <2>2. UNCHANGED <<mine, left, tally, stop, told, late, saw, recordVars>>
    BY <1>6, Zenon DEF Recover
  <2>3. PICK rows \in SUBSET Row :
          /\ Settle(rows)
          /\ IF "newest" \in rows THEN active' = FALSE /\ child' = "none"
                                  ELSE UNCHANGED <<active, child>>
          /\ stray' = IF "stray" \in rows THEN "no" ELSE stray
    BY <1>6, Zenon DEF Recover
  <2>4. thread' \in [Procs -> [Killer -> Aims]]
    BY <1>l, <2>3
  <2>5. UNCHANGED <<finished, unseen, events>>
    BY <1>6, Zenon DEF Recover
  <2> QED
    BY <1>q, <2>1, <2>2, <2>3, <2>4, <2>5
<1>7. ASSUME NEW p \in Procs, Gate(p) \/ LeaseBusy(p) PROVE Kept'
  <2>1. pc[p] \in InLoop /\ \E phase \in InLoop : pc' = [pc EXCEPT ![p] = phase]
    BY <1>7 DEF Gate, LeaseBusy
  <2>2. /\ UNCHANGED <<mine, left, tally, stop, thread, lock, told, late, saw, rowVars, finished,
                        recordVars, events>>
        /\ unseen' \subseteq unseen
    BY <1>7 DEF Gate, LeaseBusy
  <2> QED
    BY <1>m, <1>q, <2>1, <2>2
<1>8. ASSUME NEW p \in Procs, Launch(p) \/ LaunchReviewer(p) PROVE Kept'
  <2>1. /\ pc' \in [Procs -> PC] /\ lock' \in Procs \cup {NoProc}
        /\ \A q \in Procs : pc'[q] \in InLoop <=> lock' = q
    BY <1>8 DEF Launch, LaunchReviewer, Runs
  <2>2. thread' \in [Procs -> [Killer -> Aims]]
    <3>1. \/ UNCHANGED thread
          \/ thread' = [q \in Procs |-> [k \in Killer |->
                           IF thread[q][k] = "newest" THEN "stray" ELSE thread[q][k]]]
      BY <1>8, Zenon DEF Launch, LaunchReviewer
    <3>2. CASE UNCHANGED thread
      BY <3>2
    <3>3. CASE thread' = [q \in Procs |-> [k \in Killer |->
                            IF thread[q][k] = "newest" THEN "stray" ELSE thread[q][k]]]
      <4>1. \A q \in Procs : \A k \in Killer :
              (IF thread[q][k] = "newest" THEN "stray" ELSE thread[q][k]) \in Aims
        BY <1>a
      <4> QED
        BY <3>3, <4>1
    <3> QED
      BY <3>1, <3>2, <3>3
  <2>3. /\ camp' \in [id : 0..MaxCampaigns, left : 0..Duration, before : 0..MaxFinished]
        /\ campaigns' \in 0..MaxCampaigns /\ origin' \in [Ids -> 0..MaxFinished]
        /\ reports' \subseteq 0..MaxCampaigns /\ missed' \subseteq 0..MaxCampaigns
        /\ overrun' \subseteq 0..MaxCampaigns
    BY <1>8 DEF Launch, LaunchReviewer, Runs
  <2>4. /\ mine' \in [Procs -> Mine] /\ left' \in [Procs -> 0..Duration]
        /\ tally' \in [Procs -> 0..MaxFinished]
        /\ stop' \in [Procs -> BOOLEAN] /\ told' \in [Procs -> BOOLEAN]
        /\ saw' \in [Procs -> 0..MaxCampaigns] /\ late' \in [Procs -> Nat]
    <3>1. UNCHANGED <<mine, left, tally, stop, told, saw>>
      BY <1>8, Zenon DEF Launch, LaunchReviewer
    <3>2. late' \in [Procs -> Nat]
      BY <1>8 DEF Launch, LaunchReviewer
    <3> QED
      BY <3>1, <3>2
  <2>5. /\ active' \in BOOLEAN /\ child' \in {"none", "alive", "zombie"}
        /\ stray' \in {"no", "dead", "alive"} /\ unseen' \subseteq Fingerprints
        /\ finished' \in 0..MaxFinished /\ events' \in Nat
    BY <1>8 DEF Launch, LaunchReviewer, Runs
  <2>6. camp'.before <= finished' /\ \A q \in Procs : mine'[q].before <= finished'
    BY <1>8 DEF Launch, LaunchReviewer, Runs
  <2> QED
    BY <2>1, <2>2, <2>3, <2>4, <2>5, <2>6
<1>9. ASSUME NEW p \in Procs, Collect(p) PROVE Kept'
  <2>1. pc[p] \in InLoop /\ \E phase \in InLoop : pc' = [pc EXCEPT ![p] = phase]
    BY <1>9 DEF Collect
  <2>2. /\ UNCHANGED <<mine, left, tally, stop, lock, told, late, saw, stray, finished, unseen,
                        recordVars, events>>
        /\ child' = "none" /\ active' = FALSE
    BY <1>9, Zenon DEF Collect
  <2>3. thread' \in [Procs -> [Killer -> Aims]]
    BY <1>9, <1>l DEF Collect, Row
  <2> QED
    BY <1>m, <1>q, <2>1, <2>2, <2>3
<1>10. ASSUME NEW p \in Procs, Finish(p) \/ Fail(p) PROVE Kept'
  <2>1. pc[p] \in InLoop /\ pc' = [pc EXCEPT ![p] = "round"]
    BY <1>10 DEF Finish, Fail, Ends, Ending
  <2>2. /\ UNCHANGED <<mine, left, tally, stop, thread, lock, told, late, saw, rowVars,
                        recordVars, events>>
        /\ unseen' = {}
    BY <1>10, Zenon DEF Finish, Fail, Ends
  <2>3. finished' \in 0..MaxFinished /\ finished <= finished'
    BY <1>10 DEF Finish, Fail
  <2> QED
    BY <1>m, <1>q, <2>1, <2>2, <2>3
<1>12. ASSUME NEW p \in Procs, NEW k \in Killer, Aim(p, k) \/ Kill(p, k) PROVE Kept'
  <2>1. /\ pc' \in [Procs -> PC] /\ lock' \in Procs \cup {NoProc}
        /\ \A q \in Procs : pc'[q] \in InLoop <=> lock' = q
    BY <1>12 DEF Aim, Kill, SetThread, GoesOnAs, Corpse
  <2>2. thread' \in [Procs -> [Killer -> Aims]]
    <3>1. \E w \in Aims : SetThread(p, k, w)
      BY <1>12, <1>a DEF Aim, Kill, GoesOnAs
    <3> QED
      BY <1>s, <3>1
  <2>3. /\ camp' \in [id : 0..MaxCampaigns, left : 0..Duration, before : 0..MaxFinished]
        /\ campaigns' \in 0..MaxCampaigns /\ origin' \in [Ids -> 0..MaxFinished]
        /\ reports' \subseteq 0..MaxCampaigns /\ missed' \subseteq 0..MaxCampaigns
        /\ overrun' \subseteq 0..MaxCampaigns
    BY <1>12 DEF Aim, Kill, SetThread, GoesOnAs, Corpse
  <2>4. /\ mine' \in [Procs -> Mine] /\ left' \in [Procs -> 0..Duration]
        /\ tally' \in [Procs -> 0..MaxFinished]
        /\ stop' \in [Procs -> BOOLEAN] /\ told' \in [Procs -> BOOLEAN]
        /\ saw' \in [Procs -> 0..MaxCampaigns] /\ late' \in [Procs -> Nat]
    BY <1>12 DEF Aim, Kill, SetThread, GoesOnAs, Corpse
  <2>5. /\ active' \in BOOLEAN /\ child' \in {"none", "alive", "zombie"}
        /\ stray' \in {"no", "dead", "alive"} /\ unseen' \subseteq Fingerprints
        /\ finished' \in 0..MaxFinished /\ events' \in Nat
    BY <1>12 DEF Aim, Kill, SetThread, GoesOnAs, Corpse
  <2>6. camp'.before <= finished' /\ \A q \in Procs : mine'[q].before <= finished'
    BY <1>12 DEF Aim, Kill, SetThread, GoesOnAs, Corpse
  <2> QED
    BY <2>1, <2>2, <2>3, <2>4, <2>5, <2>6
<1>13. ASSUME NEW p \in Procs, Count(p) PROVE Kept'
  BY <1>13 DEF Count
<1>14. ASSUME NEW p \in Procs, Report(p) PROVE Kept'
  <2>1. /\ pc' \in [Procs -> PC] /\ lock' \in Procs \cup {NoProc}
        /\ \A q \in Procs : pc'[q] \in InLoop <=> lock' = q
    BY <1>14, <1>i DEF Report
  <2>2. thread' \in [Procs -> [Killer -> Aims]]
    BY <1>14, <1>i DEF Report
  <2>3. /\ camp' \in [id : 0..MaxCampaigns, left : 0..Duration, before : 0..MaxFinished]
        /\ campaigns' \in 0..MaxCampaigns /\ origin' \in [Ids -> 0..MaxFinished]
        /\ reports' \subseteq 0..MaxCampaigns /\ missed' \subseteq 0..MaxCampaigns
        /\ overrun' \subseteq 0..MaxCampaigns
    BY <1>14, <1>i DEF Report
  <2>4. /\ mine' \in [Procs -> Mine] /\ left' \in [Procs -> 0..Duration]
        /\ tally' \in [Procs -> 0..MaxFinished]
        /\ stop' \in [Procs -> BOOLEAN] /\ told' \in [Procs -> BOOLEAN]
        /\ saw' \in [Procs -> 0..MaxCampaigns] /\ late' \in [Procs -> Nat]
    BY <1>14, <1>i DEF Report
  <2>5. /\ active' \in BOOLEAN /\ child' \in {"none", "alive", "zombie"}
        /\ stray' \in {"no", "dead", "alive"} /\ unseen' \subseteq Fingerprints
        /\ finished' \in 0..MaxFinished /\ events' \in Nat
    BY <1>14, <1>i DEF Report
  <2>6. camp'.before <= finished' /\ \A q \in Procs : mine'[q].before <= finished'
    BY <1>14, <1>i DEF Report
  <2> QED
    BY <2>1, <2>2, <2>3, <2>4, <2>5, <2>6
<1>15. ASSUME NEW p \in Procs, Clear(p) PROVE Kept'
  <2>1. /\ pc' \in [Procs -> PC] /\ lock' \in Procs \cup {NoProc}
        /\ \A q \in Procs : pc'[q] \in InLoop <=> lock' = q
    <3>1. lock # p /\ lock' = lock /\ pc' = [pc EXCEPT ![p] = "off"]
      BY <1>15 DEF Clear, Forgets
    <3>2. "off" \in PC \ InLoop
      OBVIOUS
    <3> QED
      BY <1>c, <3>1, <3>2
  <2>2. thread' \in [Procs -> [Killer -> Aims]]
    BY <1>15, <1>f, <1>i DEF Clear, NoCampaign
  <2>3. /\ camp' \in [id : 0..MaxCampaigns, left : 0..Duration, before : 0..MaxFinished]
        /\ campaigns' \in 0..MaxCampaigns /\ origin' \in [Ids -> 0..MaxFinished]
        /\ reports' \subseteq 0..MaxCampaigns /\ missed' \subseteq 0..MaxCampaigns
        /\ overrun' \subseteq 0..MaxCampaigns
    <3>1. overrun' \subseteq overrun \cup {camp.id} /\ camp' = NoCampaign
          /\ UNCHANGED <<campaigns, origin, reports, missed>>
      BY <1>15, Zenon DEF Clear
    <3> QED
      BY <1>i, <3>1 DEF NoCampaign
  <2>4. /\ mine' \in [Procs -> Mine] /\ left' \in [Procs -> 0..Duration]
        /\ tally' \in [Procs -> 0..MaxFinished]
        /\ stop' \in [Procs -> BOOLEAN] /\ told' \in [Procs -> BOOLEAN]
        /\ saw' \in [Procs -> 0..MaxCampaigns] /\ late' \in [Procs -> Nat]
    BY <1>15, <1>f, <1>i DEF Clear, NoCampaign
  <2>5. /\ active' \in BOOLEAN /\ child' \in {"none", "alive", "zombie"}
        /\ stray' \in {"no", "dead", "alive"} /\ unseen' \subseteq Fingerprints
        /\ finished' \in 0..MaxFinished /\ events' \in Nat
    BY <1>15, <1>f, <1>i DEF Clear, NoCampaign
  <2>6. camp'.before <= finished' /\ \A q \in Procs : mine'[q].before <= finished'
    BY <1>15, <1>f, <1>i DEF Clear, NoCampaign
  <2> QED
    BY <2>1, <2>2, <2>3, <2>4, <2>5, <2>6
<1>16. ASSUME NEW p \in Procs, Tell(p) PROVE Kept'
  BY <1>16 DEF Tell, Happens
<1>17. ASSUME NEW p \in Procs, Crash(p) PROVE Kept'
  <2>1. /\ pc' \in [Procs -> PC] /\ lock' \in Procs \cup {NoProc}
        /\ \A q \in Procs : pc'[q] \in InLoop <=> lock' = q
    <3>1. CASE lock = p
      BY <1>17, <1>o, <3>1 DEF Crash, Forgets
    <3>2. CASE lock # p
      <4>1. lock' = lock /\ pc' = [pc EXCEPT ![p] = "off"]
        BY <1>17, <3>2 DEF Crash, Forgets
      <4>2. "off" \in PC \ InLoop
        OBVIOUS
      <4> QED
        BY <1>c, <3>2, <4>1, <4>2
    <3> QED
      BY <3>1, <3>2
  <2>2. thread' \in [Procs -> [Killer -> Aims]]
    BY <1>17, <1>a DEF Crash
  <2>3. /\ camp' \in [id : 0..MaxCampaigns, left : 0..Duration, before : 0..MaxFinished]
        /\ campaigns' \in 0..MaxCampaigns /\ origin' \in [Ids -> 0..MaxFinished]
        /\ reports' \subseteq 0..MaxCampaigns /\ missed' \subseteq 0..MaxCampaigns
        /\ overrun' \subseteq 0..MaxCampaigns
    BY <1>17, <1>f DEF Crash, Happens
  <2>4. /\ mine' \in [Procs -> Mine] /\ left' \in [Procs -> 0..Duration]
        /\ tally' \in [Procs -> 0..MaxFinished]
        /\ stop' \in [Procs -> BOOLEAN] /\ told' \in [Procs -> BOOLEAN]
        /\ saw' \in [Procs -> 0..MaxCampaigns] /\ late' \in [Procs -> Nat]
    BY <1>17, <1>f DEF Crash, Happens
  <2>5. /\ active' \in BOOLEAN /\ child' \in {"none", "alive", "zombie"}
        /\ stray' \in {"no", "dead", "alive"} /\ unseen' \subseteq Fingerprints
        /\ finished' \in 0..MaxFinished /\ events' \in Nat
    BY <1>17, <1>f DEF Crash, Happens
  <2>6. camp'.before <= finished' /\ \A q \in Procs : mine'[q].before <= finished'
    BY <1>17, <1>f DEF Crash, Happens
  <2> QED
    BY <2>1, <2>2, <2>3, <2>4, <2>5, <2>6
<1>18. CASE ChildEnds
  BY <1>18 DEF ChildEnds, Corpse
<1>19. CASE Lift
  BY <1>19 DEF Lift, Happens
<1>20. CASE OneShot
  BY <1>20 DEF OneShot, Happens
<1>21. CASE ClockTick
  <2>1. /\ pc' \in [Procs -> PC] /\ lock' \in Procs \cup {NoProc}
        /\ \A q \in Procs : pc'[q] \in InLoop <=> lock' = q
    BY <1>21 DEF ClockTick
  <2>2. thread' \in [Procs -> [Killer -> Aims]]
    BY <1>21 DEF ClockTick
  <2>3. /\ camp' \in [id : 0..MaxCampaigns, left : 0..Duration, before : 0..MaxFinished]
        /\ campaigns' \in 0..MaxCampaigns /\ origin' \in [Ids -> 0..MaxFinished]
        /\ reports' \subseteq 0..MaxCampaigns /\ missed' \subseteq 0..MaxCampaigns
        /\ overrun' \subseteq 0..MaxCampaigns
    <3>1. camp' = [camp EXCEPT !.left = IF @ = 0 THEN 0 ELSE @ - 1]
          /\ UNCHANGED <<campaigns, origin, reports, missed, overrun>>
      BY <1>21, Zenon DEF ClockTick
    <3> QED
      BY <3>1
  <2>4. /\ mine' \in [Procs -> Mine] /\ left' \in [Procs -> 0..Duration]
        /\ tally' \in [Procs -> 0..MaxFinished]
        /\ stop' \in [Procs -> BOOLEAN] /\ told' \in [Procs -> BOOLEAN]
        /\ saw' \in [Procs -> 0..MaxCampaigns] /\ late' \in [Procs -> Nat]
    BY <1>21 DEF ClockTick
  <2>5. /\ active' \in BOOLEAN /\ child' \in {"none", "alive", "zombie"}
        /\ stray' \in {"no", "dead", "alive"} /\ unseen' \subseteq Fingerprints
        /\ finished' \in 0..MaxFinished /\ events' \in Nat
    BY <1>21 DEF ClockTick
  <2>6. camp'.before <= finished' /\ \A q \in Procs : mine'[q].before <= finished'
    BY <1>21 DEF ClockTick
  <2> QED
    BY <2>1, <2>2, <2>3, <2>4, <2>5, <2>6
<1>22. CASE UNCHANGED vars
  BY <1>22 DEF vars
<1> QED
  BY <1>1, <1>2, <1>3, <1>4, <1>5, <1>6, <1>7, <1>8, <1>9, <1>10, <1>12, <1>13,
     <1>14, <1>15, <1>16, <1>17, <1>18, <1>19, <1>20, <1>21, <1>22
  DEF Next, Begins, Loops, Kills, Concludes

LEMMA KeptHolds == Spec => []Kept
<1>1. Init => Kept
  <2> SUFFICES ASSUME Init PROVE Kept
    OBVIOUS
  <2> USE Sizes DEF Init
  <2>1. /\ pc \in [Procs -> PC] /\ lock \in Procs \cup {NoProc}
        /\ \A p \in Procs : pc[p] \in InLoop <=> lock = p
    BY CampaignAssumption DEF PC, InLoop, InTick
  <2>2. /\ mine \in [Procs -> Mine] /\ left \in [Procs -> 0..Duration]
        /\ tally \in [Procs -> 0..MaxFinished] /\ origin \in [Ids -> 0..MaxFinished]
        /\ saw \in [Procs -> 0..MaxCampaigns] /\ late \in [Procs -> Nat]
        /\ thread \in [Procs -> [Killer -> Aims]]
    BY DEF Mine, Aims
  <2>3. /\ camp \in [id : 0..MaxCampaigns, left : 0..Duration, before : 0..MaxFinished]
        /\ finished \in 0..MaxFinished /\ campaigns \in 0..MaxCampaigns
        /\ camp.before <= finished
    BY DEF NoCampaign
  <2>4. /\ stop \in [Procs -> BOOLEAN] /\ told \in [Procs -> BOOLEAN]
        /\ active \in BOOLEAN /\ child \in {"none", "alive", "zombie"}
        /\ stray \in {"no", "dead", "alive"} /\ unseen \subseteq Fingerprints
        /\ reports \subseteq 0..MaxCampaigns /\ missed \subseteq 0..MaxCampaigns
        /\ overrun \subseteq 0..MaxCampaigns /\ events \in Nat
    OBVIOUS
  <2>5. \A p \in Procs : mine[p].before <= finished
    OBVIOUS
  <2> HIDE DEF Init
  <2> QED
    BY <2>1, <2>2, <2>3, <2>4, <2>5 DEF Kept, CampaignOK, Past
<1> QED
  BY <1>1, KeptStep, PTL DEF Spec

-----------------------------------------------------------------------------
(* Campaigns and the checkpoint *)

(* A process at work, and the checkpoint, name a campaign that was started *)
(* and count from its beginning; a process about to replace the checkpoint *)
(* has seen that it is over; a process about to clear it has reported.     *)
Known ==
    /\ \A p \in Procs :
          /\ pc[p] \notin {"off", "mark"} => /\ mine[p].id \in 1..campaigns
                                             /\ mine[p].before = origin[mine[p].id]
          /\ saw[p] <= campaigns
          /\ pc[p] = "mark" /\ saw[p] = camp.id => camp.left = 0
          /\ pc[p] = "clear" => mine[p].id \in reports
    /\ camp.id <= campaigns
    /\ camp.id # 0 => camp.before = origin[camp.id]
    /\ camp.id = 0 => camp.left = 0

records == <<camp, campaigns, origin, reports, missed, overrun>>
(* Steps that move a process on, past the mark and short of the report,    *)
(* or end it.                                                              *)
Moves ==
    \A q \in Procs :
        \/ pc'[q] = "off" /\ saw'[q] = 0
        \/ /\ mine'[q] = mine[q] /\ saw'[q] = saw[q]
           /\ \/ pc'[q] = pc[q]
              \/ pc[q] \notin {"off", "mark"} /\ pc'[q] \notin {"off", "mark", "clear"}

LEMMA MovesKeep ==
    ASSUME Kept, Known, NoCampaignForgotten, Moves, UNCHANGED records
    PROVE  Known' /\ NoCampaignForgotten'
<1>1. campaigns \in Nat
  BY Sizes DEF Kept, CampaignOK
<1>2. NoCampaignForgotten'
  BY DEF NoCampaignForgotten, records
<1>3. Known'
  BY <1>1 DEF Known, Moves, records
<1> QED
  BY <1>2, <1>3

LEMMA LoopMoves ==
    ASSUME Kept, NEW p \in Procs, Enter(p) \/ Loops(p) \/ Kills(p) \/ Count(p)
    PROVE  Moves /\ UNCHANGED records
<1> USE DEF Kept, CampaignOK, Goto, Step, At, procVars, tickVars, recordVars, records, Moves
<1>1. CASE Enter(p)
  BY <1>1 DEF Enter, Forgets
<1>2. CASE Round(p) \/ Recover(p) \/ Gate(p) \/ LeaseBusy(p)
  BY <1>2 DEF Round, Recover, Gate, LeaseBusy
<1>3. CASE Launch(p) \/ LaunchReviewer(p)
  BY <1>3 DEF Launch, LaunchReviewer
<1>4. CASE Collect(p)
  BY <1>4 DEF Collect, Watching
<1>5. CASE Finish(p) \/ Fail(p)
  BY <1>5 DEF Finish, Fail, Ends, Ending
<1>6. CASE Kills(p)
  BY <1>6 DEF Kills, Aim, Kill
<1>7. CASE Count(p)
  BY <1>7 DEF Count
<1> QED
  BY <1>1, <1>2, <1>3, <1>4, <1>5, <1>6, <1>7 DEF Loops

LEMMA OtherMoves ==
    ASSUME Kept,
           \/ \E p \in Procs : Tell(p) \/ Crash(p)
           \/ ChildEnds \/ Lift \/ OneShot \/ UNCHANGED vars
    PROVE  Moves /\ UNCHANGED records
<1> USE DEF Kept, CampaignOK, procVars, tickVars, recordVars, records, Moves
<1>1. ASSUME NEW p \in Procs, Tell(p) PROVE Moves /\ UNCHANGED records
  BY <1>1 DEF Tell
<1>2. ASSUME NEW p \in Procs, Crash(p) PROVE Moves /\ UNCHANGED records
  BY <1>2 DEF Crash, Forgets, Goto
<1>3. CASE ChildEnds \/ Lift \/ OneShot \/ UNCHANGED vars
  BY <1>3 DEF ChildEnds, Lift, OneShot, vars
<1> QED
  BY <1>1, <1>2, <1>3

LEMMA KnownStep ==
    ASSUME Kept, Known, NoCampaignForgotten, [Next]_vars
    PROVE  Known' /\ NoCampaignForgotten'
<1> USE DEF Goto, Step, At, recordVars
<1>t. /\ campaigns \in Nat /\ MaxCampaigns \in Nat
      /\ camp \in [id : 0..MaxCampaigns, left : 0..Duration, before : 0..MaxFinished]
      /\ pc \in [Procs -> PC] /\ mine \in [Procs -> Mine] /\ saw \in [Procs -> 0..MaxCampaigns]
      /\ left \in [Procs -> 0..Duration] /\ origin \in [Ids -> 0..MaxFinished]
  BY Sizes DEF Kept, CampaignOK
<1>1. ASSUME NEW p \in Procs, Resume(p) PROVE Known' /\ NoCampaignForgotten'
  <2>1. /\ pc' = [pc EXCEPT ![p] = "enter"] /\ camp.left > 0
        /\ mine' = [mine EXCEPT ![p] = [id |-> camp.id, before |-> camp.before]]
        /\ UNCHANGED <<saw, camp, campaigns, origin, reports, missed, overrun>>
    BY <1>1 DEF Resume, Resumable, Baseline
  <2>2. camp.id \in 1..campaigns /\ camp.before = origin[camp.id]
    BY <1>t, <2>1 DEF Known
  <2>3. NoCampaignForgotten'
    BY <2>1 DEF NoCampaignForgotten
  <2> QED
    BY <1>t, <2>1, <2>2, <2>3 DEF Known
<1>2. ASSUME NEW p \in Procs, CountBefore(p) PROVE Known' /\ NoCampaignForgotten'
  <2>1. /\ pc' = [pc EXCEPT ![p] = "mark"] /\ ~(camp.left > 0)
        /\ \A q \in Procs \ {p} : mine'[q] = mine[q]
        /\ saw' = [saw EXCEPT ![p] = camp.id]
        /\ UNCHANGED <<camp, campaigns, origin, reports, missed, overrun>>
    BY <1>2, <1>t DEF CountBefore, Resumable
  <2>2. camp.left = 0
    BY <1>t, <2>1, Sizes
  <2>3. NoCampaignForgotten'
    BY <2>1 DEF NoCampaignForgotten
  <2> QED
    BY <1>t, <2>1, <2>2, <2>3 DEF Known
<1>3. ASSUME NEW p \in Procs, Mark(p) PROVE Known' /\ NoCampaignForgotten'
  <2>0. PICK c \in Nat : c = campaigns + 1
    BY <1>t
  <2>1. /\ pc[p] = "mark" /\ pc' = [pc EXCEPT ![p] = "enter"]
        /\ campaigns' = c /\ campaigns < MaxCampaigns
        /\ mine' = [mine EXCEPT ![p].id = c]
        /\ camp' = [id |-> c, left |-> left[p], before |-> mine[p].before]
        /\ origin' = [origin EXCEPT ![c] = mine[p].before]
        /\ missed' = IF camp.left = 0 THEN missed \cup ({camp.id} \ {0}) ELSE missed
        /\ overrun' = overrun \cup ({camp.id} \ {0, saw[p]})
        /\ UNCHANGED <<saw, reports>>
    BY <1>3, <2>0 DEF Mark
  <2>2. c \in Ids /\ c \notin 1..campaigns /\ 1..c = (1..campaigns) \cup {c}
    BY <1>t, <2>0, <2>1 DEF Ids
  <2>3. /\ mine'[p].id = c /\ mine'[p].before = mine[p].before
        /\ \A q \in Procs \ {p} : mine'[q] = mine[q]
    BY <1>t, <2>1 DEF Mine
  <2>4. origin'[c] = mine[p].before /\ \A i \in 1..campaigns : origin'[i] = origin[i]
    BY <1>t, <2>1, <2>2 DEF Ids
  <2>5. camp.id \in {0} \cup missed' \cup overrun'
    BY <2>1 DEF Known
  <2>6. NoCampaignForgotten'
    BY <2>1, <2>2, <2>5 DEF NoCampaignForgotten
  <2>7. \A q \in Procs : saw'[q] <= c /\ saw'[q] # c
    BY <1>t, <2>0, <2>1 DEF Known
  <2>8. \A q \in Procs : pc'[q] \notin {"off", "mark"} =>
           mine'[q].id \in 1..c /\ mine'[q].before = origin'[mine'[q].id]
    BY <1>t, <2>0, <2>1, <2>2, <2>3, <2>4 DEF Known
  <2>9. \A q \in Procs : pc'[q] = "clear" => mine'[q].id \in reports'
    BY <1>t, <2>1, <2>3 DEF Known
  <2>10. camp'.id = c /\ camp'.before = mine[p].before
    BY <2>1
  <2>11. Known'
    BY <1>t, <2>0, <2>1, <2>4, <2>7, <2>8, <2>9, <2>10 DEF Known
  <2> QED
    BY <2>6, <2>11
<1>4. ASSUME NEW p \in Procs, Report(p) PROVE Known' /\ NoCampaignForgotten'
  <2>1. /\ pc[p] = "report" /\ pc' = [pc EXCEPT ![p] = "clear"]
        /\ reports' = reports \cup {mine[p].id}
        /\ UNCHANGED <<mine, saw, camp, campaigns, origin, missed, overrun>>
    BY <1>4 DEF Report
  <2>2. NoCampaignForgotten'
    BY <2>1 DEF NoCampaignForgotten
  <2> QED
    BY <1>t, <2>1, <2>2 DEF Known
<1>5. ASSUME NEW p \in Procs, Clear(p) PROVE Known' /\ NoCampaignForgotten'
  <2>1. /\ pc[p] = "clear" /\ pc' = [pc EXCEPT ![p] = "off"]
        /\ camp' = NoCampaign
        /\ overrun' = overrun \cup ({camp.id} \ {0, mine[p].id})
        /\ \A q \in Procs \ {p} : mine'[q] = mine[q] /\ saw'[q] = saw[q]
        /\ saw'[p] = 0
        /\ UNCHANGED <<campaigns, origin, reports, missed>>
    BY <1>5, <1>t DEF Clear, Forgets
  <2>2. camp.id \in {0} \cup reports \cup overrun'
    BY <2>1 DEF Known
  <2>3. NoCampaignForgotten'
    BY <1>t, <2>1, <2>2 DEF NoCampaignForgotten, NoCampaign
  <2> QED
    BY <1>t, <2>1, <2>3 DEF Known, NoCampaign
<1>6. CASE ClockTick
  <2>1. /\ camp'.id = camp.id /\ camp'.before = camp.before
        /\ camp.left = 0 => camp'.left = 0
        /\ UNCHANGED <<pc, mine, saw, campaigns, origin, reports, missed, overrun>>
    BY <1>6, <1>t DEF ClockTick
  <2>2. NoCampaignForgotten'
    BY <2>1 DEF NoCampaignForgotten
  <2> QED
    BY <1>t, <2>1, <2>2 DEF Known
<1> QED
  BY <1>1, <1>2, <1>3, <1>4, <1>5, <1>6, MovesKeep, LoopMoves, OtherMoves
  DEF Next, Begins, Concludes

LEMMA KnownHolds == Spec => [](Known /\ NoCampaignForgotten)
<1>1. Init => Known /\ NoCampaignForgotten
  BY DEF Init, Known, NoCampaignForgotten, NoCampaign
<1> QED
  BY <1>1, KnownStep, KeptHolds, PTL DEF Spec

(* No crash, however many processes start campaigns, makes a campaign      *)
(* vanish without a report: it stays in the checkpoint, misses its         *)
(* deadline, or loses the checkpoint to a process that did not see it.     *)
THEOREM CampaignsAreKept == Spec => []NoCampaignForgotten
BY KnownHolds, PTL

(* Only Count leads a process to its report. *)
LEMMA OnlyCount ==
    ASSUME Kept, [Next]_vars, NEW p \in Procs, pc[p] = "count", pc'[p] = "report"
    PROVE  Count(p)
<1> USE DEF Kept, CampaignOK, Goto, Step, At, procVars
<1>1. ASSUME NEW q \in Procs, Begins(q) \/ Tell(q) \/ Crash(q) PROVE FALSE
  BY <1>1 DEF Begins, Resume, CountBefore, Mark, Enter, Forgets, Tell, Crash
<1>2. ASSUME NEW q \in Procs, Loops(q) PROVE FALSE
  BY <1>2 DEF Loops, Round, Recover, Gate, LeaseBusy, Launch, LaunchReviewer, Collect, Finish,
              Fail, Ends, Ending, Watching
<1>3. ASSUME NEW q \in Procs, Kills(q) PROVE FALSE
  BY <1>3 DEF Kills, Aim, Kill
<1>4. ASSUME NEW q \in Procs, Report(q) \/ Clear(q) PROVE FALSE
  BY <1>4 DEF Report, Clear, Forgets
<1>5. ASSUME NEW q \in Procs, Count(q) PROVE q = p
  BY <1>5 DEF Count
<1>6. CASE ChildEnds \/ Lift \/ OneShot \/ ClockTick \/ UNCHANGED vars
  BY <1>6 DEF ChildEnds, Lift, OneShot, ClockTick, vars
<1> QED
  BY <1>1, <1>2, <1>3, <1>4, <1>5, <1>6 DEF Next, Concludes

(* The report of a campaign that crashed and was resumed counts the ticks  *)
(* of all its processes.                                                   *)
THEOREM ReportsSpan == Spec => ReportSpansCampaign
<1>1. Kept /\ Known /\ [Next]_vars =>
        [\A p \in Procs : At(p, "count") /\ pc'[p] = "report" =>
           tally'[p] = finished - origin[mine[p].id]]_vars
  <2> SUFFICES ASSUME Kept, Known, [Next]_vars, NEW p \in Procs,
                      At(p, "count"), pc'[p] = "report"
               PROVE  tally'[p] = finished - origin[mine[p].id]
    BY DEF vars, procVars
  <2>1. Count(p)
    BY OnlyCount DEF At
  <2>2. mine[p].before = origin[mine[p].id]
    BY DEF Known, At
  <2> QED
    BY <2>1, <2>2 DEF Count, Kept, CampaignOK
<1> QED
  BY <1>1, KnownHolds, KeptHolds, PTL DEF Spec, ReportSpansCampaign

-----------------------------------------------------------------------------
(* Deadlines *)

(* The event that stops a loop is set by a thread past the deadline or by  *)
(* somebody; a tick past the deadline is the last one.                     *)
Timely(p) ==
    /\ pc[p] \in {"off", "mark", "enter"} => ~stop[p] /\ late[p] = 0
    /\ pc[p] \notin InLoop \cup {"count"} => \A k \in Killer : thread[p][k] = "over"
    /\ thread[p]["deadline"] \in Row => left[p] = 0
    /\ stop[p] => left[p] = 0 \/ told[p]
    /\ pc[p] \in {"count", "report", "clear"} => left[p] = 0 \/ told[p]
    /\ late[p] <= 1
    /\ late[p] > 0 => left[p] = 0 /\ pc[p] \notin {"recover", "gate", "launch"}
OnTime == \A p \in Procs : Timely(p)

(* What a process looks at is its own: others' steps leave it alone, or    *)
(* end a thread of its that took aim.                                      *)
Apart(q) == /\ pc'[q] = pc[q] /\ left'[q] = left[q] /\ stop'[q] = stop[q]
            /\ told'[q] = told[q] /\ late'[q] = late[q]
            /\ \A k \in Killer : \/ thread'[q][k] \in {thread[q][k], "over"}
                                 \/ thread[q][k] = "newest" /\ thread'[q][k] = "stray"

LEMMA ApartKeeps ==
    ASSUME NEW q \in Procs, Timely(q), Apart(q)
    PROVE  Timely(q)'
BY DEF Timely, Apart, Killer, Row

LEMMA OthersApart ==
    ASSUME Kept, NEW p \in Procs, NEW q \in Procs, p # q,
           \/ Begins(p) \/ Loops(p) \/ Kills(p) \/ Concludes(p) \/ Tell(p) \/ Crash(p)
    PROVE  Apart(q)
<1> USE DEF Kept, CampaignOK, Goto, Step, At, procVars, Apart
<1>1. CASE Begins(p)
  BY <1>1 DEF Begins, Resume, CountBefore, Mark, Enter, Forgets
<1>2. CASE \/ Round(p) \/ Gate(p) \/ LeaseBusy(p) \/ Launch(p) \/ LaunchReviewer(p)
           \/ Finish(p) \/ Fail(p)
  BY <1>2 DEF Round, Gate, LeaseBusy, Launch, LaunchReviewer, Finish, Fail, Ends
<1>3. CASE Recover(p) \/ Collect(p)
  BY <1>3 DEF Recover, Collect, Settle
<1>4. CASE Kills(p)
  BY <1>4 DEF Kills, Aim, Kill, SetThread, GoesOnAs
<1>5. CASE Concludes(p)
  BY <1>5 DEF Concludes, Count, Report, Clear, Forgets
<1>6. CASE Tell(p) \/ Crash(p)
  BY <1>6 DEF Tell, Crash, Forgets
<1> QED
  BY <1>1, <1>2, <1>3, <1>4, <1>5, <1>6 DEF Loops

LEMMA OwnSteps ==
    ASSUME Kept, NEW p \in Procs, Timely(p),
           \/ Begins(p) \/ Loops(p) \/ Kills(p) \/ Concludes(p) \/ Tell(p) \/ Crash(p)
    PROVE  Timely(p)'
<1> USE DEF Kept, CampaignOK, Goto, Step, At, procVars, InLoop, InTick
<1>t. left[p] \in Nat /\ late[p] \in Nat
  BY Sizes
<1>1. CASE Resume(p) \/ CountBefore(p)
  BY <1>1, <1>t DEF Resume, CountBefore, Starts, Timely, Killer, Row
<1>2. CASE Mark(p)
  BY <1>2 DEF Mark, Timely
<1>3. CASE Enter(p)
  BY <1>3 DEF Enter, Forgets, Timely, Killer, Row
<1>4. CASE Round(p)
  BY <1>4, <1>t DEF Round, GoesOn, EndWaiting, Timely, Killer, Row
<1>5. CASE Recover(p)
  BY <1>5 DEF Recover, Settle, Timely, Killer, Row
<1>6. CASE Gate(p) \/ LeaseBusy(p)
  BY <1>6 DEF Gate, LeaseBusy, Timely
<1>7. CASE Launch(p)
  BY <1>7, <1>t DEF Launch, Timely, Killer, Row
<1>8. CASE LaunchReviewer(p)
  BY <1>8 DEF LaunchReviewer, Timely
<1>9. CASE Collect(p)
  BY <1>9 DEF Collect, Settle, Timely, Killer, Watching, Row
<1>10. CASE Finish(p) \/ Fail(p)
  BY <1>10 DEF Finish, Fail, Ends, Ending, Timely
<1>11. ASSUME NEW k \in Killer, NEW w \in Aims, SetThread(p, k, w)
       PROVE  \A j \in Killer : thread'[p][j] = IF j = k THEN w ELSE thread[p][j]
  BY <1>11 DEF SetThread
<1>12. ASSUME NEW k \in Killer, Aim(p, k) PROVE Timely(p)'
  BY <1>11, <1>12 DEF Aim, Due, GoesOnAs, Timely, Killer, Aims, Row
<1>13. ASSUME NEW k \in Killer, Kill(p, k) PROVE Timely(p)'
  BY <1>11, <1>13 DEF Kill, GoesOnAs, Timely, Killer, Aims, Row
<1>14. CASE Count(p)
  BY <1>14 DEF Count, Joined, Timely
<1>15. CASE Report(p)
  BY <1>15 DEF Report, Timely
<1>16. CASE Clear(p)
  BY <1>16 DEF Clear, Forgets, Timely
<1>17. CASE Tell(p)
  BY <1>17 DEF Tell, Timely
<1>18. CASE Crash(p)
  BY <1>18 DEF Crash, Forgets, Timely
<1> QED
  BY <1>1, <1>2, <1>3, <1>4, <1>5, <1>6, <1>7, <1>8, <1>9, <1>10, <1>12, <1>13, <1>14,
     <1>15, <1>16, <1>17, <1>18
  DEF Begins, Loops, Kills, Concludes

LEMMA OnTimeStep ==
    ASSUME Kept, OnTime, [Next]_vars
    PROVE  OnTime'
<1> SUFFICES ASSUME NEW q \in Procs PROVE Timely(q)'
  BY DEF OnTime
<1>0. Timely(q)
  BY DEF OnTime
<1>1. ASSUME NEW p \in Procs,
             \/ Begins(p) \/ Loops(p) \/ Kills(p) \/ Concludes(p) \/ Tell(p) \/ Crash(p)
      PROVE  Timely(q)'
  BY <1>0, <1>1, OwnSteps, OthersApart, ApartKeeps
<1>2. CASE ChildEnds \/ Lift \/ OneShot \/ UNCHANGED vars
  BY <1>0, <1>2 DEF ChildEnds, Lift, OneShot, vars, procVars, Timely
<1>3. CASE ClockTick
  <2>1. left[q] \in Nat /\ (left[q] = 0 => left'[q] = 0)
    BY <1>3, Sizes DEF ClockTick, Kept, CampaignOK
  <2>2. UNCHANGED <<pc, stop, told, late, thread>>
    BY <1>3 DEF ClockTick
  <2> QED
    BY <1>0, <2>1, <2>2 DEF Timely
<1> QED
  BY <1>1, <1>2, <1>3 DEF Next

LEMMA OnTimeHolds == Spec => []OnTime
<1>1. Init => OnTime
  BY DEF Init, OnTime, Timely, InLoop, InTick
<1> QED
  BY <1>1, OnTimeStep, KeptHolds, PTL DEF Spec

(* No thread and no crash makes a campaign report before its deadline.     *)
THEOREM ReportsAreDue == Spec => ReportIsDue
<1>1. OnTime => \A p \in Procs : At(p, "report") => left[p] = 0 \/ told[p]
  BY DEF OnTime, Timely, At
<1>2. OnTime => (\A p \in Procs : At(p, "report") /\ pc'[p] = "clear" => left[p] = 0 \/ told[p])
  BY <1>1
<1> QED
  BY <1>2, OnTimeHolds, PTL DEF ReportIsDue

(* A deadline thread that dies costs one tick, not an endless campaign.    *)
THEOREM OneTickTooMany == Spec => []OneLateTick
<1>1. OnTime => OneLateTick
  BY DEF OnTime, Timely, OneLateTick
<1> QED
  BY <1>1, OnTimeHolds, PTL

-----------------------------------------------------------------------------
(* Failures and the host quarantine *)

(* A fingerprint that is not quarantined for the host has failed there     *)
(* fewer times than it may.                                                *)
Spared ==
    /\ RowsOK
    /\ \A f \in Fingerprints :
          /\ hostFails[f] <= fail[f].count
          /\ hostFails[f] <= Threshold
          /\ ~HostQuarantined(f) => hostFails[f] < Threshold

(* While a loop is in a tick, a host quarantine is one that a one-shot     *)
(* tick has put behind its back.                                           *)
Looked ==
    /\ \A f \in unseen : hostFails[f] = 0
    /\ \A p \in Procs : pc[p] \in InTick =>
          \A f \in Fingerprints : HostQuarantined(f) => f \in unseen
Guarded == Spared /\ Looked

LEMMA RecordSpares ==
    ASSUME Spared, NEW f \in Fingerprints, NEW scope \in {"host", "work"},
           RecordFailure(f, scope),
           \/ hostFails[f] < Threshold /\ Meets(f, scope)
           \/ hostFails' = [hostFails EXCEPT ![f] = 0]
    PROVE  Spared'
<1>1. /\ fail \in [Fingerprints -> FailureRow]
      /\ hostFails \in [Fingerprints -> 0..MaxCount]
  BY DEF Spared, RowsOK
<1>2. fail' = [fail EXCEPT ![f] = Recorded(fail[f], scope)]
  BY DEF RecordFailure
<1>3. /\ Recorded(fail[f], scope) \in FailureRow
      /\ Recorded(fail[f], scope).count = Least(fail[f].count + 1, MaxCount)
      /\ Recorded(fail[f], scope).quarantined = (Recorded(fail[f], scope).count >= Threshold)
      /\ Recorded(fail[f], scope).scope = scope
  BY <1>1, Sizes DEF Recorded, FailureRow, Reaches, Least
<1>4. fail'[f] = Recorded(fail[f], scope) /\ \A g \in Fingerprints \ {f} : fail'[g] = fail[g]
  BY <1>1, <1>2
<1>5. fail' \in [Fingerprints -> FailureRow]
  BY <1>1, <1>2, <1>3
<1>6. ASSUME NEW g \in Fingerprints, g # f
      PROVE  /\ hostFails'[g] = hostFails[g]
             /\ hostFails'[g] <= fail'[g].count
             /\ hostFails'[g] <= Threshold
             /\ ~HostQuarantined(g)' => hostFails'[g] < Threshold
  <2>1. fail'[g] = fail[g]
    BY <1>4, <1>6
  <2>2. hostFails'[g] = hostFails[g]
    BY <1>1, <1>6 DEF Meets
  <2> QED
    BY <2>1, <2>2 DEF Spared, HostQuarantined
<1>7. CASE hostFails[f] < Threshold /\ Meets(f, scope)
  <2>0. hostFails' = IF scope = "host" THEN [hostFails EXCEPT ![f] = Least(@ + 1, MaxCount)]
                                       ELSE hostFails
    BY <1>7 DEF Meets
  <2>1. hostFails[f] < Threshold /\ hostFails[f] <= fail[f].count
    BY <1>7 DEF Spared
  <2>2. hostFails[f] \in Nat /\ fail[f].count \in 0..MaxCount
    BY <1>1, Sizes DEF FailureRow
  <2>3. hostFails' \in [Fingerprints -> 0..MaxCount]
    BY <1>1, <2>0, <2>1, <2>2, Sizes DEF Least
  <2>4. hostFails'[f] = IF scope = "host" THEN hostFails[f] + 1 ELSE hostFails[f]
    BY <1>1, <2>0, <2>1, <2>2, Sizes DEF Least
  <2>5. /\ hostFails'[f] <= fail'[f].count
        /\ hostFails'[f] <= Threshold
        /\ ~HostQuarantined(f)' => hostFails'[f] < Threshold
    <3>1. fail'[f].count = IF fail[f].count + 1 < MaxCount THEN fail[f].count + 1 ELSE MaxCount
      BY <1>3, <1>4 DEF Least
    <3>2. hostFails'[f] <= fail'[f].count /\ hostFails'[f] <= Threshold
      BY <2>1, <2>2, <2>4, <3>1, Sizes
    <3>3. ASSUME hostFails'[f] >= Threshold PROVE HostQuarantined(f)'
      <4>1. scope = "host" /\ fail'[f].count >= Threshold
        BY <2>1, <2>2, <2>4, <3>1, <3>2, <3>3, Sizes
      <4>2. fail'[f].quarantined = (fail'[f].count >= Threshold) /\ fail'[f].scope = scope
        BY <1>3, <1>4
      <4> QED
        BY <4>1, <4>2 DEF HostQuarantined
    <3> QED
      BY <2>2, <2>4, <3>2, <3>3, Sizes
  <2> QED
    BY <1>5, <1>6, <2>3, <2>5 DEF Spared, RowsOK
<1>8. CASE hostFails' = [hostFails EXCEPT ![f] = 0]
  <2>1. hostFails' \in [Fingerprints -> 0..MaxCount] /\ hostFails'[f] = 0
    BY <1>1, <1>8, Sizes
  <2>2. fail'[f].count \in Nat
    BY <1>5, Sizes DEF FailureRow
  <2> QED
    BY <1>5, <1>6, <2>1, <2>2, Sizes DEF Spared, RowsOK
<1> QED
  BY <1>7, <1>8

LEMMA GuardedStep ==
    ASSUME Kept, Guarded, [Next]_vars
    PROVE  /\ Guarded'
           /\ \A f \in Fingerprints :
                 HostQuarantined(f) /\ ~HostQuarantined(f)' =>
                    Lift \/ OneShot \/ f \in unseen
<1> DEFINE Good == /\ Guarded'
                   /\ \A f \in Fingerprints :
                         HostQuarantined(f) /\ ~HostQuarantined(f)' =>
                            Lift \/ OneShot \/ f \in unseen
<1> USE DEF Goto, Step, At, procVars, rowVars, tickVars, recordVars, failureVars
<1>t. /\ pc \in [Procs -> PC] /\ lock \in Procs \cup {NoProc}
      /\ \A p \in Procs : pc[p] \in InLoop <=> lock = p
  BY DEF Kept, CampaignOK
<1>1. ASSUME UNCHANGED <<fail, hostFails, unseen>>,
             \A p \in Procs : pc'[p] \in InTick => pc[p] \in InTick
      PROVE  Good
  BY <1>1 DEF Guarded, Spared, Looked, RowsOK, HostQuarantined
<1>0. ASSUME Spared', unseen' = {}, \A p \in Procs : pc'[p] \notin InTick PROVE Guarded'
  BY <1>0 DEF Guarded, Looked
<1>2. ASSUME NEW p \in Procs, Begins(p) \/ Concludes(p) PROVE Good
  <2>1. UNCHANGED <<fail, hostFails, unseen>>
    BY <1>2 DEF Begins, Concludes, Resume, CountBefore, Mark, Enter, Count, Report, Clear
  <2>2. \A q \in Procs : pc'[q] \in InTick => pc[q] \in InTick
    BY <1>2, <1>t DEF Begins, Concludes, Resume, CountBefore, Mark, Enter, Count, Report,
                      Clear, Forgets, InTick
  <2> QED
    BY <1>1, <2>1, <2>2
<1>3. ASSUME NEW p \in Procs, Round(p) \/ Recover(p) \/ Launch(p) \/ LaunchReviewer(p)
                              \/ Collect(p) PROVE Good
  <2>1. UNCHANGED <<fail, hostFails, unseen>>
    BY <1>3 DEF Round, Recover, Launch, LaunchReviewer, Collect
  <2>2. \A q \in Procs : pc'[q] \in InTick => pc[q] \in InTick
    BY <1>3, <1>t DEF Round, Recover, Launch, LaunchReviewer, Collect, InTick, Watching
  <2> QED
    BY <1>1, <2>1, <2>2
<1>4. ASSUME NEW p \in Procs, Gate(p) PROVE Good
  <2>1. UNCHANGED <<fail, hostFails, unseen>>
    BY <1>4 DEF Gate
  <2>2. Allowed \/ \A q \in Procs : pc'[q] \in InTick => pc[q] \in InTick
    BY <1>4, <1>t DEF Gate, InTick
  <2> QED
    BY <1>1, <2>1, <2>2 DEF Allowed, Guarded, Spared, Looked, RowsOK, HostQuarantined
<1>n. ASSUME NEW p \in Procs, pc[p] \in InTick, NEW phase \in {"round", "off"},
             pc' = [pc EXCEPT ![p] = phase]
      PROVE  \A q \in Procs : pc'[q] \notin InTick
  BY <1>n, <1>t DEF InLoop, InTick
<1>5. ASSUME NEW p \in Procs, Ends(p)
      PROVE  /\ pc[p] \in InTick /\ unseen' = {}
             /\ \A q \in Procs : pc'[q] \notin InTick
  BY <1>5, <1>n DEF Ends, Ending, InTick
<1>g. ASSUME NEW p \in Procs, pc[p] \in InTick, NEW f \in Fingerprints
      PROVE  hostFails[f] < Threshold /\ (HostQuarantined(f) => f \in unseen)
  BY <1>g, Sizes DEF Guarded, Spared, Looked
<1>f. ASSUME NEW p \in Procs, pc[p] \in InTick, unseen' = {},
             \A q \in Procs : pc'[q] \notin InTick,
             NEW f \in Fingerprints, NEW scope \in {"host", "work"},
             RecordFailure(f, scope), Meets(f, scope)
      PROVE  Good
  <2>1. Spared'
    BY <1>f, <1>g, RecordSpares DEF Guarded
  <2> QED
    BY <1>0, <1>f, <1>g, <2>1
<1>e. ASSUME NEW p \in Procs, pc[p] \in InTick, unseen' = {}, UNCHANGED <<fail, hostFails>>,
             \A q \in Procs : pc'[q] \notin InTick
      PROVE  Good
  BY <1>e, <1>g DEF Guarded, Spared, Looked, RowsOK, HostQuarantined
<1>6. ASSUME NEW p \in Procs, Finish(p) PROVE Good
  BY <1>e, <1>5, <1>6 DEF Finish
<1>7. ASSUME NEW p \in Procs, Fail(p) PROVE Good
  <2>1. Ends(p)
    BY <1>7 DEF Fail
  <2>2. CASE Dependency \/ SafetyPause
    BY <1>e, <1>5, <2>1, <2>2 DEF Dependency, SafetyPause
  <2>3. ASSUME NEW f \in Fingerprints, NEW scope \in {"host", "work"}, Fails(f, scope)
        PROVE  Good
    BY <1>f, <1>5, <2>1, <2>3 DEF Fails, Counted
  <2> QED
    BY <1>7, <2>2, <2>3 DEF Fail
<1>b. ASSUME NEW p \in Procs, LeaseBusy(p) PROVE Good
  <2>1. pc[p] \in InTick /\ unseen' = {} /\ UNCHANGED <<fail, hostFails>>
    BY <1>b DEF LeaseBusy, InTick
  <2>2. \A q \in Procs : pc'[q] \notin InTick
    BY <1>b, <1>n, <2>1 DEF LeaseBusy
  <2> QED
    BY <1>e, <2>1, <2>2
<1>8. ASSUME NEW p \in Procs, Kills(p) \/ Tell(p) PROVE Good
  BY <1>1, <1>8 DEF Kills, Aim, Kill, Tell
<1>9. ASSUME NEW p \in Procs, Crash(p) PROVE Good
  <2>1. pc' = [pc EXCEPT ![p] = "off"]
        /\ unseen' = IF pc[p] \in InTick THEN {} ELSE unseen
    BY <1>9 DEF Crash, Forgets
  <2>2. CASE UNCHANGED failureVars
    <3>1. CASE pc[p] \in InTick
      BY <1>e, <1>n, <2>1, <2>2, <3>1
    <3>2. CASE pc[p] \notin InTick
      BY <1>1, <1>t, <2>1, <2>2, <3>2 DEF InTick
    <3> QED
      BY <3>1, <3>2
  <2>3. CASE /\ pc[p] \in Ending
             /\ \E f \in Fingerprints : \E scope \in {"host", "work"} : FailsUndelayed(f, scope)
    <3>1. PICK f \in Fingerprints, scope \in {"host", "work"} : FailsUndelayed(f, scope)
      BY <2>3
    <3>2. pc[p] \in InTick
      BY <2>3 DEF Ending, InTick
    <3> QED
      BY <1>f, <1>n, <2>1, <3>1, <3>2 DEF FailsUndelayed
  <2> QED
    BY <1>9, <2>2, <2>3 DEF Crash
<1>10. CASE ChildEnds \/ ClockTick \/ UNCHANGED vars
  BY <1>1, <1>10 DEF ChildEnds, ClockTick, HoldPasses, vars
<1>11. CASE Lift
  <2>1. PICK f \in Fingerprints : Unquarantine(f) /\ UNCHANGED pc
    BY <1>11 DEF Lift
  <2>0. UNCHANGED unseen
    BY <1>11 DEF Lift
  <2>2. /\ fail \in [Fingerprints -> FailureRow]
        /\ hostFails \in [Fingerprints -> 0..MaxCount]
    BY DEF Guarded, Spared, RowsOK
  <2>3. /\ fail' = [fail EXCEPT ![f].quarantined = FALSE, ![f].count = 0]
        /\ hostFails' = [hostFails EXCEPT ![f] = 0]
    BY <2>1 DEF Unquarantine
  <2>4. /\ fail' \in [Fingerprints -> FailureRow]
        /\ hostFails' \in [Fingerprints -> 0..MaxCount]
        /\ hostFails'[f] = 0 /\ fail'[f].count = 0 /\ ~fail'[f].quarantined
        /\ \A g \in Fingerprints \ {f} : fail'[g] = fail[g] /\ hostFails'[g] = hostFails[g]
    <3> DEFINE row == [[fail[f] EXCEPT !.quarantined = FALSE] EXCEPT !.count = 0]
    <3>1. row \in FailureRow
      <4>1. fail[f] \in FailureRow /\ 0 \in 0..MaxCount
        BY <2>2, Sizes
      <4> QED
        BY <4>1 DEF FailureRow
    <3>2. row.count = 0 /\ ~row.quarantined
      BY <2>2 DEF FailureRow
    <3>3. fail' = [fail EXCEPT ![f] = row]
      BY <2>2, <2>3 DEF FailureRow
    <3> HIDE DEF row
    <3>4. hostFails' \in [Fingerprints -> 0..MaxCount]
      BY <2>2, <2>3, Sizes
    <3>5. fail'[f] = row /\ \A g \in Fingerprints \ {f} : fail'[g] = fail[g]
      BY <2>2, <3>3
    <3>6. fail' \in [Fingerprints -> FailureRow]
      BY <2>2, <3>1, <3>3
    <3>7. hostFails'[f] = 0 /\ \A g \in Fingerprints \ {f} : hostFails'[g] = hostFails[g]
      BY <2>2, <2>3
    <3> QED
      BY <3>2, <3>4, <3>5, <3>6, <3>7
  <2>5. Spared'
    BY <2>1, <2>4, Sizes DEF Guarded, Spared, RowsOK, HostQuarantined
  <2>6. Looked'
    <3>1. unseen \subseteq Fingerprints
      BY DEF Kept, CampaignOK
    <3>2. \A g \in Fingerprints : hostFails[g] = 0 => hostFails'[g] = 0
      BY <2>4
    <3>3. \A g \in Fingerprints : HostQuarantined(g)' => HostQuarantined(g)
      BY <2>4 DEF HostQuarantined
    <3> QED
      BY <2>0, <2>1, <3>1, <3>2, <3>3 DEF Guarded, Looked
  <2> QED
    BY <1>11, <2>5, <2>6 DEF Guarded
<1>12. CASE OneShot
  <2>1. UNCHANGED pc
    BY <1>12 DEF OneShot
  <2>2. CASE UNCHANGED <<unseen, failureVars>>
    BY <1>1, <2>1, <2>2
  <2>3. ASSUME NEW f \in Fingerprints, NEW scope \in {"host", "work"}, Counted(f, scope),
               hostFails' = [hostFails EXCEPT ![f] = 0],
               unseen' = IF \E p \in Procs : pc[p] \in InTick THEN unseen \cup {f} ELSE unseen
        PROVE  Good
    <3>1. Spared'
      BY <2>3, RecordSpares DEF Guarded, Counted
    <3>2. /\ hostFails'[f] = 0
          /\ \A g \in Fingerprints : hostFails[g] = 0 => hostFails'[g] = 0
          /\ \A g \in Fingerprints \ {f} : fail'[g] = fail[g]
      BY <2>3, Sizes DEF Guarded, Spared, RowsOK, Counted, RecordFailure
    <3>3. unseen \subseteq Fingerprints
      BY DEF Kept, CampaignOK
    <3>4. Looked'
      BY <2>1, <2>3, <3>2, <3>3 DEF Guarded, Looked, HostQuarantined
    <3> QED
      BY <1>12, <3>1, <3>4 DEF Guarded
  <2> QED
    BY <1>12, <2>2, <2>3 DEF OneShot
<1> QED
  BY <1>2, <1>3, <1>4, <1>6, <1>7, <1>b, <1>8, <1>9, <1>10, <1>11, <1>12 DEF Next, Loops

LEMMA GuardedHolds == Spec => []Guarded
<1>1. Init => Guarded
  BY Sizes DEF Init, NoFailures, Guarded, Spared, Looked, RowsOK, FailureRow, NoFailure,
               HostQuarantined, InTick
<1> QED
  BY <1>1, GuardedStep, KeptHolds, PTL DEF Spec

(* No sequence of campaigns, crashes and restarts meets a host failure     *)
(* more often than the threshold before somebody has looked at it.         *)
THEOREM HostIsSpared == Spec => []HostFailuresBounded
<1>1. Guarded => HostFailuresBounded
  BY DEF Guarded, Spared, HostFailuresBounded
<1> QED
  BY <1>1, GuardedHolds, PTL

(* A loop's own failure lifts a host quarantine only where a one-shot tick *)
(* met the same failure between the loop's look at the quarantines and the *)
(* end of its tick.                                                        *)
THEOREM QuarantineIsLasting == Spec => QuarantineStays
<1>1. Kept /\ Guarded /\ [Next]_vars =>
        [\A f \in Fingerprints :
            HostQuarantined(f) /\ ~HostQuarantined(f)' =>
               Lift \/ OneShot \/ f \in unseen]_vars
  BY GuardedStep
<1> QED
  BY <1>1, KeptHolds, GuardedHolds, PTL DEF Spec, QuarantineStays
-----------------------------------------------------------------------------
(* Types: the backoff is a number *)

(* The provers know 2^n only as the number of subsets of n elements.       *)
LEMMA PowerOfTwo ==
    ASSUME NEW n \in Nat
    PROVE  2^n \in Nat
<1>1. IsFiniteSet(1..n) /\ Cardinality(1..n) = n
  <2>1. IsFiniteSet(1..n) /\ Cardinality(1..n) = IF 1 > n THEN 0 ELSE n - 1 + 1
    BY FS_Interval
  <2> QED
    BY <2>1
<1>2. IsFiniteSet(SUBSET (1..n)) /\ Cardinality(SUBSET (1..n)) = 2^n
  BY <1>1, FS_SUBSET
<1> QED
  BY <1>2, FS_CardinalityType

LEMMA BackoffIsNat ==
    ASSUME NEW n \in Nat \ {0}
    PROVE  Backoff(n) \in Nat /\ Backoff(n) <= MaxDelay
<1>1. 2^(n - 1) \in Nat
  BY PowerOfTwo
<1>2. PICK power \in Nat : power = 2^(n - 1)
  BY <1>1
<1>3. Base * power \in Nat /\ MaxDelay \in Nat
  BY FailureAssumption
<1>4. PICK delay \in Nat : delay = Base * 2^(n - 1)
  BY <1>2, <1>3
<1> QED
  BY <1>3, <1>4 DEF Backoff, Least

(* What holds the loop back is the delay of a counted failure, of a        *)
(* dependency or of a pause, or what time has left of it.                  *)
Bounded == hold \in Nat /\ hold <= Most(MaxDelay, Most(Base, Pause))

LEMMA BoundedStep ==
    ASSUME RowsOK, Bounded, [Next]_vars
    PROVE  Bounded'
<1> USE DEF failureVars, tickVars, recordVars, procVars
<1>1. ASSUME UNCHANGED hold PROVE Bounded'
  BY <1>1 DEF Bounded
<1>2. ASSUME NEW f \in Fingerprints, NEW scope \in {"host", "work"}, Counted(f, scope)
      PROVE  Bounded'
  <2>1. fail[f].count \in Nat
    BY Sizes DEF RowsOK, FailureRow
  <2>2. fail'[f].count = Least(fail[f].count + 1, MaxCount)
    BY <1>2 DEF Counted, RecordFailure, Recorded, RowsOK
  <2>3. fail'[f].count \in Nat \ {0}
    BY <2>1, <2>2, Sizes DEF Least
  <2>4. hold' \in Nat /\ hold' <= MaxDelay
    BY <1>2, <2>3, BackoffIsNat DEF Counted
  <2> QED
    BY <2>4, FailureAssumption DEF Bounded, Most
<1>3. ASSUME Dependency \/ SafetyPause PROVE Bounded'
  BY <1>3, FailureAssumption DEF Dependency, SafetyPause, Bounded, Most
<1>4. ASSUME HoldPasses PROVE Bounded'
  BY <1>4, FailureAssumption DEF HoldPasses, Bounded, Most
<1>5. ASSUME NEW p \in Procs, Begins(p) PROVE Bounded'
  BY <1>1, <1>5 DEF Begins, Resume, CountBefore, Mark, Enter
<1>6. ASSUME NEW p \in Procs, Loops(p) PROVE Bounded'
  <2>1. CASE Fail(p)
    BY <1>2, <1>3, <2>1 DEF Fail, Fails
  <2> QED
    BY <1>1, <1>6, <2>1
       DEF Loops, Round, Recover, Gate, LeaseBusy, Launch, LaunchReviewer, Collect, Finish
<1>7. ASSUME NEW p \in Procs, Kills(p) \/ Concludes(p) \/ Tell(p) \/ Crash(p) PROVE Bounded'
  BY <1>1, <1>7 DEF Kills, Aim, Kill, Concludes, Count, Report, Clear, Tell, Crash,
                    FailsUndelayed
<1>8. CASE OneShot
  BY <1>1, <1>2, <1>8 DEF OneShot
<1>9. CASE ChildEnds \/ Lift \/ UNCHANGED vars
  BY <1>1, <1>9 DEF ChildEnds, Lift, Unquarantine, vars
<1>10. CASE ClockTick
  BY <1>4, <1>10 DEF ClockTick
<1> QED
  BY <1>5, <1>6, <1>7, <1>8, <1>9, <1>10 DEF Next

(* Every variable of campaigns and failures keeps its type, the delay      *)
(* before the next tick included, which doubles with every failure.        *)
THEOREM TypeCorrect == Spec => []TypeOK
<1>1. Init => Bounded
  BY FailureAssumption DEF Init, NoFailures, Bounded, Most
<1>2. Guarded => RowsOK
  BY DEF Guarded, Spared
<1>3. Kept /\ Guarded /\ Bounded => TypeOK
  BY DEF Kept, Guarded, Spared, Bounded, TypeOK, FailuresOK
<1> QED
  BY <1>1, <1>2, <1>3, BoundedStep, KeptHolds, GuardedHolds, PTL DEF Spec
=============================================================================
