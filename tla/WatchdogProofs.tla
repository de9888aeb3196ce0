--------------------------- MODULE WatchdogProofs ---------------------------
(* Proofs about Watchdog, for every capacity, timeout and set of outputs. *)
EXTENDS Watchdog, TLAPS

LEMMA Times ==
    /\ Wall \in Nat /\ Silence \in Nat /\ Interval \in Nat
    /\ Grace \in Nat /\ Reap \in Nat /\ Slow \in Nat /\ MaxLines \in Nat
    /\ Capacity \in Nat \ {0}
    /\ MaxLife \in Nat
<1>1. \A n \in {Wall, Silence, Interval, Grace, Reap, Slow, MaxLines} : n \in Nat
  BY TimesAssumption
<1>2. /\ Wall \in Nat /\ Silence \in Nat /\ Interval \in Nat
      /\ Grace \in Nat /\ Reap \in Nat /\ Slow \in Nat /\ MaxLines \in Nat
  BY <1>1
<1> QED
  BY <1>2, TimesAssumption DEF MaxLife

-----------------------------------------------------------------------------
(* Types *)

LEMMA OlderMessage ==
    ASSUME NEW m \in Message
    PROVE  [m EXCEPT !.age = Least(@ + 1, Silence)] \in Message
<1>1. m.age \in 0..Silence
  BY DEF Message
<1>2. Least(m.age + 1, Silence) \in 0..Silence
  BY <1>1, Times DEF Least
<1>3. \A a \in 0..Silence : [m EXCEPT !.age = a] \in Message
  BY DEF Message
<1> QED
  BY <1>2, <1>3

(* Time leaves messages and their order alone. *)
LEMMA OlderQueue ==
    ASSUME NEW q \in Seq(Message)
    PROVE  Older(q) \in Seq(Message) /\ Len(Older(q)) = Len(q)
<1>1. \A i \in DOMAIN q : q[i] \in Message
  OBVIOUS
<1>2. \A m \in Message : [m EXCEPT !.age = Least(@ + 1, Silence)] \in Message
  BY OlderMessage
<1> QED
  BY <1>1, <1>2 DEF Older

Held == {<<>>} \cup {<<m>> : m \in Message}
LEMMA OlderHand ==
    ASSUME NEW h \in Held
    PROVE  /\ Older(h) \in Held
           /\ Older(h) = <<>> <=> h = <<>>
<1>1. CASE h = <<>>
  BY <1>1 DEF Older, Held
<1>2. CASE h # <<>>
  <2>1. PICK m \in Message : h = <<m>>
    BY <1>2 DEF Held
  <2>2. [m EXCEPT !.age = Least(@ + 1, Silence)] \in Message
    BY OlderMessage
  <2>3. Older(h) = <<[m EXCEPT !.age = Least(@ + 1, Silence)]>>
    BY <2>1 DEF Older
  <2> QED
    BY <1>2, <2>2, <2>3 DEF Held
<1> QED
  BY <1>1, <1>2

LEMMA TypeInit == Init => TypeOK
<1> SUFFICES ASSUME Init PROVE TypeOK
  OBVIOUS
<1> USE Times DEF Init
<1>1. /\ pc \in Looping \cup {"returned", "raised"}
      /\ due \in BOOLEAN /\ reason \in Reasons
      /\ {structured, last} \subseteq Output \cup {NoOutput}
  BY DEF Looping, Stopping, Reasons
<1>2. /\ quiet \in 0..Silence /\ spoke \in 0..Silence
      /\ sinceBeat \in 0..Interval /\ waited \in Nat /\ life \in 0..MaxLife
      /\ left \in Nat
  OBVIOUS
<1>3. queue \in Seq(Message) /\ Len(queue) <= Capacity
  OBVIOUS
<1>4. /\ hand \in [Stream -> {<<>>} \cup {<<m>> : m \in Message}]
      /\ pipe \in [Stream -> {<<>>} \cup {<<l>> : l \in Words \cup Output}]
  OBVIOUS
<1> QED
  BY <1>1, <1>2, <1>3, <1>4 DEF TypeOK

LEMMA PassTypes ==
    ASSUME TypeOK, Pass
    PROVE  /\ sinceBeat' \in 0..Interval
           /\ quiet' \in 0..Silence /\ spoke' \in 0..Silence /\ life' \in 0..MaxLife
           /\ queue' \in Seq(Message) /\ Len(queue') <= Capacity
           /\ hand' \in [Stream -> Held]
           /\ UNCHANGED <<open, worldVars>>
<1>1. /\ sinceBeat' \in 0..Interval
      /\ quiet' \in 0..Silence /\ spoke' \in 0..Silence /\ life' \in 0..MaxLife
  BY Times DEF TypeOK, Pass, Least
<1>2. queue' \in Seq(Message) /\ Len(queue') <= Capacity
  BY OlderQueue DEF TypeOK, Pass
<1>3. hand' \in [Stream -> Held]
  BY OlderHand DEF TypeOK, Pass, Held
<1>4. UNCHANGED <<open, worldVars>>
  BY DEF Pass
<1> QED
  BY <1>1, <1>2, <1>3, <1>4

LEMMA TypeStep ==
    ASSUME TypeOK, [Next]_vars
    PROVE  TypeOK'
<1> USE Times
<1> USE DEF TypeOK, mainVars, clocks, worldVars, Goto, Reasons, Looping, Stopping, Alive
<1>1. CASE Poll
  BY <1>1 DEF Poll
<1>2. CASE TestThreads
  BY <1>2 DEF TestThreads
<1>3. CASE TestEmpty
  BY <1>3 DEF TestEmpty
<1>4. CASE Turn
  BY <1>4 DEF Turn, Deadline
<1>5. CASE GetLine
  <2>1. Head(queue) \in Message /\ Tail(queue) \in Seq(Message)
        /\ Len(Tail(queue)) <= Capacity
    BY <1>5 DEF GetLine
  <2>2. /\ Head(queue).age \in 0..Silence
        /\ NewOutput(Head(queue)) \in Output \cup {NoOutput}
    BY <2>1 DEF Message, NewOutput
  <2>3. pc' \in Looping \cup {"returned", "raised"} /\ waited' \in Nat
    BY <1>5 DEF GetLine, AfterGet
  <2>4. quiet' \in 0..Silence
    BY <1>5, <2>2 DEF GetLine
  <2> QED
    BY <1>5, <2>1, <2>2, <2>3, <2>4 DEF GetLine
<1>6. CASE GetNothing
  BY <1>6, PassTypes DEF GetNothing, AfterGet, Held
<1>7. CASE BeatTakesTime
  BY <1>7, PassTypes DEF BeatTakesTime, Held
<1>8. CASE Beat
  BY <1>8 DEF Beat
<1>9. CASE Terminate
  BY <1>9 DEF Terminate, AfterStop, TermLeaves
<1>10. CASE Wait \/ WaitAgain
  BY <1>10, PassTypes DEF Wait, WaitAgain, Held
<1>11. CASE Waited
  BY <1>11 DEF Waited, AfterStop
<1>12. CASE SigKill \/ SigKillPends
  BY <1>12 DEF SigKill, SigKillPends, Dies, AfterStop, TermLeaves
<1>13. CASE StuckChild
  BY <1>13 DEF StuckChild
<1>14. CASE WatchFails
  BY <1>14 DEF WatchFails
<1>15. ASSUME NEW s \in Stream, ReadLine(s) PROVE TypeOK'
  <2>1. PICK l \in Words \cup Output : pipe[s] = <<l>>
    BY <1>15 DEF ReadLine
  <2>2. [source |-> s, line |-> l, age |-> 0] \in Message
    BY <2>1, Times DEF Message
  <2>3. hand' \in [Stream -> {<<>>} \cup {<<m>> : m \in Message}]
    BY <1>15, <2>1, <2>2 DEF ReadLine
  <2>4. pipe' \in [Stream -> {<<>>} \cup {<<k>> : k \in Words \cup Output}]
    BY <1>15, <2>1 DEF ReadLine
  <2> QED
    BY <1>15, <2>3, <2>4 DEF ReadLine
<1>16. ASSUME NEW s \in Stream, PutLine(s) PROVE TypeOK'
  <2>1. PICK m \in Message : hand[s] = <<m>>
    BY <1>16 DEF PutLine
  <2>2. queue' \in Seq(Message) /\ Len(queue') = Len(queue) + 1
    BY <1>16, <2>1 DEF PutLine
  <2>3. Len(queue') <= Capacity
    BY <1>16, <2>2 DEF PutLine, Room
  <2>4. hand' \in [Stream -> {<<>>} \cup {<<k>> : k \in Message}]
    BY <1>16 DEF PutLine
  <2> QED
    BY <1>16, <2>2, <2>3, <2>4 DEF PutLine
<1>17. ASSUME NEW s \in Stream, EndOfStream(s) PROVE TypeOK'
  BY <1>17 DEF EndOfStream
<1>18. ASSUME NEW s \in Stream, Write(s) PROVE TypeOK'
  <2>1. PICK line \in Line(s) :
           /\ pipe' = [pipe EXCEPT ![s] = <<line>>]
           /\ last' = IF line \in Output THEN line ELSE last
    BY <1>18 DEF Write
  <2>2. line \in Words \cup Output
    BY DEF Line, Words
  <2>3. pipe' \in [Stream -> {<<>>} \cup {<<k>> : k \in Words \cup Output}]
    BY <2>1, <2>2
  <2> QED
    BY <1>18, <2>1, <2>3 DEF Write
<1>19. CASE Fork
  BY <1>19 DEF Fork
<1>20. CASE ChildEnds
  BY <1>20 DEF ChildEnds, Dies
<1>21. CASE HelperEnds
  BY <1>21 DEF HelperEnds
<1>22. CASE UNCHANGED vars
  BY <1>22 DEF vars
<1> QED
  BY <1>1, <1>2, <1>3, <1>4, <1>5, <1>6, <1>7, <1>8, <1>9, <1>10, <1>11, <1>12, <1>13,
     <1>14, <1>15, <1>16, <1>17, <1>18, <1>19, <1>20, <1>21, <1>22
  DEF Next, Watches, Reads

(* Every variable of a watched call keeps its type. *)
THEOREM TypeCorrect == Spec => []TypeOK
<1> QED
  BY TypeInit, TypeStep, PTL DEF Spec

-----------------------------------------------------------------------------
(* Where the main thread can be with a live child: a reason was given only *)
(* while the child is stopped, and the tests after poll find it dead.      *)
Control ==
    /\ pc \in {"threads", "empty", "returned"} => ~Alive
    /\ reason # "exit" => ~Alive \/ pc \in Stopping \cup {"raised"}

LEMMA ControlStep ==
    ASSUME Control, [Next]_vars
    PROVE  /\ Control'
           /\ reason # "exit" => reason' = reason
<1> USE DEF Control, mainVars, clocks, worldVars, Goto, Stopping, Alive
<1>1. CASE Poll
  BY <1>1 DEF Poll
<1>2. CASE TestThreads
  BY <1>2 DEF TestThreads
<1>3. CASE TestEmpty
  BY <1>3 DEF TestEmpty
<1>4. CASE Turn
  BY <1>4 DEF Turn, Deadline
<1>5. CASE GetLine
  BY <1>5 DEF GetLine, AfterGet
<1>6. CASE GetNothing
  BY <1>6 DEF GetNothing, AfterGet, Pass
<1>7. CASE BeatTakesTime
  BY <1>7 DEF BeatTakesTime, Pass
<1>8. CASE Beat
  BY <1>8 DEF Beat, StopsRefused
<1>9. CASE Terminate
  BY <1>9 DEF Terminate, AfterStop
<1>10. CASE Wait \/ WaitAgain
  BY <1>10 DEF Wait, WaitAgain, Pass
<1>11. CASE Waited
  BY <1>11 DEF Waited, AfterStop, ChildEnded
<1>12. CASE SigKill \/ SigKillPends
  BY <1>12 DEF SigKill, SigKillPends, Dies, AfterStop
<1>13. CASE StuckChild
  BY <1>13 DEF StuckChild
<1>14. CASE WatchFails
  BY <1>14 DEF WatchFails
<1>15. ASSUME NEW s \in Stream, Reads(s) \/ Write(s)
       PROVE  UNCHANGED <<pc, reason, code>>
  BY <1>15 DEF Reads, ReadLine, PutLine, EndOfStream, Write
<1>16. CASE Fork
  BY <1>16 DEF Fork
<1>17. CASE ChildEnds
  BY <1>17 DEF ChildEnds, Dies
<1>18. CASE HelperEnds
  BY <1>18 DEF HelperEnds
<1>19. CASE UNCHANGED vars
  BY <1>19 DEF vars
<1> QED
  BY <1>1, <1>2, <1>3, <1>4, <1>5, <1>6, <1>7, <1>8, <1>9, <1>10, <1>11, <1>12, <1>13,
     <1>14, <1>15, <1>16, <1>17, <1>18, <1>19
  DEF Next, Watches

LEMMA ControlHolds == Spec => []Control
<1>1. Init => Control
  BY DEF Init, Control
<1> QED
  BY <1>1, ControlStep, PTL DEF Spec

(* The reason of the result is the first cause of a stop: a reason is set  *)
(* for a live child only, and the stop it starts ends with a dead one.     *)
THEOREM FirstReason == Spec => FirstReasonStays
<1>1. Control /\ [Next]_vars => [reason # "exit" => reason' = reason]_vars
  BY ControlStep
<1> QED
  BY <1>1, ControlHolds, PTL DEF Spec, FirstReasonStays

-----------------------------------------------------------------------------
(* How old a live child can be, by where the main thread is. *)
Age ==
    /\ waited <= (IF pc = "grace" THEN Grace ELSE IF pc = "reap" THEN Reap ELSE Slow)
    /\ Alive => /\ pc \in {"poll", "turn", "stop"} => life <= Wall + Slow
                /\ pc = "get" => life < Wall
                /\ pc = "beat" => life <= Wall + waited
                /\ pc = "grace" => life <= Wall + Slow + waited
                /\ pc = "reap" => life <= Wall + Slow + Grace + waited

LEMMA AgeStep ==
    ASSUME TypeOK, Control, Age, [Next]_vars
    PROVE  Age'
<1>0. /\ Wall \in Nat /\ Slow \in Nat /\ Grace \in Nat /\ Reap \in Nat
      /\ waited \in Nat /\ life \in Nat
  BY Times DEF TypeOK
<1> USE <1>0 DEF Control, Age, mainVars, clocks, worldVars, Goto, Stopping, Alive
<1>1. CASE Poll
  BY <1>1 DEF Poll
<1>2. CASE TestThreads
  BY <1>2 DEF TestThreads
<1>3. CASE TestEmpty
  BY <1>3 DEF TestEmpty
<1>4. CASE Turn
  BY <1>4 DEF Turn, Deadline
<1>5. CASE GetLine
  BY <1>5 DEF GetLine, AfterGet
<1>6. ASSUME Pass PROVE Alive' = Alive /\ (Alive => life' <= life + 1 /\ life' \in Nat)
  BY <1>6, PassTypes, Times DEF Pass, Least
<1>7. CASE GetNothing
  <2>1. Pass /\ pc = "get" /\ waited' = 0 /\ pc' \in {"beat", "poll"}
    BY <1>7 DEF GetNothing, AfterGet
  <2> QED
    BY <2>1, <1>6
<1>8. CASE BeatTakesTime
  <2>1. Pass /\ pc = "beat" /\ pc' = "beat" /\ waited < Slow /\ waited' = waited + 1
    BY <1>8 DEF BeatTakesTime
  <2> QED
    BY <2>1, <1>6
<1>9. CASE Beat
  BY <1>9 DEF Beat, StopsRefused
<1>10. CASE Terminate
  BY <1>10 DEF Terminate, AfterStop
<1>11. CASE Wait \/ WaitAgain
  <2>1. /\ Pass /\ pc' = pc /\ waited' = waited + 1
        /\ \/ pc = "grace" /\ waited < Grace
           \/ pc = "reap" /\ waited < Reap
    BY <1>11 DEF Wait, WaitAgain
  <2> QED
    BY <2>1, <1>6
<1>12. CASE Waited
  BY <1>12 DEF Waited, AfterStop, ChildEnded
<1>13. CASE SigKill \/ SigKillPends
  BY <1>13 DEF SigKill, SigKillPends, Dies, AfterStop
<1>14. CASE StuckChild
  BY <1>14 DEF StuckChild
<1>15. CASE WatchFails
  BY <1>15 DEF WatchFails
<1>16. ASSUME NEW s \in Stream, Reads(s) \/ Write(s)
       PROVE  UNCHANGED <<pc, waited, code, life>>
  BY <1>16 DEF Reads, ReadLine, PutLine, EndOfStream, Write
<1>17. CASE Fork
  BY <1>17 DEF Fork
<1>18. CASE ChildEnds
  BY <1>18 DEF ChildEnds, Dies
<1>19. CASE HelperEnds
  BY <1>19 DEF HelperEnds
<1>20. CASE UNCHANGED vars
  BY <1>20 DEF vars
<1> QED
  BY <1>1, <1>2, <1>3, <1>4, <1>5, <1>7, <1>8, <1>9, <1>10, <1>11, <1>12, <1>13, <1>14,
     <1>15, <1>16, <1>17, <1>18, <1>19, <1>20
  DEF Next, Watches

(* A watched child lives at most the wall time, one heartbeat and one      *)
(* grace: the deadline is tested on every turn, and a turn waits for       *)
(* nothing else, but for a child that SIGKILL could not remove.            *)
THEOREM LifeIsBounded == Spec => []BoundedLife
<1>1. Init => Age
  BY Times DEF Init, Age, Alive
<1>2. TypeOK /\ Control /\ Age => BoundedLife
  <2> SUFFICES ASSUME TypeOK, Control, Age, Alive, pc # "raised"
               PROVE  life <= Wall + Slow + Grace + (IF pc = "reap" THEN waited ELSE 0)
    BY DEF BoundedLife
  <2>1. /\ Wall \in Nat /\ Slow \in Nat /\ Grace \in Nat
        /\ waited \in Nat /\ life \in Nat
    BY Times DEF TypeOK
  <2>2. pc \in {"poll", "turn", "stop", "get", "beat", "grace", "reap"}
    BY DEF TypeOK, Control, Looping, Stopping
  <2> QED
    BY <2>1, <2>2 DEF Age
<1> QED
  BY <1>1, <1>2, AgeStep, TypeCorrect, ControlHolds, PTL DEF Spec

-----------------------------------------------------------------------------
(* Where the last structured object is on its way from the child to the    *)
(* result.                                                                 *)

(* A reader that has ended left nothing behind, and nobody can write. *)
Ended == \A s \in Stream : s \notin open =>
            hand[s] = <<>> /\ pipe[s] = <<>> /\ ~Writers
Emptied ==
    /\ pc \in {"empty", "returned"} => open = {}
    /\ pc = "returned" => queue = <<>>

(* Only stdout carries objects. *)
OneSource ==
    /\ pipe["stderr"] # <<>> => Head(pipe["stderr"]) \notin Output
    /\ hand["stderr"] # <<>> => Head(hand["stderr"]).line \notin Output

InPipe == pipe["stdout"] # <<>> /\ Head(pipe["stdout"]) \in Output
InHand == hand["stdout"] # <<>> /\ Head(hand["stdout"]).line \in Output
InQueue(i) == i \in DOMAIN queue /\ queue[i].line \in Output
LastInQueue(i) == InQueue(i) /\ \A j \in DOMAIN queue : j > i => ~InQueue(j)

OnItsWay ==
    /\ InPipe => last = Head(pipe["stdout"])
    /\ ~InPipe /\ InHand => last = Head(hand["stdout"]).line
    /\ ~InPipe /\ ~InHand =>
          /\ \A i \in DOMAIN queue : LastInQueue(i) => last = queue[i].line
          /\ (\A i \in DOMAIN queue : ~InQueue(i)) => last = structured

LEMMA EndedStep ==
    ASSUME TypeOK, Control, Ended, Emptied, [Next]_vars
    PROVE  Ended' /\ Emptied'
<1> USE DEF Control, Ended, Emptied, mainVars, clocks, worldVars, Goto, Stopping,
            Alive, HelperAlive, Writers
<1>1. CASE Poll
  BY <1>1 DEF Poll
<1>2. CASE TestThreads
  BY <1>2 DEF TestThreads, ThreadAlive
<1>3. CASE TestEmpty
  BY <1>3 DEF TestEmpty
<1>4. CASE Turn
  BY <1>4 DEF Turn, Deadline
<1>5. CASE GetLine
  BY <1>5 DEF GetLine, AfterGet
<1>6. ASSUME Pass PROVE Ended'
  BY <1>6, OlderHand DEF Pass, TypeOK, Held
<1>7. CASE GetNothing
  BY <1>7, <1>6 DEF GetNothing, AfterGet
<1>8. CASE BeatTakesTime
  BY <1>8, <1>6 DEF BeatTakesTime
<1>9. CASE Beat
  BY <1>9 DEF Beat
<1>10. CASE Terminate
  BY <1>10 DEF Terminate, AfterStop, TermLeaves
<1>11. CASE Wait \/ WaitAgain
  BY <1>11, <1>6 DEF Wait, WaitAgain
<1>12. CASE Waited
  BY <1>12 DEF Waited, AfterStop
<1>13. CASE SigKill \/ SigKillPends
  BY <1>13 DEF SigKill, SigKillPends, Dies, AfterStop, TermLeaves
<1>14. CASE StuckChild
  BY <1>14 DEF StuckChild
<1>15. CASE WatchFails
  BY <1>15 DEF WatchFails
<1>16. ASSUME NEW s \in Stream, ReadLine(s) PROVE Ended' /\ Emptied'
  BY <1>16 DEF ReadLine, TypeOK
<1>17. ASSUME NEW s \in Stream, PutLine(s) PROVE Ended' /\ Emptied'
  BY <1>17 DEF PutLine, TypeOK
<1>18. ASSUME NEW s \in Stream, EndOfStream(s) PROVE Ended' /\ Emptied'
  BY <1>18 DEF EndOfStream
<1>19. ASSUME NEW s \in Stream, Write(s) PROVE Ended' /\ Emptied'
  BY <1>19 DEF Write, TypeOK
<1>20. CASE Fork
  BY <1>20 DEF Fork
<1>21. CASE ChildEnds
  BY <1>21 DEF ChildEnds, Dies
<1>22. CASE HelperEnds
  BY <1>22 DEF HelperEnds
<1>23. CASE UNCHANGED vars
  BY <1>23 DEF vars
<1> QED
  BY <1>1, <1>2, <1>3, <1>4, <1>5, <1>7, <1>8, <1>9, <1>10, <1>11, <1>12, <1>13, <1>14,
     <1>15, <1>16, <1>17, <1>18, <1>19, <1>20, <1>21, <1>22, <1>23
  DEF Next, Watches, Reads

(* So it is always.                                                        *)
LEMMA EndedHolds == Spec => [](Ended /\ Emptied)
<1>1. Init => Ended /\ Emptied
  BY DEF Init, Ended, Emptied
<1> QED
  BY <1>1, EndedStep, TypeCorrect, ControlHolds, PTL DEF Spec

(* A watched call is what Coordination assumes of its watching phases: it  *)
(* returns only with a dead child, whose output nobody holds any more.     *)
THEOREM WatchRefinement == Spec => KeepsWatch
<1> USE DEF Phase, ChildState, Alive, HelperAlive, Stopping
<1>1. Init => Watched!Init
  BY DEF Init, Watched!Init
<1>2. ASSUME Control, Ended, Emptied, [Next]_vars
      PROVE  [Watched!Next]_(Watched!vars)
  <2> USE DEF Control, mainVars, clocks, worldVars, Goto, Watched!Next, Watched!vars,
              Watched!Goto
  <2>1. CASE Poll
    BY <2>1 DEF Poll
  <2>2. CASE TestThreads
    BY <2>2 DEF TestThreads
  <2>3. CASE TestEmpty
    BY <1>2, <2>3 DEF TestEmpty, Ended, Emptied, Writers, Stream, Watched!Collect
  <2>4. CASE Turn
    BY <2>4 DEF Turn, Deadline, Watched!Overrun
  <2>5. CASE GetLine
    BY <2>5 DEF GetLine, AfterGet, Watched!Beat
  <2>6. CASE GetNothing
    BY <2>6 DEF GetNothing, AfterGet, Pass, Watched!Beat
  <2>7. CASE BeatTakesTime
    BY <2>7 DEF BeatTakesTime, Pass
  <2>8. CASE Beat
    BY <2>8 DEF Beat, StopsRefused, Watched!Renewed
  <2>9. CASE Terminate
    BY <2>9 DEF Terminate, AfterStop, TermLeaves, Watched!Terminated, Watched!HeirEnds
  <2>10. CASE Wait \/ WaitAgain
    BY <2>10 DEF Wait, WaitAgain, Pass
  <2>11. CASE Waited
    BY <2>11 DEF Waited, AfterStop, ChildEnded, Watched!Terminated
  <2>12. CASE SigKill \/ SigKillPends
    BY <2>12 DEF SigKill, SigKillPends, Dies, AfterStop, TermLeaves, Watched!Terminated,
                 Watched!HeirEnds
  <2>13. CASE StuckChild
    BY <2>13 DEF StuckChild, Watched!Fails
  <2>14. CASE WatchFails
    BY <2>14 DEF WatchFails, Watched!Fails
  <2>15. ASSUME NEW s \in Stream, Reads(s) \/ Write(s)
         PROVE  UNCHANGED <<pc, code, helper>>
    BY <2>15 DEF Reads, ReadLine, PutLine, EndOfStream, Write
  <2>16. CASE Fork
    BY <2>16 DEF Fork, Watched!Fork
  <2>17. CASE ChildEnds
    BY <2>17 DEF ChildEnds, Dies, Watched!ChildEnds
  <2>18. CASE HelperEnds
    BY <2>18 DEF HelperEnds, Watched!HeirEnds
  <2>19. CASE UNCHANGED vars
    BY <2>19 DEF vars
  <2> QED
    BY <1>2, <2>1, <2>2, <2>3, <2>4, <2>5, <2>6, <2>7, <2>8, <2>9, <2>10, <2>11, <2>12,
       <2>13, <2>14, <2>15, <2>16, <2>17, <2>18, <2>19
    DEF Next, Watches
<1> QED
  BY <1>1, <1>2, ControlHolds, EndedHolds, PTL DEF Spec, KeepsWatch, Watched!Spec

(* Time passes: every message keeps its line and its place. *)
LEMMA PassKeepsOrder ==
    ASSUME TypeOK, OneSource, OnItsWay, Pass, UNCHANGED structured
    PROVE  OneSource' /\ OnItsWay'
<1>1. /\ DOMAIN queue' = DOMAIN queue
      /\ \A i \in DOMAIN queue : queue'[i].line = queue[i].line
  <2>1. /\ queue' = [i \in DOMAIN queue |-> [queue[i] EXCEPT !.age = Least(@ + 1, Silence)]]
        /\ \A i \in DOMAIN queue : queue[i] \in Message
    BY DEF Pass, Older, TypeOK
  <2>2. \A m \in Message : [m EXCEPT !.age = Least(@ + 1, Silence)].line = m.line
    BY DEF Message
  <2> QED
    BY <2>1, <2>2
<1>2. ASSUME NEW s \in Stream
      PROVE  /\ hand[s] # <<>> <=> hand'[s] # <<>>
             /\ hand[s] # <<>> => Head(hand'[s]).line = Head(hand[s]).line
  <2>1. hand'[s] = Older(hand[s]) /\ hand[s] \in Held
    BY DEF Pass, TypeOK, Held
  <2>2. CASE hand[s] = <<>>
    BY <2>1, <2>2, OlderHand
  <2>3. ASSUME NEW m \in Message, hand[s] = <<m>>
        PROVE  hand'[s] # <<>> /\ Head(hand'[s]).line = Head(hand[s]).line
    BY <2>1, <2>3 DEF Older, Message
  <2> QED
    BY <2>1, <2>2, <2>3 DEF Held
<1>3. UNCHANGED <<pipe, last, structured>>
  BY DEF Pass, worldVars
<1> QED
  BY <1>1, <1>2, <1>3 DEF OneSource, OnItsWay, InPipe, InHand, InQueue, LastInQueue, Stream

LEMMA OrderStep ==
    ASSUME TypeOK, OneSource, OnItsWay, [Next]_vars
    PROVE  OneSource' /\ OnItsWay'
<1> DEFINE Same == UNCHANGED <<queue, hand, pipe, last, structured>>
<1> USE DEF mainVars, clocks, worldVars, Goto
<1>1. ASSUME Same PROVE OneSource' /\ OnItsWay'
  BY <1>1 DEF OneSource, OnItsWay, InPipe, InHand, InQueue, LastInQueue
<1>2. CASE Poll \/ TestThreads \/ TestEmpty \/ Turn
  BY <1>1, <1>2 DEF Poll, TestThreads, TestEmpty, Turn
<1>3. CASE GetLine
  <2>1. /\ queue # <<>> /\ queue \in Seq(Message) /\ queue' = Tail(queue)
        /\ structured' = NewOutput(Head(queue))
        /\ UNCHANGED <<hand, pipe, last>>
    BY <1>3 DEF GetLine, TypeOK
  <2>2. /\ DOMAIN queue = 1..Len(queue) /\ Len(queue) \in Nat /\ Len(queue) > 0
        /\ DOMAIN queue' = 1..(Len(queue) - 1)
        /\ \A i \in DOMAIN queue' : queue'[i] = queue[i + 1]
        /\ Head(queue) = queue[1]
    BY <2>1
  <2>3. OneSource' /\ InPipe' = InPipe /\ InHand' = InHand
    BY <2>1 DEF OneSource, InPipe, InHand
  <2>4. \A i \in DOMAIN queue' : InQueue(i)' <=> InQueue(i + 1)
    BY <2>2 DEF InQueue
  <2>5. ASSUME ~InPipe, ~InHand, NEW i \in DOMAIN queue', LastInQueue(i)'
        PROVE  last' = queue'[i].line
    <3>1. i + 1 \in DOMAIN queue /\ InQueue(i + 1)
      BY <2>2, <2>4, <2>5 DEF LastInQueue
    <3>2. ASSUME NEW j \in DOMAIN queue, j > i + 1
          PROVE  ~InQueue(j)
      <4>1. j - 1 \in DOMAIN queue' /\ j - 1 > i /\ (j - 1) + 1 = j
        BY <2>2, <3>2
      <4>2. ~InQueue(j - 1)'
        BY <2>5, <4>1 DEF LastInQueue
      <4> QED
        BY <2>4, <4>1, <4>2
    <3>3. LastInQueue(i + 1)
      BY <3>1, <3>2 DEF LastInQueue
    <3> QED
      BY <2>1, <2>2, <2>5, <3>1, <3>3 DEF OnItsWay
  <2>6. ASSUME ~InPipe, ~InHand, \A i \in DOMAIN queue' : ~InQueue(i)'
        PROVE  last' = structured'
    <3>1. \A j \in DOMAIN queue : j > 1 => ~InQueue(j)
      <4> SUFFICES ASSUME NEW j \in DOMAIN queue, j > 1
                   PROVE  ~InQueue(j)
        OBVIOUS
      <4>1. j - 1 \in DOMAIN queue' /\ (j - 1) + 1 = j
        BY <2>2
      <4> QED
        BY <2>4, <2>6, <4>1
    <3>2. 1 \in DOMAIN queue
      BY <2>2
    <3>3. CASE InQueue(1)
      <4>1. LastInQueue(1)
        BY <3>1, <3>3 DEF LastInQueue
      <4> QED
        BY <2>1, <2>2, <2>6, <3>2, <3>3, <4>1 DEF OnItsWay, InQueue, NewOutput
    <3>4. CASE ~InQueue(1)
      <4>1. \A j \in DOMAIN queue : ~InQueue(j)
        BY <2>2, <3>1, <3>4
      <4> QED
        BY <2>1, <2>2, <2>6, <3>2, <3>4, <4>1 DEF OnItsWay, InQueue, NewOutput
    <3> QED
      BY <3>3, <3>4
  <2> QED
    BY <2>1, <2>3, <2>5, <2>6 DEF OnItsWay, InPipe, InHand
<1>4. CASE GetNothing \/ BeatTakesTime \/ Wait \/ WaitAgain
  BY <1>4, PassKeepsOrder DEF GetNothing, BeatTakesTime, Wait, WaitAgain
<1>5. CASE \/ Beat \/ Terminate \/ Waited \/ SigKill \/ SigKillPends \/ StuckChild
           \/ WatchFails
  BY <1>1, <1>5 DEF Beat, Terminate, Waited, SigKill, SigKillPends, StuckChild, WatchFails
<1>6. ASSUME NEW s \in Stream, ReadLine(s) PROVE OneSource' /\ OnItsWay'
  <2>1. PICK l \in Words \cup Output : pipe[s] = <<l>>
    BY <1>6 DEF ReadLine, TypeOK
  <2>2. /\ hand[s] = <<>> /\ hand'[s] # <<>> /\ Head(hand'[s]).line = l
        /\ pipe'[s] = <<>> /\ Head(pipe[s]) = l /\ pipe[s] # <<>>
        /\ \A t \in Stream : t # s => hand'[t] = hand[t] /\ pipe'[t] = pipe[t]
        /\ UNCHANGED <<queue, last, structured>>
    BY <1>6, <2>1 DEF ReadLine, TypeOK
  <2>3. CASE s = "stdout"
    BY <2>2, <2>3
    DEF OneSource, OnItsWay, InPipe, InHand, InQueue, LastInQueue, Stream
  <2>4. CASE s = "stderr"
    BY <2>2, <2>4
    DEF OneSource, OnItsWay, InPipe, InHand, InQueue, LastInQueue, Stream
  <2> QED
    BY <2>3, <2>4 DEF Stream
<1>7. ASSUME NEW s \in Stream, PutLine(s) PROVE OneSource' /\ OnItsWay'
  <2>1. PICK m \in Message : hand[s] = <<m>>
    BY <1>7 DEF PutLine, TypeOK
  <2>2. /\ hand[s] # <<>> /\ Head(hand[s]) = m /\ hand'[s] = <<>>
        /\ \A t \in Stream : t # s => hand'[t] = hand[t]
        /\ UNCHANGED <<pipe, last, structured>>
    BY <1>7, <2>1 DEF PutLine, TypeOK
  <2>0. PICK n \in Nat : n = Len(queue)
    BY DEF TypeOK
  <2>3. /\ queue \in Seq(Message) /\ n = Len(queue)
        /\ DOMAIN queue = 1..n /\ DOMAIN queue' = 1..(n + 1)
        /\ \A i \in DOMAIN queue : queue'[i] = queue[i]
        /\ queue'[n + 1] = m
    BY <1>7, <2>0, <2>1 DEF PutLine, TypeOK
  <2>4. \A i \in DOMAIN queue : i \in DOMAIN queue' /\ i # n + 1
                                /\ (InQueue(i)' <=> InQueue(i))
    BY <2>3 DEF InQueue
  <2>5. OneSource' /\ InPipe' = InPipe
    BY <2>2 DEF OneSource, InPipe, Stream
  <2>6. CASE m.line \in Output
    <3>1. s = "stdout" /\ InHand
      BY <2>2, <2>6 DEF OneSource, Stream, InHand
    <3>2. InQueue(n + 1)'
      BY <2>3, <2>6 DEF InQueue
    <3>3. ASSUME NEW i \in DOMAIN queue', LastInQueue(i)'
          PROVE  i = n + 1
      BY <2>3, <3>2, <3>3 DEF LastInQueue
    <3>4. n + 1 \in DOMAIN queue'
      BY <2>3
    <3> QED
      BY <2>2, <2>3, <2>5, <3>1, <3>2, <3>3, <3>4 DEF OnItsWay, InHand, InPipe
  <2>7. CASE m.line \notin Output
    <3>1. InHand' = InHand
      BY <2>2, <2>7 DEF InHand, Stream
    <3>2. ~InQueue(n + 1)'
      BY <2>3, <2>7 DEF InQueue
    <3>3. ASSUME NEW i \in DOMAIN queue', LastInQueue(i)'
          PROVE  i \in DOMAIN queue /\ LastInQueue(i)
      <4>1. InQueue(i)' /\ i # n + 1
        BY <3>2, <3>3 DEF LastInQueue
      <4>2. i \in DOMAIN queue /\ InQueue(i)
        BY <2>3, <2>4, <4>1
      <4> QED
        BY <2>4, <3>3, <4>2 DEF LastInQueue
    <3>4. (\A i \in DOMAIN queue' : ~InQueue(i)') => \A i \in DOMAIN queue : ~InQueue(i)
      BY <2>4
    <3>5. InHand' => Head(hand'["stdout"]).line = Head(hand["stdout"]).line
      BY <2>2, <2>7 DEF InHand, Stream
    <3> QED
      BY <2>2, <2>3, <2>5, <3>1, <3>3, <3>4, <3>5 DEF OnItsWay, InPipe
  <2> QED
    BY <2>6, <2>7
<1>8. ASSUME NEW s \in Stream, EndOfStream(s) PROVE OneSource' /\ OnItsWay'
  BY <1>1, <1>8 DEF EndOfStream
<1>9. ASSUME NEW s \in Stream, Write(s) PROVE OneSource' /\ OnItsWay'
  <2>1. PICK line \in Line(s) :
           /\ pipe[s] = <<>>
           /\ pipe' = [pipe EXCEPT ![s] = <<line>>]
           /\ last' = IF line \in Output THEN line ELSE last
           /\ UNCHANGED <<queue, hand, structured>>
    BY <1>9 DEF Write
  <2>2. /\ pipe'[s] # <<>> /\ Head(pipe'[s]) = line
        /\ \A t \in Stream : t # s => pipe'[t] = pipe[t]
    BY <2>1 DEF TypeOK
  <2>3. CASE s = "stdout"
    BY <2>1, <2>2, <2>3
    DEF OneSource, OnItsWay, InPipe, InHand, InQueue, LastInQueue, Stream
  <2>4. CASE s = "stderr"
    <3>1. line \notin Output
      BY <2>4, OutputAssumption DEF Line, Words
    <3> QED
      BY <2>1, <2>2, <2>4, <3>1
      DEF OneSource, OnItsWay, InPipe, InHand, InQueue, LastInQueue, Stream
  <2> QED
    BY <2>3, <2>4 DEF Stream
<1>10. CASE Fork \/ ChildEnds \/ HelperEnds
  BY <1>1, <1>10 DEF Fork, ChildEnds, HelperEnds, Dies
<1>11. CASE UNCHANGED vars
  BY <1>1, <1>11 DEF vars
<1> QED
  BY <1>2, <1>3, <1>4, <1>5, <1>6, <1>7, <1>8, <1>9, <1>10, <1>11
  DEF Next, Watches, Reads

(* run_process returns the last structured object that was written: until  *)
(* then the newest one is in the pipe, in the reader's hand, in the queue  *)
(* or consumed, in this order, and the loop ends with all three empty.     *)
THEOREM NothingIsLost == Spec => []LastWordKept
<1>1. Init => Ended /\ Emptied /\ OneSource /\ OnItsWay
  BY DEF Init, Ended, Emptied, OneSource, OnItsWay, InPipe, InHand, InQueue, Stream
<1>2. TypeOK /\ Ended /\ Emptied /\ OnItsWay => LastWordKept
  BY DEF TypeOK, Ended, Emptied, OnItsWay, LastWordKept, InPipe, InHand, InQueue, Stream
<1> QED
  BY <1>1, <1>2, EndedStep, OrderStep, TypeCorrect, ControlHolds, PTL DEF Spec

-----------------------------------------------------------------------------
(* Silence.  Lines grow old only during a heartbeat, because time passes   *)
(* in the loop itself only once nothing is waiting: with WellPaced every   *)
(* line of one heartbeat is consumed before the next.  So a waiting line   *)
(* is no older than a heartbeat, and quiet, which a line put out of order  *)
(* may set back, exceeds the true silence by no more.                      *)

Fresh(n) == \A m \in Message : Waiting(m) => m.age <= n
NoneHeard == \A m \in Message : Waiting(m) => ~Heard(m.line)
Serving == Alive /\ pc \in {"poll", "turn", "get", "beat"}
Paced ==
    WellPaced /\ Serving =>
        /\ Fresh(IF pc = "beat" THEN waited ELSE Slow)
        /\ pc = "beat" => waited <= Slow /\ sinceBeat <= waited + 1
        /\ pc = "get" /\ due => sinceBeat = 0
        /\ pc # "beat" => Fresh(0) \/ (sinceBeat <= Slow + 1 /\ (pc = "get" => ~due))
        /\ NoneHeard => quiet <= spoke + Slow

LEMMA PutWaits ==
    ASSUME TypeOK, NEW s \in Stream, PutLine(s), NEW m \in Message
    PROVE  Waiting(m)' <=> Waiting(m)
<1>1. PICK h \in Message : hand[s] = <<h>>
  BY DEF PutLine, TypeOK
<1>2. /\ queue \in Seq(Message) /\ queue' = queue \o <<h>>
      /\ hand \in [Stream -> Held] /\ hand' = [hand EXCEPT ![s] = <<>>]
  BY <1>1 DEF PutLine, TypeOK, Held
<1>3. /\ DOMAIN queue = 1..Len(queue) /\ DOMAIN queue' = 1..(Len(queue) + 1)
      /\ Len(queue) \in Nat
      /\ queue'[Len(queue) + 1] = h
      /\ \A i \in 1..Len(queue) : queue'[i] = queue[i]
  BY <1>2
<1>4. (\E i \in DOMAIN queue' : queue'[i] = m) <=> (\E i \in DOMAIN queue : queue[i] = m) \/ m = h
  BY <1>3
<1>5. (\E t \in Stream : hand[t] = <<m>>) <=> (\E t \in Stream : hand'[t] = <<m>>) \/ m = h
  <2>1. hand'[s] = <<>> /\ \A t \in Stream \ {s} : hand'[t] = hand[t]
    BY <1>2
  <2>2. <<m>> # <<>> /\ (<<h>> = <<m>> <=> m = h)
    OBVIOUS
  <2> QED
    BY <1>1, <2>1, <2>2
<1> QED
  BY <1>4, <1>5 DEF Waiting

LEMMA ReadWaits ==
    ASSUME TypeOK, NEW s \in Stream, ReadLine(s)
    PROVE  \E n \in Message :
              /\ n.age = 0 /\ n.line = Head(pipe[s])
              /\ \A m \in Message : Waiting(m)' <=> Waiting(m) \/ m = n
<1>1. PICK l \in Words \cup Output : pipe[s] = <<l>>
  BY DEF ReadLine, TypeOK
<1> DEFINE n == [source |-> s, line |-> l, age |-> 0]
<1>2. n \in Message /\ n.age = 0 /\ n.line = Head(pipe[s])
  BY <1>1, Times DEF Message
<1>3. hand' = [hand EXCEPT ![s] = <<n>>] /\ hand[s] = <<>> /\ hand \in [Stream -> Held]
      /\ queue' = queue
  BY <1>1 DEF ReadLine, TypeOK, Held
<1> HIDE DEF n
<1>4. hand'[s] = <<n>> /\ \A t \in Stream \ {s} : hand'[t] = hand[t]
  BY <1>3
<1>5. \A m \in Message : <<m>> # <<>> /\ (<<n>> = <<m>> <=> m = n)
  OBVIOUS
<1>6. \A m \in Message : Waiting(m)' <=> Waiting(m) \/ m = n
  BY <1>3, <1>4, <1>5 DEF Waiting
<1> QED
  BY <1>2, <1>6

LEMMA GetWaits ==
    ASSUME TypeOK, GetLine
    PROVE  /\ Head(queue) \in Message /\ Waiting(Head(queue))
           /\ \A m \in Message : Waiting(m)' => Waiting(m)
           /\ \A m \in Message : Waiting(m) => Waiting(m)' \/ m = Head(queue)
<1>1. queue \in Seq(Message) /\ queue # <<>> /\ queue' = Tail(queue) /\ hand' = hand
  BY DEF GetLine, TypeOK
<1>2. /\ Head(queue) \in Message /\ Head(queue) = queue[1] /\ 1 \in DOMAIN queue
      /\ DOMAIN queue = 1..Len(queue) /\ DOMAIN queue' = 1..(Len(queue) - 1)
      /\ Len(queue) \in Nat \ {0}
      /\ \A i \in 1..(Len(queue) - 1) : queue'[i] = queue[i + 1]
  BY <1>1
<1>3. \A i \in DOMAIN queue : i = 1 \/ (i - 1 \in DOMAIN queue' /\ queue'[i - 1] = queue[i])
  BY <1>2
<1>4. \A i \in DOMAIN queue' : i + 1 \in DOMAIN queue /\ queue[i + 1] = queue'[i]
  BY <1>2
<1>5. Waiting(Head(queue))
  BY <1>2 DEF Waiting
<1>6. ASSUME NEW m \in Message, Waiting(m)' PROVE Waiting(m)
  <2>1. CASE \E i \in DOMAIN queue' : queue'[i] = m
    BY <1>4, <2>1 DEF Waiting
  <2> QED
    BY <1>1, <1>6, <2>1 DEF Waiting
<1>7. ASSUME NEW m \in Message, Waiting(m), m # Head(queue) PROVE Waiting(m)'
  <2>1. CASE \E i \in DOMAIN queue : queue[i] = m
    BY <1>2, <1>3, <1>7, <2>1 DEF Waiting
  <2> QED
    BY <1>1, <1>7, <2>1 DEF Waiting
<1> QED
  BY <1>2, <1>5, <1>6, <1>7

Aged(m) == [m EXCEPT !.age = Least(@ + 1, Silence)]

LEMMA PassWaits ==
    ASSUME TypeOK, Pass
    PROVE  /\ \A m \in Message : Waiting(m) => Waiting(Aged(m))'
           /\ \A m \in Message : Waiting(m)' => \E n \in Message : Waiting(n) /\ m = Aged(n)
<1>1. /\ queue \in Seq(Message) /\ queue' = [i \in DOMAIN queue |-> Aged(queue[i])]
      /\ hand \in [Stream -> Held] /\ hand' = [s \in Stream |-> Older(hand[s])]
  BY DEF Pass, TypeOK, Held, Older, Aged
<1>2. ASSUME NEW s \in Stream, NEW m \in Message, hand[s] = <<m>>
      PROVE  hand'[s] = <<Aged(m)>>
  <2>1. hand'[s] = [i \in DOMAIN hand[s] |-> Aged(hand[s][i])]
    BY <1>1 DEF Older, Aged
  <2> QED
    BY <1>2, <2>1
<1>3. ASSUME NEW s \in Stream, NEW m \in Message, hand'[s] = <<m>>
      PROVE  \E n \in Message : hand[s] = <<n>> /\ m = Aged(n)
  <2>1. hand[s] # <<>>
    <3>1. hand'[s] = Older(hand[s]) /\ hand[s] \in Held
      BY <1>1
    <3>2. hand'[s] # <<>>
      BY <1>3
    <3> QED
      BY <3>1, <3>2, OlderHand
  <2>2. PICK n \in Message : hand[s] = <<n>>
    BY <1>1, <2>1 DEF Held
  <2>3. <<m>> = <<Aged(n)>>
    BY <1>2, <1>3, <2>2
  <2> QED
    BY <2>2, <2>3
<1>4. \A i \in DOMAIN queue : i \in DOMAIN queue' /\ queue'[i] = Aged(queue[i])
  BY <1>1
<1>5. DOMAIN queue' = DOMAIN queue /\ \A i \in DOMAIN queue : queue[i] \in Message
  BY <1>1
<1>6. ASSUME NEW m \in Message, Waiting(m) PROVE Waiting(Aged(m))'
  <2>1. CASE \E i \in DOMAIN queue : queue[i] = m
    BY <1>4, <2>1 DEF Waiting
  <2>2. CASE \E s \in Stream : hand[s] = <<m>>
    BY <1>2, <2>2 DEF Waiting
  <2> QED
    BY <1>6, <2>1, <2>2 DEF Waiting
<1>7. ASSUME NEW m \in Message, Waiting(m)' PROVE \E n \in Message : Waiting(n) /\ m = Aged(n)
  <2>1. CASE \E i \in DOMAIN queue' : queue'[i] = m
    BY <1>4, <1>5, <2>1 DEF Waiting
  <2>2. CASE \E s \in Stream : hand'[s] = <<m>>
    BY <1>3, <2>2 DEF Waiting
  <2> QED
    BY <1>7, <2>1, <2>2 DEF Waiting
<1> QED
  BY <1>6, <1>7

LEMMA AgedFields ==
    ASSUME NEW m \in Message
    PROVE  /\ Aged(m) \in Message /\ Aged(m).line = m.line
           /\ m.age \in Nat /\ Aged(m).age \in Nat /\ Aged(m).age <= m.age + 1
<1>1. m.age \in 0..Silence
  BY DEF Message
<1>2. PICK a \in 0..Silence : a = Least(m.age + 1, Silence) /\ a <= m.age + 1
  BY <1>1, Times DEF Least
<1>3. Aged(m) = [m EXCEPT !.age = a]
  BY <1>2 DEF Aged
<1> QED
  BY <1>1, <1>2, <1>3, Times DEF Message

LEMMA PacedStep ==
    ASSUME TypeOK, Control, Paced, [Next]_vars
    PROVE  Paced'
<1> SUFFICES ASSUME WellPaced, Serving'
             PROVE  /\ Fresh(IF pc = "beat" THEN waited ELSE Slow)'
                    /\ pc' = "beat" => waited' <= Slow /\ sinceBeat' <= waited' + 1
                    /\ pc' = "get" /\ due' => sinceBeat' = 0
                    /\ pc' # "beat" => Fresh(0)'
                                       \/ (sinceBeat' <= Slow + 1 /\ (pc' = "get" => ~due'))
                    /\ NoneHeard' => quiet' <= spoke' + Slow
  BY DEF Paced, WellPaced
<1> DEFINE Goal == /\ Fresh(IF pc = "beat" THEN waited ELSE Slow)'
                   /\ pc' = "beat" => waited' <= Slow /\ sinceBeat' <= waited' + 1
                   /\ pc' = "get" /\ due' => sinceBeat' = 0
                   /\ pc' # "beat" => Fresh(0)'
                                      \/ (sinceBeat' <= Slow + 1 /\ (pc' = "get" => ~due'))
                   /\ NoneHeard' => quiet' <= spoke' + Slow
<1>0. /\ Slow \in Nat /\ Interval \in Nat /\ Silence \in Nat
      /\ Slow + 1 < Interval /\ Slow < Silence
      /\ waited \in Nat /\ sinceBeat \in 0..Interval
      /\ quiet \in 0..Silence /\ spoke \in 0..Silence
      /\ due \in BOOLEAN
      /\ \A m \in Message : m.age \in Nat
  BY Times DEF TypeOK, WellPaced, Message
<1>1. UNCHANGED <<queue, hand>> => \A m \in Message : Waiting(m)' <=> Waiting(m)
  BY DEF Waiting
<1> USE DEF mainVars, clocks, worldVars, Goto, Stopping, Alive
(* Steps that change neither what waits nor time nor place. *)
<1>2. ASSUME UNCHANGED <<pc, due, waited, sinceBeat, quiet, spoke, code>>,
             \A m \in Message : Waiting(m)' <=> Waiting(m)
      PROVE  Goal
  BY <1>2 DEF Paced, Serving, Fresh, NoneHeard
<1>3. CASE Poll
  BY <1>0, <1>1, <1>3 DEF Poll, Paced, Serving, Fresh, NoneHeard
<1>4. CASE TestThreads \/ TestEmpty
  BY <1>4 DEF TestThreads, TestEmpty, Control, Serving
<1>5. CASE Turn
  <2>1. /\ pc = "turn" /\ pc' = "get" /\ waited' = 0
        /\ UNCHANGED <<quiet, spoke, queue, hand, code>>
    BY <1>5 DEF Turn, Serving
  <2>2. due' <=> sinceBeat >= Interval
    BY <1>5, Zenon DEF Turn
  <2>3. sinceBeat' = IF due' THEN 0 ELSE sinceBeat
    BY <1>5, Zenon DEF Turn
  <2>4. /\ Fresh(Slow) /\ (Fresh(0) \/ sinceBeat <= Slow + 1)
        /\ NoneHeard => quiet <= spoke + Slow
    BY <2>1 DEF Paced, Serving
  <2>5. sinceBeat <= Slow + 1 => ~(sinceBeat >= Interval)
    BY <1>0
  <2>6. \A m \in Message : Waiting(m)' <=> Waiting(m)
    BY <1>1, <2>1
  <2>7. /\ Fresh(IF pc = "beat" THEN waited ELSE Slow)'
        /\ Fresh(0) => Fresh(0)'
        /\ NoneHeard' => quiet' <= spoke' + Slow
    BY <2>1, <2>4, <2>6 DEF Fresh, NoneHeard
  <2>8. CASE due'
    BY <2>1, <2>2, <2>3, <2>4, <2>5, <2>7, <2>8
  <2>9. CASE ~due'
    BY <1>0, <2>1, <2>2, <2>3, <2>4, <2>5, <2>7, <2>9
  <2> QED
    BY <2>8, <2>9
<1>6. CASE GetLine
  <2>1. /\ Head(queue) \in Message /\ Waiting(Head(queue))
        /\ \A m \in Message : Waiting(m)' => Waiting(m)
        /\ \A m \in Message : Waiting(m) => Waiting(m)' \/ m = Head(queue)
    BY <1>6, GetWaits
  <2>2. /\ pc = "get" /\ pc' = (IF due THEN "beat" ELSE "poll") /\ waited' = 0
        /\ UNCHANGED <<due, sinceBeat, spoke, code>>
        /\ quiet' = IF Alive /\ Heard(Head(queue).line) THEN Head(queue).age ELSE quiet
    BY <1>6 DEF GetLine, AfterGet, Activity
  <2>3. Serving /\ Alive
    BY <2>2 DEF Serving
  <2>4. Head(queue).age \in Nat /\ Head(queue).age <= Slow
    BY <1>0, <2>1, <2>2, <2>3 DEF Paced, Fresh
  <2>5. NoneHeard' => quiet' <= spoke' + Slow
    BY <1>0, <2>1, <2>2, <2>3, <2>4 DEF Paced, NoneHeard
  <2>6. due => Fresh(0) /\ sinceBeat = 0
    BY <2>2, <2>3 DEF Paced
  <2>7. CASE due
    <3>1. pc' = "beat" /\ sinceBeat' = 0 /\ Fresh(0)'
      BY <2>1, <2>2, <2>6, <2>7 DEF Fresh
    <3> QED
      BY <1>0, <2>2, <2>5, <3>1 DEF Fresh
  <2>8. CASE ~due
    <3>1. pc' = "poll" /\ Fresh(Slow) /\ (Fresh(0) \/ sinceBeat <= Slow + 1)
      BY <2>2, <2>3, <2>8 DEF Paced
    <3> QED
      BY <1>0, <2>1, <2>2, <2>5, <3>1 DEF Fresh
  <2> QED
    BY <2>7, <2>8
<1>7. ASSUME Pass PROVE /\ sinceBeat' <= sinceBeat + 1 /\ sinceBeat' \in Nat
                        /\ quiet' \in Nat /\ spoke' \in Nat
                        /\ quiet <= spoke + Slow => quiet' <= spoke' + Slow
                        /\ code' = code
  BY <1>0, <1>7 DEF Pass, Least
<1>8. CASE GetNothing
  <2>1. /\ Pass /\ queue = <<>> /\ pc = "get" /\ UNCHANGED due
        /\ pc' = (IF due THEN "beat" ELSE "poll") /\ waited' = 0
    BY <1>8 DEF GetNothing, AfterGet
  <2>2. \A s \in Stream : hand[s] = <<>>
    BY <1>0, <2>1, Times DEF Pass, ReadersIdle, Room
  <2>3. \A m \in Message : ~Waiting(m)
    BY <2>1, <2>2 DEF Waiting
  <2>4. \A m \in Message : ~Waiting(m)'
    BY <2>1, <2>3, PassWaits
  <2>5. Serving /\ quiet <= spoke + Slow /\ (due => sinceBeat = 0)
    BY <1>7, <2>1, <2>3 DEF Serving, Paced, NoneHeard
  <2> QED
    BY <1>0, <1>7, <2>1, <2>4, <2>5 DEF Fresh
<1>9. CASE BeatTakesTime
  <2>1. Pass /\ pc = "beat" /\ pc' = "beat" /\ waited < Slow /\ waited' = waited + 1
    BY <1>9 DEF BeatTakesTime
  <2>2. Serving /\ Fresh(waited) /\ sinceBeat <= waited + 1
        /\ (NoneHeard => quiet <= spoke + Slow)
    BY <1>7, <2>1 DEF Serving, Paced
  <2>3. \A m \in Message : Waiting(m)' => m.age <= waited + 1
    <3> SUFFICES ASSUME NEW m \in Message, Waiting(m)' PROVE m.age <= waited + 1
      OBVIOUS
    <3>1. PICK n \in Message : Waiting(n) /\ m = Aged(n)
      BY <2>1, PassWaits
    <3>2. n.age <= waited /\ n.age \in Nat /\ m.age \in Nat /\ m.age <= n.age + 1
      BY <2>2, <3>1, AgedFields DEF Fresh
    <3> QED
      BY <1>0, <3>2
  <2>4. NoneHeard' => NoneHeard
    <3> SUFFICES ASSUME NoneHeard', NEW m \in Message, Waiting(m) PROVE ~Heard(m.line)
      BY DEF NoneHeard
    <3>1. Waiting(Aged(m))' /\ Aged(m) \in Message /\ Aged(m).line = m.line
      BY <2>1, PassWaits, AgedFields
    <3>2. \A n \in Message : Waiting(n)' => ~Heard(n.line)
      BY DEF NoneHeard
    <3> QED
      BY <3>1, <3>2
  <2> QED
    BY <1>0, <1>7, <2>1, <2>2, <2>3, <2>4 DEF Fresh
<1>10. CASE Beat
  BY <1>0, <1>1, <1>10 DEF Beat, Paced, Serving, Fresh, NoneHeard
<1>11. CASE \/ Terminate \/ Wait \/ Waited \/ SigKill \/ SigKillPends \/ WaitAgain
            \/ StuckChild \/ WatchFails
  BY <1>7, <1>11 DEF Terminate, AfterStop, Wait, Waited, ChildEnded, SigKill, SigKillPends,
     WaitAgain, Dies, StuckChild,
                     WatchFails, Serving
<1>12. ASSUME NEW s \in Stream, ReadLine(s) PROVE Goal
  <2>1. PICK n \in Message :
           /\ n.age = 0 /\ n.line = Head(pipe[s])
           /\ \A m \in Message : Waiting(m)' <=> Waiting(m) \/ m = n
    BY <1>12, ReadWaits
  <2>2. /\ UNCHANGED <<pc, due, waited, sinceBeat, quiet, code>>
        /\ spoke' = IF Alive /\ Heard(n.line) THEN 0 ELSE spoke
    BY <1>12, <2>1 DEF ReadLine
  <2>3. Serving
    BY <2>2 DEF Serving
  <2>4. NoneHeard' => NoneHeard /\ ~Heard(n.line)
    BY <2>1 DEF NoneHeard
  <2>5. NoneHeard' => quiet' <= spoke' + Slow
    BY <2>2, <2>3, <2>4 DEF Paced
  <2>6. ASSUME NEW k \in Nat, Fresh(k) PROVE \A m \in Message : Waiting(m)' => m.age <= k
    BY <2>1, <2>6 DEF Fresh
  <2> QED
    BY <1>0, <2>2, <2>3, <2>5, <2>6 DEF Paced, Fresh
<1>13. ASSUME NEW s \in Stream, PutLine(s) PROVE Goal
  BY <1>2, <1>13, PutWaits DEF PutLine
<1>14. ASSUME NEW s \in Stream, EndOfStream(s) \/ Write(s) PROVE Goal
  BY <1>1, <1>2, <1>14 DEF EndOfStream, Write
<1>15. CASE Fork \/ HelperEnds \/ UNCHANGED vars
  BY <1>1, <1>2, <1>15 DEF Fork, HelperEnds, vars
<1>16. CASE ChildEnds
  BY <1>16 DEF ChildEnds, Dies, Serving
<1> QED
  BY <1>3, <1>4, <1>5, <1>6, <1>8, <1>9, <1>10, <1>11, <1>12, <1>13, <1>14, <1>15, <1>16
  DEF Next, Watches, Reads

(* A child stopped for silence was silent: what waits came during the last *)
(* heartbeat, and otherwise the last line is older than the timeout less a *)
(* heartbeat, for any capacity, times and output.                          *)
THEOREM SilenceWasReal == Spec => SilenceIsReal
<1>1. Init => Paced
  <2> SUFFICES ASSUME Init PROVE Paced
    OBVIOUS
  <2>1. \A m \in Message : ~Waiting(m)
    BY DEF Init, Waiting
  <2> QED
    BY <2>1, Times DEF Init, Paced, Fresh, NoneHeard
<1>2. ASSUME TypeOK, Paced, [Next]_vars, WellPaced, pc = "turn", reason' # reason,
             reason' = "silence_timeout"
      PROVE  /\ \A m \in Unheard : m.age <= Slow
             /\ Unheard = {} => spoke + Slow >= Silence
  <2>1. Alive /\ quiet >= Silence
    <3>1. Turn
      <4>1. \A s \in Stream : Reads(s) \/ Write(s) => UNCHANGED reason
        BY DEF Reads, ReadLine, PutLine, EndOfStream, Write, mainVars
      <4> QED
        BY <1>2, <4>1
        DEF Next, Watches, Poll, TestThreads, TestEmpty, GetLine, GetNothing, BeatTakesTime,
            Beat, Terminate, Wait, Waited, SigKill, SigKillPends, WaitAgain, StuckChild,
            WatchFails, Fork, ChildEnds, HelperEnds, vars, mainVars
    <3> QED
      BY <1>2, <3>1 DEF Turn, Deadline
  <2>2. Serving /\ pc # "beat"
    BY <1>2, <2>1 DEF Serving
  <2>3. Fresh(Slow) /\ (NoneHeard => quiet <= spoke + Slow)
    BY <1>2, <2>2 DEF Paced
  <2>4. Unheard = {} => NoneHeard
    BY DEF Unheard, NoneHeard
  <2>5. quiet \in Nat /\ spoke \in Nat /\ Slow \in Nat /\ Silence \in Nat
    BY <1>2, Times DEF TypeOK
  <2> QED
    BY <2>1, <2>3, <2>4, <2>5 DEF Fresh, Unheard
<1>3. TypeOK /\ Paced /\ [Next]_vars =>
        [(WellPaced /\ pc = "turn" /\ reason' # reason /\ reason' = "silence_timeout") =>
            /\ \A m \in Unheard : m.age <= Slow
            /\ Unheard = {} => spoke + Slow >= Silence]_vars
  BY <1>2
<1> QED
  BY <1>1, <1>3, PacedStep, TypeCorrect, ControlHolds, PTL DEF Spec, SilenceIsReal
=============================================================================
