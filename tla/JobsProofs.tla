----------------------------- MODULE JobsProofs -----------------------------
(* Theorems about Jobs, for any jobs, names, starters, pollers and limits. *)
EXTENDS Jobs, FiniteSetTheorems, TLAPS

-----------------------------------------------------------------------------
(* The inductive invariant. *)

(* A job that is being started has no row yet and is nobody else's, and a  *)
(* job that was never named was never started.                             *)
Starting ==
    /\ \A s \in Starter : spc[s] # "idle" =>
          /\ status[sjob[s]] = "none"
          /\ name[sjob[s]] # NoName
          /\ spc[s] # "insert" => command[sjob[s]] = "none"
          /\ spc[s] = "insert" => command[sjob[s]] # "none"
    /\ \A s, u \in Starter : spc[s] # "idle" /\ spc[u] # "idle" /\ sjob[s] = sjob[u] => s = u
    /\ \A j \in Job : name[j] = NoName => status[j] = "none" /\ command[j] = "none"

(* The shell waits for its command, and writes the code it got; only a     *)
(* stubborn command, or one whose shell is killed, survives its shell.     *)
Writing ==
    \A j \in Job :
        /\ status[j] # "none" => command[j] # "none"
        /\ command[j] = "alive" => \/ shell[j] = "waits"
                                   \/ shell[j] = "gone" /\ (Stubborn \/ j \in parted)
        /\ command[j] = "none" => shell[j] = "none"
        /\ shell[j] = "none" => command[j] = "none"
        /\ file[j] # "absent" => command[j] \in {"zero", "nonzero"}
        /\ file[j] = "zero" => command[j] = "zero"

(* A poller holds a job that has a row, and a verdict that is true.        *)
Polling ==
    \A q \in Poller : ppc[q] # "idle" =>
        /\ status[pjob[q]] # "none"
        /\ ppc[q] = "read" => file[pjob[q]] # "absent"
        /\ ppc[q] = "finish" =>
              /\ verdict[q] \in Settled
              /\ Stubborn \/ command[pjob[q]] # "alive" \/ pjob[q] \in parted
              /\ verdict[q] = "succeeded" => command[pjob[q]] = "zero"

Inv == TypeOK /\ Starting /\ Writing /\ Polling /\ SucceededIsReal /\ (Stubborn \/ SettledIsOver)

(* Initially no job was named or started.                                  *)
LEMMA InitInv == Init => Inv
BY NoneAssumption, LimitAssumption
   DEF Init, Inv, TypeOK, Starting, Writing, Polling, SucceededIsReal, SettledIsOver, Settled

-----------------------------------------------------------------------------
Starts(s) == CheckName(s) \/ CountRunning(s) \/ Launch(s) \/ InsertRow(s) \/ StarterDies(s)
Runs(j) == CommandEnds(j) \/ OpenFile(j) \/ WriteFile(j) \/ GroupDies(j) \/ ShellDies(j)
Polls(q) ==
    \/ GetJob(q) \/ CheckFile(q) \/ ReadFile(q) \/ CheckClock(q) \/ StillRunning(q)
    \/ FindGone(q) \/ Expire(q) \/ Finish(q)

(* Every step keeps the types.                                             *)
LEMMA TypeStep == Inv /\ [Next]_vars => TypeOK'
<1> SUFFICES ASSUME TypeOK, Writing, [Next]_vars PROVE TypeOK'
    BY DEF Inv
<1> USE LimitAssumption
    DEF TypeOK, tableVars, osVars, starterVars, pollerVars, Running, Settled, Conclude
<1>1. ASSUME NEW s \in Starter, CheckName(s) PROVE TypeOK'
    BY <1>1 DEF CheckName
<1>2. ASSUME NEW s \in Starter, CountRunning(s) PROVE TypeOK'
    BY <1>2 DEF CountRunning
<1>3. ASSUME NEW s \in Starter, Launch(s) \/ InsertRow(s) PROVE TypeOK'
    BY <1>3 DEF Launch, InsertRow
<1>4. ASSUME NEW s \in Starter, StarterDies(s) PROVE TypeOK'
    BY <1>4 DEF StarterDies
<1>5. ASSUME NEW j \in Job, Runs(j) PROVE TypeOK'
    BY <1>5 DEF Runs, CommandEnds, OpenFile, WriteFile, GroupDies, ShellDies, Writing
<1>6. ASSUME NEW q \in Poller, GetJob(q) \/ CheckFile(q) \/ CheckClock(q) \/ StillRunning(q)
      PROVE  TypeOK'
    BY <1>6 DEF GetJob, CheckFile, CheckClock, StillRunning
<1>7. ASSUME NEW q \in Poller, ReadFile(q) \/ FindGone(q) PROVE TypeOK'
    BY <1>7 DEF ReadFile, Reading, FindGone
<1>8. ASSUME NEW q \in Poller, Expire(q) PROVE TypeOK'
    BY <1>8 DEF Expire, TerminatePidTree
<1>9. ASSUME NEW q \in Poller, Finish(q) PROVE TypeOK'
    BY <1>9 DEF Finish, FinishJob
<1>10. CASE ClockTick
    BY <1>10 DEF ClockTick, Overdue
<1>11. CASE UNCHANGED vars
    BY <1>11 DEF vars
<1> HIDE DEF TypeOK
<1> QED BY <1>1, <1>2, <1>3, <1>4, <1>5, <1>6, <1>7, <1>8, <1>9, <1>10, <1>11 DEF Next, Runs

(* Starters never share a job, and pollers never touch one being started.  *)
LEMMA StartingStep == Inv /\ [Next]_vars => Starting'
<1> SUFFICES ASSUME TypeOK, Starting, Polling, Writing, [Next]_vars PROVE Starting'
    BY DEF Inv
<1> USE NoneAssumption
    DEF TypeOK, tableVars, osVars, starterVars, pollerVars, Starting, Running, Conclude
<1>1. ASSUME NEW s \in Starter, CheckName(s) PROVE Starting'
    BY <1>1 DEF CheckName
<1>2. ASSUME NEW s \in Starter, CountRunning(s) PROVE Starting'
    BY <1>2 DEF CountRunning
<1>3. ASSUME NEW s \in Starter, Launch(s) PROVE Starting'
    BY <1>3 DEF Launch
<1>4. ASSUME NEW s \in Starter, InsertRow(s) PROVE Starting'
    BY <1>4 DEF InsertRow
<1>5. ASSUME NEW s \in Starter, StarterDies(s) PROVE Starting'
    BY <1>5 DEF StarterDies
<1>6. ASSUME NEW j \in Job, Runs(j) PROVE Starting'
    BY <1>6 DEF Runs, CommandEnds, OpenFile, WriteFile, GroupDies, ShellDies, Writing
<1>7. ASSUME NEW q \in Poller, Polls(q), ~Expire(q), ~Finish(q) PROVE Starting'
    BY <1>7 DEF Polls, GetJob, CheckFile, ReadFile, CheckClock, StillRunning, FindGone
<1>8. ASSUME NEW q \in Poller, Expire(q) PROVE Starting'
    BY <1>8 DEF Expire, TerminatePidTree
<1>9. ASSUME NEW q \in Poller, Finish(q) PROVE Starting'
    BY <1>9 DEF Finish, FinishJob, Polling
<1>10. CASE ClockTick
    BY <1>10 DEF ClockTick
<1>11. CASE UNCHANGED vars
    BY <1>11 DEF vars
<1> HIDE DEF TypeOK, Starting
<1> QED BY <1>1, <1>2, <1>3, <1>4, <1>5, <1>6, <1>7, <1>8, <1>9, <1>10, <1>11
        DEF Next, Runs, Polls

(* The shell outlives its command, unless both are killed.                 *)
LEMMA WritingStep == Inv /\ [Next]_vars => Writing'
<1> SUFFICES ASSUME TypeOK, Starting, Polling, Writing, [Next]_vars PROVE Writing'
    BY DEF Inv
<1> USE DEF TypeOK, tableVars, osVars, starterVars, pollerVars, Writing, Running, Conclude
<1>1. ASSUME NEW s \in Starter, Starts(s) PROVE Writing'
    BY <1>1 DEF Starts, CheckName, CountRunning, Launch, InsertRow, StarterDies, Starting
<1>2. ASSUME NEW j \in Job, Runs(j) PROVE Writing'
    BY <1>2 DEF Runs, CommandEnds, OpenFile, WriteFile, GroupDies, ShellDies
<1>3. ASSUME NEW q \in Poller, Polls(q), ~Expire(q), ~Finish(q) PROVE Writing'
    BY <1>3 DEF Polls, GetJob, CheckFile, ReadFile, CheckClock, StillRunning, FindGone
<1>4. ASSUME NEW q \in Poller, Expire(q) PROVE Writing'
    BY <1>4 DEF Expire, TerminatePidTree, PidAlive
<1>5. ASSUME NEW q \in Poller, Finish(q) PROVE Writing'
    BY <1>5 DEF Finish, FinishJob
<1>6. CASE ClockTick
    BY <1>6 DEF ClockTick
<1>7. CASE UNCHANGED vars
    BY <1>7 DEF vars
<1> HIDE DEF TypeOK, Writing
<1> QED BY <1>1, <1>2, <1>3, <1>4, <1>5, <1>6, <1>7 DEF Next, Starts, Runs, Polls

(* What a poller has found does not change under it.                       *)
Stays ==
    \A j \in Job : status[j] # "none" =>
        /\ status'[j] # "none"
        /\ j \in parted => j \in parted'
        /\ file[j] # "absent" => file'[j] # "absent"
        /\ command[j] # "alive" => command'[j] = command[j]

(* Every step leaves it so.                                                *)
LEMMA StayStep == Inv /\ [Next]_vars => Stays
<1> SUFFICES ASSUME TypeOK, Starting, Polling, Writing, [Next]_vars PROVE Stays
    BY DEF Inv
<1> USE DEF TypeOK, tableVars, osVars, starterVars, pollerVars, Running, Stays, Conclude
<1>1. ASSUME NEW s \in Starter, Starts(s) PROVE Stays
    BY <1>1 DEF Starts, CheckName, CountRunning, Launch, InsertRow, StarterDies, Starting
<1>2. ASSUME NEW j \in Job, Runs(j) PROVE Stays
    BY <1>2 DEF Runs, CommandEnds, OpenFile, WriteFile, GroupDies, ShellDies, Writing
<1>3. ASSUME NEW q \in Poller, Polls(q), ~Expire(q), ~Finish(q) PROVE Stays
    BY <1>3 DEF Polls, GetJob, CheckFile, ReadFile, CheckClock, StillRunning, FindGone
<1>4. ASSUME NEW q \in Poller, Expire(q) PROVE Stays
    BY <1>4 DEF Expire, TerminatePidTree
<1>5. ASSUME NEW q \in Poller, Finish(q) PROVE Stays
    BY <1>5 DEF Finish, FinishJob, Polling, Settled
<1>6. CASE ClockTick
    BY <1>6 DEF ClockTick
<1>7. CASE UNCHANGED vars
    BY <1>7 DEF vars
<1> HIDE DEF TypeOK, Stays
<1> QED BY <1>1, <1>2, <1>3, <1>4, <1>5, <1>6, <1>7 DEF Next, Starts, Runs, Polls

Holds(q) ==
    ppc[q] # "idle" =>
        /\ status[pjob[q]] # "none"
        /\ ppc[q] = "read" => file[pjob[q]] # "absent"
        /\ ppc[q] = "finish" =>
              /\ verdict[q] \in Settled
              /\ Stubborn \/ command[pjob[q]] # "alive" \/ pjob[q] \in parted
              /\ verdict[q] = "succeeded" => command[pjob[q]] = "zero"

(* A poller that does not move keeps what it found.                        *)
LEMMA OtherPollers ==
    ASSUME TypeOK, Stays, NEW q \in Poller, Holds(q),
           ppc'[q] = ppc[q], pjob'[q] = pjob[q], verdict'[q] = verdict[q]
    PROVE  Holds(q)'
BY DEF TypeOK, Stays, Holds

(* A verdict is true when it is reached, and stays true.                   *)
LEMMA PollingStep == Inv /\ [Next]_vars => Polling'
<1> SUFFICES ASSUME Inv, [Next]_vars PROVE Polling'
    OBVIOUS
<1>0. Stays /\ \A q \in Poller : Holds(q)
    BY StayStep DEF Inv, Polling, Holds
<1>a. TypeOK /\ Writing
    BY DEF Inv
<1> SUFFICES ASSUME NEW q \in Poller PROVE Holds(q)'
    BY DEF Polling, Holds
<1> USE DEF TypeOK, Conclude, tableVars, osVars, starterVars
<1>1. CASE GetJob(q) \/ CheckFile(q) \/ CheckClock(q) \/ StillRunning(q)
    BY <1>0, <1>a, <1>1 DEF GetJob, CheckFile, CheckClock, StillRunning, Holds, Running
<1>2. CASE ReadFile(q)
    BY <1>0, <1>a, <1>2 DEF ReadFile, Reading, Holds, Writing, Settled
<1>3. CASE FindGone(q)
    BY <1>0, <1>a, <1>3 DEF FindGone, PidAlive, Holds, Writing, Settled
<1>4. CASE Expire(q)
    BY <1>0, <1>a, <1>4 DEF Expire, PidAlive, TerminatePidTree, Holds, Writing, Settled
<1>5. CASE Finish(q)
    BY <1>0, <1>a, <1>5 DEF Finish, Holds
<1>6. CASE ppc'[q] = ppc[q] /\ pjob'[q] = pjob[q] /\ verdict'[q] = verdict[q]
    BY <1>0, <1>a, <1>6, OtherPollers
<1>7. ASSUME NEW s \in Starter, Starts(s) PROVE ppc' = ppc /\ pjob' = pjob /\ verdict' = verdict
    BY <1>7 DEF Starts, CheckName, CountRunning, Launch, InsertRow, StarterDies, pollerVars
<1>8. ASSUME NEW j \in Job, Runs(j) PROVE ppc' = ppc /\ pjob' = pjob /\ verdict' = verdict
    BY <1>8 DEF Runs, CommandEnds, OpenFile, WriteFile, GroupDies, ShellDies, pollerVars
<1>9. ASSUME NEW u \in Poller, u # q, Polls(u)
      PROVE  ppc'[q] = ppc[q] /\ pjob'[q] = pjob[q] /\ verdict'[q] = verdict[q]
    BY <1>a, <1>9
       DEF Polls, GetJob, CheckFile, ReadFile, CheckClock, StillRunning, FindGone, Expire, Finish
<1>10. CASE ClockTick \/ UNCHANGED vars
    BY <1>6, <1>10 DEF ClockTick, vars, pollerVars
<1> HIDE DEF TypeOK
<1> QED BY <1>1, <1>2, <1>3, <1>4, <1>5, <1>6, <1>7, <1>8, <1>9, <1>10 DEF Next, Starts, Runs, Polls

(* A row changes when it is inserted and when a poller, which holds the    *)
(* truth about it, settles it.                                             *)
RowStep ==
    \A j \in Job : status'[j] # status[j] =>
        \/ status[j] = "none" /\ status'[j] = "running"
        \/ /\ status[j] = "running"
           /\ status'[j] \in Settled
           /\ Stubborn \/ command[j] # "alive" \/ j \in parted
           /\ status'[j] = "succeeded" => command[j] = "zero"

(* No step changes a row otherwise.                                        *)
LEMMA Rows == Inv /\ [Next]_vars => RowStep
<1> SUFFICES ASSUME TypeOK, Starting, Polling, Writing, [Next]_vars PROVE RowStep
    BY DEF Inv
<1> USE DEF TypeOK, RowStep
<1>1. ASSUME NEW s \in Starter, InsertRow(s) PROVE RowStep
    BY <1>1 DEF InsertRow, Starting
<1>2. ASSUME NEW q \in Poller, Finish(q) PROVE RowStep
    BY <1>2 DEF Finish, FinishJob, Polling
<1>3. CASE UNCHANGED status
    BY <1>3
<1> HIDE DEF TypeOK, RowStep
<1> QED BY <1>1, <1>2, <1>3
        DEF Next, CheckName, CountRunning, Launch, StarterDies, CommandEnds, OpenFile, WriteFile,
            GroupDies, ShellDies, GetJob, CheckFile, ReadFile, CheckClock, StillRunning, FindGone,
            Expire, ClockTick, vars, tableVars, Conclude

(* Hence what the rows say is true.                                        *)
LEMMA VerdictStep == Inv /\ [Next]_vars => SucceededIsReal' /\ (Stubborn \/ SettledIsOver')
BY Rows, StayStep DEF Inv, RowStep, Stays, SucceededIsReal, SettledIsOver, Settled, TypeOK

(* The strengthening behind the verdicts of polls.                         *)
THEOREM Invariance == Spec => []Inv
<1>1. Inv /\ [Next]_vars => Inv'
    BY TypeStep, StartingStep, WritingStep, PollingStep, VerdictStep DEF Inv
<1> QED BY InitInv, <1>1, PTL DEF Spec

(* Every variable of the jobs keeps its type.                              *)
THEOREM TypeCorrect == Spec => []TypeOK
<1>1. Inv => TypeOK
    BY DEF Inv
<1> QED BY Invariance, <1>1, PTL

(* No number of polls records a success that did not happen: the file has  *)
(* "zero" only from a command that ended so, and an empty file is none.    *)
THEOREM SuccessIsReal == Spec => []SucceededIsReal
<1>1. Inv => SucceededIsReal
    BY DEF Inv
<1> QED BY Invariance, <1>1, PTL

(* Provided that SIGTERM ends the command, no number of polls settles a    *)
(* job that still runs, unless its shell was killed without it.  What the  *)
(* README says of expired jobs holds of these only.                        *)
THEOREM SettledMeansOver == ASSUME ~Stubborn PROVE Spec => []SettledIsOver
<1>1. ~Stubborn /\ Inv => SettledIsOver
    BY DEF Inv
<1> QED BY Invariance, <1>1, PTL

(* The first poll to settle a job has the last word.                       *)
THEOREM SettledStays == Spec => SettledForGood
<1>1. Inv /\ [Next]_vars
         => [\A j \in Job : status[j] \in Settled => status'[j] = status[j]]_vars
    BY Rows DEF RowStep, Settled
<1> QED BY Invariance, <1>1, PTL DEF Spec, SettledForGood

-----------------------------------------------------------------------------
(* The limits of `qas job start`, for any number of starters that race. *)

(* Starters that were let through, running jobs of a name, and starters    *)
(* that are about to give it.                                              *)
Pending == {s \in Starter : spc[s] \in {"launch", "insert"}}
Named(n) == {j \in Running : name[j] = n}
Naming(n) == {s \in Starter : spc[s] # "idle" /\ name[sjob[s]] = n}

(* A starter that was let through keeps its place among the running ones   *)
(* until it inserts its row; one that found its name free keeps the name.  *)
Admitted ==
    /\ IsFiniteSet(Running)
    /\ Cardinality(Running) + Cardinality(Pending) < MaxConcurrent + Cardinality(Starter)
    /\ \A n \in Name : Cardinality(Named(n)) + Cardinality(Naming(n)) <= Cardinality(Starter)

LEMMA Shrinks ==
    ASSUME NEW S, IsFiniteSet(S), NEW T, T \subseteq S
    PROVE  IsFiniteSet(T) /\ Cardinality(T) <= Cardinality(S) /\ Cardinality(T) \in Nat
           /\ Cardinality(S) \in Nat
BY FS_Subset, FS_CardinalityType

LEMMA MovesOver ==
    ASSUME NEW S, IsFiniteSet(S), NEW T, IsFiniteSet(T), NEW x, x \notin S, NEW y, y \in T
    PROVE  Cardinality(S \cup {x}) + Cardinality(T \ {y}) = Cardinality(S) + Cardinality(T)
<1>1. Cardinality(S \cup {x}) = Cardinality(S) + 1 /\ Cardinality(T \ {y}) = Cardinality(T) - 1
  BY FS_AddElement, FS_RemoveElement
<1>2. Cardinality(S) \in Nat /\ Cardinality(T) \in Nat
  BY FS_CardinalityType
<1> QED
  BY <1>1, <1>2

(* Steps that admit nobody. *)
LEMMA NobodyAdmitted ==
    ASSUME IsFiniteSet(Starter), Admitted, Running' \subseteq Running,
           Pending' \subseteq Pending,
           \A n \in Name : Named(n)' \subseteq Named(n) /\ Naming(n)' \subseteq Naming(n)
    PROVE  Admitted'
<1>1. /\ IsFiniteSet(Running') /\ Cardinality(Running') <= Cardinality(Running)
      /\ Cardinality(Running') \in Nat /\ Cardinality(Running) \in Nat
  BY Shrinks DEF Admitted
<1>2. IsFiniteSet(Pending) /\ Cardinality(Starter) \in Nat
  BY Shrinks DEF Pending
<1>3. /\ Cardinality(Pending') <= Cardinality(Pending)
      /\ Cardinality(Pending') \in Nat /\ Cardinality(Pending) \in Nat
  BY <1>2, Shrinks
<1>4. ASSUME NEW n \in Name
      PROVE  Cardinality(Named(n)') + Cardinality(Naming(n)') <= Cardinality(Starter)
  <2>1. IsFiniteSet(Named(n)) /\ IsFiniteSet(Naming(n))
    BY Shrinks DEF Admitted, Named, Naming
  <2>2. /\ Cardinality(Named(n)') <= Cardinality(Named(n))
        /\ Cardinality(Named(n)') \in Nat /\ Cardinality(Named(n)) \in Nat
    BY <1>4, <2>1, Shrinks
  <2>3. /\ Cardinality(Naming(n)') <= Cardinality(Naming(n))
        /\ Cardinality(Naming(n)') \in Nat /\ Cardinality(Naming(n)) \in Nat
    BY <1>4, <2>1, Shrinks
  <2>4. Cardinality(Named(n)) + Cardinality(Naming(n)) <= Cardinality(Starter)
    BY DEF Admitted
  <2> QED
    BY <1>2, <2>2, <2>3, <2>4
<1>5. Cardinality(Running') + Cardinality(Pending') < MaxConcurrent + Cardinality(Starter)
  <2>1. Cardinality(Running) + Cardinality(Pending) < MaxConcurrent + Cardinality(Starter)
    BY DEF Admitted
  <2> QED
    BY <1>1, <1>2, <1>3, <2>1, LimitAssumption
<1> QED
  BY <1>1, <1>4, <1>5 DEF Admitted

LEMMA AdmittedStep ==
    ASSUME IsFiniteSet(Starter), Inv, Inv', Admitted, [Next]_vars
    PROVE  Admitted'
<1> USE DEF tableVars, osVars, starterVars, pollerVars
<1>t. TypeOK /\ TypeOK' /\ Starting /\ Polling
  BY DEF Inv
<1>n. MaxConcurrent \in Nat /\ Cardinality(Running) \in Nat /\ Cardinality(Starter) \in Nat
  BY LimitAssumption, FS_CardinalityType DEF Admitted
<1>a. /\ Cardinality(Running) + Cardinality(Pending) < MaxConcurrent + Cardinality(Starter)
      /\ \A n \in Name :
            Cardinality(Named(n)) + Cardinality(Naming(n)) <= Cardinality(Starter)
  BY DEF Admitted
<1>f. /\ IsFiniteSet(Running) /\ IsFiniteSet(Pending)
      /\ \A n \in Name : IsFiniteSet(Named(n)) /\ IsFiniteSet(Naming(n))
  BY Shrinks DEF Admitted, Pending, Named, Naming
<1>1. ASSUME UNCHANGED <<spc, sjob, name>>, Running' \subseteq Running PROVE Admitted'
  <2>1. Pending' \subseteq Pending
    BY <1>1 DEF Pending
  <2>2. \A n \in Name : Named(n)' \subseteq Named(n) /\ Naming(n)' \subseteq Naming(n)
    BY <1>1 DEF Named, Naming
  <2> QED
    BY <1>1, <2>1, <2>2, NobodyAdmitted
<1>2. ASSUME NEW s \in Starter, CheckName(s) PROVE Admitted'
  <2>1. PICK j \in Job, n \in Name :
           /\ name[j] = NoName
           /\ \A i \in Running : name[i] # n
           /\ name' = [name EXCEPT ![j] = n]
           /\ sjob' = [sjob EXCEPT ![s] = j]
    BY <1>2 DEF CheckName
  <2>2. Running' = Running /\ j \notin Running
    BY <1>2, <1>t, <2>1 DEF CheckName, Running, Starting
  <2>3. /\ spc[s] = "idle" /\ spc' = [spc EXCEPT ![s] = "count"]
        /\ name'[j] = n /\ \A i \in Job \ {j} : name'[i] = name[i]
        /\ sjob'[s] = j /\ \A u \in Starter \ {s} : sjob'[u] = sjob[u]
        /\ spc'[s] = "count" /\ \A u \in Starter \ {s} : spc'[u] = spc[u]
    BY <1>2, <1>t, <2>1 DEF CheckName, TypeOK
  <2>4. Pending' = Pending
    BY <2>3 DEF Pending
  <2>5. \A m \in Name : Named(m)' = Named(m)
    BY <2>2, <2>3 DEF Named, Running
  <2>6. \A u \in Starter \ {s} : spc[u] # "idle" => sjob[u] \in Job \ {j}
    BY <1>t, <2>1 DEF TypeOK, Starting
  <2>7. \A m \in Name \ {n} : Naming(m)' \subseteq Naming(m)
    BY <2>3, <2>6 DEF Naming
  <2>8. Named(n)' = {}
    BY <2>1, <2>5 DEF Named
  <2>9. Cardinality(Naming(n)') <= Cardinality(Starter) /\ Cardinality(Naming(n)') \in Nat
    BY Shrinks DEF Naming
  <2>10. Cardinality(Named(n)') = 0
    BY <2>8, FS_EmptySet
  <2>11. ASSUME NEW m \in Name \ {n}
         PROVE  Cardinality(Named(m)') + Cardinality(Naming(m)') <= Cardinality(Starter)
    <3>1. /\ Cardinality(Naming(m)') <= Cardinality(Naming(m))
          /\ Cardinality(Naming(m)') \in Nat /\ Cardinality(Naming(m)) \in Nat
      BY <1>f, <2>7, <2>11, Shrinks
    <3>2. Named(m)' = Named(m) /\ Cardinality(Named(m)) \in Nat
      BY <1>f, <2>5, <2>11, FS_CardinalityType
    <3>3. Cardinality(Named(m)) + Cardinality(Naming(m)) <= Cardinality(Starter)
      BY <1>a
    <3> QED
      BY <1>n, <3>1, <3>2, <3>3
  <2>12. \A m \in Name :
           Cardinality(Named(m)') + Cardinality(Naming(m)') <= Cardinality(Starter)
    <3>1. Cardinality(Named(n)') + Cardinality(Naming(n)') <= Cardinality(Starter)
      BY <1>n, <2>9, <2>10
    <3> QED
      BY <2>11, <3>1
  <2> QED
    BY <1>a, <1>f, <2>2, <2>4, <2>12 DEF Admitted
<1>3. ASSUME NEW s \in Starter, CountRunning(s) PROVE Admitted'
  <2>1. Running' = Running /\ spc[s] = "count"
    BY <1>3 DEF CountRunning, Running
  <2>2. CASE MayStart
    <3>1. spc' = [spc EXCEPT ![s] = "launch"] /\ UNCHANGED <<sjob, name>>
      BY <1>3, <2>2 DEF CountRunning
    <3>2. \A n \in Name : Named(n)' = Named(n) /\ Naming(n)' = Naming(n)
      BY <1>t, <2>1, <3>1 DEF Named, Naming, TypeOK
    <3>3. Cardinality(Pending') <= Cardinality(Starter) /\ Cardinality(Pending') \in Nat
      BY Shrinks DEF Pending
    <3>4. Cardinality(Running) < MaxConcurrent
      BY <2>2 DEF MayStart
    <3>5. Cardinality(Running') + Cardinality(Pending') < MaxConcurrent + Cardinality(Starter)
      BY <1>n, <2>1, <3>3, <3>4
    <3> QED
      BY <1>a, <1>f, <2>1, <3>2, <3>5 DEF Admitted
  <2>3. CASE ~MayStart
    <3>1. /\ spc' = [spc EXCEPT ![s] = "idle"] /\ name' = [name EXCEPT ![sjob[s]] = NoName]
          /\ sjob' = [sjob EXCEPT ![s] = NoJob]
      BY <1>3, <2>3 DEF CountRunning
    <3> QED
      BY <2>1, <3>1, <1>t, NobodyAdmitted, NoneAssumption
         DEF Pending, Named, Naming, TypeOK, Starting, Running
  <2> QED
    BY <2>2, <2>3
<1>4. ASSUME NEW s \in Starter, Launch(s) PROVE Admitted'
  <2>1. /\ Running' = Running /\ spc[s] = "launch"
        /\ spc' = [spc EXCEPT ![s] = "insert"] /\ UNCHANGED <<name, sjob>>
    BY <1>4 DEF Launch, Running
  <2>2. Pending' \subseteq Pending
    BY <1>t, <2>1 DEF Pending, TypeOK
  <2>3. \A n \in Name : Named(n)' \subseteq Named(n) /\ Naming(n)' \subseteq Naming(n)
    BY <1>t, <2>1 DEF Named, Naming, TypeOK
  <2> QED
    BY <2>1, <2>2, <2>3, NobodyAdmitted
<1>5. ASSUME NEW s \in Starter, InsertRow(s) PROVE Admitted'
  <2>1. /\ spc[s] = "insert" /\ sjob[s] \in Job /\ spc' = [spc EXCEPT ![s] = "idle"]
        /\ status' = [status EXCEPT ![sjob[s]] = "running"] /\ name' = name
        /\ \A u \in Starter \ {s} : sjob'[u] = sjob[u]
    BY <1>5, <1>t DEF InsertRow, TypeOK
  <2>2. Running' = Running \cup {sjob[s]} /\ sjob[s] \notin Running
    BY <1>t, <2>1 DEF Running, TypeOK, Starting
  <2>3. Pending' = Pending \ {s} /\ s \in Pending
    BY <1>t, <2>1 DEF Pending, TypeOK
  <2>4. Cardinality(Running') + Cardinality(Pending') = Cardinality(Running) + Cardinality(Pending)
    BY <1>f, <2>2, <2>3, MovesOver
  <2>5. IsFiniteSet(Running')
    BY <1>f, <2>2, FS_AddElement
  <2>6. ASSUME NEW n \in Name
        PROVE  Cardinality(Named(n)') + Cardinality(Naming(n)') <= Cardinality(Starter)
    <3>0. IsFiniteSet(Named(n)) /\ IsFiniteSet(Naming(n))
      BY <1>f
    <3>1. Naming(n)' = Naming(n) \ {s}
      BY <1>t, <2>1 DEF Naming, TypeOK
    <3>2. CASE name[sjob[s]] = n
      <4>1. Named(n)' = Named(n) \cup {sjob[s]} /\ sjob[s] \notin Named(n) /\ s \in Naming(n)
        BY <2>1, <2>2, <3>2 DEF Named, Naming
      <4>2. Cardinality(Named(n)') + Cardinality(Naming(n)')
              = Cardinality(Named(n)) + Cardinality(Naming(n))
        BY <3>0, <3>1, <4>1, MovesOver
      <4> QED
        BY <1>a, <4>2
    <3>3. CASE name[sjob[s]] # n
      <4>1. Named(n)' = Named(n) /\ Naming(n)' = Naming(n)
        BY <2>1, <2>2, <3>1, <3>3 DEF Named, Naming
      <4> QED
        BY <1>a, <4>1
    <3> QED
      BY <3>2, <3>3
  <2> QED
    BY <1>a, <2>4, <2>5, <2>6 DEF Admitted
<1>6. ASSUME NEW s \in Starter, StarterDies(s) PROVE Admitted'
  <2>1. /\ Running' = Running /\ spc' = [spc EXCEPT ![s] = "idle"]
        /\ sjob' = [sjob EXCEPT ![s] = NoJob]
        /\ sjob[s] \in Job /\ status[sjob[s]] = "none" /\ spc[s] # "idle"
        /\ \/ name' = name
           \/ name' = [name EXCEPT ![sjob[s]] = NoName]
    BY <1>6, <1>t DEF StarterDies, Running, TypeOK, Starting
  <2>2. \A i \in Job \ {sjob[s]} : name'[i] = name[i]
    BY <1>t, <2>1 DEF TypeOK
  <2>3. Pending' \subseteq Pending
    BY <1>t, <2>1 DEF Pending, TypeOK
  <2>4. \A n \in Name : Named(n)' \subseteq Named(n)
    BY <2>1, <2>2 DEF Named, Running
  <2>5. \A u \in Starter \ {s} : /\ sjob'[u] = sjob[u] /\ spc'[u] = spc[u]
                                 /\ spc[u] # "idle" => sjob[u] \in Job \ {sjob[s]}
    BY <1>t, <2>1 DEF Starting, TypeOK
  <2>6. \A n \in Name : Naming(n)' \subseteq Naming(n)
    BY <1>t, <2>1, <2>2, <2>5 DEF Naming, TypeOK
  <2> QED
    BY <2>1, <2>3, <2>4, <2>6, NobodyAdmitted
<1>7. ASSUME NEW j \in Job, Runs(j) PROVE Admitted'
  BY <1>1, <1>7 DEF Runs, CommandEnds, OpenFile, WriteFile, GroupDies, ShellDies, Running
<1>8. ASSUME NEW q \in Poller, Polls(q), ~Finish(q) PROVE Admitted'
  BY <1>1, <1>8
  DEF Polls, GetJob, CheckFile, ReadFile, CheckClock, StillRunning, FindGone, Expire, Running
<1>9. ASSUME NEW q \in Poller, Finish(q) PROVE Admitted'
  <2>1. Running' \subseteq Running
    BY <1>9, <1>t DEF Finish, FinishJob, Polling, Running, TypeOK, Settled
  <2> QED
    BY <1>1, <1>9, <2>1 DEF Finish
<1>10. CASE ClockTick
  BY <1>1, <1>10 DEF ClockTick, Running
<1>11. CASE UNCHANGED vars
  BY <1>1, <1>11 DEF vars, Running
<1> QED
  BY <1>2, <1>3, <1>4, <1>5, <1>6, <1>7, <1>8, <1>9, <1>10, <1>11 DEF Next, Runs, Polls

(* The two reads of a start and its insert are no transaction; all the     *)
(* harm that any number of starters can do is one row too many for each    *)
(* but the first, and as many rows of a name, even if they die on the way. *)
THEOREM StartersAreBounded ==
    ASSUME IsFiniteSet(Starter)
    PROVE  Spec => []RunningRowsBounded
<1>1. Init => Admitted
  <2> SUFFICES ASSUME Init PROVE Admitted
    OBVIOUS
  <2>1. /\ Running = {} /\ Pending = {}
        /\ \A n \in Name : Named(n) = {} /\ Naming(n) = {}
    BY DEF Init, Running, Pending, Named, Naming
  <2>2. IsFiniteSet({}) /\ Cardinality({}) = 0 /\ Cardinality(Starter) \in Nat
    BY FS_EmptySet, FS_CardinalityType
  <2> QED
    BY <2>1, <2>2, LimitAssumption DEF Admitted
<1>2. Inv /\ Inv' /\ Admitted /\ [Next]_vars => Admitted'
  BY AdmittedStep
<1>3. Admitted => RunningRowsBounded
  <2> SUFFICES ASSUME Admitted PROVE RunningRowsBounded
    OBVIOUS
  <2>1. Cardinality(Starter) \in Nat
    BY FS_CardinalityType
  <2>2. Cardinality(Running) < MaxConcurrent + Cardinality(Starter)
    <3>1. Cardinality(Running) \in Nat /\ Cardinality(Pending) \in Nat
      BY Shrinks, FS_CardinalityType DEF Admitted, Pending
    <3> QED
      BY <2>1, <3>1, LimitAssumption DEF Admitted
  <2>3. ASSUME NEW n \in Name PROVE Cardinality(Named(n)) <= Cardinality(Starter)
    <3>1. Cardinality(Named(n)) \in Nat /\ Cardinality(Naming(n)) \in Nat
      BY Shrinks DEF Admitted, Named, Naming
    <3> QED
      BY <2>1, <3>1 DEF Admitted
  <2> QED
    BY <2>2, <2>3 DEF RunningRowsBounded, Named
<1> QED
  BY <1>1, <1>2, <1>3, Invariance, PTL DEF Spec
=============================================================================
