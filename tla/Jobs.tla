-------------------------------- MODULE Jobs --------------------------------
(***************************************************************************)
(* Durable jobs (jobs.py): `qas job start` checks, spawns a detached shell *)
(* and inserts a row; the shell runs the command and then writes its exit  *)
(* code to a file; `qas job status` polls the file, the clock and the      *)
(* process, and settles the row.  Any number of starters and pollers run   *)
(* at the same time, over the `jobs` table, the exit-code files and the    *)
(* process table.                                                          *)
(***************************************************************************)
EXTENDS Naturals, FiniteSets

CONSTANTS
    Job,            \* job ids
    Name,           \* names given to jobs
    Starter,        \* processes running `qas job start`
    Poller,         \* processes running `qas job status`
    NoJob, NoName,
    MaxConcurrent,  \* jobs.maxConcurrent
    MaxDuration,    \* max_duration_seconds
    Stubborn        \* commands may survive SIGTERM

ASSUME NoneAssumption == NoJob \notin Job /\ NoName \notin Name
ASSUME LimitAssumption == /\ MaxConcurrent \in Nat \ {0}
                          /\ MaxDuration \in Nat \ {0}
                          /\ Stubborn \in BOOLEAN

VARIABLES
    status,     \* jobs.status of each job, "none" without a row
    elapsed,    \* now - started_epoch of a running job, capped above MaxDuration
    name,       \* name of each job
    command,    \* the command: "none", "alive", "zero", "nonzero" (its exit)
    shell,      \* /bin/sh: "none", "waits", "writes" (file open), "gone"
    file,       \* exit_code file: "absent", "empty", "zero", "nonzero"
    spc, sjob,  \* starters: where each is, and the job it starts
    ppc, pjob,  \* pollers: where each is, and the job it polls
    verdict,    \* pollers: the status about to be recorded
    parted      \* (history) jobs whose shell died before the command

tableVars == <<status, elapsed, name>>
osVars == <<command, shell, file, parted>>
starterVars == <<spc, sjob>>
pollerVars == <<ppc, pjob, verdict>>
vars == <<tableVars, osVars, starterVars, pollerVars>>

Settled == {"succeeded", "failed", "expired"}

Running == {j \in Job : status[j] = "running"}

Init ==
    /\ status = [j \in Job |-> "none"]
    /\ elapsed = [j \in Job |-> 0]
    /\ name = [j \in Job |-> NoName]
    /\ command = [j \in Job |-> "none"]
    /\ shell = [j \in Job |-> "none"]
    /\ file = [j \in Job |-> "absent"]
    /\ spc = [s \in Starter |-> "idle"]
    /\ sjob = [s \in Starter |-> NoJob]
    /\ ppc = [q \in Poller |-> "idle"]
    /\ pjob = [q \in Poller |-> NoJob]
    /\ verdict = [q \in Poller |-> "running"]
    /\ parted = {}

-----------------------------------------------------------------------------
(* start_job: two reads, a Popen and an insert, in four transactions. *)

CheckName(s) ==
    /\ spc[s] = "idle"
    /\ \E j \in {j \in Job : name[j] = NoName}, n \in Name :
         /\ \A i \in Running : name[i] # n
         /\ name' = [name EXCEPT ![j] = n]
         /\ sjob' = [sjob EXCEPT ![s] = j]
    /\ spc' = [spc EXCEPT ![s] = "count"]
    /\ UNCHANGED <<status, elapsed, osVars, pollerVars>>

MayStartOneMore == Cardinality(Running) <= MaxConcurrent     \* mutant
MayStart == Cardinality(Running) < MaxConcurrent
CountRunning(s) ==
    /\ spc[s] = "count"
    /\ spc' = [spc EXCEPT ![s] = IF MayStart THEN "launch" ELSE "idle"]
    /\ sjob' = IF MayStart THEN sjob ELSE [sjob EXCEPT ![s] = NoJob]
    /\ name' = IF MayStart THEN name ELSE [name EXCEPT ![sjob[s]] = NoName]
    /\ UNCHANGED <<status, elapsed, osVars, pollerVars>>

Launch(s) ==
    /\ spc[s] = "launch"
    /\ command' = [command EXCEPT ![sjob[s]] = "alive"]
    /\ shell' = [shell EXCEPT ![sjob[s]] = "waits"]
    /\ spc' = [spc EXCEPT ![s] = "insert"]
    /\ UNCHANGED <<tableVars, file, parted, sjob, pollerVars>>

InsertRow(s) ==
    /\ spc[s] = "insert"
    /\ status' = [status EXCEPT ![sjob[s]] = "running"]
    /\ spc' = [spc EXCEPT ![s] = "idle"]
    /\ sjob' = [sjob EXCEPT ![s] = NoJob]
    /\ UNCHANGED <<elapsed, name, osVars, pollerVars>>

(* Killed, or the insert fails: a job already launched has no row. *)
StarterDies(s) ==
    /\ spc[s] # "idle"
    /\ spc' = [spc EXCEPT ![s] = "idle"]
    /\ sjob' = [sjob EXCEPT ![s] = NoJob]
    /\ name' = IF spc[s] = "insert" THEN name ELSE [name EXCEPT ![sjob[s]] = NoName]
    /\ UNCHANGED <<status, elapsed, osVars, pollerVars>>

-----------------------------------------------------------------------------
(* The job: `command; echo $? > exit_code` in a shell of its own session. *)

CommandEnds(j) ==
    /\ command[j] = "alive"
    /\ \E code \in {"zero", "nonzero"} : command' = [command EXCEPT ![j] = code]
    /\ UNCHANGED <<tableVars, shell, file, parted, starterVars, pollerVars>>

OpenFile(j) ==
    /\ shell[j] = "waits"
    /\ command[j] \in {"zero", "nonzero"}
    /\ file' = [file EXCEPT ![j] = "empty"]
    /\ shell' = [shell EXCEPT ![j] = "writes"]
    /\ UNCHANGED <<tableVars, command, parted, starterVars, pollerVars>>

WriteFile(j) ==
    /\ shell[j] = "writes"
    /\ file' = [file EXCEPT ![j] = command[j]]
    /\ shell' = [shell EXCEPT ![j] = "gone"]
    /\ UNCHANGED <<tableVars, command, parted, starterVars, pollerVars>>

(* The whole process group is killed from outside (out of memory, reboot), *)
(* or the command line itself leaves the shell.                            *)
GroupDies(j) ==
    /\ shell[j] \in {"waits", "writes"}
    /\ shell' = [shell EXCEPT ![j] = "gone"]
    /\ command' = IF command[j] = "alive" THEN [command EXCEPT ![j] = "nonzero"] ELSE command
    /\ UNCHANGED <<tableVars, file, parted, starterVars, pollerVars>>

(* The shell alone is killed: its command goes on, and no exit code will   *)
(* ever be written.                                                        *)
ShellDies(j) ==
    /\ shell[j] = "waits"
    /\ command[j] = "alive"
    /\ shell' = [shell EXCEPT ![j] = "gone"]
    /\ parted' = parted \cup {j}
    /\ UNCHANGED <<tableVars, command, file, starterVars, pollerVars>>

-----------------------------------------------------------------------------
(* poll_job: the row, the file, its content, the clock and the process are *)
(* looked at one after the other, then the verdict is recorded.  A poller  *)
(* that is killed is one that takes no further step.                       *)

GetJob(q) ==
    /\ ppc[q] = "idle"
    /\ \E j \in Running : pjob' = [pjob EXCEPT ![q] = j]
    /\ ppc' = [ppc EXCEPT ![q] = "file"]
    /\ UNCHANGED <<tableVars, osVars, starterVars, verdict>>

CheckFile(q) ==
    /\ ppc[q] = "file"
    /\ ppc' = [ppc EXCEPT ![q] = IF file[pjob[q]] = "absent" THEN "clock" ELSE "read"]
    /\ UNCHANGED <<tableVars, osVars, starterVars, pjob, verdict>>

Conclude(q, v) == /\ ppc' = [ppc EXCEPT ![q] = "finish"]
                  /\ verdict' = [verdict EXCEPT ![q] = v]
                  /\ UNCHANGED pjob

(* int("") raises ValueError: an empty file counts as a failure. *)
ReadingOptimistic(content) ==                 \* mutant: no code is code 0
    IF content = "nonzero" THEN "failed" ELSE "succeeded"
Reading(content) == IF content = "zero" THEN "succeeded" ELSE "failed"
ReadFile(q) ==
    /\ ppc[q] = "read"
    /\ Conclude(q, Reading(file[pjob[q]]))
    /\ UNCHANGED <<tableVars, osVars, starterVars>>

PidAlive(j) == shell[j] \in {"waits", "writes"}
OverdueLate(j) == elapsed[j] > MaxDuration + 1                  \* mutant
Overdue(j) == elapsed[j] > MaxDuration

CheckClock(q) ==
    /\ ppc[q] = "clock"
    /\ ppc' = [ppc EXCEPT ![q] = IF Overdue(pjob[q]) THEN "expire" ELSE "pid"]
    /\ UNCHANGED <<tableVars, osVars, starterVars, pjob, verdict>>

StillRunning(q) ==
    /\ ppc[q] = "pid"
    /\ PidAlive(pjob[q])
    /\ ppc' = [ppc EXCEPT ![q] = "idle"]
    /\ pjob' = [pjob EXCEPT ![q] = NoJob]
    /\ UNCHANGED <<tableVars, osVars, starterVars, verdict>>

FindGone(q) ==
    /\ ppc[q] = "pid"
    /\ ~PidAlive(pjob[q])
    /\ Conclude(q, "failed")
    /\ UNCHANGED <<tableVars, osVars, starterVars>>

(* terminate_pid_tree: SIGTERM to the group ends the shell; the function   *)
(* returns as soon as the shell is gone, so that a command which outlives  *)
(* SIGTERM may outlive the call.                                           *)
TerminateNothing(j) == UNCHANGED osVars                         \* mutant
TerminatePidTree(j) ==
    /\ shell' = [shell EXCEPT ![j] = "gone"]
    /\ \/ command' = IF command[j] = "alive" THEN [command EXCEPT ![j] = "nonzero"] ELSE command
       \/ Stubborn /\ UNCHANGED command
    /\ UNCHANGED <<file, parted>>

Expire(q) ==
    /\ ppc[q] = "expire"
    /\ IF PidAlive(pjob[q]) THEN TerminatePidTree(pjob[q]) ELSE UNCHANGED osVars
    /\ Conclude(q, "expired")
    /\ UNCHANGED <<tableVars, starterVars>>

FinishAnyJob(j, v) == status' = [status EXCEPT ![j] = v]        \* mutant
FinishJob(j, v) == status' = IF status[j] = "running" THEN [status EXCEPT ![j] = v] ELSE status
Finish(q) ==
    /\ ppc[q] = "finish"
    /\ FinishJob(pjob[q], verdict[q])
    /\ elapsed' = [elapsed EXCEPT ![pjob[q]] = 0]
    /\ ppc' = [ppc EXCEPT ![q] = "idle"]
    /\ pjob' = [pjob EXCEPT ![q] = NoJob]
    /\ verdict' = [verdict EXCEPT ![q] = "running"]
    /\ UNCHANGED <<name, osVars, starterVars>>

-----------------------------------------------------------------------------
ClockTick ==
    /\ elapsed' = [j \in Job |-> IF j \in Running /\ ~Overdue(j) THEN elapsed[j] + 1
                                                                 ELSE elapsed[j]]
    /\ UNCHANGED <<status, name, osVars, starterVars, pollerVars>>

Next ==
    \/ \E s \in Starter : \/ CheckName(s) \/ CountRunning(s) \/ Launch(s) \/ InsertRow(s)
                          \/ StarterDies(s)
    \/ \E j \in Job : CommandEnds(j) \/ OpenFile(j) \/ WriteFile(j)
                     \/ GroupDies(j) \/ ShellDies(j)
    \/ \E q \in Poller : \/ GetJob(q) \/ CheckFile(q) \/ ReadFile(q) \/ CheckClock(q)
                         \/ StillRunning(q) \/ FindGone(q) \/ Expire(q) \/ Finish(q)
    \/ ClockTick

Spec == Init /\ [][Next]_vars

-----------------------------------------------------------------------------
(* Types. *)
TypeOK ==
    /\ status \in [Job -> {"none", "running"} \cup Settled]
    /\ elapsed \in [Job -> 0..(MaxDuration + 1)]
    /\ name \in [Job -> Name \cup {NoName}]
    /\ command \in [Job -> {"none", "alive", "zero", "nonzero"}]
    /\ shell \in [Job -> {"none", "waits", "writes", "gone"}]
    /\ file \in [Job -> {"absent", "empty", "zero", "nonzero"}]
    /\ spc \in [Starter -> {"idle", "count", "launch", "insert"}]
    /\ sjob \in [Starter -> Job \cup {NoJob}]
    /\ \A s \in Starter : spc[s] # "idle" => sjob[s] \in Job
    /\ ppc \in [Poller -> {"idle", "file", "read", "clock", "pid", "expire", "finish"}]
    /\ pjob \in [Poller -> Job \cup {NoJob}]
    /\ \A q \in Poller : ppc[q] # "idle" => pjob[q] \in Job
    /\ verdict \in [Poller -> {"running"} \cup Settled]
    /\ parted \subseteq Job

(* A job is recorded as succeeded only if its command ended with code 0,   *)
(* however polls interleave with the shell that writes the file.           *)
SucceededIsReal == \A j \in Job : status[j] = "succeeded" => command[j] = "zero"

(* A job recorded as over no longer runs: no poll settles a job early, and *)
(* an overdue job is killed before it is recorded as expired.  Polls look  *)
(* at the shell, so a command that has lost its shell is beyond them.      *)
SettledIsOver ==
    \A j \in Job : status[j] \in Settled => command[j] # "alive" \/ j \in parted

(* Once settled a row is final, although two polls may reach different     *)
(* verdicts about it.                                                      *)
SettledForGood ==
    [][\A j \in Job : status[j] \in Settled => status'[j] = status[j]]_vars

(* Starters that race one another exceed jobs.maxConcurrent by one row     *)
(* each, but for the first, and give a name to at most one row each, even  *)
(* when they die on the way; a starter alone exceeds nothing.              *)
RunningRowsBounded ==
    /\ Cardinality(Running) < MaxConcurrent + Cardinality(Starter)
    /\ \A n \in Name : Cardinality({j \in Running : name[j] = n}) <= Cardinality(Starter)

(* README.md: "`jobs.maxConcurrent` (default 2) bounds how many can run at *)
(* once".                                                                  *)
JobsBounded == Cardinality({j \in Job : command[j] = "alive"}) <= MaxConcurrent

(* README.md: "A job exceeding its own declared `--max-duration` is killed *)
(* and reported `expired`".                                                *)
ExpiredIsKilled == \A j \in Job : status[j] = "expired" => command[j] # "alive"

(* jobs.py: a job is reported as failed because it is "gone without ever   *)
(* writing an exit code", never when it reported success.                  *)
SuccessNeverLost == \A j \in Job : status[j] = "failed" => file[j] # "zero"
=============================================================================
