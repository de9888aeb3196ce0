------------------------------ MODULE Watchdog ------------------------------
(***************************************************************************)
(* One call of run_process (process.py): the loop of the main thread, the  *)
(* two reader threads and the bounded queue between them, the child and a  *)
(* descendant that shares its output, the deadlines and the termination.   *)
(*                                                                         *)
(* Time is kept relative to now and passes only where the main thread      *)
(* waits: in the empty queue (its unit is the 0.2 s of messages.get), in   *)
(* the heartbeat callback and for a terminated child.  A reader that can   *)
(* move does so before time passes.                                        *)
(*                                                                         *)
(* Left out: the log and its rotation, the tails, the thread that writes   *)
(* stdin; a failure of any of them is the fault "io".                      *)
(***************************************************************************)
EXTENDS Naturals, Sequences

CONSTANTS
    Output,     \* structured objects a line of stdout can carry
    NoOutput,   \* none was seen
    Capacity,   \* maxsize of the queue
    Wall,       \* wall_timeout_seconds
    Silence,    \* silence_timeout_seconds
    Interval,   \* heartbeat_interval_seconds
    Grace,      \* shutdown_grace_seconds
    Reap,       \* longest wait after SIGKILL, max(5, grace)
    Slow,       \* longest time a heartbeat takes
    MaxLines,   \* bound on the lines written
    Faults      \* faults that may happen, a subset of {"io", "stuck"}

Words == {"blank", "text"}

ASSUME OutputAssumption ==
    /\ NoOutput \notin Output
    /\ Words \cap Output = {}
ASSUME TimesAssumption ==
    /\ {Wall, Silence, Interval, Grace, Reap, Slow, MaxLines} \subseteq Nat
    /\ Capacity \in Nat \ {0}

VARIABLES
    pc,         \* the main thread
    due,        \* this turn ends with a heartbeat
    reason,
    structured, \* last structured object consumed
    quiet,      \* now - last_activity, as long as the child is alive
    sinceBeat,  \* now - last_heartbeat
    waited,     \* time the main thread has waited in a heartbeat or stop
    queue,
    hand,       \* the message a reader has read and not put yet
    open,       \* readers whose stream has not ended
    pipe,       \* lines in the pipe of each stream
    code,       \* how the child ended
    helper,     \* its descendant
    left,       \* lines that may still be written
    life,       \* now - started, as long as the child is alive
    spoke,      \* (history) the time since a reader read a line that is not
                \* blank, as long as the child is alive
    last        \* (history) last structured object written to stdout

mainVars == <<pc, due, reason, structured, waited>>
clocks == <<quiet, sinceBeat, life, spoke>>
worldVars == <<pipe, code, helper, left, last>>
vars == <<pc, due, reason, structured, quiet, sinceBeat, waited, queue, hand,
          open, pipe, code, helper, left, life, spoke, last>>

Stream == {"stdout", "stderr"}
Line(s) == IF s = "stdout" THEN {"blank"} \cup Output ELSE {"text"}
Message == [source : Stream, line : Words \cup Output, age : 0..Silence]
MaxLife == Wall + Slow + Grace + Reap + 2   \* life is cut off here

Alive == code = "none"
HelperAlive == helper # "none"
Writers == Alive \/ HelperAlive

Stopping == {"stop", "grace", "reap"}
Looping == {"poll", "threads", "empty", "turn", "get", "beat"} \cup Stopping
Reasons == {"exit", "wall_timeout", "silence_timeout", "lease_lost"}

Init ==
    /\ pc = "poll"
    /\ due = FALSE
    /\ reason = "exit"
    /\ structured = NoOutput
    /\ quiet = 0
    /\ sinceBeat = Interval
    /\ waited = 0
    /\ queue = <<>>
    /\ hand = [s \in Stream |-> <<>>]
    /\ open = Stream
    /\ pipe = [s \in Stream |-> <<>>]
    /\ code = "none"
    /\ helper = "none"
    /\ left = MaxLines
    /\ life = 0
    /\ spoke = 0
    /\ last = NoOutput

Goto(p) == pc' = p /\ waited' = 0
Least(a, b) == IF a < b THEN a ELSE b

-----------------------------------------------------------------------------
(* The readers: readline, stamp, put (which blocks while the queue is      *)
(* full), and the end of the stream once nobody can write to it.           *)

Heard(line) == line # "blank"

ReadLine(s) ==
    /\ s \in open
    /\ hand[s] = <<>>
    /\ pipe[s] # <<>>
    /\ hand' = [hand EXCEPT ![s] =
                  <<[source |-> s, line |-> Head(pipe[s]), age |-> 0]>>]
    /\ pipe' = [pipe EXCEPT ![s] = Tail(@)]
    /\ spoke' = IF Alive /\ Heard(Head(pipe[s])) THEN 0 ELSE spoke
    /\ UNCHANGED <<mainVars, quiet, sinceBeat, queue, open, code, helper, left, life, last>>

Room == Len(queue) < Capacity

PutLine(s) ==
    /\ hand[s] # <<>>
    /\ Room
    /\ queue' = queue \o hand[s]
    /\ hand' = [hand EXCEPT ![s] = <<>>]
    /\ UNCHANGED <<mainVars, clocks, open, worldVars>>

EndOfStream(s) ==
    /\ s \in open
    /\ hand[s] = <<>>
    /\ pipe[s] = <<>>
    /\ ~Writers
    /\ open' = open \ {s}
    /\ UNCHANGED <<mainVars, clocks, queue, hand, worldVars>>

Reads(s) == ReadLine(s) \/ PutLine(s) \/ EndOfStream(s)

ReadersIdle ==
    \A s \in Stream : IF hand[s] = <<>> THEN pipe[s] = <<>> ELSE ~Room

(* One unit of time passes. *)
Older(q) == [i \in DOMAIN q |-> [q[i] EXCEPT !.age = Least(@ + 1, Silence)]]
Pass ==
    /\ ReadersIdle
    /\ sinceBeat' = Least(sinceBeat + 1, Interval)
    /\ IF Alive THEN /\ quiet' = Least(quiet + 1, Silence)
                     /\ life' = Least(life + 1, MaxLife)
                     /\ spoke' = Least(spoke + 1, Silence)
                ELSE UNCHANGED <<quiet, life, spoke>>
    /\ queue' = Older(queue)
    /\ hand' = [s \in Stream |-> Older(hand[s])]
    /\ UNCHANGED <<open, worldVars>>

(* No deadline is tested for a dead child: its clocks are put to rest. *)
Dies(how) ==
    /\ code' = how
    /\ quiet' = 0
    /\ life' = 0
    /\ spoke' = 0

-----------------------------------------------------------------------------
(* The main thread: the three tests of the while condition, from left to   *)
(* right.                                                                  *)

Poll ==
    /\ pc = "poll"
    /\ Goto(IF Alive THEN "turn" ELSE "threads")
    /\ UNCHANGED <<due, reason, structured, clocks, queue, hand, open, worldVars>>

OneThreadAlive == open = Stream     \* mutant: all() for any()
ThreadsExist == TRUE                \* mutant: any(threads), always true
ThreadAlive == open # {}

TestThreads ==
    /\ pc = "threads"
    /\ Goto(IF ThreadAlive THEN "turn" ELSE "empty")
    /\ UNCHANGED <<due, reason, structured, clocks, queue, hand, open, worldVars>>

TestEmpty ==
    /\ pc = "empty"
    /\ Goto(IF queue # <<>> THEN "turn" ELSE "returned")
    /\ UNCHANGED <<due, reason, structured, clocks, queue, hand, open, worldVars>>

(* `now` is sampled, the deadlines of a live child are tested. *)
DeadlineSilenceOnly ==              \* mutant: no wall time
    IF Alive /\ quiet >= Silence THEN "silence_timeout" ELSE "exit"
Deadline == IF Alive /\ life >= Wall THEN "wall_timeout"
            ELSE IF Alive /\ quiet >= Silence THEN "silence_timeout"
            ELSE "exit"

Turn ==
    /\ pc = "turn"
    /\ due' = (sinceBeat >= Interval)
    /\ sinceBeat' = IF due' THEN 0 ELSE sinceBeat
    /\ IF Deadline = "exit" THEN Goto("get") /\ UNCHANGED reason
                            ELSE Goto("stop") /\ reason' = Deadline
    /\ UNCHANGED <<structured, quiet, life, spoke, queue, hand, open, worldVars>>

(* messages.get: a message, or nothing for a while. *)
AfterGet == IF due THEN "beat" ELSE "poll"

ActivityOfStdout(m) == m.source = "stdout" /\ Heard(m.line)     \* mutant
Activity(m) == Heard(m.line)

AnyLine(m) == m.line                \* mutant: no isinstance(event, dict)
NewOutput(m) == IF m.line \in Output THEN m.line ELSE structured

GetLine ==
    /\ pc = "get"
    /\ queue # <<>>
    /\ queue' = Tail(queue)
    /\ quiet' = IF Alive /\ Activity(Head(queue)) THEN Head(queue).age ELSE quiet
    /\ structured' = NewOutput(Head(queue))
    /\ Goto(AfterGet)
    /\ UNCHANGED <<due, reason, sinceBeat, life, spoke, hand, open, worldVars>>

GetNothing ==
    /\ pc = "get"
    /\ queue = <<>>
    /\ Pass
    /\ Goto(AfterGet)
    /\ UNCHANGED <<due, reason, structured>>

(* on_heartbeat takes a while and tells whether the lease is still ours. *)
BeatTakesTime ==
    /\ pc = "beat"
    /\ waited < Slow
    /\ Pass
    /\ waited' = waited + 1
    /\ UNCHANGED <<pc, due, reason, structured>>

StopsAnyway == TRUE                 \* mutant: the child is not polled
StopsRefused == Alive

Beat ==
    /\ pc = "beat"
    /\ \/ Goto("poll") /\ UNCHANGED reason
       \/ StopsRefused /\ Goto("stop") /\ reason' = "lease_lost"
    /\ UNCHANGED <<due, structured, clocks, queue, hand, open, worldVars>>

-----------------------------------------------------------------------------
(* _terminate_tree: poll, SIGTERM to the group, wait, SIGKILL, wait. *)

TermLeaves == IF helper = "member" THEN "none" ELSE helper
AfterStop == IF reason = "lease_lost" THEN "poll" ELSE "get"
Terminate ==
    /\ pc = "stop"
    /\ IF Alive THEN Goto("grace") /\ helper' \in {helper, TermLeaves}
                ELSE Goto(AfterStop) /\ UNCHANGED helper
    /\ UNCHANGED <<due, reason, structured, clocks, queue, hand, open,
                   pipe, code, left, last>>

Wait ==
    /\ pc = "grace"
    /\ Alive
    /\ waited < Grace
    /\ Pass
    /\ waited' = waited + 1
    /\ UNCHANGED <<pc, due, reason, structured>>

WaitedInVain == TRUE                \* mutant: TimeoutExpired taken for the end
ChildEnded == ~Alive

Waited ==
    /\ pc \in {"grace", "reap"}
    /\ ChildEnded
    /\ Goto(AfterStop)
    /\ UNCHANGED <<due, reason, structured, clocks, queue, hand, open, worldVars>>

SigKill ==
    /\ pc = "grace"
    /\ Alive
    /\ waited = Grace
    /\ Dies("signal")
    /\ helper' = TermLeaves
    /\ Goto(AfterStop)
    /\ UNCHANGED <<due, reason, structured, sinceBeat, queue, hand, open,
                   pipe, left, last>>

(* A child in uninterruptible sleep outlives SIGKILL (what is left of its  *)
(* group does not); the second wait ends with the child, or raises         *)
(* TimeoutExpired.                                                         *)
SigKillPends ==
    /\ "stuck" \in Faults
    /\ pc = "grace"
    /\ Alive
    /\ waited = Grace
    /\ helper' = TermLeaves
    /\ Goto("reap")
    /\ UNCHANGED <<due, reason, structured, clocks, queue, hand, open,
                   pipe, code, left, last>>

WaitAgain ==
    /\ pc = "reap"
    /\ Alive
    /\ waited < Reap
    /\ Pass
    /\ waited' = waited + 1
    /\ UNCHANGED <<pc, due, reason, structured>>

StuckChild ==
    /\ pc = "reap"
    /\ Alive
    /\ waited = Reap
    /\ Goto("raised")
    /\ UNCHANGED <<due, reason, structured, clocks, queue, hand, open, worldVars>>

(* The log cannot be written or the heartbeat raises: `finally` closes the *)
(* log, nobody stops the child or its readers.                             *)
WatchFails ==
    /\ "io" \in Faults
    /\ pc \in {"get", "beat"}
    /\ Goto("raised")
    /\ UNCHANGED <<due, reason, structured, clocks, queue, hand, open, worldVars>>

-----------------------------------------------------------------------------
(* The child and its descendant.  One line fits into a pipe.               *)

Write(s) ==
    /\ Writers
    /\ left > 0
    /\ pipe[s] = <<>>
    /\ \E line \in Line(s) :
         /\ pipe' = [pipe EXCEPT ![s] = <<line>>]
         /\ last' = IF line \in Output THEN line ELSE last
    /\ left' = left - 1
    /\ UNCHANGED <<mainVars, clocks, queue, hand, open, code, helper>>

Fork ==
    /\ Alive
    /\ helper = "none"
    /\ helper' \in {"member", "detached"}
    /\ UNCHANGED <<mainVars, clocks, queue, hand, open, pipe, code, left, last>>

ChildEnds ==
    /\ Alive
    /\ \E how \in {"exited", "signal"} : Dies(how)
    /\ UNCHANGED <<mainVars, sinceBeat, queue, hand, open, pipe, helper, left, last>>

HelperEnds ==
    /\ HelperAlive
    /\ helper' = "none"
    /\ UNCHANGED <<mainVars, clocks, queue, hand, open, pipe, code, left, last>>

-----------------------------------------------------------------------------
Watches ==
    \/ Poll \/ TestThreads \/ TestEmpty \/ Turn \/ GetLine \/ GetNothing
    \/ BeatTakesTime \/ Beat
    \/ Terminate \/ Wait \/ Waited \/ SigKill \/ WaitAgain \/ StuckChild

Next ==
    \/ Watches \/ SigKillPends \/ WatchFails
    \/ \E s \in Stream : Reads(s) \/ Write(s)
    \/ Fork \/ ChildEnds \/ HelperEnds

Spec == Init /\ [][Next]_vars

(* The threads of the supervisor keep running; child and descendant owe    *)
(* nothing.                                                                *)
Fairness == WF_vars(Watches) /\ \A s \in Stream : WF_vars(Reads(s))
FairSpec == Spec /\ Fairness

-----------------------------------------------------------------------------
(* Types. *)
TypeOK ==
    /\ pc \in Looping \cup {"returned", "raised"}
    /\ due \in BOOLEAN
    /\ reason \in Reasons
    /\ {structured, last} \subseteq Output \cup {NoOutput}
    /\ quiet \in 0..Silence /\ spoke \in 0..Silence
    /\ sinceBeat \in 0..Interval
    /\ waited \in Nat
    /\ life \in 0..MaxLife
    /\ queue \in Seq(Message) /\ Len(queue) <= Capacity
    /\ hand \in [Stream -> {<<>>} \cup {<<m>> : m \in Message}]
    /\ open \subseteq Stream
    /\ pipe \in [Stream -> {<<>>} \cup {<<l>> : l \in Words \cup Output}]
    /\ code \in {"none", "exited", "signal"}
    /\ helper \in {"none", "member", "detached"}
    /\ left \in Nat

(* What run_process returns is the last structured object that was written *)
(* to stdout: the three tests of the loop, in their order, let nothing of  *)
(* the output slip between child, pipe, reader and queue.                  *)
LastWordKept == pc = "returned" => structured = last

(* A child stopped for silence was silent: what is waiting of its output   *)
(* came while the main thread was in its last heartbeat, and if nothing is *)
(* waiting, the last line is as old as the timeout, less the time a line   *)
(* may have been in the hand of a blocked reader: put after a later one of *)
(* the other stream, it sets last_activity back.  A heartbeat and the wait *)
(* before it are shorter than its interval, or else one line is consumed   *)
(* per heartbeat and lines grow old in the queue.                          *)
WellPaced == Slow + 1 < Interval /\ Slow < Silence
Waiting(m) == \/ \E i \in DOMAIN queue : queue[i] = m
              \/ \E s \in Stream : hand[s] = <<m>>
Unheard == {m \in Message : Waiting(m) /\ Heard(m.line)}
SilenceIsReal ==
    [][(WellPaced /\ pc = "turn" /\ reason' # reason /\ reason' = "silence_timeout") =>
           /\ \A m \in Unheard : m.age <= Slow
           /\ Unheard = {} => spoke + Slow >= Silence]_vars

(* Neither a slow heartbeat nor a child that ignores SIGTERM lets it live  *)
(* longer than the wall time and the waits of one turn; past that there is *)
(* only the second wait, for a child that SIGKILL could not remove.        *)
BoundedLife ==
    Alive /\ pc # "raised" =>
        life <= Wall + Slow + Grace + (IF pc = "reap" THEN waited ELSE 0)

(* The first cause of a stop stays the reason of the result, whatever the  *)
(* clocks and the heartbeats of the turns after it say.                    *)
FirstReasonStays == [][reason # "exit" => reason' = reason]_vars

(* The loop ends, or fails, once the child and its descendant are gone.    *)
EndsWithWriters == ~Writers ~> pc \in {"returned", "raised"}

(* What Coordination assumes of its watching phases. *)
Phase == CASE pc = "beat" -> "renew"
           [] pc \in Stopping -> "stop"
           [] pc = "returned" -> "over"
           [] pc = "raised" -> "raised"
           [] OTHER -> "watch"
ChildState == CASE Alive -> "alive"
                [] code = "signal" -> "killed"
                [] OTHER -> "exited"
Watched == INSTANCE Attended WITH phase <- Phase, child <- ChildState, heir <- HelperAlive
KeepsWatch == Watched!Spec
=============================================================================
