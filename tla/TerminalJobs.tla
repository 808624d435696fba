----------------------------- MODULE TerminalJobs -----------------------------
(***************************************************************************)
(* Background jobs of the agent's terminal tools: ProcessManager and Job   *)
(* (packages/tools/src/terminal/process-manager.ts) and the output they    *)
(* broadcast (async-broadcast.ts).                                         *)
(*                                                                         *)
(* A job is settled once: by the close event of its child, which has ended *)
(* and whose output pipes nobody holds any more, or by an error event.     *)
(* Node emits one when the command could not be started, and one inside    *)
(* child.kill() when the system refuses the signal: that child lives on.   *)
(* The output cap, the wall-clock limit, kill() and an aborted signal all  *)
(* send SIGTERM, which the child may ignore, and SIGKILL after a grace     *)
(* period.  Time is left out: a timer that is set may expire at any        *)
(* moment.  A chunk of output counts one byte.                             *)
(***************************************************************************)
EXTENDS Integers, FiniteSets

CONSTANTS
    Job,            \* the jobs spawned, one after another
    Consumer,       \* iterators over a job's output
    MaxJobs,        \* maxConcurrentJobs
    MaxOutput,      \* maxOutputBytes
    Stubborn,       \* the jobs whose child ignores SIGTERM
    Forking,        \* those whose child may leave a process that holds its pipes
    Foreign         \* those whose child may run as another user (EPERM)

ASSUME JobsAssumption ==
    /\ IsFiniteSet(Job) /\ MaxJobs \in Nat \ {0} /\ MaxOutput \in Nat
    /\ Stubborn \subseteq Job /\ Forking \subseteq Job /\ Foreign \subseteq Job

VARIABLES
    job,        \* ProcessManager.jobs, each with its child
    reader      \* the iterators: AsyncBroadcast.iterate()

vars == <<job, reader>>

\* child "none": there never was one.  got: signals the child has been sent.
\* ended: how it ended.  grace: the pending SIGKILL timers, those of a limit
\* (killEscalationTimer) and those of kill().
\* closed: the close event has come, which sets exitCode and exitSignal.
JobRecord ==
    [status : {"none", "running", "exited", "killed", "error"}, settled : BOOLEAN,
     outputCapped : BOOLEAN, timedOut : BOOLEAN, outputBytes : 0 .. MaxOutput + 1,
     grace : SUBSET {"limit", "kill"},
     child : {"none", "alive", "dead"}, got : SUBSET {"TERM", "KILL"},
     piped : BOOLEAN, ended : {"no", "code", "signal"},
     closed : BOOLEAN]

NewJob == [status |-> "none", settled |-> FALSE, outputCapped |-> FALSE, timedOut |-> FALSE,
           outputBytes |-> 0, grace |-> {}, child |-> "none", got |-> {},
           piped |-> FALSE, ended |-> "no", closed |-> FALSE]

Idle == [on |-> {}, at |-> 0, parked |-> FALSE, done |-> FALSE]

Init ==
    /\ job = [j \in Job |-> NewJob]
    /\ reader = [c \in Consumer |-> Idle]

Spawned(j) == job[j].status # "none"
Running(j) == Spawned(j) /\ ~job[j].settled
Live == {j \in Job : Running(j)}

\* settle: clear the timers; one that is left finds the job settled.
Settled(J) == [J EXCEPT !.settled = TRUE, !.grace = {}]

\* wake: resume the iterators parked on the jobs.
\* (Mutant: nobody is woken.)
WakeNone(jobs) == UNCHANGED reader
Wake(jobs) == reader' = [c \in Consumer |-> IF reader[c].on \cap jobs # {}
                                            THEN [reader[c] EXCEPT !.parked = FALSE]
                                            ELSE reader[c]]

\* The error event: the job is settled, and its readers end.
Failed(J) == Settled([J EXCEPT !.status = "error"])

\* child.kill(): nothing happens to a child that has ended.
Signalled(J, sig) == IF J.child = "alive" THEN [J EXCEPT !.got = @ \cup {sig}] ELSE J

\* Job j, become J, signals its child.  A refused signal is an error event.
Refusable(j) == j \in Foreign /\ job[j].child = "alive"
Signals(j, J, sig) ==
    \/ job' = [job EXCEPT ![j] = Signalled(J, sig)] /\ UNCHANGED reader
    \/ Refusable(j) /\ job' = [job EXCEPT ![j] = Failed(J)] /\ Wake({j})

-----------------------------------------------------------------------------
\* spawn: refused at the ceiling.  The command may not exist.
Started(exists) == [NewJob EXCEPT !.status = "running", !.piped = exists,
                                  !.child = IF exists THEN "alive" ELSE "none"]
\* (Mutant: a killed job frees its slot before it is gone.)
SpawnByStatus(j, exists) ==
    /\ ~Spawned(j)
    /\ Cardinality({k \in Job : job[k].status = "running"}) < MaxJobs
    /\ job' = [job EXCEPT ![j] = Started(exists)]
    /\ UNCHANGED reader
Spawn(j, exists) ==
    /\ ~Spawned(j)
    /\ Cardinality(Live) < MaxJobs
    /\ job' = [job EXCEPT ![j] = Started(exists)]
    /\ UNCHANGED reader

\* The error event of a command that could not be started.
SpawnError(j) ==
    /\ Running(j) /\ job[j].child = "none"
    /\ job' = [job EXCEPT ![j] = Failed(@)]
    /\ Wake({j})

\* onData: keep and publish a chunk; beyond the cap, end the child.
Grown(J) == [J EXCEPT !.outputBytes = @ + 1]
Capped(J) == [J EXCEPT !.outputCapped = TRUE, !.status = "killed",
                       !.grace = @ \cup {"limit"}]
OnData(j) ==
    LET J == Grown(job[j]) IN
    /\ Running(j) /\ job[j].piped
    /\ ~job[j].outputCapped /\ ~job[j].timedOut
    /\ \/ J.outputBytes <= MaxOutput /\ job' = [job EXCEPT ![j] = J]
       \/ J.outputBytes > MaxOutput /\ job' = [job EXCEPT ![j] = Signalled(Capped(J), "TERM")]
       \/ J.outputBytes > MaxOutput /\ Refusable(j) /\ job' = [job EXCEPT ![j] = Failed(Capped(J))]
    /\ Wake({j})

\* onRuntimeExceeded: the wall-clock limit, whose timer is set once.
\* (Mutant: no SIGKILL follows.)
TimedOutPolitely(J) == [J EXCEPT !.timedOut = TRUE, !.status = "killed"]
TimedOut(J) == [J EXCEPT !.timedOut = TRUE, !.status = "killed", !.grace = @ \cup {"limit"}]
OnRuntimeExceeded(j) ==
    /\ Running(j) /\ ~job[j].timedOut
    /\ Signals(j, TimedOut(job[j]), "TERM")

\* kill, which an aborted signal calls as well.
Killed(J) == [J EXCEPT !.status = IF @ = "running" THEN "killed" ELSE @,
                       !.grace = @ \cup {"kill"}]
Kill(j) ==
    /\ Running(j)
    /\ Signals(j, Killed(job[j]), "TERM")

\* killAll: every job that runs; some may refuse.
KillAll ==
    /\ Live # {}
    /\ \E refusing \in SUBSET {j \in Live : Refusable(j)} :
          /\ job' = [j \in Job |->
                       IF j \in refusing THEN Failed(Killed(job[j]))
                       ELSE IF j \in Live THEN Signalled(Killed(job[j]), "TERM") ELSE job[j]]
          /\ Wake(refusing)

\* The grace period of a SIGTERM is over.
Escalated(J, for) == [J EXCEPT !.grace = @ \ {for}]
Escalate(j, for) ==
    /\ for \in job[j].grace
    /\ Signals(j, Escalated(job[j], for), "KILL")

\* The close event: nobody holds the pipes any more.  It follows the error
\* event too, and then finds the job settled.
CloseEvent(j) == ~job[j].closed /\ ~job[j].piped
                 /\ \/ job[j].child = "dead"
                    \/ job[j].child = "none" /\ job[j].settled
Closed(j, status) ==
    /\ job' = [job EXCEPT ![j] = [Settled(@) EXCEPT !.closed = TRUE, !.status = status]]
    /\ Wake({j})
ByExit(j) == IF job[j].ended = "signal" THEN "killed" ELSE "exited"
\* (Mutant: the exit decides, whatever was asked for or went wrong.)
CloseOverwriting(j) == CloseEvent(j) /\ Closed(j, ByExit(j))
Close(j) ==
    /\ CloseEvent(j)
    /\ Closed(j, IF job[j].status = "running" THEN ByExit(j) ELSE job[j].status)

-----------------------------------------------------------------------------
\* The operating system: a child ends of itself or of a signal, and takes its
\* pipes with it unless a descendant has inherited them.
End(j, how, kept) ==
    /\ job[j].child = "alive"
    /\ kept => j \in Forking
    /\ job' = [job EXCEPT ![j] = [@ EXCEPT !.child = "dead", !.ended = how, !.piped = kept]]
    /\ UNCHANGED reader
Doomed(j) == "KILL" \in job[j].got \/ ("TERM" \in job[j].got /\ j \notin Stubborn)
Die(j) == Doomed(j) /\ \E kept \in BOOLEAN : End(j, "signal", kept)
Leave(j) == \E how \in {"code", "signal"}, kept \in BOOLEAN : End(j, how, kept)

\* The last descendant that holds the pipes ends.
Unpipe(j) ==
    /\ job[j].child = "dead" /\ job[j].piped
    /\ job' = [job EXCEPT ![j].piped = FALSE]
    /\ UNCHANGED reader

-----------------------------------------------------------------------------
\* iterate: replay from the first chunk, follow the tail, park in between.
Iterate(c, j) ==
    /\ reader[c].on = {} /\ Spawned(j)
    /\ reader' = [reader EXCEPT ![c].on = {j}]
    /\ UNCHANGED job
Pulled(r, J) ==
    CASE r.at < J.outputBytes -> [r EXCEPT !.at = @ + 1]
      [] r.at >= J.outputBytes /\ J.settled -> [r EXCEPT !.done = TRUE]
      [] OTHER -> [r EXCEPT !.parked = TRUE]
Pull(c, j) ==
    /\ j \in reader[c].on /\ ~reader[c].parked /\ ~reader[c].done
    /\ reader' = [reader EXCEPT ![c] = Pulled(@, job[j])]
    /\ UNCHANGED job

Next ==
    \/ \E j \in Job :
          \/ \E exists \in BOOLEAN : Spawn(j, exists)
          \/ SpawnError(j)
          \/ OnData(j)
          \/ OnRuntimeExceeded(j)
          \/ Kill(j)
          \/ \E for \in {"limit", "kill"} : Escalate(j, for)
          \/ Close(j)
          \/ Die(j)
          \/ Leave(j)
          \/ Unpipe(j)
          \/ \E c \in Consumer : Iterate(c, j) \/ Pull(c, j)
    \/ KillAll

\* Timers expire, events are delivered, iterators are pulled, and a child that
\* cannot survive a signal dies.  A child need not end, nor a descendant.
Spec ==
    /\ Init /\ [][Next]_vars
    /\ \A j \in Job : /\ WF_vars(SpawnError(j)) /\ WF_vars(OnRuntimeExceeded(j))
                      /\ WF_vars(Close(j)) /\ WF_vars(Die(j))
                      /\ \A for \in {"limit", "kill"} : WF_vars(Escalate(j, for))
                      /\ \A c \in Consumer : WF_vars(Pull(c, j))

-----------------------------------------------------------------------------
TypeOK ==
    /\ job \in [Job -> JobRecord]
    /\ reader \in [Consumer -> [on : SUBSET Job, at : 0 .. MaxOutput + 1,
                                parked : BOOLEAN, done : BOOLEAN]]

\* "Ceiling on LIVE (running) jobs": the children alive never exceed it, except
\* those whose user refused the signal.  Such a job has failed and has no slot
\* any more, and the manager has no means left to end its child (the error
\* handler, spawn, kill, settle).
Alive == {j \in Job : job[j].child = "alive"}
Escaped == {j \in Alive : job[j].status = "error"}
ChildrenBounded ==
    /\ Cardinality(Alive \ Escaped) <= MaxJobs
    /\ Escaped \subseteq Foreign
    /\ \A j \in Alive : job[j].settled <=> j \in Escaped

\* What a settled job reports is final, whatever timers, signals and late data
\* are still under way (settle).
Report(J) == <<J.status, J.outputBytes, J.outputCapped, J.timedOut>>
ReportIsFinal ==
    [][\A j \in Job : job[j].settled => job'[j].settled /\ Report(job'[j]) = Report(job[j])]_vars

\* A job reported as exited or killed has no child left; one reported as exited
\* ended by itself and nobody asked for its end; one that was capped or timed
\* out is never reported as exited; and it is reported as capped just when what
\* it keeps has passed the cap (close, kill, onData).
ReportIsTrue ==
    \A j \in Job : job[j].settled =>
       /\ job[j].status # "error" => job[j].child = "dead"
       /\ job[j].status = "exited" => job[j].ended = "code" /\ job[j].got = {}
       /\ job[j].outputCapped \/ job[j].timedOut => job[j].status \in {"killed", "error"}
       /\ job[j].outputCapped <=> job[j].outputBytes > MaxOutput

\* A report is true, and stands.
ReportStands == ReportIsFinal /\ [][ReportIsTrue']_vars

\* An iterator is parked only while there is nothing for it: no wake-up is
\* lost between a push or the end of the stream and the park (iterate).
NoLostWakeup ==
    \A c \in Consumer, j \in Job :
       j \in reader[c].on /\ reader[c].parked =>
          reader[c].at = job[j].outputBytes /\ ~job[j].settled

\* "Nothing runs forever": every job is settled, unless a descendant of its
\* child keeps the pipes (maxRuntimeMs, the SIGKILL after the grace period, the
\* error of a refused signal, which settles the job though its child runs on).
Kept(j) == job[j].child = "dead" /\ job[j].piped
EveryJobReaped == \A j \in Job : Spawned(j) ~> job[j].settled \/ Kept(j)

\* Every iterator ends when its job has (close of the broadcast).
EveryReaderEnds ==
    \A c \in Consumer, j \in Job :
       j \in reader[c].on ~> reader[c].done \/ Kept(j)

\* Jobs and their readers all come to an end.
EverythingEnds == EveryJobReaped /\ EveryReaderEnds
==============================================================================
