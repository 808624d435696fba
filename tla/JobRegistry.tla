----------------------------- MODULE JobRegistry -----------------------------
(***************************************************************************)
(* Background jobs (packages/cli/src/jobs-registry.ts): each job has a     *)
(* keeper, a detached process that spawns the real command, records it in  *)
(* jobs.json and records how it ended; later invocations list the file and *)
(* kill jobs by the pid they find in it.                                   *)
(*                                                                         *)
(* Nothing locks the file: a change is a read of all the records and then  *)
(* an atomic replacement of the file, and other processes run in between.  *)
(* The operating system reuses the pids of processes that have ended.      *)
(***************************************************************************)
EXTENDS Integers, Sequences, FiniteSets

CONSTANTS
    Job,        \* job ids; also the names of their keepers
    Killer,     \* invocations of `nexus jobs kill`
    Pid,
    Nobody,     \* no process has the pid
    Stranger,   \* a process that is no job's command
    NoPid,      \* -1: the command could not be spawned
    MaxReuses   \* bound: pids taken by strangers

ASSUME JobsAssumption ==
    /\ Job \cap Killer = {} /\ NoPid \notin Pid
    /\ Nobody # Stranger /\ Job \cap {Nobody, Stranger} = {}
    /\ MaxReuses \in Nat

VARIABLES
    file,       \* jobs.json: job -> [status, pid], or Absent
    proc,       \* the process table: pid -> [owner, passes]; passes are the jobs
                \* whose recorded command name and start time the process matches
    keeper,     \* "none", "up" (spawned its command), "finished" or "dead"
    killing,    \* killer -> [step, job, pid]
    todo,       \* the changes a process has yet to make to the file, in order
    snap,       \* what it has read of the file to make the first, or NotRead
    psFailed,   \* jobs whose last check after the grace found no ps to ask
    raced,      \* has a change been built on records another has replaced?
    reuses

vars == <<file, proc, keeper, killing, todo, snap, psFailed, raced, reuses>>

Absent  == [status |-> "absent", pid |-> NoPid]
NotRead == [j \in Job |-> [status |-> "unread", pid |-> NoPid]]
Free    == [owner |-> Nobody, passes |-> {}]
Change(j, status, pid) == [job |-> j, status |-> status, pid |-> pid]

Status == {"running", "exited", "killed", "error", "gone"}
Final  == Status \ {"running"}
Targeted == {killing[k].pid : k \in {q \in Killer : killing[q].step \in {"signal", "force"}}}
Running(j) == \E p \in Pid : proc[p].owner = j

\* process.kill(pid, 0): a signal to pid -1 always finds somebody.
IsAlive(pid) == pid = NoPid \/ proc[pid].owner # Nobody
\* The command name and the start time ps reports match the record.
VerifyIdentity(j, pid) == pid # NoPid /\ j \in proc[pid].passes

-----------------------------------------------------------------------------
Init ==
    /\ file = [j \in Job |-> Absent] /\ proc = [p \in Pid |-> Free]
    /\ keeper = [j \in Job |-> "none"]
    /\ killing = [k \in Killer |-> [step |-> "idle", job |-> Nobody, pid |-> NoPid]]
    /\ todo = [w \in Job \cup Killer |-> <<>>]
    /\ snap = [w \in Job \cup Killer |-> NotRead]
    /\ psFailed = {} /\ raced = FALSE /\ reuses = 0

\* runDetachedJob: the keeper spawns the command.  A script may run under the
\* name of its interpreter, and then even its own record does not match it.
Launch(j, p, passes) ==
    /\ keeper[j] = "none" /\ proc[p] = Free /\ p \notin Targeted
    /\ proc' = [proc EXCEPT ![p] = [owner |-> j, passes |-> passes]]
    /\ keeper' = [keeper EXCEPT ![j] = "up"]
    /\ todo' = [todo EXCEPT ![j] = <<Change(j, "running", p)>>]
    /\ UNCHANGED <<file, killing, snap, psFailed, raced, reuses>>

\* There is no such command: Node emits "error" and then "close", and both finish.
LaunchFails(j) ==
    /\ keeper[j] = "none"
    /\ keeper' = [keeper EXCEPT ![j] = "finished"]
    /\ todo' = [todo EXCEPT ![j] = <<Change(j, "running", NoPid), Change(j, "error", NoPid),
                                     Change(j, "exited", NoPid)>>]
    /\ UNCHANGED <<file, proc, killing, snap, psFailed, raced, reuses>>

\* record() and update(): readAll ...
ReadAll(w) ==
    /\ todo[w] # <<>> /\ snap[w] = NotRead
    /\ w \in Killer => killing[w].step = "done"
    /\ snap' = [snap EXCEPT ![w] = file]
    /\ UNCHANGED <<file, proc, keeper, killing, todo, psFailed, raced, reuses>>

\* ... and writeAll: a new record is added, an unknown id is left alone.
Changed(records, c) == [records EXCEPT ![c.job] =
    IF c.status = "running" THEN [status |-> "running", pid |-> c.pid]
    ELSE [@ EXCEPT !.status = c.status]]
\* (Mutant: a new record replaces the ones that were there.)
WriteOnlyOwn(w) ==
    /\ snap[w] # NotRead
    /\ LET c == Head(todo[w])
       IN  file' = IF c.status # "running" /\ snap[w][c.job] = Absent THEN file
                   ELSE IF c.status = "running" THEN Changed([j \in Job |-> Absent], c)
                   ELSE Changed(snap[w], c)
    /\ snap' = [snap EXCEPT ![w] = NotRead]
    /\ todo' = [todo EXCEPT ![w] = Tail(@)]
    /\ raced' = (raced \/ snap[w] # file)
    /\ UNCHANGED <<proc, keeper, killing, psFailed, reuses>>
WriteAll(w) ==
    /\ snap[w] # NotRead
    /\ LET c == Head(todo[w])
       IN  file' = IF c.status # "running" /\ snap[w][c.job] = Absent THEN file
                   ELSE Changed(snap[w], c)
    /\ snap' = [snap EXCEPT ![w] = NotRead]
    /\ todo' = [todo EXCEPT ![w] = Tail(@)]
    /\ raced' = (raced \/ snap[w] # file)
    /\ UNCHANGED <<proc, keeper, killing, psFailed, reuses>>

\* The command has ended ("close"), by itself or by a signal.
Finish(j, status) ==
    /\ keeper[j] = "up" /\ ~Running(j) /\ todo[j] = <<>>
    /\ keeper' = [keeper EXCEPT ![j] = "finished"]
    /\ todo' = [todo EXCEPT ![j] = <<Change(j, status, NoPid)>>]
    /\ UNCHANGED <<file, proc, killing, snap, psFailed, raced, reuses>>

\* The keeper itself dies: the command goes on without it.
KeeperDies(j) ==
    /\ keeper[j] = "up" \/ todo[j] # <<>>
    /\ keeper' = [keeper EXCEPT ![j] = "dead"]
    /\ todo' = [todo EXCEPT ![j] = <<>>] /\ snap' = [snap EXCEPT ![j] = NotRead]
    /\ UNCHANGED <<file, proc, killing, psFailed, raced, reuses>>

-----------------------------------------------------------------------------
Step(k, step) == killing' = [killing EXCEPT ![k].step = step]
Then(k, c)    == todo' = [todo EXCEPT ![k] = c]

\* killJob: the record, only a running one.
Ask(k, j) ==
    /\ killing[k].step = "idle"
    /\ file[j].status = "running"
    /\ killing' = [killing EXCEPT ![k] = [step |-> "check", job |-> j, pid |-> file[j].pid]]
    /\ UNCHANGED <<file, proc, keeper, todo, snap, psFailed, raced, reuses>>

\* Nobody there: "gone".  Somebody else: refused.
Check(k) ==
    /\ killing[k].step = "check"
    /\ LET j == killing[k].job  pid == killing[k].pid
       IN  IF ~IsAlive(pid) THEN Step(k, "done") /\ Then(k, <<Change(j, "gone", NoPid)>>)
           ELSE /\ Step(k, IF VerifyIdentity(j, pid) THEN "signal" ELSE "done")
                /\ UNCHANGED todo
    /\ UNCHANGED <<file, proc, keeper, snap, psFailed, raced, reuses>>

\* SIGTERM: whoever has the pid now ends, or ignores it for now.
Signal(k) ==
    /\ killing[k].step = "signal"
    /\ \E now \in {Free, proc[killing[k].pid]} : proc' = [proc EXCEPT ![killing[k].pid] = now]
    /\ Step(k, "grace")
    /\ UNCHANGED <<file, keeper, todo, snap, psFailed, raced, reuses>>

\* After the grace: is it still there, and still the job?  Then it is killed.
Verdict(k, sure) == IF sure THEN "force" ELSE "done"
\* (Mutants: SIGKILL on existence alone; no SIGKILL at all.)
AfterGraceIfAlive(k) ==
    /\ killing[k].step = "grace"
    /\ LET j == killing[k].job  sure == IsAlive(killing[k].pid)
       IN  /\ Step(k, Verdict(k, sure))
           /\ Then(k, <<Change(j, "killed", NoPid)>>)
           /\ UNCHANGED psFailed
    /\ UNCHANGED <<file, proc, keeper, snap, raced, reuses>>
AfterGraceNever(k) ==
    /\ killing[k].step = "grace"
    /\ Step(k, "done") /\ Then(k, <<Change(killing[k].job, "killed", NoPid)>>)
    /\ UNCHANGED <<file, proc, keeper, snap, psFailed, raced, reuses>>
AfterGrace(k) ==
    /\ killing[k].step = "grace"
    /\ \E ps \in BOOLEAN :
          LET j == killing[k].job  pid == killing[k].pid
              sure == ps /\ IsAlive(pid) /\ VerifyIdentity(j, pid)
          IN  /\ Step(k, Verdict(k, sure))
              /\ Then(k, <<Change(j, "killed", NoPid)>>)
              /\ psFailed' = IF ps THEN psFailed ELSE psFailed \cup {j}
    /\ UNCHANGED <<file, proc, keeper, snap, raced, reuses>>

\* SIGKILL.
Sigkill(k) ==
    /\ killing[k].step = "force"
    /\ proc' = [proc EXCEPT ![killing[k].pid] = Free]
    /\ Step(k, "done")
    /\ UNCHANGED <<file, keeper, todo, snap, psFailed, raced, reuses>>

\* A killer is interrupted.
KillerDies(k) ==
    /\ killing[k].step \notin {"idle", "done"} \/ todo[k] # <<>>
    /\ Step(k, "done") /\ Then(k, <<>>) /\ snap' = [snap EXCEPT ![k] = NotRead]
    /\ UNCHANGED <<file, proc, keeper, psFailed, raced, reuses>>

-----------------------------------------------------------------------------
\* The operating system.  A pid is not given to another process in the moment
\* between ps and the signal (it would have to go round all the pids).
Exit(p) ==
    /\ proc[p] # Free
    /\ proc' = [proc EXCEPT ![p] = Free]
    /\ UNCHANGED <<file, keeper, killing, todo, snap, psFailed, raced, reuses>>
Reuse(p, passes) ==
    /\ proc[p] = Free /\ p \notin Targeted /\ reuses < MaxReuses
    /\ proc' = [proc EXCEPT ![p] = [owner |-> Stranger, passes |-> passes]]
    /\ reuses' = reuses + 1
    /\ UNCHANGED <<file, keeper, killing, todo, snap, psFailed, raced>>

Next ==
    \/ \E j \in Job : \/ \E p \in Pid, passes \in SUBSET Job : Launch(j, p, passes)
                      \/ LaunchFails(j) \/ KeeperDies(j)
                      \/ \E status \in {"exited", "killed"} : Finish(j, status)
    \/ \E w \in Job \cup Killer : ReadAll(w) \/ WriteAll(w)
    \/ \E k \in Killer : \/ \E j \in Job : Ask(k, j)
                         \/ Check(k) \/ Signal(k) \/ AfterGrace(k) \/ Sigkill(k) \/ KillerDies(k)
    \/ \E p \in Pid : Exit(p) \/ \E passes \in SUBSET Job : Reuse(p, passes)

Spec == Init /\ [][Next]_vars

-----------------------------------------------------------------------------
\* A signal only ever reaches a process that looks like the job it is meant
\* for, even when the job ended during the grace and its pid has been given to
\* another process (killJob: identity is verified before every signal).
Signalling(k) == killing[k].step \in {"signal", "force"} /\ todo[k] = todo'[k]
                   /\ killing'[k].step # killing[k].step
SignalsOnlyTheJob ==
    [][\A k \in Killer : Signalling(k) =>
          proc[killing[k].pid] = Free \/ killing[k].job \in proc[killing[k].pid].passes]_vars

\* A job the file says has ended has ended: a kill that the command ignores
\* goes on to SIGKILL before it writes "killed", and nothing is "gone" that
\* still runs (killJob, finish).  The exception: ps could not be asked after
\* the grace, and the job is written off although it may still run.
EndedMeansDead ==
    \A j \in Job : file[j].status \in Final /\ Running(j) => j \in psFailed

\* As long as no two changes of the file overlapped, every job has the record
\* of its keeper, and one whose keeper has finished is not "running".
RecordsHold ==
    ~raced => \A j \in Job : todo[j] = <<>> =>
       /\ keeper[j] = "up" => file[j] # Absent
       /\ keeper[j] = "finished" => file[j].status \in Final
==============================================================================
