--------------------------- MODULE JobRegistryProofs ---------------------------
(***************************************************************************)
(* Proofs about JobRegistry.  Whatever processes have read, plan to write  *)
(* or aim at goes stale in one direction only: a job that has a keeper     *)
(* keeps having had one, runs nowhere but at its pid, and does not come    *)
(* back once it has ended (StaysTrue).  So what was true of a record when  *)
(* it was read is true of it when it is written, however late that is.     *)
(***************************************************************************)
EXTENDS JobRegistry, SequenceTheorems, TLAPS

Record  == [status : Status, pid : Pid \cup {NoPid}] \cup {Absent}
Process == [owner : Job \cup {Nobody, Stranger}, passes : SUBSET Job]
Kill    == [step : {"idle", "check", "signal", "grace", "force", "done"},
            job : Job \cup {Nobody}, pid : Pid \cup {NoPid}]

\* What a process may still have to write.
Failing(j)    == <<Change(j, "running", NoPid), Change(j, "error", NoPid),
                   Change(j, "exited", NoPid)>>
Failed(j)     == <<Change(j, "error", NoPid), Change(j, "exited", NoPid)>>
Starting(j)   == {<<Change(j, "running", p)>> : p \in Pid}
Ending(j)     == {<<Change(j, s, NoPid)>> : s \in Final}
KeeperPlan(j) == {<<>>, Failing(j), Failed(j)} \cup Starting(j) \cup Ending(j)
KillerPlan    == {<<>>} \cup UNION {Ending(j) : j \in Job}

TypeOK ==
    /\ file \in [Job -> Record] /\ proc \in [Pid -> Process]
    /\ keeper \in [Job -> {"none", "up", "finished", "dead"}]
    /\ killing \in [Killer -> Kill]
    /\ DOMAIN todo = Job \cup Killer
    /\ \A j \in Job : todo[j] \in KeeperPlan(j)
    /\ \A k \in Killer : todo[k] \in KillerPlan
    /\ snap \in [Job \cup Killer -> [Job -> Record] \cup {NotRead}]
    /\ psFailed \subseteq Job /\ raced \in BOOLEAN

-----------------------------------------------------------------------------
\* If the job runs, it runs as that process.
At(j, pid) == \A p \in Pid : proc[p].owner = j => p = pid
\* It does not run, unless ps could not be asked.
Over(j)    == Running(j) => j \in psFailed
Known(j)   == keeper[j] # "none"

Faithful(j, r) ==
    r.status # "absent" =>
        /\ Known(j) /\ At(j, r.pid)
        /\ r.status \in Final => Over(j)

Truthful(c) ==
    /\ c.status = "running" => At(c.job, c.pid)
    /\ c.status \in Final => Over(c.job)

MayWrite(w) == w \in Killer => killing[w].step = "done"

\* Only a killer about to send SIGKILL plans to write what is not yet true.
Unsure(w) == w \in Killer /\ killing[w].step = "force"

Planned(w) ==
    \A i \in 1 .. Len(todo[w]) :
       /\ Known(todo[w][i].job)
       /\ IF Unsure(w) THEN todo[w][i].job = killing[w].job ELSE Truthful(todo[w][i])

\* A kill under way is aimed at the job; past the check it was seen to match.
Aimed(k) ==
    /\ killing[k].step \notin {"idle", "done"} =>
          /\ killing[k].job \in Job /\ Known(killing[k].job)
          /\ At(killing[k].job, killing[k].pid)
    /\ killing[k].step \in {"signal", "grace", "force"} =>
          /\ killing[k].pid \in Pid
          /\ proc[killing[k].pid].owner = killing[k].job =>
                killing[k].job \in proc[killing[k].pid].passes
    /\ killing[k].step \in {"signal", "force"} =>
          \/ proc[killing[k].pid] = Free
          \/ killing[k].job \in proc[killing[k].pid].passes

Reading(w) == snap[w] # NotRead =>
    /\ todo[w] # <<>> /\ MayWrite(w)
    /\ \A j \in Job : Faithful(j, snap[w][j])

Honest ==
    /\ \A j \in Job : Running(j) => Known(j)
    /\ \A j \in Job : Faithful(j, file[j])
    /\ \A w \in Job \cup Killer : Planned(w) /\ Reading(w)
    /\ \A k \in Killer : Aimed(k)

\* As long as no changes overlapped: a job whose keeper is done with the file is
\* recorded there.
Recorded ==
    ~raced => \A j \in Job :
       /\ keeper[j] = "up" => file[j] # Absent \/ todo[j] \in Starting(j)
       /\ keeper[j] = "finished" =>
             \/ todo[j] = Failing(j)
             \/ /\ file[j] # Absent /\ todo[j] \notin Starting(j)
                /\ todo[j] = <<>> => file[j].status \in Final

IInv == TypeOK /\ Honest /\ Recorded

-----------------------------------------------------------------------------
\* How a process, a keeper and a suspicion may change in one step: a pid is
\* given to a stranger or to a job that never ran before, and to nobody while
\* a signal is about to be sent to it.
Given(p) ==
    /\ proc[p] = Free /\ p \notin Targeted
    /\ \/ proc'[p].owner = Stranger
       \/ \E j \in Job : ~Known(j) /\ Known(j)' /\ proc'[p].owner = j

LEMMA Moves ==
    ASSUME TypeOK, [Next]_vars
    PROVE  /\ \A p \in Pid : proc'[p] \in {proc[p], Free} \/ Given(p)
           /\ \A j \in Job : Known(j) => Known(j)'
           /\ psFailed \subseteq psFailed'
<1> USE DEF TypeOK, Known
<1>1. ASSUME NEW j \in Job, NEW p \in Pid, NEW passes \in SUBSET Job, Launch(j, p, passes)
      PROVE  (\A q \in Pid : proc'[q] \in {proc[q], Free} \/ Given(q))
                /\ (\A i \in Job : Known(i) => Known(i)') /\ psFailed \subseteq psFailed'
  BY <1>1 DEF Launch, Given
<1>2. ASSUME NEW p \in Pid, NEW passes \in SUBSET Job, Reuse(p, passes)
      PROVE  (\A q \in Pid : proc'[q] \in {proc[q], Free} \/ Given(q))
                /\ (\A i \in Job : Known(i) => Known(i)') /\ psFailed \subseteq psFailed'
  BY <1>2 DEF Reuse, Given
<1>3. ASSUME NEW p \in Pid, Exit(p)
      PROVE  (\A q \in Pid : proc'[q] \in {proc[q], Free})
                /\ (\A i \in Job : Known(i) => Known(i)') /\ psFailed \subseteq psFailed'
  BY <1>3 DEF Exit
<1>4. ASSUME NEW k \in Killer, Signal(k) \/ Sigkill(k)
      PROVE  (\A q \in Pid : proc'[q] \in {proc[q], Free})
                /\ (\A i \in Job : Known(i) => Known(i)') /\ psFailed \subseteq psFailed'
  BY <1>4 DEF Signal, Sigkill
<1>5. ASSUME NEW j \in Job, \/ LaunchFails(j) \/ KeeperDies(j)
                            \/ \E status \in {"exited", "killed"} : Finish(j, status)
      PROVE  proc' = proc /\ (\A i \in Job : Known(i) => Known(i)') /\ psFailed' = psFailed
  BY <1>5 DEF LaunchFails, KeeperDies, Finish
<1>6. ASSUME NEW w \in Job \cup Killer, ReadAll(w) \/ WriteAll(w)
      PROVE  proc' = proc /\ keeper' = keeper /\ psFailed' = psFailed
  BY <1>6 DEF ReadAll, WriteAll
<1>7. ASSUME NEW k \in Killer, (\E j \in Job : Ask(k, j)) \/ Check(k) \/ AfterGrace(k) \/ KillerDies(k)
      PROVE  proc' = proc /\ keeper' = keeper /\ psFailed \subseteq psFailed'
  BY <1>7 DEF Ask, Check, AfterGrace, KillerDies
<1> QED
  BY <1>1, <1>2, <1>3, <1>4, <1>5, <1>6, <1>7 DEF Next, vars

\* What was true of a job's records, and of changes to them, stays true.
LEMMA StaysTrue ==
    ASSUME TypeOK, Honest, [Next]_vars
    PROVE  /\ \A j \in Job : Running(j)' => Known(j)'
           /\ \A j \in Job : \A pid : Known(j) /\ At(j, pid) => At(j, pid)'
           /\ \A j \in Job : Known(j) /\ Over(j) => Over(j)'
           /\ \A j \in Job : \A r : Faithful(j, r) => Faithful(j, r)'
           /\ \A c : c.job \in Job /\ Known(c.job) /\ Truthful(c) => Truthful(c)'
<1>1. \A p \in Pid, j \in Job : proc'[p].owner = j =>
         proc[p].owner = j \/ (~Known(j) /\ Known(j)')
  <2>1. Free.owner \notin Job /\ Stranger \notin Job
    BY JobsAssumption DEF Free
  <2> QED BY <2>1, Moves DEF Given
<1>2. \A j \in Job : Known(j) => Known(j)'
  BY Moves
<1>3. \A j \in Job : Running(j)' => Known(j)'
  BY <1>1, <1>2 DEF Running, Honest
<1>4. \A j \in Job : \A pid : Known(j) /\ At(j, pid) => At(j, pid)'
  BY <1>1 DEF At
<1>5. \A j \in Job : Known(j) /\ Over(j) => Over(j)'
  BY <1>1, Moves DEF Over, Running
<1> QED BY <1>2, <1>3, <1>4, <1>5 DEF Faithful, Truthful

-----------------------------------------------------------------------------
\* The changes a process has yet to make, one after the other.
Wanted == [job : Job, status : Status, pid : Pid \cup {NoPid}]

LEMMA TupleTails ==
    ASSUME NEW a, NEW b, NEW c
    PROVE  /\ Head(<<a>>) = a /\ Tail(<<a>>) = <<>>
           /\ Head(<<a, b>>) = a /\ Tail(<<a, b>>) = <<b>>
           /\ Head(<<a, b, c>>) = a /\ Tail(<<a, b, c>>) = <<b, c>>
  OBVIOUS

LEMMA PlansAreChanges ==
    /\ \A j \in Job : KeeperPlan(j) \subseteq Seq(Wanted)
    /\ KillerPlan \subseteq Seq(Wanted)
<1>1. ASSUME NEW j \in Job, NEW st \in Status, NEW p \in Pid \cup {NoPid}
      PROVE  Change(j, st, p) \in Wanted
  BY DEF Change, Wanted
<1>2. ASSUME NEW j \in Job
      PROVE  Starting(j) \subseteq Seq(Wanted) /\ Ending(j) \subseteq Seq(Wanted)
  <2>1. \A p \in Pid : <<Change(j, "running", p)>> \in Seq(Wanted)
    BY <1>1 DEF Status
  <2>2. \A st \in Final : <<Change(j, st, NoPid)>> \in Seq(Wanted)
    BY <1>1 DEF Final
  <2> QED BY <2>1, <2>2 DEF Starting, Ending
<1>3. ASSUME NEW j \in Job
      PROVE  Failing(j) \in Seq(Wanted) /\ Failed(j) \in Seq(Wanted)
  BY <1>1 DEF Failing, Failed, Status
<1>4. <<>> \in Seq(Wanted)
  OBVIOUS
<1>5. \A j \in Job : KeeperPlan(j) \subseteq Seq(Wanted)
  BY <1>2, <1>3, <1>4 DEF KeeperPlan
<1>6. KillerPlan \subseteq Seq(Wanted)
  BY <1>2, <1>4 DEF KillerPlan
<1> QED BY <1>5, <1>6

LEMMA KeeperNext ==
    ASSUME NEW j \in Job, NEW s \in KeeperPlan(j), s # <<>>
    PROVE  /\ Tail(s) \in KeeperPlan(j)
           /\ Head(s).job = j
           /\ \/ s \in Starting(j) /\ Tail(s) = <<>> /\ Head(s).status = "running"
              \/ s \in Ending(j) /\ Tail(s) = <<>> /\ Head(s).status \in Final
              \/ s = Failing(j) /\ Tail(s) = Failed(j) /\ Head(s).status = "running"
              \/ s = Failed(j) /\ Tail(s) \in Ending(j) /\ Head(s).status \in Final
<1>1. CASE s \in Starting(j)
  <2>1. PICK p \in Pid : s = <<Change(j, "running", p)>>  BY <1>1 DEF Starting
  <2> QED BY <1>1, <2>1, TupleTails DEF Change, KeeperPlan
<1>2. CASE s \in Ending(j)
  <2>1. PICK st \in Final : s = <<Change(j, st, NoPid)>>  BY <1>2 DEF Ending
  <2> QED BY <1>2, <2>1, TupleTails DEF Change, KeeperPlan
<1>3. CASE s = Failing(j)
  <2>1. Tail(s) = Failed(j) /\ Head(s) = Change(j, "running", NoPid)
    BY <1>3, TupleTails DEF Failing, Failed
  <2> QED BY <1>3, <2>1 DEF Change, KeeperPlan
<1>4. CASE s = Failed(j)
  <2>1. Tail(s) = <<Change(j, "exited", NoPid)>> /\ Head(s) = Change(j, "error", NoPid)
    BY <1>4, TupleTails DEF Failed
  <2>2. Tail(s) \in Ending(j)  BY <2>1 DEF Ending, Final, Status
  <2> QED BY <1>4, <2>1, <2>2 DEF Change, KeeperPlan, Final, Status
<1> QED BY <1>1, <1>2, <1>3, <1>4 DEF KeeperPlan

LEMMA KillerNext ==
    ASSUME NEW s \in KillerPlan, s # <<>>
    PROVE  Tail(s) = <<>> /\ Head(s).status \in Final /\ Len(s) = 1
<1>1. PICK j \in Job, st \in Final : s = <<Change(j, st, NoPid)>>
  BY DEF KillerPlan, Ending
<1> QED BY <1>1, TupleTails DEF Change

\* The next change of a process, and those after it.
LEMMA PlanNext ==
    ASSUME TypeOK, NEW w \in Job \cup Killer, todo[w] # <<>>
    PROVE  /\ Head(todo[w]) \in Wanted /\ Head(todo[w]) = todo[w][1]
           /\ Len(todo[w]) \in Nat \ {0}
           /\ \A i \in 1 .. Len(Tail(todo[w])) :
                 i + 1 \in 1 .. Len(todo[w]) /\ Tail(todo[w])[i] = todo[w][i + 1]
<1>1. todo[w] \in Seq(Wanted)
  BY PlansAreChanges DEF TypeOK
<1> QED BY <1>1, HeadTailProperties, LenProperties

-----------------------------------------------------------------------------
LEMMA RecordKept ==
    ASSUME NEW r \in [Job -> Record], NEW c \in Wanted
    PROVE  /\ Changed(r, c) \in [Job -> Record]
           /\ \A j \in Job : Changed(r, c)[j] =
                 IF j # c.job THEN r[j]
                 ELSE [status |-> c.status,
                       pid |-> IF c.status = "running" THEN c.pid ELSE r[j].pid]
<1>1. Record \subseteq [status : Status \cup {"absent"}, pid : Pid \cup {NoPid}]
  BY DEF Record, Absent
<1>2. \A j \in Job : [r[j] EXCEPT !.status = c.status] = [status |-> c.status, pid |-> r[j].pid]
  BY <1>1
<1>3. [r EXCEPT ![c.job] = IF c.status = "running" THEN [status |-> "running", pid |-> c.pid]
                           ELSE [status |-> c.status, pid |-> r[c.job].pid]] = Changed(r, c)
  BY <1>2 DEF Changed, Wanted
<1>4. c.job \in Job /\ c.status \in Status /\ c.pid \in Pid \cup {NoPid}
  BY DEF Wanted
<1>5. r[c.job].pid \in Pid \cup {NoPid}
  BY <1>1, <1>4
<1> QED BY <1>3, <1>4, <1>5 DEF Record

LEMMA TypeInit == Init => TypeOK
<1> SUFFICES ASSUME Init PROVE TypeOK
  OBVIOUS
<1>1. Absent \in Record /\ Free \in Process
  BY DEF Absent, Record, Free, Process
<1>2. \A j \in Job : <<>> \in KeeperPlan(j)
  BY DEF KeeperPlan
<1>3. <<>> \in KillerPlan
  BY DEF KillerPlan
<1> QED BY <1>1, <1>2, <1>3 DEF Init, TypeOK, Kill

LEMMA TypeStep == TypeOK /\ Honest /\ [Next]_vars => TypeOK'
<1> SUFFICES ASSUME TypeOK, Honest, [Next]_vars PROVE TypeOK'
  OBVIOUS
<1> USE JobsAssumption DEF TypeOK
<1>1. ASSUME NEW j \in Job, NEW p \in Pid, NEW passes \in SUBSET Job, Launch(j, p, passes)
      PROVE  TypeOK'
  BY <1>1 DEF Launch, Process, KeeperPlan, Starting
<1>2. ASSUME NEW j \in Job, LaunchFails(j) PROVE TypeOK'
  BY <1>2 DEF LaunchFails, KeeperPlan, Failing
<1>3. ASSUME NEW j \in Job, KeeperDies(j) PROVE TypeOK'
  BY <1>3 DEF KeeperDies, KeeperPlan
<1>4. ASSUME NEW j \in Job, NEW status \in {"exited", "killed"}, Finish(j, status) PROVE TypeOK'
  BY <1>4 DEF Finish, KeeperPlan, Ending, Final, Status
<1>5. ASSUME NEW w \in Job \cup Killer, ReadAll(w) PROVE TypeOK'
  BY <1>5 DEF ReadAll
<1>6. ASSUME NEW w \in Job \cup Killer, WriteAll(w) PROVE TypeOK'
  <2>0. todo[w] # <<>>  BY <1>6 DEF WriteAll, Honest, Reading
  <2>1. snap[w] \in [Job -> Record] /\ Head(todo[w]) \in Wanted
    BY <1>6, <2>0, PlanNext DEF WriteAll
  <2>2. file' \in [Job -> Record]
    BY <1>6, <2>1, RecordKept DEF WriteAll
  <2>3. w \in Job => Tail(todo[w]) \in KeeperPlan(w)
    BY <2>0, KeeperNext
  <2>4. w \in Killer => Tail(todo[w]) \in KillerPlan
    BY <2>0, KillerNext DEF KillerPlan
  <2> QED BY <1>6, <2>2, <2>3, <2>4 DEF WriteAll
<1>7. ASSUME NEW k \in Killer, NEW j \in Job, Ask(k, j) PROVE TypeOK'
  BY <1>7 DEF Ask, Kill, Record, Absent
<1>8. ASSUME NEW k \in Killer, NEW s \in {"gone", "killed"}, NEW j \in Job
      PROVE  <<Change(j, s, NoPid)>> \in KillerPlan /\ <<>> \in KillerPlan
  BY DEF KillerPlan, Ending, Final, Status
<1>9. ASSUME NEW k \in Killer, Check(k) PROVE TypeOK'
  <2>1. killing'  \in [Killer -> Kill]
    BY <1>9 DEF Check, Step, Kill
  <2>2. killing[k].step = "check"  BY <1>9 DEF Check
  <2>3. killing[k].job \in Job  BY <2>2 DEF Honest, Aimed
  <2> QED BY <1>8, <1>9, <2>1, <2>3 DEF Check, Then
<1>10. ASSUME NEW k \in Killer, Signal(k) \/ Sigkill(k) PROVE TypeOK'
  <2>1. killing' \in [Killer -> Kill]
    BY <1>10 DEF Signal, Sigkill, Step, Kill
  <2>2. proc' \in [Pid -> Process]
    BY <1>10 DEF Signal, Sigkill, Process, Free, Honest, Aimed
  <2> QED BY <1>10, <2>1, <2>2 DEF Signal, Sigkill
<1>11. ASSUME NEW k \in Killer, AfterGrace(k) PROVE TypeOK'
  <2>1. killing'  \in [Killer -> Kill]
    BY <1>11 DEF AfterGrace, Step, Verdict, Kill
  <2>2. killing[k].step = "grace"  BY <1>11 DEF AfterGrace
  <2>3. killing[k].job \in Job  BY <2>2 DEF Honest, Aimed
  <2> QED BY <1>8, <1>11, <2>1, <2>3 DEF AfterGrace, Then
<1>12. ASSUME NEW k \in Killer, KillerDies(k) PROVE TypeOK'
  <2>1. killing'  \in [Killer -> Kill]
    BY <1>12, ZenonT(60) DEF KillerDies, Step, Kill
  <2> QED BY <1>12, <2>1 DEF KillerDies, Then, KillerPlan
<1>13. ASSUME NEW p \in Pid, Exit(p) PROVE TypeOK'
  BY <1>13 DEF Exit, Process, Free
<1>14. ASSUME NEW p \in Pid, NEW passes \in SUBSET Job, Reuse(p, passes) PROVE TypeOK'
  BY <1>14 DEF Reuse, Process
<1>15. CASE UNCHANGED vars
  BY <1>15 DEF vars
<1> QED
  BY <1>1, <1>2, <1>3, <1>4, <1>5, <1>6, <1>7, <1>9, <1>10, <1>11, <1>12, <1>13, <1>14, <1>15
     DEF Next

-----------------------------------------------------------------------------
\* Who does nothing in a step is not overtaken by it.
LEMMA PlanUnmoved ==
    ASSUME TypeOK, Honest, [Next]_vars, NEW w \in Job \cup Killer,
           todo'[w] = todo[w],
           \/ ~Unsure(w) /\ ~Unsure(w)'
           \/ w \in Killer => killing'[w] = killing[w]
    PROVE  Planned(w)'
<1>1. Planned(w)
  BY DEF Honest
<1>2. \A i \in 1 .. Len(todo[w]) : todo[w][i].job \in Job
  <2>1. todo[w] \in Seq(Wanted)
    BY PlansAreChanges DEF TypeOK
  <2>2. \A i \in 1 .. Len(todo[w]) : todo[w][i] \in Wanted
    BY <2>1, ElementOfSeq
  <2> QED BY <2>2 DEF Wanted
<1> QED BY <1>1, <1>2, StaysTrue, Moves DEF Planned, Unsure

LEMMA WriterUnmoved ==
    ASSUME TypeOK, Honest, [Next]_vars, NEW w \in Job \cup Killer,
           todo'[w] = todo[w], snap'[w] = snap[w], w \in Killer => killing'[w] = killing[w]
    PROVE  Planned(w)' /\ Reading(w)'
<1>1. Reading(w)
  BY DEF Honest
<1>2. NotRead' = NotRead
  BY DEF NotRead
<1> QED BY <1>1, <1>2, PlanUnmoved, StaysTrue DEF Reading, MayWrite

LEMMA AimUnmoved ==
    ASSUME TypeOK, Honest, [Next]_vars, NEW k \in Killer, killing'[k] = killing[k]
    PROVE  Aimed(k)'
<1> DEFINE j == killing[k].job  p == killing[k].pid
<1>1. Aimed(k)
  BY DEF Honest
<1>2. CASE killing[k].step \in {"idle", "done"}
  BY <1>2 DEF Aimed
<1>3. CASE killing[k].step \notin {"idle", "done"}
  <2>1. j \in Job /\ Known(j) /\ Known(j)' /\ At(j, p)'
    BY <1>1, <1>3, StaysTrue, Moves DEF Aimed
  <2>2. CASE killing[k].step \in {"signal", "grace", "force"}
    <3>1. p \in Pid /\ (proc'[p] \in {proc[p], Free} \/ Given(p))
      BY <1>1, <2>2, Moves DEF Aimed
    <3>2. Free.owner # j /\ Stranger # j
      BY <2>1, JobsAssumption DEF Free
    <3>3. proc'[p].owner = j => proc'[p] = proc[p]
      BY <2>1, <3>1, <3>2 DEF Given
    <3>4. killing[k].step \in {"signal", "force"} => proc'[p] \in {proc[p], Free}
      BY <3>1 DEF Given, Targeted
    <3> QED BY <1>1, <2>1, <2>2, <3>1, <3>3, <3>4 DEF Aimed
  <2> QED BY <1>3, <2>1, <2>2 DEF Aimed, TypeOK, Kill
<1> QED BY <1>2, <1>3

-----------------------------------------------------------------------------
LEMMA Stepped ==
    ASSUME TypeOK, NEW k \in Killer, NEW step, Step(k, step)
    PROVE  /\ killing'[k] = [step |-> step, job |-> killing[k].job, pid |-> killing[k].pid]
           /\ \A q \in Killer \ {k} : killing'[q] = killing[q]
<1>1. killing[k] \in Kill
  BY DEF TypeOK
<1>2. [killing[k] EXCEPT !.step = step]
         = [step |-> step, job |-> killing[k].job, pid |-> killing[k].pid]
  BY <1>1 DEF Kill
<1>3. killing' = [killing EXCEPT ![k] = [killing[k] EXCEPT !.step = step]]
  BY DEF Step
<1> QED BY <1>2, <1>3 DEF TypeOK

\* A kill under way: the job and the pid it is aimed at.
LEMMA Target ==
    ASSUME TypeOK, Honest, [Next]_vars, NEW k \in Killer, killing[k].step \notin {"idle", "done"}
    PROVE  \E j \in Job, pid \in Pid \cup {NoPid} :
              /\ j = killing[k].job /\ pid = killing[k].pid
              /\ Known(j) /\ Known(j)' /\ At(j, pid) /\ At(j, pid)'
              /\ killing[k].step # "check" =>
                    pid \in Pid /\ (proc[pid].owner = j => j \in proc[pid].passes)
<1>1. /\ killing[k].job \in Job /\ Known(killing[k].job)
      /\ At(killing[k].job, killing[k].pid) /\ killing[k].pid \in Pid \cup {NoPid}
      /\ killing[k].step # "check" =>
            /\ killing[k].pid \in Pid
            /\ proc[killing[k].pid].owner = killing[k].job =>
                  killing[k].job \in proc[killing[k].pid].passes
  BY DEF Honest, Aimed, TypeOK, Kill
<1> QED BY <1>1, Moves, StaysTrue

\* A job without a keeper has nothing written about it.
LEMMA Unstarted ==
    ASSUME TypeOK, Honest, NEW j \in Job, ~Known(j)
    PROVE  todo[j] = <<>> /\ snap[j] = NotRead /\ ~Running(j)
<1>1. ASSUME todo[j] # <<>> PROVE FALSE
  BY <1>1, PlanNext, KeeperNext DEF TypeOK, Honest, Planned
<1> QED BY <1>1 DEF Honest, Reading

LEMMA HonestStep == TypeOK /\ Honest /\ [Next]_vars => Honest'
<1> SUFFICES ASSUME TypeOK, Honest, [Next]_vars PROVE Honest'
  OBVIOUS
<1>a. \A j \in Job : Running(j)' => Known(j)'
  BY StaysTrue
<1>b. ASSUME file' = file PROVE \A j \in Job : Faithful(j, file[j])'
  BY <1>b, StaysTrue DEF Honest
<1>c. ASSUME NEW S, \A w \in (Job \cup Killer) \ S : todo'[w] = todo[w] /\ snap'[w] = snap[w],
             \A k \in Killer \ S : killing'[k] = killing[k]
      PROVE  /\ \A w \in (Job \cup Killer) \ S : Planned(w)' /\ Reading(w)'
             /\ \A k \in Killer \ S : Aimed(k)'
  BY <1>c, WriterUnmoved, AimUnmoved
\* The world moves: no process of this model does.
<1>1. CASE \/ \E p \in Pid : Exit(p) \/ \E passes \in SUBSET Job : Reuse(p, passes)
           \/ UNCHANGED vars
  <2>1. file' = file /\ killing' = killing /\ todo' = todo /\ snap' = snap
    BY <1>1 DEF Exit, Reuse, vars
  <2>2. \A w \in (Job \cup Killer) \ {} : Planned(w)' /\ Reading(w)'
    BY <2>1, <1>c
  <2>3. \A k \in Killer \ {} : Aimed(k)'
    BY <2>1, <1>c
  <2> QED BY <2>1, <2>2, <2>3, <1>a, <1>b DEF Honest
\* A keeper moves.
<1>2. ASSUME NEW j \in Job, file' = file, killing' = killing, Planned(j)', Reading(j)',
             \A w \in (Job \cup Killer) \ {j} : todo'[w] = todo[w] /\ snap'[w] = snap[w]
      PROVE  Honest'
  <2>1. j \notin Killer  BY JobsAssumption
  <2>2. \A k \in Killer \ {j} : killing'[k] = killing[k]  BY <1>2
  <2>3. \A w \in (Job \cup Killer) \ {j} : Planned(w)' /\ Reading(w)'
    BY <1>2, <2>2, <1>c
  <2>4. \A k \in Killer \ {j} : Aimed(k)'
    BY <1>2, <2>2, <1>c
  <2> QED BY <1>2, <2>1, <2>3, <2>4, <1>a, <1>b DEF Honest
\* A killer moves, without writing.
<1>3. ASSUME NEW k \in Killer, file' = file, Planned(k)', Reading(k)', Aimed(k)',
             \A w \in (Job \cup Killer) \ {k} : todo'[w] = todo[w] /\ snap'[w] = snap[w],
             \A q \in Killer \ {k} : killing'[q] = killing[q]
      PROVE  Honest'
  <2>1. \A w \in (Job \cup Killer) \ {k} : Planned(w)' /\ Reading(w)'
    BY <1>3, <1>c
  <2>2. \A q \in Killer \ {k} : Aimed(q)'
    BY <1>3, <1>c
  <2> QED BY <1>3, <2>1, <2>2, <1>a, <1>b DEF Honest
<1>4. ASSUME NEW j \in Job, NEW p \in Pid, NEW passes \in SUBSET Job, Launch(j, p, passes)
      PROVE  Honest'
  <2>1. ~Known(j) /\ Known(j)' /\ todo'[j] = <<Change(j, "running", p)>> /\ snap'[j] = NotRead
    BY <1>4, Unstarted DEF Launch, Known, TypeOK
  <2>2. At(j, p)'
    BY <1>4, <2>1, Unstarted DEF Launch, At, Running, TypeOK
  <2>3. Planned(j)'
    <3>1. todo'[j][1] = Change(j, "running", p) /\ Len(todo'[j]) = 1
      BY <2>1
    <3>2. Truthful(Change(j, "running", p))'
      BY <2>2 DEF Truthful, Change, Final
    <3>3. ~Unsure(j)'
      BY JobsAssumption DEF Unsure
    <3> QED BY <2>1, <3>1, <3>2, <3>3 DEF Planned, Change
  <2>4. Reading(j)'
    BY <2>1 DEF Reading, NotRead
  <2> QED BY <1>4, <1>2, <2>3, <2>4 DEF Launch, TypeOK
<1>5. ASSUME NEW j \in Job, LaunchFails(j) PROVE Honest'
  <2>1. ~Known(j) /\ Known(j)' /\ todo'[j] = Failing(j) /\ snap'[j] = NotRead
    BY <1>5, Unstarted DEF LaunchFails, Known, TypeOK, Failing
  <2>2. At(j, NoPid)' /\ Over(j)'
    BY <1>5, <2>1, Unstarted DEF LaunchFails, At, Running, Over
  <2>3. Planned(j)'
    <3>1. \A c : c.job = j /\ (c.status = "running" => c.pid = NoPid) => Truthful(c)'
      BY <2>2 DEF Truthful
    <3>2. /\ Len(todo'[j]) = 3 /\ todo'[j][1] = Change(j, "running", NoPid)
          /\ todo'[j][2] = Change(j, "error", NoPid) /\ todo'[j][3] = Change(j, "exited", NoPid)
      BY <2>1 DEF Failing
    <3>3. \A i \in 1 .. Len(todo'[j]) : todo'[j][i].job = j /\ todo'[j][i].pid = NoPid
      BY <3>2 DEF Change
    <3>4. ~Unsure(j)'
      BY JobsAssumption DEF Unsure
    <3> QED BY <2>1, <3>1, <3>3, <3>4 DEF Planned
  <2>4. Reading(j)'
    BY <2>1 DEF Reading, NotRead
  <2> QED BY <1>5, <1>2, <2>3, <2>4 DEF LaunchFails, TypeOK
<1>6. ASSUME NEW j \in Job, KeeperDies(j) PROVE Honest'
  <2>1. todo'[j] = <<>> /\ snap'[j] = NotRead
    BY <1>6 DEF KeeperDies, TypeOK
  <2>2. Planned(j)' /\ Reading(j)'
    BY <2>1 DEF Planned, Reading, NotRead
  <2> QED BY <1>6, <1>2, <2>2 DEF KeeperDies, TypeOK
<1>7. ASSUME NEW j \in Job, NEW status \in {"exited", "killed"}, Finish(j, status) PROVE Honest'
  <2>1. Known(j)' /\ todo'[j] = <<Change(j, status, NoPid)>> /\ snap'[j] = snap[j]
    BY <1>7 DEF Finish, Known, TypeOK
  <2>2. snap'[j] = NotRead
    BY <1>7, <2>1 DEF Honest, Reading, Finish
  <2>3. Over(j)'
    BY <1>7 DEF Over, Running, Finish
  <2>4. Planned(j)'
    <3>1. todo'[j][1] = Change(j, status, NoPid) /\ Len(todo'[j]) = 1
      BY <2>1
    <3>2. Truthful(Change(j, status, NoPid))'
      BY <2>3 DEF Truthful, Change, Final
    <3>3. ~Unsure(j)'
      BY JobsAssumption DEF Unsure
    <3> QED BY <2>1, <3>1, <3>2, <3>3 DEF Planned, Change
  <2>5. Reading(j)'
    BY <2>2 DEF Reading, NotRead
  <2> QED BY <1>7, <1>2, <2>4, <2>5 DEF Finish, TypeOK
<1>8. ASSUME NEW w \in Job \cup Killer, ReadAll(w) PROVE Honest'
  <2>1. todo' = todo /\ killing' = killing /\ file' = file /\ snap'[w] = file
    BY <1>8 DEF ReadAll, TypeOK
  <2>2. Planned(w)'
    BY <2>1, PlanUnmoved
  <2>3. Reading(w)'
    <3>1. \A j \in Job : Faithful(j, file[j])'
      BY <2>1, <1>b
    <3> QED BY <1>8, <2>1, <3>1 DEF ReadAll, Reading, MayWrite
  <2>4. \A v \in (Job \cup Killer) \ {w} : todo'[v] = todo[v] /\ snap'[v] = snap[v]
    BY <1>8 DEF ReadAll, TypeOK
  <2>5. CASE w \in Job  BY <2>1, <2>2, <2>3, <2>4, <2>5, <1>2
  <2>6. CASE w \in Killer
    <3>1. Aimed(w)'  BY <2>1, <2>6, AimUnmoved
    <3> QED BY <2>1, <2>2, <2>3, <2>4, <2>6, <3>1, <1>3
  <2> QED BY <2>5, <2>6
<1>9. ASSUME NEW w \in Job \cup Killer, WriteAll(w) PROVE Honest'
  <2> DEFINE c == Head(todo[w])
  <2>1. /\ snap[w] # NotRead /\ todo' = [todo EXCEPT ![w] = Tail(@)]
        /\ snap' = [snap EXCEPT ![w] = NotRead] /\ killing' = killing
        /\ file' = IF c.status # "running" /\ snap[w][c.job] = Absent THEN file
                   ELSE Changed(snap[w], c)
    BY <1>9 DEF WriteAll
  <2>2. todo[w] # <<>> /\ MayWrite(w) /\ \A j \in Job : Faithful(j, snap[w][j])
    BY <2>1 DEF Honest, Reading
  <2>3. ~Unsure(w) /\ ~Unsure(w)'
    BY <2>1, <2>2 DEF Unsure, MayWrite
  <2>4. /\ c \in Wanted /\ c = todo[w][1] /\ Len(todo[w]) \in Nat \ {0}
        /\ \A i \in 1 .. Len(Tail(todo[w])) :
              i + 1 \in 1 .. Len(todo[w]) /\ Tail(todo[w])[i] = todo[w][i + 1]
    BY <2>2, PlanNext
  <2>5. \A i \in 1 .. Len(todo[w]) : Known(todo[w][i].job) /\ Truthful(todo[w][i])
    BY <2>3 DEF Honest, Planned
  <2>6. Known(c.job) /\ Truthful(c) /\ c.job \in Job
    BY <2>4, <2>5 DEF Wanted
  <2> HIDE DEF c
  \* What is written is true.
  <2>7. \A j \in Job : Faithful(j, file'[j])
    <3>1. CASE c.status # "running" /\ snap[w][c.job] = Absent
      BY <3>1, <2>1 DEF Honest
    <3>2. CASE ~(c.status # "running" /\ snap[w][c.job] = Absent)
      <4>1. snap[w] \in [Job -> Record]
        BY <2>1 DEF TypeOK
      <4>2. \A j \in Job : file'[j] = IF j # c.job THEN snap[w][j]
               ELSE [status |-> c.status,
                     pid |-> IF c.status = "running" THEN c.pid ELSE snap[w][j].pid]
        BY <3>2, <4>1, <2>1, <2>4, RecordKept
      <4>3. c.status \in Status
        BY <2>4 DEF Wanted
      <4>4. CASE c.status = "running"
        BY <4>2, <4>4, <2>2, <2>6 DEF Faithful, Truthful, Final
      <4>5. CASE c.status # "running"
        <5>1. snap[w][c.job].status # "absent"
          BY <4>1, <4>5, <3>2, <2>6 DEF Record, Status
        <5>2. ASSUME NEW j \in Job, j # c.job PROVE Faithful(j, file'[j])
          BY <5>2, <4>2, <2>2
        <5>3. file'[c.job] = [status |-> c.status, pid |-> snap[w][c.job].pid]
          BY <4>2, <4>5, <2>6
        <5>4. /\ file'[c.job].status = c.status /\ file'[c.job].pid = snap[w][c.job].pid
          BY <5>3
        <5>5. Faithful(c.job, snap[w][c.job])
          BY <2>2, <2>6
        <5>6. Faithful(c.job, file'[c.job])
          BY <4>5, <5>1, <5>4, <5>5, <2>6 DEF Faithful, Truthful, Final
        <5> QED BY <5>2, <5>6, <2>6
      <4> QED BY <4>4, <4>5
    <3> QED BY <3>1, <3>2
  <2>8. \A j \in Job : Faithful(j, file[j])'
    BY <2>7, StaysTrue
  <2>9. todo'[w] = Tail(todo[w]) /\ snap'[w] = NotRead
    BY <2>1 DEF TypeOK
  <2>10. Planned(w)'
    <3>1. \A i \in 1 .. Len(todo[w]) : todo[w][i].job \in Job
      <4>1. todo[w] \in Seq(Wanted)
        BY PlansAreChanges DEF TypeOK
      <4>2. \A i \in 1 .. Len(todo[w]) : todo[w][i] \in Wanted
        BY <4>1, ElementOfSeq
      <4> QED BY <4>2 DEF Wanted
    <3>2. \A i \in 1 .. Len(todo'[w]) :
             /\ todo'[w][i].job \in Job
             /\ Known(todo'[w][i].job) /\ Truthful(todo'[w][i])
      BY <2>4, <2>5, <2>9, <3>1
    <3>3. \A d : d.job \in Job /\ Known(d.job) /\ Truthful(d) => Known(d.job)' /\ Truthful(d)'
      BY StaysTrue, Moves
    <3> QED BY <2>3, <3>2, <3>3 DEF Planned
  <2>11. Reading(w)'
    BY <2>9 DEF Reading, NotRead
  <2>12. \A v \in (Job \cup Killer) \ {w} : todo'[v] = todo[v] /\ snap'[v] = snap[v]
    BY <2>1 DEF TypeOK
  <2>13. \A v \in (Job \cup Killer) \ {w} : Planned(v)' /\ Reading(v)'
    BY <2>1, <2>12, WriterUnmoved
  <2>14. \A k \in Killer : Aimed(k)'
    BY <2>1, AimUnmoved
  <2> QED BY <2>8, <2>10, <2>11, <2>13, <2>14, <1>a DEF Honest
\* A killer that is not done reads nothing, and one that plans one true change reads nothing yet.
<1>10. ASSUME NEW k \in Killer, killing[k].step # "done", snap'[k] = snap[k] \/ snap'[k] = NotRead
       PROVE  Reading(k)'
  BY <1>10 DEF Honest, Reading, MayWrite, NotRead
<1>11. ASSUME NEW k \in Killer, NEW j \in Job, Ask(k, j) PROVE Honest'
  <2>1. PICK pid \in Pid \cup {NoPid} : pid = file[j].pid
    BY DEF TypeOK, Record, Absent
  <2>2. killing'[k] = [step |-> "check", job |-> j, pid |-> pid] /\ killing[k].step = "idle"
    BY <1>11, <2>1 DEF Ask, TypeOK
  <2>3. Known(j)' /\ At(j, pid)'
    <3>1. Known(j) /\ At(j, pid)
      BY <1>11, <2>1 DEF Ask, Honest, Faithful
    <3> QED BY <3>1, StaysTrue, Moves
  <2>4. Aimed(k)'
    BY <2>2, <2>3 DEF Aimed
  <2>5. todo'[k] = todo[k] /\ snap'[k] = snap[k]
    BY <1>11 DEF Ask
  <2>6. Planned(k)'
    BY <2>2, <2>5, PlanUnmoved DEF Unsure
  <2>7. Reading(k)'
    BY <1>10, <2>2, <2>5
  <2> QED BY <1>11, <1>3, <2>4, <2>6, <2>7 DEF Ask, TypeOK
<1>12. ASSUME NEW k \in Killer, Check(k) PROVE Honest'
  <2>1. killing[k].step = "check" /\ proc' = proc
    BY <1>12 DEF Check
  <2>2. PICK j \in Job, pid \in Pid \cup {NoPid} :
           /\ j = killing[k].job /\ pid = killing[k].pid
           /\ Known(j) /\ Known(j)' /\ At(j, pid) /\ At(j, pid)'
    BY <2>1, Target
  <2>3. Reading(k)'
    BY <1>10, <1>12, <2>1 DEF Check
  <2>4. CASE ~IsAlive(pid)
    <3>1. Step(k, "done") /\ todo'[k] = <<Change(j, "gone", NoPid)>>
      BY <1>12, <2>2, <2>4 DEF Check, Then, TypeOK
    <3>2. Over(j)'
      BY <2>1, <2>2, <2>4, JobsAssumption DEF IsAlive, Over, Running, At
    <3>3. killing'[k] = [step |-> "done", job |-> j, pid |-> pid]
      BY <3>1, <2>2, Stepped
    <3>4. Planned(k)'
      <4>1. todo'[k][1] = Change(j, "gone", NoPid) /\ Len(todo'[k]) = 1
        BY <3>1
      <4>2. Truthful(Change(j, "gone", NoPid))'
        BY <3>2 DEF Truthful, Change
      <4> QED BY <2>2, <3>3, <4>1, <4>2 DEF Planned, Unsure, Change
    <3>5. Aimed(k)'
      BY <3>3 DEF Aimed
    <3> QED BY <1>12, <1>3, <2>3, <3>1, <3>4, <3>5, <2>2, <2>4, Stepped DEF Check, Then, TypeOK
  <2>5. CASE IsAlive(pid)
    <3> DEFINE st == IF VerifyIdentity(j, pid) THEN "signal" ELSE "done"
    <3>1. todo' = todo /\ Step(k, st)
      BY <1>12, <2>2, <2>5 DEF Check
    <3>2. killing'[k] = [step |-> st, job |-> j, pid |-> pid]
      BY <2>2, <3>1, Stepped
    <3>3. ~Unsure(k) /\ ~Unsure(k)'
      BY <2>1, <3>2 DEF Unsure
    <3>4. Planned(k)'
      BY <3>1, <3>3, PlanUnmoved
    <3>5. Aimed(k)'
      BY <2>1, <2>2, <3>2 DEF Aimed, VerifyIdentity
    <3> QED BY <1>12, <1>3, <2>3, <3>1, <3>4, <3>5, Stepped DEF Check
  <2> QED BY <2>4, <2>5
<1>13. ASSUME NEW k \in Killer, Signal(k) PROVE Honest'
  <2>1. killing[k].step = "signal"  BY <1>13 DEF Signal
  <2>2. PICK j \in Job, pid \in Pid \cup {NoPid} :
           /\ j = killing[k].job /\ pid = killing[k].pid
           /\ Known(j) /\ Known(j)' /\ At(j, pid) /\ At(j, pid)'
           /\ pid \in Pid /\ (proc[pid].owner = j => j \in proc[pid].passes)
    BY <2>1, Target
  <2>3. Reading(k)'
    BY <1>10, <1>13, <2>1 DEF Signal
  <2>4. killing'[k] = [step |-> "grace", job |-> j, pid |-> pid] /\ todo'[k] = todo[k]
    BY <1>13, <2>2, Stepped DEF Signal
  <2>5. ~Unsure(k) /\ ~Unsure(k)'
    BY <2>1, <2>4 DEF Unsure
  <2>6. Planned(k)'
    BY <2>4, <2>5, PlanUnmoved
  <2>7. proc'[pid] \in {Free, proc[pid]}
    BY <1>13, <2>2 DEF Signal, TypeOK
  <2>8. Free.owner # j
    BY <2>2, JobsAssumption DEF Free
  <2>9. Aimed(k)'
    BY <2>2, <2>4, <2>7, <2>8 DEF Aimed
  <2> QED BY <1>13, <1>3, <2>3, <2>6, <2>9, Stepped DEF Signal
<1>14. ASSUME NEW k \in Killer, AfterGrace(k) PROVE Honest'
  <2>1. killing[k].step = "grace" /\ proc' = proc
    BY <1>14 DEF AfterGrace
  <2>2. PICK j \in Job, pid \in Pid \cup {NoPid} :
           /\ j = killing[k].job /\ pid = killing[k].pid
           /\ Known(j) /\ Known(j)' /\ At(j, pid) /\ At(j, pid)'
           /\ pid \in Pid /\ (proc[pid].owner = j => j \in proc[pid].passes)
    BY <2>1, Target
  <2>3. Reading(k)'
    BY <1>10, <1>14, <2>1 DEF AfterGrace
  <2>4. PICK ps \in BOOLEAN :
           /\ Step(k, Verdict(k, ps /\ IsAlive(pid) /\ VerifyIdentity(j, pid)))
           /\ Then(k, <<Change(j, "killed", NoPid)>>)
           /\ psFailed' = IF ps THEN psFailed ELSE psFailed \cup {j}
    BY <1>14, <2>2 DEF AfterGrace
  <2>5. todo'[k] = <<Change(j, "killed", NoPid)>>
    BY <2>4 DEF Then, TypeOK
  <2>6. todo'[k][1] = Change(j, "killed", NoPid) /\ Len(todo'[k]) = 1
    BY <2>5
  <2>7. CASE ps /\ IsAlive(pid) /\ VerifyIdentity(j, pid)
    <3>1. killing'[k] = [step |-> "force", job |-> j, pid |-> pid]
      BY <2>2, <2>4, <2>7, Stepped DEF Verdict
    <3>2. Planned(k)'
      BY <2>2, <2>6, <3>1 DEF Planned, Unsure, Change
    <3>3. Aimed(k)'
      BY <2>1, <2>2, <2>7, <3>1 DEF Aimed, VerifyIdentity
    <3> QED BY <1>14, <1>3, <2>3, <2>4, <3>2, <3>3, Stepped DEF AfterGrace, Then, TypeOK
  \* Nobody has the pid, or somebody else has, or ps could not be asked.
  <2>8. CASE ~(ps /\ IsAlive(pid) /\ VerifyIdentity(j, pid))
    <3>1. killing'[k] = [step |-> "done", job |-> j, pid |-> pid]
      BY <2>2, <2>4, <2>8, Stepped DEF Verdict
    <3>2. Over(j)'
      <4>1. CASE ~ps
        BY <2>4, <4>1 DEF Over
      <4>2. CASE ps
        <5>1. proc[pid].owner # j
          BY <2>2, <2>8, <4>2, JobsAssumption DEF IsAlive, VerifyIdentity
        <5> QED BY <2>1, <2>2, <5>1 DEF Over, Running, At
      <4> QED BY <4>1, <4>2
    <3>3. Truthful(Change(j, "killed", NoPid))'
      BY <3>2 DEF Truthful, Change
    <3>4. Planned(k)'
      BY <2>2, <2>6, <3>1, <3>3 DEF Planned, Unsure, Change
    <3>5. Aimed(k)'
      BY <3>1 DEF Aimed
    <3> QED BY <1>14, <1>3, <2>3, <2>4, <3>4, <3>5, Stepped DEF AfterGrace, Then, TypeOK
  <2> QED BY <2>7, <2>8
<1>15. ASSUME NEW k \in Killer, Sigkill(k) PROVE Honest'
  <2>1. killing[k].step = "force"  BY <1>15 DEF Sigkill
  <2>2. PICK j \in Job, pid \in Pid \cup {NoPid} :
           /\ j = killing[k].job /\ pid = killing[k].pid
           /\ Known(j) /\ Known(j)' /\ At(j, pid) /\ At(j, pid)'
           /\ pid \in Pid /\ (proc[pid].owner = j => j \in proc[pid].passes)
    BY <2>1, Target
  <2>3. Reading(k)'
    BY <1>10, <1>15, <2>1 DEF Sigkill
  <2>4. killing'[k] = [step |-> "done", job |-> j, pid |-> pid] /\ todo'[k] = todo[k]
    BY <1>15, <2>2, Stepped DEF Sigkill
  <2>5. Over(j)'
    <3>1. proc'[pid] = Free /\ Free.owner # j
      BY <1>15, <2>2, JobsAssumption DEF Sigkill, TypeOK, Free
    <3> QED BY <2>2, <3>1 DEF Over, Running, At
  <2>6. Planned(k)'
    <3>1. \A i \in 1 .. Len(todo[k]) : todo[k][i].job = j /\ todo[k][i].status \in Final
      <4>1. CASE todo[k] = <<>>
        BY <4>1
      <4>2. CASE todo[k] # <<>>
        <5>1. Head(todo[k]).status \in Final /\ Len(todo[k]) = 1
          BY <4>2, KillerNext DEF TypeOK
        <5>2. Head(todo[k]) = todo[k][1]
          BY <4>2, PlanNext
        <5> QED BY <5>1, <5>2, <2>1, <2>2 DEF Honest, Planned, Unsure
      <4> QED BY <4>1, <4>2
    <3>2. \A c : c.job = j /\ c.status \in Final => Truthful(c)'
      BY <2>5 DEF Truthful, Final
    <3> QED BY <2>2, <2>4, <3>1, <3>2 DEF Planned, Unsure
  <2>7. Aimed(k)'
    BY <2>4 DEF Aimed
  <2> QED BY <1>15, <1>3, <2>3, <2>6, <2>7, Stepped DEF Sigkill
<1>16. ASSUME NEW k \in Killer, KillerDies(k) PROVE Honest'
  <2>1. Step(k, "done") /\ todo'[k] = <<>> /\ snap'[k] = NotRead
    BY <1>16 DEF KillerDies, Then, TypeOK
  <2>2. killing'[k] = [step |-> "done", job |-> killing[k].job, pid |-> killing[k].pid]
    BY <2>1, Stepped
  <2>3. Planned(k)' /\ Reading(k)' /\ Aimed(k)'
    BY <2>1, <2>2 DEF Planned, Reading, NotRead, Aimed
  <2> QED BY <1>16, <1>3, <2>1, <2>3, Stepped DEF KillerDies, Then, TypeOK
<1> QED
  BY <1>1, <1>4, <1>5, <1>6, <1>7, <1>8, <1>9, <1>11, <1>12, <1>13, <1>14, <1>15, <1>16 DEF Next

-----------------------------------------------------------------------------
\* Plans that differ: spawning and failing to spawn, and what is left of them.
LEMMA PlansDiffer ==
    ASSUME NEW j \in Job
    PROVE  /\ \A s \in Starting(j) : s # <<>> /\ Head(s).status = "running"
           /\ \A s \in Ending(j) : s # <<>> /\ Head(s).status \in Final
           /\ Failing(j) # <<>> /\ Tail(Failing(j)) = Failed(j)
           /\ Head(Failing(j)).status = "running"
           /\ Failed(j) # <<>> /\ Failed(j) \notin Starting(j)
           /\ Starting(j) \cap Ending(j) = {}
<1>1. ASSUME NEW s \in Starting(j) PROVE s # <<>> /\ Head(s).status = "running"
  BY TupleTails DEF Starting, Change
<1>2. ASSUME NEW s \in Ending(j) PROVE s # <<>> /\ Head(s).status \in Final
  BY TupleTails DEF Ending, Change
<1>3. Head(Failed(j)).status = "error"
  BY TupleTails DEF Failed, Change
<1>4. Failing(j) # <<>> /\ Failed(j) # <<>>
  BY DEF Failing, Failed
<1>5. Tail(Failing(j)) = Failed(j) /\ Head(Failing(j)).status = "running"
  BY TupleTails DEF Failing, Failed, Change
<1> QED BY <1>1, <1>2, <1>3, <1>4, <1>5 DEF Final

\* A change by itself: who is recorded stays recorded.
LEMMA RecordedWrite ==
    ASSUME TypeOK, Honest, NEW w \in Job \cup Killer, WriteAll(w), ~raced'
    PROVE  /\ ~raced /\ todo[w] # <<>> /\ Head(todo[w]) \in Wanted
           /\ \A j \in Job : file[j] # Absent => file'[j] # Absent
           /\ \A j \in Job : j # Head(todo[w]).job => file'[j] = file[j]
           /\ Head(todo[w]).status = "running" => file'[Head(todo[w]).job] # Absent
           /\ Head(todo[w]).status \in Final =>
                 LET j == Head(todo[w]).job
                 IN  file[j] # Absent => file'[j].status \in Final
<1> DEFINE c == Head(todo[w])
<1>1. /\ snap[w] # NotRead /\ ~raced /\ snap[w] = file
      /\ file' = IF c.status # "running" /\ file[c.job] = Absent THEN file
                 ELSE Changed(file, c)
  BY DEF WriteAll, TypeOK
<1>2. todo[w] # <<>>
  BY <1>1 DEF Honest, Reading
<1>3. c \in Wanted
  BY <1>2, PlanNext
<1>4. c.job \in Job /\ c.status \in Status
  BY <1>3 DEF Wanted
<1> HIDE DEF c
<1>5. CASE c.status # "running" /\ file[c.job] = Absent
  BY <1>1, <1>2, <1>3, <1>5 DEF c
<1>6. CASE ~(c.status # "running" /\ file[c.job] = Absent)
  <2>1. \A j \in Job : j # c.job => file'[j] = file[j]
    BY <1>1, <1>3, <1>6, RecordKept DEF TypeOK
  <2>2. file'[c.job] = [status |-> c.status,
                        pid |-> IF c.status = "running" THEN c.pid ELSE file[c.job].pid]
    BY <1>1, <1>3, <1>4, <1>6, RecordKept DEF TypeOK
  <2>3. file'[c.job].status = c.status
    BY <2>2
  <2>4. file'[c.job] # Absent
    BY <1>4, <2>3 DEF Absent, Status
  <2> QED BY <1>1, <1>2, <1>3, <1>4, <2>1, <2>3, <2>4 DEF c
<1> QED BY <1>5, <1>6

LEMMA RecordedStep == TypeOK /\ Honest /\ Recorded /\ [Next]_vars => Recorded'
<1> SUFFICES ASSUME TypeOK, Honest, Recorded, [Next]_vars, ~raced' PROVE Recorded'
  BY DEF Recorded
<1> USE DEF TypeOK
<1>1. ASSUME NEW j \in Job, NEW p \in Pid, NEW passes \in SUBSET Job, Launch(j, p, passes)
      PROVE  Recorded'
  BY <1>1 DEF Launch, Recorded, Starting
<1>2. ASSUME NEW j \in Job, LaunchFails(j) PROVE Recorded'
  BY <1>2 DEF LaunchFails, Recorded, Failing
<1>3. ASSUME NEW j \in Job, KeeperDies(j) PROVE Recorded'
  BY <1>3 DEF KeeperDies, Recorded
<1>4. ASSUME NEW j \in Job, NEW status \in {"exited", "killed"}, Finish(j, status) PROVE Recorded'
  <2>1. todo'[j] \in Ending(j)
    BY <1>4 DEF Finish, Ending, Final, Status
  <2>2. todo'[j] # <<>> /\ todo'[j] \notin Starting(j) /\ <<>> \notin Starting(j)
    BY <2>1, PlansDiffer
  <2>3. file'[j] # Absent /\ keeper'[j] = "finished"
    BY <1>4, <2>2 DEF Finish, Recorded
  <2>4. ~raced /\ file' = file
    BY <1>4 DEF Finish
  <2>5. \A i \in Job \ {j} : keeper'[i] = keeper[i] /\ todo'[i] = todo[i]
    BY <1>4 DEF Finish
  <2> QED BY <2>2, <2>3, <2>4, <2>5 DEF Recorded, Absent, Failing, Starting
<1>5. ASSUME NEW w \in Job \cup Killer, WriteAll(w) PROVE Recorded'
  <2> DEFINE c == Head(todo[w])
  <2>1. /\ ~raced /\ todo[w] # <<>> /\ c \in Wanted
        /\ \A j \in Job : file[j] # Absent => file'[j] # Absent
        /\ \A j \in Job : j # c.job => file'[j] = file[j]
        /\ c.status = "running" => file'[c.job] # Absent
        /\ c.status \in Final => (file[c.job] # Absent => file'[c.job].status \in Final)
    BY <1>5, RecordedWrite
  <2>2. keeper' = keeper /\ \A v \in (Job \cup Killer) \ {w} : todo'[v] = todo[v]
    BY <1>5 DEF WriteAll
  <2>3. todo'[w] = Tail(todo[w])
    BY <1>5 DEF WriteAll
  <2> HIDE DEF c
  <2>4. CASE w \in Killer
    <3>1. c.status \in Final
      BY <2>1, <2>4, KillerNext DEF c
    <3>2. \A j \in Job : todo'[j] = todo[j]
      BY <2>2, <2>4, JobsAssumption
    <3>3. \A j \in Job : file[j] # Absent /\ file[j].status \in Final => file'[j].status \in Final
      BY <2>1, <3>1
    <3> QED BY <2>1, <2>2, <3>2, <3>3 DEF Recorded, Absent, Failing, Starting
  <2>5. CASE w \in Job
    <3>1. c.job = w /\ todo[w] \in KeeperPlan(w) \ {<<>>}
      BY <2>1, <2>5, KeeperNext DEF c
    <3>2. \A j \in Job \ {w} : file'[j] = file[j] /\ todo'[j] = todo[j]
      BY <2>1, <2>2, <3>1
    <3>3. \/ todo[w] \in Starting(w) /\ c.status = "running"
          \/ todo[w] \in Ending(w) /\ todo'[w] = <<>> /\ c.status \in Final
          \/ todo[w] = Failing(w) /\ todo'[w] = Failed(w) /\ c.status = "running"
          \/ todo[w] = Failed(w) /\ todo'[w] \in Ending(w) /\ c.status \in Final
      BY <2>3, <3>1, <2>5, KeeperNext DEF c
    <3>4. ASSUME keeper[w] = "up" PROVE file'[w] # Absent
      <4>1. file[w] # Absent \/ todo[w] \in Starting(w)
        BY <2>1, <2>5, <3>4 DEF Recorded
      <4>2. todo[w] \in Starting(w) => c.status = "running"
        BY PlansDiffer, <2>5 DEF c
      <4> QED BY <2>1, <2>5, <3>1, <4>1, <4>2
    <3>5. ASSUME keeper[w] = "finished"
          PROVE  /\ file'[w] # Absent /\ todo'[w] \notin Starting(w)
                 /\ todo'[w] = <<>> => file'[w].status \in Final
      <4>1. CASE todo[w] = Failing(w)
        <5>1. c.status = "running" /\ todo'[w] = Failed(w)
          BY <2>3, <2>5, <4>1, PlansDiffer DEF c
        <5> QED BY <2>1, <2>5, <3>1, <5>1, PlansDiffer
      <4>2. CASE todo[w] # Failing(w)
        <5>1. file[w] # Absent /\ todo[w] \notin Starting(w)
          BY <2>1, <2>5, <3>5, <4>2 DEF Recorded
        <5> QED BY <2>1, <2>5, <3>1, <3>3, <4>2, <5>1, PlansDiffer DEF Final
      <4> QED BY <4>1, <4>2
    <3> QED BY <2>1, <2>2, <3>2, <3>4, <3>5 DEF Recorded, Absent, Failing, Starting
  <2> QED BY <2>4, <2>5
<1>6. ASSUME NEW w \in Job \cup Killer, ReadAll(w) PROVE Recorded'
  BY <1>6 DEF ReadAll, Recorded, Absent, Failing, Starting
<1>7. ASSUME NEW k \in Killer, \/ \E j \in Job : Ask(k, j)
                               \/ Check(k) \/ Signal(k) \/ AfterGrace(k) \/ Sigkill(k)
                               \/ KillerDies(k)
      PROVE  Recorded'
  <2>1. file' = file /\ keeper' = keeper /\ raced' = raced /\ \A j \in Job : todo'[j] = todo[j]
    BY <1>7, JobsAssumption DEF Ask, Check, Signal, AfterGrace, Sigkill, KillerDies, Then
  <2> QED BY <2>1 DEF Recorded, Absent, Failing, Starting
<1>8. CASE \/ \E p \in Pid : Exit(p) \/ \E passes \in SUBSET Job : Reuse(p, passes)
           \/ UNCHANGED vars
  BY <1>8 DEF Exit, Reuse, vars, Recorded, Absent, Failing, Starting
<1> QED BY <1>1, <1>2, <1>3, <1>4, <1>5, <1>6, <1>7, <1>8 DEF Next

-----------------------------------------------------------------------------
LEMMA InitIInv == Init => IInv
<1> SUFFICES ASSUME Init PROVE Honest /\ Recorded
  BY TypeInit DEF IInv
<1>1. \A j \in Job : ~Running(j)
  BY JobsAssumption DEF Init, Running, Free
<1>2. \A j \in Job : Faithful(j, file[j])
  BY DEF Init, Faithful, Absent
<1>3. \A w \in Job \cup Killer : Planned(w) /\ Reading(w)
  BY DEF Init, Planned, Reading
<1>4. \A k \in Killer : Aimed(k)
  BY DEF Init, Aimed
<1> QED BY <1>1, <1>2, <1>3, <1>4 DEF Honest, Recorded, Init

LEMMA NextIInv == IInv /\ [Next]_vars => IInv'
  BY TypeStep, HonestStep, RecordedStep DEF IInv

LEMMA Inductive == Spec => []IInv
  BY InitIInv, NextIInv, PTL DEF Spec

\* The process table, the file and what every process has read of it, plans to
\* write and aims at are as the code writes them: a keeper makes the changes
\* of runDetachedJob in their order, an invocation of killJob at most one.
THEOREM TypeCorrect == Spec => []TypeOK
  BY Inductive, PTL DEF IInv

\* A job that jobs.json says has ended has ended, however the reads and writes
\* of keepers and kills overlap and whatever the pids are reused for (killJob,
\* finish); the one exception is a job ps could not be asked about.
THEOREM EndedIsDead == Spec => []EndedMeansDead
<1>1. IInv => EndedMeansDead
  BY DEF IInv, TypeOK, Honest, Faithful, Over, EndedMeansDead, Final, Status
<1> QED BY <1>1, Inductive, PTL

\* While no two changes of the file overlap, a job whose keeper lives is listed,
\* and one whose keeper has finished is not listed as running (runDetachedJob).
THEOREM RecordsKept == Spec => []RecordsHold
<1>1. IInv => RecordsHold
  <2> SUFFICES ASSUME IInv, ~raced, NEW j \in Job, todo[j] = <<>>
               PROVE  /\ keeper[j] = "up" => file[j] # Absent
                      /\ keeper[j] = "finished" => file[j].status \in Final
    BY DEF RecordsHold
  <2> QED BY PlansDiffer DEF IInv, Recorded
<1> QED BY <1>1, Inductive, PTL

\* Neither SIGTERM nor SIGKILL reaches a process that does not look like the
\* job it is meant for (killJob: identity is verified before every signal).
THEOREM SignalsAreAimed == Spec => SignalsOnlyTheJob
<1>1. IInv /\ [Next]_vars => [\A k \in Killer : Signalling(k) =>
          proc[killing[k].pid] = Free \/ killing[k].job \in proc[killing[k].pid].passes]_vars
  BY DEF IInv, Honest, Aimed, Signalling
<1> QED BY <1>1, Inductive, PTL DEF Spec, SignalsOnlyTheJob
==============================================================================
