------------------------------ MODULE TaskStore ------------------------------
(***************************************************************************)
(* The task table of a plan (packages/tasks/src/store.ts): a tree over     *)
(* parentId and a graph over deps, held in memory by every process that    *)
(* opened it and saved as a whole to one file.                             *)
(*                                                                         *)
(* A process loads the file once, when it opens the store.  It saves its   *)
(* own table over whatever is there (`nexus task add` reads its title from *)
(* the standard input in between), so what another process saved meanwhile *)
(* is lost; the tables themselves are never merged.  A save may fail, and  *)
(* then the caller is told so but keeps the changed table.  Titles, notes  *)
(* and timestamps are left out.                                            *)
(***************************************************************************)
EXTENDS Integers, FiniteSets

CONSTANTS
    Task,       \* task identifiers
    Proc,       \* processes that use the file
    Status,     \* TASK_STATUSES, or some of them
    MaxOps      \* bound: mutations, by all processes together

ASSUME TaskAssumption ==
    /\ {"todo", "done"} \subseteq Status
    /\ Status \subseteq {"todo", "in_progress", "blocked", "done", "cancelled"}
    /\ MaxOps \in Nat

VARIABLES
    file,       \* the table in tasks.json
    up,         \* the processes that hold the store open
    mem,        \* TaskStore.tasks of each of them
    ops         \* mutations so far

vars == <<file, up, mem, ops>>

\* has: the ids in the table; dep, parent: <<t, u>> when t depends on u, when t
\* is a subtask of u.
Table == [has : SUBSET Task, dep : SUBSET (Task \X Task), parent : SUBSET (Task \X Task),
          status : [Task -> Status]]

Empty == [has |-> {}, dep |-> {}, parent |-> {}, status |-> [t \in Task |-> "todo"]]

-----------------------------------------------------------------------------
\* dependsOnTransitively, wouldCloseParentCycle: the walk from `from` along the
\* edges of R meets `target` when every set that it may have seen, once it has
\* followed all edges, holds `target`.
\* (Mutant: only the first edge is followed.)
ReachesAtOnce(R, from, target) == from = target \/ <<from, target>> \in R
Reaches(R, from, target) ==
    \A seen \in SUBSET Task :
        from \in seen /\ (\A e \in R : e[1] \in seen => e[2] \in seen) => target \in seen

Init ==
    /\ file = Empty /\ up = {}
    /\ mem = [p \in Proc |-> Empty] /\ ops = 0

\* openTasks: load the file.
Open(p) ==
    /\ p \notin up
    /\ up' = up \cup {p}
    /\ mem' = [mem EXCEPT ![p] = file]
    /\ UNCHANGED <<file, ops>>

Exit(p) ==
    /\ p \in up
    /\ up' = up \ {p} /\ mem' = [mem EXCEPT ![p] = Empty]
    /\ UNCHANGED <<file, ops>>

\* save: a temporary file and a rename, which may throw or be cut short by a
\* crash; the table in memory has changed by then.
\* (Mutant: the tables are merged.)
SaveMerging(p, X) ==
    /\ p \in up /\ ops < MaxOps
    /\ mem' = [mem EXCEPT ![p] = X] /\ ops' = ops + 1
    /\ file' \in {file, [X EXCEPT !.has = @ \cup file.has, !.dep = @ \cup file.dep]}
    /\ UNCHANGED up
Save(p, X) ==
    /\ p \in up /\ ops < MaxOps
    /\ mem' = [mem EXCEPT ![p] = X] /\ ops' = ops + 1
    /\ file' \in {X, file}
    /\ UNCHANGED up

\* create, addSubtask: the parents (none or one) and every dependency exist,
\* or the partial task is rolled back and nothing is saved.
Create(p, t, s, parents, deps) ==
    LET X == mem[p]
    IN  /\ t \notin X.has /\ parents \subseteq X.has /\ deps \subseteq X.has
        /\ \A d \in deps : ~Reaches(X.dep, d, t)
        /\ Save(p, [has    |-> X.has \cup {t},
                    dep    |-> X.dep \cup {<<t, d>> : d \in deps},
                    parent |-> X.parent \cup {<<t, u>> : u \in parents},
                    status |-> [X.status EXCEPT ![t] = s]])

\* update: a new status, and a new parent that is not below the task.
\* (Mutant: only the task itself is refused as its parent.)
UpdateAnyParent(p, t, s, parents) ==
    LET X == mem[p]
    IN  /\ t \in X.has /\ parents \subseteq X.has \ {t}
        /\ Save(p, [X EXCEPT !.status = [@ EXCEPT ![t] = s],
                             !.parent = {e \in @ : e[1] # t} \cup {<<t, u>> : u \in parents}])
Update(p, t, s, parents) ==
    LET X == mem[p]
    IN  /\ t \in X.has /\ parents \subseteq X.has
        /\ \A u \in parents : ~Reaches(X.parent, u, t)
        /\ Save(p, [has    |-> X.has,
                    dep    |-> X.dep,
                    parent |-> {e \in X.parent : e[1] # t} \cup {<<t, u>> : u \in parents},
                    status |-> [X.status EXCEPT ![t] = s]])

\* delete: the task, its edges, and its place as a parent.
\* (Mutant: the children are forgotten.)
DeleteKeepingChildren(p, t) ==
    /\ t \in mem[p].has
    /\ Save(p, [mem[p] EXCEPT !.has = @ \ {t}, !.dep = {e \in @ : t \notin {e[1], e[2]}},
                              !.parent = {e \in @ : t # e[1]}])
\* (Mutant: the dependents are forgotten.)
DeleteKeepingDependents(p, t) ==
    /\ t \in mem[p].has
    /\ Save(p, [mem[p] EXCEPT !.has = @ \ {t}, !.dep = {e \in @ : t # e[1]},
                              !.parent = {e \in @ : t \notin {e[1], e[2]}}])
Delete(p, t) ==
    /\ t \in mem[p].has
    /\ Save(p, [mem[p] EXCEPT !.has = @ \ {t}, !.dep = {e \in @ : t \notin {e[1], e[2]}},
                              !.parent = {e \in @ : t \notin {e[1], e[2]}}])

\* addDependency: both exist, the edge is new, and u does not depend on t.
AddDependency(p, t, u) ==
    LET X == mem[p]
    IN  /\ {t, u} \subseteq X.has /\ t # u /\ <<t, u>> \notin X.dep
        /\ ~Reaches(X.dep, u, t)
        /\ Save(p, [X EXCEPT !.dep = @ \cup {<<t, u>>}])

RemoveDependency(p, t, u) ==
    /\ t \in mem[p].has /\ <<t, u>> \in mem[p].dep
    /\ Save(p, [mem[p] EXCEPT !.dep = @ \ {<<t, u>>}])

NoneOrOne(S) == {{}} \cup {{u} : u \in S}

Next ==
    \E p \in Proc :
       \/ Open(p)
       \/ Exit(p)
       \/ \E t \in Task :
             \/ \E s \in Status, parents \in NoneOrOne(Task), deps \in SUBSET Task :
                   Create(p, t, s, parents, deps)
             \/ \E s \in Status, parents \in NoneOrOne(Task) : Update(p, t, s, parents)
             \/ Delete(p, t)
             \/ \E u \in Task : AddDependency(p, t, u) \/ RemoveDependency(p, t, u)

Spec == Init /\ [][Next]_vars

-----------------------------------------------------------------------------
TypeOK ==
    /\ file \in Table /\ up \subseteq Proc
    /\ mem \in [Proc -> Table] /\ ops \in 0..MaxOps

\* readyTasks: todo, and every dependency done; a missing one is not done.
ReadyTasks(X) ==
    {t \in X.has : /\ X.status[t] = "todo"
                   /\ \A e \in X.dep : e[1] = t => e[2] \in X.has /\ X.status[e[2]] = "done"}

\* topoOrder: take the tasks whose dependencies (those in the table) have been
\* taken, until none is left to take.
Taken(X) ==
    LET after[n \in 0 .. Cardinality(X.has)] ==
          IF n = 0 THEN {}
          ELSE {t \in X.has : \A e \in X.dep :
                                 e[1] = t /\ e[2] \in X.has => e[2] \in after[n - 1]}
    IN  after[Cardinality(X.has)]

Tables == {file} \cup {mem[p] : p \in up}

Acyclic(R) == \A e \in R : ~Reaches(R, e[2], e[1])

\* "The dependency graph is always acyclic": in memory and in the file, however
\* the saves of several processes replace each other (addDependency, save).
DependenciesAcyclic == \A X \in Tables : Acyclic(X.dep)

\* The same of parentId: subtree() and the reparenting check walk a forest, and
\* a task has one parent at most (update).
ParentsForest ==
    \A X \in Tables : /\ Acyclic(X.parent)
                      /\ \A e, f \in X.parent : e[1] = f[1] => e = f

\* No dependency and no parent names a task that is gone (delete, and the
\* rollback of create).
NothingDangles == \A X \in Tables : X.dep \cup X.parent \subseteq X.has \X X.has

\* Every table is sound: both graphs are acyclic, and no edge leads nowhere.
GraphSound == DependenciesAcyclic /\ ParentsForest /\ NothingDangles

\* topoOrder never reports a cycle: "it never should, since addDependency
\* prevents them".
TopoOrderComplete == \A X \in Tables : Taken(X) = X.has

\* A plan is never stuck: while a task is todo, and all it waits for are todo
\* or done, one of these can be started (readyTasks).
PlanNeverStuck ==
    \A X \in Tables, t \in Task :
       LET needed == {u \in Task : Reaches(X.dep, t, u)}
       IN  /\ t \in X.has /\ X.status[t] = "todo"
           /\ \A u \in needed : X.status[u] \in {"todo", "done"}
           => needed \cap ReadyTasks(X) # {}

\* What the planner reads off a sound graph: an order of all tasks, and a task
\* to start with.
PlanUsable == TopoOrderComplete /\ PlanNeverStuck
==============================================================================
