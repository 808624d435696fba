--------------------------- MODULE TaskStoreProofs ---------------------------
(***************************************************************************)
(* The dependency graph and the parent tree of every table stay acyclic,   *)
(* nothing in them dangles, and a plan over them can always be ordered and *)
(* gone on with, for all tasks, processes and bounds.                      *)
(*                                                                         *)
(* Reaches is universally quantified over the sets a walk may have seen,   *)
(* so that `target is not reached' is witnessed by one closed set without  *)
(* it.  The argument is about combining such witnesses; what the planner   *)
(* reads off a sound table follows by counting the tasks that a task       *)
(* reaches, which are fewer for each of its dependencies.                  *)
(***************************************************************************)
EXTENDS TaskStore, FiniteSetTheorems, WellFoundedInduction, NaturalsInduction, TLAPS

Closed(R, S) == \A e \in R : e[1] \in S => e[2] \in S

Edges == SUBSET (Task \X Task)

\* A target that is not reached lies outside a closed set that has the start.
LEMMA Unreached ==
    ASSUME NEW R, NEW a, NEW b, ~Reaches(R, a, b)
    PROVE  \E S \in SUBSET Task : a \in S /\ Closed(R, S) /\ b \notin S
  BY DEF Reaches, Closed

LEMMA Separated ==
    ASSUME NEW R, NEW a, NEW b, NEW S \in SUBSET Task,
           a \in S, Closed(R, S), b \notin S
    PROVE  ~Reaches(R, a, b)
  BY DEF Reaches, Closed

\* Removing edges closes no cycle.
LEMMA FewerEdges ==
    ASSUME NEW R \in Edges, NEW Q \in SUBSET R, Acyclic(R)
    PROVE  Acyclic(Q)
<1> SUFFICES ASSUME NEW e \in Q PROVE ~Reaches(Q, e[2], e[1])
  BY DEF Acyclic
<1>1. PICK S \in SUBSET Task : e[2] \in S /\ Closed(R, S) /\ e[1] \notin S
  BY Unreached DEF Acyclic
<1>2. Closed(Q, S)
  BY <1>1 DEF Closed
<1> QED BY <1>1, <1>2, Separated

\* An edge to a task that does not reach the first one closes no cycle.
LEMMA OneMoreEdge ==
    ASSUME NEW R \in Edges, Acyclic(R), NEW a \in Task, NEW b \in Task, ~Reaches(R, b, a)
    PROVE  Acyclic(R \cup {<<a, b>>})
<1> DEFINE Q == R \cup {<<a, b>>}
<1>1. PICK B \in SUBSET Task : b \in B /\ Closed(R, B) /\ a \notin B
  BY Unreached
<1>2. Closed(Q, B)
  BY <1>1 DEF Closed
<1>3. ASSUME NEW e \in Q PROVE ~Reaches(Q, e[2], e[1])
  <2>1. CASE e = <<a, b>>
    BY <1>1, <1>2, <2>1, Separated
  <2>2. CASE e \in R
    <3>1. PICK S \in SUBSET Task : e[2] \in S /\ Closed(R, S) /\ e[1] \notin S
      BY <2>2, Unreached DEF Acyclic
    <3>2. CASE e[1] \in B
      <4>1. e[2] \in S \cap B /\ e[1] \notin S \cap B
        BY <1>1, <2>2, <3>1, <3>2 DEF Closed
      <4>2. Closed(Q, S \cap B)
        BY <1>1, <3>1 DEF Closed
      <4>3. S \cap B \in SUBSET Task
        OBVIOUS
      <4> QED BY <4>1, <4>2, <4>3, Separated
    <3>3. CASE e[1] \notin B
      <4>1. e[2] \in S \cup B /\ e[1] \notin S \cup B
        BY <3>1, <3>3
      <4>2. Closed(Q, S \cup B)
        BY <1>1, <3>1 DEF Closed
      <4>3. S \cup B \in SUBSET Task
        OBVIOUS
      <4> QED BY <4>1, <4>2, <4>3, Separated
    <3> QED BY <3>2, <3>3
  <2> QED BY <2>1, <2>2
<1> QED BY <1>3 DEF Acyclic

\* Edges out of a task that no edge enters close no cycle.
LEMMA EdgesOfNewTask ==
    ASSUME NEW R \in Edges, Acyclic(R), NEW t \in Task, NEW D \in SUBSET (Task \ {t}),
           \A e \in R : e[2] # t
    PROVE  Acyclic(R \cup {<<t, d>> : d \in D})
<1> DEFINE Q == R \cup {<<t, d>> : d \in D}
<1>1. ASSUME NEW e \in Q PROVE ~Reaches(Q, e[2], e[1])
  <2>1. CASE e \in R
    <3>1. PICK S \in SUBSET Task : e[2] \in S /\ Closed(R, S) /\ e[1] \notin S
      BY <2>1, Unreached DEF Acyclic
    <3>2. e[2] \in S \ {t} /\ e[1] \notin S \ {t} /\ S \ {t} \in SUBSET Task
      BY <2>1, <3>1
    <3>3. Closed(Q, S \ {t})
      BY <3>1 DEF Closed
    <3> QED BY <3>2, <3>3, Separated
  <2>2. CASE \E d \in D : e = <<t, d>>
    <3>1. e[2] \in Task \ {t} /\ e[1] \notin Task \ {t}
      BY <2>2
    <3>2. Closed(Q, Task \ {t})
      BY DEF Closed, Edges
    <3> QED BY <3>1, <3>2, Separated
  <2> QED BY <2>1, <2>2
<1> QED BY <1>1 DEF Acyclic

-----------------------------------------------------------------------------
OneParent(R) == \A e, f \in R : e[1] = f[1] => e = f

\* A table the three invariants hold of.
Sound(X) ==
    /\ X \in Table /\ IsFiniteSet(X.has)
    /\ X.dep \subseteq X.has \X X.has /\ X.parent \subseteq X.has \X X.has
    /\ Acyclic(X.dep) /\ Acyclic(X.parent) /\ OneParent(X.parent)

\* The tables of processes that have exited are empty, so the invariant need
\* not tell them apart.
AllSound ==
    /\ up \subseteq Proc
    /\ Sound(file) /\ mem \in [Proc -> Table] /\ \A p \in Proc : Sound(mem[p])

LEMMA EmptySound == Sound(Empty)
<1>1. Empty \in Table
  BY TaskAssumption DEF Empty, Table
<1> QED BY <1>1, FS_EmptySet DEF Sound, Empty, Acyclic, OneParent

\* Saving a sound table keeps every table sound.
LEMMA SaveSound ==
    ASSUME AllSound, NEW p \in Proc, NEW X, Sound(X), Save(p, X)
    PROVE  AllSound'
<1>1. X \in Table
  BY DEF Sound
<1> QED BY <1>1 DEF AllSound, Save

LEMMA CreateSound ==
    ASSUME AllSound, NEW p \in Proc, NEW t \in Task, NEW s \in Status,
           NEW parents \in NoneOrOne(Task), NEW deps \in SUBSET Task,
           Create(p, t, s, parents, deps)
    PROVE  AllSound'
<1> DEFINE X == mem[p]
           Y == [has    |-> X.has \cup {t},
                 dep    |-> X.dep \cup {<<t, d>> : d \in deps},
                 parent |-> X.parent \cup {<<t, u>> : u \in parents},
                 status |-> [X.status EXCEPT ![t] = s]]
<1>1. Sound(X) /\ t \notin X.has /\ parents \subseteq X.has /\ deps \subseteq X.has
  BY DEF AllSound, Create
<1>2. /\ X.has \in SUBSET Task /\ X.dep \in Edges /\ X.parent \in Edges
      /\ X.status \in [Task -> Status]
  BY <1>1 DEF Sound, Table, Edges
<1>3. /\ deps \in SUBSET (Task \ {t}) /\ parents \in SUBSET (Task \ {t})
      /\ \A e \in X.dep : e[2] # t /\ \A f \in X.parent : f[2] # t /\ f[1] # t
  BY <1>1, <1>2 DEF Sound
<1>4. Y \in Table
  BY <1>2, <1>3 DEF Table, Edges
<1>5. Acyclic(Y.dep)
  <2>1. \A e \in X.dep : e[2] # t
    BY <1>1 DEF Sound
  <2> QED BY <1>1, <1>2, <1>3, <2>1, EdgesOfNewTask DEF Sound
<1>6. Acyclic(Y.parent)
  <2>1. \A e \in X.parent : e[2] # t
    BY <1>1 DEF Sound
  <2> QED BY <1>1, <1>2, <1>3, <2>1, EdgesOfNewTask DEF Sound
<1>7. OneParent(Y.parent)
  <2>1. \A u, v \in parents : u = v
    BY DEF NoneOrOne
  <2>2. \A e \in X.parent : e[1] # t
    BY <1>1 DEF Sound
  <2> QED BY <1>1, <2>1, <2>2 DEF Sound, OneParent
<1>8. Y.dep \subseteq Y.has \X Y.has /\ Y.parent \subseteq Y.has \X Y.has
  BY <1>1 DEF Sound
<1>9. IsFiniteSet(Y.has)
  BY <1>1, FS_AddElement DEF Sound
<1>10. Sound(Y)
  BY <1>4, <1>5, <1>6, <1>7, <1>8, <1>9 DEF Sound
<1> QED BY <1>10, SaveSound DEF Create

LEMMA UpdateSound ==
    ASSUME AllSound, NEW p \in Proc, NEW t \in Task, NEW s \in Status,
           NEW parents \in NoneOrOne(Task), Update(p, t, s, parents)
    PROVE  AllSound'
<1> DEFINE X == mem[p]
           rest == {e \in X.parent : e[1] # t}
           Y == [has    |-> X.has,
                 dep    |-> X.dep,
                 parent |-> rest \cup {<<t, u>> : u \in parents},
                 status |-> [X.status EXCEPT ![t] = s]]
<1>1. /\ Sound(X) /\ t \in X.has /\ parents \subseteq X.has
      /\ \A u \in parents : ~Reaches(X.parent, u, t)
  BY DEF AllSound, Update
<1>2. /\ X \in Table /\ X.has \in SUBSET Task /\ X.dep \in Edges /\ X.parent \in Edges
      /\ X.status \in [Task -> Status]
  BY <1>1 DEF Sound, Table, Edges
<1>3. /\ Y \in Table /\ Y.has = X.has /\ Y.dep = X.dep
      /\ Y.parent = rest \cup {<<t, u>> : u \in parents}
  <2>1. rest \cup {<<t, u>> : u \in parents} \in Edges
    BY <1>1, <1>2 DEF Edges
  <2> QED BY <1>1, <1>2, <2>1 DEF Table, Edges
<1>4. Acyclic(rest) /\ rest \in Edges /\ rest \in SUBSET X.parent
  BY <1>1, <1>2, FewerEdges DEF Sound, Edges
<1>5. Acyclic(Y.parent)
  <2>1. CASE parents = {}
    BY <1>3, <1>4, <2>1
  <2>2. CASE parents # {}
    <3>1. PICK u \in Task : parents = {u}
      BY <2>2 DEF NoneOrOne
    <3>2. PICK S \in SUBSET Task : u \in S /\ Closed(X.parent, S) /\ t \notin S
      BY <1>1, <3>1, Unreached
    <3>3. ~Reaches(rest, u, t)
      BY <3>2, Separated DEF Closed
    <3>4. Y.parent = rest \cup {<<t, u>>}
      BY <1>3, <3>1
    <3> QED BY <1>4, <3>3, <3>4, OneMoreEdge
  <2> QED BY <2>1, <2>2
<1>6. OneParent(Y.parent)
  <2>1. \A u, v \in parents : u = v
    BY DEF NoneOrOne
  <2> QED BY <1>1, <1>3, <2>1 DEF Sound, OneParent
<1>7. Y.dep \subseteq Y.has \X Y.has /\ Y.parent \subseteq Y.has \X Y.has
  BY <1>1, <1>3 DEF Sound
<1>8. Sound(Y)
  BY <1>1, <1>3, <1>5, <1>6, <1>7 DEF Sound
<1> QED BY <1>8, SaveSound DEF Update

LEMMA DeleteSound ==
    ASSUME AllSound, NEW p \in Proc, NEW t \in Task, Delete(p, t)
    PROVE  AllSound'
<1> DEFINE X == mem[p]
           Y == [X EXCEPT !.has = @ \ {t}, !.dep = {e \in @ : t \notin {e[1], e[2]}},
                          !.parent = {e \in @ : t \notin {e[1], e[2]}}]
<1>1. Sound(X) /\ X \in Table /\ X.dep \in Edges /\ X.parent \in Edges
  BY DEF AllSound, Sound, Table, Edges
<1>2. /\ Y \in Table /\ Y.has = X.has \ {t}
      /\ Y.dep = {e \in X.dep : t \notin {e[1], e[2]}}
      /\ Y.parent = {e \in X.parent : t \notin {e[1], e[2]}}
  BY <1>1 DEF Table, Edges
<1>3. Y.dep \in SUBSET X.dep /\ Y.parent \in SUBSET X.parent
  BY <1>2
<1>4. Acyclic(Y.dep) /\ Acyclic(Y.parent)
  BY <1>1, <1>3, FewerEdges DEF Sound
<1>5. OneParent(Y.parent)
  BY <1>1, <1>3 DEF Sound, OneParent
<1>6. Y.dep \subseteq Y.has \X Y.has /\ Y.parent \subseteq Y.has \X Y.has
  BY <1>1, <1>2 DEF Sound
<1>7. IsFiniteSet(Y.has)
  <2>1. IsFiniteSet(X.has)
    BY <1>1 DEF Sound
  <2>2. IsFiniteSet(X.has \ {t})
    BY <2>1, FS_RemoveElement
  <2> HIDE DEF X, Y
  <2> QED BY <1>2, <2>2
<1>8. Sound(Y)
  BY <1>2, <1>4, <1>5, <1>6, <1>7 DEF Sound
<1> QED BY <1>8, SaveSound DEF Delete

LEMMA AddDependencySound ==
    ASSUME AllSound, NEW p \in Proc, NEW t \in Task, NEW u \in Task, AddDependency(p, t, u)
    PROVE  AllSound'
<1> DEFINE X == mem[p]
           Y == [X EXCEPT !.dep = @ \cup {<<t, u>>}]
<1>1. /\ Sound(X) /\ X \in Table /\ X.dep \in Edges
      /\ t \in X.has /\ u \in X.has /\ ~Reaches(X.dep, u, t)
  BY DEF AllSound, Sound, Table, Edges, AddDependency
<1>2. /\ Y \in Table /\ Y.has = X.has /\ Y.parent = X.parent
      /\ Y.dep = X.dep \cup {<<t, u>>}
  BY <1>1 DEF Table, Edges
<1>3. Acyclic(Y.dep)
  BY <1>1, <1>2, OneMoreEdge DEF Sound
<1>4. Y.dep \subseteq Y.has \X Y.has
  BY <1>1, <1>2 DEF Sound
<1>5. Sound(Y)
  BY <1>1, <1>2, <1>3, <1>4 DEF Sound
<1> QED BY <1>5, SaveSound DEF AddDependency

LEMMA RemoveDependencySound ==
    ASSUME AllSound, NEW p \in Proc, NEW t \in Task, NEW u \in Task, RemoveDependency(p, t, u)
    PROVE  AllSound'
<1> DEFINE X == mem[p]
           Y == [X EXCEPT !.dep = @ \ {<<t, u>>}]
<1>1. Sound(X) /\ X \in Table /\ X.dep \in Edges
  BY DEF AllSound, Sound, Table, Edges
<1>2. /\ Y \in Table /\ Y.has = X.has /\ Y.parent = X.parent
      /\ Y.dep = X.dep \ {<<t, u>>}
  BY <1>1 DEF Table, Edges
<1>3. Acyclic(Y.dep)
  BY <1>1, <1>2, FewerEdges DEF Sound
<1>4. Sound(Y)
  BY <1>1, <1>2, <1>3 DEF Sound
<1> QED BY <1>4, SaveSound DEF RemoveDependency

-----------------------------------------------------------------------------
LEMMA SoundStep == AllSound /\ [Next]_vars => AllSound'
<1> SUFFICES ASSUME AllSound, [Next]_vars PROVE AllSound'
  OBVIOUS
<1>1. CASE UNCHANGED vars
  BY <1>1 DEF vars, AllSound
<1>2. ASSUME NEW p \in Proc, Open(p) PROVE AllSound'
  <2>1. file \in Table
    BY DEF AllSound, Sound
  <2> QED BY <1>2, <2>1 DEF AllSound, Open
<1>3. ASSUME NEW p \in Proc, Exit(p) PROVE AllSound'
  <2>1. Empty \in Table
    BY EmptySound DEF Sound
  <2> QED BY <1>3, <2>1, EmptySound DEF AllSound, Exit
<1> QED
  BY <1>1, <1>2, <1>3, CreateSound, UpdateSound, DeleteSound, AddDependencySound,
     RemoveDependencySound DEF Next

LEMMA AlwaysSound == Spec => []AllSound
<1>1. Init => AllSound
  <2>1. Empty \in Table
    BY EmptySound DEF Sound
  <2> QED BY <2>1, EmptySound DEF Init, AllSound
<1> QED BY <1>1, SoundStep, PTL DEF Spec

\* Every variable keeps its type.
THEOREM TypeCorrect == Spec => []TypeOK
<1>1. Init => TypeOK
  BY EmptySound, TaskAssumption DEF Init, TypeOK, Sound
<1>2. AllSound /\ AllSound' /\ TypeOK /\ [Next]_vars => TypeOK'
  <2> SUFFICES ASSUME AllSound, AllSound', TypeOK, [Next]_vars PROVE TypeOK'
    OBVIOUS
  <2>1. ops' \in 0..MaxOps
    <3>1. ASSUME NEW p \in Proc, NEW X, Save(p, X) PROVE ops' \in 0..MaxOps
      BY <3>1, TaskAssumption DEF Save, TypeOK
    <3>2. (\E p \in Proc, X \in Table : Save(p, X)) \/ UNCHANGED ops
      <4>1. ASSUME NEW p \in Proc, Open(p) \/ Exit(p) PROVE UNCHANGED ops
        BY <4>1 DEF Open, Exit
      <4>2. ASSUME NEW p \in Proc, NEW X, Save(p, X) PROVE X \in Table
        BY <4>2 DEF Save, AllSound
      <4>3. ASSUME NEW p \in Proc, NEW t \in Task, NEW s \in Status,
                   NEW parents \in NoneOrOne(Task), NEW deps \in SUBSET Task,
                   Create(p, t, s, parents, deps)
            PROVE  \E X : Save(p, X)
        BY <4>3 DEF Create
      <4>4. ASSUME NEW p \in Proc, NEW t \in Task, NEW s \in Status,
                   NEW parents \in NoneOrOne(Task), Update(p, t, s, parents)
            PROVE  \E X : Save(p, X)
        BY <4>4 DEF Update
      <4>5. ASSUME NEW p \in Proc, NEW t \in Task, Delete(p, t) PROVE \E X : Save(p, X)
        BY <4>5 DEF Delete
      <4>6. ASSUME NEW p \in Proc, NEW t \in Task, NEW u \in Task,
                   AddDependency(p, t, u) \/ RemoveDependency(p, t, u)
            PROVE  \E X : Save(p, X)
        BY <4>6 DEF AddDependency, RemoveDependency
      <4> QED BY <4>1, <4>2, <4>3, <4>4, <4>5, <4>6 DEF Next, vars
    <3> QED BY <3>1, <3>2 DEF TypeOK
  <2> QED BY <2>1 DEF AllSound, Sound, TypeOK
<1> QED BY <1>1, <1>2, AlwaysSound, PTL DEF Spec

\* In every table a process holds and in the file, the dependency graph is
\* acyclic, whatever the processes do and however their saves replace each
\* other (addDependency's check; save never merges).
THEOREM DependenciesStayAcyclic == Spec => []DependenciesAcyclic
<1>1. AllSound => DependenciesAcyclic
  BY DEF AllSound, Sound, DependenciesAcyclic, Tables
<1> QED BY <1>1, AlwaysSound, PTL

\* The subtask relation stays a forest (update's check of the new parent).
THEOREM ParentsStayForest == Spec => []ParentsForest
<1>1. AllSound => ParentsForest
  BY DEF AllSound, Sound, OneParent, ParentsForest, Tables
<1> QED BY <1>1, AlwaysSound, PTL

\* No table keeps an edge to a task that is gone (delete, create's rollback).
THEOREM NothingEverDangles == Spec => []NothingDangles
<1>1. AllSound => NothingDangles
  <2> SUFFICES ASSUME AllSound, NEW X \in Tables
               PROVE  X.dep \cup X.parent \subseteq X.has \X X.has
    BY DEF NothingDangles
  <2>1. Sound(X)
    BY DEF AllSound, Tables
  <2> QED BY <2>1 DEF Sound
<1> QED BY <1>1, AlwaysSound, PTL

\* Every table stays sound: the plan is always a forest and an acyclic graph
\* over the tasks it holds, for any tasks, processes and number of mutations.
THEOREM GraphStaysSound == Spec => []GraphSound
BY DependenciesStayAcyclic, ParentsStayForest, NothingEverDangles, PTL DEF GraphSound

-----------------------------------------------------------------------------
\* What a task reaches: itself and all that it waits for, directly or not.
Below(X, t) == {u \in Task : Reaches(X.dep, t, u)}

LEMMA Least == \A S \in SUBSET Nat : S # {} => \E m \in S : \A k \in S : m <= k
<1> SUFFICES ASSUME NEW S \in SUBSET Nat, S # {} PROVE \E m \in S : \A k \in S : m <= k
  OBVIOUS
<1> DEFINE R == {ss \in Nat \X Nat : ss[1] < ss[2]}
<1>1. IsWellFoundedOn(R, Nat)
  BY NatLessThanWellFounded DEF OpToRel
<1>2. PICK m \in S : \A k \in S : ~(<<k, m>> \in R)
  BY <1>1, WFMin
<1>3. \A k \in S : ~(k < m)
  BY <1>2
<1> QED BY <1>3

\* A task reaches finitely many tasks, all of them in the table.
LEMMA BelowFinite ==
    ASSUME NEW X, Sound(X), NEW t \in X.has
    PROVE  /\ t \in Below(X, t) /\ Below(X, t) \subseteq X.has
           /\ IsFiniteSet(Below(X, t)) /\ Cardinality(Below(X, t)) \in Nat \ {0}
           /\ Cardinality(Below(X, t)) <= Cardinality(X.has)
<1>1. X.has \in SUBSET Task /\ X.dep \subseteq X.has \X X.has /\ IsFiniteSet(X.has)
  BY DEF Sound, Table
<1>2. t \in Below(X, t)
  BY <1>1 DEF Below, Reaches
<1>3. Below(X, t) \subseteq X.has
  <2>1. \A e \in X.dep : e[2] \in X.has
    BY <1>1
  <2> QED BY <1>1, <2>1 DEF Below, Reaches
<1>4. IsFiniteSet(Below(X, t)) /\ Cardinality(Below(X, t)) <= Cardinality(X.has)
  BY <1>1, <1>3, FS_Subset
<1>5. Cardinality(Below(X, t)) \in Nat /\ Cardinality(Below(X, t)) # 0
  BY <1>2, <1>4, FS_CardinalityType, FS_EmptySet
<1> QED BY <1>2, <1>3, <1>4, <1>5

\* A dependency reaches fewer tasks than the task that waits for it, and only
\* such as that one reaches.
LEMMA FewerBelow ==
    ASSUME NEW X, Sound(X), NEW e \in X.dep
    PROVE  /\ e[1] \in X.has /\ e[2] \in X.has
           /\ \A t \in Task : e[1] \in Below(X, t) => e[2] \in Below(X, t)
           /\ Cardinality(Below(X, e[2])) < Cardinality(Below(X, e[1]))
<1>1. /\ X.has \in SUBSET Task /\ X.dep \subseteq X.has \X X.has
      /\ e[1] \in X.has /\ e[2] \in X.has
  BY DEF Sound, Table
<1>2. \A t \in Task : e[1] \in Below(X, t) => e[2] \in Below(X, t)
  BY <1>1 DEF Below, Reaches
<1>3. Below(X, e[2]) \subseteq Below(X, e[1])
  <2> SUFFICES ASSUME NEW u \in Task, Reaches(X.dep, e[2], u) PROVE Reaches(X.dep, e[1], u)
    BY DEF Below
  <2> QED BY DEF Reaches
<1>4. e[1] \notin Below(X, e[2])
  BY DEF Sound, Acyclic, Below
<1>5. e[1] \in Below(X, e[1]) /\ IsFiniteSet(Below(X, e[1])) /\ IsFiniteSet(Below(X, e[2]))
  BY <1>1, BelowFinite
<1>6. /\ Cardinality(Below(X, e[1])) \in Nat /\ Cardinality(Below(X, e[2])) \in Nat
      /\ Cardinality(Below(X, e[2])) <= Cardinality(Below(X, e[1]))
      /\ Cardinality(Below(X, e[2])) # Cardinality(Below(X, e[1]))
  BY <1>3, <1>4, <1>5, FS_Subset, FS_CardinalityType
<1> QED BY <1>1, <1>2, <1>6

\* Among the tasks that a todo task needs, the todo one that reaches the fewest
\* can be started: each of its dependencies reaches fewer, so none is todo.
LEMMA SoundNeverStuck ==
    ASSUME NEW X, Sound(X), NEW t \in X.has, X.status[t] = "todo",
           \A u \in Below(X, t) : X.status[u] \in {"todo", "done"}
    PROVE  Below(X, t) \cap ReadyTasks(X) # {}
<1> DEFINE T == {u \in Below(X, t) : X.status[u] = "todo"}
           Counts == {Cardinality(Below(X, u)) : u \in T}
<1>1. t \in T /\ T \subseteq X.has
  BY BelowFinite
<1>2. Counts \in SUBSET Nat /\ Counts # {}
  BY <1>1, BelowFinite
<1>3. PICK m \in Counts : \A k \in Counts : m <= k
  BY <1>2, Least
<1>4. PICK u \in T : m = Cardinality(Below(X, u))
  OBVIOUS
<1>5. ASSUME NEW e \in X.dep, e[1] = u
      PROVE  e[2] \in X.has /\ X.status[e[2]] = "done"
  <2>1. e[2] \in X.has /\ e[2] \in Below(X, t)
    <3>1. t \in Task
      BY DEF Sound, Table
    <3> QED BY <1>5, <3>1, FewerBelow
  <2>2. Cardinality(Below(X, e[2])) < Cardinality(Below(X, u))
    BY <1>5, FewerBelow
  <2>3. e[2] \notin T
    <3>1. SUFFICES ASSUME e[2] \in T PROVE FALSE
      OBVIOUS
    <3>2. m <= Cardinality(Below(X, e[2]))
      BY <1>3, <3>1
    <3>3. Cardinality(Below(X, e[2])) \in Nat /\ m \in Nat
      BY <1>2, <3>1
    <3> QED BY <1>4, <2>2, <3>2, <3>3
  <2> QED BY <2>1, <2>3
<1>6. u \in ReadyTasks(X)
  BY <1>1, <1>5 DEF ReadyTasks
<1> QED BY <1>6

\* One round of topoOrder, and the function that holds the tasks taken after
\* each number of rounds.
Round(X, S) == {t \in X.has : \A e \in X.dep : e[1] = t /\ e[2] \in X.has => e[2] \in S}
Rounds(X, m, f) == f = [n \in 0..m |-> IF n = 0 THEN {} ELSE Round(X, f[n - 1])]

LEMMA RoundsAt ==
    ASSUME NEW X, NEW m \in Nat, NEW f, Rounds(X, m, f), NEW n \in 0..m
    PROVE  f[n] = IF n = 0 THEN {} ELSE Round(X, f[n - 1])
  BY DEF Rounds

\* There is such a function, for any number of rounds.
LEMMA RoundsExist == \A X : \A m \in Nat : \E f : Rounds(X, m, f)
<1> SUFFICES ASSUME NEW X PROVE \A m \in Nat : \E f : Rounds(X, m, f)
  OBVIOUS
<1> DEFINE S == {m \in Nat : ~ \E f : Rounds(X, m, f)}
<1> SUFFICES ASSUME S # {} PROVE FALSE
  OBVIOUS
<1>1. PICK m \in S : \A k \in S : m <= k
  BY Least
<1>2. m # 0
  <2>1. Rounds(X, 0, [n \in 0..0 |-> {}])
    BY DEF Rounds
  <2> QED BY <2>1
<1>3. m \in Nat /\ m - 1 \in Nat /\ m - 1 \notin S
  BY <1>1, <1>2
<1>4. PICK f : Rounds(X, m - 1, f)
  BY <1>3
<1> DEFINE g == [n \in 0..m |-> IF n <= m - 1 THEN f[n] ELSE Round(X, f[m - 1])]
<1>5. \A n \in 0..m : g[n] = IF n = 0 THEN {} ELSE Round(X, g[n - 1])
  <2> TAKE n \in 0..m
  <2>1. CASE n = m
    BY <1>2, <1>3, <2>1
  <2>2. CASE n # m
    <3>1. n \in 0 .. m - 1
      BY <1>3, <2>2
    <3>2. f[n] = IF n = 0 THEN {} ELSE Round(X, f[n - 1])
      BY <1>4, <3>1 DEF Rounds
    <3>3. g[n] = f[n] /\ (n # 0 => g[n - 1] = f[n - 1])
      BY <1>3, <3>1
    <3> QED BY <3>2, <3>3
  <2> QED BY <2>1, <2>2
<1>6. Rounds(X, m, g)
  BY <1>5 DEF Rounds
<1> QED BY <1>1, <1>6

\* A task is taken after as many rounds as it reaches tasks.
LEMMA TakenInTime ==
    ASSUME NEW X, Sound(X), NEW f, Rounds(X, Cardinality(X.has), f)
    PROVE  \A t \in X.has : \A n \in 0 .. Cardinality(X.has) :
              Cardinality(Below(X, t)) <= n => t \in f[n]
<1> DEFINE N == Cardinality(X.has)
           S == {n \in 0..N : \E t \in X.has : Cardinality(Below(X, t)) <= n /\ t \notin f[n]}
<1>0. N \in Nat
  BY FS_CardinalityType DEF Sound
<1> SUFFICES ASSUME S # {} PROVE FALSE
  OBVIOUS
<1>1. S \in SUBSET Nat
  BY <1>0
<1>2. PICK n \in S : \A k \in S : n <= k
  BY <1>1, Least
<1>3. PICK t \in X.has : Cardinality(Below(X, t)) <= n /\ t \notin f[n]
  BY <1>2
<1>4. n \in 0..N /\ n # 0
  BY <1>0, <1>2, <1>3, BelowFinite
<1>5. n - 1 \in 0..N /\ n - 1 \notin S
  BY <1>0, <1>2, <1>4
<1>6. f[n] = Round(X, f[n - 1])
  BY <1>4 DEF Rounds
<1>7. ASSUME NEW e \in X.dep, e[1] = t PROVE e[2] \in f[n - 1]
  <2>1. /\ e[2] \in X.has
        /\ Cardinality(Below(X, e[2])) < Cardinality(Below(X, t))
    BY <1>7, FewerBelow
  <2>2. Cardinality(Below(X, e[2])) \in Nat /\ Cardinality(Below(X, t)) \in Nat
    BY <2>1, BelowFinite
  <2>3. Cardinality(Below(X, e[2])) <= n - 1
    BY <1>0, <1>3, <1>4, <2>1, <2>2
  <2> QED BY <1>5, <2>1, <2>3
<1> QED BY <1>3, <1>6, <1>7 DEF Round

\* topoOrder reaches every task of a sound table.
LEMMA SoundOrdered == ASSUME NEW X, Sound(X) PROVE Taken(X) = X.has
<1> DEFINE N == Cardinality(X.has)
           after == CHOOSE f : Rounds(X, N, f)
<1>1. N \in Nat
  BY FS_CardinalityType DEF Sound
<1>2. Rounds(X, N, after)
  BY <1>1, RoundsExist
<1>3. Taken(X) = after[N]
  BY DEF Taken, Rounds, Round
<1>4. after[N] \subseteq X.has
  <2> HIDE DEF after, N
  <2>1. N \in 0..N
    BY <1>1
  <2>2. after[N] = IF N = 0 THEN {} ELSE Round(X, after[N - 1])
    BY <1>1, <1>2, <2>1, RoundsAt
  <2> QED BY <2>2 DEF Round
<1>5. X.has \subseteq after[N]
  <2> SUFFICES ASSUME NEW t \in X.has PROVE t \in after[N]
    OBVIOUS
  <2>1. Cardinality(Below(X, t)) <= N /\ N \in 0..N
    BY <1>1, BelowFinite
  <2> HIDE DEF after
  <2> QED BY <1>2, <2>1, TakenInTime
<1> QED BY <1>3, <1>4, <1>5

\* In every table a process holds and in the file, topoOrder orders all tasks,
\* and a todo task that waits for todo and done tasks only can be started or
\* waits for one that can (topoOrder, readyTasks), for any tasks, processes and
\* number of mutations: a plan never runs into a dead end.
THEOREM PlanStaysUsable == Spec => []PlanUsable
<1>1. AllSound => TopoOrderComplete
  BY SoundOrdered DEF AllSound, TopoOrderComplete, Tables
<1>2. AllSound => PlanNeverStuck
  <2> SUFFICES ASSUME AllSound, NEW X \in Tables, NEW t \in Task,
                      t \in X.has, X.status[t] = "todo",
                      \A u \in Below(X, t) : X.status[u] \in {"todo", "done"}
               PROVE  Below(X, t) \cap ReadyTasks(X) # {}
    BY DEF PlanNeverStuck, Below
  <2>1. Sound(X)
    BY DEF AllSound, Tables
  <2> QED BY <2>1, SoundNeverStuck
<1> QED BY <1>1, <1>2, AlwaysSound, PTL DEF PlanUsable
==============================================================================
