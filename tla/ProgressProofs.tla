---------------------------- MODULE ProgressProofs ----------------------------
(***************************************************************************)
(* The thread pool, for any finite number of threads and any set of tasks: *)
(* a task is executed once and no wakeup is lost.  And the worklist of     *)
(* invalidateLocked(), for every dependency graph over any finite set of   *)
(* modules: it computes the transitive dependents.  The two share no state *)
(* here.                                                                   *)
(***************************************************************************)
EXTENDS ModuleExecutor, InvalidationWorklist, FiniteSetTheorems, TLAPS

\* A thread that runs has a task; a submitter that has yet to notify has pushed
\* its task, so that no second notification of the same task is pending.
Accounted ==
    /\ \A w \in InState("running") : running[w] \in Tasks
    /\ IsFiniteSet(notifying)
    /\ notifying \subseteq Submitted

IInv == TypeOK /\ Accounted /\ RunsOnce /\ WorkConserving

LEMMA InitIInv == Init => IInv
<1> SUFFICES ASSUME Init
             PROVE  IInv
  OBVIOUS
<1>1. TypeOK
  <2>1. tasks \in Seq(Tasks)
    BY DEF Init
  <2>2. worker \in [Workers -> WorkerStates] /\ running \in [Workers -> Tasks \cup {NoTask}]
    BY DEF Init, WorkerStates
  <2> QED
    BY <2>1, <2>2 DEF Init, TypeOK, OwnerStates
<1>2. InState("running") = {} /\ InState("waiting") = {} /\ Queued = {}
  BY DEF Init, InState, Queued
<1>3. Accounted
  BY <1>2, FS_EmptySet DEF Init, Accounted
<1>4. RunsOnce
  BY <1>2 DEF Init, RunsOnce, Running
<1> QED
  BY <1>1, <1>2, <1>3, <1>4 DEF IInv, WorkConserving

\* The sets of threads are finite.
LEMMA InStateFinite ==
    ASSUME NEW s
    PROVE  IsFiniteSet(InState(s)) /\ Cardinality(InState(s)) \in Nat
BY WorkersAssumption, FS_Subset, FS_CardinalityType DEF InState

\* A thread that comes to `checking`, and one that leaves it.
LEMMA OneMoreAwake ==
    ASSUME TypeOK, NEW w \in Workers, worker[w] # "checking",
           worker' = [worker EXCEPT ![w] = "checking"]
    PROVE  Cardinality(InState("checking")') = Cardinality(InState("checking")) + 1
<1>1. InState("checking")' = InState("checking") \cup {w} /\ w \notin InState("checking")
  BY DEF TypeOK, InState
<1> QED
  BY <1>1, InStateFinite, FS_AddElement

LEMMA OneLessAwake ==
    ASSUME TypeOK, NEW w \in Workers, worker[w] = "checking", NEW s \in WorkerStates,
           s # "checking", worker' = [worker EXCEPT ![w] = s]
    PROVE  Cardinality(InState("checking")') = Cardinality(InState("checking")) - 1
<1>1. InState("checking")' = InState("checking") \ {w} /\ w \in InState("checking")
  BY DEF TypeOK, InState
<1> QED
  BY <1>1, InStateFinite, FS_RemoveElement

\* submit() pushes a task that is nowhere yet.
LEMMA SubmitIInv ==
    ASSUME IInv, NEW t \in Tasks, Submit(t)
    PROVE  IInv'
<1> USE DEF IInv, Submit
<1>1. /\ tasks' = Append(tasks, t) /\ tasks \in Seq(Tasks)
      /\ Len(tasks') = Len(tasks) + 1
      /\ \A i \in 1..Len(tasks) : tasks'[i] = tasks[i]
      /\ tasks'[Len(tasks) + 1] = t
  BY DEF TypeOK
<1>2. TypeOK'
  BY <1>1 DEF TypeOK
<1>3. /\ Queued' = Queued \cup {t} /\ t \notin Queued
      /\ InState("running")' = InState("running") /\ InState("waiting")' = InState("waiting")
      /\ InState("checking")' = InState("checking") /\ Running' = Running
      /\ t \notin Running /\ t \notin finished
  BY <1>1 DEF Queued, Submitted, InState, Running
<1>4. t \notin notifying
  BY <1>3 DEF Accounted, Submitted
<1>5. /\ IsFiniteSet(notifying') /\ Cardinality(notifying') = Cardinality(notifying) + 1
      /\ Cardinality(notifying) \in Nat
  BY <1>4, FS_AddElement, FS_CardinalityType DEF Accounted
<1>6. Accounted'
  BY <1>3, <1>5 DEF Accounted, Submitted
<1>7. RunsOnce'
  <2>1. \A i, j \in 1..Len(tasks') : tasks'[i] = tasks'[j] => i = j
    BY <1>1, <1>3 DEF RunsOnce, Queued
  <2> QED
    BY <1>3, <2>1 DEF RunsOnce
<1>8. WorkConserving'
  BY <1>1, <1>3, <1>5, InStateFinite DEF WorkConserving
<1> QED
  BY <1>2, <1>6, <1>7, <1>8

\* notify_one() hands the notification to a thread, if one sleeps.
LEMMA NotifyOneIInv ==
    ASSUME IInv, NEW t \in Tasks, NotifyOne(t)
    PROVE  IInv'
<1> USE DEF IInv, NotifyOne
<1>1. TypeOK'
  BY DEF TypeOK, InState, WorkerStates
<1>2. /\ Queued' = Queued /\ InState("running")' = InState("running") /\ Running' = Running
      /\ \A w \in InState("running") : running'[w] = running[w]
  BY DEF TypeOK, Queued, InState, Running
<1>3. /\ IsFiniteSet(notifying') /\ Cardinality(notifying') = Cardinality(notifying) - 1
      /\ Cardinality(notifying) \in Nat
  BY FS_RemoveElement, FS_CardinalityType DEF Accounted
<1>4. Accounted'
  BY <1>2, <1>3 DEF Accounted, Submitted
<1>5. RunsOnce'
  BY <1>2 DEF RunsOnce
<1>6. WorkConserving'
  <2>1. CASE InState("waiting") = {} /\ UNCHANGED worker
    BY <2>1 DEF WorkConserving, InState
  <2>2. ASSUME NEW w \in InState("waiting"), worker' = [worker EXCEPT ![w] = "checking"]
        PROVE  WorkConserving'
    <3>1. w \in Workers /\ worker[w] # "checking" /\ InState("waiting") # {}
      BY <2>2 DEF InState
    <3>2. Cardinality(InState("checking")') = Cardinality(InState("checking")) + 1
      BY <2>2, <3>1, OneMoreAwake
    <3>3. Len(tasks) \in Nat /\ tasks' = tasks
      BY DEF TypeOK
    <3> QED
      BY <1>3, <3>1, <3>2, <3>3, InStateFinite DEF WorkConserving
  <2> QED
    BY <2>1, <2>2
<1> QED
  BY <1>1, <1>4, <1>5, <1>6

\* A thread sleeps or returns only when nothing is queued.
LEMMA RestIInv ==
    ASSUME IInv, NEW w \in Workers, Wait(w) \/ Return(w)
    PROVE  IInv'
<1> USE DEF IInv, Wait, Return
<1>1. TypeOK'
  BY DEF TypeOK, WorkerStates
<1>2. /\ Queued' = Queued /\ InState("running")' = InState("running") /\ Running' = Running
      /\ \A v \in InState("running") : running'[v] = running[v]
  BY DEF TypeOK, Queued, InState, Running
<1>3. Accounted' /\ RunsOnce'
  BY <1>2 DEF Accounted, Submitted, RunsOnce
<1>4. WorkConserving'
  <2>1. Len(tasks') = 0 /\ Cardinality(notifying') \in Nat
    BY FS_CardinalityType DEF Accounted
  <2>2. Cardinality(InState("checking")') \in Nat
    BY WorkersAssumption, FS_Subset, FS_CardinalityType DEF InState
  <2> QED
    BY <2>1, <2>2 DEF WorkConserving
<1> QED
  BY <1>1, <1>3, <1>4

LEMMA SpuriousIInv ==
    ASSUME IInv, NEW w \in Workers, SpuriousWakeup(w)
    PROVE  IInv'
<1> USE DEF IInv, SpuriousWakeup
<1>1. TypeOK'
  BY DEF TypeOK, WorkerStates
<1>2. /\ Queued' = Queued /\ InState("running")' = InState("running") /\ Running' = Running
      /\ \A v \in InState("running") : running'[v] = running[v]
      /\ InState("waiting") # {}
  BY DEF TypeOK, Queued, InState, Running
<1>3. Accounted' /\ RunsOnce'
  BY <1>2 DEF Accounted, Submitted, RunsOnce
<1>4. WorkConserving'
  <2>1. Cardinality(InState("checking")') = Cardinality(InState("checking")) + 1
    BY OneMoreAwake
  <2>2. Len(tasks) \in Nat /\ Cardinality(notifying) \in Nat
    BY FS_CardinalityType DEF TypeOK, Accounted
  <2> QED
    BY <1>2, <2>1, <2>2, InStateFinite DEF WorkConserving
<1> QED
  BY <1>1, <1>3, <1>4

\* The front task moves from the queue to the thread, in one step.
LEMMA TakeIInv ==
    ASSUME IInv, NEW w \in Workers, Take(w)
    PROVE  IInv'
<1> USE DEF IInv, Take
<1>1. /\ tasks \in Seq(Tasks) /\ Len(tasks) \in Nat \ {0} /\ Head(tasks) = tasks[1]
      /\ tasks' \in Seq(Tasks) /\ Len(tasks') = Len(tasks) - 1
      /\ \A i \in 1..Len(tasks') : tasks'[i] = tasks[i + 1]
      /\ tasks[1] \in Tasks
  BY DEF TypeOK
<1>2. TypeOK'
  BY <1>1 DEF TypeOK, WorkerStates
<1>3. /\ InState("running")' = InState("running") \cup {w} /\ w \notin InState("running")
      /\ running'[w] = tasks[1] /\ \A v \in InState("running") : running'[v] = running[v]
  BY <1>1 DEF TypeOK, InState
<1>4. Running' = Running \cup {tasks[1]}
  BY <1>3 DEF Running
<1>5. Queued' = Queued \ {tasks[1]} /\ tasks[1] \in Queued
  <2>1. \A i \in 1..Len(tasks) : i # 1 => i - 1 \in 1..Len(tasks') /\ tasks'[i - 1] = tasks[i]
    BY <1>1
  <2>2. \A i \in 1..Len(tasks') : i + 1 \in 1..Len(tasks) /\ tasks'[i] = tasks[i + 1]
                                  /\ tasks[i + 1] # tasks[1]
    BY <1>1 DEF RunsOnce
  <2>3. 1 \in 1..Len(tasks)
    BY <1>1
  <2>4. Queued' \subseteq Queued \ {tasks[1]}
    BY <2>2 DEF Queued
  <2>5. Queued \ {tasks[1]} \subseteq Queued'
    <3> SUFFICES ASSUME NEW i \in 1..Len(tasks), tasks[i] # tasks[1]
                 PROVE  tasks[i] \in Queued'
      BY DEF Queued
    <3> QED
      BY <2>1 DEF Queued
  <2> QED
    BY <2>3, <2>4, <2>5 DEF Queued
<1>6. Accounted'
  BY <1>1, <1>3, <1>4, <1>5 DEF Accounted, Submitted
<1>7. RunsOnce'
  <2>1. \A i, j \in 1..Len(tasks') : tasks'[i] = tasks'[j] => i = j
    BY <1>1 DEF RunsOnce
  <2>2. \A v \in InState("running") : running[v] # tasks[1]
    BY <1>5 DEF RunsOnce, Running
  <2>3. \A u, v \in InState("running")' : running'[u] = running'[v] => u = v
    BY <1>3, <2>2 DEF RunsOnce
  <2> QED
    BY <1>4, <1>5, <2>1, <2>3 DEF RunsOnce
<1>8. WorkConserving'
  <2>1. Cardinality(InState("checking")') = Cardinality(InState("checking")) - 1
    BY OneLessAwake DEF WorkerStates
  <2>2. InState("waiting")' = InState("waiting")
    BY DEF TypeOK, InState
  <2>3. Cardinality(notifying) \in Nat
    BY FS_CardinalityType DEF Accounted
  <2> QED
    BY <1>1, <2>1, <2>2, <2>3, InStateFinite DEF WorkConserving
<1> QED
  BY <1>2, <1>6, <1>7, <1>8

LEMMA FinishIInv ==
    ASSUME IInv, NEW w \in Workers, Finish(w)
    PROVE  IInv'
<1> USE DEF IInv, Finish
<1>1. w \in InState("running") /\ running[w] \in Tasks
  BY DEF Accounted, InState
<1>2. TypeOK'
  BY <1>1 DEF TypeOK, WorkerStates
<1>3. /\ InState("running")' = InState("running") \ {w} /\ Queued' = Queued
      /\ InState("waiting")' = InState("waiting")
      /\ \A v \in InState("running")' : running'[v] = running[v]
  BY DEF TypeOK, InState, Queued
<1>4. Running' = Running \ {running[w]} /\ running[w] \in Running
  BY <1>1, <1>3 DEF Running, RunsOnce
<1>5. Accounted'
  BY <1>3, <1>4 DEF Accounted, Submitted
<1>6. RunsOnce'
  BY <1>3, <1>4 DEF RunsOnce
<1>7. WorkConserving'
  <2>1. Cardinality(InState("checking")') = Cardinality(InState("checking")) + 1
    BY OneMoreAwake
  <2>2. Len(tasks) \in Nat /\ Cardinality(notifying) \in Nat
    BY FS_CardinalityType DEF TypeOK, Accounted
  <2> QED
    BY <1>3, <2>1, <2>2, InStateFinite DEF WorkConserving
<1> QED
  BY <1>2, <1>5, <1>6, <1>7

\* The destructor: notify_all() leaves nobody asleep.
LEMMA OwnerIInv ==
    ASSUME IInv, Stop \/ NotifyAll \/ Join \/ UNCHANGED vars
    PROVE  IInv'
<1> USE DEF IInv
<1>1. CASE UNCHANGED <<tasks, worker, running, notifying, finished>> /\ TypeOK'
  <2>1. /\ InState("running")' = InState("running") /\ InState("waiting")' = InState("waiting")
        /\ InState("checking")' = InState("checking") /\ Queued' = Queued
    BY <1>1 DEF InState, Queued
  <2>2. Running' = Running
    BY <1>1, <2>1 DEF Running
  <2> QED
    BY <1>1, <2>1, <2>2 DEF Accounted, Submitted, RunsOnce, WorkConserving
<1>2. CASE NotifyAll
  <2> USE <1>2 DEF NotifyAll
  <2>1. TypeOK'
    BY DEF TypeOK, WorkerStates, OwnerStates
  <2>2. InState("running")' = InState("running") /\ InState("waiting")' = {} /\ Queued' = Queued
        /\ Running' = Running
    BY DEF TypeOK, InState, Queued, Running
  <2> QED
    BY <2>1, <2>2 DEF Accounted, Submitted, RunsOnce, WorkConserving
<1>3. CASE Stop \/ Join
  BY <1>1, <1>3 DEF Stop, Join, TypeOK, OwnerStates
<1>4. CASE UNCHANGED vars
  BY <1>1, <1>4 DEF vars, TypeOK
<1> QED
  BY <1>2, <1>3, <1>4

LEMMA NextIInv == IInv /\ [Next]_vars => IInv'
<1> SUFFICES ASSUME IInv, [Next]_vars
             PROVE  IInv'
  OBVIOUS
<1>1. ASSUME NEW t \in Tasks, Submit(t) \/ NotifyOne(t)
      PROVE  IInv'
  BY <1>1, SubmitIInv, NotifyOneIInv
<1>2. ASSUME NEW w \in Workers, WorkerStep(w) \/ SpuriousWakeup(w)
      PROVE  IInv'
  BY <1>2, RestIInv, TakeIInv, FinishIInv, SpuriousIInv DEF WorkerStep
<1>3. CASE Stop \/ NotifyAll \/ Join \/ Terminated \/ UNCHANGED vars
  BY <1>3, OwnerIInv DEF Terminated
<1> QED
  BY <1>1, <1>2, <1>3 DEF Next

LEMMA Invariance == Spec => []IInv
BY InitIInv, NextIInv, PTL DEF Spec

\* Every variable keeps its type; in particular a thread that runs a task has one.
THEOREM TypeCorrect == Spec => []TypeOK
<1>1. IInv => TypeOK
  BY DEF IInv
<1> QED
  BY Invariance, <1>1, PTL

\* Whatever the number of threads, each task handed to submit() is executed by
\* one thread and once: the queue, the running tasks and the finished ones are
\* disjoint, and none holds a task twice.
THEOREM TaskRunsOnce == Spec => []RunsOnce
<1>1. IInv => RunsOnce
  BY DEF IInv
<1> QED
  BY Invariance, <1>1, PTL

\* No wakeup is lost although submit() notifies after the unlock.
THEOREM NoLostWakeup == Spec => []WorkConserving
<1>1. IInv => WorkConserving
  BY DEF IInv
<1> QED
  BY Invariance, <1>1, PTL

(***************************************************************************)
(* The worklist of invalidateLocked().                                     *)
(***************************************************************************)
\* What is visited has its dependents visited or waiting; the stack is the
\* frontier of the closure computed so far.
Frontier ==
    /\ root \in visited \cup OnStack
    /\ \A v \in visited : rdeps[v] \subseteq visited \cup OnStack
    /\ evicted = visited

LoopIInv == LoopTypeOK /\ Frontier /\ OnlyDependents /\ NoneForgotten

\* The value of NoneForgotten's count.
Namers(m) == {v \in visited : m \in rdeps[v]}

LEMMA DependentsClosed ==
    ASSUME LoopTypeOK
    PROVE  /\ root \in Dependents
           /\ \A v \in Dependents : rdeps[v] \subseteq Dependents
<1>1. root \in Dependents
  BY DEF LoopTypeOK, Dependents
<1>2. ASSUME NEW v \in Dependents, NEW q \in rdeps[v]
      PROVE  q \in Dependents
  <2>1. v \in Modules /\ q \in Modules
    BY DEF LoopTypeOK, Dependents
  <2>2. SUFFICES ASSUME NEW S \in SUBSET Modules, root \in S, Closed(S)
                 PROVE  q \in S
    BY <2>1 DEF Dependents
  <2>3. v \in S
    BY <2>2 DEF Dependents
  <2> QED
    BY <2>2, <2>3 DEF Closed
<1> QED
  BY <1>1, <1>2

LEMMA LoopInitIInv == LoopInit => LoopIInv
<1> SUFFICES ASSUME LoopInit
             PROVE  LoopIInv
  OBVIOUS
<1>1. LoopTypeOK /\ OnStack = {root}
  BY DEF LoopInit, LoopTypeOK, OnStack
<1>2. root \in Dependents
  BY <1>1, DependentsClosed
<1>3. \A m \in Modules : bumps[m] = Cardinality({v \in visited : m \in rdeps[v]})
  <2>1. \A m \in Modules : {v \in visited : m \in rdeps[v]} = {}
    BY DEF LoopInit
  <2> QED
    BY <2>1, FS_EmptySet DEF LoopInit
<1> QED
  BY <1>1, <1>2, <1>3 DEF LoopInit, LoopIInv, Frontier, OnlyDependents, NoneForgotten

\* The stack after a step.
LEMMA SkipStack ==
    ASSUME LoopTypeOK, NEW m \in Modules, Skip(m)
    PROVE  /\ pending' \in [Modules -> Nat]
           /\ OnStack' \subseteq OnStack
           /\ OnStack \subseteq OnStack' \cup {m}
  BY DEF LoopTypeOK, Skip, Popped, OnStack

LEMMA VisitStack ==
    ASSUME LoopTypeOK, NEW m \in Modules, Visit(m)
    PROVE  /\ pending' \in [Modules -> Nat]
           /\ OnStack' \subseteq OnStack \cup rdeps[m]
           /\ OnStack \cup rdeps[m] \subseteq OnStack' \cup {m}
           /\ rdeps[m] \subseteq OnStack'
<1>1. m \in Modules /\ pending[m] \in Nat /\ pending[m] > 0
  BY DEF LoopTypeOK, Visit, OnStack
<1>2. \A d \in Modules : pending'[d] =
         pending[d] - (IF d = m THEN 1 ELSE 0) + (IF d \in rdeps[m] THEN 1 ELSE 0)
  BY <1>1 DEF LoopTypeOK, Visit, Popped
<1>3. pending' \in [Modules -> Nat]
  BY <1>1, <1>2 DEF LoopTypeOK, Visit
<1>4. rdeps[m] \subseteq Modules
  BY DEF LoopTypeOK
<1>5. \A d \in Modules : pending[d] \in Nat
  BY DEF LoopTypeOK
<1> QED
  BY <1>1, <1>2, <1>3, <1>4, <1>5 DEF OnStack

LEMMA SkipKeeps ==
    ASSUME LoopIInv, NEW m \in Modules, Skip(m)
    PROVE  LoopIInv'
<1>1. UNCHANGED <<root, rdeps, visited, bumps, evicted, Dependents>> /\ m \in visited
  BY DEF Skip, Dependents, Closed
<1>2. LoopTypeOK'
  BY <1>1, SkipStack DEF LoopIInv, LoopTypeOK
<1>3. visited \cup OnStack' = visited \cup OnStack
  BY <1>1, SkipStack DEF LoopIInv
<1>4. Frontier'
  BY <1>1, <1>3 DEF LoopIInv, Frontier
<1>5. OnlyDependents'
  BY <1>1, <1>3 DEF LoopIInv, OnlyDependents
<1>6. NoneForgotten'
  BY <1>1, <1>3 DEF LoopIInv, NoneForgotten, Frontier
<1> QED
  BY <1>2, <1>4, <1>5, <1>6 DEF LoopIInv

LEMMA VisitKeeps ==
    ASSUME LoopIInv, NEW m \in Modules, Visit(m)
    PROVE  LoopIInv'
<1>1. /\ UNCHANGED <<root, rdeps, Dependents>>
      /\ visited' = visited \cup {m}
      /\ evicted' = evicted \cup {m}
      /\ m \notin visited
      /\ m \in OnStack
      /\ rdeps[m] \subseteq Modules
      /\ \A d \in Modules :
            bumps'[d] = IF d \in rdeps[m] THEN bumps[d] + 1 ELSE bumps[d]
  BY DEF Visit, Dependents, Closed, LoopIInv, LoopTypeOK
<1>2. LoopTypeOK'
  <2>1. bumps' \in [Modules -> Nat]
    BY DEF LoopIInv, LoopTypeOK, Visit
  <2> QED
    BY <1>1, <2>1, VisitStack DEF LoopIInv, LoopTypeOK
<1>3. visited' \cup OnStack' = visited \cup OnStack \cup rdeps[m]
  BY <1>1, VisitStack DEF LoopIInv
<1>4. Frontier'
  BY <1>1, <1>3 DEF LoopIInv, Frontier
<1>5. m \in Dependents /\ rdeps[m] \subseteq Dependents
  BY <1>1, DependentsClosed DEF LoopIInv, OnlyDependents
<1>6. OnlyDependents'
  BY <1>1, <1>3, <1>5 DEF LoopIInv, OnlyDependents, LoopTypeOK
<1>7. ASSUME NEW d \in Modules
      PROVE  bumps'[d] = Cardinality({v \in visited' : d \in rdeps'[v]})
  <2>1. bumps[d] = Cardinality(Namers(d)) /\ IsFiniteSet(Namers(d)) /\ m \notin Namers(d)
    <3>1. IsFiniteSet(visited)
      BY ModulesAssumption, FS_Subset DEF LoopIInv, LoopTypeOK
    <3> QED
      BY <1>1, <3>1, FS_Subset DEF LoopIInv, NoneForgotten, Namers
  <2>2. CASE d \in rdeps[m]
    <3>1. {v \in visited' : d \in rdeps'[v]} = Namers(d) \cup {m}
      BY <1>1, <2>2 DEF Namers
    <3>2. Cardinality(Namers(d) \cup {m}) = Cardinality(Namers(d)) + 1
      BY <2>1, FS_AddElement
    <3> QED
      BY <1>1, <2>1, <2>2, <3>1, <3>2
  <2>3. CASE d \notin rdeps[m]
    <3>1. {v \in visited' : d \in rdeps'[v]} = Namers(d)
      BY <1>1, <2>3 DEF Namers
    <3> QED
      BY <1>1, <2>1, <2>3, <3>1
  <2> QED
    BY <2>2, <2>3
<1>8. ASSUME NEW d \in Modules, bumps'[d] > 0
      PROVE  d \in evicted' \cup OnStack'
  <2>1. CASE d \in rdeps[m]
    BY <2>1, VisitStack DEF LoopIInv
  <2>2. CASE d \notin rdeps[m]
    <3>1. d \in evicted \cup OnStack
      BY <1>1, <1>8, <2>2 DEF LoopIInv, NoneForgotten
    <3> QED
      BY <1>1, <3>1, VisitStack DEF LoopIInv
  <2> QED
    BY <2>1, <2>2
<1> QED
  BY <1>2, <1>4, <1>6, <1>7, <1>8 DEF LoopIInv, NoneForgotten

LEMMA LoopIInvStep == LoopIInv /\ [LoopNext]_loopVars => LoopIInv'
<1> SUFFICES ASSUME LoopIInv, [LoopNext]_loopVars
             PROVE  LoopIInv'
  OBVIOUS
<1>1. CASE UNCHANGED loopVars
  BY <1>1 DEF loopVars, LoopIInv, LoopTypeOK, Frontier, OnlyDependents, NoneForgotten, OnStack,
             Dependents, Closed
<1> QED
  BY <1>1, SkipKeeps, VisitKeeps DEF LoopNext, Loop, Returned

\* Once nothing is waiting, what is visited is closed, and no closed set around
\* the root is smaller.
LEMMA LoopIInvEffect == LoopIInv => EffectAtReturn
<1> SUFFICES ASSUME LoopIInv, OnStack = {}
             PROVE  /\ visited = Dependents
                    /\ evicted = Dependents
                    /\ \A m \in Modules :
                          bumps[m] = Cardinality({v \in Dependents : m \in rdeps[v]})
  BY DEF EffectAtReturn
<1>1. Closed(visited) /\ root \in visited /\ visited \in SUBSET Modules
  BY DEF LoopIInv, LoopTypeOK, Frontier, Closed
<1>2. Dependents \subseteq visited
  BY <1>1 DEF Dependents
<1>3. visited = Dependents
  BY <1>2 DEF LoopIInv, OnlyDependents
<1> QED
  BY <1>3 DEF LoopIInv, Frontier, NoneForgotten

\* Every reachable state of the loop satisfies the inductive invariant.
THEOREM LoopInvariance == LoopSpec => []LoopIInv
  BY LoopInitIInv, LoopIInvStep, PTL DEF LoopSpec

\* Whatever the graph, and cycles included, the loop has the effect ModuleCache
\* gives the whole of invalidateLocked() as one step.
THEOREM LoopComputesDependents == LoopSpec => []EffectAtReturn
  BY LoopInvariance, LoopIInvEffect, PTL

\* No bumped dependent is left with its artifact once the loop returns.
THEOREM BumpedIsEvicted == LoopSpec => []NoneForgotten
  BY LoopInvariance, PTL DEF LoopIInv
=============================================================================
