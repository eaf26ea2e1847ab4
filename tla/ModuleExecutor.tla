--------------------------- MODULE ModuleExecutor ---------------------------
(***************************************************************************)
(* The fixed-size thread pool of the frontend: zith::session::ModuleExecutor*)
(* (src/session/frontend-context.hpp, src/session/frontend-module-cache.cpp)*)
(*                                                                         *)
(* submit() appends a task under mutex_ and calls notify_one() after the   *)
(* unlock; workerLoop() waits on the condition variable with a predicate,  *)
(* takes the front task and runs it outside the lock; the destructor sets  *)
(* stopping_, wakes everybody after the unlock and joins each thread.      *)
(*                                                                         *)
(* Every critical section of mutex_ is one action.  What the code does     *)
(* outside the lock -- the two notifications, running a task, joining -- is *)
(* a separate action, so all orders of the threads are explored.           *)
(***************************************************************************)
EXTENDS Integers, FiniteSets, Sequences

CONSTANTS
    Tasks,      \* the tasks handed to submit(), each at most once
    Workers,    \* the threads of workers_
    NoTask      \* an empty std::function

\* normalizeWorkerCount() never returns zero: the pool has a thread.
ASSUME WorkersAssumption == IsFiniteSet(Workers) /\ Workers # {}
ASSUME NoTaskAssumption == NoTask \notin Tasks

VARIABLES
    tasks,      \* tasks_, the deque
    stopping,   \* stopping_
    worker,     \* where each thread stands in workerLoop()
    running,    \* the local variable task of each thread
    notifying,  \* tasks pushed by a submit() that has yet to call notify_one()
    finished,   \* tasks whose call returned
    owner       \* progress of the destructor

vars == <<tasks, stopping, worker, running, notifying, finished, owner>>

WorkerStates == {"checking", "waiting", "running", "returned"}
OwnerStates  == {"alive", "notifyAll", "joining", "destroyed"}

InState(s) == {w \in Workers : worker[w] = s}
Queued     == {tasks[i] : i \in 1..Len(tasks)}
Running    == {running[w] : w \in InState("running")}
Submitted  == Queued \cup Running \cup finished

-----------------------------------------------------------------------------
\* The constructor starts every thread; each begins by testing the predicate.
Init ==
    /\ tasks = <<>>
    /\ stopping = FALSE
    /\ worker = [w \in Workers |-> "checking"]
    /\ running = [w \in Workers |-> NoTask]
    /\ notifying = {}
    /\ finished = {}
    /\ owner = "alive"

\* Mutant of Submit: nobody is notified.
SubmitSilently(t) ==
    /\ owner = "alive" /\ t \notin Submitted
    /\ tasks' = Append(tasks, t)
    /\ UNCHANGED <<stopping, worker, running, notifying, finished, owner>>

\* submit(): the critical section.  The owner does not destroy the pool while a
\* call to submit() is in progress, nor does anyone submit afterwards.
Submit(t) ==
    /\ owner = "alive"
    /\ t \notin Submitted
    /\ tasks' = Append(tasks, t)
    /\ notifying' = notifying \cup {t}
    /\ UNCHANGED <<stopping, worker, running, finished, owner>>

\* submit(): condition_.notify_one() after the unlock wakes one blocked thread,
\* or nobody when none is blocked.
NotifyOne(t) ==
    /\ t \in notifying
    /\ notifying' = notifying \ {t}
    /\ \/ /\ InState("waiting") = {}
          /\ UNCHANGED worker
       \/ \E w \in InState("waiting") : worker' = [worker EXCEPT ![w] = "checking"]
    /\ UNCHANGED <<tasks, stopping, running, finished, owner>>

\* workerLoop(): the predicate is false, the thread blocks and releases mutex_.
Wait(w) ==
    /\ worker[w] = "checking"
    /\ ~stopping /\ tasks = <<>>
    /\ worker' = [worker EXCEPT ![w] = "waiting"]
    /\ UNCHANGED <<tasks, stopping, running, notifying, finished, owner>>

\* A condition variable may wake a thread nobody notified.
SpuriousWakeup(w) ==
    /\ worker[w] = "waiting"
    /\ worker' = [worker EXCEPT ![w] = "checking"]
    /\ UNCHANGED <<tasks, stopping, running, notifying, finished, owner>>

\* Mutant of Take: the task is not removed in the same critical section.
TakeWithoutPop(w) ==
    /\ worker[w] = "checking" /\ tasks # <<>>
    /\ worker' = [worker EXCEPT ![w] = "running"]
    /\ running' = [running EXCEPT ![w] = Head(tasks)]
    /\ UNCHANGED <<tasks, stopping, notifying, finished, owner>>

\* workerLoop(): take the front task, also while stopping.
Take(w) ==
    /\ worker[w] = "checking"
    /\ tasks # <<>>
    /\ worker' = [worker EXCEPT ![w] = "running"]
    /\ running' = [running EXCEPT ![w] = Head(tasks)]
    /\ tasks' = Tail(tasks)
    /\ UNCHANGED <<stopping, notifying, finished, owner>>

\* workerLoop(): task() returns and the thread loops.
Finish(w) ==
    /\ worker[w] = "running"
    /\ worker' = [worker EXCEPT ![w] = "checking"]
    /\ finished' = finished \cup {running[w]}
    /\ running' = [running EXCEPT ![w] = NoTask]
    /\ UNCHANGED <<tasks, stopping, notifying, owner>>

\* workerLoop(): stopping_ and nothing left to run.
Return(w) ==
    /\ worker[w] = "checking"
    /\ stopping /\ tasks = <<>>
    /\ worker' = [worker EXCEPT ![w] = "returned"]
    /\ UNCHANGED <<tasks, stopping, running, notifying, finished, owner>>

\* ~ModuleExecutor(): the critical section.
Stop ==
    /\ owner = "alive"
    /\ notifying = {}
    /\ stopping' = TRUE
    /\ owner' = "notifyAll"
    /\ UNCHANGED <<tasks, worker, running, notifying, finished>>

\* Mutant of NotifyAll: notify_one().
NotifyAllOnce ==
    /\ owner = "notifyAll"
    /\ \/ InState("waiting") = {} /\ UNCHANGED worker
       \/ \E w \in InState("waiting") : worker' = [worker EXCEPT ![w] = "checking"]
    /\ owner' = "joining"
    /\ UNCHANGED <<tasks, stopping, running, notifying, finished>>

\* ~ModuleExecutor(): condition_.notify_all().
NotifyAll ==
    /\ owner = "notifyAll"
    /\ worker' = [w \in Workers |-> IF worker[w] = "waiting" THEN "checking" ELSE worker[w]]
    /\ owner' = "joining"
    /\ UNCHANGED <<tasks, stopping, running, notifying, finished>>

\* ~ModuleExecutor(): every join() has returned.
Join ==
    /\ owner = "joining"
    /\ InState("returned") = Workers
    /\ owner' = "destroyed"
    /\ UNCHANGED <<tasks, stopping, worker, running, notifying, finished>>

\* The pool is gone; nothing is left to happen.
Terminated == owner = "destroyed" /\ UNCHANGED vars

WorkerStep(w) == Wait(w) \/ Take(w) \/ Finish(w) \/ Return(w)

Next ==
    \/ \E t \in Tasks : Submit(t) \/ NotifyOne(t)
    \/ \E w \in Workers : WorkerStep(w) \/ SpuriousWakeup(w)
    \/ Stop \/ NotifyAll \/ Join \/ Terminated

Spec == Init /\ [][Next]_vars

\* Threads are scheduled, tasks return, and a thread inside submit() or inside
\* the destructor goes on.  Nothing obliges anybody to submit, to destroy the
\* pool, or the condition variable to wake a thread spuriously.
Fairness ==
    /\ \A w \in Workers : WF_vars(WorkerStep(w))
    /\ \A t \in Tasks : WF_vars(NotifyOne(t))
    /\ WF_vars(NotifyAll) /\ WF_vars(Join)

FairSpec == Spec /\ Fairness

-----------------------------------------------------------------------------
TypeOK ==
    /\ tasks \in Seq(Tasks)
    /\ stopping \in BOOLEAN
    /\ worker \in [Workers -> WorkerStates]
    /\ running \in [Workers -> Tasks \cup {NoTask}]
    /\ notifying \subseteq Tasks
    /\ finished \subseteq Tasks
    /\ owner \in OwnerStates

\* A task is executed once: it is queued at one place, or executed by one
\* thread, or done, and never two of these (push under the lock, take and pop
\* in one critical section).
RunsOnce ==
    /\ \A i, j \in 1..Len(tasks) : tasks[i] = tasks[j] => i = j
    /\ \A v, w \in InState("running") : running[v] = running[w] => v = w
    /\ Queued \cap Running = {}
    /\ (Queued \cup Running) \cap finished = {}

\* No lost wakeup, although notify_one() is called after the unlock: threads
\* sleep next to queued tasks only as long as enough threads are awake, or
\* enough notifications still to come, to take every queued task.
WorkConserving ==
    \/ InState("waiting") = {}
    \/ Len(tasks) <= Cardinality(InState("checking")) + Cardinality(notifying)

\* Every accepted task is eventually executed.
SubmittedRuns == \A t \in Tasks : t \in Queued ~> t \in finished

\* The destructor terminates.
DestructorReturns == stopping ~> owner = "destroyed"
=============================================================================
