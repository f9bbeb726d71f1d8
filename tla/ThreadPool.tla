----------------------------- MODULE ThreadPool -----------------------------
(***************************************************************************)
(* ThreadPool of cache/src/threadPool.hpp: a queue of tasks, and workers   *)
(* that wait for one on a condition variable.  Each step is one critical   *)
(* section of the pool's mutex.  What a task does is for the module that   *)
(* extends this one to say; so is the future it fulfils.  The destructor   *)
(* is left out: the pool of a cache server lives as long as the process.   *)
(***************************************************************************)
EXTENDS Naturals, Sequences, FiniteSets

CONSTANTS
    Worker,
    Asleep,  \* a worker inside __cv.wait
    Awake,   \* a worker about to take the mutex and test the predicate
    After    \* a worker that has run its task and not yet counted it off

ASSUME PoolAssumption ==
    /\ IsFiniteSet(Worker)
    /\ Asleep # Awake /\ Asleep # After /\ Awake # After

VARIABLES
    tasks,
    worker,            \* Asleep, Awake, After, or where it is in its task
    numActiveThreads

pool == <<tasks, worker, numActiveThreads>>

PoolInit ==
    /\ tasks = <<>>
    /\ worker = [w \in Worker |-> Awake]
    /\ numActiveThreads = 0

Sleepers == {w \in Worker : worker[w] = Asleep}

\* A plausible bug: nobody is notified.
EnqueueQuietly(task) == tasks' = Append(tasks, task) /\ UNCHANGED worker

\* enqueue(): notify_one wakes one of the workers that wait, if there is one.
Enqueue(task) ==
    /\ tasks' = Append(tasks, task)
    /\ \/ Sleepers = {} /\ UNCHANGED worker
       \/ \E w \in Sleepers : worker' = [worker EXCEPT ![w] = Awake]

\* The predicate is false: the worker waits.
Sleep(w) ==
    /\ worker[w] = Awake /\ tasks = <<>>
    /\ worker' = [worker EXCEPT ![w] = Asleep]
    /\ UNCHANGED <<tasks, numActiveThreads>>

\* A condition variable may wake a worker for no reason.
WakeUp(w) ==
    /\ worker[w] = Asleep
    /\ worker' = [worker EXCEPT ![w] = Awake]
    /\ UNCHANGED <<tasks, numActiveThreads>>

\* The worker takes the oldest task and stands at the first of its steps.
Take(w, first) ==
    /\ worker[w] = Awake /\ tasks # <<>>
    /\ worker' = [worker EXCEPT ![w] = first]
    /\ tasks' = Tail(tasks)
    /\ numActiveThreads' = numActiveThreads + 1

\* A plausible bug: the counter is left as it is.
after_task_hookNot(w) ==
    /\ worker[w] = After
    /\ worker' = [worker EXCEPT ![w] = Awake]
    /\ UNCHANGED <<tasks, numActiveThreads>>

after_task_hook(w) ==
    /\ worker[w] = After
    /\ worker' = [worker EXCEPT ![w] = Awake]
    /\ numActiveThreads' = numActiveThreads - 1
    /\ UNCHANGED tasks
=============================================================================
