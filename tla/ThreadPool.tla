----------------------------- MODULE ThreadPool -----------------------------
(***************************************************************************)
(* class ThreadPool: workers that wait on a condition variable for tasks,  *)
(* enqueue, and the destructor that stops and joins them.  main creates a  *)
(* pool of four and destroys it when it returns.                           *)
(*                                                                         *)
(* A critical section that nobody can be blocked in is one step.  The one  *)
(* of worker_loop is two when the predicate of cv.wait is false: it is     *)
(* evaluated with the mutex held, and then wait releases the mutex and     *)
(* blocks, both at once.  A woken worker has to get the mutex again.       *)
(*                                                                         *)
(* Tasks may be submitted by the owner of the pool, until it destroys it,  *)
(* and by tasks that run in it, also while it is being destroyed.  A task  *)
(* ends, if only by throwing a std::exception.                             *)
(***************************************************************************)
EXTENDS Sequences

CONSTANTS
  Workers,  \* the threads of the pool
  Owner,    \* the thread that created the pool
  Tasks,    \* the tasks there may be, each submitted at most once
  Submits,  \* Submits[t]: the tasks that task t may submit
  NoTask,   \* a worker's local variable task, when it holds none
  Free      \* the holder of the mutex when nobody has it

ASSUME PoolAssumption ==
  /\ Workers # {}
  /\ Owner \notin Workers
  /\ Free \notin Workers
  /\ NoTask \notin Tasks
  /\ Submits \in [Tasks -> SUBSET Tasks]

Threads == Workers \cup {Owner}

VARIABLES
  tasks,    \* ThreadPool::tasks
  stop,     \* ThreadPool::stop
  mtx,      \* the worker that holds the mutex between two steps, or Free
  pc,       \* where each thread is
  running,  \* worker_loop's local variable task
  done      \* history: the tasks that have ended

poolVars == <<tasks, stop, mtx, pc, running, done>>

(* The constructor has started the threads; each runs when it may.         *)
PoolInit ==
  /\ tasks = <<>>
  /\ stop = FALSE
  /\ mtx = Free
  /\ pc = [t \in Threads |-> IF t = Owner THEN "idle" ELSE "lock"]
  /\ running = [w \in Workers |-> NoTask]
  /\ done = {}

Known == {tasks[i] : i \in DOMAIN tasks} \cup {running[w] : w \in Workers} \cup done

Waiting == {w \in Workers : pc[w] = "wait"}

Goto(t, label) == pc' = [pc EXCEPT ![t] = label]

-----------------------------------------------------------------------------
(* worker_loop.                                                            *)

(* Mutant: cv.wait without a predicate.                                    *)
FindsNothing_Unasked(w) ==
  /\ pc[w] = "lock" /\ mtx = Free
  /\ ~stop
  /\ mtx' = w
  /\ Goto(w, "block")
  /\ UNCHANGED <<tasks, stop, running, done>>

(* The predicate of cv.wait is false; the mutex stays locked.              *)
FindsNothing(w) ==
  /\ pc[w] = "lock" /\ mtx = Free
  /\ ~stop /\ tasks = <<>>
  /\ mtx' = w
  /\ Goto(w, "block")
  /\ UNCHANGED <<tasks, stop, running, done>>

Block(w) ==
  /\ pc[w] = "block"
  /\ mtx' = Free
  /\ Goto(w, "wait")
  /\ UNCHANGED <<tasks, stop, running, done>>

(* A condition variable may wake a thread for no reason.                   *)
WakeSpuriously(w) ==
  /\ pc[w] = "wait"
  /\ Goto(w, "lock")
  /\ UNCHANGED <<tasks, stop, mtx, running, done>>

(* Mutant: a stopping pool does not look at the queue any more.            *)
Return_AtOnce(w) ==
  /\ pc[w] = "lock" /\ mtx = Free
  /\ stop
  /\ Goto(w, "returned")
  /\ UNCHANGED <<tasks, stop, mtx, running, done>>

Return(w) ==
  /\ pc[w] = "lock" /\ mtx = Free
  /\ stop /\ tasks = <<>>
  /\ Goto(w, "returned")
  /\ UNCHANGED <<tasks, stop, mtx, running, done>>

Take(w) ==
  /\ pc[w] = "lock" /\ mtx = Free
  /\ tasks # <<>>
  /\ running' = [running EXCEPT ![w] = Head(tasks)]
  /\ tasks' = Tail(tasks)
  /\ Goto(w, "run")
  /\ UNCHANGED <<stop, mtx, done>>

(* The task returns, or throws what worker_loop catches.                   *)
EndTask(w) ==
  /\ pc[w] = "run"
  /\ done' = done \cup {running[w]}
  /\ running' = [running EXCEPT ![w] = NoTask]
  /\ Goto(w, "lock")
  /\ UNCHANGED <<tasks, stop, mtx>>

-----------------------------------------------------------------------------
(* enqueue, called by thread p.                                            *)

MaySubmit(p, t) ==
  \/ p = Owner /\ pc[p] = "idle"
  \/ p \in Workers /\ pc[p] = "run" /\ t \in Submits[running[p]]

Push(p, t) ==
  /\ MaySubmit(p, t)
  /\ t \notin Known
  /\ mtx = Free
  /\ tasks' = Append(tasks, t)
  /\ Goto(p, "notify")
  /\ UNCHANGED <<stop, mtx, running, done>>

(* cv.notify_one: any one of those that wait, or nobody.                   *)
NotifyOne(p) ==
  /\ pc[p] = "notify"
  /\ LET back == [pc EXCEPT ![p] = IF p = Owner THEN "idle" ELSE "run"]
     IN  \/ Waiting = {} /\ pc' = back
         \/ \E w \in Waiting : pc' = [back EXCEPT ![w] = "lock"]
  /\ UNCHANGED <<tasks, stop, mtx, running, done>>

-----------------------------------------------------------------------------
(* The destructor.                                                         *)

(* Mutant: stop is set without the mutex.                                  *)
SetStop_Unlocked ==
  /\ pc[Owner] = "idle"
  /\ stop' = TRUE
  /\ Goto(Owner, "stopping")
  /\ UNCHANGED <<tasks, mtx, running, done>>

SetStop ==
  /\ pc[Owner] = "idle"
  /\ mtx = Free
  /\ stop' = TRUE
  /\ Goto(Owner, "stopping")
  /\ UNCHANGED <<tasks, mtx, running, done>>

NotifyAll ==
  /\ pc[Owner] = "stopping"
  /\ pc' = [t \in Threads |-> IF t = Owner THEN "join"
                              ELSE IF pc[t] = "wait" THEN "lock" ELSE pc[t]]
  /\ UNCHANGED <<tasks, stop, mtx, running, done>>

(* The last join returns.                                                  *)
Join ==
  /\ pc[Owner] = "join"
  /\ \A w \in Workers : pc[w] = "returned"
  /\ Goto(Owner, "gone")
  /\ UNCHANGED <<tasks, stop, mtx, running, done>>

(* The pool is destroyed.                                                  *)
Destroyed == pc[Owner] = "gone" /\ UNCHANGED poolVars

-----------------------------------------------------------------------------
WorkerStep(w) ==
  \/ FindsNothing(w) \/ Block(w) \/ Return(w) \/ Take(w)
  \/ EndTask(w) \/ NotifyOne(w)

OwnerStep == NotifyOne(Owner) \/ NotifyAll \/ Join

PoolNext ==
  \/ \E w \in Workers : WorkerStep(w) \/ WakeSpuriously(w)
  \/ OwnerStep
  \/ \E p \in Threads, t \in Tasks : Push(p, t)
  \/ SetStop
  \/ Destroyed

PoolSpec == PoolInit /\ [][PoolNext]_poolVars

(* Every thread is scheduled, and tasks end.  Nobody has to submit a task  *)
(* or to destroy the pool, and no thread is woken without a notification.  *)
PoolFairness ==
  /\ \A w \in Workers : WF_poolVars(WorkerStep(w))
  /\ WF_poolVars(OwnerStep)

PoolFairSpec == PoolSpec /\ PoolFairness

-----------------------------------------------------------------------------
(* Properties.                                                             *)

(* Types; in particular a worker is only ever in worker_loop or returned   *)
(* from it, and holds a task exactly while it runs one.                    *)
PoolTypeOK ==
  /\ tasks \in Seq(Tasks)
  /\ stop \in BOOLEAN
  /\ mtx \in Workers \cup {Free}
  /\ pc \in [Threads -> {"idle", "lock", "block", "wait", "run", "notify",
                         "returned", "stopping", "join", "gone"}]
  /\ running \in [Workers -> Tasks \cup {NoTask}]
  /\ done \subseteq Tasks
  /\ \A w \in Workers : running[w] # NoTask <=> pc[w] \in {"run", "notify"}

(* No wake-up is lost: while a task is queued, some worker is on its way   *)
(* to the queue or somebody is about to notify; and once stop is set,      *)
(* nobody waits whom the destructor has not yet to notify (worker_loop     *)
(* against enqueue and the destructor).                                    *)
NoLostWakeUp ==
  /\ tasks # <<>> => \/ \E w \in Workers : pc[w] \in {"lock", "run"}
                     \/ \E p \in Threads : pc[p] \in {"notify", "stopping"}
  /\ stop => pc[Owner] = "stopping" \/ Waiting = {}

Bag == INSTANCE TaskQueue WITH
  queue   <- tasks,
  running <- {running[w] : w \in Workers} \ {NoTask},
  open    <- pc[Owner] # "gone"

(* The pool runs every task once, starts them in order, and is destroyed   *)
(* only when none is queued or running, also if tasks submit tasks while   *)
(* the destructor waits.                                                   *)
ImplementsTaskQueue == Bag!QueueSpec

(* Every task that is submitted runs to its end.                           *)
EveryTaskRuns ==
  \A t \in Tasks : t \in {tasks[i] : i \in DOMAIN tasks} ~> t \in done

(* The destructor returns: no worker it joins waits for ever.              *)
DestructorEnds == pc[Owner] = "stopping" ~> pc[Owner] = "gone"
=============================================================================
