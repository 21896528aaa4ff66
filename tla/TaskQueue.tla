------------------------------ MODULE TaskQueue ------------------------------
(***************************************************************************)
(* What a thread pool promises to those who submit tasks: tasks start in   *)
(* the order they were submitted, each runs once, and the pool closes only *)
(* when nothing is waiting or running.                                     *)
(***************************************************************************)
EXTENDS Sequences

CONSTANT Tasks  \* each submission of a function is a task of its own

VARIABLES
  queue,    \* submitted, not started
  running,  \* started, not finished
  done,     \* finished
  open      \* the pool takes tasks

queueVars == <<queue, running, done, open>>

Queued == {queue[i] : i \in DOMAIN queue}

QueueInit ==
  /\ queue = <<>>
  /\ running = {}
  /\ done = {}
  /\ open = TRUE

Submit(t) ==
  /\ open
  /\ t \notin Queued \cup running \cup done
  /\ queue' = Append(queue, t)
  /\ UNCHANGED <<running, done, open>>

Start ==
  /\ queue # <<>>
  /\ queue' = Tail(queue)
  /\ running' = running \cup {Head(queue)}
  /\ UNCHANGED <<done, open>>

Finish(t) ==
  /\ t \in running
  /\ running' = running \ {t}
  /\ done' = done \cup {t}
  /\ UNCHANGED <<queue, open>>

Close ==
  /\ open
  /\ queue = <<>>
  /\ running = {}
  /\ open' = FALSE
  /\ UNCHANGED <<queue, running, done>>

QueueNext == Start \/ Close \/ \E t \in Tasks : Submit(t) \/ Finish(t)

QueueSpec == QueueInit /\ [][QueueNext]_queueVars
==============================================================================
