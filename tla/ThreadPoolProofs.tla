-------------------------- MODULE ThreadPoolProofs --------------------------
(***************************************************************************)
(* The thread pool loses no wake-up and implements TaskQueue, for any      *)
(* number of workers and tasks.                                            *)
(*                                                                         *)
(* The argument has two halves.  Control: where the threads are, what the  *)
(* mutex protects (HeldWhileBlocking: between the false predicate and the  *)
(* block nothing is queued and stop is not set), and that somebody is left *)
(* to take what is queued (SomebodyLeft: a worker returns from an empty    *)
(* queue, and later tasks come from tasks that run).  Data: no task is in  *)
(* two places (Once).                                                      *)
(***************************************************************************)
EXTENDS ThreadPool, SequenceTheorems, TLAPS

InQueue == {tasks[i] : i \in DOMAIN tasks}
Running == {running[w] : w \in Workers} \ {NoTask}

(* Workers are in worker_loop, the owner is not; stop tells where he is.   *)
Places ==
  /\ \A w \in Workers :
       pc[w] \in {"lock", "block", "wait", "run", "notify", "returned"}
  /\ pc[Owner] \in {"idle", "notify", "stopping", "join", "gone"}
  /\ stop <=> pc[Owner] \in {"stopping", "join", "gone"}
  /\ \A w \in Workers : pc[w] = "returned" => stop

HeldWhileBlocking ==
  \A w \in Workers : /\ pc[w] = "block" <=> mtx = w
                     /\ pc[w] = "block" => tasks = <<>> /\ ~stop

SomebodyLeft == tasks # <<>> => \E w \in Workers : pc[w] # "returned"

GoneIsOver ==
  pc[Owner] = "gone" => tasks = <<>> /\ \A w \in Workers : pc[w] = "returned"

Control ==
  /\ PoolTypeOK
  /\ Places
  /\ HeldWhileBlocking
  /\ SomebodyLeft
  /\ GoneIsOver
  /\ NoLostWakeUp

(* No task is queued twice, held by two workers, or in two places.         *)
Once ==
  /\ \A i, j \in DOMAIN tasks : tasks[i] = tasks[j] => i = j
  /\ \A v, w \in Workers : running[v] = running[w] /\ running[v] # NoTask => v = w
  /\ InQueue \cap Running = {}
  /\ InQueue \cap done = {}
  /\ Running \cap done = {}

PoolInv == Control /\ Once

-----------------------------------------------------------------------------
(* Sequences.                                                              *)

(* What is left in a queue after its first task is taken.                  *)
LEMMA TailFacts ==
  ASSUME NEW S, NEW s \in Seq(S), s # <<>>
  PROVE  /\ Tail(s) \in Seq(S) /\ Head(s) \in S
         /\ DOMAIN s = 1..Len(s) /\ Len(s) \in Nat \ {0}
         /\ DOMAIN Tail(s) = 1..(Len(s) - 1)
         /\ Head(s) = s[1]
         /\ \A i \in 1..(Len(s) - 1) : Tail(s)[i] = s[i + 1]
<1>1. /\ Tail(s) \in Seq(S) /\ Head(s) \in S /\ Len(Tail(s)) = Len(s) - 1
      /\ \A i \in 1..Len(Tail(s)) : Tail(s)[i] = s[i + 1]
  BY HeadTailProperties
<1>2. DOMAIN s = 1..Len(s) /\ DOMAIN Tail(s) = 1..Len(Tail(s))
  BY <1>1, LenProperties
<1>3. Len(s) \in Nat \ {0}
  BY EmptySeq
<1>4. Head(s) = s[1]
  BY <1>3
<1> QED
  BY <1>1, <1>2, <1>3, <1>4

(* What is in a queue after a task is added.                               *)
LEMMA AppendFacts ==
  ASSUME NEW S, NEW s \in Seq(S), NEW t \in S
  PROVE  /\ Append(s, t) \in Seq(S) /\ Append(s, t) # <<>>
         /\ Len(s) \in Nat
         /\ DOMAIN s = 1..Len(s)
         /\ DOMAIN Append(s, t) = 1..(Len(s) + 1)
         /\ Append(s, t)[Len(s) + 1] = t
         /\ \A i \in 1..Len(s) : Append(s, t)[i] = s[i]
OBVIOUS

(* Taking the first of different tasks removes just that one.              *)
LEMMA TailRange ==
  ASSUME NEW S, NEW s \in Seq(S), s # <<>>,
         \A i, j \in DOMAIN s : s[i] = s[j] => i = j
  PROVE  /\ \A i, j \in DOMAIN Tail(s) : Tail(s)[i] = Tail(s)[j] => i = j
         /\ {Tail(s)[i] : i \in DOMAIN Tail(s)} = {s[i] : i \in DOMAIN s} \ {Head(s)}
         /\ Head(s) \in {s[i] : i \in DOMAIN s}
<1> DEFINE r == Tail(s)
           n == Len(s)
<1>1. /\ DOMAIN s = 1..n /\ n \in Nat \ {0} /\ DOMAIN r = 1..(n - 1)
      /\ Head(s) = s[1] /\ \A i \in 1..(n - 1) : r[i] = s[i + 1]
  BY TailFacts
<1> HIDE DEF r, n
<1>2. \A i, j \in DOMAIN r : r[i] = r[j] => i = j
  BY <1>1
<1>3. ASSUME NEW i \in DOMAIN r
      PROVE  r[i] \in {s[j] : j \in DOMAIN s} \ {Head(s)}
  <2>1. r[i] = s[i + 1] /\ i + 1 \in DOMAIN s /\ i + 1 # 1 /\ 1 \in DOMAIN s
    BY <1>1
  <2> QED
    BY <1>1, <2>1
<1>4. ASSUME NEW j \in DOMAIN s, s[j] # Head(s)
      PROVE  s[j] \in {r[i] : i \in DOMAIN r}
  <2>1. j - 1 \in DOMAIN r /\ r[j - 1] = s[j]
    BY <1>1, <1>4
  <2> QED
    BY <2>1
<1>5. Head(s) \in {s[i] : i \in DOMAIN s}
  BY <1>1
<1>6. {r[i] : i \in DOMAIN r} = {s[i] : i \in DOMAIN s} \ {Head(s)}
  BY <1>3, <1>4
<1> QED
  BY <1>2, <1>5, <1>6 DEF r

(* Adding a new task adds just that one.                                   *)
LEMMA AppendRange ==
  ASSUME NEW S, NEW s \in Seq(S), NEW t \in S, t \notin {s[i] : i \in DOMAIN s},
         \A i, j \in DOMAIN s : s[i] = s[j] => i = j
  PROVE  /\ \A i, j \in DOMAIN Append(s, t) :
              Append(s, t)[i] = Append(s, t)[j] => i = j
         /\ {Append(s, t)[i] : i \in DOMAIN Append(s, t)}
              = {s[i] : i \in DOMAIN s} \cup {t}
<1> DEFINE r == Append(s, t)
           n == Len(s)
<1>1. /\ DOMAIN s = 1..n /\ n \in Nat /\ DOMAIN r = 1..(n + 1)
      /\ r[n + 1] = t /\ \A i \in 1..n : r[i] = s[i]
  BY AppendFacts
<1> HIDE DEF r, n
<1>2. \A i \in DOMAIN r : i \in DOMAIN s \/ i = n + 1
  BY <1>1
<1>3. \A i \in DOMAIN s : i \in DOMAIN r /\ r[i] = s[i] /\ r[i] # t
  BY <1>1
<1>4. n + 1 \in DOMAIN r /\ r[n + 1] = t
  BY <1>1
<1>5. \A i, j \in DOMAIN r : r[i] = r[j] => i = j
  BY <1>2, <1>3, <1>4
<1>6. {r[i] : i \in DOMAIN r} = {s[i] : i \in DOMAIN s} \cup {t}
  BY <1>2, <1>3, <1>4
<1> QED
  BY <1>5, <1>6 DEF r

-----------------------------------------------------------------------------
(* Control.                                                                *)

(* NoLostWakeUp, part by part.                                             *)
SomebodyComes ==
  tasks # <<>> => \/ \E w \in Workers : pc[w] \in {"lock", "run"}
                  \/ \E p \in Threads : pc[p] \in {"notify", "stopping"}

StopIsHeard == stop => pc[Owner] = "stopping" \/ Waiting = {}

(* A worker that changes its place, not to "block" nor back from having    *)
(* returned, disturbs nothing if it is on its way or the queue is empty.   *)
LEMMA MovingKeepsControl ==
  ASSUME Control, NEW w \in Workers, NEW label \in {"lock", "run", "notify"},
         pc' = [pc EXCEPT ![w] = label],
         pc[w] \notin {"block", "returned"},
         UNCHANGED <<stop, mtx>>,
         tasks' \in Seq(Tasks), tasks' # tasks => mtx = Free,
         tasks' # <<>> /\ tasks = <<>> => label = "notify",
         running' \in [Workers -> Tasks \cup {NoTask}], done' \subseteq Tasks,
         \A v \in Workers : v # w => running'[v] = running[v],
         running'[w] # NoTask <=> label \in {"run", "notify"}
  PROVE  Control'
<1> USE PoolAssumption DEF Control
<1>1. pc'[w] = label /\ \A t \in Threads : t # w => pc'[t] = pc[t]
  BY DEF PoolTypeOK, Threads
<1>2. w # Owner /\ Owner \in Threads /\ w \in Threads
  BY DEF Threads
<1>3. PoolTypeOK'
  BY <1>1 DEF PoolTypeOK, Threads
<1>4. Places'
  BY <1>1, <1>2 DEF Places, Threads
<1>5. HeldWhileBlocking'
  BY <1>1, <1>2 DEF HeldWhileBlocking, Threads
<1>6. SomebodyLeft'
  BY <1>1 DEF SomebodyLeft
<1>7. GoneIsOver'
  BY <1>1, <1>2 DEF GoneIsOver
<1>8. SomebodyComes'
  BY <1>1, <1>2 DEF SomebodyComes
<1>9. StopIsHeard'
  BY <1>1, <1>2 DEF StopIsHeard, NoLostWakeUp, Waiting, Threads
<1> QED
  BY <1>3, <1>4, <1>5, <1>6, <1>7, <1>8, <1>9 DEF NoLostWakeUp, SomebodyComes, StopIsHeard

(* Waking some of those that wait, by thread p, whose next place is label. *)
LEMMA WakingKeepsControl ==
  ASSUME Control, NEW p \in Threads, NEW label, NEW S \in SUBSET Waiting,
         pc' = [t \in Threads |-> IF t = p THEN label
                                  ELSE IF t \in S THEN "lock" ELSE pc[t]],
         UNCHANGED <<tasks, stop, mtx, running, done>>,
         \/ p \in Workers /\ pc[p] = "notify" /\ label = "run"
         \/ p = Owner /\ pc[p] = "notify" /\ label = "idle"
         \/ p = Owner /\ pc[p] = "stopping" /\ label = "join" /\ S = Waiting,
         S = {} => Waiting = {}
  PROVE  Control'
<1> USE PoolAssumption DEF Control
<1>1. /\ pc'[p] = label
      /\ \A t \in S : pc'[t] = "lock" /\ pc[t] = "wait" /\ t \in Workers /\ t # p
      /\ \A t \in Threads : t # p /\ t \notin S => pc'[t] = pc[t]
  BY DEF Waiting, Threads
<1>2. Owner \in Threads /\ \A w \in Workers : w \in Threads /\ w # Owner
  BY DEF Threads
<1>3. PoolTypeOK'
  <2>1. pc' \in [Threads -> {"idle", "lock", "block", "wait", "run", "notify",
                            "returned", "stopping", "join", "gone"}]
    BY DEF PoolTypeOK, Threads
  <2>2. \A w \in Workers : pc'[w] \in {"run", "notify"} <=> pc[w] \in {"run", "notify"}
    BY <1>1, <1>2
  <2> QED
    BY <2>1, <2>2 DEF PoolTypeOK
<1>4. Places'
  <2>1. \A w \in Workers :
          /\ pc'[w] \in {"lock", "block", "wait", "run", "notify", "returned"}
          /\ pc'[w] = "returned" => pc[w] = "returned"
    BY <1>1, <1>2 DEF Places
  <2>2. /\ pc'[Owner] \in {"idle", "notify", "stopping", "join", "gone"}
        /\ stop <=> pc'[Owner] \in {"stopping", "join", "gone"}
    BY <1>1, <1>2 DEF Places
  <2> QED
    BY <2>1, <2>2 DEF Places
<1>5. HeldWhileBlocking'
  <2>1. \A w \in Workers : pc'[w] = "block" <=> pc[w] = "block"
    BY <1>1, <1>2
  <2> QED
    BY <2>1 DEF HeldWhileBlocking
<1>6. SomebodyLeft'
  <2>1. \A w \in Workers : pc'[w] = "returned" => pc[w] = "returned"
    BY <1>1, <1>2
  <2> QED
    BY <2>1 DEF SomebodyLeft
<1>7. GoneIsOver'
  <2>1. pc'[Owner] # "gone" \/ pc[Owner] = "gone"
    BY <1>1, <1>2
  <2>2. \A w \in Workers : pc[w] = "returned" => pc'[w] = "returned"
    BY <1>1, <1>2
  <2> QED
    BY <2>1, <2>2 DEF GoneIsOver
<1>8. SomebodyComes'
  <2> SUFFICES ASSUME tasks # <<>>
               PROVE  \E w \in Workers : pc'[w] \in {"lock", "run", "notify"}
    BY <1>2 DEF SomebodyComes
  <2>1. CASE S # {}
    BY <1>1, <2>1
  <2>2. CASE S = {} /\ p \in Workers
    BY <1>1, <2>2
  <2>3. CASE S = {} /\ p = Owner
    <3>1. PICK w \in Workers : pc[w] # "returned"
      BY DEF SomebodyLeft
    <3>2. pc[w] \in {"lock", "run", "notify"}
      BY <2>3, <3>1 DEF Waiting, HeldWhileBlocking, Places
    <3>3. pc'[w] = pc[w] \/ pc'[w] = "lock"
      BY <1>1, <1>2, <2>3
    <3> QED
      BY <3>2, <3>3
  <2> QED
    BY <2>1, <2>2, <2>3 DEF Threads
<1>9. StopIsHeard'
  <2>1. Waiting' \subseteq Waiting \ S
    BY <1>1, <1>2 DEF Waiting
  <2>2. pc'[Owner] = "stopping" \/ pc[Owner] # "stopping" \/ S = Waiting
    BY <1>1, <1>2
  <2> QED
    BY <2>1, <2>2 DEF NoLostWakeUp, StopIsHeard
<1> QED
  BY <1>3, <1>4, <1>5, <1>6, <1>7, <1>8, <1>9 DEF NoLostWakeUp, SomebodyComes, StopIsHeard

(* Every step keeps the control half.                                      *)
LEMMA ControlNext == Control /\ [PoolNext]_poolVars => Control'
<1> SUFFICES ASSUME Control, [PoolNext]_poolVars
             PROVE  Control'
  OBVIOUS
<1> USE PoolAssumption
<1>0. PoolTypeOK
  BY DEF Control
<1>1. ASSUME NEW w \in Workers, FindsNothing(w)
      PROVE  Control'
  <2>1. /\ pc'[w] = "block" /\ \A t \in Threads : t # w => pc'[t] = pc[t]
        /\ w # Owner /\ w \in Threads
    BY <1>0, <1>1 DEF FindsNothing, Goto, PoolTypeOK, Threads
  <2>2. PoolTypeOK'
    BY <1>0, <1>1, <2>1 DEF FindsNothing, Goto, PoolTypeOK, Threads
  <2>3. Places' /\ HeldWhileBlocking'
    BY <1>1, <2>1 DEF FindsNothing, Control, Places, HeldWhileBlocking, Threads
  <2>4. SomebodyLeft' /\ GoneIsOver' /\ NoLostWakeUp'
    BY <1>1, <2>1 DEF FindsNothing, Control, SomebodyLeft, GoneIsOver, NoLostWakeUp,
                      Waiting, Threads, Places
  <2> QED
    BY <2>2, <2>3, <2>4 DEF Control
<1>2. ASSUME NEW w \in Workers, Block(w)
      PROVE  Control'
  <2>1. /\ pc'[w] = "wait" /\ \A t \in Threads : t # w => pc'[t] = pc[t]
        /\ w # Owner /\ w \in Threads
    BY <1>0, <1>2 DEF Block, Goto, PoolTypeOK, Threads
  <2>2. PoolTypeOK'
    BY <1>0, <1>2, <2>1 DEF Block, Goto, PoolTypeOK, Threads
  <2>3. Places' /\ HeldWhileBlocking'
    BY <1>2, <2>1 DEF Block, Control, PoolTypeOK, Places, HeldWhileBlocking, Threads
  <2>4. tasks = <<>> /\ ~stop
    BY <1>2 DEF Block, Control, HeldWhileBlocking
  <2>5. tasks' = <<>> /\ ~stop' /\ pc'[Owner] # "gone"
    BY <1>2, <2>1, <2>4 DEF Block, Control, Places, Threads
  <2>6. SomebodyLeft' /\ GoneIsOver' /\ NoLostWakeUp'
    BY <2>5 DEF SomebodyLeft, GoneIsOver, NoLostWakeUp
  <2> QED
    BY <2>2, <2>3, <2>6 DEF Control
<1>3. ASSUME NEW w \in Workers, WakeSpuriously(w)
      PROVE  Control'
  BY <1>0, <1>3, MovingKeepsControl DEF WakeSpuriously, Goto, PoolTypeOK
<1>4. ASSUME NEW w \in Workers, Return(w)
      PROVE  Control'
  <2>1. /\ pc'[w] = "returned" /\ \A t \in Threads : t # w => pc'[t] = pc[t]
        /\ w # Owner /\ w \in Threads
    BY <1>0, <1>4 DEF Return, Goto, PoolTypeOK, Threads
  <2>2. PoolTypeOK'
    BY <1>0, <1>4, <2>1 DEF Return, Goto, PoolTypeOK, Threads
  <2>3. Places' /\ HeldWhileBlocking'
    BY <1>4, <2>1 DEF Return, Control, Places, HeldWhileBlocking, Threads
  <2>4. SomebodyLeft' /\ GoneIsOver' /\ NoLostWakeUp'
    BY <1>4, <2>1 DEF Return, Control, SomebodyLeft, GoneIsOver, NoLostWakeUp,
                      Waiting, Threads, Places
  <2> QED
    BY <2>2, <2>3, <2>4 DEF Control
<1>5. ASSUME NEW w \in Workers, Take(w)
      PROVE  Control'
  <2>1. Tail(tasks) \in Seq(Tasks) /\ Head(tasks) \in Tasks
    BY <1>0, <1>5, TailFacts DEF Take, PoolTypeOK
  <2>2. /\ running' = [running EXCEPT ![w] = Head(tasks)]
        /\ running' \in [Workers -> Tasks \cup {NoTask}]
        /\ running'[w] # NoTask
        /\ \A v \in Workers : v # w => running'[v] = running[v]
    BY <1>0, <1>5, <2>1 DEF Take, PoolTypeOK
  <2> QED
    BY <1>0, <1>5, <2>1, <2>2, MovingKeepsControl DEF Take, Goto, PoolTypeOK
<1>6. ASSUME NEW w \in Workers, EndTask(w)
      PROVE  Control'
  <2>1. /\ running' \in [Workers -> Tasks \cup {NoTask}]
        /\ running'[w] = NoTask
        /\ \A v \in Workers : v # w => running'[v] = running[v]
        /\ done' \subseteq Tasks
    BY <1>0, <1>6 DEF EndTask, PoolTypeOK
  <2> QED
    BY <1>0, <1>6, <2>1, MovingKeepsControl DEF EndTask, Goto, PoolTypeOK
<1>7. ASSUME NEW p \in Threads, NotifyOne(p)
      PROVE  Control'
  <2> DEFINE label == IF p = Owner THEN "idle" ELSE "run"
  <2>1. PICK S \in SUBSET Waiting :
          /\ S = {} => Waiting = {}
          /\ pc' = [t \in Threads |-> IF t = p THEN label
                                      ELSE IF t \in S THEN "lock" ELSE pc[t]]
    <3>1. CASE Waiting = {} /\ pc' = [pc EXCEPT ![p] = label]
      <4>1. pc' = [t \in Threads |-> IF t = p THEN label
                                    ELSE IF t \in {} THEN "lock" ELSE pc[t]]
        BY <1>0, <3>1 DEF PoolTypeOK
      <4>2. {} \in SUBSET Waiting
        OBVIOUS
      <4> QED
        BY <3>1, <4>1, <4>2
    <3>2. ASSUME NEW w \in Waiting, pc' = [[pc EXCEPT ![p] = label] EXCEPT ![w] = "lock"]
          PROVE  \E S \in SUBSET Waiting :
                   /\ S = {} => Waiting = {}
                   /\ pc' = [t \in Threads |-> IF t = p THEN label
                                      ELSE IF t \in S THEN "lock" ELSE pc[t]]
      <4>1. w # p /\ w \in Threads
        BY <1>7 DEF NotifyOne, Waiting, Threads
      <4>2. pc' = [t \in Threads |-> IF t = p THEN label
                                    ELSE IF t \in {w} THEN "lock" ELSE pc[t]]
        BY <1>0, <3>2, <4>1 DEF PoolTypeOK
      <4> QED
        BY <4>2
    <3> QED
      BY <1>7, <3>1, <3>2 DEF NotifyOne
  <2>2. p \in Workers => label = "run"
    OBVIOUS
  <2> QED
    BY <1>7, <2>1, <2>2, WakingKeepsControl, SMTT(30) DEF NotifyOne, Threads
<1>8. CASE NotifyAll
  <2>1. pc' = [t \in Threads |-> IF t = Owner THEN "join"
                               ELSE IF t \in Waiting THEN "lock" ELSE pc[t]]
    BY <1>8 DEF NotifyAll, Waiting, Threads
  <2> QED
    BY <1>8, <2>1, WakingKeepsControl DEF NotifyAll, Threads
<1>9. ASSUME NEW p \in Threads, NEW t \in Tasks, Push(p, t)
      PROVE  Control'
  <2>1. Append(tasks, t) \in Seq(Tasks) /\ Append(tasks, t) # <<>>
    BY <1>0, AppendFacts DEF PoolTypeOK
  <2>2. CASE p \in Workers
    BY <1>0, <1>9, <2>1, <2>2, MovingKeepsControl DEF Push, MaySubmit, Goto, PoolTypeOK
  <2>3. CASE p = Owner
    <3>1. /\ pc[Owner] = "idle" /\ pc'[Owner] = "notify"
          /\ Owner \in Threads /\ \A w \in Workers : w \in Threads /\ pc'[w] = pc[w]
      BY <1>0, <1>9, <2>3 DEF Push, MaySubmit, Goto, PoolTypeOK, Threads
    <3>2. PoolTypeOK'
      BY <1>0, <1>9, <2>1, <2>3, <3>1 DEF Push, Goto, PoolTypeOK, Threads
    <3>3. Places' /\ HeldWhileBlocking' /\ GoneIsOver'
      BY <1>9, <2>1, <3>1 DEF Push, Control, Places, HeldWhileBlocking, GoneIsOver
    <3>4. SomebodyLeft'
      BY <1>9, <3>1 DEF Push, Control, Places, SomebodyLeft
    <3>5. NoLostWakeUp'
      BY <1>9, <3>1 DEF Push, Control, Places, NoLostWakeUp
    <3> QED
      BY <3>2, <3>3, <3>4, <3>5 DEF Control
  <2> QED
    BY <2>2, <2>3 DEF Threads
<1>10. ASSUME NEW label \in {"stopping", "gone"}, Goto(Owner, label),
              UNCHANGED <<tasks, mtx, running, done>>,
              \/ label = "stopping" /\ pc[Owner] = "idle" /\ mtx = Free /\ stop'
              \/ /\ label = "gone" /\ pc[Owner] = "join" /\ stop' = stop
                 /\ \A w \in Workers : pc[w] = "returned",
              stop' \in BOOLEAN
       PROVE  Control'
  <2>1. /\ pc'[Owner] = label
        /\ Owner \in Threads /\ \A w \in Workers : w \in Threads /\ pc'[w] = pc[w]
    BY <1>0, <1>10 DEF Goto, PoolTypeOK, Threads
  <2>2. PoolTypeOK'
    BY <1>0, <1>10, <2>1 DEF Goto, PoolTypeOK, Threads
  <2>3. Places'
    BY <1>10, <2>1 DEF Control, Places
  <2>4. HeldWhileBlocking'
    BY <1>10, <2>1 DEF Control, HeldWhileBlocking, PoolTypeOK
  <2>5. SomebodyLeft' /\ GoneIsOver'
    BY <1>10, <2>1 DEF Control, SomebodyLeft, GoneIsOver
  <2>6. NoLostWakeUp'
    BY <1>10, <2>1 DEF Control, NoLostWakeUp, SomebodyLeft, Waiting
  <2> QED
    BY <2>2, <2>3, <2>4, <2>5, <2>6 DEF Control
<1>11. CASE SetStop
  BY <1>10, <1>11 DEF SetStop
<1>12. CASE Join
  BY <1>0, <1>10, <1>12 DEF Join, PoolTypeOK
<1>13. CASE UNCHANGED poolVars
  BY <1>13 DEF poolVars, Control, PoolTypeOK, Places, HeldWhileBlocking, SomebodyLeft,
               GoneIsOver, NoLostWakeUp, Waiting
<1> QED
  BY <1>1, <1>2, <1>3, <1>4, <1>5, <1>6, <1>7, <1>8, <1>9, <1>11, <1>12, <1>13
     DEF PoolNext, WorkerStep, OwnerStep, Destroyed, Threads

-----------------------------------------------------------------------------
(* Data.                                                                   *)

(* Every step keeps each task in one place.                                *)
LEMMA OnceNext == PoolTypeOK /\ Once /\ [PoolNext]_poolVars => Once'
<1> SUFFICES ASSUME PoolTypeOK, Once, [PoolNext]_poolVars
             PROVE  Once'
  OBVIOUS
<1> USE PoolAssumption
<1>1. ASSUME NEW w \in Workers, Take(w)
      PROVE  Once'
  <2>0. /\ tasks \in Seq(Tasks) /\ tasks # <<>> /\ tasks' = Tail(tasks)
        /\ \A i, j \in DOMAIN tasks : tasks[i] = tasks[j] => i = j
    BY <1>1 DEF Take, PoolTypeOK, Once
  <2>1. /\ \A i, j \in DOMAIN tasks' : tasks'[i] = tasks'[j] => i = j
        /\ InQueue' = InQueue \ {Head(tasks)}
        /\ Head(tasks) \in InQueue
    BY ONLY <2>0, TailRange DEF InQueue
  <2>2. /\ running'[w] = Head(tasks)
        /\ \A v \in Workers : v # w => running'[v] = running[v]
    BY <1>1 DEF Take, PoolTypeOK
  <2>3. \A v \in Workers : running[v] # Head(tasks) \/ running[v] = NoTask
    BY <2>1 DEF Once, Running
  <2>4. Head(tasks) # NoTask
    BY <1>1, TailFacts DEF Take, PoolTypeOK
  <2>5. Running' \subseteq Running \cup {Head(tasks)}
    BY <2>2 DEF Running
  <2>6. \A u, v \in Workers :
          running'[u] = running'[v] /\ running'[u] # NoTask => u = v
    BY <2>2, <2>3, <2>4 DEF Once
  <2>7. done' = done
    BY <1>1 DEF Take
  <2> QED
    BY <2>1, <2>5, <2>6, <2>7 DEF Once
<1>2. ASSUME NEW w \in Workers, EndTask(w)
      PROVE  Once'
  <2>1. /\ running'[w] = NoTask /\ running[w] # NoTask
        /\ \A v \in Workers : v # w => running'[v] = running[v]
        /\ done' = done \cup {running[w]} /\ tasks' = tasks
    BY <1>2 DEF EndTask, PoolTypeOK
  <2>2. Running' = Running \ {running[w]} /\ running[w] \in Running
    BY <2>1 DEF Running, Once
  <2>3. \A u, v \in Workers :
          running'[u] = running'[v] /\ running'[u] # NoTask => u = v
    BY <2>1 DEF Once
  <2>4. InQueue' = InQueue
    BY <2>1 DEF InQueue
  <2> QED
    BY <2>1, <2>2, <2>3, <2>4 DEF Once
<1>3. ASSUME NEW p \in Threads, NEW t \in Tasks, Push(p, t)
      PROVE  Once'
  <2>1. t \notin InQueue /\ t \notin Running /\ t \notin done
    BY <1>3 DEF Push, Known, InQueue, Running
  <2>2. /\ \A i, j \in DOMAIN tasks' : tasks'[i] = tasks'[j] => i = j
        /\ InQueue' = InQueue \cup {t}
    BY <1>3, <2>1, AppendRange DEF Push, PoolTypeOK, Once, InQueue
  <2>3. running' = running /\ done' = done
    BY <1>3 DEF Push
  <2> QED
    BY <2>1, <2>2, <2>3 DEF Once, Running
<1>4. CASE UNCHANGED <<tasks, running, done>>
  BY <1>4 DEF Once, InQueue, Running
<1> QED
  BY <1>1, <1>2, <1>3, <1>4
     DEF PoolNext, WorkerStep, OwnerStep, FindsNothing, Block, Return, WakeSpuriously,
         NotifyOne, NotifyAll, Join, SetStop, Destroyed, poolVars

-----------------------------------------------------------------------------
(* The pool starts with an empty queue, and all workers on their way to it.*)
LEMMA PoolInvInit == PoolInit => PoolInv
<1> SUFFICES ASSUME PoolInit
             PROVE  PoolInv
  OBVIOUS
<1> USE PoolAssumption DEF PoolInit
<1>1. /\ pc[Owner] = "idle" /\ \A w \in Workers : pc[w] = "lock"
      /\ \A t \in Threads : pc[t] \in {"idle", "lock"}
  BY DEF Threads
<1>2. PoolTypeOK
  <2>1. tasks \in Seq(Tasks) /\ done \subseteq Tasks /\ stop \in BOOLEAN
    BY EmptySeq
  <2>2. pc \in [Threads -> {"idle", "lock", "block", "wait", "run", "notify",
                           "returned", "stopping", "join", "gone"}]
    OBVIOUS
  <2>3. /\ running \in [Workers -> Tasks \cup {NoTask}]
        /\ \A w \in Workers : running[w] = NoTask
    OBVIOUS
  <2> QED
    BY <1>1, <2>1, <2>2, <2>3 DEF PoolTypeOK
<1>3. Places /\ HeldWhileBlocking /\ SomebodyLeft /\ GoneIsOver /\ NoLostWakeUp
  BY <1>1 DEF Places, HeldWhileBlocking, SomebodyLeft, GoneIsOver, NoLostWakeUp
<1>4. Once
  BY DEF Once, InQueue, Running
<1> QED
  BY <1>2, <1>3, <1>4 DEF PoolInv, Control

(* PoolInv holds in every state the pool can be in.                        *)
THEOREM PoolInvariant == PoolSpec => []PoolInv
<1>1. PoolInv /\ [PoolNext]_poolVars => PoolInv'
  BY ControlNext, OnceNext DEF PoolInv, Control
<1> QED
  BY PoolInvInit, <1>1, PTL DEF PoolSpec

(* The types hold: a worker thread is in worker_loop until it returns from *)
(* it, and holds a task exactly while it runs one.                         *)
THEOREM PoolTyped == PoolSpec => []PoolTypeOK
<1>1. PoolInv => PoolTypeOK
  BY DEF PoolInv, Control
<1> QED
  BY <1>1, PoolInvariant, PTL

(* No wake-up of enqueue or of the destructor is lost, whatever the number *)
(* of workers and tasks.                                                   *)
THEOREM NoWakeUpIsLost == PoolSpec => []NoLostWakeUp
<1>1. PoolInv => NoLostWakeUp
  BY DEF PoolInv, Control
<1> QED
  BY <1>1, PoolInvariant, PTL

-----------------------------------------------------------------------------
(* Every step of the pool is a step of TaskQueue, or none.                 *)
LEMMA PoolStepsRefine ==
  PoolInv /\ [PoolNext]_poolVars => [Bag!QueueNext]_Bag!queueVars
<1> SUFFICES ASSUME PoolInv, [PoolNext]_poolVars
             PROVE  [Bag!QueueNext]_Bag!queueVars
  OBVIOUS
<1> USE PoolAssumption
<1>0. PoolTypeOK /\ Places /\ Once /\ SomebodyLeft /\ HeldWhileBlocking
  BY DEF PoolInv, Control
<1>1. ASSUME NEW w \in Workers, Take(w)
      PROVE  Bag!Start
  <2>1. /\ running'[w] = Head(tasks)
        /\ \A v \in Workers : v # w => running'[v] = running[v]
        /\ pc'[Owner] = pc[Owner]
    BY <1>0, <1>1 DEF Take, PoolTypeOK, Goto, Threads
  <2>2. running[w] = NoTask
    BY <1>0, <1>1 DEF Take, PoolTypeOK
  <2>3. Head(tasks) # NoTask
    BY <1>0, <1>1, TailFacts DEF Take, PoolTypeOK
  <2>4. Running' = Running \cup {Head(tasks)}
    BY <2>1, <2>2, <2>3 DEF Running
  <2> QED
    BY <1>1, <2>1, <2>4 DEF Take, Bag!Start, Running
<1>2. ASSUME NEW w \in Workers, EndTask(w)
      PROVE  \E t \in Tasks : Bag!Finish(t)
  <2>1. /\ running'[w] = NoTask /\ running[w] # NoTask
        /\ \A v \in Workers : v # w => running'[v] = running[v]
        /\ pc'[Owner] = pc[Owner] /\ running[w] \in Tasks
    BY <1>0, <1>2 DEF EndTask, PoolTypeOK, Goto, Threads
  <2>2. Running' = Running \ {running[w]} /\ running[w] \in Running
    BY <1>0, <2>1 DEF Running, Once
  <2> QED
    <3>1. PICK t \in Tasks : t = running[w]
      BY <2>1
    <3>2. Bag!Finish(t)
      BY <1>2, <2>1, <2>2, <3>1 DEF EndTask, Bag!Finish, Running
    <3> QED
      BY <3>2
<1>3. ASSUME NEW p \in Threads, NEW t \in Tasks, Push(p, t)
      PROVE  Bag!Submit(t)
  <2>1. pc[Owner] # "gone" /\ pc'[Owner] # "gone"
    <3>1. CASE p = Owner
      BY <1>0, <1>3, <3>1 DEF Push, MaySubmit, Goto, PoolTypeOK, Threads
    <3>2. CASE p \in Workers
      <4>1. pc[Owner] # "gone"
        BY <1>3, <3>2 DEF Push, MaySubmit, PoolInv, Control, GoneIsOver
      <4> QED
        BY <1>0, <1>3, <3>2, <4>1 DEF Push, Goto, PoolTypeOK, Threads
    <3> QED
      BY <3>1, <3>2 DEF Threads
  <2>2. t \notin InQueue \cup Running \cup done
    BY <1>3 DEF Push, Known, InQueue, Running
  <2> QED
    BY <1>3, <2>1, <2>2 DEF Push, Bag!Submit, Bag!Queued, InQueue, Running
<1>4. ASSUME Join
      PROVE  Bag!Close
  <2>1. tasks = <<>> /\ Running = {}
    BY <1>0, <1>4 DEF Join, SomebodyLeft, Running, PoolTypeOK
  <2>2. pc'[Owner] = "gone" /\ pc[Owner] # "gone"
    BY <1>0, <1>4 DEF Join, Goto, PoolTypeOK, Threads
  <2> QED
    <3>1. (pc[Owner] # "gone") = TRUE /\ (pc'[Owner] # "gone") = FALSE
      BY <2>2
    <3>2. Running' = Running /\ UNCHANGED <<tasks, done>>
      BY <1>4 DEF Join, Running
    <3> QED
      BY <2>1, <3>1, <3>2 DEF Bag!Close, Running
<1>5. ASSUME UNCHANGED <<tasks, running, done>>,
             (pc'[Owner] = "gone") = (pc[Owner] = "gone")
      PROVE  UNCHANGED Bag!queueVars
  BY <1>5 DEF Bag!queueVars
<1>6. ASSUME NEW w \in Workers,
             FindsNothing(w) \/ Block(w) \/ Return(w) \/ WakeSpuriously(w)
      PROVE  UNCHANGED Bag!queueVars
  BY <1>0, <1>5, <1>6 DEF FindsNothing, Block, Return, WakeSpuriously, Goto,
                          PoolTypeOK, Threads
<1>7. ASSUME NEW p \in Threads, NotifyOne(p)
      PROVE  UNCHANGED Bag!queueVars
  <2>1. pc[Owner] # "gone" <=> pc'[Owner] # "gone"
    BY <1>0, <1>7 DEF NotifyOne, PoolTypeOK, Threads, Waiting
  <2> QED
    BY <1>5, <1>7, <2>1 DEF NotifyOne
<1>8. CASE NotifyAll \/ SetStop
  BY <1>0, <1>5, <1>8 DEF NotifyAll, SetStop, Goto, PoolTypeOK, Threads
<1>9. CASE UNCHANGED poolVars
  BY <1>5, <1>9 DEF poolVars
<1>10. ASSUME NEW w \in Workers, WorkerStep(w) \/ WakeSpuriously(w)
       PROVE  [Bag!QueueNext]_Bag!queueVars
  <2>1. CASE Take(w)
    BY <1>1, <2>1 DEF Bag!QueueNext
  <2>2. CASE EndTask(w)
    BY <1>2, <2>2 DEF Bag!QueueNext
  <2>3. CASE NotifyOne(w)
    BY <1>7, <2>3 DEF Threads
  <2> QED
    BY <1>6, <1>10, <2>1, <2>2, <2>3 DEF WorkerStep
<1>11. CASE OwnerStep \/ SetStop
  <2>1. CASE Join
    BY <1>4, <2>1 DEF Bag!QueueNext
  <2>2. CASE NotifyOne(Owner)
    BY <1>7, <2>2 DEF Threads
  <2> QED
    BY <1>8, <1>11, <2>1, <2>2 DEF OwnerStep
<1>12. ASSUME NEW p \in Threads, NEW t \in Tasks, Push(p, t)
       PROVE  Bag!QueueNext
  BY <1>3, <1>12 DEF Bag!QueueNext
<1> QED
  BY <1>9, <1>10, <1>11, <1>12 DEF PoolNext, Destroyed

(* The pool runs every task once, starts the tasks in order, and is        *)
(* destroyed only when none is queued or running, whatever the number of   *)
(* workers and whatever tasks submit.                                      *)
THEOREM PoolImplementsTaskQueue == PoolSpec => ImplementsTaskQueue
<1>1. PoolInit => Bag!QueueInit
  BY PoolAssumption DEF PoolInit, Bag!QueueInit, Threads
<1> QED
  BY <1>1, PoolInvariant, PoolStepsRefine, PTL
     DEF PoolSpec, ImplementsTaskQueue, Bag!QueueSpec
=============================================================================
