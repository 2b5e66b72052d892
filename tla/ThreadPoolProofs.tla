-------------------------- MODULE ThreadPoolProofs --------------------------
(***************************************************************************)
(* Proofs about ThreadPool for any number of workers, clients and tasks.   *)
(***************************************************************************)
EXTENDS ThreadPool, SequenceTheorems, TLAPS

(***************************************************************************)
(* The inductive invariant.  MutexHeldInside, CounterAgrees and TakesANode *)
(* depend on one another: only the owner of the mutex changes the list, so *)
(* nobody can empty it between a worker's test of the counter and its      *)
(* access to the head.  ClientHolds and WorkerHolds say what the local     *)
(* pointers hold, Shutdown how far main has come.                          *)
(***************************************************************************)
ClientHolds ==
  \A c \in Clients : cpc[c] \in {"lock", "append", "count", "unlock"} => new[c] \in Tasks

WorkerHolds ==
  \A w \in Workers : wpc[w] \in {"unlock", "run"} <=> job[w] # NoTask

Shutdown ==
  /\ mpc # "running" =>
       \A c \in Clients : cpc[c] \in {"idle", "stopped"}
  /\ mpc \in {"freed", "leaked"} =>
       \A w \in Workers : wpc[w] \in {"exited", "unborn"}
  /\ \A w \in Workers : wpc[w] \in {"cleanup", "exited"} => w \in cancelled
  /\ mpc \in {"create", "running", "dlock", "dunlock"} => cancelled = {}
  /\ mpc = "create" => counter = 0
  /\ mpc = "running" => \A w \in Workers : wpc[w] # "unborn"

PoolInv ==
  /\ TypeOK
  /\ MutexHeldInside
  /\ CounterAgrees
  /\ TakesANode
  /\ ClientHolds
  /\ WorkerHolds
  /\ Shutdown

(***************************************************************************)
(* Facts about the list.  They are kept apart from the control state: the  *)
(* later steps see only Nodes, First, Rest and Extended.                   *)
(***************************************************************************)
LEMMA NodesNat == ListOK => Nodes \in Nat
BY DEF ListOK, Nodes

LEMMA ListUnchanged == tasks' = tasks => (ListOK' <=> ListOK) /\ Nodes' = Nodes
BY DEF ListOK, Nodes

LEMMA ListExtended ==
  ASSUME ListOK, NEW t \in Tasks, tasks' = Extended(t)
  PROVE  ListOK' /\ Nodes' = Nodes + 1
BY DEF ListOK, Nodes, Extended

LEMMA ListRest ==
  ASSUME ListOK, Nodes > 0, tasks' = Rest
  PROVE  ListOK' /\ Nodes' = Nodes - 1
<1>1. tasks # <<>>
  BY DEF ListOK, Nodes
<1> QED
  BY <1>1, HeadTailProperties DEF ListOK, Nodes, Rest

LEMMA FirstIsTask ==
  ASSUME ListOK, Nodes > 0
  PROVE  First \in Tasks
<1>1. tasks # <<>>
  BY DEF ListOK, Nodes
<1> QED
  BY <1>1, HeadTailProperties DEF ListOK, First

LEMMA PoolInvInit == Init => PoolInv
<1> SUFFICES ASSUME Init PROVE PoolInv
  OBVIOUS
<1>1. ListOK /\ Nodes = 0
  BY DEF Init, ListOK, Nodes
<1> QED
  BY <1>1, ThreadsAssumption
     DEF Init, PoolInv, TypeOK, MutexHeldInside, CounterAgrees, TakesANode, ClientHolds,
         WorkerHolds, Shutdown, WorkerInside, ClientInside, WorkerPC, ClientPC, MainPC,
         Threads

LEMMA PoolInvStep == PoolInv /\ [Next]_vars => PoolInv'
<1> SUFFICES ASSUME PoolInv, [Next]_vars PROVE PoolInv'
  OBVIOUS
<1> USE ThreadsAssumption, NodesNat, ListUnchanged
    DEF PoolInv, TypeOK, MutexHeldInside, CounterAgrees, TakesANode, ClientHolds,
        WorkerHolds, Shutdown, WorkerInside, ClientInside, WorkerPC, ClientPC, MainPC,
        Threads, Goto, CGoto, Lock, Unlock, poolVars, workerVars, clientVars, mainVars,
        histVars
<1>1. ASSUME NEW w \in Workers, CreateThread(w)
       PROVE PoolInv'
  BY <1>1 DEF CreateThread
<1>2. CASE CreateReturns
  BY <1>2 DEF CreateReturns
<1>3. CASE CreateFails
  BY <1>3 DEF CreateFails
<1>4. ASSUME NEW c \in Clients, NEW t \in Tasks, AddTask(c, t)
       PROVE PoolInv'
  BY <1>4 DEF AddTask
<1>5. ASSUME NEW c \in Clients, AddLock(c)
       PROVE PoolInv'
  BY <1>5 DEF AddLock
<1>6. ASSUME NEW c \in Clients, AddAppend(c)
       PROVE PoolInv'
  <2>1. ListOK' /\ Nodes' = Nodes + 1
    BY <1>6, ListExtended DEF AddAppend
  <2> QED
    BY <1>6, <2>1 DEF AddAppend
<1>7. ASSUME NEW c \in Clients, AddCount(c)
       PROVE PoolInv'
  BY <1>7 DEF AddCount, SignalOne, Waiting
<1>8. ASSUME NEW c \in Clients, AddUnlock(c)
       PROVE PoolInv'
  BY <1>8 DEF AddUnlock
<1>9. ASSUME NEW c \in Clients, ClientStops(c)
       PROVE PoolInv'
  BY <1>9 DEF ClientStops
<1>10. ASSUME NEW w \in Workers, WorkLock(w)
       PROVE PoolInv'
  BY <1>10 DEF WorkLock
<1>11. ASSUME NEW w \in Workers, WorkCheck(w)
       PROVE PoolInv'
  BY <1>11 DEF WorkCheck
<1>12. ASSUME NEW w \in Workers, SpuriousWakeup(w)
       PROVE PoolInv'
  BY <1>12 DEF SpuriousWakeup
<1>13. ASSUME NEW w \in Workers, WorkTake(w)
       PROVE PoolInv'
  <2>1. Nodes > 0 /\ counter = Nodes
    BY <1>13 DEF WorkTake
  <2>2. First \in Tasks
    BY <2>1, FirstIsTask
  <2>3. ListOK' /\ Nodes' = Nodes - 1
    BY <1>13, <2>1, ListRest DEF WorkTake
  <2> QED
    BY <1>13, <2>1, <2>2, <2>3 DEF WorkTake
<1>14. ASSUME NEW w \in Workers, WorkUnlock(w)
       PROVE PoolInv'
  BY <1>14 DEF WorkUnlock
<1>15. ASSUME NEW w \in Workers, RunTask(w)
       PROVE PoolInv'
  BY <1>15 DEF RunTask
<1>16. ASSUME NEW w \in Workers, CancelledInWait(w)
       PROVE PoolInv'
  BY <1>16 DEF CancelledInWait
<1>17. ASSUME NEW w \in Workers, CleanupHandler(w)
       PROVE PoolInv'
  BY <1>17 DEF CleanupHandler
<1>18. ASSUME NEW w \in Workers, CancelledInTask(w)
       PROVE PoolInv'
  BY <1>18 DEF CancelledInTask
<1>19. CASE Destroy
  BY <1>19 DEF Destroy
<1>20. CASE DestroyLock
  BY <1>20 DEF DestroyLock
<1>21. CASE DestroyUnlock
  BY <1>21 DEF DestroyUnlock
<1>22. ASSUME NEW w \in Workers, DestroyCancel(w)
       PROVE PoolInv'
  BY <1>22 DEF DestroyCancel
<1>23. CASE DestroyJoin
  BY <1>23 DEF DestroyJoin, Ended
<1>24. CASE UNCHANGED vars
  BY <1>24 DEF vars
<1> QED
  BY <1>1, <1>2, <1>3, <1>4, <1>5, <1>6, <1>7, <1>8, <1>9, <1>10, <1>11, <1>12, <1>13,
     <1>14, <1>15, <1>16, <1>17, <1>18, <1>19, <1>20, <1>21, <1>22, <1>23, <1>24
     DEF Next, Create, Client, AddStep, Worker, WorkStep, RunStep, DestroyStep

(***************************************************************************)
(* Every reachable state satisfies the inductive invariant.                *)
(***************************************************************************)
THEOREM PoolInvariant == Spec => []PoolInv
BY PoolInvInit, PoolInvStep, PTL DEF Spec

(* Type correctness of the pool (thpool.c:9-217). *)
THEOREM TypeCorrect == Spec => []TypeOK
BY PoolInvariant, PTL DEF PoolInv

(* pool->mutex is held exactly by the thread that is between its lock and   *)
(* its unlock, for any number of threads (thpool.c:75-103, 108-147).        *)
THEOREM MutualExclusion == Spec => []MutexHeldInside
BY PoolInvariant, PTL DEF PoolInv

(* pool->counter counts the list (thpool.c:78-96, 143-144). *)
THEOREM CounterCounts == Spec => []CounterAgrees
BY PoolInvariant, PTL DEF PoolInv

(* No worker dereferences an empty list (thpool.c:139-143). *)
THEOREM NeverTakesNull == Spec => []TakesANode
BY PoolInvariant, PTL DEF PoolInv

(* Thpool_free finds the mutex free and every thread gone, so destroying    *)
(* mutex and condition variable is defined (thpool.c:184-215).              *)
THEOREM FreedQuiet == Spec => []FreedPoolIsUnused
<1>1. PoolInv => FreedPoolIsUnused
  BY ThreadsAssumption
     DEF PoolInv, TypeOK, MutexHeldInside, Shutdown, FreedPoolIsUnused, WorkerInside,
         ClientInside, Threads
<1> QED
  BY <1>1, PoolInvariant, PTL

(***************************************************************************)
(* No lost wakeup.  Given that a running pool has no ended worker, a       *)
(* worker goes to sleep only when the counter is zero, and whoever raises  *)
(* the counter wakes a sleeper or finds none.                              *)
(***************************************************************************)
THEOREM WakeupsArrive == Spec => []NoLostWakeup
<1>1. Init => NoLostWakeup
  BY DEF Init, NoLostWakeup
<1>2. PoolInv /\ PoolInv' /\ NoLostWakeup /\ [Next]_vars => NoLostWakeup'
  <2> SUFFICES ASSUME PoolInv, PoolInv', NoLostWakeup, [Next]_vars,
                      mpc' = "running", counter' > 0
               PROVE  \E w \in Workers : wpc'[w] \notin {"wait", "unborn", "exited"}
    BY DEF NoLostWakeup
  <2>1. \A w \in Workers : wpc'[w] \notin {"unborn", "exited"}
    BY DEF PoolInv, Shutdown
  <2>2. SUFFICES \E w \in Workers : wpc'[w] # "wait"
    BY <2>1
  <2> USE DEF Goto
  <2>3. CASE Create
    <3>1. mpc = "create" /\ counter' = counter
      BY <2>3 DEF Create, CreateReturns, CreateFails, CreateThread, poolVars
    <3> QED
      BY <3>1 DEF PoolInv, Shutdown
  <2>4. ASSUME NEW c \in Clients, AddCount(c)
        PROVE  \E w \in Workers : wpc'[w] # "wait"
    <3>1. CASE Waiting = {}
      BY <3>1, <2>4, ThreadsAssumption DEF AddCount, SignalOne, Waiting
    <3>2. CASE Waiting # {}
      BY <3>2, <2>4 DEF AddCount, SignalOne, Waiting, PoolInv, TypeOK
    <3> QED
      BY <3>1, <3>2
  <2>5. ASSUME NEW w \in Workers, WorkCheck(w)
        PROVE  wpc'[w] # "wait"
    BY <2>5 DEF WorkCheck, poolVars, PoolInv, TypeOK
  <2>6. ASSUME NEW w \in Workers, Worker(w), ~WorkCheck(w)
        PROVE  wpc'[w] # "wait"
    BY <2>6 DEF Worker, WorkStep, RunStep, WorkLock, WorkTake,
                WorkUnlock, RunTask, CancelledInWait, CleanupHandler, CancelledInTask,
                SpuriousWakeup, PoolInv, TypeOK
  <2>7. CASE wpc' = wpc /\ counter' = counter /\ mpc = "running"
    BY <2>7 DEF NoLostWakeup
  <2>8. ASSUME NEW c \in Clients, Client(c), ~AddCount(c)
        PROVE  wpc' = wpc /\ counter' = counter /\ mpc = "running"
    BY <2>8 DEF Client, AddStep, AddTask, AddLock, AddAppend, AddUnlock, ClientStops,
                poolVars, workerVars, mainVars
  <2>9. ASSUME Destroy \/ DestroyStep
        PROVE  FALSE
    BY <2>9 DEF Destroy, DestroyStep, DestroyLock, DestroyUnlock, DestroyCancel, DestroyJoin
  <2>10. CASE UNCHANGED vars
    BY <2>10, <2>7 DEF vars
  <2> QED
    BY <2>3, <2>4, <2>5, <2>6, <2>7, <2>8, <2>9, <2>10 DEF Next
<1> QED
  BY <1>1, <1>2, PoolInvariant, PTL DEF Spec

(***************************************************************************)
(* The pool implements TaskQueue.  What the abstract queue adds to PoolInv *)
(* is that a task enters it once: Fresh says that the node a client is     *)
(* about to hang in is in nobody else's hands, although it was allocated   *)
(* before the mutex was taken.                                             *)
(***************************************************************************)
Used == Queue!InQueue \cup Queue!InHand \cup done

Bringing(c) == cpc[c] \in {"lock", "append"}

Fresh ==
  /\ Used \subseteq submitted
  /\ \A c \in Clients : Bringing(c) => new[c] \in submitted \ Used
  /\ \A c, d \in Clients : Bringing(c) /\ Bringing(d) /\ c # d => new[c] # new[d]

LEMMA InQueueExtended ==
  ASSUME ListOK, NEW t \in Tasks, tasks' = Extended(t)
  PROVE  Queue!InQueue' = Queue!InQueue \cup {t}
<1>1. /\ Len(tasks') = Len(tasks) + 1 /\ Len(tasks) \in Nat /\ tasks'[Len(tasks) + 1] = t
      /\ \A i \in 1..Len(tasks) : tasks'[i] = tasks[i]
  BY DEF ListOK, Extended
<1> QED
  BY <1>1 DEF Queue!InQueue

LEMMA InQueueRest ==
  ASSUME ListOK, Nodes > 0, tasks' = Rest
  PROVE  Queue!InQueue' \subseteq Queue!InQueue /\ First \in Queue!InQueue
<1>1. tasks # <<>> /\ Len(tasks) \in Nat /\ Len(tasks) > 0
  BY DEF ListOK, Nodes
<1>2. /\ Len(tasks') = Len(tasks) - 1
      /\ \A i \in 1..Len(tasks') : tasks'[i] = tasks[i + 1]
  BY <1>1, HeadTailProperties DEF ListOK, Rest
<1>3. First = tasks[1]
  BY <1>1, HeadTailProperties DEF ListOK, First
<1> QED
  BY <1>1, <1>2, <1>3 DEF Queue!InQueue

LEMMA FreshStep == PoolInv /\ Fresh /\ [Next]_vars => Fresh'
<1> SUFFICES ASSUME PoolInv, Fresh, [Next]_vars PROVE Fresh'
  OBVIOUS
<1>1. ASSUME UNCHANGED <<tasks, job, done, submitted, new>>,
             \A c \in Clients : Bringing(c)' => Bringing(c)
      PROVE  Fresh'
  <2>1. Queue!InQueue' = Queue!InQueue /\ Queue!InHand' = Queue!InHand
    BY <1>1 DEF Queue!InQueue, Queue!InHand
  <2> QED
    BY <1>1, <2>1 DEF Fresh, Used
<1>2. CASE Create \/ Destroy \/ DestroyStep \/ UNCHANGED vars
  BY <1>1, <1>2
     DEF Create, CreateThread, CreateReturns, CreateFails, Destroy, DestroyStep, DestroyLock,
         DestroyUnlock, DestroyCancel, DestroyJoin, vars, poolVars, workerVars, clientVars,
         histVars, Bringing
<1>3. ASSUME NEW c \in Clients, NEW t \in Tasks, AddTask(c, t)
      PROVE  Fresh'
  <2>1. /\ UNCHANGED <<tasks, job, done>> /\ t \notin submitted
        /\ submitted' = submitted \cup {t}
        /\ new' = [new EXCEPT ![c] = t] /\ cpc' = [cpc EXCEPT ![c] = "lock"]
    BY <1>3 DEF AddTask, CGoto, poolVars, workerVars
  <2>2. Used' = Used
    BY <2>1 DEF Used, Queue!InQueue, Queue!InHand
  <2>3. \A d \in Clients : d # c => new'[d] = new[d] /\ (Bringing(d)' <=> Bringing(d))
    BY <2>1 DEF Bringing, PoolInv, TypeOK
  <2>4. new'[c] = t
    BY <2>1 DEF PoolInv, TypeOK
  <2>5. t \notin Used /\ \A d \in Clients : Bringing(d) => new[d] # t
    BY <2>1 DEF Fresh
  <2> QED
    BY <2>1, <2>2, <2>3, <2>4, <2>5 DEF Fresh
<1>4. ASSUME NEW c \in Clients,
             AddLock(c) \/ AddCount(c) \/ AddUnlock(c) \/ ClientStops(c)
      PROVE  Fresh'
  <2>1. UNCHANGED <<tasks, job, done, submitted>>
    BY <1>4 DEF AddLock, AddCount, AddUnlock, ClientStops, poolVars, workerVars, histVars
  <2>2. \A d \in Clients : Bringing(d)' => Bringing(d) /\ new'[d] = new[d]
    BY <1>4 DEF AddLock, AddCount, AddUnlock, ClientStops, CGoto, Bringing, PoolInv, TypeOK
  <2>3. Used' = Used
    BY <2>1 DEF Used, Queue!InQueue, Queue!InHand
  <2> QED
    BY <2>1, <2>2, <2>3 DEF Fresh
<1>5. ASSUME NEW c \in Clients, AddAppend(c)
      PROVE  Fresh'
  <2>1. /\ UNCHANGED <<job, done, submitted, new>> /\ tasks' = Extended(new[c])
        /\ cpc[c] = "append" /\ cpc' = [cpc EXCEPT ![c] = "count"]
    BY <1>5 DEF AddAppend, CGoto, workerVars, histVars
  <2>2. new[c] \in Tasks /\ ListOK
    BY <2>1 DEF PoolInv, ClientHolds, TypeOK
  <2>3. Used' = Used \cup {new[c]}
    BY <2>1, <2>2, InQueueExtended DEF Used, Queue!InHand
  <2>4. \A d \in Clients : Bringing(d)' => Bringing(d) /\ d # c
    BY <2>1 DEF Bringing, PoolInv, TypeOK
  <2>5. Bringing(c)
    BY <2>1 DEF Bringing
  <2> QED
    BY <2>1, <2>3, <2>4, <2>5 DEF Fresh
<1>6. ASSUME UNCHANGED <<submitted, cpc, new>>, Used' \subseteq Used
      PROVE  Fresh'
  BY <1>6 DEF Fresh, Bringing
<1>7. ASSUME NEW w \in Workers, WorkTake(w)
      PROVE  Fresh'
  <2>1. ListOK /\ Nodes > 0
    BY <1>7 DEF WorkTake, PoolInv, TypeOK, TakesANode
  <2>2. Queue!InQueue' \subseteq Queue!InQueue /\ First \in Queue!InQueue
    BY <1>7, <2>1, InQueueRest DEF WorkTake
  <2>3. Queue!InHand' \subseteq Queue!InHand \cup {First}
    BY <1>7 DEF WorkTake, Queue!InHand, PoolInv, TypeOK
  <2> QED
    BY <1>6, <1>7, <2>2, <2>3 DEF WorkTake, Used, clientVars, histVars
<1>8. ASSUME NEW w \in Workers, RunTask(w) \/ CancelledInTask(w)
      PROVE  Fresh'
  <2>1. Queue!InQueue' = Queue!InQueue /\ UNCHANGED <<submitted, cpc, new>>
    BY <1>8 DEF RunTask, CancelledInTask, Queue!InQueue, poolVars, clientVars, histVars
  <2>2. job[w] \in Queue!InHand
    BY <1>8 DEF RunTask, CancelledInTask, Queue!InHand, PoolInv, WorkerHolds
  <2>3. Queue!InHand' \subseteq Queue!InHand
    BY <1>8 DEF RunTask, CancelledInTask, Queue!InHand, PoolInv, TypeOK
  <2>4. done' \subseteq done \cup {job[w]}
    BY <1>8 DEF RunTask, CancelledInTask, histVars
  <2> QED
    BY <1>6, <2>1, <2>2, <2>3, <2>4 DEF Used
<1>9. ASSUME NEW w \in Workers,
             WorkLock(w) \/ WorkCheck(w) \/ WorkUnlock(w) \/ CancelledInWait(w)
               \/ CleanupHandler(w) \/ SpuriousWakeup(w)
      PROVE  Fresh'
  BY <1>1, <1>9
     DEF WorkLock, WorkCheck, WorkUnlock, CancelledInWait, CleanupHandler, SpuriousWakeup,
         poolVars, clientVars, histVars, Bringing
<1> QED
  BY <1>2, <1>3, <1>4, <1>5, <1>7, <1>8, <1>9
     DEF Next, Client, AddStep, Worker, WorkStep, RunStep

LEMMA FreshAlways == Spec => []Fresh
<1>1. Init => Fresh
  <2> SUFFICES ASSUME Init PROVE Fresh
    OBVIOUS
  <2>1. Used = {}
    BY DEF Init, Used, Queue!InQueue, Queue!InHand
  <2> QED
    BY <2>1 DEF Init, Fresh, Bringing
<1> QED
  BY <1>1, FreshStep, PoolInvariant, PTL DEF Spec

(* A client's append is Put, a worker's take is Start; the task's end and   *)
(* its cancellation are Finish and Abandon; the step in which main leaves   *)
(* the running pool, or Thpool_create gives up, is Close.                   *)
LEMMA StepImplements ==
  PoolInv /\ Fresh /\ [Next]_vars => [Queue!AbsNext]_<<tasks, job, done, Closing>>
<1> SUFFICES ASSUME PoolInv, Fresh, [Next]_vars
             PROVE  Queue!AbsNext \/ UNCHANGED <<tasks, job, done, Closing>>
  OBVIOUS
<1>1. CASE Create \/ Destroy \/ DestroyStep \/ UNCHANGED vars
  <2>1. UNCHANGED <<tasks, job, done>>
    BY <1>1
       DEF Create, CreateThread, CreateReturns, CreateFails, Destroy, DestroyStep, DestroyLock,
           DestroyUnlock, DestroyCancel, DestroyJoin, vars, poolVars, workerVars, histVars
  <2>2. CASE ~Closing /\ Closing'
    BY <2>1, <2>2 DEF Queue!AbsNext, Queue!Close, Closing
  <2>3. CASE Closing' <=> Closing
    BY <2>1, <2>3 DEF Closing
  <2>4. ~ (Closing /\ ~Closing')
    BY <1>1
       DEF Create, CreateThread, CreateReturns, CreateFails, Destroy, DestroyStep, DestroyLock,
           DestroyUnlock, DestroyCancel, DestroyJoin, vars, mainVars, Closing
  <2> QED
    BY <2>2, <2>3, <2>4
<1>2. ASSUME NEW c \in Clients, Client(c), ~AddAppend(c)
      PROVE  UNCHANGED <<tasks, job, done, Closing>>
  BY <1>2 DEF Client, AddStep, AddTask, AddLock, AddCount, AddUnlock, ClientStops, poolVars,
       workerVars, mainVars, histVars, Closing
<1>3. ASSUME NEW c \in Clients, AddAppend(c)
      PROVE  Queue!Put(new[c]) /\ new[c] \in Tasks
  <2>1. /\ UNCHANGED <<job, done, mpc>> /\ tasks' = Append(tasks, new[c]) /\ cpc[c] = "append"
    BY <1>3 DEF AddAppend, Extended, workerVars, mainVars, histVars
  <2>2. ~Closing /\ ~Closing' /\ new[c] \in Tasks
    BY <2>1 DEF PoolInv, Shutdown, ClientHolds, Closing
  <2>3. new[c] \notin Used
    BY <2>1 DEF Fresh, Bringing
  <2>4. Closing' = Closing
    BY <2>1 DEF Closing
  <2> QED
    BY <2>1, <2>2, <2>3, <2>4 DEF Queue!Put, Used
<1>4. ASSUME NEW w \in Workers, WorkTake(w)
      PROVE  Queue!Start(w)
  <2>1. Nodes > 0 /\ ListOK /\ job[w] = NoTask
    BY <1>4 DEF WorkTake, PoolInv, TypeOK, TakesANode, WorkerHolds
  <2>2. tasks # <<>>
    BY <2>1 DEF Nodes
  <2>3. /\ job' = [job EXCEPT ![w] = Head(tasks)] /\ tasks' = Tail(tasks)
        /\ UNCHANGED <<done, mpc>>
    BY <1>4 DEF WorkTake, First, Rest, mainVars, histVars
  <2> QED
    BY <2>1, <2>2, <2>3 DEF Queue!Start, Closing
<1>5. ASSUME NEW w \in Workers, RunTask(w)
      PROVE  Queue!Finish(w)
  BY <1>5 DEF RunTask, PoolInv, WorkerHolds, Queue!Finish, poolVars, mainVars, Closing
<1>6. ASSUME NEW w \in Workers, CancelledInTask(w)
      PROVE  Queue!Abandon(w)
  <2>1. job[w] # NoTask /\ Closing
    BY <1>6 DEF CancelledInTask, PoolInv, WorkerHolds, Shutdown, TypeOK, MainPC, Closing
  <2> QED
    BY <1>6, <2>1 DEF CancelledInTask, Queue!Abandon, poolVars, mainVars, histVars, Closing
<1>7. ASSUME NEW w \in Workers,
             WorkLock(w) \/ WorkCheck(w) \/ WorkUnlock(w) \/ CancelledInWait(w)
               \/ CleanupHandler(w) \/ SpuriousWakeup(w)
      PROVE  UNCHANGED <<tasks, job, done, Closing>>
  BY <1>7
     DEF WorkLock, WorkCheck, WorkUnlock, CancelledInWait, CleanupHandler, SpuriousWakeup,
         poolVars, mainVars, histVars, Closing
<1> QED
  BY <1>1, <1>2, <1>3, <1>4, <1>5, <1>6, <1>7
     DEF Next, Client, AddStep, Worker, WorkStep, RunStep, Queue!AbsNext

(* Tasks start in the order they were added, each at most once and each by  *)
(* one worker, and only a closing pool abandons one: the list, the counter, *)
(* the mutex and the condition variable implement the abstract queue, for   *)
(* any number of workers, clients and tasks (thpool.c:59-158).              *)
THEOREM PoolImplementsQueue == Spec => ImplementsTaskQueue
<1>1. Init => Queue!AbsInit
  BY DEF Init, Queue!AbsInit, Closing
<1> QED
  BY <1>1, StepImplements, FreshAlways, PoolInvariant, PTL
     DEF Spec, ImplementsTaskQueue, Queue!AbsSpec, Queue!absVars
=============================================================================
