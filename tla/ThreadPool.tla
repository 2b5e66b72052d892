----------------------------- MODULE ThreadPool -----------------------------
(***************************************************************************)
(* One pool of src/Chat/src/thpool.c: a singly linked list of tasks with a *)
(* counter, one mutex and one condition variable, NUM_THREADS workers that *)
(* loop in Thpool_routine, and the threads that call Thpool_add_task.      *)
(* main() creates the pool and destroys it (chat.c) once the threads that  *)
(* add tasks have ended.                                                   *)
(*                                                                         *)
(* A step is what a thread does between two points where another thread    *)
(* can see a difference: taking the mutex, each store to the list and to   *)
(* the counter, the wait, the unlock and the run of the task are separate  *)
(* actions.  A definition Name_Bug is no part of the model: it is a broken *)
(* form of Name that PROJECT.json uses to show what a property detects.    *)
(*                                                                         *)
(* Bound: Tasks is finite and each element of it is the task_t of one call *)
(* of Thpool_add_task, so a behaviour has at most Cardinality(Tasks) calls;*)
(* MaxSpurious bounds how often a condition wait returns unprompted.       *)
(***************************************************************************)
EXTENDS Naturals, Sequences, FiniteSets

CONSTANTS
  Workers,        (* the NUM_THREADS pool threads                          *)
  Clients,        (* the threads that call Thpool_add_task                 *)
  Main,           (* the thread that creates and destroys the pool         *)
  Tasks,          (* task_t nodes, one per call of Thpool_add_task         *)
  NoThread,       (* owner of a free mutex                                 *)
  NoTask,         (* value of a task pointer that points to nothing        *)
  MaxSpurious     (* bound on the spurious wakeups of a behaviour          *)

ASSUME ThreadsAssumption ==
  /\ Workers # {}
  /\ Workers \cap Clients = {}
  /\ Main \notin Workers \cup Clients
  /\ NoThread \notin Workers \cup Clients \cup {Main}
  /\ NoTask \notin Tasks
  /\ MaxSpurious \in Nat

VARIABLES
  tasks,          (* pool->tasks, the linked list as a sequence            *)
  counter,        (* pool->counter                                         *)
  mutex,          (* owner of pool->mutex                                  *)
  wpc,            (* where each worker is in Thpool_routine                *)
  job,            (* the local variable job (and first) of each worker     *)
  cpc,            (* where each client is in Thpool_add_task               *)
  new,            (* the local variable new of each client                 *)
  mpc,            (* where main is in Thpool_create / Thpool_destroy       *)
  cancelled,      (* workers for which pthread_cancel has been called      *)
  spurious,       (* spurious wakeups so far                               *)
  submitted,      (* task_t nodes some client has allocated                *)
  done            (* tasks that were run to the end and freed              *)

vars == <<tasks, counter, mutex, wpc, job, cpc, new, mpc, cancelled,
          spurious, submitted, done>>

poolVars   == <<tasks, counter>>
workerVars == <<wpc, job>>
clientVars == <<cpc, new>>
mainVars   == <<mpc, cancelled>>
histVars   == <<spurious, submitted, done>>

WorkerPC == {"unborn", "lock", "check", "wait", "woken", "take", "unlock",
             "run", "cleanup", "exited"}
ClientPC == {"idle", "lock", "append", "count", "unlock", "stopped"}
MainPC   == {"create", "running", "dlock", "dunlock", "cancel", "freed",
             "leaked", "crashed"}

Threads == Workers \cup Clients \cup {Main}

(* pool->tasks as the code reads it: its length, its head, what is left     *)
(* without the head, and the list with a node hung behind the last one.     *)
Nodes            == Len(tasks)
First_NotCopied  == NoTask
First            == Head(tasks)
Rest_StillLinked == tasks
Rest             == Tail(tasks)
Extended_InFront(t) == <<t>> \o tasks
Extended(t)         == Append(tasks, t)

Goto(w, label)  == wpc' = [wpc EXCEPT ![w] = label]
CGoto(c, label) == cpc' = [cpc EXCEPT ![c] = label]

(* pthread_mutex_lock and pthread_mutex_unlock of pool->mutex. *)
Lock_Unguarded(t) == mutex' = t
Lock(t)           == mutex = NoThread /\ mutex' = t
Unlock            == mutex' = NoThread

Init ==
  /\ tasks = <<>>
  /\ counter = 0
  /\ mutex = NoThread
  /\ wpc = [w \in Workers |-> "unborn"]
  /\ job = [w \in Workers |-> NoTask]
  /\ cpc = [c \in Clients |-> "idle"]
  /\ new = [c \in Clients |-> NoTask]
  /\ mpc = "create"
  /\ cancelled = {}
  /\ spurious = 0
  /\ submitted = {}
  /\ done = {}

-----------------------------------------------------------------------------
(***************************************************************************)
(* Thpool_create: the loop of pthread_create calls.  When one of them      *)
(* fails, Thpool_destroy is called on the half-built pool.                 *)
(***************************************************************************)
CreateThread(w) ==
  /\ mpc = "create"
  /\ wpc[w] = "unborn"
  /\ Goto(w, "lock")
  /\ UNCHANGED <<poolVars, mutex, job, clientVars, mainVars, histVars>>

CreateReturns ==
  /\ mpc = "create"
  /\ \A w \in Workers : wpc[w] # "unborn"
  /\ mpc' = "running"
  /\ UNCHANGED <<poolVars, mutex, workerVars, clientVars, cancelled, histVars>>

CreateFails ==
  /\ mpc = "create"
  /\ \E w \in Workers : wpc[w] = "unborn"
  /\ mpc' = "dlock"
  /\ UNCHANGED <<poolVars, mutex, workerVars, clientVars, cancelled, histVars>>

-----------------------------------------------------------------------------
(***************************************************************************)
(* Thpool_add_task, called by the server thread (receive pool) and by the  *)
(* command thread (send pool).                                             *)
(***************************************************************************)

(* The node is allocated and filled before the mutex is taken. *)
AddTask(c, t) ==
  /\ mpc = "running"
  /\ cpc[c] = "idle"
  /\ t \notin submitted
  /\ submitted' = submitted \cup {t}
  /\ new' = [new EXCEPT ![c] = t]
  /\ CGoto(c, "lock")
  /\ UNCHANGED <<poolVars, mutex, workerVars, mainVars, spurious, done>>

AddLock(c) ==
  /\ cpc[c] = "lock"
  /\ Lock(c)
  /\ CGoto(c, "append")
  /\ UNCHANGED <<poolVars, workerVars, new, mainVars, histVars>>

(* Either the list is empty and new becomes its head, or new is hung behind *)
(* the last node: both append to the sequence.                              *)
AddAppend(c) ==
  /\ cpc[c] = "append"
  /\ tasks' = Extended(new[c])
  /\ CGoto(c, "count")
  /\ UNCHANGED <<counter, mutex, workerVars, new, mainVars, histVars>>

(* pthread_cond_signal wakes one of the threads blocked in the wait. *)
Waiting == {w \in Workers : wpc[w] = "wait"}

SignalOne_Never == UNCHANGED wpc
SignalOne ==
  IF Waiting = {} THEN UNCHANGED wpc
  ELSE \E w \in Waiting : Goto(w, "woken")

AddCount(c) ==
  /\ cpc[c] = "count"
  /\ counter' = counter + 1
  /\ SignalOne
  /\ CGoto(c, "unlock")
  /\ UNCHANGED <<tasks, mutex, job, new, mainVars, histVars>>

AddUnlock(c) ==
  /\ cpc[c] = "unlock"
  /\ Unlock
  /\ CGoto(c, "idle")
  /\ new' = [new EXCEPT ![c] = NoTask]
  /\ UNCHANGED <<poolVars, workerVars, mainVars, histVars>>

(* The command thread leaves with pthread_exit; the server thread is        *)
(* cancelled, which takes effect in accept() or printf, never inside        *)
(* Thpool_add_task.                                                         *)
ClientStops(c) ==
  /\ mpc = "running"
  /\ cpc[c] = "idle"
  /\ CGoto(c, "stopped")
  /\ UNCHANGED <<poolVars, mutex, workerVars, new, mainVars, histVars>>

-----------------------------------------------------------------------------
(***************************************************************************)
(* Thpool_routine, the loop of a worker.                                   *)
(***************************************************************************)

(* Both at the start and before pthread_cond_wait returns the mutex is      *)
(* taken, and the loop tests its condition, again if need be.               *)
WorkLock_NoRecheck(w) ==
  /\ wpc[w] \in {"lock", "woken"}
  /\ Lock(w)
  /\ Goto(w, IF wpc[w] = "woken" THEN "take" ELSE "check")
  /\ UNCHANGED <<poolVars, job, clientVars, mainVars, histVars>>

WorkLock(w) ==
  /\ wpc[w] \in {"lock", "woken"}
  /\ Lock(w)
  /\ Goto(w, "check")
  /\ UNCHANGED <<poolVars, job, clientVars, mainVars, histVars>>

(* The loop is left with the mutex held, or pthread_cond_wait releases it   *)
(* and blocks in one step.                                                  *)
WorkCheck(w) ==
  /\ wpc[w] = "check"
  /\ \/ counter # 0 /\ Goto(w, "take") /\ UNCHANGED mutex
     \/ counter = 0 /\ Goto(w, "wait") /\ Unlock
  /\ UNCHANGED <<poolVars, job, clientVars, mainVars, histVars>>

(* A wait may return although nobody signalled; a thread that is already    *)
(* cancelled ends in the wait instead.                                      *)
SpuriousWakeup(w) ==
  /\ wpc[w] = "wait"
  /\ w \notin cancelled
  /\ spurious < MaxSpurious
  /\ spurious' = spurious + 1
  /\ Goto(w, "woken")
  /\ UNCHANGED <<poolVars, mutex, job, clientVars, mainVars, submitted, done>>

(* job = *first; the node leaves the list, the counter follows. *)
WorkTake(w) ==
  /\ wpc[w] = "take"
  /\ job' = [job EXCEPT ![w] = First]
  /\ tasks' = Rest
  /\ counter' = counter - 1
  /\ Goto(w, "unlock")
  /\ UNCHANGED <<mutex, clientVars, mainVars, histVars>>

WorkUnlock(w) ==
  /\ wpc[w] = "unlock"
  /\ Unlock
  /\ Goto(w, "run")
  /\ UNCHANGED <<poolVars, job, clientVars, mainVars, histVars>>

(* The routine runs without the pool's mutex; then argument and node are    *)
(* freed and the loop starts again.                                         *)
RunTask(w) ==
  /\ wpc[w] = "run"
  /\ done' = done \cup {job[w]}
  /\ job' = [job EXCEPT ![w] = NoTask]
  /\ Goto(w, "lock")
  /\ UNCHANGED <<poolVars, mutex, clientVars, mainVars, spurious, submitted>>

-----------------------------------------------------------------------------
(***************************************************************************)
(* Deferred cancellation.  A worker notices a pending pthread_cancel in    *)
(* the condition wait or at a call inside its task (printf, connect, send, *)
(* recv, close); pthread_mutex_lock is no cancellation point.              *)
(***************************************************************************)

(* Cancelled in the wait, or on the way out of it: the mutex is taken before *)
(* the handler runs.                                                         *)
CancelledInWait(w) ==
  /\ w \in cancelled
  /\ wpc[w] \in {"wait", "woken"}
  /\ Lock(w)
  /\ Goto(w, "cleanup")
  /\ UNCHANGED <<poolVars, job, clientVars, mainVars, histVars>>

CleanupHandler_KeepsMutex(w) ==
  /\ wpc[w] = "cleanup"
  /\ Goto(w, "exited")
  /\ UNCHANGED <<poolVars, mutex, job, clientVars, mainVars, histVars>>

(* cleanup_handler unlocks the pool's mutex and the thread ends. *)
CleanupHandler(w) ==
  /\ wpc[w] = "cleanup"
  /\ Unlock
  /\ Goto(w, "exited")
  /\ UNCHANGED <<poolVars, job, clientVars, mainVars, histVars>>

(* Cancelled inside its task: no handler is installed there, the rest of    *)
(* the task and both calls of free are skipped.                             *)
CancelledInTask(w) ==
  /\ w \in cancelled
  /\ wpc[w] = "run"
  /\ job' = [job EXCEPT ![w] = NoTask]
  /\ Goto(w, "exited")
  /\ UNCHANGED <<poolVars, mutex, clientVars, mainVars, histVars>>

-----------------------------------------------------------------------------
(***************************************************************************)
(* Thpool_destroy, called by main once the command thread and the server   *)
(* thread have been joined, or by Thpool_create when it fails.             *)
(***************************************************************************)
Destroy ==
  /\ mpc = "running"
  /\ \A c \in Clients : cpc[c] = "stopped"
  /\ mpc' = "dlock"
  /\ UNCHANGED <<poolVars, mutex, workerVars, clientVars, cancelled, histVars>>

DestroyLock ==
  /\ mpc = "dlock"
  /\ Lock(Main)
  /\ mpc' = "dunlock"
  /\ UNCHANGED <<poolVars, workerVars, clientVars, cancelled, histVars>>

DestroyUnlock ==
  /\ mpc = "dunlock"
  /\ Unlock
  /\ mpc' = "cancel"
  /\ UNCHANGED <<poolVars, workerVars, clientVars, cancelled, histVars>>

(* pthread_cancel, once per array element.  After a failed creation the     *)
(* rest of the array was never written: the call may find no such thread    *)
(* or follow a wild handle.                                                 *)
DestroyCancel(w) ==
  /\ mpc = "cancel"
  /\ w \notin cancelled
  /\ cancelled' = cancelled \cup {w}
  /\ \/ UNCHANGED mpc
     \/ wpc[w] = "unborn" /\ mpc' = "crashed"
  /\ UNCHANGED <<poolVars, mutex, workerVars, clientVars, histVars>>

(* pthread_join returns for every worker that was started when it has       *)
(* ended; Thpool_free follows unless the last join reported an error, which *)
(* only a handle that was never written can make it do.                     *)
Ended_Assumed(w) == TRUE
Ended(w)         == wpc[w] \in {"exited", "unborn"}

DestroyJoin ==
  /\ mpc = "cancel"
  /\ cancelled = Workers
  /\ \A w \in Workers : Ended(w)
  /\ \/ mpc' = "freed"
     \/ /\ \E w \in Workers : wpc[w] = "unborn"
        /\ mpc' \in {"leaked", "crashed"}
  /\ UNCHANGED <<poolVars, mutex, workerVars, clientVars, cancelled, histVars>>

-----------------------------------------------------------------------------
Create == CreateReturns \/ CreateFails \/ \E w \in Workers : CreateThread(w)

AddStep(c) == AddLock(c) \/ AddAppend(c) \/ AddCount(c) \/ AddUnlock(c)

Client(c) == AddStep(c) \/ ClientStops(c) \/ \E t \in Tasks : AddTask(c, t)

WorkStep(w) ==
  \/ WorkLock(w) \/ WorkCheck(w) \/ WorkTake(w) \/ WorkUnlock(w)
  \/ CancelledInWait(w) \/ CleanupHandler(w)

RunStep(w) == RunTask(w) \/ CancelledInTask(w)

Worker(w) == WorkStep(w) \/ RunStep(w) \/ SpuriousWakeup(w)

DestroyStep ==
  DestroyLock \/ DestroyUnlock \/ DestroyJoin \/ \E w \in Workers : DestroyCancel(w)

Next ==
  /\ mpc # "crashed"
  /\ \/ Create
     \/ \E c \in Clients : Client(c)
     \/ \E w \in Workers : Worker(w)
     \/ Destroy \/ DestroyStep

Spec == Init /\ [][Next]_vars

(***************************************************************************)
(* Threads run: each goes on while its next step is enabled.  Nothing is   *)
(* assumed of the user, of spurious wakeups or of the order in which the   *)
(* mutex is granted.  RunStep says that a task returns or, once cancelled, *)
(* reaches a cancellation point; it is what the tasks owe to the pool.     *)
(***************************************************************************)
Fairness ==
  /\ \A c \in Clients : WF_vars(mpc # "crashed" /\ AddStep(c))
  /\ \A w \in Workers : /\ WF_vars(mpc # "crashed" /\ WorkStep(w))
                        /\ WF_vars(mpc # "crashed" /\ RunStep(w))
  /\ WF_vars(mpc # "crashed" /\ Create)
  /\ WF_vars(mpc # "crashed" /\ DestroyStep)

FairSpec == Spec /\ Fairness

-----------------------------------------------------------------------------
(***************************************************************************)
(* Properties                                                              *)
(***************************************************************************)
ListOK == tasks \in Seq(Tasks)

TypeOK ==
  /\ ListOK
  /\ counter \in Nat
  /\ mutex \in Threads \cup {NoThread}
  /\ wpc \in [Workers -> WorkerPC]
  /\ job \in [Workers -> Tasks \cup {NoTask}]
  /\ cpc \in [Clients -> ClientPC]
  /\ new \in [Clients -> Tasks \cup {NoTask}]
  /\ mpc \in MainPC
  /\ cancelled \in SUBSET Workers
  /\ spurious \in 0..MaxSpurious
  /\ submitted \in SUBSET Tasks
  /\ done \in SUBSET Tasks

(* Where a thread stands when it owns pool->mutex. *)
WorkerInside(w) == wpc[w] \in {"check", "take", "unlock", "cleanup"}
ClientInside(c) == cpc[c] \in {"append", "count", "unlock"}

(* Whoever touches the list or the counter owns pool->mutex, and a free     *)
(* mutex means nobody is between lock and unlock, in the cancellation       *)
(* handler either (thpool.c:75-103, 128-147, 108-116).                      *)
MutexHeldInside ==
  /\ \A w \in Workers : WorkerInside(w) <=> mutex = w
  /\ \A c \in Clients : ClientInside(c) <=> mutex = c
  /\ mpc = "dunlock" <=> mutex = Main

(* The counter the workers test counts the nodes of the list, except        *)
(* between the two stores of Thpool_add_task, which nobody else can observe *)
(* (thpool.c:78-96, 143-144).                                               *)
CounterAgrees ==
  IF \E c \in Clients : cpc[c] = "count"
    THEN Nodes = counter + 1
    ELSE Nodes = counter

(* A worker that has left the wait loop finds a node to take: pool->tasks   *)
(* is not NULL where thpool.c:141 dereferences it, whatever wakeups were    *)
(* spurious or overtaken by another worker.                                 *)
TakesANode == \A w \in Workers : wpc[w] = "take" => Nodes > 0

(* While the pool is open a task in the list never meets a pool of sleeping *)
(* workers: some started worker is awake or woken (thpool.c:82, 99, 132).   *)
NoLostWakeup ==
  /\ mpc = "running"
  /\ counter > 0
  => \E w \in Workers : wpc[w] \notin {"wait", "unborn", "exited"}

(* When Thpool_free releases the pool, no thread is left that could touch   *)
(* it: the workers have ended, nobody owns or waits for the mutex           *)
(* (thpool.c:161-217).                                                      *)
FreedPoolIsUnused ==
  mpc = "freed" =>
    /\ mutex = NoThread
    /\ \A w \in Workers : wpc[w] \in {"exited", "unborn"}
    /\ \A c \in Clients : cpc[c] \in {"idle", "stopped"}

(* The pool keeps the promise of TaskQueue: tasks start in the order they   *)
(* were added, each once, and only a closing pool abandons one.             *)
Closing == mpc \notin {"create", "running"}

Queue == INSTANCE TaskQueue WITH
  queue <- tasks, running <- job, finished <- done, closed <- Closing

ImplementsTaskQueue == Queue!AbsSpec

(* A task that entered the list is run to the end unless the pool is being  *)
(* destroyed, although workers compete for an unfair mutex and signals wake *)
(* one of them at a time (thpool.c:118-158).                                *)
EveryTaskRuns ==
  \A t \in Tasks : t \in Queue!InQueue ~> (t \in done \/ Closing)

(* Thpool_destroy returns: cancellation reaches workers in the wait, in a   *)
(* task and between the two (thpool.c:161-199).                             *)
DestroyReturns ==
  mpc = "dlock" ~> mpc \in {"freed", "leaked", "crashed"}
=============================================================================
