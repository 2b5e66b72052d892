----------------------------- MODULE Lifecycle -----------------------------
(***************************************************************************)
(* The life of one process, from Tasks_start to Tasks_clean in main of     *)
(* src/Chat/src/chat.c: both pools, the server and the command thread, the *)
(* mutex of task.c and the list, as far as it matters who may still use    *)
(* them.  The pools themselves are those of ThreadPool: a task is taken,   *)
(* runs, and may be cancelled where it prints, connects or sends.          *)
(*                                                                         *)
(* A task is what the tasks of task.c have in common: it takes the mutex   *)
(* any number of times and returns.  Both calls of pthread_create in main  *)
(* succeed.  A definition Name_Bug is no part of the model: it is a broken *)
(* form of Name that PROJECT.json uses to show what a property detects.    *)
(*                                                                         *)
(* Bound: MaxPending is the number of tasks that wait in one pool.         *)
(***************************************************************************)
EXTENDS Naturals

CONSTANTS
  SendWorkers, RecvWorkers,     (* the threads of the two pools            *)
  Cmd, Nobody,                  (* other owners of the mutex               *)
  MaxPending

ASSUME LifecycleAssumption ==
  /\ SendWorkers \cap RecvWorkers = {}
  /\ Cmd \notin SendWorkers \cup RecvWorkers
  /\ Nobody \notin SendWorkers \cup RecvWorkers \cup {Cmd}
  /\ MaxPending \in Nat

VARIABLES
  main,           (* where main is                                         *)
  server,         (* where the server thread is                            *)
  cmd,            (* where the command thread is                           *)
  worker,         (* where each pool thread is                             *)
  cancelled,      (* pool threads that main has cancelled                  *)
  pool,           (* is a pool there, or has it been freed?                *)
  pending,        (* tasks in the list of each pool                        *)
  mutex,          (* owner of the mutex of task.c                          *)
  list            (* is the list there, or has it been deleted?            *)

vars == <<main, server, cmd, worker, cancelled, pool, pending, mutex, list>>

Pools      == {"send", "recv"}
Workers    == SendWorkers \cup RecvWorkers
Members(p) == IF p = "send" THEN SendWorkers ELSE RecvWorkers
PoolOf(w)  == IF w \in SendWorkers THEN "send" ELSE "recv"

Running == main \notin {"exited", "crashed"}

Init ==
  /\ main = "start"
  /\ server = "unborn"
  /\ cmd = "unborn"
  /\ worker = [w \in Workers |-> "unborn"]
  /\ cancelled = {}
  /\ pool = [p \in Pools |-> "none"]
  /\ pending = [p \in Pools |-> 0]
  /\ mutex = Nobody
  /\ list = "none"

-----------------------------------------------------------------------------
(* main, on its way up.  Each label names what main does next. *)
TasksStart ==
  /\ main = "start"
  /\ main' \in {"create recv", "exited"}
  /\ UNCHANGED <<server, cmd, worker, cancelled, pool, pending, mutex, list>>

(* Thpool_create; what has been built so far is torn down if it fails.      *)
CreatePool(p, up, down) ==
  /\ main = (IF p = "recv" THEN "create recv" ELSE "create send")
  /\ \/ /\ main' = up
        /\ pool' = [pool EXCEPT ![p] = "open"]
        /\ worker' = [w \in Workers |-> IF w \in Members(p) THEN "idle" ELSE worker[w]]
     \/ /\ main' = down
        /\ UNCHANGED <<pool, worker>>
  /\ UNCHANGED <<server, cmd, cancelled, pending, mutex, list>>

StartThreads ==
  /\ main = "start threads"
  /\ main' = "join cmd"
  /\ server' = "init"
  /\ cmd' = "reading"
  /\ UNCHANGED <<worker, cancelled, pool, pending, mutex, list>>

(* main, on its way down: pthread_join, pthread_cancel, pthread_join. *)
JoinCmd ==
  /\ main = "join cmd"
  /\ cmd = "ended"
  /\ main' = "join server"
  /\ UNCHANGED <<server, cmd, worker, cancelled, pool, pending, mutex, list>>

JoinServer_Skipped ==
  /\ main = "join server"
  /\ main' = "cancel send"
  /\ UNCHANGED <<server, cmd, worker, cancelled, pool, pending, mutex, list>>

JoinServer ==
  /\ main = "join server"
  /\ server = "ended"
  /\ main' = "cancel send"
  /\ UNCHANGED <<server, cmd, worker, cancelled, pool, pending, mutex, list>>

(* Thpool_destroy cancels the workers, joins them and frees the pool.       *)
CancelPool(p) ==
  /\ main = (IF p = "send" THEN "cancel send" ELSE "cancel recv")
  /\ main' = (IF p = "send" THEN "join send" ELSE "join recv")
  /\ cancelled' = cancelled \cup Members(p)
  /\ UNCHANGED <<server, cmd, worker, pool, pending, mutex, list>>

Joined_Assumed(p) == TRUE
Joined(p)         == \A w \in Members(p) : worker[w] = "ended"

DestroyPool(p) ==
  /\ main = (IF p = "send" THEN "join send" ELSE "join recv")
  /\ Joined(p)
  /\ main' = (IF p = "send" THEN "free send" ELSE "free recv")
  /\ pool' = [pool EXCEPT ![p] = "freed"]
  /\ UNCHANGED <<server, cmd, worker, cancelled, pending, mutex, list>>

(* main calls Thpool_free once more: undefined, it may go well.             *)
FreeAgain(p) ==
  /\ main = (IF p = "send" THEN "free send" ELSE "free recv")
  /\ main' \in {IF p = "send" THEN "cancel recv" ELSE "clean", "crashed"}
  /\ UNCHANGED <<server, cmd, worker, cancelled, pool, pending, mutex, list>>

(* Tasks_clean deletes the list, if there is one, and the mutex.            *)
TasksClean ==
  /\ main = "clean"
  /\ main' = "exited"
  /\ list' = IF list = "there" THEN "deleted" ELSE list
  /\ UNCHANGED <<server, cmd, worker, cancelled, pool, pending, mutex>>

-----------------------------------------------------------------------------
(* Server_thread: List_init and listen may fail, then the thread ends and   *)
(* the process goes on without it.  A cancelled server thread ends before   *)
(* or after List_init, or in accept.                                        *)
ServerStarts ==
  /\ server = "init"
  /\ \/ server' \in {"serving", "ended"} /\ list' = "there"
     \/ server' = "ended" /\ UNCHANGED list
  /\ UNCHANGED <<main, cmd, worker, cancelled, pool, pending, mutex>>

ServerCancelled ==
  /\ main = "join server"
  /\ server \in {"init", "serving"}
  /\ server' = "ended"
  /\ UNCHANGED <<main, cmd, worker, cancelled, pool, pending, mutex, list>>

(* Thpool_add_task, by the command thread or the server thread.             *)
Submit(p) ==
  /\ IF p = "send" THEN cmd = "reading" ELSE server = "serving"
  /\ pending[p] < MaxPending
  /\ pending' = [pending EXCEPT ![p] = @ + 1]
  /\ UNCHANGED <<main, server, cmd, worker, cancelled, pool, mutex, list>>

-----------------------------------------------------------------------------
(* /quit: send_quit reads the own name from the head of the list, which is  *)
(* a null pointer before List_init and after it has failed, then tells the  *)
(* members under the mutex; the thread ends.                                *)
Quit ==
  /\ cmd = "reading"
  /\ IF list = "there" THEN cmd' = "lock" /\ UNCHANGED main
                       ELSE main' = "crashed" /\ UNCHANGED cmd
  /\ UNCHANGED <<server, worker, cancelled, pool, pending, mutex, list>>

QuitLock ==
  /\ cmd = "lock"
  /\ mutex = Nobody
  /\ mutex' = Cmd
  /\ cmd' = "inside"
  /\ UNCHANGED <<main, server, worker, cancelled, pool, pending, list>>

QuitDone_KeepsMutex ==
  /\ cmd = "inside"
  /\ cmd' = "ended"
  /\ UNCHANGED <<main, server, worker, cancelled, pool, pending, mutex, list>>

QuitDone ==
  /\ cmd = "inside"
  /\ mutex' = Nobody
  /\ cmd' = "ended"
  /\ UNCHANGED <<main, server, worker, cancelled, pool, pending, list>>

-----------------------------------------------------------------------------
(* A pool thread and its task. *)
Goto(w, label) == worker' = [worker EXCEPT ![w] = label]

HasTask_Assumed(p) == TRUE
HasTask(p)         == pending[p] > 0

TakeTask(w) ==
  /\ worker[w] = "idle"
  /\ HasTask(PoolOf(w))
  /\ pending' = [pending EXCEPT ![PoolOf(w)] = @ - 1]
  /\ Goto(w, "task")
  /\ UNCHANGED <<main, server, cmd, cancelled, pool, mutex, list>>

TaskGoesOn(w) ==
  /\ worker[w] = "task"
  /\ Goto(w, "lock") \/ Goto(w, "idle")
  /\ UNCHANGED <<main, server, cmd, cancelled, pool, pending, mutex, list>>

TaskLock(w) ==
  /\ worker[w] = "lock"
  /\ mutex = Nobody
  /\ mutex' = w
  /\ Goto(w, "inside")
  /\ UNCHANGED <<main, server, cmd, cancelled, pool, pending, list>>

(* Every task unlocks, except recv_quit when the name is not listed.        *)
TaskUnlock(w) ==
  /\ worker[w] = "inside"
  /\ \/ mutex' = Nobody
     \/ w \in RecvWorkers /\ UNCHANGED mutex
  /\ Goto(w, "task")
  /\ UNCHANGED <<main, server, cmd, cancelled, pool, pending, list>>

(* Deferred cancellation in the pool's condition wait or at a call that     *)
(* prints or sends.  pthread_mutex_lock is no cancellation point; nothing   *)
(* unlocks the mutex of a task that is cancelled inside.                    *)
TaskCancelled(w) ==
  /\ w \in cancelled
  /\ worker[w] \in {"idle", "task", "inside"}
  /\ Goto(w, "ended")
  /\ UNCHANGED <<main, server, cmd, cancelled, pool, pending, mutex, list>>

-----------------------------------------------------------------------------
MainStep ==
  \/ TasksStart \/ StartThreads \/ JoinCmd \/ JoinServer \/ TasksClean
  \/ CreatePool("recv", "create send", "clean")
  \/ CreatePool("send", "start threads", "cancel recv")
  \/ \E p \in Pools : CancelPool(p) \/ DestroyPool(p) \/ FreeAgain(p)

ServerStep == ServerStarts \/ ServerCancelled
CmdStep    == QuitLock \/ QuitDone
TaskStep(w) == TakeTask(w) \/ TaskGoesOn(w) \/ TaskLock(w) \/ TaskUnlock(w)

Next ==
  /\ Running
  /\ \/ MainStep \/ ServerStep \/ CmdStep \/ Quit
     \/ \E p \in Pools : Submit(p)
     \/ \E w \in Workers : TaskStep(w) \/ TaskCancelled(w)

Spec == Init /\ [][Next]_vars

(***************************************************************************)
(* The threads run, and a mutex that is free again and again is granted at *)
(* some time to whoever waits for it.  A cancelled thread does not pass    *)
(* cancellation points for ever.  Nothing is assumed of the user.          *)
(***************************************************************************)
Fairness ==
  /\ WF_vars(Running /\ MainStep)
  /\ WF_vars(Running /\ ServerStep)
  /\ SF_vars(Running /\ CmdStep)
  /\ \A w \in Workers : /\ WF_vars(Running /\ (TaskGoesOn(w) \/ TaskUnlock(w)))
                        /\ SF_vars(Running /\ TaskLock(w))
                        /\ SF_vars(Running /\ TaskCancelled(w))

FairSpec == Spec /\ Fairness

-----------------------------------------------------------------------------
(***************************************************************************)
(* Properties                                                              *)
(***************************************************************************)
MainPC ==
  {"start", "create recv", "create send", "start threads", "join cmd", "join server",
   "cancel send", "join send", "free send", "cancel recv", "join recv", "free recv",
   "clean", "exited", "crashed"}

TypeOK ==
  /\ main \in MainPC
  /\ server \in {"unborn", "init", "serving", "ended"}
  /\ cmd \in {"unborn", "reading", "lock", "inside", "ended"}
  /\ worker \in [Workers -> {"unborn", "idle", "task", "lock", "inside", "ended"}]
  /\ cancelled \in SUBSET Workers
  /\ pool \in [Pools -> {"none", "open", "freed"}]
  /\ pending \in [Pools -> 0..MaxPending]
  /\ mutex \in Workers \cup {Cmd, Nobody}
  /\ list \in {"none", "there", "deleted"}

(* A pool outlives its users: when it is freed its workers have ended, and  *)
(* so has the thread that adds tasks to it.  ThreadPool assumes the latter  *)
(* (chat.c:153-162, server.c:180-221, chat.c:61-79).                        *)
PoolsOutliveUsers ==
  \A p \in Pools :
    pool[p] = "freed" =>
      /\ \A w \in Members(p) : worker[w] = "ended"
      /\ (IF p = "send" THEN cmd ELSE server) \in {"unborn", "ended"}

(* Whoever may touch the list or the mutex of task.c has ended before       *)
(* Tasks_clean destroys them, on every way through main, the failed starts  *)
(* included (chat.c:127-164, task.c:54-69).                                 *)
ListOutlivesTasks ==
  main = "clean" \/ list = "deleted" =>
    /\ \A w \in Workers : worker[w] \in {"unborn", "ended"}
    /\ cmd \in {"unborn", "ended"} /\ server \in {"unborn", "ended"}

(* After /quit the process ends, unless a worker was cancelled while it     *)
(* owned the mutex of task.c, or left it locked: nothing else can keep a    *)
(* pthread_join of main waiting (chat.c:153-165, thpool.c:184-192).         *)
Stuck == mutex \in Workers /\ worker[mutex] # "inside"

QuitEnds == cmd = "lock" ~> (~Running \/ Stuck)
=============================================================================
