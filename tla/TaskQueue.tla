----------------------------- MODULE TaskQueue -----------------------------
(***************************************************************************)
(* What a thread pool of thpool.c promises to the threads that use it:     *)
(* every accepted task is started at most once, in the order in which the  *)
(* tasks were accepted, by one worker that runs one task at a time, and    *)
(* nothing is accepted or dropped behind the owner's back: a running task  *)
(* is abandoned only after the pool has been closed.                       *)
(*                                                                         *)
(* The module says nothing of mutexes, condition variables or counters:    *)
(* ThreadPool.tla implements it with those.                                *)
(***************************************************************************)
EXTENDS Naturals, Sequences

CONSTANTS
  Workers,      (* the threads that run tasks                              *)
  Tasks,        (* the tasks that may ever be submitted                    *)
  NoTask        (* what a worker runs when it runs nothing                 *)

VARIABLES
  queue,        (* accepted tasks no worker has started, oldest first      *)
  running,      (* running[w]: the task worker w is executing              *)
  finished,     (* tasks whose routine has returned                        *)
  closed        (* has the owner started to destroy the pool?              *)

absVars == <<queue, running, finished, closed>>

InQueue == {queue[i] : i \in 1..Len(queue)}
InHand  == {running[w] : w \in Workers} \ {NoTask}

AbsInit ==
  /\ queue = <<>>
  /\ running = [w \in Workers |-> NoTask]
  /\ finished = {}
  /\ closed = FALSE

(* A task the pool has never seen joins the end of the queue. *)
Put(t) ==
  /\ ~closed
  /\ t \notin InQueue \cup InHand \cup finished
  /\ queue' = Append(queue, t)
  /\ UNCHANGED <<running, finished, closed>>

(* An idle worker takes the oldest task. *)
Start(w) ==
  /\ running[w] = NoTask
  /\ queue # <<>>
  /\ running' = [running EXCEPT ![w] = Head(queue)]
  /\ queue' = Tail(queue)
  /\ UNCHANGED <<finished, closed>>

(* The routine returns. *)
Finish(w) ==
  /\ running[w] # NoTask
  /\ finished' = finished \cup {running[w]}
  /\ running' = [running EXCEPT ![w] = NoTask]
  /\ UNCHANGED <<queue, closed>>

(* The worker is cancelled in the middle of its task. *)
Abandon(w) ==
  /\ closed
  /\ running[w] # NoTask
  /\ running' = [running EXCEPT ![w] = NoTask]
  /\ UNCHANGED <<queue, finished, closed>>

Close ==
  /\ ~closed
  /\ closed' = TRUE
  /\ UNCHANGED <<queue, running, finished>>

AbsNext ==
  \/ \E t \in Tasks : Put(t)
  \/ \E w \in Workers : Start(w) \/ Finish(w) \/ Abandon(w)
  \/ Close

AbsSpec == AbsInit /\ [][AbsNext]_absVars
=============================================================================
