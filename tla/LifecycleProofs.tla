--------------------------- MODULE LifecycleProofs ---------------------------
(***************************************************************************)
(* Theorems about Lifecycle, for any number of pool threads: the types,    *)
(* and that neither a pool nor the list is destroyed while a thread that   *)
(* may use it is left.  Neither property is inductive.  LifecycleInv adds  *)
(* what main knows at each label: who has not been born yet on the way up, *)
(* and who has been joined on the way down.                                *)
(***************************************************************************)
EXTENDS Lifecycle, TLAPS

Rising    == {"start", "create recv", "create send", "start threads"}
RecvFalls == {"cancel recv", "join recv"}
SendFalls == {"cancel send", "join send"}
SendGone  == {"free send", "free recv", "clean"} \cup RecvFalls
Absent(s) == s \in {"unborn", "ended"}

(* On the way up: no thread of main's runs, no pool has been freed. *)
WayUp ==
  /\ main \in Rising => /\ server = "unborn" /\ cmd = "unborn"
                        /\ \A p \in Pools : pool[p] # "freed"
  /\ main \in {"start", "create recv"} => \A w \in Workers : worker[w] = "unborn"
  /\ main = "create send" => \A w \in SendWorkers : worker[w] = "unborn"

(* On the way down: who has been joined stays joined. *)
WayDown ==
  /\ main \in {"join server"} \cup SendFalls \cup SendGone => Absent(cmd)
  /\ main \in SendFalls \cup SendGone => Absent(server)
  /\ main \in SendGone => \A w \in SendWorkers : Absent(worker[w])
  /\ main \in {"free recv", "clean"} => \A w \in RecvWorkers : Absent(worker[w])
  /\ list = "deleted" => main = "exited"

LifecycleInv ==
  /\ TypeOK
  /\ WayUp
  /\ WayDown
  /\ PoolsOutliveUsers
  /\ ListOutlivesTasks

-----------------------------------------------------------------------------
(* At the start nothing lives that could outlive anything. *)
LEMMA InitHolds == Init => LifecycleInv
<1> SUFFICES ASSUME Init PROVE LifecycleInv
  OBVIOUS
<1> USE DEF Init, Rising, RecvFalls, SendFalls, SendGone
<1>1. TypeOK
  BY LifecycleAssumption DEF TypeOK, MainPC, Pools
<1>2. WayUp /\ WayDown
  BY DEF WayUp, WayDown, Pools
<1>3. PoolsOutliveUsers /\ ListOutlivesTasks
  BY DEF PoolsOutliveUsers, ListOutlivesTasks, Pools
<1> QED
  BY <1>1, <1>2, <1>3 DEF LifecycleInv

(* Every step keeps the types. *)
LEMMA TypeStep == TypeOK /\ [Next]_vars => TypeOK'
<1> SUFFICES ASSUME TypeOK, [Next]_vars PROVE TypeOK'
  OBVIOUS
<1>1. ASSUME MainStep PROVE TypeOK'
  <2> USE DEF TypeOK, MainPC, Pools
  <2>1. CASE TasksStart \/ StartThreads \/ JoinCmd \/ JoinServer \/ TasksClean
    BY <2>1 DEF TasksStart, StartThreads, JoinCmd, JoinServer, TasksClean
  <2>2. CASE CreatePool("recv", "create send", "clean")
    BY <2>2 DEF CreatePool
  <2>3. CASE CreatePool("send", "start threads", "cancel recv")
    BY <2>3 DEF CreatePool
  <2>4. ASSUME NEW p \in Pools, CancelPool(p) \/ DestroyPool(p) \/ FreeAgain(p)
        PROVE  TypeOK'
    BY <2>4 DEF CancelPool, DestroyPool, FreeAgain, Members, Workers
  <2> QED
    BY <1>1, <2>1, <2>2, <2>3, <2>4 DEF MainStep
<1>2. ASSUME ServerStep \/ CmdStep \/ Quit PROVE TypeOK'
  BY <1>2 DEF TypeOK, MainPC, ServerStep, ServerStarts, ServerCancelled, CmdStep,
              QuitLock, QuitDone, Quit
<1>3. ASSUME NEW p \in Pools, Submit(p) PROVE TypeOK'
  <2>1. pending \in [Pools -> 0..MaxPending] /\ MaxPending \in Nat
    BY LifecycleAssumption DEF TypeOK
  <2>2. pending' = [pending EXCEPT ![p] = @ + 1] /\ pending[p] < MaxPending
    BY <1>3 DEF Submit
  <2>3. pending' \in [Pools -> 0..MaxPending]
    BY <2>1, <2>2
  <2> QED
    BY <1>3, <2>3 DEF TypeOK, Submit
<1>4. ASSUME NEW w \in Workers, TaskStep(w) \/ TaskCancelled(w) PROVE TypeOK'
  <2>1. CASE TakeTask(w)
    <3>1. pending \in [Pools -> 0..MaxPending] /\ MaxPending \in Nat
      BY LifecycleAssumption DEF TypeOK
    <3>2. PICK p \in Pools : pending' = [pending EXCEPT ![p] = @ - 1] /\ pending[p] > 0
      BY <2>1 DEF TakeTask, HasTask, PoolOf, Pools
    <3>3. pending' \in [Pools -> 0..MaxPending]
      BY <3>1, <3>2
    <3> QED
      BY <2>1, <3>3 DEF TypeOK, TakeTask, Goto
  <2>2. CASE TaskGoesOn(w) \/ TaskLock(w) \/ TaskUnlock(w) \/ TaskCancelled(w)
    BY <2>2 DEF TypeOK, TaskGoesOn, TaskLock, TaskUnlock, TaskCancelled, Goto
  <2> QED
    BY <1>4, <2>1, <2>2 DEF TaskStep
<1>5. CASE UNCHANGED vars
  BY <1>5 DEF TypeOK, vars
<1> QED
  BY <1>1, <1>2, <1>3, <1>4, <1>5 DEF Next

-----------------------------------------------------------------------------
(* What concerns the order of things: everything but the types. *)
Order == WayUp /\ WayDown /\ PoolsOutliveUsers /\ ListOutlivesTasks

(* Each step of main hands on what the next label needs: a failed start     *)
(* what has not been born, a join what has ended.                           *)
LEMMA MainOrder == LifecycleInv /\ MainStep => Order'
<1> SUFFICES ASSUME LifecycleInv, MainStep PROVE Order'
  OBVIOUS
<1>0. TypeOK /\ Order
  BY DEF LifecycleInv, Order
<1> USE <1>0 DEF Order, WayUp, WayDown, PoolsOutliveUsers, ListOutlivesTasks, Absent,
                 Rising, RecvFalls, SendFalls, SendGone, Pools, Workers
<1>1. CASE TasksStart
  BY <1>1 DEF TasksStart
<1>2. CASE StartThreads
  BY <1>2 DEF StartThreads
<1>3. CASE JoinCmd
  BY <1>3 DEF JoinCmd
<1>4. CASE JoinServer
  BY <1>4 DEF JoinServer
<1>5. CASE TasksClean
  BY <1>5 DEF TasksClean
<1>6. CASE CreatePool("recv", "create send", "clean")
  BY <1>6, LifecycleAssumption DEF CreatePool, Members, TypeOK
<1>7. CASE CreatePool("send", "start threads", "cancel recv")
  BY <1>7, LifecycleAssumption DEF CreatePool, Members, TypeOK
<1>8. ASSUME NEW p \in Pools, CancelPool(p) PROVE Order'
  BY <1>8 DEF CancelPool
<1>9. ASSUME NEW p \in Pools, DestroyPool(p) PROVE Order'
  BY <1>9 DEF DestroyPool, Joined, Members, TypeOK
<1>10. ASSUME NEW p \in Pools, FreeAgain(p) PROVE Order'
  BY <1>10 DEF FreeAgain
<1> QED
  BY <1>1, <1>2, <1>3, <1>4, <1>5, <1>6, <1>7, <1>8, <1>9, <1>10 DEF MainStep

(* No step of a thread brings back what has ended. *)
LEMMA ThreadOrder ==
  ASSUME LifecycleInv, Running,
         \/ ServerStep \/ CmdStep \/ Quit
         \/ \E p \in Pools : Submit(p)
         \/ \E w \in Workers : TaskStep(w) \/ TaskCancelled(w)
  PROVE  Order'
<1>0. TypeOK /\ Order
  BY DEF LifecycleInv, Order
<1> USE <1>0 DEF Order, WayUp, WayDown, PoolsOutliveUsers, ListOutlivesTasks, Absent,
                 Rising, RecvFalls, SendFalls, SendGone, Pools, Workers, Running
<1>1. CASE ServerStep
  BY <1>1 DEF ServerStep, ServerStarts, ServerCancelled
<1>2. CASE CmdStep \/ Quit
  BY <1>2 DEF CmdStep, QuitLock, QuitDone, Quit
<1>3. ASSUME NEW p \in Pools, Submit(p) PROVE Order'
  BY <1>3 DEF Submit
<1>4. ASSUME NEW w \in Workers, TaskStep(w) \/ TaskCancelled(w) PROVE Order'
  <2>1. /\ ~Absent(worker[w])
        /\ \A v \in Workers : v # w => worker'[v] = worker[v]
        /\ UNCHANGED <<main, server, cmd, pool, list>>
    BY <1>4 DEF TypeOK, TaskStep, TakeTask, TaskGoesOn, TaskLock, TaskUnlock,
                TaskCancelled, Goto
  <2> QED
    BY <2>1 DEF Members
<1> QED
  BY <1>1, <1>2, <1>3, <1>4

LEMMA InvStep == LifecycleInv /\ [Next]_vars => LifecycleInv'
<1> SUFFICES ASSUME LifecycleInv, [Next]_vars PROVE LifecycleInv'
  OBVIOUS
<1>1. TypeOK'
  BY TypeStep DEF LifecycleInv
<1>2. Order'
  <2>1. CASE UNCHANGED vars
    BY <2>1 DEF vars, LifecycleInv, Order, WayUp, WayDown, PoolsOutliveUsers,
                ListOutlivesTasks
  <2> QED
    BY <2>1, MainOrder, ThreadOrder DEF Next
<1> QED
  BY <1>1, <1>2 DEF LifecycleInv, Order

-----------------------------------------------------------------------------
LEMMA InvAlways == Spec => []LifecycleInv
BY InitHolds, InvStep, PTL DEF Spec

(* Every variable keeps its type, whatever the threads of the process  *)
(* do, for pools of any size.                                               *)
THEOREM TypeCorrect == Spec => []TypeOK
<1>1. LifecycleInv => TypeOK
  BY DEF LifecycleInv
<1> QED
  BY <1>1, InvAlways, PTL

(* A pool that has been freed has no worker left and nobody who adds tasks  *)
(* to it: the joins of main come before both calls of Thpool_free.          *)
THEOREM PoolsSafe == Spec => []PoolsOutliveUsers
<1>1. LifecycleInv => PoolsOutliveUsers
  BY DEF LifecycleInv
<1> QED
  BY <1>1, InvAlways, PTL

(* Tasks_clean deletes the list and the mutex of task.c after everybody who *)
(* may use them has ended, also when the start of main fails halfway.       *)
THEOREM ListSafe == Spec => []ListOutlivesTasks
<1>1. LifecycleInv => ListOutlivesTasks
  BY DEF LifecycleInv
<1> QED
  BY <1>1, InvAlways, PTL
=============================================================================
