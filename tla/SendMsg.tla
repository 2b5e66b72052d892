------------------------------- MODULE SendMsg -------------------------------
(***************************************************************************)
(* What the user types on its way to a peer: Cmd_routine of chat.c and     *)
(* send_msg of task.c, which both take a line apart with strtok.  strtok   *)
(* keeps its position in one static variable, here saved, and the command  *)
(* thread and the workers of the send pool use it without any lock.        *)
(*                                                                         *)
(* A line is a first word and perhaps a rest: the address of /connect or   *)
(* the text of a message.  It is named by its number, and so is its rest.  *)
(* A message is copied to a buffer that the worker frees in the end; the   *)
(* command thread works in its array msg, which the next line overwrites.  *)
(* A call of strtok without a string reads the position and stores the new *)
(* one in two steps, as nothing keeps two threads from doing it together.  *)
(* Strings are not compared; /quit and the tasks that need no strtok are   *)
(* in Lifecycle and PeerProtocol, FIFO order and workers in ThreadPool.    *)
(* Name_Bug is a broken form of Name that PROJECT.json uses.               *)
(*                                                                         *)
(* Bound: MaxLines lines are typed.                                        *)
(***************************************************************************)
EXTENDS Naturals

CONSTANTS
  Workers, Cmd,   (* the threads of the send pool and the command thread   *)
  Nobody,
  MaxLines

ASSUME SendMsgAssumption ==
  /\ MaxLines \in Nat
  /\ Cmd \notin Workers
  /\ Nobody \notin Workers \cup {Cmd}

Threads == Workers \cup {Cmd}
Lines   == 1..MaxLines
None    == 0                 (* a null pointer, or no line                 *)
Garbage == MaxLines + 1      (* what an overwritten or freed buffer holds  *)

Kinds == {"message", "connect", "word", "blank"}

VARIABLES
  line,           (* what the user types                                   *)
  typed,          (* lines read so far                                     *)
  jobs,           (* messages in the list of the send pool                 *)
  gone,           (* lines whose buffer is freed or overwritten            *)
  saved,          (* the static variable of strtok                         *)
  at,             (* where a thread is                                     *)
  job,            (* the line a thread works on                            *)
  cursor,         (* the position a thread has read from saved             *)
  token,          (* the rest that strtok has given it                     *)
  disturbed,      (* has another thread stored since its first call?       *)
  mutex,          (* owner of the mutex of task.c                          *)
  crashed         (* the thread that followed a null pointer               *)

lineVars  == <<line, typed, jobs>>
tokenVars == <<saved, cursor, token, disturbed>>
vars == <<lineVars, gone, at, job, tokenVars, mutex, crashed>>

(* A position: at the rest of a line, or behind all of it. *)
Positions == [line : Lines \cup {None}, rest : BOOLEAN]
Behind(i) == [line |-> i, rest |-> FALSE]

Init ==
  /\ line \in [Lines -> [kind : Kinds, rest : BOOLEAN]]
  /\ \A i \in Lines : line[i].kind = "blank" => ~line[i].rest
  /\ typed = 0
  /\ jobs = {}
  /\ gone = {}
  /\ saved = Behind(None)
  /\ at = [t \in Threads |-> "idle"]
  /\ job = [t \in Threads |-> None]
  /\ cursor = [t \in Threads |-> Behind(None)]
  /\ token = [t \in Threads |-> None]
  /\ disturbed = [t \in Threads |-> FALSE]
  /\ mutex = Nobody
  /\ crashed = Nobody

Goto(t, label) == at' = [at EXCEPT ![t] = label]

-----------------------------------------------------------------------------
(* strtok *)
Disturb(t) ==
  disturbed' = [u \in Threads |-> IF u = t THEN FALSE
                                  ELSE disturbed[u] \/ at[u] = "next"]

(* The first call leaves the position at the rest of its own line.          *)
First_OldKept(i)  == saved' = IF line[i].rest THEN [line |-> i, rest |-> TRUE] ELSE saved
First_RestLost(i) == saved' = Behind(i)
First(i)          == saved' = [line |-> i, rest |-> line[i].rest]

FirstCall(t) ==
  /\ at[t] = "first"
  /\ First(job[t])
  /\ Disturb(t)
  /\ IF line[job[t]].kind = "blank"
     THEN crashed' = t /\ UNCHANGED at
     ELSE Goto(t, IF line[job[t]].kind = "word" THEN "idle" ELSE "next") /\ UNCHANGED crashed
  /\ UNCHANGED <<lineVars, gone, job, cursor, token, mutex>>

(* The second call continues wherever the position is now.                  *)
ReadPosition(t) ==
  /\ at[t] = "next"
  /\ cursor' = [cursor EXCEPT ![t] = saved]
  /\ Goto(t, "found")
  /\ UNCHANGED <<lineVars, gone, job, saved, token, disturbed, mutex, crashed>>

Readable(p) ==
  IF p.line \in gone THEN {None, Garbage}
  ELSE IF p.rest THEN {p.line} ELSE {None}

(* A null pointer goes to strlen, in Cmd_routine and in send_msg.           *)
StorePosition(t) ==
  /\ at[t] = "found"
  /\ saved' = Behind(cursor[t].line)
  /\ disturbed' = [u \in Threads |-> disturbed[u] \/ (u # t /\ at[u] = "next")]
  /\ \E r \in Readable(cursor[t]) :
       /\ token' = [token EXCEPT ![t] = r]
       /\ IF r = None THEN crashed' = t /\ UNCHANGED at
          ELSE Goto(t, IF t = Cmd THEN "ask" ELSE "lock") /\ UNCHANGED crashed
  /\ UNCHANGED <<lineVars, gone, job, cursor, mutex>>

-----------------------------------------------------------------------------
(* Cmd_routine clears msg and reads the next line into it. *)
ClearLine ==
  /\ at[Cmd] = "idle" /\ job[Cmd] # None
  /\ gone' = gone \cup {job[Cmd]}
  /\ job' = [job EXCEPT ![Cmd] = None]
  /\ UNCHANGED <<lineVars, at, tokenVars, mutex, crashed>>

ReadLine ==
  /\ at[Cmd] = "idle" /\ job[Cmd] = None
  /\ typed < MaxLines
  /\ typed' = typed + 1
  /\ IF line[typed'].kind = "message"
     THEN jobs' = jobs \cup {typed'} /\ UNCHANGED <<at, job>>
     ELSE /\ job' = [job EXCEPT ![Cmd] = typed']
          /\ Goto(Cmd, "first")
          /\ UNCHANGED jobs
  /\ UNCHANGED <<line, gone, tokenVars, mutex, crashed>>

(* An address shorter than seven characters gets the help text; any other   *)
(* is copied into a task for the send pool.                                 *)
AskFor ==
  /\ at[Cmd] = "ask"
  /\ Goto(Cmd, "idle")
  /\ UNCHANGED <<lineVars, gone, job, tokenVars, mutex, crashed>>

-----------------------------------------------------------------------------
(* A worker and send_msg. *)
TakeJob(t) ==
  /\ at[t] = "idle"
  /\ \E i \in jobs :
       /\ jobs' = jobs \ {i}
       /\ job' = [job EXCEPT ![t] = i]
  /\ Goto(t, "first")
  /\ UNCHANGED <<line, typed, gone, tokenVars, mutex, crashed>>

Lock(t) ==
  /\ at[t] = "lock"
  /\ mutex = Nobody
  /\ mutex' = t
  /\ Goto(t, "inside")
  /\ UNCHANGED <<lineVars, gone, job, tokenVars, crashed>>

(* The name is looked up.  It may not be listed, its peer may not answer;   *)
(* otherwise the packet is sent.  Every way out unlocks.                    *)
Unlocked_Kept == mutex' = mutex
Unlocked      == mutex' = Nobody

GiveUp(t) ==
  /\ at[t] = "inside"
  /\ Unlocked
  /\ Goto(t, "free")
  /\ UNCHANGED <<lineVars, gone, job, tokenVars, crashed>>

Transmit(t) ==
  /\ at[t] = "inside"
  /\ mutex' = Nobody
  /\ Goto(t, "free")
  /\ UNCHANGED <<lineVars, gone, job, tokenVars, crashed>>

(* Thpool_routine frees the argument. *)
Freed_AfterReset(t) == gone' = gone \cup {job'[t]}
Freed(t)            == gone' = gone \cup {job[t]}

FreeJob(t) ==
  /\ at[t] = "free"
  /\ job' = [job EXCEPT ![t] = None]
  /\ Freed(t)
  /\ cursor' = [cursor EXCEPT ![t] = Behind(None)]
  /\ token' = [token EXCEPT ![t] = None]
  /\ Goto(t, "idle")
  /\ UNCHANGED <<lineVars, saved, disturbed, mutex, crashed>>

-----------------------------------------------------------------------------
Tokenize(t) == FirstCall(t) \/ ReadPosition(t) \/ StorePosition(t)
SendStep(t) == Tokenize(t) \/ GiveUp(t) \/ Transmit(t) \/ FreeJob(t)

Running == crashed = Nobody

Next ==
  /\ Running
  /\ \/ ClearLine \/ ReadLine \/ AskFor \/ Tokenize(Cmd)
     \/ \E t \in Workers : TakeJob(t) \/ Lock(t) \/ SendStep(t)

Spec == Init /\ [][Next]_vars

(***************************************************************************)
(* The workers run, and a mutex that stays free is granted to whoever      *)
(* waits for it.  The user need not type.                                  *)
(***************************************************************************)
Fairness ==
  \A t \in Workers :
    /\ WF_vars(Running /\ TakeJob(t))
    /\ WF_vars(Running /\ SendStep(t))
    /\ WF_vars(Running /\ Lock(t))

FairSpec == Spec /\ Fairness

-----------------------------------------------------------------------------
(***************************************************************************)
(* Properties                                                              *)
(***************************************************************************)
TypeOK ==
  /\ line \in [Lines -> [kind : Kinds, rest : BOOLEAN]]
  /\ typed \in 0..MaxLines
  /\ jobs \in SUBSET Lines /\ gone \in SUBSET Lines
  /\ saved \in Positions
  /\ at \in [Threads -> {"idle", "first", "next", "found", "ask", "lock", "inside", "free"}]
  /\ job \in [Threads -> Lines \cup {None}]
  /\ cursor \in [Threads -> Positions]
  /\ token \in [Threads -> Lines \cup {None, Garbage}]
  /\ disturbed \in [Threads -> BOOLEAN]
  /\ mutex \in Workers \cup {Nobody}
  /\ crashed \in Threads \cup {Nobody}

(* strtok is safe as long as no two threads are between its two calls: what *)
(* a worker is about to send, or the command thread to connect to, is the   *)
(* rest of its own line unless another thread has called strtok since its   *)
(* first call, however its calls, frees and overwritten lines are ordered   *)
(* (task.c:270-274, chat.c:48-69, thpool.c:149-152).                        *)
OwnRestUnlessDisturbed ==
  \A t \in Threads :
    at[t] \in {"ask", "lock", "inside"} => token[t] = job[t] \/ disturbed[t]

(* The process dies of a null pointer only of an incomplete line, an empty  *)
(* one, or of that race (chat.c:66-70, task.c:270-274).                     *)
CrashExplained ==
  crashed # Nobody => ~line[job[crashed]].rest \/ disturbed[crashed]

(* Every message is dealt with in the end, sent or given up, whichever      *)
(* way the ones before it ended (task.c:276-311).                           *)
EveryMessageHandled ==
  \A i \in Lines : i \in jobs ~> (i \in gone \/ ~Running)
=============================================================================
