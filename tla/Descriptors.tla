----------------------------- MODULE Descriptors -----------------------------
(***************************************************************************)
(* The descriptor table of one process: what each number stands for while  *)
(* Server_thread of server.c accepts, recv_from_client of task.c reads and *)
(* closes, and the senders of task.c go through Client_connect of client.c *)
(* and its global variable sock_fd.                                        *)
(*                                                                         *)
(* A sender is a loop of connect, send and close under the mutex of        *)
(* task.c: send_sign_in, send_msg and send_member_list go round once,      *)
(* send_update and send_quit once per member.  The sections of task.c that *)
(* only touch the list are left out, and a sign-out finds its name (what   *)
(* happens otherwise is in PeerProtocol).  An address has one addrinfo.    *)
(* conn remembers for which connection a task was added; the program only  *)
(* knows the number.  A definition Name_Bug is no part of the model: it is *)
(* a broken form of Name that PROJECT.json uses.                           *)
(*                                                                         *)
(* Bounds: MaxJobs commands of the user, MaxSends members to tell; every   *)
(* element of Incoming connects once.                                      *)
(***************************************************************************)
EXTENDS Naturals

CONSTANTS
  Numbers,        (* the descriptors the process may have                  *)
  RecvWorkers,    (* threads of the receive pool                           *)
  Senders,        (* threads that send for the user                        *)
  Incoming,       (* connections of other peers                            *)
  Sctp,           (* was the program started with -sctp?                   *)
  Listener, Free, (* other entries of the table                            *)
  NoNumber,       (* -1                                                    *)
  Nobody,
  MaxJobs, MaxSends

Threads == RecvWorkers \cup Senders

ASSUME DescriptorsAssumption ==
  /\ Numbers \subseteq Nat /\ NoNumber \notin Numbers
  /\ RecvWorkers \cap Senders = {} /\ Nobody \notin Threads
  /\ Threads \cap Incoming = {} /\ Listener # Free
  /\ {Listener, Free} \cap (Threads \cup Incoming) = {}
  /\ Sctp \in BOOLEAN
  /\ MaxJobs \in Nat /\ MaxSends \in Nat

VARIABLES
  table,          (* what a number stands for                              *)
  server,         (* where the server thread is                            *)
  listener,       (* sock_tcp_server or sock_sctp_server                   *)
  waiting,        (* connections the kernel holds for accept               *)
  coming,         (* connections not made yet                              *)
  kind,           (* what a connection carried, once it has been read      *)
  queue,          (* tasks of the receive pool                             *)
  at,             (* where a thread is                                     *)
  fd, conn,       (* a receive task: its argument, and what that was       *)
  got,            (* the type it has read                                  *)
  sends, reply,   (* packets to send now, and is there a reply after them? *)
  sock,           (* the local sock_fd of the senders of task.c            *)
  sock_fd,        (* the global one of client.c                            *)
  mutex,          (* owner of the mutex of task.c                          *)
  jobs            (* commands of the user so far                           *)

serverVars == <<server, listener, waiting, coming>>
taskVars   == <<fd, conn, got, reply, kind>>
vars == <<table, serverVars, queue, at, taskVars, sends, sock, sock_fd, mutex, jobs>>

(* "plain" is a sign-out, a message or an error, or a connection closed      *)
(* before its packet came.                                                  *)
Kinds == {"sign in", "list", "plain", "unknown"}

(* The kernel gives away the lowest number that is free. *)
NewNumbers ==
  LET free == {n \in Numbers : table[n] = Free}
  IN  {n \in free : \A m \in free : n <= m}

Closed(n) == IF n \in Numbers THEN [table EXCEPT ![n] = Free] ELSE table

Init ==
  /\ table = [n \in Numbers |-> Free]
  /\ server = "socket"
  /\ listener = NoNumber
  /\ waiting = {}
  /\ coming = Incoming
  /\ kind = [c \in Incoming |-> "unread"]
  /\ queue = {}
  /\ at = [t \in Threads |-> "idle"]
  /\ fd = [t \in Threads |-> NoNumber]
  /\ conn = [t \in Threads |-> Nobody]
  /\ got = [t \in Threads |-> "plain"]
  /\ sends = [t \in Threads |-> 0]
  /\ reply = [t \in Threads |-> FALSE]
  /\ sock = [t \in Threads |-> NoNumber]
  /\ sock_fd = NoNumber
  /\ mutex = Nobody
  /\ jobs = 0

-----------------------------------------------------------------------------
(* Server_tcp_init and Server_sctp_init: bind and setsockopt come in        *)
(* different orders.  A failed bind closes the socket; over SCTP the        *)
(* function then goes on with the number.                                   *)
ServerGoes(label) == server' = label
ServerUnchanged   == UNCHANGED <<queue, at, taskVars, sends, sock, sock_fd, mutex, jobs>>

ServerSocket ==
  /\ server = "socket"
  /\ \/ \E n \in NewNumbers :
          /\ table' = [table EXCEPT ![n] = Listener]
          /\ listener' = n
          /\ ServerGoes(IF Sctp THEN "bind" ELSE "options")
     \/ ServerGoes("ended") /\ UNCHANGED <<table, listener>>
  /\ UNCHANGED <<waiting, coming>> /\ ServerUnchanged

ServerBind ==
  /\ server = "bind"
  /\ \/ ServerGoes(IF Sctp THEN "options" ELSE "listen") /\ UNCHANGED table
     \/ /\ table' = Closed(listener)
        /\ ServerGoes(IF Sctp THEN "options" ELSE "ended")
  /\ UNCHANGED <<listener, waiting, coming>> /\ ServerUnchanged

ServerOptions ==
  /\ server = "options"
  /\ \/ table[listener] # Free /\ ServerGoes(IF Sctp THEN "listen" ELSE "bind")
     \/ ServerGoes("ended")
  /\ UNCHANGED <<table, listener, waiting, coming>> /\ ServerUnchanged

(* get_my_ip, List_init and listen. *)
ServerListen ==
  /\ server = "listen"
  /\ \/ table[listener] # Free /\ ServerGoes("accept")
     \/ ServerGoes("ended")
  /\ UNCHANGED <<table, listener, waiting, coming>> /\ ServerUnchanged

(* The kernel completes a connection. *)
Arrive(c) ==
  /\ server = "accept"
  /\ table[listener] = Listener
  /\ c \in coming
  /\ coming' = coming \ {c}
  /\ waiting' = waiting \cup {c}
  /\ UNCHANGED <<table, server, listener>> /\ ServerUnchanged

(* accept, and the task with the number as its argument.  Without a free    *)
(* number accept fails, and the loop goes round.                            *)
Accept(c) ==
  /\ server = "accept"
  /\ table[listener] = Listener
  /\ c \in waiting
  /\ \E n \in NewNumbers :
       /\ table' = [table EXCEPT ![n] = c]
       /\ queue' = queue \cup {[fd |-> n, conn |-> c]}
  /\ waiting' = waiting \ {c}
  /\ UNCHANGED <<server, listener, coming, at, taskVars, sends, sock, sock_fd, mutex, jobs>>

-----------------------------------------------------------------------------
(* recv_from_client *)
Goto(t, label) == at' = [at EXCEPT ![t] = label]

TakeTask(t) ==
  /\ at[t] = "idle"
  /\ \E q \in queue :
       /\ queue' = queue \ {q}
       /\ fd' = [fd EXCEPT ![t] = q.fd]
       /\ conn' = [conn EXCEPT ![t] = q.conn]
  /\ Goto(t, "recv")
  /\ UNCHANGED <<table, serverVars, got, reply, kind, sends, sock, sock_fd, mutex, jobs>>

(* What a packet makes the task send: updates, and the answer to a sign-in. *)
Plan(k, s, r) ==
  /\ s = 0 \/ k \in {"sign in", "list"}
  /\ r => k = "sign in"

(* recv reads from whatever the number stands for.                          *)
Recv(t) ==
  /\ at[t] = "recv"
  /\ \E k \in Kinds, s \in 0..MaxSends, r \in BOOLEAN :
       /\ table[fd[t]] \in Incoming \/ k = "plain"
       /\ Plan(k, s, r)
       /\ got' = [got EXCEPT ![t] = k]
       /\ kind' = [c \in Incoming |-> IF c = table[fd[t]] THEN k ELSE kind[c]]
       /\ sends' = [sends EXCEPT ![t] = s]
       /\ reply' = [reply EXCEPT ![t] = r]
  /\ Goto(t, "task")
  /\ UNCHANGED <<table, serverVars, queue, fd, conn, sock, sock_fd, mutex, jobs>>

(* The switch closes the connection of every type but these two.            *)
Closes_ListForgotten(k) == k \notin {"sign in", "unknown", "list"}
Closes(k)               == k \notin {"sign in", "unknown"}

TaskDone(t) ==
  /\ at[t] = "task"
  /\ sends[t] = 0 /\ ~reply[t]
  /\ table' = IF t \in RecvWorkers /\ Closes(got[t]) THEN Closed(fd[t]) ELSE table
  /\ fd' = [fd EXCEPT ![t] = NoNumber]
  /\ conn' = [conn EXCEPT ![t] = Nobody]
  /\ got' = [got EXCEPT ![t] = "plain"]
  /\ Goto(t, "idle")
  /\ UNCHANGED <<serverVars, queue, reply, kind, sends, sock, sock_fd, mutex, jobs>>

-----------------------------------------------------------------------------
(* The senders of task.c and Client_connect. *)
Command(t) ==
  /\ at[t] = "idle"
  /\ jobs < MaxJobs
  /\ jobs' = jobs + 1
  /\ \E s \in 1..MaxSends : sends' = [sends EXCEPT ![t] = s]
  /\ Goto(t, "task")
  /\ UNCHANGED <<table, serverVars, queue, taskVars, sock, sock_fd, mutex>>

Available_Always == TRUE
Available        == mutex = Nobody

Lock(t) ==
  /\ at[t] = "task"
  /\ sends[t] > 0 \/ reply[t]
  /\ Available
  /\ mutex' = t
  /\ sends' = [sends EXCEPT ![t] = IF @ > 0 THEN @ ELSE 1]
  /\ reply' = [reply EXCEPT ![t] = @ /\ sends[t] > 0]
  /\ Goto(t, "locked")
  /\ UNCHANGED <<table, serverVars, queue, fd, conn, got, kind, sock, sock_fd, jobs>>

OneLess_Twice(t) == sends' = [sends EXCEPT ![t] = @ - 2]
OneLess(t)       == sends' = [sends EXCEPT ![t] = @ - 1]

(* socket, which may fail, as getaddrinfo may before it.                    *)
Socket(t) ==
  /\ at[t] = "locked" /\ sends[t] > 0
  /\ \/ \E n \in NewNumbers :
          /\ table' = [table EXCEPT ![n] = t]
          /\ sock_fd' = n
          /\ Goto(t, "connect")
          /\ UNCHANGED sends
     \/ /\ sock_fd' \in {sock_fd, NoNumber}
        /\ OneLess(t)
        /\ UNCHANGED <<table, at>>
  /\ UNCHANGED <<serverVars, queue, taskVars, sock, mutex, jobs>>

(* connect.  After a failure the number is closed, and over SCTP it is      *)
(* returned all the same.                                                   *)
Connect(t) ==
  /\ at[t] = "connect"
  /\ \/ /\ sock' = [sock EXCEPT ![t] = sock_fd]
        /\ Goto(t, "send")
        /\ UNCHANGED <<table, sends>>
     \/ /\ table' = Closed(sock_fd)
        /\ IF Sctp
           THEN sock' = [sock EXCEPT ![t] = sock_fd] /\ Goto(t, "send") /\ UNCHANGED sends
           ELSE OneLess(t) /\ Goto(t, "locked") /\ UNCHANGED sock
  /\ UNCHANGED <<serverVars, queue, taskVars, sock_fd, mutex, jobs>>

(* send_to_server; its result is ignored. *)
Send(t) ==
  /\ at[t] = "send"
  /\ Goto(t, "close")
  /\ UNCHANGED <<table, serverVars, queue, taskVars, sends, sock, sock_fd, mutex, jobs>>

CloseSock_Forgotten(n) == table
CloseSock(n)           == Closed(n)

Close(t) ==
  /\ at[t] = "close"
  /\ table' = CloseSock(sock[t])
  /\ sock' = [sock EXCEPT ![t] = NoNumber]
  /\ OneLess(t)
  /\ Goto(t, "locked")
  /\ UNCHANGED <<serverVars, queue, taskVars, sock_fd, mutex, jobs>>

Unlock(t) ==
  /\ at[t] = "locked" /\ sends[t] = 0
  /\ mutex' = Nobody
  /\ Goto(t, "task")
  /\ UNCHANGED <<table, serverVars, queue, taskVars, sends, sock, sock_fd, jobs>>

-----------------------------------------------------------------------------
ServerStep == ServerSocket \/ ServerBind \/ ServerOptions \/ ServerListen

SendStep(t) ==
  \/ Lock(t) \/ Socket(t) \/ Connect(t) \/ Send(t) \/ Close(t) \/ Unlock(t)
  \/ TaskDone(t)

Next ==
  \/ ServerStep
  \/ \E c \in Incoming : Arrive(c) \/ Accept(c)
  \/ \E t \in RecvWorkers : TakeTask(t) \/ Recv(t)
  \/ \E t \in Senders : Command(t)
  \/ \E t \in Threads : SendStep(t)

Spec == Init /\ [][Next]_vars

(***************************************************************************)
(* The threads run: the server thread calls accept again and again, a      *)
(* worker takes a task, and a task goes on.  Commands and connections need *)
(* not come.  recv has no timeout: it waits as long as the other peer      *)
(* neither sends nor closes, which may be for ever.                        *)
(***************************************************************************)
Fairness ==
  /\ \A c \in Incoming : WF_vars(Accept(c))
  /\ \A t \in RecvWorkers : WF_vars(TakeTask(t))
  /\ \A t \in Threads : WF_vars(SendStep(t))

FairSpec == Spec /\ Fairness

-----------------------------------------------------------------------------
(***************************************************************************)
(* Properties                                                              *)
(***************************************************************************)
Entries == {Listener, Free} \cup Threads \cup Incoming

TypeOK ==
  /\ table \in [Numbers -> Entries]
  /\ server \in {"socket", "bind", "options", "listen", "accept", "ended"}
  /\ listener \in Numbers \cup {NoNumber}
  /\ waiting \in SUBSET Incoming /\ coming \in SUBSET Incoming
  /\ kind \in [Incoming -> Kinds \cup {"unread"}]
  /\ queue \in SUBSET [fd : Numbers, conn : Incoming]
  /\ at \in [Threads -> {"idle", "recv", "task", "locked", "connect", "send", "close"}]
  /\ fd \in [Threads -> Numbers \cup {NoNumber}]
  /\ conn \in [Threads -> Incoming \cup {Nobody}]
  /\ got \in [Threads -> Kinds]
  /\ sends \in [Threads -> 0..(MaxSends + 1)]
  /\ reply \in [Threads -> BOOLEAN]
  /\ sock \in [Threads -> Numbers \cup {NoNumber}]
  /\ sock_fd \in Numbers \cup {NoNumber}
  /\ mutex \in Threads \cup {Nobody}
  /\ jobs \in 0..MaxJobs

Is(n, x)   == n \in Numbers /\ table[n] = x
ServerOwns == server \in {"bind", "options", "listen", "accept"} => Is(listener, Listener)
QueueOwns  == \A q \in queue : Is(q.fd, q.conn)
TaskOwns(t) == t \in RecvWorkers /\ at[t] # "idle" => Is(fd[t], conn[t])
SenderOwns(t) ==
  /\ at[t] = "connect" => Is(sock_fd, t)
  /\ at[t] \in {"send", "close"} => Is(sock[t], t)

(* Whoever still has a number uses it for what it was given for: from the   *)
(* accept to the close of a receive task, from socket to close in a sender, *)
(* through the global variable of client.c, while other threads are given   *)
(* numbers and close them (server.c:197-221, task.c:163-212, client.c:59-81). *)
OwnDescriptors ==
  /\ ServerOwns
  /\ QueueOwns
  /\ \A t \in Threads : TaskOwns(t) /\ SenderOwns(t)

Explained(n) ==
  \/ table[n] = Free
  \/ table[n] = Listener /\ n = listener /\ server # "ended"
  \/ \E q \in queue : q.fd = n /\ q.conn = table[n]
  \/ \E t \in RecvWorkers : at[t] # "idle" /\ fd[t] = n /\ conn[t] = table[n]
  \/ \E t \in Threads : table[n] = t /\ at[t] \in {"connect", "send", "close"}

Leaked(n)    == table[n] \in Incoming /\ kind[table[n]] \in {"sign in", "unknown"}
Abandoned(n) == table[n] = Listener /\ n = listener /\ server = "ended"

(* Numbers are lost in two ways only: connections that carried a sign-in or *)
(* an unknown type are never closed (task.c:670-712), and a server thread   *)
(* that gives up after it has made its socket leaves this one number open   *)
(* (server.c:61-64, 84-96, 188-193).  On every other path, with or without  *)
(* errors, whoever has a number is still going to close it.                 *)
LeaksExplained == \A n \in Numbers : Explained(n) \/ Leaked(n) \/ Abandoned(n)

(* A connection is accepted some time, unless from then on every number is  *)
(* the listener's, one of those leaks, or waits for a peer that stays       *)
(* silent: for recv, or for a worker when all of them are in recv.          *)
(* Descriptors held by senders and by tasks that have read their packet     *)
(* come back (server.c:197-221, task.c:661-716).                            *)
Lost(n) == Leaked(n) /\ ~Explained(n)

Unheard(n) ==
  \/ \E t \in RecvWorkers : at[t] = "recv" /\ fd[t] = n
  \/ (\E q \in queue : q.fd = n) /\ \A t \in RecvWorkers : at[t] = "recv"

Exhausted == \A n \in Numbers : table[n] = Listener \/ Lost(n) \/ Unheard(n)

Accepted ==
  \A c \in Incoming : c \in waiting ~> (c \notin waiting \/ []Exhausted)

(* "arg contains an ip address to send the sign in message to"              *)
(* (task.c:149): it does not go to a peer that has just connected to us.    *)
SentToAddressee ==
  \A t \in Threads : at[t] = "send" => \A c \in Incoming : ~Is(sock[t], c)
=============================================================================
