-------------------------- MODULE DescriptorsProofs --------------------------
(***************************************************************************)
(* Over TCP, for any table and any number of threads and connections: no   *)
(* thread uses a number that has come to stand for something else, and no  *)
(* number is lost but those of sign-ins and unknown types and the socket   *)
(* of a server thread that has given up.                                   *)
(***************************************************************************)
EXTENDS Descriptors, TLAPS

Active(t) == t \in RecvWorkers /\ at[t] # "idle"

(* Senders are serialised, and each has still something to send. *)
Locking ==
  \A t \in Threads :
    /\ at[t] \in {"locked", "connect", "send", "close"} => mutex = t
    /\ at[t] \in {"connect", "send", "close"} => sends[t] > 0

(* A connection has no number before accept, and one after it. *)
Unmade ==
  /\ coming \cap waiting = {}
  /\ \A c \in coming \cup waiting, n \in Numbers : table[n] # c

Single ==
  \A m, n \in Numbers : table[m] \in Incoming /\ table[m] = table[n] => m = n

(* One task holds it. *)
Distinct ==
  /\ \A q \in queue, t \in Threads : Active(t) => q.conn # conn[t]
  /\ \A t, u \in Threads : Active(t) /\ Active(u) /\ conn[t] = conn[u] => t = u

(* The type a task has read is that of its own connection. *)
Known ==
  \A t \in Threads : Active(t) =>
    conn[t] \in Incoming /\ (at[t] # "recv" => kind[conn[t]] = got[t])

(* A sender has the number that sock_fd gave it, and no other. *)
OwnNumber ==
  \A t \in Threads, n \in Numbers : table[n] = t =>
    \/ at[t] = "connect" /\ n = sock_fd
    \/ at[t] \in {"send", "close"} /\ n = sock[t]

OneListener == server = "socket" => \A n \in Numbers : table[n] # Listener

(* OwnDescriptors and LeaksExplained are not inductive alone: a close must  *)
(* not hit the number of another thread, nor a type belong to another       *)
(* connection.                                                              *)
IInv ==
  /\ TypeOK /\ Locking /\ Unmade /\ Single /\ Distinct /\ Known
  /\ OwnNumber /\ OneListener /\ OwnDescriptors /\ LeaksExplained

-----------------------------------------------------------------------------

(* The maximum of what is left to send. *)
LEMMA LessSends ==
  ASSUME TypeOK, NEW t \in Threads, sends[t] > 0, OneLess(t)
  PROVE  sends' \in [Threads -> 0..(MaxSends + 1)]
<1>1. sends[t] - 1 \in 0..(MaxSends + 1)
  BY DescriptorsAssumption DEF TypeOK
<1> QED
  BY <1>1 DEF OneLess, TypeOK

(* A number that stands for one thing does not change when the entry of     *)
(* another thing does.                                                      *)
LEMMA Others ==
  ASSUME TypeOK, NEW n \in Numbers, NEW x, table' = [table EXCEPT ![n] = x],
         NEW y, table[n] # y
  PROVE  \A m : Is(m, y) => Is(m, y)'
  BY DEF Is, TypeOK

(* Nothing else is called Free. *)
LEMMA FreeIsNothing ==
  /\ Free # Listener /\ Free \notin Incoming /\ Free \notin Threads
  /\ Listener \notin Incoming /\ Listener \notin Threads
  /\ \A t \in Threads : t \notin Incoming
  BY DescriptorsAssumption

(* Nor does one when another is freed. *)
LEMMA Cleared ==
  ASSUME TypeOK, NEW n \in Numbers, table' = [table EXCEPT ![n] = Free]
  PROVE  \A m \in Numbers : /\ table'[m] # Free => m # n /\ table'[m] = table[m]
                            /\ m # n => table'[m] = table[m]
  BY DEF TypeOK

(* The server thread makes its socket.                                      *)
LEMMA ServerSocketKeeps ==
  ASSUME ~Sctp, IInv, ServerSocket
  PROVE  IInv'
<1>1. server = "socket" /\ server' \in {"options", "ended"}
  BY DEF ServerSocket, ServerGoes
<1>2. \/ table' = table /\ server' = "ended" /\ listener' = listener
      \/ \E n \in Numbers : /\ table[n] = Free /\ table' = [table EXCEPT ![n] = Listener]
                            /\ listener' = n
  BY DEF ServerSocket, ServerGoes, NewNumbers
<1>3. TypeOK'
  BY DEF IInv, TypeOK, Entries, Kinds, ServerSocket, ServerGoes, ServerUnchanged, NewNumbers,
         taskVars
<1>4. Locking'
  BY DEF IInv, Locking, ServerSocket, ServerGoes, ServerUnchanged, NewNumbers
<1>5. Unmade'
  BY DescriptorsAssumption DEF IInv, TypeOK, Unmade, Entries, Kinds, ServerSocket
<1>6. Single'
  BY DescriptorsAssumption DEF IInv, TypeOK, Single, Entries, Kinds, ServerSocket
<1>7. Distinct'
  BY DEF IInv, Distinct, Active, ServerSocket, ServerGoes, ServerUnchanged, NewNumbers, taskVars
<1>8. Known'
  BY DEF IInv, Known, Active, ServerSocket, ServerGoes, ServerUnchanged, NewNumbers, taskVars
<1>9. OwnNumber'
  BY DescriptorsAssumption DEF IInv, TypeOK, Locking, OwnNumber, Entries, Kinds, Threads,
          ServerSocket, ServerGoes, ServerUnchanged, NewNumbers
<1>10. OneListener'
  BY DEF IInv, OneListener, ServerSocket, ServerGoes, ServerUnchanged, NewNumbers
<1>11. OwnDescriptors'
  <2>1. CASE table' = table /\ server' = "ended"
    BY <2>1 DEF IInv, OwnDescriptors, ServerOwns, QueueOwns, TaskOwns, SenderOwns, Is,
                ServerSocket, ServerUnchanged, taskVars
  <2>2. ASSUME NEW n \in Numbers, table[n] = Free, table' = [table EXCEPT ![n] = Listener],
               listener' = n
        PROVE  OwnDescriptors'
    <3>1. ServerOwns'
      BY <2>2 DEF IInv, TypeOK, ServerOwns, Is
    <3>2. \A y : y # Free => \A m : Is(m, y) => Is(m, y)'
      BY <2>2, Others DEF IInv
    <3>3. QueueOwns'
      BY <3>2, FreeIsNothing
         DEF IInv, TypeOK, OwnDescriptors, QueueOwns, ServerSocket, ServerUnchanged
    <3>4. \A t \in Threads : TaskOwns(t)'
      BY <3>2, FreeIsNothing DEF IInv, OwnDescriptors, Known, Active, TaskOwns, ServerSocket,
                                 ServerUnchanged, taskVars
    <3>5. \A t \in Threads : SenderOwns(t)'
      BY <3>2, FreeIsNothing DEF IInv, OwnDescriptors, SenderOwns, ServerSocket, ServerUnchanged
    <3> QED
      BY <3>1, <3>3, <3>4, <3>5 DEF OwnDescriptors
  <2> QED
    BY <1>2, <2>1, <2>2
<1>12. LeaksExplained'
  <2>1. CASE table' = table /\ listener' = listener
    BY <2>1 DEF IInv, LeaksExplained, Explained, Leaked, Abandoned, ServerSocket, ServerUnchanged,
                taskVars
  <2>2. ASSUME NEW n \in Numbers, table[n] = Free, table' = [table EXCEPT ![n] = Listener],
               listener' = n
        PROVE  LeaksExplained'
    <3>1. (Explained(n) \/ Abandoned(n))'
      BY <2>2 DEF IInv, TypeOK, Explained, Abandoned
    <3>2. ASSUME NEW m \in Numbers, m # n PROVE (Explained(m) \/ Leaked(m) \/ Abandoned(m))'
      <4>1. table'[m] = table[m] /\ table[m] # Listener
        BY <1>1, <2>2, <3>2 DEF IInv, TypeOK, OneListener
      <4> QED
        BY <4>1 DEF IInv, LeaksExplained, Explained, Leaked, Abandoned, ServerSocket,
                    ServerUnchanged, taskVars
    <3> QED
      BY <3>1, <3>2 DEF LeaksExplained
  <2> QED
    BY <1>2, <2>1, <2>2
<1> QED
  BY <1>3, <1>4, <1>5, <1>6, <1>7, <1>8, <1>9, <1>10, <1>11, <1>12 DEF IInv

(* It binds it, or closes it and ends.                                      *)
LEMMA ServerBindKeeps ==
  ASSUME ~Sctp, IInv, ServerBind
  PROVE  IInv'
<1>1. server = "bind" /\ listener \in Numbers /\ table[listener] = Listener
  BY DEF IInv, OwnDescriptors, ServerOwns, Is, ServerBind
<1>2. \/ table' = table /\ server' = "listen"
      \/ table' = [table EXCEPT ![listener] = Free] /\ server' = "ended"
  BY <1>1 DEF ServerBind, ServerGoes, Closed
<1>3. TypeOK'
  BY DEF IInv, TypeOK, Entries, Kinds, ServerBind, ServerGoes, ServerUnchanged, Closed, taskVars
<1>4. Locking'
  BY DEF IInv, Locking, ServerBind, ServerGoes, ServerUnchanged, Closed
<1>5. Unmade'
  BY <1>1, <1>2, Cleared, FreeIsNothing DEF IInv, Unmade, TypeOK, ServerBind
<1>6. Single'
  BY <1>1, <1>2, Cleared, FreeIsNothing DEF IInv, Single, TypeOK, ServerBind
<1>7. Distinct'
  BY DEF IInv, Distinct, Active, ServerBind, ServerGoes, ServerUnchanged, Closed, taskVars
<1>8. Known'
  BY DEF IInv, Known, Active, ServerBind, ServerGoes, ServerUnchanged, Closed, taskVars
<1>9. OwnNumber'
  BY <1>1, <1>2, Cleared, FreeIsNothing DEF IInv, OwnNumber, ServerBind, ServerUnchanged
<1>10. OneListener'
  BY DEF IInv, OneListener, ServerBind, ServerGoes, ServerUnchanged, Closed
<1>11. OwnDescriptors'
  <2>1. ServerOwns'
    BY <1>1, <1>2 DEF IInv, OwnDescriptors, ServerOwns, Is, ServerBind
  <2>2. \A y : y # Listener => \A m : Is(m, y) => Is(m, y)'
    BY <1>1, <1>2, Others DEF IInv, Is
  <2>3. QueueOwns'
    BY <2>2, FreeIsNothing DEF IInv, TypeOK, OwnDescriptors, QueueOwns, ServerBind, ServerUnchanged
  <2>4. \A t \in Threads : TaskOwns(t)'
    BY <2>2, FreeIsNothing DEF IInv, OwnDescriptors, Known, Active, TaskOwns, ServerBind,
                               ServerUnchanged, taskVars
  <2>5. \A t \in Threads : SenderOwns(t)'
    BY <2>2, FreeIsNothing DEF IInv, OwnDescriptors, SenderOwns, ServerBind, ServerUnchanged
  <2> QED
    BY <2>1, <2>3, <2>4, <2>5 DEF OwnDescriptors
<1>12. LeaksExplained'
  <2>1. ASSUME NEW m \in Numbers PROVE (Explained(m) \/ Leaked(m) \/ Abandoned(m))'
    <3>1. table'[m] = Free \/ table'[m] = table[m]
      BY <1>1, <1>2, Cleared DEF IInv
    <3> QED
      BY <3>1 DEF IInv, LeaksExplained, Explained, Leaked, Abandoned, ServerBind, ServerUnchanged,
                  taskVars
  <2> QED
    BY <2>1 DEF LeaksExplained
<1> QED
  BY <1>3, <1>4, <1>5, <1>6, <1>7, <1>8, <1>9, <1>10, <1>11, <1>12 DEF IInv

(* It sets its options.                                                     *)
LEMMA ServerOptionsKeeps ==
  ASSUME ~Sctp, IInv, ServerOptions
  PROVE  IInv'
<1>1. TypeOK'
  BY DEF IInv, TypeOK, Entries, Kinds, ServerOptions, ServerGoes, ServerUnchanged, taskVars
<1>2. Locking'
  BY DEF IInv, Locking, ServerOptions, ServerGoes, ServerUnchanged
<1>3. Unmade'
  BY DEF IInv, Unmade, ServerOptions
<1>4. Single'
  BY DEF IInv, Single, ServerOptions
<1>5. Distinct'
  BY DEF IInv, Distinct, Active, ServerOptions, ServerGoes, ServerUnchanged, taskVars
<1>6. Known'
  BY DEF IInv, Known, Active, ServerOptions, ServerGoes, ServerUnchanged, taskVars
<1>7. OwnNumber'
  BY DEF IInv, OwnNumber, ServerOptions, ServerGoes, ServerUnchanged
<1>8. OneListener'
  BY DEF IInv, OneListener, ServerOptions, ServerGoes, ServerUnchanged
<1>9. OwnDescriptors'
  BY DEF IInv, OwnDescriptors, ServerOwns, QueueOwns, TaskOwns, SenderOwns, Is, ServerOptions,
         ServerGoes, ServerUnchanged, taskVars
<1>10. LeaksExplained'
  BY DEF IInv, LeaksExplained, Explained, Leaked, Abandoned, ServerOptions, ServerGoes,
         ServerUnchanged,
         taskVars
<1> QED
  BY <1>1, <1>2, <1>3, <1>4, <1>5, <1>6, <1>7, <1>8, <1>9, <1>10 DEF IInv

(* It listens.                                                              *)
LEMMA ServerListenKeeps ==
  ASSUME ~Sctp, IInv, ServerListen
  PROVE  IInv'
<1>1. TypeOK'
  BY DEF IInv, TypeOK, Entries, Kinds, ServerListen, ServerGoes, ServerUnchanged, taskVars
<1>2. Locking'
  BY DEF IInv, Locking, ServerListen, ServerGoes, ServerUnchanged
<1>3. Unmade'
  BY DEF IInv, Unmade, ServerListen
<1>4. Single'
  BY DEF IInv, Single, ServerListen
<1>5. Distinct'
  BY DEF IInv, Distinct, Active, ServerListen, ServerGoes, ServerUnchanged, taskVars
<1>6. Known'
  BY DEF IInv, Known, Active, ServerListen, ServerGoes, ServerUnchanged, taskVars
<1>7. OwnNumber'
  BY DEF IInv, OwnNumber, ServerListen, ServerGoes, ServerUnchanged
<1>8. OneListener'
  BY DEF IInv, OneListener, ServerListen, ServerGoes, ServerUnchanged
<1>9. OwnDescriptors'
  BY DEF IInv, OwnDescriptors, ServerOwns, QueueOwns, TaskOwns, SenderOwns, Is, ServerListen,
         ServerGoes, ServerUnchanged, taskVars
<1>10. LeaksExplained'
  BY DEF IInv, LeaksExplained, Explained, Leaked, Abandoned, ServerListen, ServerGoes,
         ServerUnchanged,
         taskVars
<1> QED
  BY <1>1, <1>2, <1>3, <1>4, <1>5, <1>6, <1>7, <1>8, <1>9, <1>10 DEF IInv

(* The kernel completes a connection.                                       *)
LEMMA ArriveKeeps ==
  ASSUME ~Sctp, IInv, NEW x \in Incoming, Arrive(x)
  PROVE  IInv'
<1>1. TypeOK'
  BY DEF IInv, TypeOK, Entries, Kinds, Arrive, ServerUnchanged, taskVars
<1>2. Locking'
  BY DEF IInv, Locking, Arrive, ServerUnchanged
<1>3. Unmade'
  BY DEF IInv, Unmade, Arrive
<1>4. Single'
  BY DEF IInv, Single, Arrive
<1>5. Distinct'
  BY DEF IInv, Distinct, Active, Arrive, ServerUnchanged, taskVars
<1>6. Known'
  BY DEF IInv, Known, Active, Arrive, ServerUnchanged, taskVars
<1>7. OwnNumber'
  BY DEF IInv, OwnNumber, Arrive, ServerUnchanged
<1>8. OneListener'
  BY DEF IInv, OneListener, Arrive
<1>9. OwnDescriptors'
  BY DEF IInv, OwnDescriptors, ServerOwns, QueueOwns, TaskOwns, SenderOwns, Is, Arrive,
         ServerUnchanged, taskVars
<1>10. LeaksExplained'
  BY DEF IInv, LeaksExplained, Explained, Leaked, Abandoned, Arrive, ServerUnchanged, taskVars
<1> QED
  BY <1>1, <1>2, <1>3, <1>4, <1>5, <1>6, <1>7, <1>8, <1>9, <1>10 DEF IInv

(* A connection gets a free number and a task.                              *)
LEMMA AcceptKeeps ==
  ASSUME ~Sctp, IInv, NEW x \in Incoming, Accept(x)
  PROVE  IInv'
<1>1. PICK n \in Numbers : /\ table[n] = Free /\ table' = [table EXCEPT ![n] = x]
                           /\ queue' = queue \cup {[fd |-> n, conn |-> x]}
  BY DEF Accept, NewNumbers
<1>2. /\ table'[n] = x
      /\ \A m \in Numbers : m # n => table'[m] = table[m]
      /\ \A m \in Numbers : table[m] # x
  BY <1>1 DEF IInv, TypeOK, Unmade, Accept
<1>3. \A y : y # Free => \A m : Is(m, y) => Is(m, y)'
  BY <1>1, Others DEF IInv
<1>4. TypeOK'
  <2>1. table' \in [Numbers -> Entries]
    BY <1>1 DEF IInv, TypeOK, Entries
  <2>2. queue' \in SUBSET [fd : Numbers, conn : Incoming]
    BY <1>1 DEF IInv, TypeOK
  <2>3. Entries' = Entries
    BY DEF Entries
  <2> QED
    BY <2>1, <2>2, <2>3 DEF IInv, TypeOK, Accept, taskVars
<1>5. Locking'
  BY DEF IInv, Locking, Accept
<1>6. Unmade'
  BY DEF IInv, Unmade, Accept
<1>7. Single'
  BY <1>2 DEF IInv, Single
<1>8. Distinct'
  <2>1. \A t \in Threads : Active(t) => conn[t] # x
    BY <1>2 DEF IInv, OwnDescriptors, TaskOwns, Active, Is
  <2> QED
    BY <1>1, <2>1 DEF IInv, Distinct, Active, Accept, taskVars
<1>9. Known'
  BY DEF IInv, Known, Active, Accept, taskVars
<1>10. OwnNumber'
  BY <1>2, FreeIsNothing DEF IInv, OwnNumber, Accept
<1>11. OneListener'
  BY DEF IInv, OneListener, Accept
<1>12. OwnDescriptors'
  <2>1. ServerOwns'
    BY <1>3, FreeIsNothing DEF IInv, OwnDescriptors, ServerOwns, Accept
  <2>2. QueueOwns'
    BY <1>1, <1>2, <1>3, FreeIsNothing DEF IInv, TypeOK, OwnDescriptors, QueueOwns, Is
  <2>3. \A t \in Threads : TaskOwns(t)'
    BY <1>3, FreeIsNothing DEF IInv, OwnDescriptors, Known, Active, TaskOwns, Accept, taskVars
  <2>4. \A t \in Threads : SenderOwns(t)'
    BY <1>3, FreeIsNothing DEF IInv, OwnDescriptors, SenderOwns, Accept
  <2> QED
    BY <2>1, <2>2, <2>3, <2>4 DEF OwnDescriptors
<1>13. LeaksExplained'
  <2>1. Explained(n)'
    <3> DEFINE new == [fd |-> n, conn |-> x]
    <3>1. new \in queue' /\ new.fd = n /\ new.conn = x
      BY <1>1
    <3> HIDE DEF new
    <3> QED
      BY <1>2, <3>1 DEF Explained
  <2>2. ASSUME NEW m \in Numbers, m # n PROVE (Explained(m) \/ Leaked(m) \/ Abandoned(m))'
    <3>1. table'[m] = table[m] /\ queue \subseteq queue'
      BY <1>1, <1>2, <2>2
    <3> QED
      BY <3>1 DEF IInv, LeaksExplained, Explained, Leaked, Abandoned, Accept, taskVars
  <2> QED
    BY <2>1, <2>2 DEF LeaksExplained
<1> QED
  BY <1>4, <1>5, <1>6, <1>7, <1>8, <1>9, <1>10, <1>11, <1>12, <1>13 DEF IInv

(* A worker takes the task over.                                            *)
LEMMA TakeTaskKeeps ==
  ASSUME ~Sctp, IInv, NEW x \in RecvWorkers, TakeTask(x)
  PROVE  IInv'
<1>1. PICK q \in queue : /\ queue' = queue \ {q}
                         /\ fd' = [fd EXCEPT ![x] = q.fd] /\ conn' = [conn EXCEPT ![x] = q.conn]
  BY DEF TakeTask
<1>2. x \in Threads /\ Is(q.fd, q.conn) /\ q.conn \in Incoming /\ at[x] = "idle"
  BY DEF IInv, TypeOK, OwnDescriptors, QueueOwns, TakeTask, Threads
<1>3. /\ at'[x] = "recv" /\ fd'[x] = q.fd /\ conn'[x] = q.conn
      /\ \A t \in Threads \ {x} : at'[t] = at[t] /\ fd'[t] = fd[t] /\ conn'[t] = conn[t]
  BY <1>1, <1>2 DEF IInv, TypeOK, TakeTask, Goto
<1>4. TypeOK'
  BY DEF IInv, TypeOK, Entries, Kinds, TakeTask, Goto, serverVars
<1>5. Locking'
  BY DEF IInv, Locking, TakeTask, Goto
<1>6. Unmade'
  BY DEF IInv, Unmade, TakeTask, serverVars
<1>7. Single'
  BY DEF IInv, Single, TakeTask
<1>8. Distinct'
  <2>1. ASSUME NEW p \in queue', p.conn = q.conn PROVE FALSE
    <3>1. p \in queue /\ Is(p.fd, p.conn)
      BY <1>1, <2>1 DEF IInv, OwnDescriptors, QueueOwns
    <3>2. p.fd = q.fd
      BY <1>2, <2>1, <3>1 DEF IInv, Single, Is
    <3>3. p = q
      BY <2>1, <3>1, <3>2 DEF IInv, TypeOK
    <3> QED
      BY <1>1, <2>1, <3>3
  <2> QED
    BY <1>1, <1>2, <1>3, <2>1 DEF IInv, Distinct, Active
<1>9. Known'
  BY DEF IInv, TypeOK, Known, Active, TakeTask, Goto
<1>10. OwnNumber'
  BY DEF IInv, OwnNumber, TakeTask, Goto
<1>11. OneListener'
  BY DEF IInv, OneListener, TakeTask, serverVars
<1>12. OwnDescriptors'
  <2>1. ServerOwns' /\ QueueOwns'
    BY <1>1 DEF IInv, OwnDescriptors, ServerOwns, QueueOwns, Is, TakeTask, serverVars
  <2>2. \A t \in Threads : TaskOwns(t)'
    BY <1>2, <1>3 DEF IInv, OwnDescriptors, TaskOwns, Is, TakeTask
  <2>3. \A t \in Threads : SenderOwns(t)'
    BY <1>2, <1>3 DEF IInv, OwnDescriptors, SenderOwns, Is, TakeTask
  <2> QED
    BY <2>1, <2>2, <2>3 DEF OwnDescriptors
<1>13. LeaksExplained'
  <2>1. ASSUME NEW m \in Numbers PROVE (Explained(m) \/ Leaked(m) \/ Abandoned(m))'
    <3>1. CASE Leaked(m)
      BY <3>1 DEF Leaked, TakeTask
    <3>2. CASE Explained(m)
      <4>1. CASE \E p \in queue : p.fd = m /\ p.conn = table[m]
        BY <1>1, <1>2, <1>3, <4>1 DEF Explained, TakeTask
      <4>2. CASE \E t \in RecvWorkers : at[t] # "idle" /\ fd[t] = m /\ conn[t] = table[m]
        BY <1>2, <1>3, <4>2 DEF Explained, TakeTask, Threads
      <4>3. CASE \E t \in Threads : table[m] = t /\ at[t] \in {"connect", "send", "close"}
        BY <1>2, <1>3, <4>3 DEF Explained, TakeTask
      <4>4. CASE table[m] = Free \/ (table[m] = Listener /\ m = listener /\ server # "ended")
        BY <4>4 DEF Explained, TakeTask, serverVars
      <4>5. \/ table[m] = Free \/ (table[m] = Listener /\ m = listener /\ server # "ended")
            \/ \E p \in queue : p.fd = m /\ p.conn = table[m]
            \/ \E t \in RecvWorkers : at[t] # "idle" /\ fd[t] = m /\ conn[t] = table[m]
            \/ \E t \in Threads : table[m] = t /\ at[t] \in {"connect", "send", "close"}
        BY <3>2 DEF Explained
      <4> QED
        BY <4>1, <4>2, <4>3, <4>4, <4>5
    <3>3. CASE Abandoned(m)
      BY <3>3 DEF Abandoned, TakeTask, serverVars
    <3> QED
      BY <3>1, <3>2, <3>3 DEF IInv, LeaksExplained
  <2> QED
    BY <2>1 DEF LeaksExplained
<1> QED
  BY <1>4, <1>5, <1>6, <1>7, <1>8, <1>9, <1>10, <1>11, <1>12, <1>13 DEF IInv

(* It reads the packet: the type belongs to its own connection.             *)
LEMMA RecvKeeps ==
  ASSUME ~Sctp, IInv, NEW x \in RecvWorkers, Recv(x)
  PROVE  IInv'
<1>1. x \in Threads /\ at[x] = "recv" /\ conn[x] \in Incoming /\ Is(fd[x], conn[x])
  BY DEF IInv, OwnDescriptors, TaskOwns, Known, Active, Recv, Threads
<1>2. PICK k \in Kinds : /\ got' = [got EXCEPT ![x] = k]
                         /\ kind' = [c \in Incoming |-> IF c = conn[x] THEN k ELSE kind[c]]
  <2>1. PICK typ \in Kinds :
          /\ got' = [got EXCEPT ![x] = typ]
          /\ kind' = [c \in Incoming |-> IF c = table[fd[x]] THEN typ ELSE kind[c]]
    BY DEF Recv
  <2> QED
    BY <1>1, <2>1 DEF Is
<1>3. at'[x] = "task" /\ \A t \in Threads \ {x} : at'[t] = at[t]
  BY <1>1 DEF IInv, TypeOK, Recv, Goto
<1>4. TypeOK'
  <2>1. x \in Threads
    BY DEF Threads
  <2>2. PICK typ \in Kinds, s \in 0..MaxSends, r \in BOOLEAN :
          /\ got' = [got EXCEPT ![x] = typ]
          /\ kind' = [c \in Incoming |-> IF c = table[fd[x]] THEN typ ELSE kind[c]]
          /\ sends' = [sends EXCEPT ![x] = s]
          /\ reply' = [reply EXCEPT ![x] = r]
    BY DEF Recv
  <2>3. s \in 0..(MaxSends + 1)
    BY DescriptorsAssumption
  <2>4. sends' \in [Threads -> 0..(MaxSends + 1)] /\ reply' \in [Threads -> BOOLEAN]
    BY <2>1, <2>2, <2>3 DEF IInv, TypeOK
  <2>5. got' \in [Threads -> Kinds] /\ kind' \in [Incoming -> Kinds \cup {"unread"}]
    BY <2>1, <2>2 DEF IInv, TypeOK
  <2>6. at' \in [Threads -> {"idle", "recv", "task", "locked", "connect", "send", "close"}]
    BY <2>1 DEF IInv, TypeOK, Recv, Goto
  <2> QED
    BY <2>4, <2>5, <2>6 DEF IInv, TypeOK, Recv, serverVars, Entries
<1>5. Locking'
  BY DEF IInv, TypeOK, Locking, Recv, Goto, Plan
<1>6. Unmade'
  BY DEF IInv, Unmade, Recv, serverVars
<1>7. Single'
  BY DEF IInv, Single, Recv
<1>8. Distinct'
  BY <1>1, <1>3 DEF IInv, Distinct, Active, Recv
<1>9. Known'
  <2>1. ASSUME NEW t \in Threads, Active(t)', t # x
        PROVE  conn[t] \in Incoming /\ conn[t] # conn[x] /\ Active(t)
    BY <1>1, <1>3, <2>1 DEF IInv, Known, Distinct, Active, Recv
  <2>2. conn'[x] \in Incoming /\ kind'[conn'[x]] = got'[x]
    BY <1>1, <1>2 DEF IInv, TypeOK, Recv
  <2>3. ASSUME NEW t \in Threads, Active(t)', t # x
        PROVE  conn'[t] \in Incoming /\ (at'[t] # "recv" => kind'[conn'[t]] = got'[t])
    <3>1. kind'[conn[t]] = kind[conn[t]] /\ got'[t] = got[t] /\ at'[t] = at[t] /\ conn' = conn
      BY <1>2, <1>3, <2>1, <2>3 DEF IInv, TypeOK, Recv
    <3> QED
      BY <2>1, <2>3, <3>1 DEF IInv, Known
  <2> QED
    BY <2>2, <2>3 DEF Known
<1>10. OwnNumber'
  BY DEF IInv, TypeOK, OwnNumber, Recv, Goto, Plan
<1>11. OneListener'
  BY DEF IInv, OneListener, Recv, serverVars
<1>12. OwnDescriptors'
  BY DEF IInv, TypeOK, OwnDescriptors, ServerOwns, QueueOwns, TaskOwns, SenderOwns, Is, Recv,
         Goto, Plan, serverVars
<1>13. LeaksExplained'
  <2>1. ASSUME NEW m \in Numbers PROVE (Explained(m) \/ Leaked(m) \/ Abandoned(m))'
    <3>1. CASE Explained(m)
      BY <1>1, <1>3, <3>1 DEF Explained, Recv, serverVars, Threads
    <3>2. CASE Leaked(m) /\ table[m] = conn[x]
      <4>1. m = fd[x]
        BY <1>1, <3>2 DEF IInv, Single, Is
      <4> QED
        BY <1>1, <1>3, <3>2, <4>1 DEF Explained, Recv
    <3>3. CASE Leaked(m) /\ table[m] # conn[x]
      BY <1>2, <3>3 DEF Leaked, Recv
    <3>4. CASE Abandoned(m)
      BY <3>4 DEF Abandoned, Recv, serverVars
    <3> QED
      BY <3>1, <3>2, <3>3, <3>4 DEF IInv, LeaksExplained
  <2> QED
    BY <2>1 DEF LeaksExplained
<1> QED
  BY <1>4, <1>5, <1>6, <1>7, <1>8, <1>9, <1>10, <1>11, <1>12, <1>13 DEF IInv

(* It closes the connection, or leaves it open for good.                    *)
LEMMA TaskDoneKeeps ==
  ASSUME ~Sctp, IInv, NEW x \in Threads, TaskDone(x)
  PROVE  IInv'
<1>1. at[x] = "task" /\ at'[x] = "idle" /\ \A t \in Threads \ {x} : at'[t] = at[t]
  BY DEF IInv, TypeOK, TaskDone, Goto
<1>2. \A t \in Threads \ {x} : fd'[t] = fd[t] /\ conn'[t] = conn[t]
  BY DEF IInv, TypeOK, TaskDone
<1>3. \/ table' = table
      \/ /\ x \in RecvWorkers /\ Is(fd[x], conn[x]) /\ conn[x] \in Incoming
         /\ table' = [table EXCEPT ![fd[x]] = Free]
  BY <1>1 DEF IInv, OwnDescriptors, TaskOwns, Is, Known, Active, TaskDone, Closed
<1>4. \A y : y \notin Incoming \/ (y # conn[x] /\ x \in RecvWorkers) => \A m : Is(m, y) => Is(m, y)'
  <2> SUFFICES ASSUME NEW y, y \notin Incoming \/ (y # conn[x] /\ x \in RecvWorkers), NEW m, Is(m, y)
               PROVE  Is(m, y)'
    OBVIOUS
  <2>1. CASE table' = table
    BY <2>1 DEF Is
  <2>2. CASE table' # table
    <3>1. fd[x] \in Numbers /\ table[fd[x]] # y /\ table' = [table EXCEPT ![fd[x]] = Free]
      BY <1>3, <2>2 DEF Is
    <3> QED
      BY <3>1, Others DEF IInv
  <2> QED
    BY <2>1, <2>2
<1>5. TypeOK'
  BY DEF IInv, TypeOK, Entries, Kinds, TaskDone, Goto, Closed, Closes, serverVars
<1>6. Locking'
  BY DEF IInv, TypeOK, Locking, TaskDone, Goto, Closed, Closes
<1>7. Unmade'
  BY DescriptorsAssumption DEF IInv, TypeOK, Unmade, Entries, Kinds, TaskDone, Goto, Closed,
          Closes, serverVars
<1>8. Single'
  BY DescriptorsAssumption DEF IInv, TypeOK, Single, Entries, Kinds, TaskDone, Goto, Closed, Closes
<1>9. Distinct'
  BY DEF IInv, TypeOK, Distinct, Active, TaskDone, Goto, Closed, Closes
<1>10. Known'
  BY DEF IInv, TypeOK, Known, Active, TaskDone, Goto, Closed, Closes
<1>11. OwnNumber'
  BY DescriptorsAssumption DEF IInv, TypeOK, OwnNumber, Entries, Kinds, TaskDone, Goto, Closed,
          Closes
<1>12. OneListener'
  BY DescriptorsAssumption DEF IInv, TypeOK, OneListener, Entries, Kinds, TaskDone, Goto, Closed,
          Closes, serverVars
<1>13. OwnDescriptors'
  <2>1. ServerOwns'
    BY <1>4, FreeIsNothing DEF IInv, OwnDescriptors, ServerOwns, TaskDone, serverVars
  <2>2. QueueOwns'
    <3> SUFFICES ASSUME NEW q \in queue' PROVE Is(q.fd, q.conn)'
      BY DEF QueueOwns
    <3>1. q \in queue /\ Is(q.fd, q.conn)
      BY DEF IInv, OwnDescriptors, QueueOwns, TaskDone
    <3>2. CASE x \in RecvWorkers
      BY <1>1, <1>4, <3>1, <3>2 DEF IInv, Distinct, Active
    <3>3. CASE x \notin RecvWorkers
      BY <1>3, <3>1, <3>3 DEF Is
    <3> QED
      BY <3>2, <3>3
  <2>3. \A t \in Threads : TaskOwns(t)'
    <3> SUFFICES ASSUME NEW t \in RecvWorkers, t \in Threads, t # x, at'[t] # "idle"
                 PROVE  Is(fd[t], conn[t])'
      BY <1>1, <1>2 DEF TaskOwns, Is
    <3>1. Active(t) /\ Is(fd[t], conn[t])
      BY <1>1 DEF IInv, OwnDescriptors, TaskOwns, Active
    <3>2. CASE x \in RecvWorkers
      BY <1>1, <1>2, <1>4, <3>1, <3>2 DEF IInv, Distinct, Active
    <3>3. CASE x \notin RecvWorkers
      BY <1>2, <1>3, <3>1, <3>3 DEF Is
    <3> QED
      BY <3>2, <3>3
  <2>4. \A t \in Threads : SenderOwns(t)'
    BY <1>1, <1>4, FreeIsNothing DEF IInv, OwnDescriptors, SenderOwns, TaskDone
  <2> QED
    BY <2>1, <2>2, <2>3, <2>4 DEF OwnDescriptors
<1>14. LeaksExplained'
  <2>1. ASSUME NEW m \in Numbers, table'[m] # Free
        PROVE  (Explained(m) \/ Leaked(m) \/ Abandoned(m))'
    <3>1. table'[m] = table[m]
      BY <1>3, <2>1, Cleared DEF IInv, Is
    <3>2. CASE Leaked(m)
      BY <3>1, <3>2 DEF Leaked, TaskDone
    <3>3. CASE x \in RecvWorkers /\ fd[x] = m /\ conn[x] = table[m]
      <4>1. got[x] \in {"sign in", "unknown"}
        <5>1. CASE Closes(got[x])
          BY <2>1, <3>3, <5>1 DEF IInv, TypeOK, TaskDone, Closed
        <5>2. CASE ~Closes(got[x])
          BY <5>2 DEF Closes
        <5> QED
          BY <5>1, <5>2
      <4>2. kind[table[m]] = got[x] /\ table[m] \in Incoming
        BY <1>1, <3>3 DEF IInv, Known, Active
      <4> QED
        BY <3>1, <4>1, <4>2 DEF Leaked, TaskDone
    <3>4. CASE Explained(m) /\ ~(x \in RecvWorkers /\ fd[x] = m /\ conn[x] = table[m])
      BY <1>1, <1>2, <2>1, <3>1, <3>4 DEF Explained, TaskDone, serverVars, Threads
    <3>5. CASE Abandoned(m)
      BY <3>1, <3>5 DEF Abandoned, TaskDone, serverVars
    <3> QED
      BY <3>2, <3>3, <3>4, <3>5 DEF IInv, LeaksExplained
  <2> QED
    BY <2>1 DEF LeaksExplained, Explained
<1> QED
  BY <1>5, <1>6, <1>7, <1>8, <1>9, <1>10, <1>11, <1>12, <1>13, <1>14 DEF IInv

(* The user makes a thread send.                                            *)
LEMMA CommandKeeps ==
  ASSUME ~Sctp, IInv, NEW x \in Senders, Command(x)
  PROVE  IInv'
<1>1. TypeOK'
  <2>1. x \in Threads /\ jobs' \in 0..MaxJobs
    BY DescriptorsAssumption DEF IInv, TypeOK, Command, Threads
  <2>2. sends' \in [Threads -> 0..(MaxSends + 1)]
    <3>1. \A s \in 1..MaxSends : s \in 0..(MaxSends + 1)
      BY DescriptorsAssumption
    <3> QED
      BY <2>1, <3>1 DEF IInv, TypeOK, Command
  <2>3. at' \in [Threads -> {"idle", "recv", "task", "locked", "connect", "send", "close"}]
    BY <2>1 DEF IInv, TypeOK, Command, Goto
  <2> QED
    BY <2>1, <2>2, <2>3 DEF IInv, TypeOK, Command, serverVars, taskVars, Entries
<1>2. Locking'
  BY DEF IInv, Locking, Command, Goto
<1>3. Unmade'
  BY DEF IInv, Unmade, Command, serverVars
<1>4. Single'
  BY DEF IInv, Single, Command
<1>5. Distinct'
  <2>1. x \in Threads /\ x \notin RecvWorkers
    BY DescriptorsAssumption DEF Threads
  <2> QED
    BY <2>1 DEF IInv, TypeOK, Distinct, Active, Command, Goto, taskVars
<1>6. Known'
  <2>1. x \in Threads /\ x \notin RecvWorkers
    BY DescriptorsAssumption DEF Threads
  <2> QED
    BY <2>1 DEF IInv, TypeOK, Known, Active, Command, Goto, taskVars
<1>7. OwnNumber'
  BY DEF IInv, OwnNumber, Command, Goto
<1>8. OneListener'
  BY DEF IInv, OneListener, Command, serverVars
<1>9. OwnDescriptors'
  <2>1. x \in Threads /\ x \notin RecvWorkers
    BY DescriptorsAssumption DEF Threads
  <2>2. ServerOwns' /\ QueueOwns'
    BY DEF IInv, OwnDescriptors, ServerOwns, QueueOwns, Is, Command, serverVars
  <2>3. \A t \in Threads : TaskOwns(t)' /\ SenderOwns(t)'
    BY <2>1 DEF IInv, TypeOK, OwnDescriptors, TaskOwns, SenderOwns, Is, Command, Goto, taskVars
  <2> QED
    BY <2>2, <2>3 DEF OwnDescriptors
<1>10. LeaksExplained'
  BY DEF IInv, TypeOK, LeaksExplained, Threads, Explained, Leaked, Abandoned, Command, Goto,
         serverVars,
         taskVars
<1> QED
  BY <1>1, <1>2, <1>3, <1>4, <1>5, <1>6, <1>7, <1>8, <1>9, <1>10 DEF IInv

(* A thread begins to send.                                                 *)
LEMMA LockKeeps ==
  ASSUME ~Sctp, IInv, NEW x \in Threads, Lock(x)
  PROVE  IInv'
<1>1. TypeOK'
  <2>1. sends' \in [Threads -> 0..(MaxSends + 1)] /\ reply' \in [Threads -> BOOLEAN]
    <3>1. 1 \in 0..(MaxSends + 1)
      BY DescriptorsAssumption
    <3> QED
      BY <3>1 DEF IInv, TypeOK, Lock
  <2>2. at' \in [Threads -> {"idle", "recv", "task", "locked", "connect", "send", "close"}]
    BY DEF IInv, TypeOK, Lock, Goto
  <2> QED
    BY <2>1, <2>2 DEF IInv, TypeOK, Lock, serverVars, Entries
<1>2. Locking'
  BY DescriptorsAssumption DEF IInv, TypeOK, Locking, Entries, Kinds, Lock, Goto, Available
<1>3. Unmade'
  BY DEF IInv, Unmade, Lock, serverVars
<1>4. Single'
  BY DEF IInv, Single, Lock
<1>5. Distinct'
  BY DEF IInv, Distinct, Active, Lock, Goto, Available
<1>6. Known'
  BY DEF IInv, Known, Active, Lock, Goto, Available
<1>7. OwnNumber'
  BY DEF IInv, OwnNumber, Lock, Goto, Available
<1>8. OneListener'
  BY DEF IInv, OneListener, Lock, serverVars
<1>9. OwnDescriptors'
  BY DEF IInv, OwnDescriptors, ServerOwns, QueueOwns, TaskOwns, SenderOwns, Is, Lock, Goto,
         Available, serverVars
<1>10. LeaksExplained'
  BY DEF IInv, TypeOK, LeaksExplained, Threads, Explained, Leaked, Abandoned, Lock, Goto,
         Available, serverVars
<1> QED
  BY <1>1, <1>2, <1>3, <1>4, <1>5, <1>6, <1>7, <1>8, <1>9, <1>10 DEF IInv

(* Its socket gets a free number, known to sock_fd alone.                   *)
LEMMA SocketKeeps ==
  ASSUME ~Sctp, IInv, NEW x \in Threads, Socket(x)
  PROVE  IInv'
<1>1. at[x] = "locked" /\ \A n \in Numbers : table[n] # x
  <2>1. \A n \in Numbers : table[n] # x
    BY DEF IInv, OwnNumber, Socket
  <2> QED
    BY <2>1 DEF Socket
<1>2. \/ table' = table /\ at' = at
      \/ \E n \in Numbers : /\ table[n] = Free /\ table' = [table EXCEPT ![n] = x]
                            /\ sock_fd' = n /\ at' = [at EXCEPT ![x] = "connect"]
  BY DEF Socket, NewNumbers, Goto
<1>3. \A t \in Threads \ {x} : at'[t] = at[t] /\ at[t] \notin {"connect", "send", "close"}
  <2>1. \A t \in Threads \ {x} : at[t] \notin {"connect", "send", "close"}
    BY <1>1 DEF IInv, Locking
  <2> QED
    BY <1>2, <2>1 DEF IInv, TypeOK
<1>4. at'[x] \in {"locked", "connect"}
  BY <1>1, <1>2 DEF IInv, TypeOK
<1>5. \A m \in Numbers : table'[m] = table[m] \/ (table[m] = Free /\ table'[m] = x)
  <2>1. ASSUME NEW n \in Numbers, table[n] = Free, table' = [table EXCEPT ![n] = x],
               NEW m \in Numbers
        PROVE  table'[m] = table[m] \/ (table[m] = Free /\ table'[m] = x)
    BY <2>1 DEF IInv, TypeOK
  <2> QED
    BY <1>2, <2>1
<1>6. \A y : y # Free => \A m : Is(m, y) => Is(m, y)'
  BY <1>5 DEF Is
<1>7. TypeOK'
  <2>1. table' \in [Numbers -> Entries]
    BY FreeIsNothing DEF IInv, TypeOK, Socket, Entries, NewNumbers
  <2>2. sends' \in [Threads -> 0..(MaxSends + 1)]
    BY LessSends DEF IInv, TypeOK, Socket
  <2>3. at' \in [Threads -> {"idle", "recv", "task", "locked", "connect", "send", "close"}]
    BY DEF IInv, TypeOK, Socket, Goto
  <2>4. sock_fd' \in Numbers \cup {NoNumber}
    BY DEF IInv, TypeOK, Socket, NewNumbers
  <2>5. Entries' = Entries
    BY DEF Entries
  <2> QED
    BY <2>1, <2>2, <2>3, <2>4, <2>5 DEF IInv, TypeOK, Socket, serverVars, taskVars
<1>8. Locking'
  BY DEF IInv, TypeOK, Locking, Socket, Goto, NewNumbers, OneLess
<1>9. Unmade'
  BY <1>5, FreeIsNothing DEF IInv, Unmade, TypeOK, Socket, serverVars
<1>10. Single'
  BY <1>5, FreeIsNothing DEF IInv, Single
<1>11. Distinct'
  <2>1. \A t \in Threads : Active(t)' => Active(t)
    BY <1>1, <1>3 DEF Active
  <2> QED
    BY <2>1 DEF IInv, Distinct, Socket, taskVars
<1>12. Known'
  BY DEF IInv, TypeOK, Known, Active, Socket, Goto, NewNumbers, OneLess, taskVars
<1>13. OwnNumber'
  <2> SUFFICES ASSUME NEW t \in Threads, NEW n \in Numbers, table'[n] = t
               PROVE  \/ at'[t] = "connect" /\ n = sock_fd'
                      \/ at'[t] \in {"send", "close"} /\ n = sock'[t]
    BY DEF OwnNumber
  <2>1. t = x
    BY <1>3, <1>5 DEF IInv, OwnNumber
  <2> QED
    BY <1>1, <1>2, <2>1 DEF IInv, TypeOK
<1>14. OneListener'
  BY DescriptorsAssumption DEF IInv, TypeOK, OneListener, Entries, Kinds, Socket, serverVars
<1>15. OwnDescriptors'
  <2>1. ServerOwns'
    BY <1>6, FreeIsNothing DEF IInv, OwnDescriptors, ServerOwns, Socket, serverVars
  <2>2. QueueOwns'
    BY <1>6, FreeIsNothing DEF IInv, TypeOK, OwnDescriptors, QueueOwns, Socket
  <2>3. \A t \in Threads : TaskOwns(t)'
    BY <1>1, <1>3, <1>6, FreeIsNothing
       DEF IInv, OwnDescriptors, Known, Active, TaskOwns, Socket, taskVars
  <2>4. \A t \in Threads : SenderOwns(t)'
    <3>1. SenderOwns(x)'
      BY <1>1, <1>2, <1>4 DEF IInv, TypeOK, SenderOwns, Is
    <3> QED
      BY <1>3, <3>1 DEF SenderOwns
  <2> QED
    BY <2>1, <2>2, <2>3, <2>4 DEF OwnDescriptors
<1>16. LeaksExplained'
  <2>1. ASSUME NEW m \in Numbers PROVE (Explained(m) \/ Leaked(m) \/ Abandoned(m))'
    <3>1. CASE table'[m] = table[m]
      <4>1. Explained(m) \/ Leaked(m) \/ Abandoned(m)
        BY DEF IInv, LeaksExplained
      <4>2. ASSUME NEW t \in RecvWorkers, at[t] # "idle" PROVE at'[t] # "idle"
        BY <1>3, <1>4, <4>2 DEF Threads
      <4>3. table[m] # x
        BY <1>1
      <4> QED
        BY <1>3, <3>1, <4>1, <4>2, <4>3 DEF Explained, Leaked, Abandoned, Socket, serverVars,
                                            taskVars
    <3>2. CASE table[m] = Free /\ table'[m] = x /\ table'[m] # table[m]
      <4>1. at'[x] = "connect"
        BY <1>2, <3>2 DEF IInv, TypeOK
      <4> QED
        BY <3>2, <4>1 DEF Explained
    <3> QED
      BY <1>5, <3>1, <3>2
  <2> QED
    BY <2>1 DEF LeaksExplained
<1> QED
  BY <1>7, <1>8, <1>9, <1>10, <1>11, <1>12, <1>13, <1>14, <1>15, <1>16 DEF IInv

(* It connects, or the number is free again.                                *)
LEMMA ConnectKeeps ==
  ASSUME ~Sctp, IInv, NEW x \in Threads, Connect(x)
  PROVE  IInv'
<1>1. at[x] = "connect" /\ Is(sock_fd, x)
  BY DEF IInv, OwnDescriptors, SenderOwns, Connect
<1>2. \/ table' = table /\ at' = [at EXCEPT ![x] = "send"] /\ sock' = [sock EXCEPT ![x] = sock_fd]
      \/ table' = [table EXCEPT ![sock_fd] = Free] /\ at' = [at EXCEPT ![x] = "locked"] /\ sock' = sock
  BY <1>1 DEF Connect, Goto, Closed, Is
<1>3. \A t \in Threads \ {x} : at'[t] = at[t] /\ at[t] \notin {"connect", "send", "close"}
  <2>1. \A t \in Threads \ {x} : at[t] \notin {"connect", "send", "close"}
    BY <1>1 DEF IInv, Locking
  <2> QED
    BY <1>2, <2>1 DEF IInv, TypeOK
<1>4. at'[x] \in {"locked", "send"}
  BY <1>2 DEF IInv, TypeOK
<1>5. \A m \in Numbers : table'[m] = table[m] \/ (table[m] = x /\ table'[m] = Free)
  <2>1. sock_fd \in Numbers /\ table[sock_fd] = x
    BY <1>1 DEF Is
  <2>2. ASSUME table' = [table EXCEPT ![sock_fd] = Free], NEW m \in Numbers
        PROVE  table'[m] = table[m] \/ (table[m] = x /\ table'[m] = Free)
    BY <2>1, <2>2 DEF IInv, TypeOK
  <2> QED
    BY <1>2, <2>2
<1>6. \A y : y # x => \A m : Is(m, y) => Is(m, y)'
  BY <1>5 DEF Is
<1>7. TypeOK'
  <2>1. table' \in [Numbers -> Entries]
    BY DEF IInv, TypeOK, Connect, Entries, Closed
  <2>2. sends' \in [Threads -> 0..(MaxSends + 1)]
    BY LessSends DEF IInv, TypeOK, Connect, Locking
  <2>3. at' \in [Threads -> {"idle", "recv", "task", "locked", "connect", "send", "close"}]
    BY DEF IInv, TypeOK, Connect, Goto
  <2>4. sock' \in [Threads -> Numbers \cup {NoNumber}]
    BY DEF IInv, TypeOK, Connect
  <2>5. Entries' = Entries
    BY DEF Entries
  <2> QED
    BY <2>1, <2>2, <2>3, <2>4, <2>5 DEF IInv, TypeOK, Connect, serverVars, taskVars
<1>8. Locking'
  BY DEF IInv, TypeOK, Locking, Connect, Goto, OneLess
<1>9. Unmade'
  BY <1>5, FreeIsNothing DEF IInv, Unmade, TypeOK, Connect, serverVars
<1>10. Single'
  BY <1>5, FreeIsNothing DEF IInv, Single
<1>11. Distinct'
  <2>1. \A t \in Threads : Active(t)' => Active(t)
    BY <1>1, <1>3 DEF Active
  <2> QED
    BY <2>1 DEF IInv, Distinct, Connect, taskVars
<1>12. Known'
  BY DEF IInv, TypeOK, Known, Active, Connect, Goto, Closed, OneLess, taskVars
<1>13. OwnNumber'
  <2> SUFFICES ASSUME NEW t \in Threads, NEW n \in Numbers, table'[n] = t
               PROVE  \/ at'[t] = "connect" /\ n = sock_fd'
                      \/ at'[t] \in {"send", "close"} /\ n = sock'[t]
    BY DEF OwnNumber
  <2>1. t = x /\ table[n] = x
    BY <1>3, <1>5, FreeIsNothing DEF IInv, OwnNumber
  <2>2. n = sock_fd
    BY <1>1, <2>1 DEF IInv, OwnNumber
  <2> QED
    BY <1>1, <1>2, <2>1, <2>2, FreeIsNothing DEF IInv, TypeOK
<1>14. OneListener'
  BY DescriptorsAssumption DEF IInv, TypeOK, OneListener, Entries, Kinds, Connect, Goto, Closed,
          OneLess, serverVars
<1>15. OwnDescriptors'
  <2>1. ServerOwns'
    BY <1>6, FreeIsNothing DEF IInv, OwnDescriptors, ServerOwns, Connect, serverVars
  <2>2. QueueOwns'
    BY <1>6, FreeIsNothing DEF IInv, TypeOK, OwnDescriptors, QueueOwns, Connect
  <2>3. \A t \in Threads : TaskOwns(t)'
    BY <1>1, <1>3, <1>6, FreeIsNothing
       DEF IInv, OwnDescriptors, Known, Active, TaskOwns, Connect, taskVars
  <2>4. \A t \in Threads : SenderOwns(t)'
    <3>1. SenderOwns(x)'
      BY <1>1, <1>2, <1>4 DEF IInv, TypeOK, SenderOwns, Is
    <3> QED
      BY <1>3, <3>1 DEF SenderOwns
  <2> QED
    BY <2>1, <2>2, <2>3, <2>4 DEF OwnDescriptors
<1>16. LeaksExplained'
  <2>1. ASSUME NEW m \in Numbers, table'[m] # Free
        PROVE  (Explained(m) \/ Leaked(m) \/ Abandoned(m))'
    <3>1. table'[m] = table[m]
      BY <1>5, <2>1
    <3>2. CASE table[m] = x
      <4>1. at'[x] = "send"
        <5>1. m = sock_fd
          BY <1>1, <3>2 DEF IInv, OwnNumber
        <5> QED
          BY <1>2, <2>1, <5>1 DEF IInv, TypeOK
      <4> QED
        BY <3>1, <3>2, <4>1 DEF Explained
    <3>3. CASE table[m] # x
      BY <1>1, <1>3, <1>4, <3>1, <3>3
         DEF IInv, LeaksExplained, Explained, Leaked, Abandoned, Connect, serverVars, taskVars,
             Threads
    <3> QED
      BY <3>2, <3>3
  <2> QED
    BY <2>1 DEF LeaksExplained, Explained
<1> QED
  BY <1>7, <1>8, <1>9, <1>10, <1>11, <1>12, <1>13, <1>14, <1>15, <1>16 DEF IInv

(* It sends.                                                                *)
LEMMA SendKeeps ==
  ASSUME ~Sctp, IInv, NEW x \in Threads, Send(x)
  PROVE  IInv'
<1>1. TypeOK'
  BY DEF IInv, TypeOK, Entries, Kinds, Send, Goto, serverVars, taskVars
<1>2. Locking'
  BY DEF IInv, Locking, Send, Goto
<1>3. Unmade'
  BY DEF IInv, Unmade, Send, serverVars
<1>4. Single'
  BY DEF IInv, Single, Send
<1>5. Distinct'
  BY DEF IInv, Distinct, Active, Send, Goto, taskVars
<1>6. Known'
  BY DEF IInv, Known, Active, Send, Goto, taskVars
<1>7. OwnNumber'
  BY DEF IInv, OwnNumber, Send, Goto
<1>8. OneListener'
  BY DEF IInv, OneListener, Send, serverVars
<1>9. OwnDescriptors'
  BY DEF IInv, OwnDescriptors, ServerOwns, QueueOwns, TaskOwns, SenderOwns, Is, Send, Goto,
         serverVars, taskVars
<1>10. LeaksExplained'
  BY DEF IInv, TypeOK, LeaksExplained, Threads, Explained, Leaked, Abandoned, Send, Goto,
         serverVars, taskVars
<1> QED
  BY <1>1, <1>2, <1>3, <1>4, <1>5, <1>6, <1>7, <1>8, <1>9, <1>10 DEF IInv

(* It closes its own number.                                                *)
LEMMA CloseKeeps ==
  ASSUME ~Sctp, IInv, NEW x \in Threads, Close(x)
  PROVE  IInv'
<1>1. at[x] = "close" /\ Is(sock[x], x)
  BY DEF IInv, OwnDescriptors, SenderOwns, Close
<1>2. table' = [table EXCEPT ![sock[x]] = Free] /\ at' = [at EXCEPT ![x] = "locked"]
  BY <1>1 DEF Close, CloseSock, Goto, Closed, Is
<1>3. \A t \in Threads \ {x} : at'[t] = at[t] /\ at[t] \notin {"connect", "send", "close"}
  <2>1. \A t \in Threads \ {x} : at[t] \notin {"connect", "send", "close"}
    BY <1>1 DEF IInv, Locking
  <2> QED
    BY <1>2, <2>1 DEF IInv, TypeOK
<1>4. at'[x] = "locked"
  BY <1>2 DEF IInv, TypeOK
<1>5. \A m \in Numbers : table'[m] = table[m] \/ (table[m] = x /\ table'[m] = Free)
  <2>1. sock[x] \in Numbers /\ table[sock[x]] = x
    BY <1>1 DEF Is
  <2> QED
    BY <1>2, <2>1 DEF IInv, TypeOK
<1>6. \A y : y # x => \A m : Is(m, y) => Is(m, y)'
  BY <1>5 DEF Is
<1>7. TypeOK'
  <2>1. table' \in [Numbers -> Entries]
    BY DEF IInv, TypeOK, Close, CloseSock, Entries, Closed
  <2>2. sends' \in [Threads -> 0..(MaxSends + 1)]
    BY LessSends DEF IInv, TypeOK, Close, Locking
  <2>3. at' \in [Threads -> {"idle", "recv", "task", "locked", "connect", "send", "close"}]
    BY DEF IInv, TypeOK, Close, Goto
  <2>4. sock' \in [Threads -> Numbers \cup {NoNumber}]
    BY DEF IInv, TypeOK, Close
  <2>5. Entries' = Entries
    BY DEF Entries
  <2> QED
    BY <2>1, <2>2, <2>3, <2>4, <2>5 DEF IInv, TypeOK, Close, serverVars, taskVars
<1>8. Locking'
  BY DEF IInv, TypeOK, Locking, Close, Goto, Closed, CloseSock, OneLess
<1>9. Unmade'
  BY DescriptorsAssumption DEF IInv, TypeOK, Unmade, Entries, Kinds, Close, Goto, Closed,
          CloseSock, OneLess, serverVars
<1>10. Single'
  BY DescriptorsAssumption DEF IInv, TypeOK, Single, Entries, Kinds, Close, Goto, Closed,
          CloseSock, OneLess
<1>11. Distinct'
  BY DEF IInv, Distinct, Active, Close, Goto, Closed, CloseSock, OneLess, taskVars
<1>12. Known'
  BY DEF IInv, Known, Active, Close, Goto, Closed, CloseSock, OneLess, taskVars
<1>13. OwnNumber'
  <2>1. ASSUME NEW n \in Numbers PROVE table'[n] # x
    BY <1>1, <1>2, FreeIsNothing DEF IInv, OwnNumber, TypeOK, Is
  <2> QED
    BY <1>3, <1>5, <2>1, FreeIsNothing DEF IInv, OwnNumber
<1>14. OneListener'
  BY DescriptorsAssumption DEF IInv, TypeOK, OneListener, Entries, Kinds, Close, Goto, Closed,
          CloseSock, OneLess, serverVars
<1>15. OwnDescriptors'
  <2>1. ServerOwns'
    BY <1>6, FreeIsNothing DEF IInv, OwnDescriptors, ServerOwns, Close, serverVars
  <2>2. QueueOwns'
    BY <1>6, FreeIsNothing DEF IInv, TypeOK, OwnDescriptors, QueueOwns, Close
  <2>3. \A t \in Threads : TaskOwns(t)'
    BY <1>1, <1>3, <1>6, FreeIsNothing
       DEF IInv, OwnDescriptors, Known, Active, TaskOwns, Close, taskVars
  <2>4. \A t \in Threads : SenderOwns(t)'
    <3>1. SenderOwns(x)'
      BY <1>4 DEF SenderOwns
    <3> QED
      BY <1>3, <3>1 DEF SenderOwns
  <2> QED
    BY <2>1, <2>2, <2>3, <2>4 DEF OwnDescriptors
<1>16. LeaksExplained'
  <2>1. ASSUME NEW m \in Numbers, table'[m] # Free
        PROVE  (Explained(m) \/ Leaked(m) \/ Abandoned(m))'
    <3>1. table'[m] = table[m] /\ table[m] # x
      BY <1>1, <1>2, <2>1, Cleared DEF IInv, OwnNumber, Is
    <3> QED
      BY <1>1, <1>3, <1>4, <3>1
         DEF IInv, LeaksExplained, Explained, Leaked, Abandoned, Close, serverVars, taskVars,
             Threads
  <2> QED
    BY <2>1 DEF LeaksExplained, Explained
<1> QED
  BY <1>7, <1>8, <1>9, <1>10, <1>11, <1>12, <1>13, <1>14, <1>15, <1>16 DEF IInv

(* It stops sending.                                                        *)
LEMMA UnlockKeeps ==
  ASSUME ~Sctp, IInv, NEW x \in Threads, Unlock(x)
  PROVE  IInv'
<1>1. TypeOK'
  BY DEF IInv, TypeOK, Entries, Kinds, Unlock, Goto, serverVars, taskVars
<1>2. Locking'
  BY DEF IInv, TypeOK, Locking, Unlock, Goto
<1>3. Unmade'
  BY DEF IInv, Unmade, Unlock, serverVars
<1>4. Single'
  BY DEF IInv, Single, Unlock
<1>5. Distinct'
  BY DEF IInv, Distinct, Active, Unlock, Goto, taskVars
<1>6. Known'
  BY DEF IInv, Known, Active, Unlock, Goto, taskVars
<1>7. OwnNumber'
  BY DEF IInv, OwnNumber, Unlock, Goto
<1>8. OneListener'
  BY DEF IInv, OneListener, Unlock, serverVars
<1>9. OwnDescriptors'
  BY DEF IInv, OwnDescriptors, ServerOwns, QueueOwns, TaskOwns, SenderOwns, Is, Unlock, Goto,
         serverVars, taskVars
<1>10. LeaksExplained'
  BY DEF IInv, TypeOK, LeaksExplained, Threads, Explained, Leaked, Abandoned, Unlock, Goto,
         serverVars,
         taskVars
<1> QED
  BY <1>1, <1>2, <1>3, <1>4, <1>5, <1>6, <1>7, <1>8, <1>9, <1>10 DEF IInv

-----------------------------------------------------------------------------
LEMMA InitHolds == Init => IInv
<1> SUFFICES ASSUME Init PROVE IInv
  OBVIOUS
<1>1. TypeOK
  BY DescriptorsAssumption DEF Init, TypeOK, Entries, Kinds
<1>2. OwnDescriptors /\ Known /\ Distinct
  BY DEF Init, OwnDescriptors, ServerOwns, QueueOwns, TaskOwns, SenderOwns, Known, Distinct, Active
<1>3. LeaksExplained
  BY DEF Init, LeaksExplained, Explained
<1>4. Locking /\ Unmade /\ Single /\ OwnNumber /\ OneListener
  BY FreeIsNothing DEF Init, Locking, Unmade, Single, OwnNumber, OneListener
<1> QED
  BY <1>1, <1>2, <1>3, <1>4 DEF IInv

LEMMA StutterKeeps == ASSUME IInv, UNCHANGED vars PROVE IInv'
<1>1. TypeOK' /\ Locking' /\ Unmade' /\ Single'
  BY DEF IInv, TypeOK, Entries, Locking, Unmade, Single, vars, serverVars, taskVars
<1>2. Distinct' /\ Known' /\ OwnNumber' /\ OneListener'
  BY DEF IInv, Distinct, Known, Active, OwnNumber, OneListener, vars, serverVars, taskVars
<1>3. OwnDescriptors'
  BY DEF IInv, OwnDescriptors, ServerOwns, QueueOwns, TaskOwns, SenderOwns, Is,
         vars, serverVars, taskVars
<1>4. LeaksExplained'
  BY DEF IInv, LeaksExplained, Explained, Leaked, Abandoned, vars, serverVars, taskVars
<1> QED
  BY <1>1, <1>2, <1>3, <1>4 DEF IInv

LEMMA NextKeeps == ASSUME ~Sctp, IInv, [Next]_vars PROVE IInv'
<1>1. CASE ServerStep
  BY <1>1, ServerSocketKeeps, ServerBindKeeps, ServerOptionsKeeps, ServerListenKeeps DEF ServerStep
<1>2. ASSUME NEW c \in Incoming, Arrive(c) \/ Accept(c) PROVE IInv'
  BY <1>2, ArriveKeeps, AcceptKeeps
<1>3. ASSUME NEW t \in RecvWorkers, TakeTask(t) \/ Recv(t) PROVE IInv'
  BY <1>3, TakeTaskKeeps, RecvKeeps
<1>4. ASSUME NEW t \in Senders, Command(t) PROVE IInv'
  BY <1>4, CommandKeeps
<1>5. ASSUME NEW t \in Threads, SendStep(t) PROVE IInv'
  BY <1>5, LockKeeps, SocketKeeps, ConnectKeeps, SendKeeps, CloseKeeps, UnlockKeeps, TaskDoneKeeps
     DEF SendStep
<1>6. CASE UNCHANGED vars
  BY <1>6, StutterKeeps
<1> QED
  BY <1>1, <1>2, <1>3, <1>4, <1>5, <1>6 DEF Next

LEMMA InvHolds == ASSUME ~Sctp PROVE Spec => []IInv
<1>1. IInv /\ [Next]_vars => IInv'
  BY NextKeeps
<1> QED
  BY <1>1, InitHolds, PTL DEF Spec

(* Every variable has its type over TCP; the number of packets to send      *)
(* never goes below zero (task.c:156-212).                                  *)
THEOREM DescriptorsTyped == ASSUME ~Sctp PROVE Spec => []TypeOK
<1>1. IInv => TypeOK
  BY DEF IInv
<1> QED
  BY <1>1, InvHolds, PTL

(* Over TCP every thread uses a number for what it was given for, however   *)
(* many threads accept, read, connect and close at the same time, although  *)
(* client.c hands the number over in a global variable                      *)
(* (server.c:197-221, task.c:163-212, client.c:59-81).                      *)
THEOREM DescriptorsOwned == ASSUME ~Sctp PROVE Spec => []OwnDescriptors
<1>1. IInv => OwnDescriptors
  BY DEF IInv
<1> QED
  BY <1>1, InvHolds, PTL

(* Over TCP a number that nobody will close belongs to a connection that    *)
(* carried a sign-in or an unknown type (task.c:670-712), or is the socket  *)
(* of a server thread that has ended (server.c:61-64, 84-96, 188-193).      *)
THEOREM LeaksAreExplained == ASSUME ~Sctp PROVE Spec => []LeaksExplained
<1>1. IInv => LeaksExplained
  BY DEF IInv
<1> QED
  BY <1>1, InvHolds, PTL

(* Over TCP no sender sends to a peer that has just connected to us: what   *)
(* the run of DescriptorsSctp finds violated over SCTP (task.c:149).        *)
THEOREM TcpSendsToAddressee == ASSUME ~Sctp PROVE Spec => []SentToAddressee
<1>1. IInv => SentToAddressee
  BY FreeIsNothing DEF IInv, OwnDescriptors, SenderOwns, Is, SentToAddressee
<1> QED
  BY <1>1, InvHolds, PTL
==============================================================================
