---------------------------- MODULE PeerProtocol ----------------------------
(***************************************************************************)
(* The exchange of member lists between the peers: the tasks of            *)
(* src/Chat/src/task.c that sign in, pass lists on and sign out, run by    *)
(* the pool workers of every node over one TCP connection per packet.      *)
(*                                                                         *)
(* A node is named by its address.  Its list always begins with itself and *)
(* never holds two entries with one id or one address (Members!Unique,     *)
(* Members!SelfFirst), so members[n] is the set of its other entries and   *)
(* an entry is the node it names; List_no_of_members() > 1 says that the   *)
(* set is not empty.                                                       *)
(*                                                                         *)
(* A step is what a handler does between two points where it can be        *)
(* overtaken: a stretch under the mutex of the node is one step unless it  *)
(* sends to several peers or sets the flag sign.  A definition Name_Bug is *)
(* no part of the model: it is a broken form of Name that PROJECT.json     *)
(* uses to show what a property detects.                                   *)
(*                                                                         *)
(* Bounds: MayConnect and MayQuit say which commands the users may give,   *)
(* MaxCommands how many of them all users give together, MaxOverlaps how   *)
(* many of these before the exchange caused by the earlier ones is over,   *)
(* MaxLost how many connections or sends fail although the peer is there,  *)
(* Backlog how many connections wait at a node.                            *)
(***************************************************************************)
EXTENDS Naturals, Sequences, FiniteSets

CONSTANTS
  Nodes,          (* the peers, as addresses                               *)
  Ids,            (* user names                                            *)
  IdOf,           (* IdOf[n]: the name the user of n has chosen            *)
  Workers,        (* the workers of a node's receive pool                  *)
  Free, Leaked, Sender, Cmd,    (* other values of a mutex owner           *)
  MayConnect,     (* pairs <<n, m>>: the user of n may type /connect m     *)
  MayQuit,        (* nodes whose user may type /quit                       *)
  MaxCommands, MaxOverlaps, MaxLost, Backlog

ASSUME PeerAssumption ==
  /\ IdOf \in [Nodes -> Ids]
  /\ MayConnect \subseteq Nodes \X Nodes /\ MayQuit \subseteq Nodes
  /\ Workers \cap {Free, Leaked, Sender, Cmd} = {}
  /\ Cardinality({Free, Leaked, Sender, Cmd}) = 4
  /\ MaxCommands \in Nat /\ MaxOverlaps \in Nat /\ MaxLost \in Nat /\ Backlog \in Nat

VARIABLES
  status,         (* is the process of a node there?                       *)
  members,        (* the list of a node without its head                   *)
  mutex,          (* owner of the mutex of task.c of a node                *)
  sign,           (* the flag sign of a node                               *)
  inbox,          (* connections a node has not taken up, oldest first     *)
  work,           (* work[n][w]: what worker w of node n is doing          *)
  out,            (* the send_sign_in of a node                            *)
  quit,           (* the send_quit of a node                               *)
  asked,          (* commands given so far                                 *)
  lost,           (* failures so far                                       *)
  greeted,        (* <<n, m>>: m was sent a SIGN_IN by n                   *)
  overlaps,       (* commands given while an exchange was under way        *)
  newcomers       (* only nodes that knew nobody were told to connect      *)

nodeVars == <<status, members, mutex, sign>>
netVars  == <<inbox, lost>>
histVars == <<asked, greeted, overlaps, newcomers>>
vars == <<nodeVars, netVars, work, out, quit, histVars>>

(* Packets as their receiver uses them.  The first entry of a SIGN_IN is    *)
(* its sender.                                                              *)
SignIn(n, l)  == [type |-> "SIGN_IN", first |-> n, list |-> l]
MemberList(l) == [type |-> "MEMBER_LIST", list |-> l]

SignOut_WrongType(id) == [type |-> "MEMBER_LIST", id |-> id]
SignOut(id)           == [type |-> "SIGN_OUT", id |-> id]

Packet ==
  [type : {"SIGN_IN"}, first : Nodes, list : SUBSET Nodes]
    \cup [type : {"MEMBER_LIST"}, list : SUBSET Nodes]
    \cup [type : {"SIGN_OUT"}, id : Ids]

Idle == [at |-> "idle"]
At(label, p, l) == [at |-> label, packet |-> p, todo |-> l]

Do(n, w, state) == work' = [work EXCEPT ![n][w] = state]

Lock_Unguarded(n, t) == mutex' = [mutex EXCEPT ![n] = t]
Lock(n, t)           == mutex[n] = Free /\ mutex' = [mutex EXCEPT ![n] = t]
Unlock(n)            == mutex' = [mutex EXCEPT ![n] = Free]

Everyone(n) == members[n] \cup {n}

(* List_new_member refuses what clashes with an entry, the head included.   *)
Accepts_HeadForgotten(n, m) == \A x \in members[n] : x # m /\ IdOf[x] # IdOf[m]
Accepts(n, m) == \A x \in Everyone(n) : x # m /\ IdOf[x] # IdOf[m]

(* The entry List_delete_member removes: at most one, names are unique.     *)
Named_Nothing(n, id) == {}
Named(n, id)         == {m \in members[n] : IdOf[m] = id}

(* Client_connect and send: the connection waits at the peer, or fails.     *)
Arrives(m, p) ==
  /\ status[m] = "up"
  /\ Len(inbox[m]) < Backlog
  /\ inbox' = [inbox EXCEPT ![m] = Append(@, p)]
  /\ UNCHANGED lost

Fails(m) ==
  /\ UNCHANGED inbox
  /\ \/ status[m] # "up" /\ UNCHANGED lost
     \/ status[m] = "up" /\ lost < MaxLost /\ lost' = lost + 1

Send(m, p) == Arrives(m, p) \/ Fails(m)

(* A node at rest has nothing to do and nothing waiting. *)
AtRest(n) ==
  /\ status[n] = "up"
  /\ inbox[n] = <<>>
  /\ \A w \in Workers : work[n][w] = Idle
  /\ out[n].at = "idle"
  /\ quit[n].at = "no"

Quiet == \A n \in Nodes : status[n] # "up" \/ AtRest(n)

Init ==
  /\ status = [n \in Nodes |-> "up"]
  /\ members = [n \in Nodes |-> {}]
  /\ mutex = [n \in Nodes |-> Free]
  /\ sign = [n \in Nodes |-> FALSE]
  /\ inbox = [n \in Nodes |-> <<>>]
  /\ work = [n \in Nodes |-> [w \in Workers |-> Idle]]
  /\ out = [n \in Nodes |-> Idle]
  /\ quit = [n \in Nodes |-> [at |-> "no", todo |-> {}]]
  /\ asked = 0
  /\ lost = 0
  /\ greeted = {}
  /\ overlaps = 0
  /\ newcomers = TRUE

-----------------------------------------------------------------------------
(* The users' commands. *)
Command(n) ==
  /\ status[n] = "up"
  /\ quit[n].at = "no"
  /\ asked < MaxCommands
  /\ asked' = asked + 1
  /\ \/ Quiet /\ UNCHANGED overlaps
     \/ ~Quiet /\ overlaps < MaxOverlaps /\ overlaps' = overlaps + 1

(* /connect puts a send_sign_in into the send pool. *)
Connect(n, m) ==
  /\ Command(n)
  /\ out[n].at = "idle"
  /\ newcomers' = (newcomers /\ members[n] = {})
  /\ out' = [out EXCEPT ![n] = [at |-> "lock", to |-> m]]
  /\ UNCHANGED <<nodeVars, netVars, work, quit, greeted>>

(* /quit calls send_quit in the command thread. *)
Quit(n) ==
  /\ Command(n)
  /\ quit' = [quit EXCEPT ![n].at = "lock"]
  /\ UNCHANGED <<nodeVars, netVars, work, out, greeted, newcomers>>

-----------------------------------------------------------------------------
(* send_sign_in: the whole list goes out under the mutex; the flag is set   *)
(* when the packet is already on its way, also if the send has failed.      *)
SignInSend(n) ==
  LET m == out[n].to IN
  /\ out[n].at = "lock"
  /\ \/ /\ Lock(n, Sender)                   (* connected *)
        /\ \/ Arrives(m, SignIn(n, Everyone(n))) /\ greeted' = greeted \cup {<<n, m>>}
           \/ status[m] = "up" /\ Fails(m) /\ UNCHANGED greeted
        /\ out' = [out EXCEPT ![n] = [at |-> "flag"]]
     \/ /\ mutex[n] = Free                   (* not connected *)
        /\ Fails(m)
        /\ out' = [out EXCEPT ![n] = Idle]
        /\ UNCHANGED <<mutex, greeted>>
  /\ UNCHANGED <<status, members, sign, work, quit, asked, overlaps, newcomers>>

SignInFlag(n) ==
  /\ out[n].at = "flag"
  /\ sign' = [sign EXCEPT ![n] = TRUE]
  /\ Unlock(n)
  /\ out' = [out EXCEPT ![n] = Idle]
  /\ UNCHANGED <<status, members, netVars, work, quit, histVars>>

-----------------------------------------------------------------------------
(***************************************************************************)
(* recv_from_client takes up a connection.  A task that a worker has taken *)
(* from the pool's queue may be overtaken before its first visible step by *)
(* as many later ones as there are idle workers: the step takes any of the *)
(* oldest packets and goes on to the first point where the handler looks   *)
(* at the list.                                                            *)
(***************************************************************************)
IdleWorkers(n) == {w \in Workers : work[n][w] = Idle}

Without(s, i) == SubSeq(s, 1, i - 1) \o SubSeq(s, i + 1, Len(s))

Takeable(n, w, i) ==
  /\ w \in IdleWorkers(n)
  /\ i \in 1..Len(inbox[n]) /\ i <= Cardinality(IdleWorkers(n))

(* recv_sign_in and recv_member_list first read List_no_of_members() and    *)
(* sign, without the mutex, to decide whether to pass the packet on.        *)
Forwards_OffByOne(n, p) ==
  Cardinality(members[n]) > 1 /\ (p.type = "MEMBER_LIST" => sign[n])
Forwards_FlagIgnored(n, p) == members[n] # {}
Forwards(n, p)             == members[n] # {} /\ (p.type = "MEMBER_LIST" => sign[n])

FirstStage(n, p) ==
  CASE p.type = "SIGN_OUT" -> "delete"
    [] p.type = "SIGN_IN"  -> IF Forwards(n, p) THEN "update" ELSE "reply"
    [] OTHER               -> IF Forwards(n, p) THEN "update" ELSE "insert"

(* recv_quit copies the id through a pointer that was never set: the        *)
(* program may get away with it or end there, see SignOutCrashes.           *)
Take(n, w, i) ==
  /\ Takeable(n, w, i)
  /\ inbox' = [inbox EXCEPT ![n] = Without(@, i)]
  /\ Do(n, w, At(FirstStage(n, inbox[n][i]), inbox[n][i], {}))
  /\ UNCHANGED <<nodeVars, lost, out, quit, histVars>>

-----------------------------------------------------------------------------
(* send_update: the packet's list goes to every other member.  The mutex is *)
(* held from the first connection to the last.                              *)
UpdateLock(n, w) ==
  /\ work[n][w].at = "update"
  /\ Lock(n, w)
  /\ Do(n, w, At("sending", work[n][w].packet, members[n]))
  /\ UNCHANGED <<status, members, sign, netVars, out, quit, histVars>>

UpdateSend(n, w) ==
  LET s == work[n][w] IN
  /\ s.at = "sending"
  /\ \E m \in s.todo :
       /\ Send(m, MemberList(s.packet.list))
       /\ Do(n, w, At("sending", s.packet, s.todo \ {m}))
  /\ UNCHANGED <<nodeVars, out, quit, histVars>>

UpdateUnlock(n, w) ==
  LET s == work[n][w] IN
  /\ s.at = "sending"
  /\ s.todo = {}
  /\ Unlock(n)
  /\ Do(n, w, At(IF s.packet.type = "SIGN_IN" THEN "reply" ELSE "insert", s.packet, {}))
  /\ UNCHANGED <<status, members, sign, netVars, out, quit, histVars>>

(* recv_sign_in, i = 0: send_member_list to the address in the first entry. *)
Reply_WithoutSelf(n, w) ==
  LET s == work[n][w] IN
  /\ s.at = "reply"
  /\ mutex[n] = Free
  /\ Send(s.packet.first, MemberList(members[n]))
  /\ Do(n, w, At("add", s.packet, s.packet.list))
  /\ UNCHANGED <<nodeVars, out, quit, histVars>>

Reply(n, w) ==
  LET s == work[n][w] IN
  /\ s.at = "reply"
  /\ mutex[n] = Free
  /\ Send(s.packet.first, MemberList(Everyone(n)))
  /\ Do(n, w, At("add", s.packet, s.packet.list))
  /\ UNCHANGED <<nodeVars, out, quit, histVars>>

(* recv_sign_in takes the mutex for each entry anew, the first one first.   *)
Add(n, w) ==
  LET s == work[n][w]
      Turn == IF s.packet.first \in s.todo THEN {s.packet.first} ELSE s.todo
  IN
  /\ s.at = "add"
  /\ mutex[n] = Free
  /\ \E m \in Turn :
       /\ members' = IF Accepts(n, m) THEN [members EXCEPT ![n] = @ \cup {m}] ELSE members
       /\ Do(n, w, IF s.todo = {m} THEN Idle ELSE At("add", s.packet, s.todo \ {m}))
  /\ UNCHANGED <<status, mutex, sign, netVars, out, quit, histVars>>

(* recv_member_list adds all entries under one lock; they come from a list  *)
(* and do not clash with one another.                                       *)
InsertAll(n, w) ==
  LET s == work[n][w] IN
  /\ s.at = "insert"
  /\ mutex[n] = Free
  /\ members' = [members EXCEPT ![n] = @ \cup {m \in s.packet.list : Accepts(n, m)}]
  /\ Do(n, w, At("clear", s.packet, {}))
  /\ UNCHANGED <<status, mutex, sign, netVars, out, quit, histVars>>

ClearFlag(n, w) ==
  /\ work[n][w].at = "clear"
  /\ sign' = [sign EXCEPT ![n] = FALSE]
  /\ Do(n, w, Idle)
  /\ UNCHANGED <<status, members, mutex, netVars, out, quit, histVars>>

(* recv_quit: a name that is not listed makes it return with the mutex held *)
(* by nobody who would ever release it.                                     *)
Delete(n, w) ==
  LET hit == Named(n, work[n][w].packet.id) IN
  /\ work[n][w].at = "delete"
  /\ mutex[n] = Free
  /\ members' = [members EXCEPT ![n] = @ \ hit]
  /\ mutex' = IF hit = {} THEN [mutex EXCEPT ![n] = Leaked] ELSE mutex
  /\ Do(n, w, Idle)
  /\ UNCHANGED <<status, sign, netVars, out, quit, histVars>>

-----------------------------------------------------------------------------
(* send_quit tells every member, under the mutex.  When the command thread  *)
(* ends, main tears the process down while the pools still run.             *)
QuitLock(n) ==
  /\ quit[n].at = "lock"
  /\ Lock(n, Cmd)
  /\ quit' = [quit EXCEPT ![n] = [at |-> "sending", todo |-> members[n]]]
  /\ UNCHANGED <<status, members, sign, netVars, work, out, histVars>>

QuitSend(n) ==
  /\ quit[n].at = "sending"
  /\ \E m \in quit[n].todo :
       /\ Send(m, SignOut(IdOf[n]))
       /\ quit' = [quit EXCEPT ![n].todo = @ \ {m}]
  /\ UNCHANGED <<nodeVars, work, out, histVars>>

QuitUnlock(n) ==
  /\ quit[n].at = "sending"
  /\ quit[n].todo = {}
  /\ Unlock(n)
  /\ quit' = [quit EXCEPT ![n].at = "sent"]
  /\ UNCHANGED <<status, members, sign, netVars, work, out, histVars>>

(* The process is gone, with everything it had in hand. *)
Vanish(n, how) ==
  /\ status' = [status EXCEPT ![n] = how]
  /\ members' = [members EXCEPT ![n] = {}]
  /\ Unlock(n)
  /\ sign' = [sign EXCEPT ![n] = FALSE]
  /\ inbox' = [inbox EXCEPT ![n] = <<>>]
  /\ work' = [work EXCEPT ![n] = [w \in Workers |-> Idle]]
  /\ out' = [out EXCEPT ![n] = Idle]
  /\ quit' = [quit EXCEPT ![n] = [at |-> "no", todo |-> {}]]
  /\ UNCHANGED <<lost, histVars>>

Exit(n) == quit[n].at = "sent" /\ Vanish(n, "left")

(* The other outcome of the unset pointer in recv_quit. *)
SignOutCrashes(n, w, i) ==
  /\ Takeable(n, w, i)
  /\ inbox[n][i].type = "SIGN_OUT"
  /\ Vanish(n, "crashed")

-----------------------------------------------------------------------------
User == \/ \E n \in MayQuit : Quit(n)
        \/ \E c \in MayConnect : Connect(c[1], c[2])

Handler(n, w) ==
  \/ \E i \in 1..Backlog : Take(n, w, i)
  \/ UpdateLock(n, w) \/ UpdateSend(n, w) \/ UpdateUnlock(n, w)
  \/ Reply(n, w) \/ Add(n, w) \/ InsertAll(n, w) \/ ClearFlag(n, w)
  \/ Delete(n, w)

SignInTask(n) == SignInSend(n) \/ SignInFlag(n)
QuitTask(n)   == QuitLock(n) \/ QuitSend(n) \/ QuitUnlock(n)

Next ==
  \/ User
  \/ \E n \in Nodes :
       \/ SignInTask(n) \/ QuitTask(n) \/ Exit(n)
       \/ \E w \in Workers : Handler(n, w) \/ \E i \in 1..Backlog : SignOutCrashes(n, w, i)

Spec == Init /\ [][Next]_vars

(***************************************************************************)
(* The threads of every node run.  Nothing is assumed of the users, nor    *)
(* that a process that has signed out ever ends: main may wait for its     *)
(* pools for ever (see ThreadPool).                                        *)
(***************************************************************************)
Fairness ==
  \A n \in Nodes :
    /\ WF_vars(SignInTask(n))
    /\ WF_vars(QuitTask(n))
    /\ \A w \in Workers : WF_vars(Handler(n, w))

FairSpec == Spec /\ Fairness

-----------------------------------------------------------------------------
(***************************************************************************)
(* Properties                                                              *)
(***************************************************************************)
WorkState ==
  {Idle}
    \cup [at : {"update", "reply", "sending", "add", "insert", "clear", "delete"},
          packet : Packet, todo : SUBSET Nodes]
OutState  == {Idle, [at |-> "flag"]} \cup [at : {"lock"}, to : Nodes]
QuitState == [at : {"no", "lock", "sending", "sent"}, todo : SUBSET Nodes]

InboxOK == inbox \in [Nodes -> Seq(Packet)]

TypeOK ==
  /\ status \in [Nodes -> {"up", "left", "crashed"}]
  /\ members \in [Nodes -> SUBSET Nodes]
  /\ mutex \in [Nodes -> Workers \cup {Free, Leaked, Sender, Cmd}]
  /\ sign \in [Nodes -> BOOLEAN]
  /\ InboxOK
  /\ work \in [Nodes -> [Workers -> WorkState]]
  /\ out \in [Nodes -> OutState]
  /\ quit \in [Nodes -> QuitState]
  /\ asked \in 0..MaxCommands
  /\ lost \in 0..MaxLost
  /\ greeted \in SUBSET (Nodes \X Nodes)
  /\ overlaps \in 0..MaxOverlaps
  /\ newcomers \in BOOLEAN

(* The list of a node never holds a name or an address twice, its own       *)
(* included, whichever packets arrive in whichever order                    *)
(* (list.c:49-54 under task.c:504-509, 590-625).                            *)
UniqueLists ==
  \A n \in Nodes :
    /\ n \notin members[n]
    /\ \A x, y \in Everyone(n) : x # y => IdOf[x] # IdOf[y]

(* The mutex of a node is owned by the one task that is between its lock    *)
(* and its unlock, so a list that is being sent does not change (task.c:159-*)
(* 212, 242-257, 442-457).                                                  *)
ListStable ==
  \A n \in Nodes :
    /\ \A w \in Workers : work[n][w].at = "sending" <=> mutex[n] = w
    /\ out[n].at = "flag" <=> mutex[n] = Sender
    /\ quit[n].at = "sending" <=> mutex[n] = Cmd
    /\ \A w \in Workers : work[n][w].at = "sending" => work[n][w].todo \subseteq members[n]
    /\ quit[n].at = "sending" => quit[n].todo \subseteq members[n]

(* When nothing is lost and all is handled, two nodes of which one has      *)
(* signed in at the other list each other, whatever else was going on       *)
(* meanwhile (task.c:151-215, 472-518, 574-630).                            *)
Distinct(n) == \A m \in Nodes \ {n} : IdOf[m] # IdOf[n]

DirectPeersMeet ==
  Quiet /\ lost = 0 =>
    \A n, m \in Nodes :
      /\ <<n, m>> \in greeted /\ n # m
      /\ status[n] = "up" /\ status[m] = "up"
      /\ Distinct(n) /\ Distinct(m)
      => m \in members[n] /\ n \in members[m]

(* The nodes that can be reached from one another know each other.          *)
Known(n) == {m \in Everyone(n) : status[m] = "up"}

Complete ==
  \A n \in Nodes : status[n] = "up" => \A m \in Known(n) : Known(m) = Known(n)

(* If nodes join one after the other, each of them a newcomer, everybody    *)
(* ends up with the same list, through send_update and the reply, also when *)
(* members sign out or crash in between (task.c:423-518, 526-544).          *)
NewcomersConverge ==
  Quiet /\ lost = 0 /\ overlaps = 0 /\ newcomers => Complete

(* In the same circumstances nobody still lists a node that has signed out  *)
(* (task.c:222-259, 526-544).                                               *)
GoneForgotten ==
  Quiet /\ lost = 0 /\ overlaps = 0 /\ newcomers =>
    \A n, m \in Nodes : status[n] = "up" /\ status[m] = "left" => m \notin members[n]

(* The exchange comes to rest: lists are passed on a finite number of times *)
(* although every node that holds the flag passes on what it gets           *)
(* (task.c:586-588, 627).                                                   *)
Settled(n) ==
  status[n] # "up" \/ AtRest(n) \/ mutex[n] = Leaked \/ quit[n].at = "sent"

ComesToRest == <>[](\A n \in Nodes : Settled(n))

(* task.c:419 on send_update: "Sends to all of my members a list of new     *)
(* members".  Newcomers that join at the same time know each other          *)
(* afterwards.                                                              *)
UpdateReachesAll == Quiet /\ lost = 0 /\ newcomers => Complete

(* chat.c:28: "/quit -- Quits the program".  The mutex that /quit waits for *)
(* is released at some time.                                                *)
QuitQuits == \A n \in Nodes : quit[n].at = "lock" => mutex[n] # Leaked
=============================================================================
