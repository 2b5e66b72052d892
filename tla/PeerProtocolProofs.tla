------------------------ MODULE PeerProtocolProofs ------------------------
(***************************************************************************)
(* Proofs about PeerProtocol for any number of nodes, workers and commands *)
(* and any choice of names.                                                *)
(***************************************************************************)
EXTENDS PeerProtocol, SequenceTheorems, FiniteSetTheorems, TLAPS

(***************************************************************************)
(* The lists travel: a node adds what another node once had.  So the lists *)
(* are unique only because every packet on the way and in the hands of a   *)
(* worker carries a list that is unique in itself.                         *)
(***************************************************************************)
CleanList(l) == l \in SUBSET Nodes /\ \A x, y \in l : x # y => IdOf[x] # IdOf[y]

CleanPacket(p) == p.type # "SIGN_OUT" => CleanList(p.list)

Waiting(n) == {inbox[n][i] : i \in 1..Len(inbox[n])}

CleanInbox == \A n \in Nodes : \A p \in Waiting(n) : p \in Packet /\ CleanPacket(p)

(* What kind of packet a worker has at each stage of its handler. *)
Stage(s) ==
  \/ s = Idle
  \/ /\ s \in [at : {"update", "sending"}, packet : Packet, todo : SUBSET Nodes]
     /\ s.packet.type # "SIGN_OUT" /\ CleanPacket(s.packet)
  \/ /\ s \in [at : {"reply", "add"}, packet : Packet, todo : SUBSET Nodes]
     /\ s.packet.type = "SIGN_IN" /\ CleanPacket(s.packet)
  \/ /\ s \in [at : {"insert", "clear"}, packet : Packet, todo : SUBSET Nodes]
     /\ s.packet.type = "MEMBER_LIST" /\ CleanPacket(s.packet)
  \/ /\ s \in [at : {"delete"}, packet : Packet, todo : SUBSET Nodes]
     /\ s.packet.type = "SIGN_OUT"

CleanWork ==
  /\ work = [n \in Nodes |-> work[n]]
  /\ \A n \in Nodes : work[n] = [w \in Workers |-> work[n][w]]
  /\ \A n \in Nodes, w \in Workers : Stage(work[n][w])

(* TypeOK without the conjuncts that CleanInbox and CleanWork sharpen. *)
PlainTypes ==
  /\ status \in [Nodes -> {"up", "left", "crashed"}]
  /\ members \in [Nodes -> SUBSET Nodes]
  /\ mutex \in [Nodes -> Workers \cup {Free, Leaked, Sender, Cmd}]
  /\ sign \in [Nodes -> BOOLEAN]
  /\ out \in [Nodes -> OutState]
  /\ quit \in [Nodes -> QuitState]
  /\ asked \in 0..MaxCommands
  /\ lost \in 0..MaxLost
  /\ greeted \in SUBSET (Nodes \X Nodes)
  /\ overlaps \in 0..MaxOverlaps
  /\ newcomers \in BOOLEAN

PeerInv == PlainTypes /\ InboxOK /\ CleanInbox /\ CleanWork /\ UniqueLists

(***************************************************************************)
(* Facts about the connections that wait at a node.  Sequences appear here *)
(* only; the later steps see InboxOK and CleanInbox.                       *)
(***************************************************************************)
LEMMA WaitingAppend ==
  ASSUME NEW q \in Seq(Packet), NEW p \in Packet, NEW i \in 1..Len(Append(q, p))
  PROVE  Append(q, p)[i] = p \/ \E j \in 1..Len(q) : Append(q, p)[i] = q[j]
OBVIOUS

LEMMA WithoutPlaces ==
  ASSUME NEW q \in Seq(Packet), NEW k \in 1..Len(q)
  PROVE  /\ Without(q, k) \in Seq(Packet) /\ Len(Without(q, k)) = Len(q) - 1
         /\ \A i \in 1..Len(q) - 1 : Without(q, k)[i] = q[IF i < k THEN i ELSE i + 1]
<1> DEFINE front == SubSeq(q, 1, k - 1)
           back  == SubSeq(q, k + 1, Len(q))
<1>1. /\ front \in Seq(Packet) /\ Len(front) = k - 1
      /\ \A i \in 1..k - 1 : front[i] = q[i]
  BY SubSeqProperties
<1>2. /\ back \in Seq(Packet) /\ Len(back) = Len(q) - k
      /\ \A i \in 1..Len(q) - k : back[i] = q[k + i]
  BY SubSeqProperties
<1>3. Without(q, k) = front \o back
  BY DEF Without
<1> HIDE DEF front, back
<1>4. /\ front \o back \in Seq(Packet) /\ Len(front \o back) = Len(q) - 1
      /\ \A i \in 1..Len(q) - 1 :
           (front \o back)[i] = IF i <= k - 1 THEN front[i] ELSE back[i - (k - 1)]
  <2>1. Len(q) \in Nat /\ Len(front) + Len(back) = Len(q) - 1
    BY <1>1, <1>2
  <2>2. \A i \in 1..Len(front) + Len(back) :
           (front \o back)[i] = IF i <= Len(front) THEN front[i] ELSE back[i - Len(front)]
    BY <1>1, <1>2, ConcatProperties
  <2> QED
    BY <2>1, <2>2, <1>1, <1>2, ConcatProperties
<1>5. ASSUME NEW i \in 1..Len(q) - 1
      PROVE  (front \o back)[i] = q[IF i < k THEN i ELSE i + 1]
  <2>1. CASE i < k
    <3>1. i \in 1..k - 1 /\ i <= k - 1
      BY <2>1
    <3> QED
      BY <2>1, <3>1, <1>1, <1>4
  <2>2. CASE ~(i < k)
    <3>1. /\ ~(i <= k - 1) /\ i - (k - 1) \in 1..Len(q) - k
          /\ k + (i - (k - 1)) = i + 1
      BY <2>2
    <3> QED
      BY <2>2, <3>1, <1>2, <1>4
  <2> QED
    BY <2>1, <2>2
<1> QED
  BY <1>3, <1>4, <1>5

LEMMA WithoutElements ==
  ASSUME NEW q \in Seq(Packet), NEW k \in 1..Len(q)
  PROVE  /\ Without(q, k) \in Seq(Packet)
         /\ \A i \in 1..Len(Without(q, k)) : \E j \in 1..Len(q) : Without(q, k)[i] = q[j]
<1>1. \A i \in 1..Len(q) - 1 : (IF i < k THEN i ELSE i + 1) \in 1..Len(q)
  OBVIOUS
<1> QED
  BY <1>1, WithoutPlaces

LEMMA ArrivesKeeps ==
  ASSUME InboxOK, CleanInbox, NEW m \in Nodes, NEW p \in Packet, CleanPacket(p), Arrives(m, p)
  PROVE  InboxOK' /\ CleanInbox'
<1>1. inbox' = [inbox EXCEPT ![m] = Append(@, p)]
  BY DEF Arrives
<1>2. InboxOK'
  BY <1>1 DEF InboxOK
<1>3. ASSUME NEW n \in Nodes, NEW i \in 1..Len(inbox'[n])
      PROVE  inbox'[n][i] \in Packet /\ CleanPacket(inbox'[n][i])
  <2>1. CASE n = m
    <3>1. inbox[m] \in Seq(Packet) /\ inbox'[m] = Append(inbox[m], p)
      BY <1>1 DEF InboxOK
    <3>2. inbox'[n][i] = p \/ \E j \in 1..Len(inbox[m]) : inbox'[n][i] = inbox[m][j]
      BY <2>1, <3>1, WaitingAppend
    <3> QED
      BY <3>2 DEF CleanInbox, Waiting
  <2>2. CASE n # m
    BY <2>2, <1>1 DEF InboxOK, CleanInbox, Waiting
  <2> QED
    BY <2>1, <2>2
<1> QED
  BY <1>2, <1>3 DEF CleanInbox, Waiting, CleanPacket, CleanList

LEMMA SendKeeps ==
  ASSUME InboxOK, CleanInbox, NEW m \in Nodes, NEW p \in Packet, CleanPacket(p), Send(m, p)
  PROVE  InboxOK' /\ CleanInbox'
<1>1. CASE Arrives(m, p)
  BY <1>1, ArrivesKeeps
<1>2. CASE Fails(m)
  BY <1>2 DEF Fails, InboxOK, CleanInbox, Waiting, CleanPacket, CleanList
<1> QED
  BY <1>1, <1>2 DEF Send

LEMMA WithdrawKeeps ==
  ASSUME InboxOK, CleanInbox, NEW n \in Nodes, NEW k \in 1..Len(inbox[n]),
         inbox' = [inbox EXCEPT ![n] = Without(@, k)]
  PROVE  /\ InboxOK' /\ CleanInbox'
         /\ inbox[n][k] \in Packet /\ CleanPacket(inbox[n][k])
<1>1. inbox[n][k] \in Packet /\ CleanPacket(inbox[n][k])
  BY DEF CleanInbox, Waiting
<1>2. /\ Without(inbox[n], k) \in Seq(Packet)
      /\ \A i \in 1..Len(Without(inbox[n], k)) :
           \E j \in 1..Len(inbox[n]) : Without(inbox[n], k)[i] = inbox[n][j]
  BY WithoutElements DEF InboxOK
<1>3. InboxOK'
  BY <1>2 DEF InboxOK
<1>4. ASSUME NEW x \in Nodes, NEW i \in 1..Len(inbox'[x])
      PROVE  inbox'[x][i] \in Packet /\ CleanPacket(inbox'[x][i])
  <2>1. CASE x = n
    <3>1. inbox'[n] = Without(inbox[n], k)
      BY DEF InboxOK
    <3>2. \E j \in 1..Len(inbox[n]) : inbox'[x][i] = inbox[n][j]
      BY <2>1, <3>1, <1>2
    <3> QED
      BY <3>2 DEF CleanInbox, Waiting
  <2>2. CASE x # n
    BY <2>2 DEF InboxOK, CleanInbox, Waiting
  <2> QED
    BY <2>1, <2>2
<1> QED
  BY <1>1, <1>3, <1>4 DEF CleanInbox, Waiting, CleanPacket, CleanList

LEMMA TakeWithdraws ==
  ASSUME InboxOK, CleanInbox, NEW n \in Nodes, NEW w, NEW k, Take(n, w, k)
  PROVE  /\ InboxOK' /\ CleanInbox'
         /\ inbox[n][k] \in Packet /\ CleanPacket(inbox[n][k])
BY WithdrawKeeps DEF Take, Takeable

(***************************************************************************)
(* Facts about the workers and about the lists.                            *)
(***************************************************************************)
LEMMA DoKeeps ==
  ASSUME CleanWork, NEW n \in Nodes, NEW w \in Workers, NEW s, Stage(s), Do(n, w, s)
  PROVE  CleanWork'
<1>1. work' = [work EXCEPT ![n] = [work[n] EXCEPT ![w] = s]]
  BY DEF Do
<1>2. work' = [x \in Nodes |-> work'[x]]
  BY <1>1 DEF CleanWork
<1>3. ASSUME NEW x \in Nodes
      PROVE  /\ work'[x] = [v \in Workers |-> work'[x][v]]
             /\ \A v \in Workers : work'[x][v] = s \/ work'[x][v] = work[x][v]
  <2>1. CASE x = n
    <3>1. work'[n] = [work[n] EXCEPT ![w] = s] /\ work[n] = [v \in Workers |-> work[n][v]]
      BY <1>1 DEF CleanWork
    <3> QED
      BY <2>1, <3>1
  <2>2. CASE x # n
    BY <2>2, <1>1 DEF CleanWork
  <2> QED
    BY <2>1, <2>2
<1>4. \A x \in Nodes, v \in Workers : Stage(work'[x][v])
  BY <1>3 DEF CleanWork
<1> QED
  BY <1>2, <1>3, <1>4 DEF CleanWork, Stage, CleanPacket, CleanList

LEMMA SameWork ==
  CleanWork /\ UNCHANGED work => CleanWork'
BY DEF CleanWork, Stage, CleanPacket, CleanList

LEMMA SameInbox ==
  InboxOK /\ CleanInbox /\ UNCHANGED inbox => InboxOK' /\ CleanInbox'
BY DEF InboxOK, CleanInbox, Waiting, CleanPacket, CleanList

LEMMA StageOfWork ==
  ASSUME CleanWork, NEW n \in Nodes, NEW w \in Workers
  PROVE  Stage(work[n][w])
BY DEF CleanWork

LEMMA StageIsTyped ==
  ASSUME NEW s, Stage(s)
  PROVE  s \in WorkState
BY DEF Stage, WorkState

LEMMA WorkTyped == CleanWork => work \in [Nodes -> [Workers -> WorkState]]
<1> SUFFICES ASSUME CleanWork PROVE work \in [Nodes -> [Workers -> WorkState]]
  OBVIOUS
<1>1. \A n \in Nodes : work[n] \in [Workers -> WorkState]
  <2> TAKE n \in Nodes
  <2>1. \A w \in Workers : work[n][w] \in WorkState
    BY StageOfWork, StageIsTyped
  <2>2. work[n] = [w \in Workers |-> work[n][w]]
    BY DEF CleanWork
  <2> QED
    BY <2>1, <2>2
<1>2. work = [n \in Nodes |-> work[n]]
  BY DEF CleanWork
<1> QED
  BY <1>1, <1>2

(* The list a node sends is unique because the node's own list is.          *)
LEMMA EveryoneIsClean ==
  ASSUME members \in [Nodes -> SUBSET Nodes], UniqueLists, NEW n \in Nodes
  PROVE  CleanList(Everyone(n))
BY DEF CleanList, UniqueLists, Everyone

LEMMA InitHolds == Init => PeerInv
<1> SUFFICES ASSUME Init PROVE PeerInv
  OBVIOUS
<1>1. InboxOK /\ CleanInbox
  BY DEF Init, InboxOK, CleanInbox, Waiting
<1>2. CleanWork
  BY DEF Init, CleanWork, Stage
<1>3. UniqueLists
  BY DEF Init, UniqueLists, Everyone
<1>4. PlainTypes
  <2>1. out \in [Nodes -> OutState] /\ quit \in [Nodes -> QuitState]
    BY DEF Init, OutState, QuitState
  <2> QED
    BY <2>1, PeerAssumption DEF Init, PlainTypes
<1> QED
  BY <1>1, <1>2, <1>3, <1>4 DEF PeerInv

LEMMA InvTyped == PeerInv => TypeOK
BY WorkTyped DEF PeerInv, PlainTypes, TypeOK

(***************************************************************************)
(* The steps.  Every lemma is about the actions that disturb the same      *)
(* conjuncts of the invariant.                                             *)
(***************************************************************************)
LEMMA SameLists == UniqueLists /\ UNCHANGED members => UniqueLists'
BY DEF UniqueLists, Everyone

LEMMA ListPackets ==
  ASSUME NEW l, CleanList(l), NEW n \in Nodes
  PROVE  /\ MemberList(l) \in Packet /\ CleanPacket(MemberList(l))
         /\ SignIn(n, l) \in Packet /\ CleanPacket(SignIn(n, l))
BY DEF CleanList, CleanPacket, MemberList, SignIn, Packet

LEMMA SignOutPackets ==
  ASSUME NEW id \in Ids
  PROVE  SignOut(id) \in Packet /\ CleanPacket(SignOut(id))
BY DEF CleanPacket, SignOut, Packet

LEMMA SendCounts ==
  ASSUME lost \in 0..MaxLost, NEW m, NEW p, Send(m, p)
  PROVE  lost' \in 0..MaxLost
BY PeerAssumption DEF Send, Arrives, Fails

LEMMA UserKeeps ==
  ASSUME PeerInv, User
  PROVE  PeerInv'
<1>1. UNCHANGED <<nodeVars, netVars, work, greeted>>
  BY DEF User, Connect, Quit
<1>2. asked' \in 0..MaxCommands /\ overlaps' \in 0..MaxOverlaps
  <2>1. PICK n : Command(n)
    BY DEF User, Connect, Quit
  <2> QED
    BY <2>1, PeerAssumption DEF Command, PeerInv, PlainTypes
<1>3. newcomers' \in BOOLEAN
  <2>1. ASSUME NEW n, newcomers' = (newcomers /\ members[n] = {})
        PROVE  newcomers' \in BOOLEAN
    BY <2>1, Zenon
  <2>2. ASSUME UNCHANGED newcomers
        PROVE  newcomers' \in BOOLEAN
    BY <2>2 DEF PeerInv, PlainTypes
  <2> QED
    BY <2>1, <2>2 DEF User, Connect, Quit
<1>4. out' \in [Nodes -> OutState] /\ quit' \in [Nodes -> QuitState]
  <2>1. ASSUME NEW n \in MayQuit, Quit(n)
        PROVE  out' \in [Nodes -> OutState] /\ quit' \in [Nodes -> QuitState]
    BY <2>1, PeerAssumption DEF Quit, PeerInv, PlainTypes, QuitState
  <2>2. ASSUME NEW c \in MayConnect, Connect(c[1], c[2])
        PROVE  out' \in [Nodes -> OutState] /\ quit' \in [Nodes -> QuitState]
    <3>1. c[2] \in Nodes
      BY PeerAssumption
    <3> QED
      BY <2>2, <3>1 DEF Connect, PeerInv, PlainTypes, OutState
  <2> QED
    BY <2>1, <2>2 DEF User
<1>5. PlainTypes'
  BY <1>1, <1>2, <1>3, <1>4 DEF PeerInv, PlainTypes, nodeVars, netVars
<1> QED
  BY <1>1, <1>5, SameInbox, SameWork, SameLists DEF PeerInv, nodeVars, netVars

LEMMA SignInKeeps ==
  ASSUME PeerInv, NEW n \in Nodes, SignInTask(n)
  PROVE  PeerInv'
<1>1. UNCHANGED <<status, members, work, quit, asked, overlaps, newcomers>>
  BY DEF SignInTask, SignInSend, SignInFlag, histVars
<1>2. CASE SignInSend(n)
  <2> DEFINE m == out[n].to
             p == SignIn(n, Everyone(n))
  <2>1. m \in Nodes
    BY <1>2 DEF SignInSend, PeerInv, PlainTypes, OutState, Idle
  <2>2. p \in Packet /\ CleanPacket(p)
    BY EveryoneIsClean, ListPackets DEF PeerInv, PlainTypes
  <2>3. Arrives(m, p) \/ Fails(m)
    BY <1>2 DEF SignInSend
  <2> HIDE DEF m, p
  <2>4. InboxOK' /\ CleanInbox' /\ lost' \in 0..MaxLost
    BY <2>1, <2>2, <2>3, SendKeeps, SendCounts DEF PeerInv, PlainTypes, Send
  <2>5. /\ mutex' \in [Nodes -> Workers \cup {Free, Leaked, Sender, Cmd}]
        /\ out' \in [Nodes -> OutState]
        /\ greeted' \in SUBSET (Nodes \X Nodes)
        /\ UNCHANGED sign
    BY <1>2, <2>1 DEF Lock, SignInSend, PeerInv, PlainTypes, OutState, m
  <2> QED
    BY <1>1, <2>4, <2>5, SameWork, SameLists DEF PeerInv, PlainTypes
<1>3. CASE SignInFlag(n)
  <2>1. /\ sign' \in [Nodes -> BOOLEAN]
        /\ mutex' \in [Nodes -> Workers \cup {Free, Leaked, Sender, Cmd}]
        /\ out' \in [Nodes -> OutState]
        /\ UNCHANGED <<inbox, lost, greeted>>
    BY <1>3 DEF Unlock, SignInFlag, PeerInv, PlainTypes, OutState, netVars, histVars
  <2> QED
    BY <1>1, <2>1, SameInbox, SameWork, SameLists DEF PeerInv, PlainTypes
<1> QED
  BY <1>2, <1>3 DEF SignInTask

LEMMA TakeKeeps ==
  ASSUME PeerInv, NEW n \in Nodes, NEW w \in Workers, NEW i \in 1..Backlog, Take(n, w, i)
  PROVE  PeerInv'
<1> DEFINE p == inbox[n][i]
<1>1. /\ Do(n, w, At(FirstStage(n, p), p, {}))
      /\ UNCHANGED <<nodeVars, lost, out, quit, histVars>>
  BY DEF Take
<1>2. InboxOK' /\ CleanInbox' /\ p \in Packet /\ CleanPacket(p)
  BY TakeWithdraws DEF PeerInv
<1> HIDE DEF p
<1>3. Stage(At(FirstStage(n, p), p, {}))
  BY <1>2 DEF Stage, At, FirstStage, Packet
<1>4. CleanWork'
  BY <1>1, <1>3, DoKeeps DEF PeerInv
<1> QED
  BY <1>1, <1>2, <1>4, SameLists DEF PeerInv, PlainTypes, nodeVars, histVars

LEMMA UpdateKeeps ==
  ASSUME PeerInv, NEW n \in Nodes, NEW w \in Workers,
         UpdateLock(n, w) \/ UpdateSend(n, w) \/ UpdateUnlock(n, w)
  PROVE  PeerInv'
<1> DEFINE s == work[n][w]
<1>1. Stage(s)
  BY StageOfWork DEF PeerInv
<1>2. UNCHANGED <<status, members, sign, out, quit, asked, greeted, overlaps, newcomers>>
  BY DEF UpdateLock, UpdateSend, UpdateUnlock, nodeVars, histVars
<1>3. CASE UpdateLock(n, w)
  <2>1. s.at = "update" /\ Do(n, w, At("sending", s.packet, members[n]))
    BY <1>3 DEF UpdateLock
  <2>2. members[n] \in SUBSET Nodes
    BY DEF PeerInv, PlainTypes
  <2> HIDE DEF s
  <2>3. Stage(At("sending", s.packet, members[n]))
    BY <1>1, <2>1, <2>2 DEF Stage, At, Idle
  <2>4. CleanWork'
    BY <2>1, <2>3, DoKeeps DEF PeerInv
  <2>5. /\ mutex' \in [Nodes -> Workers \cup {Free, Leaked, Sender, Cmd}]
        /\ UNCHANGED <<inbox, lost>>
    BY <1>3 DEF Lock, UpdateLock, PeerInv, PlainTypes, netVars
  <2> QED
    BY <1>2, <2>4, <2>5, SameInbox, SameLists DEF PeerInv, PlainTypes
<1>4. CASE UpdateSend(n, w)
  <2>1. PICK m \in s.todo :
          /\ s.at = "sending"
          /\ Send(m, MemberList(s.packet.list))
          /\ Do(n, w, At("sending", s.packet, s.todo \ {m}))
    BY <1>4 DEF UpdateSend
  <2>2. UNCHANGED mutex
    BY <1>4 DEF UpdateSend, nodeVars
  <2> HIDE DEF s
  <2>3. m \in Nodes /\ CleanList(s.packet.list)
    BY <1>1, <2>1 DEF Stage, Idle, CleanPacket
  <2>4. Stage(At("sending", s.packet, s.todo \ {m}))
    BY <1>1, <2>1 DEF Stage, At, Idle
  <2>5. CleanWork'
    BY <2>1, <2>4, DoKeeps DEF PeerInv
  <2>6. InboxOK' /\ CleanInbox' /\ lost' \in 0..MaxLost
    BY <2>1, <2>3, ListPackets, SendKeeps, SendCounts DEF PeerInv, PlainTypes
  <2> QED
    BY <1>2, <2>2, <2>5, <2>6, SameLists DEF PeerInv, PlainTypes
<1>5. CASE UpdateUnlock(n, w)
  <2> DEFINE t == At(IF s.packet.type = "SIGN_IN" THEN "reply" ELSE "insert", s.packet, {})
  <2>1. s.at = "sending" /\ Do(n, w, t)
    BY <1>5 DEF UpdateUnlock
  <2>2. /\ mutex' \in [Nodes -> Workers \cup {Free, Leaked, Sender, Cmd}]
        /\ UNCHANGED <<inbox, lost>>
    BY <1>5 DEF Unlock, UpdateUnlock, PeerInv, PlainTypes, netVars
  <2> HIDE DEF s
  <2>3. Stage(t)
    BY <1>1, <2>1 DEF Stage, At, Idle, Packet
  <2> HIDE DEF t
  <2>4. CleanWork'
    BY <2>1, <2>3, DoKeeps DEF PeerInv
  <2> QED
    BY <1>2, <2>2, <2>4, SameInbox, SameLists DEF PeerInv, PlainTypes
<1> QED
  BY <1>3, <1>4, <1>5

LEMMA ReplyKeeps ==
  ASSUME PeerInv, NEW n \in Nodes, NEW w \in Workers, Reply(n, w)
  PROVE  PeerInv'
<1> DEFINE s == work[n][w]
<1>1. Stage(s)
  BY StageOfWork DEF PeerInv
<1>2. /\ s.at = "reply"
      /\ Send(s.packet.first, MemberList(Everyone(n)))
      /\ Do(n, w, At("add", s.packet, s.packet.list))
      /\ UNCHANGED <<nodeVars, out, quit, histVars>>
  BY DEF Reply
<1>3. CleanList(Everyone(n))
  BY EveryoneIsClean DEF PeerInv, PlainTypes
<1> HIDE DEF s
<1>4. s.packet.first \in Nodes /\ s.packet.list \in SUBSET Nodes
  BY <1>1, <1>2 DEF Stage, Idle, Packet
<1>5. Stage(At("add", s.packet, s.packet.list))
  BY <1>1, <1>2, <1>4 DEF Stage, At, Idle
<1>6. CleanWork'
  BY <1>2, <1>5, DoKeeps DEF PeerInv
<1>7. InboxOK' /\ CleanInbox' /\ lost' \in 0..MaxLost
  BY <1>2, <1>3, <1>4, ListPackets, SendKeeps, SendCounts DEF PeerInv, PlainTypes
<1> QED
  BY <1>2, <1>6, <1>7, SameLists DEF PeerInv, PlainTypes, nodeVars, histVars

LEMMA AddKeeps ==
  ASSUME PeerInv, NEW n \in Nodes, NEW w \in Workers, Add(n, w)
  PROVE  PeerInv'
<1> DEFINE s == work[n][w]
           rest(m) == IF s.todo = {m} THEN Idle ELSE At("add", s.packet, s.todo \ {m})
<1>1. Stage(s)
  BY StageOfWork DEF PeerInv
<1>2. PICK m \in s.todo :
        /\ members' = IF Accepts(n, m) THEN [members EXCEPT ![n] = @ \cup {m}] ELSE members
        /\ Do(n, w, rest(m))
  BY DEF Add
<1>3. s.at = "add" /\ UNCHANGED <<status, mutex, sign, netVars, out, quit, histVars>>
  BY DEF Add
<1> HIDE DEF s
<1>4. m \in Nodes /\ Stage(rest(m))
  BY <1>1, <1>2, <1>3 DEF Stage, At, Idle
<1> HIDE DEF rest
<1>5. CleanWork'
  BY <1>2, <1>4, DoKeeps DEF PeerInv
<1>6. members' \in [Nodes -> SUBSET Nodes] /\ UniqueLists'
  <2>1. members \in [Nodes -> SUBSET Nodes] /\ UniqueLists
    BY DEF PeerInv, PlainTypes
  <2>2. CASE ~Accepts(n, m)
    BY <1>2, <2>1, <2>2, SameLists
  <2>3. CASE Accepts(n, m)
    <3>1. members' = [members EXCEPT ![n] = members[n] \cup {m}]
      BY <1>2, <2>3
    <3>2. m # n /\ \A x \in members[n] \cup {n} : x # m /\ IdOf[x] # IdOf[m]
      BY <2>3 DEF Accepts, Everyone
    <3> QED
      BY <1>4, <2>1, <3>1, <3>2 DEF UniqueLists, Everyone
  <2> QED
    BY <2>2, <2>3
<1> QED
  BY <1>3, <1>5, <1>6, SameInbox DEF PeerInv, PlainTypes, netVars, histVars

LEMMA InsertKeeps ==
  ASSUME PeerInv, NEW n \in Nodes, NEW w \in Workers, InsertAll(n, w)
  PROVE  PeerInv'
<1> DEFINE s == work[n][w]
<1>1. Stage(s)
  BY StageOfWork DEF PeerInv
<1>2. /\ s.at = "insert"
      /\ members' = [members EXCEPT ![n] = @ \cup {m \in s.packet.list : Accepts(n, m)}]
      /\ Do(n, w, At("clear", s.packet, {}))
      /\ UNCHANGED <<status, mutex, sign, netVars, out, quit, histVars>>
  BY DEF InsertAll
<1> HIDE DEF s
<1>3. CleanList(s.packet.list) /\ Stage(At("clear", s.packet, {}))
  BY <1>1, <1>2 DEF Stage, At, Idle, CleanPacket
<1>4. CleanWork'
  BY <1>2, <1>3, DoKeeps DEF PeerInv
<1>5. members' \in [Nodes -> SUBSET Nodes] /\ UniqueLists'
  <2> DEFINE new == {m \in s.packet.list : Accepts(n, m)}
  <2>1. members \in [Nodes -> SUBSET Nodes] /\ UniqueLists
    BY DEF PeerInv, PlainTypes
  <2>2. /\ new \in SUBSET Nodes
        /\ \A x, y \in new : x # y => IdOf[x] # IdOf[y]
        /\ \A m \in new : \A x \in members[n] \cup {n} : x # m /\ IdOf[x] # IdOf[m]
    BY <1>3 DEF CleanList, Accepts, Everyone
  <2>3. members' = [members EXCEPT ![n] = members[n] \cup new]
    BY <1>2
  <2> HIDE DEF new
  <2>4. members'[n] = members[n] \cup new /\ \A k \in Nodes \ {n} : members'[k] = members[k]
    BY <2>1, <2>3
  <2>5. ASSUME NEW k \in Nodes
        PROVE  /\ k \notin members'[k]
               /\ \A x, y \in members'[k] \cup {k} : x # y => IdOf[x] # IdOf[y]
    BY <2>1, <2>2, <2>4 DEF UniqueLists, Everyone
  <2> QED
    BY <2>1, <2>2, <2>3, <2>5 DEF UniqueLists, Everyone
<1> QED
  BY <1>2, <1>4, <1>5, SameInbox DEF PeerInv, PlainTypes, netVars, histVars

LEMMA FinishKeeps ==
  ASSUME PeerInv, NEW n \in Nodes, NEW w \in Workers, ClearFlag(n, w) \/ Delete(n, w)
  PROVE  PeerInv'
<1>1. /\ Do(n, w, Idle)
      /\ UNCHANGED <<status, netVars, out, quit, histVars>>
  BY DEF ClearFlag, Delete
<1>2. CleanWork'
  BY <1>1, DoKeeps DEF Stage, PeerInv
<1>3. /\ sign' \in [Nodes -> BOOLEAN]
      /\ mutex' \in [Nodes -> Workers \cup {Free, Leaked, Sender, Cmd}]
  BY DEF ClearFlag, Delete, PeerInv, PlainTypes
<1>4. members' \in [Nodes -> SUBSET Nodes] /\ UniqueLists'
  <2>1. members \in [Nodes -> SUBSET Nodes] /\ UniqueLists
    BY DEF PeerInv, PlainTypes
  <2>2. CASE ClearFlag(n, w)
    BY <2>1, <2>2, SameLists DEF ClearFlag
  <2>3. CASE Delete(n, w)
    BY <2>1, <2>3 DEF Delete, UniqueLists, Everyone
  <2> QED
    BY <2>2, <2>3
<1> QED
  BY <1>1, <1>2, <1>3, <1>4, SameInbox DEF PeerInv, PlainTypes, netVars, histVars

LEMMA QuitKeeps ==
  ASSUME PeerInv, NEW n \in Nodes, QuitTask(n)
  PROVE  PeerInv'
<1>1. UNCHANGED <<status, members, sign, work, out, histVars>>
  BY DEF QuitTask, QuitLock, QuitSend, QuitUnlock, nodeVars
<1>2. /\ mutex' \in [Nodes -> Workers \cup {Free, Leaked, Sender, Cmd}]
      /\ quit' \in [Nodes -> QuitState]
  <2>1. members[n] \in SUBSET Nodes /\ quit[n] \in QuitState
    BY DEF PeerInv, PlainTypes
  <2>2. CASE QuitLock(n)
    BY <2>1, <2>2 DEF Lock, QuitLock, PeerInv, PlainTypes, QuitState
  <2>3. CASE QuitSend(n)
    <3>1. PICK m : quit' = [quit EXCEPT ![n].todo = @ \ {m}]
      BY <2>3 DEF QuitSend
    <3>2. UNCHANGED mutex
      BY <2>3 DEF QuitSend, nodeVars
    <3> QED
      BY <2>1, <3>1, <3>2 DEF PeerInv, PlainTypes, QuitState
  <2>4. CASE QuitUnlock(n)
    BY <2>1, <2>4 DEF Unlock, QuitUnlock, PeerInv, PlainTypes, QuitState
  <2> QED
    BY <2>2, <2>3, <2>4 DEF QuitTask
<1>3. InboxOK' /\ CleanInbox' /\ lost' \in 0..MaxLost
  <2>1. CASE QuitSend(n)
    <3>1. PICK m \in quit[n].todo : Send(m, SignOut(IdOf[n]))
      BY <2>1 DEF QuitSend
    <3>2. m \in Nodes /\ IdOf[n] \in Ids
      BY <3>1, PeerAssumption DEF PeerInv, PlainTypes, QuitState
    <3> QED
      BY <3>1, <3>2, SignOutPackets, SendKeeps, SendCounts DEF PeerInv, PlainTypes
  <2>2. CASE UNCHANGED netVars
    BY <2>2, SameInbox DEF netVars, PeerInv, PlainTypes
  <2> QED
    BY <2>1, <2>2 DEF QuitTask, QuitLock, QuitUnlock
<1> QED
  BY <1>1, <1>2, <1>3, SameWork, SameLists DEF PeerInv, PlainTypes, histVars

LEMMA VanishKeeps ==
  ASSUME PeerInv, NEW n \in Nodes, NEW how \in {"left", "crashed"}, Vanish(n, how)
  PROVE  PeerInv'
<1>1. PlainTypes'
  BY DEF Unlock, Vanish, PeerInv, PlainTypes, OutState, QuitState, histVars
<1>2. InboxOK' /\ CleanInbox'
  <2>1. inbox' = [inbox EXCEPT ![n] = <<>>]
    BY DEF Vanish
  <2>2. InboxOK'
    BY <2>1 DEF PeerInv, InboxOK
  <2>3. CleanInbox'
    BY <2>1 DEF PeerInv, InboxOK, CleanInbox, Waiting, CleanPacket, CleanList
  <2> QED
    BY <2>2, <2>3
<1>3. CleanWork'
  <2>1. work' = [work EXCEPT ![n] = [w \in Workers |-> Idle]]
    BY DEF Vanish
  <2>2. \A k \in Nodes : work'[k] = IF k = n THEN [w \in Workers |-> Idle] ELSE work[k]
    BY <2>1 DEF PeerInv, CleanWork
  <2>3. work' = [k \in Nodes |-> work'[k]]
    BY <2>1 DEF PeerInv, CleanWork
  <2>4. \A k \in Nodes : \A w \in Workers : work'[k][w] = Idle \/ work'[k][w] = work[k][w]
    BY <2>2
  <2>5. \A k \in Nodes : work'[k] = [w \in Workers |-> work'[k][w]]
    BY <2>2 DEF PeerInv, CleanWork
  <2>6. \A k \in Nodes, w \in Workers : Stage(work'[k][w])
    BY <2>4 DEF PeerInv, CleanWork, Stage
  <2> QED
    BY <2>3, <2>5, <2>6 DEF CleanWork, Stage, CleanPacket, CleanList
<1>4. UniqueLists'
  BY DEF Unlock, Vanish, PeerInv, PlainTypes, UniqueLists, Everyone
<1> QED
  BY <1>1, <1>2, <1>3, <1>4 DEF PeerInv

LEMMA StepKeeps == PeerInv /\ [Next]_vars => PeerInv'
<1> SUFFICES ASSUME PeerInv, [Next]_vars
             PROVE  PeerInv'
  OBVIOUS
<1>1. CASE User
  BY <1>1, UserKeeps
<1>2. ASSUME NEW n \in Nodes, SignInTask(n) \/ QuitTask(n)
      PROVE  PeerInv'
  BY <1>2, SignInKeeps, QuitKeeps
<1>3. ASSUME NEW n \in Nodes, NEW w \in Workers, Handler(n, w)
      PROVE  PeerInv'
  BY <1>3, TakeKeeps, UpdateKeeps, ReplyKeeps, AddKeeps, InsertKeeps, FinishKeeps DEF Handler
<1>4. ASSUME NEW n \in Nodes,
             Exit(n) \/ \E w \in Workers : \E i \in 1..Backlog : SignOutCrashes(n, w, i)
      PROVE  PeerInv'
  BY <1>4, VanishKeeps DEF Exit, SignOutCrashes
<1>5. CASE UNCHANGED vars
  BY <1>5, SameInbox, SameWork, SameLists
     DEF vars, nodeVars, netVars, histVars, PeerInv, PlainTypes
<1> QED
  BY <1>1, <1>2, <1>3, <1>4, <1>5 DEF Next

(***************************************************************************)
(* Every state of every behaviour satisfies the inductive invariant.       *)
(***************************************************************************)
THEOREM PeerInvariant == Spec => []PeerInv
BY InitHolds, StepKeeps, PTL DEF Spec

(***************************************************************************)
(* The variables keep to their types (the model of task.c is well formed): *)
(* in particular a handler always works on the kind of packet it is for.   *)
(***************************************************************************)
THEOREM TypeCorrect == Spec => []TypeOK
BY PeerInvariant, InvTyped, PTL

(***************************************************************************)
(* No list ever holds a name or an address twice, however many nodes join, *)
(* pass lists on, sign out or crash at the same time, and whoever chose    *)
(* which name (list.c:49-54 under task.c:504-509, 590-625).                *)
(***************************************************************************)
THEOREM ListsUnique == Spec => []UniqueLists
<1>1. PeerInv => UniqueLists
  BY DEF PeerInv
<1> QED
  BY <1>1, PeerInvariant, PTL
(***************************************************************************)
(* The mutex.  Nothing of a node changes at another node, and at its own   *)
(* node a step concerns one task: the facts about StableAt are about one   *)
(* node.                                                                   *)
(***************************************************************************)
StableAt(n) ==
  /\ \A w \in Workers : work[n][w].at = "sending" <=> mutex[n] = w
  /\ out[n].at = "flag" <=> mutex[n] = Sender
  /\ quit[n].at = "sending" <=> mutex[n] = Cmd
  /\ \A w \in Workers : work[n][w].at = "sending" => work[n][w].todo \subseteq members[n]
  /\ quit[n].at = "sending" => quit[n].todo \subseteq members[n]

Elsewhere(n) ==
  \A k \in Nodes \ {n} :
    /\ work'[k] = work[k] /\ mutex'[k] = mutex[k] /\ members'[k] = members[k]
    /\ out'[k] = out[k] /\ quit'[k] = quit[k]

LEMMA StableSplit == ListStable <=> \A n \in Nodes : StableAt(n)
BY DEF ListStable, StableAt

LEMMA StableElsewhere ==
  ASSUME ListStable, NEW n \in Nodes, Elsewhere(n), StableAt(n)'
  PROVE  ListStable'
<1>1. ASSUME NEW k \in Nodes \ {n}
      PROVE  StableAt(k)'
  <2>1. /\ work'[k] = work[k] /\ mutex'[k] = mutex[k] /\ members'[k] = members[k]
        /\ out'[k] = out[k] /\ quit'[k] = quit[k]
    BY DEF Elsewhere
  <2>2. StableAt(k)
    BY StableSplit
  <2> QED
    BY <2>1, <2>2 DEF StableAt
<1>2. \A k \in Nodes : StableAt(k)'
  BY <1>1
<1> QED
  BY <1>2 DEF ListStable, StableAt

LEMMA OwnersDiffer ==
  /\ Free # Leaked /\ Free # Sender /\ Free # Cmd
  /\ Leaked # Sender /\ Leaked # Cmd /\ Sender # Cmd
  /\ \A w \in Workers : w # Free /\ w # Leaked /\ w # Sender /\ w # Cmd
<1>1. ASSUME NEW x, NEW y, NEW z
      PROVE  Cardinality({x, y, z}) # 4
  <2>1. IsFiniteSet({x}) /\ Cardinality({x}) = 1
    BY FS_Singleton
  <2>2. IsFiniteSet({x, y}) /\ Cardinality({x, y}) \in {1, 2}
    <3>1. {x, y} = {x} \cup {y}
      OBVIOUS
    <3> QED
      BY <2>1, <3>1, FS_AddElement
  <2>3. Cardinality({x, y, z}) \in {1, 2, 3}
    <3>1. {x, y, z} = {x, y} \cup {z}
      OBVIOUS
    <3> QED
      BY <2>2, <3>1, FS_AddElement
  <2> QED
    BY <2>3
<1>2. \/ Free # Leaked /\ Free # Sender /\ Free # Cmd /\ Leaked # Sender /\ Leaked # Cmd /\ Sender # Cmd
      \/ {Free, Leaked, Sender, Cmd} = {Leaked, Sender, Cmd}
      \/ {Free, Leaked, Sender, Cmd} = {Free, Leaked, Cmd}
      \/ {Free, Leaked, Sender, Cmd} = {Free, Leaked, Sender}
  OBVIOUS
<1>3. {Free, Leaked, Sender, Cmd} # {Leaked, Sender, Cmd}
  BY <1>1, PeerAssumption
<1>4. {Free, Leaked, Sender, Cmd} # {Free, Leaked, Cmd}
  BY <1>1, PeerAssumption
<1>5. {Free, Leaked, Sender, Cmd} # {Free, Leaked, Sender}
  BY <1>1, PeerAssumption
<1> QED
  BY <1>2, <1>3, <1>4, <1>5, PeerAssumption

(* A step of one worker. *)
LEMMA DoChanges ==
  ASSUME CleanWork, NEW n \in Nodes, NEW w \in Workers, NEW s, Do(n, w, s)
  PROVE  /\ work'[n][w] = s
         /\ \A v \in Workers \ {w} : work'[n][v] = work[n][v]
         /\ \A k \in Nodes \ {n} : work'[k] = work[k]
<1>1. work' = [work EXCEPT ![n] = [work[n] EXCEPT ![w] = s]]
  BY DEF Do
<1>2. work'[n] = [work[n] EXCEPT ![w] = s] /\ \A k \in Nodes \ {n} : work'[k] = work[k]
  BY <1>1 DEF CleanWork
<1>3. work[n] = [v \in Workers |-> work[n][v]]
  BY DEF CleanWork
<1> QED
  BY <1>2, <1>3

LEMMA StableInit == Init => ListStable
BY OwnersDiffer DEF Init, ListStable, Idle

LEMMA StableUser ==
  ASSUME PeerInv, ListStable, User
  PROVE  ListStable'
<1>1. UNCHANGED <<members, mutex, work>>
  BY DEF User, Connect, Quit, nodeVars
<1>2. CASE \E n \in MayQuit : Quit(n)
  <2>1. PICK n \in Nodes : /\ quit[n].at = "no" /\ quit' = [quit EXCEPT ![n].at = "lock"]
                           /\ UNCHANGED out
    BY <1>2, PeerAssumption DEF Quit, Command
  <2>2. /\ quit'[n].at = "lock"
        /\ \A k \in Nodes \ {n} : quit'[k] = quit[k]
    BY <2>1 DEF PeerInv, PlainTypes, QuitState
  <2>3. Elsewhere(n)
    BY <1>1, <2>1, <2>2 DEF Elsewhere
  <2>4. StableAt(n)'
    <3>1. StableAt(n)
      BY StableSplit
    <3> QED
      BY <1>1, <2>1, <2>2, <3>1 DEF StableAt
  <2> QED
    BY <2>3, <2>4, StableElsewhere
<1>3. CASE \E c \in MayConnect : Connect(c[1], c[2])
  <2>1. PICK n \in Nodes, m \in Nodes :
          /\ out[n].at = "idle" /\ out' = [out EXCEPT ![n] = [at |-> "lock", to |-> m]]
          /\ UNCHANGED quit
    <3>1. PICK c \in MayConnect : Connect(c[1], c[2])
      BY <1>3
    <3>2. c[1] \in Nodes /\ c[2] \in Nodes
      BY PeerAssumption
    <3> QED
      BY <3>1, <3>2 DEF Connect
  <2>2. /\ out'[n].at = "lock"
        /\ \A k \in Nodes \ {n} : out'[k] = out[k]
    BY <2>1 DEF PeerInv, PlainTypes
  <2>3. Elsewhere(n)
    BY <1>1, <2>1, <2>2 DEF Elsewhere
  <2>4. StableAt(n)'
    <3>1. StableAt(n)
      BY StableSplit
    <3> QED
      BY <1>1, <2>1, <2>2, <3>1 DEF StableAt
  <2> QED
    BY <2>3, <2>4, StableElsewhere
<1> QED
  BY <1>2, <1>3 DEF User

LEMMA StableSignIn ==
  ASSUME PeerInv, ListStable, NEW n \in Nodes, SignInTask(n)
  PROVE  ListStable'
<1>1. UNCHANGED <<members, work, quit>>
  BY DEF SignInTask, SignInSend, SignInFlag
<1>2. StableAt(n)
  BY StableSplit
<1>3. \/ mutex[n] = Free /\ mutex' = [mutex EXCEPT ![n] = Sender] /\ out' = [out EXCEPT ![n] = [at |-> "flag"]]
      \/ mutex[n] = Free /\ mutex' = mutex /\ out' = [out EXCEPT ![n] = Idle]
      \/ out[n].at = "flag" /\ mutex' = [mutex EXCEPT ![n] = Free] /\ out' = [out EXCEPT ![n] = Idle]
  BY DEF SignInTask, SignInSend, SignInFlag, Lock, Unlock
<1>4. mutex \in [Nodes -> Workers \cup {Free, Leaked, Sender, Cmd}] /\ out \in [Nodes -> OutState]
  BY DEF PeerInv, PlainTypes
<1>5. Elsewhere(n)
  BY <1>1, <1>3, <1>4 DEF Elsewhere
<1>6. \/ mutex[n] = Free /\ mutex'[n] = Sender /\ out'[n].at = "flag"
      \/ mutex[n] = Free /\ mutex'[n] = Free /\ out'[n].at = "idle"
      \/ mutex[n] = Sender /\ mutex'[n] = Free /\ out'[n].at = "idle"
  BY <1>2, <1>3, <1>4 DEF StableAt, Idle
<1>7. StableAt(n)'
  BY <1>1, <1>2, <1>6, OwnersDiffer DEF StableAt
<1> QED
  BY <1>5, <1>7, StableElsewhere

(* A worker that neither takes nor holds the mutex and changes no list. *)
LEMMA StableBystander ==
  ASSUME PeerInv, ListStable, NEW n \in Nodes, NEW w \in Workers, NEW s,
         Do(n, w, s), work[n][w].at # "sending", s.at # "sending",
         UNCHANGED <<members, mutex, out, quit>>
  PROVE  ListStable'
<1>1. StableAt(n)
  BY StableSplit
<1>2. /\ work'[n][w] = s
      /\ \A v \in Workers \ {w} : work'[n][v] = work[n][v]
      /\ \A k \in Nodes \ {n} : work'[k] = work[k]
  BY DoChanges DEF PeerInv
<1>3. Elsewhere(n)
  BY <1>2 DEF Elsewhere
<1>4. StableAt(n)'
  BY <1>1, <1>2 DEF StableAt
<1> QED
  BY <1>3, <1>4, StableElsewhere

(* A worker that changes the list, or leaves the mutex locked: it was free. *)
LEMMA StableChange ==
  ASSUME PeerInv, ListStable, NEW n \in Nodes, NEW w \in Workers, NEW s, NEW l,
         Do(n, w, s), s.at # "sending", mutex[n] = Free,
         members' = [members EXCEPT ![n] = l],
         mutex' = mutex \/ mutex' = [mutex EXCEPT ![n] = Leaked],
         UNCHANGED <<out, quit>>
  PROVE  ListStable'
<1>1. StableAt(n)
  BY StableSplit
<1>2. /\ work'[n][w] = s
      /\ \A v \in Workers \ {w} : work'[n][v] = work[n][v]
      /\ \A k \in Nodes \ {n} : work'[k] = work[k]
  BY DoChanges DEF PeerInv
<1>3. /\ mutex'[n] \in {Free, Leaked}
      /\ \A k \in Nodes \ {n} : mutex'[k] = mutex[k] /\ members'[k] = members[k]
  BY DEF PeerInv, PlainTypes
<1>4. Elsewhere(n)
  BY <1>2, <1>3 DEF Elsewhere
<1>5. StableAt(n)'
  <2>1. \A v \in Workers : work[n][v].at # "sending"
    BY <1>1, OwnersDiffer DEF StableAt
  <2>2. out[n].at # "flag" /\ quit[n].at # "sending"
    BY <1>1, OwnersDiffer DEF StableAt
  <2>3. \A v \in Workers : work'[n][v].at # "sending"
    BY <1>2, <2>1
  <2> QED
    BY <1>3, <2>2, <2>3, OwnersDiffer DEF StableAt
<1> QED
  BY <1>4, <1>5, StableElsewhere

LEMMA StableUpdate ==
  ASSUME PeerInv, ListStable, NEW n \in Nodes, NEW w \in Workers,
         UpdateLock(n, w) \/ UpdateSend(n, w) \/ UpdateUnlock(n, w)
  PROVE  ListStable'
<1>1. StableAt(n)
  BY StableSplit
<1>2. UNCHANGED <<members, out, quit>>
  BY DEF UpdateLock, UpdateSend, UpdateUnlock, nodeVars
<1>3. mutex \in [Nodes -> Workers \cup {Free, Leaked, Sender, Cmd}]
  BY DEF PeerInv, PlainTypes
<1>4. \/ \E p : /\ mutex[n] = Free /\ mutex' = [mutex EXCEPT ![n] = w]
                /\ Do(n, w, At("sending", p, members[n]))
      \/ \E p, m : /\ work[n][w].at = "sending" /\ UNCHANGED mutex
                   /\ Do(n, w, At("sending", p, work[n][w].todo \ {m}))
      \/ \E p, l : /\ work[n][w].at = "sending" /\ mutex' = [mutex EXCEPT ![n] = Free]
                   /\ l # "sending" /\ Do(n, w, At(l, p, {}))
  BY DEF UpdateLock, UpdateSend, UpdateUnlock, Lock, Unlock, nodeVars
<1>5. CASE \E p : /\ mutex[n] = Free /\ mutex' = [mutex EXCEPT ![n] = w]
                  /\ Do(n, w, At("sending", p, members[n]))
  <2>1. /\ work'[n][w].at = "sending" /\ work'[n][w].todo = members[n]
        /\ \A v \in Workers \ {w} : work'[n][v] = work[n][v]
        /\ \A k \in Nodes \ {n} : work'[k] = work[k]
    BY <1>5, DoChanges DEF PeerInv, At
  <2>2. mutex[n] = Free /\ mutex'[n] = w /\ \A k \in Nodes \ {n} : mutex'[k] = mutex[k]
    BY <1>3, <1>5
  <2>3. Elsewhere(n)
    BY <1>2, <2>1, <2>2 DEF Elsewhere
  <2>4. StableAt(n)'
    BY <1>1, <1>2, <2>1, <2>2, OwnersDiffer DEF StableAt
  <2> QED
    BY <2>3, <2>4, StableElsewhere
<1>6. CASE \E p, m : /\ work[n][w].at = "sending" /\ UNCHANGED mutex
                     /\ Do(n, w, At("sending", p, work[n][w].todo \ {m}))
  <2>1. /\ work'[n][w].at = "sending" /\ work'[n][w].todo \subseteq work[n][w].todo
        /\ \A v \in Workers \ {w} : work'[n][v] = work[n][v]
        /\ \A k \in Nodes \ {n} : work'[k] = work[k]
    BY <1>6, DoChanges DEF PeerInv, At
  <2>2. Elsewhere(n)
    BY <1>2, <1>6, <2>1 DEF Elsewhere
  <2>3. StableAt(n)'
    BY <1>1, <1>2, <1>6, <2>1 DEF StableAt
  <2> QED
    BY <2>2, <2>3, StableElsewhere
<1>7. CASE \E p, l : /\ work[n][w].at = "sending" /\ mutex' = [mutex EXCEPT ![n] = Free]
                     /\ l # "sending" /\ Do(n, w, At(l, p, {}))
  <2>1. /\ work'[n][w].at # "sending"
        /\ \A v \in Workers \ {w} : work'[n][v] = work[n][v]
        /\ \A k \in Nodes \ {n} : work'[k] = work[k]
    BY <1>7, DoChanges DEF PeerInv, At
  <2>2. mutex[n] = w /\ mutex'[n] = Free /\ \A k \in Nodes \ {n} : mutex'[k] = mutex[k]
    BY <1>1, <1>3, <1>7 DEF StableAt
  <2>3. Elsewhere(n)
    BY <1>2, <2>1, <2>2 DEF Elsewhere
  <2>4. StableAt(n)'
    BY <1>1, <1>2, <2>1, <2>2, OwnersDiffer DEF StableAt
  <2> QED
    BY <2>3, <2>4, StableElsewhere
<1> QED
  BY <1>4, <1>5, <1>6, <1>7

LEMMA StableHandler ==
  ASSUME PeerInv, ListStable, NEW n \in Nodes, NEW w \in Workers, Handler(n, w)
  PROVE  ListStable'
<1> USE DEF At, Idle
<1>1. ASSUME NEW i \in 1..Backlog, Take(n, w, i)
      PROVE  ListStable'
  <2>1. /\ Do(n, w, At(FirstStage(n, inbox[n][i]), inbox[n][i], {}))
        /\ work[n][w] = Idle
        /\ UNCHANGED <<members, mutex, out, quit>>
    BY <1>1 DEF Take, Takeable, IdleWorkers, nodeVars
  <2>2. FirstStage(n, inbox[n][i]) # "sending"
    BY DEF FirstStage
  <2> QED
    BY <2>1, <2>2, StableBystander
<1>2. CASE Reply(n, w)
  BY <1>2, StableBystander DEF Reply, nodeVars
<1>3. CASE ClearFlag(n, w)
  BY <1>3, StableBystander DEF ClearFlag
<1>4. CASE Add(n, w)
  <2> DEFINE rest(m) == IF work[n][w].todo = {m} THEN Idle
                        ELSE At("add", work[n][w].packet, work[n][w].todo \ {m})
  <2>1. PICK m : /\ members' = IF Accepts(n, m) THEN [members EXCEPT ![n] = @ \cup {m}] ELSE members
                 /\ Do(n, w, rest(m))
                 /\ mutex[n] = Free /\ UNCHANGED <<mutex, out, quit>>
    BY <1>4 DEF Add
  <2>2. rest(m).at # "sending"
    OBVIOUS
  <2> HIDE DEF rest
  <2>3. members = [members EXCEPT ![n] = members[n]]
    BY DEF PeerInv, PlainTypes
  <2> QED
    BY <2>1, <2>2, <2>3, StableChange
<1>5. CASE InsertAll(n, w)
  BY <1>5, StableChange DEF InsertAll
<1>6. CASE Delete(n, w)
  BY <1>6, StableChange DEF Delete
<1> QED
  BY <1>1, <1>2, <1>3, <1>4, <1>5, <1>6, StableUpdate DEF Handler

LEMMA StableQuit ==
  ASSUME PeerInv, ListStable, NEW n \in Nodes, QuitTask(n)
  PROVE  ListStable'
<1>1. StableAt(n)
  BY StableSplit
<1>2. UNCHANGED <<members, work, out>>
  BY DEF QuitTask, QuitLock, QuitSend, QuitUnlock, nodeVars
<1>3. /\ mutex \in [Nodes -> Workers \cup {Free, Leaked, Sender, Cmd}]
      /\ quit \in [Nodes -> QuitState] /\ quit[n] \in QuitState
  BY DEF PeerInv, PlainTypes
<1>4. Elsewhere(n)
  BY <1>2, <1>3 DEF Elsewhere, QuitTask, QuitLock, QuitSend, QuitUnlock, Lock, Unlock, nodeVars
<1>5. CASE QuitLock(n)
  <2>1. /\ mutex[n] = Free /\ mutex'[n] = Cmd
        /\ quit'[n].at = "sending" /\ quit'[n].todo = members[n]
    BY <1>3, <1>5 DEF QuitLock, Lock
  <2>2. StableAt(n)'
    BY <1>1, <1>2, <2>1, OwnersDiffer DEF StableAt
  <2> QED
    BY <1>4, <2>2, StableElsewhere
<1>6. CASE QuitSend(n)
  <2>1. PICK m : quit' = [quit EXCEPT ![n].todo = @ \ {m}]
    BY <1>6 DEF QuitSend
  <2>2. quit'[n].at = quit[n].at /\ quit'[n].todo \subseteq quit[n].todo /\ UNCHANGED mutex
    BY <1>3, <1>6, <2>1 DEF QuitSend, QuitState, nodeVars
  <2>3. StableAt(n)'
    BY <1>1, <1>2, <2>2 DEF StableAt
  <2> QED
    BY <1>4, <2>3, StableElsewhere
<1>7. CASE QuitUnlock(n)
  <2>1. mutex[n] = Cmd /\ mutex'[n] = Free /\ quit'[n].at = "sent"
    BY <1>1, <1>3, <1>7 DEF QuitUnlock, Unlock, StableAt, QuitState
  <2>2. StableAt(n)'
    BY <1>1, <1>2, <2>1, OwnersDiffer DEF StableAt
  <2> QED
    BY <1>4, <2>2, StableElsewhere
<1> QED
  BY <1>5, <1>6, <1>7 DEF QuitTask

LEMMA StableVanish ==
  ASSUME PeerInv, ListStable, NEW n \in Nodes, NEW how, Vanish(n, how)
  PROVE  ListStable'
<1>1. work' = [work EXCEPT ![n] = [w \in Workers |-> Idle]] /\ work = [k \in Nodes |-> work[k]]
  BY DEF Vanish, PeerInv, CleanWork
<1>2. Elsewhere(n)
  BY <1>1 DEF Elsewhere, Vanish, Unlock, PeerInv, PlainTypes
<1>3. /\ \A w \in Workers : work'[n][w].at = "idle"
      /\ mutex'[n] = Free /\ out'[n].at = "idle" /\ quit'[n].at = "no"
  BY <1>1 DEF Vanish, Unlock, PeerInv, PlainTypes, Idle
<1>4. StableAt(n)'
  BY <1>3, OwnersDiffer DEF StableAt
<1> QED
  BY <1>2, <1>4, StableElsewhere

LEMMA StableStep == PeerInv /\ ListStable /\ [Next]_vars => ListStable'
<1> SUFFICES ASSUME PeerInv, ListStable, [Next]_vars
             PROVE  ListStable'
  OBVIOUS
<1>1. CASE User
  BY <1>1, StableUser
<1>2. ASSUME NEW n \in Nodes, SignInTask(n) \/ QuitTask(n)
      PROVE  ListStable'
  BY <1>2, StableSignIn, StableQuit
<1>3. ASSUME NEW n \in Nodes, NEW w \in Workers, Handler(n, w)
      PROVE  ListStable'
  BY <1>3, StableHandler
<1>4. ASSUME NEW n \in Nodes,
             Exit(n) \/ \E w \in Workers : \E i \in 1..Backlog : SignOutCrashes(n, w, i)
      PROVE  ListStable'
  BY <1>4, StableVanish DEF Exit, SignOutCrashes
<1>5. CASE UNCHANGED vars
  BY <1>5 DEF vars, nodeVars, ListStable
<1> QED
  BY <1>1, <1>2, <1>3, <1>4, <1>5 DEF Next

(***************************************************************************)
(* Between its lock and its unlock the mutex of a node belongs to one task *)
(* only, and the list that this task is sending stays what it is, whatever *)
(* arrives meanwhile and whichever handlers forget to unlock               *)
(* (task.c:159-212, 242-257, 442-457, 526-544).                            *)
(***************************************************************************)
THEOREM ListsStable == Spec => []ListStable
BY PeerInvariant, StableInit, StableStep, PTL DEF Spec
(***************************************************************************)
(* Signing in.  What node y is going to learn: x is in its list, in a list *)
(* that waits at y or is in the hands of a worker there, or among the      *)
(* entries a worker has yet to add.                                        *)
(***************************************************************************)
HeldStages == {"update", "sending", "reply", "insert"}

HeldAt(y, p) ==
  p \in Waiting(y) \/ \E w \in Workers : work[y][w].at \in HeldStages /\ work[y][w].packet = p

Learns(y, x) ==
  \/ x \in members[y]
  \/ \E p \in Packet : HeldAt(y, p) /\ p.type # "SIGN_OUT" /\ x \in p.list
  \/ \E w \in Workers : work[y][w].at = "add" /\ x \in work[y][w].todo

(* The sign-in of x has not been answered yet. *)
Unanswered(y, x) ==
  \E p \in Packet : HeldAt(y, p) /\ p.type = "SIGN_IN" /\ p.first = x

Leaving(k) == status[k] # "up" \/ quit[k].at \in {"sending", "sent"}

Departed(p) == p.type = "SIGN_OUT" => \E k \in Nodes : IdOf[k] = p.id /\ Leaving(k)

(* Only who is leaving is signed out. *)
SignOutsTrue ==
  \A y \in Nodes :
    /\ \A p \in Waiting(y) : Departed(p)
    /\ \A w \in Workers : work[y][w] # Idle => Departed(work[y][w].packet)

Meet(n, m) ==
  <<n, m>> \in greeted /\ n # m /\ ~Leaving(n) /\ ~Leaving(m) /\ Distinct(n) /\ Distinct(m)
    => Learns(m, n) /\ (Learns(n, m) \/ Unanswered(m, n))

MeetInv == lost = 0 => \A n, m \in Nodes : Meet(n, m)

(* Packets are never lost once they wait. *)
LEMMA WithoutKeepsOthers ==
  ASSUME NEW q \in Seq(Packet), NEW k \in 1..Len(q), NEW i \in 1..Len(q), i # k
  PROVE  \E j \in 1..Len(Without(q, k)) : Without(q, k)[j] = q[i]
<1>1. CASE i < k
  <2>1. i \in 1..Len(q) - 1
    BY <1>1
  <2> QED
    BY <1>1, <2>1, WithoutPlaces
<1>2. CASE i > k
  <2>1. i - 1 \in 1..Len(q) - 1 /\ ~(i - 1 < k) /\ (i - 1) + 1 = i
    BY <1>2
  <2> QED
    BY <2>1, WithoutPlaces
<1> QED
  BY <1>1, <1>2

LEMMA AppendKeepsAll ==
  ASSUME NEW q \in Seq(Packet), NEW p \in Packet
  PROVE  /\ \A i \in 1..Len(q) : i \in 1..Len(Append(q, p)) /\ Append(q, p)[i] = q[i]
         /\ Len(q) + 1 \in 1..Len(Append(q, p)) /\ Append(q, p)[Len(q) + 1] = p
<1>1. Len(q) \in Nat /\ Len(Append(q, p)) = Len(q) + 1
  OBVIOUS
<1>2. Append(q, p)[Len(q) + 1] = p
  OBVIOUS
<1>3. \A i \in 1..Len(q) : Append(q, p)[i] = q[i]
  OBVIOUS
<1> QED
  BY <1>1, <1>2, <1>3

LEMMA ArrivesAdds ==
  ASSUME InboxOK, NEW m \in Nodes, NEW p \in Packet, Arrives(m, p)
  PROVE  /\ \A y \in Nodes : Waiting(y) \subseteq Waiting(y)'
         /\ p \in Waiting(m)'
         /\ \A y \in Nodes : Waiting(y)' \subseteq Waiting(y) \cup {p}
<1>1. inbox' = [inbox EXCEPT ![m] = Append(inbox[m], p)] /\ inbox[m] \in Seq(Packet)
  BY DEF Arrives, InboxOK
<1>2. /\ inbox'[m] = Append(inbox[m], p)
      /\ \A y \in Nodes \ {m} : inbox'[y] = inbox[y]
  BY <1>1 DEF InboxOK
<1>3. Waiting(m)' = {inbox'[m][i] : i \in 1..Len(inbox'[m])}
  BY DEF Waiting
<1>4. Waiting(m) \subseteq Waiting(m)' /\ p \in Waiting(m)'
  BY <1>1, <1>2, <1>3, AppendKeepsAll DEF Waiting
<1>5. Waiting(m)' \subseteq Waiting(m) \cup {p}
  BY <1>1, <1>2, <1>3, WaitingAppend DEF Waiting
<1>6. \A y \in Nodes \ {m} : Waiting(y)' = Waiting(y)
  BY <1>2 DEF Waiting
<1> QED
  BY <1>4, <1>5, <1>6

LEMMA SendAdds ==
  ASSUME InboxOK, NEW m \in Nodes, NEW p \in Packet, Send(m, p)
  PROVE  /\ \A y \in Nodes : Waiting(y) \subseteq Waiting(y)'
         /\ \A y \in Nodes : Waiting(y)' \subseteq Waiting(y) \cup {p}
<1>1. CASE Arrives(m, p)
  BY <1>1, ArrivesAdds
<1>2. CASE Fails(m)
  BY <1>2 DEF Fails, Waiting
<1> QED
  BY <1>1, <1>2 DEF Send

LEMMA TakeMoves ==
  ASSUME InboxOK, NEW n \in Nodes, NEW w, NEW k, Take(n, w, k)
  PROVE  /\ Waiting(n) \subseteq Waiting(n)' \cup {inbox[n][k]}
         /\ Waiting(n)' \subseteq Waiting(n)
         /\ inbox[n][k] \in Waiting(n)
         /\ \A y \in Nodes \ {n} : Waiting(y)' = Waiting(y)
<1>1. /\ inbox' = [inbox EXCEPT ![n] = Without(inbox[n], k)]
      /\ k \in 1..Len(inbox[n]) /\ inbox[n] \in Seq(Packet)
  BY DEF Take, Takeable, InboxOK
<1>2. /\ inbox'[n] = Without(inbox[n], k)
      /\ \A y \in Nodes \ {n} : inbox'[y] = inbox[y]
  BY <1>1 DEF InboxOK
<1>3. Waiting(n)' = {inbox'[n][i] : i \in 1..Len(inbox'[n])}
  BY DEF Waiting
<1>4. Waiting(n) \subseteq Waiting(n)' \cup {inbox[n][k]}
  <2> SUFFICES ASSUME NEW i \in 1..Len(inbox[n]), i # k
               PROVE  inbox[n][i] \in Waiting(n)'
    BY DEF Waiting
  <2>1. \E j \in 1..Len(inbox'[n]) : inbox'[n][j] = inbox[n][i]
    BY <1>1, <1>2, WithoutKeepsOthers
  <2> QED
    BY <1>3, <2>1
<1>5. Waiting(n)' \subseteq Waiting(n)
  <2>1. \A i \in 1..Len(inbox'[n]) : \E j \in 1..Len(inbox[n]) : inbox'[n][i] = inbox[n][j]
    BY <1>1, <1>2, WithoutElements
  <2> QED
    BY <1>3, <2>1 DEF Waiting
<1>6. inbox[n][k] \in Waiting(n) /\ \A y \in Nodes \ {n} : Waiting(y)' = Waiting(y)
  BY <1>1, <1>2 DEF Waiting
<1> QED
  BY <1>4, <1>5, <1>6

(***************************************************************************)
(* What the steps leave alone.                                             *)
(***************************************************************************)
LEMMA LeavingStays ==
  ASSUME PeerInv, [Next]_vars, NEW k \in Nodes, Leaving(k)
  PROVE  Leaving(k)'
<1> USE DEF Leaving
<1>1. CASE UNCHANGED <<status, quit>>
  BY <1>1
<1>2. ASSUME NEW n \in Nodes, Quit(n)
      PROVE  Leaving(k)'
  <2>1. /\ quit[n].at = "no" /\ quit' = [quit EXCEPT ![n].at = "lock"] /\ UNCHANGED status
    BY <1>2 DEF Quit, Command, nodeVars
  <2>2. \A y \in Nodes \ {n} : quit'[y] = quit[y]
    BY <2>1 DEF PeerInv, PlainTypes
  <2> QED
    BY <2>1, <2>2
<1>3. ASSUME NEW n \in Nodes, QuitTask(n)
      PROVE  Leaving(k)'
  <2>1. quit \in [Nodes -> QuitState] /\ quit[n] \in QuitState /\ UNCHANGED status
    BY <1>3 DEF PeerInv, PlainTypes, QuitTask, QuitLock, QuitSend, QuitUnlock, nodeVars
  <2>2. CASE QuitLock(n)
    BY <2>1, <2>2 DEF QuitLock
  <2>3. CASE QuitSend(n)
    <3>1. PICK m : quit' = [quit EXCEPT ![n].todo = @ \ {m}]
      BY <2>3 DEF QuitSend
    <3> QED
      BY <2>1, <3>1 DEF QuitState
  <2>4. CASE QuitUnlock(n)
    BY <2>1, <2>4 DEF QuitUnlock, QuitState
  <2> QED
    BY <1>3, <2>2, <2>3, <2>4 DEF QuitTask
<1>4. ASSUME NEW n \in Nodes, NEW how \in {"left", "crashed"}, Vanish(n, how)
      PROVE  Leaving(k)'
  BY <1>4 DEF Vanish, PeerInv, PlainTypes
<1>5. CASE \E c \in MayConnect : Connect(c[1], c[2])
  <2>1. UNCHANGED <<status, quit>>
    BY <1>5 DEF Connect, nodeVars
  <2> QED
    BY <1>1, <2>1
<1>6. ASSUME NEW n \in Nodes, SignInTask(n)
      PROVE  Leaving(k)'
  BY <1>1, <1>6 DEF SignInTask, SignInSend, SignInFlag
<1>7. ASSUME NEW n \in Nodes, NEW w \in Workers, Handler(n, w)
      PROVE  Leaving(k)'
  BY <1>1, <1>7 DEF Handler, Take, UpdateLock, UpdateSend, UpdateUnlock, Reply, Add, InsertAll,
                    ClearFlag, Delete, nodeVars
<1>8. CASE UNCHANGED vars
  BY <1>1, <1>8 DEF vars, nodeVars
<1>9. ASSUME NEW n \in Nodes,
             Exit(n) \/ \E w \in Workers : \E i \in 1..Backlog : SignOutCrashes(n, w, i)
      PROVE  Leaving(k)'
  BY <1>4, <1>9 DEF Exit, SignOutCrashes
<1> QED
  BY <1>2, <1>3, <1>5, <1>6, <1>7, <1>8, <1>9, PeerAssumption DEF Next, User

LEMMA LostStays ==
  ASSUME PeerInv, [Next]_vars, lost' = 0
  PROVE  lost = 0
<1>1. lost \in Nat
  BY PeerAssumption DEF PeerInv, PlainTypes
<1>2. CASE UNCHANGED lost
  BY <1>2
<1>3. ASSUME NEW m, NEW p, Arrives(m, p) \/ Fails(m)
      PROVE  lost' = lost \/ lost' = lost + 1
  BY <1>3 DEF Arrives, Fails
<1>4. CASE lost' = lost + 1
  BY <1>1, <1>4
<1>5. CASE User \/ UNCHANGED vars
  BY <1>2, <1>5 DEF User, Connect, Quit, vars, netVars
<1>6. ASSUME NEW n \in Nodes, SignInTask(n) \/ QuitTask(n)
      PROVE  lost = 0
  BY <1>2, <1>3, <1>4, <1>6 DEF SignInTask, SignInSend, SignInFlag, QuitTask, QuitLock, QuitSend,
                                QuitUnlock, Send, netVars
<1>7. ASSUME NEW n \in Nodes, NEW w \in Workers, Handler(n, w)
      PROVE  lost = 0
  BY <1>2, <1>3, <1>4, <1>7 DEF Handler, Take, UpdateLock, UpdateSend, UpdateUnlock, Reply, Add,
                                InsertAll, ClearFlag, Delete, Send, netVars
<1>8. ASSUME NEW n \in Nodes,
             Exit(n) \/ \E w \in Workers : \E i \in 1..Backlog : SignOutCrashes(n, w, i)
      PROVE  lost = 0
  BY <1>2, <1>8 DEF Exit, SignOutCrashes, Vanish
<1> QED
  BY <1>5, <1>6, <1>7, <1>8 DEF Next

(* What a handler does to another node: at most it sends it a packet.       *)
LEMMA HandlerSends ==
  ASSUME PeerInv, NEW n \in Nodes, NEW w \in Workers, Handler(n, w)
  PROVE  /\ \A y \in Nodes \ {n} : /\ members'[y] = members[y] /\ work'[y] = work[y]
                                   /\ Waiting(y) \subseteq Waiting(y)'
         /\ \A v \in Workers \ {w} : work'[n][v] = work[n][v]
         /\ ~(\E i \in 1..Backlog : Take(n, w, i)) => Waiting(n) \subseteq Waiting(n)'
<1>1. PICK s : Do(n, w, s)
  BY DEF Handler, Take, UpdateLock, UpdateSend, UpdateUnlock, Reply, Add, InsertAll, ClearFlag, Delete
<1>2. /\ \A v \in Workers \ {w} : work'[n][v] = work[n][v]
      /\ \A y \in Nodes \ {n} : work'[y] = work[y]
  BY <1>1, DoChanges DEF PeerInv
<1>3. \A y \in Nodes \ {n} : members'[y] = members[y]
  <2>1. members' = members \/ \E l : members' = [members EXCEPT ![n] = l]
    BY DEF Handler, Take, UpdateLock, UpdateSend, UpdateUnlock, Reply, Add, InsertAll, ClearFlag,
           Delete, nodeVars
  <2> QED
    BY <2>1 DEF PeerInv, PlainTypes
<1>4. CASE \E i \in 1..Backlog : Take(n, w, i)
  BY <1>2, <1>3, <1>4, TakeMoves DEF PeerInv
<1>5. CASE UpdateLock(n, w) \/ UpdateUnlock(n, w) \/ Add(n, w) \/ InsertAll(n, w) \/ ClearFlag(n, w) \/ Delete(n, w)
  <2>1. UNCHANGED inbox
    BY <1>5 DEF UpdateLock, UpdateUnlock, Add, InsertAll, ClearFlag, Delete, netVars
  <2>2. \A y \in Nodes : Waiting(y)' = Waiting(y)
    BY <2>1 DEF Waiting
  <2> QED
    BY <1>2, <1>3, <2>2
<1>6. CASE UpdateSend(n, w) \/ Reply(n, w)
  <2>1. PICK m \in Nodes, p \in Packet : Send(m, p)
    <3>1. Stage(work[n][w])
      BY StageOfWork DEF PeerInv
    <3>2. CASE UpdateSend(n, w)
      <4>1. work[n][w].todo \subseteq Nodes /\ CleanList(work[n][w].packet.list)
        BY <3>1, <3>2 DEF UpdateSend, Stage, Idle, CleanPacket
      <4>2. MemberList(work[n][w].packet.list) \in Packet
        BY <4>1, ListPackets
      <4> QED
        BY <3>2, <4>1, <4>2 DEF UpdateSend
    <3>3. CASE Reply(n, w)
      <4>1. work[n][w].packet.first \in Nodes
        BY <3>1, <3>3 DEF Reply, Stage, Idle, Packet
      <4>2. MemberList(Everyone(n)) \in Packet
        BY EveryoneIsClean, ListPackets DEF PeerInv, PlainTypes
      <4> QED
        BY <3>3, <4>1, <4>2 DEF Reply
    <3> QED
      BY <1>6, <3>2, <3>3
  <2>2. \A y \in Nodes : Waiting(y) \subseteq Waiting(y)'
    BY <2>1, SendAdds DEF PeerInv
  <2> QED
    BY <1>2, <1>3, <2>2
<1> QED
  BY <1>4, <1>5, <1>6 DEF Handler

(* The other steps change neither workers nor lists but those of a node     *)
(* that goes.                                                               *)
LEMMA OthersSend ==
  ASSUME PeerInv, [Next]_vars, ~(\E n \in Nodes, w \in Workers : Handler(n, w)),
         NEW y \in Nodes, status'[y] = "up"
  PROVE  /\ members'[y] = members[y] /\ work'[y] = work[y]
         /\ Waiting(y) \subseteq Waiting(y)'
<1>1. CASE User \/ UNCHANGED vars
  BY <1>1 DEF User, Connect, Quit, vars, nodeVars, netVars, Waiting
<1>2. ASSUME NEW n \in Nodes, SignInSend(n)
      PROVE  UNCHANGED <<members, work>> /\ Waiting(y) \subseteq Waiting(y)'
  <2>1. out[n].to \in Nodes
    BY <1>2 DEF SignInSend, PeerInv, PlainTypes, OutState, Idle
  <2>2. SignIn(n, Everyone(n)) \in Packet
    BY EveryoneIsClean, ListPackets DEF PeerInv, PlainTypes
  <2>3. Send(out[n].to, SignIn(n, Everyone(n)))
    BY <1>2 DEF SignInSend, Send
  <2>4. UNCHANGED <<members, work>>
    BY <1>2 DEF SignInSend
  <2> QED
    BY <2>1, <2>2, <2>3, <2>4, SendAdds DEF PeerInv
<1>3. ASSUME NEW n \in Nodes, QuitSend(n)
      PROVE  UNCHANGED <<members, work>> /\ Waiting(y) \subseteq Waiting(y)'
  <2>1. PICK m \in quit[n].todo : Send(m, SignOut(IdOf[n]))
    BY <1>3 DEF QuitSend
  <2>2. m \in Nodes /\ SignOut(IdOf[n]) \in Packet
    BY SignOutPackets, PeerAssumption DEF PeerInv, PlainTypes, QuitState
  <2>3. UNCHANGED <<members, work>>
    BY <1>3 DEF QuitSend, nodeVars
  <2> QED
    BY <2>1, <2>2, <2>3, SendAdds DEF PeerInv
<1>4. ASSUME NEW n \in Nodes, SignInFlag(n) \/ QuitLock(n) \/ QuitUnlock(n)
      PROVE  UNCHANGED <<members, work>> /\ Waiting(y) \subseteq Waiting(y)'
  BY <1>4 DEF SignInFlag, QuitLock, QuitUnlock, netVars, Waiting
<1>5. ASSUME NEW n \in Nodes, NEW how \in {"left", "crashed"}, Vanish(n, how)
      PROVE  members'[y] = members[y] /\ work'[y] = work[y] /\ Waiting(y) \subseteq Waiting(y)'
  <2>1. y # n
    BY <1>5 DEF Vanish, PeerInv, PlainTypes
  <2>2. inbox'[y] = inbox[y] /\ members'[y] = members[y] /\ work'[y] = work[y]
    BY <1>5, <2>1 DEF Vanish, PeerInv, PlainTypes, InboxOK, CleanWork
  <2> QED
    BY <2>2 DEF Waiting
<1>6. ASSUME NEW n \in Nodes,
             Exit(n) \/ \E w \in Workers : \E i \in 1..Backlog : SignOutCrashes(n, w, i)
      PROVE  members'[y] = members[y] /\ work'[y] = work[y] /\ Waiting(y) \subseteq Waiting(y)'
  BY <1>5, <1>6 DEF Exit, SignOutCrashes
<1> QED
  BY <1>1, <1>2, <1>3, <1>4, <1>6 DEF Next, SignInTask, QuitTask

(***************************************************************************)
(* Only who is leaving is signed out.                                      *)
(***************************************************************************)
LEMMA SignOutsFrame ==
  ASSUME SignOutsTrue, \A k \in Nodes : Leaving(k) => Leaving(k)',
         \A y \in Nodes : \A p \in Waiting(y)' : p \in Waiting(y) \/ Departed(p)',
         \A y \in Nodes : \A v \in Workers :
           \/ work'[y][v] = Idle
           \/ work[y][v] # Idle /\ work'[y][v].packet = work[y][v].packet
           \/ work'[y][v].packet \in Waiting(y)
  PROVE  SignOutsTrue'
<1>1. \A p : Departed(p) => Departed(p)'
  BY DEF Departed
<1>2. ASSUME NEW y \in Nodes, NEW p \in Waiting(y)'
      PROVE  Departed(p)'
  BY <1>1, <1>2 DEF SignOutsTrue
<1>3. ASSUME NEW y \in Nodes, NEW v \in Workers, work'[y][v] # Idle
      PROVE  Departed(work[y][v].packet)'
  <2>1. PICK p : p = work'[y][v].packet
    OBVIOUS
  <2>2. Departed(p)
    BY <1>3, <2>1 DEF SignOutsTrue
  <2>3. Departed(p)'
    BY <1>1, <2>2
  <2> QED
    BY <2>1, <2>3 DEF Departed
<1> QED
  BY <1>2, <1>3 DEF SignOutsTrue, Departed, Leaving

LEMMA SignOutsStep ==
  ASSUME PeerInv, SignOutsTrue, [Next]_vars
  PROVE  SignOutsTrue'
<1>1. \A k \in Nodes : Leaving(k) => Leaving(k)'
  BY LeavingStays
<1>2. ASSUME UNCHANGED <<inbox, work>>
      PROVE  SignOutsTrue'
  BY <1>1, <1>2, SignOutsFrame DEF Waiting, SignOutsTrue
<1>3. ASSUME NEW m \in Nodes, NEW p \in Packet, Send(m, p), p.type # "SIGN_OUT", UNCHANGED work
      PROVE  SignOutsTrue'
  <2>1. \A y \in Nodes : Waiting(y)' \subseteq Waiting(y) \cup {p}
    BY <1>3, SendAdds DEF PeerInv
  <2>2. Departed(p)'
    BY <1>3 DEF Departed
  <2>3. \A y \in Nodes : \A r \in Waiting(y)' : r \in Waiting(y) \/ Departed(r)'
    BY <2>1, <2>2 DEF Departed
  <2>4. \A y \in Nodes : \A v \in Workers : work'[y][v] = Idle \/ (work[y][v] # Idle /\ work'[y][v].packet = work[y][v].packet)
    BY <1>3
  <2> QED
    BY <1>1, <2>3, <2>4, SignOutsFrame
<1>4. CASE User \/ UNCHANGED vars
  BY <1>2, <1>4 DEF User, Connect, Quit, vars, nodeVars, netVars
<1>5. ASSUME NEW n \in Nodes, SignInTask(n)
      PROVE  SignOutsTrue'
  <2>1. CASE SignInSend(n)
    <3>1. out[n].to \in Nodes
      BY <2>1 DEF SignInSend, PeerInv, PlainTypes, OutState, Idle
    <3>2. SignIn(n, Everyone(n)) \in Packet /\ SignIn(n, Everyone(n)).type # "SIGN_OUT"
      BY EveryoneIsClean, ListPackets DEF PeerInv, PlainTypes, SignIn
    <3>3. Send(out[n].to, SignIn(n, Everyone(n))) /\ UNCHANGED work
      BY <2>1 DEF SignInSend, Send
    <3> QED
      BY <1>3, <3>1, <3>2, <3>3
  <2>2. CASE SignInFlag(n)
    BY <1>2, <2>2 DEF SignInFlag, netVars
  <2> QED
    BY <1>5, <2>1, <2>2 DEF SignInTask
<1>6. ASSUME NEW n \in Nodes, QuitTask(n)
      PROVE  SignOutsTrue'
  <2>1. CASE QuitSend(n)
    <3>1. PICK m \in quit[n].todo : Send(m, SignOut(IdOf[n]))
      BY <2>1 DEF QuitSend
    <3>2. m \in Nodes /\ SignOut(IdOf[n]) \in Packet
      BY SignOutPackets, PeerAssumption DEF PeerInv, PlainTypes, QuitState
    <3>3. \A y \in Nodes : Waiting(y)' \subseteq Waiting(y) \cup {SignOut(IdOf[n])}
      BY <3>1, <3>2, SendAdds DEF PeerInv
    <3>4. Leaving(n)'
      BY <1>1, <2>1 DEF QuitSend, Leaving
    <3>5. ASSUME NEW p, p = SignOut(IdOf[n])
          PROVE  Departed(p)'
      BY <3>4, <3>5 DEF Departed, SignOut
    <3>6. \A y \in Nodes : \A r \in Waiting(y)' : r \in Waiting(y) \/ Departed(r)'
      BY <3>3, <3>5
    <3>7. UNCHANGED work
      BY <2>1 DEF QuitSend
    <3> QED
      BY <1>1, <3>6, <3>7, SignOutsFrame
  <2>2. CASE QuitLock(n) \/ QuitUnlock(n)
    BY <1>2, <2>2 DEF QuitLock, QuitUnlock, netVars
  <2> QED
    BY <1>6, <2>1, <2>2 DEF QuitTask
<1>7. ASSUME NEW n \in Nodes, NEW w \in Workers, NEW i \in 1..Backlog, Take(n, w, i)
      PROVE  SignOutsTrue'
  <2>1. \A y \in Nodes : Waiting(y)' \subseteq Waiting(y)
    BY <1>7, TakeMoves DEF PeerInv
  <2>2. Do(n, w, At(FirstStage(n, inbox[n][i]), inbox[n][i], {})) /\ inbox[n][i] \in Waiting(n)
    BY <1>7, TakeMoves DEF Take, PeerInv
  <2>3. /\ work'[n][w].packet \in Waiting(n)
        /\ \A v \in Workers \ {w} : work'[n][v] = work[n][v]
        /\ \A y \in Nodes \ {n} : work'[y] = work[y]
    BY <2>2, DoChanges DEF PeerInv, At
  <2> QED
    BY <1>1, <2>1, <2>3, SignOutsFrame
<1>8. ASSUME NEW n \in Nodes, NEW w \in Workers, Handler(n, w), ~(\E i \in 1..Backlog : Take(n, w, i))
      PROVE  SignOutsTrue'
  <2>1. PICK s : /\ Do(n, w, s)
                 /\ s = Idle \/ s.packet = work[n][w].packet
                 /\ work[n][w].at # "idle"
    BY <1>8 DEF Handler, UpdateLock, UpdateSend, UpdateUnlock, Reply, Add, InsertAll, ClearFlag,
                Delete, At
  <2>2. /\ work'[n][w] = s
        /\ \A v \in Workers \ {w} : work'[n][v] = work[n][v]
        /\ \A y \in Nodes \ {n} : work'[y] = work[y]
    BY <2>1, DoChanges DEF PeerInv
  <2>3. \A y \in Nodes : \A v \in Workers :
          work'[y][v] = Idle \/ (work[y][v] # Idle /\ work'[y][v].packet = work[y][v].packet)
    <3>1. work'[n][w] = Idle \/ (work[n][w] # Idle /\ work'[n][w].packet = work[n][w].packet)
      <4>1. work[n][w] # Idle
        BY <2>1 DEF Idle
      <4> QED
        BY <2>1, <2>2, <4>1
    <3> TAKE y \in Nodes
    <3> TAKE v \in Workers
    <3>2. CASE y = n /\ v = w
      BY <3>1, <3>2
    <3>3. CASE ~(y = n /\ v = w)
      <4>1. work'[y][v] = work[y][v]
        BY <2>2, <3>3
      <4> QED
        BY <4>1
    <3> QED
      BY <3>2, <3>3
  <2>4. \A y \in Nodes : \A r \in Waiting(y)' : r \in Waiting(y) \/ Departed(r)'
    <3>1. CASE UNCHANGED inbox
      BY <3>1 DEF Waiting
    <3>2. ASSUME NEW m \in Nodes, NEW l, CleanList(l), Send(m, MemberList(l))
          PROVE  \A y \in Nodes : \A r \in Waiting(y)' : r \in Waiting(y) \/ Departed(r)'
      <4>1. MemberList(l) \in Packet
        BY <3>2, ListPackets
      <4>2. \A y \in Nodes : Waiting(y)' \subseteq Waiting(y) \cup {MemberList(l)}
        BY <3>2, <4>1, SendAdds DEF PeerInv
      <4>3. ASSUME NEW r, r = MemberList(l)
            PROVE  Departed(r)'
        BY <4>3 DEF Departed, MemberList
      <4> QED
        BY <4>2, <4>3
    <3>3. CASE UpdateSend(n, w)
      <4>1. PICK m \in work[n][w].todo : Send(m, MemberList(work[n][w].packet.list))
        BY <3>3 DEF UpdateSend
      <4>2. Stage(work[n][w]) /\ work[n][w].at = "sending"
        BY <3>3, StageOfWork DEF PeerInv, UpdateSend
      <4>3. m \in Nodes /\ CleanList(work[n][w].packet.list)
        BY <4>1, <4>2 DEF Stage, Idle, CleanPacket
      <4> QED
        BY <3>2, <4>1, <4>3
    <3>4. CASE Reply(n, w)
      <4>1. Stage(work[n][w]) /\ work[n][w].at = "reply"
        BY <3>4, StageOfWork DEF PeerInv, Reply
      <4>2. work[n][w].packet.first \in Nodes
        BY <4>1 DEF Stage, Idle, Packet
      <4>3. CleanList(Everyone(n))
        BY EveryoneIsClean DEF PeerInv, PlainTypes
      <4> QED
        BY <3>2, <3>4, <4>2, <4>3 DEF Reply
    <3>5. CASE UpdateLock(n, w) \/ UpdateUnlock(n, w) \/ Add(n, w) \/ InsertAll(n, w) \/ ClearFlag(n, w) \/ Delete(n, w)
      BY <3>1, <3>5 DEF UpdateLock, UpdateUnlock, Add, InsertAll, ClearFlag, Delete, netVars
    <3> QED
      BY <1>8, <3>3, <3>4, <3>5 DEF Handler
  <2> QED
    BY <1>1, <2>3, <2>4, SignOutsFrame
<1>9. ASSUME NEW n \in Nodes, NEW how, Vanish(n, how)
      PROVE  SignOutsTrue'
  <2>1. \A y \in Nodes : inbox'[y] = inbox[y] \/ inbox'[y] = <<>>
    BY <1>9 DEF Vanish, PeerInv, InboxOK
  <2>2. \A y \in Nodes : Waiting(y)' \subseteq Waiting(y)
    BY <2>1 DEF Waiting
  <2>3. \A y \in Nodes : \A v \in Workers : work'[y][v] = work[y][v] \/ work'[y][v] = Idle
    BY <1>9 DEF Vanish, PeerInv, CleanWork
  <2>4. \A y \in Nodes : \A v \in Workers :
          work'[y][v] = Idle \/ (work[y][v] # Idle /\ work'[y][v].packet = work[y][v].packet)
    BY <2>3
  <2> QED
    BY <1>1, <2>2, <2>4, SignOutsFrame
<1>10. ASSUME NEW n \in Nodes,
              Exit(n) \/ \E w \in Workers : \E i \in 1..Backlog : SignOutCrashes(n, w, i)
       PROVE  SignOutsTrue'
  BY <1>9, <1>10 DEF Exit, SignOutCrashes
<1>11. ASSUME NEW n \in Nodes, NEW w \in Workers, Handler(n, w)
       PROVE  SignOutsTrue'
  BY <1>7, <1>8, <1>11
<1> QED
  BY <1>4, <1>5, <1>6, <1>10, <1>11 DEF Next

(***************************************************************************)
(* What is on its way to a list gets there.                                *)
(***************************************************************************)
LEMMA LearnsFrame ==
  ASSUME NEW y \in Nodes, NEW x, NEW w \in Workers, Learns(y, x),
         x \in members[y] => x \in members'[y],
         \A p \in Waiting(y) : HeldAt(y, p)',
         \A v \in Workers \ {w} : work'[y][v] = work[y][v],
         /\ work[y][w].at \in HeldStages /\ work[y][w].packet \in Packet
         /\ work[y][w].packet.type # "SIGN_OUT" /\ x \in work[y][w].packet.list
         => Learns(y, x)',
         work[y][w].at = "add" /\ x \in work[y][w].todo => Learns(y, x)'
  PROVE  Learns(y, x)'
<1>1. CASE x \in members[y]
  BY <1>1 DEF Learns
<1>2. ASSUME NEW p \in Packet, HeldAt(y, p), p.type # "SIGN_OUT", x \in p.list
      PROVE  Learns(y, x)'
  <2>1. CASE p \in Waiting(y)
    BY <1>2, <2>1 DEF Learns
  <2>2. ASSUME NEW v \in Workers, work[y][v].at \in HeldStages, work[y][v].packet = p
        PROVE  Learns(y, x)'
    <3>1. CASE v = w
      BY <1>2, <2>2, <3>1
    <3>2. CASE v # w
      <4>1. work'[y][v].at \in HeldStages /\ work'[y][v].packet = p
        BY <2>2, <3>2
      <4>2. HeldAt(y, p)'
        BY <4>1 DEF HeldAt
      <4> QED
        BY <1>2, <4>2 DEF Learns
    <3> QED
      BY <3>1, <3>2
  <2> QED
    BY <1>2, <2>1, <2>2 DEF HeldAt
<1>3. ASSUME NEW v \in Workers, work[y][v].at = "add", x \in work[y][v].todo
      PROVE  Learns(y, x)'
  <2>1. CASE v = w
    BY <1>3, <2>1
  <2>2. CASE v # w
    BY <1>3, <2>2 DEF Learns
  <2> QED
    BY <2>1, <2>2
<1> QED
  BY <1>1, <1>2, <1>3 DEF Learns

(* A worker that goes on with the packet it has.                            *)
LEMMA LearnsOnward ==
  ASSUME NEW y \in Nodes, NEW x, NEW w \in Workers, Learns(y, x),
         members'[y] = members[y], Waiting(y) \subseteq Waiting(y)',
         \A v \in Workers \ {w} : work'[y][v] = work[y][v],
         work[y][w].at \in HeldStages, work'[y][w].at \in HeldStages,
         work'[y][w].packet = work[y][w].packet
  PROVE  Learns(y, x)'
<1>1. \A p \in Waiting(y) : HeldAt(y, p)'
  BY DEF HeldAt
<1>2. work[y][w].at # "add"
  BY DEF HeldStages
<1>3. \A p : work[y][w].packet = p => HeldAt(y, p)'
  BY DEF HeldAt
<1>4. /\ work[y][w].packet \in Packet
      /\ work[y][w].packet.type # "SIGN_OUT" /\ x \in work[y][w].packet.list
      => Learns(y, x)'
  BY <1>3 DEF Learns
<1> QED
  BY <1>1, <1>2, <1>4, LearnsFrame

LEMMA LearnsElsewhere ==
  ASSUME NEW y \in Nodes, NEW x, Learns(y, x),
         members'[y] = members[y], work'[y] = work[y], Waiting(y) \subseteq Waiting(y)'
  PROVE  Learns(y, x)'
<1>1. \A p : HeldAt(y, p) => HeldAt(y, p)'
  BY DEF HeldAt
<1> QED
  BY <1>1 DEF Learns

LEMMA TakeIsIdle ==
  ASSUME NEW n, NEW w, NEW i, Take(n, w, i)
  PROVE  work[n][w] = Idle /\ work[n][w].at = "idle"
BY DEF Take, Takeable, IdleWorkers, Idle

(* The update goes on with the packet it has. *)
LEMMA UpdateOnward ==
  ASSUME PeerInv, NEW n \in Nodes, NEW w \in Workers,
         UpdateLock(n, w) \/ UpdateSend(n, w) \/ UpdateUnlock(n, w)
  PROVE  /\ work[n][w].at \in HeldStages /\ work'[n][w].at \in HeldStages
         /\ work'[n][w].packet = work[n][w].packet
         /\ UNCHANGED members
<1>1. CASE UpdateLock(n, w)
  <2>1. Do(n, w, At("sending", work[n][w].packet, members[n]))
    BY <1>1 DEF UpdateLock
  <2>2. work'[n][w] = At("sending", work[n][w].packet, members[n])
    BY <2>1, DoChanges DEF PeerInv
  <2> QED
    BY <1>1, <2>2 DEF UpdateLock, At, HeldStages
<1>2. CASE UpdateSend(n, w)
  <2>1. PICK l : Do(n, w, At("sending", work[n][w].packet, l))
    BY <1>2 DEF UpdateSend
  <2>2. work'[n][w] = At("sending", work[n][w].packet, l)
    BY <2>1, DoChanges DEF PeerInv
  <2> QED
    BY <1>2, <2>2 DEF UpdateSend, At, HeldStages, nodeVars
<1>3. CASE UpdateUnlock(n, w)
  <2>1. PICK l \in {"reply", "insert"} : Do(n, w, At(l, work[n][w].packet, {}))
    BY <1>3 DEF UpdateUnlock
  <2>2. work'[n][w] = At(l, work[n][w].packet, {})
    BY <2>1, DoChanges DEF PeerInv
  <2> QED
    BY <1>3, <2>2 DEF UpdateUnlock, At, HeldStages
<1> QED
  BY <1>1, <1>2, <1>3

LEMMA LearnsHandler ==
  ASSUME PeerInv, SignOutsTrue, NEW y \in Nodes, NEW x \in Nodes, x # y, Distinct(x),
         ~Leaving(x), Learns(y, x), NEW w \in Workers, Handler(y, w)
  PROVE  Learns(y, x)'
<1> DEFINE s == work[y][w]
<1>1. /\ \A v \in Workers \ {w} : work'[y][v] = work[y][v]
      /\ ~(\E i \in 1..Backlog : Take(y, w, i)) => Waiting(y) \subseteq Waiting(y)'
  BY HandlerSends
<1>2. Stage(s)
  BY StageOfWork DEF PeerInv
<1>3. ASSUME NEW i \in 1..Backlog, Take(y, w, i)
      PROVE  Learns(y, x)'
  <2> DEFINE q == inbox[y][i]
  <2>1. /\ Do(y, w, At(FirstStage(y, q), q, {})) /\ s = Idle /\ UNCHANGED members
        /\ Waiting(y) \subseteq Waiting(y)' \cup {q}
    BY <1>3, TakeMoves DEF PeerInv, Take, Takeable, IdleWorkers, nodeVars
  <2>2. work'[y][w] = At(FirstStage(y, q), q, {})
    BY <2>1, DoChanges DEF PeerInv
  <2> HIDE DEF s, q
  <2>3. q.type # "SIGN_OUT" => work'[y][w].at \in HeldStages /\ work'[y][w].packet = q
    BY <2>2 DEF At, FirstStage, HeldStages
  <2>4. CASE q.type = "SIGN_OUT"
    <3>1. CASE x \in members[y]
      BY <2>1, <3>1 DEF Learns
    <3>2. ASSUME NEW p \in Packet, HeldAt(y, p), p.type # "SIGN_OUT", x \in p.list
          PROVE  Learns(y, x)'
      <4>1. HeldAt(y, p)'
        <5>1. CASE p \in Waiting(y)
          BY <2>1, <2>4, <3>2, <5>1 DEF HeldAt
        <5>2. ASSUME NEW v \in Workers, work[y][v].at \in HeldStages, work[y][v].packet = p
              PROVE  HeldAt(y, p)'
          <6>1. v # w
            BY <2>1, <5>2 DEF s, Idle, HeldStages
          <6>2. work'[y][v] = work[y][v]
            BY <1>1, <6>1
          <6> QED
            BY <5>2, <6>2 DEF HeldAt
        <5> QED
          BY <3>2, <5>1, <5>2 DEF HeldAt
      <4> QED
        BY <3>2, <4>1 DEF Learns
    <3>3. ASSUME NEW v \in Workers, work[y][v].at = "add", x \in work[y][v].todo
          PROVE  Learns(y, x)'
      <4>1. v # w
        BY <2>1, <3>3 DEF s, Idle
      <4>2. work'[y][v] = work[y][v]
        BY <1>1, <4>1
      <4> QED
        BY <3>3, <4>2 DEF Learns
    <3> QED
      BY <3>1, <3>2, <3>3 DEF Learns
  <2>5. CASE q.type # "SIGN_OUT"
    <3>1. \A p \in Waiting(y) : HeldAt(y, p)'
      BY <2>1, <2>3, <2>5 DEF HeldAt
    <3>2. s.at \notin HeldStages /\ s.at # "add"
      BY <2>1 DEF Idle, HeldStages
    <3> QED
      BY <1>1, <2>1, <3>1, <3>2, LearnsFrame DEF s
  <2> QED
    BY <2>4, <2>5
<1>4. CASE UpdateLock(y, w) \/ UpdateSend(y, w) \/ UpdateUnlock(y, w)
  <2>1. /\ work[y][w].at \in HeldStages /\ work'[y][w].at \in HeldStages
        /\ work'[y][w].packet = work[y][w].packet /\ members'[y] = members[y]
    BY <1>4, UpdateOnward
  <2>2. Waiting(y) \subseteq Waiting(y)'
    <3>1. ~(\E i \in 1..Backlog : Take(y, w, i))
      BY <2>1, TakeIsIdle DEF HeldStages
    <3> QED
      BY <1>1, <3>1
  <2> QED
    BY <1>1, <2>1, <2>2, LearnsOnward
<1>5. CASE Reply(y, w) \/ Add(y, w) \/ InsertAll(y, w) \/ ClearFlag(y, w) \/ Delete(y, w)
  <2>1. \A p \in Waiting(y) : HeldAt(y, p)'
    <3>1. work[y][w].at # "idle"
      BY <1>5 DEF Reply, Add, InsertAll, ClearFlag, Delete
    <3>2. ~(\E i \in 1..Backlog : Take(y, w, i))
      BY <3>1, TakeIsIdle
    <3> QED
      BY <1>1, <3>2 DEF HeldAt
  <2>2. CASE Reply(y, w)
    <3>1. Do(y, w, At("add", s.packet, s.packet.list)) /\ UNCHANGED members /\ s.at = "reply"
      BY <2>2 DEF Reply, nodeVars
    <3>2. work'[y][w].at = "add" /\ work'[y][w].todo = s.packet.list
      BY <3>1, DoChanges DEF PeerInv, At
    <3>3. x \in s.packet.list => Learns(y, x)'
      BY <3>2 DEF Learns
    <3> QED
      BY <1>1, <2>1, <3>1, <3>3, LearnsFrame
  <2>3. CASE Add(y, w)
    <3> DEFINE rest(m) == IF s.todo = {m} THEN Idle ELSE At("add", s.packet, s.todo \ {m})
    <3>1. PICK m \in s.todo :
            /\ members' = IF Accepts(y, m) THEN [members EXCEPT ![y] = @ \cup {m}] ELSE members
            /\ Do(y, w, rest(m))
      BY <2>3 DEF Add
    <3>2. s.at = "add"
      BY <2>3 DEF Add
    <3>3. members[y] \subseteq members'[y] /\ (Accepts(y, m) => m \in members'[y])
      BY <3>1 DEF PeerInv, PlainTypes
    <3>4. CASE x = m
      <4>1. ~Accepts(y, x) => x \in members[y]
        BY DEF Accepts, Everyone, Distinct, PeerInv, PlainTypes
      <4>2. Learns(y, x)'
        BY <3>3, <3>4, <4>1 DEF Learns
      <4> QED
        BY <4>2
    <3>5. CASE x # m
      <4>1. work'[y][w] = rest(m)
        BY <3>1, DoChanges DEF PeerInv
      <4>2. x \in s.todo => work'[y][w].at = "add" /\ x \in work'[y][w].todo
        BY <3>5, <4>1 DEF At
      <4>3. x \in s.todo => Learns(y, x)'
        BY <4>2 DEF Learns
      <4>4. s.at \notin HeldStages
        BY <3>2 DEF HeldStages
      <4> QED
        BY <1>1, <2>1, <3>3, <4>3, <4>4, LearnsFrame
    <3> QED
      BY <3>4, <3>5
  <2>4. CASE InsertAll(y, w)
    <3>1. /\ s.at = "insert"
          /\ members' = [members EXCEPT ![y] = @ \cup {m \in s.packet.list : Accepts(y, m)}]
      BY <2>4 DEF InsertAll
    <3>2. members'[y] = members[y] \cup {m \in s.packet.list : Accepts(y, m)}
      BY <3>1 DEF PeerInv, PlainTypes
    <3>3. ~Accepts(y, x) => x \in members[y]
      BY DEF Accepts, Everyone, Distinct, PeerInv, PlainTypes
    <3>4. x \in s.packet.list => Learns(y, x)'
      BY <3>2, <3>3 DEF Learns
    <3> QED
      BY <1>1, <2>1, <3>1, <3>2, <3>4, LearnsFrame
  <2>5. CASE ClearFlag(y, w)
    <3>1. s.at = "clear" /\ UNCHANGED members
      BY <2>5 DEF ClearFlag
    <3>2. s.at \notin HeldStages /\ s.at # "add"
      BY <3>1 DEF HeldStages
    <3> QED
      BY <1>1, <2>1, <3>1, <3>2, LearnsFrame
  <2>6. CASE Delete(y, w)
    <3>1. s.at = "delete" /\ members' = [members EXCEPT ![y] = @ \ Named(y, s.packet.id)]
      BY <2>6 DEF Delete
    <3>2. s.packet.type = "SIGN_OUT" /\ s # Idle
      BY <1>2, <3>1 DEF Stage, Idle
    <3>3. PICK k \in Nodes : IdOf[k] = s.packet.id /\ Leaving(k)
      BY <3>2 DEF SignOutsTrue, Departed
    <3>4. IdOf[x] # s.packet.id
      BY <3>3 DEF Distinct
    <3>5. x \in members[y] => x \in members'[y]
      BY <3>1, <3>4 DEF Named, PeerInv, PlainTypes
    <3>6. s.at \notin HeldStages /\ s.at # "add"
      BY <3>1 DEF HeldStages
    <3> QED
      BY <1>1, <2>1, <3>5, <3>6, LearnsFrame
  <2> QED
    BY <1>5, <2>2, <2>3, <2>4, <2>5, <2>6
<1> QED
  BY <1>3, <1>4, <1>5 DEF Handler

LEMMA LearnsStep ==
  ASSUME PeerInv, SignOutsTrue, [Next]_vars, NEW y \in Nodes, NEW x \in Nodes, x # y,
         Distinct(x), ~Leaving(x), status'[y] = "up", Learns(y, x)
  PROVE  Learns(y, x)'
<1>1. ASSUME NEW w \in Workers, Handler(y, w)
      PROVE  Learns(y, x)'
  BY <1>1, LearnsHandler
<1>2. ASSUME NEW n \in Nodes \ {y}, NEW w \in Workers, Handler(n, w)
      PROVE  Learns(y, x)'
  BY <1>2, HandlerSends, LearnsElsewhere
<1>3. CASE ~(\E n \in Nodes, w \in Workers : Handler(n, w))
  BY <1>3, OthersSend, LearnsElsewhere
<1> QED
  BY <1>1, <1>2, <1>3

(* A sign-in stays unanswered until the answer waits at who sent it: the    *)
(* whole list of who was asked.                                             *)
LEMMA UnansweredStep ==
  ASSUME PeerInv, [Next]_vars, NEW m \in Nodes, NEW n \in Nodes, ~Leaving(n),
         status'[m] = "up", lost' = 0, lost = 0, Unanswered(m, n)
  PROVE  Unanswered(m, n)' \/ \A z \in Everyone(m) : Learns(n, z)'
<1> DEFINE Same == work'[m] = work[m] /\ Waiting(m) \subseteq Waiting(m)'
<1>1. ASSUME work'[m] = work[m], Waiting(m) \subseteq Waiting(m)'
      PROVE  Unanswered(m, n)'
  <2>1. \A p : HeldAt(m, p) => HeldAt(m, p)'
    BY <1>1 DEF HeldAt
  <2> QED
    BY <2>1 DEF Unanswered
<1>2. ASSUME NEW y \in Nodes \ {m}, NEW w \in Workers, Handler(y, w)
      PROVE  Unanswered(m, n)'
  BY <1>1, <1>2, HandlerSends
<1>3. CASE ~(\E y \in Nodes, w \in Workers : Handler(y, w))
  BY <1>1, <1>3, OthersSend
<1>4. ASSUME NEW w \in Workers, Handler(m, w)
      PROVE  Unanswered(m, n)' \/ \A z \in Everyone(m) : Learns(n, z)'
  <2> DEFINE s == work[m][w]
  <2>1. PICK p \in Packet : HeldAt(m, p) /\ p.type = "SIGN_IN" /\ p.first = n
    BY DEF Unanswered
  <2>2. HeldAt(m, p)' => Unanswered(m, n)'
    BY <2>1 DEF Unanswered
  <2>3. /\ \A v \in Workers \ {w} : work'[m][v] = work[m][v]
        /\ ~(\E i \in 1..Backlog : Take(m, w, i)) => Waiting(m) \subseteq Waiting(m)'
    BY <1>4, HandlerSends
  <2>4. ASSUME NEW v \in Workers \ {w}, work[m][v].at \in HeldStages, work[m][v].packet = p
        PROVE  HeldAt(m, p)'
    <3>1. work'[m][v].at \in HeldStages /\ work'[m][v].packet = p
      BY <2>3, <2>4
    <3> QED
      BY <3>1 DEF HeldAt
  <2>5. ASSUME NEW i \in 1..Backlog, Take(m, w, i)
        PROVE  HeldAt(m, p)'
    <3> DEFINE q == inbox[m][i]
    <3>1. /\ Do(m, w, At(FirstStage(m, q), q, {})) /\ work[m][w].at = "idle"
          /\ Waiting(m) \subseteq Waiting(m)' \cup {q}
      BY <2>5, TakeMoves, TakeIsIdle DEF PeerInv, Take
    <3>2. work'[m][w] = At(FirstStage(m, q), q, {})
      BY <3>1, DoChanges DEF PeerInv
    <3> HIDE DEF q
    <3>3. p = q => work'[m][w].at \in HeldStages /\ work'[m][w].packet = p
      BY <2>1, <3>2 DEF At, FirstStage, HeldStages
    <3>4. CASE p \in Waiting(m)
      BY <3>1, <3>3, <3>4 DEF HeldAt
    <3>5. CASE \E v \in Workers : work[m][v].at \in HeldStages /\ work[m][v].packet = p
      <4>1. work[m][w].at \notin HeldStages
        BY <3>1 DEF HeldStages
      <4> QED
        BY <2>4, <3>5, <4>1
    <3> QED
      BY <2>1, <3>4, <3>5 DEF HeldAt
  <2>6. CASE ~(\E i \in 1..Backlog : Take(m, w, i))
    <3>1. CASE p \in Waiting(m)
      BY <2>2, <2>3, <2>6, <3>1 DEF HeldAt
    <3>2. CASE \E v \in Workers \ {w} : work[m][v].at \in HeldStages /\ work[m][v].packet = p
      BY <2>2, <2>4, <3>2
    <3>3. CASE s.at \in HeldStages /\ s.packet = p
      <4>1. CASE UpdateLock(m, w) \/ UpdateSend(m, w) \/ UpdateUnlock(m, w)
        <5>1. work'[m][w].at \in HeldStages /\ work'[m][w].packet = p
          BY <3>3, <4>1, UpdateOnward
        <5>2. HeldAt(m, p)'
          BY <5>1 DEF HeldAt
        <5> QED
          BY <2>2, <5>2
      <4>2. CASE Reply(m, w)
        <5>1. Send(n, MemberList(Everyone(m)))
          BY <2>1, <3>3, <4>2 DEF Reply
        <5>2. Arrives(n, MemberList(Everyone(m)))
          <6>1. ~Fails(n)
            <7>1. status[n] = "up" /\ lost' = lost
              BY DEF Leaving
            <7>2. lost + 1 # lost
              OBVIOUS
            <7> QED
              BY <7>1, <7>2 DEF Fails
          <6> QED
            BY <5>1, <6>1 DEF Send
        <5>3. MemberList(Everyone(m)) \in Packet
          BY EveryoneIsClean, ListPackets DEF PeerInv, PlainTypes
        <5>4. MemberList(Everyone(m)) \in Waiting(n)'
          BY <5>2, <5>3, ArrivesAdds DEF PeerInv
        <5>5. /\ MemberList(Everyone(m)).type # "SIGN_OUT"
              /\ MemberList(Everyone(m)).list = Everyone(m)
          BY DEF MemberList
        <5>6. ASSUME NEW q \in Packet, q \in Waiting(n)', q.type # "SIGN_OUT", NEW z \in q.list
              PROVE  Learns(n, z)'
          BY <5>6 DEF Learns, HeldAt
        <5> QED
          BY <5>3, <5>4, <5>5, <5>6
      <4>3. CASE Add(m, w) \/ ClearFlag(m, w) \/ Delete(m, w)
        BY <3>3, <4>3 DEF Add, ClearFlag, Delete, HeldStages
      <4>4. CASE InsertAll(m, w)
        <5>1. Stage(s) /\ s.at = "insert"
          BY <4>4, StageOfWork DEF PeerInv, InsertAll
        <5>2. s.packet.type = "MEMBER_LIST"
          BY <5>1 DEF Stage, Idle
        <5> QED
          BY <2>1, <3>3, <5>2
      <4> QED
        BY <1>4, <2>6, <4>1, <4>2, <4>3, <4>4 DEF Handler
    <3> QED
      BY <2>1, <3>1, <3>2, <3>3 DEF HeldAt
  <2> QED
    BY <2>2, <2>5, <2>6
<1> QED
  BY <1>2, <1>3, <1>4

(* A sign-in that arrives is one that is unanswered.                        *)
LEMMA GreetedStep ==
  ASSUME PeerInv, [Next]_vars, NEW n \in Nodes, NEW m \in Nodes,
         <<n, m>> \notin greeted, <<n, m>> \in greeted'
  PROVE  Learns(m, n)' /\ Unanswered(m, n)'
<1>1. ASSUME NEW k \in Nodes, ~SignInSend(k), SignInTask(k) \/ QuitTask(k)
      PROVE  FALSE
  BY <1>1 DEF SignInTask, SignInFlag, QuitTask, QuitLock, QuitSend, QuitUnlock, histVars
<1>2. ~User
  BY DEF User, Connect, Quit
<1>3. ASSUME NEW k \in Nodes, NEW w \in Workers, Handler(k, w)
      PROVE  FALSE
  BY <1>3 DEF Handler, Take, UpdateLock, UpdateSend, UpdateUnlock, Reply, Add, InsertAll, ClearFlag,
              Delete, histVars
<1>4. ASSUME NEW k \in Nodes,
             Exit(k) \/ \E w \in Workers : \E i \in 1..Backlog : SignOutCrashes(k, w, i)
      PROVE  FALSE
  BY <1>4 DEF Exit, SignOutCrashes, Vanish, histVars
<1>5. greeted' # greeted
  OBVIOUS
<1>6. ~UNCHANGED vars
  BY <1>5 DEF vars, histVars
<1>7. PICK k \in Nodes : SignInSend(k)
  BY <1>1, <1>2, <1>3, <1>4, <1>6 DEF Next
<1>8. /\ Arrives(out[k].to, SignIn(k, Everyone(k)))
      /\ greeted' = greeted \cup {<<k, out[k].to>>}
  BY <1>5, <1>7 DEF SignInSend
<1>9. k = n /\ out[k].to = m
  BY <1>8
<1> DEFINE q == SignIn(n, Everyone(n))
<1>10. q \in Packet
  BY EveryoneIsClean, ListPackets DEF PeerInv, PlainTypes
<1>11. q.type = "SIGN_IN" /\ q.first = n /\ n \in q.list
  BY DEF SignIn, Everyone
<1>12. q \in Waiting(m)'
  BY <1>8, <1>9, <1>10, ArrivesAdds DEF PeerInv
<1>13. ASSUME NEW p \in Packet, p \in Waiting(m)', p.type = "SIGN_IN", p.first = n, n \in p.list
       PROVE  Learns(m, n)' /\ Unanswered(m, n)'
  <2>1. HeldAt(m, p)'
    BY <1>13 DEF HeldAt
  <2> QED
    BY <1>13, <2>1 DEF Learns, Unanswered
<1> QED
  BY <1>10, <1>11, <1>12, <1>13

LEMMA MeetStep ==
  ASSUME PeerInv, SignOutsTrue, MeetInv, [Next]_vars
  PROVE  MeetInv'
<1> SUFFICES ASSUME lost' = 0, NEW n \in Nodes, NEW m \in Nodes,
                    <<n, m>> \in greeted', n # m, ~Leaving(n)', ~Leaving(m)',
                    Distinct(n), Distinct(m)
             PROVE  Learns(m, n)' /\ (Learns(n, m)' \/ Unanswered(m, n)')
  BY DEF MeetInv, Meet, Distinct
<1>1. lost = 0
  BY LostStays
<1>2. ~Leaving(n) /\ ~Leaving(m)
  BY LeavingStays
<1>3. status'[n] = "up" /\ status'[m] = "up"
  BY DEF Leaving
<1>4. CASE <<n, m>> \in greeted
  <2>1. Learns(m, n) /\ (Learns(n, m) \/ Unanswered(m, n))
    BY <1>1, <1>2, <1>4 DEF MeetInv, Meet
  <2>2. Learns(m, n)'
    BY <1>2, <1>3, <2>1, LearnsStep
  <2>3. CASE Learns(n, m)
    BY <1>2, <1>3, <2>2, <2>3, LearnsStep
  <2>4. CASE Unanswered(m, n)
    BY <1>1, <1>2, <1>3, <2>2, <2>4, UnansweredStep DEF Everyone
  <2> QED
    BY <2>1, <2>3, <2>4
<1>5. CASE <<n, m>> \notin greeted
  BY <1>5, GreetedStep
<1> QED
  BY <1>4, <1>5

(***************************************************************************)
(* Two nodes of which one has signed in at the other list each other once  *)
(* all is handled, for any number of nodes and workers, whatever others    *)
(* sign in, pass on or sign out at the same time, in whatever order the    *)
(* packets are taken up, provided that no connection fails and that the    *)
(* two names are not used by others (task.c:151-215, 472-518, 574-630).    *)
(***************************************************************************)
THEOREM PeersMeet == Spec => []DirectPeersMeet
<1>1. Init => SignOutsTrue /\ MeetInv
  BY DEF Init, SignOutsTrue, MeetInv, Meet, Waiting
<1>2. PeerInv /\ SignOutsTrue /\ MeetInv /\ [Next]_vars => SignOutsTrue' /\ MeetInv'
  BY SignOutsStep, MeetStep
<1>3. PeerInv /\ MeetInv => DirectPeersMeet
  <2> SUFFICES ASSUME PeerInv, MeetInv, Quiet, lost = 0, NEW n \in Nodes, NEW m \in Nodes,
                      <<n, m>> \in greeted, n # m, status[n] = "up", status[m] = "up",
                      Distinct(n), Distinct(m)
               PROVE  m \in members[n] /\ n \in members[m]
    BY DEF DirectPeersMeet
  <2>1. AtRest(n) /\ AtRest(m)
    BY DEF Quiet
  <2>2. ~Leaving(n) /\ ~Leaving(m)
    BY <2>1 DEF AtRest, Leaving
  <2>3. \A y \in Nodes : AtRest(y) => \A p : ~HeldAt(y, p)
    BY DEF AtRest, HeldAt, HeldStages, Waiting, Idle
  <2>4. \A y \in Nodes : AtRest(y) => \A w \in Workers : work[y][w].at # "add"
    BY DEF AtRest, Idle
  <2>5. ~Unanswered(m, n)
    BY <2>1, <2>3 DEF Unanswered
  <2>6. Learns(m, n) /\ Learns(n, m)
    BY <2>2, <2>5 DEF MeetInv, Meet
  <2> QED
    BY <2>1, <2>3, <2>4, <2>6 DEF Learns
<1> QED
  BY <1>1, <1>2, <1>3, PeerInvariant, PTL DEF Spec

(***************************************************************************)
(* One exchange after the other.  What waits at a node or is in the hands  *)
(* of its workers.                                                         *)
(***************************************************************************)
Mail(x) == Waiting(x) \cup {work[x][w].packet : w \in {v \in Workers : work[x][v].at # "idle"}}

LEMMA MailTyped ==
  ASSUME PeerInv, NEW x \in Nodes
  PROVE  /\ Mail(x) \subseteq Packet
         /\ \A p \in Mail(x) : CleanPacket(p)
         /\ AtRest(x) => Mail(x) = {}
<1>1. \A p \in Waiting(x) : p \in Packet /\ CleanPacket(p)
  BY DEF PeerInv, CleanInbox
<1>2. ASSUME NEW w \in Workers, work[x][w].at # "idle"
      PROVE  work[x][w].packet \in Packet /\ CleanPacket(work[x][w].packet)
  <2>1. Stage(work[x][w]) /\ work[x][w] # Idle
    BY <1>2, StageOfWork DEF PeerInv, Idle
  <2> QED
    BY <2>1 DEF Stage, CleanPacket
<1>3. AtRest(x) => Mail(x) = {}
  BY DEF AtRest, Mail, Waiting, Idle
<1> QED
  BY <1>1, <1>2, <1>3 DEF Mail

LEMMA SendMail ==
  ASSUME InboxOK, NEW m \in Nodes, NEW p \in Packet, Send(m, p), NEW y \in Nodes, NEW r \in Waiting(y)'
  PROVE  r \in Waiting(y) \/ (r = p /\ y = m /\ status[y] = "up")
<1>1. CASE Arrives(m, p)
  <2>1. CASE y = m
    BY <1>1, <2>1, ArrivesAdds DEF Arrives
  <2>2. CASE y # m
    <3>1. inbox'[y] = inbox[y]
      BY <1>1, <2>2 DEF Arrives, InboxOK
    <3> QED
      BY <3>1 DEF Waiting
  <2> QED
    BY <2>1, <2>2
<1>2. CASE Fails(m)
  BY <1>2 DEF Fails, Waiting
<1> QED
  BY <1>1, <1>2 DEF Send

LEMMA SameMail ==
  ASSUME NEW y \in Nodes, work'[y] = work[y], Waiting(y)' \subseteq Waiting(y)
  PROVE  Mail(y)' \subseteq Mail(y)
BY DEF Mail

(* A handler has mail in hand. *)
LEMMA HandlerHas ==
  ASSUME PeerInv, NEW n \in Nodes, NEW w \in Workers
  PROVE  /\ \A i : Take(n, w, i) => inbox[n][i] \in Mail(n)
         /\ \A i : SignOutCrashes(n, w, i) => inbox[n][i] \in Mail(n)
         /\ Handler(n, w) /\ ~(\E i \in 1..Backlog : Take(n, w, i))
              => work[n][w].at # "idle" /\ work[n][w].packet \in Mail(n)
<1>1. ASSUME NEW i, Takeable(n, w, i)
      PROVE  inbox[n][i] \in Mail(n)
  BY <1>1 DEF Takeable, Mail, Waiting
<1>2. ASSUME Handler(n, w), ~(\E i \in 1..Backlog : Take(n, w, i))
      PROVE  work[n][w].at # "idle"
  BY <1>2 DEF Handler, UpdateLock, UpdateSend, UpdateUnlock, Reply, Add, InsertAll, ClearFlag, Delete
<1> QED
  BY <1>1, <1>2 DEF Take, SignOutCrashes, Mail

(* What the handlers send. *)
Passes(n, w, y, p) ==
  /\ UpdateSend(n, w) /\ y \in work[n][w].todo /\ p = MemberList(work[n][w].packet.list)

Replies(n, w, y, p) ==
  /\ Reply(n, w) /\ y = work[n][w].packet.first /\ p = MemberList(Everyone(n))

LEMMA HandlerMail ==
  ASSUME PeerInv, NEW n \in Nodes, NEW w \in Workers, Handler(n, w), NEW y \in Nodes, NEW p \in Mail(y)'
  PROVE  p \in Mail(y) \/ (status[y] = "up" /\ (Passes(n, w, y, p) \/ Replies(n, w, y, p)))
<1>1. PICK s : /\ Do(n, w, s)
               /\ s.at # "idle" => s.packet \in Mail(n)
  <2>1. CASE \E i \in 1..Backlog : Take(n, w, i)
    <3>1. PICK i \in 1..Backlog : Take(n, w, i)
      BY <2>1
    <3>2. Do(n, w, At(FirstStage(n, inbox[n][i]), inbox[n][i], {})) /\ inbox[n][i] \in Mail(n)
      BY <3>1, HandlerHas DEF Take
    <3>3. At(FirstStage(n, inbox[n][i]), inbox[n][i], {}).packet \in Mail(n)
      BY <3>2 DEF At
    <3> QED
      BY <3>2, <3>3
  <2>2. CASE ~(\E i \in 1..Backlog : Take(n, w, i))
    <3>1. \/ \E at, l : Do(n, w, At(at, work[n][w].packet, l))
          \/ Do(n, w, Idle)
      <4>1. CASE UpdateLock(n, w) \/ UpdateSend(n, w) \/ UpdateUnlock(n, w)
        BY <4>1 DEF UpdateLock, UpdateSend, UpdateUnlock
      <4>2. CASE Reply(n, w) \/ InsertAll(n, w) \/ ClearFlag(n, w) \/ Delete(n, w)
        BY <4>2 DEF Reply, InsertAll, ClearFlag, Delete
      <4>3. CASE Add(n, w)
        BY <4>3 DEF Add
      <4> QED
        BY <2>2, <4>1, <4>2, <4>3 DEF Handler
    <3>2. work[n][w].packet \in Mail(n)
      BY <2>2, HandlerHas
    <3>3. Idle.at = "idle"
      BY DEF Idle
    <3>4. ASSUME NEW at, NEW l, Do(n, w, At(at, work[n][w].packet, l))
          PROVE  \E s : Do(n, w, s) /\ (s.at # "idle" => s.packet \in Mail(n))
      <4>1. At(at, work[n][w].packet, l).packet \in Mail(n)
        BY <3>2 DEF At
      <4> QED
        BY <3>4, <4>1
    <3> QED
      BY <3>1, <3>3, <3>4
  <2> QED
    BY <2>1, <2>2
<1>2. /\ work'[n][w] = s
      /\ \A v \in Workers \ {w} : work'[n][v] = work[n][v]
      /\ \A k \in Nodes \ {n} : work'[k] = work[k]
  BY <1>1, DoChanges DEF PeerInv
<1>3. CASE p \notin Waiting(y)'
  <2>1. PICK v \in Workers : work'[y][v].at # "idle" /\ work'[y][v].packet = p
    BY <1>3 DEF Mail
  <2>2. CASE y = n /\ v = w
    BY <1>1, <1>2, <2>1, <2>2
  <2>3. CASE ~(y = n /\ v = w)
    <3>1. work'[y][v] = work[y][v]
      BY <1>2, <2>3
    <3> QED
      BY <2>1, <3>1 DEF Mail
  <2> QED
    BY <2>2, <2>3
<1>4. CASE p \in Waiting(y)'
  <2>1. CASE \E i \in 1..Backlog : Take(n, w, i)
    <3>1. Waiting(y)' \subseteq Waiting(y)
      BY <2>1, TakeMoves DEF PeerInv
    <3> QED
      BY <1>4, <3>1 DEF Mail
  <2>2. CASE UpdateLock(n, w) \/ UpdateUnlock(n, w) \/ Add(n, w) \/ InsertAll(n, w) \/ ClearFlag(n, w) \/ Delete(n, w)
    <3>1. UNCHANGED inbox
      BY <2>2 DEF UpdateLock, UpdateUnlock, Add, InsertAll, ClearFlag, Delete, netVars
    <3> QED
      BY <1>4, <3>1 DEF Mail, Waiting
  <2>3. CASE UpdateSend(n, w)
    <3>1. PICK m \in work[n][w].todo : Send(m, MemberList(work[n][w].packet.list))
      BY <2>3 DEF UpdateSend
    <3>2. Stage(work[n][w]) /\ work[n][w].at = "sending"
      BY <2>3, StageOfWork DEF PeerInv, UpdateSend
    <3>3. m \in Nodes /\ CleanList(work[n][w].packet.list)
      BY <3>1, <3>2 DEF Stage, Idle, CleanPacket
    <3>4. MemberList(work[n][w].packet.list) \in Packet
      BY <3>3, ListPackets
    <3>5. p \in Waiting(y) \/ (p = MemberList(work[n][w].packet.list) /\ y = m /\ status[y] = "up")
      BY <1>4, <3>1, <3>3, <3>4, SendMail DEF PeerInv
    <3> QED
      BY <2>3, <3>1, <3>5 DEF Mail, Passes
  <2>4. CASE Reply(n, w)
    <3> DEFINE m == work[n][w].packet.first
    <3>1. Stage(work[n][w]) /\ work[n][w].at = "reply"
      BY <2>4, StageOfWork DEF PeerInv, Reply
    <3>2. m \in Nodes
      BY <3>1 DEF Stage, Idle, Packet
    <3>3. Send(m, MemberList(Everyone(n)))
      BY <2>4 DEF Reply
    <3>4. MemberList(Everyone(n)) \in Packet
      BY EveryoneIsClean, ListPackets DEF PeerInv, PlainTypes
    <3>5. p \in Waiting(y) \/ (p = MemberList(Everyone(n)) /\ y = m /\ status[y] = "up")
      <4> HIDE DEF m
      <4> QED
        BY <1>4, <3>2, <3>3, <3>4, SendMail DEF PeerInv
    <3> QED
      BY <2>4, <3>5 DEF Mail, Replies
  <2> QED
    BY <2>1, <2>2, <2>3, <2>4 DEF Handler
<1> QED
  BY <1>3, <1>4

(* What the commands send. *)
SignsIn(k, y, p)  == SignInSend(k) /\ y = out[k].to /\ p = SignIn(k, Everyone(k))
SignsOut(k, y, p) == QuitSend(k) /\ y \in quit[k].todo /\ p = SignOut(IdOf[k])

LEMMA OthersMail ==
  ASSUME PeerInv, [Next]_vars, ~(\E n \in Nodes, w \in Workers : Handler(n, w)),
         NEW y \in Nodes, NEW p \in Mail(y)'
  PROVE  \/ p \in Mail(y)
         \/ status[y] = "up" /\ \E k \in Nodes : SignsIn(k, y, p) \/ SignsOut(k, y, p)
<1>1. ASSUME UNCHANGED <<inbox, work>>
      PROVE  p \in Mail(y)
  BY <1>1 DEF Mail, Waiting
<1>2. CASE User \/ UNCHANGED vars
  BY <1>1, <1>2 DEF User, Connect, Quit, vars, netVars
<1>3. ASSUME NEW k \in Nodes, SignInFlag(k) \/ QuitLock(k) \/ QuitUnlock(k)
      PROVE  p \in Mail(y)
  BY <1>1, <1>3 DEF SignInFlag, QuitLock, QuitUnlock, netVars
<1>4. ASSUME NEW k \in Nodes, SignInSend(k)
      PROVE  p \in Mail(y) \/ (status[y] = "up" /\ SignsIn(k, y, p))
  <2>1. out[k].to \in Nodes
    BY <1>4 DEF SignInSend, PeerInv, PlainTypes, OutState, Idle
  <2>2. SignIn(k, Everyone(k)) \in Packet
    BY EveryoneIsClean, ListPackets DEF PeerInv, PlainTypes
  <2>3. Send(out[k].to, SignIn(k, Everyone(k))) /\ UNCHANGED work
    BY <1>4 DEF SignInSend, Send
  <2>4. p \in Waiting(y)' => p \in Waiting(y) \/ (status[y] = "up" /\ SignsIn(k, y, p))
    BY <1>4, <2>1, <2>2, <2>3, SendMail DEF PeerInv, SignsIn
  <2> QED
    BY <2>3, <2>4 DEF Mail
<1>5. ASSUME NEW k \in Nodes, QuitSend(k)
      PROVE  p \in Mail(y) \/ (status[y] = "up" /\ SignsOut(k, y, p))
  <2>1. PICK m \in quit[k].todo : Send(m, SignOut(IdOf[k]))
    BY <1>5 DEF QuitSend
  <2>2. m \in Nodes /\ SignOut(IdOf[k]) \in Packet
    BY SignOutPackets, PeerAssumption DEF PeerInv, PlainTypes, QuitState
  <2>3. UNCHANGED work
    BY <1>5 DEF QuitSend
  <2>4. p \in Waiting(y)' => p \in Waiting(y) \/ (status[y] = "up" /\ SignsOut(k, y, p))
    BY <1>5, <2>1, <2>2, SendMail DEF PeerInv, SignsOut
  <2> QED
    BY <2>3, <2>4 DEF Mail
<1>6. ASSUME NEW k \in Nodes, NEW how, Vanish(k, how)
      PROVE  p \in Mail(y)
  <2>1. CASE y = k
    <3>1. inbox'[y] = <<>> /\ work'[y] = [w \in Workers |-> Idle]
      BY <1>6, <2>1 DEF Vanish, PeerInv, InboxOK, CleanWork
    <3>2. Mail(y)' = {}
      BY <3>1 DEF Mail, Waiting, Idle
    <3> QED
      BY <3>2
  <2>2. CASE y # k
    <3>1. inbox'[y] = inbox[y] /\ work'[y] = work[y]
      BY <1>6, <2>2 DEF Vanish, PeerInv, InboxOK, CleanWork
    <3>2. Waiting(y)' \subseteq Waiting(y)
      BY <3>1 DEF Waiting
    <3> QED
      BY <3>1, <3>2, SameMail
  <2> QED
    BY <2>1, <2>2
<1>7. ASSUME NEW k \in Nodes,
             Exit(k) \/ \E w \in Workers : \E i \in 1..Backlog : SignOutCrashes(k, w, i)
      PROVE  p \in Mail(y)
  BY <1>6, <1>7 DEF Exit, SignOutCrashes
<1> QED
  BY <1>2, <1>3, <1>4, <1>5, <1>7 DEF Next, SignInTask, QuitTask

(* A process that is gone has nothing left to do.                           *)
InertAt(x) ==
  status[x] # "up" =>
    Mail(x) = {} /\ members[x] = {} /\ out[x].at = "idle" /\ quit[x].at = "no"

Inert == \A x \in Nodes : InertAt(x)

LEMMA InertInit == Init => Inert
BY DEF Init, Inert, InertAt

(* No task of a process that is gone takes a step.                          *)
LEMMA InertRests ==
  ASSUME PeerInv, Inert, NEW x \in Nodes, status[x] # "up"
  PROVE  /\ ~SignInTask(x) /\ ~QuitTask(x) /\ ~Exit(x)
         /\ \A w \in Workers : ~Handler(x, w) /\ \A i \in 1..Backlog : ~SignOutCrashes(x, w, i)
         /\ \A m : ~Connect(x, m) /\ ~Quit(x)
<1>1. Mail(x) = {} /\ members[x] = {} /\ out[x].at = "idle" /\ quit[x].at = "no"
  BY DEF Inert, InertAt
<1>2. ~SignInTask(x) /\ ~QuitTask(x) /\ ~Exit(x)
  BY <1>1 DEF SignInTask, SignInSend, SignInFlag, QuitTask, QuitLock, QuitSend, QuitUnlock, Exit
<1>3. \A w \in Workers : ~Handler(x, w) /\ \A i \in 1..Backlog : ~SignOutCrashes(x, w, i)
  BY <1>1, HandlerHas
<1> QED
  BY <1>2, <1>3 DEF Connect, Quit, Command

LEMMA VanishInert ==
  ASSUME PeerInv, NEW x \in Nodes, NEW how, Vanish(x, how)
  PROVE  InertAt(x)'
<1>1. /\ inbox'[x] = <<>> /\ work'[x] = [w \in Workers |-> Idle] /\ members'[x] = {}
      /\ out'[x] = Idle /\ quit'[x].at = "no"
  BY DEF Vanish, PeerInv, PlainTypes, InboxOK, CleanWork
<1>2. Mail(x)' = {}
  BY <1>1 DEF Mail, Waiting, Idle
<1> QED
  BY <1>1, <1>2 DEF InertAt, Idle

(* What a step of one node leaves to another.                               *)
LEMMA TasksElsewhere ==
  ASSUME PeerInv, NEW k \in Nodes,
         \/ SignInTask(k) \/ QuitTask(k)
         \/ \E how : Vanish(k, how)
         \/ \E w \in Workers : Handler(k, w)
  PROVE  \A x \in Nodes \ {k} : /\ status'[x] = status[x] /\ members'[x] = members[x]
                                /\ out'[x] = out[x] /\ quit'[x] = quit[x]
<1>1. CASE SignInTask(k)
  BY <1>1 DEF SignInTask, SignInSend, SignInFlag, PeerInv, PlainTypes
<1>2. CASE QuitTask(k)
  BY <1>2 DEF QuitTask, QuitLock, QuitSend, QuitUnlock, nodeVars, PeerInv, PlainTypes
<1>3. CASE \E how : Vanish(k, how)
  BY <1>3 DEF Vanish, PeerInv, PlainTypes
<1>4. ASSUME NEW w \in Workers, Handler(k, w)
      PROVE  \A x \in Nodes \ {k} : /\ status'[x] = status[x] /\ members'[x] = members[x]
                                    /\ out'[x] = out[x] /\ quit'[x] = quit[x]
  <2>1. UNCHANGED <<status, out, quit>>
    BY <1>4 DEF Handler, Take, UpdateLock, UpdateSend, UpdateUnlock, Reply, Add, InsertAll, ClearFlag,
                Delete, nodeVars
  <2> QED
    BY <1>4, <2>1, HandlerSends
<1> QED
  BY <1>1, <1>2, <1>3, <1>4

(* A step as one of its kinds.                                              *)
LEMMA StepKinds ==
  ASSUME [Next]_vars
  PROVE  \/ UNCHANGED vars
         \/ \E n \in Nodes : Quit(n)
         \/ \E n, m \in Nodes : Connect(n, m)
         \/ \E n \in Nodes : SignInTask(n) \/ QuitTask(n) \/ Exit(n)
         \/ \E n \in Nodes : \E w \in Workers : Handler(n, w)
         \/ \E n \in Nodes : \E w \in Workers : \E i \in 1..Backlog : SignOutCrashes(n, w, i)
BY PeerAssumption DEF Next, User

LEMMA InertStep == PeerInv /\ Inert /\ [Next]_vars => Inert'
<1> SUFFICES ASSUME PeerInv, Inert, [Next]_vars, NEW x \in Nodes
             PROVE  InertAt(x)'
  BY DEF Inert
<1>1. ASSUME UNCHANGED vars
      PROVE  InertAt(x)'
  <2>1. UNCHANGED <<status, members, inbox, work, out, quit>>
    BY <1>1 DEF vars, nodeVars, netVars
  <2>2. Mail(x)' = Mail(x)
    BY <2>1 DEF Mail, Waiting
  <2> QED
    BY <2>1, <2>2 DEF Inert, InertAt
<1>2. ASSUME NEW n \in Nodes, Quit(n) \/ \E m \in Nodes : Connect(n, m)
      PROVE  InertAt(x)'
  <2>1. UNCHANGED <<status, members, inbox, work>> /\ status[n] = "up"
    BY <1>2 DEF Quit, Connect, Command, nodeVars, netVars
  <2>2. x # n => out'[x] = out[x] /\ quit'[x] = quit[x]
    BY <1>2 DEF Quit, Connect, PeerInv, PlainTypes
  <2>3. Mail(x)' = Mail(x)
    BY <2>1 DEF Mail, Waiting
  <2> QED
    BY <2>1, <2>2, <2>3 DEF Inert, InertAt
<1>3. ASSUME NEW k \in Nodes, Exit(k) \/ \E w \in Workers : \E i \in 1..Backlog : SignOutCrashes(k, w, i)
      PROVE  \E how : Vanish(k, how)
  BY <1>3 DEF Exit, SignOutCrashes
<1>4. ASSUME NEW k \in Nodes,
             \/ SignInTask(k) \/ QuitTask(k)
             \/ \E how : Vanish(k, how)
             \/ \E w \in Workers : Handler(k, w)
      PROVE  InertAt(x)'
  <2>1. CASE x = k
    <3>1. CASE \E how : Vanish(k, how)
      BY <2>1, <3>1, VanishInert
    <3>2. CASE SignInTask(k) \/ QuitTask(k) \/ \E w \in Workers : Handler(k, w)
      <4>1. UNCHANGED status
        BY <3>2 DEF SignInTask, SignInSend, SignInFlag, QuitTask, QuitLock, QuitSend, QuitUnlock,
                    Handler, Take, UpdateLock, UpdateSend, UpdateUnlock, Reply, Add, InsertAll,
                    ClearFlag, Delete, nodeVars
      <4>2. status[x] = "up"
        BY <2>1, <3>2, InertRests
      <4> QED
        BY <4>1, <4>2 DEF InertAt
    <3> QED
      BY <1>4, <3>1, <3>2
  <2>2. CASE x # k
    <3>1. /\ status'[x] = status[x] /\ members'[x] = members[x]
          /\ out'[x] = out[x] /\ quit'[x] = quit[x]
      BY <1>4, <2>2, TasksElsewhere
    <3>2. status[x] # "up" => Mail(x)' \subseteq Mail(x)
      BY HandlerMail, OthersMail
    <3> QED
      BY <3>1, <3>2 DEF Inert, InertAt
  <2> QED
    BY <2>1, <2>2
<1> QED
  BY <1>1, <1>2, <1>3, <1>4, StepKinds

(***************************************************************************)
(* The circumstances in which the exchange is predictable.                 *)
(***************************************************************************)
Calm == lost = 0 /\ overlaps = 0 /\ newcomers

LEMMA CalmStays ==
  ASSUME PeerInv, [Next]_vars, Calm'
  PROVE  /\ Calm
         /\ \A n, m \in Nodes : Connect(n, m) => Quiet /\ members[n] = {}
         /\ \A n \in Nodes : Quit(n) => Quiet
         /\ UNCHANGED lost
<1>1. lost = 0
  BY LostStays DEF Calm
<1>2. overlaps \in Nat /\ newcomers \in BOOLEAN
  BY PeerAssumption DEF PeerInv, PlainTypes
<1>3. overlaps + 1 # 0
  BY <1>2
<1>4. ASSUME NEW n \in Nodes, Quit(n)
      PROVE  Quiet /\ overlaps = 0 /\ newcomers
  BY <1>3, <1>4 DEF Quit, Command, Calm
<1>5. ASSUME NEW n \in Nodes, NEW m \in Nodes, Connect(n, m)
      PROVE  Quiet /\ overlaps = 0 /\ newcomers /\ members[n] = {}
  <2>1. newcomers' = (newcomers /\ members[n] = {}) /\ newcomers'
    BY <1>5 DEF Connect, Calm
  <2>2. newcomers /\ members[n] = {}
    BY <2>1, Zenon
  <2>3. Quiet /\ overlaps = 0
    BY <1>3, <1>5 DEF Connect, Command, Calm
  <2> QED
    BY <2>2, <2>3
<1>6. ASSUME UNCHANGED <<overlaps, newcomers>>
      PROVE  overlaps = 0 /\ newcomers
  BY <1>6 DEF Calm
<1>7. ASSUME UNCHANGED vars
      PROVE  overlaps = 0 /\ newcomers
  BY <1>6, <1>7 DEF vars, histVars
<1>8. ASSUME NEW n \in Nodes, SignInTask(n) \/ QuitTask(n) \/ Exit(n)
      PROVE  overlaps = 0 /\ newcomers
  BY <1>6, <1>8 DEF SignInTask, SignInSend, SignInFlag, QuitTask, QuitLock, QuitSend, QuitUnlock,
                    Exit, Vanish, histVars
<1>9. ASSUME NEW n \in Nodes, NEW w \in Workers,
             Handler(n, w) \/ \E i \in 1..Backlog : SignOutCrashes(n, w, i)
      PROVE  overlaps = 0 /\ newcomers
  BY <1>6, <1>9 DEF Handler, Take, UpdateLock, UpdateSend, UpdateUnlock, Reply, Add, InsertAll,
                    ClearFlag, Delete, SignOutCrashes, Vanish, histVars
<1> QED
  BY <1>1, <1>4, <1>5, <1>7, <1>8, <1>9, StepKinds DEF Calm

(***************************************************************************)
(* The peers fall into groups.  A node may list those of its group that    *)
(* are there, and nodes that have crashed; nodes come into a group with    *)
(* the commands, one at a time.                                            *)
(***************************************************************************)
NamesDiffer == \A n \in Nodes : Distinct(n)

Groups(G) ==
  /\ G \in [Nodes -> SUBSET Nodes]
  /\ \A x \in Nodes : x \in G[x] /\ \A y \in G[x] : G[y] = G[x]

Fit(G, x) == {y \in Nodes : status[y] = "crashed" \/ (status[y] = "up" /\ y \in G[x])}

Lists(G, x, n) ==
  status[x] = "up" => \A y \in G[x] : y # x /\ y # n /\ status[y] = "up" => y \in members[x]

(* Nothing is under way, and the lists are what they ought to be.           *)
Resting(G) ==
  /\ Groups(G)
  /\ \A x \in Nodes :
       /\ Mail(x) = {}
       /\ members[x] \subseteq Fit(G, x)
       /\ status[x] = "up" => \A y \in G[x] : y # x /\ status[y] = "up" => y \in members[x]

NoTask(x) == out[x].at = "idle" /\ quit[x].at = "no"

(* At most one command has been given.                                      *)
Still(n, G) ==
  /\ Resting(G)
  /\ \A x \in Nodes \ {n} : NoTask(x)
  /\ \/ NoTask(n)
     \/ out[n].at = "lock" /\ quit[n].at = "no" /\ members[n] = {}
     \/ out[n].at = "idle" /\ quit[n].at = "lock"

(* The sign-in of a node on its way through the group it has joined: h is   *)
(* the peer it signs in at, who promises to pass it on and to answer.       *)
Promised(h, x) ==
  /\ x \in members[h]
  /\ \/ \E p \in Waiting(h) : p.type = "SIGN_IN"
     \/ \E w \in Workers :
          /\ \/ work[h][w].at = "update"
             \/ work[h][w].at = "sending" /\ x \in work[h][w].todo
          /\ work[h][w].packet.type = "SIGN_IN"

SpreadTasks(n, h, G) ==
  /\ Groups(G) /\ status[n] = "up" /\ h \in G[n]
  /\ \A x \in Nodes : quit[x].at = "no" /\ out[x].at \in {"idle", "flag"}

SpreadMail(n, h, G) ==
  \A x \in Nodes :
    /\ \A p \in Mail(x) :
         /\ p.type # "SIGN_OUT" /\ p.list \subseteq Fit(G, x)
         /\ p.type = "SIGN_IN" => x = h /\ p.first = n /\ n \in p.list
    /\ \A w \in Workers : work[x][w].at = "add" => work[x][w].todo \subseteq Fit(G, x)

SpreadLists(n, G) ==
  \A x \in Nodes : members[x] \subseteq Fit(G, x) /\ (x # n => Lists(G, x, n))

SpreadNews(n, h, G) ==
  \A x \in G[n] \ {n} :
    status[x] = "up" =>
      /\ Learns(x, n) \/ Promised(h, x)
      /\ Learns(n, x) \/ (Unanswered(h, n) /\ x \in Everyone(h))

Spread(n, h, G) ==
  SpreadTasks(n, h, G) /\ SpreadMail(n, h, G) /\ SpreadLists(n, G) /\ SpreadNews(n, h, G)

(* A node signs out: who still lists it has been told or will be.           *)
Told(n, x) == Mail(x) # {} \/ (quit[n].at = "sending" /\ x \in quit[n].todo)

ForgetTasks(n, G) ==
  /\ Groups(G)
  /\ \A x \in Nodes : out[x].at = "idle" /\ (x # n => quit[x].at = "no")
  /\ \/ status[n] = "up" /\ quit[n].at \in {"sending", "sent"}
     \/ status[n] = "left"

ForgetAt(n, G, x) ==
  /\ \A p \in Mail(x) : x # n /\ p.type = "SIGN_OUT" /\ p.id = IdOf[n]
  /\ x # n => /\ members[x] \ {n} \subseteq Fit(G, x)
              /\ Lists(G, x, n)
              /\ n \in members[x] => Told(n, x)

Forget(n, G) == ForgetTasks(n, G) /\ \A x \in Nodes : ForgetAt(n, G, x)

Phase ==
  \E n \in Nodes, G \in [Nodes -> SUBSET Nodes] :
    Still(n, G) \/ Forget(n, G) \/ \E h \in Nodes : Spread(n, h, G)

CalmInv == Calm => Phase

(* The same with no command given.                                          *)
Peaceful(G) == Resting(G) /\ \A x \in Nodes : NoTask(x)

LEMMA CalmInit ==
  ASSUME Init, NEW n \in Nodes
  PROVE  Still(n, [x \in Nodes |-> {x}])
<1> DEFINE G == [x \in Nodes |-> {x}]
<1>1. Groups(G)
  BY DEF Groups
<1>2. \A x \in Nodes : Mail(x) = {} /\ members[x] = {} /\ NoTask(x)
  BY DEF Init, Mail, Waiting, Idle, NoTask
<1>3. \A x \in Nodes : \A y \in G[x] : y = x
  OBVIOUS
<1> HIDE DEF G
<1>4. Resting(G)
  BY <1>1, <1>2, <1>3 DEF Resting
<1>5. Still(n, G)
  BY <1>2, <1>4 DEF Still
<1> QED
  BY <1>5 DEF G

(* Nothing is left of an exchange when all nodes are at rest.               *)
LEMMA QuietRests ==
  ASSUME PeerInv, Inert, Quiet
  PROVE  /\ \A x \in Nodes : Mail(x) = {} /\ NoTask(x)
         /\ \A x, y \in Nodes : ~Unanswered(x, y) /\ ~Promised(x, y)
         /\ \A x, y \in Nodes : Learns(x, y) => y \in members[x]
<1>1. ASSUME NEW x \in Nodes
      PROVE  Mail(x) = {} /\ NoTask(x)
  <2>1. CASE status[x] = "up"
    <3>1. AtRest(x)
      BY <2>1 DEF Quiet
    <3> QED
      BY <3>1, MailTyped DEF AtRest, NoTask
  <2>2. CASE status[x] # "up"
    BY <2>2 DEF Inert, InertAt, NoTask
  <2> QED
    BY <2>1, <2>2
<1>2. ASSUME NEW x \in Nodes
      PROVE  Waiting(x) = {} /\ \A w \in Workers : work[x][w].at = "idle"
  BY <1>1 DEF Mail
<1> QED
  BY <1>1, <1>2 DEF Unanswered, Promised, Learns, HeldAt, HeldStages

LEMMA QuietStill ==
  ASSUME PeerInv, Inert, Quiet, NEW n, NEW G, Still(n, G)
  PROVE  Peaceful(G)
BY QuietRests DEF Still, Peaceful

LEMMA QuietSpread ==
  ASSUME PeerInv, Inert, Quiet, NEW n \in Nodes, NEW h \in Nodes, NEW G, Spread(n, h, G)
  PROVE  Peaceful(G)
<1>1. Groups(G) /\ status[n] = "up"
  BY DEF Spread, SpreadTasks
<1>2. ASSUME NEW x \in Nodes, status[x] = "up", NEW y \in G[x], y # x, status[y] = "up"
      PROVE  y \in members[x]
  <2>1. y \in Nodes /\ x \in G[y] /\ G[y] = G[x]
    BY <1>1 DEF Groups
  <2>2. CASE x # n /\ y # n
    BY <1>2, <2>2 DEF Spread, SpreadLists, Lists
  <2>3. CASE y = n
    BY <1>2, <2>1, <2>3, QuietRests DEF Spread, SpreadNews
  <2>4. CASE x = n
    BY <1>2, <2>1, <2>4, QuietRests DEF Spread, SpreadNews
  <2> QED
    BY <2>2, <2>3, <2>4
<1> QED
  BY <1>1, <1>2, QuietRests DEF Peaceful, Resting, Spread, SpreadLists

LEMMA QuietForget ==
  ASSUME PeerInv, Inert, Quiet, NEW n \in Nodes, NEW G, Forget(n, G)
  PROVE  Peaceful(G)
<1>1. Groups(G) /\ status[n] = "left" /\ members[n] = {}
  BY QuietRests DEF Forget, ForgetTasks, NoTask, Inert, InertAt
<1>2. \A x \in Nodes : x # n => n \notin members[x]
  BY QuietRests DEF Forget, ForgetAt, Told, NoTask
<1>3. ASSUME NEW x \in Nodes
      PROVE  members[x] \subseteq Fit(G, x)
  BY <1>1, <1>2 DEF Forget, ForgetAt
<1>4. ASSUME NEW x \in Nodes, status[x] = "up", NEW y \in G[x], y # x, status[y] = "up"
      PROVE  y \in members[x]
  BY <1>1, <1>4 DEF Forget, ForgetAt, Lists
<1> QED
  BY <1>1, <1>3, <1>4, QuietRests DEF Peaceful, Resting

LEMMA QuietPhase ==
  ASSUME PeerInv, Inert, Quiet, Phase
  PROVE  \E G : Peaceful(G)
<1>1. PICK n \in Nodes, G \in [Nodes -> SUBSET Nodes] :
        Still(n, G) \/ Forget(n, G) \/ \E h \in Nodes : Spread(n, h, G)
  BY DEF Phase
<1> QED
  BY <1>1, QuietStill, QuietForget, QuietSpread

(* What the lists say then.                                                 *)
LEMMA RestingLists ==
  ASSUME PeerInv, NEW G, Resting(G)
  PROVE  /\ Complete
         /\ \A n, m \in Nodes : status[n] = "up" /\ status[m] = "left" => m \notin members[n]
<1>1. \A x \in Nodes : members[x] \subseteq Nodes
  BY DEF PeerInv, PlainTypes
<1>2. ASSUME NEW x \in Nodes, status[x] = "up"
      PROVE  Known(x) = {y \in G[x] : status[y] = "up"}
  <2>1. \A y \in Known(x) : y \in G[x] /\ status[y] = "up"
    BY <1>2 DEF Known, Everyone, Resting, Fit, Groups
  <2>2. \A y \in G[x] : status[y] = "up" => y \in Known(x)
    BY <1>2 DEF Known, Everyone, Resting
  <2> QED
    BY <2>1, <2>2
<1>3. Complete
  <2> SUFFICES ASSUME NEW x \in Nodes, status[x] = "up", NEW m \in Known(x)
               PROVE  Known(m) = Known(x)
    BY DEF Complete
  <2>1. m \in Nodes /\ m \in G[x] /\ status[m] = "up" /\ G[m] = G[x]
    BY <1>1, <1>2 DEF Known, Everyone, Resting, Groups
  <2> QED
    BY <1>2, <2>1
<1> QED
  BY <1>3 DEF Resting, Fit

(* A command is given when all is at rest.                                  *)
LEMMA UserStill ==
  ASSUME PeerInv, NEW G, Peaceful(G), NEW n \in Nodes,
         Quit(n) \/ \E m \in Nodes : Connect(n, m) /\ members[n] = {}
  PROVE  Still(n, G)'
<1>1. UNCHANGED <<status, members, inbox, work>>
  BY DEF Quit, Connect, nodeVars, netVars
<1>2. \A x \in Nodes : Mail(x)' = Mail(x)
  BY <1>1 DEF Mail, Waiting
<1>3. Resting(G)'
  BY <1>1, <1>2 DEF Peaceful, Resting, Fit, Groups
<1>4. \A x \in Nodes \ {n} : NoTask(x)'
  BY DEF Quit, Connect, Peaceful, NoTask, PeerInv, PlainTypes
<1>5. CASE Quit(n)
  <2>1. out'[n].at = "idle" /\ quit'[n].at = "lock"
    BY <1>5 DEF Quit, Peaceful, NoTask, PeerInv, PlainTypes, QuitState
  <2> QED
    BY <1>3, <1>4, <2>1 DEF Still
<1>6. CASE \E m \in Nodes : Connect(n, m) /\ members[n] = {}
  <2>1. out'[n].at = "lock" /\ quit'[n].at = "no" /\ members'[n] = {}
    BY <1>1, <1>6 DEF Connect, Peaceful, NoTask, PeerInv, PlainTypes
  <2> QED
    BY <1>3, <1>4, <2>1 DEF Still
<1> QED
  BY <1>5, <1>6

(* The group of m takes n in.                                               *)
Joined(G, n, m) ==
  [x \in Nodes |-> IF x = n \/ x \in G[m] THEN G[m] \cup {n} ELSE G[x] \ {n}]

LEMMA JoinedGroups ==
  ASSUME NEW G, Groups(G), NEW n \in Nodes, NEW m \in Nodes
  PROVE  /\ Groups(Joined(G, n, m))
         /\ m \in Joined(G, n, m)[n]
         /\ Joined(G, n, m)[n] = G[m] \cup {n}
         /\ \A x \in Nodes \ {n} : \A y \in Nodes \ {n} :
              y \in Joined(G, n, m)[x] <=> y \in G[x]
         /\ \A x \in Nodes : x \in G[m] => n \in Joined(G, n, m)[x]
         /\ Joined(G, n, m) \in [Nodes -> SUBSET Nodes]
<1> DEFINE J == Joined(G, n, m)
<1>1. /\ G \in [Nodes -> SUBSET Nodes]
      /\ \A x \in Nodes : x \in G[x]
      /\ \A x \in Nodes : \A y \in G[x] : G[y] = G[x] /\ y \in Nodes
  BY DEF Groups
<1>2. J = [x \in Nodes |-> IF x = n \/ x \in G[m] THEN G[m] \cup {n} ELSE G[x] \ {n}]
  BY DEF Joined
<1>3. /\ J \in [Nodes -> SUBSET Nodes]
      /\ \A x \in Nodes : x = n \/ x \in G[m] => J[x] = G[m] \cup {n}
      /\ \A x \in Nodes : ~(x = n \/ x \in G[m]) => J[x] = G[x] \ {n}
  <2> HIDE DEF J
  <2> QED BY <1>1, <1>2
<1> HIDE DEF J
<1>4. ASSUME NEW x \in Nodes
      PROVE  x \in J[x] /\ \A y \in J[x] : J[y] = J[x]
  <2>1. CASE x = n \/ x \in G[m]
    <3>1. J[x] = G[m] \cup {n} /\ x \in J[x]
      BY <1>3, <2>1
    <3>2. \A y \in J[x] : y \in Nodes /\ (y = n \/ y \in G[m])
      BY <1>1, <3>1
    <3> QED
      BY <1>3, <3>1, <3>2
  <2>2. CASE ~(x = n \/ x \in G[m])
    <3>1. J[x] = G[x] \ {n} /\ x \in J[x]
      BY <1>1, <1>3, <2>2
    <3>2. ASSUME NEW y \in J[x]
          PROVE  J[y] = J[x]
      <4>1. y \in Nodes /\ y # n /\ G[y] = G[x] /\ x \in G[y]
        BY <1>1, <3>1
      <4>2. y \notin G[m]
        BY <1>1, <2>2, <4>1
      <4> QED
        BY <1>3, <3>1, <4>1, <4>2
    <3> QED
      BY <3>1, <3>2
  <2> QED
    BY <2>1, <2>2
<1>5. Groups(J)
  BY <1>3, <1>4 DEF Groups
<1>6. m \in J[n] /\ J[n] = G[m] \cup {n}
  BY <1>1, <1>3
<1>7. ASSUME NEW x \in Nodes \ {n}, NEW y \in Nodes \ {n}
      PROVE  y \in J[x] <=> y \in G[x]
  <2>1. CASE x \in G[m]
    BY <1>1, <1>3, <2>1
  <2>2. CASE x \notin G[m]
    BY <1>1, <1>3, <2>2
  <2> QED
    BY <2>1, <2>2
<1> QED
  BY <1>3, <1>5, <1>6, <1>7 DEF J

(* The connection of a newcomer: its sign-in waits at the peer.             *)
LEMMA StillSignIn ==
  ASSUME PeerInv, Inert, NEW n \in Nodes, NEW m \in Nodes, NEW G, Still(n, G),
         SignInSend(n), out[n].to = m, lost' = lost
  PROVE  Still(n, G)' \/ Spread(n, m, Joined(G, n, m))'
<1>1. PICK p : p = SignIn(n, Everyone(n))
  OBVIOUS
<1>2. /\ UNCHANGED <<status, members, work, quit>>
      /\ out[n].at = "lock"
  BY DEF SignInSend
<1>3. /\ Groups(G) /\ members[n] = {} /\ status[n] = "up"
      /\ \A x \in Nodes : quit[x].at = "no"
      /\ \A x \in Nodes : Mail(x) = {}
      /\ \A x \in Nodes \ {n} : out[x].at = "idle"
  BY <1>2 DEF Still, NoTask, Resting, Inert, InertAt
<1>4. CASE UNCHANGED inbox /\ out' = [out EXCEPT ![n] = Idle]
  <2>1. \A x \in Nodes : Mail(x)' = Mail(x)
    BY <1>2, <1>4 DEF Mail, Waiting
  <2>2. Resting(G)'
    BY <1>2, <2>1 DEF Still, Resting, Fit, Groups
  <2>3. \A x \in Nodes : NoTask(x)'
    BY <1>2, <1>3, <1>4 DEF NoTask, PeerInv, PlainTypes, Idle
  <2> QED
    BY <2>2, <2>3 DEF Still
<1>5. CASE Arrives(m, p) /\ out' = [out EXCEPT ![n] = [at |-> "flag"]]
  <2> DEFINE J == Joined(G, n, m)
  <2>1. p \in Packet /\ p.type = "SIGN_IN" /\ p.first = n /\ p.list = {n}
    BY <1>1, <1>3, EveryoneIsClean, ListPackets DEF SignIn, Everyone, PeerInv, PlainTypes
  <2>2. p \in Waiting(m)' /\ status[m] = "up"
    BY <1>1, <1>5, <2>1, ArrivesAdds DEF PeerInv, Arrives
  <2>3. \A x \in Nodes : \A r \in Mail(x)' : r = p /\ x = m
    <3>1. ASSUME NEW x \in Nodes, NEW r \in Waiting(x)'
          PROVE  r = p /\ x = m
      <4>1. Send(m, p)
        BY <1>5 DEF Send
      <4>2. r \in Waiting(x) \/ (r = p /\ x = m)
        BY <1>1, <2>1, <4>1, SendMail DEF PeerInv
      <4> QED
        BY <1>3, <4>2 DEF Mail
    <3> QED
      BY <1>2, <1>3, <3>1 DEF Mail
  <2>4. \A x \in Nodes, w \in Workers : work'[x][w].at = "idle"
    <3> SUFFICES ASSUME NEW x \in Nodes, NEW w \in Workers, work[x][w].at # "idle"
                 PROVE  FALSE
      BY <1>2
    <3>1. work[x][w].packet \in Mail(x)
      BY DEF Mail
    <3> QED
      BY <1>3, <3>1
  <2>5. /\ Groups(J) /\ m \in J[n] /\ J[n] = G[m] \cup {n}
        /\ \A x \in Nodes \ {n} : \A y \in Nodes \ {n} : y \in J[x] <=> y \in G[x]
        /\ \A x \in Nodes : x \in G[m] => n \in J[x]
    BY <1>1, <1>3, JoinedGroups
  <2> HIDE DEF J
  <2>6. SpreadTasks(n, m, J)'
    BY <1>2, <1>3, <1>5, <2>5 DEF SpreadTasks, Groups, PeerInv, PlainTypes
  <2>7. SpreadMail(n, m, J)'
    <3>1. n \in Fit(J, m)
      BY <1>1, <1>3, <2>5 DEF Fit, Groups
    <3>2. Fit(J, m)' = Fit(J, m)
      BY <1>2 DEF Fit
    <3> QED
      BY <2>1, <2>3, <2>4, <3>1, <3>2 DEF SpreadMail
  <2>8. \A x \in Nodes : members[x] \subseteq Fit(J, x)
    <3> SUFFICES ASSUME NEW x \in Nodes, NEW y \in members[x]
                 PROVE  y \in Fit(J, x)
      OBVIOUS
    <3>1. y \in Fit(G, x) /\ y \in Nodes /\ x # n /\ x # y
      BY <1>3 DEF Still, Resting, Fit, PeerInv, UniqueLists
    <3>2. status[x] = "up"
      BY DEF Inert, InertAt
    <3>3. CASE status[y] = "crashed"
      BY <3>1, <3>3 DEF Fit
    <3>4. CASE status[y] = "up" /\ y \in G[x]
      <4>1. y # n
        <5>1. x \in G[y]
          BY <1>3, <3>4 DEF Groups
        <5> QED
          BY <1>3, <3>1, <3>2, <3>4, <5>1 DEF Still, Resting
      <4> QED
        BY <2>5, <3>1, <3>4, <4>1 DEF Fit
    <3> QED
      BY <3>1, <3>3, <3>4 DEF Fit
  <2>9. \A x \in Nodes : x # n => Lists(J, x, n)
    <3> SUFFICES ASSUME NEW x \in Nodes \ {n}, status[x] = "up", NEW y \in J[x],
                        y # x, y # n, status[y] = "up"
                 PROVE  y \in members[x]
      BY DEF Lists
    <3>1. y \in G[x]
      BY <2>5 DEF Groups
    <3> QED
      BY <3>1 DEF Still, Resting
  <2>10. SpreadLists(n, J)'
    BY <1>2, <2>8, <2>9 DEF SpreadLists, Lists, Fit
  <2>11. SpreadNews(n, m, J)'
    <3> SUFFICES ASSUME NEW x \in J[n] \ {n}, status[x] = "up"
                 PROVE  (Learns(x, n) \/ Promised(m, x))' /\ Unanswered(m, n)' /\ x \in Everyone(m)'
      BY <1>2 DEF SpreadNews
    <3>1. ASSUME NEW r \in Packet, r \in Waiting(m)', r.type = "SIGN_IN", r.first = n, r.list = {n}
          PROVE  Learns(m, n)' /\ Unanswered(m, n)' /\ (x \in members[m] => Promised(m, x)')
      BY <1>2, <3>1 DEF Learns, Unanswered, HeldAt, Promised
    <3>2. x \in G[m] /\ x # m => x \in members[m]
      BY <1>1, <2>2 DEF Still, Resting
    <3>3. x \in G[m] /\ (x = m \/ x \in members'[m] <=> x \in Everyone(m)')
      BY <1>2, <2>5 DEF Everyone
    <3> QED
      BY <1>2, <2>1, <2>2, <3>1, <3>2, <3>3
  <2> QED
    BY <2>6, <2>7, <2>10, <2>11 DEF Spread, J
<1>6. CASE status[m] = "up" /\ Fails(m)
  BY <1>6 DEF Fails, PeerInv, PlainTypes
<1>7. CASE Fails(m) /\ out' = [out EXCEPT ![n] = Idle]
  BY <1>4, <1>7 DEF Fails
<1> QED
  BY <1>1, <1>4, <1>5, <1>6, <1>7 DEF SignInSend

(* The list of who signs out is the list of who is to be told.              *)
LEMMA StillQuit ==
  ASSUME PeerInv, Inert, NEW n \in Nodes, NEW G, Still(n, G), QuitLock(n)
  PROVE  Forget(n, G)'
<1>1. /\ UNCHANGED <<status, members, inbox, work, out>>
      /\ quit[n].at = "lock"
      /\ quit' = [quit EXCEPT ![n] = [at |-> "sending", todo |-> members[n]]]
  BY DEF QuitLock, netVars
<1>2. \A x \in Nodes : Mail(x)' = {}
  <2>1. \A x \in Nodes : Mail(x)' = Mail(x)
    BY <1>1 DEF Mail, Waiting
  <2> QED
    BY <2>1 DEF Still, Resting
<1>3. status[n] = "up" /\ quit'[n] = [at |-> "sending", todo |-> members[n]]
  BY <1>1 DEF PeerInv, PlainTypes, Inert, InertAt
<1>4. ForgetTasks(n, G)'
  BY <1>1, <1>3 DEF Still, NoTask, Resting, ForgetTasks, Groups, PeerInv, PlainTypes
<1>5. ASSUME NEW x \in Nodes \ {n}, n \in members[x]
      PROVE  x \in members[n]
  <2>1. n \in G[x] /\ status[x] = "up"
    BY <1>3, <1>5 DEF Still, Resting, Fit, Inert, InertAt
  <2>2. x \in G[n]
    BY <2>1 DEF Still, Resting, Groups
  <2> QED
    BY <1>3, <2>1, <2>2 DEF Still, Resting
<1>6. ASSUME NEW x \in Nodes
      PROVE  ForgetAt(n, G, x)'
  <2>1. members[x] \subseteq Fit(G, x) /\ Lists(G, x, n)
    BY DEF Still, Resting, Lists
  <2>2. Fit(G, x)' = Fit(G, x) /\ (Lists(G, x, n)' <=> Lists(G, x, n))
    BY <1>1 DEF Fit, Lists
  <2>3. x # n /\ n \in members'[x] => Told(n, x)'
    BY <1>1, <1>3, <1>5 DEF Told
  <2> QED
    BY <1>1, <1>2, <2>1, <2>2, <2>3 DEF ForgetAt
<1> QED
  BY <1>4, <1>6 DEF Forget

LEMMA StillStep ==
  ASSUME PeerInv, Inert, [Next]_vars, NEW n \in Nodes, NEW G \in [Nodes -> SUBSET Nodes],
         Still(n, G), lost' = lost, ~(\E x \in Nodes : Quit(x) \/ \E y \in Nodes : Connect(x, y))
  PROVE  Phase'
<1>1. ASSUME UNCHANGED vars
      PROVE  Still(n, G)'
  <2>1. UNCHANGED <<status, members, inbox, work, out, quit>>
    BY <1>1 DEF vars, nodeVars, netVars
  <2>2. \A x \in Nodes : Mail(x)' = Mail(x) /\ (NoTask(x)' <=> NoTask(x))
    BY <2>1 DEF Mail, Waiting, NoTask
  <2>3. Resting(G)'
    BY <2>1, <2>2 DEF Still, Resting, Fit, Groups
  <2> QED
    BY <2>1, <2>2, <2>3 DEF Still
<1>2. ASSUME NEW k \in Nodes, SignInTask(k)
      PROVE  k = n /\ SignInSend(n)
  BY <1>2 DEF SignInTask, SignInSend, SignInFlag, Still, NoTask
<1>3. ASSUME NEW k \in Nodes, QuitTask(k) \/ Exit(k)
      PROVE  k = n /\ QuitLock(n)
  BY <1>3 DEF QuitTask, QuitLock, QuitSend, QuitUnlock, Exit, Still, NoTask
<1>4. ASSUME NEW k \in Nodes, NEW w \in Workers,
             Handler(k, w) \/ \E i \in 1..Backlog : SignOutCrashes(k, w, i)
      PROVE  FALSE
  <2>1. Mail(k) # {}
    BY <1>4, HandlerHas
  <2> QED
    BY <2>1 DEF Still, Resting
<1>5. CASE SignInSend(n)
  <2>1. PICK m \in Nodes : out[n].to = m
    BY <1>5 DEF SignInSend, PeerInv, PlainTypes, OutState, Idle
  <2>2. Joined(G, n, m) \in [Nodes -> SUBSET Nodes]
    BY JoinedGroups DEF Still, Resting
  <2>3. Still(n, G)' \/ Spread(n, m, Joined(G, n, m))'
    BY <1>5, <2>1, StillSignIn
  <2> QED
    BY <2>2, <2>3 DEF Phase
<1>6. CASE QuitLock(n)
  BY <1>6, StillQuit DEF Phase
<1> QED
  BY <1>1, <1>2, <1>3, <1>4, <1>5, <1>6, StepKinds DEF Phase

(* What keeps a node from forgetting wrongly, or too late.                  *)
LEMMA ForgetFrame ==
  ASSUME NEW n \in Nodes, NEW G, Groups(G), NEW x \in Nodes, ForgetAt(n, G, x),
         members'[x] = members[x],
         \A y \in Nodes : y # n => status'[y] = status[y] \/ (status[y] = "up" /\ status'[y] = "crashed"),
         \A p \in Mail(x)' : p \in Mail(x) \/ (x # n /\ p.type = "SIGN_OUT" /\ p.id = IdOf[n]),
         x # n /\ n \in members[x] /\ Told(n, x) => Told(n, x)'
  PROVE  ForgetAt(n, G, x)'
<1>1. \A p \in Mail(x)' : x # n /\ p.type = "SIGN_OUT" /\ p.id = IdOf[n]
  BY DEF ForgetAt
<1>2. ASSUME x # n
      PROVE  /\ (members[x] \ {n} \subseteq Fit(G, x))'
             /\ Lists(G, x, n)'
             /\ n \in members'[x] => Told(n, x)'
  <2>1. members[x] \ {n} \subseteq Fit(G, x) /\ Lists(G, x, n) /\ (n \in members[x] => Told(n, x))
    BY <1>2 DEF ForgetAt
  <2>2. \A y \in Fit(G, x) : y # n => y \in Fit(G, x)'
    BY DEF Fit
  <2>3. Lists(G, x, n)'
    BY <1>2, <2>1 DEF Lists, Groups
  <2> QED
    BY <1>2, <2>1, <2>2, <2>3
<1> QED
  BY <1>1, <1>2 DEF ForgetAt

(* Mail that stays. *)
LEMMA MailStays ==
  ASSUME NEW y \in Nodes, work'[y] = work[y], Waiting(y) \subseteq Waiting(y)'
  PROVE  Mail(y) \subseteq Mail(y)'
BY DEF Mail

(* All mail of a sign-out is for the handler of sign-outs.                  *)
LEMMA SignOutHandlers ==
  ASSUME PeerInv, NEW k \in Nodes, NEW w \in Workers, Handler(k, w),
         \A p \in Mail(k) : p.type = "SIGN_OUT"
  PROVE  (\E i \in 1..Backlog : Take(k, w, i)) \/ Delete(k, w)
<1> SUFFICES ASSUME ~(\E i \in 1..Backlog : Take(k, w, i))
             PROVE  Delete(k, w)
  OBVIOUS
<1>1. work[k][w].at # "idle" /\ work[k][w].packet.type = "SIGN_OUT"
  BY HandlerHas
<1>2. work[k][w].at = "delete"
  BY <1>1, StageOfWork DEF PeerInv, Stage, Idle
<1> QED
  BY <1>2 DEF Handler, UpdateLock, UpdateSend, UpdateUnlock, Reply, Add, InsertAll, ClearFlag

LEMMA ForgetQuit ==
  ASSUME PeerInv, ListStable, Inert, NEW n \in Nodes, NEW G, Forget(n, G),
         QuitSend(n) \/ QuitUnlock(n), lost' = lost
  PROVE  Forget(n, G)'
<1>1. /\ UNCHANGED <<status, members, work, out>>
      /\ quit[n].at = "sending"
      /\ Groups(G)
  BY DEF QuitSend, QuitUnlock, nodeVars, Forget, ForgetTasks
<1>2. status[n] = "up"
  BY <1>1 DEF Inert, InertAt
<1>3. CASE QuitSend(n)
  <2>1. PICK m, p : /\ m \in quit[n].todo /\ p = SignOut(IdOf[n]) /\ Send(m, p)
                    /\ quit' = [quit EXCEPT ![n].todo = @ \ {m}]
    BY <1>3 DEF QuitSend
  <2>2. p \in Packet /\ p.type = "SIGN_OUT" /\ p.id = IdOf[n]
    BY <2>1, SignOutPackets, PeerAssumption DEF SignOut
  <2>3. m \in Nodes /\ m # n
    BY <1>1, <2>1 DEF ListStable, PeerInv, PlainTypes, UniqueLists
  <2>4. quit'[n].at = "sending" /\ quit'[n].todo = quit[n].todo \ {m}
    BY <1>1, <2>1 DEF PeerInv, PlainTypes, QuitState
  <2>5. ForgetTasks(n, G)'
    BY <1>1, <1>2, <2>1, <2>4 DEF Forget, ForgetTasks, Groups, PeerInv, PlainTypes, QuitState
  <2>6. ASSUME NEW x \in Nodes
        PROVE  ForgetAt(n, G, x)'
    <3>1. \A r \in Mail(x)' : r \in Mail(x) \/ (r = p /\ x = m)
      <4>1. \A r \in Waiting(x)' : r \in Waiting(x) \/ (r = p /\ x = m)
        BY <2>1, <2>2, <2>3, SendMail DEF PeerInv
      <4> QED
        BY <1>1, <4>1 DEF Mail
    <3>2. ASSUME x # n, n \in members[x], Told(n, x)
          PROVE  Told(n, x)'
      <4>1. CASE x = m
        <5>1. status[m] = "up"
          BY <3>2, <4>1 DEF Inert, InertAt
        <5>2. ~Fails(m)
          BY <5>1 DEF Fails, PeerInv, PlainTypes
        <5>3. p \in Waiting(x)'
          BY <2>1, <2>2, <2>3, <4>1, <5>2, ArrivesAdds DEF Send, PeerInv
        <5>4. p \in Mail(x)'
          BY <5>3 DEF Mail
        <5> QED
          BY <5>4 DEF Told
      <4>2. CASE x # m
        <5>1. Mail(x) \subseteq Mail(x)'
          BY <1>1, <2>1, <2>2, <2>3, SendAdds, MailStays DEF PeerInv
        <5> QED
          BY <1>1, <2>4, <3>2, <4>2, <5>1 DEF Told
      <4> QED
        BY <4>1, <4>2
    <3> QED
      BY <1>1, <2>2, <2>3, <3>1, <3>2, ForgetFrame DEF Forget
  <2> QED
    BY <2>5, <2>6 DEF Forget
<1>4. CASE QuitUnlock(n)
  <2>1. /\ quit[n].todo = {} /\ UNCHANGED inbox
        /\ quit' = [quit EXCEPT ![n].at = "sent"]
    BY <1>4 DEF QuitUnlock, netVars
  <2>2. ForgetTasks(n, G)'
    BY <1>1, <1>2, <2>1 DEF Forget, ForgetTasks, Groups, PeerInv, PlainTypes, QuitState
  <2>3. ASSUME NEW x \in Nodes
        PROVE  ForgetAt(n, G, x)'
    <3>1. Mail(x)' = Mail(x)
      BY <1>1, <2>1 DEF Mail, Waiting
    <3>2. Told(n, x) => Told(n, x)'
      BY <2>1, <3>1 DEF Told
    <3> QED
      BY <1>1, <3>1, <3>2, ForgetFrame DEF Forget
  <2> QED
    BY <2>2, <2>3 DEF Forget
<1> QED
  BY <1>3, <1>4

(* The node that signs out goes, or a node that is told crashes.            *)
LEMMA ForgetVanish ==
  ASSUME PeerInv, Inert, NEW n \in Nodes, NEW G, Forget(n, G), NEW k \in Nodes, NEW how, Vanish(k, how),
         \/ k = n /\ how = "left" /\ quit[n].at = "sent"
         \/ k # n /\ how = "crashed" /\ status[k] = "up"
  PROVE  Forget(n, G)'
<1>1. /\ status'[k] = how /\ members'[k] = {} /\ out' = [out EXCEPT ![k] = Idle]
      /\ quit' = [quit EXCEPT ![k] = [at |-> "no", todo |-> {}]]
      /\ \A x \in Nodes \ {k} : /\ status'[x] = status[x] /\ members'[x] = members[x]
                                /\ inbox'[x] = inbox[x] /\ work'[x] = work[x]
  BY DEF Vanish, PeerInv, PlainTypes, InboxOK, CleanWork
<1>2. Groups(G)
  BY DEF Forget, ForgetTasks
<1>3. ForgetTasks(n, G)'
  <2>1. \A x \in Nodes : out'[x].at = "idle" /\ (x # n => quit'[x].at = "no")
    BY <1>1 DEF Forget, ForgetTasks, PeerInv, PlainTypes, Idle
  <2>2. k # n => status'[n] = status[n] /\ quit'[n] = quit[n]
    BY <1>1 DEF PeerInv, PlainTypes
  <2>3. k = n => status'[n] = "left"
    BY <1>1
  <2> QED
    BY <2>1, <2>2, <2>3 DEF Forget, ForgetTasks, Groups
<1>4. ASSUME NEW x \in Nodes \ {k}
      PROVE  ForgetAt(n, G, x)'
  <2>1. Mail(x)' = Mail(x)
    BY <1>1 DEF Mail, Waiting
  <2>2. Told(n, x) => Told(n, x)'
    <3>1. k = n => quit[n].at # "sending"
      OBVIOUS
    <3>2. k # n => quit'[n] = quit[n]
      BY <1>1 DEF PeerInv, PlainTypes
    <3> QED
      BY <2>1, <3>1, <3>2 DEF Told
  <2>3. \A y \in Nodes : y # n => status'[y] = status[y] \/ (status[y] = "up" /\ status'[y] = "crashed")
    BY <1>1
  <2> QED
    BY <1>1, <1>2, <2>1, <2>2, <2>3, ForgetFrame DEF Forget
<1>5. ForgetAt(n, G, k)'
  <2>1. Mail(k)' = {} /\ members'[k] = {} /\ status'[k] # "up"
    <3>1. status'[k] # "up"
      BY <1>1
    <3> QED
      BY <3>1, VanishInert DEF InertAt
  <2>2. Lists(G, k, n)'
    BY <2>1 DEF Lists
  <2> QED
    BY <2>1, <2>2 DEF ForgetAt
<1> QED
  BY <1>3, <1>4, <1>5 DEF Forget

LEMMA ForgetHandler ==
  ASSUME PeerInv, NamesDiffer, NEW n \in Nodes, NEW G, Forget(n, G),
         NEW k \in Nodes, NEW w \in Workers, Handler(k, w)
  PROVE  Forget(n, G)'
<1>1. (\E i \in 1..Backlog : Take(k, w, i)) \/ Delete(k, w)
  BY SignOutHandlers DEF Forget, ForgetAt
<1>2. UNCHANGED <<status, out, quit>> /\ Groups(G) /\ k # n
  <2>1. Mail(k) # {}
    BY HandlerHas
  <2> QED
    BY <1>1, <2>1 DEF Take, Delete, nodeVars, Forget, ForgetTasks, ForgetAt
<1>3. ForgetTasks(n, G)'
  BY <1>2 DEF Forget, ForgetTasks, Groups
<1>4. ASSUME NEW x \in Nodes
      PROVE  \A p \in Mail(x)' : p \in Mail(x)
  <2> SUFFICES ASSUME NEW p \in Mail(x)', Passes(k, w, x, p) \/ Replies(k, w, x, p)
               PROVE  FALSE
    BY HandlerMail
  <2>1. work[k][w].at \in {"sending", "reply"}
    BY DEF Passes, Replies, UpdateSend, Reply
  <2> QED
    BY <1>1, <2>1, TakeIsIdle DEF Delete
<1>5. ASSUME NEW x \in Nodes \ {k}
      PROVE  ForgetAt(n, G, x)'
  <2>1. Mail(x) \subseteq Mail(x)' /\ members'[x] = members[x]
    BY HandlerSends, MailStays
  <2>2. Told(n, x) => Told(n, x)'
    BY <1>2, <2>1 DEF Told
  <2> QED
    BY <1>2, <1>4, <2>1, <2>2, ForgetFrame DEF Forget
<1>6. CASE \E i \in 1..Backlog : Take(k, w, i)
  <2>1. PICK i \in 1..Backlog : Take(k, w, i)
    BY <1>6
  <2>2. work'[k][w] = At(FirstStage(k, inbox[k][i]), inbox[k][i], {}) /\ UNCHANGED members
    BY <2>1, DoChanges DEF Take, PeerInv, nodeVars
  <2>3. work'[k][w].at # "idle"
    BY <2>2 DEF At, FirstStage
  <2>4. Mail(k)' # {}
    BY <2>3 DEF Mail
  <2>5. ForgetAt(n, G, k)'
    BY <1>2, <1>4, <2>2, <2>4, ForgetFrame DEF Forget, Told
  <2> QED
    BY <1>3, <1>5, <2>5 DEF Forget
<1>7. CASE Delete(k, w)
  <2>1. work[k][w].at = "delete" /\ work[k][w].packet \in Mail(k)
    BY <1>7 DEF Delete, Mail
  <2>2. work[k][w].packet.id = IdOf[n]
    BY <2>1 DEF Forget, ForgetAt
  <2>3. members'[k] = members[k] \ {m \in members[k] : IdOf[m] = IdOf[n]}
    BY <1>7, <2>2 DEF Delete, Named, PeerInv, PlainTypes
  <2>4. members'[k] = members[k] \ {n}
    BY <2>3 DEF NamesDiffer, Distinct, PeerInv, PlainTypes
  <2>5. (members[k] \ {n} \subseteq Fit(G, k))' /\ Lists(G, k, n)'
    BY <1>2, <2>4 DEF Forget, ForgetAt, Fit, Lists
  <2>6. ForgetAt(n, G, k)'
    BY <1>2, <1>4, <2>4, <2>5 DEF Forget, ForgetAt
  <2> QED
    BY <1>3, <1>5, <2>6 DEF Forget
<1> QED
  BY <1>1, <1>6, <1>7

LEMMA ForgetStep ==
  ASSUME PeerInv, ListStable, Inert, NamesDiffer, [Next]_vars, NEW n \in Nodes, NEW G, Forget(n, G),
         lost' = lost, ~(\E x \in Nodes : Quit(x) \/ \E y \in Nodes : Connect(x, y))
  PROVE  Forget(n, G)'
<1>1. ASSUME UNCHANGED vars
      PROVE  Forget(n, G)'
  <2>1. UNCHANGED <<status, members, inbox, work, out, quit>>
    BY <1>1 DEF vars, nodeVars, netVars
  <2>2. ASSUME NEW x \in Nodes
        PROVE  ForgetAt(n, G, x)'
    <3>1. Mail(x)' = Mail(x)
      BY <2>1 DEF Mail, Waiting
    <3>2. Told(n, x) => Told(n, x)'
      BY <2>1, <3>1 DEF Told
    <3> QED
      BY <2>1, <3>1, <3>2, ForgetFrame DEF Forget, ForgetTasks
  <2>3. ForgetTasks(n, G)'
    BY <2>1 DEF Forget, ForgetTasks, Groups
  <2> QED
    BY <2>2, <2>3 DEF Forget
<1>2. ASSUME NEW k \in Nodes, SignInTask(k)
      PROVE  FALSE
  BY <1>2 DEF SignInTask, SignInSend, SignInFlag, Forget, ForgetTasks
<1>3. ASSUME NEW k \in Nodes, QuitTask(k)
      PROVE  Forget(n, G)'
  <2>1. k = n
    BY <1>3 DEF QuitTask, QuitLock, QuitSend, QuitUnlock, Forget, ForgetTasks
  <2>2. ~QuitLock(n)
    BY <1>3, <2>1, InertRests DEF QuitLock, Forget, ForgetTasks
  <2> QED
    BY <1>3, <2>1, <2>2, ForgetQuit DEF QuitTask
<1>4. ASSUME NEW k \in Nodes, Exit(k)
      PROVE  Forget(n, G)'
  <2>1. k = n /\ quit[n].at = "sent" /\ Vanish(n, "left")
    BY <1>4 DEF Exit, Forget, ForgetTasks
  <2> QED
    BY <2>1, ForgetVanish
<1>5. ASSUME NEW k \in Nodes, NEW w \in Workers, NEW i \in 1..Backlog, SignOutCrashes(k, w, i)
      PROVE  Forget(n, G)'
  <2>1. Vanish(k, "crashed") /\ status[k] = "up" /\ inbox[k][i] \in Mail(k)
    BY <1>5, InertRests, HandlerHas DEF SignOutCrashes
  <2>2. k # n
    BY <2>1 DEF Forget, ForgetAt
  <2> QED
    BY <2>1, <2>2, ForgetVanish
<1> QED
  BY <1>1, <1>2, <1>3, <1>4, <1>5, ForgetHandler, StepKinds

(* A step that moves no mail and changes no list.                           *)
LEMMA SpreadSame ==
  ASSUME NEW n \in Nodes, NEW h \in Nodes, NEW G, Spread(n, h, G),
         UNCHANGED <<status, members, inbox, work, quit>>,
         \A x \in Nodes : out'[x].at \in {"idle", "flag"}
  PROVE  Spread(n, h, G)'
<1>1. \A x \in Nodes : Mail(x)' = Mail(x) /\ Fit(G, x)' = Fit(G, x) /\ Everyone(x)' = Everyone(x)
  BY DEF Mail, Waiting, Fit, Everyone
<1>2. SpreadTasks(n, h, G)'
  BY DEF Spread, SpreadTasks, Groups
<1>3. SpreadMail(n, h, G)'
  BY <1>1 DEF Spread, SpreadMail
<1>4. SpreadLists(n, G)'
  BY <1>1 DEF Spread, SpreadLists, Lists
<1>5. SpreadNews(n, h, G)'
  <2>1. \A x, y \in Nodes : /\ Learns(x, y)' <=> Learns(x, y)
                            /\ Unanswered(x, y)' <=> Unanswered(x, y)
                            /\ Promised(x, y)' <=> Promised(x, y)
    BY DEF Learns, Unanswered, Promised, HeldAt, Waiting
  <2>2. \A x \in G[n] : x \in Nodes
    BY DEF Spread, SpreadTasks, Groups
  <2> QED
    BY <1>1, <2>1, <2>2 DEF Spread, SpreadNews
<1> QED
  BY <1>2, <1>3, <1>4, <1>5 DEF Spread

(* What a handler has in hand while a sign-in spreads, and what it does to  *)
(* the lists.                                                               *)
LEMMA SpreadHandler ==
  ASSUME PeerInv, NEW n \in Nodes, NEW h \in Nodes, NEW G, Spread(n, h, G),
         NEW k \in Nodes, NEW w \in Workers, Handler(k, w)
  PROVE  /\ ~Delete(k, w)
         /\ UNCHANGED <<status, out, quit>>
         /\ \A x \in Nodes : members[x] \subseteq members'[x] /\ members'[x] \subseteq Fit(G, x)
<1>1. ~Delete(k, w)
  <2> SUFFICES ASSUME Delete(k, w)
               PROVE  FALSE
    OBVIOUS
  <2>1. work[k][w].at = "delete" /\ work[k][w].packet \in Mail(k)
    BY DEF Delete, Mail
  <2>2. work[k][w].packet.type = "SIGN_OUT"
    BY <2>1, StageOfWork DEF PeerInv, Stage, Idle
  <2> QED
    BY <2>1, <2>2 DEF Spread, SpreadMail
<1>2. UNCHANGED <<status, out, quit>>
  BY DEF Handler, Take, UpdateLock, UpdateSend, UpdateUnlock, Reply, Add, InsertAll, ClearFlag,
         Delete, nodeVars
<1>3. members[k] \subseteq members'[k] /\ members'[k] \subseteq Fit(G, k)
  <2>1. members[k] \subseteq Fit(G, k)
    BY DEF Spread, SpreadLists
  <2>2. CASE Add(k, w)
    <3>1. PICK m \in work[k][w].todo :
            members' = IF Accepts(k, m) THEN [members EXCEPT ![k] = @ \cup {m}] ELSE members
      BY <2>2 DEF Add
    <3>2. m \in Fit(G, k)
      BY <2>2, <3>1 DEF Add, Spread, SpreadMail
    <3> QED
      BY <2>1, <3>1, <3>2 DEF PeerInv, PlainTypes
  <2>3. CASE InsertAll(k, w)
    <3>1. work[k][w].packet \in Mail(k)
      BY <2>3 DEF InsertAll, Mail
    <3>2. work[k][w].packet.list \subseteq Fit(G, k)
      BY <3>1 DEF Spread, SpreadMail
    <3> QED
      BY <2>1, <2>3, <3>2 DEF InsertAll, PeerInv, PlainTypes
  <2>4. CASE ~Add(k, w) /\ ~InsertAll(k, w)
    BY <1>1, <2>1, <2>4 DEF Handler, Take, UpdateLock, UpdateSend, UpdateUnlock, Reply, ClearFlag,
                            nodeVars
  <2> QED
    BY <2>2, <2>3, <2>4
<1>4. \A x \in Nodes \ {k} : members'[x] = members[x]
  BY HandlerSends
<1> QED
  BY <1>1, <1>2, <1>3, <1>4 DEF Spread, SpreadLists

(* The mail stays within the group.                                         *)
LEMMA SpreadMailStep ==
  ASSUME PeerInv, ListStable, Inert, NEW n \in Nodes, NEW h \in Nodes, NEW G, Spread(n, h, G),
         NEW k \in Nodes, NEW w \in Workers, Handler(k, w)
  PROVE  SpreadMail(n, h, G)'
<1> DEFINE s == work[k][w]
           Right(x, p) == /\ p.type # "SIGN_OUT" /\ p.list \subseteq Fit(G, x)
                          /\ p.type = "SIGN_IN" => x = h /\ p.first = n /\ n \in p.list
<1>1. \A x \in Nodes : Fit(G, x)' = Fit(G, x)
  BY SpreadHandler DEF Fit
<1>2. \A x \in Nodes : \A p \in Mail(x) : Right(x, p)
  BY DEF Spread, SpreadMail
<1>3. status[k] = "up" /\ Groups(G) /\ h \in G[n] /\ G[h] = G[n]
  BY InertRests DEF Spread, SpreadTasks, Groups
<1>4. ASSUME NEW x \in Nodes, NEW p \in Mail(x)'
      PROVE  Right(x, p)
  <2>1. CASE p \in Mail(x)
    BY <1>2, <2>1
  <2>2. CASE status[x] = "up" /\ Passes(k, w, x, p)
    <3>1. s.at = "sending" /\ x \in s.todo /\ p = MemberList(s.packet.list)
      BY <2>2 DEF Passes, UpdateSend
    <3>2. x \in Fit(G, k)
      BY <3>1 DEF ListStable, Spread, SpreadLists
    <3>3. Fit(G, x) = Fit(G, k)
      BY <1>3, <2>2, <3>2 DEF Fit, Groups
    <3>4. s.packet \in Mail(k)
      BY <3>1 DEF Mail
    <3>5. s.packet.list \subseteq Fit(G, k)
      BY <1>2, <3>4
    <3> QED
      BY <3>1, <3>3, <3>5 DEF MemberList
  <2>3. CASE status[x] = "up" /\ Replies(k, w, x, p)
    <3>1. s.at = "reply" /\ x = s.packet.first /\ p = MemberList(Everyone(k))
      BY <2>3 DEF Replies, Reply
    <3>2. s.packet \in Mail(k) /\ s.packet.type = "SIGN_IN"
      <4>1. s.packet \in Mail(k)
        BY <3>1 DEF Mail
      <4>2. s.packet.type = "SIGN_IN"
        BY <3>1, StageOfWork DEF PeerInv, Stage, Idle
      <4> QED
        BY <4>1, <4>2
    <3>3. k = h /\ x = n
      BY <1>2, <3>1, <3>2
    <3>4. Fit(G, x) = Fit(G, k) /\ k \in Fit(G, k)
      BY <1>3, <3>3 DEF Fit, Groups
    <3>5. Everyone(k) \subseteq Fit(G, k)
      BY <3>4 DEF Everyone, Spread, SpreadLists
    <3> QED
      BY <3>1, <3>4, <3>5 DEF MemberList
  <2> QED
    BY <2>1, <2>2, <2>3, HandlerMail
<1>5. ASSUME NEW x \in Nodes, NEW v \in Workers, work'[x][v].at = "add"
      PROVE  work'[x][v].todo \subseteq Fit(G, x)
  <2>1. CASE ~(x = k /\ v = w)
    <3>1. work'[x][v] = work[x][v]
      BY <2>1, HandlerSends
    <3> QED
      BY <1>5, <3>1 DEF Spread, SpreadMail
  <2>2. CASE x = k /\ v = w
    <3>1. CASE Reply(k, w)
      <4>1. work'[k][w] = At("add", s.packet, s.packet.list)
        BY <3>1, DoChanges DEF Reply, PeerInv
      <4>2. s.packet \in Mail(k)
        BY <3>1 DEF Reply, Mail
      <4> QED
        BY <1>2, <2>2, <4>1, <4>2 DEF At
    <3>2. CASE Add(k, w)
      <4>1. PICK m \in s.todo :
              Do(k, w, IF s.todo = {m} THEN Idle ELSE At("add", s.packet, s.todo \ {m}))
        BY <3>2 DEF Add
      <4>2. work'[k][w] = IF s.todo = {m} THEN Idle ELSE At("add", s.packet, s.todo \ {m})
        BY <4>1, DoChanges DEF PeerInv
      <4>3. work'[k][w].todo = s.todo \ {m}
        BY <1>5, <2>2, <4>2 DEF At, Idle
      <4>4. s.todo \subseteq Fit(G, k)
        BY <3>2 DEF Add, Spread, SpreadMail
      <4> QED
        BY <2>2, <4>3, <4>4
    <3>3. CASE \E i \in 1..Backlog : Take(k, w, i)
      <4>1. PICK i \in 1..Backlog : Take(k, w, i)
        BY <3>3
      <4>2. work'[k][w] = At(FirstStage(k, inbox[k][i]), inbox[k][i], {})
        BY <4>1, DoChanges DEF Take, PeerInv
      <4> QED
        BY <2>2, <4>2 DEF At
    <3>4. CASE UpdateLock(k, w) \/ UpdateSend(k, w) \/ UpdateUnlock(k, w)
      <4>1. work'[k][w].at \in HeldStages
        BY <3>4, UpdateOnward
      <4> QED
        BY <1>5, <2>2, <4>1 DEF HeldStages
    <3>5. CASE InsertAll(k, w) \/ ClearFlag(k, w)
      <4>1. Do(k, w, At("clear", s.packet, {})) \/ Do(k, w, Idle)
        BY <3>5 DEF InsertAll, ClearFlag
      <4>2. work'[k][w] = At("clear", s.packet, {}) \/ work'[k][w] = Idle
        BY <4>1, DoChanges DEF PeerInv
      <4> QED
        BY <1>5, <2>2, <4>2 DEF At, Idle
    <3> QED
      BY <3>1, <3>2, <3>3, <3>4, <3>5, SpreadHandler DEF Handler
  <2> QED
    BY <2>1, <2>2
<1> QED
  BY <1>1, <1>4, <1>5 DEF SpreadMail

(* The promise is kept. *)
LEMMA PromiseStep ==
  ASSUME PeerInv, NEW n \in Nodes, NEW h \in Nodes, NEW G, Spread(n, h, G),
         NEW k \in Nodes, NEW w \in Workers, Handler(k, w), lost' = lost,
         NEW x \in Nodes, status[x] = "up", Promised(h, x)
  PROVE  Promised(h, x)' \/ Learns(x, n)'
<1>1. x \in members[h] /\ x \in members'[h]
  BY SpreadHandler DEF Promised
<1>2. ASSUME NEW v \in Workers,
             work'[h][v].at = "update" \/ (work'[h][v].at = "sending" /\ x \in work'[h][v].todo),
             work'[h][v].packet.type = "SIGN_IN"
      PROVE  Promised(h, x)'
  BY <1>1, <1>2 DEF Promised
<1>3. ASSUME NEW p \in Waiting(h)', p.type = "SIGN_IN"
      PROVE  Promised(h, x)'
  BY <1>1, <1>3 DEF Promised
<1>4. ASSUME NEW p \in Waiting(h), p.type = "SIGN_IN"
      PROVE  Promised(h, x)'
  <2>1. CASE p \in Waiting(h)'
    BY <1>3, <1>4, <2>1
  <2>2. CASE p \notin Waiting(h)'
    <3>1. k = h
      BY <2>2, HandlerSends
    <3>2. PICK i \in 1..Backlog : Take(h, w, i)
      BY <2>2, <3>1, HandlerSends
    <3>3. inbox[h][i] = p
      BY <2>2, <3>2, TakeMoves DEF PeerInv
    <3>4. work'[h][w] = At("update", p, {})
      BY <1>1, <1>4, <3>2, <3>3, DoChanges DEF Take, FirstStage, Forwards, PeerInv
    <3> QED
      BY <1>2, <1>4, <3>4 DEF At
  <2> QED
    BY <2>1, <2>2
<1>5. ASSUME NEW v \in Workers,
             work[h][v].at = "update" \/ (work[h][v].at = "sending" /\ x \in work[h][v].todo),
             work[h][v].packet.type = "SIGN_IN"
      PROVE  Promised(h, x)' \/ Learns(x, n)'
  <2> DEFINE s == work[h][v]
  <2>1. CASE ~(k = h /\ w = v)
    <3>1. work'[h][v] = work[h][v]
      BY <2>1, HandlerSends
    <3> QED
      BY <1>2, <1>5, <3>1
  <2>2. CASE k = h /\ w = v
    <3>1. CASE UpdateLock(h, v)
      <4>1. work'[h][v] = At("sending", s.packet, members[h])
        BY <3>1, DoChanges DEF UpdateLock, PeerInv
      <4> QED
        BY <1>1, <1>2, <1>5, <4>1 DEF At
    <3>2. CASE UpdateSend(h, v)
      <4>1. PICK m \in s.todo : /\ Send(m, MemberList(s.packet.list))
                                /\ Do(h, v, At("sending", s.packet, s.todo \ {m}))
        BY <3>2 DEF UpdateSend
      <4>2. work'[h][v] = At("sending", s.packet, s.todo \ {m})
        BY <4>1, DoChanges DEF PeerInv
      <4>3. CASE x # m
        <5>1. x \in s.todo
          BY <1>5, <3>2 DEF UpdateSend
        <5> QED
          BY <1>2, <1>5, <4>2, <4>3, <5>1 DEF At
      <4>4. CASE x = m
        <5>1. Stage(s) /\ s.at = "sending" /\ s.packet \in Mail(h)
          BY <1>5, <3>2, StageOfWork DEF UpdateSend, Mail, PeerInv
        <5>2. n \in s.packet.list /\ CleanList(s.packet.list)
          BY <1>5, <5>1 DEF Spread, SpreadMail, Stage, Idle, CleanPacket
        <5>3. PICK p \in Packet : p = MemberList(s.packet.list)
          BY <5>2, ListPackets
        <5>4. ~Fails(x)
          BY DEF Fails, PeerInv, PlainTypes
        <5>5. p \in Waiting(x)'
          BY <4>1, <4>4, <5>3, <5>4, ArrivesAdds DEF Send, PeerInv
        <5>6. p.type # "SIGN_OUT" /\ n \in p.list
          BY <5>2, <5>3 DEF MemberList
        <5> QED
          BY <5>5, <5>6 DEF Learns, HeldAt
      <4> QED
        BY <4>3, <4>4
    <3>3. ~UpdateUnlock(h, v) /\ \A i : ~Take(h, v, i)
      BY <1>5, TakeIsIdle DEF UpdateUnlock
    <3>4. ~Reply(h, v) /\ ~Add(h, v) /\ ~InsertAll(h, v) /\ ~ClearFlag(h, v) /\ ~Delete(h, v)
      BY <1>5 DEF Reply, Add, InsertAll, ClearFlag, Delete
    <3> QED
      BY <2>2, <3>1, <3>2, <3>3, <3>4 DEF Handler
  <2> QED
    BY <2>1, <2>2
<1> QED
  BY <1>4, <1>5 DEF Promised

LEMMA SpreadNewsStep ==
  ASSUME PeerInv, SignOutsTrue, Inert, NamesDiffer, [Next]_vars, NEW n \in Nodes, NEW h \in Nodes,
         NEW G, Spread(n, h, G), NEW k \in Nodes, NEW w \in Workers, Handler(k, w), lost' = lost, lost = 0
  PROVE  SpreadNews(n, h, G)'
<1>1. UNCHANGED <<status, quit>> /\ \A x \in Nodes : members[x] \subseteq members'[x]
  BY SpreadHandler
<1>2. status[n] = "up" /\ G[n] \subseteq Nodes /\ \A x \in Nodes : quit[x].at = "no"
  BY DEF Spread, SpreadTasks, Groups
<1>3. SUFFICES ASSUME NEW x \in G[n] \ {n}, status[x] = "up"
               PROVE  /\ Learns(x, n)' \/ Promised(h, x)'
                      /\ Learns(n, x)' \/ (Unanswered(h, n)' /\ x \in Everyone(h)')
  BY <1>1 DEF SpreadNews
<1>4. x \in Nodes /\ ~Leaving(x) /\ ~Leaving(n) /\ Distinct(x) /\ Distinct(n)
  BY <1>2, <1>3 DEF Leaving, NamesDiffer
<1>5. /\ Learns(x, n) \/ Promised(h, x)
      /\ Learns(n, x) \/ (Unanswered(h, n) /\ x \in Everyone(h))
  BY <1>3 DEF Spread, SpreadNews
<1>6. Learns(x, n)' \/ Promised(h, x)'
  <2>1. CASE Learns(x, n)
    BY <1>1, <1>3, <1>4, <2>1, LearnsStep
  <2>2. CASE Promised(h, x)
    BY <1>3, <1>4, <2>2, PromiseStep
  <2> QED
    BY <1>5, <2>1, <2>2
<1>7. Learns(n, x)' \/ (Unanswered(h, n)' /\ x \in Everyone(h)')
  <2>1. CASE Learns(n, x)
    BY <1>1, <1>2, <1>4, <2>1, LearnsStep
  <2>2. CASE Unanswered(h, n) /\ x \in Everyone(h)
    <3>1. status[h] = "up"
      BY <2>2, MailTyped DEF Unanswered, HeldAt, HeldStages, Mail, Inert, InertAt
    <3>2. Unanswered(h, n)' \/ Learns(n, x)'
      BY <1>1, <1>4, <2>2, <3>1, UnansweredStep
    <3>3. x \in Everyone(h)'
      BY <1>1, <2>2 DEF Everyone
    <3> QED
      BY <3>2, <3>3
  <2> QED
    BY <1>5, <2>1, <2>2
<1> QED
  BY <1>6, <1>7

LEMMA SpreadStep ==
  ASSUME PeerInv, ListStable, SignOutsTrue, Inert, NamesDiffer, [Next]_vars,
         NEW n \in Nodes, NEW h \in Nodes, NEW G, Spread(n, h, G), lost' = lost, lost = 0,
         ~(\E x \in Nodes : Quit(x) \/ \E y \in Nodes : Connect(x, y))
  PROVE  Spread(n, h, G)'
<1>1. \A x \in Nodes : quit[x].at = "no" /\ out[x].at \in {"idle", "flag"}
  BY DEF Spread, SpreadTasks
<1>2. ASSUME UNCHANGED vars
      PROVE  Spread(n, h, G)'
  BY <1>1, <1>2, SpreadSame DEF vars, nodeVars, netVars
<1>3. ASSUME NEW k \in Nodes, SignInTask(k)
      PROVE  Spread(n, h, G)'
  <2>1. SignInFlag(k)
    BY <1>1, <1>3 DEF SignInTask, SignInSend
  <2>2. \A x \in Nodes : out'[x].at \in {"idle", "flag"}
    BY <1>1, <2>1 DEF SignInFlag, PeerInv, PlainTypes, Idle
  <2> QED
    BY <2>1, <2>2, SpreadSame DEF SignInFlag, netVars
<1>4. ASSUME NEW k \in Nodes, QuitTask(k) \/ Exit(k)
      PROVE  FALSE
  BY <1>1, <1>4 DEF QuitTask, QuitLock, QuitSend, QuitUnlock, Exit
<1>5. ASSUME NEW k \in Nodes, NEW w \in Workers, NEW i \in 1..Backlog, SignOutCrashes(k, w, i)
      PROVE  FALSE
  BY <1>5, HandlerHas DEF SignOutCrashes, Spread, SpreadMail
<1>6. ASSUME NEW k \in Nodes, NEW w \in Workers, Handler(k, w)
      PROVE  Spread(n, h, G)'
  <2>1. SpreadTasks(n, h, G)'
    BY <1>6, SpreadHandler DEF Spread, SpreadTasks, Groups
  <2>2. SpreadLists(n, G)'
    <3>1. ASSUME NEW x \in Nodes
          PROVE  (members[x] \subseteq Fit(G, x))' /\ (x # n => Lists(G, x, n)')
      BY <1>6, SpreadHandler DEF Spread, SpreadLists, Lists, Fit
    <3> QED
      BY <3>1 DEF SpreadLists
  <2> QED
    BY <1>6, <2>1, <2>2, SpreadMailStep, SpreadNewsStep DEF Spread
<1> QED
  BY <1>2, <1>3, <1>4, <1>5, <1>6, StepKinds

(* The commands lead from one phase to the next.                            *)
LEMMA CalmStep ==
  ASSUME PeerInv, ListStable, SignOutsTrue, Inert, NamesDiffer, CalmInv, [Next]_vars
  PROVE  CalmInv'
<1> SUFFICES ASSUME Calm'
             PROVE  Phase'
  BY DEF CalmInv
<1>1. Calm /\ Phase /\ lost' = lost /\ lost = 0
  BY CalmStays DEF CalmInv, Calm
<1>2. CASE \E x \in Nodes : Quit(x) \/ \E y \in Nodes : Connect(x, y)
  <2>1. PICK x \in Nodes : Quit(x) \/ \E y \in Nodes : Connect(x, y) /\ members[x] = {}
    BY <1>2, CalmStays
  <2>2. Quiet
    BY <1>2, CalmStays
  <2>3. PICK G : Peaceful(G)
    BY <1>1, <2>2, QuietPhase
  <2>4. Still(x, G)' /\ G \in [Nodes -> SUBSET Nodes]
    BY <2>1, <2>3, UserStill DEF Peaceful, Resting, Groups
  <2> QED
    BY <2>4 DEF Phase
<1>3. CASE ~(\E x \in Nodes : Quit(x) \/ \E y \in Nodes : Connect(x, y))
  <2>1. PICK n \in Nodes, G \in [Nodes -> SUBSET Nodes] :
          Still(n, G) \/ Forget(n, G) \/ \E h \in Nodes : Spread(n, h, G)
    BY <1>1 DEF Phase
  <2>2. CASE Still(n, G)
    BY <1>1, <1>3, <2>2, StillStep
  <2>3. CASE Forget(n, G)
    <3>1. Forget(n, G)'
      BY <1>1, <1>3, <2>3, ForgetStep
    <3> QED
      BY <3>1 DEF Phase
  <2>4. ASSUME NEW h \in Nodes, Spread(n, h, G)
        PROVE  Phase'
    <3>1. Spread(n, h, G)'
      BY <1>1, <1>3, <2>4, SpreadStep
    <3> QED
      BY <3>1 DEF Phase
  <2> QED
    BY <2>1, <2>2, <2>3, <2>4
<1> QED
  BY <1>2, <1>3

LEMMA CalmInvariant ==
  ASSUME NamesDiffer, NEW someone \in Nodes
  PROVE  Spec => [](PeerInv /\ Inert /\ CalmInv)
<1>1. Init => SignOutsTrue /\ CalmInv
  <2> SUFFICES ASSUME Init
               PROVE  SignOutsTrue /\ CalmInv
    OBVIOUS
  <2>1. SignOutsTrue
    BY DEF Init, SignOutsTrue, Waiting
  <2>2. Still(someone, [x \in Nodes |-> {x}])
    BY CalmInit
  <2>3. [x \in Nodes |-> {x}] \in [Nodes -> SUBSET Nodes]
    OBVIOUS
  <2> QED
    BY <2>1, <2>2, <2>3 DEF CalmInv, Phase
<1>2. PeerInv /\ ListStable /\ SignOutsTrue /\ Inert /\ CalmInv /\ [Next]_vars
        => SignOutsTrue' /\ CalmInv'
  BY SignOutsStep, CalmStep
<1> QED
  BY <1>1, <1>2, InertInit, InertStep, PeerInvariant, ListsStable, PTL DEF Spec

(* What holds when all is at rest.                                          *)
LEMMA CalmLists ==
  ASSUME PeerInv, Inert, CalmInv
  PROVE  NewcomersConverge /\ GoneForgotten
<1> SUFFICES ASSUME Quiet, Calm
             PROVE  /\ Complete
                    /\ \A n, m \in Nodes : status[n] = "up" /\ status[m] = "left" => m \notin members[n]
  BY DEF NewcomersConverge, GoneForgotten, Calm
<1>1. PICK G : Peaceful(G)
  BY QuietPhase DEF CalmInv
<1> QED
  BY <1>1, RestingLists DEF Peaceful

(***************************************************************************)
(* Peers that join one after the other end up with one list, for any       *)
(* number of peers, workers and commands: who is told of a newcomer, by    *)
(* whom, and what the newcomer is answered together leave nobody out,      *)
(* whatever order the packets are taken up in, also when members have      *)
(* signed out or crashed before (task.c:423-518, 526-544).                 *)
(***************************************************************************)
THEOREM NewcomersAgree ==
  ASSUME NamesDiffer
  PROVE  Spec => []NewcomersConverge
<1>1. CASE Nodes = {}
  <2>1. NewcomersConverge
    BY <1>1 DEF NewcomersConverge, Complete
  <2> QED
    BY <2>1, PTL
<1>2. CASE Nodes # {}
  <2>1. PICK someone \in Nodes : TRUE
    BY <1>2
  <2>2. Spec => [](PeerInv /\ Inert /\ CalmInv)
    BY <2>1, CalmInvariant
  <2>3. PeerInv /\ Inert /\ CalmInv => NewcomersConverge
    BY CalmLists
  <2> QED
    BY <2>2, <2>3, PTL
<1> QED
  BY <1>1, <1>2

(***************************************************************************)
(* And nobody still lists a peer that has signed out, because everybody    *)
(* who lists it is on its own list when it signs out (task.c:222-259,      *)
(* 526-544).                                                               *)
(***************************************************************************)
THEOREM LeaversForgotten ==
  ASSUME NamesDiffer
  PROVE  Spec => []GoneForgotten
<1>1. CASE Nodes = {}
  <2>1. GoneForgotten
    BY <1>1 DEF GoneForgotten
  <2> QED
    BY <2>1, PTL
<1>2. CASE Nodes # {}
  <2>1. PICK someone \in Nodes : TRUE
    BY <1>2
  <2>2. Spec => [](PeerInv /\ Inert /\ CalmInv)
    BY <2>1, CalmInvariant
  <2>3. PeerInv /\ Inert /\ CalmInv => GoneForgotten
    BY CalmLists
  <2> QED
    BY <2>2, <2>3, PTL
<1> QED
  BY <1>1, <1>2

-----------------------------------------------------------------------------
(***************************************************************************)
(* Sums over finite sets: f[k] tokens for every k of A, counted.           *)
(***************************************************************************)
Tokens(A, f) == UNION {{k} \X (0..f[k] - 1) : k \in A}
Total(A, f)  == Cardinality(Tokens(A, f))

LEMMA TokenOf ==
  ASSUME NEW A, NEW f, NEW t
  PROVE  t \in Tokens(A, f) <=> \E k \in A : \E i \in 0..f[k] - 1 : t = <<k, i>>
BY DEF Tokens

LEMMA TotalFinite ==
  ASSUME NEW A, IsFiniteSet(A), NEW f, \A k \in A : f[k] \in Nat
  PROVE  IsFiniteSet(Tokens(A, f)) /\ Total(A, f) \in Nat
<1> DEFINE S == {{k} \X (0..f[k] - 1) : k \in A}
           g == [k \in A |-> {k} \X (0..f[k] - 1)]
<1>1. g \in Surjection(A, S)
  BY DEF Surjection
<1>2. IsFiniteSet(S)
  BY <1>1, FS_Surjection
<1>3. \A T \in S : IsFiniteSet(T)
  <2> SUFFICES ASSUME NEW k \in A PROVE IsFiniteSet({k} \X (0..f[k] - 1))
    OBVIOUS
  <2>1. IsFiniteSet(0..f[k] - 1)
    BY FS_Interval
  <2> QED
    BY <2>1, FS_Singleton, FS_Product
<1>4. IsFiniteSet(UNION S)
  BY <1>2, <1>3, FS_UNION
<1> QED
  BY <1>4, FS_CardinalityType DEF Tokens, Total

LEMMA TotalSame ==
  ASSUME NEW A, NEW f, NEW g, \A k \in A : f[k] = g[k]
  PROVE  Total(A, f) = Total(A, g)
<1>1. \A t : t \in Tokens(A, f) <=> t \in Tokens(A, g)
  BY TokenOf
<1>2. Tokens(A, f) = Tokens(A, g)
  BY <1>1, Zenon
<1> QED
  BY <1>2 DEF Total

LEMMA TotalSplit ==
  ASSUME NEW A, IsFiniteSet(A), NEW f, \A k \in A : f[k] \in Nat, NEW c \in A
  PROVE  Total(A, f) = Total(A \ {c}, f) + f[c]
<1> DEFINE T == Tokens(A \ {c}, f)
           U == {c} \X (0..f[c] - 1)
<1>1. IsFiniteSet(A \ {c}) /\ \A k \in A \ {c} : f[k] \in Nat
  BY FS_RemoveElement
<1>2. IsFiniteSet(T) /\ Cardinality(T) \in Nat
  BY <1>1, TotalFinite DEF Total
<1>3. IsFiniteSet(U) /\ Cardinality(U) = f[c]
  <2>1. IsFiniteSet(0..f[c] - 1) /\ Cardinality(0..f[c] - 1) = f[c]
    <3>1. 0 \in Int /\ f[c] - 1 \in Int /\ f[c] \in Nat
      OBVIOUS
    <3>2. /\ IsFiniteSet(0..f[c] - 1)
          /\ Cardinality(0..f[c] - 1) = IF 0 > f[c] - 1 THEN 0 ELSE f[c] - 1 - 0 + 1
      BY <3>1, FS_Interval
    <3> QED
      BY <3>1, <3>2
  <2>2. IsFiniteSet({c}) /\ Cardinality({c}) = 1
    BY FS_Singleton
  <2>3. IsFiniteSet(U) /\ Cardinality(U) = Cardinality({c}) * Cardinality(0..f[c] - 1)
    BY <2>1, <2>2, FS_Product
  <2> QED
    BY <2>1, <2>2, <2>3
<1>4. \A t : t \in Tokens(A, f) <=> t \in T \cup U
  BY TokenOf
<1>5. Tokens(A, f) = T \cup U
  BY <1>4, Zenon
<1>6. T \cap U = {}
  BY TokenOf
<1> HIDE DEF T, U
<1>7. Cardinality(T \cup U) = Cardinality(T) + Cardinality(U) - Cardinality(T \cap U)
  BY <1>2, <1>3, FS_Union
<1>8. Cardinality(T \cap U) = 0
  BY <1>6, FS_EmptySet
<1>9. Cardinality(Tokens(A, f)) = Cardinality(T) + f[c]
  BY <1>2, <1>3, <1>5, <1>7, <1>8
<1> QED
  BY <1>9 DEF Total, T

(* One summand changes. *)
LEMMA TotalChange ==
  ASSUME NEW A, IsFiniteSet(A), NEW c \in A,
         NEW f, \A k \in A : f[k] \in Nat, NEW g, \A k \in A : g[k] \in Nat,
         \A k \in A \ {c} : g[k] = f[k]
  PROVE  Total(A, g) + f[c] = Total(A, f) + g[c]
<1>1. Total(A, f) = Total(A \ {c}, f) + f[c]
  BY TotalSplit
<1>2. Total(A, g) = Total(A \ {c}, g) + g[c]
  BY TotalSplit
<1>3. Total(A \ {c}, f) = Total(A \ {c}, g)
  BY TotalSame
<1>4. IsFiniteSet(A \ {c})
  BY FS_RemoveElement
<1>5. Total(A \ {c}, f) \in Nat
  BY <1>4, TotalFinite
<1> QED
  BY <1>1, <1>2, <1>3, <1>5

(* No summand grows. *)
LEMMA TotalLess ==
  ASSUME NEW A, IsFiniteSet(A),
         NEW f, \A k \in A : f[k] \in Nat, NEW g, \A k \in A : g[k] \in Nat,
         \A k \in A : g[k] <= f[k]
  PROVE  /\ Total(A, g) <= Total(A, f)
         /\ \A c \in A : g[c] < f[c] => Total(A, g) < Total(A, f)
<1>1. IsFiniteSet(Tokens(A, f)) /\ Total(A, f) \in Nat /\ Total(A, g) \in Nat
  BY TotalFinite
<1>2. Tokens(A, g) \in SUBSET Tokens(A, f)
  BY TokenOf
<1>3. /\ Cardinality(Tokens(A, g)) <= Cardinality(Tokens(A, f))
      /\ Cardinality(Tokens(A, f)) = Cardinality(Tokens(A, g)) => Tokens(A, f) = Tokens(A, g)
  BY <1>1, <1>2, FS_Subset
<1>4. ASSUME NEW c \in A, g[c] < f[c]
      PROVE  Tokens(A, f) # Tokens(A, g)
  <2>1. g[c] \in 0..f[c] - 1 /\ g[c] \notin 0..g[c] - 1
    BY <1>4
  <2>2. <<c, g[c]>> \in Tokens(A, f)
    BY <2>1, TokenOf
  <2>3. <<c, g[c]>> \notin Tokens(A, g)
    BY <2>1, TokenOf
  <2> QED
    BY <2>2, <2>3
<1> QED
  BY <1>1, <1>3, <1>4 DEF Total

(* Some summands grow by at most d. *)
LEMMA TotalRaise ==
  ASSUME NEW A, IsFiniteSet(A), NEW C \in SUBSET A, NEW d \in Nat,
         NEW f, \A k \in A : f[k] \in Nat, NEW g, \A k \in A : g[k] \in Nat,
         \A k \in A \ C : g[k] <= f[k], \A k \in C : g[k] <= f[k] + d
  PROVE  Total(A, g) <= Total(A, f) + Cardinality(C) * d
<1> DEFINE P == C \X (0..d - 1)
           h == [t \in P |-> <<t[1], f[t[1]] + t[2]>>]
           R == {h[t] : t \in P}
<1>1. IsFiniteSet(C) /\ Cardinality(C) \in Nat
  BY FS_Subset, FS_CardinalityType
<1>2. IsFiniteSet(P) /\ Cardinality(P) = Cardinality(C) * d
  <2>1. IsFiniteSet(0..d - 1) /\ Cardinality(0..d - 1) = d
    <3>1. 0 \in Int /\ d - 1 \in Int
      OBVIOUS
    <3>2. IsFiniteSet(0..d - 1) /\ Cardinality(0..d - 1) = IF 0 > d - 1 THEN 0 ELSE d - 1 - 0 + 1
      BY <3>1, FS_Interval
    <3> QED
      BY <3>2
  <2> QED
    BY <1>1, <2>1, FS_Product
<1>3. h \in Surjection(P, R)
  BY DEF Surjection
<1>4. IsFiniteSet(R) /\ Cardinality(R) <= Cardinality(P)
  BY <1>2, <1>3, FS_Surjection
<1>5. Tokens(A, g) \subseteq Tokens(A, f) \cup R
  <2> SUFFICES ASSUME NEW k \in A, NEW i \in 0..g[k] - 1, <<k, i>> \notin Tokens(A, f)
               PROVE  <<k, i>> \in R
    BY TokenOf
  <2>1. i \in Nat /\ i >= f[k] /\ i < g[k]
    <3>1. i \notin 0..f[k] - 1
      BY TokenOf
    <3> QED
      BY <3>1
  <2>2. k \in C
    BY <2>1
  <2>3. PICK t : t = <<k, i - f[k]>>
    OBVIOUS
  <2>4. i - f[k] \in 0..d - 1
    BY <2>1, <2>2
  <2>5. t \in P /\ t[1] = k /\ t[2] = i - f[k]
    BY <2>2, <2>3, <2>4
  <2>6. f[k] + (i - f[k]) = i
    BY <2>1
  <2>7. h[t] = <<k, i>>
    BY <2>5, <2>6
  <2> QED
    BY <2>5, <2>7
<1> HIDE DEF P, h, R
<1>6. IsFiniteSet(Tokens(A, f)) /\ Cardinality(Tokens(A, f)) \in Nat
  BY TotalFinite DEF Total
<1>7. Cardinality(R) \in Nat
  BY <1>4, FS_CardinalityType
<1>8. /\ IsFiniteSet(Tokens(A, f) \cup R)
      /\ Cardinality(Tokens(A, f) \cup R)
           = Cardinality(Tokens(A, f)) + Cardinality(R) - Cardinality(Tokens(A, f) \cap R)
  BY <1>4, <1>6, FS_Union
<1>9. Cardinality(Tokens(A, f) \cap R) \in Nat
  <2>1. IsFiniteSet(Tokens(A, f) \cap R)
    BY <1>6, FS_Subset
  <2> QED
    BY <2>1, FS_CardinalityType
<1>10. Cardinality(Tokens(A, g)) <= Cardinality(Tokens(A, f) \cup R)
  BY <1>5, <1>8, FS_Subset
<1>11. Total(A, g) \in Nat
  BY TotalFinite
<1>12. PICK D \in Nat : D = Cardinality(C) * d
  BY <1>1
<1>13. Total(A, g) <= Total(A, f) + D
  BY <1>2, <1>4, <1>6, <1>7, <1>8, <1>9, <1>10, <1>11, <1>12 DEF Total
<1> QED
  BY <1>12, <1>13

(* The summands are the same under other names. *)
LEMMA TotalMoved ==
  ASSUME NEW A, IsFiniteSet(A), NEW B, NEW h \in Bijection(A, B),
         NEW f, \A k \in A : f[k] \in Nat, NEW g, \A k \in A : f[k] = g[h[k]]
  PROVE  Total(B, g) = Total(A, f)
<1> DEFINE H == [t \in Tokens(A, f) |-> <<h[t[1]], t[2]>>]
<1>1. /\ h \in [A -> B] /\ \A k, l \in A : h[k] = h[l] => k = l
      /\ \A l \in B : \E k \in A : h[k] = l
  BY DEF Bijection, Injection, IsInjective, Surjection
<1>2. \A t \in Tokens(A, f) : t[1] \in A /\ t[2] \in 0..f[t[1]] - 1 /\ t = <<t[1], t[2]>>
  BY TokenOf
<1>3. ASSUME NEW t \in Tokens(A, f)
      PROVE  H[t] = <<h[t[1]], t[2]>> /\ H[t] \in Tokens(B, g)
  <2>1. h[t[1]] \in B /\ t[2] \in 0..g[h[t[1]]] - 1
    BY <1>1, <1>2
  <2> QED
    BY <2>1, TokenOf
<1>4. H \in [Tokens(A, f) -> Tokens(B, g)]
  BY <1>3
<1> HIDE DEF H
<1>5. ASSUME NEW t \in Tokens(A, f), NEW u \in Tokens(A, f), H[t] = H[u]
      PROVE  t = u
  <2>1. h[t[1]] = h[u[1]] /\ t[2] = u[2]
    BY <1>3, <1>5
  <2>2. t[1] = u[1]
    BY <1>1, <1>2, <2>1
  <2> QED
    BY <1>2, <2>1, <2>2
<1>6. ASSUME NEW u \in Tokens(B, g)
      PROVE  \E t \in Tokens(A, f) : H[t] = u
  <2>1. PICK l \in B : \E i \in 0..g[l] - 1 : u = <<l, i>>
    BY TokenOf
  <2>2. PICK i \in 0..g[l] - 1 : u = <<l, i>>
    BY <2>1
  <2>3. PICK k \in A : h[k] = l
    BY <1>1
  <2>4. i \in 0..f[k] - 1
    BY <2>2, <2>3
  <2>5. PICK t : t = <<k, i>>
    OBVIOUS
  <2>6. t \in Tokens(A, f)
    BY <2>4, <2>5, TokenOf
  <2> QED
    BY <1>3, <2>2, <2>3, <2>5, <2>6
<1>7. H \in Bijection(Tokens(A, f), Tokens(B, g))
  BY <1>4, <1>5, <1>6 DEF Bijection, Injection, IsInjective, Surjection
<1>8. IsFiniteSet(Tokens(A, f))
  BY TotalFinite
<1> QED
  BY <1>7, <1>8, FS_Bijection DEF Total, ExistsBijection

(***************************************************************************)
(* What can still happen because of a packet that waits, of what a worker  *)
(* is doing, of a sign-in, of a /quit and of the commands still to come.   *)
(* A node that holds the flag has a worker pass a MEMBER_LIST on once more *)
(* unless it is handling one already, and will then clear the flag.        *)
(***************************************************************************)
Peers == Cardinality(Nodes)
Crew  == Cardinality(Workers)
Again == 4 * Peers + 2

Weight(p) ==
  IF p.type = "SIGN_IN" THEN 5 * Peers + 7 ELSE IF p.type = "MEMBER_LIST" THEN 3 ELSE 2

Burden(q) == Total(1..Len(q), [i \in 1..Len(q) |-> Weight(q[i])])

Answer(p) == IF p.type = "SIGN_IN" THEN Peers + 2 ELSE 0

Effort(s) ==
  CASE s.at = "update" -> 4 * Peers + 4 + Answer(s.packet)
    [] s.at = "sending" -> 4 * Cardinality(s.todo) + 3 + Answer(s.packet)
    [] s.at = "reply" -> Peers + 4
    [] s.at = "add" -> Cardinality(s.todo)
    [] s.at = "insert" -> 2
    [] s.at \in {"clear", "delete"} -> 1
    [] s.at = "idle" -> 0

Listening(s) == s.at # "idle" /\ s.packet.type = "MEMBER_LIST"
Ahead(s, flag) == Effort(s) + IF flag /\ ~Listening(s) THEN Again ELSE 0

SignInEffort(o) ==
  CASE o.at = "lock" -> Crew * Again + 5 * Peers + 9
    [] o.at = "flag" -> Crew * Again + 1
    [] o.at = "idle" -> 0

QuitEffort(t) ==
  CASE t.at = "lock" -> 3 * Peers + 3
    [] t.at = "sending" -> 3 * Cardinality(t.todo) + 2
    [] t.at = "sent" -> 1
    [] t.at = "no" -> 0

Price == Crew * Again + 8 * Peers + 13

Waits == Total(Nodes, [n \in Nodes |-> Burden(inbox[n])])
Works == Total(Nodes \X Workers, [x \in Nodes \X Workers |-> Ahead(work[x[1]][x[2]], sign[x[1]])])
Tasks == Total(Nodes, [n \in Nodes |-> SignInEffort(out[n]) + QuitEffort(quit[n])])

Load  == Waits + Works + Tasks

Rank == Price * (MaxCommands - asked) + Load

LEMMA SizesTyped ==
  ASSUME IsFiniteSet(Nodes), IsFiniteSet(Workers)
  PROVE  /\ Peers \in Nat /\ Crew \in Nat /\ Again \in Nat /\ Crew * Again \in Nat /\ Price \in Nat
         /\ IsFiniteSet(Nodes \X Workers)
         /\ \A S \in SUBSET Nodes : Cardinality(S) \in 0..Peers
<1>1. Peers \in Nat /\ Crew \in Nat
  BY FS_CardinalityType DEF Peers, Crew
<1>2. Again \in Nat
  BY <1>1 DEF Again
<1>3. PICK C \in Nat : C = Crew * Again
  BY <1>1, <1>2
<1>4. Price \in Nat
  BY <1>1, <1>3 DEF Price
<1>5. \A S \in SUBSET Nodes : Cardinality(S) \in 0..Peers
  <2> SUFFICES ASSUME NEW S \in SUBSET Nodes PROVE Cardinality(S) \in 0..Peers
    OBVIOUS
  <2>1. IsFiniteSet(S) /\ Cardinality(S) <= Peers
    BY FS_Subset DEF Peers
  <2>2. Cardinality(S) \in Nat
    BY <2>1, FS_CardinalityType
  <2> QED
    BY <1>1, <2>1, <2>2
<1> QED
  BY <1>1, <1>2, <1>3, <1>4, <1>5, FS_Product

(* One packet more, and one packet less, at whatever place of the queue.    *)
LEMMA BurdenTyped ==
  ASSUME Peers \in Nat, NEW q \in Seq(Packet)
  PROVE  /\ \A p \in Packet : Weight(p) \in Nat
         /\ IsFiniteSet(1..Len(q)) /\ \A i \in 1..Len(q) : q[i] \in Packet /\ Weight(q[i]) \in Nat
         /\ Burden(q) \in Nat
<1>1. \A p \in Packet : Weight(p) \in Nat
  BY DEF Weight
<1>2. Len(q) \in Nat /\ \A i \in 1..Len(q) : q[i] \in Packet /\ Weight(q[i]) \in Nat
  BY <1>1
<1>3. IsFiniteSet(1..Len(q))
  BY <1>2, FS_Interval
<1>4. PICK f : f = [i \in 1..Len(q) |-> Weight(q[i])]
  OBVIOUS
<1>5. \A i \in 1..Len(q) : f[i] \in Nat
  BY <1>2, <1>4
<1>6. Burden(q) \in Nat
  BY <1>3, <1>4, <1>5, TotalFinite DEF Burden
<1> QED
  BY <1>1, <1>2, <1>3, <1>6

LEMMA BurdenOfNone == Burden(<<>>) = 0
<1>1. Len(<<>>) = 0 /\ 1..0 = {}
  OBVIOUS
<1>2. Burden(<<>>) = Cardinality({})
  BY <1>1 DEF Burden, Total, Tokens
<1> QED
  BY <1>2, FS_EmptySet

LEMMA BurdenAppend ==
  ASSUME Peers \in Nat, NEW q \in Seq(Packet), NEW p \in Packet
  PROVE  Burden(Append(q, p)) = Burden(q) + Weight(p)
<1>1. PICK r \in Seq(Packet) : r = Append(q, p)
  <2>1. Append(q, p) \in Seq(Packet)
    BY AppendProperties
  <2> QED
    BY <2>1, Zenon
<1>2. PICK n \in Nat : n = Len(q)
  OBVIOUS
<1>3. Len(r) = n + 1 /\ r[n + 1] = p /\ \A i \in 1..n : r[i] = q[i]
  BY <1>1, <1>2
<1>4. PICK f : f = [i \in 1..n |-> Weight(q[i])]
  OBVIOUS
<1>5. PICK g : g = [i \in 1..n + 1 |-> Weight(r[i])]
  OBVIOUS
<1>6. IsFiniteSet(1..n + 1) /\ \A i \in 1..n + 1 : g[i] \in Nat
  BY <1>3, <1>5, BurdenTyped
<1>7. n + 1 \in 1..n + 1 /\ (1..n + 1) \ {n + 1} = 1..n
  OBVIOUS
<1>8. Total(1..n + 1, g) = Total(1..n, g) + g[n + 1]
  BY <1>6, <1>7, TotalSplit
<1>9. Total(1..n, g) = Total(1..n, f)
  <2>1. \A i \in 1..n : g[i] = f[i]
    BY <1>3, <1>4, <1>5
  <2> QED
    BY <2>1, TotalSame
<1>10. g[n + 1] = Weight(p)
  BY <1>3, <1>5
<1>11. Burden(r) = Total(1..n + 1, g) /\ Burden(q) = Total(1..n, f)
  BY <1>2, <1>3, <1>4, <1>5 DEF Burden
<1> QED
  BY <1>1, <1>8, <1>9, <1>10, <1>11

LEMMA BurdenWithout ==
  ASSUME Peers \in Nat, NEW q \in Seq(Packet), NEW k \in 1..Len(q)
  PROVE  Burden(Without(q, k)) + Weight(q[k]) = Burden(q)
<1>1. PICK r \in Seq(Packet) : r = Without(q, k)
  BY WithoutPlaces
<1>2. PICK n \in Nat : n = Len(q)
  OBVIOUS
<1>3. Len(r) = n - 1 /\ \A i \in 1..n - 1 : r[i] = q[IF i < k THEN i ELSE i + 1]
  BY <1>1, <1>2, WithoutPlaces
<1>4. PICK f : f = [i \in 1..n |-> Weight(q[i])]
  OBVIOUS
<1>5. PICK g : g = [i \in 1..n - 1 |-> Weight(r[i])]
  OBVIOUS
<1>6. /\ IsFiniteSet(1..n) /\ \A i \in 1..n : f[i] \in Nat
      /\ IsFiniteSet(1..n - 1) /\ \A i \in 1..n - 1 : g[i] \in Nat
  BY <1>2, <1>3, <1>4, <1>5, BurdenTyped
<1>7. Total(1..n, f) = Total((1..n) \ {k}, f) + f[k]
  BY <1>2, <1>6, TotalSplit
<1>8. Total((1..n) \ {k}, f) = Total(1..n - 1, g)
  <2>1. PICK h : h = [i \in 1..n - 1 |-> IF i < k THEN i ELSE i + 1]
    OBVIOUS
  <2>2. k \in 1..n
    BY <1>2
  <2>3. \A i \in 1..n - 1 : h[i] \in (1..n) \ {k}
    BY <2>1, <2>2
  <2>4. h \in [1..n - 1 -> (1..n) \ {k}]
    BY <2>1, <2>3
  <2>5. \A i, j \in 1..n - 1 : h[i] = h[j] => i = j
    BY <2>1, <2>2
  <2>6. ASSUME NEW j \in (1..n) \ {k}
        PROVE  \E i \in 1..n - 1 : h[i] = j
    <3>1. CASE j < k
      <4>1. j \in 1..n - 1
        BY <2>2, <3>1
      <4> QED
        BY <2>1, <3>1, <4>1
    <3>2. CASE ~(j < k)
      <4>1. j - 1 \in 1..n - 1 /\ ~(j - 1 < k) /\ (j - 1) + 1 = j
        BY <2>2, <3>2
      <4> QED
        BY <2>1, <4>1
    <3> QED
      BY <3>1, <3>2
  <2>7. h \in Bijection(1..n - 1, (1..n) \ {k})
    BY <2>4, <2>5, <2>6 DEF Bijection, Injection, IsInjective, Surjection
  <2>8. \A i \in 1..n - 1 : g[i] = f[h[i]]
    BY <1>3, <1>4, <1>5, <2>1, <2>3
  <2> QED
    BY <1>6, <2>7, <2>8, TotalMoved
<1>9. f[k] = Weight(q[k])
  BY <1>2, <1>4
<1>10. Burden(r) = Total(1..n - 1, g) /\ Burden(q) = Total(1..n, f)
  BY <1>2, <1>3, <1>4, <1>5 DEF Burden
<1> QED
  BY <1>1, <1>7, <1>8, <1>9, <1>10

LEMMA EffortsTyped ==
  ASSUME IsFiniteSet(Nodes), IsFiniteSet(Workers)
  PROVE  /\ \A s \in WorkState : Effort(s) \in Nat
         /\ \A s \in WorkState : \A flag \in BOOLEAN : Ahead(s, flag) \in Nat
         /\ \A o \in OutState : SignInEffort(o) \in Nat
         /\ \A t \in QuitState : QuitEffort(t) \in Nat
<1>1. /\ Peers \in Nat /\ Again \in Nat /\ \A S \in SUBSET Nodes : Cardinality(S) \in 0..Peers
      /\ Crew * Again \in Nat
  BY SizesTyped
<1>2. \A p : Answer(p) \in Nat
  BY <1>1 DEF Answer
<1>3. ASSUME NEW s \in WorkState
      PROVE  Effort(s) \in Nat
  <2>1. CASE s = Idle
    BY <2>1 DEF Idle, Effort
  <2>2. CASE s # Idle
    <3>1. /\ s.at \in {"update", "reply", "sending", "add", "insert", "clear", "delete"}
          /\ s.todo \in SUBSET Nodes
      BY <2>2 DEF WorkState
    <3>2. PICK c \in Nat : c = Cardinality(s.todo)
      BY <1>1, <3>1
    <3>3. PICK a \in Nat : a = Answer(s.packet)
      BY <1>2
    <3> QED
      BY <1>1, <3>1, <3>2, <3>3 DEF Effort
  <2> QED
    BY <2>1, <2>2
<1>4. \A s \in WorkState : \A flag \in BOOLEAN : Ahead(s, flag) \in Nat
  BY <1>1, <1>3 DEF Ahead
<1>5. \A o \in OutState : SignInEffort(o) \in Nat
  <2> SUFFICES ASSUME NEW o \in OutState PROVE SignInEffort(o) \in Nat
    OBVIOUS
  <2>1. o.at \in {"idle", "flag", "lock"}
    BY DEF OutState, Idle
  <2>2. PICK c \in Nat : c = Crew * Again
    BY <1>1
  <2> QED
    BY <1>1, <2>1, <2>2 DEF SignInEffort
<1>6. \A t \in QuitState : QuitEffort(t) \in Nat
  <2> SUFFICES ASSUME NEW t \in QuitState PROVE QuitEffort(t) \in Nat
    OBVIOUS
  <2>1. t.at \in {"no", "lock", "sending", "sent"} /\ Cardinality(t.todo) \in Nat
    BY <1>1 DEF QuitState
  <2> QED
    BY <1>1, <2>1 DEF QuitEffort
<1> QED
  BY <1>3, <1>4, <1>5, <1>6

LEMMA RankTyped ==
  ASSUME IsFiniteSet(Nodes), IsFiniteSet(Workers), TypeOK
  PROVE  Waits \in Nat /\ Works \in Nat /\ Tasks \in Nat /\ Load \in Nat /\ Rank \in Nat
<1>1. Peers \in Nat /\ Price \in Nat /\ IsFiniteSet(Nodes \X Workers)
  BY SizesTyped
<1>2. Waits \in Nat
  <2>1. PICK f : f = [n \in Nodes |-> Burden(inbox[n])]
    OBVIOUS
  <2>2. \A n \in Nodes : inbox[n] \in Seq(Packet)
    BY DEF TypeOK, InboxOK
  <2>3. \A n \in Nodes : f[n] \in Nat
    BY <1>1, <2>1, <2>2, BurdenTyped
  <2> QED
    BY <2>1, <2>3, TotalFinite DEF Waits
<1>3. Works \in Nat
  <2>1. PICK f : f = [x \in Nodes \X Workers |-> Ahead(work[x[1]][x[2]], sign[x[1]])]
    OBVIOUS
  <2>2. \A x \in Nodes \X Workers : f[x] \in Nat
    BY <2>1, EffortsTyped DEF TypeOK
  <2> QED
    BY <1>1, <2>1, <2>2, TotalFinite DEF Works
<1>4. Tasks \in Nat
  <2>1. PICK f : f = [n \in Nodes |-> SignInEffort(out[n]) + QuitEffort(quit[n])]
    OBVIOUS
  <2>2. \A n \in Nodes : SignInEffort(out[n]) \in Nat /\ QuitEffort(quit[n]) \in Nat
    BY EffortsTyped DEF TypeOK
  <2>3. \A n \in Nodes : f[n] \in Nat
    BY <2>1, <2>2
  <2> QED
    BY <2>1, <2>3, TotalFinite DEF Tasks
<1>5. Price * (MaxCommands - asked) \in Nat
  <2>1. PICK k \in Nat : k = MaxCommands - asked
    BY PeerAssumption DEF TypeOK
  <2> QED
    BY <1>1, <2>1
<1> QED
  BY <1>2, <1>3, <1>4, <1>5 DEF Rank, Load

(***************************************************************************)
(* How the sums change with the state.                                     *)
(***************************************************************************)
LEMMA WaitsChange ==
  ASSUME IsFiniteSet(Nodes), IsFiniteSet(Workers), TypeOK, TypeOK',
         NEW n \in Nodes, \A x \in Nodes \ {n} : inbox'[x] = inbox[x]
  PROVE  Waits' + Burden(inbox[n]) = Waits + Burden(inbox'[n])
<1>1. Peers \in Nat
  BY SizesTyped
<1>2. PICK f : f = [x \in Nodes |-> Burden(inbox[x])]
  OBVIOUS
<1>3. PICK g : g = [x \in Nodes |-> Burden(inbox'[x])]
  OBVIOUS
<1>4. \A x \in Nodes : inbox[x] \in Seq(Packet) /\ inbox'[x] \in Seq(Packet)
  BY DEF TypeOK, InboxOK
<1>5. ASSUME NEW x \in Nodes
      PROVE  f[x] \in Nat /\ g[x] \in Nat
  <2>1. PICK q \in Seq(Packet) : q = inbox'[x]
    BY <1>4
  <2>2. g[x] = Burden(q) /\ f[x] = Burden(inbox[x])
    BY <1>2, <1>3, <2>1
  <2> QED
    BY <1>1, <1>4, <2>1, <2>2, BurdenTyped
<1>6. \A x \in Nodes \ {n} : g[x] = f[x]
  BY <1>2, <1>3
<1>7. Total(Nodes, g) + f[n] = Total(Nodes, f) + g[n]
  BY <1>5, <1>6, TotalChange
<1> QED
  BY <1>2, <1>3, <1>7 DEF Waits

LEMMA WaitsSend ==
  ASSUME IsFiniteSet(Nodes), IsFiniteSet(Workers), TypeOK, TypeOK',
         NEW m \in Nodes, NEW p \in Packet, Send(m, p)
  PROVE  Waits' <= Waits + Weight(p)
<1>1. Peers \in Nat /\ Weight(p) \in Nat /\ Waits \in Nat
  <2>1. Peers \in Nat
    BY SizesTyped
  <2>2. Weight(p) \in Nat
    BY <2>1 DEF Weight
  <2> QED
    BY <2>1, <2>2, RankTyped
<1>2. CASE Arrives(m, p)
  <2>1. PICK q \in Seq(Packet) : q = inbox[m]
    BY DEF TypeOK, InboxOK
  <2>2. inbox'[m] = Append(q, p) /\ \A x \in Nodes \ {m} : inbox'[x] = inbox[x]
    BY <1>2, <2>1 DEF Arrives, TypeOK, InboxOK
  <2>3. Waits' + Burden(inbox[m]) = Waits + Burden(inbox'[m])
    BY <2>2, WaitsChange
  <2>4. Burden(Append(q, p)) = Burden(q) + Weight(p) /\ Burden(q) \in Nat
    BY <1>1, BurdenAppend, BurdenTyped
  <2>5. PICK r : r = inbox'[m]
    OBVIOUS
  <2>6. Waits' \in Nat
    <3>1. (TypeOK => Waits \in Nat)'
      BY RankTyped, PTL
    <3> QED
      BY <3>1
  <2>7. Waits' + Burden(q) = Waits + (Burden(q) + Weight(p))
    BY <2>1, <2>2, <2>3, <2>4, <2>5
  <2> QED
    BY <1>1, <2>4, <2>6, <2>7
<1>3. CASE Fails(m)
  <2>1. UNCHANGED inbox
    BY <1>3 DEF Fails
  <2>2. Waits' = Waits
    BY <2>1 DEF Waits
  <2> QED
    BY <1>1, <2>2
<1> QED
  BY <1>2, <1>3 DEF Send

LEMMA WaitsTake ==
  ASSUME IsFiniteSet(Nodes), IsFiniteSet(Workers), TypeOK, TypeOK',
         NEW n \in Nodes, NEW k \in 1..Len(inbox[n]),
         inbox' = [inbox EXCEPT ![n] = Without(@, k)]
  PROVE  Waits' + Weight(inbox[n][k]) = Waits
<1>1. Peers \in Nat /\ Waits \in Nat
  BY SizesTyped, RankTyped
<1>2. PICK q \in Seq(Packet) : q = inbox[n]
  BY DEF TypeOK, InboxOK
<1>3. inbox'[n] = Without(q, k) /\ \A x \in Nodes \ {n} : inbox'[x] = inbox[x]
  BY <1>2 DEF TypeOK, InboxOK
<1>4. Waits' + Burden(inbox[n]) = Waits + Burden(inbox'[n])
  BY <1>3, WaitsChange
<1>5. Burden(Without(q, k)) + Weight(q[k]) = Burden(q) /\ Burden(q) \in Nat /\ Weight(q[k]) \in Nat
  BY <1>1, <1>2, BurdenWithout, BurdenTyped
<1>6. PICK b \in Int : b = Burden(Without(q, k))
  <2>1. Without(q, k) \in Seq(Packet)
    BY <1>2, WithoutPlaces
  <2>2. Burden(Without(q, k)) \in Nat
    BY <1>1, <2>1, BurdenTyped
  <2> QED
    BY <2>2
<1>7. PICK r : r = inbox'[n]
  OBVIOUS
<1>8. Waits' + Burden(q) = Waits + b
  BY <1>2, <1>3, <1>4, <1>6, <1>7
<1>9. Waits' \in Nat
  <2>1. (TypeOK => Waits \in Nat)'
    BY RankTyped, PTL
  <2> QED
    BY <2>1
<1>10. PICK c \in Nat : c = Weight(q[k])
  BY <1>5
<1>11. PICK a \in Nat : a = Burden(q) /\ b + c = a
  BY <1>5, <1>6, <1>10
<1>12. PICK y \in Nat : y = Waits'
  BY <1>9
<1>13. y + a = Waits + b
  BY <1>8, <1>11, <1>12
<1>14. y + c = Waits
  BY <1>1, <1>11, <1>13
<1> QED
  BY <1>2, <1>10, <1>12, <1>14

LEMMA WorksChange ==
  ASSUME IsFiniteSet(Nodes), IsFiniteSet(Workers), TypeOK, TypeOK',
         NEW n \in Nodes, NEW w \in Workers, NEW s, Do(n, w, s), UNCHANGED sign
  PROVE  /\ Works' + Ahead(work[n][w], sign[n]) = Works + Ahead(s, sign[n])
         /\ Ahead(work[n][w], sign[n]) \in Nat /\ Ahead(s, sign[n]) \in Nat
<1> DEFINE A == Nodes \X Workers
<1>1. IsFiniteSet(A)
  BY SizesTyped
<1>2. PICK f : f = [x \in A |-> Ahead(work[x[1]][x[2]], sign[x[1]])]
  OBVIOUS
<1>3. PICK v : v = work'
  OBVIOUS
<1>4. PICK g : g = [x \in A |-> Ahead(v[x[1]][x[2]], sign[x[1]])]
  OBVIOUS
<1>5. v \in [Nodes -> [Workers -> WorkState]] /\ sign \in [Nodes -> BOOLEAN]
  BY <1>3 DEF TypeOK
<1>6. /\ v[n][w] = s
      /\ \A x \in A \ {<<n, w>>} : v[x[1]][x[2]] = work[x[1]][x[2]]
  BY <1>3 DEF Do, TypeOK
<1>7. \A x \in A : f[x] \in Nat /\ g[x] \in Nat
  BY <1>2, <1>4, <1>5, EffortsTyped DEF TypeOK
<1>8. PICK c \in A : c = <<n, w>> /\ c[1] = n /\ c[2] = w
  <2>1. <<n, w>> \in A /\ <<n, w>>[1] = n /\ <<n, w>>[2] = w
    OBVIOUS
  <2> QED
    BY <2>1, Zenon
<1>9. \A x \in A \ {c} : g[x] = f[x]
  BY <1>2, <1>4, <1>6, <1>8
<1>10. Total(A, g) + f[c] = Total(A, f) + g[c]
  BY <1>1, <1>7, <1>9, TotalChange
<1>11. Works = Total(A, f) /\ Works' = Total(A, g)
  BY <1>2, <1>3, <1>4 DEF Works
<1>12. f[c] = Ahead(work[n][w], sign[n]) /\ g[c] = Ahead(s, sign[n])
  BY <1>2, <1>4, <1>6, <1>8
<1> QED
  BY <1>7, <1>10, <1>11, <1>12

LEMMA TasksChange ==
  ASSUME IsFiniteSet(Nodes), IsFiniteSet(Workers), TypeOK, TypeOK', NEW n \in Nodes,
         \A x \in Nodes \ {n} : out'[x] = out[x] /\ quit'[x] = quit[x]
  PROVE  Tasks' + (SignInEffort(out[n]) + QuitEffort(quit[n]))
           = Tasks + (SignInEffort(out'[n]) + QuitEffort(quit'[n]))
<1>1. PICK o \in [Nodes -> OutState] : o = out'
  BY DEF TypeOK
<1>2. PICK t \in [Nodes -> QuitState] : t = quit'
  BY DEF TypeOK
<1>3. PICK f : f = [x \in Nodes |-> SignInEffort(out[x]) + QuitEffort(quit[x])]
  OBVIOUS
<1>4. PICK g : g = [x \in Nodes |-> SignInEffort(o[x]) + QuitEffort(t[x])]
  OBVIOUS
<1>5. ASSUME NEW x \in Nodes
      PROVE  f[x] \in Nat /\ g[x] \in Nat
  <2>1. SignInEffort(out[x]) \in Nat /\ QuitEffort(quit[x]) \in Nat
    BY EffortsTyped DEF TypeOK
  <2>2. SignInEffort(o[x]) \in Nat /\ QuitEffort(t[x]) \in Nat
    BY EffortsTyped
  <2> QED
    BY <1>3, <1>4, <2>1, <2>2
<1>6. \A x \in Nodes \ {n} : g[x] = f[x]
  BY <1>1, <1>2, <1>3, <1>4
<1>7. Total(Nodes, g) + f[n] = Total(Nodes, f) + g[n]
  BY <1>5, <1>6, TotalChange
<1>8. Tasks = Total(Nodes, f) /\ Tasks' = Total(Nodes, g)
  BY <1>1, <1>2, <1>3, <1>4 DEF Tasks
<1> QED
  BY <1>1, <1>2, <1>3, <1>4, <1>7, <1>8

LEMMA LoadTypedNext ==
  ASSUME IsFiniteSet(Nodes), IsFiniteSet(Workers), TypeOK'
  PROVE  Waits' \in Nat /\ Works' \in Nat /\ Tasks' \in Nat /\ Load' \in Nat
<1>1. (TypeOK => Waits \in Nat /\ Works \in Nat /\ Tasks \in Nat /\ Load \in Nat)'
  BY RankTyped, PTL
<1> QED
  BY <1>1

(* What a worker sends and what it still has to do is less than what it had *)
(* to do.                                                                   *)
LEMMA WorkerFalls ==
  ASSUME IsFiniteSet(Nodes), IsFiniteSet(Workers), TypeOK, TypeOK',
         NEW n \in Nodes, NEW w \in Workers, NEW s, Do(n, w, s), UNCHANGED <<sign, out, quit>>,
         NEW d \in Nat, Waits' <= Waits + d, Ahead(s, sign[n]) + d < Ahead(work[n][w], sign[n])
  PROVE  Load' < Load
<1>1. Waits \in Nat /\ Works \in Nat /\ Tasks \in Nat
  BY RankTyped
<1>2. Waits' \in Nat /\ Works' \in Nat
  BY LoadTypedNext
<1>3. Tasks' = Tasks
  BY DEF Tasks
<1>4. PICK a \in Nat, b \in Nat :
        /\ a = Ahead(work[n][w], sign[n]) /\ b = Ahead(s, sign[n])
        /\ Works' + a = Works + b
  BY WorksChange
<1>5. b + d < a
  BY <1>4
<1>6. PICK x \in Nat, y \in Nat : x = Waits' /\ y = Works'
  BY <1>2
<1>7. x + y < Waits + Works
  <2>1. y + a = Works + b /\ x <= Waits + d
    BY <1>4, <1>6
  <2> QED
    BY <1>1, <1>5, <2>1
<1>8. x + y + Tasks < Waits + Works + Tasks
  BY <1>1, <1>7
<1>9. Load' = x + y + Tasks
  BY <1>3, <1>6 DEF Load
<1> QED
  BY <1>8, <1>9 DEF Load

LEMMA TakeFalls ==
  ASSUME IsFiniteSet(Nodes), IsFiniteSet(Workers), TypeOK, TypeOK',
         NEW n \in Nodes, NEW w \in Workers, NEW i, Take(n, w, i)
  PROVE  Load' < Load
<1>1. Waits \in Nat /\ Works \in Nat /\ Tasks \in Nat /\ Peers \in Nat /\ Again \in Nat
  BY RankTyped, SizesTyped
<1>2. Waits' \in Nat /\ Works' \in Nat
  BY LoadTypedNext
<1>3. Tasks' = Tasks
  BY DEF Tasks, Take
<1>4. PICK p \in Packet : p = inbox[n][i]
  BY DEF Take, Takeable, TypeOK, InboxOK
<1>5. PICK s : s = At(FirstStage(n, p), p, {})
  OBVIOUS
<1>6. Do(n, w, s) /\ UNCHANGED sign /\ work[n][w] = Idle
  BY <1>4, <1>5 DEF Take, Takeable, IdleWorkers, nodeVars
<1>7. Weight(p) \in Nat
  BY <1>1 DEF Weight
<1>8. Waits' + Weight(p) = Waits
  BY <1>4, WaitsTake DEF Take, Takeable
<1>9. PICK a \in Nat, b \in Nat :
        /\ a = Ahead(Idle, sign[n]) /\ b = Ahead(s, sign[n])
        /\ Works' + a = Works + b
  BY <1>6, WorksChange
<1>10. a = IF sign[n] THEN Again ELSE 0
  BY <1>1, <1>9 DEF Ahead, Effort, Listening, Idle
<1>11. b < a + Weight(p)
  <2>1. b = Effort(s) + IF sign[n] /\ ~Listening(s) THEN Again ELSE 0
    BY <1>9 DEF Ahead
  <2>2. s.packet = p /\ s.at = FirstStage(n, p)
    BY <1>5 DEF At
  <2>3. CASE p.type = "SIGN_OUT"
    <3>1. s.at = "delete"
      BY <2>2, <2>3 DEF FirstStage
    <3>2. Effort(s) = 1 /\ Weight(p) = 2
      BY <2>3, <3>1 DEF Effort, Weight
    <3> QED
      BY <1>1, <1>10, <2>1, <3>2
  <2>4. CASE p.type = "SIGN_IN"
    <3>1. s.at \in {"update", "reply"}
      BY <2>2, <2>4 DEF FirstStage
    <3>2. Answer(p) = Peers + 2
      BY <2>4 DEF Answer
    <3>3. Effort(s) \in Nat /\ Effort(s) <= 5 * Peers + 6
      BY <1>1, <2>2, <3>1, <3>2 DEF Effort
    <3>4. Weight(p) = 5 * Peers + 7
      BY <2>4 DEF Weight
    <3> QED
      BY <1>1, <1>10, <2>1, <3>3, <3>4
  <2>5. CASE p.type = "MEMBER_LIST" /\ ~Forwards(n, p)
    <3>1. s.at = "insert"
      BY <2>2, <2>5 DEF FirstStage
    <3>2. Effort(s) = 2 /\ Weight(p) = 3
      BY <2>5, <3>1 DEF Effort, Weight
    <3> QED
      BY <1>1, <1>10, <2>1, <3>2
  <2>6. CASE p.type = "MEMBER_LIST" /\ Forwards(n, p)
    <3>1. s.at = "update" /\ sign[n]
      BY <2>2, <2>6 DEF FirstStage, Forwards
    <3>2. Answer(p) = 0 /\ Weight(p) = 3
      BY <2>6 DEF Answer, Weight
    <3>3. Effort(s) = 4 * Peers + 4
      BY <1>1, <2>2, <3>1, <3>2 DEF Effort
    <3>4. Listening(s)
      BY <2>2, <2>6, <3>1 DEF Listening
    <3>5. b = 4 * Peers + 4 /\ a = 4 * Peers + 2
      BY <1>1, <1>10, <2>1, <3>1, <3>3, <3>4 DEF Again
    <3> QED
      BY <1>1, <3>2, <3>5
  <2> QED
    BY <2>3, <2>4, <2>5, <2>6 DEF Packet
<1>12. PICK c \in Nat, x \in Nat, y \in Nat : c = Weight(p) /\ x = Waits' /\ y = Works'
  BY <1>2, <1>7
<1>13. x + c = Waits /\ b < a + c /\ y + a = Works + b
  BY <1>8, <1>9, <1>11, <1>12
<1>14. x + y + Tasks < Waits + Works + Tasks
  BY <1>1, <1>9, <1>13
<1>15. Load' = x + y + Tasks
  BY <1>3, <1>12 DEF Load
<1> QED
  BY <1>14, <1>15 DEF Load

LEMMA UpdateFalls ==
  ASSUME IsFiniteSet(Nodes), IsFiniteSet(Workers), PeerInv, TypeOK, TypeOK',
         NEW n \in Nodes, NEW w \in Workers,
         UpdateLock(n, w) \/ UpdateSend(n, w) \/ UpdateUnlock(n, w)
  PROVE  Load' < Load
<1>1. PICK s : s = work[n][w]
  OBVIOUS
<1>2. /\ Waits \in Nat /\ Peers \in Nat /\ Again \in Nat
      /\ \A S \in SUBSET Nodes : Cardinality(S) \in 0..Peers
  BY RankTyped, SizesTyped
<1>3. Stage(s) /\ sign[n] \in BOOLEAN
  BY <1>1, StageOfWork DEF PeerInv, TypeOK
<1>4. CASE UpdateLock(n, w)
  <2>1. PICK t : t = At("sending", s.packet, members[n])
    OBVIOUS
  <2>2. Do(n, w, t) /\ UNCHANGED <<sign, inbox, out, quit>> /\ s.at = "update"
    BY <1>1, <1>4, <2>1 DEF UpdateLock, netVars
  <2>3. Waits' <= Waits + 0
    BY <1>2, <2>2 DEF Waits
  <2>4. PICK c \in 0..Peers : c = Cardinality(t.todo)
    BY <1>2, <2>1 DEF At, TypeOK
  <2>5. t.at = "sending" /\ t.packet = s.packet
    BY <2>1 DEF At
  <2>6. PICK e \in Nat : e = Answer(s.packet)
    BY <1>2 DEF Answer
  <2>7. Effort(t) = 4 * c + 3 + e /\ Effort(s) = 4 * Peers + 4 + e
    BY <2>2, <2>4, <2>5, <2>6 DEF Effort
  <2>8. Listening(t) <=> Listening(s)
    BY <2>2, <2>5 DEF Listening
  <2>9. Ahead(t, sign[n]) + 0 < Ahead(s, sign[n])
    BY <1>2, <1>3, <2>4, <2>6, <2>7, <2>8 DEF Ahead
  <2> QED
    BY <1>1, <2>2, <2>3, <2>9, WorkerFalls
<1>5. CASE UpdateSend(n, w)
  <2>1. PICK m \in s.todo :
          /\ Send(m, MemberList(s.packet.list))
          /\ Do(n, w, At("sending", s.packet, s.todo \ {m}))
    BY <1>1, <1>5 DEF UpdateSend
  <2>2. PICK t : t = At("sending", s.packet, s.todo \ {m})
    OBVIOUS
  <2>3. UNCHANGED <<sign, out, quit>> /\ s.at = "sending"
    BY <1>1, <1>5 DEF UpdateSend, nodeVars
  <2>4. /\ s.todo \in SUBSET Nodes /\ m \in Nodes
        /\ s.packet \in Packet /\ s.packet.type # "SIGN_OUT" /\ CleanPacket(s.packet)
    BY <1>3, <2>1, <2>3 DEF Stage, Idle
  <2>5. MemberList(s.packet.list) \in Packet
    BY <2>4, ListPackets DEF CleanPacket
  <2>6. Weight(MemberList(s.packet.list)) = 3
    BY DEF Weight, MemberList
  <2>7. Waits' <= Waits + 3
    BY <2>1, <2>4, <2>5, <2>6, WaitsSend
  <2>8. PICK c \in Nat, e \in Nat : c = Cardinality(s.todo) /\ e = Answer(s.packet)
    BY <1>2, <2>4 DEF Answer
  <2>9. Cardinality(t.todo) = c - 1
    <3>1. IsFiniteSet(s.todo)
      BY <2>4, FS_Subset
    <3> QED
      BY <2>1, <2>2, <2>8, <3>1, FS_RemoveElement DEF At
  <2>10. t.at = "sending" /\ t.packet = s.packet
    BY <2>2 DEF At
  <2>11. Effort(t) = 4 * (c - 1) + 3 + e /\ Effort(s) = 4 * c + 3 + e
    BY <2>3, <2>8, <2>9, <2>10 DEF Effort
  <2>12. Listening(t) <=> Listening(s)
    BY <2>3, <2>10 DEF Listening
  <2>13. Ahead(t, sign[n]) + 3 < Ahead(s, sign[n])
    BY <1>2, <1>3, <2>8, <2>11, <2>12 DEF Ahead
  <2> QED
    BY <1>1, <2>1, <2>2, <2>3, <2>7, <2>13, WorkerFalls
<1>6. CASE UpdateUnlock(n, w)
  <2>1. PICK t : t = At(IF s.packet.type = "SIGN_IN" THEN "reply" ELSE "insert", s.packet, {})
    OBVIOUS
  <2>2. Do(n, w, t) /\ UNCHANGED <<sign, inbox, out, quit>> /\ s.at = "sending" /\ s.todo = {}
    BY <1>1, <1>6, <2>1 DEF UpdateUnlock, netVars
  <2>3. Waits' <= Waits + 0
    BY <1>2, <2>2 DEF Waits
  <2>4. Effort(s) = 3 + Answer(s.packet)
    <3>1. Cardinality(s.todo) = 0
      BY <2>2, FS_EmptySet
    <3> QED
      BY <1>2, <2>2, <3>1 DEF Effort, Answer
  <2>5. t.packet = s.packet /\ t.at = IF s.packet.type = "SIGN_IN" THEN "reply" ELSE "insert"
    BY <2>1 DEF At
  <2>6. Effort(t) < Effort(s) /\ Effort(t) \in Nat /\ Effort(s) \in Nat
    <3>1. CASE s.packet.type = "SIGN_IN"
      <4>1. Effort(t) = Peers + 4 /\ Effort(s) = 3 + (Peers + 2)
        BY <2>4, <2>5, <3>1 DEF Effort, Answer
      <4> QED
        BY <1>2, <4>1
    <3>2. CASE s.packet.type # "SIGN_IN"
      <4>1. Answer(s.packet) = 0
        BY <3>2 DEF Answer
      <4>2. Effort(t) = 2
        BY <2>5, <3>2 DEF Effort
      <4> QED
        BY <2>4, <4>1, <4>2
    <3> QED
      BY <3>1, <3>2
  <2>7. Listening(t) <=> Listening(s)
    BY <2>2, <2>5 DEF Listening
  <2>8. Ahead(t, sign[n]) + 0 < Ahead(s, sign[n])
    BY <1>2, <1>3, <2>6, <2>7 DEF Ahead
  <2> QED
    BY <1>1, <2>2, <2>3, <2>8, WorkerFalls
<1> QED
  BY <1>4, <1>5, <1>6

LEMMA ReplyFalls ==
  ASSUME IsFiniteSet(Nodes), IsFiniteSet(Workers), PeerInv, TypeOK, TypeOK',
         NEW n \in Nodes, NEW w \in Workers, Reply(n, w)
  PROVE  Load' < Load
<1>1. PICK s : s = work[n][w]
  OBVIOUS
<1>2. /\ Waits \in Nat /\ Peers \in Nat /\ Again \in Nat
      /\ \A S \in SUBSET Nodes : Cardinality(S) \in 0..Peers
  BY RankTyped, SizesTyped
<1>3. Stage(s) /\ sign[n] \in BOOLEAN
  BY <1>1, StageOfWork DEF PeerInv, TypeOK
<1>4. PICK t : t = At("add", s.packet, s.packet.list)
  OBVIOUS
<1>5. /\ s.at = "reply" /\ Do(n, w, t) /\ UNCHANGED <<sign, out, quit>>
      /\ Send(s.packet.first, MemberList(Everyone(n)))
  BY <1>1, <1>4 DEF Reply, nodeVars
<1>6. /\ s.packet \in Packet /\ s.packet.type = "SIGN_IN"
      /\ s.packet.first \in Nodes /\ s.packet.list \in SUBSET Nodes
  BY <1>3, <1>5 DEF Stage, Idle, Packet
<1>7. MemberList(Everyone(n)) \in Packet
  BY EveryoneIsClean, ListPackets DEF PeerInv, TypeOK
<1>8. Weight(MemberList(Everyone(n))) = 3
  BY DEF Weight, MemberList
<1>9. Waits' <= Waits + 3
  BY <1>5, <1>6, <1>7, <1>8, WaitsSend
<1>10. t.at = "add" /\ t.packet = s.packet /\ t.todo = s.packet.list
  BY <1>4 DEF At
<1>11. PICK c \in 0..Peers : c = Cardinality(t.todo)
  BY <1>2, <1>6, <1>10
<1>12. Effort(t) = c /\ Effort(s) = Peers + 4
  BY <1>5, <1>10, <1>11 DEF Effort
<1>13. Listening(t) <=> Listening(s)
  BY <1>5, <1>10 DEF Listening
<1>14. Ahead(t, sign[n]) + 3 < Ahead(s, sign[n])
  BY <1>2, <1>3, <1>11, <1>12, <1>13 DEF Ahead
<1> QED
  BY <1>1, <1>5, <1>9, <1>14, WorkerFalls

LEMMA AddFalls ==
  ASSUME IsFiniteSet(Nodes), IsFiniteSet(Workers), PeerInv, TypeOK, TypeOK',
         NEW n \in Nodes, NEW w \in Workers, Add(n, w)
  PROVE  Load' < Load
<1>1. PICK s : s = work[n][w]
  OBVIOUS
<1>2. Waits \in Nat /\ Peers \in Nat /\ Again \in Nat
  BY RankTyped, SizesTyped
<1>3. Stage(s) /\ sign[n] \in BOOLEAN
  BY <1>1, StageOfWork DEF PeerInv, TypeOK
<1>4. PICK m \in s.todo :
        Do(n, w, IF s.todo = {m} THEN Idle ELSE At("add", s.packet, s.todo \ {m}))
  BY <1>1 DEF Add
<1>5. s.at = "add" /\ UNCHANGED <<sign, inbox, out, quit>>
  BY <1>1 DEF Add, netVars
<1>6. s.packet.type = "SIGN_IN" /\ s.todo \in SUBSET Nodes
  BY <1>3, <1>5 DEF Stage, Idle
<1>7. IsFiniteSet(s.todo)
  BY <1>6, FS_Subset
<1>8. PICK c \in Nat : c = Cardinality(s.todo)
  BY <1>7, FS_CardinalityType
<1>9. PICK t : t = IF s.todo = {m} THEN Idle ELSE At("add", s.packet, s.todo \ {m})
  OBVIOUS
<1>10. Effort(s) = c /\ ~Listening(s)
  BY <1>5, <1>6, <1>8 DEF Effort, Listening
<1>11. Effort(t) = c - 1 /\ ~Listening(t)
  <2>1. CASE s.todo = {m}
    <3>1. c = 1
      BY <1>8, <2>1, FS_Singleton
    <3> QED
      BY <1>9, <2>1, <3>1 DEF Idle, Effort, Listening
  <2>2. CASE s.todo # {m}
    <3>1. t.at = "add" /\ t.packet = s.packet /\ t.todo = s.todo \ {m}
      BY <1>9, <2>2 DEF At
    <3>2. Cardinality(t.todo) = c - 1
      BY <1>7, <1>8, <3>1, FS_RemoveElement
    <3> QED
      BY <1>6, <3>1, <3>2 DEF Effort, Listening
  <2> QED
    BY <2>1, <2>2
<1>12. Ahead(t, sign[n]) + 0 < Ahead(s, sign[n])
  BY <1>2, <1>3, <1>8, <1>10, <1>11 DEF Ahead
<1>13. Waits' <= Waits + 0
  BY <1>2, <1>5 DEF Waits
<1> QED
  BY <1>1, <1>4, <1>5, <1>9, <1>12, <1>13, WorkerFalls

LEMMA InsertFalls ==
  ASSUME IsFiniteSet(Nodes), IsFiniteSet(Workers), PeerInv, TypeOK, TypeOK',
         NEW n \in Nodes, NEW w \in Workers, InsertAll(n, w) \/ Delete(n, w)
  PROVE  Load' < Load
<1>1. PICK s : s = work[n][w]
  OBVIOUS
<1>2. Waits \in Nat /\ Peers \in Nat /\ Again \in Nat
  BY RankTyped, SizesTyped
<1>3. Stage(s) /\ sign[n] \in BOOLEAN
  BY <1>1, StageOfWork DEF PeerInv, TypeOK
<1>4. UNCHANGED <<sign, inbox, out, quit>>
  BY DEF InsertAll, Delete, netVars
<1>5. Waits' <= Waits + 0
  BY <1>2, <1>4 DEF Waits
<1>6. CASE InsertAll(n, w)
  <2>1. PICK t : t = At("clear", s.packet, {})
    OBVIOUS
  <2>2. s.at = "insert" /\ Do(n, w, t)
    BY <1>1, <1>6, <2>1 DEF InsertAll
  <2>3. t.at = "clear" /\ t.packet = s.packet
    BY <2>1 DEF At
  <2>4. Effort(s) = 2 /\ Effort(t) = 1
    BY <2>2, <2>3 DEF Effort
  <2>5. Listening(t) <=> Listening(s)
    BY <2>2, <2>3 DEF Listening
  <2>6. Ahead(t, sign[n]) + 0 < Ahead(s, sign[n])
    BY <1>2, <1>3, <2>4, <2>5 DEF Ahead
  <2> QED
    BY <1>1, <1>4, <1>5, <2>2, <2>6, WorkerFalls
<1>7. CASE Delete(n, w)
  <2>1. s.at = "delete" /\ Do(n, w, Idle)
    BY <1>1, <1>7 DEF Delete
  <2>2. s.packet.type = "SIGN_OUT"
    BY <1>3, <2>1 DEF Stage, Idle
  <2>3. Effort(s) = 1 /\ Effort(Idle) = 0
    BY <2>1 DEF Effort, Idle
  <2>4. ~Listening(s) /\ ~Listening(Idle)
    BY <2>1, <2>2 DEF Listening, Idle
  <2>5. Ahead(Idle, sign[n]) + 0 < Ahead(s, sign[n])
    BY <1>2, <1>3, <2>3, <2>4 DEF Ahead
  <2> QED
    BY <1>1, <1>4, <1>5, <2>1, <2>5, WorkerFalls
<1> QED
  BY <1>6, <1>7

(* The flag is cleared for all workers of the node.                         *)
LEMMA ClearFalls ==
  ASSUME IsFiniteSet(Nodes), IsFiniteSet(Workers), PeerInv, TypeOK, TypeOK',
         NEW n \in Nodes, NEW w \in Workers, ClearFlag(n, w)
  PROVE  Load' < Load
<1> DEFINE A == Nodes \X Workers
<1>1. Again \in Nat /\ IsFiniteSet(A)
  BY SizesTyped
<1>2. Waits \in Nat /\ Works \in Nat /\ Tasks \in Nat
  BY RankTyped
<1>3. Waits' = Waits /\ Tasks' = Tasks
  BY DEF ClearFlag, netVars, Waits, Tasks
<1>4. PICK v \in [Nodes -> [Workers -> WorkState]] : v = work'
  BY DEF TypeOK
<1>5. PICK z \in [Nodes -> BOOLEAN] : z = sign'
  BY DEF TypeOK
<1>6. PICK f : f = [x \in A |-> Ahead(work[x[1]][x[2]], sign[x[1]])]
  OBVIOUS
<1>7. PICK g : g = [x \in A |-> Ahead(v[x[1]][x[2]], z[x[1]])]
  OBVIOUS
<1>8. \A x \in A : f[x] \in Nat /\ g[x] \in Nat
  BY <1>6, <1>7, EffortsTyped DEF TypeOK
<1>9. /\ v[n][w] = Idle /\ ~z[n]
      /\ \A y \in Nodes, u \in Workers : <<y, u>> # <<n, w>> => v[y][u] = work[y][u]
      /\ \A y \in Nodes : z[y] => sign[y]
  BY <1>4, <1>5 DEF ClearFlag, Do, TypeOK
<1>10. \A y \in Nodes, u \in Workers :
         /\ work[y][u] \in WorkState /\ sign[y] \in BOOLEAN
         /\ Effort(work[y][u]) \in Nat
  BY EffortsTyped DEF TypeOK
<1>11. Ahead(v[n][w], z[n]) = 0 /\ Ahead(work[n][w], sign[n]) > 0
  <2>1. Effort(work[n][w]) = 1 /\ Effort(Idle) = 0
    BY DEF ClearFlag, Effort, Idle
  <2> QED
    BY <1>1, <1>9, <1>10, <2>1 DEF Ahead
<1>12. ASSUME NEW y \in Nodes, NEW u \in Workers
       PROVE  Ahead(v[y][u], z[y]) <= Ahead(work[y][u], sign[y])
  <2>1. CASE <<y, u>> = <<n, w>>
    BY <1>11, <2>1, EffortsTyped, <1>10
  <2>2. CASE <<y, u>> # <<n, w>>
    <3>1. v[y][u] = work[y][u] /\ (z[y] => sign[y])
      BY <1>9, <2>2
    <3> QED
      BY <1>1, <1>10, <3>1 DEF Ahead
  <2> QED
    BY <2>1, <2>2
<1>13. \A x \in A : g[x] <= f[x]
  BY <1>6, <1>7, <1>12
<1>14. PICK c \in A : c = <<n, w>> /\ c[1] = n /\ c[2] = w
  <2>1. <<n, w>> \in A /\ <<n, w>>[1] = n /\ <<n, w>>[2] = w
    OBVIOUS
  <2> QED
    BY <2>1, Zenon
<1>15. g[c] < f[c]
  BY <1>6, <1>7, <1>11, <1>14
<1>16. Total(A, g) < Total(A, f)
  BY <1>1, <1>8, <1>13, <1>15, TotalLess
<1>17. Works = Total(A, f) /\ Works' = Total(A, g)
  BY <1>4, <1>5, <1>6, <1>7 DEF Works
<1>18. PICK y \in Nat : y = Works'
  BY LoadTypedNext
<1>19. Waits + y + Tasks < Waits + Works + Tasks
  BY <1>2, <1>16, <1>17, <1>18
<1>20. Load' = Waits + y + Tasks
  BY <1>3, <1>18 DEF Load
<1> QED
  BY <1>19, <1>20 DEF Load

LEMMA HandlerFalls ==
  ASSUME IsFiniteSet(Nodes), IsFiniteSet(Workers), PeerInv, TypeOK, TypeOK',
         NEW n \in Nodes, NEW w \in Workers, Handler(n, w)
  PROVE  Load' < Load
<1>1. CASE \E i \in 1..Backlog : Take(n, w, i)
  BY <1>1, TakeFalls
<1>2. CASE UpdateLock(n, w) \/ UpdateSend(n, w) \/ UpdateUnlock(n, w)
  BY <1>2, UpdateFalls
<1>3. CASE Reply(n, w)
  BY <1>3, ReplyFalls
<1>4. CASE Add(n, w)
  BY <1>4, AddFalls
<1>5. CASE InsertAll(n, w) \/ Delete(n, w)
  BY <1>5, InsertFalls
<1>6. CASE ClearFlag(n, w)
  BY <1>6, ClearFalls
<1> QED
  BY <1>1, <1>2, <1>3, <1>4, <1>5, <1>6 DEF Handler

(* The flag lets every worker of the node pass one more list on.            *)
LEMMA FlagRaises ==
  ASSUME IsFiniteSet(Nodes), IsFiniteSet(Workers), TypeOK, TypeOK',
         NEW n \in Nodes, SignInFlag(n)
  PROVE  Works' <= Works + Crew * Again
<1> DEFINE A == Nodes \X Workers
           C == {n} \X Workers
<1>1. Again \in Nat /\ IsFiniteSet(A) /\ Crew \in Nat
  BY SizesTyped
<1>2. C \in SUBSET A /\ Cardinality(C) = Crew
  <2>1. IsFiniteSet({n}) /\ Cardinality({n}) = 1
    BY FS_Singleton
  <2>2. Cardinality(C) = Cardinality({n}) * Crew
    BY <2>1, FS_Product DEF Crew
  <2> QED
    BY <1>1, <2>1, <2>2
<1>3. PICK z \in [Nodes -> BOOLEAN] : z = sign'
  BY DEF TypeOK
<1>4. PICK f : f = [x \in A |-> Ahead(work[x[1]][x[2]], sign[x[1]])]
  OBVIOUS
<1>5. PICK g : g = [x \in A |-> Ahead(work[x[1]][x[2]], z[x[1]])]
  OBVIOUS
<1>6. \A x \in A : f[x] \in Nat /\ g[x] \in Nat
  BY <1>4, <1>5, EffortsTyped DEF TypeOK
<1>7. z[n] /\ \A y \in Nodes : y # n => z[y] = sign[y]
  BY <1>3 DEF SignInFlag, TypeOK
<1>8. \A x \in A \ C : g[x] <= f[x]
  <2>1. \A x \in A \ C : x[1] \in Nodes /\ x[1] # n
    OBVIOUS
  <2>2. \A x \in A \ C : g[x] = f[x]
    BY <1>4, <1>5, <1>7, <2>1
  <2> QED
    BY <1>6, <2>2
<1>9. \A x \in C : g[x] <= f[x] + Again
  <2> SUFFICES ASSUME NEW u \in Workers PROVE g[<<n, u>>] <= f[<<n, u>>] + Again
    OBVIOUS
  <2>1. /\ f[<<n, u>>] = Ahead(work[n][u], sign[n])
        /\ g[<<n, u>>] = Ahead(work[n][u], z[n])
    BY <1>4, <1>5
  <2>2. Effort(work[n][u]) \in Nat /\ sign[n] \in BOOLEAN /\ z[n] \in BOOLEAN
    BY EffortsTyped DEF TypeOK
  <2>3. Ahead(work[n][u], z[n]) <= Ahead(work[n][u], sign[n]) + Again
    BY <1>1, <2>2 DEF Ahead
  <2> QED
    BY <2>1, <2>3
<1>10. Works = Total(A, f) /\ Works' = Total(A, g)
  BY <1>3, <1>4, <1>5 DEF Works, SignInFlag
<1> HIDE DEF A, C
<1>11. Total(A, g) <= Total(A, f) + Cardinality(C) * Again
  BY <1>1, <1>2, <1>6, <1>8, <1>9, TotalRaise
<1> QED
  BY <1>2, <1>10, <1>11

LEMMA SignInFalls ==
  ASSUME IsFiniteSet(Nodes), IsFiniteSet(Workers), PeerInv, TypeOK, TypeOK',
         NEW n \in Nodes, SignInTask(n)
  PROVE  Load' < Load
<1>1. Waits \in Nat /\ Works \in Nat /\ Tasks \in Nat /\ Peers \in Nat
  BY RankTyped, SizesTyped
<1>2. PICK x \in Nat, y \in Nat, t \in Nat : x = Waits' /\ y = Works' /\ t = Tasks'
  BY LoadTypedNext
<1>3. Load' = x + y + t
  BY <1>2 DEF Load
<1>4. PICK F \in Nat : F = Crew * Again
  BY SizesTyped
<1>5. PICK o \in [Nodes -> OutState] : o = out'
  BY DEF TypeOK
<1>6. PICK q \in Nat : q = QuitEffort(quit[n])
  BY EffortsTyped DEF TypeOK
<1>7. out[n] \in OutState
  BY DEF TypeOK
<1>8. CASE SignInSend(n)
  <2>1. UNCHANGED <<work, sign, quit>> /\ out[n].at = "lock"
    BY <1>8 DEF SignInSend
  <2>2. y = Works
    BY <1>2, <2>1 DEF Works
  <2>3. PICK e : out' = [out EXCEPT ![n] = e] /\ e \in {Idle, [at |-> "flag"]}
    BY <1>8 DEF SignInSend
  <2>4. o[n] = e /\ \A k \in Nodes \ {n} : out'[k] = out[k] /\ quit'[k] = quit[k]
    BY <1>5, <2>1, <2>3 DEF TypeOK
  <2>5. Tasks' + (SignInEffort(out[n]) + QuitEffort(quit[n]))
          = Tasks + (SignInEffort(out'[n]) + QuitEffort(quit'[n]))
    BY <2>4, TasksChange
  <2>6. SignInEffort(out[n]) = F + 5 * Peers + 9
    BY <1>4, <2>1 DEF SignInEffort
  <2>7. PICK r \in Nat : r = SignInEffort(e)
    BY <2>3, EffortsTyped DEF OutState
  <2>8. t + (F + 5 * Peers + 9 + q) = Tasks + (r + q)
    BY <1>2, <1>5, <1>6, <2>1, <2>4, <2>5, <2>6, <2>7
  <2>9. CASE e = [at |-> "flag"]
    <3>1. r = F + 1
      BY <1>4, <2>7, <2>9 DEF SignInEffort
    <3>2. out[n].to \in Nodes
      BY <1>7, <2>1 DEF OutState, Idle
    <3>3. Arrives(out[n].to, SignIn(n, Everyone(n))) \/ UNCHANGED inbox
      <4>1. e # Idle /\ out'[n] = e
        BY <2>9, <2>3 DEF Idle, TypeOK
      <4> QED
        BY <1>8, <4>1 DEF SignInSend, Fails, TypeOK
    <3>4. SignIn(n, Everyone(n)) \in Packet
      BY EveryoneIsClean, ListPackets DEF PeerInv, TypeOK
    <3>5. Weight(SignIn(n, Everyone(n))) = 5 * Peers + 7
      BY DEF Weight, SignIn
    <3>6. x <= Waits + (5 * Peers + 7)
      <4>1. CASE Arrives(out[n].to, SignIn(n, Everyone(n)))
        BY <1>2, <3>2, <3>4, <3>5, <4>1, WaitsSend DEF Send
      <4>2. CASE UNCHANGED inbox
        <5>1. Waits' = Waits
          BY <4>2 DEF Waits
        <5> QED
          BY <1>1, <1>2, <5>1
      <4> QED
        BY <3>3, <4>1, <4>2
    <3>7. x + y + t < Waits + Works + Tasks
      BY <1>1, <2>2, <2>8, <3>1, <3>6
    <3> QED
      BY <1>3, <3>7 DEF Load
  <2>10. CASE e = Idle
    <3>1. r = 0
      BY <2>7, <2>10 DEF SignInEffort, Idle
    <3>2. UNCHANGED inbox
      <4>1. e # [at |-> "flag"] /\ out'[n] = e
        BY <2>10, <2>3 DEF Idle, TypeOK
      <4> QED
        BY <1>8, <4>1 DEF SignInSend, Fails, TypeOK
    <3>3. x = Waits
      BY <1>2, <3>2 DEF Waits
    <3>4. x + y + t < Waits + Works + Tasks
      BY <1>1, <2>2, <2>8, <3>1, <3>3
    <3> QED
      BY <1>3, <3>4 DEF Load
  <2> QED
    BY <2>3, <2>9, <2>10
<1>9. CASE SignInFlag(n)
  <2>1. UNCHANGED <<inbox, quit>> /\ out[n].at = "flag" /\ out' = [out EXCEPT ![n] = Idle]
    BY <1>9 DEF SignInFlag, netVars
  <2>2. x = Waits
    BY <1>2, <2>1 DEF Waits
  <2>3. o[n] = Idle /\ \A k \in Nodes \ {n} : out'[k] = out[k] /\ quit'[k] = quit[k]
    BY <1>5, <2>1 DEF TypeOK
  <2>4. Tasks' + (SignInEffort(out[n]) + QuitEffort(quit[n]))
          = Tasks + (SignInEffort(out'[n]) + QuitEffort(quit'[n]))
    BY <2>3, TasksChange
  <2>5. SignInEffort(out[n]) = F + 1 /\ SignInEffort(Idle) = 0
    BY <1>4, <2>1 DEF SignInEffort, Idle
  <2>6. t + (F + 1 + q) = Tasks + (0 + q)
    BY <1>2, <1>5, <1>6, <2>1, <2>3, <2>4, <2>5
  <2>7. y <= Works + F
    BY <1>2, <1>4, <1>9, FlagRaises
  <2>8. x + y + t < Waits + Works + Tasks
    BY <1>1, <2>2, <2>6, <2>7
  <2> QED
    BY <1>3, <2>8 DEF Load
<1> QED
  BY <1>8, <1>9 DEF SignInTask

LEMMA QuitFalls ==
  ASSUME IsFiniteSet(Nodes), IsFiniteSet(Workers), PeerInv, TypeOK, TypeOK',
         NEW n \in Nodes, QuitTask(n)
  PROVE  Load' < Load
<1>1. /\ Waits \in Nat /\ Works \in Nat /\ Tasks \in Nat /\ Peers \in Nat
      /\ \A S \in SUBSET Nodes : Cardinality(S) \in 0..Peers
  BY RankTyped, SizesTyped
<1>2. PICK x \in Nat, y \in Nat, t \in Nat : x = Waits' /\ y = Works' /\ t = Tasks'
  BY LoadTypedNext
<1>3. Load' = x + y + t
  BY <1>2 DEF Load
<1>4. PICK q \in [Nodes -> QuitState] : q = quit'
  BY DEF TypeOK
<1>5. PICK o \in Nat : o = SignInEffort(out[n])
  BY EffortsTyped DEF TypeOK
<1>6. UNCHANGED <<work, sign, out>> /\ \A k \in Nodes \ {n} : quit'[k] = quit[k]
  BY DEF QuitTask, QuitLock, QuitSend, QuitUnlock, nodeVars, TypeOK
<1>7. y = Works
  BY <1>2, <1>6 DEF Works
<1>8. PICK a \in Nat, b \in Nat : a = QuitEffort(quit[n]) /\ b = QuitEffort(q[n])
  BY EffortsTyped DEF TypeOK
<1>9. Tasks' + (SignInEffort(out[n]) + QuitEffort(quit[n]))
        = Tasks + (SignInEffort(out'[n]) + QuitEffort(quit'[n]))
  BY <1>6, TasksChange
<1>10. t + (o + a) = Tasks + (o + b)
  BY <1>2, <1>4, <1>5, <1>6, <1>8, <1>9
<1>11. t + a = Tasks + b
  BY <1>1, <1>10
<1>12. CASE QuitLock(n)
  <2>1. UNCHANGED inbox /\ quit[n].at = "lock" /\ q[n] = [at |-> "sending", todo |-> members[n]]
    BY <1>4, <1>12 DEF QuitLock, netVars, TypeOK
  <2>2. x = Waits
    BY <1>2, <2>1 DEF Waits
  <2>3. PICK c \in 0..Peers : c = Cardinality(members[n])
    BY <1>1 DEF TypeOK
  <2>4. a = 3 * Peers + 3 /\ b = 3 * c + 2
    BY <1>8, <2>1, <2>3 DEF QuitEffort
  <2>5. x + y + t < Waits + Works + Tasks
    BY <1>1, <1>7, <1>11, <2>2, <2>3, <2>4
  <2> QED
    BY <1>3, <2>5 DEF Load
<1>13. CASE QuitSend(n)
  <2>1. PICK m \in quit[n].todo :
          Send(m, SignOut(IdOf[n])) /\ quit' = [quit EXCEPT ![n].todo = @ \ {m}]
    BY <1>13 DEF QuitSend
  <2>2. quit[n].at = "sending" /\ quit[n].todo \in SUBSET Nodes
    BY <1>13 DEF QuitSend, TypeOK, QuitState
  <2>3. q[n].at = "sending" /\ q[n].todo = quit[n].todo \ {m}
    BY <1>4, <2>1, <2>2 DEF TypeOK, QuitState
  <2>4. IsFiniteSet(quit[n].todo)
    BY <2>2, FS_Subset
  <2>5. PICK c \in Nat : c = Cardinality(quit[n].todo)
    BY <2>4, FS_CardinalityType
  <2>6. Cardinality(q[n].todo) = c - 1
    <3>1. PICK S : S = quit[n].todo
      OBVIOUS
    <3>2. Cardinality(S \ {m}) = Cardinality(S) - 1
      BY <2>1, <2>4, <3>1, FS_RemoveElement
    <3> QED
      BY <2>3, <2>5, <3>1, <3>2
  <2>7. a = 3 * c + 2 /\ b = 3 * (c - 1) + 2
    BY <1>8, <2>2, <2>3, <2>5, <2>6 DEF QuitEffort
  <2>8. SignOut(IdOf[n]) \in Packet /\ m \in Nodes
    BY <2>1, <2>2, SignOutPackets, PeerAssumption
  <2>9. Weight(SignOut(IdOf[n])) = 2
    BY DEF Weight, SignOut
  <2>10. x <= Waits + 2
    BY <1>2, <2>1, <2>8, <2>9, WaitsSend
  <2>11. x + y + t < Waits + Works + Tasks
    BY <1>1, <1>7, <1>11, <2>7, <2>10
  <2> QED
    BY <1>3, <2>11 DEF Load
<1>14. CASE QuitUnlock(n)
  <2>1. UNCHANGED inbox /\ quit[n].at = "sending" /\ quit[n].todo = {} /\ q[n].at = "sent"
    BY <1>4, <1>14 DEF QuitUnlock, netVars, TypeOK, QuitState
  <2>2. x = Waits
    BY <1>2, <2>1 DEF Waits
  <2>3. a = 2 /\ b = 1
    <3>1. Cardinality({}) = 0
      BY FS_EmptySet
    <3> QED
      BY <1>8, <2>1, <3>1 DEF QuitEffort
  <2>4. x + y + t < Waits + Works + Tasks
    BY <1>1, <1>7, <1>11, <2>2, <2>3
  <2> QED
    BY <1>3, <2>4 DEF Load
<1> QED
  BY <1>12, <1>13, <1>14 DEF QuitTask

(* A process that ends takes its part of every sum with it.                 *)
LEMMA VanishFalls ==
  ASSUME IsFiniteSet(Nodes), IsFiniteSet(Workers), TypeOK, TypeOK',
         NEW n \in Nodes, NEW how, Vanish(n, how)
  PROVE  /\ Works' <= Works
         /\ Waits' + Burden(inbox[n]) = Waits
         /\ Tasks' + (SignInEffort(out[n]) + QuitEffort(quit[n])) = Tasks
<1> DEFINE A == Nodes \X Workers
<1>1. /\ Waits \in Nat /\ Works \in Nat /\ Tasks \in Nat
      /\ Again \in Nat /\ IsFiniteSet(A)
  BY RankTyped, SizesTyped
<1>2. Works' <= Works
  <2>1. PICK v \in [Nodes -> [Workers -> WorkState]] : v = work'
    BY DEF TypeOK
  <2>2. PICK z \in [Nodes -> BOOLEAN] : z = sign'
    BY DEF TypeOK
  <2>3. PICK f : f = [x \in A |-> Ahead(work[x[1]][x[2]], sign[x[1]])]
    OBVIOUS
  <2>4. PICK g : g = [x \in A |-> Ahead(v[x[1]][x[2]], z[x[1]])]
    OBVIOUS
  <2>5. \A x \in A : f[x] \in Nat /\ g[x] \in Nat
    BY <2>3, <2>4, EffortsTyped DEF TypeOK
  <2>6. /\ \A u \in Workers : v[n][u] = Idle
        /\ ~z[n]
        /\ \A y \in Nodes : y # n => v[y] = work[y] /\ z[y] = sign[y]
    BY <2>1, <2>2 DEF Vanish, TypeOK
  <2>7. Ahead(Idle, FALSE) = 0
    BY DEF Ahead, Effort, Idle
  <2>8. ASSUME NEW y \in Nodes, NEW u \in Workers
        PROVE  Ahead(v[y][u], z[y]) <= Ahead(work[y][u], sign[y])
    <3>1. Ahead(work[y][u], sign[y]) \in Nat
      BY EffortsTyped DEF TypeOK
    <3>2. CASE y = n
      <4>1. z[n] = FALSE
        BY <2>2, <2>6
      <4>2. Ahead(v[y][u], z[y]) = 0
        <5>1. v[y][u] = Idle /\ z[y] = FALSE
          BY <2>6, <3>2, <4>1
        <5> QED
          BY <2>7, <5>1, Zenon
      <4>3. PICK r \in Nat : r = Ahead(work[y][u], sign[y])
        BY <3>1
      <4> QED
        BY <4>2, <4>3
    <3>3. CASE y # n
      <4>1. Ahead(v[y][u], z[y]) = Ahead(work[y][u], sign[y])
        BY <2>6, <3>3
      <4> QED
        BY <3>1, <4>1
    <3> QED
      BY <3>2, <3>3
  <2>9. \A x \in A : g[x] <= f[x]
    BY <2>3, <2>4, <2>8
  <2>10. Works = Total(A, f) /\ Works' = Total(A, g)
    BY <2>1, <2>2, <2>3, <2>4 DEF Works
  <2> HIDE DEF A
  <2>11. Total(A, g) <= Total(A, f)
    BY <1>1, <2>5, <2>9, TotalLess
  <2> QED
    BY <2>10, <2>11
<1>3. Waits' + Burden(inbox[n]) = Waits
  <2>1. PICK r : r = inbox'[n]
    OBVIOUS
  <2>2. r = <<>> /\ \A x \in Nodes \ {n} : inbox'[x] = inbox[x]
    BY <2>1 DEF Vanish, TypeOK, InboxOK
  <2>3. Waits' + Burden(inbox[n]) = Waits + Burden(inbox'[n])
    BY <2>2, WaitsChange
  <2>4. Burden(inbox'[n]) = 0
    BY <2>1, <2>2, BurdenOfNone
  <2> QED
    BY <1>1, <2>3, <2>4
<1>4. Tasks' + (SignInEffort(out[n]) + QuitEffort(quit[n])) = Tasks
  <2>1. PICK o : o = out'[n]
    OBVIOUS
  <2>2. PICK q : q = quit'[n]
    OBVIOUS
  <2>3. /\ o = Idle /\ q = [at |-> "no", todo |-> {}]
        /\ \A x \in Nodes \ {n} : out'[x] = out[x] /\ quit'[x] = quit[x]
    BY <2>1, <2>2 DEF Vanish, TypeOK
  <2>4. SignInEffort(o) = 0 /\ QuitEffort(q) = 0
    BY <2>3 DEF SignInEffort, QuitEffort, Idle
  <2>5. Tasks' + (SignInEffort(out[n]) + QuitEffort(quit[n]))
          = Tasks + (SignInEffort(out'[n]) + QuitEffort(quit'[n]))
    BY <2>3, TasksChange
  <2>6. Tasks' + (SignInEffort(out[n]) + QuitEffort(quit[n])) = Tasks + (0 + 0)
    BY <2>1, <2>2, <2>4, <2>5
  <2> QED
    BY <1>1, <2>6
<1> QED
  BY <1>2, <1>3, <1>4

LEMMA EndFalls ==
  ASSUME IsFiniteSet(Nodes), IsFiniteSet(Workers), TypeOK, TypeOK', NEW n \in Nodes,
         Exit(n) \/ \E w \in Workers, i \in 1..Backlog : SignOutCrashes(n, w, i)
  PROVE  Load' < Load
<1>1. Waits \in Nat /\ Works \in Nat /\ Tasks \in Nat /\ Peers \in Nat
  BY RankTyped, SizesTyped
<1>2. PICK x \in Nat, y \in Nat, t \in Nat : x = Waits' /\ y = Works' /\ t = Tasks'
  BY LoadTypedNext
<1>3. Load' = x + y + t
  BY <1>2 DEF Load
<1>4. PICK a \in Nat : a = SignInEffort(out[n]) + QuitEffort(quit[n])
  <2>1. SignInEffort(out[n]) \in Nat /\ QuitEffort(quit[n]) \in Nat
    BY EffortsTyped DEF TypeOK
  <2> QED
    BY <2>1
<1>5. PICK q \in Seq(Packet) : q = inbox[n]
  BY DEF TypeOK, InboxOK
<1>6. PICK b \in Nat : b = Burden(q)
  BY <1>1, BurdenTyped
<1>7. y <= Works /\ x + b = Waits /\ t + a = Tasks
  <2>1. PICK how : Vanish(n, how)
    BY DEF Exit, SignOutCrashes
  <2> QED
    BY <1>2, <1>4, <1>5, <1>6, <2>1, VanishFalls
<1>8. a + b > 0
  <2>1. CASE Exit(n)
    <3>1. QuitEffort(quit[n]) = 1 /\ SignInEffort(out[n]) \in Nat
      BY <2>1, EffortsTyped DEF Exit, QuitEffort, TypeOK
    <3> QED
      BY <1>4, <1>6, <3>1
  <2>2. CASE \E w \in Workers, i \in 1..Backlog : SignOutCrashes(n, w, i)
    <3>1. PICK i \in 1..Len(q) : q[i].type = "SIGN_OUT"
      BY <1>5, <2>2 DEF SignOutCrashes, Takeable
    <3>2. Weight(q[i]) = 2
      BY <3>1 DEF Weight
    <3>3. PICK c \in Nat : c = Burden(Without(q, i))
      BY <1>1, WithoutPlaces, BurdenTyped
    <3>4. c + 2 = b
      BY <1>1, <1>6, <3>2, <3>3, BurdenWithout
    <3> QED
      BY <1>4, <1>6, <3>3, <3>4
  <2> QED
    BY <2>1, <2>2
<1>9. x + y + t < Waits + Works + Tasks
  BY <1>1, <1>4, <1>6, <1>7, <1>8
<1> QED
  BY <1>3, <1>9 DEF Load

(* A command adds less than it has been counted for.                        *)
LEMMA CommandFalls ==
  ASSUME IsFiniteSet(Nodes), IsFiniteSet(Workers), TypeOK, TypeOK', User
  PROVE  Rank' < Rank
<1>1. /\ Waits \in Nat /\ Works \in Nat /\ Tasks \in Nat /\ Load \in Nat
      /\ Peers \in Nat /\ Price \in Nat
  BY RankTyped, SizesTyped
<1>2. PICK x \in Nat, y \in Nat, t \in Nat : x = Waits' /\ y = Works' /\ t = Tasks'
  BY LoadTypedNext
<1>3. Load' = x + y + t
  BY <1>2 DEF Load
<1>4. PICK F \in Nat : F = Crew * Again
  BY SizesTyped
<1>5. Price = F + 8 * Peers + 13
  BY <1>4 DEF Price
<1>6. PICK n \in Nodes :
        /\ Command(n)
        /\ UNCHANGED <<inbox, work, sign>>
        /\ \/ /\ out[n].at = "idle" /\ UNCHANGED quit
              /\ \E m \in Nodes : out' = [out EXCEPT ![n] = [at |-> "lock", to |-> m]]
           \/ quit[n].at = "no" /\ quit' = [quit EXCEPT ![n].at = "lock"] /\ UNCHANGED out
  <2>1. CASE \E n \in MayQuit : Quit(n)
    BY <2>1, PeerAssumption DEF Quit, Command, nodeVars, netVars
  <2>2. CASE \E c \in MayConnect : Connect(c[1], c[2])
    <3>1. PICK c \in MayConnect : Connect(c[1], c[2])
      BY <2>2
    <3>2. c[1] \in Nodes /\ c[2] \in Nodes
      BY PeerAssumption
    <3> QED
      BY <3>1, <3>2 DEF Connect, Command, nodeVars, netVars
  <2> QED
    BY <2>1, <2>2 DEF User
<1>7. x = Waits /\ y = Works
  BY <1>2, <1>6 DEF Waits, Works
<1>8. PICK o \in [Nodes -> OutState] : o = out'
  BY DEF TypeOK
<1>9. PICK q \in [Nodes -> QuitState] : q = quit'
  BY DEF TypeOK
<1>10. PICK a \in Nat, b \in Nat, c \in Nat, d \in Nat :
         /\ a = SignInEffort(out[n]) /\ b = QuitEffort(quit[n])
         /\ c = SignInEffort(o[n]) /\ d = QuitEffort(q[n])
  BY EffortsTyped DEF TypeOK
<1>11. t + (a + b) = Tasks + (c + d)
  <2>1. \A k \in Nodes \ {n} : out'[k] = out[k] /\ quit'[k] = quit[k]
    BY <1>6 DEF TypeOK
  <2>2. Tasks' + (SignInEffort(out[n]) + QuitEffort(quit[n]))
          = Tasks + (SignInEffort(out'[n]) + QuitEffort(quit'[n]))
    BY <2>1, TasksChange
  <2> QED
    BY <1>2, <1>8, <1>9, <1>10, <2>2
<1>12. c + d < a + b + Price
  <2>1. CASE /\ out[n].at = "idle" /\ UNCHANGED quit
             /\ \E m \in Nodes : out' = [out EXCEPT ![n] = [at |-> "lock", to |-> m]]
    <3>1. o[n].at = "lock" /\ q[n] = quit[n]
      BY <1>8, <1>9, <2>1 DEF TypeOK
    <3>2. c = F + 5 * Peers + 9 /\ d = b
      BY <1>4, <1>10, <3>1 DEF SignInEffort
    <3> QED
      BY <1>1, <1>5, <1>10, <3>2
  <2>2. CASE quit[n].at = "no" /\ quit' = [quit EXCEPT ![n].at = "lock"] /\ UNCHANGED out
    <3>1. q[n].at = "lock" /\ o[n] = out[n]
      BY <1>8, <1>9, <2>2 DEF TypeOK, QuitState
    <3>2. d = 3 * Peers + 3 /\ c = a
      BY <1>10, <3>1 DEF QuitEffort
    <3> QED
      BY <1>1, <1>5, <1>10, <3>2
  <2> QED
    BY <1>6, <2>1, <2>2
<1>13. x + y + t < Load + Price
  <2>1. t < Tasks + Price
    BY <1>1, <1>10, <1>11, <1>12
  <2> QED
    BY <1>1, <1>7, <2>1 DEF Load
<1>14. PICK k \in Nat : k + 1 = MaxCommands - asked /\ k = MaxCommands - asked'
  <2>1. asked \in Nat /\ MaxCommands \in Nat /\ asked < MaxCommands /\ asked' = asked + 1
    BY <1>6, PeerAssumption DEF Command, TypeOK
  <2>2. MaxCommands - asked - 1 \in Nat
    BY <2>1
  <2> QED
    BY <2>1, <2>2
<1>15. PICK e \in Nat : e = Price * k /\ Price * (k + 1) = e + Price
  <2>1. Price * k \in Nat /\ Price * (k + 1) = Price * k + Price
    BY <1>1
  <2> QED
    BY <2>1
<1>16. Rank = e + Price + Load
  BY <1>14, <1>15 DEF Rank
<1>17. Rank' = e + (x + y + t)
  <2>1. Price' = Price /\ MaxCommands' = MaxCommands
    BY DEF Price, Crew, Peers, Again
  <2> QED
    BY <1>3, <1>14, <1>15, <2>1 DEF Rank
<1> QED
  BY <1>1, <1>13, <1>15, <1>16, <1>17

LEMMA StepFalls ==
  ASSUME IsFiniteSet(Nodes), IsFiniteSet(Workers), PeerInv, TypeOK, TypeOK', Next
  PROVE  Rank' < Rank
<1>1. CASE User
  BY <1>1, CommandFalls
<1>2. ASSUME NEW n \in Nodes,
             \/ SignInTask(n) \/ QuitTask(n) \/ Exit(n)
             \/ \E w \in Workers : Handler(n, w) \/ \E i \in 1..Backlog : SignOutCrashes(n, w, i)
      PROVE  Rank' < Rank
  <2>1. Load' < Load
    <3>1. CASE SignInTask(n)
      BY <3>1, SignInFalls
    <3>2. CASE QuitTask(n)
      BY <3>2, QuitFalls
    <3>3. CASE \E w \in Workers : Handler(n, w)
      BY <3>3, HandlerFalls
    <3>4. CASE Exit(n) \/ \E w \in Workers, i \in 1..Backlog : SignOutCrashes(n, w, i)
      BY <3>4, EndFalls
    <3> QED
      BY <1>2, <3>1, <3>2, <3>3, <3>4
  <2>2. asked' = asked
    BY <1>2 DEF SignInTask, SignInSend, SignInFlag, QuitTask, QuitLock, QuitSend, QuitUnlock,
                Exit, SignOutCrashes, Vanish, Handler, Take, UpdateLock, UpdateSend,
                UpdateUnlock, Reply, Add, InsertAll, ClearFlag, Delete, histVars
  <2>3. PICK e \in Nat : e = Price * (MaxCommands - asked)
    <3>1. Price \in Nat
      BY SizesTyped
    <3>2. PICK k \in Nat : k = MaxCommands - asked
      BY PeerAssumption DEF TypeOK
    <3> QED
      BY <3>1, <3>2
  <2>4. PICK l \in Nat : l = Load'
    BY LoadTypedNext
  <2>5. Rank' = e + l
    <3>1. Price' = Price /\ MaxCommands' = MaxCommands
      BY DEF Price, Crew, Peers, Again
    <3> QED
      BY <2>2, <2>3, <2>4, <3>1 DEF Rank
  <2>6. Rank = e + Load /\ Load \in Nat
    BY <2>3, RankTyped DEF Rank
  <2> QED
    BY <2>1, <2>3, <2>4, <2>5, <2>6
<1> QED
  BY <1>1, <1>2 DEF Next

LEMMA RankAtFirst ==
  ASSUME IsFiniteSet(Nodes), IsFiniteSet(Workers), Init
  PROVE  Rank = Price * MaxCommands
<1>1. \A A, f : (\A k \in A : f[k] = 0) => Total(A, f) = 0
  <2> SUFFICES ASSUME NEW A, NEW f, \A k \in A : f[k] = 0 PROVE Total(A, f) = 0
    OBVIOUS
  <2>1. 0..0 - 1 = {}
    OBVIOUS
  <2>2. Tokens(A, f) = {}
    BY <2>1, TokenOf
  <2> QED
    BY <2>2, FS_EmptySet DEF Total
<1>2. Waits = 0
  <2>1. PICK f : f = [n \in Nodes |-> Burden(inbox[n])]
    OBVIOUS
  <2>2. \A n \in Nodes : f[n] = 0
    BY <2>1, BurdenOfNone DEF Init
  <2> QED
    BY <1>1, <2>1, <2>2 DEF Waits
<1>3. Works = 0
  <2>1. PICK f : f = [x \in Nodes \X Workers |-> Ahead(work[x[1]][x[2]], sign[x[1]])]
    OBVIOUS
  <2>2. Ahead(Idle, FALSE) = 0
    BY DEF Ahead, Effort, Idle
  <2>3. \A x \in Nodes \X Workers : f[x] = 0
    BY <2>1, <2>2 DEF Init
  <2> QED
    BY <1>1, <2>1, <2>3 DEF Works
<1>4. Tasks = 0
  <2>1. PICK f : f = [n \in Nodes |-> SignInEffort(out[n]) + QuitEffort(quit[n])]
    OBVIOUS
  <2>2. \A n \in Nodes : SignInEffort(out[n]) = 0 /\ QuitEffort(quit[n]) = 0
    BY DEF Init, SignInEffort, QuitEffort, Idle
  <2>3. \A n \in Nodes : f[n] = 0
    BY <2>1, <2>2
  <2> QED
    BY <1>1, <2>1, <2>3 DEF Tasks
<1>5. MaxCommands - asked = MaxCommands
  BY PeerAssumption DEF Init
<1>6. Price * MaxCommands \in Nat
  BY SizesTyped, PeerAssumption
<1> QED
  BY <1>2, <1>3, <1>4, <1>5, <1>6 DEF Rank, Load

(***************************************************************************)
(* The exchange of lists ends, whatever is lost, crashes or quits and in   *)
(* whatever order the packets are handled: every step of every node takes  *)
(* something off Rank, which is never negative.  So all nodes together     *)
(* take at most Price * MaxCommands steps, at most Price for a command:    *)
(* every packet that is passed on uses up something that does not come     *)
(* back before the next /connect, although every node that holds the flag  *)
(* passes on what it gets and the flag is cleared only when the packet has *)
(* been handled (task.c:423-460, 586-588, 618-628).                        *)
(***************************************************************************)
THEOREM ExchangesEnd ==
  ASSUME IsFiniteSet(Nodes), IsFiniteSet(Workers)
  PROVE  Spec => Rank = Price * MaxCommands /\ [](Rank \in Nat) /\ [][Rank' < Rank]_vars
<1>1. PeerInv => Rank \in Nat
  BY InvTyped, RankTyped
<1>2. PeerInv /\ PeerInv' /\ [Next]_vars => [Rank' < Rank]_vars
  <2>1. PeerInv => TypeOK
    BY InvTyped
  <2>2. (PeerInv => TypeOK)'
    BY InvTyped, PTL
  <2> QED
    BY <2>1, <2>2, StepFalls
<1> QED
  BY <1>1, <1>2, RankAtFirst, PeerInvariant, PTL DEF Spec
=============================================================================
