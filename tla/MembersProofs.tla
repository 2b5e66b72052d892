--------------------------- MODULE MembersProofs ---------------------------
(***************************************************************************)
(* Proofs about Members for any set of ids, addresses and any self.        *)
(***************************************************************************)
EXTENDS Members, TLAPS

MembersInv == MembersOK /\ Unique /\ SelfFirst

LEMMA MembersInit == AbsInit => MembersInv
BY DEF AbsInit, MembersInv, MembersOK, Unique, SelfFirst

LEMMA OpenKeeps ==
  ASSUME Self \in Entry, MembersInv, Open
  PROVE  MembersInv'
BY DEF Open, MembersInv, MembersOK, Unique, SelfFirst

LEMMA InsertKeeps ==
  ASSUME MembersInv, NEW e \in Entry, Insert(e)
  PROVE  MembersInv'
<1>1. members' = Append(members, e) /\ members \in Seq(Entry) /\ members # <<>>
  BY DEF MembersInv, MembersOK, Insert
<1>2. members' \in Seq(Entry) /\ Len(members') = Len(members) + 1
  BY <1>1
<1>3. /\ \A i \in 1..Len(members) : members'[i] = members[i]
      /\ members'[Len(members) + 1] = e
  BY <1>1
<1>4. Unique'
  <2> SUFFICES ASSUME NEW i \in 1..Len(members'), NEW j \in 1..Len(members'), i # j
               PROVE  ~Clash(members'[i], members'[j])
    BY DEF Unique, Clash
  <2>1. CASE i \in 1..Len(members) /\ j \in 1..Len(members)
    BY <2>1, <1>3 DEF MembersInv, Unique
  <2>2. CASE i \in 1..Len(members) /\ j = Len(members) + 1
    BY <2>2, <1>3 DEF Insert
  <2>3. CASE j \in 1..Len(members) /\ i = Len(members) + 1
    <3>1. ~Clash(members[j], e)
      BY <2>3 DEF Insert
    <3> QED
      BY <2>3, <3>1, <1>3 DEF Clash
  <2> QED
    BY <1>1, <1>2, <2>1, <2>2, <2>3
<1>5. SelfFirst'
  BY <1>1, <1>2, <1>3 DEF MembersInv, SelfFirst
<1> QED
  BY <1>2, <1>4, <1>5 DEF MembersInv, MembersOK

LEMMA RemoveKeeps ==
  ASSUME MembersInv, NEW i \in 2..Len(members), NEW id \in Ids, Remove(i, id)
  PROVE  MembersInv'
<1>1. members \in Seq(Entry) /\ Len(members) \in Nat
  BY DEF MembersInv, MembersOK
<1>2. members' = [j \in 1..Len(members) - 1 |-> members[IF j < i THEN j ELSE j + 1]]
  BY DEF Remove, Without
<1>3. \A j \in 1..Len(members) - 1 : members[IF j < i THEN j ELSE j + 1] \in Entry
  BY <1>1
<1>4. members' \in Seq(Entry) /\ Len(members') = Len(members) - 1
  BY <1>1, <1>2, <1>3
<1>5. Unique'
  BY <1>1, <1>2, <1>4 DEF MembersInv, Unique, Clash
<1>6. SelfFirst'
  BY <1>1, <1>2, <1>4 DEF MembersInv, SelfFirst
<1> QED
  BY <1>4, <1>5, <1>6 DEF MembersInv, MembersOK

(***************************************************************************)
(* Whatever sequence of calls is made, no two members clash and the node   *)
(* itself stays in front.  A removal closes the gap it leaves and so keeps *)
(* the order of the others.                                                *)
(***************************************************************************)
THEOREM MembersCorrect ==
  ASSUME Self \in Entry
  PROVE  AbsSpec => [](Unique /\ SelfFirst)
<1>1. MembersInv /\ [AbsNext]_members => MembersInv'
  <2> SUFFICES ASSUME MembersInv, [AbsNext]_members PROVE MembersInv'
    OBVIOUS
  <2>1. CASE UNCHANGED members
    BY <2>1 DEF MembersInv, MembersOK, Unique, SelfFirst
  <2> QED
    BY <2>1, OpenKeeps, InsertKeeps, RemoveKeeps DEF AbsNext
<1>2. MembersInv => Unique /\ SelfFirst
  BY DEF MembersInv
<1> QED
  BY <1>1, <1>2, MembersInit, PTL DEF AbsSpec
=============================================================================
