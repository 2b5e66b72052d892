------------------------------ MODULE Members ------------------------------
(***************************************************************************)
(* What src/Chat/src/list.c promises to its callers: a list of members     *)
(* that starts with the node itself, to which a member is added at the     *)
(* end when neither its id nor its address is listed yet, and from which   *)
(* the first other member with a given id is removed.  No pointers, no     *)
(* counter and no mutex: MemberList implements this.                       *)
(***************************************************************************)
EXTENDS Naturals, Sequences

CONSTANTS
  Ids,            (* user names as they fit in uint8_t id[16]              *)
  LongIds,        (* those that use all 16 bytes and have no NUL           *)
  Ips,            (* IPv4 addresses                                        *)
  Self            (* the record of the node that owns the list, an Entry   *)

Entry == [id : Ids, ip : Ips]

VARIABLE members

(* Two entries that can never be in one list together.  The comparison of   *)
(* ids is a strcmp: it is only dependable for an id that ends in a NUL.     *)
Clash(x, y) == x.ip = y.ip \/ (x.id = y.id /\ x.id \notin LongIds)

AbsInit == members = <<>>

Open ==
  /\ members = <<>>
  /\ members' = <<Self>>

Insert(e) ==
  /\ members # <<>>
  /\ \A i \in 1..Len(members) : ~Clash(members[i], e)
  /\ members' = Append(members, e)

(* Position i holds the first entry behind the head that has this id. *)
FirstOther(i, id) ==
  /\ i \in 2..Len(members)
  /\ members[i].id = id
  /\ \A j \in 2..i - 1 : members[j].id # id

Without(i) == [j \in 1..Len(members) - 1 |-> members[IF j < i THEN j ELSE j + 1]]

Remove(i, id) ==
  /\ FirstOther(i, id)
  /\ members' = Without(i)

AbsNext ==
  \/ Open
  \/ \E e \in Entry : Insert(e)
  \/ \E i \in 2..Len(members), id \in Ids : Remove(i, id)

AbsSpec == AbsInit /\ [][AbsNext]_members

-----------------------------------------------------------------------------
MembersOK == members \in Seq(Entry)

(* No two members share an address, nor a name that ends in a NUL, whatever *)
(* was inserted and removed in between (list.c:49-54).                      *)
Unique ==
  \A i, j \in 1..Len(members) : i # j => ~Clash(members[i], members[j])

(* Once there, the node itself stays the first entry: List_delete_member    *)
(* looks at p->next only (list.c:130-135).                                  *)
SelfFirst == members # <<>> => members[1] = Self
=============================================================================
