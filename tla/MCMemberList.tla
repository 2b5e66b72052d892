--------------------------- MODULE MCMemberList ---------------------------
(* MemberList with symmetric heap cells, pool workers and peers. *)
EXTENDS MemberList, TLC

CONSTANTS me, home
MCSelf == [id |-> me, ip |-> home]

ListSymmetry ==
  Permutations(Cells) \cup Permutations(Threads) \cup Permutations(LongIds)
    \cup Permutations(Ips \ {home}) \cup Permutations(Ids \ ({me} \cup LongIds))
=============================================================================
