---------------------------- MODULE MemberList ----------------------------
(***************************************************************************)
(* src/Chat/src/list.c: the singly linked list of members with its counter *)
(* in the heap, the threads that change it while they own the mutex of     *)
(* task.c, and the threads that read it without that mutex: List_print of  *)
(* the /info command, List_init of the server thread, and the walk of      *)
(* send_sign_in and send_member_list that takes head and counter at        *)
(* different moments.                                                      *)
(*                                                                         *)
(* The stores of a thread are seen by the others in program order: the     *)
(* Makefile builds with -O0.  Reading a cell that was never filled, or was *)
(* freed, gives what the allocator left there: see Leftover.               *)
(* A definition Name_Bug is no part of the model: it is a broken form of   *)
(* Name that PROJECT.json uses to show what a property detects.            *)
(*                                                                         *)
(* Bounds: Cells is the heap, so at most Cardinality(Cells) members.       *)
(***************************************************************************)
EXTENDS Naturals, Sequences, FiniteSets

CONSTANTS
  Ids, LongIds, Ips, Self,      (* as in Members                           *)
  Cells,          (* addresses malloc can return                           *)
  Threads,        (* pool workers that use the list under the mutex        *)
  Null,           (* the null pointer                                      *)
  Wild            (* a pointer that points into nowhere                    *)

Entry == [id : Ids, ip : Ips]

ASSUME ListAssumption ==
  /\ LongIds \subseteq Ids
  /\ Self \in Entry
  /\ IsFiniteSet(Cells)
  /\ Null \notin Cells \cup Threads
  /\ Wild \notin Cells \cup {Null}

VARIABLES
  list,           (* the global head pointer                               *)
  counter,        (* the global counter                                    *)
  data,           (* data[c]: the member stored in cell c                  *)
  next,           (* next[c]: its next pointer                             *)
  allocated,      (* the cells malloc has given out                        *)
  mutex,          (* owner of the mutex of task.c                          *)
  pc,             (* where each thread is                                  *)
  node,           (* new_member, del_member or the p of a walk             *)
  steps,          (* entries a walk has serialised so far                  *)
  early,          (* the walks that began before List_init was done        *)
  init,           (* where the server thread is in List_init               *)
  reader,         (* the p of List_print, Null when it is not running      *)
  shown,          (* the member at reader has been printed                 *)
  due,            (* members listed when List_print began and not yet shown*)
  undisturbed,    (* List_print began on a filled list and nothing was     *)
                  (* unlinked since                                        *)
  crashed         (* who dereferenced Null or Wild                         *)

listVars   == <<list, counter, data, next, allocated>>
threadVars == <<pc, node, steps, early>>
printVars  == <<reader, shown, due, undisturbed>>
vars == <<listVars, mutex, threadVars, init, printVars, crashed>>

PC == {"idle", "locked", "link", "count", "free", "uncount", "walk"}

(* What the next pointer of a cell may hold after free or before the first  *)
(* store: the old value, or what another user of the block wrote.           *)
Leftover(c) == {next[c], Null, Wild}

Goto(t, label) == pc' = [pc EXCEPT ![t] = label]

(***************************************************************************)
(* The list as a sequence of cells.  Hops[k] is the pointer after k steps. *)
(***************************************************************************)
Hops[k \in 0..Cardinality(Cells)] ==
  IF k = 0 THEN list
  ELSE IF Hops[k - 1] \in Cells THEN next[Hops[k - 1]] ELSE Hops[k - 1]

Length == Cardinality({k \in 0..Cardinality(Cells) : Hops[k] \in Cells})
Chain  == [k \in 1..Length |-> Hops[k - 1]]
OnChain == {Hops[k] : k \in 0..Cardinality(Cells)} \cap Cells

Init ==
  /\ list = Null
  /\ counter = 0
  /\ data = [c \in Cells |-> Self]
  /\ next = [c \in Cells |-> Wild]
  /\ allocated = {}
  /\ mutex = Null
  /\ pc = [t \in Threads |-> "idle"]
  /\ node = [t \in Threads |-> Null]
  /\ steps = [t \in Threads |-> 0]
  /\ early = {}
  /\ init = "alloc"
  /\ reader = Null
  /\ shown = FALSE
  /\ due = {}
  /\ undisturbed = TRUE
  /\ crashed = "nobody"

-----------------------------------------------------------------------------
(***************************************************************************)
(* List_init, called once by the server thread without the mutex.  The     *)
(* head is published before the cell is filled.  malloc may fail, and then *)
(* the server thread ends without a list.                                  *)
(***************************************************************************)
InitAlloc ==
  /\ init = "alloc"
  /\ \E c \in Cells \ allocated, p \in {Null, Wild} :
       /\ list' = c
       /\ allocated' = allocated \cup {c}
       /\ next' = [next EXCEPT ![c] = p]
  /\ init' = "fill"
  /\ UNCHANGED <<counter, data, mutex, threadVars, printVars, crashed>>

InitAllocFails ==
  /\ init = "alloc"
  /\ init' = "failed"
  /\ UNCHANGED <<listVars, mutex, threadVars, printVars, crashed>>

InitFill ==
  /\ init = "fill"
  /\ data' = [data EXCEPT ![list] = Self]
  /\ next' = [next EXCEPT ![list] = Null]
  /\ init' = "count"
  /\ UNCHANGED <<list, counter, allocated, mutex, threadVars, printVars, crashed>>

InitCount ==
  /\ init = "count"
  /\ counter' = counter + 1
  /\ init' = "done"
  /\ UNCHANGED <<list, data, next, allocated, mutex, threadVars, printVars, crashed>>

-----------------------------------------------------------------------------
(***************************************************************************)
(* A pool worker takes the mutex, makes any number of calls and releases   *)
(* the mutex: recv_member_list adds a whole packet of members under it.    *)
(***************************************************************************)
LockList_Skipped(t) ==
  /\ pc[t] = "idle"
  /\ Goto(t, "locked")
  /\ UNCHANGED <<listVars, mutex, node, steps, early, init, printVars, crashed>>

LockList(t) ==
  /\ pc[t] = "idle"
  /\ mutex = Null
  /\ mutex' = t
  /\ Goto(t, "locked")
  /\ UNCHANGED <<listVars, node, steps, early, init, printVars, crashed>>

UnlockList(t) ==
  /\ pc[t] = "locked"
  /\ mutex' = Null
  /\ Goto(t, "idle")
  /\ UNCHANGED <<listVars, node, steps, early, init, printVars, crashed>>

(* The connections that lead to List_new_member and List_delete_member are  *)
(* accepted after Server_tcp_init, and with it List_init, has returned.     *)
Serving == init = "done"

(* The duplicate test of List_new_member: equal addresses, or strcmp of the *)
(* ids.  On two equal ids without a NUL strcmp runs on into what follows    *)
(* them, so its answer is not determined.                                   *)
SameId(c, e) == data[c].id = e.id /\ e.id \notin LongIds
MustReject_IdOnly(e) == \E c \in OnChain : SameId(c, e)
MustReject(e)        == \E c \in OnChain : data[c].ip = e.ip \/ SameId(c, e)

(* List_new_member up to the point where the node is filled.  A return with *)
(* -1 (duplicate, no memory) changes nothing.                               *)
FillNode_NextUnset(c, e) == data' = [data EXCEPT ![c] = e] /\ UNCHANGED next
FillNode(c, e) ==
  data' = [data EXCEPT ![c] = e] /\ next' = [next EXCEPT ![c] = Null]

NewMember(t, e) ==
  /\ Serving
  /\ pc[t] = "locked"
  /\ ~MustReject(e)
  /\ \E c \in Cells \ allocated :
       /\ allocated' = allocated \cup {c}
       /\ FillNode(c, e)
       /\ node' = [node EXCEPT ![t] = c]
  /\ Goto(t, "link")
  /\ UNCHANGED <<list, counter, mutex, steps, early, init, printVars, crashed>>

NewLink(t) ==
  /\ pc[t] = "link"
  /\ next' = [next EXCEPT ![Chain[Length]] = node[t]]
  /\ Goto(t, "count")
  /\ UNCHANGED <<list, counter, data, allocated, mutex, node, steps, early, init,
                 printVars, crashed>>

NewCount_Forgotten(t) ==
  /\ pc[t] = "count"
  /\ Goto(t, "locked")
  /\ node' = [node EXCEPT ![t] = Null]
  /\ UNCHANGED <<listVars, mutex, steps, early, init, printVars, crashed>>

NewCount(t) ==
  /\ pc[t] = "count"
  /\ counter' = counter + 1
  /\ Goto(t, "locked")
  /\ node' = [node EXCEPT ![t] = Null]
  /\ UNCHANGED <<list, data, next, allocated, mutex, steps, early, init, printVars, crashed>>

(* The position List_delete_member finds: the first entry behind the head.  *)
Found(i, id) ==
  /\ i \in 2..Length
  /\ data[Chain[i]].id = id
  /\ \A j \in 2..i - 1 : data[Chain[j]].id # id

DeleteMember(t, id) ==
  /\ Serving
  /\ pc[t] = "locked"
  /\ \E i \in 2..Length :
       /\ Found(i, id)
       /\ next' = [next EXCEPT ![Chain[i - 1]] = next[Chain[i]]]
       /\ node' = [node EXCEPT ![t] = Chain[i]]
  /\ undisturbed' = FALSE
  /\ Goto(t, "free")
  /\ UNCHANGED <<list, counter, data, allocated, mutex, steps, early, init,
                 reader, shown, due, crashed>>

DeleteFree_Forgotten(t) ==
  /\ pc[t] = "free"
  /\ Goto(t, "uncount")
  /\ UNCHANGED <<listVars, mutex, node, steps, early, init, printVars, crashed>>

DeleteFree(t) ==
  /\ pc[t] = "free"
  /\ allocated' = allocated \ {node[t]}
  /\ \E p \in Leftover(node[t]) : next' = [next EXCEPT ![node[t]] = p]
  /\ Goto(t, "uncount")
  /\ UNCHANGED <<list, counter, data, mutex, node, steps, early, init, printVars, crashed>>

DeleteCount_Forgotten(t) ==
  /\ pc[t] = "uncount"
  /\ Goto(t, "locked")
  /\ node' = [node EXCEPT ![t] = Null]
  /\ UNCHANGED <<listVars, mutex, steps, early, init, printVars, crashed>>

DeleteCount(t) ==
  /\ pc[t] = "uncount"
  /\ counter' = counter - 1
  /\ Goto(t, "locked")
  /\ node' = [node EXCEPT ![t] = Null]
  /\ UNCHANGED <<list, data, next, allocated, mutex, steps, early, init, printVars, crashed>>

-----------------------------------------------------------------------------
(***************************************************************************)
(* send_sign_in and send_member_list put the list into a packet: p is read *)
(* first, then the loop runs while i < List_no_of_members().               *)
(***************************************************************************)
WalkStart(t) ==
  /\ pc[t] = "locked"
  /\ node' = [node EXCEPT ![t] = list]
  /\ steps' = [steps EXCEPT ![t] = 0]
  /\ early' = IF Serving THEN early ELSE early \cup {t}
  /\ Goto(t, "walk")
  /\ UNCHANGED <<listVars, mutex, init, printVars, crashed>>

WalkStep(t) ==
  /\ pc[t] = "walk"
  /\ steps[t] < counter
  /\ IF node[t] \in Cells
     THEN /\ node' = [node EXCEPT ![t] = next[node[t]]]
          /\ steps' = [steps EXCEPT ![t] = @ + 1]
          /\ UNCHANGED crashed
     ELSE crashed' = "walk" /\ UNCHANGED <<node, steps>>
  /\ UNCHANGED <<listVars, mutex, pc, early, init, printVars>>

WalkEnd(t) ==
  /\ pc[t] = "walk"
  /\ steps[t] >= counter
  /\ Goto(t, "locked")
  /\ node' = [node EXCEPT ![t] = Null]
  /\ steps' = [steps EXCEPT ![t] = 0]
  /\ early' = early \ {t}
  /\ UNCHANGED <<listVars, mutex, init, printVars, crashed>>

-----------------------------------------------------------------------------
(***************************************************************************)
(* List_print, called by the command thread, which does not take the       *)
(* mutex.  List_search_member_ip on a packet with a wrong checksum walks   *)
(* the list in the same way.                                               *)
(***************************************************************************)
Listed == IF init \in {"alloc", "fill", "failed"} THEN {}
          ELSE {data[c] : c \in OnChain}

PrintStart ==
  /\ reader = Null
  /\ list # Null
  /\ reader' = list
  /\ shown' = FALSE
  /\ due' = Listed
  /\ undisturbed' = (init \in {"count", "done"})
  /\ UNCHANGED <<listVars, mutex, threadVars, init, crashed>>

PrintMember ==
  /\ reader # Null
  /\ ~shown
  /\ IF reader \in Cells
     THEN /\ due' = due \ {data[reader]}
          /\ shown' = TRUE
          /\ UNCHANGED crashed
     ELSE crashed' = "print" /\ UNCHANGED <<due, shown>>
  /\ UNCHANGED <<listVars, mutex, threadVars, init, reader, undisturbed>>

PrintNext ==
  /\ shown
  /\ reader' = next[reader]
  /\ shown' = FALSE
  /\ UNCHANGED <<listVars, mutex, threadVars, init, due, undisturbed, crashed>>

-----------------------------------------------------------------------------
(* List_delete, called by Tasks_clean when the threads have ended.  A       *)
(* worker may have been cancelled while it owned the mutex, but not inside  *)
(* list.c.  The head pointer is left dangling.                              *)
ListDelete ==
  /\ init = "done"
  /\ reader = Null
  /\ \A t \in Threads : pc[t] \in {"idle", "locked", "walk"}
  /\ allocated' = allocated \ OnChain
  /\ counter' = 0
  /\ init' = "cleaned"
  /\ UNCHANGED <<list, data, next, mutex, threadVars, printVars, crashed>>

-----------------------------------------------------------------------------
InitList == InitAlloc \/ InitAllocFails \/ InitFill \/ InitCount

Insertion(t) == NewLink(t) \/ NewCount(t) \/ \E e \in Entry : NewMember(t, e)
Deletion(t)  == DeleteFree(t) \/ DeleteCount(t) \/ \E id \in Ids : DeleteMember(t, id)
Walk(t)      == WalkStart(t) \/ WalkStep(t) \/ WalkEnd(t)
InfoStep     == PrintStart \/ PrintMember \/ PrintNext

Next ==
  /\ crashed = "nobody"
  /\ init # "cleaned"
  /\ \/ InitList \/ InfoStep \/ ListDelete
     \/ \E t \in Threads :
          LockList(t) \/ UnlockList(t) \/ Insertion(t) \/ Deletion(t) \/ Walk(t)

Spec == Init /\ [][Next]_vars

-----------------------------------------------------------------------------
(***************************************************************************)
(* Properties                                                              *)
(***************************************************************************)
Pointer == Cells \cup {Null, Wild}

TypeOK ==
  /\ list \in Cells \cup {Null}
  /\ counter \in Nat
  /\ data \in [Cells -> Entry]
  /\ next \in [Cells -> Pointer]
  /\ allocated \in SUBSET Cells
  /\ mutex \in Threads \cup {Null}
  /\ pc \in [Threads -> PC]
  /\ node \in [Threads -> Pointer]
  /\ steps \in [Threads -> Nat]
  /\ early \in SUBSET Threads
  /\ init \in {"alloc", "fill", "count", "done", "failed", "cleaned"}
  /\ reader \in Pointer
  /\ shown \in BOOLEAN
  /\ due \in SUBSET Entry
  /\ undisturbed \in BOOLEAN
  /\ crashed \in {"nobody", "walk", "print"}

(* Cells that belong to a call in progress: allocated, and not yet linked   *)
(* or already unlinked.                                                     *)
Private == {node[t] : t \in {u \in Threads : pc[u] \in {"link", "free"}}}

(* Every cell of the heap is either a member or in the hands of one call:   *)
(* nothing is lost and nothing that is linked was freed, whatever order the *)
(* calls come in; at the end List_delete has freed the rest                 *)
(* (list.c:56-70, 137-144, 160-166).                                        *)
HeapAccounted ==
  CASE init \in {"alloc", "failed"} -> allocated = {}
    [] init = "cleaned" -> allocated = {}
    [] OTHER -> allocated = OnChain \cup Private /\ OnChain \cap Private = {}

(* The chain ends in a null pointer once the first cell is filled: no cycle *)
(* and no pointer into freed memory, so the loops of list.c end             *)
(* (list.c:49, 56, 88, 110, 130).                                           *)
ChainEnds ==
  init \in {"count", "done"} => Hops[Cardinality(Cells)] = Null

(* The counter that sizes the packets counts the chain, except inside the   *)
(* call that is about to adjust it (list.c:69-70, 142-144; task.c:161).     *)
CounterAgrees ==
  init = "done" =>
    Length + Cardinality({t \in Threads : pc[t] \in {"free", "uncount"}})
      = counter + Cardinality({t \in Threads : pc[t] = "count"})

(* A walk that began after List_init stands at the entry its index says and *)
(* finds one for every index below the counter (task.c:185-203, 359-374).   *)
WalkInStep ==
  \A t \in Threads : pc[t] = "walk" /\ t \notin early /\ init # "cleaned" =>
    node[t] = Hops[steps[t]] /\ (steps[t] < counter => node[t] \in allocated)

(* List_print shows every member that was there when it began, although     *)
(* others are appended meanwhile, provided none is removed                  *)
(* (list.c:183-188).                                                        *)
PrintComplete ==
  undisturbed /\ crashed = "nobody" =>
    /\ reader = Null => due = {}
    /\ reader # Null => reader \in OnChain

(* The heap implements Members: each call is one insertion or one removal,  *)
(* so names and addresses stay unique and the node itself in front, on the  *)
(* pointers as on the sequence (list.c:49-74, 120-148).                     *)
Contents ==
  IF init \in {"alloc", "fill", "failed"} THEN <<>>
  ELSE [i \in 1..Length |-> data[Chain[i]]]

Abstract == INSTANCE Members WITH members <- Contents

ImplementsMembers == Abstract!AbsSpec

(* What task.c:31 says of its mutex: the list is protected.  A thread that  *)
(* reads a member reads a member, not a freed cell.                         *)
ReadersProtected == reader \in Cells => reader \in allocated
=============================================================================
