-------------------------- MODULE MemberListProofs --------------------------
(***************************************************************************)
(* Proofs about MemberList for a heap of any finite size, any number of    *)
(* threads, any ids and any addresses: the state predicates the runs check *)
(* on four cells, and that the heap implements the list of Members.        *)
(*                                                                         *)
(* The argument goes through an explicit chain of cells, Linked(n, q, end):*)
(* ChainIs shows that it determines Hops, Length, Chain and OnChain, so a  *)
(* step is reasoned about by naming the chain it leaves behind.            *)
(***************************************************************************)
EXTENDS MemberList, FiniteSetTheorems, WellFoundedInduction, TLAPS

USE ListAssumption

Size == Cardinality(Cells)

(***************************************************************************)
(* Induction over the numbers, from the operator-free theorem that a well  *)
(* founded relation has minimal elements.                                  *)
(***************************************************************************)
LEMMA Induction ==
  ASSUME NEW S, 0 \in S, \A n \in Nat : n \in S => n + 1 \in S
  PROVE  Nat \subseteq S
<1> DEFINE R == {p \in Nat \X Nat : p[1] < p[2]}
<1>1. IsWellFoundedOn(R, Nat)
  BY NatLessThanWellFounded DEF OpToRel
<1>2. SUFFICES ASSUME Nat \ S # {} PROVE FALSE
  OBVIOUS
<1>3. PICK m \in Nat \ S : \A y \in Nat \ S : ~ (<<y, m>> \in R)
  <2> HIDE DEF R
  <2> QED BY <1>1, <1>2, WFMin, Zenon
<1>4. m # 0 /\ m - 1 \in Nat
  BY <1>3
<1>5. m - 1 \in S
  <2>1. <<m - 1, m>> \in R
    BY <1>4
  <2> QED
    BY <1>3, <1>4, <2>1
<1> QED
  BY <1>3, <1>4, <1>5

LEMMA SizeIsNat == Size \in Nat
BY FS_CardinalityType DEF Size
(***************************************************************************)
(* The inductive invariant                                                 *)
(***************************************************************************)

(* q holds the n cells that lead from the head to the pointer end. *)
Linked(n, q, end) ==
  /\ list = IF n = 0 THEN end ELSE q[1]
  /\ \A i \in 1..n : next[q[i]] = IF i = n THEN end ELSE q[i + 1]
  /\ \A i, j \in 1..n : q[i] = q[j] => i = j

Filled == init \in {"count", "done"}

(* Whoever is inside a call owns the mutex. *)
OwnerInv == \A t \in Threads : pc[t] # "idle" => mutex = t

(* The list before, during and after List_init. *)
InitInv ==
  /\ init \in {"alloc", "failed"} => list = Null /\ reader = Null
  /\ init \in {"alloc", "fill", "count", "failed"} => counter = 0
  /\ init = "fill" => list \in Cells /\ next[list] \in {Null, Wild}
  /\ init = "count" => Length = 1
  /\ init = "cleaned" => reader = Null

ChainInv ==
  Filled =>
    /\ Length \in 1..Cardinality(Cells)
    /\ Chain \in [1..Length -> Cells]
    /\ Linked(Length, Chain, Null)

CountInv ==
  init = "done" =>
    /\ \A t \in Threads : pc[t] = "count" => counter + 1 = Length
    /\ \A t \in Threads : pc[t] \in {"free", "uncount"} => counter = Length + 1
    /\ (\A t \in Threads : pc[t] \notin {"count", "free", "uncount"}) => counter = Length

(* The cell a call has in hand, and the member it is about to append. *)
CallInv ==
  \A t \in Threads :
    /\ pc[t] \in {"link", "count", "free", "uncount"} => init = "done"
    /\ pc[t] \in {"link", "free"} => node[t] \in Cells
    /\ pc[t] = "link" =>
         /\ next[node[t]] = Null
         /\ \A i \in 1..Length : ~Abstract!Clash(data[Chain[i]], data[node[t]])

WalkInv ==
  \A t \in Threads :
    pc[t] = "walk" /\ t \notin early =>
      /\ init \in {"done", "cleaned"}
      /\ init = "done" => steps[t] <= Length /\ node[t] = Hops[steps[t]]

PrintInv ==
  /\ shown => reader \in Cells
  /\ undisturbed /\ reader = Null => due = {}
  /\ undisturbed /\ reader # Null =>
       /\ Filled
       /\ \E j \in 1..Length :
            /\ reader = Chain[j]
            /\ due \subseteq {data[Chain[i]] : i \in (IF shown THEN j + 1 ELSE j)..Length}

IInv == /\ TypeOK /\ OwnerInv /\ InitInv /\ ChainInv /\ HeapAccounted
        /\ CountInv /\ CallInv /\ WalkInv /\ PrintInv
-----------------------------------------------------------------------------
(***************************************************************************)
(* Reading the chain.                                                      *)
(***************************************************************************)

(* A list without repetition is no longer than the heap. *)
LEMMA NoLongerThanHeap ==
  ASSUME NEW n \in Nat, NEW q \in [1..n -> Cells],
         \A i, j \in 1..n : q[i] = q[j] => i = j
  PROVE  n <= Size
<1>1. IsFiniteSet(1..n) /\ Cardinality(1..n) = n
  BY FS_Interval
<1>2. Size < Cardinality(1..n) => \E i, j \in 1..n : i # j /\ q[i] = q[j]
  BY <1>1, FS_PigeonHole DEF Size
<1> QED
  BY <1>1, <1>2, SizeIsNat

(* Hops satisfies its equation when some function does. *)
LEMMA HopsAlong ==
  \A n \in Nat, end \in {Null, Wild} : \A q \in [1..n -> Cells] :
    Linked(n, q, end) => \A k \in 0..Size : Hops[k] = IF k < n THEN q[k + 1] ELSE end
<1> SUFFICES ASSUME NEW n \in Nat, NEW end \in {Null, Wild}, NEW q \in [1..n -> Cells],
                    Linked(n, q, end)
             PROVE  \A k \in 0..Size : Hops[k] = IF k < n THEN q[k + 1] ELSE end
  OBVIOUS
<1> DEFINE h == [k \in 0..Size |-> IF k < n THEN q[k + 1] ELSE end]
           Eqn(f) == f = [k \in 0..Size |->
                            IF k = 0 THEN list
                            ELSE IF f[k - 1] \in Cells THEN next[f[k - 1]] ELSE f[k - 1]]
<1>1. Eqn(h)
  <2>1. ASSUME NEW k \in 0..Size
        PROVE  h[k] = IF k = 0 THEN list
                      ELSE IF h[k - 1] \in Cells THEN next[h[k - 1]] ELSE h[k - 1]
    <3>1. CASE k = 0
      BY <3>1, SizeIsNat DEF Linked
    <3>2. CASE k > 0 /\ k - 1 < n
      <4>1. h[k - 1] = q[k] /\ k \in 1..n
        BY <3>2, SizeIsNat
      <4>2. next[q[k]] = IF k = n THEN end ELSE q[k + 1]
        BY <4>1 DEF Linked
      <4> QED
        BY <4>1, <4>2, <3>2, SizeIsNat
    <3>3. CASE k > 0 /\ ~ (k - 1 < n)
      BY <3>3, SizeIsNat
    <3> QED
      BY <3>1, <3>2, <3>3, SizeIsNat
  <2> QED
    BY <2>1
<1>2. Eqn(Hops)
  <2>1. Hops = CHOOSE f : Eqn(f)
    BY DEF Hops, Size
  <2> HIDE DEF Eqn
  <2> QED
    BY <1>1, <2>1, Zenon
<1>3. \A k \in 0..Size : Hops[k] = IF k = 0 THEN list
                          ELSE IF Hops[k - 1] \in Cells THEN next[Hops[k - 1]] ELSE Hops[k - 1]
  BY <1>2
<1>4. \A k \in 0..Size : h[k] = IF k = 0 THEN list
                          ELSE IF h[k - 1] \in Cells THEN next[h[k - 1]] ELSE h[k - 1]
  BY <1>1
<1> HIDE DEF Eqn, h
<1> DEFINE S == {k \in Nat : k <= Size => Hops[k] = h[k]}
<1>5. 0 \in S
  BY <1>3, <1>4, SizeIsNat
<1>6. ASSUME NEW k \in Nat, k \in S PROVE k + 1 \in S
  <2> SUFFICES ASSUME k + 1 <= Size PROVE Hops[k + 1] = h[k + 1]
    BY SizeIsNat
  <2>1. Hops[k] = h[k] /\ k + 1 \in 0..Size /\ k + 1 # 0 /\ (k + 1) - 1 = k
    BY <1>6, SizeIsNat
  <2> QED
    BY <2>1, <1>3, <1>4
<1>7. Nat \subseteq S
  <2> HIDE DEF S
  <2> QED BY <1>5, <1>6, Induction
<1>8. \A k \in 0..Size : Hops[k] = h[k]
  <2> SUFFICES ASSUME NEW k \in 0..Size PROVE Hops[k] = h[k]
    OBVIOUS
  <2>1. k \in S
    BY <1>7, SizeIsNat
  <2> QED
    BY <2>1, SizeIsNat
<1> QED
  BY <1>8 DEF h

ChainFacts ==
  \A n \in Nat, end \in {Null, Wild} : \A q \in [1..n -> Cells] :
    Linked(n, q, end) =>
      /\ n <= Size /\ Length = n /\ Chain = q
      /\ OnChain = {q[i] : i \in 1..n}
      /\ \A k \in 0..Size : Hops[k] = IF k < n THEN q[k + 1] ELSE end

LEMMA ChainIs == ChainFacts
<1> SUFFICES ASSUME NEW n \in Nat, NEW end \in {Null, Wild}, NEW q \in [1..n -> Cells],
                    Linked(n, q, end)
             PROVE  /\ n <= Size /\ Length = n /\ Chain = q
                    /\ OnChain = {q[i] : i \in 1..n}
                    /\ \A k \in 0..Size : Hops[k] = IF k < n THEN q[k + 1] ELSE end
  BY DEF ChainFacts
<1>1. n <= Size
  BY NoLongerThanHeap DEF Linked
<1>2. \A k \in 0..Size : Hops[k] = IF k < n THEN q[k + 1] ELSE end
  BY HopsAlong
<1>3. Length = n
  <2>1. {k \in 0..Size : Hops[k] \in Cells} = 0..(n - 1)
    BY <1>1, <1>2, SizeIsNat
  <2>2. Cardinality(0..(n - 1)) = n
    BY FS_Interval
  <2> QED
    BY <2>1, <2>2 DEF Length, Size
<1>4. Chain = q
  <2>1. \A i \in 1..n : Hops[i - 1] = q[i]
    BY <1>1, <1>2, SizeIsNat
  <2> QED
    BY <1>3, <2>1 DEF Chain
<1>5. OnChain = {q[i] : i \in 1..n}
  <2>1. \A i \in 1..n : i - 1 \in 0..Size /\ Hops[i - 1] = q[i]
    BY <1>1, <1>2, SizeIsNat
  <2>2. \A k \in 0..Size : Hops[k] \in Cells => k + 1 \in 1..n /\ Hops[k] = q[k + 1]
    BY <1>1, <1>2, SizeIsNat
  <2> QED
    BY <2>1, <2>2 DEF OnChain, Size
<1> QED
  BY <1>1, <1>2, <1>3, <1>4, <1>5

(* The same facts about the state after a step. *)
LEMMA ChainIsNext == ChainFacts'
BY ChainIs, PTL

LEMMA SameChain ==
  ASSUME UNCHANGED <<list, next>>
  PROVE  /\ Hops' = Hops /\ Length' = Length /\ Chain' = Chain /\ OnChain' = OnChain
         /\ \A n, q, end : Linked(n, q, end)' <=> Linked(n, q, end)
BY DEF Hops, Length, Chain, OnChain, Linked
-----------------------------------------------------------------------------
(***************************************************************************)
(* Facts the steps have in common                                          *)
(***************************************************************************)

(* A filled list read as the cells of its chain. *)
LEMMA FilledChain ==
  ASSUME ChainInv, Filled
  PROVE  /\ Length \in Nat /\ Length >= 1 /\ Length <= Size
         /\ Chain \in [1..Length -> Cells] /\ Linked(Length, Chain, Null)
         /\ OnChain = {Chain[i] : i \in 1..Length}
         /\ list = Chain[1]
         /\ \A k \in 0..Size : Hops[k] = IF k < Length THEN Chain[k + 1] ELSE Null
<1>1. Length \in Nat /\ Length >= 1 /\ Chain \in [1..Length -> Cells] /\ Linked(Length, Chain, Null)
  BY SizeIsNat DEF ChainInv, Size
<1> QED
  BY <1>1, ChainIs, SizeIsNat DEF ChainFacts, Linked

(* The cells that lead to Null after a step are the chain after it. *)
LEMMA ChainAfter ==
  ASSUME NEW n \in Nat, n >= 1, NEW q \in [1..n -> Cells], Linked(n, q, Null)'
  PROVE  /\ ChainInv' /\ Length' = n /\ Chain' = q /\ n <= Size
         /\ OnChain' = {q[i] : i \in 1..n}
         /\ \A k \in 0..Size : Hops'[k] = IF k < n THEN q[k + 1] ELSE Null
<1>1. /\ Length' = n /\ Chain' = q /\ n <= Size
      /\ OnChain' = {q[i] : i \in 1..n}
      /\ \A k \in 0..Size : Hops'[k] = IF k < n THEN q[k + 1] ELSE Null
  BY ChainIsNext DEF ChainFacts
<1>2. ChainInv'
  BY <1>1 DEF ChainInv, Linked, Size
<1> QED
  BY <1>1, <1>2

LEMMA ChainUndisturbed ==
  ASSUME ChainInv, UNCHANGED <<list, next>>, Filled' => Filled
  PROVE  ChainInv'
BY SameChain DEF ChainInv

(* Only one thread is inside a call. *)
LEMMA OneCaller ==
  ASSUME OwnerInv, NEW t \in Threads, pc[t] # "idle", NEW u \in Threads, u # t
  PROVE  pc[u] = "idle"
BY DEF OwnerInv

(* Between calls the counter is exact. *)
LEMMA ExactCounter ==
  ASSUME OwnerInv, CountInv, init = "done", NEW t \in Threads,
         pc[t] \in {"locked", "link", "walk"}
  PROVE  counter = Length
BY OneCaller DEF CountInv

LEMMA TruthOfMembership ==
  ASSUME NEW S, NEW x, NEW y, y = (x \in S)
  PROVE  y \in BOOLEAN
OBVIOUS
-----------------------------------------------------------------------------
(***************************************************************************)
(* Each step keeps the invariant                                           *)
(***************************************************************************)
LEMMA InitHolds == Init => IInv
<1> SUFFICES ASSUME Init PROVE IInv
  OBVIOUS
<1>1. TypeOK
  BY DEF Init, TypeOK, Pointer, PC, Entry
<1> QED
  BY <1>1 DEF Init, IInv, OwnerInv, InitInv, ChainInv, HeapAccounted, CountInv, CallInv,
           WalkInv, PrintInv, Filled

LEMMA TypeKept ==
  ASSUME IInv, Next
  PROVE  TypeOK'
<1> USE DEF IInv, TypeOK, Pointer, PC, Goto, listVars, threadVars, printVars
<1>1. CASE InitList
  BY <1>1 DEF InitList, InitAlloc, InitAllocFails, InitFill, InitCount, InitInv
<1>2. CASE InfoStep
  <2>1. CASE PrintStart
    <3>1. OnChain \subseteq Cells
      BY DEF OnChain
    <3>2. Listed \subseteq Entry
      BY <3>1 DEF Listed
    <3>3. undisturbed' \in BOOLEAN
      <4>1. undisturbed' = (init \in {"count", "done"})
        BY <2>1 DEF PrintStart
      <4> QED
        BY <4>1, TruthOfMembership
    <3> QED
      BY <2>1, <3>2, <3>3 DEF PrintStart
  <2>2. CASE PrintMember
    BY <2>2 DEF PrintMember
  <2>3. CASE PrintNext
    BY <2>3 DEF PrintNext, PrintInv
  <2> QED
    BY <1>2, <2>1, <2>2, <2>3 DEF InfoStep
<1>3. CASE ListDelete
  BY <1>3 DEF ListDelete
<1>4. ASSUME NEW t \in Threads, LockList(t) \/ UnlockList(t)
      PROVE  TypeOK'
  BY <1>4 DEF LockList, UnlockList
<1>5. ASSUME NEW t \in Threads, Insertion(t)
      PROVE  TypeOK'
  <2>1. CASE NewLink(t)
    BY <2>1 DEF NewLink
  <2>2. CASE NewCount(t)
    BY <2>2 DEF NewCount
  <2>3. ASSUME NEW e \in Entry, NewMember(t, e)
        PROVE  TypeOK'
    BY <2>3 DEF NewMember, FillNode
  <2> QED
    BY <1>5, <2>1, <2>2, <2>3 DEF Insertion
<1>6. ASSUME NEW t \in Threads, Deletion(t)
      PROVE  TypeOK'
  <2>1. CASE DeleteFree(t)
    BY <2>1 DEF DeleteFree, Leftover, CallInv
  <2>2. CASE DeleteCount(t)
    BY <2>2 DEF DeleteCount, CallInv, CountInv, ChainInv, Filled
  <2>3. ASSUME NEW id \in Ids, DeleteMember(t, id)
        PROVE  TypeOK'
    <3>1. /\ Filled /\ Chain \in [1..Length -> Cells] /\ Length \in Nat
      BY <2>3, FilledChain DEF DeleteMember, Serving, Filled
    <3>2. PICK i \in 2..Length : /\ next' = [next EXCEPT ![Chain[i - 1]] = next[Chain[i]]]
                                 /\ node' = [node EXCEPT ![t] = Chain[i]]
      BY <2>3 DEF DeleteMember
    <3>3. Chain[i] \in Cells
      BY <3>1
    <3> QED
      BY <2>3, <3>2, <3>3 DEF DeleteMember
  <2> QED
    BY <1>6, <2>1, <2>2, <2>3 DEF Deletion
<1>7. ASSUME NEW t \in Threads, Walk(t)
      PROVE  TypeOK'
  BY <1>7 DEF Walk, WalkStart, WalkStep, WalkEnd
<1> QED
  BY <1>1, <1>2, <1>3, <1>4, <1>5, <1>6, <1>7 DEF Next

LEMMA OwnerKept ==
  ASSUME IInv, Next
  PROVE  OwnerInv'
<1> USE DEF IInv, TypeOK, OwnerInv, Goto, listVars, threadVars, printVars
<1>1. CASE InitList
  BY <1>1 DEF InitList, InitAlloc, InitAllocFails, InitFill, InitCount
<1>2. CASE InfoStep
  BY <1>2 DEF InfoStep, PrintStart, PrintMember, PrintNext
<1>3. CASE ListDelete
  BY <1>3 DEF ListDelete
<1>4. ASSUME NEW t \in Threads, LockList(t) \/ UnlockList(t)
      PROVE  OwnerInv'
  BY <1>4, OneCaller DEF LockList, UnlockList
<1>5. ASSUME NEW t \in Threads, Insertion(t)
      PROVE  OwnerInv'
  BY <1>5 DEF Insertion, NewLink, NewCount, NewMember
<1>6. ASSUME NEW t \in Threads, Deletion(t)
      PROVE  OwnerInv'
  BY <1>6 DEF Deletion, DeleteFree, DeleteCount, DeleteMember
<1>7. ASSUME NEW t \in Threads, Walk(t)
      PROVE  OwnerInv'
  BY <1>7 DEF Walk, WalkStart, WalkStep, WalkEnd
<1> QED
  BY <1>1, <1>2, <1>3, <1>4, <1>5, <1>6, <1>7 DEF Next

(***************************************************************************)
(* What a step does to the chain, action by action.  FilledChain describes *)
(* the state before it; the chain after it is named explicitly.            *)
(***************************************************************************)

(* malloc hands out the first cell, whose pointer leads nowhere yet. *)
LEMMA AllocChain ==
  ASSUME IInv, InitAlloc
  PROVE  /\ Length' = 1 /\ OnChain' = {list'} /\ list' \in Cells
         /\ next'[list'] \in {Null, Wild} /\ allocated' = {list'}
<1>1. PICK c \in Cells \ allocated, p \in {Null, Wild} :
        /\ list' = c /\ allocated' = allocated \cup {c} /\ next' = [next EXCEPT ![c] = p]
  BY DEF InitAlloc
<1>2. next'[c] = p /\ allocated' = {c}
  BY <1>1 DEF IInv, TypeOK, HeapAccounted, InitAlloc
<1> PICK q : q = [i \in 1..1 |-> c]
  OBVIOUS
<1>3. q \in [1..1 -> Cells] /\ Linked(1, q, p)'
  BY <1>1, <1>2 DEF Linked
<1>4. Length' = 1 /\ OnChain' = {q[i] : i \in 1..1}
  <2>1. 1 \in Nat
    OBVIOUS
  <2> QED
    BY <1>3, <2>1, ChainIsNext, Zenon DEF ChainFacts
<1> QED
  BY <1>1, <1>2, <1>4

(* The head is filled: a list of the node itself. *)
LEMMA FillChain ==
  ASSUME IInv, InitFill
  PROVE  /\ ChainInv' /\ Length' = 1 /\ Chain' = [i \in 1..1 |-> list]
         /\ OnChain' = {list} /\ OnChain = {list} /\ list \in Cells
<1>0. 1 \in Nat /\ 1 >= 1
  OBVIOUS
<1> PICK q : q = [i \in 1..1 |-> list]
  OBVIOUS
<1>1. list \in Cells /\ next[list] \in {Null, Wild} /\ q \in [1..1 -> Cells]
  BY DEF IInv, InitInv, InitFill
<1>2. next'[list] = Null
  BY <1>1 DEF IInv, TypeOK, InitFill
<1>3. Linked(1, q, Null)'
  BY <1>1, <1>2 DEF Linked, InitFill
<1>4. Linked(1, q, next[list])
  BY <1>1 DEF Linked
<1>5. OnChain = {q[i] : i \in 1..1}
  BY <1>0, <1>1, <1>4, ChainIs, Zenon DEF ChainFacts
<1>6. /\ ChainInv' /\ Length' = 1 /\ Chain' = q
      /\ OnChain' = {q[i] : i \in 1..1}
  BY <1>0, <1>1, <1>3, ChainAfter, Zenon
<1> QED
  BY <1>1, <1>5, <1>6

(* A write to a cell off the chain leaves the chain alone. *)
LEMMA ChainUntouched ==
  ASSUME ChainInv, Filled, NEW c \in Cells, c \notin OnChain, NEW p,
         next \in [Cells -> Pointer],
         list' = list, next' = [next EXCEPT ![c] = p]
  PROVE  ChainInv' /\ Length' = Length /\ Chain' = Chain /\ OnChain' = OnChain
         /\ \A k \in 0..Size : Hops'[k] = Hops[k]
<1>1. PICK n, q :
        /\ n = Length /\ q = Chain /\ n \in Nat /\ q \in [1..n -> Cells]
        /\ n >= 1 /\ Linked(n, q, Null)
        /\ OnChain = {q[i] : i \in 1..n}
        /\ \A k \in 0..Size : Hops[k] = IF k < n THEN q[k + 1] ELSE Null
  BY FilledChain
<1>2. \A i \in 1..n : next'[q[i]] = next[q[i]]
  BY <1>1
<1>3. Linked(n, q, Null)'
  BY <1>1, <1>2 DEF Linked
<1>4. /\ ChainInv' /\ Length' = n /\ Chain' = q
      /\ OnChain' = {q[i] : i \in 1..n}
      /\ \A k \in 0..Size : Hops'[k] = IF k < n THEN q[k + 1] ELSE Null
  BY <1>1, <1>3, ChainAfter
<1> QED
  BY <1>1, <1>4

(* The cell in hand before the link or the free is off the chain. *)
LEMMA PrivateCell ==
  ASSUME IInv, NEW t \in Threads, pc[t] \in {"link", "free"}
  PROVE  node[t] \in Cells /\ node[t] \in allocated /\ node[t] \notin OnChain /\ init = "done"
<1>1. init = "done" /\ node[t] \in Cells /\ node[t] \in Private
  BY DEF IInv, CallInv, Private
<1> QED
  BY <1>1 DEF IInv, HeapAccounted

(* NewLink appends the cell. *)
LEMMA LinkChain ==
  ASSUME IInv, NEW t \in Threads, NewLink(t)
  PROVE  /\ ChainInv' /\ Length' = Length + 1
         /\ Chain' = [i \in 1..Length + 1 |-> IF i <= Length THEN Chain[i] ELSE node[t]]
         /\ OnChain' = OnChain \cup {node[t]}
<1>1. /\ node[t] \in Cells /\ node[t] \notin OnChain /\ next[node[t]] = Null /\ Filled
  BY PrivateCell DEF IInv, CallInv, NewLink, Filled
<1>2. PICK n, q, c :
        /\ n = Length /\ q = Chain /\ c = node[t] /\ n \in Nat /\ n >= 1 /\ n <= Size
        /\ q \in [1..n -> Cells] /\ Linked(n, q, Null)
        /\ OnChain = {q[i] : i \in 1..n}
  BY <1>1, FilledChain DEF IInv
<1>3. \A i \in 1..n : q[i] # c
  BY <1>1, <1>2
<1>4. next' = [next EXCEPT ![q[n]] = c] /\ list' = list
  BY <1>2 DEF NewLink
<1>5. /\ next'[q[n]] = c /\ next'[c] = Null
      /\ \A i \in 1..n : i # n => next'[q[i]] = q[i + 1]
  BY <1>1, <1>2, <1>3, <1>4 DEF Linked, IInv, TypeOK
<1>6. PICK r : r = [i \in 1..n + 1 |-> IF i <= n THEN q[i] ELSE c]
  OBVIOUS
<1>7. r \in [1..n + 1 -> Cells] /\ n + 1 \in Nat /\ n + 1 >= 1
  BY <1>1, <1>2, <1>6
<1>8. Linked(n + 1, r, Null)'
  <2>1. list' = r[1]
    BY <1>2, <1>4, <1>6 DEF Linked
  <2>2. \A i \in 1..n + 1 : next'[r[i]] = IF i = n + 1 THEN Null ELSE r[i + 1]
    BY <1>2, <1>5, <1>6
  <2>3. \A i, j \in 1..n + 1 : r[i] = r[j] => i = j
    BY <1>2, <1>3, <1>6 DEF Linked
  <2> QED
    BY <1>2, <2>1, <2>2, <2>3 DEF Linked
<1>9. /\ ChainInv' /\ Length' = n + 1 /\ Chain' = r
      /\ OnChain' = {r[i] : i \in 1..n + 1}
  BY <1>7, <1>8, ChainAfter, Zenon
<1>10. {r[i] : i \in 1..n + 1} = {q[i] : i \in 1..n} \cup {c}
  BY <1>2, <1>6
<1> QED
  BY <1>2, <1>6, <1>9, <1>10

(* DeleteMember takes the cell at position i out. *)
LEMMA UnlinkChain ==
  ASSUME IInv, NEW t \in Threads, NEW id \in Ids, DeleteMember(t, id)
  PROVE  \E i \in 2..Length :
           /\ Found(i, id) /\ ChainInv' /\ Length' = Length - 1
           /\ Chain' = [j \in 1..Length - 1 |-> Chain[IF j < i THEN j ELSE j + 1]]
           /\ node' = [node EXCEPT ![t] = Chain[i]]
           /\ Chain[i] \in Cells
           /\ OnChain = OnChain' \cup {Chain[i]} /\ Chain[i] \notin OnChain'
<1>1. PICK n, q :
        /\ n = Length /\ q = Chain /\ n \in Nat /\ n >= 1 /\ n <= Size
        /\ q \in [1..n -> Cells] /\ Linked(n, q, Null)
        /\ OnChain = {q[k] : k \in 1..n}
  BY FilledChain DEF IInv, Filled, DeleteMember, Serving
<1>2. PICK i \in 2..n : /\ Found(i, id)
                        /\ next' = [next EXCEPT ![q[i - 1]] = next[q[i]]]
                        /\ node' = [node EXCEPT ![t] = q[i]]
                        /\ list' = list
  BY <1>1 DEF DeleteMember
<1>3. PICK r : r = [j \in 1..n - 1 |-> q[IF j < i THEN j ELSE j + 1]]
  OBVIOUS
<1>4. r \in [1..n - 1 -> Cells] /\ n - 1 \in Nat /\ n - 1 >= 1
  BY <1>1, <1>3
<1>5. /\ next'[q[i - 1]] = IF i = n THEN Null ELSE q[i + 1]
      /\ \A k \in 1..n : k # i - 1 => next'[q[k]] = IF k = n THEN Null ELSE q[k + 1]
  BY <1>1, <1>2 DEF Linked, IInv, TypeOK
<1>6. Linked(n - 1, r, Null)'
  <2>1. list' = r[1]
    BY <1>1, <1>2, <1>3, <1>4 DEF Linked
  <2>2. ASSUME NEW j \in 1..n - 1
        PROVE  next'[r[j]] = IF j = n - 1 THEN Null ELSE r[j + 1]
    <3>1. CASE j < i - 1
      BY <3>1, <1>1, <1>3, <1>5
    <3>2. CASE j = i - 1
      BY <3>2, <1>1, <1>3, <1>5
    <3>3. CASE j > i - 1
      BY <3>3, <1>1, <1>3, <1>5
    <3> QED
      BY <3>1, <3>2, <3>3
  <2>3. ASSUME NEW j \in 1..n - 1, NEW k \in 1..n - 1, r[j] = r[k]
        PROVE  j = k
    <3>1. PICK a \in 1..n : a = (IF j < i THEN j ELSE j + 1) /\ r[j] = q[a]
      BY <1>1, <1>3
    <3>2. PICK b \in 1..n : b = (IF k < i THEN k ELSE k + 1) /\ r[k] = q[b]
      BY <1>1, <1>3
    <3>3. a = b
      <4>1. q[a] = q[b] /\ \A x, y \in 1..n : q[x] = q[y] => x = y
        BY <2>3, <3>1, <3>2, <1>1 DEF Linked
      <4> QED
        BY <4>1
    <3> QED
      BY <3>1, <3>2, <3>3, <1>1
  <2> QED
    BY <1>4, <2>1, <2>2, <2>3 DEF Linked
<1>7. /\ ChainInv' /\ Length' = n - 1 /\ Chain' = r
      /\ OnChain' = {r[j] : j \in 1..n - 1}
  BY <1>4, <1>6, ChainAfter, Zenon
<1>8. \A j \in 1..n - 1 : r[j] # q[i]
  BY <1>1, <1>3 DEF Linked
<1>9. \A k \in 1..n : k # i => \E j \in 1..n - 1 : r[j] = q[k]
  <2> SUFFICES ASSUME NEW k \in 1..n, k # i
               PROVE  \E j \in 1..n - 1 : r[j] = q[k]
    OBVIOUS
  <2>1. CASE k < i
    <3>1. k \in 1..n - 1 /\ r[k] = q[k]
      BY <2>1, <1>1, <1>3
    <3> QED
      BY <3>1
  <2>2. CASE k > i
    <3>1. k - 1 \in 1..n - 1 /\ r[k - 1] = q[k]
      BY <2>2, <1>1, <1>3
    <3> QED
      BY <3>1
  <2> QED
    BY <2>1, <2>2, <1>1
<1>10. \A j \in 1..n - 1 : \E k \in 1..n : r[j] = q[k]
  BY <1>1, <1>3
<1>11. OnChain = OnChain' \cup {q[i]} /\ q[i] \notin OnChain' /\ q[i] \in Cells
  <2>1. q[i] \in Cells /\ q[i] \in OnChain
    BY <1>1
  <2>2. q[i] \notin OnChain'
    BY <1>7, <1>8
  <2>3. OnChain' \subseteq OnChain
    BY <1>1, <1>7, <1>10
  <2>4. ASSUME NEW c \in OnChain, c # q[i] PROVE c \in OnChain'
    <3>1. PICK k \in 1..n : c = q[k] /\ k # i
      BY <1>1, <2>4
    <3> QED
      BY <3>1, <1>7, <1>9
  <2> QED
    BY <2>1, <2>2, <2>3, <2>4
<1>12. Length' = Length - 1 /\ Chain' = [j \in 1..Length - 1 |-> Chain[IF j < i THEN j ELSE j + 1]]
  BY <1>1, <1>3, <1>7
<1> QED
  BY <1>1, <1>2, <1>7, <1>11, <1>12

(* NewMember and DeleteFree write a cell that is off the chain. *)
LEMMA NewMemberChain ==
  ASSUME IInv, NEW t \in Threads, NEW e \in Entry, NewMember(t, e)
  PROVE  \E c \in Cells \ allocated :
           /\ ChainInv' /\ Length' = Length /\ Chain' = Chain /\ OnChain' = OnChain
           /\ \A k \in 0..Size : Hops'[k] = Hops[k]
           /\ c \notin OnChain /\ OnChain \subseteq Cells
           /\ allocated' = allocated \cup {c}
           /\ data' = [data EXCEPT ![c] = e] /\ next' = [next EXCEPT ![c] = Null]
           /\ node' = [node EXCEPT ![t] = c]
<1>1. PICK c \in Cells \ allocated :
        /\ allocated' = allocated \cup {c}
        /\ data' = [data EXCEPT ![c] = e] /\ next' = [next EXCEPT ![c] = Null]
        /\ node' = [node EXCEPT ![t] = c]
  BY DEF NewMember, FillNode
<1>2. Filled /\ list' = list /\ init = "done"
  BY DEF NewMember, Serving, Filled
<1>3. OnChain \subseteq allocated /\ OnChain \subseteq Cells
  BY <1>2 DEF IInv, HeapAccounted, OnChain
<1>4. next \in [Cells -> Pointer] /\ ChainInv
  BY DEF IInv, TypeOK
<1> QED
  BY <1>1, <1>2, <1>3, <1>4, ChainUntouched

LEMMA DeleteFreeChain ==
  ASSUME IInv, NEW t \in Threads, DeleteFree(t)
  PROVE  /\ ChainInv' /\ Length' = Length /\ Chain' = Chain /\ OnChain' = OnChain
         /\ \A k \in 0..Size : Hops'[k] = Hops[k]
<1>1. PICK p : next' = [next EXCEPT ![node[t]] = p] /\ list' = list
  BY DEF DeleteFree
<1>2. /\ node[t] \in Cells /\ node[t] \notin OnChain /\ Filled
      /\ next \in [Cells -> Pointer] /\ ChainInv
  BY PrivateCell DEF DeleteFree, Filled, IInv, TypeOK
<1> QED
  BY <1>1, <1>2, ChainUntouched

(* The steps that leave head and pointers alone. *)
StillStep ==
  \/ InitAllocFails \/ InitCount \/ InfoStep \/ ListDelete
  \/ \E t \in Threads : LockList(t) \/ UnlockList(t) \/ NewCount(t) \/ DeleteCount(t) \/ Walk(t)

LEMMA StillChain ==
  ASSUME StillStep
  PROVE  /\ UNCHANGED <<list, next, data>>
         /\ Hops' = Hops /\ Length' = Length /\ Chain' = Chain /\ OnChain' = OnChain
<1>1. UNCHANGED <<list, next, data>>
  BY DEF StillStep, InitAllocFails, InitCount, InfoStep, PrintStart, PrintMember, PrintNext,
         ListDelete, LockList, UnlockList, NewCount, DeleteCount, Walk, WalkStart, WalkStep,
         WalkEnd, listVars
<1> QED
  BY <1>1, SameChain

LEMMA StepKinds ==
  ASSUME Next
  PROVE  \/ StillStep \/ InitAlloc \/ InitFill
         \/ \E t \in Threads : \/ NewLink(t) \/ DeleteFree(t)
                               \/ \E e \in Entry : NewMember(t, e)
                               \/ \E id \in Ids : DeleteMember(t, id)
BY DEF Next, StillStep, InitList, Insertion, Deletion

LEMMA ChainKept ==
  ASSUME IInv, Next
  PROVE  ChainInv'
<1>1. CASE StillStep
  <2>1. Filled' => Filled
    BY <1>1 DEF StillStep, Filled, InitAllocFails, InitCount, InfoStep, PrintStart, PrintMember,
         PrintNext, ListDelete, LockList, UnlockList, NewCount, DeleteCount, Walk, WalkStart,
         WalkStep, WalkEnd
  <2> QED
    BY <1>1, <2>1, StillChain, ChainUndisturbed DEF IInv
<1>2. CASE InitAlloc
  BY <1>2 DEF InitAlloc, ChainInv, Filled
<1>3. CASE InitFill
  BY <1>3, FillChain
<1>4. ASSUME NEW t \in Threads, NewLink(t) PROVE ChainInv'
  BY <1>4, LinkChain
<1>5. ASSUME NEW t \in Threads, DeleteFree(t) PROVE ChainInv'
  BY <1>5, DeleteFreeChain
<1>6. ASSUME NEW t \in Threads, NEW e \in Entry, NewMember(t, e) PROVE ChainInv'
  BY <1>6, NewMemberChain
<1>7. ASSUME NEW t \in Threads, NEW id \in Ids, DeleteMember(t, id) PROVE ChainInv'
  BY <1>7, UnlinkChain
<1> QED
  BY <1>1, <1>2, <1>3, <1>4, <1>5, <1>6, <1>7, StepKinds

LEMMA InitKept ==
  ASSUME IInv, Next
  PROVE  InitInv'
<1> USE DEF IInv, InitInv
<1>1. CASE InitList
  <2>1. CASE InitAlloc
    BY <2>1, AllocChain DEF InitAlloc
  <2>2. CASE InitAllocFails
    BY <2>2 DEF InitAllocFails, listVars, printVars
  <2>3. CASE InitFill
    BY <2>3, FillChain DEF InitFill
  <2>4. CASE InitCount
    BY <2>4 DEF InitCount
  <2> QED
    BY <1>1, <2>1, <2>2, <2>3, <2>4 DEF InitList
<1>2. CASE InfoStep
  <2>1. Length' = Length
    BY <1>2, StillChain DEF StillStep
  <2> QED
    BY <1>2, <2>1 DEF InfoStep, PrintStart, PrintMember, PrintNext, listVars, threadVars, PrintInv, Next
<1>3. CASE ListDelete
  BY <1>3 DEF ListDelete, printVars
<1>4. ASSUME NEW t \in Threads,
             LockList(t) \/ UnlockList(t) \/ Walk(t)
      PROVE  InitInv'
  <2>1. Length' = Length
    BY <1>4, StillChain DEF StillStep
  <2> QED
    BY <1>4, <2>1 DEF LockList, UnlockList, Walk, WalkStart, WalkStep, WalkEnd, listVars, printVars
<1>5. ASSUME NEW t \in Threads, Insertion(t) \/ Deletion(t)
      PROVE  InitInv'
  <2>1. init = "done" /\ init' = init
    BY <1>5 DEF Insertion, Deletion, NewLink, NewCount, NewMember, DeleteFree, DeleteCount,
         DeleteMember, Serving, CallInv
  <2> QED
    BY <2>1
<1> QED
  BY <1>1, <1>2, <1>3, <1>4, <1>5 DEF Next

(* A step of a caller alone: nobody else has a cell in hand. *)
LEMMA PrivateOf ==
  ASSUME OwnerInv, NEW t \in Threads, pc[t] # "idle"
  PROVE  Private = IF pc[t] \in {"link", "free"} THEN {node[t]} ELSE {}
BY OneCaller DEF Private

LEMMA NothingPrivate ==
  ASSUME CallInv, init # "done"
  PROVE  Private = {}
BY DEF Private, CallInv

LEMMA HeapKept ==
  ASSUME IInv, Next
  PROVE  HeapAccounted'
<1> USE DEF IInv, HeapAccounted
<1>1. CASE InitList
  <2>1. Private' = {}
    <3>1. UNCHANGED <<pc, node>> /\ init # "done"
      BY <1>1 DEF InitList, InitAlloc, InitAllocFails, InitFill, InitCount, threadVars
    <3> QED
      BY <3>1, NothingPrivate DEF Private
  <2>2. CASE InitAlloc
    BY <2>2, <2>1, AllocChain DEF InitAlloc
  <2>3. CASE InitAllocFails
    BY <2>3 DEF InitAllocFails, listVars
  <2>4. CASE InitFill
    BY <2>4, <2>1, FillChain, NothingPrivate DEF InitFill
  <2>5. CASE InitCount
    BY <2>5, <2>1, StillChain, NothingPrivate DEF InitCount, StillStep
  <2> QED
    BY <1>1, <2>2, <2>3, <2>4, <2>5 DEF InitList
<1>2. CASE InfoStep
  <2>1. OnChain' = OnChain
    BY <1>2, StillChain DEF StillStep
  <2> QED
    BY <1>2, <2>1 DEF InfoStep, PrintStart, PrintMember, PrintNext, listVars, threadVars, Private
<1>3. CASE ListDelete
  <2>1. Private = {}
    BY <1>3 DEF ListDelete, Private
  <2> QED
    BY <1>3, <2>1 DEF ListDelete
<1>4. ASSUME NEW t \in Threads, LockList(t) \/ UnlockList(t) \/ NewCount(t) \/ DeleteCount(t) \/ Walk(t)
      PROVE  HeapAccounted'
  <2>1. OnChain' = OnChain
    BY <1>4, StillChain DEF StillStep
  <2>2. /\ UNCHANGED <<init, allocated>>
        /\ pc[t] \notin {"link", "free"} /\ pc'[t] \notin {"link", "free"}
        /\ \A u \in Threads : u # t => pc'[u] = pc[u] /\ node'[u] = node[u]
    BY <1>4 DEF LockList, UnlockList, NewCount, DeleteCount, Walk, WalkStart, WalkStep, WalkEnd,
       listVars, Goto, TypeOK
  <2>3. Private' = Private
    BY <2>2 DEF Private
  <2> QED
    BY <2>1, <2>2, <2>3
<1>5. ASSUME NEW t \in Threads, NewLink(t)
      PROVE  HeapAccounted'
  <2>1. init = "done" /\ init' = "done" /\ allocated' = allocated
    BY <1>5, PrivateCell DEF NewLink
  <2>2. Private = {node[t]} /\ Private' = {}
    <3>1. pc[t] = "link" /\ pc'[t] = "count"
      BY <1>5 DEF NewLink, Goto, TypeOK
    <3>2. pc'[t] # "idle" /\ OwnerInv'
      BY <3>1, OwnerKept
    <3>3. \A u \in Threads : u # t => pc'[u] = "idle"
      BY <3>2 DEF OwnerInv
    <3> QED
      BY <3>1, <3>3, PrivateOf DEF Private
  <2> QED
    BY <1>5, <2>1, <2>2, LinkChain
<1>6. ASSUME NEW t \in Threads, NEW e \in Entry, NewMember(t, e)
      PROVE  HeapAccounted'
  <2>1. PICK c \in Cells \ allocated :
          /\ OnChain' = OnChain /\ c \notin OnChain
          /\ allocated' = allocated \cup {c}
          /\ node' = [node EXCEPT ![t] = c]
    BY <1>6, NewMemberChain
  <2>2. /\ init = "done" /\ init' = "done"
        /\ pc[t] = "locked" /\ pc' = [pc EXCEPT ![t] = "link"]
    BY <1>6 DEF NewMember, Serving, Goto
  <2>3. Private = {}
    BY <2>2, PrivateOf
  <2>4. Private' = {c}
    <3>1. \A u \in Threads : u # t => pc'[u] = "idle"
      BY <2>2, OneCaller DEF TypeOK
    <3>2. pc'[t] = "link" /\ node'[t] = c
      BY <2>1, <2>2 DEF TypeOK
    <3> QED
      BY <3>1, <3>2 DEF Private
  <2> QED
    BY <2>1, <2>2, <2>3, <2>4
<1>7. ASSUME NEW t \in Threads, DeleteFree(t)
      PROVE  HeapAccounted'
  <2>1. /\ init = "done" /\ init' = "done" /\ pc[t] = "free" /\ pc' = [pc EXCEPT ![t] = "uncount"]
        /\ allocated' = allocated \ {node[t]} /\ OnChain' = OnChain
    BY <1>7, PrivateCell, DeleteFreeChain DEF DeleteFree, Goto
  <2>2. Private = {node[t]}
    BY <2>1, PrivateOf
  <2>3. Private' = {}
    <3>1. \A u \in Threads : pc'[u] \in {"idle", "uncount"}
      BY <2>1, OneCaller DEF TypeOK
    <3> QED
      BY <3>1 DEF Private
  <2> QED
    BY <2>1, <2>2, <2>3
<1>8. ASSUME NEW t \in Threads, NEW id \in Ids, DeleteMember(t, id)
      PROVE  HeapAccounted'
  <2>1. PICK c \in Cells : /\ node' = [node EXCEPT ![t] = c]
                           /\ OnChain = OnChain' \cup {c} /\ c \notin OnChain'
    BY <1>8, UnlinkChain
  <2>2. /\ init = "done" /\ init' = "done" /\ allocated' = allocated
        /\ pc[t] = "locked" /\ pc' = [pc EXCEPT ![t] = "free"]
    BY <1>8 DEF DeleteMember, Serving, Goto
  <2>3. Private = {}
    BY <2>2, PrivateOf
  <2>4. Private' = {c}
    <3>1. \A u \in Threads : u # t => pc'[u] = "idle"
      BY <2>2, OneCaller DEF TypeOK
    <3>2. pc'[t] = "free" /\ node'[t] = c
      BY <2>1, <2>2 DEF TypeOK
    <3> QED
      BY <3>1, <3>2 DEF Private
  <2> QED
    BY <2>1, <2>2, <2>3, <2>4
<1> QED
  BY <1>1, <1>2, <1>3, <1>4, <1>5, <1>6, <1>7, <1>8 DEF Next, Insertion, Deletion

LEMMA CountKept ==
  ASSUME IInv, Next
  PROVE  CountInv'
<1> USE DEF IInv
<1>1. CASE InitList
  <2>1. CASE InitCount
    <3>1. Length' = 1 /\ counter' = 1 /\ pc' = pc
      BY <2>1, StillChain DEF InitCount, StillStep, InitInv, threadVars
    <3>2. \A t \in Threads : pc[t] \notin {"count", "free", "uncount"}
      BY <2>1 DEF InitCount, CallInv
    <3> QED
      BY <3>1, <3>2 DEF CountInv
  <2> QED
    BY <1>1, <2>1 DEF InitList, InitAlloc, InitAllocFails, InitFill, CountInv
<1>2. CASE InfoStep
  <2>1. Length' = Length
    BY <1>2, StillChain DEF StillStep
  <2> QED
    BY <1>2, <2>1 DEF InfoStep, PrintStart, PrintMember, PrintNext, listVars, threadVars, CountInv
<1>3. CASE ListDelete
  BY <1>3 DEF ListDelete, CountInv
<1>4. ASSUME NEW t \in Threads, LockList(t) \/ UnlockList(t) \/ Walk(t)
      PROVE  CountInv'
  <2>1. Length' = Length
    BY <1>4, StillChain DEF StillStep
  <2>2. /\ UNCHANGED <<init, counter>>
        /\ pc[t] \notin {"count", "free", "uncount"} /\ pc'[t] \notin {"count", "free", "uncount"}
        /\ \A u \in Threads : u # t => pc'[u] = pc[u]
    BY <1>4 DEF LockList, UnlockList, Walk, WalkStart, WalkStep, WalkEnd, listVars, Goto, TypeOK
  <2> QED
    BY <2>1, <2>2 DEF CountInv
<1>5. ASSUME NEW t \in Threads, Insertion(t) \/ Deletion(t)
      PROVE  CountInv'
  <2>1. init = "done" /\ pc[t] # "idle" /\ Filled
    BY <1>5 DEF Insertion, Deletion, NewLink, NewCount, NewMember, DeleteFree, DeleteCount,
         DeleteMember, Serving, CallInv, Filled
  <2>2. Length \in Nat /\ counter \in Nat
    BY <2>1, FilledChain DEF TypeOK
  <2>3. \A u \in Threads : u # t => pc[u] = "idle"
    BY <2>1, OneCaller
  <2> USE DEF CountInv, Goto, TypeOK
  <2>4. CASE NewLink(t)
    BY <2>4, <2>1, <2>2, <2>3, LinkChain DEF NewLink
  <2>5. CASE NewCount(t)
    <3>1. Length' = Length
      BY <2>5, StillChain DEF StillStep
    <3> QED
      BY <2>5, <2>1, <2>2, <2>3, <3>1 DEF NewCount
  <2>6. ASSUME NEW e \in Entry, NewMember(t, e) PROVE CountInv'
    <3>1. Length' = Length
      BY <2>6, NewMemberChain
    <3> QED
      BY <2>6, <2>1, <2>2, <2>3, <3>1 DEF NewMember
  <2>7. CASE DeleteFree(t)
    <3>1. Length' = Length
      BY <2>7, DeleteFreeChain
    <3> QED
      BY <2>7, <2>1, <2>2, <2>3, <3>1 DEF DeleteFree
  <2>8. CASE DeleteCount(t)
    <3>1. Length' = Length
      BY <2>8, StillChain DEF StillStep
    <3> QED
      BY <2>8, <2>1, <2>2, <2>3, <3>1 DEF DeleteCount
  <2>9. ASSUME NEW id \in Ids, DeleteMember(t, id) PROVE CountInv'
    <3>1. Length' = Length - 1
      BY <2>9, UnlinkChain
    <3> QED
      BY <2>9, <2>1, <2>2, <2>3, <3>1 DEF DeleteMember
  <2> QED
    BY <1>5, <2>4, <2>5, <2>6, <2>7, <2>8, <2>9 DEF Insertion, Deletion
<1> QED
  BY <1>1, <1>2, <1>3, <1>4, <1>5 DEF Next

LEMMA CallKept ==
  ASSUME IInv, Next
  PROVE  CallInv'
<1> USE DEF IInv, CallInv
<1>1. CASE InitList
  <2>1. pc' = pc /\ init # "done"
    BY <1>1 DEF InitList, InitAlloc, InitAllocFails, InitFill, InitCount, threadVars
  <2> QED
    BY <2>1
<1>2. CASE InfoStep
  <2>1. Length' = Length /\ Chain' = Chain
    BY <1>2, StillChain DEF StillStep
  <2>2. UNCHANGED <<pc, init, node, next, data>>
    BY <1>2 DEF InfoStep, PrintStart, PrintMember, PrintNext, listVars, threadVars
  <2> QED
    BY <2>1, <2>2
<1>3. CASE ListDelete
  BY <1>3 DEF ListDelete, threadVars
<1>4. ASSUME NEW t \in Threads, StillStep,
             LockList(t) \/ UnlockList(t) \/ NewCount(t) \/ DeleteCount(t) \/ Walk(t)
      PROVE  CallInv'
  <2>1. Length' = Length /\ Chain' = Chain /\ UNCHANGED <<next, data>>
    BY <1>4, StillChain
  <2>2. /\ init' = init /\ pc'[t] \notin {"link", "count", "free", "uncount"}
        /\ \A u \in Threads : u # t => pc'[u] = pc[u] /\ node'[u] = node[u]
    BY <1>4 DEF LockList, UnlockList, NewCount, DeleteCount, Walk, WalkStart, WalkStep, WalkEnd,
       listVars, Goto, TypeOK
  <2> QED
    BY <2>1, <2>2
<1>5. ASSUME NEW t \in Threads, init' = "done", pc'[t] \notin {"link", "free"},
             \A u \in Threads : u # t => pc'[u] = "idle"
      PROVE  CallInv'
  BY <1>5
<1>6. ASSUME NEW t \in Threads, NewLink(t) \/ DeleteFree(t)
      PROVE  CallInv'
  <2>1. init' = "done" /\ pc'[t] \in {"count", "uncount"}
    BY <1>6 DEF NewLink, DeleteFree, Goto, TypeOK
  <2>2. \A u \in Threads : u # t => pc'[u] = "idle"
    BY <1>6, OneCaller DEF NewLink, DeleteFree, Goto, TypeOK
  <2> QED
    BY <1>5, <2>1, <2>2
<1>7. ASSUME NEW t \in Threads, NEW e \in Entry, NewMember(t, e)
      PROVE  CallInv'
  <2>1. PICK c \in Cells \ allocated :
          /\ Length' = Length /\ Chain' = Chain
          /\ c \notin OnChain /\ data' = [data EXCEPT ![c] = e]
          /\ next' = [next EXCEPT ![c] = Null] /\ node' = [node EXCEPT ![t] = c]
    BY <1>7, NewMemberChain
  <2>2. init' = "done" /\ Filled /\ pc' = [pc EXCEPT ![t] = "link"] /\ pc[t] = "locked"
    BY <1>7 DEF NewMember, Serving, Goto, Filled
  <2>3. \A u \in Threads : u # t => pc'[u] = "idle"
    BY <2>2, OneCaller DEF TypeOK
  <2>4. node'[t] = c /\ next'[c] = Null /\ data'[c] = e
    BY <2>1 DEF TypeOK
  <2>5. ASSUME NEW i \in 1..Length
        PROVE  ~Abstract!Clash(data'[Chain[i]], e)
    <3>1. Chain[i] \in OnChain /\ Chain[i] \in Cells
      BY <2>2, FilledChain
    <3>2. data'[Chain[i]] = data[Chain[i]]
      BY <2>1, <3>1 DEF TypeOK
    <3>3. ~MustReject(e)
      BY <1>7 DEF NewMember
    <3> QED
      BY <3>1, <3>2, <3>3 DEF MustReject, SameId, Abstract!Clash
  <2> QED
    BY <2>1, <2>2, <2>3, <2>4, <2>5
<1>8. ASSUME NEW t \in Threads, NEW id \in Ids, DeleteMember(t, id)
      PROVE  CallInv'
  <2>1. PICK c \in Cells : node' = [node EXCEPT ![t] = c]
    BY <1>8, UnlinkChain
  <2>2. init' = "done" /\ pc' = [pc EXCEPT ![t] = "free"] /\ pc[t] = "locked"
    BY <1>8 DEF DeleteMember, Serving, Goto
  <2>3. \A u \in Threads : u # t => pc'[u] = "idle"
    BY <2>2, OneCaller DEF TypeOK
  <2> QED
    BY <2>1, <2>2, <2>3 DEF TypeOK
<1> QED
  BY <1>1, <1>2, <1>3, <1>4, <1>6, <1>7, <1>8 DEF Next, StillStep, Insertion, Deletion

LEMMA WalkKept ==
  ASSUME IInv, Next
  PROVE  WalkInv'
<1> USE DEF IInv, WalkInv
<1>1. CASE InitList
  <2>1. UNCHANGED <<pc, early>> /\ init \notin {"done", "cleaned"}
    BY <1>1 DEF InitList, InitAlloc, InitAllocFails, InitFill, InitCount, threadVars
  <2> QED
    BY <2>1
<1>2. CASE InfoStep
  <2>1. Length' = Length /\ Hops' = Hops
    BY <1>2, StillChain DEF StillStep
  <2> QED
    BY <1>2, <2>1 DEF InfoStep, PrintStart, PrintMember, PrintNext, threadVars, listVars
<1>3. CASE ListDelete
  BY <1>3 DEF ListDelete, threadVars
<1>4. ASSUME NEW t \in Threads,
             LockList(t) \/ UnlockList(t) \/ Insertion(t) \/ Deletion(t)
      PROVE  WalkInv'
  <2>1. CASE LockList(t)
    <3>1. Length' = Length /\ Hops' = Hops
      BY <2>1, StillChain DEF StillStep
    <3> QED
      BY <2>1, <3>1 DEF LockList, Goto, TypeOK, listVars
  <2>2. CASE ~LockList(t)
    <3>1. pc[t] # "idle" /\ pc'[t] # "walk"
      BY <1>4, <2>2 DEF UnlockList, Insertion, Deletion, NewLink, NewCount, NewMember, DeleteFree,
         DeleteCount, DeleteMember, Goto, TypeOK
    <3>2. \A u \in Threads : u # t => pc'[u] = pc[u]
      BY <1>4, <2>2 DEF UnlockList, Insertion, Deletion, NewLink, NewCount, NewMember, DeleteFree,
         DeleteCount, DeleteMember, Goto, TypeOK
    <3>3. \A u \in Threads : pc'[u] # "walk"
      BY <3>1, <3>2, OneCaller
    <3> QED
      BY <3>3
  <2> QED
    BY <2>1, <2>2
<1>5. ASSUME NEW t \in Threads, Walk(t)
      PROVE  WalkInv'
  <2>1. Length' = Length /\ Hops' = Hops
    BY <1>5, StillChain DEF StillStep
  <2>2. \A u \in Threads : u # t => pc'[u] = "idle"
    BY <1>5, OneCaller DEF Walk, WalkStart, WalkStep, WalkEnd, Goto, TypeOK
  <2>3. CASE WalkStart(t)
    <3>1. CASE Serving
      <4>1. Length \in Nat /\ Hops[0] = list
        <5>1. /\ Length \in Nat /\ Length >= 1 /\ list = Chain[1]
              /\ \A k \in 0..Size : Hops[k] = IF k < Length THEN Chain[k + 1] ELSE Null
          BY <3>1, FilledChain DEF Serving, Filled
        <5> QED
          BY <5>1, SizeIsNat
      <4>2. /\ pc'[t] = "walk" /\ node'[t] = list /\ steps'[t] = 0 /\ init' = "done"
        BY <2>3, <3>1 DEF WalkStart, Serving, Goto, TypeOK
      <4> QED
        BY <2>1, <2>2, <4>1, <4>2
    <3>2. CASE ~Serving
      <4>1. t \in early'
        BY <2>3, <3>2 DEF WalkStart
      <4> QED
        BY <2>2, <4>1
    <3> QED
      BY <3>1, <3>2
  <2>4. CASE WalkStep(t)
    <3> SUFFICES ASSUME t \notin early
                 PROVE  /\ init' \in {"done", "cleaned"}
                        /\ init' = "done" => steps'[t] <= Length' /\ node'[t] = Hops'[steps'[t]]
      BY <2>2, <2>4 DEF WalkStep
    <3>1. init = "done" /\ init' = "done" /\ pc[t] = "walk" /\ steps[t] < counter
      BY <2>4 DEF WalkStep, Next
    <3>2. /\ counter = Length
          /\ Length \in Nat /\ Length <= Size /\ Chain \in [1..Length -> Cells]
          /\ Linked(Length, Chain, Null)
          /\ \A k \in 0..Size : Hops[k] = IF k < Length THEN Chain[k + 1] ELSE Null
      BY <3>1, ExactCounter, FilledChain DEF Filled
    <3>3. steps[t] \in 0..Size /\ steps[t] + 1 \in 0..Size /\ steps[t] < Length
      BY <3>1, <3>2, SizeIsNat DEF TypeOK
    <3>4. node[t] = Chain[steps[t] + 1] /\ node[t] \in Cells
      BY <3>1, <3>2, <3>3
    <3>5. node'[t] = next[node[t]] /\ steps'[t] = steps[t] + 1
      BY <2>4, <3>4 DEF WalkStep, TypeOK
    <3>6. next[Chain[steps[t] + 1]] = Hops[steps[t] + 1]
      BY <3>2, <3>3 DEF Linked
    <3> QED
      BY <2>1, <3>1, <3>2, <3>3, <3>4, <3>5, <3>6
  <2>5. CASE WalkEnd(t)
    BY <2>2, <2>5 DEF WalkEnd, Goto, TypeOK
  <2> QED
    BY <1>5, <2>3, <2>4, <2>5 DEF Walk
<1> QED
  BY <1>1, <1>2, <1>3, <1>4, <1>5 DEF Next

(* What is due lies on the chain, from the reader's position on. *)
DueFrom(j) == {data[Chain[i]] : i \in (IF shown THEN j + 1 ELSE j)..Length}

LEMMA PrintPosition ==
  ASSUME IInv, undisturbed, reader # Null
  PROVE  /\ Filled /\ OnChain = {Chain[i] : i \in 1..Length} /\ Length \in Nat
         /\ Chain \in [1..Length -> Cells] /\ Linked(Length, Chain, Null)
         /\ \E j \in 1..Length : reader = Chain[j] /\ due \subseteq DueFrom(j)
<1>1. Filled /\ \E j \in 1..Length : reader = Chain[j] /\ due \subseteq DueFrom(j)
  BY DEF IInv, PrintInv, DueFrom
<1> QED
  BY <1>1, FilledChain DEF IInv

LEMMA PrintKept ==
  ASSUME IInv, Next
  PROVE  PrintInv'
<1> USE DEF IInv
<1>1. CASE InitList
  <2>1. CASE InitAlloc
    BY <2>1 DEF InitAlloc, InitInv, PrintInv, printVars
  <2>2. CASE InitAllocFails
    BY <2>2 DEF InitAllocFails, InitInv, PrintInv, printVars
  <2>3. CASE InitFill
    <3>1. ~ (undisturbed /\ reader # Null)
      BY <2>3 DEF PrintInv, Filled, InitFill
    <3> QED
      BY <2>3, <3>1 DEF InitFill, PrintInv, printVars
  <2>4. CASE InitCount
    <3>1. Length' = Length /\ Chain' = Chain /\ data' = data
      BY <2>4, StillChain DEF StillStep
    <3> QED
      BY <2>4, <3>1 DEF InitCount, PrintInv, Filled, printVars
  <2> QED
    BY <1>1, <2>1, <2>2, <2>3, <2>4 DEF InitList
<1>2. CASE InfoStep
  <2>1. Length' = Length /\ Chain' = Chain /\ UNCHANGED <<list, next, data>>
    BY <1>2, StillChain DEF StillStep
  <2>2. CASE PrintStart
    <3>1. shown' = FALSE /\ reader' = list /\ list # Null /\ init' = init /\ due' = Listed
          /\ undisturbed' = (init \in {"count", "done"})
      BY <2>2 DEF PrintStart
    <3>2. CASE undisturbed'
      <4>1. Filled /\ Filled'
        BY <3>1, <3>2 DEF Filled
      <4>2. /\ Length \in Nat /\ Length >= 1 /\ OnChain = {Chain[i] : i \in 1..Length}
            /\ list = Chain[1]
        BY <4>1, FilledChain
      <4>3. due' = {data[Chain[i]] : i \in 1..Length}
        BY <3>1, <4>1, <4>2 DEF Listed, Filled
      <4>4. 1 \in 1..Length /\ reader' = Chain'[1]
            /\ due' \subseteq {data'[Chain'[i]] : i \in (IF shown' THEN 1 + 1 ELSE 1)..Length'}
        BY <2>1, <3>1, <4>2, <4>3
      <4> QED
        BY <2>1, <3>1, <4>1, <4>4 DEF PrintInv
    <3>3. CASE ~undisturbed'
      BY <3>1, <3>3 DEF PrintInv
    <3> QED
      BY <3>2, <3>3
  <2>3. CASE PrintMember
    <3>1. reader # Null /\ ~shown /\ UNCHANGED <<reader, undisturbed, init>>
      BY <2>3 DEF PrintMember
    <3>2. CASE undisturbed
      <4>1. PICK j \in 1..Length : reader = Chain[j] /\ due \subseteq DueFrom(j)
        BY <3>1, <3>2, PrintPosition
      <4>2. Filled /\ Length \in Nat /\ Chain[j] \in Cells
        BY <3>1, <3>2, <4>1, PrintPosition
      <4>3. shown' = TRUE /\ due' = due \ {data[Chain[j]]}
        BY <2>3, <4>1, <4>2 DEF PrintMember
      <4>4. due' \subseteq {data[Chain[i]] : i \in j + 1..Length}
        <5> SUFFICES ASSUME NEW x \in due, x # data[Chain[j]]
                     PROVE  \E i \in j + 1..Length : x = data[Chain[i]]
          BY <4>3
        <5>1. PICK i \in j..Length : x = data[Chain[i]]
          BY <3>1, <4>1 DEF DueFrom
        <5> QED
          BY <5>1, <4>2
      <4> QED
        BY <2>1, <3>1, <4>1, <4>2, <4>3, <4>4 DEF PrintInv, Filled
    <3>3. CASE ~undisturbed
      BY <2>3, <3>1, <3>3 DEF PrintInv, PrintMember
    <3> QED
      BY <3>2, <3>3
  <2>4. CASE PrintNext
    <3>1. shown /\ shown' = FALSE /\ reader' = next[reader] /\ UNCHANGED <<due, undisturbed, init>>
          /\ reader # Null
      BY <2>4 DEF PrintNext, PrintInv
    <3>2. CASE undisturbed
      <4>1. PICK j \in 1..Length : reader = Chain[j] /\ due \subseteq DueFrom(j)
        BY <3>1, <3>2, PrintPosition
      <4>2. /\ Filled /\ Length \in Nat /\ Linked(Length, Chain, Null)
            /\ Chain \in [1..Length -> Cells]
        BY <3>1, <3>2, PrintPosition
      <4>3. reader' = IF j = Length THEN Null ELSE Chain[j + 1]
        BY <3>1, <4>1, <4>2 DEF Linked
      <4>4. due \subseteq {data[Chain[i]] : i \in j + 1..Length}
        BY <3>1, <4>1 DEF DueFrom
      <4>5. CASE j = Length
        BY <3>1, <4>2, <4>3, <4>4, <4>5 DEF PrintInv
      <4>6. CASE j # Length
        <5>1. j + 1 \in 1..Length /\ reader' = Chain'[j + 1]
              /\ due' \subseteq {data'[Chain'[i]] : i \in (IF shown' THEN (j + 1) + 1 ELSE j + 1)..Length'}
          BY <2>1, <3>1, <4>2, <4>3, <4>4, <4>6
        <5>2. Filled' /\ reader' # Null
          BY <3>1, <4>2, <5>1, <2>1 DEF Filled
        <5> QED
          BY <2>1, <3>1, <5>1, <5>2 DEF PrintInv
      <4> QED
        BY <4>5, <4>6
    <3>3. CASE ~undisturbed
      BY <3>1, <3>3 DEF PrintInv
    <3> QED
      BY <3>2, <3>3
  <2> QED
    BY <1>2, <2>2, <2>3, <2>4 DEF InfoStep
<1>3. CASE ListDelete
  BY <1>3 DEF ListDelete, PrintInv, printVars
<1>4. ASSUME NEW t \in Threads,
             LockList(t) \/ UnlockList(t) \/ NewCount(t) \/ DeleteCount(t) \/ DeleteFree(t) \/ Walk(t)
      PROVE  PrintInv'
  <2>1. Length' = Length /\ Chain' = Chain
    BY <1>4, StillChain, DeleteFreeChain DEF StillStep
  <2>2. UNCHANGED <<data, init, reader, shown, due, undisturbed>>
    BY <1>4 DEF LockList, UnlockList, NewCount, DeleteCount, DeleteFree, Walk, WalkStart, WalkStep,
       WalkEnd, listVars, printVars
  <2> QED
    BY <2>1, <2>2 DEF PrintInv, Filled
<1>5. ASSUME NEW t \in Threads, NewLink(t) \/ \E e \in Entry : NewMember(t, e)
      PROVE  PrintInv'
  <2>1. UNCHANGED <<init, reader, shown, due, undisturbed>>
    BY <1>5 DEF NewLink, NewMember, printVars
  <2>2. CASE undisturbed /\ reader # Null
    <3>1. PICK j \in 1..Length : reader = Chain[j] /\ due \subseteq DueFrom(j)
      BY <2>2, PrintPosition
    <3>2. /\ Filled /\ Length \in Nat /\ OnChain = {Chain[i] : i \in 1..Length}
          /\ Chain \in [1..Length -> Cells]
      BY <2>2, PrintPosition
    <3>3. /\ Length' \in Nat /\ Length' >= Length
          /\ \A i \in 1..Length : Chain'[i] = Chain[i] /\ data'[Chain[i]] = data[Chain[i]]
      <4>1. CASE NewLink(t)
        <5>1. /\ Length' = Length + 1 /\ data' = data
              /\ Chain' = [i \in 1..Length + 1 |-> IF i <= Length THEN Chain[i] ELSE node[t]]
          BY <4>1, LinkChain DEF NewLink
        <5> QED
          BY <5>1, <3>2
      <4>2. ASSUME NEW e \in Entry, NewMember(t, e)
            PROVE  <3>3!:
        BY <4>2, <3>2, NewMemberChain DEF TypeOK
      <4> QED
        BY <1>5, <4>1, <4>2
    <3>4. {data[Chain[i]] : i \in (IF shown THEN j + 1 ELSE j)..Length}
            \subseteq {data'[Chain'[i]] : i \in (IF shown THEN j + 1 ELSE j)..Length'}
      BY <3>2, <3>3
    <3> QED
      BY <2>1, <2>2, <3>1, <3>2, <3>3, <3>4 DEF PrintInv, DueFrom, Filled
  <2>3. CASE ~ (undisturbed /\ reader # Null)
    BY <2>1, <2>3 DEF PrintInv
  <2> QED
    BY <2>2, <2>3
<1>6. ASSUME NEW t \in Threads, NEW id \in Ids, DeleteMember(t, id)
      PROVE  PrintInv'
  BY <1>6 DEF DeleteMember, PrintInv
<1> QED
  BY <1>1, <1>2, <1>3, <1>4, <1>5, <1>6 DEF Next, Insertion, Deletion

-----------------------------------------------------------------------------
LEMMA Inductive == Spec => []IInv
<1>1. IInv /\ [Next]_vars => IInv'
  <2> SUFFICES ASSUME IInv, [Next]_vars PROVE IInv'
    OBVIOUS
  <2>1. CASE Next
    BY <2>1, TypeKept, OwnerKept, InitKept, ChainKept, HeapKept, CountKept, CallKept, WalkKept,
       PrintKept DEF IInv
  <2>2. CASE UNCHANGED vars
    <3>1. /\ UNCHANGED <<list, counter, data, next, allocated, mutex, pc, node, steps, early, init,
                         reader, shown, due, undisturbed, crashed>>
      BY <2>2 DEF vars, listVars, threadVars, printVars
    <3>2. Hops' = Hops /\ Length' = Length /\ Chain' = Chain /\ OnChain' = OnChain
      BY <3>1, SameChain
    <3>3. Private' = Private
      BY <3>1 DEF Private
    <3> QED
      BY <3>1, <3>2, <3>3, SameChain
         DEF IInv, TypeOK, OwnerInv, InitInv, ChainInv, HeapAccounted, CountInv, CallInv, WalkInv,
             PrintInv, Filled
  <2> QED
    BY <2>1, <2>2
<1> QED
  BY <1>1, InitHolds, PTL DEF Spec

(***************************************************************************)
(* Theorems                                                                *)
(***************************************************************************)

(* Every pointer is a cell, null or dangling and the counter never falls   *)
(* below zero, although it is decremented in a step of its own             *)
(* (list.c:137-144).                                                       *)
THEOREM TypeCorrect == Spec => []TypeOK
<1>1. IInv => TypeOK
  BY DEF IInv
<1> QED
  BY <1>1, Inductive, PTL

(* No cell is lost and no linked cell is freed, for a heap of any size and *)
(* any number of threads (list.c:56-70, 137-144, 160-166).                 *)
THEOREM HeapIsAccounted == Spec => []HeapAccounted
<1>1. IInv => HeapAccounted
  BY DEF IInv
<1> QED
  BY <1>1, Inductive, PTL

(* The loops of list.c end: from the head every chain of pointers reaches  *)
(* Null within as many steps as the heap has cells (list.c:49, 56, 130).   *)
THEOREM ChainAlwaysEnds == Spec => []ChainEnds
<1>1. IInv => ChainEnds
  <2> SUFFICES ASSUME IInv, Filled PROVE Hops[Size] = Null
    BY DEF ChainEnds, Filled, Size
  <2>1. /\ Length \in Nat /\ Length <= Size
        /\ \A k \in 0..Size : Hops[k] = IF k < Length THEN Chain[k + 1] ELSE Null
    BY FilledChain DEF IInv
  <2> QED
    BY <2>1, SizeIsNat
<1> QED
  BY <1>1, Inductive, PTL

(* The counter counts the chain, except inside the call that is about to   *)
(* adjust it (list.c:69-70, 142-144).                                      *)
THEOREM CounterCountsChain == Spec => []CounterAgrees
<1>1. IInv => CounterAgrees
  <2> SUFFICES ASSUME IInv, init = "done" PROVE CounterAgrees
    BY DEF CounterAgrees
  <2> DEFINE Ahead == {t \in Threads : pc[t] \in {"free", "uncount"}}
             Behind == {t \in Threads : pc[t] = "count"}
  <2>1. Length \in Nat /\ counter \in Nat
    BY FilledChain DEF IInv, TypeOK, Filled
  <2>2. CASE \E t \in Threads : pc[t] = "count"
    <3>1. PICK t \in Threads : pc[t] = "count"
      BY <2>2
    <3>2. \A u \in Threads : u # t => pc[u] = "idle"
      BY <3>1, OneCaller DEF IInv
    <3>3. Ahead = {} /\ Behind = {t}
      BY <3>1, <3>2
    <3>4. Cardinality(Ahead) = 0 /\ Cardinality(Behind) = 1
      BY <3>3, FS_EmptySet, FS_Singleton
    <3>5. counter + 1 = Length
      BY <3>1 DEF IInv, CountInv
    <3> QED
      BY <2>1, <3>4, <3>5 DEF CounterAgrees
  <2>3. CASE \E t \in Threads : pc[t] \in {"free", "uncount"}
    <3>1. PICK t \in Threads : pc[t] \in {"free", "uncount"}
      BY <2>3
    <3>2. \A u \in Threads : u # t => pc[u] = "idle"
      BY <3>1, OneCaller DEF IInv
    <3>3. Ahead = {t} /\ Behind = {}
      BY <3>1, <3>2
    <3>4. Cardinality(Ahead) = 1 /\ Cardinality(Behind) = 0
      BY <3>3, FS_EmptySet, FS_Singleton
    <3>5. counter = Length + 1
      BY <3>1 DEF IInv, CountInv
    <3> QED
      BY <2>1, <3>4, <3>5 DEF CounterAgrees
  <2>4. CASE \A t \in Threads : pc[t] \notin {"count", "free", "uncount"}
    <3>1. Ahead = {} /\ Behind = {}
      BY <2>4
    <3>2. Cardinality(Ahead) = 0 /\ Cardinality(Behind) = 0
      BY <3>1, FS_EmptySet
    <3>3. counter = Length
      BY <2>4 DEF IInv, CountInv
    <3> QED
      BY <2>1, <3>2, <3>3 DEF CounterAgrees
  <2> QED
    BY <2>2, <2>3, <2>4
<1> QED
  BY <1>1, Inductive, PTL

(* The walk that fills a packet finds a member for every index below the   *)
(* counter that sized the packet, though it reads head, counter and        *)
(* pointers in separate steps: the mutex keeps them in step                *)
(* (task.c:185-203, 359-374).                                              *)
THEOREM WalkStaysInStep == Spec => []WalkInStep
<1>1. IInv => WalkInStep
  <2> SUFFICES ASSUME IInv, NEW t \in Threads, pc[t] = "walk", t \notin early, init # "cleaned"
               PROVE  node[t] = Hops[steps[t]] /\ (steps[t] < counter => node[t] \in allocated)
    BY DEF WalkInStep
  <2>1. init = "done" /\ steps[t] \in Nat /\ steps[t] <= Length /\ node[t] = Hops[steps[t]]
    BY DEF IInv, WalkInv, TypeOK
  <2>2. /\ counter = Length /\ Length \in Nat /\ Length <= Size
        /\ OnChain = {Chain[i] : i \in 1..Length}
        /\ \A k \in 0..Size : Hops[k] = IF k < Length THEN Chain[k + 1] ELSE Null
    BY <2>1, ExactCounter, FilledChain DEF IInv, Filled
  <2>3. ASSUME steps[t] < counter PROVE node[t] \in OnChain
    BY <2>1, <2>2, <2>3, SizeIsNat
  <2> QED
    BY <2>1, <2>3 DEF IInv, HeapAccounted
<1> QED
  BY <1>1, Inductive, PTL

(* List_print, which reads without the mutex, has shown every member that  *)
(* was listed when it began by the time it ends, unless one was removed    *)
(* meanwhile, and stands on a member until then (list.c:183-188).          *)
THEOREM PrintIsComplete == Spec => []PrintComplete
<1>1. IInv => PrintComplete
  <2> SUFFICES ASSUME IInv, undisturbed
               PROVE  (reader = Null => due = {}) /\ (reader # Null => reader \in OnChain)
    BY DEF PrintComplete
  <2>1. reader = Null => due = {}
    BY DEF IInv, PrintInv
  <2>2. ASSUME reader # Null PROVE reader \in OnChain
    BY <2>2, PrintPosition
  <2> QED
    BY <2>1, <2>2
<1> QED
  BY <1>1, Inductive, PTL

(***************************************************************************)
(* The heap implements the list of Members                                 *)
(***************************************************************************)
LEMMA ContentsOfFilled ==
  ASSUME IInv, Filled
  PROVE  /\ Contents = [i \in 1..Length |-> data[Chain[i]]]
         /\ Contents \in Seq(Entry) /\ Len(Contents) = Length /\ Contents # <<>>
         /\ Length \in Nat /\ Length >= 1
<1>1. Contents = [i \in 1..Length |-> data[Chain[i]]]
  BY DEF Contents, Filled
<1>2. Length \in Nat /\ Length >= 1 /\ \A i \in 1..Length : Chain[i] \in Cells
  BY FilledChain DEF IInv
<1>3. \A i \in 1..Length : data[Chain[i]] \in Entry
  BY <1>2 DEF IInv, TypeOK
<1>4. Contents \in Seq(Entry) /\ Len(Contents) = Length
  BY <1>1, <1>2, <1>3
<1> QED
  BY <1>1, <1>2, <1>4

LEMMA StillContents ==
  ASSUME IInv, StillStep
  PROVE  Contents' = Contents
<1>1. Length' = Length /\ Chain' = Chain /\ data' = data
  BY StillChain
<1>2. init' \in {"alloc", "fill", "failed"} <=> init \in {"alloc", "fill", "failed"}
  BY DEF StillStep, InitAllocFails, InitCount, InfoStep, PrintStart, PrintMember,
         PrintNext, ListDelete, LockList, UnlockList, NewCount, DeleteCount, Walk, WalkStart,
         WalkStep, WalkEnd
<1> QED
  BY <1>1, <1>2 DEF Contents

LEMMA FillOpens ==
  ASSUME IInv, InitFill
  PROVE  Abstract!Open
<1>1. Contents = <<>>
  BY DEF Contents, InitFill
<1>2. /\ Length' = 1 /\ Chain' = [i \in 1..1 |-> list] /\ list \in Cells
  BY FillChain
<1>3. data'[list] = Self /\ init' = "count"
  BY <1>2 DEF InitFill, IInv, TypeOK
<1>4. Contents' = [i \in 1..1 |-> Self]
  BY <1>2, <1>3 DEF Contents
<1>5. [i \in 1..1 |-> Self] = <<Self>>
  OBVIOUS
<1> QED
  BY <1>1, <1>4, <1>5 DEF Abstract!Open

LEMMA LinkInserts ==
  ASSUME IInv, NEW t \in Threads, NewLink(t)
  PROVE  Abstract!Insert(data[node[t]])
<1>1. /\ init = "done" /\ init' = "done" /\ Filled /\ node[t] \in Cells /\ data' = data
  BY PrivateCell DEF NewLink, Filled
<1>2. PICK e \in Entry : e = data[node[t]]
  BY <1>1 DEF IInv, TypeOK
<1>3. /\ Length' = Length + 1
      /\ Chain' = [i \in 1..Length + 1 |-> IF i <= Length THEN Chain[i] ELSE node[t]]
  BY LinkChain
<1>4. /\ Contents = [i \in 1..Length |-> data[Chain[i]]]
      /\ Contents \in Seq(Entry) /\ Len(Contents) = Length /\ Contents # <<>>
      /\ Length \in Nat /\ Length >= 1
  BY <1>1, ContentsOfFilled
<1>5. Contents' = [i \in 1..Length + 1 |-> IF i <= Length THEN data[Chain[i]] ELSE e]
  BY <1>1, <1>2, <1>3, <1>4 DEF Contents
<1>6. Append(Contents, e) = [i \in 1..Length + 1 |-> IF i <= Length THEN Contents[i] ELSE e]
  BY <1>4
<1>7. Contents' = Append(Contents, e)
  BY <1>4, <1>5, <1>6
<1>8. \A i \in 1..Len(Contents) : ~Abstract!Clash(Contents[i], e)
  <2> SUFFICES ASSUME NEW i \in 1..Length PROVE ~Abstract!Clash(data[Chain[i]], e)
    BY <1>4
  <2> QED
    BY <1>2 DEF NewLink, IInv, CallInv
<1> QED
  BY <1>2, <1>4, <1>7, <1>8 DEF Abstract!Insert

LEMMA UnlinkRemoves ==
  ASSUME IInv, NEW t \in Threads, NEW id \in Ids, DeleteMember(t, id)
  PROVE  \E i \in 2..Len(Contents) : Abstract!Remove(i, id)
<1>1. /\ init = "done" /\ init' = "done" /\ Filled /\ data' = data
  BY DEF DeleteMember, Serving, Filled
<1>2. /\ Contents = [i \in 1..Length |-> data[Chain[i]]]
      /\ Len(Contents) = Length /\ Length \in Nat /\ Length >= 1
  BY <1>1, ContentsOfFilled
<1>3. PICK i \in 2..Length :
        /\ Found(i, id) /\ Length' = Length - 1
        /\ Chain' = [j \in 1..Length - 1 |-> Chain[IF j < i THEN j ELSE j + 1]]
  BY UnlinkChain
<1>4. Abstract!FirstOther(i, id)
  BY <1>2, <1>3 DEF Found, Abstract!FirstOther
<1>5. Contents' = [j \in 1..Length - 1 |-> data[Chain[IF j < i THEN j ELSE j + 1]]]
  BY <1>1, <1>2, <1>3 DEF Contents
<1>6. \A j \in 1..Length - 1 : Contents[IF j < i THEN j ELSE j + 1]
                                 = data[Chain[IF j < i THEN j ELSE j + 1]]
  BY <1>2
<1>7. Contents' = Abstract!Without(i)
  BY <1>2, <1>5, <1>6 DEF Abstract!Without
<1> QED
  BY <1>2, <1>4, <1>7 DEF Abstract!Remove

(* Each step of the heap is one call on the abstract list or none: it is   *)
(* published by InitFill, grows in NewLink, shrinks in DeleteMember, and   *)
(* the counter, the allocator, the mutex and the readers do not show.      *)
LEMMA StepImplements ==
  ASSUME IInv, Next
  PROVE  Abstract!AbsNext \/ Contents' = Contents
<1>1. CASE StillStep
  BY <1>1, StillContents
<1>2. CASE InitAlloc
  BY <1>2 DEF InitAlloc, Contents
<1>3. CASE InitFill
  BY <1>3, FillOpens DEF Abstract!AbsNext
<1>4. ASSUME NEW t \in Threads, NewLink(t) PROVE Abstract!AbsNext
  <2>1. data[node[t]] \in Entry
    BY <1>4, PrivateCell DEF NewLink, IInv, TypeOK
  <2> QED
    BY <1>4, <2>1, LinkInserts DEF Abstract!AbsNext, Entry, Abstract!Entry
<1>5. ASSUME NEW t \in Threads, DeleteFree(t) PROVE Contents' = Contents
  BY <1>5, DeleteFreeChain DEF DeleteFree, Contents
<1>6. ASSUME NEW t \in Threads, NEW e \in Entry, NewMember(t, e) PROVE Contents' = Contents
  <2>1. PICK c \in Cells : /\ Length' = Length /\ Chain' = Chain
                           /\ c \notin OnChain /\ data' = [data EXCEPT ![c] = e]
    BY <1>6, NewMemberChain
  <2>2. Filled /\ init = "done" /\ init' = "done"
    BY <1>6 DEF NewMember, Serving, Filled
  <2>3. \A i \in 1..Length : data'[Chain[i]] = data[Chain[i]]
    BY <2>1, <2>2, FilledChain DEF IInv, TypeOK
  <2> QED
    BY <2>1, <2>2, <2>3 DEF Contents
<1>7. ASSUME NEW t \in Threads, NEW id \in Ids, DeleteMember(t, id) PROVE Abstract!AbsNext
  BY <1>7, UnlinkRemoves DEF Abstract!AbsNext
<1> QED
  BY <1>1, <1>2, <1>3, <1>4, <1>5, <1>6, <1>7, StepKinds

(* The pointers, the counter and the mutex implement the list a caller     *)
(* relies on: every history of the heap is, seen through the chain, a      *)
(* history of insertions and removals of whole members (list.c:49-74,      *)
(* 120-148).                                                               *)
THEOREM HeapImplementsMembers == Spec => ImplementsMembers
<1>1. Init => Abstract!AbsInit
  BY DEF Init, Abstract!AbsInit, Contents
<1>2. IInv /\ [Next]_vars => [Abstract!AbsNext]_Contents
  <2> SUFFICES ASSUME IInv, [Next]_vars PROVE Abstract!AbsNext \/ Contents' = Contents
    OBVIOUS
  <2>1. CASE UNCHANGED vars
    <3>1. UNCHANGED <<list, next, data, init>>
      BY <2>1 DEF vars, listVars
    <3> QED
      BY <3>1, SameChain DEF Contents
  <2> QED
    BY <2>1, StepImplements
<1> QED
  BY <1>1, <1>2, Inductive, PTL DEF Spec, ImplementsMembers, Abstract!AbsSpec

(* What MembersProofs shows of the abstract list holds on the heap: no two *)
(* linked cells clash in name or address, and the node itself is in front. *)
AbstractProofs == INSTANCE MembersProofs WITH members <- Contents

THEOREM HeapMembersUnique == Spec => [](Abstract!Unique /\ Abstract!SelfFirst)
<1>1. Self \in AbstractProofs!Entry
  BY DEF Entry, AbstractProofs!Entry
<1>2. AbstractProofs!AbsSpec => [](AbstractProofs!Unique /\ AbstractProofs!SelfFirst)
  BY <1>1, AbstractProofs!MembersCorrect
<1>3. Abstract!AbsInit => AbstractProofs!AbsInit
  BY DEF Abstract!AbsInit, AbstractProofs!AbsInit
<1>4. [Abstract!AbsNext]_Contents => [AbstractProofs!AbsNext]_Contents
  BY DEF Abstract!AbsNext, Abstract!Open, Abstract!Insert, Abstract!Remove,
         Abstract!FirstOther, Abstract!Without, Abstract!Clash, Abstract!Entry,
         AbstractProofs!AbsNext, AbstractProofs!Open, AbstractProofs!Insert,
         AbstractProofs!Remove, AbstractProofs!FirstOther, AbstractProofs!Without,
         AbstractProofs!Clash, AbstractProofs!Entry
<1>5. AbstractProofs!Unique /\ AbstractProofs!SelfFirst => Abstract!Unique /\ Abstract!SelfFirst
  BY DEF Abstract!Unique, Abstract!SelfFirst, Abstract!Clash,
         AbstractProofs!Unique, AbstractProofs!SelfFirst, AbstractProofs!Clash
<1> QED
  BY <1>2, <1>3, <1>4, <1>5, HeapImplementsMembers, PTL
     DEF ImplementsMembers, Abstract!AbsSpec, AbstractProofs!AbsSpec
=============================================================================
