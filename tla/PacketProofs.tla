---------------------------- MODULE PacketProofs ----------------------------
(***************************************************************************)
(* What a sender writes into a payload of any size a receiver of either    *)
(* byte order reads out of it again; and the same of a packet on its way,  *)
(* wherever it is broken.  That the checksum is the remainder of the       *)
(* division by the generator, for payloads of any length.  And what it is  *)
(* worth: four adjacent bytes that are not those that were sent are always *)
(* seen.                                                                   *)
(***************************************************************************)
EXTENDS PacketTransfer, FiniteSetTheorems, WellFoundedInduction, TLAPS

(* Both conversions of both hosts together do nothing. *)
LEMMA TurnedBack ==
  ASSUME NEW o1 \in Orders, NEW o2 \in Orders, NEW w \in Words,
         NEW v, v = [k \in 0..3 |-> Turned(o1, InMemory(o1, w))[k]]
  PROVE  InMemory(o2, Turned(o2, v)) = w
<1>1. \A u \in Words : Swap(u) \in Words /\ Swap(Swap(u)) = u
  <2> SUFFICES ASSUME NEW u \in Words PROVE Swap(u) \in Words /\ Swap(Swap(u)) = u
    OBVIOUS
  <2>1. \A k \in 0..3 : 3 - k \in 0..3 /\ 3 - (3 - k) = k
    OBVIOUS
  <2>2. Swap(u) \in Words
    BY <2>1 DEF Swap, Words
  <2>3. \A k \in 0..3 : Swap(Swap(u))[k] = u[k]
    BY <2>1 DEF Swap, Words
  <2> QED
    BY <2>2, <2>3 DEF Swap, Words
<1>2. \A o \in Orders : \A u \in Words : Turned(o, InMemory(o, u)) = u /\ InMemory(o, Turned(o, u)) = u
  BY <1>1 DEF Turned, InMemory, Orders
<1>3. v = w
  BY <1>2 DEF Words
<1> QED
  BY <1>2, <1>3

(* The length of a message, without the wrap around.                        *)
LEMMA LengthValue ==
  ASSUME NEW m, IsMessage(m)
  PROVE  /\ IsList(m) => Length(m) = 20 * m.n + 1 /\ m \in Lists(m.n)
         /\ ~IsList(m) => Length(m) = m.n /\ m \in Texts(m.n)
         /\ m.n \in Nat /\ Length(m) \in Nat
<1>1. IsList(m) <=> m \in Lists(m.n)
  BY DEF IsMessage, Lists, Texts, IsList, SIGN_IN, SIGN_OUT, MEMBER_LIST, MESSAGE
<1>2. m.n \in Nat /\ m.n <= 3276
  BY DEF IsMessage
<1>3. (m.n * 20 + 1) % 65536 = 20 * m.n + 1 /\ m.n % 65536 = m.n
  BY <1>2
<1>4. CASE IsList(m)
  <2>1. Length(m) = (m.n * 20 + 1) % 65536
    BY <1>4 DEF Length, SIZE_OF_MEMBER_IN_BYTES
  <2>2. Length(m) = 20 * m.n + 1
    BY <1>3, <2>1
  <2> QED
    BY <1>1, <1>2, <1>4, <2>2
<1>5. CASE ~IsList(m)
  <2>1. Length(m) = m.n % 65536
    BY <1>5 DEF Length
  <2> QED
    BY <1>1, <1>2, <1>3, <1>5, <2>1 DEF IsMessage
<1> QED
  BY <1>4, <1>5

(* The byte at an offset of a member.                                       *)
LEMMA ByteOfMember ==
  ASSUME NEW m, IsMessage(m), IsList(m), NEW stack, NEW o,
         NEW i \in 0..m.n - 1, NEW j \in 0..19
  PROVE  /\ j < 4 => PayloadByte(o, m, stack, Address(i) + j)
                        = Turned(o, InMemory(o, m.members[i].ip))[j]
         /\ j >= 4 /\ Copied(m, i, j - 4) =>
              PayloadByte(o, m, stack, Address(i) + j) = m.members[i].id[j - 4]
<1> DEFINE k == Address(i) + j
<1>1. m.n \in Nat /\ i < m.n /\ i \in Nat
  BY LengthValue
<1>2. k > 0 /\ k # 0 /\ (k - 1) \div 20 = i /\ (k - 1) % 20 = j
  <2>1. k = 20 * i + j + 1
    BY <1>1 DEF Address, SIZE_OF_MEMBER_IN_BYTES
  <2>2. (20 * i + j) \div 20 = i /\ (20 * i + j) % 20 = j
    BY <1>1
  <2> HIDE DEF k
  <2> QED
    BY <1>1, <2>1, <2>2
<1> HIDE DEF k
<1>3. j < 4 => PayloadByte(o, m, stack, k) = Turned(o, InMemory(o, m.members[i].ip))[j]
  BY <1>1, <1>2 DEF PayloadByte, SIZE_OF_MEMBER_IN_BYTES
<1>4. j >= 4 /\ Copied(m, i, j - 4) => PayloadByte(o, m, stack, k) = m.members[i].id[j - 4]
  BY <1>1, <1>2 DEF PayloadByte, SIZE_OF_MEMBER_IN_BYTES
<1> QED
  BY <1>3, <1>4 DEF k

(* Whoever has the used part of a list understands it.                      *)
LEMMA ListUnderstood ==
  ASSUME NEW m, IsMessage(m), IsList(m), m.n \in 0..255, NEW stack, NEW p,
         NEW o1 \in Orders, NEW o2 \in Orders,
         \A k \in 0..20 * m.n : p[k] = PayloadByte(o1, m, stack, k)
  PROVE  Understood(o2, p, m)
<1>1. m.members \in [0..m.n - 1 -> Members]
  BY LengthValue DEF Lists
<1>2. p[0] = m.n
  <2>1. PayloadByte(o1, m, stack, 0) = m.n % 256
    BY DEF PayloadByte
  <2>2. m.n % 256 = m.n /\ 0 \in 0..20 * m.n
    OBVIOUS
  <2> QED
    BY <2>1, <2>2
<1>3. ASSUME NEW i \in 0..m.n - 1
      PROVE  IpAt(o2, p, i) = m.members[i].ip /\ SameName(IdAt(p, i), m.members[i].id)
  <2>1. m.members[i] \in Members
    BY <1>1
  <2>2. \A j \in 0..19 : p[Address(i) + j] = PayloadByte(o1, m, stack, Address(i) + j)
    <3> TAKE j \in 0..19
    <3>1. Address(i) + j = 20 * i + j + 1
      BY DEF Address, SIZE_OF_MEMBER_IN_BYTES
    <3>2. 20 * i + j + 1 \in 0..20 * m.n
      OBVIOUS
    <3> QED
      BY <3>1, <3>2
  <2>3. \A j \in 0..3 : p[Address(i) + j] = Turned(o1, InMemory(o1, m.members[i].ip))[j]
    BY <2>2, ByteOfMember
  <2>4. IpAt(o2, p, i) = m.members[i].ip
    <3> DEFINE v == [k \in 0..3 |-> p[Address(i) + k]]
    <3>1. v = [k \in 0..3 |-> Turned(o1, InMemory(o1, m.members[i].ip))[k]]
      BY <2>3
    <3>2. m.members[i].ip \in Words
      BY <2>1 DEF Members
    <3> HIDE DEF v
    <3>3. InMemory(o2, Turned(o2, v)) = m.members[i].ip
      BY <3>1, <3>2, TurnedBack
    <3> QED
      BY <3>3 DEF v, IpAt
  <2>5. \A j \in 0..15 : Copied(m, i, j) => p[Id(i) + j] = m.members[i].id[j]
    <3> SUFFICES ASSUME NEW j \in 0..15, Copied(m, i, j) PROVE p[Id(i) + j] = m.members[i].id[j]
      OBVIOUS
    <3>1. Id(i) + j = Address(i) + (j + 4) /\ j + 4 \in 4..19 /\ (j + 4) - 4 = j
      BY DEF Id, Address, SIZE_OF_MEMBER_IN_BYTES
    <3>2. PayloadByte(o1, m, stack, Address(i) + (j + 4)) = m.members[i].id[j]
      BY <3>1, ByteOfMember
    <3> QED
      BY <2>2, <3>1, <3>2
  <2>6. SameName(IdAt(p, i), m.members[i].id)
    BY <2>5 DEF SameName, IdAt, Copied, ID_LENGTH
  <2> QED
    BY <2>4, <2>6
<1> QED
  BY <1>2, <1>3 DEF Understood

(* The same of a text.                                                      *)
LEMMA TextUnderstood ==
  ASSUME NEW m, ~IsList(m), m.n \in Nat, NEW stack, NEW p, NEW o1, NEW o2,
         \A k \in 0..m.n - 1 : p[k] = PayloadByte(o1, m, stack, k)
  PROVE  Understood(o2, p, m)
  BY DEF PayloadByte, Understood

(* No loop writes behind the length in the header.                          *)
LEMMA WrittenBelow ==
  ASSUME NEW m, IsMessage(m), NEW k \in Written(m)
  PROVE  k < Length(m) /\ k \in Nat
<1>1. m.n \in Nat
  BY LengthValue
<1>2. CASE ~IsList(m)
  <2>1. Length(m) = m.n /\ k \in 0..m.n - 1
    BY <1>2, LengthValue DEF Written
  <2> QED
    BY <1>1, <2>1
<1>3. CASE IsList(m) /\ k = 0
  BY <1>1, <1>3, LengthValue
<1>4. CASE IsList(m) /\ k # 0
  <2>1. PICK i \in 0..m.n - 1 : \/ k \in {Address(i) + j : j \in 0..3}
                                \/ k \in {Id(i) + j : j \in {j \in 0..ID_LENGTH - 1 : Copied(m, i, j)}}
    BY <1>4 DEF Written
  <2>2. \A j \in 0..15 : Id(i) + j = Address(i) + (j + 4) /\ j + 4 \in 0..19
    BY DEF Id, Address, SIZE_OF_MEMBER_IN_BYTES
  <2>3. PICK j \in 0..19 : k = Address(i) + j
    BY <2>1, <2>2 DEF ID_LENGTH
  <2>4. k = 20 * i + j + 1
    BY <2>3 DEF Address, SIZE_OF_MEMBER_IN_BYTES
  <2>5. Length(m) = 20 * m.n + 1
    BY <1>4, LengthValue
  <2> QED
    BY <1>1, <2>4, <2>5
<1> QED
  BY <1>2, <1>3, <1>4

(***************************************************************************)
(* The checksum.  A word is a subset of Ones, a byte of a word one of      *)
(* LowByte; u is what a byte of the message does to the checksum so far.   *)
(* Two words agree from bit k on if they have the same ones there.         *)
(***************************************************************************)
Agree(x, y, k) == \A i \in k..31 : i \in x <=> i \in y

LEMMA Bits ==
  /\ \A b \in Byte : BitsOf[b] = {i \in 0..7 : (b \div 2^i) % 2 = 1}
  /\ 2^0 = 1 /\ 2^1 = 2 /\ 2^2 = 4 /\ 2^3 = 8 /\ 2^4 = 16 /\ 2^5 = 32 /\ 2^6 = 64 /\ 2^7 = 128
BY DEF BitsOf, LowByte, Byte

(* A byte is determined by its ones, and any ones make a byte.              *)
LEMMA BitsDetermine ==
  ASSUME NEW b \in Byte, NEW c \in Byte, BitsOf[b] = BitsOf[c]
  PROVE  b = c
<1>1. \A i \in 0..7 : (b \div 2^i) % 2 = 1 <=> (c \div 2^i) % 2 = 1
  BY Bits
<1>2. /\ (b \div 1) % 2 = 1 <=> (c \div 1) % 2 = 1
      /\ (b \div 2) % 2 = 1 <=> (c \div 2) % 2 = 1
      /\ (b \div 4) % 2 = 1 <=> (c \div 4) % 2 = 1
      /\ (b \div 8) % 2 = 1 <=> (c \div 8) % 2 = 1
  <2>1. 0 \in 0..7 /\ 1 \in 0..7 /\ 2 \in 0..7 /\ 3 \in 0..7
    OBVIOUS
  <2> QED
    BY <1>1, <2>1, Bits
<1>3. /\ (b \div 16) % 2 = 1 <=> (c \div 16) % 2 = 1
      /\ (b \div 32) % 2 = 1 <=> (c \div 32) % 2 = 1
      /\ (b \div 64) % 2 = 1 <=> (c \div 64) % 2 = 1
      /\ (b \div 128) % 2 = 1 <=> (c \div 128) % 2 = 1
  <2>1. 4 \in 0..7 /\ 5 \in 0..7 /\ 6 \in 0..7 /\ 7 \in 0..7
    OBVIOUS
  <2> QED
    BY <1>1, <2>1, Bits
<1>4. b \div 128 = c \div 128
  BY <1>3 DEF Byte
<1>5. b \div 64 = c \div 64
  BY <1>3, <1>4 DEF Byte
<1>6. b \div 32 = c \div 32
  BY <1>3, <1>5 DEF Byte
<1>7. b \div 16 = c \div 16
  BY <1>3, <1>6 DEF Byte
<1>8. b \div 8 = c \div 8
  BY <1>2, <1>7 DEF Byte
<1>9. b \div 4 = c \div 4
  BY <1>2, <1>8 DEF Byte
<1>10. b \div 2 = c \div 2
  BY <1>2, <1>9 DEF Byte
<1> QED
  BY <1>2, <1>10 DEF Byte

LEMMA BitsExist ==
  ASSUME NEW S \in SUBSET (0..7)
  PROVE  \E b \in Byte : BitsOf[b] = S
<1> DEFINE one(i, v) == IF i \in S THEN v ELSE 0
           b == one(0, 1) + one(1, 2) + one(2, 4) + one(3, 8)
                  + one(4, 16) + one(5, 32) + one(6, 64) + one(7, 128)
<1>1. b \in Byte
  BY DEF Byte
<1>2. /\ (b \div 1) % 2 = 1 <=> 0 \in S
      /\ (b \div 2) % 2 = 1 <=> 1 \in S
      /\ (b \div 4) % 2 = 1 <=> 2 \in S
      /\ (b \div 8) % 2 = 1 <=> 3 \in S
      /\ (b \div 16) % 2 = 1 <=> 4 \in S
      /\ (b \div 32) % 2 = 1 <=> 5 \in S
      /\ (b \div 64) % 2 = 1 <=> 6 \in S
      /\ (b \div 128) % 2 = 1 <=> 7 \in S
  OBVIOUS
<1> HIDE DEF b
<1>3. PICK d \in Byte : d = b
  BY <1>1
<1>4. \A i \in 0..7 : (d \div 2^i) % 2 = 1 <=> i \in S
  <2> TAKE i \in 0..7
  <2>1. i = 0 \/ i = 1 \/ i = 2 \/ i = 3 \/ i = 4 \/ i = 5 \/ i = 6 \/ i = 7
    OBVIOUS
  <2>2. CASE i = 0 \/ i = 1 \/ i = 2 \/ i = 3
    <3>1. \/ i = 0 /\ 2^i = 1
          \/ i = 1 /\ 2^i = 2
          \/ i = 2 /\ 2^i = 4
          \/ i = 3 /\ 2^i = 8
      BY <2>2, Bits
    <3> QED
      BY <1>2, <1>3, <3>1
  <2>3. CASE i = 4 \/ i = 5 \/ i = 6 \/ i = 7
    <3>1. \/ i = 4 /\ 2^i = 16
          \/ i = 5 /\ 2^i = 32
          \/ i = 6 /\ 2^i = 64
          \/ i = 7 /\ 2^i = 128
      BY <2>3, Bits
    <3> QED
      BY <1>2, <1>3, <3>1
  <2> QED
    BY <2>1, <2>2, <2>3
<1>5. BitsOf[d] = S
  <2>1. BitsOf[d] = {i \in 0..7 : (d \div 2^i) % 2 = 1}
    BY Bits
  <2> QED
    BY <1>4, <2>1
<1> QED
  BY <1>5

(* Induction over the numbers, from the operator-free theorem that a well   *)
(* founded relation has minimal elements.                                   *)
LEMMA Induction ==
  ASSUME NEW S, 0 \in S, \A n \in Nat : n \in S => n + 1 \in S
  PROVE  Nat \subseteq S
<1> DEFINE R == {p \in Nat \X Nat : p[1] < p[2]}
<1>1. IsWellFoundedOn(R, Nat)
  BY NatLessThanWellFounded DEF OpToRel
<1>2. SUFFICES ASSUME Nat \ S # {} PROVE FALSE
  OBVIOUS
<1>3. PICK m \in Nat \ S : \A y \in Nat \ S : ~ (<<y, m>> \in R)
  <2> HIDE DEF R
  <2> QED BY <1>1, <1>2, WFMin, Zenon
<1>4. m # 0 /\ m - 1 \in Nat
  BY <1>3
<1>5. m - 1 \in S
  <2>1. <<m - 1, m>> \in R
    BY <1>4
  <2> QED
    BY <1>3, <1>4, <2>1
<1> QED
  BY <1>3, <1>4, <1>5

(* What a loop of n rounds leaves, round by round.                          *)
Loop(n, W, base, step, f) ==
  /\ f \in [0..n -> W]
  /\ f[0] = base
  /\ \A a \in 1..n : f[a] = step[<<f[a - 1], a>>]

LEMMA LoopExists ==
  ASSUME NEW n \in Nat, NEW W, NEW base \in W, NEW step \in [W \X (1..n) -> W]
  PROVE  \E f : Loop(n, W, base, step, f)
<1> DEFINE S == {k \in Nat : k <= n => \E f : Loop(k, W, base, step, f)}
<1>1. 0 \in S
  <2>1. Loop(0, W, base, step, [a \in 0..0 |-> base])
    BY DEF Loop
  <2> QED
    BY <2>1
<1>2. ASSUME NEW k \in Nat, k \in S
      PROVE  k + 1 \in S
  <2> SUFFICES ASSUME k + 1 <= n PROVE \E f : Loop(k + 1, W, base, step, f)
    OBVIOUS
  <2>1. PICK f : Loop(k, W, base, step, f)
    BY <1>2
  <2>2. f \in [0..k -> W] /\ f[0] = base /\ \A a \in 1..k : f[a] = step[<<f[a - 1], a>>]
    BY <2>1 DEF Loop
  <2>3. PICK v \in W : v = step[<<f[k], k + 1>>]
    BY <2>2
  <2> DEFINE g == [a \in 0..k + 1 |-> IF a = k + 1 THEN v ELSE f[a]]
  <2>4. g \in [0..k + 1 -> W] /\ g[0] = base /\ g[k + 1] = v /\ \A a \in 0..k : g[a] = f[a]
    BY <2>2
  <2> HIDE DEF g
  <2>5. ASSUME NEW a \in 1..k + 1
        PROVE  g[a] = step[<<g[a - 1], a>>]
    <3>1. CASE a = k + 1
      <4>1. a - 1 = k /\ k \in 0..k
        BY <3>1
      <4> QED
        BY <2>3, <2>4, <3>1, <4>1
    <3>2. CASE a # k + 1
      <4>1. a \in 1..k /\ a \in 0..k /\ a - 1 \in 0..k
        BY <3>2
      <4> QED
        BY <2>2, <2>4, <4>1
    <3> QED
      BY <3>1, <3>2
  <2>6. Loop(k + 1, W, base, step, g)
    BY <2>4, <2>5 DEF Loop
  <2> QED
    BY <2>6
<1> HIDE DEF S
<1>3. Nat \subseteq S
  BY <1>1, <1>2, Induction
<1> QED
  BY <1>3 DEF S

-----------------------------------------------------------------------------
(* Rounds and table. *)
LEMMA RoundBits ==
  ASSUME NEW x \in SUBSET Ones
  PROVE  /\ Round(x) \in SUBSET Ones
         /\ 31 \in Round(x) <=> 0 \in x
         /\ \A i \in 0..30 : i \in Round(x) <=> IF 0 \in x THEN ~(i + 1 \in x <=> i \in CRC_POLY_32) ELSE i + 1 \in x
<1>1. \A i \in 0..30 : i \in ShiftRight(x, 1) <=> i + 1 \in x
  <2> TAKE i \in 0..30
  <2>1. i + 1 \in x => i \in ShiftRight(x, 1)
    BY DEF ShiftRight, Ones
  <2>2. i \in ShiftRight(x, 1) => i + 1 \in x
    BY DEF ShiftRight, Ones
  <2> QED
    BY <2>1, <2>2
<1>2. ShiftRight(x, 1) \subseteq 0..30
  BY DEF ShiftRight, Ones
<1>3. CRC_POLY_32 \subseteq Ones /\ 31 \in CRC_POLY_32
  BY DEF CRC_POLY_32, Ones
<1>4. ShiftRight(x, 1) \subseteq Ones /\ 31 \notin ShiftRight(x, 1)
  BY <1>2 DEF Ones
<1> QED
  BY <1>1, <1>3, <1>4 DEF Round, Xor

(* Eight rounds are a table entry. *)
Rounds(r) == r \in [0..8 -> SUBSET Ones] /\ \A j \in 1..8 : r[j] = Round(r[j - 1])

LEMMA TableEntry ==
  ASSUME NEW byte \in SUBSET LowByte
  PROVE  \E r : Rounds(r) /\ r[0] = byte /\ crc_tab32[byte] = r[8]
<1> DEFINE Eqn(f) == f = [j \in 0..8 |-> IF j = 0 THEN byte ELSE Round(f[j - 1])]
           step == [p \in (SUBSET Ones) \X (1..8) |-> Round(p[1])]
<1>1. byte \in SUBSET Ones
  BY DEF LowByte, Ones
<1>2. step \in [(SUBSET Ones) \X (1..8) -> SUBSET Ones]
  BY RoundBits
<1>3. PICK f : Loop(8, SUBSET Ones, byte, step, f)
  BY <1>1, <1>2, LoopExists
<1>4. f \in [0..8 -> SUBSET Ones] /\ f[0] = byte /\ \A a \in 1..8 : f[a] = Round(f[a - 1])
  BY <1>3 DEF Loop
<1>5. Eqn(f)
  BY <1>4
<1>6. PICK r : r = CHOOSE g : Eqn(g)
  OBVIOUS
<1>7. Eqn(r)
  <2> HIDE DEF Eqn
  <2> QED
    BY <1>5, <1>6, Zenon
<1>8. crc_tab32[byte] = r[8]
  BY <1>6 DEF crc_tab32
<1>9. r[0] = byte /\ \A j \in 1..8 : r[j] = Round(r[j - 1])
  BY <1>7
<1> DEFINE S == {k \in Nat : k <= 8 => r[k] \in SUBSET Ones}
<1>10. Nat \subseteq S
  <2>1. 0 \in S
    BY <1>1, <1>9
  <2>2. ASSUME NEW k \in Nat, k \in S
        PROVE  k + 1 \in S
    <3> SUFFICES ASSUME k + 1 <= 8 PROVE r[k + 1] \in SUBSET Ones
      OBVIOUS
    <3>1. r[k] \in SUBSET Ones /\ r[k + 1] = Round(r[k])
      BY <1>9, <2>2
    <3> QED
      BY <3>1, RoundBits
  <2> HIDE DEF S
  <2> QED
    BY <2>1, <2>2, Induction
<1>11. r \in [0..8 -> SUBSET Ones]
  BY <1>7, <1>10
<1> QED
  BY <1>8, <1>9, <1>11 DEF Rounds

(* The upper byte of an entry determines the entry.                         *)
LEMMA TableInjective ==
  ASSUME NEW b \in SUBSET LowByte, NEW c \in SUBSET LowByte,
         Agree(crc_tab32[b], crc_tab32[c], 24)
  PROVE  b = c
<1>1. PICK r : Rounds(r) /\ r[0] = b /\ crc_tab32[b] = r[8]
  BY TableEntry
<1>2. PICK q : Rounds(q) /\ q[0] = c /\ crc_tab32[c] = q[8]
  BY TableEntry
<1> DEFINE same(j, i) == i \in r[j] <=> i \in q[j]
<1>3. ASSUME NEW j \in 0..7, NEW k \in 1..31, \A i \in k..31 : same(j + 1, i)
      PROVE  same(j, 0) /\ \A i \in k + 1..31 : same(j, i)
  <2>1. /\ r[j] \in SUBSET Ones /\ q[j] \in SUBSET Ones
        /\ r[j + 1] = Round(r[j]) /\ q[j + 1] = Round(q[j])
    BY <1>1, <1>2 DEF Rounds
  <2>2. same(j, 0)
    BY <1>3, <2>1, RoundBits
  <2>3. ASSUME NEW i \in k + 1..31
        PROVE  same(j, i)
    <3>1. i - 1 \in 0..30 /\ i - 1 \in k..31 /\ (i - 1) + 1 = i
      OBVIOUS
    <3>2. same(j + 1, i - 1)
      BY <1>3, <3>1
    <3> QED
      BY <2>1, <2>2, <3>1, <3>2, RoundBits
  <2> QED
    BY <2>2, <2>3
<1>4. ASSUME NEW j \in 0..7, NEW i \in 0..30, same(j, 0), same(j + 1, i)
      PROVE  same(j, i + 1)
  <2>1. /\ r[j] \in SUBSET Ones /\ q[j] \in SUBSET Ones
        /\ r[j + 1] = Round(r[j]) /\ q[j + 1] = Round(q[j])
    BY <1>1, <1>2 DEF Rounds
  <2> QED
    BY <1>4, <2>1, RoundBits
<1>5. \A i \in 24..31 : same(8, i)
  BY <1>1, <1>2 DEF Agree
<1> HIDE DEF same
<1>6. same(7, 0) /\ \A i \in 25..31 : same(7, i)
  <2>1. 7 \in 0..7 /\ 24 \in 1..31 /\ 7 + 1 = 8 /\ 24 + 1 = 25
    OBVIOUS
  <2>2. \A i \in 24..31 : same(7 + 1, i)
    BY <1>5, <2>1
  <2>3. same(7, 0) /\ \A i \in 24 + 1..31 : same(7, i)
    BY <1>3, <2>1, <2>2
  <2> QED
    BY <2>1, <2>3
<1>7. same(6, 0) /\ \A i \in 26..31 : same(6, i)
  BY <1>3, <1>6
<1>8. same(5, 0) /\ \A i \in 27..31 : same(5, i)
  BY <1>3, <1>7
<1>9. same(4, 0) /\ \A i \in 28..31 : same(4, i)
  BY <1>3, <1>8
<1>10. same(3, 0) /\ \A i \in 29..31 : same(3, i)
  BY <1>3, <1>9
<1>11. same(2, 0) /\ \A i \in 30..31 : same(2, i)
  BY <1>3, <1>10
<1>12. same(1, 0) /\ \A i \in 31..31 : same(1, i)
  BY <1>3, <1>11
<1>13. same(0, 0)
  BY <1>3, <1>12
<1>14. \A j \in 0..7 : same(j, 0)
  <2>1. \A j \in 0..7 : j = 0 \/ j = 1 \/ j = 2 \/ j = 3 \/ j = 4 \/ j = 5 \/ j = 6 \/ j = 7
    OBVIOUS
  <2> QED
    BY <1>6, <1>7, <1>8, <1>9, <1>10, <1>11, <1>12, <1>13, <2>1
<1> DEFINE S == {i \in Nat : i <= 7 => \A j \in 0..7 - i : same(j, i)}
<1>15. Nat \subseteq S
  <2>1. 0 \in S
    BY <1>14
  <2>2. ASSUME NEW i \in Nat, i \in S
        PROVE  i + 1 \in S
    <3> SUFFICES ASSUME i + 1 <= 7, NEW j \in 0..7 - (i + 1) PROVE same(j, i + 1)
      OBVIOUS
    <3>1. j \in 0..7 /\ j + 1 \in 0..7 - i /\ i \in 0..30
      OBVIOUS
    <3>2. same(j, 0) /\ same(j + 1, i)
      BY <1>14, <2>2, <3>1
    <3> QED
      BY <1>4, <3>1, <3>2
  <2> HIDE DEF S
  <2> QED
    BY <2>1, <2>2, Induction
<1>16. \A i \in 0..7 : same(0, i)
  BY <1>15
<1>17. \A i \in 0..7 : i \in b <=> i \in c
  BY <1>1, <1>2, <1>16 DEF same
<1>18. b \subseteq 0..7 /\ c \subseteq 0..7
  BY DEF LowByte
<1>19. \A i : i \in b <=> i \in c
  BY <1>17, <1>18
<1> QED
  BY <1>19, Zenon

-----------------------------------------------------------------------------
(* One byte. *)
Index(x, c) == Xor(x, BitsOf[c]) \cap LowByte

LEMMA UpdateBits ==
  ASSUME NEW x \in SUBSET Ones, NEW c \in Byte
  PROVE  /\ update_crc_32(x, c) \in SUBSET Ones
         /\ Index(x, c) \in SUBSET LowByte
         /\ \A i \in 24..31 : i \in update_crc_32(x, c) <=> i \in crc_tab32[Index(x, c)]
         /\ \A i \in 0..23 : i \in update_crc_32(x, c)
                               <=> ~(i + 8 \in x <=> i \in crc_tab32[Index(x, c)])
<1>1. \A i \in 0..23 : i \in ShiftRight(x, 8) <=> i + 8 \in x
  <2> TAKE i \in 0..23
  <2>1. i + 8 \in x => i \in ShiftRight(x, 8)
    BY DEF ShiftRight, Ones
  <2>2. i \in ShiftRight(x, 8) => i + 8 \in x
    BY DEF ShiftRight, Ones
  <2> QED
    BY <2>1, <2>2
<1>2. ShiftRight(x, 8) \subseteq 0..23
  BY DEF ShiftRight, Ones
<1>3. Index(x, c) \in SUBSET LowByte
  BY DEF Index
<1>4. PICK t : t = crc_tab32[Index(x, c)] /\ t \in SUBSET Ones
  <2>1. PICK r : Rounds(r) /\ crc_tab32[Index(x, c)] = r[8]
    BY <1>3, TableEntry
  <2> QED
    BY <2>1 DEF Rounds
<1>5. update_crc_32(x, c) = Xor(ShiftRight(x, 8), t)
  BY <1>4 DEF update_crc_32, Index
<1>6. \A i \in 24..31 : i \notin ShiftRight(x, 8)
  BY <1>2
<1>7. ShiftRight(x, 8) \in SUBSET Ones
  BY <1>2 DEF Ones
<1> QED
  BY <1>1, <1>3, <1>4, <1>5, <1>6, <1>7 DEF Xor

(* What agrees after a byte has used the same entry and agreed, eight bits  *)
(* further up, before it.                                                   *)
LEMMA UpdateBack ==
  ASSUME NEW x \in SUBSET Ones, NEW y \in SUBSET Ones, NEW c \in Byte, NEW d \in Byte,
         NEW k \in 0..24, Agree(update_crc_32(x, c), update_crc_32(y, d), k)
  PROVE  Index(x, c) = Index(y, d) /\ Agree(x, y, k + 8)
<1>1. \A i \in k..31 : i \in update_crc_32(x, c) <=> i \in update_crc_32(y, d)
  BY DEF Agree
<1>2. Agree(crc_tab32[Index(x, c)], crc_tab32[Index(y, d)], 24)
  <2> SUFFICES ASSUME NEW i \in 24..31
               PROVE  i \in crc_tab32[Index(x, c)] <=> i \in crc_tab32[Index(y, d)]
    BY DEF Agree
  <2>1. i \in k..31
    OBVIOUS
  <2> QED
    BY <1>1, <2>1, UpdateBits
<1>3. Index(x, c) = Index(y, d)
  BY <1>2, TableInjective, UpdateBits
<1>4. ASSUME NEW i \in k + 8..31
      PROVE  i \in x <=> i \in y
  <2>1. i - 8 \in 0..23 /\ i - 8 \in k..31 /\ (i - 8) + 8 = i
    OBVIOUS
  <2>2. i - 8 \in update_crc_32(x, c) <=> i - 8 \in update_crc_32(y, d)
    BY <1>1, <2>1
  <2> QED
    BY <1>3, <2>1, <2>2, UpdateBits
<1> QED
  BY <1>3, <1>4 DEF Agree

(* The entry and the byte tell the lower byte of what was before, and the   *)
(* entry and what was before tell the byte.                                 *)
LEMMA IndexTells ==
  ASSUME NEW x \in SUBSET Ones, NEW y \in SUBSET Ones, NEW c \in Byte, NEW d \in Byte,
         Index(x, c) = Index(y, d)
  PROVE  /\ c = d => \A i \in 0..7 : i \in x <=> i \in y
         /\ x = y => c = d
<1>1. \A i \in 0..7 : (i \in x <=> i \in BitsOf[c]) <=> (i \in y <=> i \in BitsOf[d])
  <2> TAKE i \in 0..7
  <2>1. i \in Index(x, c) <=> i \in Index(y, d)
    OBVIOUS
  <2> QED
    BY <2>1 DEF Index, Xor, LowByte
<1>2. c = d => \A i \in 0..7 : i \in x <=> i \in y
  BY <1>1
<1>3. ASSUME x = y
      PROVE  c = d
  <2>1. \A i \in 0..7 : i \in BitsOf[c] <=> i \in BitsOf[d]
    BY <1>1, <1>3
  <2>2. BitsOf[c] \subseteq 0..7 /\ BitsOf[d] \subseteq 0..7
    BY Bits
  <2>3. \A i : i \in BitsOf[c] <=> i \in BitsOf[d]
    BY <2>1, <2>2
  <2>4. BitsOf[c] = BitsOf[d]
    BY <2>3, Zenon
  <2> QED
    BY <2>4, BitsDetermine
<1> QED
  BY <1>2, <1>3

(* The same byte keeps what differs different.                              *)
LEMMA UpdateInjective ==
  ASSUME NEW x \in SUBSET Ones, NEW y \in SUBSET Ones, NEW c \in Byte,
         update_crc_32(x, c) = update_crc_32(y, c)
  PROVE  x = y
<1>1. Agree(update_crc_32(x, c), update_crc_32(y, c), 0)
  BY DEF Agree
<1>2. Index(x, c) = Index(y, c) /\ Agree(x, y, 8)
  <2>1. 0 \in 0..24 /\ 0 + 8 = 8
    OBVIOUS
  <2> QED
    BY <1>1, <2>1, UpdateBack
<1>3. \A i \in 0..7 : i \in x <=> i \in y
  BY <1>2, IndexTells
<1>4. \A i \in 0..31 : i \in x <=> i \in y
  <2>1. \A i \in 0..31 : i \in 0..7 \/ i \in 8..31
    OBVIOUS
  <2> QED
    BY <1>2, <1>3, <2>1 DEF Agree
<1>5. \A i : i \in x <=> i \in y
  BY <1>4 DEF Ones
<1> QED
  BY <1>5, Zenon

-----------------------------------------------------------------------------
(* The bytes of a message: f[a] is the checksum after a bytes.              *)
Run(s, n, f) ==
  /\ f \in [0..n -> SUBSET Ones]
  /\ f[0] = CRC_START_32
  /\ \A a \in 1..n : f[a] = update_crc_32(f[a - 1], s[a - 1])

LEMMA RunExists ==
  ASSUME NEW n \in Nat, NEW s, \A k \in 0..n - 1 : s[k] \in Byte
  PROVE  \E f : Run(s, n, f) /\ crc_32(s, n) = Xor(f[n], Ones)
<1> DEFINE Eqn(f) == f = [a \in 0..n |-> IF a = 0 THEN CRC_START_32 ELSE update_crc_32(f[a - 1], s[a - 1])]
           step == [p \in (SUBSET Ones) \X (1..n) |-> update_crc_32(p[1], s[p[2] - 1])]
<1>1. CRC_START_32 \in SUBSET Ones
  BY DEF CRC_START_32
<1>2. step \in [(SUBSET Ones) \X (1..n) -> SUBSET Ones]
  <2>1. ASSUME NEW p \in (SUBSET Ones) \X (1..n)
        PROVE  update_crc_32(p[1], s[p[2] - 1]) \in SUBSET Ones
    <3>1. p[1] \in SUBSET Ones /\ p[2] - 1 \in 0..n - 1
      OBVIOUS
    <3> QED
      BY <3>1, UpdateBits
  <2> QED
    BY <2>1
<1>3. PICK f : Loop(n, SUBSET Ones, CRC_START_32, step, f)
  BY <1>1, <1>2, LoopExists
<1>4. f \in [0..n -> SUBSET Ones] /\ f[0] = CRC_START_32 /\ \A a \in 1..n : f[a] = update_crc_32(f[a - 1], s[a - 1])
  <2>1. ASSUME NEW a \in 1..n
        PROVE  f[a] = update_crc_32(f[a - 1], s[a - 1])
    <3>1. f[a - 1] \in SUBSET Ones
      <4>1. a - 1 \in 0..n
        OBVIOUS
      <4> QED
        BY <1>3, <4>1 DEF Loop
    <3>2. f[a] = step[<<f[a - 1], a>>]
      BY <1>3 DEF Loop
    <3>3. <<f[a - 1], a>> \in (SUBSET Ones) \X (1..n)
      BY <3>1
    <3> QED
      BY <3>2, <3>3
  <2> QED
    BY <1>3, <2>1 DEF Loop
<1>5. Eqn(f)
  BY <1>4
<1>6. PICK r : r = CHOOSE g : Eqn(g)
  OBVIOUS
<1>7. Eqn(r)
  <2> HIDE DEF Eqn
  <2> QED
    BY <1>5, <1>6, Zenon
<1>8. crc_32(s, n) = Xor(r[n], Ones)
  BY <1>6 DEF crc_32
<1>9. r[0] = CRC_START_32 /\ \A a \in 1..n : r[a] = update_crc_32(r[a - 1], s[a - 1])
  BY <1>7
<1> DEFINE S == {k \in Nat : k <= n => r[k] \in SUBSET Ones}
<1>10. Nat \subseteq S
  <2>1. 0 \in S
    BY <1>1, <1>9
  <2>2. ASSUME NEW k \in Nat, k \in S
        PROVE  k + 1 \in S
    <3> SUFFICES ASSUME k + 1 <= n PROVE r[k + 1] \in SUBSET Ones
      OBVIOUS
    <3>1. k + 1 \in 1..n /\ (k + 1) - 1 = k /\ k \in 0..n - 1 /\ r[k] \in SUBSET Ones
      BY <2>2
    <3>2. r[k + 1] = update_crc_32(r[k], s[k])
      BY <1>9, <3>1
    <3>3. update_crc_32(r[k], s[k]) \in SUBSET Ones
      BY <3>1, UpdateBits
    <3> QED
      BY <3>2, <3>3
  <2> HIDE DEF S
  <2> QED
    BY <2>1, <2>2, Induction
<1>11. r \in [0..n -> SUBSET Ones]
  BY <1>7, <1>10
<1> QED
  BY <1>8, <1>9, <1>11 DEF Run

LEMMA RunTyped ==
  ASSUME NEW n \in Nat, NEW s, NEW f, Run(s, n, f), NEW a \in 0..n - 1
  PROVE  f[a] \in SUBSET Ones /\ f[a + 1] \in SUBSET Ones /\ f[a + 1] = update_crc_32(f[a], s[a])
<1>1. a \in 0..n /\ a + 1 \in 1..n /\ a + 1 \in 0..n /\ (a + 1) - 1 = a
  OBVIOUS
<1> QED
  BY <1>1 DEF Run

(* As long as the bytes are the same, the checksums are.                    *)
LEMMA RunsAgree ==
  ASSUME NEW n \in Nat, NEW s, NEW t, NEW f, NEW g, Run(s, n, f), Run(t, n, g),
         NEW m \in 0..n, \A k \in 0..m - 1 : s[k] = t[k]
  PROVE  \A a \in 0..m : f[a] = g[a]
<1> DEFINE S == {a \in Nat : a <= m => f[a] = g[a]}
<1>1. 0 \in S
  BY DEF Run
<1>2. ASSUME NEW a \in Nat, a \in S
      PROVE  a + 1 \in S
  <2> SUFFICES ASSUME a + 1 <= m PROVE f[a + 1] = g[a + 1]
    OBVIOUS
  <2>1. a \in 0..n - 1 /\ a \in 0..m - 1 /\ f[a] = g[a]
    BY <1>2
  <2> QED
    BY <2>1, RunTyped
<1> HIDE DEF S
<1>3. Nat \subseteq S
  BY <1>1, <1>2, Induction
<1> QED
  BY <1>3 DEF S

(* Once they differ they differ as long as the bytes are the same.          *)
LEMMA RunsDiffer ==
  ASSUME NEW n \in Nat, NEW s, NEW t, NEW f, NEW g, Run(s, n, f), Run(t, n, g),
         NEW m \in 0..n, f[m] # g[m], \A k \in m..n - 1 : s[k] = t[k] /\ s[k] \in Byte
  PROVE  f[n] # g[n]
<1> DEFINE S == {a \in Nat : m + a <= n => f[m + a] # g[m + a]}
<1>1. 0 \in S
  OBVIOUS
<1>2. ASSUME NEW a \in Nat, a \in S
      PROVE  a + 1 \in S
  <2> SUFFICES ASSUME m + (a + 1) <= n PROVE f[m + (a + 1)] # g[m + (a + 1)]
    OBVIOUS
  <2>1. m + a \in 0..n - 1 /\ m + a \in m..n - 1 /\ m + (a + 1) = (m + a) + 1 /\ f[m + a] # g[m + a]
    BY <1>2
  <2>2. /\ f[m + a] \in SUBSET Ones /\ f[(m + a) + 1] = update_crc_32(f[m + a], s[m + a])
        /\ g[m + a] \in SUBSET Ones /\ g[(m + a) + 1] = update_crc_32(g[m + a], t[m + a])
    BY <2>1, RunTyped
  <2> QED
    BY <2>1, <2>2, UpdateInjective
<1> HIDE DEF S
<1>3. Nat \subseteq S
  BY <1>1, <1>2, Induction
<1>4. n - m \in S /\ m + (n - m) = n
  BY <1>3
<1> QED
  BY <1>4 DEF S

(* Different bytes in up to four adjacent places leave different checksums: *)
(* going back from equal ones all entries are equal, and going forward from *)
(* where they were equal before, so are the bytes.                          *)
LEMMA BurstDetected ==
  ASSUME NEW n \in Nat, NEW s, NEW t, NEW f, NEW g, Run(s, n, f), Run(t, n, g),
         \A a \in 0..n - 1 : s[a] \in Byte /\ t[a] \in Byte,
         NEW m \in Nat, NEW k \in 1..4, m + k <= n,
         \A a \in 0..m - 1 : s[a] = t[a],
         \A a \in m + k..n - 1 : s[a] = t[a],
         s[m] # t[m]
  PROVE  f[n] # g[n]
<1>1. f[m] = g[m]
  <2>1. m \in 0..n /\ m \in 0..m
    OBVIOUS
  <2> QED
    BY <2>1, RunsAgree
<1>2. f[m + k] # g[m + k]
  <2>1. SUFFICES ASSUME f[m + k] = g[m + k] PROVE FALSE
    OBVIOUS
  <2> DEFINE S == {b \in Nat : b <= k => Agree(f[m + k - b], g[m + k - b], 8 * b)}
  <2>2. ASSUME NEW b \in Nat, b < k, Agree(f[m + k - b], g[m + k - b], 8 * b)
        PROVE  LET a == m + k - (b + 1)
               IN  /\ Index(f[a], s[a]) = Index(g[a], t[a])
                   /\ Agree(f[a], g[a], 8 * b + 8)
    <3>1. PICK a : a = m + k - (b + 1)
      OBVIOUS
    <3>2. a \in 0..n - 1 /\ a + 1 = m + k - b /\ 8 * b \in 0..24
      BY <2>2, <3>1
    <3>3. /\ f[a] \in SUBSET Ones /\ f[a + 1] = update_crc_32(f[a], s[a])
          /\ g[a] \in SUBSET Ones /\ g[a + 1] = update_crc_32(g[a], t[a])
      BY <3>2, RunTyped
    <3>4. Agree(update_crc_32(f[a], s[a]), update_crc_32(g[a], t[a]), 8 * b)
      BY <2>2, <3>2, <3>3
    <3>5. Index(f[a], s[a]) = Index(g[a], t[a]) /\ Agree(f[a], g[a], 8 * b + 8)
      BY <3>2, <3>3, <3>4, UpdateBack
    <3> QED
      BY <3>1, <3>5
  <2>3. 0 \in S
    <3>1. m + k - 0 = m + k /\ 8 * 0 = 0
      OBVIOUS
    <3>2. Agree(f[m + k], g[m + k], 0)
      BY <2>1 DEF Agree
    <3> QED
      BY <3>1, <3>2
  <2>4. ASSUME NEW b \in Nat, b \in S
        PROVE  b + 1 \in S
    <3> SUFFICES ASSUME b + 1 <= k PROVE Agree(f[m + k - (b + 1)], g[m + k - (b + 1)], 8 * (b + 1))
      OBVIOUS
    <3>1. b < k /\ 8 * (b + 1) = 8 * b + 8 /\ Agree(f[m + k - b], g[m + k - b], 8 * b)
      BY <2>4
    <3> QED
      BY <2>2, <3>1
  <2>5. Nat \subseteq S
    <3> HIDE DEF S
    <3> QED
      BY <2>3, <2>4, Induction
  <2>6. Index(f[m], s[m]) = Index(g[m], t[m])
    <3>1. k - 1 \in Nat /\ k - 1 < k /\ k - 1 <= k /\ m + k - ((k - 1) + 1) = m
      OBVIOUS
    <3>2. Agree(f[m + k - (k - 1)], g[m + k - (k - 1)], 8 * (k - 1))
      BY <2>5, <3>1
    <3> QED
      BY <2>2, <3>1, <3>2
  <2>7. m \in 0..n - 1
    OBVIOUS
  <2>8. f[m] \in SUBSET Ones /\ g[m] \in SUBSET Ones
    BY <2>7, RunTyped
  <2>9. s[m] \in Byte /\ t[m] \in Byte
    BY <2>7
  <2> HIDE DEF S
  <2>10. \A x \in SUBSET Ones, c \in Byte, d \in Byte : Index(x, c) = Index(x, d) => c = d
    BY IndexTells
  <2>11. s[m] = t[m]
    BY <1>1, <2>6, <2>8, <2>9, <2>10
  <2> QED
    BY <2>11
<1>3. m + k \in 0..n
  OBVIOUS
<1>4. \A a \in m + k..n - 1 : s[a] = t[a] /\ s[a] \in Byte
  OBVIOUS
<1> QED
  BY <1>2, <1>3, <1>4, RunsDiffer

(* So the checksums tell whether those bytes have been changed.             *)
LEMMA ChecksumsDiffer ==
  ASSUME NEW n \in Nat, NEW s, NEW t,
         \A a \in 0..n - 1 : s[a] \in Byte /\ t[a] \in Byte,
         NEW m \in Nat, NEW k \in 1..4, m + k <= n,
         \A a \in 0..m - 1 : s[a] = t[a],
         \A a \in m + k..n - 1 : s[a] = t[a],
         s[m] # t[m]
  PROVE  crc_32(t, n) # crc_32(s, n)
<1>1. PICK f : Run(s, n, f) /\ crc_32(s, n) = Xor(f[n], Ones)
  BY RunExists
<1>2. PICK g : Run(t, n, g) /\ crc_32(t, n) = Xor(g[n], Ones)
  BY RunExists
<1>3. f[n] # g[n]
  BY <1>1, <1>2, BurstDetected
<1>4. f[n] \in SUBSET Ones /\ g[n] \in SUBSET Ones
  <2>1. n \in 0..n
    OBVIOUS
  <2> QED
    BY <1>1, <1>2, <2>1 DEF Run
<1>5. \A x \in SUBSET Ones : Xor(Xor(x, Ones), Ones) = x
  BY DEF Xor
<1> QED
  BY <1>1, <1>2, <1>3, <1>4, <1>5

(* Only the bytes that are counted count.                                   *)
LEMMA ChecksumsAgree ==
  ASSUME NEW n \in Nat, NEW s, NEW t,
         \A a \in 0..n - 1 : s[a] \in Byte /\ t[a] = s[a]
  PROVE  crc_32(t, n) = crc_32(s, n) /\ crc_32(s, n) \in SUBSET Ones
<1>1. PICK f : Run(s, n, f) /\ crc_32(s, n) = Xor(f[n], Ones)
  BY RunExists
<1>2. PICK g : Run(t, n, g) /\ crc_32(t, n) = Xor(g[n], Ones)
  BY RunExists
<1>3. n \in 0..n
  OBVIOUS
<1>4. f[n] = g[n]
  BY <1>1, <1>2, <1>3, RunsAgree
<1>5. f[n] \in SUBSET Ones
  BY <1>1, <1>3 DEF Run
<1> QED
  BY <1>1, <1>2, <1>4, <1>5 DEF Xor

(* A chosen byte of a word of the checksum has the bits it is chosen for.   *)
LEMMA ByteOfBits ==
  ASSUME NEW word, NEW k \in 0..3
  PROVE  ByteOf(word, k) \in Byte /\ BitsOf[ByteOf(word, k)] = {i \in LowByte : 8 * (3 - k) + i \in word}
<1> DEFINE S == {i \in LowByte : 8 * (3 - k) + i \in word}
           Good(b) == BitsOf[b] = S
<1>1. S \in SUBSET (0..7)
  BY DEF LowByte
<1>2. \E b \in Byte : Good(b)
  <2> HIDE DEF S
  <2> QED
    BY <1>1, BitsExist
<1>3. ByteOf(word, k) = CHOOSE b \in Byte : Good(b)
  BY DEF ByteOf
<1>4. PICK c : c = ByteOf(word, k)
  OBVIOUS
<1>5. c \in Byte /\ Good(c)
  <2> HIDE DEF Good
  <2> QED
    BY <1>2, <1>3, <1>4, Zenon
<1> QED
  BY <1>4, <1>5

LEMMA TwoBytes ==
  ASSUME NEW l \in Nat
  PROVE  256 * (l \div 256) + (l % 256) = l
  OBVIOUS

(* What the header says of the payload when it has not been touched.        *)
LEMMA HeaderTells ==
  ASSUME NEW o, NEW m, IsMessage(m), Length(m) <= PayloadSize, NEW p,
         crc_32(Payload(o, m, [k \in 0..PayloadSize - 1 |-> 0]), Length(m)) \in SUBSET Ones,
         \A k \in 0..7 : p[k] = PacketBytes(o, m)[k]
  PROVE  /\ LengthOf(p) = Length(m)
         /\ CrcOf(p) = crc_32(Payload(o, m, [k \in 0..PayloadSize - 1 |-> 0]), Length(m))
<1> DEFINE payload == Payload(o, m, [k \in 0..PayloadSize - 1 |-> 0])
           crc == crc_32(payload, Length(m))
<1>1. Length(m) \in Nat /\ PayloadSize \in Nat
  <2> HIDE DEF crc
  <2>1. Length(m) \in Nat
    BY LengthValue
  <2> QED
    BY <2>1, PayloadAssumption
<1>2. LengthOf(p) = Length(m)
  <2>1. 2 \in 0..PacketSize - 1 /\ 3 \in 0..PacketSize - 1
    BY <1>1 DEF PacketSize, HEADER
  <2>2. p[2] = Length(m) \div 256 /\ p[3] = Length(m) % 256
    BY <2>1 DEF PacketBytes
  <2>3. 256 * (Length(m) \div 256) + (Length(m) % 256) = Length(m)
    BY <1>1, TwoBytes
  <2>4. LengthOf(p) = 256 * (Length(m) \div 256) + (Length(m) % 256)
    BY <2>2 DEF LengthOf
  <2> QED
    BY <2>3, <2>4
<1>3. ASSUME NEW k \in 4..7
      PROVE  BitsOf[p[k]] = {i \in LowByte : 8 * (7 - k) + i \in crc}
  <2>1. k \in 0..PacketSize - 1 /\ k \in 0..7 /\ k - 4 \in 0..3 /\ 3 - (k - 4) = 7 - k
    BY <1>1 DEF PacketSize, HEADER
  <2>2. p[k] = ByteOf(crc, k - 4)
    <3>1. k # 0 /\ k # 1 /\ k # 2 /\ k # 3
      OBVIOUS
    <3> QED
      BY <2>1, <3>1 DEF PacketBytes
  <2> HIDE DEF crc
  <2> QED
    BY <2>1, <2>2, ByteOfBits
<1>4. CrcOf(p) = crc
  <2> DEFINE part(k) == {8 * (7 - k) + i : i \in {i \in LowByte : 8 * (7 - k) + i \in crc}}
  <2>1. CrcOf(p) = UNION {part(k) : k \in 4..7}
    <3> HIDE DEF crc
    <3> DEFINE read(k) == {8 * (7 - k) + i : i \in BitsOf[p[k]]}
    <3>1. \A k \in 4..7 : read(k) = part(k)
      BY <1>3
    <3>2. CrcOf(p) = UNION {read(k) : k \in 4..7}
      BY DEF CrcOf
    <3> HIDE DEF read, part
    <3> QED
      BY <3>1, <3>2
  <2>2. crc \subseteq 0..31
    BY DEF Ones
  <2>3. ASSUME NEW i \in 0..31
        PROVE  \E k \in 4..7 : \E j \in 0..7 : i = 8 * (7 - k) + j
    <3>1. PICK q \in Nat : q = i \div 8
      OBVIOUS
    <3>2. PICK r \in Nat : r = i % 8
      OBVIOUS
    <3>3. 8 * q + r = i /\ r \in 0..7 /\ 7 - q \in 4..7 /\ 7 - (7 - q) = q
      BY <3>1, <3>2
    <3> QED
      BY <3>3
  <2> HIDE DEF crc
  <2>4. crc \subseteq UNION {part(k) : k \in 4..7}
    <3> SUFFICES ASSUME NEW i \in crc PROVE \E k \in 4..7 : i \in part(k)
      OBVIOUS
    <3>1. PICK k \in 4..7, j \in 0..7 : i = 8 * (7 - k) + j
      BY <2>2, <2>3
    <3>2. j \in {i_1 \in LowByte : 8 * (7 - k) + i_1 \in crc}
      BY <3>1 DEF LowByte
    <3> QED
      BY <3>1, <3>2
  <2>5. UNION {part(k) : k \in 4..7} \subseteq crc
    <3> SUFFICES ASSUME NEW k \in 4..7, NEW i \in part(k) PROVE i \in crc
      OBVIOUS
    <3> QED
      OBVIOUS
  <2> HIDE DEF part
  <2> QED
    BY <2>1, <2>4, <2>5, Zenon
<1> QED
  BY <1>2, <1>4

-----------------------------------------------------------------------------
(* The invariant: the counts of bytes are ordered as the bytes travelled,   *)
(* only a message that fits is sent, what is damaged are some of four       *)
(* adjacent bytes of it, and a report says what the comparison said.        *)
OnlyFittingSent == pc \in {"send", "closed", "received", "handled"} => message \in Fitting
Burst ==
  damage # None =>
    /\ DOMAIN damage # {}
    /\ \E first \in Nat : DOMAIN damage \subseteq first..first + 3
    /\ \A k \in DOMAIN damage : k < Length(Content[message])
Compared == pc = "handled" => (reported <=> ~crc_is_equal(Received))

IInv == TypeOK /\ OnlyFittingSent /\ Burst /\ Compared

LEMMA Sizes ==
  /\ PayloadSize \in Nat /\ PacketSize \in Nat /\ PacketSize = PayloadSize + 8
  /\ \A m \in Fitting : Length(Content[m]) \in 0..PayloadSize
<1>1. PayloadSize \in Nat
  BY PayloadAssumption
<1>2. \A m \in Fitting : Length(Content[m]) \in Nat /\ Length(Content[m]) <= PayloadSize
  BY TransferAssumption, LengthValue DEF Fitting, Fits
<1> QED
  BY <1>1, <1>2 DEF PacketSize, HEADER

LEMMA StepsTyped ==
  ASSUME IInv, [Next]_vars
  PROVE  TypeOK' /\ OnlyFittingSent'
<1> USE DEF IInv, TypeOK, OnlyFittingSent
<1>1. CASE Build
  BY <1>1 DEF Build
<1>2. CASE SendFirst
  <2>1. PICK n \in Cuts : n <= PacketSize - total /\ total' = n /\ good' = n
    BY <1>2 DEF SendFirst, BytesLeft
  <2>2. n \in 0..PacketSize /\ total = 0
    BY <1>2, <2>1, Sizes, TransferAssumption DEF SendFirst
  <2>3. got \in 0..total'
    BY <2>1, <2>2, Sizes
  <2> QED
    BY <1>2, <2>1, <2>2, <2>3, Sizes DEF SendFirst
<1>3. CASE SendRest
  <2>1. PICK n \in 1..PacketSize - total : total' = total + n
    BY <1>3 DEF SendRest, BytesLeft
  <2>2. total' \in 0..PacketSize /\ good \in 0..total' /\ got \in 0..total'
    BY <2>1, Sizes
  <2>3. behind' \in {0} \cup Behind
    BY <1>3 DEF SendRest
  <2> QED
    BY <1>3, <2>2, <2>3 DEF SendRest
<1>4. CASE Damage
  <2>1. PICK first \in 0..Length(Content[message]) - 1 : \E hit \in SUBSET (first..first + 3) :
          /\ \A k \in hit : k < Length(Content[message])
          /\ damage' \in [hit -> Flips]
    BY <1>4 DEF Damage
  <2>2. PICK hit \in SUBSET (first..first + 3) :
          /\ \A k \in hit : k < Length(Content[message])
          /\ damage' \in [hit -> Flips]
    BY <2>1
  <2>3. hit \subseteq 0..PayloadSize - 1
    BY <1>4, <2>2, Sizes DEF Damage
  <2>4. /\ DOMAIN damage' \subseteq 0..PayloadSize - 1
        /\ \A k \in DOMAIN damage' : damage'[k] \in Flips
    BY <2>2, <2>3
  <2> QED
    BY <1>4, <2>4 DEF Damage
<1>5. CASE SendFails \/ RecvFails
  BY <1>5 DEF SendFails, RecvFails
<1>6. CASE Recv
  <2>1. PICK n \in Cuts : n <= total /\ got' = n
    BY <1>6 DEF Recv
  <2>2. got' \in 0..total
    BY <2>1, TransferAssumption, Sizes
  <2> QED
    BY <1>6, <2>2 DEF Recv
<1>7. CASE Check
  <2>1. reported' \in BOOLEAN
    BY <1>7 DEF Check
  <2> QED
    BY <1>7, <2>1 DEF Check
<1>8. CASE UNCHANGED vars
  BY <1>8 DEF vars
<1> QED
  BY <1>1, <1>2, <1>3, <1>4, <1>5, <1>6, <1>7, <1>8 DEF Next

LEMMA StepsBurst ==
  ASSUME IInv, [Next]_vars
  PROVE  Burst'
<1>1. CASE Damage
  <2>1. PICK first \in 0..Length(Content[message]) - 1 : \E hit \in SUBSET (first..first + 3) :
          /\ hit # {} /\ \A k \in hit : k < Length(Content[message])
          /\ damage' \in [hit -> Flips]
    BY <1>1 DEF Damage
  <2>2. PICK hit \in SUBSET (first..first + 3) :
          /\ hit # {} /\ \A k \in hit : k < Length(Content[message])
          /\ damage' \in [hit -> Flips]
    BY <2>1
  <2>3. DOMAIN damage' = hit /\ message' = message
    BY <1>1, <2>2 DEF Damage
  <2> QED
    BY <2>2, <2>3 DEF Burst
<1>2. CASE UNCHANGED <<damage, message>>
  BY <1>2 DEF IInv, Burst
<1> QED
  BY <1>1, <1>2 DEF Next, vars, Build, SendFirst, SendRest, SendFails, Recv, RecvFails, Check

LEMMA StepsCompared ==
  ASSUME IInv, [Next]_vars
  PROVE  Compared'
<1>1. CASE Check
  <2>1. UNCHANGED <<message, from, to, good, behind, damage, before, got>>
    BY <1>1 DEF Check
  <2>2. Received' = Received
    BY <2>1 DEF Received, Old
  <2>3. PICK r : r = Received
    OBVIOUS
  <2>4. pc' = "handled" => (reported' <=> ~crc_is_equal(r))
    BY <1>1, <2>3 DEF Check
  <2> QED
    BY <2>2, <2>3, <2>4 DEF Compared
<1>2. CASE UNCHANGED vars
  <2>1. Received' = Received /\ UNCHANGED <<pc, reported>>
    BY <1>2 DEF vars, Received, Old
  <2>2. PICK r : r = Received
    OBVIOUS
  <2> QED
    BY <2>1, <2>2 DEF IInv, Compared
<1>3. CASE pc' # "handled"
  BY <1>3 DEF Compared
<1> QED
  BY <1>1, <1>2, <1>3 DEF Next, Build, SendFirst, SendRest, SendFails, Damage, Recv, RecvFails

LEMMA InvHolds == Spec => []IInv
<1>1. Init => IInv
  <2> SUFFICES ASSUME Init PROVE IInv
    OBVIOUS
  <2>1. DOMAIN damage = {} /\ damage = None
    BY DEF Init, None
  <2>2. from \in Orders /\ to \in Orders
    BY TransferAssumption DEF Init
  <2>3. good \in 0..total /\ total \in 0..PacketSize /\ got \in 0..total
    BY Sizes DEF Init
  <2>4. message \in Messages /\ before \in {Blank} \cup Messages
    BY DEF Init, Fitting
  <2>5. pc = "build" /\ behind = 0 /\ reported = FALSE
    BY DEF Init
  <2>6. TypeOK
    BY <2>1, <2>2, <2>3, <2>4, <2>5 DEF TypeOK
  <2>7. OnlyFittingSent /\ Burst /\ Compared
    BY <2>1, <2>5 DEF OnlyFittingSent, Burst, Compared
  <2> QED
    BY <2>6, <2>7 DEF IInv
<1>2. IInv /\ [Next]_vars => IInv'
  BY StepsTyped, StepsBurst, StepsCompared DEF IInv
<1> QED
  BY <1>1, <1>2, PTL DEF Spec

(* The bytes are counted right wherever send and recv stop: never more than *)
(* the packet has been sent, never more than that received, and only bytes  *)
(* of the payload are damaged (task.c:84-106, 661-662).                     *)
THEOREM TypeCorrect == Spec => []TypeOK
<1>1. IInv => TypeOK
  BY DEF IInv
<1> QED
  BY <1>1, InvHolds, PTL

(* Twenty members are one too many for the payload of the source.           *)
THEOREM NineteenMembers ==
  ASSUME PayloadSize = 400, NEW m, IsMessage(m), IsList(m)
  PROVE  Fits(m) <=> m.n <= 19
<1>1. m.n \in Nat /\ Length(m) = 20 * m.n + 1
  BY LengthValue
<1> QED
  BY <1>1 DEF Fits

(* For every payload size, message, pair of hosts and place where the       *)
(* packet is broken: the receiver understands it if the first send and the  *)
(* recv have covered the part that is used.                                 *)
THEOREM WholeUnderstood == Spec => []WholeIsUnderstood
<1>1. IInv => WholeIsUnderstood
  <2> SUFFICES ASSUME IInv, pc = "handled", Whole
               PROVE  /\ Received[1] = Content[message].typ
                      /\ Understood(to, PayloadOf(Received), Content[message])
    BY DEF WholeIsUnderstood
  <2> DEFINE m == Content[message]
             stack == [k \in 0..PayloadSize - 1 |-> 0]
  <2>1. IsMessage(m) /\ Length(m) <= PayloadSize /\ message \in Fitting
    BY TransferAssumption DEF IInv, OnlyFittingSent, Fitting, Fits
  <2>2. Length(m) \in Nat /\ PayloadSize \in Nat
    BY <2>1, LengthValue, PayloadAssumption
  <2>3. Packets[<<from, message>>] = PacketBytes(from, m)
    BY <2>1 DEF Packets, IInv, TypeOK
  <2>4. \A k \in 0..(HEADER + Length(m) - 1) : Received[k] = PacketBytes(from, m)[k]
    <3> SUFFICES ASSUME NEW k \in 0..(HEADER + Length(m) - 1)
                 PROVE  Received[k] = PacketBytes(from, m)[k]
      OBVIOUS
    <3>1. k \in 0..PacketSize - 1 /\ k < got /\ k < good
      BY <2>1, <2>2 DEF Whole, Covered, HEADER, PacketSize, IInv, TypeOK
    <3>2. k - HEADER \notin DOMAIN damage
      BY DEF Whole, None
    <3> QED
      BY <2>3, <3>1, <3>2 DEF Received, IInv, TypeOK
  <2>5. Received[1] = m.typ
    <3>1. 1 \in 0..(HEADER + Length(m) - 1) /\ 1 \in 0..PacketSize - 1
      BY <2>2 DEF PacketSize, HEADER
    <3>2. PacketBytes(from, m)[1] = m.typ
      BY <3>1 DEF PacketBytes
    <3> QED
      BY <2>4, <3>1, <3>2
  <2>6. \A k \in 0..Length(m) - 1 : PayloadOf(Received)[k] = PayloadByte(from, m, stack, k)
    <3> SUFFICES ASSUME NEW k \in 0..Length(m) - 1
                 PROVE  PayloadOf(Received)[k] = PayloadByte(from, m, stack, k)
      OBVIOUS
    <3>1. /\ k \in 0..PayloadSize - 1
          /\ k + HEADER \in 0..(HEADER + Length(m) - 1)
          /\ k + HEADER \in 0..PacketSize - 1
          /\ k + HEADER - HEADER = k
          /\ k + HEADER \notin 0..7
      BY <2>1, <2>2 DEF PacketSize, HEADER
    <3>2. PayloadOf(Received)[k] = Received[k + HEADER]
      BY <3>1 DEF PayloadOf
    <3>3. PacketBytes(from, m)[k + HEADER] = Payload(from, m, stack)[k]
      BY <3>1 DEF PacketBytes, HEADER
    <3>4. Payload(from, m, stack)[k] = PayloadByte(from, m, stack, k)
      BY <3>1 DEF Payload
    <3> QED
      BY <2>4, <3>1, <3>2, <3>3, <3>4
  <2> HIDE DEF m, stack
  <2>7. CASE IsList(m)
    <3>1. Length(m) = 20 * m.n + 1 /\ m.n \in Nat
      BY <2>1, <2>7, LengthValue
    <3>2. m.n \in 0..255
      <4>1. \A n \in Nat : \A length : length = 20 * n + 1 /\ length <= 5101 => n \in 0..255
        OBVIOUS
      <4>2. Length(m) <= 5101
        BY <2>1, <2>2, PayloadAssumption
      <4> QED
        BY <3>1, <4>1, <4>2
    <3>3. \A k \in 0..20 * m.n : PayloadOf(Received)[k] = PayloadByte(from, m, stack, k)
      <4>1. (20 * m.n + 1) - 1 = 20 * m.n
        BY <3>2
      <4> QED
        BY <2>6, <3>1, <4>1
    <3>4. Understood(to, PayloadOf(Received), m)
      BY <2>1, <2>7, <3>2, <3>3, ListUnderstood DEF IInv, TypeOK
    <3> QED
      BY <2>5, <3>4 DEF m
  <2>8. CASE ~IsList(m)
    <3>1. Length(m) = m.n /\ m.n \in Nat
      BY <2>1, <2>8, LengthValue
    <3>2. Understood(to, PayloadOf(Received), m)
      BY <2>6, <2>8, <3>1, TextUnderstood
    <3> QED
      BY <2>5, <3>2 DEF m
  <2> QED
    BY <2>7, <2>8
<1> QED
  BY <1>1, InvHolds, PTL

-----------------------------------------------------------------------------
(* The bytes of a packet that is covered.                                   *)
LEMMA CoveredBytes ==
  ASSUME IInv, pc = "handled", Covered, NEW m, m = Content[message]
  PROVE  /\ IsMessage(m) /\ Length(m) \in 0..PayloadSize /\ PayloadSize \in Nat
         /\ \A k \in 0..7 : Received[k] = PacketBytes(from, m)[k]
         /\ \A k \in 0..Length(m) - 1 :
              PayloadOf(Received)[k] =
                LET b == Payload(from, m, [j \in 0..PayloadSize - 1 |-> 0])[k]
                IN  IF k \in DOMAIN damage THEN (b + damage[k]) % 256 ELSE b
<1>1. message \in Fitting /\ IsMessage(m)
  BY TransferAssumption DEF IInv, OnlyFittingSent, Fitting
<1>2. Length(m) \in 0..PayloadSize /\ PayloadSize \in Nat /\ PacketSize = PayloadSize + 8
  BY <1>1, Sizes
<1>3. Packets[<<from, message>>] = PacketBytes(from, m)
  BY <1>1 DEF Packets, IInv, TypeOK
<1>4. ASSUME NEW k \in 0..Length(m) + 7
      PROVE  Received[k] = IF k - 8 \in DOMAIN damage THEN (PacketBytes(from, m)[k] + damage[k - 8]) % 256
                                                      ELSE PacketBytes(from, m)[k]
  <2>1. k \in 0..PacketSize - 1 /\ k < got /\ k < good /\ ~(k >= got) /\ ~(k >= good)
    BY <1>2 DEF Covered, HEADER, IInv, TypeOK
  <2>2. CASE k - 8 \in DOMAIN damage
    BY <1>3, <2>1, <2>2 DEF Received, HEADER
  <2>3. CASE k - 8 \notin DOMAIN damage
    BY <1>3, <2>1, <2>3 DEF Received, HEADER
  <2> QED
    BY <2>2, <2>3
<1>5. ASSUME NEW k \in 0..7
      PROVE  Received[k] = PacketBytes(from, m)[k]
  <2>1. k \in 0..Length(m) + 7 /\ k - 8 < 0
    BY <1>2
  <2>2. k - 8 \notin DOMAIN damage
    BY <1>2, <2>1 DEF IInv, TypeOK
  <2> QED
    BY <1>4, <2>1, <2>2
<1>6. ASSUME NEW k \in 0..Length(m) - 1
      PROVE  PayloadOf(Received)[k] =
               LET b == Payload(from, m, [j \in 0..PayloadSize - 1 |-> 0])[k]
               IN  IF k \in DOMAIN damage THEN (b + damage[k]) % 256 ELSE b
  <2>1. /\ k + 8 \in 0..Length(m) + 7 /\ (k + 8) - 8 = k /\ k \in 0..PayloadSize - 1
        /\ k + 8 \in 0..PacketSize - 1
        /\ k + 8 # 0 /\ k + 8 # 1 /\ k + 8 # 2 /\ k + 8 # 3 /\ k + 8 \notin 4..7
    BY <1>2
  <2>2. PacketBytes(from, m)[k + 8] = Payload(from, m, [j \in 0..PayloadSize - 1 |-> 0])[k]
    BY <2>1 DEF PacketBytes, HEADER
  <2>3. PayloadOf(Received)[k] = Received[k + 8]
    BY <2>1 DEF PayloadOf, HEADER
  <2> QED
    BY <1>4, <2>1, <2>2, <2>3
<1> QED
  BY <1>1, <1>2, <1>5, <1>6

(* What the senders write are bytes.                                        *)
LEMMA PayloadBytes ==
  ASSUME NEW m, IsMessage(m), NEW o \in Orders, NEW k \in 0..PayloadSize - 1,
         NEW s, s = Payload(o, m, [j \in 0..PayloadSize - 1 |-> 0])
  PROVE  s[k] \in Byte
<1> DEFINE stack == [j \in 0..PayloadSize - 1 |-> 0]
<1>1. s[k] = PayloadByte(o, m, stack, k)
  BY DEF Payload
<1>2. stack[k] \in Byte
  BY DEF Byte
<1> HIDE DEF stack
<1>3. m.n \in Nat
  BY LengthValue
<1>4. CASE ~IsList(m)
  <2>1. m.text \in [0..m.n - 1 -> Byte]
    BY <1>4, LengthValue DEF Texts
  <2>2. s[k] = IF k < m.n THEN m.text[k] ELSE stack[k]
    BY <1>1, <1>4 DEF PayloadByte
  <2> QED
    BY <1>2, <1>3, <2>1, <2>2
<1>5. CASE IsList(m) /\ k = 0
  <2>1. s[k] = m.n % 256
    BY <1>1, <1>5 DEF PayloadByte
  <2>2. \A n \in Nat : n % 256 \in 0..255
    OBVIOUS
  <2> QED
    BY <1>3, <2>1, <2>2 DEF Byte
<1>6. CASE IsList(m) /\ k # 0
  <2>1. PICK i : i = (k - 1) \div 20
    OBVIOUS
  <2>2. PICK j : j = (k - 1) % 20
    OBVIOUS
  <2>3. k > 0 /\ i \in Nat /\ j \in 0..19
    BY <1>6, <2>1, <2>2
  <2>4. CASE ~(i < m.n)
    BY <1>1, <1>2, <1>6, <2>1, <2>3, <2>4 DEF PayloadByte, SIZE_OF_MEMBER_IN_BYTES
  <2>5. CASE i < m.n
    <3>1. m.members[i].ip \in Words /\ m.members[i].id \in Names
      <4>1. m.members \in [0..m.n - 1 -> Members]
        BY <1>6, LengthValue DEF Lists
      <4>2. i \in 0..m.n - 1
        BY <1>3, <2>3, <2>5
      <4> QED
        BY <4>1, <4>2 DEF Members
    <3>2. CASE j < 4
      <4>1. s[k] = Turned(o, InMemory(o, m.members[i].ip))[j]
        BY <1>1, <1>6, <2>1, <2>2, <2>3, <2>5, <3>2 DEF PayloadByte, SIZE_OF_MEMBER_IN_BYTES
      <4>2. \A w \in Words : Swap(w) \in Words
        BY DEF Swap, Words
      <4>3. Turned(o, InMemory(o, m.members[i].ip)) \in Words
        BY <3>1, <4>2 DEF InMemory, Turned
      <4>4. j \in 0..3
        BY <2>3, <3>2
      <4> QED
        BY <4>1, <4>3, <4>4 DEF Words
    <3>3. CASE j >= 4
      <4>1. m.members[i].id[j - 4] \in Byte
        <5>1. j - 4 \in 0..16 - 1
          BY <2>3, <3>3
        <5>2. PICK id \in Names : id = m.members[i].id
          BY <3>1
        <5> QED
          BY <5>1, <5>2 DEF Names, ID_LENGTH
      <4>2. s[k] = IF Copied(m, i, j - 4) THEN m.members[i].id[j - 4] ELSE stack[k]
        BY <1>1, <1>6, <2>1, <2>2, <2>3, <2>5, <3>3 DEF PayloadByte, SIZE_OF_MEMBER_IN_BYTES
      <4> QED
        BY <1>2, <4>1, <4>2
    <3> QED
      BY <2>3, <3>2, <3>3
  <2> QED
    BY <2>4, <2>5
<1> QED
  BY <1>4, <1>5, <1>6

(* A nonempty set among four adjacent places has a first one, and lies      *)
(* within four from there.                                                  *)
LEMMA FirstOfBurst ==
  ASSUME NEW D, NEW n \in Nat, NEW first \in Nat, D # {},
         D \subseteq first..first + 3, \A k \in D : k < n
  PROVE  \E m \in D, l \in 1..4 :
           m \in Nat /\ m + l <= n /\ \A k \in D : k \in m..m + l - 1
<1>1. PICK m \in D : \A k \in D : m <= k
  <2>1. CASE first \in D
    BY <2>1
  <2>2. CASE first \notin D /\ first + 1 \in D
    BY <2>2
  <2>3. CASE first \notin D /\ first + 1 \notin D /\ first + 2 \in D
    BY <2>3
  <2>4. CASE first \notin D /\ first + 1 \notin D /\ first + 2 \notin D
    <3>1. \A k \in D : k = first + 3
      BY <2>4
    <3>2. PICK m \in D : TRUE
      OBVIOUS
    <3>3. \A k \in D : m <= k
      BY <3>1, <3>2
    <3> QED
      BY <3>2, <3>3
  <2> QED
    BY <2>1, <2>2, <2>3, <2>4
<1>2. m \in Nat /\ m < n /\ \A k \in D : k \in m..m + 3
  BY <1>1
<1>3. CASE m + 4 <= n
  <2>1. \A k \in D : k \in m..m + 4 - 1
    BY <1>2
  <2> QED
    BY <1>2, <1>3, <2>1
<1>4. CASE ~(m + 4 <= n)
  <2>1. PICK l \in 1..4 : l = n - m
    BY <1>2, <1>4
  <2>2. m + l <= n /\ \A k \in D : k \in m..m + l - 1
    BY <1>2, <2>1
  <2> QED
    BY <1>2, <2>2
<1> QED
  BY <1>3, <1>4

-----------------------------------------------------------------------------

(***************************************************************************)
(* The definition of the checksum.  A polynomial is a finite set of        *)
(* exponents.  Sum(p, F) adds up the words that F gives for them.          *)
(***************************************************************************)
Poly      == {p \in SUBSET Nat : IsFiniteSet(p)}
Odd(S)    == Cardinality(S) % 2 = 1
Sum(p, F) == {i \in Ones : Odd({e \in p : i \in F[e]})}

(* Finite sets are made from the empty one by adding elements. *)
LEMMA PolyInduction ==
  ASSUME NEW S, {} \in S, \A p \in Poly : p \in S => \A e \in Nat \ p : p \cup {e} \in S
  PROVE  Poly \subseteq S
<1> DEFINE T == {n \in Nat : \A p \in Poly : Cardinality(p) = n => p \in S}
<1>1. 0 \in T
  BY FS_EmptySet DEF Poly
<1>2. ASSUME NEW n \in Nat, n \in T
      PROVE  n + 1 \in T
  <2> SUFFICES ASSUME NEW p \in Poly, Cardinality(p) = n + 1 PROVE p \in S
    OBVIOUS
  <2>1. IsFiniteSet(p) /\ p \subseteq Nat
    BY DEF Poly
  <2>2. PICK e : e \in p
    BY <2>1, FS_EmptySet
  <2>3. IsFiniteSet(p \ {e}) /\ Cardinality(p \ {e}) = n
    <3>1. IsFiniteSet(p \ {e}) /\ Cardinality(p \ {e}) = Cardinality(p) - 1
      BY <2>1, <2>2, FS_RemoveElement
    <3> QED
      BY <3>1
  <2>4. p \ {e} \in Poly
    BY <2>1, <2>3 DEF Poly
  <2>5. p \ {e} \in S
    BY <1>2, <2>3, <2>4
  <2>6. e \in Nat \ (p \ {e}) /\ (p \ {e}) \cup {e} = p
    BY <2>1, <2>2
  <2> QED
    BY <2>4, <2>5, <2>6
<1> HIDE DEF T
<1>3. Nat \subseteq T
  BY <1>1, <1>2, Induction
<1> SUFFICES ASSUME NEW p \in Poly PROVE p \in S
  OBVIOUS
<1>4. Cardinality(p) \in Nat
  BY FS_CardinalityType DEF Poly
<1> QED
  BY <1>3, <1>4 DEF T

LEMMA XorLaws ==
  ASSUME NEW a, NEW b, NEW c
  PROVE  /\ Xor(a, b) = Xor(b, a)
         /\ Xor(Xor(a, b), c) = Xor(a, Xor(b, c))
         /\ Xor(a, a) = {} /\ Xor(a, {}) = a /\ Xor({}, a) = a
         /\ Xor(a, b) = {} => a = b
  BY DEF Xor

LEMMA XorPoly ==
  ASSUME NEW p \in Poly, NEW q \in Poly
  PROVE  Xor(p, q) \in Poly
<1>1. IsFiniteSet(p \cup q)
  BY FS_Union DEF Poly
<1>2. Xor(p, q) \in SUBSET (p \cup q)
  BY DEF Xor
<1>3. IsFiniteSet(Xor(p, q))
  BY <1>1, <1>2, FS_Subset
<1> QED
  BY <1>2, <1>3 DEF Poly

LEMMA BelowPoly ==
  ASSUME NEW n \in Nat, NEW p \in SUBSET (0..n)
  PROVE  p \in Poly
<1>1. IsFiniteSet(0..n)
  BY FS_Interval
<1>2. IsFiniteSet(p)
  BY <1>1, FS_Subset
<1> QED
  BY <1>2 DEF Poly

-----------------------------------------------------------------------------
LEMMA SumEmpty ==
  ASSUME NEW F
  PROVE  Sum({}, F) = {}
<1>1. \A i : {e \in {} : i \in F[e]} = {}
  OBVIOUS
<1>2. ~Odd({})
  BY FS_EmptySet DEF Odd
<1> QED
  BY <1>1, <1>2 DEF Sum

LEMMA SumAdd ==
  ASSUME NEW F, NEW p \in Poly, NEW e \in Nat \ p, F[e] \in SUBSET Ones
  PROVE  Sum(p \cup {e}, F) = Xor(Sum(p, F), F[e])
<1> DEFINE at(q, i) == {x \in q : i \in F[x]}
<1>1. ASSUME NEW i \in Ones
      PROVE  Odd(at(p \cup {e}, i)) <=> ~(Odd(at(p, i)) <=> i \in F[e])
  <2>1. IsFiniteSet(at(p, i))
    <3>1. at(p, i) \in SUBSET p /\ IsFiniteSet(p)
      BY DEF Poly
    <3> QED
      BY <3>1, FS_Subset
  <2>2. PICK n \in Nat : n = Cardinality(at(p, i))
    BY <2>1, FS_CardinalityType
  <2>3. CASE i \in F[e]
    <3>1. at(p \cup {e}, i) = at(p, i) \cup {e} /\ e \notin at(p, i)
      BY <2>3
    <3>2. Cardinality(at(p \cup {e}, i)) = n + 1
      <4> HIDE DEF at
      <4> QED
        BY <2>1, <2>2, <3>1, FS_AddElement
    <3>3. (n + 1) % 2 = 1 <=> ~(n % 2 = 1)
      OBVIOUS
    <3> QED
      BY <2>2, <2>3, <3>2, <3>3 DEF Odd
  <2>4. CASE i \notin F[e]
    <3>1. at(p \cup {e}, i) = at(p, i)
      BY <2>4
    <3> QED
      BY <2>4, <3>1
  <2> QED
    BY <2>3, <2>4
<1>2. \A q : Sum(q, F) = {i \in Ones : Odd(at(q, i))}
  BY DEF Sum
<1> HIDE DEF at
<1>3. \A i : i \in Sum(p \cup {e}, F) <=> i \in Xor(Sum(p, F), F[e])
  BY <1>1, <1>2 DEF Xor
<1> QED
  BY <1>3, Zenon

(* A power more or less. *)
LEMMA SumToggle ==
  ASSUME NEW F \in [Nat -> SUBSET Ones], NEW p \in Poly, NEW e \in Nat
  PROVE  Sum(Xor(p, {e}), F) = Xor(Sum(p, F), F[e])
<1>1. CASE e \notin p
  <2>1. Xor(p, {e}) = p \cup {e}
    BY <1>1 DEF Xor
  <2> QED
    BY <1>1, <2>1, SumAdd
<1>2. CASE e \in p
  <2>1. Xor(p, {e}) = p \ {e} /\ (p \ {e}) \cup {e} = p
    BY <1>2 DEF Xor
  <2>2. {e} \in Poly
    BY FS_Singleton DEF Poly
  <2>3. p \ {e} \in Poly
    BY <2>1, <2>2, XorPoly
  <2>4. Sum(p, F) = Xor(Sum(p \ {e}, F), F[e])
    <3>1. e \in Nat \ (p \ {e})
      OBVIOUS
    <3> QED
      BY <2>1, <2>3, <3>1, SumAdd
  <2>5. Xor(Sum(p, F), F[e]) = Sum(p \ {e}, F)
    BY <2>4, XorLaws
  <2> QED
    BY <2>1, <2>5
<1> QED
  BY <1>1, <1>2

LEMMA SumXor ==
  ASSUME NEW F \in [Nat -> SUBSET Ones], NEW p \in Poly, NEW q \in Poly
  PROVE  Sum(Xor(p, q), F) = Xor(Sum(p, F), Sum(q, F))
<1> DEFINE S == {r \in Poly : Sum(Xor(p, r), F) = Xor(Sum(p, F), Sum(r, F))}
<1>1. {} \in S
  <2>1. {} \in Poly
    BY FS_EmptySet DEF Poly
  <2>2. Xor(p, {}) = p /\ Sum({}, F) = {} /\ Xor(Sum(p, F), {}) = Sum(p, F)
    BY XorLaws, SumEmpty
  <2> QED
    BY <2>1, <2>2
<1>2. ASSUME NEW r \in Poly, r \in S, NEW e \in Nat \ r
      PROVE  r \cup {e} \in S
  <2>1. r \cup {e} = Xor(r, {e})
    BY DEF Xor
  <2>2. {e} \in Poly
    BY FS_Singleton DEF Poly
  <2>3. Xor(r, {e}) \in Poly /\ Xor(p, r) \in Poly
    BY <2>2, XorPoly
  <2>4. Xor(p, Xor(r, {e})) = Xor(Xor(p, r), {e})
    BY XorLaws
  <2>5. Sum(Xor(Xor(p, r), {e}), F) = Xor(Sum(Xor(p, r), F), F[e])
    BY <2>3, SumToggle
  <2>6. Sum(Xor(r, {e}), F) = Xor(Sum(r, F), F[e])
    BY SumToggle
  <2>7. Sum(Xor(p, r), F) = Xor(Sum(p, F), Sum(r, F))
    BY <1>2
  <2>8. Xor(Xor(Sum(p, F), Sum(r, F)), F[e]) = Xor(Sum(p, F), Xor(Sum(r, F), F[e]))
    BY XorLaws
  <2> QED
    BY <2>1, <2>3, <2>4, <2>5, <2>6, <2>7, <2>8
<1> HIDE DEF S
<1>3. Poly \subseteq S
  BY <1>1, <1>2, PolyInduction
<1> QED
  BY <1>3 DEF S

-----------------------------------------------------------------------------

(***************************************************************************)
(* Times(w) is x times w, reduced by the generator; PowersOfX(F) says that *)
(* F[n] is the n-th power of x, reduced.                                   *)
(***************************************************************************)
Tail32    == Generator \cap Ones
Times(w)  == {i \in Ones : ~((i > 0 /\ i - 1 \in w) <=> (31 \in w /\ i \in Generator))}
Up(p, k)  == {e + k : e \in p}
Doubled(p) == {2 * e : e \in p}

PowersOfX(F) ==
  /\ F \in [Nat -> SUBSET Ones]
  /\ F[0] = {0}
  /\ \A n \in Nat : F[n + 1] = Times(F[n])

(* Unboundedly many rounds of a loop, from the bounded ones. *)
LEMMA PowersExist == \E F : PowersOfX(F)
<1> DEFINE W == SUBSET Ones
           step(n) == [p \in W \X (1..n) |-> Times(p[1])]
           Good(n, f) == Loop(n, W, {0}, step(n), f)
           L(n) == CHOOSE f : Good(n, f)
<1>1. ASSUME NEW n \in Nat
      PROVE  \E f : Good(n, f)
  <2>1. {0} \in W
    BY DEF Ones
  <2>2. step(n) \in [W \X (1..n) -> W]
    BY DEF Times
  <2> QED
    BY <2>1, <2>2, LoopExists
<1>2. ASSUME NEW n \in Nat
      PROVE  /\ L(n) \in [0..n -> W] /\ L(n)[0] = {0}
             /\ \A a \in 1..n : L(n)[a] = Times(L(n)[a - 1])
  <2>1. PICK f : f = L(n)
    OBVIOUS
  <2>2. Good(n, f)
    <3> HIDE DEF Good
    <3> QED
      BY <1>1, <2>1, Zenon
  <2>3. f \in [0..n -> W] /\ f[0] = {0} /\ \A a \in 1..n : f[a] = step(n)[<<f[a - 1], a>>]
    BY <2>2 DEF Loop
  <2>4. ASSUME NEW a \in 1..n
        PROVE  f[a] = Times(f[a - 1])
    <3>1. a - 1 \in 0..n
      OBVIOUS
    <3>2. <<f[a - 1], a>> \in W \X (1..n)
      BY <2>3, <3>1
    <3> QED
      BY <2>3, <3>2
  <2> HIDE DEF L
  <2> QED
    BY <2>1, <2>3, <2>4
<1> HIDE DEF L
<1>3. ASSUME NEW n \in Nat
      PROVE  \A a \in 0..n : L(n + 1)[a] = L(n)[a]
  <2> DEFINE S == {a \in Nat : a <= n => L(n + 1)[a] = L(n)[a]}
  <2>1. 0 \in S
    <3>1. n + 1 \in Nat
      OBVIOUS
    <3>2. L(n)[0] = {0} /\ L(n + 1)[0] = {0}
      BY <1>2, <3>1
    <3> QED
      BY <3>2
  <2>2. ASSUME NEW a \in Nat, a \in S
        PROVE  a + 1 \in S
    <3> SUFFICES ASSUME a + 1 <= n PROVE L(n + 1)[a + 1] = L(n)[a + 1]
      OBVIOUS
    <3>1. a + 1 \in 1..n /\ a + 1 \in 1..n + 1 /\ (a + 1) - 1 = a
      OBVIOUS
    <3>2. L(n + 1)[a] = L(n)[a]
      BY <2>2
    <3>3. L(n)[a + 1] = Times(L(n)[a])
      BY <1>2, <3>1
    <3>4. L(n + 1)[a + 1] = Times(L(n + 1)[a])
      BY <1>2, <3>1
    <3> QED
      BY <3>2, <3>3, <3>4
  <2> HIDE DEF S
  <2>3. Nat \subseteq S
    BY <2>1, <2>2, Induction
  <2> QED
    BY <2>3 DEF S
<1> DEFINE F == [n \in Nat |-> L(n)[n]]
<1>4. F \in [Nat -> SUBSET Ones]
  BY <1>2
<1>5. F[0] = {0}
  BY <1>2
<1>6. ASSUME NEW n \in Nat
      PROVE  F[n + 1] = Times(F[n])
  <2>1. L(n + 1)[n] = L(n)[n]
    BY <1>3
  <2>2. n + 1 \in 1..n + 1 /\ (n + 1) - 1 = n
    OBVIOUS
  <2>3. L(n + 1)[n + 1] = Times(L(n + 1)[n])
    BY <1>2, <2>2
  <2> QED
    BY <2>1, <2>3
<1> HIDE DEF F
<1> QED
  BY <1>4, <1>5, <1>6 DEF PowersOfX

LEMMA TimesLaws ==
  ASSUME NEW v \in SUBSET Ones, NEW w \in SUBSET Ones
  PROVE  /\ Times(v) \in SUBSET Ones
         /\ Times({}) = {}
         /\ Times(Xor(v, w)) = Xor(Times(v), Times(w))
<1>1. Times(v) \in SUBSET Ones /\ Times({}) = {}
  BY DEF Times
<1>2. \A i : i \in Times(Xor(v, w)) <=> i \in Xor(Times(v), Times(w))
  BY DEF Times, Xor
<1> QED
  BY <1>1, <1>2, Zenon

(* The first powers of x are not reduced; that of 32 is the generator.      *)
LEMMA FirstPowers ==
  ASSUME NEW F, PowersOfX(F)
  PROVE  /\ \A n \in 0..31 : F[n] = {n}
         /\ F[32] = Tail32
<1> DEFINE S == {n \in Nat : n <= 31 => F[n] = {n}}
<1>1. 0 \in S
  BY DEF PowersOfX
<1>2. ASSUME NEW n \in Nat, n \in S
      PROVE  n + 1 \in S
  <2> SUFFICES ASSUME n + 1 <= 31 PROVE F[n + 1] = {n + 1}
    OBVIOUS
  <2>1. F[n] = {n} /\ F[n + 1] = Times(F[n])
    BY <1>2 DEF PowersOfX
  <2>2. Times({n}) = {n + 1}
    BY DEF Times, Ones
  <2> QED
    BY <2>1, <2>2
<1> HIDE DEF S
<1>3. Nat \subseteq S
  BY <1>1, <1>2, Induction
<1>4. \A n \in 0..31 : F[n] = {n}
  BY <1>3 DEF S
<1>5. F[32] = Times(F[31])
  <2>1. 31 \in Nat /\ 31 + 1 = 32
    OBVIOUS
  <2> QED
    BY <2>1 DEF PowersOfX
<1>6. Times({31}) = Tail32
  BY DEF Times, Tail32, Generator, Ones
<1>7. F[31] = {31}
  <2>1. 31 \in 0..31
    OBVIOUS
  <2> QED
    BY <1>4, <2>1
<1> QED
  BY <1>4, <1>5, <1>6, <1>7

(* What has no power beyond 31 is its own remainder. *)
LEMMA SumOfSmall ==
  ASSUME NEW F, PowersOfX(F), NEW p \in SUBSET Ones
  PROVE  Sum(p, F) = p
<1>1. \A i \in Ones : {e \in p : i \in F[e]} = IF i \in p THEN {i} ELSE {}
  <2> SUFFICES ASSUME NEW i \in Ones PROVE {e \in p : i \in F[e]} = IF i \in p THEN {i} ELSE {}
    OBVIOUS
  <2>1. \A e \in p : F[e] = {e}
    BY FirstPowers DEF Ones
  <2> QED
    BY <2>1
<1>2. \A i : Odd({i}) /\ ~Odd({})
  <2>1. \A i : Cardinality({i}) = 1 /\ Cardinality({}) = 0
    BY FS_Singleton, FS_EmptySet
  <2> QED
    BY <2>1 DEF Odd
<1>3. \A i \in Ones : Odd({e \in p : i \in F[e]}) <=> i \in p
  BY <1>1, <1>2
<1> QED
  BY <1>3 DEF Sum

LEMMA UpPoly ==
  ASSUME NEW p \in Poly, NEW k \in Nat
  PROVE  Up(p, k) \in Poly
<1>1. [e \in p |-> e + k] \in Surjection(p, Up(p, k))
  BY DEF Surjection, Up
<1>2. IsFiniteSet(Up(p, k))
  BY <1>1, FS_Surjection DEF Poly
<1> QED
  BY <1>2 DEF Poly, Up

LEMMA UpLaws ==
  ASSUME NEW p \in SUBSET Nat, NEW q \in SUBSET Nat, NEW k \in Nat
  PROVE  /\ Up(Xor(p, q), k) = Xor(Up(p, k), Up(q, k))
         /\ Up(p, 0) = p
         /\ Up(p, k + 1) = Up(Up(p, k), 1)
<1>1. ASSUME NEW r \in SUBSET Nat, NEW i
      PROVE  i \in Up(r, k) <=> i \in Nat /\ i >= k /\ i - k \in r
  <2>1. i \in Up(r, k) => i \in Nat /\ i >= k /\ i - k \in r
    BY DEF Up
  <2>2. i \in Nat /\ i >= k /\ i - k \in r => i \in Up(r, k)
    BY DEF Up
  <2> QED
    BY <2>1, <2>2
<1>2. Xor(p, q) \in SUBSET Nat
  BY DEF Xor
<1>3. \A i : i \in Up(Xor(p, q), k) <=> i \in Xor(Up(p, k), Up(q, k))
  BY <1>1, <1>2 DEF Xor
<1>4. Up(Xor(p, q), k) = Xor(Up(p, k), Up(q, k))
  BY <1>3, Zenon
<1>5. Up(p, 0) = p
  <2>1. \A e \in p : e + 0 = e
    OBVIOUS
  <2>2. Up(p, 0) = {e : e \in p}
    BY <2>1 DEF Up
  <2> QED
    BY <2>2
<1>6. Up(p, k + 1) = Up(Up(p, k), 1)
  <2>1. \A e \in p : (e + k) + 1 = e + (k + 1)
    OBVIOUS
  <2> QED
    BY <2>1 DEF Up
<1> QED
  BY <1>4, <1>5, <1>6

LEMMA SumUp ==
  ASSUME NEW F, PowersOfX(F), NEW p \in Poly
  PROVE  Sum(Up(p, 1), F) = Times(Sum(p, F))
<1> DEFINE S == {r \in Poly : Sum(Up(r, 1), F) = Times(Sum(r, F))}
<1>1. F \in [Nat -> SUBSET Ones] /\ \A n \in Nat : F[n + 1] = Times(F[n])
  BY DEF PowersOfX
<1>2. {} \in S
  <2>1. {} \in Poly /\ Up({}, 1) = {}
    BY FS_EmptySet DEF Poly, Up
  <2>2. Times({}) = {}
    BY TimesLaws
  <2> QED
    BY <2>1, <2>2, SumEmpty
<1>3. ASSUME NEW r \in Poly, r \in S, NEW e \in Nat \ r
      PROVE  r \cup {e} \in S
  <2>1. r \cup {e} = Xor(r, {e}) /\ {e} \in Poly
    BY FS_Singleton DEF Xor, Poly
  <2>2. r \cup {e} \in Poly
    BY <2>1, XorPoly
  <2>3. Up(r \cup {e}, 1) = Up(r, 1) \cup {e + 1}
    BY DEF Up
  <2>4. e + 1 \in Nat \ Up(r, 1)
    BY DEF Up, Poly
  <2>5. Sum(Up(r, 1) \cup {e + 1}, F) = Xor(Sum(Up(r, 1), F), F[e + 1])
    <3>1. Up(r, 1) \in Poly
      BY UpPoly
    <3> QED
      BY <1>1, <2>4, <3>1, SumAdd
  <2>6. Sum(r \cup {e}, F) = Xor(Sum(r, F), F[e])
    BY <1>1, SumAdd
  <2>7. Sum(r, F) \in SUBSET Ones /\ F[e] \in SUBSET Ones /\ F[e + 1] = Times(F[e])
    BY <1>1 DEF Sum
  <2>8. Times(Xor(Sum(r, F), F[e])) = Xor(Times(Sum(r, F)), Times(F[e]))
    BY <2>7, TimesLaws
  <2> QED
    BY <1>3, <2>2, <2>3, <2>5, <2>6, <2>7, <2>8
<1> HIDE DEF S
<1>4. Poly \subseteq S
  BY <1>2, <1>3, PolyInduction
<1> QED
  BY <1>4 DEF S

(* A multiple of the generator has no remainder. *)
LEMMA SumOfMultiple ==
  ASSUME NEW F, PowersOfX(F), NEW p \in Poly, Sum(p, F) = {}, NEW k \in Nat
  PROVE  Sum(Up(p, k), F) = {}
<1> DEFINE S == {n \in Nat : Sum(Up(p, n), F) = {}}
<1>1. 0 \in S
  BY UpLaws DEF Poly
<1>2. ASSUME NEW n \in Nat, n \in S
      PROVE  n + 1 \in S
  <2>1. Up(p, n) \in Poly
    BY UpPoly
  <2>2. Up(p, n + 1) = Up(Up(p, n), 1)
    BY UpLaws DEF Poly
  <2>3. Sum(Up(Up(p, n), 1), F) = Times(Sum(Up(p, n), F))
    BY <2>1, SumUp
  <2>4. Times({}) = {}
    BY TimesLaws
  <2> QED
    BY <1>2, <2>2, <2>3, <2>4
<1> HIDE DEF S
<1>3. Nat \subseteq S
  BY <1>1, <1>2, Induction
<1> QED
  BY <1>3 DEF S

LEMMA SumOfGenerator ==
  ASSUME NEW F, PowersOfX(F)
  PROVE  Generator \in Poly /\ Sum(Generator, F) = {}
<1>1. Generator \in SUBSET (0..32) /\ Generator \in SUBSET Nat
  BY DEF Generator
<1>2. Generator \in Poly
  BY <1>1, BelowPoly
<1>3. Generator = Tail32 \cup {32} /\ 32 \notin Tail32
  BY DEF Tail32, Generator, Ones
<1>4. Tail32 \in SUBSET Ones
  BY DEF Tail32
<1>5. Tail32 \in Poly
  BY <1>4, BelowPoly DEF Ones
<1>6. Sum(Tail32, F) = Tail32 /\ F[32] = Tail32
  BY <1>4, FirstPowers, SumOfSmall
<1>7. Sum(Tail32 \cup {32}, F) = Xor(Sum(Tail32, F), F[32])
  <2>1. 32 \in Nat \ Tail32 /\ F[32] \in SUBSET Ones
    BY <1>3, <1>4, <1>6
  <2> QED
    BY <1>5, <2>1, SumAdd
<1> QED
  BY <1>2, <1>3, <1>6, <1>7, XorLaws

-----------------------------------------------------------------------------

(* The division takes multiples of the generator away.                      *)
LEMMA DividedIsRemainder ==
  ASSUME NEW F, PowersOfX(F), NEW p \in SUBSET (0..63)
  PROVE  Divided(p) = Sum(p, F)
<1> DEFINE Cleared(q, e) == IF e + 1 \in q THEN Xor(q, {g + e - 31 : g \in Generator}) ELSE q
           Eqn(r) == r = [e \in 31..63 |-> IF e = 63 THEN p ELSE Cleared(r[e + 1], e)]
           step == [x \in (SUBSET Nat) \X (1..32) |-> Cleared(x[1], 63 - x[2])]
<1>1. ASSUME NEW e \in 31..62
      PROVE  {g + e - 31 : g \in Generator} = Up(Generator, e - 31)
  <2>1. \A g \in Generator : g + e - 31 = g + (e - 31)
    BY DEF Generator
  <2> QED
    BY <2>1 DEF Up
<1>2. ASSUME NEW e \in 31..62, NEW q \in SUBSET Nat
      PROVE  Cleared(q, e) \in SUBSET Nat
  <2>1. Up(Generator, e - 31) \in SUBSET Nat
    BY DEF Up, Generator
  <2> QED
    BY <1>1, <2>1 DEF Xor
<1>3. step \in [(SUBSET Nat) \X (1..32) -> SUBSET Nat]
  <2>1. ASSUME NEW x \in (SUBSET Nat) \X (1..32)
        PROVE  Cleared(x[1], 63 - x[2]) \in SUBSET Nat
    <3>1. x[1] \in SUBSET Nat /\ 63 - x[2] \in 31..62
      OBVIOUS
    <3> HIDE DEF Cleared
    <3> QED
      BY <1>2, <3>1
  <2> HIDE DEF Cleared
  <2> QED
    BY <2>1
<1>4. PICK f : Loop(32, SUBSET Nat, p, step, f)
  <2>1. p \in SUBSET Nat /\ 32 \in Nat
    OBVIOUS
  <2> HIDE DEF step
  <2> QED
    BY <1>3, <2>1, LoopExists
<1>5. f \in [0..32 -> SUBSET Nat] /\ f[0] = p /\ \A a \in 1..32 : f[a] = step[<<f[a - 1], a>>]
  BY <1>4 DEF Loop
<1>6. ASSUME NEW a \in 1..32
      PROVE  f[a] = Cleared(f[a - 1], 63 - a)
  <2>1. a - 1 \in 0..32
    OBVIOUS
  <2>2. <<f[a - 1], a>> \in (SUBSET Nat) \X (1..32)
    BY <1>5, <2>1
  <2> HIDE DEF Cleared
  <2> QED
    BY <1>5, <2>2
<1> DEFINE d == [e \in 31..63 |-> f[63 - e]]
<1>7. Eqn(d)
  <2>1. ASSUME NEW e \in 31..62
        PROVE  d[e] = Cleared(d[e + 1], e)
    <3>1. 63 - e \in 1..32 /\ 63 - (63 - e) = e /\ (63 - e) - 1 = 63 - (e + 1) /\ e + 1 \in 31..63 /\ e \in 31..63
      OBVIOUS
    <3>2. d[e] = f[63 - e] /\ d[e + 1] = f[(63 - e) - 1]
      BY <3>1
    <3> HIDE DEF Cleared, d
    <3> QED
      BY <1>6, <3>1, <3>2
  <2>2. d[63] = p
    BY <1>5
  <2>3. d = [e \in 31..63 |-> d[e]]
    OBVIOUS
  <2>4. \A e \in 31..63 : d[e] = IF e = 63 THEN p ELSE Cleared(d[e + 1], e)
    <3> HIDE DEF Cleared, d
    <3> QED
      BY <2>1, <2>2
  <2> HIDE DEF Cleared, d
  <2> QED
    BY <2>3, <2>4
<1>8. PICK r : r = CHOOSE h : Eqn(h)
  OBVIOUS
<1>9. Eqn(r)
  <2> HIDE DEF Eqn
  <2> QED
    BY <1>7, <1>8, Zenon
<1>10. Divided(p) = r[31]
  BY <1>8 DEF Divided
<1>11. r[63] = p /\ \A e \in 31..62 : r[e] = Cleared(r[e + 1], e)
  <2> HIDE DEF Cleared
  <2> QED
    BY <1>9
<1> DEFINE S == {a \in Nat : a <= 32 => r[63 - a] \in SUBSET (0..63 - a) /\ Sum(r[63 - a], F) = Sum(p, F)}
<1>12. 0 \in S
  <2>1. 63 - 0 = 63
    OBVIOUS
  <2> QED
    BY <1>11, <2>1
<1>13. ASSUME NEW a \in Nat, a \in S
       PROVE  a + 1 \in S
  <2> SUFFICES ASSUME a + 1 <= 32
               PROVE  r[63 - (a + 1)] \in SUBSET (0..63 - (a + 1)) /\ Sum(r[63 - (a + 1)], F) = Sum(p, F)
    OBVIOUS
  <2>1. PICK e \in 31..62 : e = 63 - (a + 1) /\ e + 1 = 63 - a
    OBVIOUS
  <2>2. PICK q : q = r[e + 1]
    OBVIOUS
  <2>3. q \in SUBSET (0..e + 1) /\ Sum(q, F) = Sum(p, F)
    BY <1>13, <2>1, <2>2
  <2>4. r[e] = Cleared(q, e)
    <3> HIDE DEF Cleared
    <3> QED
      BY <1>11, <2>2
  <2>5. CASE e + 1 \notin q
    <3>1. r[e] = q
      BY <2>4, <2>5
    <3>2. q \in SUBSET (0..e)
      BY <2>3, <2>5
    <3> QED
      BY <2>1, <2>3, <3>1, <3>2
  <2>6. CASE e + 1 \in q
    <3>1. r[e] = Xor(q, Up(Generator, e - 31))
      BY <1>1, <2>4, <2>6
    <3>2. e + 1 \in Up(Generator, e - 31) /\ Up(Generator, e - 31) \in SUBSET (0..e + 1)
      BY DEF Up, Generator
    <3>3. r[e] \in SUBSET (0..e)
      <4>1. \A i \in r[e] : i \in 0..e + 1 /\ i # e + 1
        BY <2>3, <2>6, <3>1, <3>2 DEF Xor
      <4>2. \A i \in 0..e + 1 : i # e + 1 => i \in 0..e
        OBVIOUS
      <4> QED
        BY <4>1, <4>2
    <3>4. Sum(Up(Generator, e - 31), F) = {}
      <4>1. e - 31 \in Nat
        OBVIOUS
      <4> QED
        BY <4>1, SumOfGenerator, SumOfMultiple
    <3>5. q \in Poly /\ Up(Generator, e - 31) \in Poly
      <4>1. e + 1 \in Nat
        OBVIOUS
      <4> QED
        BY <2>3, <3>2, <4>1, BelowPoly
    <3>6. Sum(r[e], F) = Xor(Sum(q, F), {})
      BY <3>1, <3>4, <3>5, SumXor DEF PowersOfX
    <3>7. Sum(r[e], F) = Sum(q, F)
      BY <3>6, XorLaws
    <3> QED
      BY <2>1, <2>3, <3>3, <3>7
  <2> QED
    BY <2>5, <2>6
<1> HIDE DEF S
<1>14. Nat \subseteq S
  BY <1>12, <1>13, Induction
<1>15. r[31] \in SUBSET Ones /\ Sum(r[31], F) = Sum(p, F)
  <2>1. 32 \in S /\ 63 - 32 = 31
    BY <1>14
  <2> QED
    BY <2>1 DEF S, Ones
<1> QED
  BY <1>10, <1>15, SumOfSmall

-----------------------------------------------------------------------------

LEMMA SumOfOne ==
  ASSUME NEW F \in [Nat -> SUBSET Ones], NEW e \in Nat
  PROVE  {e} \in Poly /\ Sum({e}, F) = F[e]
<1>1. {} \in Poly /\ {e} \in Poly /\ {} \cup {e} = {e} /\ e \in Nat \ {}
  BY FS_EmptySet, FS_Singleton DEF Poly
<1>2. Sum({} \cup {e}, F) = Xor(Sum({}, F), F[e])
  BY <1>1, SumAdd
<1> QED
  BY <1>1, <1>2, SumEmpty, XorLaws

(* A sum of sums, and a sum of shifted words. *)
LEMMA SumPointwise ==
  ASSUME NEW F \in [Nat -> SUBSET Ones], NEW G \in [Nat -> SUBSET Ones], NEW p \in Poly
  PROVE  Sum(p, [e \in Nat |-> Xor(F[e], G[e])]) = Xor(Sum(p, F), Sum(p, G))
<1> DEFINE H == [e \in Nat |-> Xor(F[e], G[e])]
           S == {r \in Poly : Sum(r, H) = Xor(Sum(r, F), Sum(r, G))}
<1>1. H \in [Nat -> SUBSET Ones] /\ \A e \in Nat : H[e] = Xor(F[e], G[e])
  BY DEF Xor
<1> HIDE DEF H
<1>2. {} \in S
  <2>1. {} \in Poly
    BY FS_EmptySet DEF Poly
  <2>2. Sum({}, H) = {} /\ Sum({}, F) = {} /\ Sum({}, G) = {} /\ Xor({}, {}) = {}
    BY SumEmpty, XorLaws
  <2> QED
    BY <2>1, <2>2
<1>3. ASSUME NEW r \in Poly, r \in S, NEW e \in Nat \ r
      PROVE  r \cup {e} \in S
  <2>1. r \cup {e} \in Poly
    <3>1. r \cup {e} = Xor(r, {e}) /\ {e} \in Poly
      BY FS_Singleton DEF Xor, Poly
    <3> QED
      BY <3>1, XorPoly
  <2>2. /\ Sum(r \cup {e}, H) = Xor(Sum(r, H), H[e])
        /\ Sum(r \cup {e}, F) = Xor(Sum(r, F), F[e])
        /\ Sum(r \cup {e}, G) = Xor(Sum(r, G), G[e])
    BY <1>1, SumAdd
  <2>3. \A a, b, c, d : Xor(Xor(a, b), Xor(c, d)) = Xor(Xor(a, c), Xor(b, d))
    BY DEF Xor
  <2>4. Xor(Xor(Sum(r, F), Sum(r, G)), Xor(F[e], G[e])) = Xor(Xor(Sum(r, F), F[e]), Xor(Sum(r, G), G[e]))
    BY <2>3
  <2> QED
    BY <1>1, <1>3, <2>1, <2>2, <2>4
<1> HIDE DEF S
<1>4. Poly \subseteq S
  BY <1>2, <1>3, PolyInduction
<1> QED
  BY <1>4 DEF S, H

LEMMA SumShifted ==
  ASSUME NEW F \in [Nat -> SUBSET Ones], NEW k \in Nat, NEW p \in Poly
  PROVE  Sum(p, [e \in Nat |-> F[e + k]]) = Sum(Up(p, k), F)
<1> DEFINE H == [e \in Nat |-> F[e + k]]
           S == {r \in Poly : Sum(r, H) = Sum(Up(r, k), F)}
<1>1. H \in [Nat -> SUBSET Ones] /\ \A e \in Nat : H[e] = F[e + k]
  OBVIOUS
<1> HIDE DEF H
<1>2. {} \in S
  <2>1. {} \in Poly /\ Up({}, k) = {}
    BY FS_EmptySet DEF Poly, Up
  <2>2. Sum({}, H) = {} /\ Sum({}, F) = {}
    BY SumEmpty
  <2> QED
    BY <2>1, <2>2
<1>3. ASSUME NEW r \in Poly, r \in S, NEW e \in Nat \ r
      PROVE  r \cup {e} \in S
  <2>1. r \cup {e} \in Poly
    <3>1. r \cup {e} = Xor(r, {e}) /\ {e} \in Poly
      BY FS_Singleton DEF Xor, Poly
    <3> QED
      BY <3>1, XorPoly
  <2>2. Up(r \cup {e}, k) = Up(r, k) \cup {e + k}
    BY DEF Up
  <2>3. e + k \in Nat \ Up(r, k)
    BY DEF Up, Poly
  <2>4. Sum(r \cup {e}, H) = Xor(Sum(r, H), H[e])
    BY <1>1, SumAdd
  <2>5. Sum(Up(r, k) \cup {e + k}, F) = Xor(Sum(Up(r, k), F), F[e + k])
    <3>1. Up(r, k) \in Poly
      BY UpPoly
    <3> QED
      BY <2>3, <3>1, SumAdd
  <2> QED
    BY <1>1, <1>3, <2>1, <2>2, <2>4, <2>5
<1> HIDE DEF S
<1>4. Poly \subseteq S
  BY <1>2, <1>3, PolyInduction
<1> QED
  BY <1>4 DEF S, H

(* The square of p: the products of two different powers cancel. *)
LEMMA SumOfDoubled ==
  ASSUME NEW F \in [Nat -> SUBSET Ones], NEW p \in Poly
  PROVE  Doubled(p) \in Poly /\ Sum(Doubled(p), F) = Sum(p, [g \in Nat |-> Sum(Up(p, g), F)])
<1> DEFINE Times_(q) == [g \in Nat |-> Sum(Up(q, g), F)]
           S == {r \in Poly : Doubled(r) \in Poly /\ Sum(Doubled(r), F) = Sum(r, Times_(r))}
<1>1. {} \in S
  <2>1. {} \in Poly /\ Doubled({}) = {}
    BY FS_EmptySet DEF Poly, Doubled
  <2>2. Sum({}, Times_({})) = {} /\ Sum({}, F) = {}
    BY SumEmpty
  <2> HIDE DEF Times_
  <2> QED
    BY <2>1, <2>2
<1>2. ASSUME NEW r \in Poly, r \in S, NEW e \in Nat \ r
      PROVE  r \cup {e} \in S
  <2> DEFINE G == Times_(r)
             H == [g \in Nat |-> F[g + e]]
             GH == [g \in Nat |-> Xor(G[g], H[g])]
  <2>1. r \cup {e} \in Poly
    <3>1. r \cup {e} = Xor(r, {e}) /\ {e} \in Poly
      BY FS_Singleton DEF Xor, Poly
    <3> QED
      BY <3>1, XorPoly
  <2>2. Doubled(r) \in Poly /\ Sum(Doubled(r), F) = Sum(r, G)
    BY <1>2
  <2>3. Doubled(r \cup {e}) = Doubled(r) \cup {2 * e} /\ 2 * e \in Nat \ Doubled(r)
    BY DEF Doubled, Poly
  <2>4. Doubled(r \cup {e}) \in Poly
    <3>1. Doubled(r) \cup {2 * e} = Xor(Doubled(r), {2 * e})
      BY <2>3 DEF Xor
    <3>2. {2 * e} \in Poly
      <4>1. 2 * e \in Nat
        OBVIOUS
      <4> QED
        BY <4>1, SumOfOne
    <3> QED
      BY <2>2, <2>3, <3>1, <3>2, XorPoly
  <2>5. Sum(Doubled(r \cup {e}), F) = Xor(Sum(r, G), F[2 * e])
    <3>1. F[2 * e] \in SUBSET Ones
      OBVIOUS
    <3> HIDE DEF G
    <3>2. Sum(Doubled(r) \cup {2 * e}, F) = Xor(Sum(Doubled(r), F), F[2 * e])
      BY <2>2, <2>3, <3>1, SumAdd
    <3> QED
      BY <2>2, <2>3, <3>2
  <2>6. Times_(r \cup {e}) = GH
    <3>1. ASSUME NEW g \in Nat
          PROVE  Sum(Up(r \cup {e}, g), F) = Xor(G[g], H[g])
      <4>1. Up(r \cup {e}, g) = Up(r, g) \cup {e + g} /\ e + g = g + e
        BY DEF Up
      <4>2. e + g \in Nat \ Up(r, g)
        BY DEF Up, Poly
      <4>3. Up(r, g) \in Poly
        BY UpPoly
      <4>4. Sum(Up(r, g) \cup {e + g}, F) = Xor(Sum(Up(r, g), F), F[e + g])
        BY <4>2, <4>3, SumAdd
      <4> QED
        BY <4>1, <4>4
    <3> HIDE DEF G, H
    <3> QED
      BY <3>1
  <2>7. G \in [Nat -> SUBSET Ones] /\ H \in [Nat -> SUBSET Ones] /\ GH \in [Nat -> SUBSET Ones]
    BY DEF Sum, Xor
  <2>8. H[e] = F[2 * e] /\ G[e] = Sum(Up(r, e), F) /\ GH[e] = Xor(G[e], H[e])
    <3>1. e + e = 2 * e
      OBVIOUS
    <3> QED
      BY <3>1
  <2>9. Sum(r, H) = Sum(Up(r, e), F)
    BY SumShifted
  <2> HIDE DEF G, H
  <2>10. Sum(r, GH) = Xor(Sum(r, G), Sum(r, H))
    BY <2>7, SumPointwise
  <2>11. Sum(r \cup {e}, GH) = Xor(Sum(r, GH), GH[e])
    BY <2>7, SumAdd
  <2>12. \A a, b, c : Xor(Xor(a, b), Xor(b, c)) = Xor(a, c)
    BY DEF Xor
  <2>13. Xor(Xor(Sum(r, G), Sum(r, H)), Xor(Sum(r, H), H[e])) = Xor(Sum(r, G), H[e])
    BY <2>12
  <2>14. Sum(r \cup {e}, GH) = Sum(Doubled(r \cup {e}), F)
    BY <2>5, <2>8, <2>9, <2>10, <2>11, <2>13
  <2> HIDE DEF GH, Times_
  <2>15. Sum(Doubled(r \cup {e}), F) = Sum(r \cup {e}, Times_(r \cup {e}))
    BY <2>6, <2>14
  <2> QED
    BY <2>1, <2>4, <2>15
<1> HIDE DEF S
<1>3. Poly \subseteq S
  BY <1>1, <1>2, PolyInduction
<1> QED
  BY <1>3 DEF S

(* Squares of what has the same remainder have the same remainder. *)
LEMMA SquareOfPower ==
  ASSUME NEW F, PowersOfX(F), NEW k \in Nat
  PROVE  Doubled(F[k]) \in Poly /\ Sum(Doubled(F[k]), F) = F[2 * k]
<1>1. F \in [Nat -> SUBSET Ones] /\ F[k] \in SUBSET Ones
  BY DEF PowersOfX
<1>2. F[k] \in Poly /\ {k} \in Poly /\ Xor({k}, F[k]) \in Poly
  BY <1>1, BelowPoly, SumOfOne, XorPoly DEF Ones
<1>3. Sum(Xor({k}, F[k]), F) = {}
  <2>1. Sum({k}, F) = F[k] /\ Sum(F[k], F) = F[k]
    BY <1>1, SumOfOne, SumOfSmall
  <2> QED
    BY <1>1, <1>2, <2>1, SumXor, XorLaws
<1> DEFINE p == Xor({k}, F[k])
           G == [g \in Nat |-> Sum(Up(p, g), F)]
<1>4. Sum(Doubled(p), F) = {}
  <2>1. Sum(Doubled(p), F) = Sum(p, G)
    BY <1>1, <1>2, SumOfDoubled
  <2>2. \A g \in Nat : G[g] = {}
    BY <1>2, <1>3, SumOfMultiple
  <2>3. \A i : {g \in p : i \in G[g]} = {}
    <3> HIDE DEF G
    <3>1. p \subseteq Nat
      BY <1>2 DEF Poly
    <3> HIDE DEF p
    <3> QED
      BY <2>2, <3>1
  <2>4. ~Odd({})
    BY FS_EmptySet DEF Odd
  <2> HIDE DEF p, G
  <2>5. Sum(p, G) = {}
    BY <2>3, <2>4 DEF Sum
  <2> QED
    BY <2>1, <2>5
<1>5. Doubled(p) = Xor({2 * k}, Doubled(F[k]))
  <2>1. F[k] \subseteq Nat
    BY <1>1 DEF Ones
  <2> QED
    BY <2>1 DEF Doubled, Xor
<1>6. Doubled(F[k]) \in Poly /\ {2 * k} \in Poly /\ Sum({2 * k}, F) = F[2 * k]
  <2>1. 2 * k \in Nat
    OBVIOUS
  <2>2. Doubled(F[k]) \in Poly
    BY <1>1, <1>2, SumOfDoubled
  <2> QED
    BY <1>1, <2>1, <2>2, SumOfOne
<1>7. Xor(F[2 * k], Sum(Doubled(F[k]), F)) = {}
  BY <1>1, <1>4, <1>5, <1>6, SumXor
<1> QED
  BY <1>6, <1>7, XorLaws

(* The powers by squaring are the powers. *)
LEMMA PowerIsPower ==
  ASSUME NEW F, PowersOfX(F)
  PROVE  Power = F
<1> DEFINE Next_(f, e) == IF e < 32 THEN {e} ELSE Divided({2 * i + (e % 2) : i \in f[e \div 2]})
           Eqn(f) == f = [e \in Nat |-> Next_(f, e)]
<1>1. F \in [Nat -> SUBSET Ones]
  BY DEF PowersOfX
<1>2. ASSUME NEW e \in Nat
      PROVE  F[e] = Next_(F, e)
  <2>1. CASE e < 32
    BY <2>1, FirstPowers
  <2>2. CASE ~(e < 32)
    <3>1. PICK k \in Nat : k = e \div 2
      OBVIOUS
    <3>2. PICK b \in {0, 1} : b = e % 2
      OBVIOUS
    <3>3. 2 * k + b = e
      BY <3>1, <3>2
    <3>4. {2 * i + (e % 2) : i \in F[e \div 2]} = Up(Doubled(F[k]), b)
      BY <3>1, <3>2 DEF Up, Doubled
    <3>5. Up(Doubled(F[k]), b) \in SUBSET (0..63)
      <4>1. F[k] \in SUBSET Ones
        BY <1>1
      <4> QED
        BY <4>1 DEF Up, Doubled, Ones
    <3>6. Next_(F, e) = Sum(Up(Doubled(F[k]), b), F)
      BY <2>2, <3>4, <3>5, DividedIsRemainder
    <3>7. Doubled(F[k]) \in Poly /\ Sum(Doubled(F[k]), F) = F[2 * k]
      BY SquareOfPower
    <3>8. CASE b = 0
      <4>1. Up(Doubled(F[k]), 0) = Doubled(F[k])
        BY <3>7, UpLaws DEF Poly
      <4>2. 2 * k = e
        BY <3>3, <3>8
      <4> HIDE DEF Next_
      <4> QED
        BY <3>6, <3>7, <3>8, <4>1, <4>2
    <3>9. CASE b = 1
      <4>1. Sum(Up(Doubled(F[k]), 1), F) = Times(F[2 * k])
        BY <3>7, SumUp
      <4>2. F[2 * k + 1] = Times(F[2 * k])
        BY DEF PowersOfX
      <4>3. 2 * k + 1 = e
        BY <3>3, <3>9
      <4> HIDE DEF Next_
      <4> QED
        BY <3>6, <3>9, <4>1, <4>2, <4>3
    <3> QED
      BY <3>8, <3>9
  <2> QED
    BY <2>1, <2>2
<1>3. Eqn(F)
  <2>1. F = [e \in Nat |-> F[e]]
    BY <1>1
  <2> HIDE DEF Next_
  <2> QED
    BY <1>2, <2>1
<1>4. Power = CHOOSE f : Eqn(f)
  BY DEF Power
<1>5. PICK P : P = Power
  OBVIOUS
<1>6. Eqn(P)
  <2> HIDE DEF Eqn
  <2> QED
    BY <1>3, <1>4, <1>5, Zenon
<1>7. \A e \in Nat : P[e] = Next_(P, e)
  <2> HIDE DEF Next_
  <2> QED
    BY <1>6
<1> DEFINE S == {n \in Nat : \A e \in 0..n : P[e] = F[e]}
<1>8. 0 \in S
  <2>1. Next_(P, 0) = {0} /\ Next_(F, 0) = {0}
    OBVIOUS
  <2>2. P[0] = Next_(P, 0) /\ F[0] = Next_(F, 0)
    <3> HIDE DEF Next_
    <3> QED
      BY <1>2, <1>7
  <2>3. \A e \in 0..0 : e = 0
    OBVIOUS
  <2> HIDE DEF Next_
  <2> QED
    BY <2>1, <2>2, <2>3
<1>9. ASSUME NEW n \in Nat, n \in S
      PROVE  n + 1 \in S
  <2>1. Next_(P, n + 1) = Next_(F, n + 1)
    <3>1. CASE n + 1 < 32
      BY <3>1
    <3>2. CASE ~(n + 1 < 32)
      <4>1. (n + 1) \div 2 \in 0..n
        BY <3>2
      <4>2. P[(n + 1) \div 2] = F[(n + 1) \div 2]
        BY <1>9, <4>1
      <4> QED
        BY <4>2
    <3> QED
      BY <3>1, <3>2
  <2>2. P[n + 1] = F[n + 1]
    <3> HIDE DEF Next_
    <3> QED
      BY <1>2, <1>7, <2>1
  <2>3. \A e \in 0..n + 1 : e \in 0..n \/ e = n + 1
    OBVIOUS
  <2> HIDE DEF Next_
  <2> QED
    BY <1>9, <2>2, <2>3
<1> HIDE DEF S
<1>10. Nat \subseteq S
  BY <1>8, <1>9, Induction
<1>11. \A e \in Nat : P[e] = F[e]
  BY <1>10 DEF S
<1>12. P = [e \in Nat |-> P[e]]
  <2> HIDE DEF Next_
  <2> QED
    BY <1>6
<1> QED
  BY <1>1, <1>5, <1>11, <1>12

-----------------------------------------------------------------------------

(* A word of the program has the coefficient of x^31 as its lowest bit.     *)
Mirror(w) == {31 - e : e \in w}

LEMMA MirrorBits ==
  ASSUME NEW w \in SUBSET Ones
  PROVE  Mirror(w) \in SUBSET Ones /\ \A i \in Ones : i \in Mirror(w) <=> 31 - i \in w
<1>1. Mirror(w) \in SUBSET Ones
  BY DEF Mirror, Ones
<1>2. ASSUME NEW i \in Ones
      PROVE  i \in Mirror(w) <=> 31 - i \in w
  <2>1. i \in Mirror(w) => 31 - i \in w
    BY DEF Mirror, Ones
  <2>2. 31 - i \in w => i \in Mirror(w)
    <3>1. 31 - (31 - i) = i
      BY DEF Ones
    <3> QED
      BY <3>1 DEF Mirror
  <2> QED
    BY <2>1, <2>2
<1> QED
  BY <1>1, <1>2

LEMMA MirrorXor ==
  ASSUME NEW v \in SUBSET Ones, NEW w \in SUBSET Ones
  PROVE  Mirror(Xor(v, w)) = Xor(Mirror(v), Mirror(w))
<1>1. Xor(v, w) \in SUBSET Ones
  BY DEF Xor
<1>2. \A i \in Ones : i \in Mirror(Xor(v, w)) <=> i \in Xor(Mirror(v), Mirror(w))
  BY <1>1, MirrorBits DEF Xor
<1>3. Mirror(Xor(v, w)) \subseteq Ones /\ Xor(Mirror(v), Mirror(w)) \subseteq Ones
  BY <1>1, MirrorBits DEF Xor
<1>4. \A i : i \in Mirror(Xor(v, w)) <=> i \in Xor(Mirror(v), Mirror(w))
  BY <1>2, <1>3
<1> QED
  BY <1>4, Zenon

(* CRC_POLY_32 is the generator in this order: a round multiplies by x.     *)
LEMMA RoundIsTimes ==
  ASSUME NEW w \in SUBSET Ones
  PROVE  Round(Mirror(w)) = Mirror(Times(w))
<1>1. \A i \in 0..30 : i \in CRC_POLY_32 <=> 31 - i \in Generator
  BY DEF CRC_POLY_32, Generator
<1>2. PICK m \in SUBSET Ones : m = Mirror(w)
  BY MirrorBits
<1>3. \A i \in 0..31 : i \in m <=> 31 - i \in w
  BY <1>2, MirrorBits DEF Ones
<1>4. Times(w) \in SUBSET Ones
  BY DEF Times
<1>5. ASSUME NEW i \in 0..30
      PROVE  i \in Round(m) <=> i \in Mirror(Times(w))
  <2>1. PICK k \in 1..31 : k = 31 - i
    OBVIOUS
  <2>2. i \in Mirror(Times(w)) <=> k \in Times(w)
    BY <1>4, <2>1, MirrorBits DEF Ones
  <2>3. k \in Times(w) <=> ~(k - 1 \in w <=> (31 \in w /\ k \in Generator))
    BY DEF Times, Ones
  <2>4. i + 1 \in m <=> k - 1 \in w
    <3>1. i + 1 \in 0..31 /\ 31 - (i + 1) = k - 1
      BY <2>1
    <3> QED
      BY <1>3, <3>1
  <2>5. 0 \in m <=> 31 \in w
    <3>1. 0 \in 0..31 /\ 31 - 0 = 31
      OBVIOUS
    <3> QED
      BY <1>3, <3>1
  <2>6. i \in CRC_POLY_32 <=> k \in Generator
    BY <1>1, <2>1
  <2>7. i \in Round(m) <=> IF 0 \in m THEN ~(i + 1 \in m <=> i \in CRC_POLY_32) ELSE i + 1 \in m
    BY RoundBits
  <2> QED
    BY <2>2, <2>3, <2>4, <2>5, <2>6, <2>7
<1>6. 31 \in Round(m) <=> 31 \in Mirror(Times(w))
  <2>1. 31 \in Mirror(Times(w)) <=> 0 \in Times(w)
    <3>1. 31 \in Ones /\ 31 - 31 = 0
      BY DEF Ones
    <3> QED
      BY <1>4, <3>1, MirrorBits
  <2>2. 0 \in Times(w) <=> 31 \in w
    BY DEF Times, Ones, Generator
  <2>3. 0 \in m <=> 31 \in w
    <3>1. 0 \in 0..31 /\ 31 - 0 = 31
      OBVIOUS
    <3> QED
      BY <1>3, <3>1
  <2> QED
    BY <2>1, <2>2, <2>3, RoundBits
<1>7. Round(m) \subseteq 0..31 /\ Mirror(Times(w)) \subseteq 0..31
  BY <1>4, RoundBits, MirrorBits DEF Ones
<1>8. \A i \in 0..31 : i \in 0..30 \/ i = 31
  OBVIOUS
<1>9. \A i : i \in Round(m) <=> i \in Mirror(Times(w))
  BY <1>5, <1>6, <1>7, <1>8
<1> QED
  BY <1>2, <1>9, Zenon

(* A byte at once by the table is eight rounds: what is above the lowest    *)
(* byte only moves down.                                                    *)
LEMMA EightRounds ==
  ASSUME NEW x \in SUBSET Ones, NEW c \in Byte, NEW r, Rounds(r), r[0] = Xor(x, BitsOf[c])
  PROVE  r[8] = update_crc_32(x, c)
<1>1. BitsOf[c] \in SUBSET (0..7)
  BY Bits
<1>2. Index(x, c) \in SUBSET LowByte
  BY DEF Index
<1>3. PICK t : Rounds(t) /\ t[0] = Index(x, c) /\ crc_tab32[Index(x, c)] = t[8]
  BY <1>2, TableEntry
<1> DEFINE above(i) == i >= 8 /\ i \in x
           S == {j \in Nat : j <= 8 => \A i \in 0..31 : i \in r[j] <=> ~(i \in t[j] <=> above(i + j))}
<1>4. 0 \in S
  <2>1. ASSUME NEW i \in 0..31
        PROVE  i \in r[0] <=> ~(i \in t[0] <=> above(i + 0))
    <3>1. i + 0 = i
      OBVIOUS
    <3>2. i \in t[0] <=> i <= 7 /\ i \in Xor(x, BitsOf[c])
      BY <1>3 DEF Index, LowByte
    <3>3. CASE i <= 7
      BY <3>1, <3>2, <3>3
    <3>4. CASE ~(i <= 7)
      <4>1. i \notin BitsOf[c]
        BY <1>1, <3>4
      <4>2. i \in r[0] <=> i \in x
        BY <4>1 DEF Xor
      <4> QED
        BY <3>1, <3>2, <3>4, <4>2
    <3> QED
      BY <3>3, <3>4
  <2> QED
    BY <2>1
<1>5. ASSUME NEW j \in Nat, j \in S
      PROVE  j + 1 \in S
  <2> SUFFICES ASSUME j + 1 <= 8, NEW i \in 0..31
               PROVE  i \in r[j + 1] <=> ~(i \in t[j + 1] <=> above(i + (j + 1)))
    OBVIOUS
  <2>1. j \in 0..8 /\ j + 1 \in 1..8 /\ (j + 1) - 1 = j
    OBVIOUS
  <2>2. /\ r[j] \in SUBSET Ones /\ r[j + 1] = Round(r[j])
        /\ t[j] \in SUBSET Ones /\ t[j + 1] = Round(t[j])
    BY <1>3, <2>1 DEF Rounds
  <2>3. \A k \in 0..31 : k \in r[j] <=> ~(k \in t[j] <=> above(k + j))
    BY <1>5
  <2>4. 0 \in r[j] <=> 0 \in t[j]
    <3>1. 0 \in 0..31 /\ ~above(0 + j)
      OBVIOUS
    <3> HIDE DEF above
    <3> QED
      BY <2>3, <3>1
  <2>5. CASE i = 31
    <3>1. ~above(i + (j + 1))
      BY <2>5 DEF Ones
    <3> HIDE DEF above
    <3> QED
      BY <2>2, <2>4, <2>5, <3>1, RoundBits
  <2>6. CASE i # 31
    <3>1. i \in 0..30 /\ i + 1 \in 0..31 /\ (i + 1) + j = i + (j + 1)
      BY <2>6
    <3>2. i + 1 \in r[j] <=> ~(i + 1 \in t[j] <=> above(i + (j + 1)))
      BY <2>3, <3>1
    <3> HIDE DEF above
    <3>3. i \in r[j + 1] <=> IF 0 \in r[j] THEN ~(i + 1 \in r[j] <=> i \in CRC_POLY_32) ELSE i + 1 \in r[j]
      BY <2>2, <3>1, RoundBits
    <3>4. i \in t[j + 1] <=> IF 0 \in t[j] THEN ~(i + 1 \in t[j] <=> i \in CRC_POLY_32) ELSE i + 1 \in t[j]
      BY <2>2, <3>1, RoundBits
    <3> QED
      BY <2>4, <3>2, <3>3, <3>4
  <2> QED
    BY <2>5, <2>6
<1> HIDE DEF S
<1>6. Nat \subseteq S
  BY <1>4, <1>5, Induction
<1>7. \A i \in 0..31 : i \in r[8] <=> ~(i \in t[8] <=> above(i + 8))
  <2>1. 8 \in S /\ 8 <= 8
    BY <1>6
  <2> QED
    BY <2>1 DEF S
<1> DEFINE u == update_crc_32(x, c)
<1>8. \A i \in 0..31 : i \in r[8] <=> i \in u
  <2> TAKE i \in 0..31
  <2>1. CASE i <= 23
    <3>1. i \in 0..23 /\ above(i + 8) <=> i + 8 \in x
      BY <2>1
    <3>2. i \in u <=> ~(i + 8 \in x <=> i \in t[8])
      BY <1>3, <2>1, UpdateBits
    <3> HIDE DEF u
    <3> QED
      BY <1>7, <2>1, <3>1, <3>2
  <2>2. CASE ~(i <= 23)
    <3>1. ~above(i + 8)
      BY <2>2 DEF Ones
    <3>2. i \in u <=> i \in t[8]
      BY <1>3, <2>2, UpdateBits
    <3> HIDE DEF u, above
    <3> QED
      BY <1>7, <3>1, <3>2
  <2> QED
    BY <2>1, <2>2
<1>9. r[8] \subseteq 0..31 /\ u \subseteq 0..31
  <2>1. r[8] \subseteq 0..31
    <3>1. 8 \in 0..8
      OBVIOUS
    <3> QED
      BY <3>1 DEF Rounds, Ones
  <2>2. u \subseteq 0..31
    BY UpdateBits DEF Ones
  <2> QED
    BY <2>1, <2>2
<1>10. \A i : i \in r[8] <=> i \in u
  BY <1>8, <1>9
<1> QED
  BY <1>10, Zenon

(* The dividend without the factor x^32, which is in its exponents already. *)
Coefficients(s, n) == Xor(Message(s, n), {8 * n + i : i \in Ones})

LEMMA MessageMore ==
  ASSUME NEW n \in Nat, NEW s, \A a \in 0..n : s[a] \in Byte
  PROVE  /\ Message(s, n) \in SUBSET (32..8 * n + 31)
         /\ Message(s, n + 1) = Up(Xor(Message(s, n), Mirror(BitsOf[s[n]])), 8)
<1> DEFINE part(k, a) == {8 * k + 31 - (8 * a + j) : j \in BitsOf[s[a]]}
<1>1. \A a \in 0..n : BitsOf[s[a]] \subseteq 0..7
  BY Bits
<1>2. \A k : Message(s, k) = UNION {part(k, a) : a \in 0..k - 1}
  BY DEF Message
<1>3. ASSUME NEW a \in 0..n - 1
      PROVE  part(n, a) \subseteq 32..8 * n + 31 /\ Up(part(n, a), 8) = part(n + 1, a)
  <2>1. \A j \in BitsOf[s[a]] : j \in 0..7
    BY <1>1
  <2>2. part(n, a) \subseteq 32..8 * n + 31
    BY <2>1
  <2>3. \A j \in BitsOf[s[a]] : (8 * n + 31 - (8 * a + j)) + 8 = 8 * (n + 1) + 31 - (8 * a + j)
    BY <2>1
  <2>4. Up(part(n, a), 8) = part(n + 1, a)
    BY <2>3 DEF Up
  <2> QED
    BY <2>2, <2>4
<1>4. Up(Mirror(BitsOf[s[n]]), 8) = part(n + 1, n) /\ Mirror(BitsOf[s[n]]) \subseteq 24..31
  <2>1. \A j \in BitsOf[s[n]] : j \in 0..7
    BY <1>1
  <2>2. \A j \in BitsOf[s[n]] : (31 - j) + 8 = 8 * (n + 1) + 31 - (8 * n + j)
    BY <2>1
  <2>3. Up(Mirror(BitsOf[s[n]]), 8) = {(31 - j) + 8 : j \in BitsOf[s[n]]}
    BY DEF Up, Mirror
  <2>4. {(31 - j) + 8 : j \in BitsOf[s[n]]} = part(n + 1, n)
    BY <2>2
  <2>5. Mirror(BitsOf[s[n]]) \subseteq 24..31
    BY <2>1 DEF Mirror
  <2> QED
    BY <2>3, <2>4, <2>5
<1> HIDE DEF part
<1>5. Message(s, n) \subseteq 32..8 * n + 31
  BY <1>2, <1>3
<1>6. Xor(Message(s, n), Mirror(BitsOf[s[n]])) = Message(s, n) \cup Mirror(BitsOf[s[n]])
  <2>1. \A i : ~(i \in 32..8 * n + 31 /\ i \in 24..31)
    OBVIOUS
  <2> QED
    BY <1>4, <1>5, <2>1 DEF Xor
<1>7. Up(Message(s, n) \cup Mirror(BitsOf[s[n]]), 8) = Up(Message(s, n), 8) \cup Up(Mirror(BitsOf[s[n]]), 8)
  BY DEF Up
<1> DEFINE old == UNION {part(n + 1, a) : a \in 0..n - 1}
<1>8. Up(Message(s, n), 8) = old
  <2>1. Up(Message(s, n), 8) = UNION {Up(part(n, a), 8) : a \in 0..n - 1}
    BY <1>2 DEF Up
  <2>2. {Up(part(n, a), 8) : a \in 0..n - 1} = {part(n + 1, a) : a \in 0..n - 1}
    BY <1>3
  <2> QED
    BY <2>1, <2>2
<1>9. Message(s, n + 1) = old \cup part(n + 1, n)
  <2> DEFINE all == UNION {part(n + 1, a) : a \in (0..n - 1) \cup {n}}
  <2>1. Message(s, n + 1) = all
    <3>1. 0..(n + 1) - 1 = (0..n - 1) \cup {n}
      OBVIOUS
    <3> QED
      BY <1>2, <3>1
  <2>2. old \subseteq all /\ part(n + 1, n) \subseteq all
    OBVIOUS
  <2>3. ASSUME NEW i \in all
        PROVE  i \in old \/ i \in part(n + 1, n)
    <3>1. PICK a \in (0..n - 1) \cup {n} : i \in part(n + 1, a)
      OBVIOUS
    <3> QED
      BY <3>1
  <2> HIDE DEF all, old
  <2> QED
    BY <2>1, <2>2, <2>3
<1> HIDE DEF old
<1>10. Message(s, n + 1) = Up(Xor(Message(s, n), Mirror(BitsOf[s[n]])), 8)
  <2>1. PICK M, B : M = Message(s, n) /\ B = Mirror(BitsOf[s[n]])
    OBVIOUS
  <2>2. Message(s, n + 1) = Up(M, 8) \cup Up(B, 8)
    BY <1>4, <1>8, <1>9, <2>1
  <2>3. Up(M, 8) \cup Up(B, 8) = Up(M \cup B, 8)
    BY <1>7, <2>1
  <2>4. M \cup B = Xor(M, B)
    BY <1>6, <2>1
  <2> QED
    BY <2>1, <2>2, <2>3, <2>4
<1> QED
  BY <1>5, <1>10

LEMMA CoefficientsMore ==
  ASSUME NEW n \in Nat, NEW s, \A a \in 0..n : s[a] \in Byte
  PROVE  /\ Coefficients(s, n) \in Poly
         /\ Coefficients(s, n + 1) = Up(Xor(Coefficients(s, n), Mirror(BitsOf[s[n]])), 8)
<1> DEFINE top(k) == {8 * k + i : i \in Ones}
           m == Message(s, n)
           b == Mirror(BitsOf[s[n]])
<1>1. m \in SUBSET (0..8 * n + 31) /\ top(n) \in SUBSET (0..8 * n + 31) /\ 8 * n + 31 \in Nat
  <2>1. m \in SUBSET (32..8 * n + 31)
    BY MessageMore
  <2> HIDE DEF m
  <2> QED
    BY <2>1 DEF Ones
<1>2. b \in SUBSET Nat
  BY Bits DEF Mirror
<1>3. top(n + 1) = Up(top(n), 8)
  <2>1. \A i \in Ones : (8 * n + i) + 8 = 8 * (n + 1) + i
    BY DEF Ones
  <2> QED
    BY <2>1 DEF Up
<1>4. Message(s, n + 1) = Up(Xor(m, b), 8)
  BY MessageMore
<1>5. \A k : Coefficients(s, k) = Xor(Message(s, k), top(k))
  BY DEF Coefficients
<1> HIDE DEF top, b, m
<1>6. Xor(m, top(n)) \in Poly
  BY <1>1, BelowPoly, XorPoly
<1>7. Xor(m, b) \in SUBSET Nat /\ top(n) \in SUBSET Nat
  BY <1>1, <1>2 DEF Xor
<1>8. Xor(Up(Xor(m, b), 8), Up(top(n), 8)) = Up(Xor(Xor(m, b), top(n)), 8)
  <2>1. PICK p \in SUBSET Nat : p = Xor(m, b)
    BY <1>7
  <2>2. PICK q \in SUBSET Nat : q = top(n)
    BY <1>7
  <2>3. \A k \in Nat : Up(Xor(p, q), k) = Xor(Up(p, k), Up(q, k))
    BY UpLaws
  <2> QED
    BY <2>1, <2>2, <2>3
<1>9. Xor(Xor(m, b), top(n)) = Xor(Xor(m, top(n)), b)
  BY XorLaws
<1> QED
  BY <1>3, <1>4, <1>5, <1>6, <1>8, <1>9 DEF m, b

(* The checksum after each byte is the remainder of what has been read.     *)
LEMMA RunIsRemainder ==
  ASSUME NEW n \in Nat, NEW s, \A a \in 0..n - 1 : s[a] \in Byte,
         NEW f, Run(s, n, f), NEW F, PowersOfX(F)
  PROVE  \A a \in 0..n : f[a] = Mirror(Sum(Coefficients(s, a), F))
<1> DEFINE S == {a \in Nat : a <= n => f[a] = Mirror(Sum(Coefficients(s, a), F))}
<1>1. 0 \in S
  <2>1. Coefficients(s, 0) = Ones
    <3>1. Message(s, 0) = {}
      BY DEF Message
    <3>2. {8 * 0 + i : i \in Ones} = Ones
      BY DEF Ones
    <3> QED
      BY <3>1, <3>2, XorLaws DEF Coefficients
  <2>2. Sum(Ones, F) = Ones
    BY SumOfSmall
  <2>3. Mirror(Ones) = Ones
    <3>1. \A i \in Ones : 31 - i \in Ones
      BY DEF Ones
    <3>2. \A i : i \in Mirror(Ones) <=> i \in Ones
      BY <3>1, MirrorBits
    <3> QED
      BY <3>2, Zenon
  <2> QED
    BY <2>1, <2>2, <2>3 DEF Run, CRC_START_32
<1>2. ASSUME NEW a \in Nat, a \in S
      PROVE  a + 1 \in S
  <2> SUFFICES ASSUME a + 1 <= n PROVE f[a + 1] = Mirror(Sum(Coefficients(s, a + 1), F))
    OBVIOUS
  <2>1. a \in 0..n - 1 /\ s[a] \in Byte /\ \A k \in 0..a : s[k] \in Byte
    OBVIOUS
  <2>2. f[a] \in SUBSET Ones /\ f[a + 1] = update_crc_32(f[a], s[a])
    BY <2>1, RunTyped
  <2>3. f[a] = Mirror(Sum(Coefficients(s, a), F))
    BY <1>2
  <2> DEFINE p == Coefficients(s, a)
             b == Mirror(BitsOf[s[a]])
             q == Xor(p, b)
             r == [j \in 0..8 |-> Mirror(Sum(Up(q, j), F))]
  <2>4. p \in Poly /\ Coefficients(s, a + 1) = Up(q, 8)
    BY <2>1, CoefficientsMore
  <2>5. BitsOf[s[a]] \in SUBSET Ones /\ b \in SUBSET Ones
    <3>1. BitsOf[s[a]] \in SUBSET (0..7)
      BY <2>1, Bits
    <3>2. BitsOf[s[a]] \in SUBSET Ones
      BY <3>1 DEF Ones
    <3> QED
      BY <3>2, MirrorBits
  <2>6. b \in Poly /\ q \in Poly
    <3> HIDE DEF p, b
    <3>1. b \in Poly
      BY <2>5, BelowPoly DEF Ones
    <3> QED
      BY <2>4, <3>1, XorPoly
  <2>7. Mirror(b) = BitsOf[s[a]]
    <3>1. \A i \in Ones : i \in Mirror(b) <=> i \in BitsOf[s[a]]
      <4> TAKE i \in Ones
      <4>1. 31 - i \in Ones /\ 31 - (31 - i) = i
        BY DEF Ones
      <4> QED
        BY <2>5, <4>1, MirrorBits
    <3>2. Mirror(b) \subseteq Ones
      BY <2>5, MirrorBits
    <3>3. \A i : i \in Mirror(b) <=> i \in BitsOf[s[a]]
      BY <2>5, <3>1, <3>2
    <3> QED
      BY <3>3, Zenon
  <2>8. \A g : Sum(g, F) \in SUBSET Ones
    BY DEF Sum
  <2>9. Mirror(Sum(q, F)) = Xor(f[a], BitsOf[s[a]])
    <3>1. Sum(b, F) = b
      BY <2>5, SumOfSmall
    <3>2. Sum(q, F) = Xor(Sum(p, F), b)
      <4> HIDE DEF p, b
      <4> QED
        BY <2>4, <2>6, <3>1, SumXor DEF PowersOfX
    <3> HIDE DEF p, b, q
    <3>3. Mirror(Xor(Sum(p, F), b)) = Xor(Mirror(Sum(p, F)), Mirror(b))
      BY <2>5, <2>8, MirrorXor
    <3> QED
      BY <2>3, <2>7, <3>2, <3>3 DEF p
  <2> HIDE DEF q
  <2>10. Rounds(r)
    <3>1. r \in [0..8 -> SUBSET Ones]
      BY <2>8, MirrorBits
    <3>2. ASSUME NEW j \in 1..8
          PROVE  r[j] = Round(r[j - 1])
      <4>1. j - 1 \in Nat /\ j - 1 \in 0..8 /\ j \in 0..8 /\ (j - 1) + 1 = j
        OBVIOUS
      <4>2. Up(q, j) = Up(Up(q, j - 1), 1) /\ Up(q, j - 1) \in Poly
        <5>1. q \in SUBSET Nat
          BY <2>6 DEF Poly
        <5>2. Up(q, (j - 1) + 1) = Up(Up(q, j - 1), 1)
          BY <4>1, <5>1, UpLaws
        <5> QED
          BY <2>6, <4>1, <5>2, UpPoly
      <4>3. Sum(Up(q, j), F) = Times(Sum(Up(q, j - 1), F))
        BY <4>2, SumUp
      <4>4. Round(Mirror(Sum(Up(q, j - 1), F))) = Mirror(Times(Sum(Up(q, j - 1), F)))
        BY <2>8, RoundIsTimes
      <4> QED
        BY <4>1, <4>3, <4>4
    <3> HIDE DEF r
    <3> QED
      BY <3>1, <3>2 DEF Rounds
  <2>11. r[0] = Xor(f[a], BitsOf[s[a]])
    <3>1. Up(q, 0) = q
      BY <2>6, UpLaws DEF Poly
    <3> QED
      BY <2>9, <3>1
  <2>12. r[8] = Mirror(Sum(Coefficients(s, a + 1), F))
    BY <2>4
  <2> HIDE DEF r
  <2>13. r[8] = update_crc_32(f[a], s[a])
    BY <2>1, <2>2, <2>10, <2>11, EightRounds
  <2> QED
    BY <2>2, <2>12, <2>13
<1> HIDE DEF S
<1>3. Nat \subseteq S
  BY <1>1, <1>2, Induction
<1> QED
  BY <1>3 DEF S

(* Loop and table of libcrc compute what the definition says, of any bytes. *)
THEOREM LoopDivides ==
  ASSUME NEW n \in Nat, NEW s, \A a \in 0..n - 1 : s[a] \in Byte
  PROVE  crc_32(s, n) = Checksum(s, n)
<1>1. PICK F : PowersOfX(F)
  BY PowersExist
<1>2. PICK f : Run(s, n, f) /\ crc_32(s, n) = Xor(f[n], Ones)
  BY RunExists
<1>3. f[n] = Mirror(Sum(Coefficients(s, n), F))
  <2>1. n \in 0..n
    OBVIOUS
  <2> QED
    BY <1>1, <1>2, <2>1, RunIsRemainder
<1>4. Remainder(Coefficients(s, n)) = Sum(Coefficients(s, n), F)
  <2>1. Power = F
    BY <1>1, PowerIsPower
  <2>2. PICK p : p = Coefficients(s, n)
    OBVIOUS
  <2>3. PICK power : power = [e \in p |-> Power[e]]
    OBVIOUS
  <2>4. Remainder(p) = {i \in Ones : Cardinality({e \in p : i \in power[e]}) % 2 = 1}
    BY <2>3 DEF Remainder
  <2>5. \A i : {e \in p : i \in power[e]} = {e \in p : i \in F[e]}
    BY <2>1, <2>3
  <2>6. Remainder(p) = Sum(p, F)
    BY <2>4, <2>5 DEF Sum, Odd
  <2> QED
    BY <2>2, <2>6
<1>5. Checksum(s, n) = Xor(Mirror(Remainder(Coefficients(s, n))), Ones)
  BY DEF Checksum, Coefficients, Mirror
<1> QED
  BY <1>2, <1>3, <1>4, <1>5

-----------------------------------------------------------------------------

(* For every message that fits and hosts of either byte order: the checksum *)
(* in a packet is the CRC-32 of the bytes its length counts, as the division *)
(* of polynomials defines it (task.c:204, crc32.c:52-68,                    *)
(* crc32_table.c:46-65).                                                    *)
THEOREM ChecksumRight == Spec => []ChecksumIsCrc32
<1>1. IInv => ChecksumIsCrc32
  <2> SUFFICES ASSUME IInv, pc = "send", NEW p, p = Packets[<<from, message>>]
               PROVE  CrcOf(p) = Checksum(PayloadOf(p), LengthOf(p))
    BY DEF ChecksumIsCrc32
  <2>1. PICK m : m = Content[message]
    OBVIOUS
  <2>2. message \in Fitting /\ IsMessage(m) /\ from \in Orders
    BY <2>1, TransferAssumption DEF IInv, TypeOK, OnlyFittingSent, Fitting
  <2>3. PICK n \in 0..PayloadSize : n = Length(m)
    BY <2>1, <2>2, Sizes
  <2>4. PICK s : s = Payload(from, m, [j \in 0..PayloadSize - 1 |-> 0])
    OBVIOUS
  <2>5. PICK t : t = PayloadOf(p)
    OBVIOUS
  <2>6. PayloadSize \in Nat /\ PacketSize = PayloadSize + 8
    BY Sizes
  <2>7. p = PacketBytes(from, m)
    BY <2>1, <2>2 DEF Packets
  <2>8. \A a \in 0..n - 1 : s[a] \in Byte
    <3>1. \A a \in 0..n - 1 : a \in 0..PayloadSize - 1
      BY <2>3, <2>6
    <3> QED
      BY <2>2, <2>4, <3>1, PayloadBytes
  <2>9. ASSUME NEW a \in 0..n - 1
        PROVE  t[a] = s[a]
    <3>1. a \in 0..PayloadSize - 1 /\ a + 8 \in 0..PacketSize - 1 /\ (a + 8) - 8 = a
      BY <2>3, <2>6
    <3>2. a + 8 # 0 /\ a + 8 # 1 /\ a + 8 # 2 /\ a + 8 # 3 /\ a + 8 \notin 4..7
      OBVIOUS
    <3>3. p[a + 8] = s[a]
      BY <2>4, <2>7, <3>1, <3>2 DEF PacketBytes, HEADER
    <3>4. t[a] = p[a + 8]
      BY <2>5, <3>1 DEF PayloadOf, HEADER
    <3> QED
      BY <3>3, <3>4
  <2>10. crc_32(t, n) = crc_32(s, n) /\ crc_32(s, n) \in SUBSET Ones
    BY <2>3, <2>6, <2>8, <2>9, ChecksumsAgree
  <2>11. LengthOf(p) = n /\ CrcOf(p) = crc_32(s, n)
    <3>1. Length(m) <= PayloadSize
      BY <2>3, <2>6
    <3>2. \A k \in 0..7 : p[k] = PacketBytes(from, m)[k]
      BY <2>7
    <3> QED
      BY <2>2, <2>3, <2>4, <2>10, <3>1, <3>2, HeaderTells
  <2>12. crc_32(t, n) = Checksum(t, n)
    <3>1. n \in Nat /\ \A a \in 0..n - 1 : t[a] \in Byte
      BY <2>3, <2>8, <2>9
    <3> QED
      BY <3>1, LoopDivides
  <2> QED
    BY <2>5, <2>10, <2>11, <2>12
<1> QED
  BY <1>1, InvHolds, PTL

OldFits == before \in {Blank} \cup Fitting

LEMMA OldHolds == Spec => []OldFits
<1>1. Init => OldFits
  BY DEF Init, OldFits
<1>2. OldFits /\ [Next]_vars => OldFits'
  BY DEF Next, vars, OldFits, Build, SendFirst, SendRest, SendFails, Damage, Recv, RecvFails, Check
<1> QED
  BY <1>1, <1>2, PTL DEF Spec

(* A packet whose header has arrived as it was sent, and of whose payload   *)
(* at most four adjacent bytes have not, for whatever reason: the packet    *)
(* was cut off there, continued from elsewhere, or damaged.                 *)
Intact(k)  == Received[k] = Packets[<<from, message>>][k]
Strange    == {k \in HEADER..HEADER + Length(Content[message]) - 1 : ~Intact(k)}
NearlyWhole ==
  /\ \A k \in 0..HEADER - 1 : Intact(k)
  /\ \E first \in Nat : Strange \subseteq first..first + 3


(* Whatever a stack, a sender or the network leaves behind the header are   *)
(* bytes.                                                                   *)
LEMMA ReceivedBytes ==
  ASSUME IInv, OldFits, message \in Fitting, NEW k \in 0..PayloadSize - 1
  PROVE  PayloadOf(Received)[k] \in Byte
<1>1. PayloadSize \in Nat /\ PacketSize = PayloadSize + 8
  BY Sizes
<1>2. /\ k + 8 \in 0..PacketSize - 1 /\ (k + 8) - 8 = k
      /\ k + 8 # 0 /\ k + 8 # 1 /\ k + 8 # 2 /\ k + 8 # 3 /\ k + 8 \notin 4..7
  BY <1>1
<1>3. ASSUME NEW o \in Orders, NEW x \in Fitting
      PROVE  Packets[<<o, x>>][k + 8] \in Byte
  <2>1. PICK m : m = Content[x]
    OBVIOUS
  <2>2. PICK s : s = Payload(o, m, [j \in 0..PayloadSize - 1 |-> 0])
    OBVIOUS
  <2>3. IsMessage(m)
    BY <2>1, TransferAssumption DEF Fitting
  <2>4. s[k] \in Byte
    BY <2>2, <2>3, PayloadBytes
  <2>5. Packets[<<o, x>>][k + 8] = s[k]
    BY <1>2, <2>1, <2>2 DEF Packets, PacketBytes, HEADER
  <2> QED
    BY <2>4, <2>5
<1>4. Old[k + 8] \in Byte
  <2>1. CASE before = Blank
    BY <1>2, <2>1 DEF Old, Byte
  <2>2. CASE before # Blank
    <3>1. before \in Fitting /\ to \in Orders
      BY <2>2 DEF OldFits, IInv, TypeOK
    <3> QED
      BY <1>3, <2>2, <3>1 DEF Old
  <2> QED
    BY <2>1, <2>2
<1>5. behind \in Byte
  BY TransferAssumption DEF IInv, TypeOK, Byte
<1>6. Packets[<<from, message>>][k + 8] \in Byte
  BY <1>3 DEF IInv, TypeOK
<1>7. ASSUME k \in DOMAIN damage
      PROVE  (Packets[<<from, message>>][k + 8] + damage[k]) % 256 \in Byte
  <2>1. damage[k] \in Flips
    BY <1>7 DEF IInv, TypeOK
  <2>2. \A f \in Flips : f \in 1..255
    BY TransferAssumption DEF Byte
  <2>3. PICK d \in 1..255 : d = damage[k]
    BY <2>1, <2>2
  <2>4. PICK b \in 0..255 : b = Packets[<<from, message>>][k + 8]
    BY <1>6 DEF Byte
  <2>5. (b + d) % 256 \in 0..255
    OBVIOUS
  <2> QED
    BY <2>3, <2>4, <2>5 DEF Byte
<1>8. Received[k + 8] \in Byte
  BY <1>2, <1>4, <1>5, <1>6, <1>7 DEF Received, HEADER
<1>9. PayloadOf(Received)[k] = Received[k + 8]
  BY DEF PayloadOf, HEADER
<1> QED
  BY <1>8, <1>9

LEMMA BurstSeen ==
  ASSUME IInv, OldFits, pc = "handled", NearlyWhole
  PROVE  reported <=> Strange # {}
<1>1. PICK m : m = Content[message]
  OBVIOUS
<1>2. message \in Fitting /\ IsMessage(m) /\ from \in Orders
  BY <1>1, TransferAssumption DEF IInv, TypeOK, OnlyFittingSent, Fitting
<1>3. PICK n \in 0..PayloadSize : n = Length(m)
  BY <1>1, <1>2, Sizes
<1>4. PICK s : s = Payload(from, m, [j \in 0..PayloadSize - 1 |-> 0])
  OBVIOUS
<1>5. PICK t : t = PayloadOf(Received)
  OBVIOUS
<1>6. PayloadSize \in Nat /\ PacketSize = PayloadSize + 8
  BY Sizes
<1>7. Packets[<<from, message>>] = PacketBytes(from, m)
  BY <1>1, <1>2 DEF Packets
<1>8. \A a \in 0..n - 1 : s[a] \in Byte /\ t[a] \in Byte
  <2>1. \A a \in 0..n - 1 : a \in 0..PayloadSize - 1
    BY <1>3, <1>6
  <2> QED
    BY <1>2, <1>4, <1>5, <2>1, PayloadBytes, ReceivedBytes
<1>9. ASSUME NEW a \in 0..n - 1
      PROVE  t[a] = s[a] <=> a + 8 \notin Strange
  <2>1. a \in 0..PayloadSize - 1 /\ a + 8 \in 0..PacketSize - 1 /\ (a + 8) - 8 = a
    BY <1>3, <1>6
  <2>2. a + 8 # 0 /\ a + 8 # 1 /\ a + 8 # 2 /\ a + 8 # 3 /\ a + 8 \notin 4..7
    OBVIOUS
  <2>3. PacketBytes(from, m)[a + 8] = s[a]
    BY <1>4, <2>1, <2>2 DEF PacketBytes, HEADER
  <2>4. t[a] = Received[a + 8]
    BY <1>5, <2>1 DEF PayloadOf, HEADER
  <2>5. a + 8 \in 8..8 + n - 1
    BY <1>3
  <2>6. a + 8 \notin Strange <=> Intact(a + 8)
    BY <1>1, <1>3, <2>5 DEF Strange, HEADER
  <2> QED
    BY <1>7, <2>3, <2>4, <2>6 DEF Intact
<1>10. crc_32(s, n) \in SUBSET Ones
  BY <1>3, <1>6, <1>8, ChecksumsAgree
<1>11. LengthOf(Received) = n /\ CrcOf(Received) = crc_32(s, n)
  <2>1. PICK p : p = Received
    OBVIOUS
  <2>2. \A k \in 0..7 : p[k] = PacketBytes(from, m)[k]
    BY <1>7, <2>1 DEF NearlyWhole, Intact, HEADER
  <2>3. Length(m) <= PayloadSize
    BY <1>3, <1>6
  <2>4. LengthOf(p) = n /\ CrcOf(p) = crc_32(s, n)
    BY <1>2, <1>3, <1>4, <1>10, <2>2, <2>3, HeaderTells
  <2> QED
    BY <2>1, <2>4
<1>12. reported <=> crc_32(t, n) # crc_32(s, n)
  BY <1>5, <1>11 DEF IInv, Compared, crc_is_equal
<1>13. CASE Strange = {}
  <2>1. \A a \in 0..n - 1 : s[a] \in Byte /\ t[a] = s[a]
    BY <1>8, <1>9, <1>13
  <2>2. crc_32(t, n) = crc_32(s, n)
    BY <1>3, <1>6, <2>1, ChecksumsAgree
  <2> QED
    BY <1>12, <1>13, <2>2
<1>14. CASE Strange # {}
  <2>1. PICK first \in Nat : Strange \subseteq first..first + 3
    BY DEF NearlyWhole
  <2>2. n + 8 \in Nat /\ \A k \in Strange : k \in 8..n + 7 /\ k < n + 8
    BY <1>1, <1>3, <1>6 DEF Strange, HEADER
  <2>3. PICK c \in Strange, l \in 1..4 :
          c \in Nat /\ c + l <= n + 8 /\ \A k \in Strange : k \in c..c + l - 1
    BY <1>14, <2>1, <2>2, FirstOfBurst
  <2>4. PICK b \in 0..n - 1 : b = c - 8 /\ b + 8 = c /\ b + l <= n
    BY <2>2, <2>3
  <2>5. s[b] # t[b]
    BY <1>9, <2>3, <2>4
  <2>6. ASSUME NEW a \in 0..n - 1, a \notin b..b + l - 1
        PROVE  s[a] = t[a]
    <3>1. a + 8 \notin Strange
      BY <2>3, <2>4, <2>6
    <3> QED
      BY <1>9, <3>1
  <2>7. \A a \in 0..b - 1 : s[a] = t[a]
    <3>1. \A a \in 0..b - 1 : a \in 0..n - 1 /\ a \notin b..b + l - 1
      BY <1>3, <2>4
    <3> QED
      BY <2>6, <3>1
  <2>8. \A a \in b + l..n - 1 : s[a] = t[a]
    <3>1. \A a \in b + l..n - 1 : a \in 0..n - 1 /\ a \notin b..b + l - 1
      BY <1>3, <2>4
    <3> QED
      BY <2>6, <3>1
  <2>9. crc_32(t, n) # crc_32(s, n)
    BY <1>3, <1>6, <1>8, <2>4, <2>5, <2>7, <2>8, ChecksumsDiffer
  <2> QED
    BY <1>12, <1>14, <2>9
<1> QED
  BY <1>13, <1>14

(* For every payload size, message, pair of hosts, old stack and place      *)
(* where the packet is broken: a packet whose header has arrived and of     *)
(* whose payload at most four adjacent bytes have not is reported unless    *)
(* what lies in their place is equal; so a packet cut off by up to four     *)
(* bytes never passes for another one                                       *)
(* (task.c:84-106, 204, 661-679, crc32.c:52-68, crc32_table.c:46-65).       *)
THEOREM BurstsAreSeen == Spec => [](pc = "handled" /\ NearlyWhole => (reported <=> Strange # {}))
<1>1. IInv /\ OldFits => (pc = "handled" /\ NearlyWhole => (reported <=> Strange # {}))
  BY BurstSeen
<1> QED
  BY <1>1, InvHolds, OldHolds, PTL

(* For every payload size, message, pair of hosts and place where the       *)
(* packet is broken: when the first send and the recv have covered the part *)
(* that is used, the receiver reports a false checksum exactly when some of *)
(* four adjacent bytes have been changed, each in whatever way.  The        *)
(* checksum lets no such damage pass, and no whole packet is reported       *)
(* (task.c:204, 661-679, crc32.c:52-68, crc32_table.c:46-65).               *)
THEOREM DamageIsSeen == Spec => []ChecksumDecides
<1>1. IInv /\ OldFits => ChecksumDecides
  <2> SUFFICES ASSUME IInv, OldFits, pc = "handled", Covered
               PROVE  reported <=> damage # None
    BY DEF ChecksumDecides
  <2>1. PICK m : m = Content[message]
    OBVIOUS
  <2>2. PICK n \in Nat : n = Length(m) /\ n <= PayloadSize
    BY <2>1, CoveredBytes
  <2>3. message \in Fitting /\ IsMessage(m) /\ from \in Orders
    BY <2>1, TransferAssumption DEF IInv, TypeOK, OnlyFittingSent, Fitting
  <2>4. Packets[<<from, message>>] = PacketBytes(from, m)
    BY <2>1, <2>3 DEF Packets
  <2>5. PICK s : s = Payload(from, m, [j \in 0..PayloadSize - 1 |-> 0])
    OBVIOUS
  <2>6. \A k \in 0..7 : Intact(k)
    BY <2>1, <2>4, CoveredBytes DEF Intact
  <2>7. ASSUME NEW b \in Byte, NEW d \in 1..255
        PROVE  (b + d) % 256 # b
    <3>1. b \in 0..255
      BY DEF Byte
    <3>2. CASE b + d < 256
      BY <3>1, <3>2
    <3>3. CASE ~(b + d < 256)
      <4>1. (b + d) % 256 = b + d - 256
        BY <3>1, <3>3
      <4> QED
        BY <3>1, <4>1
    <3> QED
      BY <3>2, <3>3
  <2>8. ASSUME NEW a \in 0..n - 1
        PROVE  Intact(a + 8) <=> a \notin DOMAIN damage
    <3>1. PayloadSize \in Nat /\ PacketSize = PayloadSize + 8
      BY Sizes
    <3>2. a \in 0..PayloadSize - 1 /\ a + 8 \in 0..PacketSize - 1
      BY <2>2, <3>1
    <3>3. a + 8 # 0 /\ a + 8 # 1 /\ a + 8 # 2 /\ a + 8 # 3 /\ a + 8 \notin 4..7 /\ (a + 8) - 8 = a
      OBVIOUS
    <3>4. PacketBytes(from, m)[a + 8] = s[a]
      BY <2>5, <3>2, <3>3 DEF PacketBytes, HEADER
    <3>5. Received[a + 8] = IF a \in DOMAIN damage THEN (s[a] + damage[a]) % 256 ELSE s[a]
      <4>1. PayloadOf(Received)[a] = Received[a + 8]
        BY <3>2 DEF PayloadOf, HEADER
      <4> QED
        BY <2>1, <2>2, <2>5, <4>1, CoveredBytes
    <3>6. s[a] \in Byte
      BY <2>3, <2>5, <3>2, PayloadBytes
    <3>7. a \in DOMAIN damage => damage[a] \in 1..255
      <4>1. a \in DOMAIN damage => damage[a] \in Flips
        BY DEF IInv, TypeOK
      <4>2. \A f \in Flips : f \in 1..255
        BY TransferAssumption DEF Byte
      <4> QED
        BY <4>1, <4>2
    <3> QED
      BY <2>4, <2>7, <3>4, <3>5, <3>6, <3>7 DEF Intact
  <2>9. Strange = {a + 8 : a \in DOMAIN damage}
    <3>1. \A k \in DOMAIN damage : k \in 0..n - 1
      <4>1. \A k \in DOMAIN damage : damage # None
        BY DEF None
      <4> QED
        BY <2>1, <2>2, <4>1 DEF IInv, Burst, TypeOK
    <3>2. Strange = {k \in 8..8 + n - 1 : ~Intact(k)}
      BY <2>1, <2>2 DEF Strange, HEADER
    <3>3. ASSUME NEW k \in 8..8 + n - 1
          PROVE  k - 8 \in 0..n - 1 /\ (k - 8) + 8 = k
      BY <2>2
    <3>4. \A k \in Strange : k - 8 \in DOMAIN damage /\ (k - 8) + 8 = k
      BY <2>8, <3>2, <3>3
    <3>5. \A a \in DOMAIN damage : a + 8 \in Strange
      <4>1. \A a \in 0..n - 1 : a + 8 \in 8..8 + n - 1
        BY <2>2
      <4> QED
        BY <2>8, <3>1, <3>2, <4>1
    <3> QED
      BY <3>4, <3>5
  <2>10. damage # None <=> DOMAIN damage # {}
    BY DEF None, IInv, Burst
  <2>11. NearlyWhole
    <3>1. CASE damage = None
      BY <2>6, <2>9, <3>1 DEF NearlyWhole, HEADER, None
    <3>2. CASE damage # None
      <4>1. PICK first \in Nat : DOMAIN damage \subseteq first..first + 3
        BY <3>2 DEF IInv, Burst
      <4>2. Strange \subseteq first + 8..(first + 8) + 3 /\ first + 8 \in Nat
        BY <2>9, <4>1
      <4> QED
        BY <2>6, <4>2 DEF NearlyWhole, HEADER
    <3> QED
      BY <3>1, <3>2
  <2> QED
    BY <2>9, <2>10, <2>11, BurstSeen
<1> QED
  BY <1>1, InvHolds, OldHolds, PTL

(* For every payload size, message, pair of hosts and cut: in a packet that *)
(* has been covered and is not reported, length and counter describe the    *)
(* same bytes, and nothing that was written lies behind them.               *)
THEOREM LengthsCover == Spec => []LengthCovers
<1>1. IInv /\ ChecksumDecides => LengthCovers
  <2> SUFFICES ASSUME IInv, ChecksumDecides, pc = "handled", Covered, ~reported,
                      NEW m, m = Content[message]
               PROVE  /\ IsList(m) => LengthOf(Received) = Address(PayloadOf(Received)[0])
                      /\ \A k \in Written(m) : k < LengthOf(Received)
    BY DEF LengthCovers
  <2>1. damage = None /\ DOMAIN damage = {}
    BY DEF ChecksumDecides, None
  <2>2. PICK s : s = Payload(from, m, [j \in 0..PayloadSize - 1 |-> 0])
    OBVIOUS
  <2>3. IsMessage(m) /\ Length(m) \in 0..PayloadSize /\ PayloadSize \in Nat
    BY CoveredBytes
  <2>4. \A k \in 0..7 : Received[k] = PacketBytes(from, m)[k]
    BY CoveredBytes
  <2>5. \A k \in 0..Length(m) - 1 : PayloadOf(Received)[k] = s[k]
    BY <2>1, <2>2, CoveredBytes
  <2>6. LengthOf(Received) = Length(m)
    <3>1. \A a \in 0..Length(m) - 1 : s[a] \in Byte
      <4>1. from \in Orders /\ \A a \in 0..Length(m) - 1 : a \in 0..PayloadSize - 1
        BY <2>3 DEF IInv, TypeOK
      <4> QED
        BY <2>2, <2>3, <4>1, PayloadBytes
    <3>2. crc_32(s, Length(m)) \in SUBSET Ones
      <4>1. Length(m) \in Nat
        BY <2>3
      <4> QED
        BY <3>1, <4>1, ChecksumsAgree
    <3>3. Length(m) <= PayloadSize
      BY <2>3
    <3> QED
      BY <2>2, <2>3, <2>4, <3>2, <3>3, HeaderTells
  <2>7. \A k \in Written(m) : k < Length(m)
    BY <2>3, WrittenBelow
  <2>8. ASSUME IsList(m)
        PROVE  Length(m) = Address(PayloadOf(Received)[0])
    <3>1. Length(m) = 20 * m.n + 1 /\ m.n \in Nat
      BY <2>3, <2>8, LengthValue
    <3>2. m.n \in 0..255
      <4>1. \A n \in Nat : \A length : length = 20 * n + 1 /\ length <= 5101 => n \in 0..255
        OBVIOUS
      <4>2. Length(m) <= 5101
        BY <2>3, PayloadAssumption
      <4> QED
        BY <3>1, <4>1, <4>2
    <3>3. 0 \in 0..Length(m) - 1 /\ 0 \in 0..PayloadSize - 1
      BY <2>3, <3>1
    <3>4. s[0] = m.n % 256
      BY <2>2, <2>8, <3>3 DEF Payload, PayloadByte
    <3>5. PayloadOf(Received)[0] = m.n
      BY <2>5, <3>2, <3>3, <3>4
    <3> QED
      BY <3>1, <3>5 DEF Address, SIZE_OF_MEMBER_IN_BYTES
  <2> QED
    BY <2>6, <2>7, <2>8
<1> QED
  BY <1>1, InvHolds, DamageIsSeen, PTL
=============================================================================
