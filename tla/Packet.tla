-------------------------------- MODULE Packet --------------------------------
(***************************************************************************)
(* The payload of a packet: how the senders of task.c write a list of      *)
(* members or a text into it and how the receivers read it again, on hosts *)
(* of either byte order.                                                   *)
(*                                                                         *)
(* A word is a function from 0..3 to bytes, the most significant first; as *)
(* it lies in memory, the one at the lowest address first.  A member has   *)
(* the four bytes of its address as they lie in memory, where inet_addr    *)
(* and the kernel put them in network order, and sixteen bytes of name.    *)
(* A definition Name_Bug is no part of the model: it is a broken form of   *)
(* Name that PROJECT.json uses.                                            *)
(***************************************************************************)
EXTENDS Integers

CONSTANT PayloadSize      (* 400 *)

(* The number of members is one byte. *)
ASSUME PayloadAssumption == PayloadSize \in 1..(255 * 20 + 1)

Byte                    == 0..255
SIZE_OF_MEMBER_IN_BYTES == 20
ID_LENGTH               == 16
SIGN_IN                 == 1
SIGN_OUT                == 2
MEMBER_LIST             == 3
MESSAGE                 == 4

Words   == [0..3 -> Byte]
Names   == [0..ID_LENGTH - 1 -> Byte]
Members == [ip : Words, id : Names]
Orders  == {"little", "big"}

(* A list of n members, or a text with its terminating 0 as the last byte.  *)
IsList(m) == m.typ \in {SIGN_IN, MEMBER_LIST}

Lists(n) == [typ : {SIGN_IN, MEMBER_LIST}, n : {n}, members : [0..n - 1 -> Members]]
Texts(n) == [typ : {SIGN_OUT, MESSAGE}, n : {n}, text : [0..n - 1 -> Byte]]

(* Short enough for a length of 16 bits. *)
IsMessage(m) == m.n \in Nat /\ m.n <= 3276 /\ m \in Lists(m.n) \cup Texts(m.n)

-----------------------------------------------------------------------------
(* htonl and ntohl, and how a word lies in memory. *)
Swap(w)           == [k \in 0..3 |-> w[3 - k]]
Turned_Never(o, w) == w
Turned(o, w)       == IF o = "little" THEN Swap(w) ELSE w
InMemory(o, w)     == IF o = "little" THEN Swap(w) ELSE w

(* bufsize, a uint16_t. *)
Length_NoCount(m) == IF IsList(m) THEN m.n * SIZE_OF_MEMBER_IN_BYTES ELSE m.n
Length(m) ==
  (IF IsList(m) THEN m.n * SIZE_OF_MEMBER_IN_BYTES + 1 ELSE m.n) % 65536

Address(i) == 1 + SIZE_OF_MEMBER_IN_BYTES * i
Id(i)      == Address(i) + 4

(* send_sign_in stops behind the end of a name; the others copy all of it.  *)
Copied(m, i, j) == m.typ = SIGN_IN => \A k \in 0..j - 1 : m.members[i].id[k] # 0

(* The offsets the loops write to. *)
Written(m) ==
  IF IsList(m)
  THEN {0} \cup UNION {{Address(i) + k : k \in 0..3}
                         \cup {Id(i) + j : j \in {j \in 0..ID_LENGTH - 1 : Copied(m, i, j)}} :
                       i \in 0..m.n - 1}
  ELSE 0..m.n - 1

Fits(m) == Length(m) <= PayloadSize

(* Byte k of the payload: the rest keeps what the stack held. *)
PayloadByte(o, m, stack, k) ==
  LET i == (k - 1) \div SIZE_OF_MEMBER_IN_BYTES
      j == (k - 1) % SIZE_OF_MEMBER_IN_BYTES
  IN  CASE ~IsList(m) -> IF k < m.n THEN m.text[k] ELSE stack[k]
        [] IsList(m) /\ k = 0 -> m.n % 256
        [] IsList(m) /\ k > 0 /\ i < m.n /\ j < 4 ->
             Turned(o, InMemory(o, m.members[i].ip))[j]
        [] IsList(m) /\ k > 0 /\ i < m.n /\ j >= 4 ->
             IF Copied(m, i, j - 4) THEN m.members[i].id[j - 4] ELSE stack[k]
        [] OTHER -> stack[k]

Payload(o, m, stack) == [k \in 0..PayloadSize - 1 |-> PayloadByte(o, m, stack, k)]

-----------------------------------------------------------------------------
(* recv_sign_in and recv_member_list. *)
IpAt(o, payload, i) ==
  InMemory(o, Turned(o, [k \in 0..3 |-> payload[Address(i) + k]]))
IdAt(payload, i) == [j \in 0..ID_LENGTH - 1 |-> payload[Id(i) + j]]

(* Equal as strings: up to the end of the second. *)
SameName(a, b) ==
  \A j \in 0..ID_LENGTH - 1 : (\A k \in 0..j - 1 : b[k] # 0) => a[j] = b[j]

(* What a receiver takes from the payload is what the message says. *)
Understood(o, payload, m) ==
  IF IsList(m)
  THEN /\ payload[0] = m.n
       /\ \A i \in 0..m.n - 1 : /\ IpAt(o, payload, i) = m.members[i].ip
                                /\ SameName(IdAt(payload, i), m.members[i].id)
  ELSE \A k \in 0..m.n - 1 : payload[k] = m.text[k]
=============================================================================
