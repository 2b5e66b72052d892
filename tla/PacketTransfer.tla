---------------------------- MODULE PacketTransfer ----------------------------
(***************************************************************************)
(* One packet on its way: a sender of task.c fills it in, send_all_data    *)
(* hands it to the kernel, recv_from_client of another host receives it    *)
(* with a single recv over whatever its stack held, checks the checksum    *)
(* and handles it.  The kernel may take and give any part of a packet, and *)
(* the network may damage a few bytes of the payload.                      *)
(*                                                                         *)
(* Offsets and counts are bytes.  Only parts are counted: which bytes they *)
(* are is said by Received.  Name_Bug is a broken form of Name that        *)
(* PROJECT.json uses.                                                      *)
(*                                                                         *)
(* Bounds: the messages, the places where a packet may break (Cuts), and   *)
(* the values of foreign bytes (Behind, Flips).                            *)
(***************************************************************************)
EXTENDS Packet, Crc32

CONSTANTS
  Messages,       (* what may be sent, and has been before, by name        *)
  Content,        (* Content[m]: the list or text                          *)
  Blank,          (* instead of a packet: a stack of zeros                 *)
  Hosts,          (* byte orders of the two hosts                          *)
  Cuts,           (* numbers of bytes send and recv may stop at            *)
  Behind,         (* values of the memory behind a packet                  *)
  Flips           (* values the network may change a byte by               *)

ASSUME TransferAssumption ==
  /\ \A m \in Messages : IsMessage(Content[m])
  /\ Blank \notin Messages /\ Hosts \subseteq Orders \X Orders
  /\ Cuts \subseteq Nat \ {0} /\ Behind \subseteq Byte /\ Flips \subseteq Byte \ {0}

HEADER     == 8               (* SIZE_OF_HEADER_IN_BYTES *)
VERSION    == 1
PacketSize == HEADER + PayloadSize

VARIABLES
  message,        (* what is sent                                          *)
  from, to,       (* byte orders of the two hosts                          *)
  pc,             (* how far it has come                                   *)
  good,           (* bytes the first send took: from the packet            *)
  total,          (* bytes all sends took                                  *)
  behind,         (* what the later sends read                             *)
  damage,         (* bytes of the payload that have been changed, and how  *)
  before,         (* what the stack of the receiver holds: an old packet   *)
  got,            (* bytes recv has returned                               *)
  reported        (* was a false checksum reported?                        *)

vars == <<message, from, to, pc, good, total, behind, damage, before, got, reported>>

-----------------------------------------------------------------------------
(* The packet a sender makes.  The stack under it held zeros. *)
ByteOf(word, k) == CHOOSE b \in Byte : BitsOf[b] = {i \in LowByte : 8 * (3 - k) + i \in word}

PacketBytes(o, m) ==
  LET payload == Payload(o, m, [k \in 0..PayloadSize - 1 |-> 0])
      crc     == crc_32(payload, Length(m))
  IN  [k \in 0..PacketSize - 1 |->
         CASE k = 0 -> VERSION
           [] k = 1 -> m.typ
           [] k = 2 -> Length(m) \div 256
           [] k = 3 -> Length(m) % 256
           [] k \in 4..7 -> ByteOf(crc, k - 4)
           [] OTHER -> payload[k - HEADER]]

(* Computed once. *)
Fitting == {m \in Messages : Fits(Content[m])}
Packets == [x \in Orders \X Fitting |-> PacketBytes(x[1], Content[x[2]])]

Old ==
  IF before = Blank THEN [k \in 0..PacketSize - 1 |-> 0] ELSE Packets[<<to, before>>]

(* pck of recv_from_client after its recv. *)
Received ==
  [k \in 0..PacketSize - 1 |->
     CASE k >= got -> Old[k]
       [] k < got /\ k >= good -> behind
       [] k < got /\ k < good /\ k - HEADER \in DOMAIN damage ->
            (Packets[<<from, message>>][k] + damage[k - HEADER]) % 256
       [] OTHER -> Packets[<<from, message>>][k]]

PayloadOf(p) == [k \in 0..PayloadSize - 1 |-> p[k + HEADER]]
LengthOf(p)  == 256 * p[2] + p[3]

CrcOf(p) == UNION {{8 * (7 - k) + i : i \in BitsOf[p[k]]} : k \in 4..7}

-----------------------------------------------------------------------------
None == [k \in {} |-> 0]

Init ==
  /\ message \in Messages
  /\ \E h \in Hosts : from = h[1] /\ to = h[2]
  /\ before \in {Blank} \cup Fitting
  /\ pc = "build"
  /\ good = 0 /\ total = 0 /\ got = 0
  /\ behind = 0
  /\ damage = None
  /\ reported = FALSE

(* A list or text that is too long is written, or read for its checksum,    *)
(* beyond the packet.                                                       *)
Build ==
  /\ pc = "build"
  /\ pc' = IF message \in Fitting THEN "send" ELSE "overflow"
  /\ UNCHANGED <<message, from, to, good, total, behind, damage, before, got, reported>>

-----------------------------------------------------------------------------
(* send_all_data.  The pointer moves on by whole packets: only the first    *)
(* call of send reads the packet.                                           *)
BytesLeft_All == PacketSize
BytesLeft     == PacketSize - total

SendFirst ==
  /\ pc = "send" /\ total = 0
  /\ \E n \in Cuts :
       /\ n <= BytesLeft
       /\ total' = n /\ good' = n
  /\ UNCHANGED <<message, from, to, pc, behind, damage, before, got, reported>>

SendRest ==
  /\ pc = "send" /\ total \in 1..PacketSize - 1
  /\ \E n \in 1..BytesLeft :
       /\ total + n \in Cuts \/ n = BytesLeft
       /\ total' = total + n
  /\ behind' \in IF total = good THEN Behind ELSE {behind}
  /\ UNCHANGED <<message, from, to, pc, good, damage, before, got, reported>>

(* send fails, also when the memory behind the packet cannot be read; the   *)
(* caller goes on and closes the connection.                                *)
SendFails ==
  /\ pc = "send" /\ total < PacketSize
  /\ pc' = "closed"
  /\ UNCHANGED <<message, from, to, good, total, behind, damage, before, got, reported>>

(* The network, when the whole packet is on its way: some of four adjacent  *)
(* bytes of the payload, each by a value of its own.                        *)
Damage ==
  /\ pc = "send" /\ good = PacketSize /\ damage = None
  /\ \E first \in 0..Length(Content[message]) - 1 :
       /\ first + HEADER \in Cuts
       /\ \E hit \in SUBSET (first..first + 3) :
            /\ hit # {} /\ \A k \in hit : k < Length(Content[message])
            /\ damage' \in [hit -> Flips]
  /\ UNCHANGED <<message, from, to, pc, good, total, behind, before, got, reported>>

-----------------------------------------------------------------------------
(* recv_from_client *)
crc_is_equal_Always(p) == TRUE
crc_is_equal(p)        == crc_32(PayloadOf(p), LengthOf(p)) = CrcOf(p)

Recv ==
  /\ pc \in {"send", "closed"}
  /\ \E n \in Cuts :
       /\ n <= total
       /\ got' = n
  /\ pc' = "received"
  /\ UNCHANGED <<message, from, to, good, total, behind, damage, before, reported>>

(* recv fails or finds nothing: the task closes the connection.             *)
RecvFails ==
  /\ pc \in {"send", "closed"}
  /\ pc' = "ended"
  /\ UNCHANGED <<message, from, to, good, total, behind, damage, before, got, reported>>

(* A length beyond the payload makes crc_32 read beyond the packet.  A      *)
(* false checksum is reported, and the packet is handled as any other.      *)
Check ==
  /\ pc = "received"
  /\ IF LengthOf(Received) > PayloadSize
     THEN pc' = "overread" /\ UNCHANGED reported
     ELSE pc' = "handled" /\ reported' = ~crc_is_equal(Received)
  /\ UNCHANGED <<message, from, to, good, total, behind, damage, before, got>>

Next ==
  \/ Build \/ SendFirst \/ SendRest \/ SendFails \/ Damage
  \/ Recv \/ RecvFails \/ Check

Spec == Init /\ [][Next]_vars

-----------------------------------------------------------------------------
(***************************************************************************)
(* Properties                                                              *)
(***************************************************************************)
TypeOK ==
  /\ message \in Messages
  /\ from \in Orders /\ to \in Orders
  /\ pc \in {"build", "overflow", "send", "closed", "received", "overread", "handled", "ended"}
  /\ good \in 0..total /\ total \in 0..PacketSize /\ got \in 0..total
  /\ behind \in {0} \cup Behind
  /\ DOMAIN damage \subseteq 0..PayloadSize - 1
  /\ \A k \in DOMAIN damage : damage[k] \in Flips
  /\ before \in {Blank} \cup Messages
  /\ reported \in BOOLEAN

(* The checksum in a packet is the CRC-32 of the bytes that its length      *)
(* counts: table and loop of libcrc compute what the division of            *)
(* polynomials defines (task.c:204, crc32.c:52-68, crc32_table.c:46-65).    *)
ChecksumIsCrc32 ==
  pc = "send" /\ total = 0 =>
    LET p == Packets[<<from, message>>]
    IN  CrcOf(p) = Checksum(PayloadOf(p), LengthOf(p))

(* A packet of which the first send and the recv have covered the part that *)
(* is used is understood whatever the hosts, also when the rest of it was   *)
(* sent from the wrong memory or never                                      *)
(* (task.c:84-106, 185-203, 482-515, 592-597, 661-662).                     *)
Covered ==
  got >= HEADER + Length(Content[message]) /\ good >= HEADER + Length(Content[message])
Whole   == Covered /\ damage = None

WholeIsUnderstood ==
  pc = "handled" /\ Whole =>
    /\ Received[1] = Content[message].typ
    /\ Understood(to, PayloadOf(Received), Content[message])

(* The length has 16 bits and the counter in front of the members 8; they   *)
(* are computed and cut off apart.  In a packet that has been covered and   *)
(* is not reported they agree: the checksum covers all that the sender has  *)
(* written and exactly the entries that the receiver reads.  What does not  *)
(* fit is written beyond the payload ("overflow") and is not meant here     *)
(* (task.c:161-203, 326-374, 482-515, 676-679).                             *)
LengthCovers ==
  pc = "handled" /\ Covered /\ ~reported =>
    LET size == LengthOf(Received)
    IN  /\ IsList(Content[message]) => size = Address(PayloadOf(Received)[0])
        /\ \A k \in Written(Content[message]) : k < size

(* A packet that has been covered is reported if and only if the network    *)
(* has damaged it: both ends compute the checksum of the same bytes, and it *)
(* tells a change of up to four adjacent ones                               *)
(* (task.c:84-106, 204, 661-725, crc32.c:52-68, crc32_table.c:46-65).       *)
ChecksumDecides == pc = "handled" /\ Covered => (reported <=> damage # None)

(* Any packet that is handled without a report has the payload of the       *)
(* message or that of the packet the stack still held, all of it, whatever  *)
(* was cut off, read from behind the packet or damaged, or else its header  *)
(* says that it is empty; and its type belongs to the same packet unless    *)
(* the header was cut off (task.c:84-106, 204, 661-725).                    *)
Genuine(p) ==
  /\ LengthOf(Received) = LengthOf(p)
  /\ \A k \in HEADER..HEADER + LengthOf(p) - 1 : Received[k] = p[k]
  /\ got < HEADER \/ Received[1] = p[1]

ReportsAreRight ==
  /\ ChecksumDecides
  /\ pc = "handled" => \/ reported \/ LengthOf(Received) = 0
                       \/ Genuine(Packets[<<from, message>>]) \/ Genuine(Old)
=============================================================================
