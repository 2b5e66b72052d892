-------------------------------- MODULE Crc32 --------------------------------
(***************************************************************************)
(* The checksum of task.c: crc_32 of libcrc/src/crc32.c with the table     *)
(* that libcrc/precalc/crc32_table.c computes when the library is built.   *)
(* A word is the set of the positions of its ones, 0 the least significant.*)
(* Beside it the definition it should agree with, a division of            *)
(* polynomials over GF(2).  A polynomial is the set of its exponents.      *)
(***************************************************************************)
EXTENDS Naturals, FiniteSets

Xor(a, b)        == (a \ b) \cup (b \ a)
ShiftRight(w, k) == {i - k : i \in {j \in w : j >= k}}
Ones             == 0..31                        (* 0xFFFFFFFF *)
LowByte          == 0..7                         (* 0x000000FF *)
BitsOf           == [b \in 0..255 |-> {i \in LowByte : (b \div 2^i) % 2 = 1}]

CRC_START_32 == Ones
CRC_POLY_32  == {31, 30, 29, 27, 26, 24, 23, 21, 20, 19, 15, 9, 8, 5}  (* 0xEDB88320 *)

-----------------------------------------------------------------------------
(* init_crc32_tab: eight rounds for every byte. *)
Round_NoCarry(crc) == ShiftRight(crc, 1)
Round(crc) ==
  IF 0 \in crc THEN Xor(ShiftRight(crc, 1), CRC_POLY_32) ELSE ShiftRight(crc, 1)

crc_tab32 ==
  [byte \in SUBSET LowByte |->
     LET crc[j \in 0..8] == IF j = 0 THEN byte ELSE Round(crc[j - 1])
     IN  crc[8]]

(* update_crc_32, which is also the body of the loop of crc_32. *)
update_crc_32(crc, c) ==
  Xor(ShiftRight(crc, 8), crc_tab32[Xor(crc, BitsOf[c]) \cap LowByte])

(* crc_32 of the bytes s[0], ..., s[n - 1]. *)
crc_32(s, n) ==
  LET crc[a \in 0..n] ==
        IF a = 0 THEN CRC_START_32 ELSE update_crc_32(crc[a - 1], s[a - 1])
  IN  Xor(crc[n], Ones)

-----------------------------------------------------------------------------
(* The remainder of a polynomial by the generator of CRC-32 is the sum of   *)
(* the remainders of its powers of x.  The square of a polynomial has the   *)
(* doubled exponents.                                                       *)
Generator == {32, 26, 23, 22, 16, 12, 11, 10, 8, 7, 5, 4, 2, 1, 0}

Divided(p) ==
  LET r[e \in 31..63] ==
        IF e = 63 THEN p
        ELSE LET q == r[e + 1]
             IN  IF e + 1 \in q THEN Xor(q, {g + e - 31 : g \in Generator}) ELSE q
  IN  r[31]

Power[e \in Nat] ==
  IF e < 32 THEN {e} ELSE Divided({2 * i + (e % 2) : i \in Power[e \div 2]})

Remainder(p) ==
  LET power == [e \in p |-> Power[e]]
  IN  {i \in Ones : Cardinality({e \in p : i \in power[e]}) % 2 = 1}

(* The bits of a message in the order in which they are sent, the lowest of *)
(* a byte first, are the coefficients from the highest exponent down.  The  *)
(* first 32 are inverted, and so is the remainder of the message times      *)
(* x^32, which is sent from x^31 down to 1.                                 *)
Message(s, n) ==
  UNION {{8 * n + 31 - (8 * a + j) : j \in BitsOf[s[a]]} : a \in 0..n - 1}

Checksum(s, n) ==
  LET top == {8 * n + i : i \in Ones}
      r   == Remainder(Xor(Message(s, n), top))
  IN  Xor({31 - e : e \in r}, Ones)
=============================================================================
