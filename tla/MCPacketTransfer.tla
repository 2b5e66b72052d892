-------------------------- MODULE MCPacketTransfer --------------------------
(* PacketTransfer for lists of one to three members and short texts.  Three *)
(* members do not fit into a payload of 60 bytes, as 20 do not into 400.    *)
EXTENDS PacketTransfer, TLC

Name(first, length) ==
  [j \in 0..ID_LENGTH - 1 |-> IF j < length THEN first + j ELSE 0]

(* Names of two, sixteen and eleven letters. *)
Somebody ==
  (0 :> [ip |-> [k \in 0..3 |-> 10 + 60 * k], id |-> Name(65, 2)]) @@
  (1 :> [ip |-> [k \in 0..3 |-> 192 - k], id |-> Name(97, 16)]) @@
  (2 :> [ip |-> [k \in 0..3 |-> k], id |-> Name(75, 11)])

FirstOf(n)  == [i \in 0..n - 1 |-> Somebody[i]]
Text(n)     == [k \in 0..n - 1 |-> IF k = n - 1 THEN 0 ELSE 104 - k]

SignIns == "sign in 1" :> 1 @@ "sign in 2" :> 2 @@ "sign in 3" :> 3
Replies == "list 1" :> 1 @@ "list 3" :> 3
Mixed   == {<<"little", "big">>, <<"big", "little">>}

SomeContent ==
  [m \in DOMAIN SignIns |-> [typ |-> SIGN_IN, n |-> SignIns[m], members |-> FirstOf(SignIns[m])]] @@
  [m \in DOMAIN Replies |-> [typ |-> MEMBER_LIST, n |-> Replies[m], members |-> FirstOf(Replies[m])]] @@
  ("sign out" :> [typ |-> SIGN_OUT, n |-> 3, text |-> Text(3)]) @@
  ("message" :> [typ |-> MESSAGE, n |-> 21, text |-> Text(21)])

SomeMessages == DOMAIN SomeContent
=============================================================================
