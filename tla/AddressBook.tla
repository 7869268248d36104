------------------------------ MODULE AddressBook ------------------------------
(***************************************************************************)
(* What a datagram transport promises about routing: at any time a client  *)
(* has at most one address and an address at most one client, and          *)
(* registering a pair takes both sides over from whoever had them.         *)
(***************************************************************************)
CONSTANTS Client, Address

VARIABLE book   \* the pairs of a client and its address

Init == book = {}

Register(c, a) ==
  book' = {pair \in book : pair[1] # c /\ pair[2] # a} \cup {<<c, a>>}

Remove(c) == book' = {pair \in book : pair[1] # c}

Next ==
  \/ \E c \in Client, a \in Address : Register(c, a)
  \/ \E c \in Client : Remove(c)

Spec == Init /\ [][Next]_book
===============================================================================
