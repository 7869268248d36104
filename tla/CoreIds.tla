------------------------------- MODULE CoreIds -------------------------------
(* The identifiers of gridwake-core that the other crates share. *)
EXTENDS Integers

CONSTANTS
  Client,   \* ClientId
  Entity    \* EntityId, a u64 the code orders by value

ASSUME IdAssumption == Entity \subseteq Nat
===============================================================================
