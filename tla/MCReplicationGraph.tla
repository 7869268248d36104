-------------------------- MODULE MCReplicationGraph --------------------------
(* Small instances of ReplicationGraph for TLC. *)
EXTENDS ReplicationGraph

\* an entity at full detail takes the whole budget, the cheapest tier of two fits
MCByteChoices == { [Full |-> 4, Reduced |-> 2, Minimal |-> 2] }
===============================================================================
