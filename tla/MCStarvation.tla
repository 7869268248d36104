------------------------------ MODULE MCStarvation ------------------------------
(***************************************************************************)
(* Competition for the budget: every entity is there and seen from the     *)
(* start, any of them changes at any time, and only one or two fit into a  *)
(* selection.  The selector's answers come from a few patterns.            *)
(***************************************************************************)
EXTENDS Replication

\* entity 1 is urgent; 2 always takes the whole budget; 3 is cheap at a distance
MCEntities ==
  << [bytes |-> [Full |-> 4, Reduced |-> 2, Minimal |-> 1], priority |-> 2, lod |-> "Full"],
     [bytes |-> [Full |-> 4, Reduced |-> 4, Minimal |-> 4], priority |-> 1, lod |-> "Full"],
     [bytes |-> [Full |-> 3, Reduced |-> 3, Minimal |-> 2], priority |-> 1, lod |-> "Full"] >>

MCByteChoices == {MCEntities[e].bytes : e \in Entity}
MCPriorities == {MCEntities[e].priority : e \in Entity}

Desires == { [e \in Entity |-> "Full"], [e \in Entity |-> "Minimal"] }

StarvationInit ==
  /\ entities = [e \in Entity |-> MCEntities[e]]
  /\ clients = [c \in Client |-> [NewClient EXCEPT !.visible = Entity]]

Selects(c) == \E desired \in Desires : SelectForClient(c, desired)

StarvationNext ==
  \/ \E e \in Entity : MarkDirty(e)
  \/ \E c \in Client : Selects(c)

(* The server's tick selects for every client, whatever game code does to the *)
(* entities in between: weak fairness of each client's selection.             *)
StarvationSpec ==
  /\ StarvationInit
  /\ [][StarvationNext]_vars
  /\ \A c \in Client : WF_vars(Selects(c))
===============================================================================
