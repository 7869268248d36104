------------------------------ MODULE ServerParts ------------------------------
(***************************************************************************)
(* The parts of the server beside replication, each by itself: they share  *)
(* no state, so that any interleaving of them is, for each of them, a      *)
(* behaviour of its own specification.  Which one runs is chosen at the    *)
(* start, which explores their sum and not their product.                  *)
(***************************************************************************)
EXTENDS LodHysteresis, TickScheduler, LagHistory, CellRouting, GridAoi

VARIABLE part

Parts == {"lod", "scheduler", "lag", "routing", "grid"}

PartsInit ==
  /\ part \in Parts
  /\ LodInit /\ (part # "lod" => distance = 0 /\ cap = "Full")
  /\ SchedulerInit
  /\ LagInit
  /\ RoutingInit
  /\ GridInit

PartsNext ==
  /\ UNCHANGED part
  /\ \/ part = "lod" /\ LodNext
        /\ UNCHANGED <<schedulerVars, lagVars, routingVars, gridVars>>
     \/ part = "scheduler" /\ SchedulerNext
        /\ UNCHANGED <<lodVars, lagVars, routingVars, gridVars>>
     \/ part = "lag" /\ LagNext
        /\ UNCHANGED <<lodVars, schedulerVars, routingVars, gridVars>>
     \/ part = "routing" /\ RoutingNext
        /\ UNCHANGED <<lodVars, schedulerVars, lagVars, gridVars>>
     \/ part = "grid" /\ GridNext
        /\ UNCHANGED <<lodVars, schedulerVars, lagVars, routingVars>>

PartsSpec == PartsInit /\ [][PartsNext]_<<part, lodVars, schedulerVars, lagVars, routingVars, gridVars>>

\* the types of all the parts
PartsTypeOK == LodTypeOK /\ SchedulerTypeOK /\ LagTypeOK /\ RoutingTypeOK /\ GridTypeOK
===============================================================================
