------------------------------ MODULE CellRouting ------------------------------
(***************************************************************************)
(* gridwake-server's cell ownership and event hand-off: cells are owned by *)
(* regions, an event between two cells is queued for the region that owns  *)
(* its target when it is enqueued, or as unowned, and the embedding code   *)
(* drains the queues one region at a time or all in batches.               *)
(***************************************************************************)
EXTENDS Integers, Sequences, FiniteSets, Maps

CONSTANTS
  Cell,
  Region,      \* RegionId, ordered by value
  MaxEvents    \* bound of the model on events

ASSUME RoutingAssumption == Region \subseteq Nat /\ MaxEvents \in Nat

NoRegion == -1

VARIABLES
  cell_owners,           \* the region of each cell that has one
  region_cell_events,    \* queues of routed events, of the regions that have one
  unowned_cell_events,   \* the queue of those whose target has no owner
  enqueued,              \* history: events so far, each is known by its number
  handedOver             \* history: the batches drained, in order, and where each was queued

queues == <<region_cell_events, unowned_cell_events>>
routingVars == <<cell_owners, queues, enqueued, handedOver>>

\* RoutedCellEvent: the owners CellRoute holds, and the number for its event
RoutedCellEvent ==
  [id : 1..MaxEvents,
   source_owner : Region \cup {NoRegion}, target_owner : Region \cup {NoRegion}]

\* RegionEventBatch, or what one drain of a queue returns
Batch == [from : Region \cup {NoRegion}, events : Seq(RoutedCellEvent) \ {<<>>}]

RoutingTypeOK ==
  /\ \E C \in SUBSET Cell : cell_owners \in [C -> Region]
  /\ \E R \in SUBSET Region : region_cell_events \in [R -> Seq(RoutedCellEvent) \ {<<>>}]
  /\ unowned_cell_events \in Seq(RoutedCellEvent)
  /\ enqueued \in 0..MaxEvents
  /\ handedOver \in Seq(Batch)

RoutingInit ==
  /\ cell_owners = EmptyMap
  /\ region_cell_events = EmptyMap
  /\ unowned_cell_events = <<>>
  /\ enqueued = 0
  /\ handedOver = <<>>

-------------------------------------------------------------------------------

SetCellOwner(cell, owner) ==
  /\ cell_owners' = Put(cell_owners, cell, owner)
  /\ UNCHANGED <<queues, enqueued, handedOver>>

ClearCellOwner(cell) ==
  /\ cell_owners' = Drop(cell_owners, {cell})
  /\ UNCHANGED <<queues, enqueued, handedOver>>

CellOwner(cell) == IF cell \in DOMAIN cell_owners THEN cell_owners[cell] ELSE NoRegion

\* route_cell_event
RouteCellEvent(id, source, target) ==
  [id |-> id, source_owner |-> CellOwner(source), target_owner |-> CellOwner(target)]

RegionQueue(r) == IF r \in DOMAIN region_cell_events THEN region_cell_events[r] ELSE <<>>

\* Mutant: an event stays with the region it comes from.
SourceDestination(routed) == routed.source_owner

\* where enqueue_cell_event queues an event
Destination(routed) == routed.target_owner

EnqueueCellEvent(source, target) ==
  /\ enqueued < MaxEvents
  /\ enqueued' = enqueued + 1
  /\ LET routed == RouteCellEvent(enqueued + 1, source, target)
         owner == Destination(routed)
     IN  IF owner # NoRegion
           THEN /\ region_cell_events' =
                     Put(region_cell_events, owner, Append(RegionQueue(owner), routed))
                /\ UNCHANGED unowned_cell_events
           ELSE /\ unowned_cell_events' = Append(unowned_cell_events, routed)
                /\ UNCHANGED region_cell_events
  /\ UNCHANGED <<cell_owners, handedOver>>

\* What the caller gets when it drains a queue; an empty one is not remembered.
HandOver(from, queue) ==
  handedOver' = IF queue = <<>> THEN handedOver
                                ELSE Append(handedOver, [from |-> from, events |-> queue])

DrainRegionEvents(r) ==
  /\ HandOver(r, RegionQueue(r))
  /\ region_cell_events' = Drop(region_cell_events, {r})
  /\ UNCHANGED <<cell_owners, unowned_cell_events, enqueued>>

\* the regions with a queue, as sort_by_key orders their batches
TargetsInOrder ==
  CHOOSE targets \in [1..Cardinality(DOMAIN region_cell_events) -> DOMAIN region_cell_events] :
    \A i, j \in DOMAIN targets : i < j => targets[i] < targets[j]

\* drain_region_event_batches: no queue in the map is empty
RegionEventBatches ==
  [i \in DOMAIN TargetsInOrder |->
     [from |-> TargetsInOrder[i], events |-> region_cell_events[TargetsInOrder[i]]]]

\* Mutant: what was dispatched stays queued.
DispatchRegionEventsAgain ==
  /\ handedOver' = handedOver \o RegionEventBatches
  /\ UNCHANGED <<cell_owners, queues, enqueued>>

\* dispatch_region_events: batch by batch to the sink
DispatchRegionEvents ==
  /\ handedOver' = handedOver \o RegionEventBatches
  /\ region_cell_events' = EmptyMap
  /\ UNCHANGED <<cell_owners, unowned_cell_events, enqueued>>

DrainUnownedCellEvents ==
  /\ HandOver(NoRegion, unowned_cell_events)
  /\ unowned_cell_events' = <<>>
  /\ UNCHANGED <<cell_owners, region_cell_events, enqueued>>

RoutingNext ==
  \/ \E cell \in Cell, r \in Region : SetCellOwner(cell, r)
  \/ \E cell \in Cell : ClearCellOwner(cell)
  \/ \E source, target \in Cell : EnqueueCellEvent(source, target)
  \/ \E r \in Region : DrainRegionEvents(r)
  \/ DispatchRegionEvents
  \/ DrainUnownedCellEvents

RoutingSpec == RoutingInit /\ [][RoutingNext]_routingVars

-------------------------------------------------------------------------------

Destinations == Region \cup {NoRegion}

Queue(r) == IF r = NoRegion THEN unowned_cell_events ELSE RegionQueue(r)

\* The batches handed over, then what is queued for r; the places of r's events
\* in them, and the order they are in.
Batches(r) == Append(handedOver, [from |-> r, events |-> Queue(r)])
Places(r) ==
  UNION {{i} \X DOMAIN Batches(r)[i].events :
           i \in {i \in DOMAIN Batches(r) : Batches(r)[i].from = r}}
EventAt(r, p) == Batches(r)[p[1]].events[p[2]]
Earlier(p, q) == p[1] < q[1] \/ (p[1] = q[1] /\ p[2] < q[2])

(* Exactly once, in order: however owners change while events are queued,     *)
(* every event enqueued is handed over or still queued exactly once, and the  *)
(* events for one destination keep the order they were enqueued in.           *)
OnceAndInOrder ==
  /\ \A r \in Destinations : \A p, q \in Places(r) :
       Earlier(p, q) => EventAt(r, p).id < EventAt(r, q).id
  /\ \A id \in 1..enqueued :
       Cardinality({r \in Destinations : \E p \in Places(r) : EventAt(r, p).id = id}) = 1

(* No event changes its destination: it goes to the owner its route names,    *)
(* also when the cell has another owner, or none, by the time it is drained.  *)
GoesWhereRouted ==
  \A r \in Destinations : \A p \in Places(r) : EventAt(r, p).target_owner = r
===============================================================================
