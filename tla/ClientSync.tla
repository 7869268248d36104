------------------------------ MODULE ClientSync ------------------------------
(***************************************************************************)
(* The runtime, a datagram network and the Godot demo client.  The network *)
(* may lose deltas and delay them and their acknowledgements; the client   *)
(* applies every delta it gets to what it shows, whatever baseline the     *)
(* delta names, and acknowledges it at once.                               *)
(***************************************************************************)
EXTENDS ServerRuntime

VARIABLES
  view,           \* per client, the entities it shows and their payloads
  inFlight,       \* per client, the deltas under way to it
  acksInFlight    \* acknowledgements under way to the server

network == <<inFlight, acksInFlight>>
allVars == <<vars, view, network>>

SyncTypeOK ==
  /\ TypeOK
  /\ view \in [Client -> Contents]
  /\ inFlight \in [Client -> SUBSET Delta]
  /\ acksInFlight \subseteq Client \X Nat

SyncInit ==
  /\ Init
  /\ view = [c \in Client |-> NoContents]
  /\ inFlight = [c \in Client |-> {}]
  /\ acksInFlight = {}

-------------------------------------------------------------------------------
(* The server's side *)

ServerTick ==
  /\ AdvanceTick
  /\ inFlight' = [c \in Client |-> inFlight[c] \cup sent'[c]]
  /\ UNCHANGED <<view, acksInFlight>>

Pump == PumpTransport /\ UNCHANGED <<view, network>>

\* Game code and sessions do not touch what is under way.
Game(e) == EntityStep(e) /\ UNCHANGED <<view, network>>
Walk(c, p) == UpdateClientPosition(c, p) /\ UNCHANGED <<view, network>>
Move(e, p) == MoveEntity(e, p) /\ UNCHANGED <<view, network>>
Despawn(e) == DespawnEntity(e) /\ UNCHANGED <<view, network>>

\* A client process starts and connects: it shows nothing.
Join(c, p) ==
  /\ c \notin DOMAIN clients
  /\ ConnectClient(c, p)
  /\ view' = [view EXCEPT ![c] = NoContents]
  /\ UNCHANGED network

Leave(c) ==
  /\ c \in DOMAIN clients
  /\ DisconnectClient(c)
  /\ UNCHANGED <<view, network>>

-------------------------------------------------------------------------------
(* The network *)

\* datagrams that arrive in the order they were sent
Oldest(c, d) == \A other \in inFlight[c] : d.sequence <= other.sequence

Lose(c, d) ==
  /\ d \in inFlight[c]
  /\ inFlight' = [inFlight EXCEPT ![c] = @ \ {d}]
  /\ UNCHANGED <<vars, view, acksInFlight>>

AckArrives(m) ==
  /\ m \in acksInFlight
  /\ ReceiveAck(m[1], m[2])
  /\ acksInFlight' = acksInFlight \ {m}
  /\ UNCHANGED <<view, inFlight>>

-------------------------------------------------------------------------------
(* The client *)

\* _apply_snapshot: acknowledge, then apply the operations
ApplySnapshot(c, d) ==
  /\ d \in inFlight[c]
  /\ view' = [view EXCEPT ![c] = ApplyOps(@, d.ops)]
  /\ acksInFlight' = acksInFlight \cup {<<c, d.sequence>>}
  /\ inFlight' = [inFlight EXCEPT ![c] = @ \ {d}]
  /\ UNCHANGED vars

-------------------------------------------------------------------------------
(* Environments of different kindness *)

\* nothing is under way between the server and its clients
Settled ==
  /\ \A c \in Client : inFlight[c] = {}
  /\ acksInFlight = {}
  /\ \A c \in Client : received[c] = NoSnapshot

Games == \E e \in Entity : Game(e)
Despawns == \E e \in Entity : Despawn(e)
Walks == \E c \in Client, p \in Position : Walk(c, p)
Joins == Settled /\ \E c \in Client, p \in Position : Join(c, p)
Leaves == Settled /\ \E c \in Client : Leave(c)
TicksWhenSettled == Settled /\ ServerTick

\* Deltas and acknowledgements arrive in the order they were sent.
Delivers == \E c \in Client : \E d \in inFlight[c] : Oldest(c, d) /\ ApplySnapshot(c, d)
Acks == \E m \in acksInFlight :
          /\ \A other \in acksInFlight : m[2] <= other[2]
          /\ AckArrives(m)
\* Not so many in a row that the frame a client has acknowledged is evicted.
Loses ==
  \E c \in Client : \E d \in inFlight[c] :
    acks[c] \in {NoSnapshot} \cup HistorySequences(history[c]) /\ Lose(c, d)

(* A local network and a slow tick: all is delivered and acknowledged in      *)
(* between.  Clients leave, and come back under their old id.                 *)
SessionNext ==
  Games \/ Walks \/ TicksWhenSettled \/ Delivers \/ Acks \/ Pump \/ Joins \/ Leaves
SessionSpec == SyncInit /\ [][SessionNext]_allVars

\* Deltas may be lost; those that arrive are acknowledged before the next tick.
LossyNext ==
  Games \/ Despawns \/ Walks \/ TicksWhenSettled \/ Delivers \/ Acks \/ Pump \/ Joins \/ Loses
LossySpec == SyncInit /\ [][LossyNext]_allVars

-------------------------------------------------------------------------------
(* What a client should show *)

Connected(c) == c \in DOMAIN clients

\* the server takes e as delivered to c: seen, unchanged since it was sent
Delivered(c) ==
  {e \in graph[c].visible : graph[c].known[e].freshness = "current"}

\* the payload it takes c to have
DeliveredPayload(c, e) == entities[e].payloads[graph[c].known[e].lod]

ShowsDelivered(c) ==
  \A e \in Delivered(c) : e \in DOMAIN view[c] /\ view[c][e] = DeliveredPayload(c, e)

(* No stale entity: once nothing is under way, what the server takes for      *)
(* delivered is what the client shows.                                        *)
NothingStale == Settled => \A c \in DOMAIN clients : ShowsDelivered(c)

(* No ghosts: once nothing is under way, everything a client shows is a       *)
(* spawned entity that the server has in the client's view.                   *)
NoGhosts ==
  Settled => \A c \in DOMAIN clients : DOMAIN view[c] \subseteq graph[c].visible

(* A client shows the frame it has acknowledged, entity for entity, as long   *)
(* as the server keeps that frame to compute deltas from.                     *)
ViewIsAckedFrame ==
  Settled => \A c \in DOMAIN clients :
    acks[c] \in HistorySequences(history[c]) =>
      view[c] = HistoryGet(history[c], acks[c]).contents

(* A dropped delta is repaired by a later one: a client that has applied and  *)
(* acknowledged the newest frame shows all the server takes for delivered.    *)
RepairedByLaterDeltas ==
  Settled => \A c \in DOMAIN clients :
    acks[c] = LatestSequence(history[c]) => ShowsDelivered(c)
===============================================================================
