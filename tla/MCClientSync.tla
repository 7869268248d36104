----------------------------- MODULE MCClientSync -----------------------------
(***************************************************************************)
(* The runtime, the network and the client in environments of different    *)
(* kindness.  Everything starts with the entities spawned and the clients  *)
(* connected; entities then move, which changes what a client sees of them *)
(* and in which tier, and so with which payload.                           *)
(***************************************************************************)
EXTENDS ClientSync

MCPayloadBytes == [full |-> 4, reduced |-> 2, minimal |-> 1]
MCPayload == DOMAIN MCPayloadBytes
MCVariant == [Full |-> "full", Reduced |-> "reduced", Minimal |-> "minimal"]
MCVariants == {MCVariant}

Spawned(p) ==
  [position |-> p, payloads |-> MCVariant, bytes |-> PayloadLengths(MCVariant),
   priority |-> 1, lod |-> "Full"]

StartInit ==
  /\ tick = 0
  /\ clients = [c \in Client |-> 0]
  /\ \E at \in [Entity -> Position] : entities = [e \in Entity |-> Spawned(at[e])]
  /\ graph = [c \in Client |-> NewClient]
  /\ history = [c \in Client |-> <<>>]
  /\ acks = [c \in Client |-> NoSnapshot]
  /\ received = [c \in Client |-> NoSnapshot]
  /\ sent = [c \in Client |-> {}]
  /\ view = [c \in Client |-> NoContents]
  /\ inFlight = [c \in Client |-> {}]
  /\ acksInFlight = {}

-------------------------------------------------------------------------------
(* The environments, with game code that only moves entities *)

Moves == \E e \in Entity, p \in Position : Move(e, p)
Homecomings == Settled /\ \E c \in Client : Join(c, 0)

MovesInSessions ==
  StartInit /\ [][Moves \/ TicksWhenSettled \/ Delivers \/ Acks \/ Pump
                    \/ Homecomings \/ Leaves]_allVars

\* All is delivered and acknowledged at once, and game code despawns.
MovesAndDespawns ==
  StartInit /\ [][Moves \/ TicksWhenSettled \/ Delivers \/ Acks \/ Pump \/ Despawns]_allVars

\* Deltas may be lost; those that arrive are acknowledged before the next tick.
MovesWithLosses ==
  StartInit /\ [][Moves \/ TicksWhenSettled \/ Delivers \/ Acks \/ Pump \/ Loses]_allVars

\* Nothing is lost or reordered, but acknowledgements take longer than a tick.
MovesWithDelays == StartInit /\ [][Moves \/ ServerTick \/ Delivers \/ Acks \/ Pump]_allVars
===============================================================================
