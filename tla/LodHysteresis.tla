----------------------------- MODULE LodHysteresis -----------------------------
(***************************************************************************)
(* One entity moving about one client: in every tick the server derives    *)
(* the tier to send from the distance and the tier it sent last, and sends *)
(* whenever the two differ.  The budget is ample, so the tier sent is the  *)
(* tier desired.                                                           *)
(***************************************************************************)
EXTENDS NetworkLod

VARIABLES
  distance,   \* from the observer to the entity, inside the interest sphere
  cap,        \* EntityReplication::lod
  lastLod,    \* ClientEntityReplication::last_sent_lod
  change      \* history variable: the last change of tier under this cap, and where

lodVars == <<distance, cap, lastLod, change>>

SentLod == Lod \cup {NoLod}
NoChange == [from |-> NoLod, to |-> NoLod, at |-> 0]

LodTypeOK ==
  /\ distance \in 0..InterestRadius
  /\ cap \in Lod
  /\ lastLod \in SentLod
  /\ change \in [from : SentLod, to : SentLod, at : 0..InterestRadius]

LodInit ==
  /\ distance \in 0..InterestRadius
  /\ cap \in Lod
  /\ lastLod = NoLod
  /\ change = NoChange

\* move_entity or update_client_position: any new distance in one step
Move ==
  /\ distance' \in 0..InterestRadius
  /\ UNCHANGED <<cap, lastLod, change>>

\* set_entity_lod: game code forces another upper bound.
SetEntityLod ==
  /\ cap' \in Lod
  /\ change' = NoChange
  /\ UNCHANGED <<distance, lastLod>>

\* The entity leaves the client's view, and its per-client state is dropped.
Exit ==
  /\ lastLod' = NoLod
  /\ change' = NoChange
  /\ UNCHANGED <<distance, cap>>

\* A tick sends the desired tier, with the last sent one as context.
Select ==
  /\ lastLod' = DesiredLod(cap, distance, lastLod)
  /\ change' = IF lastLod \in {NoLod, lastLod'}
                 THEN change
                 ELSE [from |-> lastLod, to |-> lastLod', at |-> distance]
  /\ UNCHANGED <<distance, cap>>

LodNext == Move \/ SetEntityLod \/ Exit \/ Select

LodSpec == LodInit /\ [][LodNext]_lodVars

-------------------------------------------------------------------------------

(* Settled: with nothing moving, a second selection asks for the tier the    *)
(* first one sent, whatever was sent before; a clean entity at a fixed       *)
(* distance is therefore sent at most once more, never for ever.             *)
SettledAfterOneSend ==
  LET sent == DesiredLod(cap, distance, lastLod)
  IN  DesiredLod(cap, distance, sent) = sent

(* No flapping: under one cap, a change of tier is undone only after the     *)
(* distance has moved by more than the hysteresis since that change, so an   *)
(* entity jittering on the edge of a band keeps its tier.                    *)
UndoNeedsDistance ==
  (change.from = lastLod' /\ change.to = lastLod /\ lastLod' # lastLod)
    => (lastLod' = NoLod \/ distance - change.at > Hysteresis
                         \/ change.at - distance > Hysteresis)

NoFlapping == [][UndoNeedsDistance]_lodVars

===============================================================================
