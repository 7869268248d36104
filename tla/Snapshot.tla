------------------------------- MODULE Snapshot -------------------------------
(***************************************************************************)
(* gridwake-snapshot: frames, delta operations, the per-client history of  *)
(* frames and the tracker of acknowledged sequences, as operators on their *)
(* values.  The modules that keep such values as state apply them.         *)
(*                                                                         *)
(* The contents of a frame are a function from the entities it holds to    *)
(* their payloads.  The operations of a delta are a function from the      *)
(* entities it names to what is done to them: no list the code builds      *)
(* names an entity twice, and the order of operations on different         *)
(* entities makes no difference to who applies them.                       *)
(***************************************************************************)
EXTENDS CoreIds, Sequences, FiniteSets, Functions

CONSTANTS
  Payload,        \* encoded entity states
  PayloadBytes    \* [Payload -> Nat], their lengths

ASSUME SnapshotAssumption == PayloadBytes \in [Payload -> Nat]

Contents == UNION {[S -> Payload] : S \in SUBSET Entity}
NoContents == [e \in {} |-> e]

(* Sequences are ticks, the first of which is 1: 0 stands for "no snapshot",  *)
(* as a baseline and as the sequence a client has acknowledged.               *)
NoSnapshot == 0

Frame == [sequence : Nat, contents : Contents]

-------------------------------------------------------------------------------
(* DeltaOp and DeltaSnapshot *)

SpawnOrEnter(p) == [op |-> "SpawnOrEnter", payload |-> p]
Update(p) == [op |-> "Update", payload |-> p]
DespawnOrExit == [op |-> "DespawnOrExit"]

DeltaOp ==
  [op : {"SpawnOrEnter", "Update"}, payload : Payload] \cup {DespawnOrExit}

Ops == UNION {[S -> DeltaOp] : S \in SUBSET Entity}

Delta == [sequence : Nat, baseline : Nat, ops : Ops]

Removed(ops) == {e \in DOMAIN ops : ops[e].op = "DespawnOrExit"}
Written(ops) == DOMAIN ops \ Removed(ops)

\* DeltaOp::estimated_bytes and its sum over a delta
OpBytes(op) == IF op.op = "DespawnOrExit" THEN 8 ELSE PayloadBytes[op.payload]
DeltaBytes(ops) == SumFunction([e \in DOMAIN ops |-> OpBytes(ops[e])])

\* What the operations mean to who applies them to the contents it holds.
ApplyOps(contents, ops) ==
  [e \in (DOMAIN contents \cup Written(ops)) \ Removed(ops) |->
     IF e \in DOMAIN ops THEN ops[e].payload ELSE contents[e]]

(* build_delta: with no baseline everything is an enter, otherwise only what  *)
(* differs is named.                                                          *)
BuildDelta(baseline, current) ==
  LET changed == {e \in DOMAIN current :
                    e \notin DOMAIN baseline \/ baseline[e] # current[e]}
      gone == DOMAIN baseline \ DOMAIN current
  IN  [e \in changed \cup gone |->
         CASE e \in gone -> DespawnOrExit
           [] e \in changed \cap DOMAIN baseline -> Update(current[e])
           [] OTHER -> SpawnOrEnter(current[e])]

-------------------------------------------------------------------------------
(* SnapshotHistory: the frames kept for one client, oldest first *)

\* Mutant: one frame too many is kept.
HistoryInsertOneTooMany(frames, frame, capacity) ==
  LET pushed == Append(frames, frame)
  IN  IF Len(pushed) - capacity > 1 THEN SubSeq(pushed, 2, Len(pushed)) ELSE pushed

\* insert: push at the back, drop from the front beyond the capacity
HistoryInsert(frames, frame, capacity) ==
  LET pushed == Append(frames, frame)
      excess == Len(pushed) - capacity
  IN  IF excess > 0 THEN SubSeq(pushed, excess + 1, Len(pushed)) ELSE pushed

HistorySequences(frames) == {frames[i].sequence : i \in DOMAIN frames}

\* get: the frame of a sequence that HistorySequences holds
HistoryGet(frames, sequence) ==
  frames[CHOOSE i \in DOMAIN frames :
           /\ frames[i].sequence = sequence
           /\ \A j \in DOMAIN frames : frames[j].sequence = sequence => i <= j]

LatestSequence(frames) ==
  IF frames = <<>> THEN NoSnapshot ELSE frames[Len(frames)].sequence

LatestContents(frames) ==
  IF frames = <<>> THEN NoContents ELSE frames[Len(frames)].contents

-------------------------------------------------------------------------------
(* AckTracker: the highest sequence a client has acknowledged *)

\* ack: an older acknowledgement changes nothing
Ack(current, sequence) == IF sequence > current THEN sequence ELSE current
===============================================================================
