-------------------------- MODULE FragmentTransport --------------------------
(***************************************************************************)
(* The demo server's DemoUdpTransport, which splits a snapshot delta that  *)
(* does not fit a datagram into fragments, and the Godot client, which     *)
(* applies fragments as they come, counts them per snapshot, and           *)
(* acknowledges a snapshot with the last of them.  One client: transport   *)
(* and client keep nothing that relates one client to another.             *)
(*                                                                         *)
(* The network never forgets a datagram, so any of them may arrive late,   *)
(* again and again, or never; a send the socket refuses is one of those    *)
(* that never arrive.                                                      *)
(***************************************************************************)
EXTENDS Integers, SequencesExt, Maps

CONSTANTS
  Handed,         \* the deltas the runtime may hand to the transport
  MaxDatagram,    \* DemoUdpTransport::max_datagram_bytes
  MaxFragments,   \* u16::MAX, the largest fragment_count
  MaxPending,     \* max_pending_fragment_sequences, set in the editor
  MaxSequence     \* bound of the model on snapshots

ASSUME FragmentAssumption ==
  /\ MaxDatagram \in Nat /\ MaxFragments \in Nat
  /\ MaxPending \in Nat /\ MaxSequence \in Nat
  /\ \A d \in Handed : /\ d.ops \in Seq(Range(d.ops))
                        /\ \A op \in Range(d.ops) : op.op = "Exit" \/ op.length \in Nat

VARIABLES
  handed,       \* the deltas handed over, by their sequence
  datagrams,    \* what the socket has sent
  fragments,    \* snapshot_fragments: the pending snapshots
  order,        \* fragment_sequence_order: their sequences, oldest first
  applied,      \* operations applied, with the sequence they came under
  acks          \* sequences the client has acknowledged

server == <<handed, datagrams>>
fragVars == <<handed, datagrams, fragments, order, applied, acks>>

SnapshotId == 1..MaxSequence

FragInit ==
  /\ handed = <<>>
  /\ datagrams = {}
  /\ fragments = EmptyMap
  /\ order = <<>>
  /\ applied = {}
  /\ acks = {}

-------------------------------------------------------------------------------
(* Lengths on the wire.  An operation writes a payload of some length or      *)
(* takes an entity away; a delta has a baseline or none.                      *)

Write(e, n) == [op |-> "Write", entity |-> e, length |-> n]
Exit(e) == [op |-> "Exit", entity |-> e]

DeltaOpWireLen(op) == IF op.op = "Exit" THEN 1 + 8 ELSE 1 + 8 + 4 + op.length

EncodedOpsLen(ops) == FoldLeft(LAMBDA n, op : n + DeltaOpWireLen(op), 0, ops)

\* header, sequence, flag of the baseline, baseline, number of operations
EncodedDeltaLen(d) == 4 + 8 + 1 + (IF d.baseline THEN 8 ELSE 0) + 4 + EncodedOpsLen(d.ops)

\* what the transport reckons an empty fragment takes: index and count besides
SnapshotFragmentOverhead(baseline) == 4 + 8 + 1 + (IF baseline THEN 8 ELSE 0) + 2 + 2 + 4

EncodedLen(m) == EncodedDeltaLen(m) + (IF m.kind = "SnapshotFragment" THEN 2 + 2 ELSE 0)

Fits(d, op) == SnapshotFragmentOverhead(d.baseline) + DeltaOpWireLen(op) <= MaxDatagram
-------------------------------------------------------------------------------
(* The server's side *)

\* Mutant: the new chunk starts without its overhead.
PackWithoutOverhead(d, packed, op) ==
  LET len == DeltaOpWireLen(op)
  IN  IF ~Fits(d, op) THEN packed
      ELSE IF packed.len + len > MaxDatagram /\ packed.current # <<>> THEN
             [chunks |-> Append(packed.chunks, packed.current),
              current |-> <<op>>, len |-> len]
      ELSE [packed EXCEPT !.current = Append(@, op), !.len = @ + len]

\* One turn of the loop over a delta's operations: one that fits no datagram is
\* left out, one the current chunk has no room for starts the next chunk.
Pack(d, packed, op) ==
  LET len == DeltaOpWireLen(op)
  IN  IF ~Fits(d, op) THEN packed
      ELSE IF packed.len + len > MaxDatagram /\ packed.current # <<>> THEN
             [chunks |-> Append(packed.chunks, packed.current),
              current |-> <<op>>,
              len |-> SnapshotFragmentOverhead(d.baseline) + len]
      ELSE [packed EXCEPT !.current = Append(@, op), !.len = @ + len]

NothingPacked(d) ==
  [chunks |-> <<>>, current |-> <<>>, len |-> SnapshotFragmentOverhead(d.baseline)]

Packed(d) == FoldLeft(LAMBDA p, op : Pack(d, p, op), NothingPacked(d), d.ops)

\* A datagram limit below the overhead leaves every operation out.
SnapshotChunks(d) ==
  IF Packed(d).current = <<>> THEN Packed(d).chunks
                              ELSE Append(Packed(d).chunks, Packed(d).current)

SnapshotDelta(n, d) ==
  [kind |-> "SnapshotDelta", sequence |-> n, baseline |-> d.baseline, ops |-> d.ops]

\* Mutant: indices start at one.
FragmentIndexFromOne(i) == i

FragmentIndex(i) == i - 1

SnapshotFragments(n, d) ==
  LET chunks == SnapshotChunks(d)
  IN  {[kind |-> "SnapshotFragment", sequence |-> n, baseline |-> d.baseline,
        index |-> FragmentIndex(i), count |-> Len(chunks), ops |-> chunks[i]]
         : i \in DOMAIN chunks}

Whole(d) == EncodedDeltaLen(d) <= MaxDatagram

Messages(n, d) ==
  IF Whole(d) THEN {SnapshotDelta(n, d)}
  ELSE IF Len(SnapshotChunks(d)) > MaxFragments THEN {} ELSE SnapshotFragments(n, d)

\* send_snapshot_delta; send_datagram drops what exceeds the limit
SendSnapshotDelta(d) ==
  /\ Len(handed) < MaxSequence
  /\ handed' = Append(handed, d)
  /\ datagrams' = datagrams \cup
       {m \in Messages(Len(handed) + 1, d) : EncodedLen(m) <= MaxDatagram}
  /\ UNCHANGED <<fragments, order, applied, acks>>

-------------------------------------------------------------------------------
(* The client's side *)

OneOfSeveral(m) == m.kind = "SnapshotFragment" /\ m.count > 1

Apply(m) == applied' = applied \cup {<<m.sequence, op>> : op \in Range(m.ops)}

\* _apply_snapshot, and a fragment that is alone: applied and acknowledged
ReceiveSnapshot(m) ==
  /\ ~OneOfSeveral(m)
  /\ Apply(m)
  /\ acks' = acks \cup {m.sequence}
  /\ UNCHANGED <<server, fragments, order>>

Capacity == IF MaxPending > 1 THEN MaxPending ELSE 1

\* _track_fragment_sequence: the newcomer last, the oldest out when over capacity
Tracked(n) ==
  LET longer == Append(order, n)
      over == Len(longer) - Capacity
  IN  IF over > 0 THEN SubSeq(longer, over + 1, Len(longer)) ELSE longer

\* Mutant: a completed snapshot keeps its place.
ForgottenNot(tracked, n) == tracked

Forgotten(tracked, n) == RemoveFirst(tracked, n)

\* What is pending of the snapshot, nothing if it is new or its count changed.
Pending(m) ==
  IF m.sequence \in DOMAIN fragments /\ fragments[m.sequence].count = m.count
    THEN fragments[m.sequence]
    ELSE [count |-> m.count, parts |-> {}, received |-> 0]

\* Mutant: a repeated fragment counts again.
CountedAgain(m) ==
  [Pending(m) EXCEPT !.parts = @ \cup {m.index}, !.received = @ + 1]

Counted(m) ==
  IF m.index \in Pending(m).parts
    THEN Pending(m)
    ELSE [Pending(m) EXCEPT !.parts = @ \cup {m.index}, !.received = @ + 1]

\* _apply_snapshot_fragment
ReceiveFragment(m) ==
  LET n == m.sequence
      tracked == IF n \in DOMAIN fragments THEN order ELSE Tracked(n)
      kept == Drop(fragments, Range(order) \ Range(tracked))
      isNew == m.index \notin Pending(m).parts
  IN  /\ OneOfSeveral(m)
      /\ IF isNew THEN Apply(m) ELSE UNCHANGED applied
      /\ IF Counted(m).received < m.count
           THEN /\ fragments' = Put(kept, n, Counted(m))
                /\ order' = tracked
                /\ UNCHANGED acks
           ELSE /\ fragments' = Drop(kept, {n})
                /\ order' = Forgotten(tracked, n)
                /\ acks' = acks \cup {n}
      /\ UNCHANGED server

FragNext ==
  \/ \E d \in Handed : SendSnapshotDelta(d)
  \/ \E m \in datagrams : ReceiveSnapshot(m) \/ ReceiveFragment(m)

FragSpec == FragInit /\ [][FragNext]_fragVars

-------------------------------------------------------------------------------

(* Pending snapshots have at least one fragment and lack at least one.        *)
PendingSnapshot ==
  {p \in [count : 2..MaxFragments, parts : SUBSET (0..MaxFragments - 1),
          received : 1..MaxFragments - 1] : \A i \in p.parts : i < p.count}

(* What every variable may hold: the type invariant of transport and client.  *)
FragTypeOK ==
  /\ handed \in Seq(Handed) /\ Len(handed) <= MaxSequence
  /\ \A m \in datagrams : m.sequence \in DOMAIN handed /\ EncodedLen(m) <= MaxDatagram
  /\ DOMAIN fragments \subseteq SnapshotId
  /\ \A n \in DOMAIN fragments : fragments[n] \in PendingSnapshot
  /\ order \in Seq(SnapshotId)
  /\ \A a \in applied : a[1] \in DOMAIN handed
  /\ acks \subseteq DOMAIN handed

\* the operations of d that fit a datagram, whole or in fragments
SendableOps(d) == {op \in Range(d.ops) : Whole(d) \/ Fits(d, op)}

(* An acknowledged snapshot is complete: whatever was lost, repeated,         *)
(* reordered or evicted, the client has applied every operation of it that    *)
(* fits a datagram.  An operation that fits none is missing for good.         *)
AckedOnlyWhenApplied ==
  \A n \in acks : \A op \in SendableOps(handed[n]) : <<n, op>> \in applied

(* A snapshot that leaves in fragments can be completed: every fragment its   *)
(* count promises is within the limit of a datagram, and together they carry  *)
(* each operation that fits one.                                              *)
AllFragmentsLeave ==
  \A m \in datagrams : m.kind = "SnapshotFragment" =>
    LET sent == {other \in datagrams : other.sequence = m.sequence}
    IN  /\ {other.index : other \in sent} = 0..(m.count - 1)
        /\ UNION {Range(other.ops) : other \in sent} = SendableOps(handed[m.sequence])

(* The client's two tables agree, within their capacity: each pending         *)
(* snapshot is tracked once, and counts the fragments it holds.  So late      *)
(* repetitions of completed snapshots, which become pending again, cannot     *)
(* pile up.                                                                   *)
PendingIsTracked ==
  /\ Range(order) = DOMAIN fragments
  /\ \A i, j \in DOMAIN order : i # j => order[i] # order[j]
  /\ Len(order) <= Capacity
  /\ \A n \in DOMAIN fragments : fragments[n].received = Cardinality(fragments[n].parts)
===============================================================================
