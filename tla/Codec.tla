-------------------------------- MODULE Codec --------------------------------
(***************************************************************************)
(* gridwake-protocol: how messages are written as frames, how frames are   *)
(* read and refused, and how long the code reckons a frame to be.          *)
(*                                                                         *)
(* A frame, and a payload in it, is the sequence of its fields, each of    *)
(* some width in bytes.  Frames come from an encoder and may be cut short, *)
(* extended or relabelled, so that a reader meets the fields it expects    *)
(* until one is missing or short.                                          *)
(***************************************************************************)
EXTENDS Integers, SequencesExt

CONSTANTS
  MaxLength, MaxCount,      \* u32::MAX, of a payload's bytes and a delta's operations
  MaxPayloadLen, MaxOps     \* DecodeConfig

ASSUME CodecAssumption == {MaxLength, MaxCount, MaxPayloadLen, MaxOps} \subseteq Nat

Field(w, v) == [width |-> w, value |-> v]
Bytes(frame) == FoldLeft(LAMBDA n, field : n + field.width, 0, frame)

NoBaseline == -1
NoError == "None"
NoMessage == [kind |-> "None"]

AckSnapshot(sequence) == [kind |-> "AckSnapshot", sequence |-> sequence]
Input(payload) == [kind |-> "Input", payload |-> payload]

DeltaMessage(sequence, baseline, ops) ==
  [kind |-> "SnapshotDelta", sequence |-> sequence, baseline |-> baseline, ops |-> ops]
FragmentMessage(sequence, baseline, index, count, ops) ==
  [kind |-> "SnapshotFragment", sequence |-> sequence, baseline |-> baseline,
   fragment_index |-> index, fragment_count |-> count, ops |-> ops]

MetricsFields == <<"tick", "clients", "entities", "aoi_candidates", "selected_updates",
  "selected_full_lod_updates", "selected_reduced_lod_updates", "selected_minimal_lod_updates",
  "deferred_updates", "bytes_scheduled", "deferred_bytes">>
PlaceIn(fields, field) == CHOOSE i \in DOMAIN fields : fields[i] = field
MetricsMessage(values) == [kind |-> "Metrics", values |-> values]

Tag == [AckSnapshot |-> 1, Input |-> 2, SnapshotDelta |-> 129, Metrics |-> 130,
        SnapshotFragment |-> 131]
OpTag == [SpawnOrEnter |-> 1, Update |-> 2, DespawnOrExit |-> 3]

DespawnOp(e) == [op |-> "DespawnOrExit", entity |-> e]
WriteOp(op, e, payload) == [op |-> op, entity |-> e, payload |-> payload]
HasPayload(op) == op.op # "DespawnOrExit"

-------------------------------------------------------------------------------
(* Lengths, checked and reckoned before anything is written *)

EncodedBytesLen(payload) == 4 + Bytes(payload)

EncodedOpLen(op) == 1 + 8 + (IF HasPayload(op) THEN EncodedBytesLen(op.payload) ELSE 0)

\* Mutant: a fragment's index and count are not reckoned.
LenWithoutIndex(m) ==
  CASE m.kind = "AckSnapshot" -> 4 + 8
    [] m.kind = "Input" -> 4 + EncodedBytesLen(m.payload)
    [] m.kind = "Metrics" -> 4 + 11 * 8
    [] OTHER -> 4 + 8 + 1 + 4 + (IF m.baseline # NoBaseline THEN 8 ELSE 0)
                  + FoldLeft(LAMBDA n, op : n + EncodedOpLen(op), 0, m.ops)

EncodedMessageLen(m) ==
  CASE m.kind = "AckSnapshot" -> 4 + 8
    [] m.kind = "Input" -> 4 + EncodedBytesLen(m.payload)
    [] m.kind = "Metrics" -> 4 + 11 * 8
    [] OTHER -> 4 + 8 + 1 + 4 + (IF m.baseline # NoBaseline THEN 8 ELSE 0)
                  + (IF m.kind = "SnapshotFragment" THEN 2 + 2 ELSE 0)
                  + FoldLeft(LAMBDA n, op : n + EncodedOpLen(op), 0, m.ops)

\* the first of the checked conversions that fails
PayloadsOf(m) ==
  CASE m.kind = "Input" -> {m.payload}
    [] m.kind \in {"AckSnapshot", "Metrics"} -> {}
    [] OTHER -> {op.payload : op \in {op \in Range(m.ops) : HasPayload(op)}}

EncodeError(m) ==
  IF m.kind \in {"SnapshotDelta", "SnapshotFragment"} /\ Len(m.ops) > MaxCount
    THEN "CountOverflow"
    ELSE IF \E payload \in PayloadsOf(m) : Bytes(payload) > MaxLength
           THEN "LengthOverflow" ELSE NoError

-------------------------------------------------------------------------------
(* Writing *)

Header(kind) == <<Field(2, "GW"), Field(1, 2), Field(1, Tag[kind])>>

\* write_bytes: an empty payload leaves no field
BytesFields(payload) ==
  <<Field(4, Bytes(payload))>> \o (IF payload = <<>> THEN <<>> ELSE <<Field(Bytes(payload), payload)>>)

BaselineFields(baseline) ==
  IF baseline = NoBaseline THEN <<Field(1, 0)>> ELSE <<Field(1, 1), Field(8, baseline)>>

OpFields(op) ==
  <<Field(1, OpTag[op.op]), Field(8, op.entity)>>
    \o (IF HasPayload(op) THEN BytesFields(op.payload) ELSE <<>>)

OpsFields(ops) ==
  <<Field(4, Len(ops))>> \o FoldLeft(LAMBDA fields, op : fields \o OpFields(op), <<>>, ops)

DeltaSnapshotFields(m) == <<Field(8, m.sequence)>> \o BaselineFields(m.baseline) \o OpsFields(m.ops)

SnapshotFragmentFields(m) ==
  <<Field(8, m.sequence)>> \o BaselineFields(m.baseline)
    \o <<Field(2, m.fragment_index), Field(2, m.fragment_count)>> \o OpsFields(m.ops)

Encode(m) == Header(m.kind) \o
  CASE m.kind = "AckSnapshot" -> <<Field(8, m.sequence)>>
    [] m.kind = "Input" -> BytesFields(m.payload)
    [] m.kind = "SnapshotDelta" -> DeltaSnapshotFields(m)
    [] m.kind = "SnapshotFragment" -> SnapshotFragmentFields(m)
    [] m.kind = "Metrics" ->
         [i \in DOMAIN MetricsFields |-> Field(8, m.values[MetricsFields[i]])]

-------------------------------------------------------------------------------
(* Reading.  A reader has the fields that are left, the values and the        *)
(* operations it has read, and the first error, after which it reads no more. *)

NewReader(frame) == [rest |-> frame, read |-> <<>>, ops |-> <<>>, error |-> NoError]

Failed(r) == r.error # NoError
Fail(r, error) == [r EXCEPT !.error = error]
Check(r, holds, error) == IF Failed(r) \/ holds THEN r ELSE Fail(r, error)

\* read_exact, and the numbers read with it
ReadExact(r, w) ==
  IF Failed(r) THEN r
  ELSE IF w = 0 THEN [r EXCEPT !.read = Append(@, <<>>)]
  ELSE IF r.rest # <<>> /\ Head(r.rest).width = w
         THEN [r EXCEPT !.rest = Tail(@), !.read = Append(@, Head(r.rest).value)]
         ELSE Fail(r, "UnexpectedEof")

LastRead(r) == Last(r.read)
Unread(r) == [r EXCEPT !.read = Front(@)]

ReadHeader(r) ==
  LET magic == ReadExact(r, 2)
      version == ReadExact(Check(magic, LastRead(magic) = "GW", "InvalidMagic"), 1)
  IN  ReadExact(Check(version, LastRead(version) = 2, "UnsupportedVersion"), 1)

ReadBytes(r) ==
  LET len == ReadExact(r, 4)
      ok == Check(len, LastRead(len) <= MaxPayloadLen, "PayloadTooLarge")
  IN  IF Failed(ok) THEN ok ELSE ReadExact(Unread(ok), LastRead(ok))

\* what is read of a baseline is one value
ReadBaseline(r) ==
  LET flag == ReadExact(r, 1)
  IN  IF Failed(flag) THEN flag ELSE
      CASE LastRead(flag) = 0 -> [Unread(flag) EXCEPT !.read = Append(@, NoBaseline)]
        [] LastRead(flag) = 1 -> ReadExact(Unread(flag), 8)
        [] OTHER -> Fail(flag, "UnknownDeltaOpTag")

ReadOp(r) ==
  LET head == ReadExact(ReadExact(r, 1), 8)
      tag == LastRead(Unread(head))
      entity == LastRead(head)
      body == ReadBytes(head)
  IN  IF Failed(head) THEN head ELSE
      CASE tag = 3 -> [head EXCEPT !.ops = Append(@, DespawnOp(entity))]
        [] tag \in {1, 2} ->
             IF Failed(body) THEN body
             ELSE [body EXCEPT !.ops = Append(@, WriteOp(IF tag = 1 THEN "SpawnOrEnter" ELSE "Update",
                                                         entity, LastRead(body)))]
        [] OTHER -> Fail(head, "UnknownDeltaOpTag")

ReadOps(r) ==
  LET count == ReadExact(r, 4)
      ok == Check(count, LastRead(count) <= MaxOps, "TooManyDeltaOps")
  IN  IF Failed(ok) THEN ok
      ELSE FoldLeft(LAMBDA s, n : ReadOp(s), ok, [n \in 1..LastRead(ok) |-> n])

\* Mutant: bytes after the message are ignored.
FinishAnyway(r) == r

Finish(r) == Check(r, r.rest = <<>>, "TrailingBytes")

Decoded(r, message) ==
  IF Failed(Finish(r)) THEN [error |-> Finish(r).error, message |-> NoMessage]
                       ELSE [error |-> NoError, message |-> message]

DecodeClientMessage(frame) ==
  LET head == ReadHeader(NewReader(frame))
      tag == LastRead(head)
      sequence == ReadExact(head, 8)
      payload == ReadBytes(head)
  IN  IF Failed(head) THEN Decoded(head, NoMessage) ELSE
      CASE tag = Tag.AckSnapshot -> Decoded(sequence, AckSnapshot(LastRead(sequence)))
        [] tag = Tag.Input -> Decoded(payload, Input(LastRead(payload)))
        [] OTHER -> Decoded(Fail(head, "UnknownMessageTag"), NoMessage)

\* what follows a head of three values: sequence and baseline are the next two
ReadDeltaSnapshot(head) ==
  LET r == ReadOps(ReadBaseline(ReadExact(head, 8)))
  IN  Decoded(r, DeltaMessage(r.read[4], r.read[5], r.ops))

ReadSnapshotFragment(head) ==
  LET from == ReadBaseline(ReadExact(head, 8))
      r == ReadOps(ReadExact(ReadExact(from, 2), 2))
  IN  Decoded(r, FragmentMessage(r.read[4], r.read[5], r.read[6], r.read[7], r.ops))

ReadMetrics(head) ==
  LET r == FoldLeft(LAMBDA s, field : ReadExact(s, 8), head, MetricsFields)
  IN  Decoded(r, MetricsMessage([field \in Range(MetricsFields) |->
        r.read[3 + PlaceIn(MetricsFields, field)]]))

DecodeServerMessage(frame) ==
  LET head == ReadHeader(NewReader(frame))
      tag == LastRead(head)
  IN  IF Failed(head) THEN Decoded(head, NoMessage) ELSE
      CASE tag = Tag.SnapshotDelta -> ReadDeltaSnapshot(head)
        [] tag = Tag.SnapshotFragment -> ReadSnapshotFragment(head)
        [] tag = Tag.Metrics -> ReadMetrics(head)
        [] OTHER -> Decoded(Fail(head, "UnknownMessageTag"), NoMessage)
===============================================================================
