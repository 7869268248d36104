---------------------------- MODULE GodotProtocol ----------------------------
(***************************************************************************)
(* The other side of the wire, written a second time in GDScript, and the  *)
(* two payloads the demo's sides exchange inside the protocol's messages.  *)
(* Reading past a field, where the script would get other bytes or zeros,  *)
(* is an error of the reader here: it must not happen on a server's frame. *)
(***************************************************************************)
EXTENDS Codec

\* encode_ack and encode_input with their writers; of a position only that it comes
\* back whole, as one value in three fields of four bytes, matters
GodotHeader(tag) == <<Field(2, "GW"), Field(1, 2), Field(1, tag)>>

GodotAck(sequence) == GodotHeader(1) \o <<Field(8, sequence)>>

PositionFields(position) == [i \in 1..3 |-> Field(4, position[i])]

InputPayload(position, yaw, fire) ==
  <<Field(4, "GWCI"), Field(1, 2)>> \o PositionFields(position)
    \o <<Field(4, yaw), Field(1, IF fire THEN 1 ELSE 0)>>

GodotInput(position, yaw, fire) ==
  LET payload == InputPayload(position, yaw, fire)
  IN  GodotHeader(2) \o <<Field(4, Bytes(payload)), Field(Bytes(payload), payload)>>

\* the demo server's parse_client_input; version 1 has no flags
NoInput == [fire |-> FALSE]

ParseClientInput(payload) ==
  IF \/ Bytes(payload) < 21 \/ payload[1] # Field(4, "GWCI") \/ payload[2].value \notin {1, 2}
    THEN NoInput
    ELSE [position |-> [i \in 1..3 |-> payload[2 + i].value], yaw |-> payload[6].value,
          fire |-> /\ payload[2].value >= 2
                   /\ Bytes(payload) > 21 /\ payload[7].value % 2 = 1]

-------------------------------------------------------------------------------
(* decode_server_packet.  Neither limits nor the end of a packet are checked. *)

GodotBaseline(r) ==
  LET flag == ReadExact(r, 1)
  IN  IF LastRead(flag) = 1 THEN ReadExact(Unread(flag), 8)
                            ELSE [Unread(flag) EXCEPT !.read = Append(@, NoBaseline)]

GodotOp(r) ==
  LET head == ReadExact(ReadExact(r, 1), 8)
      tag == LastRead(Unread(head))
      entity == LastRead(head)
      len == ReadExact(head, 4)
      body == ReadExact(Unread(len), LastRead(len))
  IN  IF Failed(head) THEN head ELSE
      CASE tag \in {1, 2} ->
             [body EXCEPT !.ops = Append(@, WriteOp(IF tag = 1 THEN "SpawnOrEnter" ELSE "Update",
                                                    entity, LastRead(body)))]
        [] tag = 3 -> [head EXCEPT !.ops = Append(@, DespawnOp(entity))]
        [] OTHER -> Fail(head, "unknown op")

GodotOps(r) ==
  LET count == ReadExact(r, 4)
  IN  FoldLeft(LAMBDA s, n : GodotOp(s), count, [n \in 1..LastRead(count) |-> n])

GodotMetricsFields == <<"tick", "clients", "entities", "aoi_candidates", "selected_updates",
  "selected_full_lod_updates", "selected_reduced_lod_updates", "selected_minimal_lod_updates",
  "deferred_updates", "bytes_scheduled", "deferred_bytes">>

GodotDecoded(r, message) ==
  [error |-> r.error, message |-> IF Failed(r) THEN NoMessage ELSE message]

DecodeSnapshot(head) ==
  LET r == GodotOps(GodotBaseline(ReadExact(head, 8)))
  IN  GodotDecoded(r, DeltaMessage(r.read[4], r.read[5], r.ops))

DecodeSnapshotFragment(head) ==
  LET from == GodotBaseline(ReadExact(head, 8))
      r == GodotOps(ReadExact(ReadExact(from, 2), 2))
  IN  GodotDecoded(r, FragmentMessage(r.read[4], r.read[5], r.read[6], r.read[7], r.ops))

DecodeMetrics(head) ==
  LET r == FoldLeft(LAMBDA s, field : ReadExact(s, 8), head, GodotMetricsFields)
  IN  GodotDecoded(r, MetricsMessage([field \in Range(GodotMetricsFields) |->
        r.read[3 + PlaceIn(GodotMetricsFields, field)]]))

DecodeServerPacket(frame) ==
  LET head == ReadExact(ReadExact(ReadExact(NewReader(frame), 2), 1), 1)
  IN  IF Bytes(frame) < 4 \/ head.read[1] # "GW" \/ head.read[2] # 2
      THEN GodotDecoded(Fail(head, "invalid"), NoMessage) ELSE
      CASE head.read[3] = 129 -> DecodeSnapshot(head)
        [] head.read[3] = 130 -> DecodeMetrics(head)
        [] head.read[3] = 131 -> DecodeSnapshotFragment(head)
        [] OTHER -> GodotDecoded(Fail(head, "unknown tag"), NoMessage)

-------------------------------------------------------------------------------
(* The demo's entity payloads: each tier leaves out what the one above sends  *)

EncodeDemoPayload(p) ==
  <<Field(4, "GWPD"), Field(1, 1), Field(1, p.kind), Field(1, p.team), Field(1, p.lod)>>
    \o PositionFields(p.position) \o <<Field(4, p.yaw)>>
    \o (IF p.lod \in {0, 1} THEN <<Field(4, p.radius)>> ELSE <<>>)
    \o (IF p.lod = 0 THEN <<Field(4, p.phase), Field(4, p.style)>> ELSE <<>>)

DefaultRadius == 85   \* hundredths

\* Nothing, as a phase of -1, where the payload is not one of the demo's.
DecodeDemoPayload(payload) ==
  LET r == FoldLeft(LAMBDA s, w : ReadExact(s, w), NewReader(payload), <<4, 1, 1, 1, 1, 4, 4, 4, 4>>)
      lod == r.read[5]
      radius == IF lod \in {0, 1} THEN ReadExact(r, 4) ELSE r
      all == IF lod = 0 THEN ReadExact(ReadExact(radius, 4), 4) ELSE radius
  IN  IF Bytes(payload) < 24 \/ r.read[1] # "GWPD" \/ r.read[2] # 1
        THEN [phase |-> -1]
        ELSE [kind |-> r.read[3], team |-> r.read[4], lod |-> lod,
              position |-> SubSeq(r.read, 6, 8), yaw |-> r.read[9],
              radius |-> IF lod \in {0, 1} THEN all.read[10] ELSE DefaultRadius,
              phase |-> IF lod = 0 THEN all.read[11] ELSE 0,
              style |-> IF lod = 0 THEN all.read[12] ELSE 0]
===============================================================================
