--------------------------- MODULE CodecTransport ---------------------------
(***************************************************************************)
(* gridwake-server's CodecTransport around a MemoryByteTransport: messages *)
(* are encoded when they are sent; received frames are decoded when they   *)
(* are drained, and the damaged ones are dropped with an error.  The       *)
(* clients are Godot clients, whose protocol is written separately, and    *)
(* ones that use the Rust codec.                                           *)
(***************************************************************************)
EXTENDS GodotProtocol, FiniteSets

CONSTANTS
  Peer,             \* the clients of this transport
  ServerMessages,   \* what the runtime may send
  Sequences,        \* SnapshotIds clients acknowledge
  DemoPayloads,     \* what demo entities look like
  GodotInputs,      \* positions, yaws and triggers of Godot clients
  Payloads,         \* input payloads of the other clients
  MaxHeld           \* bound of the model on the frames and errors held

ASSUME CodecTransportAssumption == MaxHeld \in Nat \ {0}

IsSequence(s) == Len(s) \in Nat /\ s = [i \in 1..Len(s) |-> s[i]]

\* no field of a payload is empty
IsPayload(p) == IsSequence(p) /\ \A i \in DOMAIN p : p[i].width \in Nat \ {0}

\* DeltaOp: an operation has the fields of its kind
IsOp(op) ==
  \/ op = DespawnOp(op.entity)
  \/ /\ op.op \in {"SpawnOrEnter", "Update"}
     /\ op = WriteOp(op.op, op.entity, op.payload) /\ IsPayload(op.payload)

IsOps(ops) == IsSequence(ops) /\ \A i \in DOMAIN ops : IsOp(ops[i])

\* ServerMessage: so has a message
IsServerMessage(m) ==
  \/ /\ m.kind = "Metrics"
     /\ m = MetricsMessage([field \in Range(MetricsFields) |-> m.values[field]])
  \/ /\ m.kind = "SnapshotDelta"
     /\ m = DeltaMessage(m.sequence, m.baseline, m.ops) /\ IsOps(m.ops)
  \/ /\ m.kind = "SnapshotFragment"
     /\ m = FragmentMessage(m.sequence, m.baseline, m.fragment_index, m.fragment_count, m.ops)
     /\ IsOps(m.ops)

IsPosition(position) == position = [i \in 1..3 |-> position[i]]

ASSUME MessagesAssumption ==
  /\ \A p \in Payloads : IsPayload(p)
  /\ \A m \in ServerMessages : IsServerMessage(m)
  /\ \A i \in GodotInputs : IsPosition(i.position) /\ i.fire \in BOOLEAN
  /\ \A p \in DemoPayloads :
       /\ IsPosition(p.position)
       /\ p = [kind |-> p.kind, team |-> p.team, lod |-> p.lod, position |-> p.position,
               yaw |-> p.yaw, radius |-> p.radius, phase |-> p.phase, style |-> p.style]

VARIABLES
  receivedBytes,  \* MemoryByteTransport::received, each frame with the message it was
                  \* written for, NoMessage if it was damaged or no server should read it
  codecErrors,    \* CodecTransport::errors
  lastCall        \* the last call with its arguments and its result

codecVars == <<receivedBytes, codecErrors, lastCall>>

NoCall == [call |-> "None"]

EncodeServerError(c, error) == [kind |-> "EncodeServer", client |-> c, error |-> error]
DecodeClientError(c, error) == [kind |-> "DecodeClient", client |-> c, error |-> error]

CodecInit ==
  /\ receivedBytes = <<>>
  /\ codecErrors = <<>>
  /\ lastCall = NoCall

Room == Len(receivedBytes) + Len(codecErrors) < MaxHeld

\* bound of the model: sending, which depends on nothing held, is tried when nothing is
NothingHeld == receivedBytes = <<>> /\ codecErrors = <<>>

-------------------------------------------------------------------------------
(* Frames as clients send them, and what becomes of them on the way *)

Readable(m) == m.kind = "Input" => Bytes(m.payload) <= MaxPayloadLen

Written(frame, m) == [frame |-> frame, message |-> IF Readable(m) THEN m ELSE NoMessage]

GodotFrames ==
  {Written(GodotAck(n), AckSnapshot(n)) : n \in Sequences}
    \cup {Written(GodotInput(i.position, i.yaw, i.fire),
                  Input(InputPayload(i.position, i.yaw, i.fire))) : i \in GodotInputs}

CutOff(frame) == {SubSeq(frame, 1, n) : n \in 0..Len(frame) - 1}
Shortened(frame) == {[frame EXCEPT ![i].width = @ - 1] : i \in {Len(frame)} \cap
                                                           {j \in DOMAIN frame : frame[j].width > 1}}
Relabelled(frame) == {[frame EXCEPT ![1].value = "XX"], [frame EXCEPT ![2].value = 3],
                      [frame EXCEPT ![3].value = Tag.SnapshotDelta]}

Damaged(frame) == CutOff(frame) \cup Shortened(frame) \cup Relabelled(frame)
                    \cup {Append(frame, Field(1, 0))}

-------------------------------------------------------------------------------
(* Transport::send *)
Send(c, m) ==
  /\ NothingHeld
  /\ IF EncodeError(m) = NoError
       THEN /\ UNCHANGED codecErrors
            /\ lastCall' = [call |-> "send", client |-> c, message |-> m, frame |-> Encode(m)]
       ELSE /\ codecErrors' = Append(codecErrors, EncodeServerError(c, EncodeError(m)))
            /\ lastCall' = NoCall
  /\ UNCHANGED receivedBytes

PushReceivedBytes(c, written) ==
  /\ Room
  /\ receivedBytes' = Append(receivedBytes,
       [client |-> c, bytes |-> written.frame, message |-> written.message])
  /\ lastCall' = NoCall
  /\ UNCHANGED codecErrors

\* a message that cannot be encoded is not pushed
PushReceivedMessage(c, m) ==
  EncodeError(m) = NoError /\ PushReceivedBytes(c, Written(Encode(m), m))

PushDamaged(c, written) ==
  \E frame \in Damaged(written.frame) :
    PushReceivedBytes(c, [frame |-> frame, message |-> NoMessage])

\* one turn of drain_received: what cannot be decoded leaves an error
Drained(out, r) ==
  LET decoded == DecodeClientMessage(r.bytes)
  IN  IF decoded.error = NoError
        THEN [out EXCEPT !.messages =
                Append(@, [client |-> r.client, message |-> decoded.message])]
        ELSE [out EXCEPT !.errors = Append(@, DecodeClientError(r.client, decoded.error))]

DrainReceived ==
  LET out == FoldLeft(Drained, [messages |-> <<>>, errors |-> codecErrors], receivedBytes)
  IN  /\ receivedBytes' = <<>>
      /\ codecErrors' = out.errors
      /\ lastCall' = [call |-> "drain_received", messages |-> out.messages]

TakeCodecErrors ==
  /\ codecErrors' = <<>>
  /\ lastCall' = NoCall
  /\ UNCHANGED receivedBytes

CodecNext ==
  \/ \E c \in Peer :
       \/ \E m \in ServerMessages : Send(c, m)
       \/ \E written \in GodotFrames : PushReceivedBytes(c, written) \/ PushDamaged(c, written)
       \/ \E n \in Sequences : PushReceivedMessage(c, AckSnapshot(n))
       \/ \E payload \in Payloads : PushReceivedMessage(c, Input(payload))
  \/ DrainReceived
  \/ TakeCodecErrors

CodecSpec == CodecInit /\ [][CodecNext]_codecVars

-------------------------------------------------------------------------------

(* What every variable may hold: the type invariant of the transport.         *)
CodecTypeOK ==
  /\ \A i \in DOMAIN receivedBytes : receivedBytes[i].client \in Peer
  /\ \A i \in DOMAIN codecErrors : codecErrors[i].client \in Peer
  /\ Len(receivedBytes) + Len(codecErrors) <= MaxHeld
  /\ lastCall.call \in {"None", "send", "drain_received"}

\* the messages of the frames that were not damaged
Intact(messages, r) ==
  IF r.message = NoMessage THEN messages
  ELSE Append(messages, [client |-> r.client, message |-> r.message])

(* A drain returns the messages of the intact frames, whichever side's codec  *)
(* wrote them, in the order they came in and with their clients, and one      *)
(* error for every frame that was cut short, extended or relabelled: no       *)
(* damaged frame passes for a message, and none disturbs its neighbours.      *)
DrainIsExact ==
  [][ receivedBytes # <<>> /\ receivedBytes' = <<>> =>
        LET intact == FoldLeft(Intact, <<>>, receivedBytes)
        IN  /\ lastCall'.messages = intact
            /\ Len(codecErrors') - Len(codecErrors) = Len(receivedBytes) - Len(intact) ]_codecVars

\* what a client may know of a demo entity from a payload of its tier
Shown(p) ==
  [p EXCEPT !.radius = IF p.lod \in {0, 1} THEN @ ELSE DefaultRadius,
            !.phase = IF p.lod = 0 THEN @ ELSE 0,
            !.style = IF p.lod = 0 THEN @ ELSE 0]

(* The two implementations of the protocol mean the same by a frame: what the *)
(* server sends is as long as it reckoned, the Godot client reads the message *)
(* out of it, and so does the Rust client unless one of its limits is         *)
(* exceeded, which is then the error it reports.  Inside the messages, the    *)
(* client sees an entity as its tier lets it, and the server sees in an input *)
(* what the client put there.                                                 *)
SidesAgree ==
  /\ lastCall.call = "send" =>
       LET m == lastCall.message
           rust == DecodeServerMessage(lastCall.frame)
       IN  /\ Bytes(lastCall.frame) = EncodedMessageLen(m)
           /\ DecodeServerPacket(lastCall.frame) = [error |-> NoError, message |-> m]
           /\ IF m.kind # "Metrics" /\ Len(m.ops) > MaxOps
                THEN rust.error = "TooManyDeltaOps"
                ELSE IF \E payload \in PayloadsOf(m) : Bytes(payload) > MaxPayloadLen
                       THEN rust.error = "PayloadTooLarge"
                       ELSE rust = [error |-> NoError, message |-> m]
           /\ \A p \in DemoPayloads :
                EncodeDemoPayload(p) \in PayloadsOf(m) => DecodeDemoPayload(EncodeDemoPayload(p)) = Shown(p)
  /\ lastCall.call = "drain_received" =>
       \A i \in GodotInputs : \A n \in DOMAIN lastCall.messages :
         lastCall.messages[n].message = Input(InputPayload(i.position, i.yaw, i.fire)) =>
           ParseClientInput(lastCall.messages[n].message.payload) =
             [position |-> i.position, yaw |-> i.yaw, fire |-> i.fire]
===============================================================================
